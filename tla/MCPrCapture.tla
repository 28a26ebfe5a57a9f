---------------------------- MODULE MCPrCapture -----------------------------
(* Small instances of PrCapture for TLC. *)
EXTENDS PrCapture

\* Two files at the merge base, a third that may be added.
MCPaths == 1 .. 3
MCContents == {"x", "y"}
MCBefore == <<"x", "x", "absent">>
MCHeads == {"h1", "h2"}

=============================================================================
