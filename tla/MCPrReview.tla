----------------------------- MODULE MCPrReview -----------------------------
(* A small instance of PrReview for TLC.  Runs, commits and models are        *)
(* interchangeable, and no property tells one from another.                   *)
EXTENDS PrReview, TLC

Symmetry ==
    Permutations(Runs) \cup Permutations(Heads)
        \cup Permutations(Bases) \cup Permutations(Models)

=============================================================================
