------------------------------ MODULE MainGate ------------------------------
(***************************************************************************)
(* The gates on the main branch, scripts/gates.sh: the first job asks that  *)
(* main's head is the released commit; every later gate accepts a head that *)
(* descends from it and has the component and the caller's workflow as they *)
(* were.  It reads the head and compares two commits with a second call,    *)
(* while others merge, revert and force-push.  GitHub's answer lists at     *)
(* most Limit files, pairs what it takes for a rename, and may be unusable. *)
(***************************************************************************)
EXTENDS Naturals, FiniteSets, SequencesExt

CONSTANTS
    Paths,           \* file names, as sequences of their components
    Contents,        \* what a path can hold, "absent" included
    Tagged,          \* the tree of the released commit
    SourceDirectory, \* the released component; <<>> is a release of the root
    Caller,          \* the workflow file the run was started from
    Limit,           \* GitHub lists no more changed files than this
    Gates            \* calls of gate_main_contains in one release

Trees == [Paths -> Contents]

MainGateAssumption ==
    /\ IsFiniteSet(Paths)
    /\ Paths \cup {SourceDirectory} \subseteq Seq(STRING)
    /\ Tagged \in Trees
    /\ Limit \in Nat \ {0}
    /\ Gates \in Nat \ {0}

VARIABLES
    main, \* GitHub: the head of main, its tree and how it follows the commit
    gate, \* gates passed
    pc,   \* the gate's next call, or how the release ended
    seen  \* the head the last gate read

vars == <<main, gate, pc, seen>>

\* The released commit itself, a descendant, or a head it is not an ancestor of.
Relations == {"same", "ahead", "apart"}

Heads == {h \in [tree : Trees, rel : Relations] : h.rel = "same" => h.tree = Tagged}

TypeOK ==
    /\ main \in Heads
    /\ gate \in 0 .. Gates + 1
    /\ pc \in {"head", "compare", "passed", "failed", "error"}
    /\ seen \in Heads

Init ==
    /\ main \in Heads
    /\ gate = 0
    /\ pc = "head"
    /\ seen = main

-----------------------------------------------------------------------------
(* GitHub *)

\* Merges, reverts and empty commits on top of the head.
Merge ==
    /\ \E tree \in Trees :
         main' = [tree |-> tree, rel |-> IF main.rel = "apart" THEN "apart" ELSE "ahead"]
    /\ UNCHANGED <<gate, pc, seen>>

\* A force push, to the released commit or to another history.
ForcePush ==
    /\ main' \in {h \in Heads : h.rel # "ahead"}
    /\ UNCHANGED <<gate, pc, seen>>

Changed(tree) == {p \in Paths : tree[p] # Tagged[p]}
Added(tree)   == {p \in Changed(tree) : Tagged[p] = "absent"}
Removed(tree) == {p \in Changed(tree) : tree[p] = "absent"}

\* What rename detection may pair: added paths with the removed ones they had.
Renames(tree) ==
    {f \in UNION {[S -> Removed(tree)] : S \in SUBSET Added(tree)} :
        \A p, q \in DOMAIN f : f[p] = f[q] => p = q}

\* An entry has its own name and, renamed, the name it had.
Entry(p, q) == [filename |-> p, renamed |-> p # q, previous |-> q]

Files(tree, f) ==
    {Entry(p, f[p]) : p \in DOMAIN f}
        \cup {Entry(p, p) : p \in Changed(tree) \ (DOMAIN f \cup {f[p] : p \in DOMAIN f})}

\* The listing of a comparison: complete up to the limit, cut there.
Listed(files, listing) ==
    /\ listing \subseteq files
    /\ IF Cardinality(files) > Limit THEN Cardinality(listing) = Limit ELSE listing = files

-----------------------------------------------------------------------------
(* The gates *)

\* Mutant: a path is owned as soon as it is next to the component.
OwnedAnyDepth(p) == p = Caller \/ Len(SourceDirectory) <= Len(p)

Owned(p) ==
    \/ p = Caller
    \/ SourceDirectory = <<>>
    \/ IsPrefix(SourceDirectory, p)

\* Mutant: a renamed file counts under its new name only.
NamesNewOnly(e) == {e.filename}

Names(e) == IF e.renamed THEN {e.filename, e.previous} ELSE {e.filename}

\* The verdict on a comparison, in the order the code asks; lost are the renames
\* that do not name their source.
Answer(rel, listing, lost) ==
    IF rel = "apart" \/ Cardinality(listing) >= Limit THEN "failed"
    ELSE IF lost # {} THEN "error"
    ELSE IF \E e \in listing : \E p \in Names(e) : Owned(p) THEN "failed" ELSE "ok"

\* The release goes on to its next gate, or ends here.
Conclude(answer) ==
    IF answer = "ok"
    THEN gate' = gate + 1 /\ pc' = IF gate = Gates THEN "passed" ELSE "head"
    ELSE pc' = answer /\ UNCHANGED gate

\* gate_main_matches.
HeadMatches ==
    /\ gate = 0 /\ pc = "head"
    /\ seen' = main
    /\ Conclude(IF main.rel = "same" THEN "ok" ELSE "failed")
    /\ UNCHANGED main

\* gate_main_contains: the head that is the commit itself needs no comparison.
ReadHead ==
    /\ gate > 0 /\ pc = "head"
    /\ seen' = main
    /\ \/ main.rel = "same" /\ Conclude("ok")
       \/ main.rel # "same" /\ pc' = "compare" /\ UNCHANGED gate
    /\ UNCHANGED main

\* The comparison is of two commits, whatever main has become since.
Compare ==
    /\ pc = "compare"
    /\ \E f \in Renames(seen.tree) :
         \E listing \in SUBSET Files(seen.tree, f) :
            /\ Listed(Files(seen.tree, f), listing)
            /\ \E lost \in SUBSET {e \in listing : e.renamed} :
                 Conclude(Answer(seen.rel, listing, lost))
    /\ UNCHANGED <<main, seen>>

CallFails ==
    /\ pc \in {"head", "compare"}
    /\ pc' = "error"
    /\ UNCHANGED <<main, gate, seen>>

Next == Merge \/ ForcePush \/ HeadMatches \/ ReadHead \/ Compare \/ CallFails

Spec == Init /\ [][Next]_vars

-----------------------------------------------------------------------------
(* Properties *)

Inside(p) == \A i \in 1 .. Len(SourceDirectory) : i <= Len(p) /\ p[i] = SourceDirectory[i]

Unchanged(tree) == \A p \in Paths : p = Caller \/ Inside(p) => tree[p] = Tagged[p]

\* A gate that let the release go on saw a head that descends from the commit
\* and in which the component and the caller's workflow are what the commit has:
\* no rename, no cut or unreadable listing hides a change (lines 135-142).
PassedUnchanged ==
    pc = "passed" \/ (pc = "head" /\ gate > 0)
        => seen.rel # "apart" /\ Unchanged(seen.tree)

\* "An unrelated merge during the run no longer fails it": past the first job, a
\* release is refused only over a head that is no descendant, that changes
\* something owned or that changes too many files to list (lines 135-137).
RefusedForCause ==
    pc = "failed" /\ gate > 0
        => \/ seen.rel = "apart"
           \/ ~Unchanged(seen.tree)
           \/ Cardinality(Changed(seen.tree)) >= Limit

=============================================================================
