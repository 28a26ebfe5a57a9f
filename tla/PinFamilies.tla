---------------------------- MODULE PinFamilies -----------------------------
(***************************************************************************)
(* src/pin_families.rs, pin-families: for every family of workflows that    *)
(* consumers pin, the files it executes at two commits, and whether one of  *)
(* them differs.  The files are found by following the references of one    *)
(* file after another from the family's workflow; a reference to a file     *)
(* that is not there yet is followed to nothing at the old commit.          *)
(***************************************************************************)
EXTENDS Naturals, Sequences, SequencesExt, FiniteSets

CONSTANTS
    Entry,    \* the workflow of every family
    Script,   \* the script of every name, as the last path of that name
    Under,    \* the files below every action's directory
    IsPython, \* the paths that end in .py
    OldTrees, NewTrees \* what the two commits may hold: files by path

Families == DOMAIN Entry

VARIABLES
    old, new, \* the trees of the commits the two revisions resolved to
    family,   \* the families still to judge
    side,     \* the tree that is read
    queue,    \* paths to visit, the last one first
    found,    \* paths visited at this tree
    paths,    \* those of the trees read before
    changed   \* the verdict on every family judged

vars == <<old, new, family, side, queue, found, paths, changed>>

Tree == IF side = "old" THEN old ELSE new

-----------------------------------------------------------------------------

Init ==
    /\ old \in OldTrees /\ new \in NewTrees
    /\ family = SetToSeq(Families)
    /\ side = "old"
    /\ queue = <<Entry[family[1]]>>
    /\ found = {} /\ paths = {}
    /\ changed = <<>>

\* What one file refers to outside its comment lines (scan): workflows, the
\* files of actions, scripts by name, and modules it imports, if it is Python.
References(tree, path) ==
    LET text == tree[path] IN
    text.workflows
        \cup (UNION {Under[a] \cap DOMAIN tree : a \in text.actions})
        \cup {Script[n] : n \in {n \in text.names : Script[n] \in DOMAIN tree}}
        \cup {Script[n] : n \in {n \in text.imports :
                                    path \in IsPython /\ Script[n] \in DOMAIN tree}}

\* inputs_at, one path taken off the queue.
Visit ==
    /\ queue # <<>>
    /\ LET path == Last(queue)
           rest == Front(queue) IN
       IF path \in found \/ path \notin DOMAIN Tree
       THEN queue' = rest /\ found' = found
       ELSE /\ found' = found \cup {path}
            /\ queue' = rest \o SetToSeq(References(Tree, path))
    /\ UNCHANGED <<old, new, family, side, paths, changed>>

\* Mutant: the files are those the old commit executes.
NewSideUnread ==
    /\ family # <<>> /\ queue = <<>> /\ side = "old"
    /\ side' = "new"
    /\ paths' = found
    /\ found' = {}
    /\ UNCHANGED <<old, new, family, queue, changed>>

\* The same from the workflow at the new commit.
NewSide ==
    /\ family # <<>> /\ queue = <<>> /\ side = "old"
    /\ side' = "new"
    /\ paths' = found
    /\ found' = {}
    /\ queue' = <<Entry[family[1]]>>
    /\ UNCHANGED <<old, new, family, changed>>

\* git diff --name-only: the paths that differ, or are at one commit only.
Differs(p) ==
    \/ (p \in DOMAIN old) # (p \in DOMAIN new)
    \/ p \in DOMAIN old /\ p \in DOMAIN new /\ old[p] # new[p]

Diff(ps) == {p \in ps : Differs(p)}

\* A family with no file at either commit moves nothing; then the next one.
Judge ==
    /\ family # <<>> /\ queue = <<>> /\ side = "new"
    /\ changed' = Append(changed, [family |-> family[1], files |-> Diff(paths \cup found)])
    /\ family' = Tail(family)
    /\ queue' = IF family' = <<>> THEN <<>> ELSE <<Entry[family'[1]]>>
    /\ side' = "old"
    /\ found' = {} /\ paths' = {}
    /\ UNCHANGED <<old, new>>

Next == Visit \/ NewSide \/ Judge

Spec == Init /\ [][Next]_vars

-----------------------------------------------------------------------------
(* Properties *)

\* A set of files of a tree that has a family's workflow and what its files
\* refer to.
IsClosed(S, f, tree) ==
    /\ {Entry[f]} \cap DOMAIN tree \subseteq S
    /\ \A p \in S : References(tree, p) \cap DOMAIN tree \subseteq S

\* The files a family executes at a tree, by definition: what can be reached
\* from its workflow by following references.
Executes(f, tree) ==
    LET closed == {S \in SUBSET DOMAIN tree : IsClosed(S, f, tree)} IN
    {p \in DOMAIN tree : \A S \in closed : p \in S}

Restricted(tree, ps) == [p \in ps |-> tree[p]]

\* "A family whose files are identical at both commits keeps its pin", and one
\* whose files are not is re-pinned, for exactly those: no re-pin is missed,
\* also of a file that a name referred to before it was there
\* (changed_with, inputs_at).
VerdictsAreExact ==
    \A i \in DOMAIN changed :
        LET f == changed[i].family
            o == Restricted(old, Executes(f, old))
            n == Restricted(new, Executes(f, new)) IN
        /\ (changed[i].files = {}) = (o = n)
        /\ changed[i].files \subseteq Executes(f, old) \cup Executes(f, new)

-----------------------------------------------------------------------------
(* What the proofs assume of the constants, and what they rest on.           *)

\* A file refers to finitely many paths.
PinAssumption ==
    \A tree \in OldTrees \cup NewTrees : \A p \in DOMAIN tree : IsFiniteSet(References(tree, p))

\* What was visited or waits is in every closed set, and leaves nothing out that
\* the files visited refer to.
WalkInv ==
    family # <<>> =>
        LET f == family[1]
            reached == found \cup Range(queue) IN
        /\ queue \in Seq(Range(queue))
        /\ found \subseteq DOMAIN Tree
        /\ \A S \in SUBSET DOMAIN Tree :
               IsClosed(S, f, Tree) => reached \cap DOMAIN Tree \subseteq S
        /\ {Entry[f]} \cap DOMAIN Tree \subseteq reached
        /\ \A p \in found : References(Tree, p) \cap DOMAIN Tree \subseteq reached
        /\ side \in {"old", "new"}
        /\ side = "new" => paths = Executes(f, old)

JudgedInv ==
    /\ changed \in Seq(Range(changed))
    /\ \A v \in Range(changed) :
           v.files = Diff(Executes(v.family, old) \cup Executes(v.family, new))

IInv == old \in OldTrees /\ new \in NewTrees /\ WalkInv /\ JudgedInv

=============================================================================
