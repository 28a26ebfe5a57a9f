----------------------------- MODULE PrCapture ------------------------------
(***************************************************************************)
(* scripts/pr_review.py, capture: how a pull request is frozen.  GitHub     *)
(* answers for the head of the moment: the pull request, then page after    *)
(* page of its changed files, then the pull request again.  The contents    *)
(* are read at two fixed commits, the merge base and the head first seen,   *)
(* and every patch must lead from the one to the other.  Pushes come in     *)
(* between, and GitHub may leave a patch out.                               *)
(***************************************************************************)
EXTENDS Naturals, Sequences, FiniteSets

CONSTANTS
    Paths,       \* file names, in GitHub's order: numbers
    Contents,    \* what a file may hold
    Absent,      \* no file
    Before,      \* the tree of the merge base
    Heads,       \* head commits
    PageSize, MaxPages, \* 100 and 30 in the code
    MaxPushes,   \* bound: pushes
    ReturnsToHead \* may a push bring back a head that was left?

VARIABLES
    tree,    \* the tree of every head commit
    renames, \* does GitHub pair a removed and an added file as a rename?
    head,    \* the head of the pull request
    left,    \* the heads it has had before
    pushes,  \* how often it was pushed
    pc,      \* the next step of the capture
    minimal, \* identity.json
    first,   \* the head of collect's first read
    count,   \* changed_files of that read
    page,    \* the page to read next
    files,   \* the entries read so far
    frozen,  \* the snapshot's files
    cut      \* was a patch left out?

capture == <<pc, minimal, first, count, page, files, frozen, cut>>
vars == <<tree, renames, head, left, pushes, capture>>

-----------------------------------------------------------------------------
(* GitHub *)

Tree == [Paths -> Contents \cup {Absent}]

Removed(t) == {p \in Paths : Before[p] # Absent /\ t[p] = Absent}
Added(t) == {p \in Paths : Before[p] = Absent /\ t[p] # Absent}

Least(S, p) == p \in S /\ \A q \in S : p <= q

\* q was renamed to p: of the files with one content the first ones are paired.
Renamed(t, q, p) ==
    /\ renames
    /\ Least({r \in Removed(t) : Before[r] = Before[q]}, q)
    /\ Least({a \in Added(t) : t[a] = Before[q]}, p)

\* A patch is known by the two contents it leads from and to.
Entry(path, old, status, before, after) ==
    [path |-> path, old |-> old, status |-> status, patch |-> <<before, after>>]

Changes(t) ==
    {Entry(x[2], x[1], "renamed", Before[x[1]], t[x[2]]) :
        x \in {x \in Paths \X Paths : Renamed(t, x[1], x[2])}}
    \cup {Entry(p, p, "added", Absent, t[p]) :
             p \in {a \in Added(t) : \A q \in Paths : ~Renamed(t, q, a)}}
    \cup {Entry(p, p, "removed", Before[p], Absent) :
             p \in {r \in Removed(t) : \A a \in Paths : ~Renamed(t, r, a)}}
    \cup {Entry(p, p, "modified", Before[p], t[p]) :
             p \in {m \in Paths : Absent \notin {Before[m], t[m]} /\ Before[m] # t[m]}}

ChangedFiles(h) == Cardinality(Changes(tree[h]))

\* Where a changed file is in the listing, which has them by name.
Place(h, c) == Cardinality({d \in Changes(tree[h]) : d.path <= c.path})

Page(h, n) == {c \in Changes(tree[h]) : Place(h, c) \in (n - 1) * PageSize + 1 .. n * PageSize}

\* The members of a page, one after another.
Orders(S) == {s \in [1 .. Cardinality(S) -> S] : \A i, j \in DOMAIN s : s[i] = s[j] => i = j}

-----------------------------------------------------------------------------

Steps == {"identify", "first", "listing", "freeze", "confirm", "captured", "failed"}

Init ==
    /\ tree \in [Heads -> Tree] /\ renames \in BOOLEAN
    /\ head \in Heads /\ left = {} /\ pushes = 0
    /\ pc = "identify" /\ minimal = head /\ first = head
    /\ count = 0 /\ page = 1 /\ files = <<>> /\ frozen = {} /\ cut = FALSE

Push ==
    /\ pushes < MaxPushes /\ pc \notin {"captured", "failed"}
    /\ pushes' = pushes + 1 /\ left' = left \cup {head}
    /\ head' \in Heads \ (IF ReturnsToHead THEN {head} ELSE left')
    /\ UNCHANGED <<tree, renames, capture>>

-----------------------------------------------------------------------------
(* The capture *)

\* main: the head that identity.json keeps.
Identify ==
    /\ pc = "identify" /\ pc' = "first"
    /\ minimal' = head
    /\ UNCHANGED <<tree, renames, head, left, pushes, first, count, page, files, frozen, cut>>

\* collect's first read of the pull request.
ReadFirst ==
    /\ pc = "first"
    /\ first' = head /\ count' = ChangedFiles(head)
    /\ pc' = IF 0 < count' /\ count' <= MaxPages * PageSize THEN "listing" ELSE "failed"
    /\ UNCHANGED <<tree, renames, head, left, pushes, minimal, page, files, frozen, cut>>

\* The loop ends at a page that is not full, or at the last it may read.
ListedAll(batch) == Len(batch) < PageSize \/ page = MaxPages

\* A page of changed files; one of its patches may be missing.
ReadPage ==
    /\ pc = "listing"
    /\ \E batch \in Orders(Page(head, page)) :
         /\ \/ files' = files \o batch /\ UNCHANGED cut
            \/ \E i \in DOMAIN batch :
                 /\ files' = files \o [batch EXCEPT ![i].patch = <<>>]
                 /\ cut' = TRUE
         /\ IF ListedAll(batch)
            THEN pc' = "freeze" /\ UNCHANGED page
            ELSE page' = page + 1 /\ UNCHANGED pc
    /\ UNCHANGED <<tree, renames, head, left, pushes, minimal, first, count, frozen>>

\* Changed-line counts and verify_patch.
PatchFits(f, before, after) == f.patch = <<before, after>>

\* The contents of an entry at the two commits, not read where it says there
\* is no file.
BeforeOf(f) == IF f.status = "added" THEN Absent ELSE Before[f.old]
AfterOf(f) == IF f.status = "removed" THEN Absent ELSE tree[first][f.path]

Readable(f) ==
    /\ f.status # "added" => BeforeOf(f) # Absent
    /\ f.status # "removed" => AfterOf(f) # Absent

Record(f) ==
    [path |-> f.path, old |-> f.old, status |-> f.status, before |-> BeforeOf(f), after |-> AfterOf(f)]

\* The listing is complete and names no file twice; every file is read, and
\* its patch verified.
Complete ==
    /\ Len(files) = count
    /\ \A i, j \in DOMAIN files : files[i].path = files[j].path => i = j
    /\ \A i \in DOMAIN files :
         Readable(files[i]) /\ PatchFits(files[i], BeforeOf(files[i]), AfterOf(files[i]))

Freeze ==
    /\ pc = "freeze"
    /\ IF Complete
       THEN pc' = "confirm" /\ frozen' = {Record(files[i]) : i \in DOMAIN files}
       ELSE pc' = "failed" /\ UNCHANGED frozen
    /\ UNCHANGED <<tree, renames, head, left, pushes, minimal, first, count, page, files, cut>>

\* Mutant: only the number of files is compared again.
SameCount == ChangedFiles(head) = Len(files)

\* collect's second read, and main's comparison with identity.json.
Unchanged ==
    /\ head = first /\ ChangedFiles(head) = Len(files)
    /\ minimal = first

Confirm ==
    /\ pc = "confirm"
    /\ pc' = IF Unchanged THEN "captured" ELSE "failed"
    /\ UNCHANGED <<tree, renames, head, left, pushes, minimal, first, count, page, files, frozen, cut>>

Next == Push \/ Identify \/ ReadFirst \/ ReadPage \/ Freeze \/ Confirm

Spec == Init /\ [][Next]_vars

-----------------------------------------------------------------------------
(* Properties *)

\* What is frozen is the whole change of the head that is recorded, removals and
\* renames included, whatever was pushed in between (pr_review.py 240-291, 619-620;
\* docs/pr-review.md "Evidence and failure behaviour").
CaptureIsComplete ==
    pc = "captured" =>
        frozen = {[path |-> c.path, old |-> c.old, status |-> c.status,
                   before |-> c.patch[1], after |-> c.patch[2]] : c \in Changes(tree[minimal])}

-----------------------------------------------------------------------------
(* What the proofs assume of the constants, and what they rest on.           *)

CaptureAssumption == IsFiniteSet(Paths)

\* The entries of a listing, with their patches or without.
Listed(h) == Changes(tree[h]) \cup {[c EXCEPT !.patch = <<>>] : c \in Changes(tree[h])}

Frozen(c) ==
    [path |-> c.path, old |-> c.old, status |-> c.status,
     before |-> c.patch[1], after |-> c.patch[2]]

IInv ==
    /\ pc \in Steps /\ head \notin left
    /\ pc \notin {"identify", "first"} => first \in left \cup {head}
    /\ pc \in {"identify", "first"} => files = <<>>
    /\ pc \in {"listing", "freeze", "confirm"} /\ head = first =>
           count = ChangedFiles(first) /\ files \in Seq(Listed(first))
    /\ pc = "confirm" => Complete /\ frozen = {Record(files[i]) : i \in DOMAIN files}
    /\ CaptureIsComplete

=============================================================================
