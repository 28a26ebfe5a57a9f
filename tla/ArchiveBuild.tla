---------------------------- MODULE ArchiveBuild ----------------------------
(***************************************************************************)
(* src/archives.rs, build-release-archives: a ZIP and a tar.gz of one       *)
(* commit, through a sequence of git calls between which the branch the     *)
(* caller named may move, the disk may fill and a file may turn up.  One    *)
(* command runs at a time; its caller owns the output directory while git   *)
(* writes there (preflight's comment).                                      *)
(***************************************************************************)
EXTENDS Naturals, Sequences, FiniteSets

CONSTANTS
    Commits,   \* what the branch names, one after another
    EntryOf,   \* git's ls-tree of every source directory, component by component
    Tracked,   \* the source directories with files, at every commit
    Sources,   \* source directories the callers pass
    Places,    \* the output bases: where they lie
    MaxBuilds, \* bound: commands
    MaxMoves   \* bound: moves of the branch

Formats == <<"zip", "tar.gz">>
Outputs == {[base |-> b, format |-> Formats[i]] : b \in DOMAIN Places, i \in 1 .. 2}

Absent  == [tree |-> "none"]
Foreign == [tree |-> "of somebody else"]

VARIABLES
    branch, \* the commit the revision names now
    files,  \* the archives on disk
    base, source, \* the arguments of the command that runs
    pc,     \* its next call
    commit, \* what resolve_commit made of the revision
    stamp,  \* the commit whose time the archives carry
    before, \* history: the archives when the command began
    named,  \* history: the commit the revision named then
    builds, moves

vars == <<branch, files, base, source, pc, commit, stamp, before, named, builds, moves>>

-----------------------------------------------------------------------------

Ended == {"idle", "done", "failed"}

Init ==
    /\ branch \in Commits
    /\ files = [o \in Outputs |-> Absent]
    /\ base \in DOMAIN Places /\ source \in Sources
    /\ pc = "idle"
    /\ commit = branch /\ stamp = branch /\ named = branch
    /\ before = files
    /\ builds = 0 /\ moves = 0

Mine == {o \in Outputs : o.base = base}

Continue(step) ==
    /\ pc' = step
    /\ UNCHANGED <<branch, base, source, before, named, builds, moves>>

\* resolve_commit, after the arguments alone have been tested.
Begin(b, s) ==
    /\ pc \in Ended /\ builds < MaxBuilds
    /\ builds' = builds + 1
    /\ base' = b /\ source' = s
    /\ commit' = branch /\ named' = branch
    /\ before' = files
    /\ pc' = "source"
    /\ UNCHANGED <<branch, files, stamp, moves>>

\* source_tree: every component of the directory is a tree of the commit, and
\* something is tracked there.  The checkout is not asked.
IsSourceTree ==
    source = <<>> \/
        /\ \A depth \in 1 .. Len(source) :
             EntryOf[commit][SubSeq(source, 1, depth)] = "tree"
        /\ source \in Tracked[commit]

ReadSource ==
    /\ pc = "source"
    /\ Continue(IF IsSourceTree THEN "preflight" ELSE "failed")
    /\ UNCHANGED <<files, commit, stamp>>

\* preflight: the place is admissible and neither archive exists.
MayWrite ==
    /\ ~Places[base].traverses /\ ~Places[base].linked
    /\ Places[base].relative => Places[base].inside
    /\ \A o \in Mine : files[o] = Absent

\* Run before the directory is made, and again after.
Preflight ==
    /\ pc \in {"preflight", "again"}
    /\ Continue(IF ~MayWrite THEN "failed" ELSE IF pc = "preflight" THEN "stamp" ELSE "zip")
    /\ UNCHANGED <<files, commit, stamp>>

\* git show: the time of the commit.
Stamp ==
    /\ pc = "stamp"
    /\ stamp' = commit
    /\ Continue("mkdir")
    /\ UNCHANGED <<files, commit>>

MakeDirectory ==
    /\ pc = "mkdir"
    /\ Continue("again")
    /\ UNCHANGED <<files, commit, stamp>>

Archive(tree) == [tree |-> tree, source |-> source, time |-> stamp]

\* Mutant: the archives are made of the revision the caller gave.
WriteOfBranch ==
    /\ pc \in {"zip", "tar.gz"}
    /\ files' = [files EXCEPT ![[base |-> base, format |-> pc]] = Archive(branch)]
    /\ Continue(IF pc = "zip" THEN "tar.gz" ELSE "done")
    /\ UNCHANGED <<commit, stamp>>

\* git archive, of the commit resolved at the start.
Write ==
    /\ pc \in {"zip", "tar.gz"}
    /\ files' = [files EXCEPT ![[base |-> base, format |-> pc]] = Archive(commit)]
    /\ Continue(IF pc = "zip" THEN "tar.gz" ELSE "done")
    /\ UNCHANGED <<commit, stamp>>

\* git archive fails, having written some of it or nothing: both outputs go.
WriteFails ==
    /\ pc \in {"zip", "tar.gz"}
    /\ files' = [o \in Outputs |-> IF o \in Mine THEN Absent ELSE files[o]]
    /\ Continue("failed")
    /\ UNCHANGED <<commit, stamp>>

\* git or mkdir fails before anything is written.
CallFails ==
    /\ pc \in {"source", "stamp", "mkdir"}
    /\ Continue("failed")
    /\ UNCHANGED <<files, commit, stamp>>

\* A commit is pushed: the revision names another.
BranchMoves ==
    /\ moves < MaxMoves
    /\ moves' = moves + 1
    /\ branch' \in Commits \ {branch}
    /\ UNCHANGED <<files, base, source, pc, commit, stamp, before, named, builds>>

\* An archive turns up before git writes: the second preflight is to see it.
FileAppears(o) ==
    /\ pc \in {"source", "preflight", "stamp", "mkdir"}
    /\ o \in Mine /\ files[o] = Absent
    /\ files' = [files EXCEPT ![o] = Foreign]
    /\ before' = [before EXCEPT ![o] = Foreign]
    /\ UNCHANGED <<branch, base, source, pc, commit, stamp, named, builds, moves>>

Next ==
    \/ \E b \in DOMAIN Places, s \in Sources : Begin(b, s)
    \/ ReadSource \/ Preflight \/ Stamp \/ MakeDirectory \/ Write
    \/ WriteFails \/ CallFails
    \/ BranchMoves
    \/ \E o \in Outputs : FileAppears(o)

Spec == Init /\ [][Next]_vars

-----------------------------------------------------------------------------
(* Properties *)

\* Both archives hold the tree, the directory and the time of the one commit
\* the caller's revision named when the command began, wherever the branch has
\* gone since (build_release_archives_with).
ArchivesAreTheCommit ==
    pc = "done" =>
        \A o \in Mine : files[o] = [tree |-> named, source |-> source, time |-> named]

\* "refusing to overwrite existing archive", on every path: no archive that was
\* there before git wrote is replaced or removed, and a command that fails, at
\* whichever call, leaves none of its own.
OnlyNewArchives ==
    /\ \A o \in Outputs : before[o] # Absent => files[o] = before[o]
    /\ pc = "failed" => files = before

\* What the command leaves: two archives of the commit, or nothing new.
ArchivesAreExact == ArchivesAreTheCommit /\ OnlyNewArchives

-----------------------------------------------------------------------------
(* What the variables hold *)

Archives ==
    {Absent, Foreign} \cup [tree : Commits, source : Sources, time : Commits]

TypeOK ==
    /\ branch \in Commits /\ commit \in Commits /\ stamp \in Commits /\ named \in Commits
    /\ base \in DOMAIN Places /\ source \in Sources
    /\ files \in [Outputs -> Archives] /\ before \in [Outputs -> Archives]
    /\ pc \in Ended \cup {"source", "preflight", "stamp", "mkdir", "again", "zip", "tar.gz"}

=============================================================================
