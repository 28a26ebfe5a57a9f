------------------------- MODULE AttributionStatus --------------------------
(***************************************************************************)
(* src/attribution.rs, attribution-status prepare and finish, in the        *)
(* wrapper docs/attribution-policy-stage2.yml with the concurrency group    *)
(* docs/attribution-consumers.md qualifies: one run per pull request, the   *)
(* newest event waiting.  prepare snapshots the pull request and posts      *)
(* pending, the action scans the snapshot, finish reads the pull request    *)
(* again and posts the verdict on the commit it snapshotted.  Pull requests *)
(* are edited and pushed to meanwhile, and may share a commit.              *)
(***************************************************************************)
EXTENDS Naturals, FiniteSets

CONSTANTS
    Numbers,   \* the pull requests
    Heads,     \* commits
    Texts,     \* titles and bodies
    CleanTexts,\* those without a credit
    MaxEvents, \* bound: edits, pushes and re-runs
    MaxMoves,  \* bound: commits on the base branch
    MaxFaults  \* bound: GitHub calls that fail

VARIABLES
    pr,      \* GitHub: head, text and base of every pull request
    status,  \* GitHub: the status of every commit
    waiting, \* GitHub: an event of this pull request has a run waiting
    pc,      \* the step of the run of every pull request
    snap,    \* its snapshot file
    proof,   \* the result file of its scan
    verdict, \* what finish is about to post
    held,    \* history: the pull requests that had this head
    read,    \* history: the pull request as finish last read it
    events, moves, faults, missed \* counters; commits a failed call left unjudged

github == <<pr, status, waiting, held, events, moves>>
runner == <<pc, snap, proof, verdict, read>>
vars   == <<github, runner, faults, missed>>

-----------------------------------------------------------------------------

\* The fields of one read that later reads must reproduce exactly.
Snapshot(n) == pr[n]

\* fingerprint: as good as the snapshot it is taken of.
Fingerprint(value) == value

NoFile == [file |-> "none"]

IsClean(value) == value.text \in CleanTexts

Init ==
    /\ pr \in [Numbers -> [head : Heads, text : Texts, base : {0}]]
    /\ status = [h \in Heads |-> "none"]
    /\ waiting = [n \in Numbers |-> TRUE]  \* opened
    /\ pc = [n \in Numbers |-> "idle"]
    /\ snap = [n \in Numbers |-> NoFile]
    /\ proof = [n \in Numbers |-> NoFile]
    /\ verdict = [n \in Numbers |-> FALSE]
    /\ read = pr
    /\ held = [h \in Heads |-> {n \in Numbers : pr[n].head = h}]
    /\ events = 0 /\ moves = 0 /\ faults = 0
    /\ missed = {}

-----------------------------------------------------------------------------
(* The run of a pull request *)

Go(n, step) == pc' = [pc EXCEPT ![n] = step]

Fault == faults < MaxFaults /\ faults' = faults + 1

\* A run starts on a runner of its own: no file is there.
Start(n) ==
    /\ pc[n] = "idle" /\ waiting[n]
    /\ waiting' = [waiting EXCEPT ![n] = FALSE]
    /\ Go(n, "prepare")
    /\ snap' = [snap EXCEPT ![n] = NoFile]
    /\ proof' = [proof EXCEPT ![n] = NoFile]
    /\ verdict' = [verdict EXCEPT ![n] = FALSE]
    /\ UNCHANGED <<pr, status, held, events, moves, faults, missed, read>>

\* prepare: one read, kept in a file that did not exist.
PrepareRead(n) ==
    /\ pc[n] = "prepare"
    /\ snap' = [snap EXCEPT ![n] = Snapshot(n)]
    /\ Go(n, "pend")
    /\ UNCHANGED <<github, proof, verdict, faults, missed, read>>

\* Without a snapshot nothing is owned: finish has no commit to post on.
PrepareFails(n) ==
    /\ pc[n] = "prepare"
    /\ Fault
    /\ missed' = missed \cup {pr[n].head}
    /\ Go(n, "idle")
    /\ UNCHANGED <<github, snap, proof, verdict, read>>

PostPending(n) ==
    /\ pc[n] = "pend"
    /\ status' = [status EXCEPT ![snap[n].head] = "pending"]
    /\ Go(n, "scan")
    /\ UNCHANGED <<pr, waiting, held, events, moves, snap, proof, verdict, faults, missed, read>>

\* The prerequisite failed, the scan is skipped, finish runs all the same.
PendingFails(n) ==
    /\ pc[n] = "pend"
    /\ Fault
    /\ Go(n, "finish")
    /\ UNCHANGED <<github, snap, proof, verdict, missed, read>>

\* The action scans the snapshot and binds its result to it.
Scan(n) ==
    /\ pc[n] = "scan"
    /\ proof' = [proof EXCEPT ![n] =
                    [clean |-> IsClean(snap[n]), fingerprint |-> Fingerprint(snap[n])]]
    /\ Go(n, "finish")
    /\ UNCHANGED <<github, snap, verdict, faults, missed, read>>

\* The scan is cancelled or breaks: no result, the job has failed.
ScanFails(n) ==
    /\ pc[n] = "scan"
    /\ Go(n, "finish")
    /\ UNCHANGED <<github, snap, proof, verdict, faults, missed, read>>

\* Mutant: finish believes the snapshot it reads from its file.
ClosesCleanUnread(n) ==
    /\ proof[n] # NoFile
    /\ proof[n].clean
    /\ proof[n].fingerprint = Fingerprint(snap[n])

\* finish: the pull request is still the one that was scanned, and was clean.
ClosesClean(n) ==
    /\ proof[n] # NoFile
    /\ Snapshot(n) = snap[n]
    /\ proof[n].clean
    /\ proof[n].fingerprint = Fingerprint(snap[n])

FinishRead(n) ==
    /\ pc[n] = "finish"
    /\ verdict' = [verdict EXCEPT ![n] = ClosesClean(n)]
    /\ read' = [read EXCEPT ![n] = pr[n]]
    /\ Go(n, "close")
    /\ UNCHANGED <<github, snap, proof, faults, missed>>

\* An unreadable pull request closes the pending status as failure.
FinishReadFails(n) ==
    /\ pc[n] = "finish"
    /\ Fault
    /\ verdict' = [verdict EXCEPT ![n] = FALSE]
    /\ Go(n, "close")
    /\ UNCHANGED <<github, snap, proof, read, missed>>

\* The verdict, on the commit that was marked pending.
Close(n) ==
    /\ pc[n] = "close"
    /\ status' = [status EXCEPT ![snap[n].head] = IF verdict[n] THEN "success" ELSE "failure"]
    /\ Go(n, "idle")
    /\ UNCHANGED <<pr, waiting, held, events, moves, snap, proof, verdict, faults, missed, read>>

CloseFails(n) ==
    /\ pc[n] = "close"
    /\ Fault
    /\ missed' = missed \cup {snap[n].head}
    /\ Go(n, "idle")
    /\ UNCHANGED <<github, snap, proof, verdict, read>>

-----------------------------------------------------------------------------
(* People *)

\* opened, edited, synchronize, reopened: every event has a run, and a newer
\* one takes the place of the one that waits.
Event(n) ==
    /\ events < MaxEvents
    /\ events' = events + 1
    /\ waiting' = [waiting EXCEPT ![n] = TRUE]
    /\ UNCHANGED <<status, moves, runner, faults, missed>>

Push(n, h) ==
    /\ h # pr[n].head
    /\ pr' = [pr EXCEPT ![n].head = h]
    /\ held' = [held EXCEPT ![h] = @ \cup {n}]
    /\ Event(n)

Edit(n, text) ==
    /\ text # pr[n].text
    /\ pr' = [pr EXCEPT ![n].text = text]
    /\ held' = held
    /\ Event(n)

Reopen(n) == UNCHANGED <<pr, held>> /\ Event(n)

\* A commit on the base branch is no event of the pull request.
BaseMoves ==
    /\ moves < MaxMoves
    /\ moves' = moves + 1
    /\ pr' = [n \in Numbers |-> [pr[n] EXCEPT !.base = moves + 1]]
    /\ UNCHANGED <<status, waiting, held, events, runner, faults, missed>>

RunStep(n) ==
    \/ Start(n)
    \/ PrepareRead(n) \/ PrepareFails(n) \/ PostPending(n) \/ PendingFails(n)
    \/ Scan(n) \/ ScanFails(n)
    \/ FinishRead(n) \/ FinishReadFails(n) \/ Close(n) \/ CloseFails(n)

Next ==
    \/ \E n \in Numbers :
         \/ RunStep(n)
         \/ \E h \in Heads : Push(n, h)
         \/ \E text \in Texts : Edit(n, text)
         \/ Reopen(n)
    \/ BaseMoves

Spec == Init /\ [][Next]_vars

-----------------------------------------------------------------------------
(* Properties *)

Quiet(n) == pc[n] = "idle" /\ ~waiting[n]

\* A head that belongs to one pull request alone, whose calls got through.
Owned(n, h) == held[h] = {n} /\ h \notin missed

\* Success on a commit of one pull request means that its title and body were
\* clean when the last run to judge that commit read them, before and after its
\* scan, and, once its runs are over, that they are clean now: an edit between
\* that read and the status write is judged by the run that waits for it (finish,
\* and the concurrency group; a shared head is exempt, as
\* docs/attribution-consumers.md says).
SuccessIsClean ==
    \A n \in Numbers :
        status[pr[n].head] = "success" /\ Owned(n, pr[n].head) =>
            /\ pc[n] = "idle" /\ snap[n] # NoFile /\ snap[n].head = pr[n].head =>
                   read[n] = snap[n] /\ IsClean(read[n])
            /\ Quiet(n) => IsClean(pr[n])

\* "Close an owned pending status even when the scan or freshness read
\* failed": when no run of its pull requests is left, no commit stays pending,
\* whatever was pushed meanwhile, unless GitHub lost the closing write.
PendingIsClosed ==
    \A h \in Heads :
        status[h] = "pending" /\ h \notin missed => \E n \in held[h] : pc[n] # "idle"

\* What a commit's status says once the runs have said all they had to say.
StatusIsTrue == SuccessIsClean /\ PendingIsClosed

-----------------------------------------------------------------------------
(* What the variables hold *)

PullRequest == [head : Heads, text : Texts, base : Nat]

Result == [clean : BOOLEAN, fingerprint : PullRequest]

TypeOK ==
    /\ pr \in [Numbers -> PullRequest]
    /\ status \in [Heads -> {"none", "pending", "success", "failure"}]
    /\ waiting \in [Numbers -> BOOLEAN]
    /\ pc \in [Numbers -> {"idle", "prepare", "pend", "scan", "finish", "close"}]
    /\ snap \in [Numbers -> PullRequest \cup {NoFile}]
    /\ proof \in [Numbers -> Result \cup {NoFile}]
    /\ verdict \in [Numbers -> BOOLEAN]
    /\ read \in [Numbers -> PullRequest]
    /\ held \in [Heads -> SUBSET Numbers]
    /\ moves \in Nat
    /\ missed \in SUBSET Heads

=============================================================================
