--------------------------- MODULE RequiredChecks ---------------------------
(***************************************************************************)
(* src/required_checks.rs and its twin scripts/required_checks.py, the gate *)
(* every release workflow runs in its checks job: each mandatory check must *)
(* have succeeded for the release commit in every trusted run of its        *)
(* workflow.  The gate lists the runs, then asks for the jobs of one run    *)
(* after another, then judges what it collected, and waits a bounded time   *)
(* while checks are pending; runs go on, appear and are re-run between any  *)
(* two of those calls.  A listing is read at one instant here, which is     *)
(* what Listing.tla shows of it.                                            *)
(***************************************************************************)
EXTENDS Naturals, FiniteSets

CONSTANTS
    Checks,     \* the mandatory checks the caller names
    RunIds,     \* the workflow runs of the commit
    Origin,     \* the event, branch and repositories of every run
    Home,       \* the repository of the release
    Workflow,   \* the workflow of every check and of every run
    Wait, Poll, \* --wait-seconds and --poll-seconds
    MaxClock,   \* bound: the clock stops here
    MaxReruns   \* bound: how often runs are re-run

ASSUME ChecksAssumption ==
    /\ Checks # {}  \* parse_required_checks refuses an empty list
    /\ \A x \in Checks \cup RunIds : x \in DOMAIN Workflow
    /\ Wait \in Nat /\ Poll \in Nat \ {0}
    /\ MaxClock \in Nat /\ MaxClock > Wait
    /\ MaxReruns \in Nat

VARIABLES
    run,    \* GitHub: the status of every run
    job,    \* GitHub: what the latest attempt of a run says of every check
    reruns, \* re-runs so far
    clock,
    pc,     \* the gate's next call, or how it ended
    listed, \* the trusted runs it listed, with their status then
    cache,  \* the job listings it has read since
    wake    \* when its sleep is over

github == <<run, job, reruns>>
gate   == <<pc, listed, cache, wake>>
vars   == <<github, clock, gate>>

-----------------------------------------------------------------------------
(* Values *)

\* The events, branch and repositories trusted_runs accepts.
IsTrusted(r) ==
    /\ Origin[r].event \in {"push", "workflow_dispatch"}
    /\ Origin[r].branch = "main"
    /\ Origin[r].repository = Home /\ Origin[r].head = Home

TrustedRuns == {r \in RunIds : IsTrusted(r)}

RunStates == {"absent", "open", "completed"}

\* No job of that name, one that runs, that succeeded or that ended otherwise
\* (failed, cancelled, skipped), or several jobs of one name.
JobViews == {"missing", "running", "success", "other", "several"}

NoJobs == [c \in Checks |-> "missing"]

Ended == {"passed", "refused", "timed_out", "error"}

TypeOK ==
    /\ run \in [RunIds -> RunStates]
    /\ job \in [RunIds -> [Checks -> JobViews]]
    /\ reruns \in 0 .. MaxReruns
    /\ clock \in 0 .. MaxClock
    /\ pc \in {"list", "judge", "pause", "sleep"} \cup Ended
    /\ listed \in [RunIds -> RunStates]
    /\ cache \in [RunIds -> [Checks -> JobViews] \cup {<<>>}]
    /\ wake \in 0 .. Wait + MaxClock

NothingRead == [r \in RunIds |-> <<>>]

Init ==
    /\ run = [r \in RunIds |-> "absent"]
    /\ job = [r \in RunIds |-> NoJobs]
    /\ reruns = 0
    /\ clock = 0
    /\ pc = "list"
    /\ listed = [r \in RunIds |-> "absent"]
    /\ cache = NothingRead
    /\ wake = 0

-----------------------------------------------------------------------------
(* The gate *)

\* trusted_runs: the listing, filtered.
ListRuns ==
    /\ pc = "list"
    /\ listed' = [r \in RunIds |-> IF r \in TrustedRuns THEN run[r] ELSE "absent"]
    /\ pc' = "judge"
    /\ UNCHANGED <<github, clock, cache, wake>>

RunsOf(c) == {r \in RunIds : listed[r] # "absent" /\ Workflow[r] = Workflow[c]}

Unread == {r \in UNION {RunsOf(c) : c \in Checks} : cache[r] = <<>>}

\* run_jobs, once for every run that matters.
ReadJobs(r) ==
    /\ pc = "judge"
    /\ r \in Unread
    /\ cache' = [cache EXCEPT ![r] = job[r]]
    /\ UNCHANGED <<github, clock, pc, listed, wake>>

\* Mutant: one run that reports success settles a check.
FailsUnlessOnePasses(c) ==
    \/ RunsOf(c) = {}
    \/ \A r \in RunsOf(c) : cache[r][c] \in {"several", "other"}

Fails(c) ==
    \/ RunsOf(c) = {}
    \/ \E r \in RunsOf(c) :
         \/ cache[r][c] \in {"several", "other"}
         \/ cache[r][c] = "missing" /\ listed[r] = "completed"

Pends(c) ==
    \E r \in RunsOf(c) :
        \/ cache[r][c] = "running"
        \/ cache[r][c] = "missing" /\ listed[r] # "completed"

\* evaluate: a check is refused before it is pending before it is passed.
Evaluate ==
    IF \E c \in Checks : Fails(c) THEN "failed"
    ELSE IF \E c \in Checks : Pends(c) THEN "pending" ELSE "passed"

\* Mutant: no deadline.
VerdictUnbounded ==
    CASE Evaluate = "passed"  -> "passed"
      [] Evaluate = "failed"  -> "refused"
      [] Evaluate = "pending" -> "pause"

\* The loop of check: return, or wait for what is pending until the deadline.
Verdict ==
    CASE Evaluate = "passed"  -> "passed"
      [] Evaluate = "failed"  -> "refused"
      [] Evaluate = "pending" -> IF clock >= Wait THEN "timed_out" ELSE "pause"

\* The listings live no longer than the call of evaluate that read them.
Judge ==
    /\ pc = "judge"
    /\ Unread = {}
    /\ pc' = Verdict
    /\ listed' = [r \in RunIds |-> "absent"]
    /\ cache' = NothingRead
    /\ UNCHANGED <<github, clock, wake>>

Least(a, b) == IF a <= b THEN a ELSE b

\* The clock is read again for the length of the sleep.
Sleep ==
    /\ pc = "pause"
    /\ wake' = clock + Least(Poll, IF clock < Wait THEN Wait - clock ELSE 0)
    /\ pc' = "sleep"
    /\ UNCHANGED <<github, clock, listed, cache>>

\* Mutant: no last look once the deadline has come.
WakeTimedOut ==
    /\ pc = "sleep"
    /\ clock >= wake
    /\ pc' = IF clock >= Wait THEN "timed_out" ELSE "list"
    /\ UNCHANGED <<github, clock, listed, cache, wake>>

Wake ==
    /\ pc = "sleep"
    /\ clock >= wake
    /\ pc' = "list"
    /\ UNCHANGED <<github, clock, listed, cache, wake>>

\* A call fails, or an entry of a listing cannot be read.
CallFails ==
    /\ pc = "list" \/ (pc = "judge" /\ Unread # {})
    /\ pc' = "error"
    /\ UNCHANGED <<github, clock, listed, cache, wake>>

-----------------------------------------------------------------------------
(* GitHub *)

Belongs(r, c) == Workflow[r] = Workflow[c]

RunStarts(r) ==
    /\ run[r] = "absent"
    /\ run' = [run EXCEPT ![r] = "open"]
    /\ UNCHANGED <<job, reruns, clock, gate>>

JobStarts(r, c) ==
    /\ run[r] = "open" /\ Belongs(r, c) /\ job[r][c] = "missing"
    /\ \E view \in {"running", "several"} :
         job' = [job EXCEPT ![r] = [job[r] EXCEPT ![c] = view]]
    /\ UNCHANGED <<run, reruns, clock, gate>>

JobEnds(r, c) ==
    /\ job[r][c] = "running"
    /\ \E view \in {"success", "other"} :
         job' = [job EXCEPT ![r] = [job[r] EXCEPT ![c] = view]]
    /\ UNCHANGED <<run, reruns, clock, gate>>

RunCompletes(r) ==
    /\ run[r] = "open"
    /\ \A c \in Checks : job[r][c] # "running"
    /\ run' = [run EXCEPT ![r] = "completed"]
    /\ UNCHANGED <<job, reruns, clock, gate>>

\* A new attempt of all jobs, or of those that did not succeed: the run keeps
\* its id, and its new jobs are listed only once they are created.
Rerun(r) ==
    /\ run[r] = "completed"
    /\ reruns < MaxReruns
    /\ reruns' = reruns + 1
    /\ run' = [run EXCEPT ![r] = "open"]
    /\ \E kept \in {{}, {"success"}} :
         job' = [job EXCEPT ![r] =
                    [c \in Checks |-> IF job[r][c] \in kept THEN job[r][c] ELSE "missing"]]
    /\ UNCHANGED <<clock, gate>>

Tick ==
    /\ clock < MaxClock
    /\ clock' = clock + 1
    /\ UNCHANGED <<github, gate>>

-----------------------------------------------------------------------------

GateStep ==
    \/ ListRuns
    \/ \E r \in RunIds : ReadJobs(r)
    \/ Judge
    \/ Sleep
    \/ Wake

RunsGoOn ==
    \E r \in RunIds :
        \/ RunStarts(r) \/ RunCompletes(r) \/ Rerun(r)
        \/ \E c \in Checks : JobStarts(r, c) \/ JobEnds(r, c)

Next == GateStep \/ CallFails \/ RunsGoOn \/ Tick

Spec == Init /\ [][Next]_vars

\* The gate's calls return, and time passes; the runs owe nothing.
FairSpec == Spec /\ WF_vars(GateStep) /\ WF_vars(Tick)

-----------------------------------------------------------------------------
(* Properties *)

Present(r) == r \in TrustedRuns /\ run[r] # "absent"

\* The gate ends, whatever the runs do: it waits no longer than it was told
\* to (lines 394-402).
GateEnds == <>(pc \in Ended)

NeverPassesOver(c, r) ==
    []((pc = "list" /\ Present(r) /\ [](job[r][c] # "success")) => [](pc # "passed"))

\* "A skipped, cancelled, failed, missing or still-running check never
\* authorises publication", and one green run does not outvote another: the
\* gate never passes over a trusted run that was there when it last listed the
\* runs and whose check has not succeeded since (lines 312-379).
NoPassOverFailure ==
    \A c \in Checks, r \in RunIds : Belongs(r, c) => NeverPassesOver(c, r)

Green(c) ==
    /\ \E r \in RunIds : Present(r) /\ Belongs(r, c)
    /\ \A r \in RunIds : Present(r) /\ Belongs(r, c) => job[r][c] = "success"

\* Checks that are green by the time the gate next wakes, and stay so, pass it:
\* it looks once more after its last sleep, at the deadline itself (lines
\* 394-402).  Only a failing call can stop it.
GreenIsSeen ==
    (pc = "sleep" /\ [](\A c \in Checks : Green(c))) ~> pc \in {"passed", "error"}

\* Something a check must not be: failed, ambiguous, never reported by a run
\* that is over, or without any run.
Bad(c) ==
    \/ ~(\E r \in RunIds : Present(r) /\ Belongs(r, c))
    \/ \E r \in RunIds :
         /\ Present(r) /\ Belongs(r, c)
         /\ \/ job[r][c] \in {"other", "several"}
            \/ job[r][c] = "missing" /\ run[r] = "completed"

\* "a run that has not finished reporting leaves the check pending": the gate
\* refuses only if a check really was bad since the runs were listed (lines
\* 317-320).
RefusesOnlyBad ==
    []((pc = "list" /\ [](\A c \in Checks : ~Bad(c))) => [](pc # "refused"))

=============================================================================
