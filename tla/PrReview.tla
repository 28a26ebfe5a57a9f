------------------------------ MODULE PrReview ------------------------------
(***************************************************************************)
(* pr-review.yml and scripts/pr_review.py: runs that review one pull        *)
(* request, from the event to the commit status.  A run notes the pull      *)
(* request's revision, posts "pending" on its head, freezes it, has two     *)
(* models review it, reads the revision again and posts the verdict; what   *)
(* fails posts a failure instead.  Meanwhile the pull request is pushed,    *)
(* rebased, closed and reopened, runs wait in concurrency groups, are       *)
(* cancelled and re-run, and status writes get lost or stay unanswered.     *)
(* How a revision is frozen is the subject of PrCapture.                    *)
(***************************************************************************)
EXTENDS Naturals, FiniteSets

CONSTANTS
    Runs,       \* runs of the workflow
    Heads,      \* head commits
    Bases,      \* commits of the base branch
    Models,     \* the reviewers
    MaxMoves,   \* bound: changes of the pull request
    Nobody, None

ASSUME ReviewAssumption ==
    /\ IsFiniteSet(Runs) /\ Nobody \notin Runs /\ MaxMoves \in Nat
    /\ None \notin [head : Heads, base : Bases] \cup [Models -> {"clear", "findings"}]
    /\ None \notin Heads \cup {"clear"}

VARIABLES
    pr,       \* the pull request
    moves,    \* how often it has changed
    pc,       \* the next step of a run
    attempt,  \* its attempt
    from,     \* the job its attempt begins with
    trigger,  \* the head its event was about, if Dependabot's trigger started it
    id,       \* identity.json: the revision it captured
    verdict,  \* review.json: what each model says, None if incomplete
    status,   \* the status of every commit: its outcome and who wrote it
    begun,    \* the order in which runs began
    mishaps   \* runs that were killed, or one of whose writes got no answer

run  == <<attempt, from, trigger, begun>>
vars == <<pr, moves, pc, run, id, verdict, status, mishaps>>

-----------------------------------------------------------------------------

Revisions == [head : Heads, base : Bases]

Outcomes == {"pending", "clear", "findings", "execution_failure"}

Steps == {"idle", "queued", "identify", "pending", "collect", "fail_capture",
          "review", "assess", "post", "fail", "over"}

TypeOK ==
    /\ pr \in [at : Revisions, state : {"open", "draft", "closed"}]
    /\ moves \in 0 .. MaxMoves
    /\ pc \in [Runs -> Steps] /\ attempt \in [Runs -> {1, 2}]
    /\ from \in [Runs -> {"identify", "review", "assess"}]
    /\ trigger \in [Runs -> Heads \cup {None}]
    /\ id \in [Runs -> Revisions \cup {None}]
    /\ verdict \in [Runs -> [Models -> {"clear", "findings"}] \cup {None}]
    /\ status \in [Heads -> [is : Outcomes \cup {None}, by : Runs \cup {Nobody}]]
    /\ begun \in [Runs -> Nat] /\ mishaps \subseteq Runs

Init ==
    /\ pr \in [at : Revisions, state : {"open", "draft"}] /\ moves = 0
    /\ pc = [r \in Runs |-> "idle"] /\ attempt = [r \in Runs |-> 1]
    /\ from = [r \in Runs |-> "identify"] /\ trigger = [r \in Runs |-> None]
    /\ id = [r \in Runs |-> None] /\ verdict = [r \in Runs |-> None]
    /\ status = [h \in Heads |-> [is |-> None, by |-> Nobody]]
    /\ begun = [r \in Runs |-> 0] /\ mishaps = {}

-----------------------------------------------------------------------------
(* Runs, attempts and concurrency groups *)

GoTo(r, step) == pc' = [pc EXCEPT ![r] = step]

Bridge(r) == trigger[r] # None

\* Events and dispatches for the pull request share a group; the run that
\* Dependabot's trigger starts has one of its own.
Group(r) == IF Bridge(r) THEN {r} ELSE {q \in Runs : ~Bridge(q)}

Under(q) == pc[q] \notin {"idle", "queued", "over"}

\* Mutant: cancel-in-progress: true.
EnterAlone(r) == pc' = [q \in Runs |->
    IF q = r THEN "queued" ELSE IF q \in Group(r) /\ pc[q] # "idle" THEN "over" ELSE pc[q]]

\* A run that enters its group takes the place of one that waits.
Enter(r) == pc' = [q \in Runs |->
    IF q = r THEN "queued"
    ELSE IF q \in Group(r) /\ pc[q] = "queued" THEN "over" ELSE pc[q]]

\* An event of the pull request, a dispatch, or Dependabot's trigger.
Trigger(r) ==
    /\ pc[r] = "idle" /\ pr.state # "closed"
    /\ \/ Enter(r) /\ UNCHANGED trigger
       \/ GoTo(r, "queued") /\ trigger' = [trigger EXCEPT ![r] = pr.at.head]
    /\ UNCHANGED <<pr, moves, attempt, from, id, verdict, status, begun, mishaps>>

\* A person re-runs the run, or one of its jobs with the results it had.
Rerun(r) ==
    /\ pc[r] = "over" /\ attempt[r] = 1
    /\ Enter(r)
    /\ attempt' = [attempt EXCEPT ![r] = 2]
    /\ \E job \in {"identify", "review", "assess"} :
         /\ job # "identify" => id[r] # None
         /\ job = "assess" => verdict[r] # None
         /\ from' = [from EXCEPT ![r] = job]
    /\ UNCHANGED <<pr, moves, trigger, id, verdict, status, begun, mishaps>>

GroupIsFree(r) == \A q \in Group(r) : ~Under(q)

Begin(r) ==
    /\ pc[r] = "queued" /\ GroupIsFree(r)
    /\ GoTo(r, from[r])
    /\ begun' = IF begun[r] > 0 THEN begun
                ELSE [begun EXCEPT ![r] = 1 + Cardinality({q \in Runs : begun[q] > 0})]
    /\ UNCHANGED <<pr, moves, attempt, from, trigger, id, verdict, status, mishaps>>

\* Mutant: the jobs do not look at the attempt.
AnyAttempt(r) == TRUE

\* "github.run_attempt == 1", and main's own look at GITHUB_RUN_ATTEMPT.
FirstAttempt(r) == attempt[r] = 1

\* All the jobs of another attempt are skipped.
Skip(r) ==
    /\ pc[r] \in {"identify", "review", "assess"} /\ ~FirstAttempt(r)
    /\ GoTo(r, "over")
    /\ UNCHANGED <<pr, moves, run, id, verdict, status, mishaps>>

-----------------------------------------------------------------------------
(* Statuses *)

\* A write that is answered, one whose answer is lost, and one that is lost.
Post(r, head, what, then, failed) ==
    \/ /\ status' = [status EXCEPT ![head] = [is |-> what, by |-> r]]
       /\ GoTo(r, then) /\ UNCHANGED mishaps
    \/ /\ status' \in {status, [status EXCEPT ![head] = [is |-> what, by |-> r]]}
       /\ GoTo(r, failed) /\ mishaps' = mishaps \cup {r}

\* "fail": needs the identity that capture left.
FailedStatus(r, then) ==
    IF id[r] = None
    THEN GoTo(r, then) /\ UNCHANGED <<status, mishaps>>
    ELSE Post(r, id[r].head, "execution_failure", then, then)

-----------------------------------------------------------------------------
(* The capture job *)

Eligible == pr.state = "open"

\* resolve_event and pr_metadata, and identity.json.
Identify(r) ==
    /\ pc[r] = "identify" /\ FirstAttempt(r)
    /\ IF pr.state = "closed" /\ (Bridge(r) => pr.at.head = trigger[r])
       THEN GoTo(r, "over") /\ UNCHANGED id
       ELSE IF Eligible /\ (Bridge(r) => pr.at.head = trigger[r])
       THEN GoTo(r, "pending") /\ id' = [id EXCEPT ![r] = pr.at]
       ELSE GoTo(r, "fail_capture") /\ UNCHANGED id
    /\ UNCHANGED <<pr, moves, run, verdict, status, mishaps>>

PostPending(r) ==
    /\ pc[r] = "pending"
    /\ Post(r, id[r].head, "pending", "collect", "fail_capture")
    /\ UNCHANGED <<pr, moves, run, id, verdict>>

\* collect's last read of the pull request: the revision is still the one noted.
Collect(r) ==
    /\ pc[r] = "collect" /\ Eligible /\ pr.at = id[r]
    /\ GoTo(r, "review")
    /\ UNCHANGED <<pr, moves, run, id, verdict, status, mishaps>>

\* The step "Fail the captured head"; the publish job follows it.
FailCapture(r) ==
    /\ pc[r] = "fail_capture"
    /\ FailedStatus(r, "fail")
    /\ UNCHANGED <<pr, moves, run, id, verdict>>

-----------------------------------------------------------------------------
(* The review and publish jobs *)

Review(r) ==
    /\ pc[r] = "review" /\ FirstAttempt(r)
    /\ \E said \in [Models -> {"clear", "findings"}] : verdict' = [verdict EXCEPT ![r] = said]
    /\ GoTo(r, "assess")
    /\ UNCHANGED <<pr, moves, run, id, status, mishaps>>

\* assess_report's state: clear_review of every result.
Conclusion(r) == IF \A m \in Models : verdict[r][m] = "clear" THEN "clear" ELSE "findings"

\* assess_report: the pull request is where it was captured.
Assess(r) ==
    /\ pc[r] = "assess" /\ FirstAttempt(r) /\ Eligible /\ pr.at = id[r]
    /\ GoTo(r, "post")
    /\ UNCHANGED <<pr, moves, run, id, verdict, status, mishaps>>

\* Mutant: the verdict goes to the head of the moment.
PublishOnCurrent(r) ==
    /\ pc[r] = "post"
    /\ Post(r, pr.at.head, Conclusion(r), "over", "fail")
    /\ UNCHANGED <<pr, moves, run, id, verdict>>

\* Mutant: the summary is written after the status.
PublishThenSummarise(r) ==
    /\ pc[r] = "post"
    /\ \E next \in {"over", "fail"} : Post(r, id[r].head, Conclusion(r), next, "fail")
    /\ UNCHANGED <<pr, moves, run, id, verdict>>

\* The summary is written; then comes the status, on the captured head.
Publish(r) ==
    /\ pc[r] = "post"
    /\ Post(r, id[r].head, Conclusion(r), "over", "fail")
    /\ UNCHANGED <<pr, moves, run, id, verdict>>

\* The publish job's last step, when anything before it went wrong.
Fail(r) ==
    /\ pc[r] = "fail"
    /\ FailedStatus(r, "over")
    /\ UNCHANGED <<pr, moves, run, id, verdict>>

\* A step fails, the pull request is no longer what was captured, or a person
\* cancels the run; the steps under always() still follow.
Stop(r) ==
    /\ \/ pc[r] \in {"pending", "collect"} /\ GoTo(r, "fail_capture")
       \/ pc[r] = "identify" /\ FirstAttempt(r) /\ GoTo(r, "fail_capture")
       \/ pc[r] \in {"review", "assess"} /\ FirstAttempt(r) /\ GoTo(r, "fail")
       \/ pc[r] = "post" /\ GoTo(r, "fail")
    /\ UNCHANGED <<pr, moves, run, id, verdict, status, mishaps>>

\* A forced cancellation, or a runner that is lost.
Kill(r) ==
    /\ pc[r] \notin {"idle", "over"}
    /\ GoTo(r, "over") /\ mishaps' = mishaps \cup {r}
    /\ UNCHANGED <<pr, moves, run, id, verdict, status>>

-----------------------------------------------------------------------------
(* The pull request: pushes, also back to an earlier head; a base branch that *)
(* advances; drafts, closing and reopening.                                   *)

ChangePr ==
    /\ moves < MaxMoves /\ moves' = moves + 1
    /\ \/ \E h \in Heads \ {pr.at.head} : pr' = [pr EXCEPT !.at = [head |-> h, base |-> @.base]]
       \/ \E b \in Bases \ {pr.at.base} : pr' = [pr EXCEPT !.at = [head |-> @.head, base |-> b]]
       \/ \E s \in {"open", "draft", "closed"} \ {pr.state} : pr' = [pr EXCEPT !.state = s]
    /\ UNCHANGED <<pc, run, id, verdict, status, mishaps>>

-----------------------------------------------------------------------------

RunStep(r) ==
    \/ Begin(r) \/ Skip(r)
    \/ Identify(r) \/ PostPending(r) \/ Collect(r) \/ FailCapture(r)
    \/ Review(r) \/ Assess(r) \/ Publish(r) \/ Fail(r) \/ Stop(r)

Next ==
    \/ \E r \in Runs : Trigger(r) \/ Rerun(r) \/ RunStep(r) \/ Kill(r)
    \/ ChangePr

Spec == Init /\ [][Next]_vars

-----------------------------------------------------------------------------
(* Properties *)

\* A commit is called clear only when the run that says so froze that very
\* commit and both models cleared it (pr_review.py 454-485, 530-531).
ClearIsReviewed ==
    \A h \in Heads : status[h].is = "clear" =>
        LET r == status[h].by
        IN  /\ id[r] # None /\ id[r].head = h
            /\ verdict[r] # None /\ \A m \in Models : verdict[r][m] = "clear"

\* An earlier run of a group never writes over what a later one wrote, whatever
\* is cancelled, lost or re-run (pr-review.yml 21-26; docs/pr-review.md "Reruns").
LaterRunsPrevail ==
    [][\A h \in Heads : status'[h] # status[h] /\ status[h].by # Nobody =>
          \/ status'[h].by \notin Group(status[h].by)
          \/ begun[status'[h].by] >= begun[status[h].by]]_vars

\* A completed verdict is not replaced by the failure status of its own run,
\* unless the answer to its write was lost or a later one failed
\* (pr_review.py 527-528; docs/pr-review.md "Completed findings retain ...").
VerdictIsKept ==
    [][\A h \in Heads :
          status[h].is \in {"clear", "findings"} /\ status'[h] # status[h] =>
              status'[h].by # status[h].by \/ status[h].by \in mishaps]_vars

\* No commit is left pending: the run that wrote it is still in the attempt that
\* settles it, unless it was killed or a write of its was lost, which only
\* leaves the commit unable to merge (pr-review.yml 21-23, 77-84, 278-286).
PendingIsSettled ==
    \A h \in Heads, r \in Runs :
        status[h] = [is |-> "pending", by |-> r] =>
            r \in mishaps \/ (attempt[r] = 1 /\ Under(r))

=============================================================================
