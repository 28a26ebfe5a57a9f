----------------------------- MODULE RepinIssue -----------------------------
(***************************************************************************)
(* attribution-repin.yml and scripts/repin_issue.py: a change of the        *)
(* no-ai-attribution action on main owes a repin of the workflow that uses  *)
(* it; a run prepares the patch from main as it is and files it as an       *)
(* issue, for a person to merge.  Main moves on, runs wait for each other,  *)
(* fail and are re-run, and people open and close issues.                   *)
(***************************************************************************)
EXTENDS Naturals, Sequences, FiniteSets, SequencesExt

CONSTANTS
    Runs,       \* runs of the workflow
    Actions,    \* contents of the action's directory
    MaxCommits, \* bound: commits on main
    MaxIssues,  \* bound: issues with the title
    MaxFailures, \* bound: failing steps
    Nothing      \* no commit and no issue

\* No commit and no issue is numbered like one.
RepinAssumption == Nothing \notin Nat \ {0}

VARIABLES
    commits, \* every commit: its action, the pin and the rest of the patched
             \* files, and all the commits it descends from, itself included
    main,    \* the head of main
    pc,      \* the next step of a run
    target,  \* the commit it checked out
    plan,    \* the issue it is going to refresh, if there is one
    issues,  \* the issues with the title
    failures \* how many steps have failed

vars == <<commits, main, pc, target, plan, issues, failures>>

-----------------------------------------------------------------------------

Commits == 1 .. Len(commits)

IssueIds == 1 .. MaxIssues

NoIssue == [state |-> "none", bot |-> FALSE, target |-> Nothing]

Init ==
    /\ \E a \in Actions : commits = <<[action |-> a, pin |-> 1, edit |-> 0, past |-> {1}]>>
    /\ main = 1
    /\ pc = [r \in Runs |-> "idle"]
    /\ target = [r \in Runs |-> Nothing] /\ plan = [r \in Runs |-> Nothing]
    /\ issues = [i \in IssueIds |-> NoIssue] /\ failures = 0

-----------------------------------------------------------------------------
(* What Git answers *)

Ancestor(older, newer) == older \in commits[newer].past

SameAction(c, d) == commits[c].action = commits[d].action

\* The workflow and the baseline, which the patch edits.
SamePatched(c, d) == commits[c].pin = commits[d].pin /\ commits[c].edit = commits[d].edit

PinIsCurrent(c) == SameAction(commits[c].pin, c) /\ Ancestor(commits[c].pin, c)

UnchangedSince(t, c) == Ancestor(t, c) /\ SameAction(t, c) /\ SamePatched(t, c)

-----------------------------------------------------------------------------
(* Main *)

Commit(action, pin, edit, parent) ==
    /\ Len(commits) < MaxCommits
    /\ commits' = Append(commits, [action |-> action, pin |-> pin, edit |-> edit,
                                   past |-> commits[parent].past \cup {Len(commits) + 1}])
    /\ main' = Len(commits) + 1

\* The group: a run that enters it takes the place of the one that waits.
Enter(r) == pc' = [q \in Runs |->
    IF q = r THEN "queued" ELSE IF pc[q] = "queued" THEN "done" ELSE pc[q]]

\* A merge that changes the action starts a run.
MergeAction(r) ==
    /\ pc[r] = "idle"
    /\ \E a \in Actions \ {commits[main].action} :
         Commit(a, commits[main].pin, commits[main].edit, main)
    /\ Enter(r)
    /\ UNCHANGED <<target, plan, issues, failures>>

\* A merge that edits the workflow or the baseline, or neither.
MergeOther ==
    /\ \E e \in {commits[main].edit, Len(commits)} :
         Commit(commits[main].action, commits[main].pin, e, main)
    /\ UNCHANGED <<pc, target, plan, issues, failures>>

\* A person merges the patch of an issue, which closes it, after the tests that
\* issue_body asks for have passed on the patched tree.
MergeRepin(i) ==
    /\ issues[i].state = "open" /\ issues[i].target # Nothing
    /\ SamePatched(issues[i].target, main)
    /\ SameAction(issues[i].target, main) /\ Ancestor(issues[i].target, main)
    /\ Commit(commits[main].action, issues[i].target, commits[main].edit, main)
    /\ issues' = [issues EXCEPT ![i].state = "closed"]
    /\ UNCHANGED <<pc, target, plan, failures>>

\* Main is rewritten from an earlier commit on, with an action of its own.
Rewrite(r) ==
    /\ pc[r] = "idle"
    /\ \E c \in commits[main].past \ {main}, a \in Actions :
         Commit(a, commits[c].pin, commits[c].edit, c)
    /\ Enter(r)
    /\ UNCHANGED <<target, plan, issues, failures>>

-----------------------------------------------------------------------------
(* Issues *)

OpenIssues == {i \in IssueIds : issues[i].state = "open"}

Ours == {i \in OpenIssues : issues[i].bot}

NextId(i) == issues[i].state = "none" /\ \A j \in IssueIds : j < i => issues[j].state # "none"

PersonOpens(i) ==
    /\ NextId(i)
    /\ issues' = [issues EXCEPT ![i] = [state |-> "open", bot |-> FALSE, target |-> Nothing]]
    /\ UNCHANGED <<commits, main, pc, target, plan, failures>>

PersonCloses(i) ==
    /\ issues[i].state = "open"
    /\ issues' = [issues EXCEPT ![i].state = "closed"]
    /\ UNCHANGED <<commits, main, pc, target, plan, failures>>

-----------------------------------------------------------------------------
(* A run *)

GoTo(r, step) == pc' = [pc EXCEPT ![r] = step]

\* Mutant: runs are not serialised.
GroupIsIgnored == TRUE

\* The steps of a run that holds the group.
Working == {"check", "fetch", "list", "write"}

GroupIsFree == \A r \in Runs : pc[r] \notin Working

\* Mutant: a re-run keeps the commit its first attempt checked out.
CheckOutOnce(r) == IF target[r] = Nothing THEN main ELSE target[r]

CheckOut(r) == main

\* "prepare": the patch is written only when the pin is stale.
Prepare(r) ==
    /\ pc[r] = "queued" /\ GroupIsFree
    /\ target' = [target EXCEPT ![r] = CheckOut(r)]
    /\ GoTo(r, IF PinIsCurrent(CheckOut(r)) THEN "done" ELSE "check")
    /\ UNCHANGED <<commits, main, plan, issues, failures>>

\* The tests on the repinned tree pass.
Check(r) ==
    /\ pc[r] = "check" /\ GoTo(r, "fetch")
    /\ UNCHANGED <<commits, main, target, plan, issues, failures>>

\* git fetch, and main's unchanged_since.
Fetch(r) ==
    /\ pc[r] = "fetch"
    /\ GoTo(r, IF UnchangedSince(target[r], main) THEN "list" ELSE "failed")
    /\ UNCHANGED <<commits, main, target, plan, issues, failures>>

\* open_issues, and what publish makes of them: an issue of the workflow's own
\* is refreshed, a person's is left alone, and without either one is opened.
List(r) ==
    /\ pc[r] = "list"
    /\ \/ /\ Ours = {} /\ OpenIssues # {}
          /\ GoTo(r, "done") /\ UNCHANGED plan
       \/ /\ OpenIssues = {}
          /\ GoTo(r, "write") /\ plan' = [plan EXCEPT ![r] = Nothing]
       \/ \E i \in Ours :
            /\ GoTo(r, IF issues[i].target = target[r] THEN "done" ELSE "write")
            /\ plan' = [plan EXCEPT ![r] = i]
    /\ UNCHANGED <<commits, main, target, issues, failures>>

\* The POST or the PATCH; an issue that was closed meanwhile stays so.
Arrives(r) ==
    IF plan[r] # Nothing
    THEN issues' = [issues EXCEPT ![plan[r]].target = target[r]]
    ELSE \E i \in IssueIds :
           /\ NextId(i)
           /\ issues' = [issues EXCEPT ![i] = [state |-> "open", bot |-> TRUE, target |-> target[r]]]

Write(r) ==
    /\ pc[r] = "write"
    /\ Arrives(r) /\ GoTo(r, "done")
    /\ UNCHANGED <<commits, main, target, plan, failures>>

\* A step fails, a call or its answer is lost, the run is cancelled.
StepFails(r) ==
    /\ pc[r] \in Working
    /\ failures < MaxFailures /\ failures' = failures + 1
    /\ GoTo(r, "failed")
    /\ UNCHANGED issues \/ (pc[r] = "write" /\ Arrives(r))
    /\ UNCHANGED <<commits, main, target, plan>>

\* A person re-runs a run that is over.
Rerun(r) ==
    /\ pc[r] \in {"failed", "done"}
    /\ Enter(r)
    /\ UNCHANGED <<commits, main, target, plan, issues, failures>>

-----------------------------------------------------------------------------

RunStep(r) == Prepare(r) \/ Check(r) \/ Fetch(r) \/ List(r) \/ Write(r)

Next ==
    \/ \E r \in Runs : MergeAction(r) \/ Rewrite(r) \/ RunStep(r) \/ StepFails(r) \/ Rerun(r)
    \/ MergeOther
    \/ \E i \in IssueIds : MergeRepin(i) \/ PersonOpens(i) \/ PersonCloses(i)

Spec == Init /\ [][Next]_vars

-----------------------------------------------------------------------------
(* Properties *)

\* Quick merges and re-runs never leave two open issues of the workflow's own
\* (attribution-repin.yml 20-23).
OneIssue == Cardinality(Ours) <= 1

\* An issue never goes back to the patch for an earlier commit, unless the later
\* one is no longer on main (attribution-repin.yml 35-37).
PatchMovesForward ==
    \A i \in IssueIds :
        issues[i].target # Nothing /\ issues'[i].target # issues[i].target =>
            \/ Ancestor(issues[i].target, issues'[i].target)
            \/ ~Ancestor(issues[i].target, main)

\* A patch is filed only when it is for a pin that is stale, and never in an
\* issue that a person opened (repin_issue.py 147-148, 227-229).
PeopleAreLeftAlone ==
    \A i \in IssueIds :
        /\ issues[i].state # "none" => issues'[i].bot = issues[i].bot
        /\ issues'[i].target # issues[i].target =>
               issues'[i].bot /\ ~PinIsCurrent(issues'[i].target)

\* What a step may do to an issue.
IssuesAreKept == PatchMovesForward /\ PeopleAreLeftAlone

\* Main's action has not changed since commit t.
Since(t) == \A c \in commits[main].past : c >= t => SameAction(c, main)

\* The workflow has given some issue a patch for main's action.
Filed == \E i \in IssueIds : issues[i].target # Nothing /\ Since(issues[i].target)

\* An issue with the title that a person opened.
PersonsIssue == \E i \in IssueIds : issues[i].state # "none" /\ ~issues[i].bot

\* No debt is forgotten: when no run is under way or failed, main's pin is
\* current or a patch for its action was filed, however many runs gave way in
\* the group, unless a person's issue stands in the way
\* (attribution-repin.yml 10-23; repin_issue.py 226-229).
DebtIsFiled ==
    (\A r \in Runs : pc[r] \in {"idle", "done"}) =>
        PinIsCurrent(main) \/ Filed \/ PersonsIssue

\* What main owes is filed, in one issue.
FiledOnce == OneIssue /\ DebtIsFiled

-----------------------------------------------------------------------------
(* What the variables hold *)

CommitRecord == [action : Actions, pin : Nat, edit : Nat, past : SUBSET Nat]

Issue == [state : {"none", "open", "closed"}, bot : BOOLEAN, target : Commits \cup {Nothing}]

TypeOK ==
    /\ commits \in Seq(CommitRecord)
    /\ main \in Commits
    /\ pc \in [Runs -> {"idle", "queued", "done", "failed"} \cup Working]
    /\ target \in [Runs -> Commits \cup {Nothing}]
    /\ plan \in [Runs -> IssueIds \cup {Nothing}]
    /\ issues \in [IssueIds -> Issue]

=============================================================================
