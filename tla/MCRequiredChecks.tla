-------------------------- MODULE MCRequiredChecks --------------------------
(* Small instances of RequiredChecks for TLC: one check, two trusted runs of  *)
(* its workflow.                                                              *)
EXTENDS RequiredChecks

CONSTANTS c1, r1, r2

OneCheck     == {c1}
OneCheckRuns == {r1, r2}
OneCheckOf   == [x \in {c1, r1, r2} |-> "ci"]
From(event, head) == [event |-> event, branch |-> "main", repository |-> "home", head |-> head]
Origins      == [r \in {r1, r2} |-> [event |-> IF r = r1 THEN "push" ELSE "workflow_dispatch",
                                     branch |-> "main", repository |-> "home", head |-> "home"]]

=============================================================================
