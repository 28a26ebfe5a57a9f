------------------------------ MODULE MCAudits ------------------------------
(***************************************************************************)
(* Small instances of the two checks of Audits.                             *)
(***************************************************************************)
EXTENDS Audits, TLC

CONSTANTS o1, o2, n1, n2, x, p, q, T1, T2

-----------------------------------------------------------------------------
(* MainGate: a component, its sibling whose name starts alike, a file of the *)
(* root and the caller's workflow.                                           *)

MCGatePaths    == {<<"pkg", "a">>, <<"pkg2", "a">>, <<"docs">>, <<"release.yml">>}
MCGateContents == {"absent", "x", "y"}
MCTagged   == [path \in MCGatePaths |-> IF path = <<"docs">> THEN "absent" ELSE "x"]
MCSource   == <<"pkg">>
MCCaller   == <<"release.yml">>

-----------------------------------------------------------------------------
(* CanaryAudit: release-policy has an old history o1 <- o2, the same code    *)
(* rewritten as n1 <- n2, and x, which dropped it.                           *)

MCFamilies == {"python", "verify"}
MCHistory == o1 :> <<o1>> @@ o2 :> <<o2, o1>> @@ n1 :> <<n1>> @@ n2 :> <<n2, n1>> @@ x :> <<x>>
MCTree == o1 :> 1 @@ o2 :> 2 @@ n1 :> 1 @@ n2 :> 2 @@ x :> 3

Ruleset(id, enforcement, bypass, rules) ==
    [id |-> id, enforcement |-> enforcement, bypass |-> bypass, rules |-> rules, exact |-> TRUE]
Bound == {"update", "deletion"}
Good == Ruleset(1, "active", "none", Bound)
Weak == Ruleset(2, "active", "none", {"update"})
MCRulesetStates == { <<>>, <<Weak>>, <<Weak, Good>>, <<Ruleset(1, "active", "unseen", Bound)>> }

One == [space |-> p, version |-> 1]
OnMain == [space |-> Main, version |-> 0]
Python == [family |-> "python", prefix |-> p, pin |-> o1, run |-> 1, ref |-> One, head |-> 1,
           policy |-> o1, started |-> 1, dated |-> TRUE]
Verify == [family |-> "verify", pin |-> o1, run |-> 1, ref |-> OnMain, head |-> 1,
           policy |-> o1, started |-> 1, dated |-> TRUE]
Doc(families) == [canonical |-> TRUE, schema |-> 1, families |-> families]
MCManifests == { Doc(<<Python, Verify>>), Doc(<<[Python EXCEPT !.pin = n1, !.dated = FALSE], Verify>>),
                 Doc(<<Python, Python, Verify>>) }

MCCalls == { <<o1>>, <<n1>>, <<o1, o1>> }
MCPolicies == { [main |-> c, tags |-> T1 :> o2 @@ T2 :> NONE, rulesets |-> <<Weak, Good>>] : c \in {o2, n2} }

Run(id, branch, at, pin, ok) ==
    [id |-> id, branch |-> branch, commit |-> at, started |-> at, pins |-> <<pin>>, success |-> ok,
     finished |-> IF ok THEN at ELSE 0]
Released(run, tag, at, policyPin, draft) ==
    [tag |-> tag, draft |-> draft, immutable |-> ~draft, published |-> IF draft THEN 0 ELSE at, at |-> at, assets |-> 1,
     digest |-> TRUE, signed |-> [run |-> run, policy |-> policyPin, tag |-> tag, head |-> at]]
Two == [space |-> q, version |-> 2]
Three == [space |-> p, version |-> 3]

Consumer(runs, releases) ==
    [declared |-> <<o1>>, rulesets |-> <<Weak, Good>>, runs |-> runs, releases |-> releases]
Alone == Consumer(<<Run(1, One, 1, o1, TRUE)>>, <<Released(1, One, 1, o1, FALSE)>>)
Moved == [Alone EXCEPT !.releases[1].at = 0]
Replaced == [Alone EXCEPT !.releases[1].signed.run = 2]
\* A sibling's release and, above it, a newer one of the family on its way.
Busy(finished) ==
    Consumer(<<Run(3, Three, 3, o1, finished), Run(2, Two, 2, o1, TRUE), Run(1, One, 1, o1, TRUE)>>,
             <<Released(3, Three, 3, o1, TRUE), Released(2, Two, 2, o1, FALSE), Released(1, One, 1, o1, FALSE)>>)
Verified(runs) == [declared |-> <<o1>>, rulesets |-> <<>>, runs |-> runs, releases |-> <<>>]
Once == Verified(<<Run(1, OnMain, 1, o1, TRUE)>>)
Then(c) == Verified(<<Run(2, OnMain, 2, c, TRUE), Run(1, OnMain, 1, o1, TRUE)>>)

MCEstates ==
    { [f \in MCFamilies |-> IF f = "python" THEN e[1] ELSE e[2]] :
        e \in { <<Alone, Once>>, <<Alone, Then(n1)>>, <<Busy(FALSE), Then(o1)>>, <<Busy(TRUE), Then(o1)>>,
                <<Moved, Then(o1)>>, <<Replaced, Then(o1)>> } }

MCReleaseFamilies == {"python"}
MCSpaces == {p, q}
MCPolicyCommits == {o1, o2, n1, n2, x}
MCPolicyTags == {T1, T2}

=============================================================================
