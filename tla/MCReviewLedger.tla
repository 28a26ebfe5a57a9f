-------------------------- MODULE MCReviewLedger --------------------------
EXTENDS ReviewLedger, TLC

Early == Calendar(2026, 11, 15)
Late == Calendar(2026, 11, 16)
TwoDays == {Early, Late}

Entry(id, verdict, release, date, supersedes, text) ==
    [shaped |-> TRUE, path |-> id, sha256 |-> text, commit |-> "c", release |-> release,
     relationship |-> "author", verdict |-> verdict, date |-> date, supersedes |-> supersedes]

Text(id, verdict, release, date, questions) ==
    [title |-> id, sections |-> SectionsOf(verdict),
     subject |-> [commit |-> "c", release |-> release, relationship |-> "author",
                  verdict |-> verdict, date |-> date],
     opens |-> verdict, selfReview |-> TRUE,
     citations |-> {[correct |-> FALSE, corrected |-> TRUE]}, findings |-> {"WARNING"},
     questions |-> questions, changes |-> verdict = "FIX", attested |-> TRUE, signed |-> date]

First == Text(1, "FIX", "v1", Early, {"q"})
Second == Text(2, "ACCEPT", NONE, Late, {})
File(text) == [ending |-> "lf", text |-> text]

FirstEntry == Entry(1, "FIX", "v1", Early, NONE, First)
SecondEntry == Entry(2, "ACCEPT", NONE, Late, 1, Second)
\* What a careless or late pull request may write instead.
Spoilt == {[FirstEntry EXCEPT !.relationship = "independent"], [FirstEntry EXCEPT !.sha256 = [First EXCEPT !.findings = {}]]}

Unknown(question, status) ==
    [question |-> question, raised |-> Early, text |-> "t", status |-> status]
Open == [on |-> NONE, by |-> NONE]
Statuses == {Open, [on |-> Late, by |-> 2]}

TreeOf(e1, v1, e2, v2, k1, k2) ==
    [canonical |-> TRUE, index |-> (1 :> e1 @@ 2 :> e2), verdicts |-> (1 :> v1 @@ 2 :> v2),
     register |-> ("KU-001" :> k1 @@ "KU-002" :> k2)]

\* The first review with its file, unlisted, listed, or with a mistake.
FirstListed ==
    {<<NONE, NONE>>, <<FirstEntry, File(First)>>, <<FirstEntry, File([First EXCEPT !.findings = {}])>>}
        \cup {<<e, File(First)>> : e \in Spoilt}

SecondListed == {<<NONE, NONE>>, <<SecondEntry, File(Second)>>}

AllTrees ==
    {TreeOf(one[1], one[2], two[1], two[2], k1, k2) :
        one \in FirstListed, two \in SecondListed,
        k1 \in {NONE, Unknown("other", Open)} \cup {Unknown("q", s) : s \in Statuses},
        k2 \in {NONE, Unknown("q", Open)}}

\* A verdict signed on the last day of 2026's last week, which is a day of 2027.
Sunday == Week(2026, 53, 7)
NewYear == Calendar(2027, 1, 1)
OneDay == {NewYear}
Signed == Text(1, "ACCEPT", NONE, Sunday, {})
WeekTrees == {TreeOf(Entry(1, "ACCEPT", NONE, Sunday, NONE, Signed), File(Signed), NONE, NONE, NONE, NONE)}

Fresh == {TreeOf(NONE, NONE, NONE, NONE, k, NONE) : k \in {NONE, Unknown("q", Open)}}

AllEntries == {tree.index[id] : tree \in AllTrees \cup WeekTrees, id \in Ids} \ {NONE}
AllFiles == {tree.verdicts[id] : tree \in AllTrees \cup WeekTrees, id \in Ids} \ {NONE}
AllHeadings == {tree.register[k] : tree \in AllTrees \cup Fresh, k \in Unknowns} \ {NONE}

\* Symmetry.
PullSymmetry == Permutations(Pulls)
===========================================================================
