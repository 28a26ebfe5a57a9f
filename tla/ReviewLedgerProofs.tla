------------------------ MODULE ReviewLedgerProofs ------------------------
(***************************************************************************)
(* Proofs about ReviewLedger for any reviews, known unknowns, proposals    *)
(* and number of pull requests: checks that each look at one base alone    *)
(* keep the whole history of main append-only.                             *)
(***************************************************************************)
EXTENDS ReviewLedger, TLAPS

-----------------------------------------------------------------------------
(* Trees that only grow *)

\* A tree grows from itself.
LEMMA GrowsReflexive == ASSUME NEW t PROVE RequireAppendOnly(t, t)
BY DEF RequireAppendOnly, Listed, Registered

\* Growth composes: comparing each commit with its base compares it with all before.
LEMMA GrowsTransitive ==
    ASSUME NEW a, NEW b, NEW c, RequireAppendOnly(a, b), RequireAppendOnly(b, c)
    PROVE  RequireAppendOnly(a, c)
<1>1. ASSUME NEW id \in Listed(a)
      PROVE  c.index[id] = a.index[id]
  BY <1>1 DEF RequireAppendOnly, Listed
<1>2. ASSUME NEW k \in Registered(a)
      PROVE  /\ c.register[k] # NONE
             /\ Fixed(c.register[k]) = Fixed(a.register[k])
             /\ c.register[k].status = a.register[k].status
                  \/ (IsOpen(a.register[k]) /\ ~IsOpen(c.register[k]))
  <2>1. /\ b.register[k] # NONE
        /\ Fixed(b.register[k]) = Fixed(a.register[k])
        /\ b.register[k].status = a.register[k].status
             \/ (IsOpen(a.register[k]) /\ ~IsOpen(b.register[k]))
    BY <1>2 DEF RequireAppendOnly
  <2>2. k \in Registered(b)
    BY <1>2, <2>1 DEF Registered
  <2>3. /\ c.register[k] # NONE
        /\ Fixed(c.register[k]) = Fixed(b.register[k])
        /\ c.register[k].status = b.register[k].status
             \/ (IsOpen(b.register[k]) /\ ~IsOpen(c.register[k]))
    BY <2>2 DEF RequireAppendOnly
  <2> QED
    BY <2>1, <2>3 DEF IsOpen
<1> QED
  BY <1>1, <1>2 DEF RequireAppendOnly

\* What git may join: no document was changed differently on both sides.
Mergeable(base, mine, theirs) ==
    /\ Disjoint(base.index, mine.index, theirs.index)
    /\ Disjoint(base.verdicts, mine.verdicts, theirs.verdicts)
    /\ Disjoint(base.register, mine.register, theirs.register)

\* What a join holds at a key is what one of the two sides holds, the other having it from
\* the base or the same.
LEMMA JoinedAt ==
    ASSUME NEW base \in Tree, NEW mine \in Tree, NEW theirs \in Tree
    PROVE  LET j == JoinedTree(base, mine, theirs)
           IN  /\ \A id \in Ids :
                    /\ j.index[id] = IF mine.index[id] = base.index[id]
                                     THEN theirs.index[id] ELSE mine.index[id]
                    /\ j.verdicts[id] = IF mine.verdicts[id] = base.verdicts[id]
                                        THEN theirs.verdicts[id] ELSE mine.verdicts[id]
               /\ \A k \in Unknowns :
                    j.register[k] = IF mine.register[k] = base.register[k]
                                    THEN theirs.register[k] ELSE mine.register[k]
               /\ j \in Tree
BY DEF Tree, JoinedTree, Joined

\* A join grows from both sides.
LEMMA JoinGrows ==
    ASSUME NEW base \in Tree, NEW mine \in Tree, NEW theirs \in Tree,
           RequireAppendOnly(base, mine), RequireAppendOnly(base, theirs),
           Mergeable(base, mine, theirs)
    PROVE  LET j == JoinedTree(base, mine, theirs)
           IN  RequireAppendOnly(mine, j) /\ RequireAppendOnly(theirs, j)
<1> DEFINE j == JoinedTree(base, mine, theirs)
<1>1. /\ \A id \in Ids : j.index[id] = IF mine.index[id] = base.index[id]
                                       THEN theirs.index[id] ELSE mine.index[id]
      /\ \A k \in Unknowns : j.register[k] = IF mine.register[k] = base.register[k]
                                             THEN theirs.register[k] ELSE mine.register[k]
  BY JoinedAt
<1>2. \A id \in Ids : mine.index[id] = base.index[id] \/ theirs.index[id] = base.index[id]
                        \/ mine.index[id] = theirs.index[id]
  BY DEF Mergeable, Disjoint, Tree
<1>3. \A k \in Unknowns :
        mine.register[k] = base.register[k] \/ theirs.register[k] = base.register[k]
          \/ mine.register[k] = theirs.register[k]
  BY DEF Mergeable, Disjoint, Tree
<1> HIDE DEF j
<1>4. \A id \in Listed(mine) : j.index[id] = mine.index[id]
  BY <1>1, <1>2 DEF Listed, RequireAppendOnly
<1>5. \A id \in Listed(theirs) : j.index[id] = theirs.index[id]
  BY <1>1, <1>2 DEF Listed, RequireAppendOnly
<1>6. ASSUME NEW k \in Registered(mine)
      PROVE  /\ j.register[k] # NONE
             /\ Fixed(j.register[k]) = Fixed(mine.register[k])
             /\ j.register[k].status = mine.register[k].status
                  \/ (IsOpen(mine.register[k]) /\ ~IsOpen(j.register[k]))
  <2>1. CASE mine.register[k] = base.register[k]
    <3>1. k \in Registered(base) /\ j.register[k] = theirs.register[k]
      BY <1>1, <1>6, <2>1 DEF Registered
    <3> QED
      BY <2>1, <3>1 DEF RequireAppendOnly
  <2>2. CASE mine.register[k] # base.register[k]
    BY <1>1, <1>6, <2>2 DEF Registered
  <2> QED
    BY <2>1, <2>2
<1>7. ASSUME NEW k \in Registered(theirs)
      PROVE  /\ j.register[k] # NONE
             /\ Fixed(j.register[k]) = Fixed(theirs.register[k])
             /\ j.register[k].status = theirs.register[k].status
                  \/ (IsOpen(theirs.register[k]) /\ ~IsOpen(j.register[k]))
  <2>1. CASE j.register[k] = theirs.register[k]
    BY <1>7, <2>1 DEF Registered
  <2>2. CASE j.register[k] # theirs.register[k]
    <3>1. k \in Registered(base) /\ j.register[k] = mine.register[k]
              /\ theirs.register[k] = base.register[k]
      BY <1>1, <1>3, <1>7, <2>2 DEF Registered
    <3> QED
      BY <3>1 DEF RequireAppendOnly
  <2> QED
    BY <2>1, <2>2
<1>8. RequireAppendOnly(mine, j)
  BY <1>4, <1>6 DEF RequireAppendOnly
<1>9. RequireAppendOnly(theirs, j)
  BY <1>5, <1>7 DEF RequireAppendOnly
<1> QED
  BY <1>8, <1>9 DEF j

-----------------------------------------------------------------------------
(* What the check of one tree establishes *)

\* Each listed review has the text its digest is of, no file is there unlisted, and the
\* questions of the listed texts are headings.
Bound(tree) ==
    /\ \A id \in Listed(tree) : tree.index[id].sha256 = CanonicalText(tree.verdicts[id])
    /\ \A id \in Ids : tree.verdicts[id] # NONE => tree.index[id] # NONE
    /\ QuestionsAreRegistered(tree)

\* What the check accepts is bound.
LEMMA AcceptedIsBound ==
    ASSUME NEW tree \in Trees \cup Start, NEW d, ChecksAlone(tree, d)
    PROVE  Bound(tree)
BY TreesAssumption DEF ChecksAlone, CheckVerdict, Bound

\* A question registered in a tree is registered in what grows from it.
LEMMA HeadingsStay ==
    ASSUME NEW a, NEW b, RequireAppendOnly(a, b),
           NEW q, NEW k \in Registered(a), a.register[k].question = q
    PROVE  k \in Registered(b) /\ b.register[k].question = q
<1>1. k \in Unknowns /\ b.register[k] # NONE /\ Fixed(b.register[k]) = Fixed(a.register[k])
  BY DEF RequireAppendOnly, Registered
<1>2. b.register[k].question = a.register[k].question
  BY <1>1 DEF Fixed
<1> QED
  BY <1>1, <1>2 DEF Registered

\* A join of bound trees is bound: an entry and its text come from the same side.
LEMMA JoinIsBound ==
    ASSUME NEW base \in Tree, NEW mine \in Tree, NEW theirs \in Tree,
           RequireAppendOnly(base, mine), RequireAppendOnly(base, theirs),
           Mergeable(base, mine, theirs), Bound(base), Bound(mine), Bound(theirs)
    PROVE  Bound(JoinedTree(base, mine, theirs))
<1> DEFINE j == JoinedTree(base, mine, theirs)
<1>1. \A id \in Ids :
        /\ j.index[id] = IF mine.index[id] = base.index[id]
                         THEN theirs.index[id] ELSE mine.index[id]
        /\ j.verdicts[id] = IF mine.verdicts[id] = base.verdicts[id]
                            THEN theirs.verdicts[id] ELSE mine.verdicts[id]
  BY JoinedAt
<1>2. \A id \in Ids :
        /\ mine.index[id] = base.index[id] \/ theirs.index[id] = base.index[id]
             \/ mine.index[id] = theirs.index[id]
        /\ mine.verdicts[id] = base.verdicts[id] \/ theirs.verdicts[id] = base.verdicts[id]
             \/ mine.verdicts[id] = theirs.verdicts[id]
  BY DEF Mergeable, Disjoint, Tree
<1>3. RequireAppendOnly(mine, j) /\ RequireAppendOnly(theirs, j)
  BY JoinGrows
<1> HIDE DEF j
<1>4. \A id \in Listed(j) :
        \/ id \in Listed(mine) /\ j.index[id] = mine.index[id]
             /\ j.verdicts[id] = mine.verdicts[id]
        \/ id \in Listed(theirs) /\ j.index[id] = theirs.index[id]
             /\ j.verdicts[id] = theirs.verdicts[id]
  <2> SUFFICES ASSUME NEW id \in Listed(j)
               PROVE  \/ id \in Listed(mine) /\ j.index[id] = mine.index[id]
                           /\ j.verdicts[id] = mine.verdicts[id]
                      \/ id \in Listed(theirs) /\ j.index[id] = theirs.index[id]
                           /\ j.verdicts[id] = theirs.verdicts[id]
    OBVIOUS
  <2>1. id \in Ids /\ j.index[id] # NONE
    BY DEF Listed
  <2>2. CASE base.index[id] # NONE
    <3>1. mine.index[id] = base.index[id] /\ theirs.index[id] = base.index[id]
      BY <2>1, <2>2 DEF RequireAppendOnly, Listed
    <3> QED
      BY <1>1, <2>1, <3>1 DEF Listed
  <2>3. CASE base.index[id] = NONE
    <3>1. base.verdicts[id] = NONE
      BY <2>1, <2>3 DEF Bound
    <3>2. CASE mine.index[id] = NONE
      <4>1. mine.verdicts[id] = NONE
        BY <2>1, <3>2 DEF Bound
      <4> QED
        BY <1>1, <2>1, <2>3, <3>1, <3>2, <4>1 DEF Listed
    <3>3. CASE mine.index[id] # NONE
      <4>1. j.index[id] = mine.index[id] /\ id \in Listed(mine)
        BY <1>1, <2>1, <2>3, <3>3 DEF Listed
      <4>2. CASE theirs.index[id] = NONE
        <5>1. theirs.verdicts[id] = NONE
          BY <2>1, <4>2 DEF Bound
        <5> QED
          BY <1>1, <2>1, <3>1, <4>1, <5>1
      <4>3. CASE theirs.index[id] # NONE
        <5>1. theirs.index[id] = mine.index[id] /\ id \in Listed(theirs)
          BY <1>2, <2>1, <2>3, <3>3, <4>3 DEF Listed
        <5> QED
          BY <1>1, <2>1, <4>1, <5>1
      <4> QED
        BY <4>2, <4>3
    <3> QED
      BY <3>2, <3>3
  <2> QED
    BY <2>2, <2>3
<1>5. \A id \in Listed(j) : j.index[id].sha256 = CanonicalText(j.verdicts[id])
  BY <1>4 DEF Bound
<1>6. \A id \in Ids : j.verdicts[id] # NONE => j.index[id] # NONE
  <2> SUFFICES ASSUME NEW id \in Ids, j.verdicts[id] # NONE
               PROVE  j.index[id] # NONE
    OBVIOUS
  <2>1. mine.verdicts[id] # NONE \/ theirs.verdicts[id] # NONE
    BY <1>1
  <2>2. id \in Listed(mine) \/ id \in Listed(theirs)
    BY <2>1 DEF Bound, Listed
  <2> QED
    BY <1>3, <2>2 DEF RequireAppendOnly, Listed
<1>7. QuestionsAreRegistered(j)
  <2> SUFFICES ASSUME NEW id \in Listed(j), NEW q \in CanonicalText(j.verdicts[id]).questions
               PROVE  \E k \in Registered(j) : j.register[k].question = q
    BY DEF QuestionsAreRegistered
  <2>1. CASE id \in Listed(mine) /\ j.verdicts[id] = mine.verdicts[id]
    <3>1. PICK k \in Registered(mine) : mine.register[k].question = q
      BY <2>1 DEF Bound, QuestionsAreRegistered
    <3> QED
      BY <1>3, <3>1, HeadingsStay
  <2>2. CASE id \in Listed(theirs) /\ j.verdicts[id] = theirs.verdicts[id]
    <3>1. PICK k \in Registered(theirs) : theirs.register[k].question = q
      BY <2>2 DEF Bound, QuestionsAreRegistered
    <3> QED
      BY <1>3, <3>1, HeadingsStay
  <2> QED
    BY <1>4, <2>1, <2>2
<1>8. Bound(j)
  BY <1>5, <1>6, <1>7 DEF Bound
<1> QED
  BY <1>8 DEF j

-----------------------------------------------------------------------------
(* The inductive invariant *)

TypeOK ==
    /\ main \in Seq(CommitsOfMain)
    /\ Len(main) >= 1
    /\ tags \in [Tags -> Commits \cup {NONE}]
    /\ accepted \in [Pulls -> Acceptances \cup {NONE}]

\* Every commit of main grows from every earlier one.
HistoryInv ==
    \A i \in 1..Len(main), j \in 1..Len(main) :
        i <= j => RequireAppendOnly(main[i].tree, main[j].tree)

BoundInv == \A i \in 1..Len(main) : Bound(main[i].tree)

\* An accepted tree grows from the commit of main that its check had for a base.
AcceptedInv ==
    \A p \in Pulls : accepted[p] # NONE =>
        /\ accepted[p].at \in 1..Len(main)
        /\ RequireAppendOnly(main[accepted[p].at].tree, accepted[p].tree)
        /\ Bound(accepted[p].tree)

IInv == TypeOK /\ HistoryInv /\ BoundInv /\ AcceptedInv

LEMMA InitInvariant == Init => IInv
<1> SUFFICES ASSUME Init PROVE IInv
  OBVIOUS
<1> PICK tree \in Start, d \in Days :
        ChecksAlone(tree, d) /\ main = <<[tree |-> tree, date |-> d, checked |-> d]>>
  BY DEF Init
<1>1. TypeOK
  BY TreesAssumption DEF Init, TypeOK, CommitsOfMain
<1>2. Len(main) = 1 /\ main[1].tree = tree
  OBVIOUS
<1>3. HistoryInv
  BY <1>2, GrowsReflexive DEF HistoryInv
<1>4. BoundInv
  BY <1>2, AcceptedIsBound DEF BoundInv
<1>5. AcceptedInv
  BY DEF Init, AcceptedInv
<1> QED
  BY <1>1, <1>3, <1>4, <1>5 DEF IInv

\* An accepted pull request grows from main's head, and is bound.
LEMMA AcceptInvariant ==
    ASSUME IInv, NEW p \in Pulls, Accept(p) PROVE IInv'
<1> USE DEF IInv
<1> PICK tree \in Trees, d \in Days :
        /\ CheckConsumer(HEAD.tree, tree, d)
        /\ accepted' = [accepted EXCEPT ![p] = [tree |-> tree, checked |-> d, at |-> Len(main)]]
        /\ main' = main /\ tags' = tags
  BY DEF Accept
<1>1. [tree |-> tree, checked |-> d, at |-> Len(main)] \in Acceptances
  BY DEF TypeOK, Acceptances
<1>2. TypeOK'
  BY <1>1 DEF TypeOK
<1>3. HistoryInv' /\ BoundInv'
  BY DEF HistoryInv, BoundInv, Bound, QuestionsAreRegistered, Listed, Registered,
         RequireAppendOnly, IsOpen
<1>4. Len(main) \in 1..Len(main)
  BY DEF TypeOK
<1>5. RequireAppendOnly(main[Len(main)].tree, tree) /\ Bound(tree)
  BY AcceptedIsBound DEF CheckConsumer, HEAD
<1>6. AcceptedInv'
  <2> SUFFICES ASSUME NEW q \in Pulls, accepted'[q] # NONE
               PROVE  /\ accepted'[q].at \in 1..Len(main)
                      /\ RequireAppendOnly(main[accepted'[q].at].tree, accepted'[q].tree)
                      /\ Bound(accepted'[q].tree)
    BY DEF AcceptedInv
  <2>1. CASE q = p
    BY <1>4, <1>5, <2>1 DEF TypeOK
  <2>2. CASE q # p
    BY <2>2 DEF AcceptedInv, TypeOK
  <2> QED
    BY <2>1, <2>2
<1> QED
  BY <1>2, <1>3, <1>6

\* A merge grows from main's head, whatever was merged since the check.
LEMMA MergeInvariant ==
    ASSUME IInv, NEW p \in Pulls, Merge(p) PROVE IInv'
<1> USE DEF IInv
<1> DEFINE base == main[accepted[p].at].tree
           mine == accepted[p].tree
           j == JoinedTree(base, mine, HEAD.tree)
<1>1. PICK d \in Days :
        main' = Append(main, [tree |-> j, date |-> d, checked |-> accepted[p].checked])
  BY DEF Merge
<1>2. /\ accepted[p] # NONE /\ Mergeable(base, mine, HEAD.tree)
      /\ accepted' = [accepted EXCEPT ![p] = NONE] /\ tags' = tags
  BY DEF Merge, Mergeable
<1>3. /\ accepted[p] \in Acceptances /\ accepted[p].at \in 1..Len(main)
      /\ RequireAppendOnly(base, mine) /\ Bound(mine)
  BY <1>2 DEF AcceptedInv, TypeOK
<1>4. Len(main) \in Nat /\ Len(main) \in 1..Len(main)
  BY DEF TypeOK
<1>5. mine \in Tree /\ base \in Tree /\ HEAD.tree \in Tree /\ accepted[p].checked \in Days
  <2>1. accepted[p].tree \in Trees /\ accepted[p].checked \in Days
    BY <1>3 DEF Acceptances
  <2>2. \A i \in 1..Len(main) : main[i] \in CommitsOfMain
    BY DEF TypeOK
  <2>3. \A i \in 1..Len(main) : main[i].tree \in Tree
    BY <2>2 DEF CommitsOfMain
  <2> QED
    BY <1>3, <1>4, <2>1, <2>3, TreesAssumption DEF HEAD
<1>6. RequireAppendOnly(base, HEAD.tree)
  BY <1>3, <1>4 DEF HistoryInv, HEAD
<1>7. Bound(base) /\ Bound(HEAD.tree)
  BY <1>3, <1>4 DEF BoundInv, HEAD
<1>8. j \in Tree
  BY <1>5, JoinedAt
<1>9. RequireAppendOnly(mine, j) /\ RequireAppendOnly(HEAD.tree, j)
  BY <1>2, <1>3, <1>5, <1>6, JoinGrows
<1>10. Bound(j)
  BY <1>2, <1>3, <1>5, <1>6, <1>7, JoinIsBound
<1> HIDE DEF base, mine, j
<1>11. [tree |-> j, date |-> d, checked |-> accepted[p].checked] \in CommitsOfMain
  BY <1>5, <1>8 DEF CommitsOfMain
<1>12. /\ Len(main') = Len(main) + 1
       /\ \A i \in 1..Len(main) : main'[i] = main[i]
       /\ main'[Len(main) + 1].tree = j
       /\ main' \in Seq(CommitsOfMain)
  BY <1>1, <1>4, <1>11 DEF TypeOK
<1>13. TypeOK'
  BY <1>2, <1>4, <1>12 DEF TypeOK
<1>14. \A i \in 1..Len(main) : RequireAppendOnly(main[i].tree, j)
  BY <1>4, <1>9, GrowsTransitive DEF HistoryInv, HEAD
<1>15. HistoryInv'
  <2> SUFFICES ASSUME NEW i \in 1..(Len(main) + 1), NEW k \in 1..(Len(main) + 1), i <= k
               PROVE  RequireAppendOnly(main'[i].tree, main'[k].tree)
    BY <1>12 DEF HistoryInv, RequireAppendOnly, Listed, Registered, IsOpen
  <2>1. CASE k \in 1..Len(main)
    <3>1. i \in 1..Len(main)
      BY <1>4, <2>1
    <3> QED
      BY <1>12, <2>1, <3>1 DEF HistoryInv
  <2>2. CASE k = Len(main) + 1 /\ i \in 1..Len(main)
    BY <1>12, <1>14, <2>2
  <2>3. CASE k = Len(main) + 1 /\ i = Len(main) + 1
    BY <2>3, GrowsReflexive
  <2> QED
    BY <1>4, <2>1, <2>2, <2>3
<1>16. BoundInv'
  <2> SUFFICES ASSUME NEW i \in 1..(Len(main) + 1)
               PROVE  Bound(main'[i].tree)
    BY <1>12 DEF BoundInv, Bound, QuestionsAreRegistered, Listed, Registered
  <2> QED
    BY <1>4, <1>10, <1>12 DEF BoundInv
<1>17. AcceptedInv'
  <2> SUFFICES ASSUME NEW q \in Pulls, accepted'[q] # NONE
               PROVE  /\ accepted'[q].at \in 1..(Len(main) + 1)
                      /\ RequireAppendOnly(main'[accepted'[q].at].tree, accepted'[q].tree)
                      /\ Bound(accepted'[q].tree)
    BY <1>12 DEF AcceptedInv
  <2>1. accepted'[q] = accepted[q]
    BY <1>2 DEF TypeOK
  <2>2. accepted[q].at \in 1..Len(main)
    BY <2>1 DEF AcceptedInv
  <2> QED
    BY <1>4, <1>12, <2>1, <2>2 DEF AcceptedInv
<1> QED
  BY <1>13, <1>15, <1>16, <1>17

LEMMA StepInvariant == IInv /\ [Next]_vars => IInv'
<1> SUFFICES ASSUME IInv, [Next]_vars PROVE IInv'
  OBVIOUS
<1>1. ASSUME main' = main, accepted' = accepted, tags' \in [Tags -> Commits \cup {NONE}]
      PROVE  IInv'
  <2>1. TypeOK' /\ HistoryInv' /\ BoundInv'
    BY <1>1 DEF IInv, TypeOK, HistoryInv, BoundInv, Bound, QuestionsAreRegistered,
                Listed, Registered, RequireAppendOnly, IsOpen
  <2>2. ASSUME NEW p \in Pulls, accepted[p] # NONE
        PROVE  /\ accepted[p].at \in 1..Len(main)
               /\ RequireAppendOnly(main[accepted[p].at].tree, accepted[p].tree)
               /\ Bound(accepted[p].tree)
    BY <2>2 DEF IInv, AcceptedInv
  <2>3. AcceptedInv'
    <3> SUFFICES ASSUME NEW p \in Pulls, accepted'[p] # NONE
                 PROVE  /\ accepted'[p].at \in 1..Len(main')
                        /\ RequireAppendOnly(main'[accepted'[p].at].tree, accepted'[p].tree)
                        /\ Bound(accepted'[p].tree)
      BY DEF AcceptedInv, RequireAppendOnly, Bound, Listed, Registered, IsOpen,
             QuestionsAreRegistered
    <3> QED
      BY <1>1, <2>2
  <2> QED
    BY <2>1, <2>3 DEF IInv
<1>2. CASE SetTag
  <2>1. tags' \in [Tags -> Commits \cup {NONE}]
    BY <1>2 DEF SetTag, IInv, TypeOK
  <2> QED
    BY <1>1, <1>2, <2>1 DEF SetTag
<1>3. CASE UNCHANGED vars
  BY <1>1, <1>3 DEF vars, IInv, TypeOK
<1>4. ASSUME NEW p \in Pulls, Accept(p) \/ Merge(p) PROVE IInv'
  BY <1>4, AcceptInvariant, MergeInvariant
<1> QED
  BY <1>2, <1>3, <1>4 DEF Next

\* The inductive invariant of the ledger.
THEOREM Invariance == Spec => []IInv
BY InitInvariant, StepInvariant, PTL DEF Spec

-----------------------------------------------------------------------------
(* What follows from it *)

\* A review listed on main is never edited or removed, nor is the text of its verdict.
THEOREM ListedStays == Spec => []NothingListedChanges
<1>1. IInv => NothingListedChanges
  <2> SUFFICES ASSUME IInv, NEW i \in 1..Len(main), NEW j \in 1..Len(main), i <= j,
                      NEW id \in Listed(main[i].tree)
               PROVE  /\ main[j].tree.index[id] = main[i].tree.index[id]
                      /\ CanonicalText(main[j].tree.verdicts[id])
                           = CanonicalText(main[i].tree.verdicts[id])
    BY DEF NothingListedChanges
  <2>1. main[j].tree.index[id] = main[i].tree.index[id]
    BY DEF IInv, HistoryInv, RequireAppendOnly
  <2>2. id \in Listed(main[j].tree)
    BY <2>1 DEF Listed
  <2> QED
    BY <2>1, <2>2 DEF IInv, BoundInv, Bound
<1> QED
  BY <1>1, Invariance, PTL

\* A known unknown keeps its text, and closes once.
THEOREM UnknownsClose == Spec => []UnknownsOnlyClose
<1>1. IInv => UnknownsOnlyClose
  BY DEF IInv, HistoryInv, RequireAppendOnly, UnknownsOnlyClose
<1> QED
  BY <1>1, Invariance, PTL

\* The questions of listed verdicts stay in the register.
THEOREM QuestionsStay == Spec => []QuestionsStayRegistered
<1>1. IInv => QuestionsStayRegistered
  <2> SUFFICES ASSUME IInv, NEW i \in 1..Len(main), NEW j \in 1..Len(main), i <= j,
                      NEW id \in Listed(main[i].tree),
                      NEW q \in CanonicalText(main[i].tree.verdicts[id]).questions
               PROVE  \E k \in Registered(main[j].tree) : main[j].tree.register[k].question = q
    BY DEF QuestionsStayRegistered
  <2>1. PICK k \in Registered(main[i].tree) : main[i].tree.register[k].question = q
    BY DEF IInv, BoundInv, Bound, QuestionsAreRegistered
  <2>2. RequireAppendOnly(main[i].tree, main[j].tree)
    BY DEF IInv, HistoryInv
  <2> QED
    BY <2>1, <2>2, HeadingsStay
<1> QED
  BY <1>1, Invariance, PTL

\* The register of known unknowns forgets nothing (require_append_only_with and
\* check_consumer, over the whole history).
THEOREM UnknownsKept == Spec => []UnknownsAreKept
<1>1. UnknownsOnlyClose /\ QuestionsStayRegistered => UnknownsAreKept
  BY DEF UnknownsAreKept
<1> QED
  BY <1>1, UnknownsClose, QuestionsStay, PTL
=============================================================================
