----------------------- MODULE ReleasePublicationProofs -----------------------
(***************************************************************************)
(* Proofs about ReleasePublication for any set of runs, ids and assets and *)
(* any retry bound.                                                        *)
(***************************************************************************)
EXTENDS ReleasePublication, TLAPS

-----------------------------------------------------------------------------
(* The inductive invariant *)

\* What a line the run has reached says of its release.
LineInv(r) ==
    /\ pc[r] \in BeforeDraft => rid[r] = NoId
    /\ pc[r] \in Filling \cup FinalGates =>
         rid[r] # NoId /\ ~published[r] /\ release[rid[r]].status = "draft"
    /\ pc[r] \in FinalGates => DraftReady(release[rid[r]])
    /\ pc[r] = "delete" =>
         /\ rid[r] # NoId /\ ~published[r]
         /\ LatePatch \/ release[rid[r]].status = "draft"
    /\ pc[r] \in AfterPatch => published[r]
    /\ pc[r] \in AfterPatch \ {"confirm"} => release[rid[r]].sealed
    /\ pc[r] \in {"verify", "verify_assets", "succeeded"} => TagIsCommit
    /\ pc[r] = "succeeded" => release[rid[r]].attested
    /\ pc[r] = "failed" /\ rid[r] # NoId =>
         release[rid[r]].status \in {"published", "deleted"}

\* What a run knows is its own, and its flag tells the truth.
OwnInv(r) ==
    /\ rid[r] # NoId =>
         release[rid[r]].status # "unused" /\ Candidate(rid[r]) = r
    /\ published[r] => rid[r] # NoId /\ release[rid[r]].status = "published"
    /\ r \in late =>
         /\ LatePatch /\ rid[r] # NoId /\ ~published[r]
         /\ pc[r] \in Trap \cup (Ended \ {"succeeded"})
         /\ release[rid[r]].status = "draft" => DraftReady(release[rid[r]])

ReleaseInv(i) ==
    release[i].status = "published" =>
        /\ release[i].tagged /\ InventoryMatches(release[i])
        /\ Candidate(i) \in Runs /\ rid[Candidate(i)] = i

\* The run has published its draft or can no longer be stopped from it.
Committed(r) ==
    /\ rid[r] # NoId
    /\ \/ release[rid[r]].status = "published"
       \/ release[rid[r]].status = "draft" /\ (pc[r] = "patch" \/ r \in late)

\* The invariant the proofs rest on.  No two runs are committed at once: a run
\* commits on a listing that shows its own draft alone, and what a committed
\* run owns is listed.
IInv ==
    /\ TypeOK
    /\ \A r \in Runs : LineInv(r) /\ OwnInv(r)
    /\ \A i \in Ids : ReleaseInv(i)
    /\ \A r, s \in Runs : Committed(r) /\ Committed(s) => r = s

-----------------------------------------------------------------------------
(* Type correctness *)

\* A test under errexit keeps every variable in its type.
LEMMA GateType ==
    ASSUME TypeOK, NEW r \in Runs, NEW line \in Script, NEW ok \in BOOLEAN,
           NEW next \in Script \cup Ended, Gate(r, line, ok, next)
    PROVE  TypeOK'
BY Zenon DEF TypeOK, Gate, Goto, Trap, locals, github, world

\* A round of a retry loop keeps every variable in its type: the counter stays
\* below the bound.
LEMMA PollType ==
    ASSUME TypeOK, NEW r \in Runs, NEW line \in Script, NEW ok \in BOOLEAN,
           NEW next \in Script \cup Ended, Poll(r, line, ok, next)
    PROVE  TypeOK'
<1>1. attempt' \in [Runs -> 0 .. MaxAttempts - 1]
  BY ConstantsAssumption DEF TypeOK, Poll
<1>2. pc' \in [Runs -> Script \cup Trap \cup Ended]
  BY DEF TypeOK, Poll, Goto, Trap
<1> QED
  BY <1>1, <1>2 DEF TypeOK, Poll, github, world

\* Every step keeps every variable in its type.
LEMMA TypeStep ==
    ASSUME TypeOK, [Next]_vars,
           \A r \in Runs : pc[r] \in Filling \cup FinalGates \cup AfterPatch \cup {"delete"}
                        => rid[r] \in Ids,
           \A r \in late : rid[r] \in Ids
    PROVE  TypeOK'
<1>1. CASE UNCHANGED vars
  BY <1>1 DEF TypeOK, vars, locals, github, world
<1>2. ASSUME NEW r \in Runs, Step(r)
      PROVE  TypeOK'
  <2>1. CASE RecheckTag(r)
    BY <2>1, GateType DEF RecheckTag, TagIsCommit, Script
  <2>2. CASE RecheckMain(r)
    <3>1. MainContains \in BOOLEAN
      BY DEF MainContains
    <3> QED
      BY <2>2, <3>1, GateType DEF RecheckMain, Script
  <2>3. CASE RecheckList(r)
    BY <2>3, GateType DEF RecheckList, NoExistingRelease, Script
  <2>4. CASE CreateTagCheck(r)
    BY <2>4, GateType DEF CreateTagCheck, TagIsCommit, Script
  <2>5. CASE CreateDraft(r)
    <3> PICK i \in Ids, settled \in BOOLEAN, answered \in BOOLEAN :
          /\ release[i].status = "unused"
          /\ release' = [release EXCEPT ![i] =
                [Unused EXCEPT !.status = "draft", !.maker = r, !.tagged = settled]]
          /\ rid' = [rid EXCEPT ![r] = IF answered THEN i ELSE NoId]
          /\ attempt' = [attempt EXCEPT ![r] = IF answered /\ ~settled THEN 1 ELSE 0]
          /\ Goto(r, IF ~answered THEN "cleanup"
                     ELSE IF settled THEN "upload" ELSE "settle")
      BY <2>5 DEF CreateDraft
    <3>1. release' \in [Ids -> Release]
      BY DEF TypeOK, Release, Unused
    <3>2. pc' \in [Runs -> Script \cup Trap \cup Ended]
      BY DEF TypeOK, Goto, Script, Trap
    <3>3. attempt' \in [Runs -> 0 .. MaxAttempts - 1] /\ rid' \in [Runs -> Ids \cup {NoId}]
      BY ConstantsAssumption DEF TypeOK
    <3> QED
      BY <2>5, <3>1, <3>2, <3>3 DEF TypeOK, CreateDraft, world
  <2>6. CASE Settle(r)
    <3>1. pc[r] = "settle" /\ rid[r] \in Ids
      BY <2>6 DEF Settle, Poll, Filling
    <3>2. release[rid[r]].tagged \in BOOLEAN
      BY <3>1 DEF TypeOK, Release
    <3> QED
      BY <2>6, <3>2, PollType DEF Settle, Script
  <2>7. CASE UploadAsset(r)
    <3>1. rid[r] \in Ids
      BY <2>7 DEF UploadAsset, Filling
    <3> PICK a \in Assets \ sent[r], whole \in BOOLEAN, answered \in BOOLEAN :
          /\ release' = [release EXCEPT ![rid[r]] =
                 [release[rid[r]] EXCEPT !.assets = @ \cup {a},
                           !.damaged = IF whole THEN @ ELSE @ \cup {a}]]
          /\ sent' = [sent EXCEPT ![r] = @ \cup {a}]
          /\ Goto(r, IF ~answered THEN "cleanup"
                     ELSE IF sent[r] \cup {a} = Assets THEN "inspect" ELSE "upload")
      BY <2>7 DEF UploadAsset
    <3>2. release' \in [Ids -> Release]
      <4> DEFINE old == release[rid[r]]
      <4> DEFINE new == [old EXCEPT !.assets = @ \cup {a},
                                    !.damaged = IF whole THEN @ ELSE @ \cup {a}]
      <4>1. old \in Release /\ a \in Assets
        BY <3>1 DEF TypeOK
      <4>2. new \in Release
        <5> HIDE DEF old
        <5>1. old.assets \cup {a} \in SUBSET Assets
          BY <4>1 DEF Release
        <5>2. (IF whole THEN old.damaged ELSE old.damaged \cup {a}) \in SUBSET Assets
          BY <4>1 DEF Release
        <5> QED
          BY <4>1, <5>1, <5>2 DEF Release
      <4>3. release' = [release EXCEPT ![rid[r]] = new]
        BY Zenon
      <4> QED
        BY <4>2, <4>3 DEF TypeOK
    <3>3. pc' \in [Runs -> Script \cup Trap \cup Ended]
      BY DEF TypeOK, Goto, Script, Trap
    <3>4. sent' \in [Runs -> SUBSET Assets]
      BY DEF TypeOK
    <3> QED
      BY <2>7, <3>2, <3>3, <3>4 DEF TypeOK, UploadAsset, world
  <2>8. CASE Inspect(r)
    <3>1. DraftReady(release[rid[r]]) \in BOOLEAN
      BY DEF DraftReady
    <3> QED
      BY <2>8, <3>1, PollType DEF Inspect, Script
  <2>9. CASE FinalTag(r)
    BY <2>9, GateType DEF FinalTag, TagIsCommit, Script
  <2>10. CASE FinalMain(r)
    <3>1. MainContains \in BOOLEAN
      BY DEF MainContains
    <3> QED
      BY <2>10, <3>1, GateType DEF FinalMain, Script
  <2>11. CASE FinalList(r)
    BY <2>11, GateType DEF FinalList, OnlyRelease, Script
  <2>12. CASE Patch(r)
    <3>1. rid[r] \in Ids
      BY <2>12 DEF Patch, FinalGates
    <3>2. release' \in [Ids -> Release]
      BY <2>12, <3>1 DEF Patch, Publish, TypeOK, Release
    <3>3. pc' \in [Runs -> Script \cup Trap \cup Ended]
      BY <2>12 DEF Patch, TypeOK, Goto, Script, Trap
    <3> QED
      BY <2>12, <3>2, <3>3 DEF TypeOK, Patch, world
  <2>13. CASE Confirm(r)
    <3>1. PublishedReady(release[rid[r]]) \in BOOLEAN
      BY DEF PublishedReady
    <3> QED
      BY <2>13, <3>1, PollType DEF Confirm, Script
  <2>14. CASE Retag(r)
    BY <2>14, GateType DEF Retag, TagIsCommit, Script
  <2>15. CASE Verify(r)
    <3>1. rid[r] \in Ids
      BY <2>15 DEF Verify, Poll, AfterPatch
    <3>2. release[rid[r]].attested \in BOOLEAN
      BY <3>1 DEF TypeOK, Release
    <3> QED
      BY <2>15, <3>2, PollType DEF Verify, Script
  <2>16. CASE VerifyAssets(r)
    BY <2>16, PollType DEF VerifyAssets, Script, Ended
  <2>17. CASE Cleanup(r)
    BY <2>17 DEF Cleanup, TypeOK, Goto, Trap, Ended, github, world
  <2>18. CASE Delete(r)
    <3>1. rid[r] \in Ids
      BY <2>18 DEF Delete
    <3>2. release' \in [Ids -> Release]
      BY <2>18, <3>1 DEF Delete, TypeOK, Release
    <3>3. pc' \in [Runs -> Script \cup Trap \cup Ended]
      BY <2>18 DEF Delete, TypeOK, Goto, Ended
    <3> QED
      BY <2>18, <3>2, <3>3 DEF TypeOK, Delete, world
  <2> QED
    BY <1>2, <2>1, <2>2, <2>3, <2>4, <2>5, <2>6, <2>7, <2>8, <2>9, <2>10,
       <2>11, <2>12, <2>13, <2>14, <2>15, <2>16, <2>17, <2>18 DEF Step
<1>3. ASSUME NEW r \in Runs, Abort(r) \/ Kill(r)
      PROVE  TypeOK'
  BY <1>3 DEF Abort, Kill, TypeOK, Goto, Trap, Ended, github, world
<1>4. CASE Environment
  <2>1. ASSUME NEW r \in Runs, LatePatchLands(r)
        PROVE  TypeOK'
    <3>1. release' \in [Ids -> Release]
      BY <2>1 DEF LatePatchLands, Publish, TypeOK, Release
    <3> QED
      BY <2>1, <3>1 DEF LatePatchLands, TypeOK, locals, world
  <2>2. ASSUME NEW i \in Ids, TagSettles(i) \/ BecomesImmutable(i) \/ AttestationWritten(i)
        PROVE  TypeOK'
    <3>1. CASE TagSettles(i)
      <4>1. release' = [release EXCEPT ![i].tagged = TRUE] /\ UNCHANGED <<locals, late, world>>
        BY <3>1 DEF TagSettles
      <4>2. release' \in [Ids -> Release]
        <5>1. release[i] \in Release
          BY DEF TypeOK
        <5>2. [release[i] EXCEPT !.tagged = TRUE] \in Release
          BY <5>1 DEF Release
        <5> QED
          BY <4>1, <5>2 DEF TypeOK
      <4> QED
        BY <4>1, <4>2 DEF TypeOK, locals, world
    <3>2. CASE BecomesImmutable(i)
      <4>1. release' = [release EXCEPT ![i].sealed = TRUE] /\ UNCHANGED <<locals, late, world>>
        BY <3>2 DEF BecomesImmutable
      <4>2. release' \in [Ids -> Release]
        <5>1. release[i] \in Release
          BY DEF TypeOK
        <5>2. [release[i] EXCEPT !.sealed = TRUE] \in Release
          BY <5>1 DEF Release
        <5> QED
          BY <4>1, <5>2 DEF TypeOK
      <4> QED
        BY <4>1, <4>2 DEF TypeOK, locals, world
    <3>3. CASE AttestationWritten(i)
      <4>1. release' = [release EXCEPT ![i].attested = TRUE] /\ UNCHANGED <<locals, late, world>>
        BY <3>3 DEF AttestationWritten
      <4>2. release' \in [Ids -> Release]
        <5>1. release[i] \in Release
          BY DEF TypeOK
        <5>2. [release[i] EXCEPT !.attested = TRUE] \in Release
          BY <5>1 DEF Release
        <5> QED
          BY <4>1, <5>2 DEF TypeOK
      <4> QED
        BY <4>1, <4>2 DEF TypeOK, locals, world
    <3> QED
      BY <2>2, <3>1, <3>2, <3>3
  <2>3. ASSUME NEW i \in Ids, NEW a \in Assets, DigestComputed(i, a)
        PROVE  TypeOK'
    <3>1. release[i] \in Release
      BY DEF TypeOK
    <3>2. release' \in [Ids -> Release]
      BY <2>3, <3>1 DEF DigestComputed, TypeOK, Release
    <3> QED
      BY <2>3, <3>2 DEF DigestComputed, TypeOK, locals, world
  <2>4. CASE TagMoves
    BY <2>4 DEF TagMoves, TypeOK, locals, github
  <2>5. CASE MainMoves
    BY <2>5 DEF MainMoves, TypeOK, locals, github
  <2> QED
    BY <1>4, <2>1, <2>2, <2>3, <2>4, <2>5 DEF Environment
<1> QED
  BY <1>1, <1>2, <1>3, <1>4 DEF Next

-----------------------------------------------------------------------------
(* The inductive invariant *)
\* No two runs know the same release.
LEMMA OwnersDiffer ==
    ASSUME IInv, NEW r \in Runs, NEW s \in Runs, rid[r] # NoId, rid[r] = rid[s]
    PROVE  r = s
BY DEF IInv, OwnInv

\* What a committed run owns carries the tag, so every listing shows it.
LEMMA CommittedListed ==
    ASSUME IInv, NEW r \in Runs, Committed(r)
    PROVE  rid[r] \in Listed
<1>1. rid[r] \in Ids /\ ReleaseInv(rid[r]) /\ OwnInv(r) /\ LineInv(r)
  BY DEF IInv, TypeOK, Committed
<1> QED
  BY <1>1 DEF Committed, ReleaseInv, OwnInv, LineInv, DraftReady, Listed, FinalGates

\* A step of one run that touches nothing but its own line and counter keeps
\* the invariant if the new line's claims hold; it may commit only on a listing
\* that shows its own draft alone.
LEMMA LocalStep ==
    ASSUME IInv, TypeOK', NEW r \in Runs, NEW line,
           pc' = [pc EXCEPT ![r] = line],
           UNCHANGED <<rid, published, sent, github, world>>,
           LineInv(r)',
           r \in late => line \in Trap \cup (Ended \ {"succeeded"}),
           line = "patch" => OnlyRelease(r)
    PROVE  IInv'
<1> USE DEF github, world
<1>1. \A s \in Runs : s # r => pc'[s] = pc[s]
  BY DEF IInv, TypeOK
<1>2. pc'[r] = line
  BY DEF IInv, TypeOK
<1>3. ASSUME NEW s \in Runs
      PROVE  LineInv(s)'
  <2>1. CASE s = r
    BY <2>1
  <2>2. CASE s # r
    <3>1. LineInv(s) /\ pc'[s] = pc[s]
      BY <1>1, <2>2 DEF IInv
    <3> QED
      BY <3>1 DEF LineInv, DraftReady, InventoryMatches, TagIsCommit
  <2> QED
    BY <2>1, <2>2
<1>4. ASSUME NEW s \in Runs
      PROVE  OwnInv(s)'
  BY <1>1, <1>2 DEF IInv, OwnInv, Candidate, DraftReady, InventoryMatches
<1>5. ASSUME NEW i \in Ids
      PROVE  ReleaseInv(i)'
  BY DEF IInv, ReleaseInv, Candidate, InventoryMatches
<1>6. ASSUME NEW s \in Runs, NEW t \in Runs, Committed(s)', Committed(t)'
      PROVE  s = t
  <2>1. ASSUME NEW u \in Runs, Committed(u)', u # r
        PROVE  Committed(u)
    BY <2>1, <1>1 DEF Committed
  <2>2. CASE Committed(s) /\ Committed(t)
    BY <2>2 DEF IInv
  <2>3. ASSUME NEW u \in Runs, u # r, Committed(u), ~Committed(r), Committed(r)'
        PROVE  FALSE
    <3>1. line = "patch" /\ rid[r] # NoId
      BY <2>3, <1>2 DEF Committed
    <3>2. rid[u] = rid[r]
      BY <3>1, <2>3, CommittedListed DEF OnlyRelease
    <3> QED
      BY <3>1, <3>2, <2>3, OwnersDiffer
  <2> QED
    BY <1>6, <2>1, <2>2, <2>3
<1> QED
  BY <1>3, <1>4, <1>5, <1>6 DEF IInv

\* GitHub's background work on a release only completes what it reports of it.
LEMMA CompletionStep ==
    ASSUME IInv, TypeOK', NEW i \in Ids, NEW new \in Release,
           UNCHANGED <<locals, late, world>>,
           release' = [release EXCEPT ![i] = new],
           new.status = release[i].status, new.maker = release[i].maker,
           release[i].tagged => new.tagged,
           InventoryMatches(release[i]) => InventoryMatches(new),
           release[i].sealed => new.sealed,
           release[i].attested => new.attested
    PROVE  IInv'
<1> USE DEF locals, world
<1>1. \A j \in Ids :
         /\ release'[j].status = release[j].status
         /\ release'[j].maker = release[j].maker
         /\ release[j].tagged => release'[j].tagged
         /\ InventoryMatches(release[j]) => InventoryMatches(release'[j])
         /\ release[j].sealed => release'[j].sealed
         /\ release[j].attested => release'[j].attested
  BY DEF IInv, TypeOK
<1>2. \A j \in Ids : DraftReady(release[j]) => DraftReady(release'[j])
  BY <1>1 DEF DraftReady
<1>3. \A r \in Runs : rid[r] # NoId => rid[r] \in Ids
  BY DEF IInv, TypeOK
<1>4. ASSUME NEW r \in Runs
      PROVE  LineInv(r)' /\ OwnInv(r)'
  <2>1. LineInv(r) /\ OwnInv(r)
    BY DEF IInv
  <2>2. LineInv(r)'
    BY <2>1, <1>1, <1>2, <1>3 DEF LineInv, OwnInv, TagIsCommit, BeforeDraft, Filling, FinalGates, AfterPatch
  <2>3. OwnInv(r)'
    BY <2>1, <1>1, <1>2, <1>3 DEF OwnInv, Candidate
  <2> QED
    BY <2>2, <2>3
<1>5. ASSUME NEW j \in Ids
      PROVE  ReleaseInv(j)'
  BY <1>1 DEF IInv, ReleaseInv, Candidate
<1>6. ASSUME NEW r \in Runs, Committed(r)'
      PROVE  Committed(r)
  BY <1>6, <1>1, <1>3 DEF Committed
<1> QED
  BY <1>4, <1>5, <1>6 DEF IInv

\* What a step of the invariant's proof may assume of the runs' ids.
LEMMA KnownIds ==
    ASSUME IInv
    PROVE  /\ \A r \in Runs : pc[r] \in Filling \cup FinalGates \cup AfterPatch \cup {"delete"}
                                => rid[r] \in Ids
           /\ \A r \in late : rid[r] \in Ids
BY DEF IInv, TypeOK, LineInv, OwnInv

\* A line of the script other than those an abandoned PATCH leads to is not
\* reached with a PATCH in flight.
LEMMA ScriptNotLate ==
    ASSUME IInv, NEW r \in Runs, pc[r] \in Script
    PROVE  r \notin late
BY DEF IInv, OwnInv, Script, Trap, Ended

\* A failing test leads to the trap with the invariant intact.
LEMMA ToCleanup ==
    ASSUME IInv, TypeOK', NEW r \in Runs, pc[r] \in Script,
           pc' = [pc EXCEPT ![r] = "cleanup"],
           UNCHANGED <<rid, published, sent, github, world>>
    PROVE  IInv'
<1>1. pc'[r] = "cleanup"
  BY DEF IInv, TypeOK
<1>2. LineInv(r)'
  BY <1>1 DEF LineInv, BeforeDraft, Filling, FinalGates, AfterPatch
<1> QED
  BY <1>2, LocalStep DEF Trap

\* A passing test or another round leads to a line whose claims hold.
LEMMA ToLine ==
    ASSUME IInv, TypeOK', NEW r \in Runs, pc[r] \in Script, NEW line,
           pc' = [pc EXCEPT ![r] = line],
           UNCHANGED <<rid, published, sent, github, world>>,
           LineInv(r)',
           line = "patch" => OnlyRelease(r)
    PROVE  IInv'
BY LocalStep, ScriptNotLate

\* The tests under errexit keep the invariant.
LEMMA GateStep ==
    ASSUME IInv, TypeOK', NEW r \in Runs,
           \/ RecheckTag(r) \/ RecheckMain(r) \/ RecheckList(r) \/ CreateTagCheck(r)
           \/ FinalTag(r) \/ FinalMain(r) \/ FinalList(r) \/ Retag(r)
    PROVE  IInv'
<1> USE DEF Gate, Goto, github, world
<1>0. LineInv(r) /\ OwnInv(r) /\ pc \in [Runs -> Script \cup Trap \cup Ended]
  BY DEF IInv, TypeOK
<1>1. ASSUME NEW at, NEW to, NEW ok, Gate(r, at, ok, to), at \in BeforeDraft,
             to \in {"recheck_main", "recheck_list", "create_tag", "create_post"}
      PROVE  IInv'
  <2>1. CASE pc' = [pc EXCEPT ![r] = to]
    <3>1. LineInv(r)'
      BY <1>0, <1>1, <2>1 DEF LineInv, BeforeDraft, Filling, FinalGates, AfterPatch
    <3> QED
      BY <1>1, <2>1, <3>1, ToLine DEF BeforeDraft, Script
  <2>2. CASE pc' = [pc EXCEPT ![r] = "cleanup"]
    BY <1>1, <2>2, ToCleanup DEF BeforeDraft, Script
  <2> QED
    BY <1>1, <2>1, <2>2
<1>2. CASE RecheckTag(r)
  BY <1>1, <1>2 DEF RecheckTag, BeforeDraft
<1>3. CASE RecheckMain(r)
  BY <1>1, <1>3 DEF RecheckMain, BeforeDraft
<1>4. CASE RecheckList(r)
  BY <1>1, <1>4 DEF RecheckList, BeforeDraft
<1>5. CASE CreateTagCheck(r)
  BY <1>1, <1>5 DEF CreateTagCheck, BeforeDraft
<1>6. ASSUME NEW at, NEW to, NEW ok, Gate(r, at, ok, to), at \in FinalGates \ {"patch"},
             to \in FinalGates, to = "patch" => (ok => OnlyRelease(r))
      PROVE  IInv'
  <2>1. CASE ok /\ pc' = [pc EXCEPT ![r] = to]
    <3>1. LineInv(r)'
      BY <1>0, <1>6, <2>1
         DEF LineInv, BeforeDraft, Filling, FinalGates, AfterPatch, DraftReady, InventoryMatches, TagIsCommit
    <3> QED
      BY <1>6, <2>1, <3>1, ToLine DEF FinalGates, Script
  <2>2. CASE pc' = [pc EXCEPT ![r] = "cleanup"]
    BY <1>6, <2>2, ToCleanup DEF FinalGates, Script
  <2> QED
    BY <1>6, <2>1, <2>2
<1>7. CASE FinalTag(r)
  <2>1. "final_tag" \in FinalGates \ {"patch"} /\ "final_main" \in FinalGates /\ "final_main" # "patch"
    BY DEF FinalGates
  <2> QED
    BY <1>6, <1>7, <2>1, Zenon DEF FinalTag
<1>8. CASE FinalMain(r)
  <2>1. "final_main" \in FinalGates \ {"patch"} /\ "final_list" \in FinalGates /\ "final_list" # "patch"
    BY DEF FinalGates
  <2> QED
    BY <1>6, <1>8, <2>1, Zenon DEF FinalMain
<1>9. CASE FinalList(r)
  BY <1>6, <1>9 DEF FinalList, FinalGates
<1>10. CASE Retag(r)
  <2>1. CASE TagIsCommit /\ pc' = [pc EXCEPT ![r] = "verify"]
    <3>1. LineInv(r)'
      BY <1>0, <1>10, <2>1 DEF Retag, LineInv, BeforeDraft, Filling, FinalGates, AfterPatch, TagIsCommit
    <3> QED
      BY <1>10, <2>1, <3>1, ToLine DEF Retag, Script
  <2>2. CASE pc' = [pc EXCEPT ![r] = "cleanup"]
    BY <1>10, <2>2, ToCleanup DEF Retag, Script
  <2> QED
    BY <1>10, <2>1, <2>2 DEF Retag
<1> QED
  BY <1>2, <1>3, <1>4, <1>5, <1>7, <1>8, <1>9, <1>10

\* A round of a retry loop keeps the invariant: it leaves the loop forwards
\* only on what it read, stays, or gives up.
LEMMA PollStep ==
    ASSUME IInv, TypeOK', NEW r \in Runs,
           Settle(r) \/ Inspect(r) \/ Confirm(r) \/ Verify(r) \/ VerifyAssets(r)
    PROVE  IInv'
<1> USE DEF Poll, Goto, github, world
<1>0. LineInv(r) /\ OwnInv(r) /\ pc \in [Runs -> Script \cup Trap \cup Ended]
  BY DEF IInv, TypeOK
<1>1. pc[r] \in Script /\ UNCHANGED <<rid, published, sent, github, world>>
  BY DEF Settle, Inspect, Confirm, Verify, VerifyAssets, Script
<1>2. CASE pc' = pc
  <2>1. pc' = [pc EXCEPT ![r] = pc[r]]
    BY <1>0, <1>2
  <2>2. LineInv(r)'
    BY <1>0, <1>1, <1>2 DEF LineInv, DraftReady, InventoryMatches, TagIsCommit
  <2>3. pc[r] # "patch"
    BY DEF Settle, Inspect, Confirm, Verify, VerifyAssets
  <2> QED
    BY <1>1, <2>1, <2>2, <2>3, ToLine
<1>3. CASE pc' = [pc EXCEPT ![r] = "cleanup"]
  BY <1>1, <1>3, ToCleanup
<1>4. CASE pc[r] = "settle" /\ pc' = [pc EXCEPT ![r] = "upload"]
  <2>1. LineInv(r)'
    BY <1>0, <1>1, <1>4 DEF LineInv, BeforeDraft, Filling, FinalGates, AfterPatch
  <2> QED
    BY <1>1, <1>4, <2>1, ToLine
<1>5. CASE pc[r] = "inspect" /\ DraftReady(release[rid[r]]) /\ pc' = [pc EXCEPT ![r] = "final_tag"]
  <2>1. LineInv(r)'
    BY <1>0, <1>1, <1>5 DEF LineInv, BeforeDraft, Filling, FinalGates, AfterPatch, DraftReady, InventoryMatches
  <2> QED
    BY <1>1, <1>5, <2>1, ToLine
<1>6. CASE pc[r] = "confirm" /\ PublishedReady(release[rid[r]]) /\ pc' = [pc EXCEPT ![r] = "retag"]
  <2>1. LineInv(r)'
    BY <1>0, <1>1, <1>6 DEF LineInv, BeforeDraft, Filling, FinalGates, AfterPatch, PublishedReady
  <2> QED
    BY <1>1, <1>6, <2>1, ToLine
<1>7. CASE pc[r] = "verify" /\ pc' = [pc EXCEPT ![r] = "verify_assets"]
  <2>1. LineInv(r)'
    BY <1>0, <1>1, <1>7 DEF LineInv, BeforeDraft, Filling, FinalGates, AfterPatch, TagIsCommit
  <2> QED
    BY <1>1, <1>7, <2>1, ToLine
<1>8. CASE /\ pc[r] = "verify_assets" /\ release[rid[r]].attested
           /\ pc' = [pc EXCEPT ![r] = "succeeded"]
  <2>1. LineInv(r)'
    BY <1>0, <1>1, <1>8 DEF LineInv, BeforeDraft, Filling, FinalGates, AfterPatch, TagIsCommit
  <2> QED
    BY <1>1, <1>8, <2>1, ToLine
<1>9. CASE Settle(r)
  BY <1>2, <1>3, <1>4, <1>9 DEF Settle
<1>10. CASE Inspect(r)
  BY <1>2, <1>3, <1>5, <1>10 DEF Inspect
<1>11. CASE Confirm(r)
  BY <1>2, <1>3, <1>6, <1>11 DEF Confirm
<1>12. CASE Verify(r)
  BY <1>2, <1>3, <1>7, <1>12 DEF Verify
<1>13. CASE VerifyAssets(r)
  BY <1>2, <1>3, <1>8, <1>13 DEF VerifyAssets
<1> QED
  BY <1>9, <1>10, <1>11, <1>12, <1>13

\* A failing command, a lost runner and the trap's own test keep the invariant.
LEMMA EndStep ==
    ASSUME IInv, TypeOK', NEW r \in Runs, Abort(r) \/ Kill(r) \/ Cleanup(r)
    PROVE  IInv'
<1> USE DEF Goto, github, world
<1>0. LineInv(r) /\ OwnInv(r) /\ pc \in [Runs -> Script \cup Trap \cup Ended]
  BY DEF IInv, TypeOK
<1>1. CASE Abort(r)
  BY <1>1, ToCleanup DEF Abort
<1>2. CASE Kill(r)
  <2>1. LineInv(r)'
    BY <1>0, <1>2 DEF Kill, LineInv, BeforeDraft, Filling, FinalGates, AfterPatch
  <2> QED
    BY <1>2, <2>1, LocalStep DEF Kill, Ended
<1>3. CASE Cleanup(r)
  <2>1. UNCHANGED <<rid, published, sent, github, world>> /\ pc[r] = "cleanup"
    BY <1>3 DEF Cleanup
  <2>2. CASE (rid[r] = NoId \/ published[r]) /\ pc' = [pc EXCEPT ![r] = "failed"]
    <3>1. LineInv(r)'
      BY <1>0, <2>1, <2>2 DEF LineInv, OwnInv, BeforeDraft, Filling, FinalGates, AfterPatch
    <3> QED
      BY <2>1, <2>2, <3>1, LocalStep DEF Ended
  <2>3. CASE /\ rid[r] # NoId /\ ~published[r] /\ ExactDraft(release[rid[r]])
             /\ pc' = [pc EXCEPT ![r] = "delete"]
    <3>1. LineInv(r)'
      BY <1>0, <2>1, <2>3 DEF LineInv, ExactDraft, BeforeDraft, Filling, FinalGates, AfterPatch
    <3> QED
      BY <2>1, <2>3, <3>1, LocalStep DEF Trap
  <2>4. CASE pc' = [pc EXCEPT ![r] = "refused"]
    <3>1. LineInv(r)'
      BY <1>0, <2>1, <2>4 DEF LineInv, BeforeDraft, Filling, FinalGates, AfterPatch
    <3> QED
      BY <2>1, <2>4, <3>1, LocalStep DEF Ended
  <2> QED
    BY <1>3, <2>2, <2>3, <2>4 DEF Cleanup
<1> QED
  BY <1>1, <1>2, <1>3

\* A write to a run's own release keeps the invariant if it keeps what is
\* claimed of that run and of that release, and commits no run that was not
\* committed: no other run knows the release.
LEMMA WriteStep ==
    ASSUME IInv, TypeOK', NEW r \in Runs, rid[r] \in Ids,
           \A s \in Runs \ {r} : pc'[s] = pc[s] /\ published'[s] = published[s]
                                   /\ (s \in late' => s \in late),
           \A i \in Ids \ {rid[r]} : release'[i] = release[i],
           release'[rid[r]].maker = release[rid[r]].maker,
           rid' = rid, tag' = tag,
           LineInv(r)', OwnInv(r)', ReleaseInv(rid[r])',
           Committed(r)' => Committed(r)
    PROVE  IInv'
<1>0. /\ \A s \in Runs : rid[s] # NoId => rid[s] \in Ids
      /\ \A s \in Runs \ {r} : rid[s] # rid[r]
  BY OwnersDiffer, ConstantsAssumption DEF IInv, TypeOK
<1>1. ASSUME NEW s \in Runs \ {r}
      PROVE  LineInv(s)' /\ OwnInv(s)' /\ (Committed(s)' => Committed(s))
  <2>1. LineInv(s) /\ OwnInv(s)
    BY DEF IInv
  <2>2. rid[s] # NoId => release'[rid[s]] = release[rid[s]]
    BY <1>0
  <2>3. LineInv(s)'
    BY <2>1, <2>2 DEF LineInv, OwnInv, TagIsCommit, DraftReady, InventoryMatches,
                      AfterPatch, Filling, FinalGates
  <2>4. OwnInv(s)'
    BY <2>1, <2>2 DEF OwnInv, Candidate, DraftReady, InventoryMatches
  <2>5. Committed(s)' => Committed(s)
    BY <2>2 DEF Committed
  <2> QED
    BY <2>3, <2>4, <2>5
<1>2. ASSUME NEW i \in Ids
      PROVE  ReleaseInv(i)'
  BY DEF IInv, ReleaseInv, Candidate, InventoryMatches
<1>3. ASSUME NEW s \in Runs, NEW t \in Runs, Committed(s)', Committed(t)'
      PROVE  s = t
  BY <1>1, <1>3 DEF IInv
<1> QED
  BY <1>1, <1>2, <1>3 DEF IInv

\* The POST that creates a draft takes an id nobody knows.
LEMMA CreateStep ==
    ASSUME IInv, TypeOK', NEW r \in Runs, CreateDraft(r)
    PROVE  IInv'
<1> PICK i \in Ids, settled \in BOOLEAN, answered \in BOOLEAN :
      /\ release[i].status = "unused"
      /\ release' = [release EXCEPT ![i] =
            [Unused EXCEPT !.status = "draft", !.maker = r, !.tagged = settled]]
      /\ rid' = [rid EXCEPT ![r] = IF answered THEN i ELSE NoId]
      /\ Goto(r, IF ~answered THEN "cleanup"
                 ELSE IF settled THEN "upload" ELSE "settle")
  BY DEF CreateDraft
<1>1. pc[r] = "create_post" /\ UNCHANGED <<published, late, world>>
  BY DEF CreateDraft
<1>2. /\ pc'[r] \in {"cleanup", "upload", "settle"}
      /\ rid'[r] = IF answered THEN i ELSE NoId
      /\ pc'[r] # "cleanup" => rid'[r] = i
      /\ release'[i].status = "draft" /\ release'[i].maker = r
      /\ \A s \in Runs \ {r} : pc'[s] = pc[s] /\ rid'[s] = rid[s]
      /\ \A j \in Ids \ {i} : release'[j] = release[j]
  BY DEF IInv, TypeOK, Goto, Unused
<1>3. /\ \A s \in Runs : rid[s] # i /\ (rid[s] # NoId => rid[s] \in Ids)
      /\ r \notin late
  BY <1>1, ScriptNotLate, ConstantsAssumption DEF IInv, OwnInv, TypeOK, Script
<1>4. rid[r] = NoId /\ ~published[r]
  BY <1>1 DEF IInv, LineInv, OwnInv, BeforeDraft
<1>5. ASSUME NEW s \in Runs
      PROVE  LineInv(s)' /\ OwnInv(s)'
  <2>1. CASE s = r
    <3>1. LineInv(r)'
      BY <1>1, <1>2, <1>3, <1>4, ConstantsAssumption
         DEF LineInv, BeforeDraft, Filling, FinalGates, AfterPatch
    <3>2. OwnInv(r)'
      BY <1>1, <1>2, <1>3, <1>4, ConstantsAssumption DEF OwnInv, Candidate
    <3> QED
      BY <2>1, <3>1, <3>2
  <2>2. CASE s # r
    <3>1. LineInv(s) /\ OwnInv(s)
      BY DEF IInv
    <3>2. rid[s] # NoId => release'[rid[s]] = release[rid[s]]
      BY <1>2, <1>3
    <3>3. LineInv(s)'
      BY <1>1, <1>2, <2>2, <3>1, <3>2
         DEF LineInv, OwnInv, world, TagIsCommit, DraftReady, InventoryMatches,
             BeforeDraft, Filling, FinalGates, AfterPatch
    <3>4. OwnInv(s)'
      BY <1>1, <1>2, <2>2, <3>1, <3>2 DEF OwnInv, Candidate, DraftReady, InventoryMatches
    <3> QED
      BY <3>3, <3>4
  <2> QED
    BY <2>1, <2>2
<1>6. ASSUME NEW j \in Ids
      PROVE  ReleaseInv(j)'
  BY <1>2, <1>3, <1>4, ConstantsAssumption DEF IInv, ReleaseInv, Candidate, InventoryMatches
<1>7. ASSUME NEW s \in Runs, Committed(s)'
      PROVE  Committed(s)
  BY <1>1, <1>2, <1>3, <1>7 DEF Committed
<1> QED
  BY <1>5, <1>6, <1>7 DEF IInv

\* The upload of an asset keeps the invariant.
LEMMA UploadStep ==
    ASSUME IInv, TypeOK', NEW r \in Runs, UploadAsset(r)
    PROVE  IInv'
<1>1. /\ rid[r] \in Ids /\ pc[r] = "upload" /\ r \notin late
      /\ UNCHANGED <<rid, published, late, world>>
  BY KnownIds, ScriptNotLate DEF UploadAsset, Filling, Script
<1>2. LineInv(r) /\ OwnInv(r)
  BY DEF IInv
<1>3. /\ release[rid[r]].status = "draft" /\ ~published[r]
      /\ rid[r] # NoId
  BY <1>1, <1>2 DEF LineInv, Filling
<1> PICK a \in Assets \ sent[r], whole \in BOOLEAN, answered \in BOOLEAN :
      /\ release' = [release EXCEPT ![rid[r]] =
             [release[rid[r]] EXCEPT !.assets = @ \cup {a},
                           !.damaged = IF whole THEN @ ELSE @ \cup {a}]]
      /\ Goto(r, IF ~answered THEN "cleanup"
                 ELSE IF sent[r] \cup {a} = Assets THEN "inspect" ELSE "upload")
  BY DEF UploadAsset
<1>4. /\ pc'[r] \in {"cleanup", "inspect", "upload"}
      /\ \A s \in Runs \ {r} : pc'[s] = pc[s]
  BY DEF Goto, IInv, TypeOK
<1>5. /\ release'[rid[r]].status = "draft"
      /\ release'[rid[r]].maker = release[rid[r]].maker
      /\ \A i \in Ids \ {rid[r]} : release'[i] = release[i]
  <2>1. release[rid[r]] \in Release
    BY <1>1 DEF IInv, TypeOK
  <2> QED
    BY <1>1, <1>3, <2>1 DEF IInv, TypeOK, Release
<1>6. LineInv(r)'
  BY <1>1, <1>3, <1>4, <1>5 DEF LineInv, BeforeDraft, Filling, FinalGates, AfterPatch
<1>7. OwnInv(r)'
  BY <1>1, <1>2, <1>3, <1>5 DEF OwnInv, Candidate
<1>8. ReleaseInv(rid[r])' /\ ~Committed(r)'
  BY <1>1, <1>4, <1>5 DEF ReleaseInv, Committed
<1> QED
  BY <1>1, <1>4, <1>5, <1>6, <1>7, <1>8, WriteStep DEF world

\* The PATCH keeps the invariant, whichever way it ends.
LEMMA PatchStep ==
    ASSUME IInv, TypeOK', NEW r \in Runs, Patch(r)
    PROVE  IInv'
<1>1. /\ rid[r] \in Ids /\ pc[r] = "patch" /\ r \notin late
      /\ UNCHANGED <<rid, world>>
  BY KnownIds, ScriptNotLate DEF Patch, FinalGates, Script
<1>2. LineInv(r) /\ OwnInv(r)
  BY DEF IInv
<1>3. /\ release[rid[r]].status = "draft" /\ ~published[r] /\ rid[r] # NoId
      /\ DraftReady(release[rid[r]]) /\ Candidate(rid[r]) = r /\ Committed(r)
  BY <1>1, <1>2 DEF LineInv, OwnInv, FinalGates, Committed
<1>4. /\ pc' = [pc EXCEPT ![r] = "confirm"] \/ pc' = [pc EXCEPT ![r] = "cleanup"]
      /\ \A s \in Runs \ {r} : pc'[s] = pc[s] /\ published'[s] = published[s]
                                 /\ (s \in late' => s \in late)
  BY DEF Patch, Goto, IInv, TypeOK
<1>5. \A i \in Ids \ {rid[r]} : release'[i] = release[i]
  BY DEF Patch, Publish, IInv, TypeOK
<1>6. CASE Publish(rid[r]) /\ late' = late
  <2>1. release[rid[r]] \in Release /\ release'[rid[r]] = [release[rid[r]] EXCEPT !.status = "published"]
    BY <1>1, <1>6 DEF Publish, IInv, TypeOK
  <2>2. /\ release'[rid[r]].status = "published"
        /\ release'[rid[r]].maker = r
        /\ release'[rid[r]].tagged /\ InventoryMatches(release'[rid[r]])
    BY <1>3, <2>1 DEF Release, DraftReady, InventoryMatches, Candidate
  <2>3. \/ pc'[r] = "confirm" /\ published'[r]
        \/ pc'[r] = "cleanup" /\ ~published'[r]
    BY <1>1, <1>3 DEF Patch, Goto, IInv, TypeOK
  <2>4. LineInv(r)'
    BY <1>1, <1>3, <2>2, <2>3 DEF LineInv, BeforeDraft, Filling, FinalGates, AfterPatch
  <2>5. OwnInv(r)'
    BY <1>1, <1>3, <1>6, <2>2 DEF OwnInv, Candidate
  <2>6. ReleaseInv(rid[r])'
    BY <1>1, <2>2 DEF ReleaseInv, Candidate
  <2> QED
    BY <1>1, <1>3, <1>4, <1>5, <2>2, <2>4, <2>5, <2>6, WriteStep DEF world, Candidate
<1>7. CASE /\ LatePatch /\ late' = late \cup {r} /\ pc' = [pc EXCEPT ![r] = "cleanup"]
           /\ UNCHANGED <<published, release>>
  <2>1. pc'[r] = "cleanup"
    BY <1>7 DEF IInv, TypeOK
  <2>2. LineInv(r)'
    BY <2>1 DEF LineInv, BeforeDraft, Filling, FinalGates, AfterPatch
  <2>3. OwnInv(r)'
    BY <1>1, <1>2, <1>3, <1>7, <2>1 DEF OwnInv, Candidate, Trap, DraftReady, InventoryMatches
  <2>4. ReleaseInv(rid[r])'
    BY <1>1, <1>7 DEF IInv, ReleaseInv, Candidate, InventoryMatches
  <2> QED
    BY <1>1, <1>3, <1>4, <1>5, <1>7, <2>2, <2>3, <2>4, WriteStep DEF world
<1> QED
  BY <1>6, <1>7 DEF Patch, Goto

\* The trap's DELETE keeps the invariant.
LEMMA DeleteStep ==
    ASSUME IInv, TypeOK', NEW r \in Runs, Delete(r)
    PROVE  IInv'
<1>1. /\ rid[r] \in Ids /\ pc[r] = "delete"
      /\ UNCHANGED <<rid, published, late, world>>
  BY KnownIds DEF Delete
<1>2. LineInv(r) /\ OwnInv(r) /\ rid[r] # NoId /\ ~published[r]
  BY <1>1 DEF IInv, LineInv
<1>3. CASE pc' = [pc EXCEPT ![r] = "undeleted"] /\ release' = release
  <2>1. pc'[r] = "undeleted" /\ UNCHANGED sent
    BY <1>3 DEF Delete, IInv, TypeOK
  <2>2. LineInv(r)'
    BY <2>1 DEF LineInv, BeforeDraft, Filling, FinalGates, AfterPatch
  <2> QED
    BY <1>1, <1>3, <2>1, <2>2, LocalStep DEF github, Ended
<1>4. CASE /\ release' = [release EXCEPT ![rid[r]].status = "deleted"]
           /\ pc' = [pc EXCEPT ![r] = "failed"]
  <2>1. pc'[r] = "failed" /\ \A s \in Runs \ {r} : pc'[s] = pc[s]
    BY <1>4 DEF IInv, TypeOK
  <2>2. release[rid[r]] \in Release /\ release'[rid[r]] = [release[rid[r]] EXCEPT !.status = "deleted"]
    BY <1>1, <1>4 DEF IInv, TypeOK
  <2>3. /\ release'[rid[r]].status = "deleted"
        /\ release'[rid[r]].maker = release[rid[r]].maker
        /\ \A i \in Ids \ {rid[r]} : release'[i] = release[i]
    BY <1>4, <2>2 DEF Release, IInv, TypeOK
  <2>4. LineInv(r)'
    BY <1>1, <2>1, <2>3 DEF LineInv, BeforeDraft, Filling, FinalGates, AfterPatch
  <2>5. OwnInv(r)'
    BY <1>1, <1>2, <2>1, <2>3 DEF OwnInv, Candidate, Ended
  <2>6. ReleaseInv(rid[r])' /\ ~Committed(r)'
    BY <1>1, <2>3 DEF ReleaseInv, Committed
  <2> QED
    BY <1>1, <2>1, <2>3, <2>4, <2>5, <2>6, WriteStep DEF world
<1> QED
  BY <1>3, <1>4 DEF Delete, Goto

\* An abandoned PATCH that arrives after all keeps the invariant: its run was
\* committed, and its draft is still the one that was inspected.
LEMMA LateStep ==
    ASSUME IInv, TypeOK', NEW r \in Runs, LatePatchLands(r)
    PROVE  IInv'
<1>1. /\ rid[r] \in Ids /\ r \in late /\ late' = late \ {r}
      /\ UNCHANGED <<locals, world>>
  BY KnownIds DEF LatePatchLands
<1>2. LineInv(r) /\ OwnInv(r) /\ ReleaseInv(rid[r])
  BY <1>1 DEF IInv
<1>3. LatePatch /\ rid[r] # NoId /\ ~published[r] /\ pc[r] \in Trap \cup (Ended \ {"succeeded"})
  BY <1>1, <1>2 DEF OwnInv
<1>4. CASE release[rid[r]].status = "draft" /\ Publish(rid[r])
  <2>1. release[rid[r]] \in Release /\ release'[rid[r]] = [release[rid[r]] EXCEPT !.status = "published"]
    BY <1>1, <1>4 DEF Publish, IInv, TypeOK
  <2>2. DraftReady(release[rid[r]]) /\ Candidate(rid[r]) = r
    BY <1>1, <1>2, <1>4 DEF OwnInv
  <2>3. /\ release'[rid[r]].status = "published"
        /\ release'[rid[r]].maker = r
        /\ release'[rid[r]].tagged /\ InventoryMatches(release'[rid[r]])
        /\ \A i \in Ids \ {rid[r]} : release'[i] = release[i]
    BY <1>4, <2>1, <2>2 DEF Release, DraftReady, InventoryMatches, Candidate, Publish, IInv, TypeOK
  <2>4. LineInv(r)'
    BY <1>1, <1>2, <1>3, <2>3
       DEF LineInv, Trap, Ended, locals, BeforeDraft, Filling, FinalGates, AfterPatch
  <2>5. OwnInv(r)'
    BY <1>1, <1>3, <2>3 DEF OwnInv, Candidate, locals
  <2>6. ReleaseInv(rid[r])'
    BY <1>1, <2>3 DEF ReleaseInv, Candidate, locals
  <2>7. Committed(r)
    BY <1>1, <1>3, <1>4 DEF Committed
  <2> QED
    BY <1>1, <2>2, <2>3, <2>4, <2>5, <2>6, <2>7, WriteStep DEF locals, world, Candidate
<1>5. CASE UNCHANGED release
  <2>1. LineInv(r)'
    BY <1>1, <1>2, <1>5 DEF LineInv, locals, world, DraftReady, InventoryMatches, TagIsCommit
  <2>2. OwnInv(r)'
    BY <1>1, <1>2, <1>5 DEF OwnInv, Candidate, locals
  <2>3. ReleaseInv(rid[r])'
    BY <1>1, <1>2, <1>5 DEF ReleaseInv, Candidate, locals, InventoryMatches
  <2>4. Committed(r)' => Committed(r)
    BY <1>1, <1>5 DEF Committed, locals
  <2> QED
    BY <1>1, <1>5, <2>1, <2>2, <2>3, <2>4, WriteStep DEF locals, world
<1> QED
  BY <1>4, <1>5 DEF LatePatchLands

\* GitHub's background work keeps the invariant.
LEMMA BackgroundStep ==
    ASSUME IInv, TypeOK', NEW i \in Ids,
           \/ TagSettles(i) \/ BecomesImmutable(i) \/ AttestationWritten(i)
           \/ \E a \in Assets : DigestComputed(i, a)
    PROVE  IInv'
<1>0. release[i] \in Release /\ release \in [Ids -> Release]
  BY DEF IInv, TypeOK
<1>1. CASE TagSettles(i)
  <2> DEFINE new == [release[i] EXCEPT !.tagged = TRUE]
  <2>1. new \in Release
    BY <1>0 DEF Release
  <2>2. release' = [release EXCEPT ![i] = new] /\ UNCHANGED <<locals, late, world>>
    BY <1>1 DEF TagSettles
  <2>3. /\ new.status = release[i].status /\ new.maker = release[i].maker /\ new.tagged
        /\ InventoryMatches(release[i]) => InventoryMatches(new)
        /\ release[i].sealed => new.sealed
        /\ release[i].attested => new.attested
    BY <1>0 DEF Release, InventoryMatches
  <2> QED
    BY <2>1, <2>2, <2>3, CompletionStep
<1>2. CASE BecomesImmutable(i)
  <2> DEFINE new == [release[i] EXCEPT !.sealed = TRUE]
  <2>1. new \in Release
    BY <1>0 DEF Release
  <2>2. release' = [release EXCEPT ![i] = new] /\ UNCHANGED <<locals, late, world>>
    BY <1>2 DEF BecomesImmutable
  <2>3. /\ new.status = release[i].status /\ new.maker = release[i].maker /\ new.sealed
        /\ InventoryMatches(release[i]) => InventoryMatches(new)
        /\ release[i].tagged => new.tagged
        /\ release[i].attested => new.attested
    BY <1>0 DEF Release, InventoryMatches
  <2> QED
    BY <2>1, <2>2, <2>3, CompletionStep
<1>3. CASE AttestationWritten(i)
  <2> DEFINE new == [release[i] EXCEPT !.attested = TRUE]
  <2>1. new \in Release
    BY <1>0 DEF Release
  <2>2. release' = [release EXCEPT ![i] = new] /\ UNCHANGED <<locals, late, world>>
    BY <1>3 DEF AttestationWritten
  <2>3. /\ new.status = release[i].status /\ new.maker = release[i].maker /\ new.attested
        /\ InventoryMatches(release[i]) => InventoryMatches(new)
        /\ release[i].tagged => new.tagged
        /\ release[i].sealed => new.sealed
    BY <1>0 DEF Release, InventoryMatches
  <2> QED
    BY <2>1, <2>2, <2>3, CompletionStep
<1>4. ASSUME NEW a \in Assets, DigestComputed(i, a)
      PROVE  IInv'
  <2> DEFINE new == [release[i] EXCEPT !.digested = @ \cup {a}]
  <2>1. new \in Release
    BY <1>0 DEF Release
  <2>2. release' = [release EXCEPT ![i] = new] /\ UNCHANGED <<locals, late, world>>
    BY <1>4 DEF DigestComputed
  <2>3. /\ new.status = release[i].status /\ new.maker = release[i].maker
        /\ InventoryMatches(release[i]) => InventoryMatches(new)
        /\ release[i].tagged => new.tagged
        /\ release[i].sealed => new.sealed
        /\ release[i].attested => new.attested
    BY <1>0 DEF Release, InventoryMatches
  <2> QED
    BY <2>1, <2>2, <2>3, CompletionStep
<1> QED
  BY <1>1, <1>2, <1>3, <1>4

\* Maintainers keep the invariant: the tag of an immutable release is locked.
LEMMA MaintainerStep ==
    ASSUME IInv, TypeOK', TagMoves \/ MainMoves
    PROVE  IInv'
<1>1. UNCHANGED <<locals, github>> /\ (tag' = tag \/ TagMoves)
  BY DEF TagMoves, MainMoves
<1>2. ASSUME NEW r \in Runs
      PROVE  LineInv(r)' /\ OwnInv(r)'
  <2>1. LineInv(r) /\ OwnInv(r)
    BY DEF IInv
  <2>2. OwnInv(r)'
    BY <1>1, <2>1 DEF OwnInv, locals, github, Candidate, DraftReady, InventoryMatches
  <2>3. pc[r] \in {"verify", "verify_assets", "succeeded"} => TagLocked
    BY <2>1 DEF LineInv, OwnInv, AfterPatch, IInv, TypeOK, TagLocked
  <2>4. LineInv(r)'
    BY <1>1, <2>1, <2>3
       DEF LineInv, locals, github, DraftReady, InventoryMatches, TagMoves, TagIsCommit
  <2> QED
    BY <2>2, <2>4
<1>3. ASSUME NEW i \in Ids
      PROVE  ReleaseInv(i)'
  BY <1>1 DEF IInv, ReleaseInv, Candidate, locals, github, InventoryMatches
<1>4. ASSUME NEW r \in Runs, Committed(r)'
      PROVE  Committed(r)
  BY <1>1, <1>4 DEF Committed, locals, github
<1> QED
  BY <1>2, <1>3, <1>4 DEF IInv

\* The initial states satisfy the invariant.
LEMMA InvInit == Init => IInv
<1> SUFFICES ASSUME Init PROVE IInv
  OBVIOUS
<1>1. TypeOK
  BY ConstantsAssumption
     DEF Init, TypeOK, Release, Unused, Script, TagStates, MainStates
<1>2. ASSUME NEW r \in Runs
      PROVE  LineInv(r) /\ OwnInv(r) /\ ~Committed(r)
  BY DEF Init, LineInv, OwnInv, Committed, BeforeDraft, Filling, FinalGates, AfterPatch
<1>3. ASSUME NEW i \in Ids
      PROVE  ReleaseInv(i)
  BY DEF Init, ReleaseInv, Unused
<1> QED
  BY <1>1, <1>2, <1>3 DEF IInv

\* Every step keeps the invariant.
LEMMA InvNext == IInv /\ [Next]_vars => IInv'
<1> SUFFICES ASSUME IInv, [Next]_vars PROVE IInv'
  OBVIOUS
<1>1. TypeOK'
  BY KnownIds, TypeStep DEF IInv
<1>2. CASE UNCHANGED vars
  BY <1>2 DEF IInv, TypeOK, LineInv, OwnInv, ReleaseInv, Committed, Candidate, DraftReady,
              InventoryMatches, TagIsCommit, vars, locals, github, world
<1>3. ASSUME NEW r \in Runs, Step(r)
      PROVE  IInv'
  BY <1>1, <1>3, GateStep, PollStep, CreateStep, UploadStep, PatchStep, EndStep, DeleteStep
     DEF Step
<1>4. ASSUME NEW r \in Runs, Abort(r) \/ Kill(r)
      PROVE  IInv'
  BY <1>1, <1>4, EndStep
<1>5. CASE Environment
  BY <1>1, <1>5, LateStep, BackgroundStep, MaintainerStep DEF Environment
<1> QED
  BY <1>2, <1>3, <1>4, <1>5 DEF Next

\* The inductive invariant holds in every behaviour of the scripts, whatever
\* the number of runs, the order of their calls and the faults they meet.
THEOREM Invariance == Spec => []IInv
BY InvInit, InvNext, PTL DEF Spec

-----------------------------------------------------------------------------
(* Safety *)

\* Every variable keeps its type.
THEOREM TypeCorrect == Spec => []TypeOK
<1>1. IInv => TypeOK
  BY DEF IInv
<1> QED
  BY <1>1, Invariance, PTL

\* The invariant leaves room for one public release.
LEMMA ExclusionHolds ==
    ASSUME IInv
    PROVE  AtMostOnePublished
<1> SUFFICES ASSUME NEW i \in PublishedIds, NEW j \in PublishedIds
             PROVE  i = j
  BY DEF AtMostOnePublished
<1>1. /\ Candidate(i) \in Runs /\ rid[Candidate(i)] = i /\ release[i].status = "published"
      /\ Candidate(j) \in Runs /\ rid[Candidate(j)] = j /\ release[j].status = "published"
  BY DEF IInv, ReleaseInv, PublishedIds
<1>2. Committed(Candidate(i)) /\ Committed(Candidate(j))
  BY <1>1, ConstantsAssumption DEF Committed, PublishedIds
<1> QED
  BY <1>1, <1>2 DEF IInv

\* Overlapping runs for a tag publish at most one release, with no concurrency
\* group to keep them apart.
THEOREM Exclusion == Spec => []AtMostOnePublished
BY ExclusionHolds, Invariance, PTL

\* A reported success is an immutable, attested release with exactly the run's
\* files, and the tag peels to its commit.
THEOREM Soundness == Spec => []SuccessIsSound
<1>1. IInv => SuccessIsSound
  <2> SUFFICES ASSUME IInv, NEW r \in Runs, pc[r] = "succeeded"
               PROVE  /\ rid[r] \in PublishedIds
                      /\ Candidate(rid[r]) = r
                      /\ release[rid[r]].sealed /\ release[rid[r]].attested
                      /\ InventoryMatches(release[rid[r]])
                      /\ TagIsCommit
    BY DEF SuccessIsSound
  <2>1. LineInv(r) /\ OwnInv(r)
    BY DEF IInv
  <2>2. rid[r] \in Ids /\ rid[r] # NoId /\ release[rid[r]].status = "published"
    BY <2>1 DEF LineInv, OwnInv, AfterPatch, IInv, TypeOK
  <2>3. ReleaseInv(rid[r])
    BY <2>2 DEF IInv
  <2> QED
    BY <2>1, <2>2, <2>3 DEF LineInv, OwnInv, ReleaseInv, AfterPatch, PublishedIds
<1> QED
  BY <1>1, Invariance, PTL

\* What is public is a whole candidate, byte for byte.
THEOREM Exactness == Spec => []PublishedIsExact
<1>1. IInv => PublishedIsExact
  BY DEF IInv, ReleaseInv, PublishedIsExact, PublishedIds
<1> QED
  BY <1>1, Invariance, PTL

\* A run that fails quietly leaves no draft it knew of.
THEOREM CleanFailure == Spec => []QuietFailureLeavesNoDraft
<1>1. IInv => QuietFailureLeavesNoDraft
  BY DEF IInv, LineInv, QuietFailureLeavesNoDraft
<1> QED
  BY <1>1, Invariance, PTL

-----------------------------------------------------------------------------
(* Action properties *)

\* A release is removed only by the trap of the run that created it.
THEOREM DeleteIsOwn == Spec => OnlyOwnDraftDeleted
<1>1. ASSUME IInv, [Next]_vars
      PROVE  OwnDeletion
  <2> SUFFICES ASSUME NEW i \in Ids, release[i].status # "deleted", release'[i].status = "deleted"
               PROVE  pc[Candidate(i)] = "delete" /\ pc'[Candidate(i)] = "failed"
    BY DEF OwnDeletion
  <2>1. PICK r \in Runs : Delete(r)
    <3>1. release[i] \in Release /\ release \in [Ids -> Release]
      BY <1>1 DEF IInv, TypeOK
    <3>2. release' # release
      BY <3>1
    <3>3. ASSUME NEW r \in Runs, CreateDraft(r) \/ UploadAsset(r) \/ Patch(r) \/ LatePatchLands(r)
          PROVE  FALSE
      <4>1. ASSUME NEW j \in Ids, NEW new, release' = [release EXCEPT ![j] = new],
                   new.status # "deleted" \/ new.status = release[j].status
            PROVE  FALSE
        BY <3>1, <4>1
      <4>2. CASE CreateDraft(r)
        <5>1. PICK j \in Ids, settled \in BOOLEAN :
                release' = [release EXCEPT ![j] =
                  [Unused EXCEPT !.status = "draft", !.maker = r, !.tagged = settled]]
          BY <4>2 DEF CreateDraft
        <5>2. [Unused EXCEPT !.status = "draft", !.maker = r, !.tagged = settled].status = "draft"
          BY DEF Unused
        <5> QED
          BY <4>1, <5>1, <5>2
      <4>3. rid[r] \in Ids \/ CreateDraft(r)
        BY <1>1, <3>3, KnownIds DEF UploadAsset, Patch, LatePatchLands, Filling, FinalGates
      <4>4. CASE UploadAsset(r) /\ rid[r] \in Ids
        <5>1. PICK a \in Assets, whole \in BOOLEAN :
                release' = [release EXCEPT ![rid[r]] =
                  [release[rid[r]] EXCEPT !.assets = @ \cup {a},
                                          !.damaged = IF whole THEN @ ELSE @ \cup {a}]]
          BY <4>4 DEF UploadAsset
        <5>2. [release[rid[r]] EXCEPT !.assets = @ \cup {a},
                 !.damaged = IF whole THEN @ ELSE @ \cup {a}].status = release[rid[r]].status
          BY <3>1, <4>4 DEF Release
        <5> QED
          BY <4>1, <4>4, <5>1, <5>2
      <4>5. CASE (Patch(r) \/ LatePatchLands(r)) /\ rid[r] \in Ids
        <5>1. release' = release \/ Publish(rid[r])
          BY <4>5 DEF Patch, LatePatchLands
        <5>2. [release[rid[r]] EXCEPT !.status = "published"].status = "published"
          BY <3>1, <4>5 DEF Release
        <5> QED
          BY <3>2, <4>1, <4>5, <5>1, <5>2 DEF Publish
      <4> QED
        BY <3>3, <4>2, <4>3, <4>4, <4>5
    <3>4. /\ ~TagSettles(i) /\ ~BecomesImmutable(i) /\ ~AttestationWritten(i)
          /\ \A a \in Assets : ~DigestComputed(i, a)
      <4>1. ASSUME NEW new, release' = [release EXCEPT ![i] = new], new.status = release[i].status
            PROVE  FALSE
        BY <3>1, <4>1
      <4>2. /\ [release[i] EXCEPT !.tagged = TRUE].status = release[i].status
            /\ [release[i] EXCEPT !.sealed = TRUE].status = release[i].status
            /\ [release[i] EXCEPT !.attested = TRUE].status = release[i].status
            /\ \A a \in Assets :
                 [release[i] EXCEPT !.digested = @ \cup {a}].status = release[i].status
        BY <3>1 DEF Release
      <4>3. ~TagSettles(i)
        BY <4>1, <4>2 DEF TagSettles
      <4>4. ~BecomesImmutable(i)
        BY <4>1, <4>2 DEF BecomesImmutable
      <4>5. ~AttestationWritten(i)
        BY <4>1, <4>2 DEF AttestationWritten
      <4>6. ASSUME NEW a \in Assets, DigestComputed(i, a)
            PROVE  FALSE
        BY <4>1, <4>2, <4>6 DEF DigestComputed
      <4> QED
        BY <4>3, <4>4, <4>5, <4>6
    <3>5. \A j \in Ids \ {i} :
             /\ ~TagSettles(j) /\ ~BecomesImmutable(j) /\ ~AttestationWritten(j)
             /\ \A a \in Assets : ~DigestComputed(j, a)
      BY <3>1 DEF TagSettles, BecomesImmutable, AttestationWritten, DigestComputed
    <3>6. ~Environment
      BY <3>2, <3>3, <3>4, <3>5 DEF Environment, TagMoves, MainMoves, github
    <3>7. \A r \in Runs : ~Abort(r) /\ ~Kill(r) /\ ~Cleanup(r)
      BY <3>2 DEF Abort, Kill, Cleanup, github
    <3>8. \A r \in Runs : Step(r) => Delete(r)
      BY <3>2, <3>3, <3>7
         DEF Step, RecheckTag, RecheckMain, RecheckList, CreateTagCheck, Settle, Inspect,
             FinalTag, FinalMain, FinalList, Confirm, Retag, Verify, VerifyAssets,
             Gate, Poll, github
    <3> QED
      BY <1>1, <3>2, <3>6, <3>7, <3>8 DEF Next, vars, github
  <2>2. pc[r] = "delete" /\ rid[r] \in Ids
    BY <1>1, <2>1, KnownIds DEF Delete
  <2>3. rid[r] = i /\ pc' = [pc EXCEPT ![r] = "failed"]
    BY <2>1, <2>2, <1>1 DEF Delete, Goto, IInv, TypeOK
  <2>4. Candidate(i) = r
    BY <1>1, <2>2, <2>3 DEF IInv, LineInv, OwnInv
  <2> QED
    BY <1>1, <2>2, <2>3, <2>4 DEF IInv, TypeOK
<1> QED
  BY <1>1, Invariance, PTL DEF Spec, OnlyOwnDraftDeleted

\* Where a PATCH takes effect before its client gives up or not at all, a step
\* leaves a public release as it is, but for its immutability and what GitHub
\* computes of it.
LEMMA PublicKept ==
    ASSUME LatePatch = FALSE, IInv, [Next]_vars, NEW i \in PublishedIds
    PROVE  /\ release'[i].status = "published"
           /\ release'[i].assets = release[i].assets
           /\ release'[i].damaged = release[i].damaged
           /\ release'[i].maker = release[i].maker
           /\ release[i].sealed => release'[i].sealed
<1> DEFINE Kept(new) ==
      /\ new.status = release[i].status
      /\ new.assets = release[i].assets
      /\ new.damaged = release[i].damaged
      /\ new.maker = release[i].maker
      /\ release[i].sealed => new.sealed
<1>1. /\ i \in Ids /\ release[i].status = "published"
      /\ release[i] \in Release /\ release \in [Ids -> Release]
      /\ pc \in [Runs -> Script \cup Trap \cup Ended] /\ rid \in [Runs -> Ids \cup {NoId}]
  BY DEF IInv, TypeOK, PublishedIds
<1>2. CASE release' = release
  BY <1>1, <1>2
<1>3. ASSUME NEW j \in Ids, NEW new, release' = [release EXCEPT ![j] = new],
             release[j].status # "published"
      PROVE  release'[i] = release[i]
  BY <1>1, <1>3
<1>4. ASSUME NEW r \in Runs, CreateDraft(r)
      PROVE  release'[i] = release[i]
  <2>1. PICK j \in Ids, settled \in BOOLEAN :
          /\ release[j].status = "unused"
          /\ release' = [release EXCEPT ![j] =
               [Unused EXCEPT !.status = "draft", !.maker = r, !.tagged = settled]]
    BY <1>4 DEF CreateDraft
  <2> QED
    BY <1>3, <2>1
<1>5. ASSUME NEW r \in Runs, UploadAsset(r) \/ Patch(r) \/ Delete(r)
      PROVE  release'[i] = release[i]
  <2>1. rid[r] \in Ids /\ release[rid[r]].status = "draft"
    BY <1>5, KnownIds
       DEF IInv, LineInv, UploadAsset, Patch, Delete, Filling, FinalGates
  <2>2. CASE UploadAsset(r)
    BY <2>1, <2>2, <1>3 DEF UploadAsset
  <2>3. CASE Patch(r) \/ Delete(r)
    BY <1>1, <2>1, <2>3 DEF Patch, Delete, Publish
  <2> QED
    BY <1>5, <2>2, <2>3
<1>6. \A r \in Runs : ~LatePatchLands(r)
  BY DEF LatePatchLands, IInv, OwnInv
<1>7. ASSUME NEW j \in Ids, NEW a \in Assets,
             TagSettles(j) \/ BecomesImmutable(j) \/ AttestationWritten(j) \/ DigestComputed(j, a)
      PROVE  Kept(release'[i])
  <2>1. /\ Kept([release[i] EXCEPT !.sealed = TRUE])
        /\ Kept([release[i] EXCEPT !.attested = TRUE])
        /\ Kept([release[i] EXCEPT !.digested = @ \cup {a}])
        /\ Kept(release[i])
    BY <1>1 DEF Release
  <2>2. CASE TagSettles(j)
    BY <1>1, <2>2 DEF TagSettles
  <2>3. CASE BecomesImmutable(j)
    <3>1. release' = [release EXCEPT ![j] = [release[j] EXCEPT !.sealed = TRUE]]
      BY <2>3 DEF BecomesImmutable
    <3> QED
      BY <1>1, <2>1, <3>1
  <2>4. CASE AttestationWritten(j)
    <3>1. release' = [release EXCEPT ![j] = [release[j] EXCEPT !.attested = TRUE]]
      BY <2>4 DEF AttestationWritten
    <3> QED
      BY <1>1, <2>1, <3>1
  <2>5. CASE DigestComputed(j, a)
    <3>1. release' = [release EXCEPT ![j] = [release[j] EXCEPT !.digested = @ \cup {a}]]
      BY <2>5 DEF DigestComputed
    <3> QED
      BY <1>1, <2>1, <3>1
  <2> QED
    BY <1>7, <2>2, <2>3, <2>4, <2>5
<1>8. ASSUME NEW r \in Runs, Step(r), ~CreateDraft(r), ~UploadAsset(r), ~Patch(r), ~Delete(r)
      PROVE  release' = release
  BY <1>8
     DEF Step, RecheckTag, RecheckMain, RecheckList, CreateTagCheck, Settle, Inspect,
         FinalTag, FinalMain, FinalList, Confirm, Retag, Verify, VerifyAssets, Cleanup,
         Gate, Poll, github
<1>9. ASSUME NEW r \in Runs, Abort(r) \/ Kill(r)
      PROVE  release' = release
  BY <1>9 DEF Abort, Kill, github
<1>10. CASE TagMoves \/ MainMoves
  BY <1>2, <1>10 DEF TagMoves, MainMoves, github
<1>11. CASE UNCHANGED vars
  BY <1>2, <1>11 DEF vars, github
<1>12. CASE Environment
  BY <1>1, <1>6, <1>7, <1>10, <1>12, ConstantsAssumption DEF Environment
<1> QED
  BY <1>1, <1>2, <1>4, <1>5, <1>8, <1>9, <1>11, <1>12 DEF Next

\* Under the same condition nothing takes a public release away or changes what
\* it holds.
THEOREM NoRollback ==
    ASSUME LatePatch = FALSE
    PROVE  Spec => PublishedStays
<1>1. IInv /\ [Next]_vars => PublishedKept
  BY PublicKept DEF PublishedKept
<1> QED
  BY <1>1, Invariance, PTL DEF Spec, PublishedStays

\* What a step may change of one release: its maker is fixed at its creation, it
\* becomes immutable by GitHub's own step and public by its maker's PATCH.
LEMMA ReleaseSteps ==
    ASSUME IInv, [Next]_vars, NEW i \in Ids
    PROVE  /\ release[i].status # "unused" => release'[i].maker = release[i].maker
           /\ release'[i].sealed => release[i].sealed \/ BecomesImmutable(i)
           /\ release'[i].status = "published" =>
                \/ release[i].status = "published"
                \/ \E r \in Runs : rid[r] = i /\ (Patch(r) \/ LatePatchLands(r))
<1> DEFINE Kept(new) ==
      /\ new.maker = release[i].maker
      /\ new.sealed => release[i].sealed
<1>1. /\ release[i] \in Release /\ release \in [Ids -> Release]
      /\ pc \in [Runs -> Script \cup Trap \cup Ended] /\ rid \in [Runs -> Ids \cup {NoId}]
  BY DEF IInv, TypeOK
<1>2. CASE release' = release
  BY <1>2
<1>3. ASSUME NEW r \in Runs, CreateDraft(r)
      PROVE  \/ release'[i] = release[i]
             \/ /\ release[i].status = "unused" /\ release'[i].status = "draft"
                /\ ~release'[i].sealed
  <2>1. PICK j \in Ids, settled \in BOOLEAN :
          /\ release[j].status = "unused"
          /\ release' = [release EXCEPT ![j] =
               [Unused EXCEPT !.status = "draft", !.maker = r, !.tagged = settled]]
    BY <1>3 DEF CreateDraft
  <2> DEFINE new == [Unused EXCEPT !.status = "draft", !.maker = r, !.tagged = settled]
  <2>2. new.status = "draft" /\ ~new.sealed
    BY DEF Unused
  <2> HIDE DEF new
  <2>3. release' = [release EXCEPT ![j] = new]
    BY <2>1 DEF new
  <2> QED
    BY <1>1, <2>1, <2>2, <2>3
<1>4. ASSUME NEW r \in Runs, UploadAsset(r)
      PROVE  Kept(release'[i]) /\ release'[i].status = release[i].status
  <2>1. rid[r] \in Ids
    BY <1>4, KnownIds DEF UploadAsset, Filling
  <2>2. PICK a \in Assets, whole \in BOOLEAN :
          release' = [release EXCEPT ![rid[r]] =
            [release[rid[r]] EXCEPT !.assets = @ \cup {a},
                                    !.damaged = IF whole THEN @ ELSE @ \cup {a}]]
    BY <1>4 DEF UploadAsset
  <2> DEFINE new == [release[rid[r]] EXCEPT !.assets = @ \cup {a},
                       !.damaged = IF whole THEN @ ELSE @ \cup {a}]
  <2>3. /\ new.maker = release[rid[r]].maker /\ new.sealed = release[rid[r]].sealed
        /\ new.status = release[rid[r]].status
    BY <1>1, <2>1 DEF Release
  <2> HIDE DEF new
  <2>4. release' = [release EXCEPT ![rid[r]] = new]
    BY <2>2 DEF new
  <2> QED
    BY <1>1, <2>1, <2>3, <2>4
<1>5. ASSUME NEW r \in Runs, NEW status, rid[r] \in Ids,
             release' = [release EXCEPT ![rid[r]].status = status]
      PROVE  Kept(release'[i]) /\ (release'[i].status = release[i].status \/ rid[r] = i)
  <2> DEFINE new == [release[rid[r]] EXCEPT !.status = status]
  <2>1. new.maker = release[rid[r]].maker /\ new.sealed = release[rid[r]].sealed
    BY <1>1, <1>5 DEF Release
  <2> HIDE DEF new
  <2>2. release' = [release EXCEPT ![rid[r]] = new]
    BY <1>5 DEF new
  <2> QED
    BY <1>1, <1>5, <2>1, <2>2
<1>6. ASSUME NEW r \in Runs, Patch(r) \/ LatePatchLands(r)
      PROVE  Kept(release'[i]) /\ (release'[i].status = release[i].status \/ rid[r] = i)
  <2>1. rid[r] \in Ids
    BY <1>6, KnownIds DEF Patch, LatePatchLands, FinalGates
  <2> QED
    BY <1>2, <1>5, <1>6, <2>1 DEF Patch, LatePatchLands, Publish
<1>7. ASSUME NEW r \in Runs, Delete(r)
      PROVE  Kept(release'[i]) /\ release'[i].status \in {release[i].status, "deleted"}
  <2>1. rid[r] \in Ids
    BY <1>7, KnownIds DEF Delete
  <2>2. CASE release' = [release EXCEPT ![rid[r]].status = "deleted"]
    <3>1. release'[i].status = release[i].status \/ release'[i].status = "deleted"
      BY <1>1, <2>1, <2>2 DEF Release
    <3> QED
      BY <1>5, <2>1, <2>2, <3>1
  <2> QED
    BY <1>2, <1>7, <2>2 DEF Delete
<1>8. ASSUME NEW j \in Ids, NEW a \in Assets,
             TagSettles(j) \/ BecomesImmutable(j) \/ AttestationWritten(j) \/ DigestComputed(j, a)
      PROVE  /\ release'[i].status = release[i].status
             /\ release'[i].maker = release[i].maker
             /\ release'[i].sealed => release[i].sealed \/ BecomesImmutable(i)
  <2>1. \A new \in {[release[i] EXCEPT !.tagged = TRUE], [release[i] EXCEPT !.attested = TRUE],
                    [release[i] EXCEPT !.digested = @ \cup {a}]} :
          Kept(new) /\ new.status = release[i].status
    BY <1>1 DEF Release
  <2>2. [release[i] EXCEPT !.sealed = TRUE].maker = release[i].maker
        /\ [release[i] EXCEPT !.sealed = TRUE].status = release[i].status
    BY <1>1 DEF Release
  <2>3. CASE i # j
    BY <1>1, <1>8, <2>3 DEF TagSettles, BecomesImmutable, AttestationWritten, DigestComputed
  <2>4. CASE i = j /\ BecomesImmutable(i)
    <3>1. release' = [release EXCEPT ![i] = [release[i] EXCEPT !.sealed = TRUE]]
      BY <2>4 DEF BecomesImmutable
    <3> QED
      BY <1>1, <2>2, <2>4, <3>1
  <2>5. CASE i = j /\ ~BecomesImmutable(i)
    <3>1. \/ release' = [release EXCEPT ![i] = [release[i] EXCEPT !.tagged = TRUE]]
          \/ release' = [release EXCEPT ![i] = [release[i] EXCEPT !.attested = TRUE]]
          \/ release' = [release EXCEPT ![i] = [release[i] EXCEPT !.digested = @ \cup {a}]]
      BY <1>8, <2>5 DEF TagSettles, AttestationWritten, DigestComputed
    <3>2. PICK new : /\ release' = [release EXCEPT ![i] = new]
                     /\ Kept(new) /\ new.status = release[i].status
      BY <2>1, <3>1
    <3> QED
      BY <1>1, <3>2
  <2> QED
    BY <2>3, <2>4, <2>5
<1>9. ASSUME NEW r \in Runs, Step(r), ~CreateDraft(r), ~UploadAsset(r), ~Patch(r), ~Delete(r)
      PROVE  release' = release
  BY <1>9
     DEF Step, RecheckTag, RecheckMain, RecheckList, CreateTagCheck, Settle, Inspect,
         FinalTag, FinalMain, FinalList, Confirm, Retag, Verify, VerifyAssets, Cleanup,
         Gate, Poll, github
<1>10. CASE \E r \in Runs : Step(r)
  BY <1>2, <1>3, <1>4, <1>6, <1>7, <1>9, <1>10
<1>11. CASE UNCHANGED vars \/ (\E r \in Runs : Abort(r) \/ Kill(r)) \/ TagMoves \/ MainMoves
  BY <1>2, <1>11 DEF Abort, Kill, TagMoves, MainMoves, vars, github
<1>12. CASE Environment
  BY <1>6, <1>8, <1>11, <1>12, ConstantsAssumption DEF Environment
<1> QED
  BY <1>10, <1>11, <1>12 DEF Next

\* Until main or the tag is read again, a run of a stale tag or main stays off
\* the lines that publish.
Withdrawn(r, lines) ==
    /\ pc[r] \in lines \cup Trap \cup (Ended \ {"succeeded"})
    /\ r \notin late
    /\ \A i \in PublishedIds : Candidate(i) # r

\* A run that has not yet reached its last gates has nothing public or on its
\* way.
LEMMA NotYetPublic ==
    ASSUME IInv, NEW r \in Runs, NEW lines \in SUBSET (BeforeFinalTag \cup {"final_main"}),
           pc[r] \in lines
    PROVE  Withdrawn(r, lines)
<1>1. LineInv(r) /\ OwnInv(r)
  BY DEF IInv
<1>2. r \notin late
  BY <1>1 DEF OwnInv, BeforeFinalTag, BeforeDraft, Filling, Trap, Ended
<1>3. ASSUME NEW i \in PublishedIds, Candidate(i) = r
      PROVE  FALSE
  <2>1. i \in Ids /\ release[i].status = "published" /\ ReleaseInv(i)
    BY <1>3 DEF PublishedIds, IInv
  <2>2. rid[r] = i
    BY <1>3, <2>1 DEF ReleaseInv
  <2> QED
    BY <1>1, <2>1, <2>2, ConstantsAssumption
       DEF LineInv, BeforeFinalTag, BeforeDraft, Filling, FinalGates
<1> QED
  BY <1>2, <1>3 DEF Withdrawn

\* How far a step takes a run's program counter: the lines that publish come
\* after the last gates.
LEMMA WithdrawnStep ==
    ASSUME IInv, [Next]_vars, NEW r \in Runs, NEW lines,
           Withdrawn(r, lines),
           pc[r] \in lines => pc'[r] \in lines \cup Trap \cup (Ended \ {"succeeded"}),
           "patch" \notin lines
    PROVE  Withdrawn(r, lines)'
<1>1. pc \in [Runs -> Script \cup Trap \cup Ended] /\ rid \in [Runs -> Ids \cup {NoId}]
  BY DEF IInv, TypeOK
<1>2. ~Patch(r) /\ ~LatePatchLands(r)
  BY DEF Withdrawn, Patch, LatePatchLands, Trap, Ended
<1>3. pc'[r] \in lines \cup Trap \cup (Ended \ {"succeeded"})
  <2>1. CASE pc[r] \in lines
    BY <2>1
  <2>2. CASE pc[r] = "cleanup" \/ pc[r] = "delete" \/ pc[r] \in Ended \ {"succeeded"}
    <3>1. ASSUME NEW s \in Runs, Step(s) \/ Abort(s) \/ Kill(s)
          PROVE  pc'[r] \in Trap \cup (Ended \ {"succeeded"})
      <4>1. CASE s = r
        BY <1>1, <2>2, <3>1, <4>1
           DEF Step, RecheckTag, RecheckMain, RecheckList, CreateTagCheck, CreateDraft, Settle,
               UploadAsset, Inspect, FinalTag, FinalMain, FinalList, Patch, Confirm, Retag,
               Verify, VerifyAssets, Cleanup, Delete, Abort, Kill, Gate, Poll, Goto,
               Script, Trap, Ended
      <4>2. CASE s # r
        <5>1. pc'[r] = pc[r]
          BY <1>1, <3>1, <4>2
             DEF Step, RecheckTag, RecheckMain, RecheckList, CreateTagCheck, CreateDraft, Settle,
                 UploadAsset, Inspect, FinalTag, FinalMain, FinalList, Patch, Confirm, Retag,
                 Verify, VerifyAssets, Cleanup, Delete, Abort, Kill, Gate, Poll, Goto
        <5> QED
          BY <2>2, <5>1 DEF Trap
      <4> QED
        BY <4>1, <4>2
    <3>2. CASE Environment \/ UNCHANGED vars
      <4>1. pc' = pc
        BY <3>2 DEF Environment, LatePatchLands, TagSettles, BecomesImmutable, AttestationWritten,
                    DigestComputed, TagMoves, MainMoves, vars, locals
      <4> QED
        BY <2>2, <4>1 DEF Trap
    <3> QED
      BY <3>1, <3>2 DEF Next
  <2> QED
    BY <2>1, <2>2 DEF Withdrawn, Trap
<1>4. r \notin late'
  <2>1. \A s \in Runs \ {r} : Patch(s) => r \notin late'
    BY DEF Withdrawn, Patch
  <2>2. ASSUME NEW s \in Runs, Step(s), ~Patch(s)
        PROVE  late' = late
    BY <2>2
       DEF Step, RecheckTag, RecheckMain, RecheckList, CreateTagCheck, CreateDraft, Settle,
           UploadAsset, Inspect, FinalTag, FinalMain, FinalList, Confirm, Retag,
           Verify, VerifyAssets, Cleanup, Delete, Gate, Poll, github
  <2>3. CASE Environment \/ UNCHANGED vars \/ (\E s \in Runs : Abort(s) \/ Kill(s))
    <3>1. late' \subseteq late
      BY <2>3 DEF Environment, LatePatchLands, TagSettles, BecomesImmutable, AttestationWritten,
                  DigestComputed, TagMoves, MainMoves, Abort, Kill, vars, github
    <3> QED
      BY <3>1 DEF Withdrawn
  <2> QED
    BY <1>2, <2>1, <2>2, <2>3 DEF Next, Withdrawn
<1>5. ASSUME NEW i \in Ids, release'[i].status = "published", release'[i].maker = r
      PROVE  FALSE
  <2>1. CASE release[i].status = "published"
    BY <1>5, <2>1, ReleaseSteps DEF Withdrawn, PublishedIds, Candidate
  <2>2. CASE release[i].status # "published"
    <3>1. PICK s \in Runs : rid[s] = i /\ (Patch(s) \/ LatePatchLands(s))
      BY <1>5, <2>2, ReleaseSteps
    <3>2. release[i].status # "unused" /\ release[i].maker = s
      BY <3>1, ConstantsAssumption DEF IInv, OwnInv, Candidate
    <3> QED
      BY <1>2, <1>5, <3>1, <3>2, ReleaseSteps
  <2> QED
    BY <2>1, <2>2
<1> QED
  BY <1>3, <1>4, <1>5 DEF Withdrawn, PublishedIds, Candidate

\* A step of a run that stands before the last gates, and whose gate is shut,
\* leaves it before them or sends it to the trap.
LEMMA GateShut ==
    ASSUME IInv, [Next]_vars, NEW r \in Runs
    PROVE  /\ pc[r] \in BeforeFinalTag /\ ~TagIsCommit =>
                pc'[r] \in BeforeFinalTag \cup Trap \cup (Ended \ {"succeeded"})
           /\ pc[r] \in BeforeFinalTag \cup {"final_main"} /\ ~MainContains =>
                pc'[r] \in BeforeFinalTag \cup {"final_main"} \cup Trap \cup (Ended \ {"succeeded"})
<1>1. pc \in [Runs -> Script \cup Trap \cup Ended]
  BY DEF IInv, TypeOK
<1>2. ASSUME pc'[r] # pc[r]
      PROVE  Step(r) \/ Abort(r) \/ Kill(r)
  <2>1. ASSUME NEW s \in Runs \ {r}, Step(s) \/ Abort(s) \/ Kill(s)
        PROVE  FALSE
    BY <1>1, <1>2, <2>1
       DEF Step, RecheckTag, RecheckMain, RecheckList, CreateTagCheck, CreateDraft, Settle,
           UploadAsset, Inspect, FinalTag, FinalMain, FinalList, Patch, Confirm, Retag,
           Verify, VerifyAssets, Cleanup, Delete, Abort, Kill, Gate, Poll, Goto
  <2>2. ~Environment /\ ~UNCHANGED vars
    BY <1>2 DEF Environment, LatePatchLands, TagSettles, BecomesImmutable, AttestationWritten,
                DigestComputed, TagMoves, MainMoves, vars, locals
  <2> QED
    BY <2>1, <2>2 DEF Next
<1>3. ASSUME Step(r) \/ Abort(r) \/ Kill(r)
      PROVE  /\ pc[r] \in BeforeFinalTag /\ ~TagIsCommit =>
                  pc'[r] \in BeforeFinalTag \cup Trap \cup (Ended \ {"succeeded"})
             /\ pc[r] \in BeforeFinalTag \cup {"final_main"} /\ ~MainContains =>
                  pc'[r] \in BeforeFinalTag \cup {"final_main"} \cup Trap \cup (Ended \ {"succeeded"})
  BY <1>1, <1>3
     DEF Step, RecheckTag, RecheckMain, RecheckList, CreateTagCheck, CreateDraft, Settle,
         UploadAsset, Inspect, FinalTag, FinalMain, FinalList, Patch, Confirm, Retag,
         Verify, VerifyAssets, Cleanup, Delete, Abort, Kill, Gate, Poll, Goto,
         BeforeFinalTag, BeforeDraft, Filling, Trap, Ended
<1> QED
  BY <1>2, <1>3

\* A tag or a main that is stale while the draft is filled and inspected, and
\* stays so, keeps the run's draft from becoming public for ever.
THEOREM StaleIsWithdrawn == Spec => NoStalePublication
<1> SUFFICES ASSUME NEW r \in Runs
             PROVE  Spec => /\ []((pc[r] \in BeforeFinalTag /\ [](tag # "commit"))
                                    => NeverPublishes(r))
                            /\ []((pc[r] \in BeforeFinalTag \cup {"final_main"} /\ []~MainContains)
                                    => NeverPublishes(r))
  BY DEF NoStalePublication
<1> DEFINE Public == \A i \in PublishedIds : Candidate(i) # r
<1> DEFINE Early == pc[r] \in BeforeFinalTag
<1> DEFINE Gated == pc[r] \in BeforeFinalTag \cup {"final_main"}
<1> DEFINE StaleTag == Withdrawn(r, BeforeFinalTag)
<1> DEFINE StaleMain == Withdrawn(r, BeforeFinalTag \cup {"final_main"})
<1>1. IInv /\ Early => StaleTag
  BY NotYetPublic
<1>2. IInv /\ Gated => StaleMain
  BY NotYetPublic
<1>3. IInv /\ [Next]_vars /\ StaleTag /\ tag # "commit" => StaleTag'
  BY WithdrawnStep, GateShut DEF TagIsCommit, BeforeFinalTag, BeforeDraft, Filling
<1>4. IInv /\ [Next]_vars /\ StaleMain /\ ~MainContains => StaleMain'
  BY WithdrawnStep, GateShut DEF BeforeFinalTag, BeforeDraft, Filling
<1>5. (StaleTag => Public) /\ (StaleMain => Public)
  BY DEF Withdrawn
<1> HIDE DEF Public, Early, Gated, StaleTag, StaleMain
<1>6. Spec => /\ []((Early /\ [](tag # "commit")) => []Public)
              /\ []((Gated /\ []~MainContains) => []Public)
  BY <1>1, <1>2, <1>3, <1>4, <1>5, Invariance, PTL DEF Spec
<1> QED
  BY <1>6 DEF Public, Early, Gated, NeverPublishes

-----------------------------------------------------------------------------
(* Refinement *)

\* Nothing but a public release is immutable.
SealedIsPublic == \A i \in Ids : release[i].sealed => release[i].status = "published"

\* That holds too where a PATCH takes effect before its client gives up or not
\* at all: no step takes a public release back.
LEMMA SealedInvariance ==
    ASSUME LatePatch = FALSE
    PROVE  Spec => []SealedIsPublic
<1>1. Init => SealedIsPublic
  BY DEF Init, Unused, SealedIsPublic
<1>2. IInv /\ SealedIsPublic /\ [Next]_vars => SealedIsPublic'
  <2> SUFFICES ASSUME IInv, SealedIsPublic, [Next]_vars, NEW i \in Ids, release'[i].sealed
               PROVE  release'[i].status = "published"
    BY DEF SealedIsPublic
  <2>1. release[i].status = "published"
    BY ReleaseSteps DEF SealedIsPublic, BecomesImmutable
  <2> QED
    BY <2>1, PublicKept DEF PublishedIds
<1> QED
  BY <1>1, <1>2, Invariance, PTL DEF Spec

\* A run reports success at its last line, once.
LEMMA SuccessStep ==
    ASSUME IInv, [Next]_vars, NEW r \in Runs
    PROVE  /\ pc[r] = "succeeded" => pc'[r] = "succeeded"
           /\ pc'[r] = "succeeded" /\ pc[r] # "succeeded" => VerifyAssets(r)
<1>1. pc \in [Runs -> Script \cup Trap \cup Ended]
  BY DEF IInv, TypeOK
<1>2. ASSUME NEW s \in Runs, Step(s) \/ Abort(s) \/ Kill(s)
      PROVE  /\ pc[r] = "succeeded" => pc'[r] = "succeeded"
             /\ pc'[r] = "succeeded" /\ pc[r] # "succeeded" => VerifyAssets(r)
  BY <1>1, <1>2
     DEF Step, RecheckTag, RecheckMain, RecheckList, CreateTagCheck, CreateDraft, Settle,
         UploadAsset, Inspect, FinalTag, FinalMain, FinalList, Patch, Confirm, Retag,
         Verify, VerifyAssets, Cleanup, Delete, Abort, Kill, Gate, Poll, Goto,
         Script, Trap
<1>3. CASE Environment \/ UNCHANGED vars
  BY <1>3 DEF Environment, LatePatchLands, TagSettles, BecomesImmutable, AttestationWritten,
              DigestComputed, TagMoves, MainMoves, vars, locals
<1> QED
  BY <1>2, <1>3 DEF Next

\* The state a reader sees in a state of the scripts: nothing public and nothing
\* announced, or one release, its owner, and that owner's success.
Visible ==
    \/ PublishedIds = {} /\ owner = NoId /\ ~sealed /\ announced = {}
    \/ \E i \in Ids :
         /\ PublishedIds = {i} /\ owner = release[i].maker /\ owner \in Runs
         /\ owner # NoId
         /\ sealed = release[i].sealed
         /\ announced \subseteq {owner}
         /\ announced # {} => sealed

\* The invariant allows a reader no other state.
LEMMA Seen == IInv => Visible
<1> SUFFICES ASSUME IInv PROVE Visible
  OBVIOUS
<1>1. AtMostOnePublished
  BY ExclusionHolds
<1>2. /\ \A r \in announced : rid[r] \in PublishedIds /\ Candidate(rid[r]) = r
      /\ \A r \in announced : release[rid[r]].sealed
  <2> SUFFICES ASSUME NEW r \in announced
               PROVE  /\ rid[r] \in PublishedIds /\ Candidate(rid[r]) = r
                      /\ release[rid[r]].sealed
    OBVIOUS
  <2>1. r \in Runs /\ pc[r] = "succeeded" /\ LineInv(r) /\ OwnInv(r)
    BY DEF announced, IInv
  <2> QED
    BY <2>1, ConstantsAssumption DEF LineInv, OwnInv, AfterPatch, PublishedIds, IInv, TypeOK
<1>3. CASE PublishedIds = {}
  BY <1>2, <1>3 DEF owner, sealed, Visible
<1>4. ASSUME NEW i \in PublishedIds
      PROVE  Visible
  <2>1. PublishedIds = {i} /\ i \in Ids
    BY <1>1, <1>4 DEF AtMostOnePublished, PublishedIds
  <2>2. owner = release[i].maker
    BY <2>1 DEF owner, Candidate
  <2>3. release[i].maker \in Runs
    BY <2>1 DEF IInv, ReleaseInv, Candidate, PublishedIds
  <2>4. release[i].sealed \in BOOLEAN
    BY <2>1 DEF IInv, TypeOK, Release
  <2>5. sealed = release[i].sealed
    BY <2>1, <2>4 DEF sealed
  <2>6. announced \subseteq {owner}
    BY <1>2, <2>1, <2>2 DEF Candidate
  <2>7. announced # {} => sealed
    BY <1>2, <2>1, <2>5
  <2> QED
    BY <2>1, <2>2, <2>3, <2>5, <2>6, <2>7, ConstantsAssumption DEF Visible
<1> QED
  BY <1>3, <1>4

\* Every step of the scripts, of GitHub and of the maintainers is a step of the
\* promise or leaves what a reader sees as it is.
LEMMA ContractStep ==
    ASSUME LatePatch = FALSE, IInv, Visible, Visible', SealedIsPublic, [Next]_vars
    PROVE  [Contract!Next]_<<owner, sealed, announced>>
<1>0. sealed \in BOOLEAN /\ sealed' \in BOOLEAN
  BY DEF sealed
<1>1. PublishedIds \subseteq PublishedIds'
  BY PublicKept DEF PublishedIds
<1>2. announced \subseteq announced'
  BY SuccessStep DEF announced
<1>3. CASE PublishedIds' = {}
  <2>1. PublishedIds = {}
    BY <1>1, <1>3
  <2> QED
    BY <1>0, <1>3, <2>1 DEF Visible
<1>4. ASSUME PublishedIds = {}, NEW i \in Ids, PublishedIds' = {i}
      PROVE  Contract!Next
  <2>1. owner = NoId /\ ~sealed /\ announced = {}
    BY <1>4 DEF Visible
  <2>2. ~release[i].sealed /\ release[i].status # "published"
    BY <1>4 DEF SealedIsPublic, PublishedIds
  <2>3. ~release'[i].sealed
    BY <2>2, ReleaseSteps DEF BecomesImmutable
  <2>4. owner' \in Runs /\ ~sealed' /\ announced' = {}
    BY <1>4, <2>3 DEF Visible
  <2> QED
    BY <1>0, <2>1, <2>4 DEF Contract!Next, Contract!MakePublic
<1>5. ASSUME NEW i \in Ids, PublishedIds = {i}, PublishedIds' = {i}
      PROVE  [Contract!Next]_<<owner, sealed, announced>>
  <2>1. /\ owner = release[i].maker /\ owner \in Runs /\ owner # NoId
        /\ sealed = release[i].sealed
        /\ announced \subseteq {owner} /\ (announced # {} => sealed)
    BY <1>5 DEF Visible
  <2>2. /\ owner' = release'[i].maker /\ sealed' = release'[i].sealed
        /\ announced' \subseteq {owner'} /\ (announced' # {} => sealed')
    BY <1>5 DEF Visible
  <2>3. owner' = owner /\ (sealed => sealed')
    BY <1>5, <2>1, <2>2, PublicKept
  <2>4. ASSUME announced' # announced
        PROVE  sealed /\ announced = {} /\ announced' = {owner} /\ UNCHANGED sealed
    <3>1. PICK r \in Runs : pc'[r] = "succeeded" /\ pc[r] # "succeeded"
      BY <1>2, <2>4 DEF announced
    <3>2. VerifyAssets(r)
      BY <3>1, SuccessStep
    <3>3. release[rid[r]].sealed /\ rid[r] \in Ids /\ release[rid[r]].status = "published"
      BY <3>2, KnownIds DEF IInv, LineInv, OwnInv, VerifyAssets, Poll, AfterPatch
    <3>4. sealed /\ sealed'
      BY <1>5, <2>1, <2>3, <3>3 DEF PublishedIds
    <3> QED
      BY <1>0, <1>2, <2>1, <2>2, <2>3, <2>4, <3>4
  <2>5. ASSUME announced' = announced
        PROVE  [Contract!Next]_<<owner, sealed, announced>>
    BY <1>0, <2>1, <2>3, <2>5 DEF Contract!Next, Contract!Seal
  <2> QED
    BY <2>3, <2>4, <2>5 DEF Contract!Next, Contract!Announce
<1> QED
  BY <1>1, <1>3, <1>4, <1>5 DEF Visible

\* The publish scripts implement what the release workflows promise of a tag:
\* one candidate becomes public, for good, and is announced by its own run after
\* it became immutable.
THEOREM Implements ==
    ASSUME LatePatch = FALSE
    PROVE  Spec => RefinesContract
<1>1. Init => Contract!Init
  <2> SUFFICES ASSUME Init PROVE Contract!Init
    OBVIOUS
  <2>1. PublishedIds = {}
    BY DEF Init, Unused, PublishedIds
  <2>2. announced = {}
    BY DEF Init, announced
  <2> QED
    BY <2>1, <2>2 DEF Contract!Init, owner, sealed
<1>2. IInv /\ Visible /\ Visible' /\ SealedIsPublic /\ [Next]_vars => [Contract!Next]_<<owner, sealed, announced>>
  BY ContractStep
<1> QED
  BY <1>1, <1>2, Seen, Invariance, SealedInvariance, PTL DEF Spec, RefinesContract, Contract!Spec

=============================================================================
