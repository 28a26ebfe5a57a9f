----------------------------- MODULE AuditProofs -----------------------------
(***************************************************************************)
(* The live audit of the canaries, for any families, policy history, tags,  *)
(* rulesets, page sizes and any sequence of changes and failed reads; and   *)
(* the gates on main, for any component, trees, renames and listing limit.  *)
(***************************************************************************)
EXTENDS Audits, FiniteSetTheorems, FunctionTheorems, SequenceTheorems,
        WellFoundedInduction, TLAPS

-----------------------------------------------------------------------------
(* Sequences.                                                                *)

LEMMA FunctionIsSeq ==
  ASSUME NEW n \in Nat, NEW S, NEW f \in [1 .. n -> S]
  PROVE  f \in Seq(S) /\ Len(f) = n
OBVIOUS

LEMMA HeadAndTail ==
  ASSUME NEW S, NEW s \in Seq(S), s # <<>>
  PROVE  /\ 1 \in DOMAIN s /\ Head(s) = s[1] /\ s[1] \in S
         /\ Len(s) # 1 => /\ Tail(s) \in Seq(S) /\ Tail(s) # <<>>
                          /\ \A i \in DOMAIN Tail(s) :
                                 i + 1 \in DOMAIN s /\ Tail(s)[i] = s[i + 1]
<1>1. Len(s) \in Nat \ {0} /\ DOMAIN s = 1 .. Len(s)  BY EmptySeq, LenProperties
<1>2. Tail(s) \in Seq(S) /\ Len(Tail(s)) = Len(s) - 1  BY HeadTailProperties
<1>3. Len(s) # 1 => Tail(s) # <<>>
  <2>1. Tail(s) = <<>> => Len(Tail(s)) = 0  BY EmptySeq
  <2>2. QED  BY <1>1, <1>2, <2>1
<1>4. \A i \in DOMAIN Tail(s) : i + 1 \in DOMAIN s /\ Tail(s)[i] = s[i + 1]
  <2>1. DOMAIN Tail(s) = 1 .. Len(Tail(s))  BY <1>2, LenProperties
  <2>2. \A i \in 1 .. Len(Tail(s)) : Tail(s)[i] = s[i + 1]  BY HeadTailProperties
  <2>3. QED  BY <1>1, <1>2, <2>1, <2>2
<1>5. QED  BY <1>1, <1>2, <1>3, <1>4

-----------------------------------------------------------------------------
(* The inductive invariant of the audit.                                     *)

\* An error, once in the report, stays there until the audit ends.
ReportInv ==
    /\ DOMAIN audit = DOMAIN Idle
    /\ audit.failing \in BOOLEAN /\ audit.unseen \in BOOLEAN /\ faulted \in BOOLEAN
    /\ audit.pc # "Done" => exit = NONE
    /\ faulted => audit.failing
    /\ NoPassOverFailedRead

\* A ruleset was read, and the tags are locked ever since.
Trusted == POLICY \notin loosened /\ ~audit.unseen

\* Tags read under the lock are still where they were read; one that was found
\* to reach the pin still does.
LockInv ==
    /\ policy \in PolicyStates
    /\ audit.pc \in {"Tags", "TagCompare", "Tree", "History"} /\ Trusted => Locked(POLICY)
    /\ held # {} => Locked(POLICY)
    /\ audit.pc = "TagCompare" =>
           /\ audit.todo \in Seq(TagRecords)
           /\ audit.todo # <<>>
           /\ Trusted => \A i \in DOMAIN audit.todo :
                  policy.tags[audit.todo[i].name] = audit.todo[i].sha
    /\ audit.pc \in {"Tree", "History"} /\ Trusted => Admits(audit.admitting, entry.pin)
    /\ AdmittedPinStaysReachable
\* The manifest was taken, and the audit has not been refused.
Running == audit.pc # "Start" /\ exit # 1

\* What a consumer has stays in order, and a tag that was not locked is known.
WorldInv ==
    /\ time \in Nat /\ estate \in [Families -> Consumers]
    /\ \A f \in Families : InOrder(estate[f], time)
    /\ Running => /\ audit.now \in Nat /\ audit.now <= time
                  /\ \A f \in Families : Locked(f) \/ f \in loosened

\* The checks of one canary that come before its run is read, and after the
\* releases of its consumer are.
OfPolicy == audit.pc \in {"Rulesets", "Ruleset"} /\ audit.repo = POLICY
Early == audit.pc \in {"Pin", "Compare", "Tags", "TagCompare", "Tree", "History", "Run"} \/ OfPolicy
OfConsumer == audit.pc \in {"Rulesets", "Ruleset"} /\ audit.repo # POLICY
Late == audit.pc \in {"Runs", "Current", "Finish"} \/ OfConsumer

\* Where the audit is in the manifest.
PositionInv ==
    Running =>
        /\ audit.rest \in Seq(Range(manifest.families))
        /\ \A e \in Range(manifest.families) : e.family \in Families
        /\ audit.pc \in {"Render", "Done"} <=> audit.rest = <<>>
        /\ Early => ~audit.expired
        /\ OfConsumer => audit.repo = family /\ family \in ReleaseFamilies
        /\ audit.pc \in {"Release", "TagCommit", "Provenance", "Releases"} =>
               family \in ReleaseFamilies
        /\ audit.pc = "Current" => family \notin ReleaseFamilies
        /\ audit.pc \in {"Releases", "Runs"} => audit.page \in Nat \ {0}
        /\ audit.pc # "Releases" => audit.gathered = {}
        /\ Early \/ Late \/ audit.pc \in {"Release", "TagCommit", "Provenance", "Releases",
                                          "Render", "Done"}

\* The run with the recorded number, if there is one, started when recorded, and
\* there will be no other.
Matched(e) ==
    /\ e.run \in Nat /\ e.run < time + 10
    /\ \A r \in RunsNamed(e.family, e.run) : r.started = e.started

\* What was gathered so far of the releases that were published in time: all of
\* the pages read, wherever they have moved since, and nothing else.
Gathered(e) ==
    LET releases == estate[e.family].releases
        Same(g, r) == ~g.draft /\ ~r.draft /\ g.tag = r.tag /\ g.published = r.published IN
    /\ audit.gathered \subseteq ReleaseRecords
    /\ \A i \in DOMAIN releases :
           /\ i <= (audit.page - 1) * PageSize
           /\ ~releases[i].draft /\ releases[i].published <= audit.now
           => \E g \in audit.gathered : Same(g, releases[i])
    /\ \A g \in audit.gathered : ~g.draft => \E r \in Range(releases) : Same(g, r)

\* No success that counts is on the pages read.
NoneSoFar(e) ==
    \A r \in RelevantRuns(Successes(e.family), e) :
       Place(e.family, r) <= (audit.page - 1) * PageSize => r.finished > audit.now

\* What the canary's checks have shown when they got this far.
Progress(e) ==
    /\ Late \/ audit.pc \in {"Release", "TagCommit", "Provenance", "Releases"} =>
           IF audit.expired THEN HasExpired(e, audit.now) ELSE Matched(e)
    /\ audit.pc \in {"TagCommit", "Provenance"} =>
           \E r \in ReleasesAt(e.family, e.ref) : r.immutable
    /\ audit.pc = "Provenance" =>
           \E r \in ReleasesAt(e.family, e.ref) : e.family \in loosened \/ r.at = e.head
    /\ audit.pc = "Releases" => Gathered(e)
    /\ e.family \in ReleaseFamilies =>
           /\ Late \/ audit.pc = "Releases" => Holds(e)
           /\ Late => NewestRelease(e)
           /\ audit.pc = "Finish" => NewestRun(e)
    /\ audit.pc = "Runs" => NoneSoFar(e)
    /\ audit.pc \in {"Current", "Finish"} /\ e.family \notin ReleaseFamilies =>
           NewestVerification(e)

ProgressInv == Running /\ ~audit.failing /\ audit.rest # <<>> => Progress(entry)

\* A canary that was checked is what the report says.
IsSound(e) ==
    IF e.family \in ReleaseFamilies THEN Holds(e) /\ NewestRelease(e) /\ NewestRun(e)
    ELSE NewestVerification(e)

PassInv ==
    Running /\ ~audit.failing =>
        \A e \in Range(manifest.families) : e \in Range(audit.rest) \/ IsSound(e)

\* What the audit begins with, and that it never ends well over an error.
EndsInv ==
    /\ audit.pc = "Start" => audit = Idle /\ manifest \in Manifests
    /\ exit = 0 => audit.pc = "Done" /\ ~audit.failing

IInv == ReportInv /\ LockInv /\ WorldInv /\ PositionInv /\ ProgressInv /\ PassInv /\ EndsInv

-----------------------------------------------------------------------------
(* A failed read stays in the report.                                        *)

LEMMA ReportInit == CanaryAssumption /\ Init => ReportInv
<1> SUFFICES ASSUME CanaryAssumption, Init PROVE ReportInv  OBVIOUS
<1>1. audit = Idle /\ exit = NONE /\ faulted = FALSE  BY DEF Init
<1>2. audit.failing = FALSE /\ audit.unseen = FALSE  BY <1>1 DEF Idle
<1>3. NONE # 0  BY DEF CanaryAssumption
<1>4. QED  BY <1>1, <1>2, <1>3 DEF ReportInv, NoPassOverFailedRead

\* What a read, the end of a canary, or a change of the world must respect.
LEMMA ReportKept ==
  ASSUME ReportInv, DOMAIN audit' = DOMAIN audit, exit' = exit,
         audit.pc # "Done" \/ audit' = audit, audit'.failing \in BOOLEAN, audit'.unseen \in BOOLEAN,
         \/ faulted' = faulted /\ (audit.failing => audit'.failing)
         \/ faulted' = TRUE /\ audit'.failing /\ audit.pc # "Done",
         NONE # 0
  PROVE  ReportInv'
<1>1. DOMAIN audit' = DOMAIN Idle  BY DEF ReportInv
<1>2. faulted \in BOOLEAN /\ faulted' \in BOOLEAN  BY DEF ReportInv
<1>3. audit'.pc # "Done" => exit' = NONE  BY DEF ReportInv
<1>4. faulted' => audit'.failing  BY <1>2 DEF ReportInv
<1>5. exit' = 0 => ~faulted'  BY <1>2 DEF ReportInv, NoPassOverFailedRead
<1>6. QED  BY <1>1, <1>2, <1>3, <1>4, <1>5 DEF ReportInv, NoPassOverFailedRead

\* A next value of the audit that takes nothing back.
Honest(a) ==
    /\ DOMAIN a = DOMAIN Idle /\ a.failing \in BOOLEAN /\ a.unseen \in BOOLEAN
    /\ audit.failing => a.failing

LEMMA HonestValues ==
  ASSUME ReportInv, NEW pc, NEW condition
  PROVE  /\ Honest(audit)
         /\ Honest(At(pc)) /\ At(pc).pc = pc /\ At(pc).unseen = audit.unseen
         /\ At(pc).rest = audit.rest /\ At(pc).todo = audit.todo
         /\ Honest(Error(At(pc))) /\ Error(At(pc)).pc = pc /\ Error(At(pc)).failing = TRUE
         /\ Honest(Checked(condition, At(pc))) /\ Checked(condition, At(pc)).pc = pc
<1>1. Honest(audit)  BY DEF ReportInv, Honest
<1>2. DOMAIN At(pc) = DOMAIN Idle /\ At(pc).pc = pc /\ At(pc).failing = audit.failing
      /\ At(pc).unseen = audit.unseen /\ At(pc).rest = audit.rest /\ At(pc).todo = audit.todo
  BY DEF ReportInv, Idle, At
<1>3. DOMAIN Error(At(pc)) = DOMAIN Idle /\ Error(At(pc)).pc = pc
      /\ Error(At(pc)).failing = TRUE /\ Error(At(pc)).unseen = audit.unseen
  BY <1>2 DEF Error, Idle
<1>4. QED  BY <1>1, <1>2, <1>3 DEF Honest, Checked

LEMMA UnreadReport ==
  ASSUME ReportInv, NONE # 0, NEW from, NEW pc, Reading(from), Unread(pc), from # "Done"
  PROVE  ReportInv' /\ audit'.pc = pc /\ UNCHANGED <<policy, held, loosened>>
<1>1. audit' = Error(At(pc)) /\ faulted' = TRUE  BY DEF Unread
<1>2. exit' = exit /\ audit.pc = from /\ UNCHANGED <<policy, held, loosened>>
  BY DEF Reading, Unread
<1>3. Honest(audit') /\ audit'.pc = pc /\ audit'.failing = TRUE
  BY <1>1, HonestValues
<1>4. QED  BY <1>1, <1>2, <1>3, ReportKept DEF Honest, ReportInv

LEMMA ContinueReport ==
  ASSUME ReportInv, NONE # 0, NEW from, NEW a, Reading(from), Continue(a), from # "Done",
         Honest(a)
  PROVE  ReportInv' /\ audit' = a /\ UNCHANGED <<policy, held, loosened>>
<1>1. audit' = a /\ faulted' = faulted /\ exit' = exit /\ audit.pc = from
      /\ UNCHANGED <<policy, held, loosened>>
  BY DEF Continue, Reading
<1>2. DOMAIN audit' = DOMAIN audit  BY <1>1 DEF ReportInv, Honest
<1>3. QED  BY <1>1, <1>2, ReportKept DEF Honest

LEMMA QuietLock ==
  ASSUME LockInv, UNCHANGED <<policy, held>>,
         audit'.pc \notin {"Tags", "TagCompare", "Tree", "History"}
  PROVE  LockInv'
<1>1. Locked(POLICY)' <=> Locked(POLICY)  BY DEF Locked, Stops, RulesetsOf
<1>2. AdmittedPinStaysReachable'  BY DEF LockInv, AdmittedPinStaysReachable, Admits
<1>3. QED  BY <1>1, <1>2 DEF LockInv

\* A read that goes on to a step outside the admission by a tag.
QuietPc(pc) == pc \notin {"Tags", "TagCompare", "Tree", "History"}
Inv == ReportInv /\ LockInv

LEMMA QuietUnread ==
  ASSUME Inv, NONE # 0, NEW from, NEW pc, Reading(from), Unread(pc), from # "Done", QuietPc(pc)
  PROVE  Inv'
BY UnreadReport, QuietLock DEF Inv, QuietPc

LEMMA QuietContinue ==
  ASSUME Inv, NONE # 0, NEW from, NEW a, Reading(from), Continue(a), from # "Done",
         Honest(a), QuietPc(a.pc)
  PROVE  Inv'
BY ContinueReport, QuietLock DEF Inv, QuietPc

LEMMA PinInv == ASSUME Inv, NONE # 0, ReadPin PROVE Inv'
<1> DEFINE a == Checked(ExtractPin(family) = entry.pin, At("Compare"))
<1>1. Honest(a) /\ a.pc = "Compare"  BY HonestValues DEF Inv
<1> HIDE DEF a
<1>2. Reading("Pin") /\ (Unread("Compare") \/ Continue(a))  BY DEF ReadPin, a
<1>3. QED  BY <1>1, <1>2, QuietUnread, QuietContinue DEF QuietPc

LEMMA CompareInv == ASSUME Inv, NONE # 0, ReadCompare PROVE Inv'
<1> DEFINE b == [At("Rulesets") EXCEPT !.repo = POLICY]
           a == IF CompareStatus(policy.main, entry.pin) \in ReachableStatuses
                THEN At("Run") ELSE b
<1>1. Honest(b) /\ b.pc = "Rulesets"  BY HonestValues DEF Inv, Honest, Idle
<1>2. Honest(At("Run")) /\ At("Run").pc = "Run"  BY HonestValues DEF Inv
<1> HIDE DEF b
<1>3. Honest(a) /\ QuietPc(a.pc)  BY <1>1, <1>2 DEF QuietPc
<1> HIDE DEF a
<1>4. Reading("Compare") /\ (Unread("Run") \/ Continue(a))  BY DEF ReadCompare, a, b
<1>5. QED  BY <1>3, <1>4, QuietUnread, QuietContinue DEF QuietPc

LEMMA AfterRulesetsIsQuiet == QuietPc(AfterRulesets(FALSE))
BY DEF AfterRulesets, QuietPc

LEMMA RulesetsInv == ASSUME Inv, NONE # 0, ReadRulesets PROVE Inv'
<1> DEFINE active == SelectSeq(RulesetsOf(audit.repo), LAMBDA r : r.enforcement = "active")
           b == [At("Ruleset") EXCEPT !.todo = [i \in DOMAIN active |-> active[i].id]]
           e == Error(At(AfterRulesets(FALSE)))
           a == IF active = <<>> THEN e ELSE b
<1>1. Reading("Rulesets") /\ (Unread(AfterRulesets(FALSE)) \/ Continue(a))
  BY DEF ReadRulesets
<1> HIDE DEF active
<1>2. Honest(b) /\ b.pc = "Ruleset"  BY HonestValues DEF Inv, Honest, Idle
<1>3. Honest(e) /\ e.pc = AfterRulesets(FALSE)  BY HonestValues DEF Inv
<1> HIDE DEF b, e
<1>4. Honest(a) /\ QuietPc(a.pc)  BY <1>2, <1>3, AfterRulesetsIsQuiet DEF QuietPc
<1> HIDE DEF a
<1>5. QED  BY <1>1, <1>4, AfterRulesetsIsQuiet, QuietUnread, QuietContinue

LEMMA RunInv == ASSUME Inv, NONE # 0, ReadRun PROVE Inv'
<1> DEFINE next == IF family \in ReleaseFamilies THEN "Release" ELSE "Runs"
           a(r) == Checked(RunMatches(r, entry), At(next))
           b == [At(next) EXCEPT !.expired = TRUE]
           c == IF HasExpired(entry, audit.now) THEN b ELSE Error(At(next))
<1>1. QuietPc(next)  BY DEF QuietPc
<1>2. /\ Reading("Run")
      /\ Unread(next) \/ (\E r : Continue(a(r))) \/ Continue(c)
  BY DEF ReadRun
<1> HIDE DEF next
<1>3. ASSUME NEW r PROVE Honest(a(r)) /\ a(r).pc = next  BY HonestValues DEF Inv
<1>4. Honest(b) /\ b.pc = next  BY HonestValues DEF Inv, Honest, Idle
<1>5. Honest(Error(At(next))) /\ Error(At(next)).pc = next  BY HonestValues DEF Inv
<1> HIDE DEF a, b
<1>6. Honest(c) /\ c.pc = next  BY <1>4, <1>5
<1> HIDE DEF c
<1>7. QED  BY <1>1, <1>2, <1>3, <1>6, QuietUnread, QuietContinue

LEMMA ReleaseInv ==
  ASSUME Inv, NONE # 0, ReadRelease \/ ReadTagCommit \/ ReadProvenance
  PROVE  Inv'
<1>1. \A pc : /\ Honest(At(pc)) /\ At(pc).pc = pc
              /\ Honest(Error(At(pc))) /\ Error(At(pc)).pc = pc
  BY HonestValues DEF Inv
<1>2. CASE ReadRelease
  <2>1. /\ Reading("Release")
        /\ Unread("Releases") \/ Continue(Error(At("Releases"))) \/ Continue(At("TagCommit"))
    BY <1>2 DEF ReadRelease
  <2>2. QED  BY <1>1, <2>1, QuietUnread, QuietContinue DEF QuietPc
<1>3. CASE ReadTagCommit
  <2>1. /\ Reading("TagCommit")
        /\ Unread("Releases") \/ Continue(Error(At("Releases"))) \/ Continue(At("Provenance"))
    BY <1>3 DEF ReadTagCommit
  <2>2. QED  BY <1>1, <2>1, QuietUnread, QuietContinue DEF QuietPc
<1>4. CASE ReadProvenance
  <2> DEFINE a(r) == Checked(ProvenanceHolds(r, entry), At("Releases"))
  <2>1. Reading("Provenance") /\ (Unread("Releases") \/ \E r : Continue(a(r)))
    BY <1>4 DEF ReadProvenance
  <2>2. ASSUME NEW r PROVE Honest(a(r)) /\ a(r).pc = "Releases"  BY HonestValues DEF Inv
  <2> HIDE DEF a
  <2>3. QED  BY <2>1, <2>2, QuietUnread, QuietContinue DEF QuietPc
<1>5. QED  BY <1>2, <1>3, <1>4

LEMMA ReleasesInv == ASSUME Inv, NONE # 0, ReadReleases PROVE Inv'
<1> DEFINE page == Page(estate[family].releases, audit.page)
           gathered == audit.gathered \cup Range(page)
           after == [At("Rulesets") EXCEPT !.repo = family, !.gathered = {}]
           more == [audit EXCEPT !.page = @ + 1, !.gathered = gathered]
           fresh == Checked(IsFresh(gathered, entry), after)
           a == IF Len(page) < PageSize THEN fresh
                ELSE IF audit.page = MaxRunPages THEN Error(after) ELSE more
<1>1. /\ Reading("Releases")
      /\ \/ changes < MaxChanges /\ changes' = changes + 1 /\ faulted' = TRUE
            /\ audit' = Error(after) /\ UNCHANGED <<loosened, held>>
         \/ Continue(a)
  BY DEF ReadReleases
<1> HIDE DEF page, gathered
<1>2. Honest(after) /\ after.pc = "Rulesets"  BY HonestValues DEF Inv, Honest, Idle
<1>3. audit.pc = "Releases" => Honest(more) /\ more.pc = "Releases"
  BY HonestValues DEF Inv, Honest, Idle
<1> HIDE DEF after, more
<1>4. Honest(Error(after)) /\ Error(after).pc = "Rulesets" /\ Error(after).failing = TRUE
  BY <1>2 DEF Honest, Error, Idle
<1>5. Honest(fresh) /\ fresh.pc = "Rulesets"  BY <1>2, <1>4 DEF Checked
<1> HIDE DEF fresh
<1>6. audit.pc = "Releases" => Honest(a) /\ QuietPc(a.pc)  BY <1>3, <1>4, <1>5 DEF QuietPc
<1> HIDE DEF a
<1>7. audit.pc = "Releases" /\ exit' = exit /\ policy' = policy  BY <1>1 DEF Reading
<1>8. CASE Continue(a)  BY <1>1, <1>6, <1>7, <1>8, QuietContinue
<1>9. CASE faulted' = TRUE /\ audit' = Error(after) /\ UNCHANGED <<loosened, held>>
  <2>1. ReportInv'  BY <1>4, <1>7, <1>9, ReportKept DEF Honest, Inv, ReportInv
  <2>2. LockInv'  BY <1>4, <1>7, <1>9, QuietLock DEF Inv
  <2>3. QED  BY <2>1, <2>2 DEF Inv
<1>10. QED  BY <1>1, <1>8, <1>9

LEMMA RunsInv == ASSUME Inv, NONE # 0, ReadRuns PROVE Inv'
<1> DEFINE page == SuccessPage(family, audit.page)
           current(r) == [At("Current") EXCEPT !.latest = r]
           checked(r) == Checked(r.id = entry.run, At("Finish"))
           found(r) == IF family \in ReleaseFamilies THEN checked(r)
                       ELSE IF ReferencedPolicySha(r) # entry.pin THEN Error(At("Finish"))
                       ELSE IF ~audit.expired THEN At("Finish")
                       ELSE IF IsUsable(r, entry) THEN current(r) ELSE Error(At("Finish"))
           more == [audit EXCEPT !.page = @ + 1]
           none == IF Cardinality(page) < PageSize \/ audit.page = MaxRunPages
                   THEN Error(At("Finish")) ELSE more
<1>1. /\ Reading("Runs")
      /\ Unread("Finish") \/ (\E r : Continue(found(r))) \/ Continue(none)
  BY DEF ReadRuns
<1>2. /\ Honest(At("Finish")) /\ At("Finish").pc = "Finish"
      /\ Honest(Error(At("Finish"))) /\ Error(At("Finish")).pc = "Finish"
  BY HonestValues DEF Inv
<1>3. \A r : Honest(current(r)) /\ current(r).pc = "Current"
  BY HonestValues DEF Inv, Honest, Idle
<1>4. ASSUME NEW r PROVE Honest(checked(r)) /\ checked(r).pc = "Finish"
  BY HonestValues DEF Inv
<1>5. Honest(more) /\ more.pc = audit.pc  BY HonestValues DEF Inv, Honest, Idle
<1> HIDE DEF page, current, checked, more
<1>6. \A r : Honest(found(r)) /\ QuietPc(found(r).pc)  BY <1>2, <1>3, <1>4 DEF QuietPc
<1>7. Honest(none) /\ QuietPc(none.pc)  BY <1>1, <1>2, <1>5 DEF QuietPc, Reading
<1> HIDE DEF found, none
<1>8. QED  BY <1>1, <1>6, <1>7, QuietUnread, QuietContinue DEF QuietPc

LEMMA CurrentInv == ASSUME Inv, NONE # 0, ReadCurrent PROVE Inv'
<1> DEFINE a == Checked(\E r \in RunsNamed(family, audit.latest.id) :
                            ReplacesExpired(r, audit.latest, entry), At("Finish"))
<1>1. Honest(a) /\ a.pc = "Finish"  BY HonestValues DEF Inv
<1>2. Reading("Current") /\ (Unread("Finish") \/ Continue(a))  BY DEF ReadCurrent
<1> HIDE DEF a
<1>3. QED  BY <1>1, <1>2, QuietUnread, QuietContinue DEF QuietPc

LEMMA FinishInv == ASSUME Inv, NONE # 0, Finish PROVE Inv'
<1> DEFINE next == IF Len(audit.rest) = 1 THEN "Render" ELSE "Pin"
           a == [At(next) EXCEPT
                    !.rest = Tail(audit.rest), !.expired = FALSE, !.latest = NONE,
                    !.repo = POLICY, !.admitting = NONE, !.unseen = FALSE,
                    !.warned = @ \/ (family \in ReleaseFamilies /\ entry.policy # entry.pin),
                    !.todo = <<>>]
<1>1. Reading("Finish") /\ Continue(a)  BY DEF Finish
<1>2. QuietPc(next)  BY DEF QuietPc
<1> HIDE DEF next
<1>3. Honest(a) /\ a.pc = next  BY HonestValues DEF Inv, Honest, Idle
<1> HIDE DEF a
<1>4. QED  BY <1>1, <1>2, <1>3, QuietContinue

\* The audit begins, or ends.
LEMMA EndsLocks == ASSUME Inv, NONE # 0, Start \/ Abort \/ Render PROVE Inv'
<1>1. /\ faulted' = faulted /\ policy' = policy /\ held' = held
      /\ audit.pc # "Done" /\ exit = NONE
  BY DEF Start, Abort, Render, Inv, ReportInv
<1>2. /\ DOMAIN audit' = DOMAIN Idle /\ audit'.failing = audit.failing
      /\ audit'.unseen = audit.unseen /\ audit'.pc \in {"Pin", "Done"}
      /\ audit'.pc = "Pin" => exit' = exit
      /\ exit' = 0 => ~audit.failing
  <2>1. DOMAIN audit = DOMAIN Idle  BY DEF Inv, ReportInv
  <2>2. CASE Start
    <3>1. CASE LoadManifest(manifest)
      <4> DEFINE a == [At("Pin") EXCEPT !.rest = manifest.families, !.now = time]
      <4>1. audit' = a /\ exit' = exit  BY <2>2, <3>1 DEF Start
      <4>2. DOMAIN a = DOMAIN Idle /\ a.failing = audit.failing /\ a.unseen = audit.unseen
            /\ a.pc = "Pin"
        BY <2>1 DEF At, Idle
      <4>3. QED  BY <1>1, <4>1, <4>2
    <3>2. CASE ~LoadManifest(manifest)
      <4>1. audit' = [audit EXCEPT !.pc = "Done"] /\ exit' = 1  BY <2>2, <3>2 DEF Start
      <4>2. QED  BY <2>1, <4>1 DEF Idle
    <3>3. QED  BY <3>1, <3>2
  <2>3. CASE Abort \/ Render
    <3>1. audit' = At("Done") /\ (exit' = 0 => ~audit.failing)
      BY <2>3 DEF Abort, Render
    <3>2. QED  BY <2>1, <3>1 DEF At, Idle
  <2>4. QED  BY <2>2, <2>3
<1>3. ReportInv'  BY <1>1, <1>2 DEF Inv, ReportInv, NoPassOverFailedRead
<1>4. LockInv'  BY <1>1, <1>2, QuietLock DEF Inv
<1>5. QED  BY <1>3, <1>4 DEF Inv

-----------------------------------------------------------------------------
(* The admission of a pin by a locked tag.                                   *)

\* A ruleset the audit accepts with an empty bypass list really locks the tags.
LEMMA ProtectsIsLocked ==
  ASSUME NEW repo, NEW r \in Range(RulesetsOf(repo)), RulesetProtects(r), r.bypass # "unseen"
  PROVE  Locked(repo)
BY DEF RulesetProtects, Locked, Stops

LEMMA RulesetInv == ASSUME Inv, NONE # 0, ReadRuleset PROVE Inv'
<1> DEFINE current == { r \in Range(RulesetsOf(audit.repo)) : r.id = Head(audit.todo) }
           refused == Error(At(AfterRulesets(FALSE)))
           next == [audit EXCEPT !.todo = Tail(audit.todo)]
           other == IF Len(audit.todo) = 1 THEN refused ELSE next
           accepted(r) == [At(AfterRulesets(TRUE)) EXCEPT !.unseen = (r.bypass = "unseen")]
<1>1. /\ Reading("Ruleset")
      /\ \/ Unread(AfterRulesets(FALSE)) \/ Continue(other) \/ Continue(refused)
         \/ \E r \in current :
               /\ RulesetProtects(r) /\ audit' = accepted(r)
               /\ loosened' = IF audit.repo = POLICY THEN loosened \ {POLICY} ELSE loosened
               /\ UNCHANGED <<changes, faulted, held>>
  BY DEF ReadRuleset
<1>2. Honest(refused) /\ refused.pc = AfterRulesets(FALSE)  BY HonestValues DEF Inv
<1>3. Honest(next) /\ next.pc = audit.pc  BY HonestValues DEF Inv, Honest, Idle
<1>4. \A r : Honest(accepted(r)) /\ accepted(r).pc = AfterRulesets(TRUE)
             /\ accepted(r).unseen = (r.bypass = "unseen")
  BY HonestValues DEF Inv, Honest, Idle
<1> HIDE DEF refused, next, accepted
<1>5. Honest(other) /\ QuietPc(other.pc)
  BY <1>1, <1>2, <1>3, AfterRulesetsIsQuiet DEF QuietPc, Reading
<1> HIDE DEF other
<1>6. CASE Unread(AfterRulesets(FALSE)) \/ Continue(other) \/ Continue(refused)
  BY <1>1, <1>2, <1>5, <1>6, AfterRulesetsIsQuiet, QuietUnread, QuietContinue
<1>7. ASSUME NEW r \in current, RulesetProtects(r), audit' = accepted(r),
             loosened' = (IF audit.repo = POLICY THEN loosened \ {POLICY} ELSE loosened),
             UNCHANGED <<changes, faulted, held>>
      PROVE  Inv'
  <2>1. /\ audit.pc = "Ruleset" /\ exit' = exit /\ policy' = policy /\ estate' = estate
        /\ Honest(audit') /\ audit'.pc = AfterRulesets(TRUE)
        /\ audit'.unseen = (r.bypass = "unseen")
    BY <1>1, <1>4, <1>7 DEF Reading
  <2>2. ReportInv'  BY <1>7, <2>1, ReportKept DEF Honest, Inv, ReportInv
  <2>3. CASE audit.repo # POLICY
    <3>1. audit'.pc \notin {"Tags", "TagCompare", "Tree", "History"}
      BY <2>1, <2>3 DEF AfterRulesets
    <3>2. QED  BY <1>7, <2>1, <2>2, <3>1, QuietLock DEF Inv
  <2>4. CASE audit.repo = POLICY
    <3>1. audit'.pc = "Tags"  BY <2>1, <2>4 DEF AfterRulesets
    <3>2. r.bypass # "unseen" => Locked(POLICY)  BY <1>7, <2>4, ProtectsIsLocked
    <3>3. Locked(POLICY)' <=> Locked(POLICY)  BY <2>1 DEF Locked, Stops, RulesetsOf
    <3>4. AdmittedPinStaysReachable'
      BY <1>7, <2>1 DEF Inv, LockInv, AdmittedPinStaysReachable, Admits
    <3>5. LockInv'  BY <1>7, <2>1, <3>1, <3>2, <3>3, <3>4 DEF Inv, LockInv, Trusted
    <3>6. QED  BY <2>2, <3>5 DEF Inv
  <2>5. QED  BY <2>3, <2>4
<1>8. QED  BY <1>1, <1>6, <1>7

\* What a step of the admission keeps: it changes nothing but the audit.
LEMMA AdmissionKept ==
  ASSUME LockInv, UNCHANGED <<policy, held, loosened>>, audit'.unseen = audit.unseen,
         audit'.rest = audit.rest
  PROVE  /\ policy' \in PolicyStates /\ (Trusted' <=> Trusted) /\ entry' = entry
         /\ Locked(POLICY)' <=> Locked(POLICY)
         /\ (held # {} => Locked(POLICY))' /\ AdmittedPinStaysReachable'
         /\ \A tag, pin : Admits(tag, pin)' <=> Admits(tag, pin)
<1>1. Locked(POLICY)' <=> Locked(POLICY)  BY DEF Locked, Stops, RulesetsOf
<1>2. \A tag, pin : Admits(tag, pin)' <=> Admits(tag, pin)  BY DEF Admits
<1>3. AdmittedPinStaysReachable'
  BY DEF LockInv, AdmittedPinStaysReachable, Admits
<1>4. QED  BY <1>1, <1>2, <1>3 DEF LockInv, Trusted, entry

LEMMA TagsInv == ASSUME Inv, CanaryAssumption, ReadTags PROVE Inv'
<1> DEFINE there == { t \in PolicyTags : policy.tags[t] # NONE }
           listed(order) == [i \in DOMAIN order |->
                                [name |-> order[i], sha |-> policy.tags[order[i]]]]
           a(order) == [At("TagCompare") EXCEPT !.todo = listed(order)]
<1>1. /\ Reading("Tags")
      /\ \/ Unread("Run") \/ Continue(Error(At("Run")))
         \/ there # {} /\ \E order \in [1 .. Cardinality(there) -> there] : Continue(a(order))
  BY DEF ReadTags
<1>2. NONE # 0  BY DEF CanaryAssumption
<1>3. Honest(Error(At("Run"))) /\ Error(At("Run")).pc = "Run"  BY HonestValues DEF Inv
<1>4. CASE Unread("Run") \/ Continue(Error(At("Run")))
  BY <1>1, <1>2, <1>3, <1>4, QuietUnread, QuietContinue DEF QuietPc
<1>5. ASSUME there # {}, NEW order \in [1 .. Cardinality(there) -> there], Continue(a(order))
      PROVE  Inv'
  <2> DEFINE found == listed(order)
  <2>1. Cardinality(there) \in Nat /\ Cardinality(there) # 0
    BY <1>5, FS_Subset, FS_CardinalityType, FS_EmptySet DEF CanaryAssumption
  <2>2. policy.tags \in [PolicyTags -> PolicyCommits \cup {NONE}]
    BY DEF Inv, LockInv, PolicyStates
  <2>3. \A i \in DOMAIN order : /\ order[i] \in PolicyTags
                                /\ policy.tags[order[i]] \in PolicyCommits
    BY <2>2
  <2>4. /\ found \in Seq(TagRecords) /\ found # <<>>
        /\ \A i \in DOMAIN found : policy.tags[found[i].name] = found[i].sha
    <3>1. found \in [1 .. Cardinality(there) -> TagRecords]
      BY <2>3 DEF TagRecords
    <3>2. found \in Seq(TagRecords) /\ Len(found) = Cardinality(there)
      BY <2>1, <3>1, FunctionIsSeq
    <3>3. \A i \in DOMAIN found : policy.tags[found[i].name] = found[i].sha  OBVIOUS
    <3> HIDE DEF found, there
    <3>4. found # <<>>  BY <2>1, <3>2
    <3>5. QED  BY <3>2, <3>3, <3>4
  <2> HIDE DEF found, there
  <2>5. Honest(a(order)) /\ a(order).pc = "TagCompare" /\ a(order).todo = found
        /\ a(order).unseen = audit.unseen /\ a(order).rest = audit.rest
    BY HonestValues DEF Inv, Honest, Idle, found
  <2>6. ReportInv' /\ audit' = a(order) /\ UNCHANGED <<policy, held, loosened>>
    BY <1>1, <1>2, <1>5, <2>5, ContinueReport DEF Inv
  <2>7. audit.pc = "Tags"  BY <1>1 DEF Reading
  <2> HIDE DEF a
  <2>8. LockInv'  BY <2>4, <2>5, <2>6, <2>7, AdmissionKept DEF Inv, LockInv
  <2>9. QED  BY <2>6, <2>8 DEF Inv
<1>6. QED  BY <1>1, <1>4, <1>5

LEMMA TagCompareInv == ASSUME Inv, CanaryAssumption, ReadTagCompare PROVE Inv'
<1> DEFINE tag == Head(audit.todo)
           reached == CompareStatus(tag.sha, entry.pin) \in ReachableStatuses
           tree == [At("Tree") EXCEPT !.admitting = tag.name]
           next == [audit EXCEPT !.todo = Tail(audit.todo)]
           a == IF reached THEN tree
                ELSE IF Len(audit.todo) = 1 THEN Error(At("Run")) ELSE next
<1>1. Reading("TagCompare") /\ (Unread("Run") \/ Continue(a))  BY DEF ReadTagCompare
<1>2. audit.pc = "TagCompare" /\ NONE # 0  BY <1>1 DEF Reading, CanaryAssumption
<1>3. Honest(Error(At("Run"))) /\ Error(At("Run")).pc = "Run"  BY HonestValues DEF Inv
<1>4. /\ Honest(tree) /\ tree.pc = "Tree" /\ tree.admitting = tag.name
      /\ tree.unseen = audit.unseen /\ tree.rest = audit.rest
  BY HonestValues DEF Inv, Honest, Idle
<1>5. /\ Honest(next) /\ next.pc = "TagCompare" /\ next.todo = Tail(audit.todo)
      /\ next.unseen = audit.unseen /\ next.rest = audit.rest
  BY <1>2, HonestValues DEF Inv, Honest, Idle
<1>6. /\ audit.todo \in Seq(TagRecords) /\ audit.todo # <<>>
      /\ Trusted => \A i \in DOMAIN audit.todo : policy.tags[audit.todo[i].name] = audit.todo[i].sha
  BY <1>2 DEF Inv, LockInv
<1>7. 1 \in DOMAIN audit.todo /\ tag = audit.todo[1] /\ tag.sha \in PolicyCommits
      /\ tag.name \in PolicyTags
  <2>1. 1 \in DOMAIN audit.todo /\ tag = audit.todo[1] /\ tag \in TagRecords
    BY <1>6, HeadAndTail
  <2>2. QED  BY <2>1 DEF TagRecords
<1>8. CASE Unread("Run")  BY <1>1, <1>2, <1>8, QuietUnread DEF QuietPc
<1>9. CASE Continue(a) /\ reached
  <2>1. a = tree  BY <1>9
  <2>2. Reaches(tag.sha, entry.pin)
    BY <1>7, <1>9 DEF CompareStatus, ReachableStatuses, CanaryAssumption
  <2>3. Trusted => Admits(tag.name, entry.pin)
    BY <1>6, <1>7, <2>2 DEF Admits, CanaryAssumption
  <2> HIDE DEF tag, tree, a, reached
  <2>4. ReportInv' /\ audit' = tree /\ UNCHANGED <<policy, held, loosened>>
    BY <1>1, <1>2, <1>4, <1>9, <2>1, ContinueReport DEF Inv
  <2>5. LockInv'
    BY <1>2, <1>4, <2>3, <2>4, AdmissionKept DEF Inv, LockInv
  <2>6. QED  BY <2>4, <2>5 DEF Inv
<1>10. CASE Continue(a) /\ ~reached /\ Len(audit.todo) = 1
  <2>1. Continue(Error(At("Run")))  BY <1>10
  <2>2. QED  BY <1>1, <1>2, <1>3, <2>1, QuietContinue DEF QuietPc
<1>11. CASE Continue(a) /\ ~reached /\ Len(audit.todo) # 1
  <2>1. a = next  BY <1>11
  <2>2. /\ Tail(audit.todo) \in Seq(TagRecords)
        /\ Tail(audit.todo) # <<>>
        /\ \A i \in DOMAIN Tail(audit.todo) :
               i + 1 \in DOMAIN audit.todo /\ Tail(audit.todo)[i] = audit.todo[i + 1]
    BY <1>6, <1>11, HeadAndTail
  <2>3. Trusted => \A i \in DOMAIN Tail(audit.todo) :
            policy.tags[Tail(audit.todo)[i].name] = Tail(audit.todo)[i].sha
    BY <1>6, <2>2
  <2> HIDE DEF tag, next, a, reached
  <2>4. ReportInv' /\ audit' = next /\ UNCHANGED <<policy, held, loosened>>
    BY <1>1, <1>2, <1>5, <1>11, <2>1, ContinueReport DEF Inv
  <2>5. LockInv'
    BY <1>2, <1>5, <2>2, <2>3, <2>4, AdmissionKept DEF Inv, LockInv
  <2>6. QED  BY <2>4, <2>5 DEF Inv
<1>12. QED  BY <1>1, <1>8, <1>9, <1>10, <1>11

LEMMA TreeInv == ASSUME Inv, CanaryAssumption, ReadTree PROVE Inv'
<1>1. Reading("Tree") /\ (Unread("Run") \/ Continue(At("History")))  BY DEF ReadTree
<1>2. audit.pc = "Tree" /\ NONE # 0  BY <1>1 DEF Reading, CanaryAssumption
<1>3. CASE Unread("Run")  BY <1>1, <1>2, <1>3, QuietUnread DEF QuietPc
<1>4. CASE Continue(At("History"))
  <2>1. /\ Honest(At("History")) /\ At("History").pc = "History"
        /\ At("History").unseen = audit.unseen /\ At("History").rest = audit.rest
        /\ At("History").admitting = audit.admitting
    BY HonestValues DEF Inv, At, ReportInv, Idle
  <2>2. ReportInv' /\ audit' = At("History") /\ UNCHANGED <<policy, held, loosened>>
    BY <1>1, <1>2, <1>4, <2>1, ContinueReport DEF Inv
  <2>3. LockInv'  BY <1>2, <2>1, <2>2, AdmissionKept DEF Inv, LockInv
  <2>4. QED  BY <2>2, <2>3 DEF Inv
<1>5. QED  BY <1>1, <1>3, <1>4

LEMMA HistoryInv == ASSUME Inv, CanaryAssumption, ReadHistory PROVE Inv'
<1> DEFINE page == Page(History[policy.main], audit.page)
           carried == \E i \in DOMAIN page : Tree[page[i]] = Tree[entry.pin]
           next == [audit EXCEPT !.page = @ + 1]
           a == IF Len(page) < PageSize \/ audit.page = MaxHistoryPages
                THEN Error(At("Run")) ELSE next
<1>1. /\ Reading("History")
      /\ \/ Unread("Run")
         \/ /\ audit' = At("Run")
            /\ held' = IF audit.unseen \/ POLICY \in loosened THEN held
                       ELSE held \cup {[tag |-> audit.admitting, pin |-> entry.pin]}
            /\ UNCHANGED <<changes, faulted, loosened>>
         \/ Continue(a)
  BY DEF ReadHistory
<1>2. audit.pc = "History" /\ NONE # 0 /\ UNCHANGED <<policy, exit>>
  BY <1>1 DEF Reading, CanaryAssumption
<1>3. Honest(Error(At("Run"))) /\ Error(At("Run")).pc = "Run"
      /\ Honest(At("Run")) /\ At("Run").pc = "Run"
  BY HonestValues DEF Inv
<1>4. /\ Honest(next) /\ next.pc = "History" /\ next.admitting = audit.admitting
      /\ next.unseen = audit.unseen /\ next.rest = audit.rest
  BY <1>2, HonestValues DEF Inv, Honest, Idle
<1> HIDE DEF page, next
<1>5. CASE Unread("Run")  BY <1>1, <1>2, <1>5, QuietUnread DEF QuietPc
<1>6. CASE Continue(a)
  <2>1. CASE a = Error(At("Run"))
    BY <1>1, <1>2, <1>3, <1>6, <2>1, QuietContinue DEF QuietPc
  <2>2. CASE a = next
    <3>1. ReportInv' /\ audit' = next /\ UNCHANGED <<policy, held, loosened>>
      BY <1>1, <1>2, <1>4, <1>6, <2>2, ContinueReport DEF Inv
    <3>2. LockInv'  BY <1>2, <1>4, <3>1, AdmissionKept DEF Inv, LockInv
    <3>3. QED  BY <3>1, <3>2 DEF Inv
  <2>3. QED  BY <2>1, <2>2
<1>7. ASSUME audit' = At("Run"),
             held' = (IF audit.unseen \/ POLICY \in loosened THEN held
                      ELSE held \cup {[tag |-> audit.admitting, pin |-> entry.pin]}),
             UNCHANGED <<changes, faulted, loosened>>
      PROVE  Inv'
  <2>1. ReportInv'  BY <1>2, <1>3, <1>7, ReportKept DEF Honest, Inv, ReportInv
  <2>2. Trusted => Locked(POLICY) /\ Admits(audit.admitting, entry.pin)
    BY <1>2 DEF Inv, LockInv
  <2>3. /\ Locked(POLICY)' <=> Locked(POLICY)
        /\ \A tag, pin : Admits(tag, pin)' <=> Admits(tag, pin)
    BY <1>2 DEF Locked, Stops, RulesetsOf, Admits
  <2>4. AdmittedPinStaysReachable'
    <3>1. \A b \in held : Admits(b.tag, b.pin)
      BY DEF Inv, LockInv, AdmittedPinStaysReachable
    <3>2. \A b \in held' : Admits(b.tag, b.pin)  BY <1>7, <2>2, <3>1 DEF Trusted
    <3>3. QED  BY <2>3, <3>2 DEF AdmittedPinStaysReachable
  <2>5. (held # {})' => Locked(POLICY)'  BY <1>7, <2>2, <2>3 DEF Inv, LockInv, Trusted
  <2>6. LockInv'  BY <1>2, <1>3, <1>7, <2>4, <2>5 DEF Inv, LockInv
  <2>7. QED  BY <2>1, <2>6 DEF Inv
<1>8. QED  BY <1>1, <1>5, <1>6, <1>7

-----------------------------------------------------------------------------
(* The changes of the world.                                                 *)

LEMMA ChangeReport ==
  ASSUME ReportInv, CanaryAssumption, UNCHANGED <<audit, exit, faulted>>
  PROVE  ReportInv'
<1>1. audit.failing \in BOOLEAN /\ audit.unseen \in BOOLEAN /\ NONE # 0
  BY DEF ReportInv, CanaryAssumption
<1>2. QED  BY <1>1, ReportKept

\* Changes that leave rulesets and set tags alone.
LEMMA CalmChange ==
  ASSUME Inv, CanaryAssumption, UNCHANGED <<audit, exit, faulted, loosened, held>>, policy' \in PolicyStates,
         policy'.rulesets = policy.rulesets,
         \A t \in PolicyTags :
             policy.tags[t] # NONE /\ Locked(POLICY) => policy'.tags[t] = policy.tags[t]
  PROVE  Inv'
<1>1. ReportInv'  BY ChangeReport DEF Inv
<1>2. /\ audit' = audit /\ loosened' = loosened /\ held' = held /\ entry' = entry
      /\ Trusted' <=> Trusted
  BY DEF entry, Trusted
<1>3. Locked(POLICY)' <=> Locked(POLICY)  BY DEF Locked, Stops, RulesetsOf
<1>4. \A t, pin : Locked(POLICY) /\ Admits(t, pin) => Admits(t, pin)'
  BY DEF Admits
<1>5. AdmittedPinStaysReachable'
  BY <1>2, <1>4 DEF Inv, LockInv, AdmittedPinStaysReachable
<1>6. audit.pc = "TagCompare" /\ Trusted =>
          \A i \in DOMAIN audit.todo : policy'.tags[audit.todo[i].name] = audit.todo[i].sha
  <2> SUFFICES ASSUME audit.pc = "TagCompare", Trusted, NEW i \in DOMAIN audit.todo
               PROVE  policy'.tags[audit.todo[i].name] = audit.todo[i].sha
    OBVIOUS
  <2>1. /\ Locked(POLICY) /\ audit.todo \in Seq(TagRecords)
        /\ policy.tags[audit.todo[i].name] = audit.todo[i].sha
    BY DEF Inv, LockInv
  <2>2. audit.todo[i] \in TagRecords  BY <2>1, ElementOfSeq, LenProperties
  <2>3. audit.todo[i].name \in PolicyTags /\ audit.todo[i].sha # NONE
    BY <2>2 DEF TagRecords, CanaryAssumption
  <2>4. QED  BY <2>1, <2>3
<1>7. LockInv'  BY <1>2, <1>3, <1>4, <1>5, <1>6 DEF Inv, LockInv
<1>8. QED  BY <1>1, <1>7 DEF Inv

LEMMA WorldLocks ==
  ASSUME Inv, CanaryAssumption,
         \/ MoveMain \/ MovePolicyTag \/ Repin \/ StartRelease \/ PublishRelease
         \/ StartVerification \/ FinishRun \/ DeleteRun \/ MoveTag
         \/ UNCHANGED vars
  PROVE  Inv'
<1>1. UNCHANGED <<audit, exit, faulted, loosened, held>>
  BY DEF MoveMain, MovePolicyTag, Repin, StartRelease, PublishRelease, StartVerification,
         FinishRun, DeleteRun, MoveTag, Change, SameLocks, vars
<1>2. policy \in PolicyStates  BY DEF Inv, LockInv
<1>3. CASE MoveMain
  <2>1. PICK c \in PolicyCommits : policy' = [policy EXCEPT !.main = c]  BY <1>3 DEF MoveMain
  <2>2. policy' \in PolicyStates /\ policy'.rulesets = policy.rulesets /\ policy'.tags = policy.tags
    BY <1>2, <2>1 DEF PolicyStates
  <2>3. QED  BY <1>1, <2>2, CalmChange
<1>4. CASE MovePolicyTag
  <2>1. PICK t \in PolicyTags, c \in PolicyCommits \cup {NONE} :
            /\ policy.tags[t] = NONE \/ ~Stops(POLICY, IF c = NONE THEN "deletion" ELSE "update")
            /\ policy' = [policy EXCEPT !.tags[t] = c]
    BY <1>4 DEF MovePolicyTag
  <2>2. /\ policy' \in PolicyStates /\ policy'.rulesets = policy.rulesets
        /\ \A u \in PolicyTags : u # t => policy'.tags[u] = policy.tags[u]
    BY <1>2, <2>1 DEF PolicyStates
  <2>3. policy.tags[t] # NONE => ~Locked(POLICY)  BY <2>1 DEF Locked
  <2>4. QED  BY <1>1, <2>2, <2>3, CalmChange
<1>5. CASE UNCHANGED policy  BY <1>1, <1>2, <1>5, CalmChange
<1>6. QED
  BY <1>3, <1>4, <1>5 DEF Repin, StartRelease, PublishRelease, StartVerification, FinishRun,
                          DeleteRun, MoveTag, vars

LEMMA SetRulesetsInv == ASSUME Inv, CanaryAssumption, SetRulesets PROVE Inv'
<1>1. UNCHANGED <<audit, exit, faulted>>  BY DEF SetRulesets, Change
<1>2. ReportInv'  BY <1>1, ChangeReport DEF Inv
<1>3. policy \in PolicyStates /\ audit' = audit /\ entry' = entry
  BY <1>1 DEF Inv, LockInv, entry
<1>4. PICK rulesets \in RulesetStates, repo \in ReleaseFamilies \cup {POLICY} :
        /\ IF repo = POLICY
           THEN policy' = [policy EXCEPT !.rulesets = rulesets] /\ UNCHANGED estate
           ELSE estate' = [estate EXCEPT ![repo].rulesets = rulesets] /\ UNCHANGED policy
        /\ loosened' = IF Locked(repo)' THEN loosened ELSE loosened \cup {repo}
        /\ held' = IF repo # POLICY \/ Locked(repo)' THEN held ELSE {}
  BY DEF SetRulesets
<1>5. policy' \in PolicyStates /\ policy'.tags = policy.tags
  BY <1>3, <1>4 DEF PolicyStates
<1>6. \A t, pin : Admits(t, pin)' <=> Admits(t, pin)  BY <1>5 DEF Admits
<1>7. repo # POLICY => (Locked(POLICY)' <=> Locked(POLICY))
  BY <1>4 DEF Locked, Stops, RulesetsOf
<1>8. Trusted' => Trusted /\ (repo = POLICY => Locked(POLICY)')
  BY <1>3, <1>4 DEF Trusted
<1>9. held' \subseteq held /\ (held' # {} => repo # POLICY \/ Locked(POLICY)')
  BY <1>4
<1>10. AdmittedPinStaysReachable'
  BY <1>6, <1>9 DEF Inv, LockInv, AdmittedPinStaysReachable
<1>11. LockInv'  BY <1>3, <1>5, <1>6, <1>7, <1>8, <1>9, <1>10 DEF Inv, LockInv
<1>12. QED  BY <1>2, <1>11 DEF Inv

-----------------------------------------------------------------------------

LEMMA InitInv == CanaryAssumption /\ Init => Inv
<1> SUFFICES ASSUME CanaryAssumption, Init PROVE Inv  OBVIOUS
<1>1. policy \in PolicyStates /\ audit.pc = "Start" /\ held = {}
  BY DEF CanaryAssumption, Init, Idle
<1>2. LockInv  BY <1>1 DEF LockInv, AdmittedPinStaysReachable
<1>3. QED  BY <1>2, ReportInit DEF Inv

LEMMA NextInv == ASSUME Inv, CanaryAssumption, [Next]_vars PROVE Inv'
<1>1. NONE # 0  BY DEF CanaryAssumption
<1>2. CASE Start \/ Abort \/ Render  BY <1>1, <1>2, EndsLocks
<1>3. CASE \/ ReadPin \/ ReadCompare \/ ReadRulesets \/ ReadRun \/ ReadRelease \/ ReadTagCommit
           \/ ReadProvenance \/ ReadReleases \/ ReadRuns \/ ReadCurrent \/ Finish
  BY <1>1, <1>3, PinInv, CompareInv, RulesetsInv, RunInv, ReleaseInv, ReleasesInv, RunsInv,
     CurrentInv, FinishInv
<1>4. CASE ReadRuleset \/ ReadTags \/ ReadTagCompare \/ ReadTree \/ ReadHistory
  BY <1>1, <1>4, RulesetInv, TagsInv, TagCompareInv, TreeInv, HistoryInv
<1>5. CASE \/ MoveMain \/ MovePolicyTag \/ Repin \/ StartRelease \/ PublishRelease
           \/ StartVerification \/ FinishRun \/ DeleteRun \/ MoveTag \/ SetRulesets
           \/ UNCHANGED vars
  BY <1>5, WorldLocks, SetRulesetsInv
<1>6. QED  BY <1>2, <1>3, <1>4, <1>5 DEF Next

LEMMA Invariance == Spec => []Inv
<1>1. Init => Inv  BY InitInv, CanaryConstants
<1>2. Inv /\ [Next]_vars => Inv'  BY NextInv, CanaryConstants
<1>3. QED  BY <1>1, <1>2, PTL DEF Spec

\* However many checks the audit goes on with, one failed read is enough for it
\* not to pass: whatever the manifest, the reads and the changes in between.
THEOREM FailedReadsFail == Spec => []NoPassOverFailedRead
<1>1. Inv => NoPassOverFailedRead  BY DEF Inv, ReportInv
<1>2. QED  BY <1>1, Invariance, PTL

\* A pin admitted by a tag is reached from that tag for as long as the tags stay
\* locked, in whatever order rulesets, tags and main were read and changed.
THEOREM AdmissionLasts == Spec => []AdmittedPinStaysReachable
<1>1. Inv => AdmittedPinStaysReachable  BY DEF Inv, LockInv
<1>2. QED  BY <1>1, Invariance, PTL

-----------------------------------------------------------------------------
(* The evidence.  What the checks of a canary have found stays true while the *)
(* world goes on (GoesOn), so that it is true of all canaries in the end.     *)

\* What one release becomes when the world goes on.
Kept(f, r, s) ==
    /\ s.tag = r.tag
    /\ r.draft => s.draft \/ s.published > time
    /\ ~r.draft => /\ ~s.draft /\ s.published = r.published
                   /\ s.immutable = r.immutable /\ s.signed = r.signed
                   /\ s.at = r.at \/ ~Locked(f)

\* Releases are drafted at the top of the list, and none is taken back.
ReleasesGoOn(f) ==
    \E k \in {0, 1} :
        /\ \A i \in DOMAIN estate[f].releases :
               /\ i + k \in DOMAIN estate'[f].releases
               /\ Kept(f, estate[f].releases[i], estate'[f].releases[i + k])
        /\ \A j \in DOMAIN estate'[f].releases :
               j - k \in DOMAIN estate[f].releases \/ estate'[f].releases[j].draft

\* A success is new or was there, and with it every newer one; a run is new or
\* was there.
RunsGoOn(f) ==
    /\ \A r \in Successes(f)' : r \in Successes(f) \/ r.finished > time
    /\ \A r \in Successes(f)', s \in Successes(f) : s.started >= r.started => s \in Successes(f)'
    /\ \A r \in Range(estate'[f].runs) :
           r.id >= time + 10 \/ \E s \in Range(estate[f].runs) : s.id = r.id /\ s.started = r.started

LEMMA TimesPage ==
    \A page \in Nat \ {0} : (page - 1) * PageSize \in Nat
<1>1. PageSize \in Nat
  BY CanaryConstants DEF CanaryAssumption
<1> QED
  BY <1>1

LEMMA RangeOfList ==
    ASSUME NEW T, NEW s \in Seq(T)
    PROVE  IsFiniteSet(Range(s)) /\ Range(s) \subseteq T
<1>1. Len(s) \in Nat /\ s \in [1 .. Len(s) -> T]
  BY LenProperties
<1>2. IsFiniteSet(1 .. Len(s))
  BY <1>1, FS_Interval
<1>3. s \in Surjection(1 .. Len(s), Range(s))
  BY <1>1 DEF Surjection, Range
<1> QED
  BY <1>1, <1>2, <1>3, FS_Surjection DEF Range

\* What a listing of successes shows.
LEMMA Listings ==
    ASSUME estate \in [Families -> Consumers], NEW f \in Families
    PROVE  /\ Successes(f) \subseteq RunRecords /\ IsFiniteSet(Successes(f))
           /\ \A r \in Successes(f) : Place(f, r) \in Nat /\ Place(f, r) >= 1
<1>1. estate[f].runs \in Seq(RunRecords)
  BY DEF Consumers
<1>2. IsFiniteSet(Range(estate[f].runs)) /\ Range(estate[f].runs) \subseteq RunRecords
  BY <1>1, RangeOfList
<1>3. Successes(f) \subseteq RunRecords /\ IsFiniteSet(Successes(f))
  <2>1. Successes(f) \subseteq Range(estate[f].runs)
    BY DEF Successes
  <2> QED
    BY <1>2, <2>1, FS_Subset
<1>4. ASSUME NEW r \in Successes(f)
      PROVE  Place(f, r) \in Nat /\ Place(f, r) >= 1
  <2> DEFINE S == {s \in Successes(f) : s.started >= r.started}
  <2>1. IsFiniteSet(S) /\ r \in S
    BY <1>3, FS_Subset DEF RunRecords
  <2>2. Cardinality(S) \in Nat /\ Cardinality(S) # 0
    BY <2>1, FS_CardinalityType, FS_EmptySet
  <2> QED
    BY <2>2 DEF Place
<1> QED
  BY <1>3, <1>4

\* What holds of an entry goes on to hold while the audit stands still.
LEMMA ReleaseFactsLast ==
    ASSUME estate \in [Families -> Consumers], estate' \in [Families -> Consumers],
           time \in Nat, audit' = audit, audit.now \in Nat, audit.now <= time,
           loosened \subseteq loosened',
           NEW e, e.family \in Families, ReleasesGoOn(e.family),
           Locked(e.family) \/ e.family \in loosened
    PROVE  /\ Holds(e) => Holds(e)'
           /\ (\E r \in ReleasesAt(e.family, e.ref) : r.immutable)
                  => (\E r \in ReleasesAt(e.family, e.ref) : r.immutable)'
           /\ (\E r \in ReleasesAt(e.family, e.ref) : e.family \in loosened \/ r.at = e.head)
                  => (\E r \in ReleasesAt(e.family, e.ref) : e.family \in loosened \/ r.at = e.head)'
           /\ NewestRelease(e) => NewestRelease(e)'
           /\ audit.page \in Nat \ {0} /\ Gathered(e) => Gathered(e)'
<1> DEFINE f == e.family
           old == estate[f].releases
           new == estate'[f].releases
<1>1. old \in Seq(ReleaseRecords) /\ new \in Seq(ReleaseRecords)
  BY DEF Consumers
<1>2. PICK k \in {0, 1} :
        /\ \A i \in DOMAIN old : i + k \in DOMAIN new /\ Kept(f, old[i], new[i + k])
        /\ \A j \in DOMAIN new : j - k \in DOMAIN old \/ new[j].draft
  BY DEF ReleasesGoOn
<1>3. /\ DOMAIN old \subseteq Nat \ {0} /\ DOMAIN new \subseteq Nat \ {0}
      /\ \A i \in DOMAIN old : old[i] \in ReleaseRecords
      /\ \A j \in DOMAIN new : new[j] \in ReleaseRecords
  BY <1>1, LenProperties, ElementOfSeq
<1> HIDE DEF f, old, new
<1>4. ASSUME NEW r \in Range(old), ~r.draft
      PROVE  \E s \in Range(new) : Kept(f, r, s)
  <2>1. PICK i \in DOMAIN old : r = old[i]
    BY <1>4 DEF Range
  <2> QED
    BY <1>2, <2>1 DEF Range
<1>5. ASSUME NEW s \in Range(new), ~s.draft
      PROVE  \E r \in Range(old) : Kept(f, r, s)
  <2>1. PICK j \in DOMAIN new : s = new[j]
    BY <1>5 DEF Range
  <2>2. j - k \in DOMAIN old
    BY <1>2, <1>5, <2>1
  <2>3. (j - k) + k = j
    BY <1>3
  <2>4. Kept(f, old[j - k], new[j])
    BY <1>2, <2>2, <2>3
  <2> QED
    BY <2>1, <2>2, <2>4 DEF Range
<1>6. ASSUME NEW r \in ReleasesAt(f, e.ref)
      PROVE  \E s \in ReleasesAt(f, e.ref)' : Kept(f, r, s) /\ ~r.draft
  <2>1. r \in Range(old) /\ ~r.draft /\ r.tag = e.ref
    BY DEF ReleasesAt, old
  <2>2. PICK s \in Range(new) : Kept(f, r, s)
    BY <1>4, <2>1
  <2> QED
    BY <2>1, <2>2 DEF ReleasesAt, new, Kept, f
<1>7. Locked(f) \/ f \in loosened
  BY DEF f
<1>8. ASSUME Holds(e) PROVE Holds(e)'
  <2>1. PICK r \in ReleasesAt(f, e.ref) :
            /\ r.immutable /\ r.signed.run = e.run /\ r.signed.policy = e.policy
            /\ f \in loosened \/ r.at = e.head
    BY <1>8 DEF Holds, f
  <2>2. PICK s \in ReleasesAt(f, e.ref)' : Kept(f, r, s) /\ ~r.draft
    BY <1>6
  <2>3. /\ s.immutable /\ s.signed.run = e.run /\ s.signed.policy = e.policy
        /\ f \in loosened' \/ s.at = e.head
    BY <1>7, <2>1, <2>2 DEF Kept
  <2> QED
    BY <2>2, <2>3 DEF Holds, f
<1>9. ASSUME NEW r \in ReleasesAt(f, e.ref), r.immutable
      PROVE  \E s \in ReleasesAt(f, e.ref)' : s.immutable
  BY <1>6, <1>9 DEF Kept
<1>10. ASSUME NEW r \in ReleasesAt(f, e.ref), f \in loosened \/ r.at = e.head
       PROVE  \E s \in ReleasesAt(f, e.ref)' : f \in loosened' \/ s.at = e.head
  BY <1>6, <1>7, <1>10 DEF Kept
<1>11. \A s \in Range(new) : s \in ReleaseRecords
  BY <1>3 DEF Range
<1>12. ASSUME NewestRelease(e) PROVE NewestRelease(e)'
  <2>1. PICK known \in ReleasesAt(f, e.ref) :
          \A r \in PublishedIn(Range(old), e) :
             r.published <= audit.now => r.published <= known.published
    BY <1>12 DEF NewestRelease, f, old
  <2>2. PICK s \in ReleasesAt(f, e.ref)' : Kept(f, known, s) /\ ~known.draft
    BY <1>6
  <2>3. ASSUME NEW q \in PublishedIn(Range(new), e), q.published <= audit.now
        PROVE  q.published <= s.published
    <3>1. q \in Range(new) /\ ~q.draft /\ MatchesReleaseTag(q.tag, PrefixOf(e))
      BY DEF PublishedIn
    <3>2. PICK r \in Range(old) : Kept(f, r, q)
      BY <1>5, <3>1
    <3>3. q.published \in Nat
      BY <1>11, <3>1 DEF ReleaseRecords
    <3>4. ~r.draft /\ r.tag = q.tag /\ r.published = q.published
      BY <2>3, <3>1, <3>2, <3>3 DEF Kept
    <3>5. r \in PublishedIn(Range(old), e)
      BY <3>1, <3>4 DEF PublishedIn
    <3> QED
      BY <2>1, <2>2, <2>3, <3>4, <3>5 DEF Kept
  <2> QED
    BY <2>2, <2>3 DEF NewestRelease, f, new
<1>13. ASSUME audit.page \in Nat \ {0}, Gathered(e) PROVE Gathered(e)'
  <2> DEFINE Same(g, r) ==
               ~g.draft /\ ~r.draft /\ g.tag = r.tag /\ g.published = r.published
             m == (audit.page - 1) * PageSize
  <2> HIDE DEF m
  <2>1. /\ audit.gathered \subseteq ReleaseRecords
        /\ \A i \in DOMAIN old :
               i <= m /\ ~old[i].draft /\ old[i].published <= audit.now
               => \E g \in audit.gathered : Same(g, old[i])
        /\ \A g \in audit.gathered : ~g.draft => \E r \in Range(old) : Same(g, r)
    BY <1>13 DEF Gathered, f, old, m
  <2>2. ASSUME NEW j \in DOMAIN new, j <= m, ~new[j].draft, new[j].published <= audit.now
        PROVE  \E g \in audit.gathered : Same(g, new[j])
    <3>1. j - k \in DOMAIN old
      BY <1>2, <2>2
    <3>2. j \in Nat /\ (j - k) + k = j
      BY <1>3
    <3>3. Kept(f, old[j - k], new[j])
      BY <1>2, <3>1, <3>2
    <3>4. new[j].published \in Nat
      BY <1>3 DEF ReleaseRecords
    <3>5. ~old[j - k].draft /\ old[j - k].tag = new[j].tag /\ old[j - k].published = new[j].published
      BY <2>2, <3>3, <3>4 DEF Kept
    <3>6. m \in Nat /\ j - k <= m
      BY <1>13, <2>2, <3>2, TimesPage DEF m
    <3> QED
      BY <2>1, <2>2, <3>1, <3>5, <3>6
  <2>3. ASSUME NEW g \in audit.gathered, ~g.draft
        PROVE  \E s \in Range(new) : Same(g, s)
    BY <1>4, <2>1, <2>3 DEF Kept
  <2> QED
    BY <2>1, <2>2, <2>3 DEF Gathered, f, new, m
<1> QED
  BY <1>8, <1>9, <1>10, <1>12, <1>13 DEF f

LEMMA RunFactsLast ==
    ASSUME estate \in [Families -> Consumers], estate' \in [Families -> Consumers],
           time \in Nat, time' \in Nat, time <= time',
           audit' = audit, audit.now \in Nat, audit.now <= time,
           NEW e, e.family \in Families, RunsGoOn(e.family)
    PROVE  /\ NewestRun(e) => NewestRun(e)'
           /\ NewestVerification(e) => NewestVerification(e)'
           /\ Matched(e) => Matched(e)'
           /\ audit.page \in Nat \ {0} /\ NoneSoFar(e) => NoneSoFar(e)'
<1> DEFINE f == e.family
           S == Successes(f)
           T == Successes(f)'
<1>1. S \subseteq RunRecords /\ IsFiniteSet(S) /\ (\A r \in S : Place(f, r) \in Nat)
  BY Listings
<1>2. T \subseteq RunRecords /\ IsFiniteSet(T)
  <2>1. estate'[f].runs \in Seq(RunRecords)
    BY DEF Consumers
  <2>2. IsFiniteSet(Range(estate'[f].runs)) /\ Range(estate'[f].runs) \subseteq RunRecords
    BY <2>1, RangeOfList
  <2>3. T \subseteq Range(estate'[f].runs)
    BY DEF Successes
  <2> QED
    BY <2>2, <2>3, FS_Subset
<1>3. /\ \A r \in T : r \in S \/ r.finished > time
      /\ \A r \in T, s \in S : s.started >= r.started => s \in T
      /\ \A r \in Range(estate'[f].runs) :
            r.id >= time + 10 \/ \E s \in Range(estate[f].runs) : s.id = r.id /\ s.started = r.started
  BY DEF RunsGoOn
<1>a. \A r : Place(f, r) = Cardinality({s \in S : s.started >= r.started})
  BY DEF Place
<1>b. \A r : Place(f, r)' = Cardinality({s \in T : s.started >= r.started})
  BY DEF Place
<1> HIDE DEF f, S, T
<1>4. \A r \in T : r.finished \in Nat /\ r.started \in Nat /\ (r.finished <= audit.now => r \in S)
  BY <1>2, <1>3 DEF RunRecords
<1>5. ASSUME NewestRun(e) PROVE NewestRun(e)'
  BY <1>4, <1>5 DEF NewestRun, RelevantRuns, S, T, f
<1>6. ASSUME NewestVerification(e) PROVE NewestVerification(e)'
  <2>1. \A r \in RelevantRuns(S, e) :
           r.finished <= audit.now /\ ReferencedPolicySha(r) # e.pin =>
              \E s \in RelevantRuns(S, e) :
                 s.started > r.started /\ ReferencedPolicySha(s) = e.pin
    BY <1>6 DEF NewestVerification, S, f
  <2>2. ASSUME NEW r \in RelevantRuns(T, e), r.finished <= audit.now, ReferencedPolicySha(r) # e.pin
        PROVE  \E s \in RelevantRuns(T, e) : s.started > r.started /\ ReferencedPolicySha(s) = e.pin
    <3>1. r \in T /\ r \in S /\ r \in RelevantRuns(S, e)
      BY <1>4, <2>2 DEF RelevantRuns
    <3>2. PICK s \in RelevantRuns(S, e) : s.started > r.started /\ ReferencedPolicySha(s) = e.pin
      BY <2>1, <2>2, <3>1
    <3>3. s \in S
      BY DEF RelevantRuns
    <3>4. s.started \in Nat /\ r.started \in Nat
      BY <1>1, <3>1, <3>3 DEF RunRecords
    <3>5. s \in T
      BY <1>3, <3>1, <3>2, <3>3, <3>4
    <3> QED
      BY <3>2, <3>5 DEF RelevantRuns
  <2> QED
    BY <2>2 DEF NewestVerification, T, f
<1>7. ASSUME Matched(e) PROVE Matched(e)'
  <2>1. e.run \in Nat /\ e.run < time + 10 /\ e.run < time' + 10
        /\ \A r \in Range(estate[f].runs) : r.id = e.run => r.started = e.started
    BY <1>7 DEF Matched, RunsNamed, f
  <2>2. ASSUME NEW r \in Range(estate'[f].runs), r.id = e.run PROVE r.started = e.started
    BY <1>3, <2>1, <2>2
  <2> QED
    BY <2>1, <2>2 DEF Matched, RunsNamed, f
<1>8. ASSUME audit.page \in Nat \ {0}, NoneSoFar(e) PROVE NoneSoFar(e)'
  <2> DEFINE m == (audit.page - 1) * PageSize
  <2>1. m \in Nat
    BY <1>8, TimesPage
  <2> HIDE DEF m
  <2>2. \A r \in RelevantRuns(S, e) : Place(f, r) <= m => r.finished > audit.now
    BY <1>8 DEF NoneSoFar, S, f, m
  <2>3. ASSUME NEW r \in RelevantRuns(T, e), Place(f, r)' <= m PROVE r.finished > audit.now
    <3>1. r \in T
      BY DEF RelevantRuns
    <3>2. CASE r \notin S
      BY <1>4, <3>1, <3>2
    <3>3. CASE r \in S
      <4> DEFINE A == {s \in S : s.started >= r.started}
                 B == {s \in T : s.started >= r.started}
      <4>1. A \subseteq B
        BY <1>3, <3>1
      <4>2. IsFiniteSet(B)
        BY <1>2, FS_Subset
      <4>a. Place(f, r) = Cardinality(A) /\ Place(f, r)' = Cardinality(B)
        BY <1>a, <1>b
      <4> HIDE DEF A, B
      <4>b. IsFiniteSet(A) /\ Cardinality(A) <= Cardinality(B)
        BY <4>1, <4>2, FS_Subset
      <4>c. Cardinality(A) \in Nat /\ Cardinality(B) \in Nat
        BY <4>2, <4>b, FS_CardinalityType
      <4>3. Place(f, r) <= Place(f, r)' /\ Place(f, r)' \in Nat /\ Place(f, r) \in Nat
        BY <4>a, <4>b, <4>c
      <4>4. Place(f, r) <= m
        BY <2>1, <2>3, <4>3
      <4> QED
        BY <2>2, <3>3, <4>4 DEF RelevantRuns
    <3> QED
      BY <3>2, <3>3
  <2> QED
    BY <2>3 DEF NoneSoFar, T, f, m
<1> QED
  BY <1>5, <1>6, <1>7, <1>8 DEF f

-----------------------------------------------------------------------------
\* What every change of the world respects.
GoesOn ==
    /\ time' = time + 1 /\ UNCHANGED <<manifest, strict, audit, exit, faulted>>
    /\ estate' \in [Families -> Consumers]
    /\ loosened \subseteq loosened'
    /\ \A f \in Families :
           /\ InOrder(estate'[f], time')
           /\ Locked(f) \/ f \in loosened => Locked(f)' \/ f \in loosened'
           /\ ReleasesGoOn(f) /\ RunsGoOn(f)

LEMMA FamiliesAreNotPolicy == ReleaseFamilies \subseteq Families /\ POLICY \notin Families
BY CanaryConstants DEF CanaryAssumption

LEMMA SameRuns ==
    ASSUME NEW f, estate'[f].runs = estate[f].runs
    PROVE  RunsGoOn(f)
<1>1. Successes(f)' = Successes(f)
  BY DEF Successes
<1> QED
  BY <1>1 DEF RunsGoOn

LEMMA SameReleases ==
    ASSUME NEW f, estate'[f].releases = estate[f].releases,
           estate[f].releases \in Seq(ReleaseRecords)
    PROVE  ReleasesGoOn(f)
<1> DEFINE s == estate[f].releases
<1>1. DOMAIN s \subseteq Nat
  BY LenProperties
<1>2. \A i \in DOMAIN s : Kept(f, s[i], s[i])
  BY DEF Kept
<1>3. \A i \in DOMAIN s : i + 0 = i /\ i - 0 = i
  BY <1>1
<1> QED
  BY <1>2, <1>3 DEF ReleasesGoOn

LEMMA LaterInOrder ==
    ASSUME time \in Nat, NEW c \in Consumers, InOrder(c, time)
    PROVE  InOrder(c, time + 1)
<1>1. /\ \A i \in DOMAIN c.runs : c.runs[i].started \in Nat /\ c.runs[i].id \in Nat
      /\ \A i \in DOMAIN c.releases : c.releases[i].tag.version \in Nat
  <2>1. c.runs \in Seq(RunRecords) /\ c.releases \in Seq(ReleaseRecords)
    BY DEF Consumers
  <2>2. /\ \A i \in DOMAIN c.runs : c.runs[i] \in RunRecords
        /\ \A i \in DOMAIN c.releases : c.releases[i] \in ReleaseRecords
    BY <2>1, ElementOfSeq, LenProperties
  <2> QED
    BY <2>2 DEF RunRecords, ReleaseRecords, Refs
<1> QED
  BY <1>1 DEF InOrder

\* A change of one consumer.
LEMMA OneConsumer ==
    ASSUME time \in Nat, estate \in [Families -> Consumers],
           \A g \in Families : InOrder(estate[g], time),
           time' = time + 1, UNCHANGED <<manifest, strict, audit, exit, faulted>>,
           NEW f \in Families, NEW c \in Consumers,
           estate' = [estate EXCEPT ![f] = c], InOrder(c, time + 1),
           loosened \subseteq loosened',
           c.rulesets = estate[f].rulesets \/ Locked(f)' \/ f \in loosened',
           ReleasesGoOn(f), RunsGoOn(f)
    PROVE  GoesOn
<1>1. estate' \in [Families -> Consumers]
  OBVIOUS
<1>2. ASSUME NEW g \in Families
      PROVE  /\ InOrder(estate'[g], time')
             /\ Locked(g) \/ g \in loosened => Locked(g)' \/ g \in loosened'
             /\ ReleasesGoOn(g) /\ RunsGoOn(g)
  <2>1. CASE g = f
    <3>1. c.rulesets = estate[f].rulesets => (Locked(f)' <=> Locked(f))
      <4>1. c.rulesets = estate[f].rulesets => RulesetsOf(f)' = RulesetsOf(f)
        BY FamiliesAreNotPolicy DEF RulesetsOf
      <4> QED
        BY <4>1 DEF Locked, Stops
    <3> QED
      BY <2>1, <3>1
  <2>2. CASE g # f
    <3>1. estate'[g] = estate[g] /\ estate[g] \in Consumers
      BY <2>2
    <3>2. estate[g].releases \in Seq(ReleaseRecords)
      BY <3>1 DEF Consumers
    <3>3. ReleasesGoOn(g) /\ RunsGoOn(g)
      BY <3>1, <3>2, SameRuns, SameReleases
    <3>4. Locked(g)' <=> Locked(g)
      BY <3>1, FamiliesAreNotPolicy DEF Locked, Stops, RulesetsOf
    <3> QED
      BY <3>1, <3>3, <3>4, LaterInOrder
  <2> QED
    BY <2>1, <2>2
<1> QED
  BY <1>1, <1>2 DEF GoesOn

LEMMA PolicyChanges ==
    ASSUME WorldInv, Change, UNCHANGED <<estate, loosened>>
    PROVE  GoesOn
<1>1. ASSUME NEW f \in Families
      PROVE  /\ InOrder(estate'[f], time')
             /\ Locked(f)' <=> Locked(f)
             /\ ReleasesGoOn(f) /\ RunsGoOn(f)
  <2>1. estate'[f] = estate[f] /\ estate[f] \in Consumers /\ estate[f].releases \in Seq(ReleaseRecords)
    BY DEF WorldInv, Consumers
  <2>2. Locked(f)' <=> Locked(f)
    BY FamiliesAreNotPolicy DEF Locked, Stops, RulesetsOf
  <2>3. time' = time + 1 /\ time \in Nat /\ InOrder(estate[f], time)
    BY DEF Change, WorldInv
  <2> QED
    BY <2>1, <2>2, <2>3, SameRuns, SameReleases, LaterInOrder
<1> QED
  BY <1>1 DEF GoesOn, Change, WorldInv

LEMMA RulesetsGoOn ==
    ASSUME WorldInv, SetRulesets
    PROVE  GoesOn
<1>1. PICK rulesets \in RulesetStates, repo \in ReleaseFamilies \cup {POLICY} :
          /\ IF repo = POLICY
             THEN policy' = [policy EXCEPT !.rulesets = rulesets] /\ UNCHANGED estate
             ELSE estate' = [estate EXCEPT ![repo].rulesets = rulesets] /\ UNCHANGED policy
          /\ loosened' = IF Locked(repo)' THEN loosened ELSE loosened \cup {repo}
  BY DEF SetRulesets
<1>2. /\ time \in Nat /\ estate \in [Families -> Consumers] /\ time' = time + 1
      /\ UNCHANGED <<manifest, strict, audit, exit, faulted>>
      /\ \A g \in Families : InOrder(estate[g], time)
  BY DEF WorldInv, SetRulesets, Change
<1>3. CASE repo = POLICY
  <2>1. ASSUME NEW f \in Families
        PROVE  /\ InOrder(estate'[f], time')
               /\ Locked(f)' <=> Locked(f)
               /\ ReleasesGoOn(f) /\ RunsGoOn(f)
    <3>1. estate' = estate
      BY <1>1, <1>3
    <3>2. estate'[f] = estate[f] /\ estate[f] \in Consumers /\ estate[f].releases \in Seq(ReleaseRecords)
      BY <1>2, <3>1 DEF Consumers
    <3>3. Locked(f)' <=> Locked(f)
      BY <3>1, FamiliesAreNotPolicy DEF Locked, Stops, RulesetsOf
    <3> QED
      BY <1>2, <3>2, <3>3, SameRuns, SameReleases, LaterInOrder
  <2> QED
    BY <1>1, <1>2, <1>3, <2>1 DEF GoesOn
<1>4. CASE repo # POLICY
  <2> DEFINE c == [estate[repo] EXCEPT !.rulesets = rulesets]
  <2>1. repo \in Families /\ estate[repo] \in Consumers
    BY <1>2, <1>4, FamiliesAreNotPolicy
  <2>2. c \in Consumers /\ c.runs = estate[repo].runs /\ c.releases = estate[repo].releases
    BY <2>1 DEF Consumers
  <2>3. estate' = [estate EXCEPT ![repo] = c]
    BY <1>1, <1>4
  <2>4. InOrder(c, time + 1)
    <3>1. InOrder(estate[repo], time + 1)
      BY <1>2, <2>1, LaterInOrder
    <3> QED
      BY <2>2, <3>1 DEF InOrder
  <2>5. ReleasesGoOn(repo) /\ RunsGoOn(repo)
    <3>1. estate[repo].releases \in Seq(ReleaseRecords)
      BY <2>1 DEF Consumers
    <3>2. estate'[repo] = c
      BY <1>2, <2>1, <2>3
    <3> QED
      BY <2>2, <3>1, <3>2, SameRuns, SameReleases
  <2> HIDE DEF c
  <2> QED
    BY <1>1, <1>2, <2>1, <2>2, <2>3, <2>4, <2>5, OneConsumer
<1> QED
  BY <1>3, <1>4

LEMMA RepinGoesOn ==
    ASSUME WorldInv, Repin
    PROVE  GoesOn
<1>1. PICK f \in Families, calls \in Calls : estate' = [estate EXCEPT ![f].declared = calls]
  BY DEF Repin
<1>2. /\ time \in Nat /\ estate \in [Families -> Consumers] /\ time' = time + 1
      /\ UNCHANGED <<manifest, strict, audit, exit, faulted, loosened>>
      /\ \A g \in Families : InOrder(estate[g], time)
      /\ estate[f] \in Consumers
  BY DEF WorldInv, Repin, Change, SameLocks
<1> DEFINE c == [estate[f] EXCEPT !.declared = calls]
<1>3. /\ c \in Consumers /\ c.runs = estate[f].runs /\ c.releases = estate[f].releases
      /\ c.rulesets = estate[f].rulesets
  BY <1>2, CanaryConstants DEF Consumers, CanaryAssumption
<1>4. estate' = [estate EXCEPT ![f] = c] /\ estate'[f] = c
  BY <1>1, <1>2
<1>5. InOrder(c, time + 1)
  BY <1>2, <1>3, LaterInOrder DEF InOrder
<1>6. ReleasesGoOn(f) /\ RunsGoOn(f)
  <2>1. estate[f].releases \in Seq(ReleaseRecords)
    BY <1>2 DEF Consumers
  <2> QED
    BY <1>3, <1>4, <2>1, SameRuns, SameReleases
<1> HIDE DEF c
<1> QED
  BY <1>2, <1>3, <1>4, <1>5, <1>6, OneConsumer

RunsInOrder(runs, t) ==
    /\ \A i \in DOMAIN runs : runs[i].started <= t /\ runs[i].id < t + 10
    /\ \A i, j \in DOMAIN runs :
           i < j => runs[j].started < runs[i].started /\ runs[j].id < runs[i].id
ReleasesInOrder(releases, t) ==
    /\ \A i \in DOMAIN releases : releases[i].tag.version <= t
    /\ \A i, j \in DOMAIN releases :
           i < j => releases[j].tag.version < releases[i].tag.version

LEMMA Pushed ==
    ASSUME NEW T, NEW s \in Seq(T), NEW x \in T
    PROVE  /\ <<x>> \o s \in Seq(T)
           /\ DOMAIN s = 1 .. Len(s) /\ Len(s) \in Nat
           /\ DOMAIN (<<x>> \o s) = 1 .. Len(s) + 1
           /\ (<<x>> \o s)[1] = x
           /\ \A i \in DOMAIN s : (<<x>> \o s)[i + 1] = s[i] /\ s[i] \in T
           /\ Range(<<x>> \o s) = {x} \cup Range(s)
<1>1. /\ <<x>> \in Seq(T) /\ Len(<<x>>) = 1 /\ <<x>>[1] = x /\ Len(s) \in Nat
      /\ DOMAIN s = 1 .. Len(s)
  BY LenProperties
<1>2. <<x>> \o s \in Seq(T)
  BY <1>1, ConcatProperties
<1>3. Len(<<x>> \o s) = 1 + Len(s)
  BY <1>1, ConcatProperties
<1>4. \A i \in 1 .. Len(s) + 1 : (<<x>> \o s)[i] = IF i <= 1 THEN <<x>>[i] ELSE s[i - 1]
  BY <1>1, <1>3, ConcatProperties
<1>5. DOMAIN (<<x>> \o s) = 1 .. Len(s) + 1
  BY <1>1, <1>2, <1>3, LenProperties
<1>6. (<<x>> \o s)[1] = x
  BY <1>1, <1>4
<1>7. \A i \in DOMAIN s : (<<x>> \o s)[i + 1] = s[i] /\ s[i] \in T
  <2> TAKE i \in DOMAIN s
  <2>1. i + 1 \in 1 .. Len(s) + 1 /\ ~(i + 1 <= 1) /\ (i + 1) - 1 = i
    BY <1>1
  <2> QED
    BY <1>1, <1>4, <2>1, ElementOfSeq
<1> DEFINE t == <<x>> \o s
<1> HIDE DEF t
<1>8. Range(t) \subseteq {x} \cup Range(s)
  <2> SUFFICES ASSUME NEW i \in 1 .. Len(s) + 1 PROVE t[i] \in {x} \cup Range(s)
    BY <1>5 DEF Range, t
  <2>1. CASE i = 1
    BY <1>6, <2>1 DEF t
  <2>2. CASE i # 1
    <3>1. i - 1 \in DOMAIN s /\ (i - 1) + 1 = i
      BY <1>1, <2>2
    <3> QED
      BY <1>7, <3>1 DEF Range, t
  <2> QED
    BY <2>1, <2>2
<1>9. {x} \cup Range(s) \subseteq Range(t)
  <2>1. x \in Range(t)
    BY <1>1, <1>5, <1>6 DEF Range, t
  <2>2. ASSUME NEW i \in DOMAIN s PROVE s[i] \in Range(t)
    <3>1. i + 1 \in 1 .. Len(s) + 1
      BY <1>1
    <3> QED
      BY <1>5, <1>7, <3>1 DEF Range, t
  <2> QED
    BY <2>1, <2>2 DEF Range
<1> QED
  BY <1>1, <1>2, <1>5, <1>6, <1>7, <1>8, <1>9 DEF t

LEMMA RunAdded ==
    ASSUME time \in Nat, NEW f, NEW runs \in Seq(RunRecords), estate[f].runs = runs,
           RunsInOrder(runs, time),
           NEW r \in RunRecords, r.id = time + 10, r.started = time + 1, r.success = FALSE,
           estate'[f].runs = <<r>> \o runs
    PROVE  /\ <<r>> \o runs \in Seq(RunRecords) /\ RunsInOrder(<<r>> \o runs, time + 1)
           /\ RunsGoOn(f)
<1> DEFINE new == <<r>> \o runs
<1>1. /\ new \in Seq(RunRecords)
      /\ DOMAIN runs = 1 .. Len(runs) /\ Len(runs) \in Nat
      /\ DOMAIN new = 1 .. Len(runs) + 1
      /\ new[1] = r
      /\ \A i \in DOMAIN runs : new[i + 1] = runs[i] /\ runs[i] \in RunRecords
      /\ Range(new) = {r} \cup Range(runs)
  BY Pushed
<1> HIDE DEF new
<1>2. \A i \in DOMAIN runs : runs[i].started \in Nat /\ runs[i].id \in Nat
  BY <1>1 DEF RunRecords
<1>3. \A i \in DOMAIN new : i = 1 \/ (i - 1 \in DOMAIN runs /\ new[i] = runs[i - 1])
  <2> TAKE i \in DOMAIN new
  <2>1. i # 1 => i - 1 \in DOMAIN runs /\ (i - 1) + 1 = i
    BY <1>1
  <2> QED
    BY <1>1, <2>1
<1>4. \A i \in DOMAIN new : new[i].started <= time + 1 /\ new[i].id < (time + 1) + 10
  <2> TAKE i \in DOMAIN new
  <2>1. CASE i = 1
    BY <1>1, <2>1
  <2>2. CASE i # 1
    <3>1. i - 1 \in DOMAIN runs /\ new[i] = runs[i - 1]
      BY <1>3, <2>2
    <3> QED
      BY <1>2, <3>1 DEF RunsInOrder
  <2> QED
    BY <2>1, <2>2
<1>5. \A i, j \in DOMAIN new :
          i < j => new[j].started < new[i].started /\ new[j].id < new[i].id
  <2> SUFFICES ASSUME NEW i \in DOMAIN new, NEW j \in DOMAIN new, i < j
               PROVE  new[j].started < new[i].started /\ new[j].id < new[i].id
    OBVIOUS
  <2>1. j - 1 \in DOMAIN runs /\ new[j] = runs[j - 1]
    BY <1>1, <1>3
  <2>2. CASE i = 1
    BY <1>1, <1>2, <2>1, <2>2 DEF RunsInOrder
  <2>3. CASE i # 1
    <3>1. i - 1 \in DOMAIN runs /\ new[i] = runs[i - 1] /\ i - 1 < j - 1
      BY <1>1, <1>3, <2>3
    <3> QED
      BY <2>1, <3>1 DEF RunsInOrder
  <2> QED
    BY <2>2, <2>3
<1>6. Successes(f)' = Successes(f)
  BY <1>1 DEF Successes, new
<1>7. Range(estate'[f].runs) = {r} \cup Range(estate[f].runs)
  BY <1>1 DEF new
<1>8. RunsGoOn(f)
  BY <1>6, <1>7 DEF RunsGoOn
<1> QED
  BY <1>1, <1>4, <1>5, <1>8 DEF RunsInOrder, new

LEMMA ReleaseAdded ==
    ASSUME time \in Nat, NEW f, NEW releases \in Seq(ReleaseRecords),
           estate[f].releases = releases, ReleasesInOrder(releases, time),
           NEW r \in ReleaseRecords, r.tag.version = time + 1, r.draft,
           estate'[f].releases = <<r>> \o releases
    PROVE  /\ <<r>> \o releases \in Seq(ReleaseRecords)
           /\ ReleasesInOrder(<<r>> \o releases, time + 1)
           /\ ReleasesGoOn(f)
<1> DEFINE new == <<r>> \o releases
<1>1. /\ new \in Seq(ReleaseRecords)
      /\ DOMAIN releases = 1 .. Len(releases) /\ Len(releases) \in Nat
      /\ DOMAIN new = 1 .. Len(releases) + 1
      /\ new[1] = r
      /\ \A i \in DOMAIN releases : new[i + 1] = releases[i] /\ releases[i] \in ReleaseRecords
  BY Pushed
<1> HIDE DEF new
<1>2. \A i \in DOMAIN releases : releases[i].tag.version \in Nat
  BY <1>1 DEF ReleaseRecords, Refs
<1>3. \A i \in DOMAIN new : i = 1 \/ (i - 1 \in DOMAIN releases /\ new[i] = releases[i - 1])
  <2> TAKE i \in DOMAIN new
  <2>1. i # 1 => i - 1 \in DOMAIN releases /\ (i - 1) + 1 = i
    BY <1>1
  <2> QED
    BY <1>1, <2>1
<1>4. \A i \in DOMAIN new : new[i].tag.version <= time + 1
  BY <1>1, <1>2, <1>3 DEF ReleasesInOrder
<1>5. \A i, j \in DOMAIN new : i < j => new[j].tag.version < new[i].tag.version
  <2> SUFFICES ASSUME NEW i \in DOMAIN new, NEW j \in DOMAIN new, i < j
               PROVE  new[j].tag.version < new[i].tag.version
    OBVIOUS
  <2>1. j - 1 \in DOMAIN releases /\ new[j] = releases[j - 1]
    BY <1>1, <1>3
  <2>2. CASE i = 1
    BY <1>1, <1>2, <2>1, <2>2 DEF ReleasesInOrder
  <2>3. CASE i # 1
    <3>1. i - 1 \in DOMAIN releases /\ new[i] = releases[i - 1] /\ i - 1 < j - 1
      BY <1>1, <1>3, <2>3
    <3> QED
      BY <2>1, <3>1 DEF ReleasesInOrder
  <2> QED
    BY <2>2, <2>3
<1>6. ReleasesGoOn(f)
  <2>1. \A i \in DOMAIN releases :
           i + 1 \in DOMAIN new /\ Kept(f, releases[i], new[i + 1])
    BY <1>1 DEF Kept
  <2>2. \A j \in DOMAIN new : j - 1 \in DOMAIN releases \/ new[j].draft
    BY <1>1, <1>3
  <2> QED
    BY <2>1, <2>2 DEF ReleasesGoOn, new
<1> QED
  BY <1>1, <1>4, <1>5, <1>6 DEF ReleasesInOrder, new

LEMMA OrderParts ==
    \A c, t : InOrder(c, t) <=> RunsInOrder(c.runs, t) /\ ReleasesInOrder(c.releases, t)
BY DEF InOrder, RunsInOrder, ReleasesInOrder

LEMMA LaterParts ==
    ASSUME time \in Nat, NEW c \in Consumers, InOrder(c, time)
    PROVE  /\ c.runs \in Seq(RunRecords) /\ c.releases \in Seq(ReleaseRecords)
           /\ c.declared \in Seq(PolicyCommits) /\ c.rulesets \in RulesetStates
           /\ RunsInOrder(c.runs, time) /\ ReleasesInOrder(c.releases, time)
           /\ RunsInOrder(c.runs, time + 1) /\ ReleasesInOrder(c.releases, time + 1)
BY LaterInOrder, OrderParts DEF Consumers

\* The facts every change of one consumer starts from.
LEMMA ChangeFacts ==
    ASSUME WorldInv, Change, SameLocks, NEW f \in Families
    PROVE  /\ time \in Nat /\ estate \in [Families -> Consumers] /\ time' = time + 1
           /\ UNCHANGED <<manifest, strict, audit, exit, faulted, loosened>>
           /\ \A g \in Families : InOrder(estate[g], time)
           /\ estate[f] \in Consumers
           /\ estate[f].runs \in Seq(RunRecords) /\ estate[f].releases \in Seq(ReleaseRecords)
           /\ estate[f].declared \in Seq(PolicyCommits) /\ estate[f].rulesets \in RulesetStates
           /\ RunsInOrder(estate[f].runs, time) /\ ReleasesInOrder(estate[f].releases, time)
           /\ RunsInOrder(estate[f].runs, time + 1) /\ ReleasesInOrder(estate[f].releases, time + 1)
<1>1. /\ time \in Nat /\ estate \in [Families -> Consumers] /\ time' = time + 1
      /\ UNCHANGED <<manifest, strict, audit, exit, faulted, loosened>>
      /\ \A g \in Families : InOrder(estate[g], time)
      /\ estate[f] \in Consumers
  BY DEF WorldInv, Change, SameLocks
<1> QED
  BY <1>1, LaterParts

LEMMA NewRunTyped ==
    ASSUME time \in Nat, NEW f, estate[f].declared \in Seq(PolicyCommits),
           NEW branch \in Refs, NEW commit \in Nat
    PROVE  /\ NewRun(f, branch, commit) \in RunRecords
           /\ NewRun(f, branch, commit).id = time + 10
           /\ NewRun(f, branch, commit).started = time + 1
           /\ NewRun(f, branch, commit).success = FALSE
BY DEF NewRun, NextId, RunRecords

LEMMA StartReleaseGoesOn ==
    ASSUME WorldInv, StartRelease
    PROVE  GoesOn
<1>1. Change /\ SameLocks
  BY DEF StartRelease
<1>2. PICK f \in ReleaseFamilies, space \in Spaces :
        LET tag == [space |-> space, version |-> time + 1]
        IN  estate' = [estate EXCEPT
                ![f].runs = <<NewRun(f, tag, time + 1)>> \o @,
                ![f].releases = << [tag |-> tag, draft |-> TRUE, immutable |-> FALSE, published |-> 0,
                                    at |-> time + 1, assets |-> 1, digest |-> TRUE,
                                    signed |-> [run |-> NextId(f), policy |-> ExtractPin(f),
                                                tag |-> tag, head |-> time + 1]] >> \o @]
  BY DEF StartRelease
<1> DEFINE tag == [space |-> space, version |-> time + 1]
           run == NewRun(f, tag, time + 1)
           release == [tag |-> tag, draft |-> TRUE, immutable |-> FALSE, published |-> 0,
                       at |-> time + 1, assets |-> 1, digest |-> TRUE,
                       signed |-> [run |-> NextId(f), policy |-> ExtractPin(f),
                                   tag |-> tag, head |-> time + 1]]
           runs == estate[f].runs
           releases == estate[f].releases
           c == [estate[f] EXCEPT !.runs = <<run>> \o runs, !.releases = <<release>> \o releases]
<1>3. f \in Families
  BY FamiliesAreNotPolicy
<1>4. /\ time \in Nat /\ estate \in [Families -> Consumers] /\ time' = time + 1
      /\ UNCHANGED <<manifest, strict, audit, exit, faulted, loosened>>
      /\ \A g \in Families : InOrder(estate[g], time)
      /\ estate[f] \in Consumers
      /\ runs \in Seq(RunRecords) /\ releases \in Seq(ReleaseRecords)
      /\ estate[f].declared \in Seq(PolicyCommits) /\ estate[f].rulesets \in RulesetStates
      /\ RunsInOrder(runs, time) /\ ReleasesInOrder(releases, time)
  BY <1>1, <1>3, ChangeFacts
<1>5. tag \in Refs /\ tag.version = time + 1
  BY <1>4 DEF Refs
<1>6. ExtractPin(f) \in PolicyCommits \cup {NONE}
  <2>1. 1 \in DOMAIN estate[f].declared => estate[f].declared[1] \in PolicyCommits
    BY <1>4, ElementOfSeq, LenProperties
  <2> QED
    BY <1>4, <2>1, LenProperties DEF ExtractPin, OnlyOne
<1> HIDE DEF tag
<1>7. run \in RunRecords /\ run.id = time + 10 /\ run.started = time + 1 /\ run.success = FALSE
  <2>1. time + 1 \in Nat
    BY <1>4
  <2> QED
    BY <1>4, <1>5, <2>1, NewRunTyped
<1>8. release \in ReleaseRecords /\ release.tag = tag /\ release.draft
  BY <1>4, <1>5, <1>6 DEF ReleaseRecords, NextId
<1> HIDE DEF run, release
<1>9. estate' = [estate EXCEPT ![f] = c] /\ estate'[f] = c
  BY <1>2, <1>3, <1>4 DEF run, release, tag
<1>10. /\ c.runs = <<run>> \o runs /\ c.releases = <<release>> \o releases
       /\ c.declared = estate[f].declared /\ c.rulesets = estate[f].rulesets
       /\ DOMAIN c = DOMAIN estate[f]
  BY <1>4 DEF Consumers
<1>11. /\ <<run>> \o runs \in Seq(RunRecords) /\ RunsInOrder(<<run>> \o runs, time + 1)
       /\ RunsGoOn(f)
  <2>1. estate'[f].runs = <<run>> \o runs
    BY <1>9, <1>10
  <2> HIDE DEF c
  <2>2. estate[f].runs = runs
    OBVIOUS
  <2> HIDE DEF runs
  <2> QED
    BY <1>4, <1>7, <2>1, <2>2, RunAdded
<1>12. /\ <<release>> \o releases \in Seq(ReleaseRecords)
       /\ ReleasesInOrder(<<release>> \o releases, time + 1)
       /\ ReleasesGoOn(f)
  <2>1. estate'[f].releases = <<release>> \o releases
    BY <1>9, <1>10
  <2> HIDE DEF c
  <2>2. estate[f].releases = releases
    OBVIOUS
  <2> HIDE DEF releases
  <2> QED
    BY <1>4, <1>5, <1>8, <2>1, <2>2, ReleaseAdded
<1>13. c \in Consumers
  BY <1>4, <1>11, <1>12 DEF Consumers
<1> HIDE DEF c
<1>14. InOrder(c, time + 1)
  BY <1>10, <1>11, <1>12, OrderParts
<1> QED
  BY <1>3, <1>4, <1>9, <1>10, <1>11, <1>12, <1>13, <1>14, OneConsumer

LEMMA StartVerificationGoesOn ==
    ASSUME WorldInv, StartVerification
    PROVE  GoesOn
<1>1. Change /\ SameLocks
  BY DEF StartVerification
<1>2. PICK f \in Families \ ReleaseFamilies :
        estate' = [estate EXCEPT ![f].runs =
                      <<NewRun(f, [space |-> Main, version |-> 0], time + 1)>> \o @]
  BY DEF StartVerification
<1> DEFINE branch == [space |-> Main, version |-> 0]
           run == NewRun(f, branch, time + 1)
           runs == estate[f].runs
           c == [estate[f] EXCEPT !.runs = <<run>> \o runs]
<1>4. /\ time \in Nat /\ estate \in [Families -> Consumers] /\ time' = time + 1
      /\ UNCHANGED <<manifest, strict, audit, exit, faulted, loosened>>
      /\ \A g \in Families : InOrder(estate[g], time)
      /\ estate[f] \in Consumers
      /\ runs \in Seq(RunRecords) /\ estate[f].releases \in Seq(ReleaseRecords)
      /\ estate[f].declared \in Seq(PolicyCommits) /\ estate[f].rulesets \in RulesetStates
      /\ RunsInOrder(runs, time) /\ ReleasesInOrder(estate[f].releases, time + 1)
  BY <1>1, ChangeFacts
<1>5. branch \in Refs
  BY DEF Refs
<1>7. run \in RunRecords /\ run.id = time + 10 /\ run.started = time + 1 /\ run.success = FALSE
  <2>1. time + 1 \in Nat
    BY <1>4
  <2> HIDE DEF branch
  <2> QED
    BY <1>4, <1>5, <2>1, NewRunTyped
<1>9. estate' = [estate EXCEPT ![f] = c] /\ estate'[f] = c
  BY <1>2, <1>4
<1> HIDE DEF run
<1>10. /\ c.runs = <<run>> \o runs /\ c.releases = estate[f].releases
       /\ c.declared = estate[f].declared /\ c.rulesets = estate[f].rulesets
       /\ DOMAIN c = DOMAIN estate[f]
  BY <1>4 DEF Consumers
<1>11. /\ <<run>> \o runs \in Seq(RunRecords) /\ RunsInOrder(<<run>> \o runs, time + 1)
       /\ RunsGoOn(f)
  <2>1. estate'[f].runs = <<run>> \o runs
    BY <1>9, <1>10
  <2> HIDE DEF c
  <2>2. estate[f].runs = runs
    OBVIOUS
  <2> HIDE DEF runs
  <2> QED
    BY <1>4, <1>7, <2>1, <2>2, RunAdded
<1>12. ReleasesGoOn(f)
  BY <1>4, <1>9, <1>10, SameReleases
<1>13. c \in Consumers
  BY <1>4, <1>11, <1>12 DEF Consumers
<1> HIDE DEF c
<1>14. InOrder(c, time + 1)
  BY <1>4, <1>10, <1>11, OrderParts
<1> QED
  BY <1>4, <1>9, <1>10, <1>11, <1>12, <1>13, <1>14, OneConsumer

\* One release of a list changes, not its tag.
LEMMA ReleaseChanged ==
    ASSUME time \in Nat, NEW f, NEW releases \in Seq(ReleaseRecords),
           estate[f].releases = releases, ReleasesInOrder(releases, time + 1),
           NEW i \in DOMAIN releases, NEW s \in ReleaseRecords, Kept(f, releases[i], s),
           s.draft \/ ~releases[i].draft \/ s.published > time,
           NEW new, new = [releases EXCEPT ![i] = s],
           estate'[f].releases = new
    PROVE  new \in Seq(ReleaseRecords) /\ ReleasesInOrder(new, time + 1) /\ ReleasesGoOn(f)
<1>1. /\ DOMAIN releases = 1 .. Len(releases) /\ Len(releases) \in Nat
      /\ \A j \in DOMAIN releases : releases[j] \in ReleaseRecords
  BY LenProperties, ElementOfSeq
<1>2. /\ DOMAIN new = DOMAIN releases /\ new[i] = s
      /\ \A j \in DOMAIN releases : j # i => new[j] = releases[j]
  BY <1>1, LenProperties
<1>3. new \in Seq(ReleaseRecords)
  <2>1. new \in [1 .. Len(releases) -> ReleaseRecords]
    BY <1>1, LenProperties
  <2> QED
    BY <1>1, <2>1
<1>4. \A j \in DOMAIN releases : Kept(f, releases[j], new[j]) /\ new[j].tag = releases[j].tag
  <2> TAKE j \in DOMAIN releases
  <2>1. CASE j = i
    BY <1>2, <2>1 DEF Kept
  <2>2. CASE j # i
    BY <1>2, <2>2 DEF Kept
  <2> QED
    BY <2>1, <2>2
<1>5. ReleasesInOrder(new, time + 1)
  BY <1>2, <1>4 DEF ReleasesInOrder
<1>6. ReleasesGoOn(f)
  <2>1. \A j \in DOMAIN releases :
           j + 0 \in DOMAIN new /\ Kept(f, releases[j], new[j + 0])
    BY <1>1, <1>2, <1>4
  <2>2. \A j \in DOMAIN new : j - 0 \in DOMAIN releases
    BY <1>1, <1>2
  <2> QED
    BY <2>1, <2>2 DEF ReleasesGoOn
<1> QED
  BY <1>3, <1>5, <1>6

LEMMA ReleaseChangeGoesOn ==
    ASSUME WorldInv, Change, SameLocks, NEW f \in Families,
           NEW i \in DOMAIN estate[f].releases, NEW s \in ReleaseRecords,
           Kept(f, estate[f].releases[i], s),
           s.draft \/ ~estate[f].releases[i].draft \/ s.published > time,
           estate' = [estate EXCEPT ![f].releases[i] = s]
    PROVE  GoesOn
<1> DEFINE releases == estate[f].releases
           new == [releases EXCEPT ![i] = s]
           c == [estate[f] EXCEPT !.releases = new]
<1>1. /\ time \in Nat /\ estate \in [Families -> Consumers] /\ time' = time + 1
      /\ UNCHANGED <<manifest, strict, audit, exit, faulted, loosened>>
      /\ \A g \in Families : InOrder(estate[g], time)
      /\ estate[f] \in Consumers
      /\ releases \in Seq(ReleaseRecords) /\ estate[f].runs \in Seq(RunRecords)
      /\ estate[f].declared \in Seq(PolicyCommits) /\ estate[f].rulesets \in RulesetStates
      /\ RunsInOrder(estate[f].runs, time + 1) /\ ReleasesInOrder(releases, time + 1)
  BY ChangeFacts
<1>2. estate' = [estate EXCEPT ![f] = c] /\ estate'[f] = c
  BY <1>1
<1>3. c.releases = new /\ c.runs = estate[f].runs /\ c.declared = estate[f].declared
      /\ c.rulesets = estate[f].rulesets /\ DOMAIN c = DOMAIN estate[f]
  BY <1>1 DEF Consumers
<1>4. new \in Seq(ReleaseRecords) /\ ReleasesInOrder(new, time + 1) /\ ReleasesGoOn(f)
  <2>1. estate'[f].releases = new
    BY <1>2, <1>3
  <2>2. new = [releases EXCEPT ![i] = s] /\ estate[f].releases = releases
        /\ i \in DOMAIN releases /\ Kept(f, releases[i], s)
        /\ (s.draft \/ ~releases[i].draft \/ s.published > time)
    OBVIOUS
  <2> HIDE DEF c, new, releases
  <2> QED
    BY <1>1, <2>1, <2>2, ReleaseChanged
<1>5. RunsGoOn(f)
  BY <1>2, <1>3, SameRuns
<1> HIDE DEF new
<1>6. c \in Consumers
  BY <1>1, <1>4 DEF Consumers
<1>7. InOrder(c, time + 1)
  BY <1>1, <1>3, <1>4, OrderParts
<1> HIDE DEF c
<1> QED
  BY <1>1, <1>2, <1>3, <1>4, <1>5, <1>6, <1>7, OneConsumer

LEMMA PublishReleaseGoesOn ==
    ASSUME WorldInv, PublishRelease
    PROVE  GoesOn
<1>1. Change /\ SameLocks
  BY DEF PublishRelease
<1>a. PICK f \in ReleaseFamilies :
          \E i \in DOMAIN estate[f].releases :
              /\ estate[f].releases[i].draft
              /\ estate' = [estate EXCEPT ![f].releases[i] =
                                [@ EXCEPT !.draft = FALSE, !.immutable = TRUE, !.published = time + 1]]
  BY DEF PublishRelease
<1>2. PICK i \in DOMAIN estate[f].releases :
          /\ estate[f].releases[i].draft
          /\ estate' = [estate EXCEPT ![f].releases[i] =
                            [@ EXCEPT !.draft = FALSE, !.immutable = TRUE, !.published = time + 1]]
  BY <1>a
<1>3. f \in Families
  BY FamiliesAreNotPolicy
<1> DEFINE r == estate[f].releases[i]
           s == [r EXCEPT !.draft = FALSE, !.immutable = TRUE, !.published = time + 1]
<1>4. time \in Nat /\ estate \in [Families -> Consumers] /\ estate[f].releases \in Seq(ReleaseRecords)
  BY <1>1, <1>3, ChangeFacts
<1>5. r \in ReleaseRecords
  BY <1>4, ElementOfSeq, LenProperties
<1>6. estate' = [estate EXCEPT ![f].releases[i] = s]
  BY <1>2, <1>3, <1>4
<1> HIDE DEF r
<1>7. s \in ReleaseRecords /\ s.tag = r.tag /\ s.published > time
  <2>1. time + 1 \in Nat
    BY <1>4
  <2>2. s \in ReleaseRecords
    BY <1>5, <2>1 DEF ReleaseRecords
  <2>3. s.tag = r.tag /\ s.published = time + 1
    BY <1>5 DEF ReleaseRecords
  <2> QED
    BY <1>4, <2>2, <2>3
<1> HIDE DEF s
<1>8. r.draft
  BY <1>2 DEF r
<1>9. Kept(f, r, s)
  BY <1>7, <1>8 DEF Kept
<1> QED
  BY <1>1, <1>3, <1>6, <1>7, <1>9, ReleaseChangeGoesOn DEF r

LEMMA MoveTagGoesOn ==
    ASSUME WorldInv, MoveTag
    PROVE  GoesOn
<1>1. Change /\ SameLocks
  BY DEF MoveTag
<1>a. PICK f \in ReleaseFamilies :
          \E i \in DOMAIN estate[f].releases :
              /\ ~Stops(f, "update")
              /\ estate' = [estate EXCEPT ![f].releases[i].at = 0]
  BY DEF MoveTag
<1>2. PICK i \in DOMAIN estate[f].releases :
          /\ ~Stops(f, "update")
          /\ estate' = [estate EXCEPT ![f].releases[i].at = 0]
  BY <1>a
<1>3. f \in Families
  BY FamiliesAreNotPolicy
<1> DEFINE r == estate[f].releases[i]
           s == [r EXCEPT !.at = 0]
<1>4. estate \in [Families -> Consumers] /\ estate[f].releases \in Seq(ReleaseRecords)
  BY <1>1, <1>3, ChangeFacts
<1>5. r \in ReleaseRecords
  BY <1>4, ElementOfSeq, LenProperties
<1>6. estate' = [estate EXCEPT ![f].releases[i] = s]
  BY <1>2, <1>3, <1>4
<1> HIDE DEF r
<1>7. /\ s \in ReleaseRecords /\ s.tag = r.tag /\ s.published = r.published /\ s.draft = r.draft
      /\ s.immutable = r.immutable /\ s.signed = r.signed /\ r.draft \in BOOLEAN
  BY <1>5 DEF ReleaseRecords
<1> HIDE DEF s
<1>8. ~Locked(f)
  BY <1>2 DEF Locked
<1>9. Kept(f, r, s)
  BY <1>7, <1>8 DEF Kept
<1> QED
  BY <1>1, <1>3, <1>6, <1>7, <1>9, ReleaseChangeGoesOn DEF r

\* The runs of one consumer change.
LEMMA RunsChangeGoesOn ==
    ASSUME WorldInv, Change, SameLocks, NEW f \in Families, NEW runs \in Seq(RunRecords),
           RunsInOrder(runs, time + 1), RunsGoOn(f),
           estate' = [estate EXCEPT ![f].runs = runs]
    PROVE  GoesOn
<1> DEFINE c == [estate[f] EXCEPT !.runs = runs]
<1>1. /\ time \in Nat /\ estate \in [Families -> Consumers] /\ time' = time + 1
      /\ UNCHANGED <<manifest, strict, audit, exit, faulted, loosened>>
      /\ \A g \in Families : InOrder(estate[g], time)
      /\ estate[f] \in Consumers /\ estate[f].releases \in Seq(ReleaseRecords)
      /\ ReleasesInOrder(estate[f].releases, time + 1)
  BY ChangeFacts
<1>2. estate' = [estate EXCEPT ![f] = c] /\ estate'[f] = c
  BY <1>1
<1>3. c.runs = runs /\ c.releases = estate[f].releases /\ c.rulesets = estate[f].rulesets
  BY <1>1 DEF Consumers
<1>4. c \in Consumers
  BY <1>1 DEF Consumers
<1>5. InOrder(c, time + 1)
  BY <1>1, <1>3, OrderParts
<1>6. ReleasesGoOn(f)
  BY <1>1, <1>2, <1>3, SameReleases
<1> HIDE DEF c
<1> QED
  BY <1>1, <1>2, <1>3, <1>4, <1>5, <1>6, OneConsumer

LEMMA FinishRunGoesOn ==
    ASSUME WorldInv, FinishRun
    PROVE  GoesOn
<1>1. Change /\ SameLocks
  BY DEF FinishRun
<1>a. PICK f \in Families :
          \E i \in DOMAIN estate[f].runs :
              /\ ~estate[f].runs[i].success
              /\ estate' = [estate EXCEPT ![f].runs[i] = [@ EXCEPT !.success = TRUE, !.finished = time + 1]]
  BY DEF FinishRun
<1>2. PICK i \in DOMAIN estate[f].runs :
          /\ ~estate[f].runs[i].success
          /\ estate' = [estate EXCEPT ![f].runs[i] = [@ EXCEPT !.success = TRUE, !.finished = time + 1]]
  BY <1>a
<1> DEFINE runs == estate[f].runs
           r == runs[i]
           s == [r EXCEPT !.success = TRUE, !.finished = time + 1]
           new == [runs EXCEPT ![i] = s]
<1>3. time \in Nat /\ estate \in [Families -> Consumers] /\ runs \in Seq(RunRecords)
      /\ RunsInOrder(runs, time + 1)
  BY <1>1, ChangeFacts
<1>4. estate' = [estate EXCEPT ![f].runs = new]
  BY <1>2, <1>3
<1>5. estate'[f].runs = new /\ estate[f].runs = runs /\ i \in DOMAIN runs /\ ~runs[i].success
  BY <1>2, <1>3, <1>4 DEF Consumers
<1> HIDE DEF runs
<1>6. /\ DOMAIN runs = 1 .. Len(runs) /\ Len(runs) \in Nat
      /\ \A j \in DOMAIN runs : runs[j] \in RunRecords
  BY <1>3, LenProperties, ElementOfSeq
<1>7. r \in RunRecords /\ ~r.success
  BY <1>5, <1>6
<1> HIDE DEF r
<1>8. /\ s \in RunRecords /\ s.id = r.id /\ s.started = r.started /\ s.success = TRUE
      /\ s.finished > time
  <2>1. time + 1 \in Nat
    BY <1>3
  <2>2. s \in RunRecords
    BY <1>7, <2>1 DEF RunRecords
  <2>3. s.id = r.id /\ s.started = r.started /\ s.success = TRUE /\ s.finished = time + 1
    BY <1>7 DEF RunRecords
  <2> QED
    BY <1>3, <2>2, <2>3
<1> HIDE DEF s
<1>9. /\ DOMAIN new = DOMAIN runs /\ new[i] = s
      /\ \A j \in DOMAIN runs : j # i => new[j] = runs[j]
  BY <1>5, <1>6, LenProperties
<1>10. new \in Seq(RunRecords)
  <2>1. new \in [1 .. Len(runs) -> RunRecords]
    BY <1>3, <1>6, <1>8, LenProperties
  <2> QED
    BY <1>6, <2>1
<1> HIDE DEF new
<1>11. \A j \in DOMAIN runs : new[j].id = runs[j].id /\ new[j].started = runs[j].started
  <2> TAKE j \in DOMAIN runs
  <2>1. CASE j = i
    BY <1>8, <1>9, <2>1 DEF r
  <2>2. CASE j # i
    BY <1>9, <2>2
  <2> QED
    BY <2>1, <2>2
<1>12. RunsInOrder(new, time + 1)
  BY <1>3, <1>9, <1>11 DEF RunsInOrder
<1>13. RunsGoOn(f)
  <2>1. ASSUME NEW q \in Successes(f)' PROVE q \in Successes(f) \/ q.finished > time
    <3>1. PICK j \in DOMAIN new : q = new[j] /\ new[j].success
      BY <1>5 DEF Successes, Range
    <3>2. CASE j = i
      BY <1>8, <1>9, <3>1, <3>2
    <3>3. CASE j # i
      BY <1>5, <1>9, <3>1, <3>3 DEF Successes, Range
    <3> QED
      BY <3>2, <3>3
  <2>2. ASSUME NEW q \in Successes(f) PROVE q \in Successes(f)'
    <3>1. PICK j \in DOMAIN runs : q = runs[j] /\ runs[j].success
      BY <1>5 DEF Successes, Range
    <3>2. j # i
      BY <1>5, <3>1
    <3> QED
      BY <1>5, <1>9, <3>1, <3>2 DEF Successes, Range
  <2>3. ASSUME NEW q \in Range(new)
        PROVE  \E p \in Range(runs) : p.id = q.id /\ p.started = q.started
    BY <1>9, <1>11 DEF Range
  <2> QED
    BY <1>5, <2>1, <2>2, <2>3 DEF RunsGoOn
<1> QED
  BY <1>1, <1>4, <1>10, <1>12, <1>13, RunsChangeGoesOn

LEMMA DeleteRunGoesOn ==
    ASSUME WorldInv, DeleteRun
    PROVE  GoesOn
<1>1. Change /\ SameLocks
  BY DEF DeleteRun
<1>2. PICK f \in Families :
          /\ estate[f].runs # <<>>
          /\ estate' = [estate EXCEPT ![f].runs = SubSeq(@, 1, Len(@) - 1)]
  BY DEF DeleteRun
<1> DEFINE runs == estate[f].runs
           n == Len(runs)
           new == SubSeq(runs, 1, n - 1)
<1>3. time \in Nat /\ estate \in [Families -> Consumers] /\ runs \in Seq(RunRecords)
      /\ RunsInOrder(runs, time + 1)
  BY <1>1, ChangeFacts
<1>4. estate' = [estate EXCEPT ![f].runs = new]
  BY <1>2, <1>3
<1>5. estate'[f].runs = new /\ estate[f].runs = runs /\ runs # <<>>
  BY <1>2, <1>3, <1>4 DEF Consumers
<1> HIDE DEF runs
<1>6. /\ DOMAIN runs = 1 .. n /\ n \in Nat \ {0}
      /\ \A j \in DOMAIN runs : runs[j] \in RunRecords
  BY <1>3, <1>5, EmptySeq, LenProperties, ElementOfSeq
<1>7. /\ new \in Seq(RunRecords) /\ DOMAIN new = 1 .. n - 1
      /\ \A j \in 1 .. n - 1 : new[j] = runs[j]
  <2>1. new \in Seq(RunRecords) /\ Len(new) = n - 1 /\ \A j \in 1 .. n - 1 : new[j] = runs[1 + j - 1]
    BY <1>3, <1>6, SubSeqProperties
  <2>2. \A j \in 1 .. n - 1 : 1 + j - 1 = j
    BY <1>6
  <2> QED
    BY <2>1, <2>2, LenProperties
<1> HIDE DEF new, n
<1>8. DOMAIN new \subseteq DOMAIN runs
  BY <1>6, <1>7
<1>12. RunsInOrder(new, time + 1)
  BY <1>3, <1>7, <1>8 DEF RunsInOrder
<1>13. RunsGoOn(f)
  <2>1. ASSUME NEW q \in Range(new) PROVE q \in Range(runs)
    BY <1>7, <1>8 DEF Range
  <2>2. ASSUME NEW q \in Range(new), NEW p \in Range(runs), p.started >= q.started
        PROVE  p \in Range(new)
    <3>1. PICK j \in 1 .. n - 1 : q = runs[j]
      BY <1>7 DEF Range
    <3>2. PICK k \in 1 .. n : p = runs[k]
      BY <1>6 DEF Range
    <3>3. k # n
      <4> SUFFICES ASSUME k = n PROVE FALSE
        OBVIOUS
      <4>1. j \in DOMAIN runs /\ k \in DOMAIN runs /\ j < k
        BY <1>6, <3>1
      <4>2. p.started < q.started
        BY <1>3, <3>1, <3>2, <4>1 DEF RunsInOrder
      <4>3. p.started \in Nat /\ q.started \in Nat
        BY <1>6, <3>1, <3>2, <4>1 DEF RunRecords
      <4> QED
        BY <2>2, <4>2, <4>3
    <3> QED
      BY <1>6, <1>7, <3>2, <3>3 DEF Range
  <2> QED
    BY <1>5, <2>1, <2>2 DEF RunsGoOn, Successes
<1> QED
  BY <1>1, <1>4, <1>7, <1>12, <1>13, RunsChangeGoesOn

LEMMA WorldGoesOn ==
    ASSUME WorldInv,
           \/ MoveMain \/ MovePolicyTag \/ SetRulesets \/ Repin
           \/ StartRelease \/ PublishRelease \/ StartVerification \/ FinishRun \/ DeleteRun \/ MoveTag
    PROVE  GoesOn
<1>1. CASE MoveMain \/ MovePolicyTag
  BY <1>1, PolicyChanges DEF MoveMain, MovePolicyTag, SameLocks
<1>2. CASE SetRulesets \/ Repin \/ StartRelease
  BY <1>2, RulesetsGoOn, RepinGoesOn, StartReleaseGoesOn
<1>3. CASE PublishRelease \/ StartVerification \/ FinishRun \/ DeleteRun \/ MoveTag
  BY <1>3, PublishReleaseGoesOn, StartVerificationGoesOn, FinishRunGoesOn, DeleteRunGoesOn,
     MoveTagGoesOn
<1> QED
  BY <1>1, <1>2, <1>3

CoreInv == WorldInv /\ PositionInv /\ ProgressInv /\ PassInv /\ EndsInv

LEMMA WorldKeeps ==
    ASSUME CoreInv, GoesOn
    PROVE  CoreInv'
<1>1. /\ audit' = audit /\ manifest' = manifest /\ exit' = exit /\ (Running' <=> Running)
      /\ time \in Nat /\ time' = time + 1 /\ estate \in [Families -> Consumers]
      /\ estate' \in [Families -> Consumers]
      /\ loosened \subseteq loosened'
  BY DEF GoesOn, CoreInv, WorldInv, Running
<1>2. WorldInv'
  <2>1. ASSUME Running
        PROVE  /\ audit.now \in Nat /\ audit.now <= time + 1
               /\ \A f \in Families : Locked(f)' \/ f \in loosened'
    BY <1>1, <2>1 DEF GoesOn, CoreInv, WorldInv
  <2>2. \A f \in Families : InOrder(estate'[f], time')
    BY DEF GoesOn
  <2>3. time' \in Nat
    BY <1>1
  <2> QED
    BY <1>1, <2>1, <2>2, <2>3 DEF WorldInv
<1>3. PositionInv'
  <2>1. entry' = entry /\ family' = family
    BY <1>1 DEF entry, family
  <2>2. (Early' <=> Early) /\ (OfConsumer' <=> OfConsumer)
    BY <1>1 DEF Early, OfPolicy, OfConsumer
  <2>3. Late' <=> Late
    BY <1>1 DEF Late, OfConsumer
  <2> QED
    BY <1>1, <2>1, <2>2, <2>3 DEF CoreInv, PositionInv
<1>4. ASSUME Running, NEW e, e.family \in Families
      PROVE  /\ Holds(e) => Holds(e)'
             /\ (\E r \in ReleasesAt(e.family, e.ref) : r.immutable)
                    => (\E r \in ReleasesAt(e.family, e.ref) : r.immutable)'
             /\ (\E r \in ReleasesAt(e.family, e.ref) : e.family \in loosened \/ r.at = e.head)
                    => (\E r \in ReleasesAt(e.family, e.ref) : e.family \in loosened \/ r.at = e.head)'
             /\ NewestRelease(e) => NewestRelease(e)'
             /\ audit.page \in Nat \ {0} /\ Gathered(e) => Gathered(e)'
             /\ NewestRun(e) => NewestRun(e)'
             /\ NewestVerification(e) => NewestVerification(e)'
             /\ Matched(e) => Matched(e)'
             /\ audit.page \in Nat \ {0} /\ NoneSoFar(e) => NoneSoFar(e)'
  <2>1. /\ audit.now \in Nat /\ audit.now <= time /\ time' \in Nat /\ time <= time'
        /\ Locked(e.family) \/ e.family \in loosened
    BY <1>1, <1>4 DEF CoreInv, WorldInv
  <2>2. ReleasesGoOn(e.family) /\ RunsGoOn(e.family)
    BY <1>4 DEF GoesOn
  <2>3. /\ Holds(e) => Holds(e)'
        /\ (\E r \in ReleasesAt(e.family, e.ref) : r.immutable)
               => (\E r \in ReleasesAt(e.family, e.ref) : r.immutable)'
        /\ (\E r \in ReleasesAt(e.family, e.ref) : e.family \in loosened \/ r.at = e.head)
               => (\E r \in ReleasesAt(e.family, e.ref) : e.family \in loosened \/ r.at = e.head)'
        /\ NewestRelease(e) => NewestRelease(e)'
        /\ audit.page \in Nat \ {0} /\ Gathered(e) => Gathered(e)'
    BY <1>1, <1>4, <2>1, <2>2, ReleaseFactsLast
  <2>4. /\ NewestRun(e) => NewestRun(e)'
        /\ NewestVerification(e) => NewestVerification(e)'
        /\ Matched(e) => Matched(e)'
        /\ audit.page \in Nat \ {0} /\ NoneSoFar(e) => NoneSoFar(e)'
    BY <1>1, <1>4, <2>1, <2>2, RunFactsLast
  <2> QED
    BY <2>3, <2>4
<1>5. ProgressInv'
  <2> SUFFICES ASSUME Running, ~audit.failing, audit.rest # <<>> PROVE ProgressInv'
    BY <1>1 DEF ProgressInv
  <2>1. PICK e : e = entry
    OBVIOUS
  <2>2. e = entry' /\ e.family = family /\ e.family = family'
    BY <1>1, <2>1 DEF entry, family
  <2>3. e.family \in Families /\ (audit.pc \in {"Releases", "Runs"} => audit.page \in Nat \ {0})
    <3>1. /\ audit.rest \in Seq(Range(manifest.families))
          /\ \A x \in Range(manifest.families) : x.family \in Families
          /\ audit.pc \in {"Releases", "Runs"} => audit.page \in Nat \ {0}
      BY DEF CoreInv, PositionInv
    <3>2. e \in Range(manifest.families)
      BY <2>1, <3>1, HeadAndTail DEF entry
    <3> QED
      BY <3>1, <3>2
  <2>4. Progress(e)
    BY <2>1 DEF CoreInv, ProgressInv
  <2>5. Progress(e)'
    BY <1>1, <1>4, <2>3, <2>4 DEF Progress, Late, OfConsumer, HasExpired
  <2> QED
    BY <2>2, <2>5 DEF ProgressInv
<1>6. PassInv'
  <2> SUFFICES ASSUME Running, ~audit.failing,
                      NEW e \in Range(manifest.families), e \notin Range(audit.rest)
               PROVE  IsSound(e)'
    BY <1>1 DEF PassInv
  <2>1. e.family \in Families /\ IsSound(e)
    BY DEF CoreInv, PositionInv, PassInv
  <2> QED
    BY <1>4, <2>1 DEF IsSound
<1>7. EndsInv'
  BY <1>1 DEF CoreInv, EndsInv
<1> QED
  BY <1>2, <1>3, <1>5, <1>6, <1>7 DEF CoreInv

-----------------------------------------------------------------------------
\* Of two values of the audit: they are at the same canary, know the same of it.
Agree(a, b) ==
    /\ a.rest = b.rest /\ a.now = b.now /\ a.expired = b.expired /\ a.repo = b.repo
    /\ a.gathered = b.gathered

LEMMA Values ==
    ASSUME ReportInv, NEW pc, NEW condition
    PROVE  /\ Agree(At(pc), audit) /\ At(pc).pc = pc /\ At(pc).page = 1
           /\ At(pc).failing = audit.failing
           /\ Agree(Error(At(pc)), audit) /\ Error(At(pc)).pc = pc /\ Error(At(pc)).page = 1
           /\ Error(At(pc)).failing = TRUE
           /\ Agree(Checked(condition, At(pc)), audit) /\ Checked(condition, At(pc)).pc = pc
           /\ Checked(condition, At(pc)).page = 1
           /\ Checked(condition, At(pc)).failing = (audit.failing \/ ~condition)
<1>1. /\ Agree(At(pc), audit) /\ At(pc).pc = pc /\ At(pc).page = 1
      /\ At(pc).failing = audit.failing
  BY DEF ReportInv, Idle, At, Agree
<1>2. DOMAIN At(pc) = DOMAIN Idle
  BY DEF ReportInv, Idle, At
<1>3. /\ Agree(Error(At(pc)), audit) /\ Error(At(pc)).pc = pc /\ Error(At(pc)).page = 1
      /\ Error(At(pc)).failing = TRUE
  BY <1>1, <1>2 DEF Idle, Error, Agree
<1>4. audit.failing \in BOOLEAN
  BY DEF ReportInv
<1>5. CASE condition
  BY <1>1, <1>3, <1>4, <1>5 DEF Checked
<1>6. CASE ~condition
  BY <1>1, <1>3, <1>4, <1>6 DEF Checked
<1> QED
  BY <1>1, <1>3, <1>5, <1>6

EarlyAt(a) ==
    \/ a.pc \in {"Pin", "Compare", "Tags", "TagCompare", "Tree", "History", "Run"}
    \/ a.pc \in {"Rulesets", "Ruleset"} /\ a.repo = POLICY
OfConsumerAt(a) == a.pc \in {"Rulesets", "Ruleset"} /\ a.repo # POLICY
OfReleasesAt(a) == a.pc \in {"Release", "TagCommit", "Provenance", "Releases"}

\* Where the audit may be after a read.
Move(a) ==
    /\ a.rest = audit.rest /\ a.now = audit.now /\ (audit.failing => a.failing)
    /\ EarlyAt(a) => ~a.expired
    /\ OfConsumerAt(a) => a.repo = family /\ family \in ReleaseFamilies
    /\ OfReleasesAt(a) => family \in ReleaseFamilies
    /\ a.pc = "Current" => family \notin ReleaseFamilies
    /\ a.pc \in {"Releases", "Runs"} => a.page \in Nat \ {0}
    /\ a.pc # "Releases" => a.gathered = {}
    /\ EarlyAt(a) \/ OfConsumerAt(a) \/ OfReleasesAt(a) \/ a.pc \in {"Runs", "Current", "Finish"}

\* A read changes nothing but the audit.
Looks ==
    /\ UNCHANGED <<policy, estate, time, manifest, strict, exit>>
    /\ \A f \in Families : f \in loosened' <=> f \in loosened

\* What there is to say of a canary does not change with a read.
LEMMA SameFacts ==
    ASSUME CoreInv, Looks, audit'.now = audit.now, NEW e, e.family \in Families
    PROVE  /\ Holds(e)' <=> Holds(e)
           /\ NewestRelease(e)' <=> NewestRelease(e)
           /\ NewestRun(e)' <=> NewestRun(e)
           /\ NewestVerification(e)' <=> NewestVerification(e)
           /\ Matched(e)' <=> Matched(e)
           /\ IsSound(e)' <=> IsSound(e)
<1>1. estate' = estate /\ time' = time /\ (e.family \in loosened' <=> e.family \in loosened)
  BY DEF Looks
<1>2. Successes(e.family)' = Successes(e.family)
  BY <1>1 DEF Successes
<1>3. ReleasesAt(e.family, e.ref)' = ReleasesAt(e.family, e.ref)
  BY <1>1 DEF ReleasesAt
<1>4. Holds(e)' <=> Holds(e)
  BY <1>1, <1>3 DEF Holds
<1>5. NewestRelease(e)' <=> NewestRelease(e)
  BY <1>1, <1>3 DEF NewestRelease
<1>6. (NewestRun(e)' <=> NewestRun(e)) /\ (NewestVerification(e)' <=> NewestVerification(e))
  BY <1>2 DEF NewestRun, NewestVerification
<1>7. Matched(e)' <=> Matched(e)
  BY <1>1 DEF Matched, RunsNamed
<1> QED
  BY <1>4, <1>5, <1>6, <1>7 DEF IsSound

LEMMA MoveKeeps ==
    ASSUME CoreInv, audit.pc \notin {"Start", "Render", "Done"}, Looks, Move(audit'),
           audit.failing \in BOOLEAN,
           \A e : Running /\ e = entry /\ e.family \in Families /\ ~audit'.failing => Progress(e)'
    PROVE  CoreInv'
<1>1. /\ manifest' = manifest /\ exit' = exit /\ estate' = estate /\ time' = time
      /\ audit'.rest = audit.rest /\ audit'.now = audit.now
      /\ \A f \in Families : f \in loosened' <=> f \in loosened
      /\ audit.failing => audit'.failing
  BY DEF Looks, Move
<1>2. audit'.pc \notin {"Start", "Render", "Done"}
  BY DEF Move, EarlyAt, OfConsumerAt, OfReleasesAt
<1>3. Running' <=> Running
  BY <1>1, <1>2 DEF Running
<1>4. entry' = entry /\ family' = family
  BY <1>1 DEF entry, family
<1>5. WorldInv'
  <2>1. \A f \in Families : Locked(f)' <=> Locked(f)
    BY <1>1, FamiliesAreNotPolicy DEF Locked, Stops, RulesetsOf
  <2>2. Running => /\ audit.now \in Nat /\ audit.now <= time
                   /\ \A f \in Families : Locked(f) \/ f \in loosened
    BY DEF CoreInv, WorldInv
  <2>3. /\ time \in Nat /\ estate \in [Families -> Consumers]
        /\ \A f \in Families : InOrder(estate[f], time)
    BY DEF CoreInv, WorldInv
  <2> QED
    BY <1>1, <1>3, <2>1, <2>2, <2>3 DEF WorldInv
<1>6. PositionInv'
  <2> SUFFICES ASSUME Running PROVE PositionInv'
    BY <1>3 DEF PositionInv
  <2>1. /\ audit.rest \in Seq(Range(manifest.families)) /\ audit.rest # <<>>
        /\ \A e \in Range(manifest.families) : e.family \in Families
    BY DEF CoreInv, PositionInv
  <2>2. (Early' <=> EarlyAt(audit')) /\ (OfConsumer' <=> OfConsumerAt(audit'))
    BY DEF Early, OfPolicy, EarlyAt, OfConsumer, OfConsumerAt
  <2>3. Late' <=> OfConsumerAt(audit') \/ audit'.pc \in {"Runs", "Current", "Finish"}
    BY DEF Late, OfConsumer, OfConsumerAt
  <2> QED
    BY <1>1, <1>2, <1>4, <2>1, <2>2, <2>3 DEF PositionInv, Move, OfReleasesAt
<1>7. ProgressInv'
  <2> SUFFICES ASSUME Running, ~audit'.failing PROVE ProgressInv'
    BY <1>3 DEF ProgressInv
  <2>1. PICK e : e = entry
    OBVIOUS
  <2>2. e.family \in Families
    <3>1. /\ audit.rest \in Seq(Range(manifest.families)) /\ audit.rest # <<>>
          /\ \A x \in Range(manifest.families) : x.family \in Families
      BY DEF CoreInv, PositionInv
    <3> QED
      BY <2>1, <3>1, HeadAndTail DEF entry
  <2>3. Progress(e)'
    BY <2>1, <2>2
  <2>4. e = entry'
    BY <1>4, <2>1
  <2> QED
    BY <2>3, <2>4 DEF ProgressInv
<1>8. PassInv'
  <2> SUFFICES ASSUME Running, ~audit'.failing,
                      NEW e \in Range(manifest.families), e \notin Range(audit.rest)
               PROVE  IsSound(e)'
    BY <1>1, <1>3 DEF PassInv
  <2>1. e.family \in Families /\ IsSound(e)
    BY <1>1 DEF CoreInv, PositionInv, PassInv
  <2> QED
    BY <1>1, <2>1, SameFacts
<1>9. EndsInv'
  BY <1>1, <1>2 DEF CoreInv, EndsInv
<1> QED
  BY <1>5, <1>6, <1>7, <1>8, <1>9 DEF CoreInv

\* The audit and its report while a canary is checked.
ReadInv == ReportInv /\ CoreInv
Reads == {"Pin", "Compare", "Rulesets", "Ruleset", "Tags", "TagCompare", "Tree", "History", "Run",
          "Release", "TagCommit", "Provenance", "Releases", "Runs", "Current", "Finish"}

LEMMA WhileReading ==
    ASSUME ReadInv, audit.pc \in Reads
    PROVE  /\ Running /\ audit.pc \notin {"Start", "Render", "Done"} /\ audit.failing \in BOOLEAN
           /\ audit.rest # <<>> /\ family \in Families
           /\ Early \/ Late \/ OfReleasesAt(audit)
           /\ Early => ~audit.expired
           /\ OfConsumer => audit.repo = family /\ family \in ReleaseFamilies
           /\ OfReleasesAt(audit) => family \in ReleaseFamilies
           /\ audit.pc = "Current" => family \notin ReleaseFamilies
           /\ audit.pc \in {"Releases", "Runs"} => audit.page \in Nat \ {0}
           /\ audit.pc # "Releases" => audit.gathered = {}
           /\ ~audit.failing => Progress(entry)
           /\ audit.now \in Nat /\ estate[family] \in Consumers /\ InOrder(estate[family], time)
           /\ Locked(family) \/ family \in loosened
<1>1. audit.pc \notin {"Start", "Render", "Done"} /\ audit.failing \in BOOLEAN
  BY DEF Reads, ReadInv, ReportInv
<1>2. Running
  BY <1>1, CanaryConstants DEF ReadInv, ReportInv, Running, CanaryAssumption
<1>3. /\ audit.rest \in Seq(Range(manifest.families)) /\ audit.rest # <<>>
      /\ \A e \in Range(manifest.families) : e.family \in Families
      /\ Early => ~audit.expired
      /\ OfConsumer => audit.repo = family /\ family \in ReleaseFamilies
      /\ OfReleasesAt(audit) => family \in ReleaseFamilies
      /\ audit.pc = "Current" => family \notin ReleaseFamilies
      /\ audit.pc \in {"Releases", "Runs"} => audit.page \in Nat \ {0}
      /\ audit.pc # "Releases" => audit.gathered = {}
      /\ Early \/ Late \/ OfReleasesAt(audit)
  BY <1>1, <1>2 DEF ReadInv, CoreInv, PositionInv, OfReleasesAt
<1>4. family \in Families
  BY <1>3, HeadAndTail DEF family, entry
<1>5. ~audit.failing => Progress(entry)
  BY <1>2, <1>3 DEF ReadInv, CoreInv, ProgressInv
<1>6. /\ audit.now \in Nat /\ estate[family] \in Consumers /\ InOrder(estate[family], time)
      /\ Locked(family) \/ family \in loosened
  BY <1>2, <1>4 DEF ReadInv, CoreInv, WorldInv
<1> QED
  BY <1>1, <1>2, <1>3, <1>4, <1>5, <1>6

LEMMA ReadingLooks ==
    ASSUME NEW from, Reading(from)
    PROVE  /\ audit.pc = from
           /\ \A pc : Unread(pc) => Looks /\ audit' = Error(At(pc))
           /\ \A a : Continue(a) => Looks /\ audit' = a
<1>1. audit.pc = from /\ UNCHANGED <<policy, estate, time, manifest, strict, exit>>
  BY DEF Reading
<1> QED
  BY <1>1 DEF Unread, Continue, Looks

\* The checks before the run is read.
LEMMA EarlyKeeps ==
    ASSUME ReadInv, audit.pc \in Reads, Early, Looks,
           audit'.rest = audit.rest, audit'.now = audit.now, audit'.expired = audit.expired,
           audit'.gathered = audit.gathered, audit.failing => audit'.failing, EarlyAt(audit')
    PROVE  CoreInv'
<1>1. /\ audit.pc \notin {"Start", "Render", "Done"} /\ ~audit.expired /\ audit.gathered = {}
      /\ audit.failing \in BOOLEAN
  BY WhileReading DEF Early, OfPolicy
<1>2. Move(audit')
  BY <1>1 DEF Move, EarlyAt, OfConsumerAt, OfReleasesAt
<1>3. \A e : Progress(e)'
  BY DEF Progress, EarlyAt, Late, OfConsumer
<1> QED
  BY <1>1, <1>2, <1>3, MoveKeeps DEF ReadInv

LEMMA PinCore == ASSUME ReadInv, ReadPin PROVE CoreInv'
<1> DEFINE a == Checked(ExtractPin(family) = entry.pin, At("Compare"))
           b == Error(At("Compare"))
<1>1. Reading("Pin") /\ (Unread("Compare") \/ Continue(a))
  BY DEF ReadPin
<1>2. /\ Agree(a, audit) /\ a.pc = "Compare" /\ (audit.failing => a.failing)
      /\ Agree(b, audit) /\ b.pc = "Compare" /\ b.failing
  BY Values DEF ReadInv
<1> HIDE DEF a
<1>3. audit.pc = "Pin" /\ Looks /\ (audit' = a \/ audit' = b)
  BY <1>1, ReadingLooks DEF b
<1> HIDE DEF b
<1>4. EarlyAt(a) /\ EarlyAt(b) /\ Early /\ audit.pc \in Reads
  BY <1>2, <1>3 DEF EarlyAt, Early, Reads
<1> QED
  BY <1>2, <1>3, <1>4, EarlyKeeps DEF Agree

LEMMA CompareCore == ASSUME ReadInv, ReadCompare PROVE CoreInv'
<1> DEFINE r == [At("Rulesets") EXCEPT !.repo = POLICY]
           a == At("Run")
           b == Error(At("Run"))
<1>1. Reading("Compare") /\ (Unread("Run") \/ Continue(a) \/ Continue(r))
  BY DEF ReadCompare
<1>2. /\ Agree(a, audit) /\ a.pc = "Run" /\ (audit.failing => a.failing)
      /\ Agree(b, audit) /\ b.pc = "Run" /\ b.failing
  BY Values DEF ReadInv
<1>3. /\ r.rest = audit.rest /\ r.now = audit.now /\ r.expired = audit.expired
      /\ r.gathered = audit.gathered /\ r.repo = POLICY /\ r.pc = "Rulesets"
      /\ r.failing = audit.failing
  BY DEF ReadInv, ReportInv, At, Idle
<1> HIDE DEF a, r
<1>4. audit.pc = "Compare" /\ Looks /\ (audit' = a \/ audit' = b \/ audit' = r)
  BY <1>1, ReadingLooks DEF b
<1> HIDE DEF b
<1>5. EarlyAt(a) /\ EarlyAt(b) /\ EarlyAt(r) /\ Early /\ audit.pc \in Reads
  BY <1>2, <1>3, <1>4 DEF EarlyAt, Early, Reads
<1> QED
  BY <1>2, <1>3, <1>4, <1>5, EarlyKeeps DEF Agree

\* A value of the same canary, before its run is read.
EarlyValue(a) ==
    /\ a.rest = audit.rest /\ a.now = audit.now /\ a.expired = audit.expired
    /\ a.gathered = audit.gathered /\ (audit.failing => a.failing) /\ EarlyAt(a)

LEMMA EarlyRuns ==
    ASSUME ReadInv
    PROVE  EarlyValue(At("Run")) /\ EarlyValue(Error(At("Run"))) /\ EarlyValue(At("History"))
BY Values, ZenonT(60) DEF ReadInv, EarlyValue, EarlyAt, Agree

LEMMA TagsCore == ASSUME ReadInv, ReadTags PROVE CoreInv'
<1> DEFINE there == { t \in PolicyTags : policy.tags[t] # NONE }
           listed(order) == [i \in DOMAIN order |->
                                [name |-> order[i], sha |-> policy.tags[order[i]]]]
           a(order) == [At("TagCompare") EXCEPT !.todo = listed(order)]
           b == Error(At("Run"))
<1>1. /\ Reading("Tags")
      /\ \/ Unread("Run") \/ Continue(b)
         \/ \E order \in [1 .. Cardinality(there) -> there] : Continue(a(order))
  BY DEF ReadTags
<1>2. \A order : EarlyValue(a(order))
  <2> TAKE order
  <2> DEFINE list == listed(order)
  <2> HIDE DEF list
  <2>1. a(order) = [At("TagCompare") EXCEPT !.todo = list]
    BY DEF list
  <2> HIDE DEF a
  <2> QED
    BY <2>1 DEF ReadInv, ReportInv, At, Idle, EarlyValue, EarlyAt
<1> HIDE DEF a
<1>3. audit.pc = "Tags" /\ Looks /\ (audit' = b \/ \E order : audit' = a(order))
  BY <1>1, ReadingLooks
<1>4. EarlyValue(audit')
  BY <1>2, <1>3, EarlyRuns
<1>5. Early /\ audit.pc \in Reads
  BY <1>3 DEF Early, Reads
<1> QED
  BY <1>3, <1>4, <1>5, EarlyKeeps DEF EarlyValue

LEMMA TagCompareCore == ASSUME ReadInv, ReadTagCompare PROVE CoreInv'
<1> DEFINE a == [At("Tree") EXCEPT !.admitting = Head(audit.todo).name]
           c == [audit EXCEPT !.todo = Tail(audit.todo)]
           b == Error(At("Run"))
<1>1. Reading("TagCompare") /\ (Unread("Run") \/ Continue(a) \/ Continue(b) \/ Continue(c))
  BY DEF ReadTagCompare
<1>2. audit.pc = "TagCompare"
  BY <1>1 DEF Reading
<1>3. EarlyValue(a)
  BY DEF ReadInv, ReportInv, At, Idle, EarlyValue, EarlyAt
<1>4. EarlyValue(c)
  BY <1>2 DEF ReadInv, ReportInv, Idle, EarlyValue, EarlyAt
<1> HIDE DEF a, c
<1>5. Looks /\ (audit' = a \/ audit' = b \/ audit' = c)
  BY <1>1, ReadingLooks
<1>6. EarlyValue(audit')
  BY <1>3, <1>4, <1>5, EarlyRuns
<1>7. Early /\ audit.pc \in Reads
  BY <1>2 DEF Early, Reads
<1> QED
  BY <1>5, <1>6, <1>7, EarlyKeeps DEF EarlyValue

LEMMA HistoryCore == ASSUME ReadInv, ReadTree \/ ReadHistory PROVE CoreInv'
<1>1. CASE ReadTree
  <2>1. Reading("Tree") /\ (Unread("Run") \/ Continue(At("History")))
    BY <1>1 DEF ReadTree
  <2>2. audit.pc = "Tree" /\ Looks /\ (audit' = Error(At("Run")) \/ audit' = At("History"))
    BY <2>1, ReadingLooks
  <2>3. EarlyValue(audit') /\ Early /\ audit.pc \in Reads
    BY <2>2, EarlyRuns DEF Early, Reads
  <2> QED
    BY <2>2, <2>3, EarlyKeeps DEF EarlyValue
<1>2. CASE ReadHistory
  <2> DEFINE c == [audit EXCEPT !.page = @ + 1]
  <2>1. /\ Reading("History")
        /\ \/ Unread("Run") \/ (audit' = At("Run") /\ UNCHANGED loosened)
           \/ Continue(Error(At("Run"))) \/ Continue(c)
    BY <1>2 DEF ReadHistory
  <2>2. audit.pc = "History" /\ UNCHANGED <<policy, estate, time, manifest, strict, exit>>
    BY <2>1 DEF Reading
  <2>3. EarlyValue(c)
    BY <2>2 DEF ReadInv, ReportInv, Idle, EarlyValue, EarlyAt
  <2> HIDE DEF c
  <2>4. Looks /\ (audit' = Error(At("Run")) \/ audit' = At("Run") \/ audit' = c)
    BY <2>1, <2>2, ReadingLooks DEF Looks
  <2>5. EarlyValue(audit') /\ Early /\ audit.pc \in Reads
    BY <2>2, <2>3, <2>4, EarlyRuns DEF Early, Reads
  <2> QED
    BY <2>4, <2>5, EarlyKeeps DEF EarlyValue
<1> QED
  BY <1>1, <1>2

\* The checks after the releases of the consumer.
LateAt(a) == OfConsumerAt(a) \/ a.pc \in {"Runs", "Current", "Finish"}

LEMMA ConsumerKeeps ==
    ASSUME ReadInv, audit.pc \in {"Rulesets", "Ruleset"}, audit.repo # POLICY, Looks,
           Agree(audit', audit), audit.failing => audit'.failing,
           audit'.pc \in {"Rulesets", "Ruleset"} \/ audit'.pc = AfterRulesets(FALSE),
           audit'.pc = "Runs" => audit'.page = 1
    PROVE  CoreInv'
<1>1. audit.pc \in Reads /\ OfConsumer /\ Late
  BY DEF Reads, OfConsumer, Late
<1>2. /\ Running /\ audit.pc \notin {"Start", "Render", "Done"} /\ audit.failing \in BOOLEAN
      /\ audit.repo = family /\ family \in ReleaseFamilies /\ family \in Families
      /\ audit.gathered = {} /\ (~audit.failing => Progress(entry))
  BY <1>1, WhileReading DEF OfConsumer
<1>3. /\ audit'.rest = audit.rest /\ audit'.now = audit.now /\ audit'.expired = audit.expired
      /\ audit'.repo = audit.repo /\ audit'.gathered = {}
  BY <1>2 DEF Agree
<1>4. \/ audit'.pc \in {"Rulesets", "Ruleset"}
      \/ audit.expired /\ audit'.pc = "Finish"
      \/ ~audit.expired /\ audit'.pc = "Runs" /\ audit'.page = 1
  BY DEF AfterRulesets
<1>5. Move(audit')
  BY <1>2, <1>3, <1>4 DEF Move, EarlyAt, OfConsumerAt, OfReleasesAt
<1>6. ASSUME NEW e, e = entry, e.family \in Families, ~audit'.failing
      PROVE  Progress(e)'
  <2>1. /\ e.family \in ReleaseFamilies
        /\ IF audit.expired THEN HasExpired(e, audit.now) ELSE Matched(e)
        /\ Holds(e) /\ NewestRelease(e)
    <3>1. Progress(e) /\ e.family \in ReleaseFamilies
      BY <1>2, <1>6 DEF family
    <3> QED
      BY <1>1, <3>1 DEF Progress
  <2>2. /\ IF audit'.expired THEN HasExpired(e, audit'.now) ELSE Matched(e)'
        /\ Holds(e)' /\ NewestRelease(e)'
    BY <1>3, <1>6, <2>1, SameFacts DEF ReadInv
  <2>3. audit'.pc = "Finish" => NewestRun(e)'
    BY <1>3, <1>4, <2>1 DEF NewestRun, HasExpired
  <2>4. audit'.pc = "Runs" => NoneSoFar(e)'
    <3> SUFFICES ASSUME audit'.pc = "Runs" PROVE NoneSoFar(e)'
      OBVIOUS
    <3>1. estate' = estate
      BY DEF Looks
    <3>2. \A r \in Successes(e.family)' : Place(e.family, r)' \in Nat /\ Place(e.family, r)' >= 1
      <4>1. estate \in [Families -> Consumers]
        BY DEF ReadInv, CoreInv, WorldInv
      <4>2. \A r \in Successes(e.family) : Place(e.family, r) \in Nat /\ Place(e.family, r) >= 1
        BY <1>6, <4>1, Listings
      <4>3. Successes(e.family)' = Successes(e.family)
        BY <3>1 DEF Successes
      <4>4. \A r : Place(e.family, r)' = Place(e.family, r)
        BY <4>3 DEF Place
      <4> QED
        BY <4>2, <4>3, <4>4
    <3>3. (audit'.page - 1) * PageSize = 0
      <4>1. audit'.page - 1 = 0 /\ PageSize \in Nat
        BY <1>4, CanaryConstants DEF CanaryAssumption
      <4> QED
        BY <4>1
    <3> QED
      BY <3>2, <3>3 DEF NoneSoFar, RelevantRuns
  <2>5. /\ audit'.pc \in {"Rulesets", "Ruleset", "Finish", "Runs"}
        /\ audit'.pc \notin {"Release", "TagCommit", "Provenance", "Releases", "Current"}
    BY <1>4
  <2>6. HasExpired(e, audit.now)' <=> HasExpired(e, audit'.now)
    OBVIOUS
  <2> HIDE <1>4
  <2> QED
    BY <2>1, <2>2, <2>3, <2>4, <2>5 DEF Progress
<1> QED
  BY <1>2, <1>5, <1>6, MoveKeeps DEF ReadInv

\* The rulesets of release-policy, or of the consumer.
LEMMA ProtectionKeeps ==
    ASSUME ReadInv, audit.pc \in {"Rulesets", "Ruleset"}, Looks,
           Agree(audit', audit), audit.failing => audit'.failing,
           \/ audit'.pc = "Ruleset"
           \/ \E protected \in BOOLEAN : audit'.pc = AfterRulesets(protected) /\ audit'.page = 1
    PROVE  CoreInv'
<1>1. CASE audit.repo = POLICY
  <2>1. Early /\ audit.pc \in Reads /\ EarlyAt(audit')
    BY <1>1 DEF Early, OfPolicy, Reads, EarlyAt, AfterRulesets, Agree
  <2> QED
    BY <2>1, EarlyKeeps DEF Agree
<1>2. CASE audit.repo # POLICY
  <2>1. \A protected : AfterRulesets(protected) = AfterRulesets(FALSE)
    BY <1>2 DEF AfterRulesets
  <2>2. audit'.pc = "Runs" => audit'.page = 1
    OBVIOUS
  <2> QED
    BY <1>2, <2>1, <2>2, ConsumerKeeps
<1> QED
  BY <1>1, <1>2

LEMMA RulesetsCore == ASSUME ReadInv, ReadRulesets PROVE CoreInv'
<1> DEFINE active == SelectSeq(RulesetsOf(audit.repo), LAMBDA r : r.enforcement = "active")
           list == [i \in DOMAIN active |-> active[i].id]
           a == [At("Ruleset") EXCEPT !.todo = list]
           b == Error(At(AfterRulesets(FALSE)))
<1>1. Reading("Rulesets") /\ (Unread(AfterRulesets(FALSE)) \/ Continue(b) \/ Continue(a))
  BY DEF ReadRulesets
<1> HIDE DEF active, list
<1>2. Agree(a, audit) /\ a.pc = "Ruleset" /\ a.failing = audit.failing
  BY DEF ReadInv, ReportInv, At, Idle, Agree
<1>3. Agree(b, audit) /\ b.pc = AfterRulesets(FALSE) /\ b.page = 1 /\ b.failing
  BY Values DEF ReadInv
<1> HIDE DEF a
<1>4. audit.pc = "Rulesets" /\ Looks /\ (audit' = a \/ audit' = b)
  BY <1>1, ReadingLooks
<1> HIDE DEF b
<1> QED
  BY <1>2, <1>3, <1>4, ProtectionKeeps

LEMMA RulesetCore == ASSUME ReadInv, ReadRuleset PROVE CoreInv'
<1> DEFINE a(u) == [At(AfterRulesets(TRUE)) EXCEPT !.unseen = u]
           b == Error(At(AfterRulesets(FALSE)))
           c == [audit EXCEPT !.todo = Tail(audit.todo)]
<1>1. /\ Reading("Ruleset")
      /\ \/ Unread(AfterRulesets(FALSE)) \/ Continue(b) \/ Continue(c)
         \/ /\ \E r : audit' = a(r.bypass = "unseen")
            /\ loosened' = IF audit.repo = POLICY THEN loosened \ {POLICY} ELSE loosened
  BY DEF ReadRuleset
<1>2. audit.pc = "Ruleset" /\ UNCHANGED <<policy, estate, time, manifest, strict, exit>>
  BY <1>1 DEF Reading
<1>3. \A u : /\ Agree(a(u), audit) /\ a(u).pc = AfterRulesets(TRUE) /\ a(u).page = 1
             /\ a(u).failing = audit.failing
  BY DEF ReadInv, ReportInv, At, Idle, Agree
<1>4. Agree(b, audit) /\ b.pc = AfterRulesets(FALSE) /\ b.page = 1 /\ b.failing
  BY Values DEF ReadInv
<1>5. Agree(c, audit) /\ c.pc = "Ruleset" /\ c.failing = audit.failing
  BY <1>2 DEF ReadInv, ReportInv, Idle, Agree
<1> HIDE DEF a, c
<1>6. Looks
  <2>1. CASE Unread(AfterRulesets(FALSE)) \/ Continue(b) \/ Continue(c)
    BY <1>1, <2>1, ReadingLooks
  <2>2. CASE loosened' = IF audit.repo = POLICY THEN loosened \ {POLICY} ELSE loosened
    BY <1>2, <2>2, FamiliesAreNotPolicy DEF Looks
  <2> QED
    BY <1>1, <2>1, <2>2
<1>7. audit' = b \/ audit' = c \/ \E u : audit' = a(u)
  BY <1>1, ReadingLooks
<1> HIDE DEF b
<1> QED
  BY <1>2, <1>3, <1>4, <1>5, <1>6, <1>7, ProtectionKeeps

\* Success pages are numbered from 1.
LEMMA FirstPage ==
    ASSUME CoreInv, Looks, audit'.page = 1, NEW e, e.family \in Families
    PROVE  NoneSoFar(e)'
<1>1. estate' = estate
  BY DEF Looks
<1>2. \A r \in Successes(e.family)' : Place(e.family, r)' \in Nat /\ Place(e.family, r)' >= 1
  <2>1. estate \in [Families -> Consumers]
    BY DEF CoreInv, WorldInv
  <2>2. \A r \in Successes(e.family) : Place(e.family, r) \in Nat /\ Place(e.family, r) >= 1
    BY <2>1, Listings
  <2>3. Successes(e.family)' = Successes(e.family)
    BY <1>1 DEF Successes
  <2>4. \A r : Place(e.family, r)' = Place(e.family, r)
    BY <2>3 DEF Place
  <2> QED
    BY <2>2, <2>3, <2>4
<1>3. (audit'.page - 1) * PageSize = 0
  <2>1. audit'.page - 1 = 0 /\ PageSize \in Nat
    BY CanaryConstants DEF CanaryAssumption
  <2> QED
    BY <2>1
<1> QED
  BY <1>2, <1>3 DEF NoneSoFar, RelevantRuns

\* The run of the record is read, or is gone for good.
LEMMA RunCore == ASSUME ReadInv, ReadRun PROVE CoreInv'
<1> DEFINE next == IF family \in ReleaseFamilies THEN "Release" ELSE "Runs"
           a(r) == Checked(RunMatches(r, entry), At(next))
           b == Error(At(next))
           c == [At(next) EXCEPT !.expired = TRUE]
<1>1. /\ Reading("Run")
      /\ \/ Unread(next) \/ Continue(b)
         \/ \E r \in RunsNamed(family, entry.run) : Continue(a(r))
         \/ HasExpired(entry, audit.now) /\ Continue(c)
  BY DEF ReadRun
<1>2. audit.pc = "Run" /\ audit.pc \in Reads /\ Early
  BY <1>1 DEF Reading, Reads, Early
<1>3. /\ Running /\ audit.pc \notin {"Start", "Render", "Done"} /\ audit.failing \in BOOLEAN
      /\ ~audit.expired /\ audit.gathered = {} /\ family \in Families
      /\ InOrder(estate[family], time)
  BY <1>2, WhileReading
<1>4. Agree(b, audit) /\ b.pc = next /\ b.page = 1 /\ b.failing
  BY Values DEF ReadInv
<1>5. ASSUME NEW r
      PROVE  /\ Agree(a(r), audit) /\ a(r).pc = next /\ a(r).page = 1
             /\ a(r).failing = (audit.failing \/ ~RunMatches(r, entry))
  <2> HIDE DEF next
  <2> QED
    BY Values, ZenonT(60) DEF ReadInv
<1>6. /\ c.rest = audit.rest /\ c.now = audit.now /\ c.expired /\ c.pc = next /\ c.page = 1
      /\ c.failing = audit.failing /\ c.gathered = audit.gathered
  BY DEF ReadInv, ReportInv, At, Idle
<1>7. next \in {"Release", "Runs"} /\ (next = "Release" <=> family \in ReleaseFamilies)
  OBVIOUS
<1> HIDE DEF a, c, next
<1>8. /\ Looks
      /\ \/ audit' = b
         \/ \E r \in RunsNamed(family, entry.run) : audit' = a(r)
         \/ HasExpired(entry, audit.now) /\ audit' = c
  BY <1>1, ReadingLooks
<1> HIDE DEF b
<1>9. /\ audit'.rest = audit.rest /\ audit'.now = audit.now /\ audit'.pc = next
      /\ audit'.page = 1 /\ audit'.gathered = {} /\ (audit.failing => audit'.failing)
  BY <1>3, <1>4, <1>5, <1>6, <1>8 DEF Agree
<1>10. Move(audit')
  BY <1>7, <1>9 DEF Move, EarlyAt, OfConsumerAt, OfReleasesAt
<1>11. ASSUME NEW e, e = entry, e.family \in Families, ~audit'.failing
       PROVE  Progress(e)'
  <2>1. IF audit'.expired THEN HasExpired(e, audit'.now) ELSE Matched(e)'
    <3>1. CASE HasExpired(entry, audit.now) /\ audit' = c
      BY <1>6, <1>11, <3>1
    <3>2. ASSUME NEW r \in RunsNamed(family, entry.run), audit' = a(r)
          PROVE  ~audit'.expired /\ Matched(e)'
      <4>1. ~audit'.expired /\ RunMatches(r, entry)
        BY <1>3, <1>5, <1>11, <3>2 DEF Agree
      <4>2. r \in Range(estate[e.family].runs) /\ r.id = e.run /\ r.started = e.started
        BY <1>11, <4>1 DEF RunsNamed, RunMatches, family
      <4> DEFINE runs == estate[e.family].runs
      <4>3. runs \in Seq(RunRecords)
        BY <1>11 DEF ReadInv, CoreInv, WorldInv, Consumers
      <4>4. RunsInOrder(runs, time)
        BY <1>3, <1>11, OrderParts DEF family
      <4>5. r \in Range(runs)
        BY <4>2
      <4> HIDE DEF runs
      <4>6. /\ DOMAIN runs = 1 .. Len(runs) /\ Len(runs) \in Nat
            /\ \A i \in DOMAIN runs : runs[i] \in RunRecords
        BY <4>3, LenProperties, ElementOfSeq
      <4>7. \A s \in Range(runs) : s.id \in Nat /\ s.id < time + 10
        BY <4>4, <4>6 DEF Range, RunsInOrder, RunRecords
      <4>8. ASSUME NEW s \in Range(runs), s.id = r.id PROVE s = r
        <5>1. PICK i \in DOMAIN runs : s = runs[i]
          BY DEF Range
        <5>2. PICK j \in DOMAIN runs : r = runs[j]
          BY <4>5 DEF Range
        <5>3. i = j
          <6>1. runs[i].id \in Nat /\ runs[j].id \in Nat
            BY <4>6 DEF RunRecords
          <6>2. ~(i < j) /\ ~(j < i)
            BY <4>4, <4>8, <5>1, <5>2, <6>1 DEF RunsInOrder
          <6> QED
            BY <4>6, <6>2
        <5> QED
          BY <5>1, <5>2, <5>3
      <4>9. Matched(e)
        BY <4>2, <4>5, <4>7, <4>8 DEF Matched, RunsNamed, runs
      <4> QED
        BY <1>8, <1>9, <1>11, <4>1, <4>9, SameFacts DEF ReadInv
    <3>3. audit' # b
      BY <1>4, <1>11
    <3> QED
      BY <1>8, <3>1, <3>2, <3>3
  <2>2. audit'.pc = "Runs" => e.family \notin ReleaseFamilies
    BY <1>7, <1>9, <1>11 DEF family
  <2>3. NoneSoFar(e)'
    BY <1>8, <1>9, <1>11, FirstPage DEF ReadInv
  <2>4. /\ audit'.pc \notin {"TagCommit", "Provenance", "Releases", "Current", "Finish"}
        /\ (Late' => audit'.pc = "Runs")
    BY <1>7, <1>9 DEF OfConsumer, Late
  <2> QED
    BY <2>1, <2>2, <2>3, <2>4 DEF Progress
<1> QED
  BY <1>3, <1>8, <1>10, <1>11, MoveKeeps DEF ReadInv

LEMMA NextPage ==
    \A n \in Nat \ {0} : /\ (n - 1) * PageSize \in Nat /\ n * PageSize \in Nat
                         /\ n * PageSize = (n - 1) * PageSize + PageSize
                         /\ ((n + 1) - 1) * PageSize = n * PageSize
<1>1. PageSize \in Nat
  BY CanaryConstants DEF CanaryAssumption
<1> TAKE n \in Nat \ {0}
<1>2. n * PageSize \in Nat
  BY <1>1
<1>3. n * PageSize = (n - 1) * PageSize + PageSize
  BY <1>1
<1>4. (n + 1) - 1 = n
  OBVIOUS
<1> QED
  BY <1>1, <1>2, <1>3, <1>4, TimesPage

\* A page shows its part of the list; a short one is the last.
LEMMA PageOf ==
    ASSUME NEW T, NEW s \in Seq(T), NEW n \in Nat \ {0}
    PROVE  /\ Range(Page(s, n)) \subseteq Range(s)
           /\ \A i \in DOMAIN s :
                 (n - 1) * PageSize < i /\ i <= n * PageSize => s[i] \in Range(Page(s, n))
           /\ Len(Page(s, n)) < PageSize => Len(s) < n * PageSize
<1> DEFINE m == (n - 1) * PageSize
           k == n * PageSize
           page == Page(s, n)
<1>1. m \in Nat /\ k \in Nat /\ k = m + PageSize /\ PageSize \in Nat \ {0}
  BY NextPage, CanaryConstants DEF CanaryAssumption
<1>c. PICK len : len = Len(s)
  OBVIOUS
<1>2. len \in Nat /\ DOMAIN s = 1 .. len
  BY <1>c, LenProperties
<1> HIDE DEF m, k, page
<1> DEFINE last == Smaller(k, len)
<1>3. last \in Nat /\ last <= k /\ last <= len /\ (last = k \/ last = len)
  <2>1. CASE k < len
    BY <1>1, <1>2, <2>1 DEF Smaller
  <2>2. CASE ~(k < len)
    BY <1>1, <1>2, <2>2 DEF Smaller
  <2> QED
    BY <2>1, <2>2
<1> DEFINE first == m + 1
<1>4. page = SubSeq(s, first, last)
  BY <1>c DEF Page, page, m, k, last
<1>a. first \in Nat /\ first = m + 1
  BY <1>1
<1> HIDE DEF last, first
<1>b. \A i \in first .. last : s[i] \in T
  BY <1>1, <1>2, <1>3, <1>a, ElementOfSeq
<1>5. /\ page \in Seq(T)
      /\ Len(page) = IF first <= last THEN last - first + 1 ELSE 0
      /\ \A i \in 1 .. last - first + 1 : page[i] = s[first + i - 1]
  BY <1>3, <1>4, <1>a, <1>b, SubSeqProperties
<1>6. DOMAIN page = 1 .. Len(page)
  BY <1>5, LenProperties
<1>7. \A i \in DOMAIN page : m + i \in DOMAIN s /\ page[i] = s[m + i]
  <2> TAKE i \in DOMAIN page
  <2>1. first <= last /\ i \in 1 .. last - first + 1
    BY <1>3, <1>5, <1>6, <1>a
  <2>2. first + i - 1 = m + i /\ m + i \in 1 .. len
    BY <1>1, <1>2, <1>3, <1>a, <2>1
  <2> QED
    BY <1>2, <1>5, <2>1, <2>2
<1>8. Range(page) \subseteq Range(s)
  BY <1>7 DEF Range
<1>9. ASSUME NEW i \in DOMAIN s, m < i, i <= k
      PROVE  s[i] \in Range(page)
  <2>1. i - m \in 1 .. Len(page) /\ m + (i - m) = i
    BY <1>1, <1>2, <1>3, <1>5, <1>9, <1>a
  <2>2. page[i - m] = s[i]
    BY <1>6, <1>7, <2>1
  <2> QED
    BY <1>6, <2>1, <2>2 DEF Range
<1>10. ASSUME Len(page) < PageSize PROVE len < k
  BY <1>1, <1>2, <1>3, <1>5, <1>10, <1>a
<1> QED
  BY <1>8, <1>9, <1>10, <1>c DEF page, m, k

\* There is at most one release by a tag.
LEMMA OneRelease ==
    ASSUME NEW f, estate[f] \in Consumers, InOrder(estate[f], time), NEW tag,
           NEW r \in ReleasesAt(f, tag), NEW s \in ReleasesAt(f, tag)
    PROVE  r = s
<1> DEFINE releases == estate[f].releases
<1>1. releases \in Seq(ReleaseRecords)
  BY DEF Consumers
<1>2. ReleasesInOrder(releases, time)
  BY OrderParts
<1>3. r \in Range(releases) /\ s \in Range(releases) /\ r.tag = s.tag
  BY DEF ReleasesAt
<1> HIDE DEF releases
<1>4. PICK i \in DOMAIN releases : r = releases[i]
  BY <1>3 DEF Range
<1>5. PICK j \in DOMAIN releases : s = releases[j]
  BY <1>3 DEF Range
<1>6. DOMAIN releases \subseteq Nat
  BY <1>1, LenProperties
<1>7. releases[i] \in ReleaseRecords /\ releases[j] \in ReleaseRecords
  BY <1>1, ElementOfSeq, LenProperties
<1>8. releases[i].tag.version \in Nat /\ releases[j].tag.version \in Nat
  BY <1>7 DEF ReleaseRecords, Refs
<1>9. ~(i < j) /\ ~(j < i)
  BY <1>2, <1>3, <1>4, <1>5, <1>8 DEF ReleasesInOrder
<1>10. i = j
  BY <1>6, <1>9
<1> QED
  BY <1>4, <1>5, <1>10

\* The checks of the provenance: the release, its tag, its signature.
LEMMA ProvenanceKeeps ==
    ASSUME ReadInv, audit.pc \in {"Release", "TagCommit", "Provenance"}, Looks,
           Agree(audit', audit), audit.failing => audit'.failing, audit'.page = 1,
           audit'.pc \in {"TagCommit", "Provenance", "Releases"},
           \A e : e = entry /\ e.family \in Families /\ ~audit'.failing =>
               /\ audit'.pc \in {"TagCommit", "Provenance"} =>
                      \E r \in ReleasesAt(e.family, e.ref) : r.immutable
               /\ audit'.pc = "Provenance" =>
                      \E r \in ReleasesAt(e.family, e.ref) : e.family \in loosened \/ r.at = e.head
               /\ audit'.pc = "Releases" => Holds(e)
    PROVE  CoreInv'
<1>1. audit.pc \in Reads /\ OfReleasesAt(audit)
  BY DEF Reads, OfReleasesAt
<1>2. /\ Running /\ audit.pc \notin {"Start", "Render", "Done"} /\ audit.failing \in BOOLEAN
      /\ family \in ReleaseFamilies /\ family \in Families
      /\ audit.gathered = {} /\ (~audit.failing => Progress(entry))
  BY <1>1, WhileReading
<1>3. /\ audit'.rest = audit.rest /\ audit'.now = audit.now /\ audit'.expired = audit.expired
      /\ audit'.gathered = {}
  BY <1>2 DEF Agree
<1>4. Move(audit')
  BY <1>2, <1>3 DEF Move, EarlyAt, OfConsumerAt, OfReleasesAt
<1>5. ASSUME NEW e, e = entry, e.family \in Families, ~audit'.failing
      PROVE  Progress(e)'
  <2>1. IF audit.expired THEN HasExpired(e, audit.now) ELSE Matched(e)
    <3>1. Progress(e)
      BY <1>2, <1>5
    <3> QED
      BY <3>1 DEF Progress
  <2>2. IF audit'.expired THEN HasExpired(e, audit'.now) ELSE Matched(e)'
    BY <1>3, <1>5, <2>1, SameFacts DEF ReadInv
  <2>3. /\ ReleasesAt(e.family, e.ref)' = ReleasesAt(e.family, e.ref)
        /\ (e.family \in loosened' <=> e.family \in loosened)
        /\ Holds(e)' <=> Holds(e)
    BY <1>3, <1>5, SameFacts DEF Looks, ReleasesAt, ReadInv
  <2>4. /\ audit'.pc \in {"TagCommit", "Provenance"} =>
               \E r \in ReleasesAt(e.family, e.ref)' : r.immutable
        /\ audit'.pc = "Provenance" =>
               \E r \in ReleasesAt(e.family, e.ref)' : e.family \in loosened' \/ r.at = e.head
        /\ audit'.pc = "Releases" => Holds(e)'
    BY <1>5, <2>3
  <2>5. audit'.pc = "Releases" => Gathered(e)'
    <3>1. (audit'.page - 1) * PageSize = 0
      <4>1. audit'.page - 1 = 0 /\ PageSize \in Nat
        BY CanaryConstants DEF CanaryAssumption
      <4> QED
        BY <4>1
    <3>2. DOMAIN estate'[e.family].releases \subseteq Nat \ {0}
      <4>1. estate' = estate /\ estate[e.family].releases \in Seq(ReleaseRecords)
        BY <1>5 DEF Looks, ReadInv, CoreInv, WorldInv, Consumers
      <4> QED
        BY <4>1, LenProperties
    <3> QED
      BY <1>3, <3>1, <3>2 DEF Gathered
  <2>6. /\ audit'.pc \notin {"Runs", "Current", "Finish"} /\ ~Late'
    BY DEF Late, OfConsumer
  <2> QED
    BY <2>2, <2>4, <2>5, <2>6 DEF Progress
<1> QED
  BY <1>2, <1>4, <1>5, MoveKeeps DEF ReadInv

LEMMA ReleaseCore == ASSUME ReadInv, ReadRelease PROVE CoreInv'
<1> DEFINE found == { r \in ReleasesAt(family, entry.ref) : r.immutable }
           a == At("TagCommit")
           b == Error(At("Releases"))
<1>1. /\ Reading("Release")
      /\ Unread("Releases") \/ Continue(b) \/ (found # {} /\ Continue(a))
  BY DEF ReadRelease
<1>2. /\ Agree(a, audit) /\ a.pc = "TagCommit" /\ a.page = 1 /\ a.failing = audit.failing
      /\ Agree(b, audit) /\ b.pc = "Releases" /\ b.page = 1 /\ b.failing
  BY Values DEF ReadInv
<1>3. found # {} => \E r \in ReleasesAt(family, entry.ref) : r.immutable
  OBVIOUS
<1> HIDE DEF found, a
<1>4. audit.pc = "Release" /\ Looks /\ (audit' = b \/ (found # {} /\ audit' = a))
  BY <1>1, ReadingLooks
<1> HIDE DEF b
<1> QED
  BY <1>2, <1>3, <1>4, ProvenanceKeeps DEF family

LEMMA TagCommitCore == ASSUME ReadInv, ReadTagCommit PROVE CoreInv'
<1> DEFINE a == At("Provenance")
           b == Error(At("Releases"))
<1>1. /\ Reading("TagCommit")
      /\ \/ Unread("Releases") \/ Continue(b)
         \/ (\E r \in ReleasesAt(family, entry.ref) : TagHolds(r, entry)) /\ Continue(a)
  BY DEF ReadTagCommit
<1>2. /\ Agree(a, audit) /\ a.pc = "Provenance" /\ a.page = 1 /\ a.failing = audit.failing
      /\ Agree(b, audit) /\ b.pc = "Releases" /\ b.page = 1 /\ b.failing
  BY Values DEF ReadInv
<1> HIDE DEF a
<1>3. /\ audit.pc = "TagCommit" /\ Looks
      /\ \/ audit' = b
         \/ (\E r \in ReleasesAt(family, entry.ref) : r.at = entry.head) /\ audit' = a
  BY <1>1, ReadingLooks DEF TagHolds
<1>4. ~audit.failing => \E r \in ReleasesAt(family, entry.ref) : r.immutable
  <2>1. ~audit.failing => Progress(entry)
    BY <1>3, WhileReading DEF Reads
  <2> QED
    BY <1>3, <2>1 DEF Progress, family
<1> HIDE DEF b
<1> QED
  BY <1>2, <1>3, <1>4, ProvenanceKeeps DEF family

LEMMA ProvenanceCore == ASSUME ReadInv, ReadProvenance PROVE CoreInv'
<1> DEFINE a(r) == Checked(ProvenanceHolds(r, entry), At("Releases"))
           b == Error(At("Releases"))
<1>1. /\ Reading("Provenance")
      /\ \/ Unread("Releases")
         \/ \E r \in ReleasesAt(family, entry.ref) : Continue(a(r))
  BY DEF ReadProvenance
<1>2. Agree(b, audit) /\ b.pc = "Releases" /\ b.page = 1 /\ b.failing
  BY Values DEF ReadInv
<1>3. ASSUME NEW r
      PROVE  /\ Agree(a(r), audit) /\ a(r).pc = "Releases" /\ a(r).page = 1
             /\ a(r).failing = (audit.failing \/ ~ProvenanceHolds(r, entry))
  BY Values, ZenonT(60) DEF ReadInv
<1> HIDE DEF a
<1>4. /\ audit.pc = "Provenance" /\ Looks
      /\ \/ audit' = b
         \/ \E r \in ReleasesAt(family, entry.ref) : audit' = a(r)
  BY <1>1, ReadingLooks
<1> HIDE DEF b
<1>5. /\ audit.failing \in BOOLEAN /\ (~audit.failing => Progress(entry))
      /\ estate[family] \in Consumers /\ InOrder(estate[family], time)
  BY <1>4, WhileReading DEF Reads
<1>6. ASSUME ~audit'.failing PROVE Holds(entry)
  <2>1. PICK r \in ReleasesAt(family, entry.ref) : audit' = a(r)
    BY <1>2, <1>4, <1>6
  <2>2. ~audit.failing /\ ProvenanceHolds(r, entry)
    BY <1>3, <1>5, <1>6, <2>1
  <2>3. /\ \E s \in ReleasesAt(family, entry.ref) : s.immutable
        /\ \E s \in ReleasesAt(family, entry.ref) : family \in loosened \/ s.at = entry.head
    BY <1>4, <1>5, <2>2 DEF Progress, family
  <2>4. r.immutable /\ (family \in loosened \/ r.at = entry.head)
    BY <1>5, <2>3, OneRelease
  <2>5. r.signed.run = entry.run /\ r.signed.policy = entry.policy
    BY <2>2 DEF ProvenanceHolds, NamesRun
  <2> QED
    BY <2>4, <2>5 DEF Holds, family
<1>7. audit'.page = 1 /\ audit'.pc = "Releases" /\ Agree(audit', audit)
      /\ (audit.failing => audit'.failing)
  BY <1>2, <1>3, <1>4
<1> QED
  BY <1>4, <1>6, <1>7, ProvenanceKeeps

\* Releases gathered up to the k-th of the list.
CoversTo(e, all, k) ==
    LET releases == estate[e.family].releases
        Same(g, r) == ~g.draft /\ ~r.draft /\ g.tag = r.tag /\ g.published = r.published IN
    /\ all \subseteq ReleaseRecords
    /\ \A i \in DOMAIN releases :
           /\ i <= k
           /\ ~releases[i].draft /\ releases[i].published <= audit.now
           => \E g \in all : Same(g, releases[i])
    /\ \A g \in all : ~g.draft => \E r \in Range(releases) : Same(g, r)

\* What the pages of releases show, once the page is taken in.
LEMMA GatheredMore ==
    ASSUME NEW e, estate[e.family] \in Consumers, audit.page \in Nat \ {0}, audit.now \in Nat,
           Gathered(e),
           NEW all, all = audit.gathered \cup Range(Page(estate[e.family].releases, audit.page))
    PROVE  CoversTo(e, all, audit.page * PageSize)
<1> DEFINE releases == estate[e.family].releases
           Same(g, r) == ~g.draft /\ ~r.draft /\ g.tag = r.tag /\ g.published = r.published
           m == (audit.page - 1) * PageSize
           k == audit.page * PageSize
           page == Page(releases, audit.page)
<1>1. releases \in Seq(ReleaseRecords)
  BY DEF Consumers
<1>2. m \in Nat /\ k \in Nat
  BY NextPage
<1>3. /\ audit.gathered \subseteq ReleaseRecords
      /\ \A i \in DOMAIN releases :
             i <= m /\ ~releases[i].draft /\ releases[i].published <= audit.now
             => \E g \in audit.gathered : Same(g, releases[i])
      /\ \A g \in audit.gathered : ~g.draft => \E r \in Range(releases) : Same(g, r)
  BY DEF Gathered
<1>4. all = audit.gathered \cup Range(page)
  OBVIOUS
<1> HIDE DEF releases
<1>5. /\ Range(page) \subseteq Range(releases)
      /\ \A i \in DOMAIN releases : m < i /\ i <= k => releases[i] \in Range(page)
  BY <1>1, PageOf
<1> HIDE DEF m, k, page
<1>6. Range(releases) \subseteq ReleaseRecords /\ DOMAIN releases \subseteq Nat
  BY <1>1, RangeOfList, LenProperties
<1>7. all \subseteq ReleaseRecords
  BY <1>3, <1>4, <1>5, <1>6
<1>8. ASSUME NEW i \in DOMAIN releases, i <= k, ~releases[i].draft, releases[i].published <= audit.now
      PROVE  \E g \in all : Same(g, releases[i])
  <2>1. CASE i <= m
    BY <1>3, <1>4, <1>8, <2>1
  <2>2. CASE ~(i <= m)
    <3>1. releases[i] \in all
      BY <1>2, <1>4, <1>5, <1>6, <1>8, <2>2
    <3> QED
      BY <1>8, <3>1
  <2> QED
    BY <2>1, <2>2
<1>9. ASSUME NEW g \in all, ~g.draft PROVE \E r \in Range(releases) : Same(g, r)
  BY <1>3, <1>4, <1>5, <1>9
<1> QED
  BY <1>7, <1>8, <1>9 DEF CoversTo, releases, k

\* The newest of all that was gathered is the newest there is.
LEMMA FreshIsNewest ==
    ASSUME NEW e, estate[e.family] \in Consumers, audit.page \in Nat \ {0}, audit.now \in Nat,
           Gathered(e), Len(Page(estate[e.family].releases, audit.page)) < PageSize,
           NEW all, all = audit.gathered \cup Range(Page(estate[e.family].releases, audit.page)),
           IsFresh(all, e)
    PROVE  NewestRelease(e)
<1> DEFINE releases == estate[e.family].releases
           Same(g, r) == ~g.draft /\ ~r.draft /\ g.tag = r.tag /\ g.published = r.published
           k == audit.page * PageSize
<1>1. /\ all \subseteq ReleaseRecords
      /\ \A i \in DOMAIN releases :
             i <= k /\ ~releases[i].draft /\ releases[i].published <= audit.now
             => \E g \in all : Same(g, releases[i])
      /\ \A g \in all : ~g.draft => \E r \in Range(releases) : Same(g, r)
  BY GatheredMore DEF CoversTo
<1>2. releases \in Seq(ReleaseRecords)
  BY DEF Consumers
<1>3. \A i \in DOMAIN releases : i <= k
  <2>1. PICK len : len = Len(releases)
    OBVIOUS
  <2>2. len \in Nat /\ DOMAIN releases = 1 .. len
    BY <1>2, <2>1, LenProperties
  <2>3. k \in Nat
    BY NextPage
  <2>4. Len(Page(releases, audit.page)) < PageSize
    OBVIOUS
  <2> HIDE DEF releases
  <2>5. len < k
    BY <1>2, <2>1, <2>4, PageOf
  <2> HIDE DEF k
  <2> QED
    BY <2>2, <2>3, <2>5
<1>4. PICK newest \in PublishedIn(all, e) :
          newest.tag = e.ref /\ \A r \in PublishedIn(all, e) : r.published <= newest.published
  BY DEF IsFresh
<1>5. newest \in all /\ ~newest.draft
  BY DEF PublishedIn
<1>6. PICK known \in Range(releases) : Same(newest, known)
  BY <1>1, <1>5
<1>7. known \in ReleasesAt(e.family, e.ref)
  BY <1>4, <1>6 DEF ReleasesAt
<1>8. ASSUME NEW r \in PublishedIn(Range(releases), e), r.published <= audit.now
      PROVE  r.published <= known.published
  <2>1. r \in Range(releases) /\ ~r.draft /\ MatchesReleaseTag(r.tag, PrefixOf(e))
    BY DEF PublishedIn
  <2>2. PICK i \in DOMAIN releases : r = releases[i]
    BY <2>1 DEF Range
  <2>3. PICK g \in all : Same(g, r)
    BY <1>1, <1>3, <1>8, <2>1, <2>2
  <2>4. g \in PublishedIn(all, e)
    BY <2>1, <2>3 DEF PublishedIn
  <2> QED
    BY <1>4, <1>6, <2>3, <2>4
<1> QED
  BY <1>7, <1>8 DEF NewestRelease

LEMMA ReleasesCore == ASSUME ReadInv, ReadReleases PROVE CoreInv'
<1> DEFINE page == Page(estate[family].releases, audit.page)
           all == audit.gathered \cup Range(page)
           after == [At("Rulesets") EXCEPT !.repo = family, !.gathered = {}]
           more == [audit EXCEPT !.page = @ + 1, !.gathered = all]
           fresh == Checked(IsFresh(all, entry), after)
           b == Error(after)
<1>1. /\ Reading("Releases")
      /\ \/ audit' = b /\ UNCHANGED loosened
         \/ Len(page) < PageSize /\ Continue(fresh)
         \/ Continue(b) \/ Continue(more)
  BY DEF ReadReleases
<1>2. audit.pc = "Releases" /\ UNCHANGED <<policy, estate, time, manifest, strict, exit>>
  BY <1>1 DEF Reading
<1>3. /\ Looks
      /\ \/ audit' = b \/ audit' = more
         \/ Len(page) < PageSize /\ audit' = fresh
  BY <1>1, <1>2, ReadingLooks DEF Looks
<1>4. audit.pc \in Reads /\ OfReleasesAt(audit)
  BY <1>2 DEF Reads, OfReleasesAt
<1>5. /\ Running /\ audit.pc \notin {"Start", "Render", "Done"} /\ audit.failing \in BOOLEAN
      /\ family \in ReleaseFamilies /\ family \in Families /\ audit.page \in Nat \ {0}
      /\ (~audit.failing => Progress(entry)) /\ audit.now \in Nat /\ estate[family] \in Consumers
  BY <1>2, <1>4, WhileReading
<1> HIDE DEF page, all
<1>6. /\ after.rest = audit.rest /\ after.now = audit.now /\ after.expired = audit.expired
      /\ after.repo = family /\ after.gathered = {} /\ after.pc = "Rulesets"
      /\ after.failing = audit.failing /\ DOMAIN after = DOMAIN Idle
  BY DEF ReadInv, ReportInv, At, Idle
<1>7. /\ more.rest = audit.rest /\ more.now = audit.now /\ more.expired = audit.expired
      /\ more.gathered = all /\ more.pc = "Releases" /\ more.page = audit.page + 1
      /\ more.failing = audit.failing
  BY <1>2 DEF ReadInv, ReportInv, Idle
<1> HIDE DEF after, more
<1>8. /\ b.rest = audit.rest /\ b.now = audit.now /\ b.expired = audit.expired
      /\ b.repo = family /\ b.gathered = {} /\ b.pc = "Rulesets" /\ b.failing
  BY <1>6 DEF Error, Idle
<1>9. /\ fresh.rest = audit.rest /\ fresh.now = audit.now /\ fresh.expired = audit.expired
      /\ fresh.repo = family /\ fresh.gathered = {} /\ fresh.pc = "Rulesets"
      /\ (audit.failing => fresh.failing) /\ (~fresh.failing => IsFresh(all, entry))
  BY <1>5, <1>6, <1>8 DEF Checked
<1> HIDE DEF b, fresh
<1>10. audit'.rest = audit.rest /\ audit'.now = audit.now /\ audit'.expired = audit.expired
  BY <1>3, <1>7, <1>8, <1>9
<1>11. /\ audit.page + 1 \in Nat \ {0}
       /\ family # POLICY
  BY <1>5, FamiliesAreNotPolicy
<1>12. Move(audit')
  BY <1>3, <1>5, <1>7, <1>8, <1>9, <1>10, <1>11 DEF Move, EarlyAt, OfConsumerAt, OfReleasesAt
<1>13. ASSUME NEW e, e = entry, e.family \in Families, ~audit'.failing
       PROVE  Progress(e)'
  <2>1. ~audit.failing /\ e.family = family /\ e.family \in ReleaseFamilies
    BY <1>5, <1>12, <1>13 DEF Move, family
  <2>2. /\ IF audit.expired THEN HasExpired(e, audit.now) ELSE Matched(e)
        /\ Gathered(e) /\ Holds(e)
    <3>1. Progress(e)
      BY <1>5, <1>13, <2>1
    <3> QED
      BY <1>2, <2>1, <3>1 DEF Progress
  <2>3. /\ IF audit'.expired THEN HasExpired(e, audit'.now) ELSE Matched(e)'
        /\ Holds(e)'
    BY <1>3, <1>10, <1>13, <2>2, SameFacts DEF ReadInv
  <2>4. all = audit.gathered \cup Range(Page(estate[e.family].releases, audit.page))
        /\ estate[e.family] \in Consumers
    BY <1>5, <2>1 DEF all, page
  <2>5. CASE audit' = fresh /\ Len(page) < PageSize
    <3>1. NewestRelease(e)
      BY <1>5, <1>9, <1>13, <2>1, <2>2, <2>4, <2>5, FreshIsNewest DEF page
    <3>2. NewestRelease(e)'
      BY <1>3, <1>10, <1>13, <3>1, SameFacts DEF ReadInv
    <3>3. audit'.pc \notin {"Release", "TagCommit", "Provenance", "Releases", "Runs", "Current", "Finish"}
      BY <1>9, <2>5
    <3> QED
      BY <2>3, <3>2, <3>3 DEF Progress
  <2>6. CASE audit' = more
    <3>1. Gathered(e)'
      <4>1. /\ estate' = estate /\ audit'.gathered = all
            /\ audit'.page = audit.page + 1 /\ audit'.now = audit.now
        BY <1>3, <1>7, <1>10, <2>6 DEF Looks
      <4>2. (audit'.page - 1) * PageSize = audit.page * PageSize
        BY <1>5, <4>1, NextPage
      <4>3. CoversTo(e, all, audit.page * PageSize)
        BY <1>5, <2>2, <2>4, GatheredMore
      <4> QED
        BY <4>1, <4>2, <4>3 DEF Gathered, CoversTo
    <3>2. /\ audit'.pc \notin {"TagCommit", "Provenance", "Runs", "Current", "Finish"} /\ ~Late'
      BY <1>7, <2>6 DEF Late, OfConsumer
    <3> QED
      BY <2>3, <3>1, <3>2 DEF Progress
  <2> QED
    BY <1>3, <1>8, <1>13, <2>5, <2>6
<1> QED
  BY <1>3, <1>5, <1>12, <1>13, MoveKeeps DEF ReadInv

LEMMA LeastNat ==
    ASSUME NEW T \in SUBSET Nat, T # {}
    PROVE  \E x \in T : \A y \in T : x <= y
<1>1. PICK x \in T : \A y \in T : ~(<<y, x>> \in OpToRel(<, Nat))
  BY NatLessThanWellFounded, WFMin
<1>2. \A y \in T : ~(y < x)
  BY <1>1 DEF OpToRel
<1> QED
  BY <1>2

\* No two runs of a consumer started together, and none starts in the future.
LEMMA RunsApart ==
    ASSUME NEW f, estate[f] \in Consumers, InOrder(estate[f], time), time \in Nat
    PROVE  /\ \A r \in Range(estate[f].runs) :
                  r \in RunRecords /\ r.started <= time /\ r.started \in Nat
           /\ \A r, s \in Range(estate[f].runs) : r.started = s.started => r = s
           /\ \A r, s \in Range(estate[f].runs) : r.id = s.id => r = s
<1> DEFINE runs == estate[f].runs
<1>1. runs \in Seq(RunRecords)
  BY DEF Consumers
<1>2. RunsInOrder(runs, time)
  BY OrderParts
<1> HIDE DEF runs
<1>3. DOMAIN runs \subseteq Nat /\ \A i \in DOMAIN runs : runs[i] \in RunRecords
  BY <1>1, LenProperties, ElementOfSeq
<1>4. \A i \in DOMAIN runs : runs[i].started \in Nat /\ runs[i].started <= time /\ runs[i].id \in Nat
  BY <1>2, <1>3 DEF RunsInOrder, RunRecords
<1>5. ASSUME NEW r \in Range(runs), NEW s \in Range(runs), r.started = s.started \/ r.id = s.id
      PROVE  r = s
  <2>1. PICK i \in DOMAIN runs : r = runs[i]
    BY DEF Range
  <2>2. PICK j \in DOMAIN runs : s = runs[j]
    BY DEF Range
  <2>3. ~(i < j) /\ ~(j < i)
    BY <1>2, <1>4, <1>5, <2>1, <2>2 DEF RunsInOrder
  <2>4. i = j
    BY <1>3, <2>3
  <2> QED
    BY <2>1, <2>2, <2>4
<1>6. \A r \in Range(runs) : r \in RunRecords /\ r.started <= time /\ r.started \in Nat
  BY <1>3, <1>4 DEF Range
<1> QED
  BY <1>5, <1>6 DEF runs

\* A page with a run of the namespace on it has a latest one.
LEMMA SomeIsLatest ==
    ASSUME estate \in [Families -> Consumers], time \in Nat, NEW e, e.family \in Families,
           InOrder(estate[e.family], time),
           NEW page \in SUBSET Successes(e.family), LatestRelevantRun(page, e) = {}
    PROVE  RelevantRuns(page, e) = {}
<1> SUFFICES ASSUME RelevantRuns(page, e) # {} PROVE FALSE
  OBVIOUS
<1> DEFINE S == RelevantRuns(page, e)
           T == {time - r.started : r \in S}
<1>1. S \subseteq page /\ page \subseteq Range(estate[e.family].runs)
  BY DEF RelevantRuns, Successes
<1> HIDE DEF S
<1>2. \A r \in S : r.started \in Nat /\ r.started <= time
  BY <1>1, RunsApart
<1>3. T \in SUBSET Nat /\ T # {}
  BY <1>2 DEF S
<1>4. PICK x \in T : \A y \in T : x <= y
  BY <1>3, LeastNat
<1>5. PICK r \in S : x = time - r.started
  BY <1>4
<1>6. \A s \in S : s.started <= r.started
  <2> TAKE s \in S
  <2>1. x <= time - s.started
    BY <1>4
  <2> QED
    BY <1>2, <1>5, <2>1
<1>7. r \in LatestRelevantRun(page, e)
  BY <1>6 DEF LatestRelevantRun, S
<1> QED
  BY <1>7

\* The latest of the first page that has one is the latest that counts.
LEMMA LatestIsNewest ==
    ASSUME estate \in [Families -> Consumers], time \in Nat, audit.page \in Nat \ {0},
           audit.now \in Nat,
           NEW e, e.family \in Families, InOrder(estate[e.family], time), NoneSoFar(e),
           NEW latest \in LatestRelevantRun(SuccessPage(e.family, audit.page), e)
    PROVE  /\ latest \in RelevantRuns(Successes(e.family), e)
           /\ latest \in RunRecords /\ latest \in Range(estate[e.family].runs)
           /\ \A r \in RelevantRuns(Successes(e.family), e) :
                 r.finished <= audit.now => r.started <= latest.started
<1> DEFINE f == e.family
           m == (audit.page - 1) * PageSize
           k == audit.page * PageSize
           page == SuccessPage(f, audit.page)
<1>1. m \in Nat /\ k \in Nat
  BY NextPage
<1>2. /\ Successes(f) \subseteq RunRecords /\ IsFiniteSet(Successes(f))
      /\ \A r \in Successes(f) : Place(f, r) \in Nat
  BY Listings
<1>3. page = {r \in Successes(f) : Place(f, r) \in m + 1 .. k}
  BY DEF SuccessPage
<1>4. \A r \in RelevantRuns(Successes(f), e) : Place(f, r) <= m => r.finished > audit.now
  BY DEF NoneSoFar
<1> HIDE DEF m, k, page
<1>5. /\ latest \in RelevantRuns(page, e)
      /\ \A s \in RelevantRuns(page, e) : s.started <= latest.started
  BY DEF LatestRelevantRun, page
<1>6. /\ latest \in page /\ latest \in Successes(f)
      /\ latest \in RelevantRuns(Successes(f), e)
  BY <1>3, <1>5 DEF RelevantRuns
<1>7. ASSUME NEW r \in RelevantRuns(Successes(f), e), r.finished <= audit.now
      PROVE  r.started <= latest.started
  <2>1. r \in Successes(f)
    BY DEF RelevantRuns
  <2>2. r.finished \in Nat /\ r.started \in Nat /\ latest.started \in Nat
    BY <1>2, <1>6, <2>1 DEF RunRecords
  <2>3. ~(Place(f, r) <= m)
    BY <1>4, <1>7, <2>2
  <2>4. CASE Place(f, r) <= k
    <3>1. r \in page
      BY <1>1, <1>2, <1>3, <2>1, <2>3, <2>4
    <3>2. r \in RelevantRuns(page, e)
      BY <3>1 DEF RelevantRuns
    <3> QED
      BY <1>5, <3>2
  <2>5. CASE ~(Place(f, r) <= k)
    <3> SUFFICES ASSUME r.started > latest.started PROVE FALSE
      BY <2>2
    <3> DEFINE A == {s \in Successes(f) : s.started >= r.started}
               B == {s \in Successes(f) : s.started >= latest.started}
    <3>1. A \subseteq B
      BY <1>2, <2>2 DEF RunRecords
    <3>2. IsFiniteSet(B)
      BY <1>2, FS_Subset
    <3>3. Place(f, r) = Cardinality(A) /\ Place(f, latest) = Cardinality(B)
      BY DEF Place
    <3> HIDE DEF A, B
    <3>4. Cardinality(A) <= Cardinality(B)
      BY <3>1, <3>2, FS_Subset
    <3>5. Place(f, latest) <= k
      BY <1>1, <1>2, <1>3, <1>6
    <3> QED
      BY <1>1, <1>2, <1>6, <2>1, <2>5, <3>3, <3>4, <3>5
  <2> QED
    BY <2>4, <2>5
<1>8. latest \in Range(estate[f].runs)
  BY <1>6 DEF Successes
<1> QED
  BY <1>2, <1>6, <1>7, <1>8

\* The last checks of a canary, for what is newer than its run.
LEMMA LateKeeps ==
    ASSUME ReadInv, audit.pc \in {"Runs", "Current"}, Looks,
           audit'.rest = audit.rest, audit'.now = audit.now, audit'.expired = audit.expired,
           audit'.gathered = audit.gathered, audit.failing => audit'.failing,
           audit'.pc \in {"Runs", "Current", "Finish"},
           audit'.pc = "Runs" => audit'.page \in Nat \ {0},
           audit'.pc = "Current" => family \notin ReleaseFamilies,
           \A e : e = entry /\ e.family \in Families /\ ~audit'.failing =>
               /\ audit'.pc = "Runs" => NoneSoFar(e)'
               /\ audit'.pc = "Finish" /\ e.family \in ReleaseFamilies => NewestRun(e)
               /\ audit'.pc # "Runs" /\ e.family \notin ReleaseFamilies => NewestVerification(e)
    PROVE  CoreInv'
<1>1. audit.pc \in Reads /\ Late
  BY DEF Reads, Late
<1>2. /\ Running /\ audit.pc \notin {"Start", "Render", "Done"} /\ audit.failing \in BOOLEAN
      /\ audit.gathered = {} /\ (~audit.failing => Progress(entry))
  BY <1>1, WhileReading
<1>3. Move(audit')
  BY <1>2 DEF Move, EarlyAt, OfConsumerAt, OfReleasesAt
<1>4. ASSUME NEW e, e = entry, e.family \in Families, ~audit'.failing
      PROVE  Progress(e)'
  <2>1. Progress(e)
    BY <1>2, <1>4
  <2>2. /\ IF audit.expired THEN HasExpired(e, audit.now) ELSE Matched(e)
        /\ e.family \in ReleaseFamilies => Holds(e) /\ NewestRelease(e)
    BY <1>1, <2>1 DEF Progress
  <2>3. /\ IF audit'.expired THEN HasExpired(e, audit'.now) ELSE Matched(e)'
        /\ e.family \in ReleaseFamilies => Holds(e)' /\ NewestRelease(e)'
    BY <1>4, <2>2, SameFacts DEF ReadInv
  <2>4. /\ audit'.pc = "Runs" => NoneSoFar(e)'
        /\ audit'.pc = "Finish" /\ e.family \in ReleaseFamilies => NewestRun(e)'
        /\ audit'.pc # "Runs" /\ e.family \notin ReleaseFamilies => NewestVerification(e)'
    BY <1>4, SameFacts DEF ReadInv
  <2>5. audit'.pc \notin {"Release", "TagCommit", "Provenance", "Releases"}
    OBVIOUS
  <2>6. audit'.pc \in {"Current", "Finish"} => audit'.pc # "Runs"
    OBVIOUS
  <2> QED
    BY <2>3, <2>4, <2>5, <2>6 DEF Progress
<1> QED
  BY <1>2, <1>3, <1>4, MoveKeeps DEF ReadInv

LEMMA RunsCore == ASSUME ReadInv, ReadRuns PROVE CoreInv'
<1> DEFINE page == SuccessPage(family, audit.page)
           finish == At("Finish")
           b == Error(At("Finish"))
           checked(r) == Checked(r.id = entry.run, At("Finish"))
           current(r) == [At("Current") EXCEPT !.latest = r]
           more == [audit EXCEPT !.page = @ + 1]
<1>1. /\ Reading("Runs")
      /\ \/ Unread("Finish") \/ Continue(b)
         \/ \E r \in LatestRelevantRun(page, entry) :
               \/ family \in ReleaseFamilies /\ Continue(checked(r))
               \/ /\ family \notin ReleaseFamilies /\ ReferencedPolicySha(r) = entry.pin
                  /\ Continue(finish) \/ Continue(current(r))
         \/ LatestRelevantRun(page, entry) = {} /\ Continue(more)
  BY DEF ReadRuns
<1>2. audit.pc = "Runs" /\ audit.pc \in Reads
  BY <1>1 DEF Reading, Reads
<1>3. /\ audit.failing \in BOOLEAN /\ family \in Families /\ audit.page \in Nat \ {0}
      /\ (~audit.failing => Progress(entry)) /\ audit.now \in Nat
      /\ InOrder(estate[family], time)
  BY <1>2, WhileReading
<1>4. time \in Nat /\ estate \in [Families -> Consumers]
  BY DEF ReadInv, CoreInv, WorldInv
<1> HIDE DEF page
<1>5. /\ Agree(finish, audit) /\ finish.pc = "Finish" /\ finish.failing = audit.failing
      /\ Agree(b, audit) /\ b.pc = "Finish" /\ b.failing
  BY Values DEF ReadInv
<1>6. ASSUME NEW r
      PROVE  /\ Agree(checked(r), audit) /\ checked(r).pc = "Finish"
             /\ checked(r).failing = (audit.failing \/ ~(r.id = entry.run))
  BY Values, ZenonT(60) DEF ReadInv
<1>7. \A r : /\ Agree(current(r), audit) /\ current(r).pc = "Current"
             /\ current(r).failing = audit.failing
  BY DEF ReadInv, ReportInv, At, Idle, Agree
<1>8. /\ Agree(more, audit) /\ more.pc = "Runs" /\ more.page = audit.page + 1
      /\ more.failing = audit.failing
  BY <1>2 DEF ReadInv, ReportInv, Idle, Agree
<1> HIDE DEF finish, checked, current, more
<1>9. /\ Looks
      /\ \/ audit' = b
         \/ \E r \in LatestRelevantRun(page, entry) :
               \/ family \in ReleaseFamilies /\ audit' = checked(r)
               \/ /\ family \notin ReleaseFamilies /\ ReferencedPolicySha(r) = entry.pin
                  /\ audit' = finish \/ audit' = current(r)
         \/ LatestRelevantRun(page, entry) = {} /\ audit' = more
  BY <1>1, ReadingLooks
<1> HIDE DEF b
<1>10. /\ Agree(audit', audit) /\ audit'.pc \in {"Runs", "Current", "Finish"}
       /\ (audit.failing => audit'.failing)
       /\ audit'.pc = "Runs" => audit' = more
       /\ audit'.pc = "Current" => family \notin ReleaseFamilies
  BY <1>5, <1>6, <1>7, <1>8, <1>9
<1>11. audit'.pc = "Runs" => audit'.page \in Nat \ {0}
  BY <1>3, <1>8, <1>10
<1>12. ASSUME NEW e, e = entry, e.family \in Families, ~audit'.failing
       PROVE  /\ audit'.pc = "Runs" => NoneSoFar(e)'
              /\ audit'.pc = "Finish" /\ e.family \in ReleaseFamilies => NewestRun(e)
              /\ audit'.pc # "Runs" /\ e.family \notin ReleaseFamilies => NewestVerification(e)
  <2>1. ~audit.failing /\ Progress(e) /\ e.family = family /\ InOrder(estate[e.family], time)
    BY <1>3, <1>10, <1>12 DEF family
  <2>2. /\ NoneSoFar(e) /\ page = SuccessPage(e.family, audit.page)
        /\ IF audit.expired THEN HasExpired(e, audit.now) ELSE Matched(e)
    BY <1>2, <2>1 DEF Progress, Late, page
  <2>3. CASE LatestRelevantRun(page, entry) = {} /\ audit' = more
    <3>1. RelevantRuns(page, e) = {}
      <4>1. page \in SUBSET Successes(e.family)
        BY <2>2 DEF SuccessPage
      <4> QED
        BY <1>4, <1>12, <2>1, <2>3, <4>1, SomeIsLatest
    <3>2. estate' = estate /\ audit'.page = audit.page + 1 /\ audit'.now = audit.now
      BY <1>8, <1>9, <1>10, <2>3 DEF Looks, Agree
    <3> DEFINE m == (audit.page - 1) * PageSize
               k == audit.page * PageSize
    <3>3. m \in Nat /\ k \in Nat /\ (audit'.page - 1) * PageSize = k
      BY <1>3, <3>2, NextPage
    <3>4. page = {r \in Successes(e.family) : Place(e.family, r) \in m + 1 .. k}
      BY <2>2 DEF SuccessPage
    <3>5. \A r \in RelevantRuns(Successes(e.family), e) :
              Place(e.family, r) <= m => r.finished > audit.now
      BY <2>2 DEF NoneSoFar
    <3> HIDE DEF m, k
    <3>6. ASSUME NEW r \in RelevantRuns(Successes(e.family), e), Place(e.family, r) <= k
          PROVE  r.finished > audit.now
      <4>1. r \in Successes(e.family) /\ Place(e.family, r) \in Nat
        BY <1>4, <1>12, Listings DEF RelevantRuns
      <4>2. ~(Place(e.family, r) <= m) => r \in page
        BY <3>3, <3>4, <3>6, <4>1
      <4>3. r \notin page
        BY <3>1 DEF RelevantRuns
      <4> QED
        BY <3>5, <4>2, <4>3
    <3>7. Successes(e.family)' = Successes(e.family)
      BY <3>2 DEF Successes
    <3>8. \A r : Place(e.family, r)' = Place(e.family, r)
      BY <3>7 DEF Place
    <3>9. NoneSoFar(e)'
      BY <3>2, <3>3, <3>6, <3>7, <3>8 DEF NoneSoFar
    <3> QED
      BY <1>8, <2>3, <3>9
  <2>4. ASSUME NEW r \in LatestRelevantRun(page, entry)
        PROVE  /\ r \in RelevantRuns(Successes(e.family), e)
               /\ r \in RunRecords /\ r \in Range(estate[e.family].runs)
               /\ \A s \in RelevantRuns(Successes(e.family), e) :
                     s.finished <= audit.now => s.started <= r.started
    <3>1. r \in LatestRelevantRun(SuccessPage(e.family, audit.page), e)
      BY <1>12, <2>2
    <3> QED
      BY <1>3, <1>4, <1>12, <2>1, <2>2, <3>1, LatestIsNewest
  <2>5. ASSUME NEW r \in LatestRelevantRun(page, entry), family \in ReleaseFamilies,
               audit' = checked(r)
        PROVE  NewestRun(e) /\ audit'.pc = "Finish"
    <3>1. r.id = e.run
      BY <1>6, <1>12, <2>1, <2>5
    <3>2. ~HasExpired(e, audit.now) => r.started = e.started
      BY <2>2, <2>4, <3>1 DEF Matched, RunsNamed
    <3> QED
      BY <1>6, <2>4, <2>5, <3>2 DEF NewestRun
  <2>6. ASSUME NEW r \in LatestRelevantRun(page, entry), family \notin ReleaseFamilies,
               ReferencedPolicySha(r) = entry.pin
        PROVE  NewestVerification(e)
    <3> SUFFICES ASSUME NEW s \in RelevantRuns(Successes(e.family), e),
                        s.finished <= audit.now, ReferencedPolicySha(s) # e.pin
                 PROVE  r.started > s.started
      BY <1>12, <2>4, <2>6 DEF NewestVerification
    <3>1. s.started <= r.started
      BY <2>4
    <3>2. s # r
      BY <1>12, <2>6
    <3>3. s \in Range(estate[e.family].runs)
      BY DEF RelevantRuns, Successes
    <3>4. estate[e.family] \in Consumers
      BY <1>4, <1>12
    <3>5. s.started # r.started /\ s.started \in Nat /\ r.started \in Nat
      BY <1>4, <2>1, <2>4, <3>2, <3>3, <3>4, RunsApart
    <3> QED
      BY <3>1, <3>5
  <2>7. audit' # b
    BY <1>5, <1>12
  <2> QED
    BY <1>5, <1>7, <1>9, <2>1, <2>3, <2>5, <2>6, <2>7
<1> QED
  BY <1>2, <1>9, <1>10, <1>11, <1>12, LateKeeps DEF Agree

LEMMA CurrentCore == ASSUME ReadInv, ReadCurrent PROVE CoreInv'
<1> DEFINE holds == \E r \in RunsNamed(family, audit.latest.id) : ReplacesExpired(r, audit.latest, entry)
           a == Checked(holds, At("Finish"))
           b == Error(At("Finish"))
<1>1. Reading("Current") /\ (Unread("Finish") \/ Continue(a))
  BY DEF ReadCurrent
<1> HIDE DEF holds
<1>2. /\ Agree(a, audit) /\ a.pc = "Finish" /\ (audit.failing => a.failing)
      /\ Agree(b, audit) /\ b.pc = "Finish" /\ b.failing
  BY Values DEF ReadInv
<1> HIDE DEF a
<1>3. audit.pc = "Current" /\ Looks /\ (audit' = a \/ audit' = b)
  BY <1>1, ReadingLooks
<1> HIDE DEF b
<1>4. /\ ~audit.failing => Progress(entry)
      /\ family \notin ReleaseFamilies
      /\ Agree(audit', audit) /\ audit'.pc = "Finish" /\ (audit.failing => audit'.failing)
  BY <1>2, <1>3, WhileReading DEF Reads
<1>5. ASSUME NEW e, e = entry, e.family \in Families, ~audit'.failing
      PROVE  /\ e.family \in ReleaseFamilies => NewestRun(e)
             /\ e.family \notin ReleaseFamilies => NewestVerification(e)
  <2>1. Progress(e)
    BY <1>4, <1>5
  <2> QED
    BY <1>3, <1>4, <1>5, <2>1 DEF Progress, family
<1> QED
  BY <1>3, <1>4, <1>5, LateKeeps DEF Agree

-----------------------------------------------------------------------------
(* The end of a canary, and of the audit.                                    *)

LEMMA FinishCore == ASSUME ReadInv, Finish PROVE CoreInv'
<1> DEFINE next == IF Len(audit.rest) = 1 THEN "Render" ELSE "Pin"
           warned == audit.warned \/ (family \in ReleaseFamilies /\ entry.policy # entry.pin)
           a == [At(next) EXCEPT !.rest = Tail(audit.rest), !.expired = FALSE, !.latest = NONE,
                    !.repo = POLICY, !.admitting = NONE, !.unseen = FALSE,
                    !.warned = warned, !.todo = <<>>]
<1>1. audit.pc = "Finish" /\ audit' = a /\ Looks
  <2>1. Reading("Finish") /\ audit' = a /\ UNCHANGED loosened
    BY DEF Finish, Continue, At
  <2> QED
    BY <2>1 DEF Reading, Looks
<1>2. audit.pc \in Reads /\ Late
  BY <1>1 DEF Reads, Late
<1>3. /\ Running /\ audit.failing \in BOOLEAN /\ audit.rest # <<>> /\ family \in Families
      /\ audit.gathered = {} /\ (~audit.failing => Progress(entry)) /\ audit.now \in Nat
  BY <1>1, <1>2, WhileReading
<1>4. /\ a.rest = Tail(audit.rest) /\ a.expired = FALSE /\ a.repo = POLICY /\ a.pc = next
      /\ a.now = audit.now /\ a.gathered = audit.gathered /\ a.failing = audit.failing
  <2> HIDE DEF next, warned
  <2> QED
    BY DEF At, ReadInv, ReportInv, Idle
<1> HIDE DEF a
<1>5. /\ audit'.rest = Tail(audit.rest) /\ audit'.expired = FALSE /\ audit'.repo = POLICY
      /\ audit'.pc = next /\ audit'.now = audit.now /\ audit'.gathered = {}
      /\ audit'.failing = audit.failing
  BY <1>1, <1>3, <1>4
<1>6. /\ audit.rest \in Seq(Range(manifest.families))
      /\ \A e \in Range(manifest.families) : e.family \in Families
  BY <1>3 DEF ReadInv, CoreInv, PositionInv
<1>7. /\ Tail(audit.rest) \in Seq(Range(manifest.families))
      /\ Tail(audit.rest) = <<>> <=> Len(audit.rest) = 1
      /\ \A e \in Range(audit.rest) : e = entry \/ e \in Range(Tail(audit.rest))
      /\ entry \in Range(manifest.families)
  <2>1. PICK s \in Seq(Range(manifest.families)) : s = audit.rest
    BY <1>6
  <2> DEFINE S == Range(manifest.families)
  <2> HIDE DEF S
  <2>2. s \in Seq(S) /\ s # <<>>
    BY <1>3, <2>1 DEF S
  <2>3. PICK len \in Nat \ {0} : len = Len(s)
    BY <2>2, EmptySeq, LenProperties
  <2>4. /\ Tail(s) \in Seq(S) /\ Len(Tail(s)) = len - 1
        /\ \A i \in 1 .. len - 1 : Tail(s)[i] = s[i + 1]
        /\ Head(s) = s[1] /\ s[1] \in S
    <3>1. /\ Tail(s) \in Seq(S) /\ Len(Tail(s)) = Len(s) - 1
          /\ \A i \in 1 .. Len(Tail(s)) : Tail(s)[i] = s[i + 1]
      BY <2>2, HeadTailProperties
    <3>2. Head(s) = s[1] /\ s[1] \in S
      BY <2>2, HeadAndTail
    <3> QED
      BY <2>3, <3>1, <3>2
  <2>5. Tail(s) = <<>> <=> len = 1
    <3>1. Tail(s) = <<>> <=> Len(Tail(s)) = 0
      BY <2>4, EmptySeq
    <3> QED
      BY <2>3, <2>4, <3>1
  <2>6. ASSUME NEW e \in Range(s), e # s[1] PROVE e \in Range(Tail(s))
    <3>1. PICK i \in 1 .. len : e = s[i]
      BY <2>2, <2>3, LenProperties DEF Range
    <3>2. i - 1 \in 1 .. len - 1 /\ Tail(s)[i - 1] = s[i - 1 + 1] /\ i - 1 + 1 = i
      BY <2>3, <2>4, <2>6, <3>1
    <3>3. DOMAIN Tail(s) = 1 .. len - 1
      BY <2>4, LenProperties
    <3> QED
      BY <3>1, <3>2, <3>3 DEF Range
  <2> QED
    BY <2>1, <2>3, <2>4, <2>5, <2>6 DEF entry, S
<1>8. /\ manifest' = manifest /\ exit' = exit /\ estate' = estate /\ time' = time
      /\ policy' = policy /\ \A f \in Families : f \in loosened' <=> f \in loosened
  BY <1>1 DEF Looks
<1>9. audit'.pc \in {"Pin", "Render"} /\ (audit'.pc = "Render" <=> audit'.rest = <<>>)
  BY <1>5, <1>7
<1>10. Running' /\ ~Late' /\ (Early' <=> audit'.pc = "Pin") /\ ~OfConsumer'
  BY <1>3, <1>8, <1>9 DEF Running, Late, OfConsumer, Early, OfPolicy
<1>11. WorldInv'
  <2>1. \A f \in Families : Locked(f)' <=> Locked(f)
    BY <1>8, FamiliesAreNotPolicy DEF Locked, Stops, RulesetsOf
  <2>2. /\ audit.now \in Nat /\ audit.now <= time
        /\ \A f \in Families : Locked(f) \/ f \in loosened
        /\ time \in Nat /\ estate \in [Families -> Consumers]
        /\ \A f \in Families : InOrder(estate[f], time)
    BY <1>3 DEF ReadInv, CoreInv, WorldInv
  <2> QED
    BY <1>5, <1>8, <2>1, <2>2 DEF WorldInv
<1>12. PositionInv'
  BY <1>5, <1>6, <1>7, <1>8, <1>9, <1>10 DEF PositionInv
<1>13. ProgressInv'
  <2>1. \A e : Progress(e)'
    BY <1>9, <1>10 DEF Progress
  <2> QED
    BY <2>1 DEF ProgressInv
<1>14. PassInv'
  <2> SUFFICES ASSUME ~audit.failing, NEW e \in Range(manifest.families),
                      e \notin Range(Tail(audit.rest))
               PROVE  IsSound(e)'
    BY <1>5, <1>8 DEF PassInv
  <2>1. e.family \in Families
    BY <1>6
  <2>2. CASE e = entry
    <3>1. Progress(e)
      BY <1>3, <2>2
    <3>2. IsSound(e)
      BY <1>1, <1>2, <3>1 DEF Progress, IsSound
    <3> QED
      BY <1>1, <1>5, <2>1, <3>2, SameFacts DEF ReadInv
  <2>3. CASE e # entry
    <3>1. e \notin Range(audit.rest)
      BY <1>7, <2>3
    <3>2. IsSound(e)
      BY <1>3, <3>1 DEF ReadInv, CoreInv, PassInv
    <3> QED
      BY <1>1, <1>5, <2>1, <3>2, SameFacts DEF ReadInv
  <2> QED
    BY <2>2, <2>3
<1>15. EndsInv'
  BY <1>1, <1>8, <1>9 DEF ReadInv, CoreInv, EndsInv
<1> QED
  BY <1>11, <1>12, <1>13, <1>14, <1>15 DEF CoreInv

LEMMA StartCore == ASSUME ReadInv, Start PROVE CoreInv'
<1>1. /\ audit = Idle /\ manifest \in Manifests /\ exit = NONE
      /\ UNCHANGED <<policy, estate, time, manifest>>
  BY DEF ReadInv, ReportInv, CoreInv, EndsInv, Start
<1>2. /\ time \in Nat /\ estate \in [Families -> Consumers]
      /\ \A f \in Families : InOrder(estate[f], time)
  BY DEF ReadInv, CoreInv, WorldInv
<1>3. CASE ~LoadManifest(manifest)
  <2>1. audit' = [audit EXCEPT !.pc = "Done"] /\ exit' = 1
    BY <1>3 DEF Start
  <2>2. audit'.pc = "Done"
    BY <1>1, <2>1 DEF Idle
  <2>3. ~Running'
    BY <2>1 DEF Running
  <2> QED
    BY <1>1, <1>2, <2>1, <2>2, <2>3
    DEF CoreInv, WorldInv, PositionInv, ProgressInv, PassInv, EndsInv
<1>4. CASE LoadManifest(manifest)
  <2>1. /\ audit' = [At("Pin") EXCEPT !.rest = manifest.families, !.now = time]
        /\ loosened' = { f \in Families : ~Locked(f) } /\ exit' = exit
    BY <1>4 DEF Start
  <2>2. /\ audit'.pc = "Pin" /\ audit'.rest = manifest.families /\ audit'.now = time
        /\ audit'.expired = FALSE /\ audit'.gathered = {}
    BY <1>1, <2>1 DEF At, Idle
  <2>3. manifest.families \in Seq(Range(manifest.families))
    BY <1>1, CanaryConstants DEF CanaryAssumption
  <2>4. { manifest.families[i].family : i \in DOMAIN manifest.families } = Families
    BY <1>4 DEF LoadManifest
  <2>5. manifest.families # <<>>
    <3>1. Families # {}
      BY CanaryConstants DEF CanaryAssumption
    <3>2. DOMAIN <<>> = {}
      OBVIOUS
    <3> QED
      BY <2>4, <3>1, <3>2
  <2>6. \A e \in Range(manifest.families) : e.family \in Families
    BY <2>4 DEF Range
  <2>7. Running' /\ Early' /\ ~Late' /\ ~OfConsumer'
    BY <1>1, <2>1, <2>2, CanaryConstants
    DEF Running, Early, Late, OfConsumer, CanaryAssumption
  <2>8. \A f \in Families : Locked(f)' <=> Locked(f)
    BY <1>1, FamiliesAreNotPolicy DEF Locked, Stops, RulesetsOf
  <2>9. WorldInv'
    BY <1>1, <1>2, <2>1, <2>2, <2>8 DEF WorldInv
  <2>10. PositionInv'
    BY <1>1, <2>2, <2>3, <2>5, <2>6, <2>7 DEF PositionInv
  <2>11. ProgressInv'
    <3>1. \A e : Progress(e)'
      BY <2>2, <2>7 DEF Progress
    <3> QED
      BY <3>1 DEF ProgressInv
  <2>12. PassInv'
    BY <1>1, <2>2 DEF PassInv
  <2>13. EndsInv'
    BY <1>1, <2>1, <2>2, CanaryConstants DEF EndsInv, CanaryAssumption
  <2> QED
    BY <2>9, <2>10, <2>11, <2>12, <2>13 DEF CoreInv
<1> QED
  BY <1>3, <1>4

LEMMA AbortCore == ASSUME ReadInv, Abort PROVE CoreInv'
<1>1. /\ audit' = At("Done") /\ exit' = 1 /\ UNCHANGED <<policy, estate, time, manifest>>
  BY DEF Abort
<1>2. ~Running' /\ audit'.pc = "Done"
  BY <1>1, Values DEF Running, ReadInv
<1>3. /\ time \in Nat /\ estate \in [Families -> Consumers]
      /\ \A f \in Families : InOrder(estate[f], time)
  BY DEF ReadInv, CoreInv, WorldInv
<1> QED
  BY <1>1, <1>2, <1>3 DEF CoreInv, WorldInv, PositionInv, ProgressInv, PassInv, EndsInv

LEMMA RenderCore == ASSUME ReadInv, Render PROVE CoreInv'
<1>1. /\ audit.pc = "Render" /\ audit' = At("Done") /\ exit' \in {0, 1}
      /\ exit' = 0 => ~audit.failing
      /\ UNCHANGED <<policy, estate, time, manifest, loosened>>
  BY DEF Render
<1>2. /\ audit'.pc = "Done" /\ audit'.failing = audit.failing /\ audit'.rest = audit.rest
      /\ audit'.now = audit.now /\ audit'.gathered = audit.gathered
  BY <1>1, Values DEF ReadInv, Agree
<1>3. Running /\ audit.failing \in BOOLEAN
  BY <1>1, CanaryConstants DEF ReadInv, ReportInv, Running, CanaryAssumption
<1>4. /\ time \in Nat /\ estate \in [Families -> Consumers]
      /\ \A f \in Families : InOrder(estate[f], time)
      /\ audit.now \in Nat /\ audit.now <= time
      /\ \A f \in Families : Locked(f) \/ f \in loosened
  BY <1>3 DEF ReadInv, CoreInv, WorldInv
<1>5. /\ audit.rest = <<>> /\ audit.gathered = {}
      /\ audit.rest \in Seq(Range(manifest.families))
      /\ \A e \in Range(manifest.families) : e.family \in Families
  BY <1>1, <1>3 DEF ReadInv, CoreInv, PositionInv
<1>7. WorldInv'
  <2>1. \A f \in Families : Locked(f)' <=> Locked(f)
    BY <1>1, FamiliesAreNotPolicy DEF Locked, Stops, RulesetsOf
  <2> QED
    BY <1>1, <1>2, <1>4, <2>1 DEF WorldInv
<1>8. PositionInv'
  <2>1. ~Early' /\ ~OfConsumer'
    BY <1>2 DEF Early, OfPolicy, OfConsumer
  <2> QED
    BY <1>1, <1>2, <1>5, <2>1 DEF PositionInv
<1>9. ProgressInv'
  BY <1>2, <1>5 DEF ProgressInv
<1>10. PassInv'
  <2> SUFFICES ASSUME ~audit.failing, NEW e \in Range(manifest.families),
                      e \notin Range(audit.rest)
               PROVE  IsSound(e)'
    BY <1>1, <1>2 DEF PassInv
  <2>1. IsSound(e) /\ e.family \in Families
    BY <1>3, <1>5 DEF ReadInv, CoreInv, PassInv
  <2>2. Successes(e.family)' = Successes(e.family)
    BY <1>1 DEF Successes
  <2>3. ReleasesAt(e.family, e.ref)' = ReleasesAt(e.family, e.ref)
    BY <1>1 DEF ReleasesAt
  <2>4. Holds(e) => Holds(e)'
    BY <1>1, <2>3 DEF Holds
  <2>5. NewestRelease(e) => NewestRelease(e)'
    BY <1>1, <1>2, <2>3 DEF NewestRelease
  <2>6. (NewestRun(e) => NewestRun(e)') /\ (NewestVerification(e) => NewestVerification(e)')
    BY <1>2, <2>2 DEF NewestRun, NewestVerification
  <2> QED
    BY <2>1, <2>4, <2>5, <2>6 DEF IsSound
<1>11. EndsInv'
  BY <1>1, <1>2 DEF EndsInv
<1> QED
  BY <1>7, <1>8, <1>9, <1>10, <1>11 DEF CoreInv

LEMMA CoreStutters == ASSUME CoreInv, UNCHANGED vars PROVE CoreInv'
<1>1. UNCHANGED <<policy, estate, time, manifest, audit, exit, loosened>>
  BY DEF vars
<1>2. /\ Running' <=> Running /\ (Early' <=> Early) /\ (OfConsumer' <=> OfConsumer)
      /\ (Late' <=> Late) /\ entry' = entry /\ family' = family
  BY <1>1 DEF Running, Early, Late, OfPolicy, OfConsumer, family, entry
<1>3. WorldInv'
  <2>1. \A f \in Families : Locked(f)' <=> Locked(f)
    BY <1>1, FamiliesAreNotPolicy DEF Locked, Stops, RulesetsOf
  <2> QED
    BY <1>1, <1>2, <2>1 DEF CoreInv, WorldInv
<1>4. PositionInv'
  BY <1>1, <1>2 DEF CoreInv, PositionInv
<1>5. ASSUME NEW e
      PROVE  (Progress(e) => Progress(e)') /\ (IsSound(e) => IsSound(e)')
  <2>1. /\ Successes(e.family)' = Successes(e.family)
        /\ ReleasesAt(e.family, e.ref)' = ReleasesAt(e.family, e.ref)
        /\ RunsNamed(e.family, e.run)' = RunsNamed(e.family, e.run)
    BY <1>1 DEF Successes, ReleasesAt, RunsNamed
  <2>2. \A r : Place(e.family, r)' = Place(e.family, r)
    BY <2>1 DEF Place
  <2>3. (Holds(e)' <=> Holds(e)) /\ (NewestRelease(e)' <=> NewestRelease(e))
    BY <1>1, <2>1 DEF Holds, NewestRelease
  <2>4. /\ NewestRun(e)' <=> NewestRun(e)
        /\ NewestVerification(e)' <=> NewestVerification(e)
    BY <1>1, <2>1 DEF NewestRun, NewestVerification
  <2>5. (Matched(e)' <=> Matched(e)) /\ (Gathered(e)' <=> Gathered(e))
    BY <1>1, <2>1 DEF Matched, Gathered
  <2>6. NoneSoFar(e)' <=> NoneSoFar(e)
    BY <1>1, <2>1, <2>2 DEF NoneSoFar
  <2> QED
    BY <1>1, <1>2, <2>1, <2>3, <2>4, <2>5, <2>6 DEF Progress, IsSound
<1>6. ProgressInv'
  <2>1. PICK e : e = entry
    OBVIOUS
  <2> QED
    BY <1>1, <1>2, <1>5, <2>1 DEF CoreInv, ProgressInv
<1>7. PassInv'
  BY <1>1, <1>2, <1>5 DEF CoreInv, PassInv
<1>8. EndsInv'
  BY <1>1 DEF CoreInv, EndsInv
<1> QED
  BY <1>3, <1>4, <1>6, <1>7, <1>8 DEF CoreInv

LEMMA InitCore == Init => CoreInv
<1> SUFFICES ASSUME Init PROVE CoreInv
  OBVIOUS
<1>1. /\ audit.pc = "Start" /\ ~Running /\ exit # 0
  BY CanaryConstants DEF Init, Idle, Running, CanaryAssumption
<1>2. WorldInv
  <2>1. estate \in Estates /\ time \in StartTimes
    BY DEF Init
  <2> QED
    BY <1>1, <2>1, CanaryConstants DEF CanaryAssumption, WorldInv
<1>3. EndsInv
  BY <1>1 DEF EndsInv, Init
<1> QED
  BY <1>1, <1>2, <1>3 DEF CoreInv, PositionInv, ProgressInv, PassInv

LEMMA NextCore == ASSUME ReadInv, [Next]_vars PROVE CoreInv'
<1>1. CASE UNCHANGED vars
  BY <1>1, CoreStutters DEF ReadInv
<1>2. CASE \/ MoveMain \/ MovePolicyTag \/ SetRulesets \/ Repin \/ StartRelease \/ PublishRelease
           \/ StartVerification \/ FinishRun \/ DeleteRun \/ MoveTag
  BY <1>2, WorldGoesOn, WorldKeeps DEF ReadInv, CoreInv
<1>3. CASE \/ ReadPin \/ ReadCompare \/ ReadRulesets \/ ReadRuleset \/ ReadTags \/ ReadTagCompare
           \/ ReadTree \/ ReadHistory
  BY <1>3, PinCore, CompareCore, RulesetsCore, RulesetCore, TagsCore, TagCompareCore, HistoryCore
<1>4. CASE \/ ReadRun \/ ReadRelease \/ ReadTagCommit \/ ReadProvenance \/ ReadReleases
           \/ ReadRuns \/ ReadCurrent
  BY <1>4, RunCore, ReleaseCore, TagCommitCore, ProvenanceCore, ReleasesCore, RunsCore, CurrentCore
<1>5. CASE Start \/ Abort \/ Finish \/ Render
  BY <1>5, StartCore, AbortCore, FinishCore, RenderCore
<1> QED
  BY <1>1, <1>2, <1>3, <1>4, <1>5 DEF Next

\* What a passing audit says of every canary.
LEMMA PassedIsSound ==
    ReadInv => EvidenceHolds /\ EvidenceIsCurrent
<1> SUFFICES ASSUME ReadInv, exit = 0 PROVE EvidenceHolds /\ EvidenceIsCurrent
  BY DEF EvidenceHolds, EvidenceIsCurrent
<1>1. audit.pc = "Done" /\ ~audit.failing /\ Running
  BY DEF ReadInv, CoreInv, EndsInv, Running
<1>2. audit.rest = <<>>
  BY <1>1 DEF ReadInv, CoreInv, PositionInv
<1>3. Range(audit.rest) = {}
  BY <1>2 DEF Range
<1>4. \A e \in Range(manifest.families) : IsSound(e)
  BY <1>1, <1>3 DEF ReadInv, CoreInv, PassInv
<1> QED
  BY <1>4 DEF IsSound, Recorded, EvidenceHolds, EvidenceIsCurrent

LEMMA EvidenceInvariance == Spec => [](Inv /\ CoreInv)
<1>1. Init => Inv /\ CoreInv
  BY InitInv, InitCore, CanaryConstants
<1>2. Inv /\ CoreInv /\ [Next]_vars => (Inv /\ CoreInv)'
  BY NextInv, NextCore, CanaryConstants DEF Inv, ReadInv
<1> QED
  BY <1>1, <1>2, PTL DEF Spec

\* When the audit passes, every recorded release is published, immutable, signed
\* by the recorded run and, unless its tags were unlocked, at the recorded commit
\* (verify_provenance and tag_protection in check_canaries.rs).
THEOREM EvidenceIsReal == Spec => []EvidenceHolds
<1>1. Inv /\ CoreInv => EvidenceHolds
  BY PassedIsSound DEF Inv, ReadInv
<1> QED
  BY <1>1, EvidenceInvariance, PTL

\* When the audit passes, no release of the namespace, no run and no verification
\* of another pin that was there before it began is newer than what is recorded
\* (release_freshness_errors, latest_run_errors, expired_verify_errors).
THEOREM EvidenceIsTheNewest == Spec => []EvidenceIsCurrent
<1>1. Inv /\ CoreInv => EvidenceIsCurrent
  BY PassedIsSound DEF Inv, ReadInv
<1> QED
  BY <1>1, EvidenceInvariance, PTL

-----------------------------------------------------------------------------
(* The gates on main.                                                        *)

USE GateConstants DEF Gate!MainGateAssumption

\* The instance counts as the library does.
LEMMA GateCounts ==
  ASSUME NEW S
  PROVE  (Gate!IsFiniteSet(S) <=> IsFiniteSet(S)) /\ Gate!Cardinality(S) = Cardinality(S)
<1>1. Gate!IsFiniteSet(S) <=> IsFiniteSet(S)  BY DEF Gate!IsFiniteSet, IsFiniteSet
<1>2. Gate!Cardinality(S) = Cardinality(S)  BY DEF Gate!Cardinality, Cardinality
<1>3. QED  BY <1>1, <1>2

\* The prefix test of the gate selects the paths inside the component.
LEMMA OwnedIsInside ==
  ASSUME NEW p \in GatePaths
  PROVE  Gate!Owned(p) <=> p = Caller \/ Gate!Inside(p)
<1> DEFINE s == SourceDirectory
           n == Len(s)
<1>1. p \in Seq(STRING) /\ s \in Seq(STRING) /\ Len(p) \in Nat /\ n \in Nat  OBVIOUS
<1>2. SubSeq(s, 1, n) = s  BY <1>1
<1>3. n <= Len(p) => /\ Len(SubSeq(p, 1, n)) = n
                     /\ \A i \in 1 .. n : SubSeq(p, 1, n)[i] = p[i]
  BY <1>1
<1>4. ASSUME Gate!IsPrefix(s, p) PROVE Gate!Inside(p)
  BY <1>1, <1>2, <1>3, <1>4 DEF Gate!IsPrefix, Gate!Inside
<1>5. ASSUME Gate!Inside(p) PROVE Gate!IsPrefix(s, p)
  <2>1. n <= Len(p)
    <3>1. CASE n = 0  BY <1>1, <3>1
    <3>2. CASE n # 0
      <4>1. n \in 1 .. n  BY <1>1, <3>2
      <4>2. QED  BY <1>5, <4>1 DEF Gate!Inside
    <3>3. QED  BY <3>1, <3>2
  <2>2. SubSeq(p, 1, n) \in Seq(STRING) /\ Len(SubSeq(p, 1, n)) = n  BY <1>1, <2>1
  <2>3. \A i \in 1 .. n : SubSeq(p, 1, n)[i] = s[i]  BY <1>3, <1>5, <2>1 DEF Gate!Inside
  <2>4. SubSeq(p, 1, n) = s  BY <1>1, <2>2, <2>3
  <2>5. QED  BY <1>2, <2>1, <2>4 DEF Gate!IsPrefix
<1>6. SourceDirectory = <<>> => Gate!Inside(p)  BY DEF Gate!Inside
<1>7. QED  BY <1>4, <1>5, <1>6 DEF Gate!Owned

\* Every changed path is named by an entry of the full listing.
LEMMA FilesNameChanges ==
  ASSUME NEW tree \in Gate!Trees, NEW f \in Gate!Renames(tree), NEW p \in Gate!Changed(tree)
  PROVE  \E e \in Gate!Files(tree, f) : p \in Gate!Names(e)
<1>1. PICK S \in SUBSET Gate!Added(tree) : f \in [S -> Gate!Removed(tree)]  BY DEF Gate!Renames
<1>2. CASE p \in DOMAIN f
  <2>1. Gate!Entry(p, f[p]) \in Gate!Files(tree, f)  BY <1>2 DEF Gate!Files
  <2>2. p \in Gate!Names(Gate!Entry(p, f[p]))  BY DEF Gate!Names, Gate!Entry
  <2>3. QED  BY <2>1, <2>2
<1>3. CASE \E q \in DOMAIN f : p = f[q]
  <2>1. PICK q \in DOMAIN f : p = f[q]  BY <1>3
  <2>2. q \in Gate!Added(tree) /\ p \in Gate!Removed(tree)  BY <1>1, <2>1
  <2>3. q # p  BY <2>2 DEF Gate!Added, Gate!Removed, Gate!Changed
  <2>4. Gate!Entry(q, p) \in Gate!Files(tree, f)  BY <2>1 DEF Gate!Files
  <2>5. p \in Gate!Names(Gate!Entry(q, p))  BY <2>3 DEF Gate!Names, Gate!Entry
  <2>6. QED  BY <2>4, <2>5
<1>4. CASE p \notin DOMAIN f \cup {f[q] : q \in DOMAIN f}
  <2>1. Gate!Entry(p, p) \in Gate!Files(tree, f)  BY <1>4 DEF Gate!Files
  <2>2. p \in Gate!Names(Gate!Entry(p, p))  BY DEF Gate!Names, Gate!Entry
  <2>3. QED  BY <2>1, <2>2
<1>5. QED  BY <1>2, <1>3, <1>4

\* An entry names nothing but changed paths, and no two have one name.
LEMMA FilesAreChanges ==
  ASSUME NEW tree \in Gate!Trees, NEW f \in Gate!Renames(tree)
  PROVE  /\ \A e \in Gate!Files(tree, f) : e.filename \in Gate!Changed(tree)
                /\ Gate!Names(e) \subseteq Gate!Changed(tree)
         /\ \A d, e \in Gate!Files(tree, f) : d.filename = e.filename => d = e
<1>1. PICK S \in SUBSET Gate!Added(tree) : f \in [S -> Gate!Removed(tree)]  BY DEF Gate!Renames
<1>2. \A q \in DOMAIN f : q \in Gate!Changed(tree) /\ f[q] \in Gate!Changed(tree)
  BY <1>1 DEF Gate!Added, Gate!Removed
<1>3. ASSUME NEW e \in Gate!Files(tree, f)
      PROVE  e.filename \in Gate!Changed(tree) /\ Gate!Names(e) \subseteq Gate!Changed(tree)
  <2>1. PICK p, q : e = Gate!Entry(p, q) /\ p \in Gate!Changed(tree) /\ q \in Gate!Changed(tree)
    BY <1>2 DEF Gate!Files
  <2>2. e.filename = p /\ Gate!Names(e) \subseteq {p, q}  BY <2>1 DEF Gate!Entry, Gate!Names
  <2>3. QED  BY <2>1, <2>2
<1>4. ASSUME NEW d \in Gate!Files(tree, f), NEW e \in Gate!Files(tree, f), d.filename = e.filename
      PROVE  d = e
  <2>1. \A x \in Gate!Files(tree, f) :
          x = IF x.filename \in DOMAIN f THEN Gate!Entry(x.filename, f[x.filename])
              ELSE Gate!Entry(x.filename, x.filename)
    BY DEF Gate!Files, Gate!Entry
  <2>2. QED  BY <1>4, <2>1
<1>5. QED  BY <1>3, <1>4

\* A comparison is accepted only if nothing owned has changed.
LEMMA OkIsUnchanged ==
  ASSUME NEW tree \in Gate!Trees, NEW rel, NEW f \in Gate!Renames(tree), NEW listing, NEW lost,
         Gate!Listed(Gate!Files(tree, f), listing), Gate!Answer(rel, listing, lost) = "ok"
  PROVE  rel # "apart" /\ Gate!Unchanged(tree)
<1>1. /\ rel # "apart" /\ ~(Gate!Cardinality(listing) >= Limit)
      /\ \A e \in listing : \A p \in Gate!Names(e) : ~Gate!Owned(p)
  BY DEF Gate!Answer
<1>2. listing = Gate!Files(tree, f)
  <2>1. Gate!Cardinality(listing) # Limit  BY <1>1
  <2>2. QED  BY <2>1 DEF Gate!Listed
<1>3. ASSUME NEW p \in GatePaths, p = Caller \/ Gate!Inside(p) PROVE tree[p] = Tagged[p]
  <2>1. Gate!Owned(p)  BY <1>3, OwnedIsInside
  <2>2. p \notin Gate!Changed(tree)  BY <1>1, <1>2, <2>1, FilesNameChanges
  <2>3. QED  BY <2>2 DEF Gate!Changed
<1>4. QED  BY <1>1, <1>3 DEF Gate!Unchanged

\* A listing is no longer than the number of changed paths.
LEMMA ListingBound ==
  ASSUME NEW tree \in Gate!Trees, NEW f \in Gate!Renames(tree),
         NEW listing \in SUBSET Gate!Files(tree, f)
  PROVE  Gate!Cardinality(listing) \in Nat /\ Gate!Cardinality(Gate!Changed(tree)) \in Nat
         /\ Gate!Cardinality(listing) <= Gate!Cardinality(Gate!Changed(tree))
<1> DEFINE name == [e \in listing |-> e.filename]
<1>1. Gate!Changed(tree) \in SUBSET GatePaths  BY DEF Gate!Changed
<1>2. IsFiniteSet(Gate!Changed(tree))  BY <1>1, GateCounts, FS_Subset
<1>3. name \in Injection(listing, Gate!Changed(tree))
  <2>1. name \in [listing -> Gate!Changed(tree)]  BY FilesAreChanges
  <2>2. \A d, e \in listing : name[d] = name[e] => d = e  BY FilesAreChanges
  <2> HIDE DEF name
  <2>3. QED  BY <2>1, <2>2 DEF Injection, IsInjective
<1> HIDE DEF name
<1>4. IsFiniteSet(listing) /\ Cardinality(listing) <= Cardinality(Gate!Changed(tree))
  BY <1>2, <1>3, FS_Injection
<1>5. QED  BY <1>2, <1>4, GateCounts, FS_CardinalityType

\* A comparison is refused only for a cause.
LEMMA FailedForCause ==
  ASSUME NEW tree \in Gate!Trees, NEW rel, NEW f \in Gate!Renames(tree), NEW listing, NEW lost,
         Gate!Listed(Gate!Files(tree, f), listing), Gate!Answer(rel, listing, lost) = "failed"
  PROVE  rel = "apart" \/ ~Gate!Unchanged(tree) \/ Gate!Cardinality(Gate!Changed(tree)) >= Limit
<1>1. listing \in SUBSET Gate!Files(tree, f)  BY DEF Gate!Listed
<1>2. CASE rel = "apart"  BY <1>2
<1>3. CASE Gate!Cardinality(listing) >= Limit
  BY <1>1, <1>3, ListingBound
<1>4. CASE \E e \in listing : \E p \in Gate!Names(e) : Gate!Owned(p)
  <2>1. PICK e \in listing : \E p \in Gate!Names(e) : Gate!Owned(p)  BY <1>4
  <2>2. PICK p \in Gate!Names(e) : Gate!Owned(p)  BY <2>1
  <2>3. p \in Gate!Changed(tree) /\ p \in GatePaths  BY <1>1, FilesAreChanges DEF Gate!Changed
  <2>4. p = Caller \/ Gate!Inside(p)  BY <2>2, <2>3, OwnedIsInside
  <2>5. QED  BY <2>3, <2>4 DEF Gate!Changed, Gate!Unchanged
<1>5. QED  BY <1>2, <1>3, <1>4 DEF Gate!Answer

-----------------------------------------------------------------------------
(* The inductive invariant *)

GateRunning ==
    /\ gateAt \in {"head", "compare"} => gate <= Gates
    /\ gateAt = "compare" => gate > 0

GateInv == Gate!TypeOK /\ GateRunning /\ Gate!PassedUnchanged /\ Gate!RefusedForCause

LEMMA ConcludeType ==
  ASSUME NEW answer \in {"ok", "failed", "error"}, gate \in 0 .. Gates, Gate!Conclude(answer)
  PROVE  /\ gate' \in 0 .. Gates + 1
         /\ gateAt' \in {"head", "passed", "failed", "error"}
         /\ gateAt' = "head" => gate' <= Gates
         /\ gateAt' \in {"head", "passed"} <=> answer = "ok"
         /\ gateAt' = "failed" <=> answer = "failed"
         /\ gateAt' = "failed" => gate' = gate
<1>1. CASE answer = "ok"
  <2>1. gate' = gate + 1 /\ gateAt' = IF gate = Gates THEN "passed" ELSE "head"
    BY <1>1 DEF Gate!Conclude
  <2>2. QED  BY <1>1, <2>1
<1>2. CASE answer # "ok"
  <2>1. gateAt' = answer /\ gate' = gate  BY <1>2 DEF Gate!Conclude
  <2>2. QED  BY <1>2, <2>1
<1>3. QED  BY <1>1, <1>2

LEMMA GateInitIInv == Gate!Init => GateInv
<1> SUFFICES ASSUME Gate!Init PROVE GateInv  OBVIOUS
<1>1. Gate!TypeOK  BY DEF Gate!Init, Gate!TypeOK
<1>2. GateRunning /\ Gate!PassedUnchanged /\ Gate!RefusedForCause
  BY DEF Gate!Init, GateRunning, Gate!PassedUnchanged, Gate!RefusedForCause
<1>3. QED  BY <1>1, <1>2 DEF GateInv

LEMMA SameIsUnchanged ==
  ASSUME NEW h \in Gate!Heads, h.rel = "same"
  PROVE  h.rel # "apart" /\ Gate!Unchanged(h.tree)
BY DEF Gate!Heads, Gate!Unchanged

LEMMA HeadMatchesIInv == GateInv /\ Gate!HeadMatches => GateInv'
<1> SUFFICES ASSUME GateInv, Gate!HeadMatches PROVE GateInv'  OBVIOUS
<1> DEFINE answer == IF gateMain.rel = "same" THEN "ok" ELSE "failed"
<1>1. Gate!TypeOK /\ GateRunning /\ gate = 0 /\ gateSeen' = gateMain /\ gateMain' = gateMain
      /\ Gate!Conclude(answer) /\ answer \in {"ok", "failed", "error"}
  BY DEF GateInv, Gate!HeadMatches
<1>2. gate \in 0 .. Gates  BY <1>1
<1>3. answer = "ok" => gateMain.rel # "apart" /\ Gate!Unchanged(gateMain.tree)
  BY <1>1, SameIsUnchanged DEF Gate!TypeOK
<1> HIDE DEF answer
<1>4. /\ gate' \in 0 .. Gates + 1 /\ gateAt' \in {"head", "passed", "failed", "error"}
      /\ gateAt' = "head" => gate' <= Gates
      /\ gateAt' \in {"head", "passed"} => answer = "ok"
      /\ gateAt' = "failed" => gate' = gate
  BY <1>1, <1>2, ConcludeType
<1>5. Gate!TypeOK'  BY <1>1, <1>4 DEF Gate!TypeOK
<1>6. GateRunning'  BY <1>4 DEF GateRunning
<1>7. Gate!PassedUnchanged'  BY <1>1, <1>3, <1>4 DEF Gate!PassedUnchanged, Gate!Unchanged
<1>8. Gate!RefusedForCause'  BY <1>1, <1>4 DEF Gate!RefusedForCause
<1>9. QED  BY <1>5, <1>6, <1>7, <1>8 DEF GateInv

LEMMA ReadHeadIInv == GateInv /\ Gate!ReadHead => GateInv'
<1> SUFFICES ASSUME GateInv, Gate!ReadHead PROVE GateInv'  OBVIOUS
<1>1. /\ Gate!TypeOK /\ GateRunning /\ gate > 0 /\ gateAt = "head" /\ gate \in 0 .. Gates
      /\ gateSeen' = gateMain /\ gateMain' = gateMain
  BY DEF GateInv, Gate!ReadHead, Gate!TypeOK, GateRunning
<1>2. CASE gateMain.rel = "same" /\ Gate!Conclude("ok")
  <2>1. gateMain.rel # "apart" /\ Gate!Unchanged(gateMain.tree)
    BY <1>1, <1>2, SameIsUnchanged DEF Gate!TypeOK
  <2>2. /\ gate' \in 0 .. Gates + 1 /\ gateAt' \in {"head", "passed"}
        /\ gateAt' = "head" => gate' <= Gates
    BY <1>1, <1>2, ConcludeType
  <2>3. Gate!TypeOK'  BY <1>1, <2>2 DEF Gate!TypeOK
  <2>4. Gate!PassedUnchanged'  BY <1>1, <2>1 DEF Gate!PassedUnchanged, Gate!Unchanged
  <2>5. GateRunning' /\ Gate!RefusedForCause'  BY <2>2 DEF GateRunning, Gate!RefusedForCause
  <2>6. QED  BY <2>3, <2>4, <2>5 DEF GateInv
<1>3. CASE gateMain.rel # "same" /\ gateAt' = "compare" /\ UNCHANGED gate
  <2>1. Gate!TypeOK'  BY <1>1, <1>3 DEF Gate!TypeOK
  <2>2. GateRunning' /\ Gate!PassedUnchanged' /\ Gate!RefusedForCause'
    BY <1>1, <1>3 DEF GateRunning, Gate!PassedUnchanged, Gate!RefusedForCause
  <2>3. QED  BY <2>1, <2>2 DEF GateInv
<1>4. QED  BY <1>2, <1>3 DEF Gate!ReadHead

LEMMA CompareIInv == GateInv /\ Gate!Compare => GateInv'
<1> SUFFICES ASSUME GateInv, Gate!Compare PROVE GateInv'  OBVIOUS
<1>1. /\ Gate!TypeOK /\ GateRunning /\ gate > 0 /\ gateAt = "compare" /\ gate \in 0 .. Gates
      /\ gateSeen' = gateSeen /\ gateMain' = gateMain
  BY DEF GateInv, Gate!Compare, Gate!TypeOK, GateRunning
<1>2. PICK f \in Gate!Renames(gateSeen.tree) :
        \E listing \in SUBSET Gate!Files(gateSeen.tree, f) :
          /\ Gate!Listed(Gate!Files(gateSeen.tree, f), listing)
          /\ \E lost \in SUBSET {e \in listing : e.renamed} :
               Gate!Conclude(Gate!Answer(gateSeen.rel, listing, lost))
  BY DEF Gate!Compare
<1>3. PICK listing \in SUBSET Gate!Files(gateSeen.tree, f) :
          /\ Gate!Listed(Gate!Files(gateSeen.tree, f), listing)
          /\ \E lost \in SUBSET {e \in listing : e.renamed} :
               Gate!Conclude(Gate!Answer(gateSeen.rel, listing, lost))
  BY <1>2
<1>4. PICK lost \in SUBSET {e \in listing : e.renamed} :
          Gate!Conclude(Gate!Answer(gateSeen.rel, listing, lost))
  BY <1>3
<1> DEFINE answer == Gate!Answer(gateSeen.rel, listing, lost)
<1>5. answer \in {"ok", "failed", "error"}  BY DEF Gate!Answer
<1>6. gateSeen.tree \in Gate!Trees  BY <1>1 DEF Gate!TypeOK, Gate!Heads
<1>7. answer = "ok" => gateSeen.rel # "apart" /\ Gate!Unchanged(gateSeen.tree)
  BY <1>3, <1>6, OkIsUnchanged
<1>8. answer = "failed" => \/ gateSeen.rel = "apart" \/ ~Gate!Unchanged(gateSeen.tree)
                           \/ Gate!Cardinality(Gate!Changed(gateSeen.tree)) >= Limit
  BY <1>3, <1>6, FailedForCause
<1>9. Gate!Conclude(answer)  BY <1>4
<1> HIDE DEF answer
<1>10. /\ gate' \in 0 .. Gates + 1 /\ gateAt' \in {"head", "passed", "failed", "error"}
       /\ gateAt' = "head" => gate' <= Gates
       /\ gateAt' \in {"head", "passed"} => answer = "ok"
       /\ gateAt' = "failed" => answer = "failed"
  BY <1>1, <1>5, <1>9, ConcludeType
<1>11. Gate!TypeOK'  BY <1>1, <1>10 DEF Gate!TypeOK
<1>12. GateRunning'  BY <1>10 DEF GateRunning
<1>13. Gate!PassedUnchanged'  BY <1>1, <1>7, <1>10 DEF Gate!PassedUnchanged, Gate!Unchanged
<1>14. Gate!RefusedForCause'
  BY <1>1, <1>8, <1>10 DEF Gate!RefusedForCause, Gate!Unchanged, Gate!Changed
<1>15. QED  BY <1>11, <1>12, <1>13, <1>14 DEF GateInv

LEMMA OthersIInv ==
  ASSUME GateInv, Gate!Merge \/ Gate!ForcePush \/ Gate!CallFails \/ UNCHANGED Gate!vars
  PROVE  GateInv'
<1> USE DEF GateInv
<1>1. gateMain' \in Gate!Heads
  <2>1. CASE Gate!Merge  BY <2>1 DEF Gate!Merge, Gate!TypeOK, Gate!Heads, Gate!Relations
  <2>2. CASE Gate!ForcePush  BY <2>2 DEF Gate!ForcePush
  <2>3. CASE Gate!CallFails \/ UNCHANGED Gate!vars
    BY <2>3 DEF Gate!CallFails, Gate!vars, Gate!TypeOK
  <2>4. QED  BY <2>1, <2>2, <2>3
<1>2. gate' = gate /\ gateSeen' = gateSeen /\ (gateAt' = gateAt \/ gateAt' = "error")
  BY DEF Gate!Merge, Gate!ForcePush, Gate!CallFails, Gate!vars
<1>3. Gate!TypeOK'  BY <1>1, <1>2 DEF Gate!TypeOK
<1>4. GateRunning'  BY <1>2 DEF GateRunning
<1>5. Gate!PassedUnchanged'  BY <1>2 DEF Gate!PassedUnchanged, Gate!Unchanged
<1>6. Gate!RefusedForCause'  BY <1>2 DEF Gate!RefusedForCause, Gate!Unchanged, Gate!Changed
<1>7. QED  BY <1>3, <1>4, <1>5, <1>6

LEMMA GateNextInv == GateInv /\ [Gate!Next]_Gate!vars => GateInv'
BY HeadMatchesIInv, ReadHeadIInv, CompareIInv, OthersIInv DEF Gate!Next

\* The gates keep their invariant beside the audit, which does not move then.
LEMMA GateAudited == AuditSpec => [](check = "gates" => GateInv)
<1> DEFINE AuditedInv == check = "gates" => GateInv
<1>1. AuditInit => AuditedInv  BY GateInitIInv DEF AuditInit
<1>2. AuditedInv /\ [AuditStep]_<<check, gateVars, vars>> => AuditedInv'
  <2> SUFFICES ASSUME check = "gates", GateInv, [AuditStep]_<<check, gateVars, vars>>
               PROVE  GateInv'
    BY DEF AuditStep
  <2>1. [Gate!Next]_Gate!vars  BY DEF AuditStep, gateVars, Gate!vars
  <2>2. QED  BY <2>1, GateNextInv
<1> HIDE DEF AuditedInv
<1>3. AuditSpec => []AuditedInv  BY <1>1, <1>2, PTL DEF AuditSpec
<1>4. QED  BY <1>3 DEF AuditedInv

\* A gate that let the release go on saw a descendant of the commit in which the
\* component and the caller's workflow are the commit's own, whatever was merged,
\* reverted or renamed and however GitHub cut or blurred its listing.
THEOREM GatesKeepTheComponent == AuditSpec => []PassedUnchanged
<1>1. (check = "gates" => GateInv) => PassedUnchanged  BY DEF GateInv, PassedUnchanged
<1>2. QED  BY <1>1, GateAudited, PTL

\* Past the first job only a head that is no descendant, an owned change or a
\* comparison too long to list refuses a release.
THEOREM UnrelatedMergesPass == AuditSpec => []RefusedForCause
<1>1. (check = "gates" => GateInv) => RefusedForCause  BY DEF GateInv, RefusedForCause
<1>2. QED  BY <1>1, GateAudited, PTL

=============================================================================
