---------------------------- MODULE PrReviewProofs ----------------------------
(***************************************************************************)
(* The review of a pull request, for any number of runs, commits, models    *)
(* and changes of the pull request.                                         *)
(***************************************************************************)
EXTENDS PrReview, FiniteSetTheorems, TLAPS

-----------------------------------------------------------------------------
(* The invariant the proofs rest on *)

\* What the position of a run says of its attempt and of what it knows.
Local(r) ==
    /\ attempt[r] = 1 =>
         /\ from[r] = "identify"
         /\ pc[r] \in {"idle", "queued", "identify"} => id[r] = None
         /\ pc[r] \in {"pending", "collect", "review", "assess", "post"} => id[r] # None
         /\ pc[r] \in {"assess", "post"} => verdict[r] # None
    /\ attempt[r] = 2 => pc[r] \in {"queued", "identify", "review", "assess", "over"}

\* What the status of a commit says of the run that wrote it.
Written(h) ==
    /\ status[h].by = Nobody => status[h].is = None
    /\ status[h].by # Nobody =>
         LET r == status[h].by
         IN  /\ id[r] # None /\ id[r].head = h
             /\ status[h].is \in {"clear", "findings"} =>
                  /\ attempt[r] = 2 \/ pc[r] \in {"fail", "over"}
                  /\ pc[r] = "fail" => r \in mishaps
             /\ status[h].is = "clear" =>
                  verdict[r] # None /\ \A m \in Models : verdict[r][m] = "clear"
             /\ status[h].is = "pending" => r \in mishaps \/ (attempt[r] = 1 /\ Under(r))

\* Of a group one run is under way at a time, and in its first attempt it is
\* the last that began.
InOrder ==
    /\ \A r \in Runs :
         /\ begun[r] <= Cardinality({q \in Runs : begun[q] > 0})
         /\ attempt[r] = 1 /\ pc[r] \in {"idle", "queued"} => begun[r] = 0
    /\ \A r \in Runs : \A q \in Group(r) :
         Under(r) => /\ Under(q) => q = r
                     /\ attempt[r] = 1 => begun[q] <= begun[r]

IInv ==
    TypeOK /\ InOrder /\ (\A r \in Runs : Local(r)) /\ (\A h \in Heads : Written(h))

USE ReviewAssumption

RunsWell == (\A r \in Runs : Local(r)) /\ (\A h \in Heads : Written(h))

-----------------------------------------------------------------------------
(* The order in which runs begin                                             *)

\* A step that takes no run forward into its group, or out of order.
LEMMA OrderKept ==
  ASSUME TypeOK, InOrder, attempt' = attempt, trigger' = trigger, begun' = begun,
         \A r \in Runs : /\ Under(r)' => Under(r)
                         /\ pc'[r] \in {"idle", "queued"} => pc[r] \in {"idle", "queued"}
  PROVE  InOrder'
<1>1. \A r \in Runs : Group(r)' = Group(r)  BY DEF Group, Bridge
<1>2. \A r \in Runs :
        /\ begun'[r] <= Cardinality({q \in Runs : begun'[q] > 0})
        /\ attempt'[r] = 1 /\ pc'[r] \in {"idle", "queued"} => begun'[r] = 0
  BY DEF InOrder
<1>3. ASSUME NEW r \in Runs, NEW q \in Group(r), Under(r)'
      PROVE  /\ Under(q)' => q = r
             /\ attempt'[r] = 1 => begun'[q] <= begun'[r]
  BY <1>3 DEF InOrder, Group
<1>4. QED  BY <1>1, <1>2, <1>3 DEF InOrder

LEMMA GroupIsSymmetric ==
  ASSUME NEW r \in Runs, NEW q \in Group(r)
  PROVE  q \in Runs /\ r \in Group(r) /\ r \in Group(q) /\ Group(q) = Group(r)
BY DEF Group

\* A run that enters its group is under way nowhere, and displaces none that is.
LEMMA EnterUnder ==
  ASSUME TypeOK, NEW r \in Runs, Enter(r)
  PROVE  /\ pc' \in [Runs -> Steps] /\ ~Under(r)'
         /\ \A q \in Runs : Under(q)' => Under(q) /\ q # r
         /\ \A q \in Runs : q # r =>
              \/ pc'[q] = pc[q]
              \/ q \in Group(r) /\ pc[q] = "queued" /\ pc'[q] = "over"
<1>1. pc' = [q \in Runs |->
        IF q = r THEN "queued"
        ELSE IF q \in Group(r) /\ pc[q] = "queued" THEN "over" ELSE pc[q]]
  BY DEF Enter
<1>2. \A q \in Runs : pc[q] \in Steps  BY DEF TypeOK
<1>3. pc' \in [Runs -> Steps]  BY <1>1, <1>2 DEF Steps
<1>4. QED  BY <1>1, <1>3 DEF Under

LEMMA TriggerOrder ==
  ASSUME TypeOK, InOrder, NEW r \in Runs, Local(r), Trigger(r)
  PROVE  InOrder'
<1>1. pc[r] = "idle" /\ attempt' = attempt /\ begun' = begun  BY DEF Trigger
<1>2. /\ \A q \in Runs : Under(q)' => Under(q) /\ q # r
      /\ \A q \in Runs : q # r /\ pc'[q] \in {"idle", "queued"} =>
              pc[q] \in {"idle", "queued"}
  <2>1. CASE Enter(r)  BY <2>1, EnterUnder
  <2>2. CASE GoTo(r, "queued")  BY <1>1, <2>2 DEF GoTo, Under, TypeOK
  <2>3. QED  BY <2>1, <2>2 DEF Trigger
<1>3. \A q \in Runs : q # r => trigger'[q] = trigger[q]  BY DEF Trigger, TypeOK
<1>4. ASSUME NEW p \in Runs, NEW q \in Group(p)', Under(p)'
      PROVE  /\ Under(q)' => q = p
             /\ attempt'[p] = 1 => begun'[q] <= begun'[p]
  <2>1. p # r /\ Under(p)  BY <1>2, <1>4
  <2>2. q \in Runs /\ (q = r \/ q \in Group(p))  BY <1>3, <1>4, <2>1 DEF Group, Bridge
  <2>3. CASE q = r
    <3>1. begun[r] = 0 /\ begun[p] \in Nat  BY <1>1 DEF InOrder, TypeOK, Local
    <3>2. QED  BY <1>1, <1>2, <2>3, <3>1
  <2>4. CASE q \in Group(p)
    <3>1. (Under(q) => q = p) /\ (attempt[p] = 1 => begun[q] <= begun[p])
      BY <2>1, <2>4 DEF InOrder
    <3>2. QED  BY <1>1, <1>2, <2>2, <3>1
  <2>5. QED  BY <2>2, <2>3, <2>4
<1>5. ASSUME NEW p \in Runs
      PROVE  /\ begun'[p] <= Cardinality({q \in Runs : begun'[q] > 0})
             /\ attempt'[p] = 1 /\ pc'[p] \in {"idle", "queued"} => begun'[p] = 0
  <2>1. begun[r] = 0  BY <1>1 DEF InOrder, TypeOK, Local
  <2>2. QED  BY <1>1, <1>2, <2>1 DEF InOrder
<1>6. QED  BY <1>4, <1>5 DEF InOrder

LEMMA RerunOrder ==
  ASSUME TypeOK, InOrder, NEW r \in Runs, Rerun(r)
  PROVE  InOrder'
<1>1. /\ attempt' = [attempt EXCEPT ![r] = 2] /\ begun' = begun /\ trigger' = trigger
      /\ Enter(r)
  BY DEF Rerun
<1>2. /\ \A q \in Runs : Under(q)' => Under(q) /\ q # r
      /\ \A q \in Runs : q # r /\ pc'[q] \in {"idle", "queued"} =>
              pc[q] \in {"idle", "queued"}
  BY <1>1, EnterUnder
<1>3. \A p \in Runs : Group(p)' = Group(p)  BY <1>1 DEF Group, Bridge
<1>4. attempt'[r] = 2 /\ \A q \in Runs : q # r => attempt'[q] = attempt[q]
  BY <1>1 DEF TypeOK
<1>5. ASSUME NEW p \in Runs, NEW q \in Group(p), Under(p)'
      PROVE  /\ Under(q)' => q = p
             /\ attempt'[p] = 1 => begun'[q] <= begun'[p]
  <2>1. p # r /\ Under(p) /\ q \in Runs  BY <1>2, <1>5 DEF Group
  <2>2. (Under(q) => q = p) /\ (attempt[p] = 1 => begun[q] <= begun[p])
    BY <1>5, <2>1 DEF InOrder
  <2>3. QED  BY <1>1, <1>2, <1>4, <2>1, <2>2
<1>6. ASSUME NEW p \in Runs
      PROVE  /\ begun'[p] <= Cardinality({q \in Runs : begun'[q] > 0})
             /\ attempt'[p] = 1 /\ pc'[p] \in {"idle", "queued"} => begun'[p] = 0
  BY <1>1, <1>2, <1>4 DEF InOrder
<1>7. QED  BY <1>3, <1>5, <1>6 DEF InOrder

LEMMA BeginOrder ==
  ASSUME TypeOK, InOrder, NEW r \in Runs, Begin(r)
  PROVE  InOrder'
<1> DEFINE some == {q \in Runs : begun[q] > 0}
           n == Cardinality(some)
<1>1. /\ pc[r] = "queued" /\ GroupIsFree(r) /\ pc' = [pc EXCEPT ![r] = from[r]]
      /\ begun' = IF begun[r] > 0 THEN begun ELSE [begun EXCEPT ![r] = 1 + n]
      /\ attempt' = attempt /\ trigger' = trigger
  BY DEF Begin, GoTo
<1>2. IsFiniteSet(some) /\ n \in Nat  BY FS_Subset, FS_CardinalityType DEF ReviewAssumption
<1>3. \A p \in Runs : Group(p)' = Group(p)  BY <1>1 DEF Group, Bridge
<1>4. \A q \in Runs : q # r => pc'[q] = pc[q] /\ (Under(q)' <=> Under(q))
  BY <1>1 DEF TypeOK, Under
<1>5. pc'[r] \in {"identify", "review", "assess"} /\ Under(r)'  BY <1>1 DEF TypeOK, Under
<1>6. \A q \in Runs : begun[q] \in Nat /\ begun[q] <= n  BY DEF InOrder, TypeOK
<1>7. attempt[r] = 1 => begun[r] = 0  BY <1>1 DEF InOrder
<1> HIDE DEF n
<1>8. \A q \in Runs : q # r => begun'[q] = begun[q]  BY <1>1 DEF TypeOK
<1>9. begun'[r] = IF begun[r] > 0 THEN begun[r] ELSE 1 + n  BY <1>1 DEF TypeOK
<1>10. {q \in Runs : begun'[q] > 0} = some \cup {r}  BY <1>2, <1>8, <1>9
<1>11. Cardinality(some \cup {r}) = IF begun[r] > 0 THEN n ELSE n + 1
  BY <1>2, FS_AddElement DEF n
<1>12. \A p \in Runs : begun'[p] <= Cardinality({q \in Runs : begun'[q] > 0})
  BY <1>2, <1>6, <1>8, <1>9, <1>10, <1>11
<1>13. \A p \in Runs : attempt'[p] = 1 /\ pc'[p] \in {"idle", "queued"} => begun'[p] = 0
  BY <1>1, <1>4, <1>5, <1>8 DEF InOrder
<1>14. ASSUME NEW p \in Runs, NEW q \in Group(p), Under(p)'
       PROVE  /\ Under(q)' => q = p
              /\ attempt'[p] = 1 => begun'[q] <= begun'[p]
  <2>1. q \in Runs /\ p \in Group(q)  BY GroupIsSymmetric
  <2>2. CASE p = r
    <3>1. ~Under(q)  BY <1>1, <1>14, <2>2 DEF GroupIsFree
    <3>2. attempt[r] = 1 => begun'[r] = 1 + n  BY <1>7, <1>9
    <3>3. QED  BY <1>1, <1>2, <1>4, <1>6, <1>8, <2>1, <2>2, <3>1, <3>2
  <2>3. CASE p # r
    <3>1. Under(p)  BY <1>4, <1>14, <2>3
    <3>2. q # r  BY <1>1, <2>1, <3>1 DEF GroupIsFree
    <3>3. QED  BY <1>1, <1>4, <1>8, <1>14, <2>1, <2>3, <3>1, <3>2 DEF InOrder
  <2>4. QED  BY <2>2, <2>3
<1>15. QED  BY <1>3, <1>12, <1>13, <1>14 DEF InOrder

-----------------------------------------------------------------------------
(* What runs have written                                                    *)

\* A step that writes no status.
LEMMA WrittenKept ==
  ASSUME TypeOK, RunsWell, status' = status, mishaps \subseteq mishaps',
         \A r \in Runs :
            /\ id[r] # None => id'[r] = id[r]
            /\ attempt[r] = 2 \/ pc[r] \in {"fail", "over"} =>
                 /\ verdict'[r] = verdict[r]
                 /\ attempt'[r] = 2 \/ pc'[r] \in {"fail", "over"}
            /\ pc'[r] = "fail" => attempt[r] = 1 /\ pc[r] # "over"
            /\ attempt[r] = 1 /\ Under(r) /\ id[r] # None =>
                 r \in mishaps' \/ (attempt'[r] = 1 /\ Under(r)')
  PROVE  \A h \in Heads : Written(h)'
<1> SUFFICES ASSUME NEW h \in Heads PROVE Written(h)'  OBVIOUS
<1>1. Written(h) /\ status[h].by \in Runs \cup {Nobody}  BY DEF RunsWell, TypeOK
<1> PICK r \in Runs \cup {Nobody} : r = status[h].by  BY <1>1
<1>2. CASE r = Nobody  BY <1>1, <1>2 DEF Written
<1>3. CASE r # Nobody
  <2>1. r \in Runs /\ id[r] # None /\ id[r].head = h  BY <1>1, <1>3 DEF Written
  <2>2. id'[r] = id[r]  BY <2>1
  <2>3. attempt[r] \in {1, 2}  BY <2>1 DEF TypeOK
  <2>4. status[h].is \in {"clear", "findings"} =>
            /\ attempt[r] = 2 \/ pc[r] \in {"fail", "over"}
            /\ pc[r] = "fail" => r \in mishaps
    BY <1>1, <1>3 DEF Written
  <2>5. status[h].is = "clear" => verdict[r] # None /\ \A m \in Models : verdict[r][m] = "clear"
    BY <1>1, <1>3 DEF Written
  <2>6. status[h].is = "pending" => r \in mishaps \/ (attempt[r] = 1 /\ Under(r))
    BY <1>1, <1>3 DEF Written
  <2>7. status[h].is \in {"clear", "findings"} =>
            /\ attempt'[r] = 2 \/ pc'[r] \in {"fail", "over"}
            /\ pc'[r] = "fail" => r \in mishaps'
    BY <2>1, <2>3, <2>4
  <2>8. status[h].is = "clear" => verdict'[r] # None /\ \A m \in Models : verdict'[r][m] = "clear"
    BY <2>1, <2>4, <2>5
  <2>9. status[h].is = "pending" => r \in mishaps' \/ (attempt'[r] = 1 /\ Under(r)')
    BY <2>1, <2>6
  <2>10. status'[h].by = r /\ status'[h].is = status[h].is /\ r # Nobody  BY <1>3
  <2>11. QED  BY <2>1, <2>2, <2>7, <2>8, <2>9, <2>10 DEF Written
<1>4. QED  BY <1>2, <1>3

\* What makes a status just written by r hold good.
LEMMA WrittenNew ==
  ASSUME NEW h \in Heads, NEW r \in Runs, NEW what, r # Nobody,
         status'[h].by = r, status'[h].is = what, id'[r] # None, id'[r].head = h,
         what \in {"clear", "findings"} =>
            /\ attempt'[r] = 2 \/ pc'[r] \in {"fail", "over"}
            /\ pc'[r] = "fail" => r \in mishaps',
         what = "clear" => verdict'[r] # None /\ \A m \in Models : verdict'[r][m] = "clear",
         what = "pending" => r \in mishaps' \/ (attempt'[r] = 1 /\ Under(r)')
  PROVE  Written(h)'
BY DEF Written, Under

\* A write of run r: to the head it captured, one way or the other.
LEMMA WrittenPost ==
  ASSUME TypeOK, RunsWell, NEW r \in Runs, NEW what \in Outcomes, NEW then, NEW failed,
         pc[r] \in {"pending", "fail_capture", "post", "fail"}, id[r] # None,
         Post(r, id[r].head, what, then, failed),
         UNCHANGED <<attempt, id, verdict>>,
         then \in Steps, failed \in Steps,
         what \in {"clear", "findings"} =>
            /\ pc[r] = "post" /\ then = "over" /\ failed = "fail" /\ verdict[r] # None,
         what = "clear" => \A m \in Models : verdict[r][m] = "clear",
         what = "pending" => then = "collect",
         pc[r] = "fail" => then = "over" /\ failed = "over"
  PROVE  \A h \in Heads : Written(h)'
<1> DEFINE head == id[r].head
           new == [is |-> what, by |-> r]
<1>1. /\ \/ status' = [status EXCEPT ![head] = new] /\ pc' = [pc EXCEPT ![r] = then]
            /\ mishaps' = mishaps
         \/ /\ status' \in {status, [status EXCEPT ![head] = new]}
            /\ pc' = [pc EXCEPT ![r] = failed] /\ mishaps' = mishaps \cup {r}
  BY DEF Post, GoTo
<1>2. id[r] \in Revisions /\ head \in Heads /\ attempt[r] = 1 /\ r # Nobody
      /\ id[r].head = head
  BY DEF TypeOK, Revisions, RunsWell, Local, ReviewAssumption
<1> HIDE DEF head, new
<1>3. \A q \in Runs : q # r => pc'[q] = pc[q] /\ (Under(q)' <=> Under(q))
  BY <1>1 DEF TypeOK, Under
<1>4. /\ mishaps \subseteq mishaps' /\ pc'[r] \in {then, failed}
      /\ pc'[r] = then \/ r \in mishaps'
  BY <1>1 DEF TypeOK
<1>5. \A h \in Heads : status'[h] = status[h] \/ (h = head /\ status'[h] = new)
  BY <1>1, <1>2 DEF TypeOK
<1> SUFFICES ASSUME NEW h \in Heads PROVE Written(h)'  OBVIOUS
<1>6. CASE h = head /\ status'[h] = new
  <2>1. status'[h].is = what /\ status'[h].by = r  BY <1>6 DEF new
  <2>2. what \in {"clear", "findings"} =>
            /\ pc'[r] \in {"fail", "over"}
            /\ pc'[r] = "fail" => r \in mishaps'
    BY <1>4
  <2>3. what = "pending" => r \in mishaps' \/ Under(r)'  BY <1>4 DEF Under
  <2>4. id'[r].head = h /\ id'[r] # None /\ attempt'[r] = 1 /\ verdict' = verdict
    BY <1>2, <1>6 DEF head
  <2>5. what = "clear" => verdict'[r] # None /\ \A m \in Models : verdict'[r][m] = "clear"
    BY <2>4
  <2>6. QED  BY <1>2, <2>1, <2>2, <2>3, <2>4, <2>5, WrittenNew
<1>7. CASE status'[h] = status[h]
  <2>1. Written(h) /\ status[h].by \in Runs \cup {Nobody}  BY DEF RunsWell, TypeOK
  <2> PICK w \in Runs \cup {Nobody} : w = status[h].by  BY <2>1
  <2>2. CASE w = Nobody  BY <1>7, <2>1, <2>2 DEF Written
  <2>3. CASE w # Nobody /\ w # r
    <3>1. w \in Runs /\ pc'[w] = pc[w] /\ (Under(w)' <=> Under(w))  BY <1>3, <2>1, <2>3
    <3>2. QED  BY <1>4, <1>7, <2>1, <2>3, <3>1 DEF Written
  <2>4. CASE w = r
    <3>1. head = h  BY <1>2, <2>1, <2>4 DEF Written, head
    <3>2. status[h].is \in {"clear", "findings"} => pc'[r] = "over"
      BY <1>2, <1>4, <2>1, <2>4 DEF Written
    <3>3. r \in mishaps' \/ status'[h] = new  BY <1>1, <1>2, <3>1 DEF TypeOK
    <3>4. CASE r \in mishaps'
      BY <1>2, <1>7, <2>1, <2>4, <3>1, <3>2, <3>4 DEF Written, head
    <3>5. CASE status'[h] = new  BY <1>6, <3>1, <3>5
    <3>6. QED  BY <3>3, <3>4, <3>5
  <2>5. QED  BY <2>2, <2>3, <2>4
<1>8. QED  BY <1>5, <1>6, <1>7

-----------------------------------------------------------------------------
(* Steps of a run that write no status                                       *)

\* Run r goes on to another step of its attempt.
LEMMA StepKept ==
  ASSUME IInv, NEW r \in Runs, NEW next \in Steps, GoTo(r, next),
         UNCHANGED <<attempt, from, trigger, begun, status>>, mishaps' \in SUBSET Runs,
         mishaps \subseteq mishaps', pr' = pr, moves' = moves,
         next = "over" \/ Under(r), next \notin {"idle", "queued"},
         id' \in [Runs -> Revisions \cup {None}],
         verdict' \in [Runs -> [Models -> {"clear", "findings"}] \cup {None}],
         \A q \in Runs : q # r => id'[q] = id[q] /\ verdict'[q] = verdict[q],
         id[r] # None => id'[r] = id[r],
         attempt[r] = 2 \/ pc[r] \in {"fail", "over"} =>
            verdict'[r] = verdict[r] /\ (attempt[r] = 2 \/ next \in {"fail", "over"}),
         next = "fail" => attempt[r] = 1 /\ pc[r] # "over",
         attempt[r] = 1 /\ Under(r) /\ id[r] # None =>
            r \in mishaps' \/ next # "over",
         Local(r)'
  PROVE  IInv'
<1>1. pc' = [pc EXCEPT ![r] = next] /\ pc' \in [Runs -> Steps] /\ pc'[r] = next
      /\ \A q \in Runs : q # r => pc'[q] = pc[q] /\ (Under(q)' <=> Under(q))
  BY DEF GoTo, IInv, TypeOK, Under
<1>2. TypeOK'  BY <1>1 DEF IInv, TypeOK
<1>3. \A q \in Runs : /\ Under(q)' => Under(q)
                      /\ pc'[q] \in {"idle", "queued"} => pc[q] \in {"idle", "queued"}
  BY <1>1 DEF Under
<1>4. InOrder'  BY <1>3, OrderKept DEF IInv
<1>5. \A q \in Runs : Local(q)'
  <2> SUFFICES ASSUME NEW q \in Runs, q # r PROVE Local(q)'  OBVIOUS
  <2>1. Local(q) /\ pc'[q] = pc[q]  BY <1>1 DEF IInv
  <2>2. QED  BY <2>1 DEF Local
<1>6. \A q \in Runs :
         /\ id[q] # None => id'[q] = id[q]
         /\ attempt[q] = 2 \/ pc[q] \in {"fail", "over"} =>
              /\ verdict'[q] = verdict[q]
              /\ attempt'[q] = 2 \/ pc'[q] \in {"fail", "over"}
         /\ pc'[q] = "fail" => attempt[q] = 1 /\ pc[q] # "over"
         /\ attempt[q] = 1 /\ Under(q) /\ id[q] # None =>
              q \in mishaps' \/ (attempt'[q] = 1 /\ Under(q)')
  <2> SUFFICES ASSUME NEW q \in Runs, q # r
               PROVE  pc[q] = "fail" => attempt[q] = 1
    BY <1>1 DEF Under
  <2>1. Local(q) /\ attempt[q] \in {1, 2}  BY DEF IInv, TypeOK
  <2>2. QED  BY <2>1 DEF Local
<1>7. RunsWell  BY DEF IInv, RunsWell
<1>8. \A h \in Heads : Written(h)'  BY <1>6, <1>7, WrittenKept DEF IInv
<1>9. QED  BY <1>2, <1>4, <1>5, <1>8 DEF IInv

LEMMA Facts ==
  ASSUME IInv, NEW r \in Runs
  PROVE  /\ TypeOK /\ RunsWell /\ InOrder /\ Local(r)
         /\ attempt[r] \in {1, 2} /\ id[r] \in Revisions \cup {None} /\ pc[r] \in Steps
         /\ id \in [Runs -> Revisions \cup {None}]
         /\ verdict \in [Runs -> [Models -> {"clear", "findings"}] \cup {None}]
         /\ mishaps \in SUBSET Runs /\ pr.at \in Revisions
BY DEF IInv, RunsWell, TypeOK

\* Steps after which a run knows no more than before.
LEMMA PlainInv ==
  ASSUME IInv, NEW r \in Runs, Skip(r) \/ Collect(r) \/ Assess(r) \/ Stop(r) \/ Kill(r)
  PROVE  IInv'
<1>1. /\ UNCHANGED <<pr, moves, attempt, from, trigger, begun, id, verdict, status>>
      /\ mishaps \subseteq mishaps' /\ mishaps' \in SUBSET Runs
  BY Facts DEF Skip, Collect, Assess, Stop, Kill, run
<1>2. PICK next \in Steps :
        /\ GoTo(r, next)
        /\ \/ next = "over" /\ (attempt[r] = 2 \/ r \in mishaps')
           \/ next = "review" /\ pc[r] = "collect" /\ attempt[r] = 1 /\ id[r] # None
           \/ next = "post" /\ pc[r] = "assess" /\ attempt[r] = 1 /\ id[r] # None /\ verdict[r] # None
           \/ next = "fail_capture" /\ attempt[r] = 1 /\ pc[r] \in {"pending", "collect", "identify"}
           \/ next = "fail" /\ attempt[r] = 1 /\ pc[r] \in {"review", "assess", "post"}
  <2>1. CASE Skip(r)  BY <2>1, Facts DEF Skip, FirstAttempt, Steps
  <2>2. CASE Collect(r)  BY <2>2, Facts DEF Collect, Local, Steps
  <2>3. CASE Assess(r)  BY <2>3, Facts DEF Assess, FirstAttempt, Local, Steps
  <2>4. CASE Stop(r)  BY <2>4, Facts DEF Stop, FirstAttempt, Local, Steps
  <2>5. CASE Kill(r)  BY <2>5 DEF Kill, Steps
  <2>6. QED  BY <2>1, <2>2, <2>3, <2>4, <2>5
<1>3. pc'[r] = next  BY <1>2, Facts DEF GoTo, TypeOK
<1>4. Local(r)'  BY <1>1, <1>2, <1>3, Facts DEF Local
<1>5. next = "over" \/ Under(r)  BY <1>2 DEF Under
<1>6. QED  BY <1>1, <1>2, <1>4, <1>5, Facts, StepKept

\* The revision is captured.
LEMMA IdentifyInv == ASSUME IInv, NEW r \in Runs, Identify(r) PROVE IInv'
<1>1. /\ pc[r] = "identify" /\ attempt[r] = 1 /\ id[r] = None /\ Under(r)
      /\ UNCHANGED <<pr, moves, attempt, from, trigger, begun, verdict, status, mishaps>>
  BY Facts DEF Identify, FirstAttempt, Local, run, Under
<1>2. PICK next \in {"over", "fail_capture", "pending"} :
        /\ GoTo(r, next)
        /\ next # "pending" => id' = id
        /\ next = "pending" => id' = [id EXCEPT ![r] = pr.at]
  BY DEF Identify
<1>3. next \in Steps  BY DEF Steps
<1>4. pr.at # None  BY Facts DEF ReviewAssumption, Revisions
<1>5. /\ id' \in [Runs -> Revisions \cup {None}]
      /\ \A q \in Runs : q # r => id'[q] = id[q]
      /\ next = "pending" => id'[r] # None
  BY <1>2, <1>4, Facts
<1>6. Local(r)'
  BY <1>1, <1>2, <1>5, Facts DEF Local, GoTo, IInv, TypeOK
<1>7. QED  BY <1>1, <1>2, <1>3, <1>5, <1>6, Facts, StepKept

\* The models answer.
LEMMA ReviewInv == ASSUME IInv, NEW r \in Runs, Review(r) PROVE IInv'
<1>1. /\ pc[r] = "review" /\ attempt[r] = 1 /\ id[r] # None /\ Under(r)
      /\ UNCHANGED <<pr, moves, attempt, from, trigger, begun, id, status, mishaps>>
      /\ GoTo(r, "assess")
  BY Facts DEF Review, FirstAttempt, Local, run, Under
<1>2. PICK said \in [Models -> {"clear", "findings"}] : verdict' = [verdict EXCEPT ![r] = said]
  BY DEF Review
<1>3. said # None  BY DEF ReviewAssumption
<1>4. /\ verdict' \in [Runs -> [Models -> {"clear", "findings"}] \cup {None}]
      /\ verdict'[r] # None
      /\ \A q \in Runs : q # r => verdict'[q] = verdict[q]
  BY <1>2, <1>3, Facts
<1>5. Local(r)'
  BY <1>1, <1>4, Facts DEF Local, GoTo, IInv, TypeOK
<1>6. "assess" \in Steps  BY DEF Steps
<1>7. QED  BY <1>1, <1>4, <1>5, <1>6, Facts, StepKept

-----------------------------------------------------------------------------
(* Writes                                                                    *)

\* A write to the captured head, in the order the code has it.
LEMMA PostInv ==
  ASSUME IInv, NEW r \in Runs, NEW what \in Outcomes, NEW then \in Steps, NEW failed \in Steps,
         pc[r] \in {"pending", "fail_capture", "post", "fail"}, id[r] # None,
         Post(r, id[r].head, what, then, failed),
         UNCHANGED <<pr, moves, run, id, verdict>>,
         {then, failed} \subseteq {"collect", "fail_capture", "over", "fail"},
         what \in {"clear", "findings"} =>
            /\ pc[r] = "post" /\ then = "over" /\ failed = "fail" /\ verdict[r] # None,
         what = "clear" => \A m \in Models : verdict[r][m] = "clear",
         what = "pending" => then = "collect",
         pc[r] = "fail" => then = "over" /\ failed = "over"
  PROVE  IInv'
<1>1. UNCHANGED <<attempt, from, trigger, begun, id, verdict, pr, moves>>  BY DEF run
<1>2. attempt[r] = 1 /\ Under(r) /\ id[r].head \in Heads
  BY Facts DEF Local, Under, Revisions
<1>3. \A h \in Heads : Written(h)'  BY <1>1, Facts, WrittenPost
<1>4. PICK next \in {then, failed} : pc' = [pc EXCEPT ![r] = next]
  BY DEF Post, GoTo
<1>5. next \in {"collect", "fail_capture", "over", "fail"} /\ next \in Steps  OBVIOUS
<1>6. /\ pc' \in [Runs -> Steps] /\ pc'[r] = next
      /\ \A q \in Runs : q # r => pc'[q] = pc[q]
  BY <1>4, <1>5, Facts DEF TypeOK
<1>7. status' \in [Heads -> [is : Outcomes \cup {None}, by : Runs \cup {Nobody}]]
      /\ mishaps' \in SUBSET Runs
  <2>1. [is |-> what, by |-> r] \in [is : Outcomes \cup {None}, by : Runs \cup {Nobody}]
    OBVIOUS
  <2>2. status \in [Heads -> [is : Outcomes \cup {None}, by : Runs \cup {Nobody}]]
    BY Facts DEF TypeOK
  <2>3. QED  BY <1>2, <2>1, <2>2, Facts DEF Post
<1>8. TypeOK'  BY <1>1, <1>6, <1>7, Facts DEF TypeOK
<1>9. InOrder'
  <2>1. \A q \in Runs : /\ Under(q)' => Under(q)
                        /\ pc'[q] \in {"idle", "queued"} => pc[q] \in {"idle", "queued"}
    BY <1>2, <1>5, <1>6 DEF Under
  <2>2. QED  BY <1>1, <2>1, Facts, OrderKept
<1>10. \A q \in Runs : Local(q)'
  <2> SUFFICES ASSUME NEW q \in Runs PROVE Local(q)'  OBVIOUS
  <2>1. Local(q)  BY Facts
  <2>2. CASE q # r  BY <1>1, <1>6, <2>1, <2>2 DEF Local
  <2>3. CASE q = r  BY <1>1, <1>2, <1>5, <1>6, <2>1, <2>3 DEF Local
  <2>4. QED  BY <2>2, <2>3
<1>11. QED  BY <1>3, <1>8, <1>9, <1>10 DEF IInv

LEMMA WritesInv ==
  ASSUME IInv, NEW r \in Runs, PostPending(r) \/ FailCapture(r) \/ Publish(r) \/ Fail(r)
  PROVE  IInv'
<1> USE DEF Steps, Outcomes
<1>1. CASE PostPending(r)
  <2>1. pc[r] = "pending" /\ id[r] # None /\ UNCHANGED <<pr, moves, run, id, verdict>>
        /\ Post(r, id[r].head, "pending", "collect", "fail_capture")
    BY <1>1, Facts DEF PostPending, Local
  <2>2. QED  BY <2>1, PostInv
<1>2. CASE Publish(r)
  <2>1. /\ pc[r] = "post" /\ id[r] # None /\ UNCHANGED <<pr, moves, run, id, verdict>>
        /\ verdict[r] # None /\ Post(r, id[r].head, Conclusion(r), "over", "fail")
    BY <1>2, Facts DEF Publish, Local
  <2>2. /\ Conclusion(r) \in {"clear", "findings"}
        /\ Conclusion(r) = "clear" => \A m \in Models : verdict[r][m] = "clear"
    BY DEF Conclusion
  <2>3. QED  BY <2>1, <2>2, PostInv
<1>3. ASSUME NEW then \in {"fail", "over"}, FailedStatus(r, then),
             UNCHANGED <<pr, moves, run, id, verdict>>,
             \/ pc[r] = "fail_capture" /\ then = "fail"
             \/ pc[r] = "fail" /\ then = "over"
      PROVE  IInv'
  <2>1. CASE id[r] # None
    <3>1. Post(r, id[r].head, "execution_failure", then, then)  BY <1>3, <2>1 DEF FailedStatus
    <3>2. QED  BY <1>3, <2>1, <3>1, PostInv
  <2>2. CASE id[r] = None
    <3>1. /\ GoTo(r, then) /\ mishaps' = mishaps /\ then \in Steps /\ pc'[r] = then
          /\ UNCHANGED <<pr, moves, attempt, from, trigger, begun, id, verdict, status>>
          /\ Under(r) /\ attempt[r] = 1
      BY <1>3, <2>2, Facts DEF FailedStatus, GoTo, run, Local, Under, TypeOK
    <3>2. Local(r)'  BY <3>1, Facts DEF Local
    <3>3. QED  BY <1>3, <2>2, <3>1, <3>2, Facts, StepKept
  <2>3. QED  BY <2>1, <2>2
<1>4. CASE FailCapture(r)  BY <1>3, <1>4 DEF FailCapture
<1>5. CASE Fail(r)  BY <1>3, <1>5 DEF Fail
<1>6. QED  BY <1>1, <1>2, <1>4, <1>5

-----------------------------------------------------------------------------
(* Runs that enter their group and begin, and changes of the pull request    *)

\* Run r is queued, for the first time or to be run again.
LEMMA QueuedWell ==
  ASSUME IInv, NEW r \in Runs, pc[r] \in {"idle", "over"}, pc'[r] = "queued",
         \A q \in Runs : q # r => pc'[q] = pc[q] \/ (pc[q] = "queued" /\ pc'[q] = "over"),
         \A q \in Runs : q # r => attempt'[q] = attempt[q] /\ from'[q] = from[q],
         \/ attempt'[r] = 2
         \/ attempt'[r] = 1 /\ attempt[r] = 1 /\ pc[r] = "idle" /\ from'[r] = from[r],
         UNCHANGED <<id, verdict, status, mishaps>>
  PROVE  (\A q \in Runs : Local(q)') /\ (\A h \in Heads : Written(h)')
<1>1. ASSUME NEW q \in Runs PROVE Local(q)'
  <2>1. Local(q) /\ attempt[q] \in {1, 2}  BY Facts
  <2>2. CASE q = r  BY <2>1, <2>2 DEF Local
  <2>3. CASE q # r /\ pc'[q] = pc[q]  BY <2>1, <2>3 DEF Local
  <2>4. CASE q # r /\ pc'[q] = "over"  BY <2>1, <2>4 DEF Local
  <2>5. QED  BY <2>2, <2>3, <2>4
<1>2. ASSUME NEW q \in Runs
      PROVE  /\ attempt[q] = 2 \/ pc[q] \in {"fail", "over"} =>
                  attempt'[q] = 2 \/ pc'[q] \in {"fail", "over"}
             /\ pc'[q] = "fail" => attempt[q] = 1 /\ pc[q] # "over"
             /\ attempt[q] = 1 /\ Under(q) => attempt'[q] = 1 /\ Under(q)'
  <2>1. Local(q) /\ attempt[q] \in {1, 2}  BY Facts
  <2>2. CASE q = r  BY <2>1, <2>2 DEF Local, Under
  <2>3. CASE q # r  BY <2>1, <2>3 DEF Local, Under
  <2>4. QED  BY <2>2, <2>3
<1>3. \A h \in Heads : Written(h)'  BY <1>2, Facts, WrittenKept
<1>4. QED  BY <1>1, <1>3

LEMMA TriggerInv == ASSUME IInv, NEW r \in Runs, Trigger(r) PROVE IInv'
<1>1. /\ pc[r] = "idle" /\ attempt[r] = 1
      /\ UNCHANGED <<pr, moves, attempt, from, id, verdict, status, begun, mishaps>>
  BY Facts DEF Trigger, Local
<1>2. /\ pc' \in [Runs -> Steps] /\ pc'[r] = "queued"
      /\ \A q \in Runs : q # r => pc'[q] = pc[q] \/ (pc[q] = "queued" /\ pc'[q] = "over")
  <2>1. CASE Enter(r)
    <3>1. pc'[r] = "queued"  BY <2>1 DEF Enter
    <3>2. QED  BY <2>1, <3>1, Facts, EnterUnder
  <2>2. CASE GoTo(r, "queued")  BY <2>2, Facts DEF GoTo, TypeOK, Steps
  <2>3. QED  BY <2>1, <2>2 DEF Trigger
<1>3. trigger' \in [Runs -> Heads \cup {None}]
  <2>1. pr.at.head \in Heads /\ trigger \in [Runs -> Heads \cup {None}]
    BY Facts DEF TypeOK, Revisions
  <2>2. QED  BY <2>1 DEF Trigger
<1>4. TypeOK'  BY <1>1, <1>2, <1>3, Facts DEF TypeOK
<1>5. InOrder'  BY Facts, TriggerOrder
<1>6. (\A q \in Runs : Local(q)') /\ (\A h \in Heads : Written(h)')
  BY <1>1, <1>2, QueuedWell
<1>7. QED  BY <1>4, <1>5, <1>6 DEF IInv

LEMMA RerunInv == ASSUME IInv, NEW r \in Runs, Rerun(r) PROVE IInv'
<1>1. /\ pc[r] = "over" /\ Enter(r) /\ attempt' = [attempt EXCEPT ![r] = 2]
      /\ UNCHANGED <<pr, moves, trigger, id, verdict, status, begun, mishaps>>
  BY DEF Rerun
<1>2. PICK job \in {"identify", "review", "assess"} : from' = [from EXCEPT ![r] = job]
  BY DEF Rerun
<1>3. pc'[r] = "queued"  BY <1>1 DEF Enter
<1>4. /\ pc' \in [Runs -> Steps]
      /\ \A q \in Runs : q # r => pc'[q] = pc[q] \/ (pc[q] = "queued" /\ pc'[q] = "over")
  BY <1>1, Facts, EnterUnder
<1>5. /\ attempt' \in [Runs -> {1, 2}] /\ from' \in [Runs -> {"identify", "review", "assess"}]
      /\ attempt'[r] = 2
      /\ \A q \in Runs : q # r => attempt'[q] = attempt[q] /\ from'[q] = from[q]
  BY <1>1, <1>2, Facts DEF TypeOK
<1>6. TypeOK'  BY <1>1, <1>4, <1>5, Facts DEF TypeOK
<1>7. InOrder'  BY Facts, RerunOrder
<1>8. (\A q \in Runs : Local(q)') /\ (\A h \in Heads : Written(h)')
  BY <1>1, <1>3, <1>4, <1>5, QueuedWell
<1>9. QED  BY <1>6, <1>7, <1>8 DEF IInv

LEMMA BeginInv == ASSUME IInv, NEW r \in Runs, Begin(r) PROVE IInv'
<1>1. /\ pc[r] = "queued" /\ pc' = [pc EXCEPT ![r] = from[r]]
      /\ UNCHANGED <<pr, moves, attempt, from, trigger, id, verdict, status, mishaps>>
  BY DEF Begin, GoTo
<1>2. from[r] \in {"identify", "review", "assess"} /\ from[r] \in Steps
  BY Facts DEF TypeOK, Steps
<1>3. /\ pc' \in [Runs -> Steps] /\ pc'[r] = from[r]
      /\ \A q \in Runs : q # r => pc'[q] = pc[q]
  BY <1>1, <1>2, Facts DEF TypeOK
<1>4. begun' \in [Runs -> Nat]
  <2>1. Cardinality({q \in Runs : begun[q] > 0}) \in Nat
    BY FS_Subset, FS_CardinalityType DEF ReviewAssumption
  <2>2. begun \in [Runs -> Nat]  BY Facts DEF TypeOK
  <2>3. QED  BY <2>1, <2>2 DEF Begin
<1>5. TypeOK'  BY <1>1, <1>3, <1>4, Facts DEF TypeOK
<1>6. InOrder'  BY Facts, BeginOrder
<1>7. ASSUME NEW q \in Runs PROVE Local(q)'
  <2>1. Local(q) /\ attempt[q] \in {1, 2}  BY Facts
  <2>2. CASE q = r  BY <1>1, <1>2, <1>3, <2>1, <2>2 DEF Local
  <2>3. CASE q # r  BY <1>1, <1>3, <2>1, <2>3 DEF Local
  <2>4. QED  BY <2>2, <2>3
<1>8. ASSUME NEW q \in Runs
      PROVE  /\ attempt[q] = 2 \/ pc[q] \in {"fail", "over"} =>
                  attempt'[q] = 2 \/ pc'[q] \in {"fail", "over"}
             /\ pc'[q] = "fail" => attempt[q] = 1 /\ pc[q] # "over"
             /\ attempt[q] = 1 /\ Under(q) => attempt'[q] = 1 /\ Under(q)'
  <2>1. Local(q) /\ attempt[q] \in {1, 2}  BY Facts
  <2>2. CASE q = r  BY <1>1, <1>2, <1>3, <2>1, <2>2 DEF Local, Under
  <2>3. CASE q # r  BY <1>1, <1>3, <2>1, <2>3 DEF Local, Under
  <2>4. QED  BY <2>2, <2>3
<1>9. \A h \in Heads : Written(h)'  BY <1>1, <1>8, Facts, WrittenKept
<1>10. QED  BY <1>5, <1>6, <1>7, <1>9 DEF IInv

\* What the pull request does touches nothing a run has written.
LEMMA OthersInv == ASSUME IInv, ChangePr \/ UNCHANGED vars PROVE IInv'
<1>1. UNCHANGED <<pc, attempt, from, trigger, begun, id, verdict, status, mishaps>>
  BY DEF ChangePr, vars, run
<1>2. pr' \in [at : Revisions, state : {"open", "draft", "closed"}] /\ moves' \in 0 .. MaxMoves
  <2>1. pr \in [at : Revisions, state : {"open", "draft", "closed"}] /\ moves \in 0 .. MaxMoves
    BY Facts DEF IInv, TypeOK
  <2>2. CASE UNCHANGED vars  BY <2>1, <2>2 DEF vars
  <2>3. CASE ChangePr
    <3>1. moves' \in 0 .. MaxMoves  BY <2>1, <2>3 DEF ChangePr, ReviewAssumption
    <3>2. CASE \E h \in Heads : pr' = [pr EXCEPT !.at = [head |-> h, base |-> @.base]]
      BY <2>1, <3>1, <3>2 DEF Revisions
    <3>3. CASE \E b \in Bases : pr' = [pr EXCEPT !.at = [head |-> @.head, base |-> b]]
      BY <2>1, <3>1, <3>3 DEF Revisions
    <3>4. CASE \E s \in {"open", "draft", "closed"} : pr' = [pr EXCEPT !.state = s]
      BY <2>1, <3>1, <3>4
    <3>5. QED  BY <2>3, <3>1, <3>2, <3>3, <3>4 DEF ChangePr
  <2>4. QED  BY <2>2, <2>3
<1>3. TypeOK'  BY <1>1, <1>2 DEF IInv, TypeOK
<1>4. InOrder'  BY <1>1, OrderKept DEF IInv, Under
<1>5. \A q \in Runs : Local(q)'  BY <1>1 DEF IInv, Local
<1>6. \A h \in Heads : Written(h)'  BY <1>1 DEF IInv, Written, Under
<1>7. QED  BY <1>3, <1>4, <1>5, <1>6 DEF IInv

-----------------------------------------------------------------------------
(* The invariant                                                             *)

LEMMA InitInv == Init => IInv
<1> SUFFICES ASSUME Init PROVE IInv  OBVIOUS
<1>1. TypeOK  BY DEF Init, TypeOK, Steps, ReviewAssumption
<1>2. InOrder
  <2>1. {q \in Runs : begun[q] > 0} = {}  BY DEF Init
  <2>2. Cardinality({q \in Runs : begun[q] > 0}) = 0  BY <2>1, FS_EmptySet
  <2>3. \A r \in Runs : begun[r] = 0 /\ ~Under(r)  BY DEF Init, Under
  <2>4. QED  BY <2>2, <2>3 DEF InOrder
<1>3. \A r \in Runs : Local(r)  BY DEF Init, Local
<1>4. \A h \in Heads : Written(h)  BY DEF Init, Written
<1>5. QED  BY <1>1, <1>2, <1>3, <1>4 DEF IInv

LEMMA StepInv == IInv /\ [Next]_vars => IInv'
<1> SUFFICES ASSUME IInv, [Next]_vars PROVE IInv'  OBVIOUS
<1>1. ASSUME NEW r \in Runs, Trigger(r)  PROVE IInv'  BY <1>1, TriggerInv
<1>2. ASSUME NEW r \in Runs, Rerun(r)  PROVE IInv'  BY <1>2, RerunInv
<1>3. ASSUME NEW r \in Runs, RunStep(r)  PROVE IInv'
  <2>1. CASE Begin(r)  BY <2>1, BeginInv
  <2>2. CASE Skip(r) \/ Collect(r) \/ Assess(r) \/ Stop(r)  BY <2>2, PlainInv
  <2>3. CASE Identify(r)  BY <2>3, IdentifyInv
  <2>4. CASE Review(r)  BY <2>4, ReviewInv
  <2>5. CASE PostPending(r) \/ FailCapture(r) \/ Publish(r) \/ Fail(r)  BY <2>5, WritesInv
  <2>6. QED  BY <1>3, <2>1, <2>2, <2>3, <2>4, <2>5 DEF RunStep
<1>4. ASSUME NEW r \in Runs, Kill(r)  PROVE IInv'  BY <1>4, PlainInv
<1>5. CASE ChangePr \/ UNCHANGED vars  BY <1>5, OthersInv
<1>6. QED  BY <1>1, <1>2, <1>3, <1>4, <1>5 DEF Next

\* Every reachable state of any number of runs satisfies the invariant
\* (pr-review.yml; pr_review.py).
THEOREM Invariance == Spec => []IInv
BY InitInv, StepInv, PTL DEF Spec

-----------------------------------------------------------------------------
(* The theorems                                                              *)

\* The state of the runs, the pull request and the statuses keeps its types.
THEOREM TypeCorrect == Spec => []TypeOK
<1>1. IInv => TypeOK  BY DEF IInv
<1>2. QED  BY <1>1, Invariance, PTL

\* However many runs review the pull request, in any order, cancelled and
\* re-run: a commit is called clear only when the run that says so froze that
\* commit and every model cleared it (pr_review.py 454-485, 530-531).
THEOREM ClearMeansReviewed == Spec => []ClearIsReviewed
<1>1. IInv => ClearIsReviewed
  BY DEF IInv, ClearIsReviewed, Written, ReviewAssumption
<1>2. QED  BY <1>1, Invariance, PTL

\* No commit is left pending by a run that can no longer settle it, unless the
\* run was killed or lost the answer to a write (pr-review.yml 77-84, 278-286).
THEOREM PendingGetsSettled == Spec => []PendingIsSettled
<1>1. ASSUME IInv, NEW h \in Heads, NEW r \in Runs, status[h] = [is |-> "pending", by |-> r]
      PROVE  r \in mishaps \/ (attempt[r] = 1 /\ Under(r))
  <2>1. Written(h) /\ status[h].by = r /\ status[h].is = "pending" /\ r # Nobody
    BY <1>1 DEF IInv, ReviewAssumption
  <2>2. QED  BY <2>1 DEF Written
<1>2. IInv => PendingIsSettled  BY <1>1 DEF PendingIsSettled
<1>3. QED  BY <1>2, Invariance, PTL

\* Who writes a status is in its first attempt, and holds its group.
LEMMA Writer ==
  ASSUME IInv, [Next]_vars, NEW h \in Heads, status'[h] # status[h]
  PROVE  \E r \in Runs : /\ status'[h].by = r /\ attempt[r] = 1 /\ Under(r)
                         /\ pc[r] \in {"pending", "fail_capture", "post", "fail"}
<1>1. PICK r \in Runs :
        \/ PostPending(r) \/ Publish(r)
        \/ FailCapture(r) \/ Fail(r)
  <2>1. status' # status  OBVIOUS
  <2>2. QED
    BY <2>1 DEF Next, RunStep, ChangePr, Trigger, Rerun, Kill, Begin, Skip, Identify,
                Collect, Review, Assess, Stop, vars
<1>2. /\ pc[r] \in {"pending", "fail_capture", "post", "fail"}
      /\ \E what \in Outcomes, then \in Steps, failed \in Steps :
            Post(r, id[r].head, what, then, failed)
  <2> USE DEF Steps, Outcomes
  <2>1. CASE PostPending(r)  BY <2>1 DEF PostPending
  <2>2. CASE Publish(r)
    <3>1. Conclusion(r) \in Outcomes  BY DEF Conclusion
    <3>2. QED  BY <2>2, <3>1 DEF Publish
  <2>3. CASE FailCapture(r)  BY <2>3 DEF FailCapture, FailedStatus
  <2>4. CASE Fail(r)  BY <2>4 DEF Fail, FailedStatus
  <2>5. QED  BY <1>1, <2>1, <2>2, <2>3, <2>4
<1>3. status'[h].by = r  BY <1>2, Facts DEF Post, TypeOK
<1>4. attempt[r] = 1 /\ Under(r)  BY <1>2, Facts DEF Local, Under
<1>5. QED  BY <1>2, <1>3, <1>4

\* Runs of a group write in the order in which they began: an older verdict
\* never ends up on a newer one (pr-review.yml 21-26, 33).
THEOREM LaterRunsWin == Spec => LaterRunsPrevail
<1>1. ASSUME IInv, [Next]_vars, NEW h \in Heads, status'[h] # status[h],
             status[h].by # Nobody, status'[h].by \in Group(status[h].by)
      PROVE  begun[status'[h].by] >= begun[status[h].by]
  <2>1. PICK r \in Runs : status'[h].by = r /\ attempt[r] = 1 /\ Under(r)  BY <1>1, Writer
  <2>2. PICK w \in Runs : w = status[h].by  BY <1>1 DEF IInv, TypeOK
  <2>3. w \in Group(r)  BY <1>1, <2>1, <2>2, GroupIsSymmetric
  <2>4. begun[w] <= begun[r] /\ begun[w] \in Nat /\ begun[r] \in Nat
    BY <1>1, <2>1, <2>3 DEF IInv, InOrder, TypeOK
  <2>5. QED  BY <2>1, <2>2, <2>4
<1>2. IInv /\ [Next]_vars =>
        [\A h \in Heads : status'[h] # status[h] /\ status[h].by # Nobody =>
          \/ status'[h].by \notin Group(status[h].by)
          \/ begun[status'[h].by] >= begun[status[h].by]]_vars
  BY <1>1
<1>3. QED  BY <1>2, Invariance, PTL DEF Spec, LaterRunsPrevail

\* The failure status of a run never covers the verdict that run completed,
\* unless the answer to the verdict's write was lost (pr_review.py 527-531).
THEOREM VerdictStands == Spec => VerdictIsKept
<1>1. ASSUME IInv, [Next]_vars, NEW h \in Heads, status'[h] # status[h],
             status[h].is \in {"clear", "findings"}, status'[h].by = status[h].by
      PROVE  status[h].by \in mishaps
  <2>1. PICK r \in Runs : /\ status'[h].by = r /\ attempt[r] = 1
                          /\ pc[r] \in {"pending", "fail_capture", "post", "fail"}
    BY <1>1, Writer
  <2>2. Written(h) /\ status[h].by = r /\ r # Nobody  BY <1>1, <2>1 DEF IInv, ReviewAssumption
  <2>3. pc[r] = "fail" /\ r \in mishaps  BY <1>1, <2>1, <2>2 DEF Written
  <2>4. QED  BY <2>2, <2>3
<1>2. IInv /\ [Next]_vars =>
        [\A h \in Heads :
          status[h].is \in {"clear", "findings"} /\ status'[h] # status[h] =>
              status'[h].by # status[h].by \/ status[h].by \in mishaps]_vars
  BY <1>1
<1>3. QED  BY <1>2, Invariance, PTL DEF Spec, VerdictIsKept

=============================================================================
