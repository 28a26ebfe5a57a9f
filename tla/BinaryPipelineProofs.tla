-------------------------- MODULE BinaryPipelineProofs --------------------------
(***************************************************************************)
(* The binary release workflow, for any number of runs, attempts, targets   *)
(* and moves of the tag.                                                    *)
(***************************************************************************)
EXTENDS BinaryPipeline, TLAPS

-----------------------------------------------------------------------------
(* The invariant the proofs rest on *)

\* What an artefact's name says of its contents, and of the run's last attempt.
Traced(x) ==
    LET r == x.name[1]
        a == x.name[2]
        kind == x.name[3]
    IN  /\ a <= attempt[r]
        /\ kind \in Targets =>
             /\ x.files \in Archives /\ x.files.run = r /\ x.files.attempt = a
             /\ ~x.files.altered
             /\ a = attempt[r] => ran[r][kind] = a
        /\ kind = "admitted" =>
             /\ x.files \in Sets /\ x.about \in Sets
             /\ \A t \in Targets : x.files[t] = x.about[t] \/ x.files[t].altered
             /\ a = attempt[r] => ran[r]["admit"] = a

Publishing(r) == job[r]["publish"] = "running"

\* What the publish job has admitted: archives of its own run and attempt.
Admitted(r) ==
    /\ held[r] \in Sets
    /\ \A t \in Targets :
         /\ held[r][t].sound /\ ~held[r][t].altered
         /\ held[r][t].run = r /\ held[r][t].attempt = attempt[r]
         /\ ran[r][t] = attempt[r]

\* What the position of the publish job says of what it has.
Holds(r) ==
    Publishing(r) =>
        /\ step[r] \in {"accept", "recheck", "publish", "verify"} => Admitted(r)
        /\ step[r] \in {"recheck", "publish", "verify"} =>
             sboms[r] = held[r] /\ ran[r]["admit"] = attempt[r]
        /\ step[r] = "publish" => owner = Nobody

Begun == \A r \in Runs : job[r]["publish"] # "idle" => attempt[r] > 0

OneAtATime == \A r, q \in Runs : Publishing(r) /\ Publishing(q) => r = q

IInv ==
    /\ TypeOK /\ Begun /\ OneAtATime /\ PublishedIsDescribed
    /\ \A x \in store : Traced(x)
    /\ \A r \in Runs : Holds(r)

USE PipelineAssumption

-----------------------------------------------------------------------------
(* Types                                                                     *)

LEMMA Positive == \A n \in Attempts : n \in Nat /\ n > 0
BY DEF Attempts

LEMMA Names ==
  ASSUME TypeOK, NEW x \in store
  PROVE  x.name[1] \in Runs /\ x.name[2] \in Nat /\ x.name[3] \in Targets \cup {"admitted"}
BY Positive DEF TypeOK, Artefacts

LEMMA Facts ==
  ASSUME IInv, NEW r \in Runs
  PROVE  /\ TypeOK /\ Holds(r) /\ OneAtATime /\ PublishedIsDescribed
         /\ attempt[r] \in {0} \cup Attempts /\ attempt[r] \in Nat
         /\ job[r] \in [Jobs -> States] /\ ran[r] \in [Jobs -> {0} \cup Attempts]
         /\ r # Nobody
<1>1. /\ attempt[r] \in {0} \cup Attempts
      /\ job[r] \in [Jobs -> States] /\ ran[r] \in [Jobs -> {0} \cup Attempts]
  BY DEF IInv, TypeOK
<1>2. attempt[r] \in Nat  BY <1>1, Positive
<1>3. TypeOK /\ Holds(r) /\ OneAtATime /\ PublishedIsDescribed  BY DEF IInv
<1>4. QED  BY <1>1, <1>2, <1>3

LEMMA JobNames ==
  /\ {"checks", "admit", "publish"} \cup Targets = Jobs
  /\ "admit" # "publish" /\ "publish" \notin Targets /\ "admitted" \notin Targets
BY DEF Jobs

\* A job of run r gets a result of this attempt.
LEMMA BecomesResult ==
  ASSUME TypeOK, NEW r \in Runs, NEW j \in Jobs, NEW state \in States, Becomes(r, j, state)
  PROVE  /\ attempt' = attempt
         /\ job' \in [Runs -> [Jobs -> States]] /\ ran' \in [Runs -> [Jobs -> {0} \cup Attempts]]
         /\ \A q \in Runs : q # r => job'[q] = job[q] /\ ran'[q] = ran[q]
         /\ \A k \in Jobs : job'[r][k] = IF k = j THEN state ELSE job[r][k]
         /\ \A k \in Jobs : ran'[r][k] = IF k = j THEN attempt[r] ELSE ran[r][k]
<1>1. attempt[r] \in {0} \cup Attempts /\ attempt' = attempt  BY DEF TypeOK, Becomes
<1>2. job[r] \in [Jobs -> States] /\ ran[r] \in [Jobs -> {0} \cup Attempts]  BY DEF TypeOK
<1>3. /\ [job[r] EXCEPT ![j] = state] \in [Jobs -> States]
      /\ [ran[r] EXCEPT ![j] = attempt[r]] \in [Jobs -> {0} \cup Attempts]
  BY <1>1, <1>2
<1>4. /\ job' = [job EXCEPT ![r] = [job[r] EXCEPT ![j] = state]]
      /\ ran' = [ran EXCEPT ![r] = [ran[r] EXCEPT ![j] = attempt[r]]]
  BY DEF Becomes
<1>5. job \in [Runs -> [Jobs -> States]] /\ ran \in [Runs -> [Jobs -> {0} \cup Attempts]]
  BY DEF TypeOK
<1>6. job' \in [Runs -> [Jobs -> States]] /\ ran' \in [Runs -> [Jobs -> {0} \cup Attempts]]
  BY <1>3, <1>4, <1>5
<1>7. /\ \A q \in Runs : q # r => job'[q] = job[q] /\ ran'[q] = ran[q]
      /\ job'[r] = [job[r] EXCEPT ![j] = state]
      /\ ran'[r] = [ran[r] EXCEPT ![j] = attempt[r]]
  BY <1>4, <1>5
<1>8. QED  BY <1>1, <1>2, <1>6, <1>7

-----------------------------------------------------------------------------
(* What stays true of artefacts and of publish jobs                          *)

\* Attempts only grow, and a result recorded in one is of that attempt.
Advances ==
    \A r \in Runs :
        /\ attempt'[r] \in Nat /\ attempt'[r] >= attempt[r]
        /\ attempt'[r] = attempt[r] => \A j \in Jobs : ran'[r][j] \in {ran[r][j], attempt[r]}

LEMMA TracedKept ==
  ASSUME IInv, Advances, NEW x \in store
  PROVE  Traced(x)'
<1> DEFINE r == x.name[1]
           a == x.name[2]
<1>1. r \in Runs /\ a \in Nat /\ attempt[r] \in Nat /\ attempt'[r] \in Nat /\ attempt'[r] >= attempt[r]
  BY Names, Facts DEF Advances, IInv
<1>2. Traced(x)  BY DEF IInv
<1>3. a <= attempt[r]  BY <1>2 DEF Traced
<1>4. a = attempt'[r] => a = attempt[r] /\ attempt'[r] = attempt[r]  BY <1>1, <1>3
<1>5. a = attempt'[r] => \A j \in Jobs : ran[r][j] = a => ran'[r][j] = a
  BY <1>1, <1>4 DEF Advances
<1>6. a <= attempt'[r]  BY <1>1, <1>3
<1> HIDE DEF r, a
<1>7. x.name[1] = r /\ x.name[2] = a  BY DEF r, a
<1>8. x.name[3] \in Targets => x.name[3] \in Jobs /\ "admit" \in Jobs  BY JobNames
<1>9. "admit" \in Jobs  BY JobNames
<1>10. QED  BY <1>2, <1>4, <1>5, <1>6, <1>7, <1>8, <1>9 DEF Traced

LEMMA HoldsKept ==
  ASSUME NEW r \in Runs, Holds(r),
         Publishing(r)' =>
            /\ Publishing(r) /\ attempt'[r] = attempt[r]
            /\ step'[r] = step[r] /\ held'[r] = held[r] /\ sboms'[r] = sboms[r]
            /\ \A j \in Jobs : ran'[r][j] \in {ran[r][j], attempt[r]}
            /\ owner' = owner
  PROVE  Holds(r)'
<1> SUFFICES ASSUME Publishing(r)'
             PROVE  /\ step'[r] \in {"accept", "recheck", "publish", "verify"} => Admitted(r)'
                    /\ step'[r] \in {"recheck", "publish", "verify"} =>
                         sboms'[r] = held'[r] /\ ran'[r]["admit"] = attempt'[r]
                    /\ step'[r] = "publish" => owner' = Nobody
  BY DEF Holds
<1>1. \A t \in Targets : t \in Jobs  BY JobNames
<1>2. Admitted(r) => Admitted(r)'  BY <1>1 DEF Admitted
<1>3. ran[r]["admit"] = attempt[r] => ran'[r]["admit"] = attempt[r]  BY JobNames
<1>4. QED  BY <1>2, <1>3 DEF Holds

\* A step that takes no publish job forward and publishes nothing.
LEMMA QuietStep ==
  ASSUME IInv, TypeOK', Advances,
         \A x \in store' : x \in store \/ Traced(x)',
         \A r \in Runs : Publishing(r)' => Publishing(r) /\ attempt'[r] = attempt[r],
         Begun', UNCHANGED <<step, held, sboms, assets, owner>>
  PROVE  IInv'
<1>1. \A x \in store' : Traced(x)'  BY TracedKept
<1>2. \A r \in Runs : Holds(r)'  BY HoldsKept DEF Advances, IInv
<1>3. OneAtATime'  BY DEF OneAtATime, IInv
<1>4. PublishedIsDescribed'  BY DEF PublishedIsDescribed, IInv
<1>5. QED  BY <1>1, <1>2, <1>3, <1>4 DEF IInv

\* A step of the publish job of run r, which holds the group.
LEMMA PublishStep ==
  ASSUME IInv, NEW r \in Runs, Publishing(r), UNCHANGED <<attempt, job, ran, digests, store>>,
         TypeOK', Holds(r)', PublishedIsDescribed'
  PROVE  IInv'
<1>1. \A q \in Runs : Publishing(q)' <=> Publishing(q)  BY DEF Publishing
<1>2. \A q \in Runs : q # r => ~Publishing(q)  BY DEF IInv, OneAtATime
<1>3. \A q \in Runs : Holds(q)'  BY <1>1, <1>2 DEF Holds
<1>4. OneAtATime'  BY <1>1 DEF OneAtATime, IInv
<1>5. Advances  BY Facts DEF Advances
<1>6. \A x \in store' : Traced(x)'  BY <1>5, TracedKept
<1>7. Begun'  BY DEF Begun, IInv
<1>8. QED  BY <1>3, <1>4, <1>6, <1>7 DEF IInv

-----------------------------------------------------------------------------
(* Runs, jobs and builds                                                     *)

\* A job that is not the publish job, or the publish job's end.
LEMMA ResultInv ==
  ASSUME IInv, NEW r \in Runs, NEW j \in Jobs, NEW state \in States, Becomes(r, j, state),
         j = "publish" => state # "running" /\ Publishing(r),
         digests' \in [Runs -> Sets \cup {None}], store' \subseteq Artefacts,
         \A x \in store' : x \in store \/ Traced(x)',
         UNCHANGED <<publish, tag, moves, assets, release>>
  PROVE  IInv'
<1>1. /\ attempt' = attempt
      /\ job' \in [Runs -> [Jobs -> States]] /\ ran' \in [Runs -> [Jobs -> {0} \cup Attempts]]
      /\ \A q \in Runs : q # r => job'[q] = job[q] /\ ran'[q] = ran[q]
      /\ \A k \in Jobs : job'[r][k] = IF k = j THEN state ELSE job[r][k]
      /\ \A k \in Jobs : ran'[r][k] = IF k = j THEN attempt[r] ELSE ran[r][k]
  BY Facts, BecomesResult
<1>2. TypeOK'  BY <1>1, Facts DEF TypeOK, publish, release
<1>3. Advances  BY <1>1, Facts DEF Advances
<1>4. \A q \in Runs : Publishing(q)' => Publishing(q)
  BY <1>1, JobNames DEF Publishing
<1>5. Begun'
  <2> SUFFICES ASSUME NEW q \in Runs, job'[q]["publish"] # "idle" PROVE attempt[q] > 0
    BY <1>1 DEF Begun
  <2>1. job[q]["publish"] # "idle"  BY <1>1, JobNames DEF Publishing
  <2>2. QED  BY <2>1 DEF IInv, Begun
<1>6. QED  BY <1>1, <1>2, <1>3, <1>4, <1>5, QuietStep DEF publish, release

LEMMA FailsInv == ASSUME IInv, NEW r \in Runs, NEW j \in Jobs, JobFails(r, j) PROVE IInv'
<1>1. "failure" \in States /\ Becomes(r, j, "failure")  BY DEF States, JobFails
<1>2. UNCHANGED <<digests, store, publish, tag, moves, assets, release>>  BY DEF JobFails
<1>3. digests' \in [Runs -> Sets \cup {None}] /\ store' \subseteq Artefacts
  BY <1>2, Facts DEF TypeOK
<1>4. j = "publish" => Publishing(r)  BY DEF JobFails, Publishing
<1>5. QED  BY <1>1, <1>2, <1>3, <1>4, ResultInv

LEMMA CheckInv == ASSUME IInv, NEW r \in Runs, Check(r) PROVE IInv'
<1>1. /\ "success" \in States /\ "checks" \in Jobs /\ Becomes(r, "checks", "success")
      /\ UNCHANGED <<digests, store, publish, tag, moves, assets, release>>
  BY JobNames DEF States, Check
<1>2. digests' \in [Runs -> Sets \cup {None}] /\ store' \subseteq Artefacts
  BY <1>1, Facts DEF TypeOK
<1>3. "checks" # "publish"  OBVIOUS
<1>4. QED  BY <1>1, <1>2, <1>3, ResultInv

\* What an upload adds.
LEMMA Uploaded ==
  ASSUME IInv, NEW x \in Artefacts, Upload(x.name, x.files, x.about), Traced(x)'
  PROVE  /\ store' \subseteq Artefacts
         /\ \A y \in store' : y \in store \/ Traced(y)'
<1>1. x = [name |-> x.name, files |-> x.files, about |-> x.about]  BY DEF Artefacts
<1>2. store' = {y \in store : y.name # x.name} \cup {x}  BY <1>1 DEF Upload
<1>3. QED  BY <1>2 DEF IInv, TypeOK

LEMMA BuildInv == ASSUME IInv, NEW r \in Runs, NEW t \in Targets, Build(r, t) PROVE IInv'
<1>1. "success" \in States /\ t \in Jobs /\ t # "publish" /\ Becomes(r, t, "success") /\ attempt[r] > 0
  BY JobNames DEF States, Build, Ready
<1>2. attempt[r] \in Attempts /\ attempt[r] \in Nat  BY <1>1, Facts
<1>3. PICK a : a = attempt[r]  OBVIOUS
<1>4. PICK sound \in BOOLEAN :
        Upload(Name(r, t), [run |-> r, attempt |-> a, sound |-> sound, altered |-> FALSE], None)
  BY <1>3 DEF Build
<1>5. PICK files : files = [run |-> r, attempt |-> a, sound |-> sound, altered |-> FALSE]
  OBVIOUS
<1>6. PICK x : x = [name |-> <<r, a, t>>, files |-> files, about |-> None]  OBVIOUS
<1>7. files \in Archives  BY <1>2, <1>3, <1>5 DEF Archives
<1>8. x \in Artefacts  BY <1>2, <1>3, <1>6, <1>7 DEF Artefacts
<1>9. attempt'[r] = a /\ ran'[r][t] = a /\ a <= a  BY <1>1, <1>2, <1>3, Facts, BecomesResult
<1>10. Traced(x)'
  <2>1. /\ x.name[1] = r /\ x.name[2] = a /\ x.name[3] = t /\ t # "admitted"
        /\ x.files = files /\ files.run = r /\ files.attempt = a /\ ~files.altered
    BY <1>5, <1>6, JobNames
  <2>2. QED  BY <1>7, <1>9, <2>1 DEF Traced
<1>11. Upload(x.name, x.files, x.about)  BY <1>3, <1>4, <1>5, <1>6 DEF Name
<1>12. store' \subseteq Artefacts /\ \A y \in store' : y \in store \/ Traced(y)'
  BY <1>8, <1>10, <1>11, Uploaded
<1>13. digests' \in [Runs -> Sets \cup {None}]  BY Facts DEF TypeOK, Build
<1>14. UNCHANGED <<publish, tag, moves, assets, release>>  BY DEF Build
<1>15. QED  BY <1>1, <1>12, <1>13, <1>14, ResultInv

\* What the downloads and binary_release.py receive let through.
LEMMA ReceivedIsOwn ==
  ASSUME IInv, NEW r \in Runs, NEW got \in Sets, Received(r, got)
  PROVE  \A t \in Targets :
            /\ got[t] \in Archives /\ got[t].sound /\ ~got[t].altered
            /\ got[t].run = r /\ got[t].attempt = attempt[r] /\ ran[r][t] = attempt[r]
<1> SUFFICES ASSUME NEW t \in Targets
             PROVE  /\ got[t] \in Archives /\ got[t].sound /\ ~got[t].altered
                    /\ got[t].run = r /\ got[t].attempt = attempt[r]
                    /\ ran[r][t] = attempt[r]
  OBVIOUS
<1>1. PICK x \in store : x.name = <<r, attempt[r], t>> /\ x.files = got[t] /\ got[t].sound
  BY DEF Received, Stored, Name
<1>2. Traced(x)  BY DEF IInv
<1>3. x.name[1] = r /\ x.name[2] = attempt[r] /\ x.name[3] = t  BY <1>1
<1>4. QED  BY <1>1, <1>2, <1>3 DEF Traced

LEMMA AdmitInv == ASSUME IInv, NEW r \in Runs, Admit(r) PROVE IInv'
<1>1. "success" \in States /\ "admit" \in Jobs /\ Becomes(r, "admit", "success") /\ attempt[r] > 0
  BY JobNames DEF States, Admit, Ready
<1>2. attempt[r] \in Attempts /\ attempt[r] \in Nat  BY <1>1, Facts
<1>3. PICK a : a = attempt[r]  OBVIOUS
<1>4. PICK got \in Sets, changed \in SUBSET Targets :
        LET left == [t \in Targets |->
                        IF t \in changed THEN [got[t] EXCEPT !.altered = TRUE] ELSE got[t]]
        IN  /\ Upload(Name(r, "admitted"), left, got)
            /\ digests' = [digests EXCEPT ![r] = left]
  BY DEF Admit
<1>5. PICK left : left = [t \in Targets |->
                        IF t \in changed THEN [got[t] EXCEPT !.altered = TRUE] ELSE got[t]]
  OBVIOUS
<1>6. Upload(Name(r, "admitted"), left, got) /\ digests' = [digests EXCEPT ![r] = left]
  BY <1>4, <1>5
<1>7. \A t \in Targets : got[t] \in Archives  BY DEF Sets
<1>8. /\ \A t \in Targets : left[t] \in Archives /\ (left[t] = got[t] \/ left[t].altered)
      /\ left \in Sets
  BY <1>5, <1>7 DEF Archives, Sets
<1>9. PICK x : x = [name |-> <<r, a, "admitted">>, files |-> left, about |-> got]  OBVIOUS
<1>10. x \in Artefacts  BY <1>2, <1>3, <1>8, <1>9 DEF Artefacts
<1>11. attempt'[r] = a /\ ran'[r]["admit"] = a /\ a <= a
  BY <1>1, <1>2, <1>3, Facts, BecomesResult
<1>12. Traced(x)'
  <2>1. /\ x.name[1] = r /\ x.name[2] = a /\ x.name[3] = "admitted"
        /\ x.files = left /\ x.about = got
    BY <1>9
  <2>2. QED  BY <1>8, <1>11, <2>1, JobNames DEF Traced
<1>13. Upload(x.name, x.files, x.about)  BY <1>3, <1>6, <1>9 DEF Name
<1>14. store' \subseteq Artefacts /\ \A y \in store' : y \in store \/ Traced(y)'
  BY <1>10, <1>12, <1>13, Uploaded
<1>15. digests' \in [Runs -> Sets \cup {None}]  BY <1>6, <1>8, Facts DEF TypeOK
<1>16. UNCHANGED <<publish, tag, moves, assets, release>>  BY DEF Admit
<1>17. "admit" # "publish"  OBVIOUS
<1>18. QED  BY <1>1, <1>14, <1>15, <1>16, <1>17, ResultInv

LEMMA StartInv == ASSUME IInv, NEW r \in Runs, Start(r) PROVE IInv'
<1>1. /\ attempt[r] = 0 /\ attempt' = [attempt EXCEPT ![r] = 1]
      /\ UNCHANGED <<job, ran, digests, store, publish, tag, moves, assets, release>>
  BY DEF Start
<1>2. 1 \in Attempts
  <2>1. MaxAttempts[r] \in Nat \ {0}  OBVIOUS
  <2>2. 1 \in 1 .. MaxAttempts[r]  BY <2>1
  <2>3. QED  BY <2>2 DEF Attempts
<1>3. attempt' \in [Runs -> {0} \cup Attempts] /\ attempt'[r] = 1
      /\ \A q \in Runs : q # r => attempt'[q] = attempt[q]
  BY <1>1, <1>2, Facts DEF TypeOK
<1>4. TypeOK'  BY <1>1, <1>3, Facts DEF TypeOK, publish, release
<1>5. Advances  BY <1>1, <1>3, Facts DEF Advances
<1>6. ~Publishing(r) /\ Begun'  BY <1>1, <1>3 DEF Begun, IInv, Publishing
<1>7. \A q \in Runs : Publishing(q)' => Publishing(q) /\ attempt'[q] = attempt[q]
  BY <1>1, <1>3, <1>6 DEF Publishing
<1>8. QED  BY <1>1, <1>4, <1>5, <1>6, <1>7, QuietStep DEF publish, release

LEMMA RerunInv == ASSUME IInv, NEW r \in Runs, Rerun(r) PROVE IInv'
<1>1. /\ Over(r) /\ attempt[r] < MaxAttempts[r] /\ attempt' = [attempt EXCEPT ![r] = @ + 1]
      /\ UNCHANGED <<ran, digests, store, publish, tag, moves, assets, release>>
  BY DEF Rerun
<1>2. PICK js : job' = [job EXCEPT ![r] =
                [j \in Jobs |-> IF j \in js \/ Needs(j) \cap js # {} THEN "idle" ELSE job[r][j]]]
  BY DEF Rerun
<1>3. attempt[r] + 1 \in Attempts
  <2>1. MaxAttempts[r] \in Nat \ {0} /\ attempt[r] \in Nat  BY Facts
  <2>2. attempt[r] + 1 \in 1 .. MaxAttempts[r]  BY <1>1, <2>1
  <2>3. QED  BY <2>2 DEF Attempts
<1>4. attempt' \in [Runs -> {0} \cup Attempts] /\ attempt'[r] = attempt[r] + 1
      /\ \A q \in Runs : q # r => attempt'[q] = attempt[q]
  BY <1>1, <1>3, Facts DEF TypeOK
<1>5. /\ job' \in [Runs -> [Jobs -> States]]
      /\ \A q \in Runs : q # r => job'[q] = job[q]
      /\ job'[r]["publish"] \in {"idle", job[r]["publish"]}
  <2>1. "idle" \in States /\ job[r] \in [Jobs -> States] /\ "publish" \in Jobs
    BY Facts, JobNames DEF States
  <2>2. job \in [Runs -> [Jobs -> States]]  BY Facts DEF TypeOK
  <2>3. [j \in Jobs |-> IF j \in js \/ Needs(j) \cap js # {} THEN "idle" ELSE job[r][j]]
          \in [Jobs -> States]
    BY <2>1
  <2>4. QED  BY <1>2, <2>1, <2>2, <2>3
<1>6. TypeOK'  BY <1>1, <1>4, <1>5, Facts DEF TypeOK, publish, release
<1>7. Advances  BY <1>1, <1>4, Facts DEF Advances
<1>8. ~Publishing(r)'  BY <1>1, <1>5, JobNames DEF Over, Publishing
<1>9. Begun'
  <2> SUFFICES ASSUME NEW q \in Runs, job'[q]["publish"] # "idle" PROVE attempt'[q] > 0
    BY DEF Begun
  <2>1. attempt[q] > 0 /\ attempt[q] \in Nat  BY <1>5, Facts DEF IInv, Begun
  <2>2. QED  BY <1>4, <2>1
<1>10. \A q \in Runs : Publishing(q)' => Publishing(q) /\ attempt'[q] = attempt[q]
  BY <1>4, <1>5, <1>8 DEF Publishing
<1>11. QED  BY <1>1, <1>6, <1>7, <1>9, <1>10, QuietStep DEF publish, release

LEMMA EnqueueInv == ASSUME IInv, NEW r \in Runs, Enqueue(r) PROVE IInv'
<1>1. /\ attempt[r] > 0 /\ job[r]["publish"] = "idle"
      /\ UNCHANGED <<attempt, ran, digests, store, publish, tag, moves, assets, release>>
  BY DEF Enqueue, Ready
<1>2. job' = [q \in Runs |->
            IF q = r THEN [job[r] EXCEPT !["publish"] = "queued"]
            ELSE IF job[q]["publish"] = "queued" THEN [job[q] EXCEPT !["publish"] = "cancelled"]
            ELSE job[q]]
  BY DEF Enqueue
<1>3. \A q \in Runs :
        /\ job'[q] \in [Jobs -> States]
        /\ job'[q]["publish"] \in {"queued", "cancelled", job[q]["publish"]}
        /\ job'[q]["publish"] # "idle" /\ q # r => job[q]["publish"] # "idle"
  <2> SUFFICES ASSUME NEW q \in Runs
               PROVE  /\ job'[q] \in [Jobs -> States]
                      /\ job'[q]["publish"] \in {"queued", "cancelled", job[q]["publish"]}
                      /\ job'[q]["publish"] # "idle" /\ q # r => job[q]["publish"] # "idle"
    OBVIOUS
  <2>1. /\ job[q] \in [Jobs -> States] /\ "publish" \in Jobs
        /\ "queued" \in States /\ "cancelled" \in States
    BY Facts, JobNames DEF States
  <2>2. QED  BY <1>2, <2>1
<1>4. job' \in [Runs -> [Jobs -> States]]  BY <1>2, <1>3
<1>5. TypeOK'  BY <1>1, <1>4, Facts DEF TypeOK, publish, release
<1>6. Advances  BY <1>1, Facts DEF Advances
<1>7. Begun'  BY <1>1, <1>3 DEF Begun, IInv
<1>8. \A q \in Runs : Publishing(q)' => Publishing(q)  BY <1>3 DEF Publishing
<1>9. QED  BY <1>1, <1>5, <1>6, <1>7, <1>8, QuietStep DEF publish, release

\* GitHub seals the release, the tag moves, artefacts expire, or nothing happens.
LEMMA OthersInv == ASSUME IInv, Seal \/ MoveTag \/ Expire \/ UNCHANGED vars PROVE IInv'
<1>1. UNCHANGED <<attempt, job, ran, digests, step, held, sboms, assets, owner>>
      /\ store' \subseteq store
  BY DEF Seal, MoveTag, Expire, vars, jobs, publish, release, Contract!Seal
<1>2. TypeOK'
  <2>1. TypeOK  BY DEF IInv
  <2>2. sealed' \in BOOLEAN /\ announced' = announced
    BY <2>1 DEF Seal, MoveTag, Expire, vars, release, Contract!Seal, TypeOK
  <2>3. tag' \in Commits \cup {"none"}
    BY <2>1 DEF Seal, MoveTag, Expire, vars, TypeOK
  <2>4. moves' \in 0 .. MaxMoves
    BY <2>1 DEF Seal, MoveTag, Expire, vars, TypeOK
  <2>5. QED  BY <1>1, <2>1, <2>2, <2>3, <2>4 DEF TypeOK
<1>3. Advances  BY <1>1, Facts DEF Advances
<1>4. Begun'  BY <1>1 DEF Begun, IInv
<1>5. \A q \in Runs : Publishing(q)' => Publishing(q)  BY <1>1 DEF Publishing
<1>6. QED  BY <1>1, <1>2, <1>3, <1>4, <1>5, QuietStep

-----------------------------------------------------------------------------
(* The publish job                                                           *)

LEMMA DequeueInv == ASSUME IInv, NEW r \in Runs, Dequeue(r) PROVE IInv'
<1>1. /\ job[r]["publish"] = "queued" /\ GroupIsFree
      /\ step' = [step EXCEPT ![r] = "gates"]
      /\ held' = [held EXCEPT ![r] = None] /\ sboms' = [sboms EXCEPT ![r] = None]
      /\ UNCHANGED <<digests, store, tag, moves, assets, release>>
      /\ "running" \in States /\ "publish" \in Jobs /\ Becomes(r, "publish", "running")
  BY JobNames DEF Dequeue, States
<1>2. /\ attempt' = attempt
      /\ job' \in [Runs -> [Jobs -> States]] /\ ran' \in [Runs -> [Jobs -> {0} \cup Attempts]]
      /\ \A q \in Runs : q # r => job'[q] = job[q] /\ ran'[q] = ran[q]
      /\ \A k \in Jobs : ran'[r][k] = IF k = "publish" THEN attempt[r] ELSE ran[r][k]
  BY <1>1, Facts, BecomesResult
<1>3. TypeOK'  BY <1>1, <1>2, Facts DEF TypeOK, release
<1>4. \A q \in Runs : q # r => ~Publishing(q)'  BY <1>1, <1>2 DEF GroupIsFree, Publishing
<1>5. step'[r] = "gates"  BY <1>1, Facts DEF TypeOK
<1>6. \A q \in Runs : Holds(q)'  BY <1>4, <1>5 DEF Holds
<1>7. OneAtATime'  BY <1>4 DEF OneAtATime
<1>8. Advances  BY <1>2, Facts DEF Advances
<1>9. \A x \in store' : Traced(x)'  BY <1>1, <1>8, TracedKept
<1>10. Begun'  BY <1>1, <1>2 DEF Begun, IInv
<1>11. PublishedIsDescribed'  BY <1>1, Facts DEF PublishedIsDescribed, release
<1>12. QED  BY <1>3, <1>6, <1>7, <1>9, <1>10, <1>11 DEF IInv

LEMMA GatesInv == ASSUME IInv, NEW r \in Runs, Gates(r) PROVE IInv'
<1>1. /\ Publishing(r) /\ step' = [step EXCEPT ![r] = "receive"]
      /\ UNCHANGED <<attempt, job, ran, digests, store, held, sboms, tag, moves, assets, release>>
  BY DEF Gates, At, GoTo, jobs, Publishing
<1>2. TypeOK' /\ step'[r] = "receive"  BY <1>1, Facts DEF TypeOK, release
<1>3. Holds(r)'  BY <1>2 DEF Holds
<1>4. PublishedIsDescribed'  BY <1>1, Facts DEF PublishedIsDescribed, release
<1>5. QED  BY <1>1, <1>2, <1>3, <1>4, PublishStep

LEMMA ReceiveInv == ASSUME IInv, NEW r \in Runs, Receive(r) PROVE IInv'
<1>1. /\ Publishing(r) /\ step' = [step EXCEPT ![r] = "accept"]
      /\ UNCHANGED <<attempt, job, ran, digests, store, sboms, tag, moves, assets, release>>
  BY DEF Receive, At, GoTo, jobs, Publishing
<1>2. PICK got \in Sets : Received(r, got) /\ held' = [held EXCEPT ![r] = got]
  BY DEF Receive
<1>3. /\ held' \in [Runs -> Sets \cup {None}] /\ held'[r] = got /\ step'[r] = "accept"
      /\ step' \in [Runs -> {"gates", "receive", "accept", "recheck", "publish", "verify"}]
  BY <1>1, <1>2, Facts DEF TypeOK
<1>4. TypeOK'  BY <1>1, <1>3, Facts DEF TypeOK, release
<1>5. Admitted(r)'
  <2>1. \A t \in Targets :
            /\ got[t].sound /\ ~got[t].altered
            /\ got[t].run = r /\ got[t].attempt = attempt[r] /\ ran[r][t] = attempt[r]
    BY <1>2, ReceivedIsOwn
  <2>2. QED  BY <1>1, <1>3, <2>1 DEF Admitted, Sets, Archives, Attempts
<1>6. Holds(r)'  BY <1>3, <1>5 DEF Holds
<1>7. PublishedIsDescribed'  BY <1>1, Facts DEF PublishedIsDescribed, release
<1>8. QED  BY <1>1, <1>4, <1>6, <1>7, PublishStep

\* What the admit job hands over is described by its SBOMs, if it is unaltered.
LEMMA AcceptInv == ASSUME IInv, NEW r \in Runs, Accept(r) PROVE IInv'
<1>1. /\ Publishing(r) /\ step[r] = "accept" /\ step' = [step EXCEPT ![r] = "recheck"]
      /\ UNCHANGED <<attempt, job, ran, digests, store, held, tag, moves, assets, release>>
  BY DEF Accept, At, GoTo, jobs, Publishing
<1>2. PICK x \in store : /\ x.name = <<r, attempt[r], "admitted">> /\ x.files = held[r]
                         /\ sboms' = [sboms EXCEPT ![r] = x.about]
  BY DEF Accept, Stored, Name
<1>3. Admitted(r)  BY <1>1, Facts DEF Holds
<1>4. /\ x.files \in Sets /\ x.about \in Sets
      /\ \A t \in Targets : x.files[t] = x.about[t] \/ x.files[t].altered
      /\ ran[r]["admit"] = attempt[r]
  <2>1. Traced(x)  BY DEF IInv
  <2>2. x.name[1] = r /\ x.name[2] = attempt[r] /\ x.name[3] = "admitted"  BY <1>2
  <2>3. QED  BY <2>1, <2>2 DEF Traced
<1>5. x.about = held[r]
  <2>1. \A t \in Targets : x.about[t] = held[r][t]  BY <1>2, <1>3, <1>4 DEF Admitted
  <2>2. QED  BY <1>2, <1>4, <2>1 DEF Sets
<1>6. /\ sboms' \in [Runs -> Sets \cup {None}] /\ sboms'[r] = held[r] /\ step'[r] = "recheck"
      /\ step' \in [Runs -> {"gates", "receive", "accept", "recheck", "publish", "verify"}]
  BY <1>1, <1>2, <1>4, <1>5, Facts DEF TypeOK
<1>7. TypeOK'  BY <1>1, <1>6, Facts DEF TypeOK, release
<1>8. Admitted(r)'  BY <1>1, <1>3 DEF Admitted
<1>9. Holds(r)'  BY <1>1, <1>4, <1>6, <1>8 DEF Holds
<1>10. PublishedIsDescribed'  BY <1>1, Facts DEF PublishedIsDescribed, release
<1>11. QED  BY <1>1, <1>7, <1>9, <1>10, PublishStep

LEMMA RecheckInv == ASSUME IInv, NEW r \in Runs, Recheck(r) PROVE IInv'
<1>1. /\ Publishing(r) /\ step[r] = "recheck" /\ step' = [step EXCEPT ![r] = "publish"]
      /\ owner = Nobody
      /\ UNCHANGED <<attempt, job, ran, digests, store, held, sboms, tag, moves, assets, release>>
  BY DEF Recheck, At, GoTo, jobs, Publishing, TagIsFree
<1>2. TypeOK' /\ step'[r] = "publish"  BY <1>1, Facts DEF TypeOK, release
<1>3. Admitted(r) /\ sboms[r] = held[r] /\ ran[r]["admit"] = attempt[r]
  BY <1>1, Facts DEF Holds
<1>4. Holds(r)'  BY <1>1, <1>3 DEF Holds, Admitted, release
<1>5. PublishedIsDescribed'  BY <1>1, Facts DEF PublishedIsDescribed, release
<1>6. QED  BY <1>1, <1>2, <1>4, <1>5, PublishStep

LEMMA MakePublicInv == ASSUME IInv, NEW r \in Runs, MakePublic(r) PROVE IInv'
<1>1. /\ Publishing(r) /\ step[r] = "publish" /\ step' = [step EXCEPT ![r] = "verify"]
      /\ owner' = r /\ UNCHANGED <<sealed, announced>>
      /\ assets' = [files |-> held[r], about |-> sboms[r]]
      /\ UNCHANGED <<attempt, job, ran, digests, store, held, sboms, tag, moves>>
  BY DEF MakePublic, At, GoTo, jobs, Publishing, Contract!MakePublic
<1>2. Admitted(r) /\ sboms[r] = held[r] /\ ran[r]["admit"] = attempt[r]
  BY <1>1, Facts DEF Holds
<1>3. TypeOK' /\ step'[r] = "verify"
  <2>1. /\ step'[r] = "verify"
        /\ step' \in [Runs -> {"gates", "receive", "accept", "recheck", "publish", "verify"}]
    BY <1>1, Facts DEF TypeOK
  <2>2. assets' \in [files : Sets \cup {None}, about : Sets \cup {None}]
    BY <1>1, <1>2 DEF Admitted
  <2>3. QED  BY <1>1, <2>1, <2>2, Facts DEF TypeOK
<1>4. Holds(r)'  BY <1>1, <1>2, <1>3 DEF Holds, Admitted
<1>5. PublishedIsDescribed'  BY <1>1, <1>2 DEF PublishedIsDescribed, Admitted
<1>6. QED  BY <1>1, <1>3, <1>4, <1>5, PublishStep

LEMMA VerifyInv == ASSUME IInv, NEW r \in Runs, Verify(r) PROVE IInv'
<1>1. /\ At(r, "verify") /\ owner = r /\ announced' = {owner} /\ UNCHANGED <<owner, sealed>>
      /\ "success" \in States /\ "publish" \in Jobs /\ Becomes(r, "publish", "success")
      /\ UNCHANGED <<digests, store, publish, tag, moves, assets>>
  BY JobNames DEF Verify, Contract!Announce, States
<1>2. /\ attempt' = attempt
      /\ job' \in [Runs -> [Jobs -> States]] /\ ran' \in [Runs -> [Jobs -> {0} \cup Attempts]]
      /\ \A q \in Runs : q # r => job'[q] = job[q] /\ ran'[q] = ran[q]
      /\ \A k \in Jobs : job'[r][k] = IF k = "publish" THEN "success" ELSE job[r][k]
      /\ \A k \in Jobs : ran'[r][k] = IF k = "publish" THEN attempt[r] ELSE ran[r][k]
  BY <1>1, Facts, BecomesResult
<1>3. TypeOK'  BY <1>1, <1>2, Facts DEF TypeOK, publish
<1>4. Advances  BY <1>2, Facts DEF Advances
<1>5. \A q \in Runs : Publishing(q)' => Publishing(q)  BY <1>1, <1>2 DEF Publishing
<1>6. Begun'
  <2>1. attempt[r] > 0  BY <1>1 DEF At, Begun, IInv
  <2>2. QED  BY <1>2, <2>1 DEF Begun, IInv
<1>7. \A x \in store' : x \in store  BY <1>1
<1>8. QED  BY <1>1, <1>2, <1>3, <1>4, <1>5, <1>6, <1>7, QuietStep DEF publish

-----------------------------------------------------------------------------
(* The invariant                                                             *)

LEMMA InitInv == Init => IInv
<1> SUFFICES ASSUME Init PROVE IInv  OBVIOUS
<1>1. TypeOK
  <2>1. /\ attempt \in [Runs -> {0} \cup Attempts] /\ job \in [Runs -> [Jobs -> States]]
        /\ ran \in [Runs -> [Jobs -> {0} \cup Attempts]]
    BY DEF Init, States
  <2>2. /\ digests \in [Runs -> Sets \cup {None}] /\ store \subseteq Artefacts
        /\ held \in [Runs -> Sets \cup {None}] /\ sboms \in [Runs -> Sets \cup {None}]
    BY DEF Init
  <2>3. /\ step \in [Runs -> {"gates", "receive", "accept", "recheck", "publish", "verify"}]
        /\ tag \in Commits \cup {"none"} /\ moves \in 0 .. MaxMoves
    BY DEF Init
  <2>4. assets \in [files : Sets \cup {None}, about : Sets \cup {None}]  BY DEF Init
  <2>5. owner = Nobody /\ sealed \in BOOLEAN /\ announced \subseteq Runs
    BY DEF Init, Contract!Init
  <2>6. QED  BY <2>1, <2>2, <2>3, <2>4, <2>5 DEF TypeOK
<1>2. \A r \in Runs : job[r]["publish"] = "idle"  BY JobNames DEF Init
<1>3. Begun /\ OneAtATime /\ (\A r \in Runs : Holds(r))
  BY <1>2 DEF Begun, OneAtATime, Holds, Publishing
<1>4. PublishedIsDescribed /\ store = {}
  BY DEF PublishedIsDescribed, Init, Contract!Init
<1>5. QED  BY <1>1, <1>3, <1>4 DEF IInv

LEMMA StepInv == IInv /\ [Next]_vars => IInv'
<1> SUFFICES ASSUME IInv, [Next]_vars PROVE IInv'  OBVIOUS
<1>1. ASSUME NEW r \in Runs, JobStep(r) PROVE IInv'
  <2>1. CASE \E j \in Jobs : JobFails(r, j)  BY <2>1, FailsInv
  <2>2. CASE Check(r)  BY <2>2, CheckInv
  <2>3. CASE \E t \in Targets : Build(r, t)  BY <2>3, BuildInv
  <2>4. CASE Admit(r)  BY <2>4, AdmitInv
  <2>5. CASE Enqueue(r)  BY <2>5, EnqueueInv
  <2>6. CASE Dequeue(r)  BY <2>6, DequeueInv
  <2>7. CASE Gates(r)  BY <2>7, GatesInv
  <2>8. CASE Receive(r)  BY <2>8, ReceiveInv
  <2>9. CASE Accept(r)  BY <2>9, AcceptInv
  <2>10. CASE Recheck(r)  BY <2>10, RecheckInv
  <2>11. CASE MakePublic(r)  BY <2>11, MakePublicInv
  <2>12. CASE Verify(r)  BY <2>12, VerifyInv
  <2>13. QED
    BY <1>1, <2>1, <2>2, <2>3, <2>4, <2>5, <2>6, <2>7, <2>8, <2>9, <2>10, <2>11, <2>12
       DEF JobStep
<1>2. ASSUME NEW r \in Runs, Start(r) PROVE IInv'  BY <1>2, StartInv
<1>3. ASSUME NEW r \in Runs, Rerun(r) PROVE IInv'  BY <1>3, RerunInv
<1>4. CASE Seal \/ MoveTag \/ Expire \/ UNCHANGED vars  BY <1>4, OthersInv
<1>5. QED  BY <1>1, <1>2, <1>3, <1>4 DEF Next

\* Every reachable state of the workflow satisfies the invariant
\* (release-binary.yml; binary_release.py).
THEOREM Invariance == Spec => []IInv
BY InitInv, StepInv, PTL DEF Spec

-----------------------------------------------------------------------------
(* The theorems                                                              *)

\* For any number of targets and re-runs: whatever is public was admitted by its
\* publisher, unchanged since it was built, and is what its SBOM describes
\* (release-binary.yml 604-653; binary_release.py 486-544).
THEOREM PublicIsDescribed == Spec => []PublishedIsDescribed
<1>1. IInv => PublishedIsDescribed  BY DEF IInv
<1>2. QED  BY <1>1, Invariance, PTL

\* However many runs of the tag wait for each other: between a run's re-check
\* and its publication no other publishes (release-binary.yml 482-484, 780-798).
THEOREM RecheckHolds == Spec => []RecheckStaysTrue
<1>1. IInv => RecheckStaysTrue  BY DEF IInv, RecheckStaysTrue, Holds, At, Publishing
<1>2. QED  BY <1>1, Invariance, PTL

\* However runs are re-run in part: the archives that become public were built
\* and admitted in the attempt that publishes them (release-binary.yml 231-243,
\* 356-368, 592-631).
THEOREM OneAttemptOnly == Spec => PublishedInOneAttempt
<1>1. ASSUME IInv, [Next]_vars, owner' # owner
      PROVE  /\ ran[owner']["admit"] = attempt[owner']
             /\ \A t \in Targets :
                 /\ ran[owner'][t] = attempt[owner']
                 /\ assets'.files[t].run = owner' /\ assets'.files[t].attempt = attempt[owner']
  <2>1. PICK r \in Runs : MakePublic(r)
    BY <1>1 DEF Next, JobStep, Start, Rerun, JobFails, Check, Build, Admit, Enqueue, Dequeue,
                Gates, Receive, Accept, Recheck, Verify, Seal, MoveTag, Expire, vars, release,
                Contract!Seal, Contract!Announce
  <2>2. /\ Publishing(r) /\ step[r] = "publish" /\ owner' = r
        /\ assets' = [files |-> held[r], about |-> sboms[r]]
    BY <2>1 DEF MakePublic, At, Publishing, Contract!MakePublic
  <2>3. Admitted(r) /\ ran[r]["admit"] = attempt[r]  BY <1>1, <2>2, Facts DEF Holds
  <2>4. QED  BY <2>2, <2>3 DEF Admitted
<1>2. IInv /\ [Next]_vars =>
        [owner' # owner =>
          /\ ran[owner']["admit"] = attempt[owner']
          /\ \A t \in Targets :
              /\ ran[owner'][t] = attempt[owner']
              /\ assets'.files[t].run = owner' /\ assets'.files[t].attempt = attempt[owner']]_vars
  BY <1>1
<1>3. QED  BY <1>2, Invariance, PTL DEF Spec, PublishedInOneAttempt

=============================================================================
