---------------------------- MODULE WorkflowProofs ---------------------------
(***************************************************************************)
(* The workflows on GitHub: the attribution status of a pull request's      *)
(* commit, for any pull requests, commits, texts and events; the issue that *)
(* asks for the action to be re-pinned, for any runs, commits, people and   *)
(* failures; the capture of a pull request, for any trees, page sizes and   *)
(* pushes; and the receipts of its paid reviews, for any reservations,      *)
(* bills and failures.                                                      *)
(***************************************************************************)
EXTENDS Tools, FiniteSetTheorems, FunctionTheorems, SequenceTheorems,
        WellFoundedInduction, TLAPS

-----------------------------------------------------------------------------
(* The attribution status.                                                   *)

\* What the files of a run are worth: the snapshot is of a head the pull request
\* had, the result is of the snapshot, and a verdict of success is of what was
\* read before and after the scan.
AttributionFilesInv(n) ==
    /\ n \in held[pr[n].head]
    /\ statusAt[n] = "prepare" => snap[n] = Attribution!NoFile
    /\ statusAt[n] \in {"pend", "scan", "finish", "close"} => snap[n] # Attribution!NoFile
    /\ snap[n] # Attribution!NoFile => n \in held[snap[n].head]
    /\ statusAt[n] \in {"prepare", "pend", "scan"} => proof[n] = Attribution!NoFile
    /\ proof[n] # Attribution!NoFile => proof[n].clean = Attribution!IsClean(snap[n])
    /\ statusAt[n] = "close" /\ verdict[n] => read[n] = snap[n] /\ Attribution!IsClean(snap[n])

\* No event since the run started: it judges the pull request as it is, or could
\* not read it.
AttributionFreshInv(n) ==
    ~waiting[n] =>
        /\ snap[n] # Attribution!NoFile => snap[n].head = pr[n].head /\ snap[n].text = pr[n].text
        /\ statusAt[n] = "idle" /\ snap[n] = Attribution!NoFile => pr[n].head \in missed

\* The run that is over had the last word on its commit, if that is its own.
AttributionJudgedInv(n) ==
    statusAt[n] = "idle" /\ snap[n] # Attribution!NoFile =>
        (status[snap[n].head] = "success" /\ Attribution!Owned(n, snap[n].head) =>
            read[n] = snap[n] /\ Attribution!IsClean(snap[n]))

\* Whoever posted pending has still to close it.
AttributionOpenInv(h) ==
    status[h] = "pending" /\ h \notin missed =>
        \E n \in held[h] : statusAt[n] \in {"scan", "finish", "close"} /\ snap[n].head = h

\* A commit is judged by the runs of the pull requests that had it, and by them
\* alone: what the last of them read is what its status says.
AttributionIInv ==
    /\ Attribution!TypeOK
    /\ \A n \in PullRequests : AttributionFilesInv(n) /\ AttributionFreshInv(n) /\ AttributionJudgedInv(n)
    /\ \A h \in PullRequestHeads : AttributionOpenInv(h)

\* Every step keeps every variable in its type.
LEMMA AttributionTypeStep == Attribution!TypeOK
    /\ (\A n \in PullRequests : AttributionFilesInv(n)) /\ [Attribution!Next]_Attribution!vars
           => Attribution!TypeOK'
<1> SUFFICES ASSUME Attribution!TypeOK, \A n \in PullRequests : AttributionFilesInv(n),
                 [Attribution!Next]_Attribution!vars PROVE Attribution!TypeOK'
  OBVIOUS
<1> USE DEF Attribution!TypeOK, Attribution!github, Attribution!runner
<1>1. ASSUME NEW n \in PullRequests, Attribution!RunStep(n)
      PROVE  Attribution!TypeOK'
  <2> USE DEF Attribution!Go, Attribution!Fault
  <2>1. pr[n] \in Attribution!PullRequest /\ pr[n].head \in PullRequestHeads
    BY DEF Attribution!PullRequest
  <2>2. CASE Attribution!Start(n) \/ Attribution!PrepareRead(n) \/ Attribution!PendingFails(n)
                 \/ Attribution!ScanFails(n) \/ Attribution!FinishReadFails(n)
    BY <2>1, <2>2, ZenonT(60)
       DEF Attribution!Start, Attribution!PrepareRead, Attribution!PendingFails,
           Attribution!ScanFails, Attribution!FinishReadFails, Attribution!Snapshot
  <2>3. CASE Attribution!PrepareFails(n)
    BY <2>1, <2>3 DEF Attribution!PrepareFails
  <2>4. ASSUME statusAt[n] \in {"pend", "scan", "finish", "close"}
        PROVE  snap[n] \in Attribution!PullRequest /\ snap[n].head \in PullRequestHeads
    BY <2>4 DEF AttributionFilesInv, Attribution!PullRequest
  <2>5. CASE Attribution!PostPending(n) \/ Attribution!Close(n) \/ Attribution!CloseFails(n)
    BY <2>4, <2>5 DEF Attribution!PostPending, Attribution!Close, Attribution!CloseFails
  <2>6. CASE Attribution!Scan(n)
    <3>1. [clean |-> Attribution!IsClean(snap[n]),
                                              fingerprint |-> Attribution!Fingerprint(snap[n])]
                                                  \in Attribution!Result
      BY <2>4, <2>6
         DEF Attribution!Scan, Attribution!Result, Attribution!IsClean, Attribution!Fingerprint
    <3> QED
      BY <2>6, <3>1 DEF Attribution!Scan
  <2>7. CASE Attribution!FinishRead(n)
    <3>1. Attribution!ClosesClean(n) \in BOOLEAN
      BY DEF Attribution!ClosesClean
    <3> QED
      BY <2>1, <2>7, <3>1 DEF Attribution!FinishRead
  <2> QED
    BY <1>1, <2>2, <2>3, <2>5, <2>6, <2>7 DEF Attribution!RunStep
<1>2. ASSUME NEW n \in PullRequests, NEW h \in PullRequestHeads, Attribution!Push(n, h)
      PROVE  Attribution!TypeOK'
  <2>1. [pr[n] EXCEPT !.head = h] \in Attribution!PullRequest
    BY DEF Attribution!PullRequest
  <2>2. pr' \in [PullRequests -> Attribution!PullRequest]
            /\ held' \in [PullRequestHeads -> SUBSET PullRequests]
    BY <1>2, <2>1 DEF Attribution!Push
  <2> QED
    BY <1>2, <2>2 DEF Attribution!Push, Attribution!Event
<1>3. ASSUME NEW n \in PullRequests, NEW text \in PullRequestTexts, Attribution!Edit(n, text)
      PROVE  Attribution!TypeOK'
  <2>1. [pr[n] EXCEPT !.text = text] \in Attribution!PullRequest
    BY SMTT(30) DEF Attribution!PullRequest
  <2>2. pr' \in [PullRequests -> Attribution!PullRequest]
    BY <1>3, <2>1 DEF Attribution!Edit
  <2> QED
    BY <1>3, <2>2 DEF Attribution!Edit, Attribution!Event
<1>4. ASSUME NEW n \in PullRequests, Attribution!Reopen(n)
      PROVE  Attribution!TypeOK'
  BY <1>4 DEF Attribution!Reopen, Attribution!Event
<1>5. CASE Attribution!BaseMoves
  <2>1. \A n \in PullRequests : [pr[n] EXCEPT !.base = baseMoves + 1] \in Attribution!PullRequest
    BY SMTT(30) DEF Attribution!PullRequest
  <2> QED
    BY <1>5, <2>1 DEF Attribution!BaseMoves
<1>6. CASE UNCHANGED Attribution!vars
  BY <1>6 DEF Attribution!vars
<1> QED
  BY <1>1, <1>2, <1>3, <1>4, <1>5, <1>6 DEF Attribution!Next

\* What people may do to a pull request: to its head or text only with an event
\* that waits for a run, and to no file of a run.
PeoplesStep ==
    /\ UNCHANGED <<status, Attribution!runner, missed>>
    /\ \A n \in PullRequests :
         \/ waiting'[n]
         \/ pr'[n].head = pr[n].head /\ pr'[n].text = pr[n].text /\ waiting'[n] = waiting[n]
    /\ \A n \in PullRequests : n \in held[pr[n].head] => n \in held'[pr'[n].head]
    /\ \A h \in PullRequestHeads : held[h] \subseteq held'[h]

LEMMA PeopleStep ==
    ASSUME Attribution!TypeOK, [Attribution!Next]_Attribution!vars,
               \A n \in PullRequests : ~Attribution!RunStep(n)
    PROVE  PeoplesStep
<1> USE DEF Attribution!TypeOK, Attribution!github, Attribution!runner, Attribution!PullRequest,
        PeoplesStep
<1>1. ASSUME NEW m \in PullRequests, NEW h \in PullRequestHeads, Attribution!Push(m, h)
      PROVE  PeoplesStep
  <2>1. pr' = [pr EXCEPT ![m] = [pr[m] EXCEPT !.head = h]]
    BY <1>1 DEF Attribution!Push
  <2>2. [pr[m] EXCEPT !.head = h].head = h
    OBVIOUS
  <2>3. waiting' = [waiting EXCEPT ![m] = TRUE] /\ held' = [held EXCEPT ![h] = @ \cup {m}]
        /\ UNCHANGED <<status, Attribution!runner, missed>>
    BY <1>1 DEF Attribution!Push, Attribution!Event
  <2>4. \A n \in PullRequests \ {m} : pr'[n] = pr[n]
    BY <2>1
  <2>5. pr'[m].head = h
    BY <2>1, <2>2
  <2>6. \A n \in PullRequests : n \in held[pr[n].head] => n \in held'[pr'[n].head]
    BY <2>3, <2>4, <2>5
  <2> QED
    BY <2>3, <2>4, <2>6
<1>2. ASSUME NEW m \in PullRequests, NEW text \in PullRequestTexts, Attribution!Edit(m, text)
      PROVE  PeoplesStep
  <2>1. [pr[m] EXCEPT !.text = text].head = pr[m].head
    OBVIOUS
  <2>2. \A n \in PullRequests : pr'[n].head = pr[n].head /\ (n # m => pr'[n] = pr[n])
    BY <1>2, <2>1 DEF Attribution!Edit
  <2> QED
    BY <1>2, <2>2 DEF Attribution!Edit, Attribution!Event
<1>3. ASSUME NEW m \in PullRequests, Attribution!Reopen(m)
      PROVE  PeoplesStep
  BY <1>3 DEF Attribution!Reopen, Attribution!Event
<1>4. CASE Attribution!BaseMoves
  <2>1. \A n \in PullRequests : /\ [pr[n] EXCEPT !.base = baseMoves + 1].head = pr[n].head
                                /\ [pr[n] EXCEPT !.base = baseMoves + 1].text = pr[n].text
    OBVIOUS
  <2> QED
    BY <1>4, <2>1 DEF Attribution!BaseMoves
<1>5. CASE UNCHANGED Attribution!vars
  BY <1>5 DEF Attribution!vars
<1> QED
  BY <1>1, <1>2, <1>3, <1>4, <1>5 DEF Attribution!Next

\* People keep the invariant.
LEMMA AttributionPeopleKeep ==
    ASSUME AttributionIInv, Attribution!TypeOK', PeoplesStep
    PROVE  AttributionIInv'
<1> USE DEF Attribution!runner
<1>1. ASSUME NEW n \in PullRequests
      PROVE  AttributionFilesInv(n)'
  BY DEF PeoplesStep, AttributionIInv, AttributionFilesInv, Attribution!IsClean,
         Attribution!TypeOK, Attribution!PullRequest
<1>2. ASSUME NEW n \in PullRequests
      PROVE  AttributionFreshInv(n)'
  BY DEF PeoplesStep, AttributionIInv, AttributionFreshInv, Attribution!TypeOK,
         Attribution!PullRequest
<1>3. ASSUME NEW n \in PullRequests
      PROVE  AttributionJudgedInv(n)'
  <2>1. snap[n] # Attribution!NoFile => n \in held[snap[n].head] /\ snap[n].head \in PullRequestHeads
    BY DEF AttributionIInv, AttributionFilesInv, Attribution!TypeOK, Attribution!PullRequest
  <2> QED
    BY <2>1
       DEF PeoplesStep, AttributionIInv, AttributionJudgedInv, Attribution!Owned,
           Attribution!IsClean
<1>4. ASSUME NEW h \in PullRequestHeads
      PROVE  AttributionOpenInv(h)'
  BY DEF PeoplesStep, AttributionIInv, AttributionOpenInv, Attribution!TypeOK
<1> QED
  BY <1>1, <1>2, <1>3, <1>4 DEF AttributionIInv

\* What a step of one run leaves alone: every other run, its files and its
\* event, and the status of every other commit than the one it snapshotted.
LEMMA RunStepFrame ==
    ASSUME AttributionIInv, NEW n \in PullRequests, Attribution!RunStep(n)
    PROVE  /\ pr' = pr /\ held' = held
           /\ \A m \in PullRequests \ {n} :
                /\ statusAt'[m] = statusAt[m] /\ snap'[m] = snap[m] /\ proof'[m] = proof[m]
                /\ verdict'[m] = verdict[m] /\ read'[m] = read[m] /\ waiting'[m] = waiting[m]
           /\ missed \subseteq missed'
           /\ \A h \in PullRequestHeads :
                status'[h] # status[h] => snap[n] # Attribution!NoFile /\ h = snap[n].head
BY DEF AttributionIInv, Attribution!TypeOK, AttributionFilesInv, Attribution!RunStep,
       Attribution!Start, Attribution!PrepareRead, Attribution!PrepareFails,
       Attribution!PostPending,
       Attribution!PendingFails, Attribution!Scan, Attribution!ScanFails, Attribution!FinishRead,
       Attribution!FinishReadFails, Attribution!Close, Attribution!CloseFails, Attribution!Go,
       Attribution!Fault,
       Attribution!github, Attribution!runner

\* A step of one run keeps what the others know.
LEMMA OthersKeep ==
    ASSUME AttributionIInv, Attribution!TypeOK', NEW n \in PullRequests, Attribution!RunStep(n),
               NEW m \in PullRequests \ {n}
    PROVE  AttributionFilesInv(m)' /\ AttributionFreshInv(m)' /\ AttributionJudgedInv(m)'
<1>1. AttributionFilesInv(m)'
  BY RunStepFrame DEF AttributionIInv, AttributionFilesInv, Attribution!IsClean
<1>2. AttributionFreshInv(m)'
  BY RunStepFrame DEF AttributionIInv, AttributionFreshInv
<1>3. AttributionJudgedInv(m)'
  <2>1. snap[n] # Attribution!NoFile => n \in held[snap[n].head]
    BY DEF AttributionIInv, AttributionFilesInv
  <2>2. snap[m] # Attribution!NoFile => snap[m].head \in PullRequestHeads
    BY DEF AttributionIInv, Attribution!TypeOK, Attribution!PullRequest
  <2> QED
    BY <2>1, <2>2, RunStepFrame
       DEF AttributionIInv, AttributionJudgedInv, Attribution!Owned, Attribution!IsClean
<1> QED
  BY <1>1, <1>2, <1>3

\* A step of a run keeps what it knows itself.
LEMMA OwnFiles ==
    ASSUME AttributionIInv, Attribution!TypeOK', NEW n \in PullRequests, Attribution!RunStep(n)
    PROVE  AttributionFilesInv(n)'
<1>1. pr' = pr /\ held' = held /\ AttributionFilesInv(n)
  BY RunStepFrame DEF AttributionIInv
<1>2. pr[n] # Attribution!NoFile
  <2>1. Attribution!NoFile \notin Attribution!PullRequest
    BY DEF Attribution!NoFile, Attribution!PullRequest
  <2> QED
    BY <2>1 DEF AttributionIInv, Attribution!TypeOK
<1>3. CASE Attribution!Scan(n)
  <2>1. proof'[n].clean = Attribution!IsClean(snap[n])
    BY <1>3 DEF Attribution!Scan, AttributionIInv, Attribution!TypeOK
  <2> QED
    BY <1>1, <1>3, <2>1
       DEF AttributionIInv, Attribution!TypeOK, AttributionFilesInv, Attribution!Scan,
           Attribution!Go, Attribution!github, Attribution!IsClean
<1>4. CASE Attribution!FinishRead(n)
  <2>1. verdict'[n] => Attribution!ClosesClean(n)
    BY <1>4 DEF Attribution!FinishRead, AttributionIInv, Attribution!TypeOK
  <2> QED
    BY <1>1, <1>4, <2>1
       DEF AttributionIInv, Attribution!TypeOK, AttributionFilesInv, Attribution!FinishRead,
           Attribution!Go, Attribution!github, Attribution!ClosesClean, Attribution!Snapshot,
           Attribution!IsClean
<1>5. CASE ~Attribution!Scan(n) /\ ~Attribution!FinishRead(n)
  BY <1>1, <1>2, <1>5
     DEF AttributionIInv, Attribution!TypeOK, AttributionFilesInv, Attribution!RunStep,
         Attribution!Start, Attribution!PrepareRead, Attribution!PrepareFails,
         Attribution!PostPending,
         Attribution!PendingFails, Attribution!ScanFails, Attribution!FinishReadFails,
         Attribution!Close, Attribution!CloseFails, Attribution!Go, Attribution!Fault,
         Attribution!github, Attribution!Snapshot, Attribution!IsClean
<1> QED
  BY <1>3, <1>4, <1>5

LEMMA OwnFresh ==
    ASSUME AttributionIInv, Attribution!TypeOK', NEW n \in PullRequests, Attribution!RunStep(n)
    PROVE  AttributionFreshInv(n)'
<1>1. pr' = pr /\ AttributionFreshInv(n) /\ AttributionFilesInv(n)
  BY RunStepFrame DEF AttributionIInv
<1> QED
  BY <1>1
     DEF AttributionIInv, Attribution!TypeOK, AttributionFilesInv, AttributionFreshInv,
         Attribution!RunStep, Attribution!Start, Attribution!PrepareRead, Attribution!PrepareFails,
         Attribution!PostPending,
       Attribution!PendingFails, Attribution!Scan, Attribution!ScanFails, Attribution!FinishRead,
       Attribution!FinishReadFails, Attribution!Close, Attribution!CloseFails, Attribution!Go,
       Attribution!Fault,
       Attribution!github, Attribution!runner, Attribution!Snapshot

LEMMA OwnJudged ==
    ASSUME AttributionIInv, Attribution!TypeOK', NEW n \in PullRequests, Attribution!RunStep(n)
    PROVE  AttributionJudgedInv(n)'
<1>1. AttributionFilesInv(n) /\ AttributionFilesInv(n)'
  BY OwnFiles DEF AttributionIInv
<1>2. CASE Attribution!Close(n)
  BY <1>1, <1>2
     DEF Attribution!Close, AttributionJudgedInv, AttributionIInv, Attribution!TypeOK,
         AttributionFilesInv, Attribution!Go, Attribution!IsClean, Attribution!PullRequest
<1>3. CASE Attribution!CloseFails(n)
  BY <1>1, <1>3
     DEF Attribution!CloseFails, AttributionJudgedInv, AttributionIInv, Attribution!TypeOK,
         AttributionFilesInv, Attribution!Go, Attribution!Owned
<1>4. CASE ~Attribution!Close(n) /\ ~Attribution!CloseFails(n)
  BY <1>1, <1>4
     DEF AttributionIInv, Attribution!TypeOK, AttributionFilesInv, AttributionJudgedInv,
         Attribution!RunStep, Attribution!Start, Attribution!PrepareRead, Attribution!PrepareFails,
         Attribution!PostPending,
       Attribution!PendingFails, Attribution!Scan, Attribution!ScanFails, Attribution!FinishRead,
       Attribution!FinishReadFails, Attribution!Go
<1> QED
  BY <1>2, <1>3, <1>4

LEMMA OpenStep ==
    ASSUME AttributionIInv, Attribution!TypeOK', NEW n \in PullRequests, Attribution!RunStep(n),
               NEW h \in PullRequestHeads
    PROVE  AttributionOpenInv(h)'
<1>1. AttributionFilesInv(n) /\ AttributionOpenInv(h) /\ (snap[n] # Attribution!NoFile
          => snap[n].head \in PullRequestHeads)
  BY DEF AttributionIInv, Attribution!TypeOK, Attribution!PullRequest
<1>2. ASSUME status'[h] = "pending", h \notin missed'
      PROVE  \E m \in held'[h] : statusAt'[m] \in {"scan", "finish", "close"} /\ snap'[m].head = h
  <2>1. CASE Attribution!PostPending(n) /\ h = snap[n].head
    <3>1. n \in held'[h] /\ statusAt'[n] = "scan" /\ snap'[n].head = h
      BY <1>1, <2>1
         DEF Attribution!PostPending, AttributionFilesInv, Attribution!Go, AttributionIInv,
             Attribution!TypeOK
    <3> QED
      BY <3>1
  <2>2. CASE ~(Attribution!PostPending(n) /\ h = snap[n].head)
    <3>1. status[h] = "pending" /\ h \notin missed
      BY <1>1, <1>2, <2>2
         DEF AttributionIInv, Attribution!TypeOK, Attribution!RunStep, Attribution!Start,
             Attribution!PrepareRead, Attribution!PrepareFails, Attribution!PostPending,
             Attribution!PendingFails, Attribution!Scan, Attribution!ScanFails,
             Attribution!FinishRead, Attribution!FinishReadFails, Attribution!Close,
             Attribution!CloseFails,
             Attribution!Go, Attribution!Fault, Attribution!github, Attribution!runner
    <3>2. PICK m \in held[h] : statusAt[m] \in {"scan", "finish", "close"} /\ snap[m].head = h
      BY <1>1, <3>1 DEF AttributionOpenInv
    <3>3. m \in PullRequests
      BY DEF AttributionIInv, Attribution!TypeOK
    <3>4. CASE m # n
      BY <3>2, <3>3, <3>4, RunStepFrame
    <3>5. CASE m = n
      <4>1. ~Attribution!Close(n) /\ ~Attribution!CloseFails(n)
        BY <1>1, <1>2, <3>2, <3>5
           DEF Attribution!Close, Attribution!CloseFails, AttributionIInv, Attribution!TypeOK
      <4>2. statusAt'[n] \in {"scan", "finish", "close"} /\ snap'[n] = snap[n]
        BY <3>2, <3>5, <4>1
           DEF AttributionIInv, Attribution!TypeOK, Attribution!RunStep, Attribution!Start,
               Attribution!PrepareRead, Attribution!PrepareFails, Attribution!PostPending,
               Attribution!PendingFails, Attribution!Scan, Attribution!ScanFails,
               Attribution!FinishRead, Attribution!FinishReadFails, Attribution!Go,
               Attribution!github, Attribution!runner
      <4> QED
        BY <3>2, <3>3, <3>5, <4>2, RunStepFrame
    <3> QED
      BY <3>4, <3>5
  <2> QED
    BY <2>1, <2>2
<1> QED
  BY <1>2 DEF AttributionOpenInv

LEMMA AttributionInvInit == Attribution!Init => AttributionIInv
<1> SUFFICES ASSUME Attribution!Init PROVE AttributionIInv
  OBVIOUS
<1>1. Attribution!TypeOK
  BY DEF Attribution!Init, Attribution!TypeOK, Attribution!PullRequest
<1>2. ASSUME NEW n \in PullRequests
      PROVE  AttributionFilesInv(n) /\ AttributionFreshInv(n) /\ AttributionJudgedInv(n)
  BY DEF Attribution!Init, AttributionFilesInv, AttributionFreshInv, AttributionJudgedInv
<1>3. ASSUME NEW h \in PullRequestHeads
      PROVE  AttributionOpenInv(h)
  BY DEF Attribution!Init, AttributionOpenInv
<1> QED
  BY <1>1, <1>2, <1>3 DEF AttributionIInv

LEMMA AttributionInvNext == AttributionIInv /\ [Attribution!Next]_Attribution!vars => AttributionIInv'
<1> SUFFICES ASSUME AttributionIInv, [Attribution!Next]_Attribution!vars PROVE AttributionIInv'
  OBVIOUS
<1>1. Attribution!TypeOK'
  BY AttributionTypeStep DEF AttributionIInv
<1>2. CASE \A n \in PullRequests : ~Attribution!RunStep(n)
  BY <1>1, <1>2, PeopleStep, AttributionPeopleKeep DEF AttributionIInv
<1>3. ASSUME NEW n \in PullRequests, Attribution!RunStep(n)
      PROVE  AttributionIInv'
  <2>1. \A m \in PullRequests : AttributionFilesInv(m)' /\ AttributionFreshInv(m)'
            /\ AttributionJudgedInv(m)'
    BY <1>1, <1>3, OthersKeep, OwnFiles, OwnFresh, OwnJudged
  <2> QED
    BY <1>1, <1>3, <2>1, OpenStep DEF AttributionIInv
<1> QED
  BY <1>2, <1>3

LEMMA AttributionTrue == AttributionIInv => Attribution!StatusIsTrue
<1> SUFFICES ASSUME AttributionIInv PROVE Attribution!StatusIsTrue
  OBVIOUS
<1>1. ASSUME NEW n \in PullRequests, status[pr[n].head] = "success", Attribution!Owned(n, pr[n].head)
      PROVE  /\ statusAt[n] = "idle" /\ snap[n] # Attribution!NoFile /\ snap[n].head = pr[n].head =>
                    read[n] = snap[n] /\ Attribution!IsClean(read[n])
             /\ Attribution!Quiet(n) => Attribution!IsClean(pr[n])
  <2>1. AttributionJudgedInv(n) /\ AttributionFreshInv(n)
    BY DEF AttributionIInv
  <2> QED
    BY <1>1, <2>1
       DEF AttributionJudgedInv, AttributionFreshInv, Attribution!Owned, Attribution!Quiet,
           Attribution!IsClean
<1>2. ASSUME NEW h \in PullRequestHeads, status[h] = "pending", h \notin missed
      PROVE  \E n \in held[h] : statusAt[n] # "idle"
  BY <1>2 DEF AttributionIInv, AttributionOpenInv
<1> QED
  BY <1>1, <1>2
     DEF Attribution!StatusIsTrue, Attribution!SuccessIsClean, Attribution!PendingIsClosed

\* The invariant holds where AttributionStatus moves, beside what stands still.
LEMMA AttributionRuns == ToolSpec => [](tool = "Attribution" => AttributionIInv)
<1> DEFINE Inv == tool = "Attribution" => AttributionIInv
<1>1. ToolInit => Inv
  BY AttributionInvInit DEF ToolInit
<1>2. Inv /\ [ToolStep]_toolVars => Inv'
  <2> SUFFICES ASSUME Inv, [ToolStep]_toolVars, tool' = "Attribution"
               PROVE  AttributionIInv'
    OBVIOUS
  <2>1. tool = "Attribution" /\ [Attribution!Next]_Attribution!vars
    BY DEF ToolStep, toolVars, attributionVars, Attribution!vars, Attribution!github,
           Attribution!runner
  <2> QED
    BY <2>1, AttributionInvNext
<1> HIDE DEF Inv
<1>3. ToolSpec => []Inv
  BY <1>1, <1>2, PTL DEF ToolSpec
<1> QED
  BY <1>3 DEF Inv

\* The status of a commit that one pull request has is true of its text once the
\* runs are over, whatever is pushed, edited, re-run, merged below or fails in
\* between, for any number of pull requests, commits and events.
THEOREM StatusSettles == ToolSpec => []StatusIsTrue
<1>1. (tool = "Attribution" => AttributionIInv) => StatusIsTrue
  BY AttributionTrue DEF StatusIsTrue
<1> QED
  BY <1>1, AttributionRuns, PTL

-----------------------------------------------------------------------------
(* The re-pin issue.                                                         *)

\* Commits descend from earlier ones and from all that those descend from.
RepinHistoryInv ==
    \A c \in Repin!Commits :
        /\ commits[c].pin \in Repin!Commits
        /\ c \in commits[c].past /\ commits[c].past \subseteq 1 .. c
        /\ \A d \in commits[c].past : commits[d].past \subseteq commits[c].past

\* One run works at a time.
RepinGroupInv ==
    \A r, q \in RepinRuns : repinAt[r] \in Repin!Working /\ repinAt[q] \in Repin!Working => r = q

RepinSomeQueued == \E q \in RepinRuns : repinAt[q] = "queued"

\* A run that works checked out a commit whose pin was stale.  No patch is for
\* a commit beyond it, unless main dropped that one, and main's action has not
\* changed since, unless another run waits.  What it is going to write is its own.
RepinRunInv(r) ==
    repinAt[r] \in Repin!Working =>
        /\ target[r] \in Repin!Commits /\ ~Repin!PinIsCurrent(target[r])
        /\ \A i \in Repin!IssueIds : issues[i].target # Nothing =>
               \/ Repin!Ancestor(issues[i].target, target[r])
               \/ ~Repin!Ancestor(issues[i].target, main)
        /\ Repin!Since(target[r]) \/ RepinSomeQueued
        /\ repinAt[r] = "write" /\ plan[r] = Nothing => Repin!Ours = {}
        /\ repinAt[r] = "write" /\ plan[r] # Nothing =>
               issues[plan[r]].bot /\ issues[plan[r]].state # "none"

RepinIssueInv(i) == issues[i].state = "none" => issues[i].target = Nothing

\* What is owed is paid, filed or in a person's way, or some run has it still to
\* do.
RepinDebtInv ==
    \/ Repin!PinIsCurrent(main) \/ Repin!Filed \/ Repin!PersonsIssue
    \/ \E r \in RepinRuns : repinAt[r] \in {"queued", "failed"} \cup Repin!Working

RepinIInv ==
    /\ Repin!TypeOK /\ RepinHistoryInv /\ RepinGroupInv
    /\ \A r \in RepinRuns : RepinRunInv(r)
    /\ \A i \in Repin!IssueIds : RepinIssueInv(i)
    /\ \A i, j \in Repin!Ours : i = j
    /\ RepinDebtInv

\* Main moves by at most one commit, whose history is main's or a part of it.
MainMoves ==
    /\ commits' \in Seq(Repin!CommitRecord) /\ main' \in Repin!Commits'
    /\ Repin!Commits \subseteq Repin!Commits'
    /\ \A c \in Repin!Commits : commits'[c] = commits[c]
    /\ commits'[main'].past \subseteq commits[main].past \cup {main'}
    /\ main' = main \/ main' \notin Repin!Commits
    /\ RepinHistoryInv'

LEMMA CommitStep ==
    ASSUME Repin!TypeOK, RepinHistoryInv, NEW a \in RepinActions, NEW p \in Repin!Commits,
               NEW e \in Nat,
           NEW c \in commits[main].past, Repin!Commit(a, p, e, c)
    PROVE  /\ MainMoves /\ commits'[main'].action = a /\ commits'[main'].pin = p
           /\ commits'[main'].past = commits[c].past \cup {main'}
<1> DEFINE new == [action |-> a, pin |-> p, edit |-> e,
                   past |-> commits[c].past \cup {Len(commits) + 1}]
<1>1. commits \in Seq(Repin!CommitRecord) /\ Len(commits) \in Nat
  BY DEF Repin!TypeOK
<1>2. c \in Repin!Commits /\ c \in Nat /\ main \in Repin!Commits
  <2>1. main \in Repin!Commits
    BY DEF Repin!TypeOK
  <2>2. commits[main].past \subseteq 1 .. main
    BY <2>1 DEF RepinHistoryInv
  <2> QED
    BY <1>1, <2>1, <2>2 DEF Repin!Commits
<1>3. commits[c] \in Repin!CommitRecord /\ commits[c].past \subseteq Nat
  <2>1. commits[c] \in Repin!CommitRecord
    BY <1>1, <1>2 DEF Repin!Commits
  <2> QED
    BY <2>1 DEF Repin!CommitRecord
<1>4. new \in Repin!CommitRecord
  BY <1>1, <1>3, SMTT(30) DEF Repin!CommitRecord, Repin!Commits
<1>5. commits' = Append(commits, new) /\ main' = Len(commits) + 1
  BY DEF Repin!Commit
<1> HIDE DEF new
<1>6. /\ commits' \in Seq(Repin!CommitRecord) /\ Len(commits') = Len(commits) + 1
      /\ \A d \in Repin!Commits : commits'[d] = commits[d]
      /\ commits'[main'] = new
  BY <1>1, <1>4, <1>5 DEF Repin!Commits
<1>7. new.action = a /\ new.pin = p /\ new.past = commits[c].past \cup {main'}
  BY <1>5 DEF new
<1>8. Repin!Commits \subseteq Repin!Commits' /\ main' \in Repin!Commits' /\ main' \notin Repin!Commits
      /\ Repin!Commits' = Repin!Commits \cup {main'}
  BY <1>1, <1>5, <1>6 DEF Repin!Commits
<1>9. commits[c].past \subseteq commits[main].past
  BY <1>2 DEF RepinHistoryInv
<1>10. RepinHistoryInv'
  <2> SUFFICES ASSUME NEW d \in Repin!Commits'
               PROVE  /\ commits'[d].pin \in Repin!Commits'
                      /\ d \in commits'[d].past /\ commits'[d].past \subseteq 1 .. d
                      /\ \A b \in commits'[d].past : commits'[b].past \subseteq commits'[d].past
    BY DEF RepinHistoryInv
  <2>1. CASE d \in Repin!Commits
    <3>1. commits[d].past \subseteq Repin!Commits
      BY <2>1, <1>1 DEF RepinHistoryInv, Repin!Commits
    <3> QED
      BY <2>1, <3>1, <1>6, <1>8 DEF RepinHistoryInv
  <2>2. CASE d = main'
    <3>1. commits[c].past \subseteq Repin!Commits /\ commits[c].past \subseteq 1 .. d
      BY <2>2, <1>1, <1>2, <1>5 DEF RepinHistoryInv, Repin!Commits
    <3>2. \A b \in commits[c].past : commits'[b].past \subseteq commits[c].past
      BY <3>1, <1>2, <1>6 DEF RepinHistoryInv
    <3>3. d \in 1 .. d
      BY <2>2, <1>1, <1>5
    <3>4. commits'[d].past = commits[c].past \cup {d} /\ commits'[d].pin = p
      BY <2>2, <1>6, <1>7
    <3>5. \A b \in commits'[d].past : commits'[b].past \subseteq commits'[d].past
      BY <3>2, <3>4
    <3> QED
      BY <3>1, <3>3, <3>4, <3>5, <1>8
  <2> QED
    BY <2>1, <2>2, <1>8
<1> QED
  BY <1>6, <1>7, <1>8, <1>9, <1>10 DEF MainMoves

\* Where main stands still.
LEMMA MainStays ==
    ASSUME Repin!TypeOK, RepinHistoryInv, UNCHANGED <<commits, main>>
    PROVE  MainMoves
BY DEF Repin!TypeOK, RepinHistoryInv, MainMoves, Repin!Commits, Repin!Ancestor

LEMMA SuccessorsHistory ==
    ASSUME Repin!TypeOK, RepinHistoryInv, [Repin!Next]_Repin!vars
    PROVE  MainMoves
<1>1. main \in Repin!Commits /\ main \in commits[main].past /\ commits[main] \in Repin!CommitRecord
      /\ commits[main].past \subseteq Repin!Commits
  BY DEF Repin!TypeOK, RepinHistoryInv, Repin!Commits
<1>2. commits[main].pin \in Repin!Commits /\ commits[main].edit \in Nat
      /\ commits[main].action \in RepinActions /\ Len(commits) \in Nat
  BY <1>1 DEF RepinHistoryInv, Repin!CommitRecord, Repin!TypeOK
<1>3. ASSUME NEW r \in RepinRuns, Repin!MergeAction(r)
      PROVE  MainMoves
  BY <1>1, <1>2, <1>3, CommitStep DEF Repin!MergeAction
<1>4. ASSUME NEW r \in RepinRuns, Repin!Rewrite(r)
      PROVE  MainMoves
  <2>1. PICK c \in commits[main].past \ {main}, a \in RepinActions :
            Repin!Commit(a, commits[c].pin, commits[c].edit, c)
    BY <1>4 DEF Repin!Rewrite
  <2>2. c \in Repin!Commits /\ commits[c] \in Repin!CommitRecord
    BY <1>1 DEF Repin!TypeOK, Repin!Commits
  <2>3. commits[c].pin \in Repin!Commits /\ commits[c].edit \in Nat
    BY <2>2 DEF RepinHistoryInv, Repin!CommitRecord
  <2> QED
    BY <2>1, <2>3, CommitStep
<1>5. CASE Repin!MergeOther
  BY <1>1, <1>2, <1>5, CommitStep DEF Repin!MergeOther
<1>6. ASSUME NEW i \in Repin!IssueIds, Repin!MergeRepin(i)
      PROVE  MainMoves
  <2>1. issues[i].target \in commits[main].past
    BY <1>6 DEF Repin!MergeRepin, Repin!Ancestor
  <2>3. issues[i].target \in Repin!Commits
    BY <1>1, <2>1
  <2> QED
    BY <1>1, <1>2, <1>6, <2>3, CommitStep DEF Repin!MergeRepin
<1>7. CASE UNCHANGED <<commits, main>>
  BY <1>7, MainStays
<1> QED
  BY <1>3, <1>4, <1>5, <1>6, <1>7
     DEF Repin!Next, Repin!vars, Repin!RunStep, Repin!Prepare, Repin!Check, Repin!Fetch,
         Repin!List, Repin!Write, Repin!StepFails, Repin!Rerun,
         Repin!PersonOpens, Repin!PersonCloses

\* What is said of old commits, main's history apart, stays true.
LEMMA OldCommits ==
    ASSUME Repin!TypeOK, RepinHistoryInv, MainMoves, NEW c \in Repin!Commits, NEW d \in Repin!Commits
    PROVE  /\ Repin!Ancestor(c, d)' <=> Repin!Ancestor(c, d)
           /\ Repin!SameAction(c, d)' <=> Repin!SameAction(c, d)
           /\ Repin!PinIsCurrent(c)' <=> Repin!PinIsCurrent(c)
           /\ ~Repin!Ancestor(c, main) => ~Repin!Ancestor(c, main)'
<1>1. commits'[c] = commits[c] /\ commits'[d] = commits[d] /\ commits[c].pin \in Repin!Commits
  BY DEF MainMoves, RepinHistoryInv
<1>2. commits'[commits[c].pin] = commits[commits[c].pin]
  BY <1>1 DEF MainMoves
<1>3. ~Repin!Ancestor(c, main) => ~Repin!Ancestor(c, main)'
  BY DEF MainMoves, Repin!Ancestor
<1> QED
  BY <1>1, <1>2, <1>3 DEF Repin!Ancestor, Repin!SameAction, Repin!PinIsCurrent

\* A merge that leaves the action alone.
MainKeepsAction ==
    \/ UNCHANGED <<commits, main>>
    \/ /\ main' \notin Repin!Commits /\ commits'[main'].action = commits[main].action
       /\ commits'[main'].past = commits[main].past \cup {main'}

LEMMA SinceKept ==
    ASSUME Repin!TypeOK, RepinHistoryInv, MainMoves, MainKeepsAction, NEW t \in Repin!Commits,
               Repin!Since(t)
    PROVE  Repin!Since(t)'
<1>1. CASE UNCHANGED <<commits, main>>
  BY <1>1 DEF Repin!Since, Repin!SameAction
<1>2. CASE ~UNCHANGED <<commits, main>>
  <2>1. commits'[main'].action = commits[main].action
        /\ commits'[main'].past = commits[main].past \cup {main'}
    BY <1>2 DEF MainKeepsAction
  <2>2. commits[main].past \subseteq Repin!Commits
    BY DEF Repin!TypeOK, RepinHistoryInv, Repin!Commits
  <2>3. \A c \in Repin!Commits : commits'[c] = commits[c]
    BY DEF MainMoves
  <2>4. ASSUME NEW c \in commits'[main'].past, c >= t
        PROVE  commits'[c].action = commits'[main'].action
    <3>1. CASE c = main'
      BY <3>1
    <3>2. CASE c \in commits[main].past
      BY <3>2, <2>1, <2>2, <2>3, <2>4 DEF Repin!Since, Repin!SameAction
    <3> QED
      BY <2>1, <3>1, <3>2
  <2> QED
    BY <2>4 DEF Repin!Since, Repin!SameAction
<1> QED
  BY <1>1, <1>2

LEMMA RepinTypeStep == Repin!TypeOK /\ RepinHistoryInv /\ [Repin!Next]_Repin!vars => Repin!TypeOK'
<1> SUFFICES ASSUME Repin!TypeOK, RepinHistoryInv, [Repin!Next]_Repin!vars PROVE Repin!TypeOK'
  OBVIOUS
<1>1. /\ commits' \in Seq(Repin!CommitRecord) /\ main' \in Repin!Commits'
             /\ Repin!Commits \subseteq Repin!Commits'
  BY SuccessorsHistory DEF MainMoves
<1>2. repinAt' \in [RepinRuns -> {"idle", "queued", "done", "failed"} \cup Repin!Working]
  BY DEF Repin!TypeOK, Repin!Next, Repin!vars, Repin!MergeAction, Repin!MergeOther,
         Repin!MergeRepin, Repin!Rewrite, Repin!PersonOpens, Repin!PersonCloses,
         Repin!RunStep, Repin!Prepare, Repin!Check, Repin!Fetch, Repin!List, Repin!Write,
         Repin!StepFails, Repin!Rerun, Repin!Enter, Repin!GoTo, Repin!Working
<1>3. target' \in [RepinRuns -> Repin!Commits' \cup {Nothing}]
          /\ plan' \in [RepinRuns -> Repin!IssueIds \cup {Nothing}]
  BY <1>1
     DEF Repin!TypeOK, Repin!Next, Repin!vars, Repin!MergeAction, Repin!MergeOther,
         Repin!MergeRepin, Repin!Rewrite, Repin!PersonOpens, Repin!PersonCloses,
         Repin!RunStep, Repin!Prepare, Repin!Check, Repin!Fetch, Repin!List, Repin!Write,
         Repin!StepFails, Repin!Rerun, Repin!CheckOut, Repin!Ours, Repin!OpenIssues
<1>4. issues' \in [Repin!IssueIds -> Repin!Issue']
  <2>0. issues \in [Repin!IssueIds -> Repin!Issue'] /\ Repin!Commits' \subseteq Nat
    BY <1>1 DEF Repin!TypeOK, Repin!Issue, Repin!Commits
  <2>1. CASE UNCHANGED issues
    BY <2>0, <2>1
  <2>2. ASSUME NEW r \in RepinRuns, Repin!Arrives(r)
        PROVE  issues' \in [Repin!IssueIds -> Repin!Issue']
    <3>1. target[r] \in Repin!Commits' \cup {Nothing} /\ plan[r] \in Repin!IssueIds \cup {Nothing}
      BY <1>1 DEF Repin!TypeOK
    <3>2. \A i \in Repin!IssueIds : [issues[i] EXCEPT !.target = target[r]] \in Repin!Issue'
      BY <2>0, <3>1 DEF Repin!Issue
    <3>3. [state |-> "open", bot |-> TRUE, target |-> target[r]] \in Repin!Issue'
      BY <3>1 DEF Repin!Issue
    <3> QED
      BY <2>0, <2>2, <3>1, <3>2, <3>3 DEF Repin!Arrives
  <2>3. ASSUME NEW i \in Repin!IssueIds, Repin!MergeRepin(i) \/ Repin!PersonOpens(i)
                   \/ Repin!PersonCloses(i)
        PROVE  issues' \in [Repin!IssueIds -> Repin!Issue']
    <3>1. [issues[i] EXCEPT !.state = "closed"] \in Repin!Issue'
      BY <2>0 DEF Repin!Issue
    <3>2. [state |-> "open", bot |-> FALSE, target |-> Nothing] \in Repin!Issue'
      BY DEF Repin!Issue
    <3> QED
      BY <2>0, <2>3, <3>1, <3>2 DEF Repin!MergeRepin, Repin!PersonOpens, Repin!PersonCloses
  <2> QED
    BY <2>1, <2>2, <2>3
       DEF Repin!Next, Repin!vars, Repin!MergeAction, Repin!MergeOther, Repin!Rewrite,
           Repin!RunStep, Repin!Prepare, Repin!Check, Repin!Fetch, Repin!List, Repin!Write,
           Repin!StepFails, Repin!Rerun
<1> QED
  BY <1>1, <1>2, <1>3, <1>4 DEF Repin!TypeOK

\* What a step makes of the issues that a run may be about to write: the patches
\* stay, and no issue becomes the workflow's own.
IssuesStay ==
    /\ \A i \in Repin!IssueIds :
         /\ issues'[i].target = issues[i].target
         /\ issues[i].state # "none" =>
                issues'[i].state # "none" /\ issues'[i].bot = issues[i].bot
    /\ Repin!Ours' \subseteq Repin!Ours

LEMMA WorkersKeep ==
    ASSUME RepinIInv, MainMoves, IssuesStay, RepinSomeQueued
               => RepinSomeQueued', MainKeepsAction \/ RepinSomeQueued',
           NEW r \in RepinRuns, RepinRunInv(r), repinAt'[r] = repinAt[r], target'[r] = target[r],
               plan'[r] = plan[r]
    PROVE  RepinRunInv(r)'
<1> SUFFICES ASSUME repinAt[r] \in Repin!Working PROVE RepinRunInv(r)'
  BY DEF RepinRunInv, Repin!Working
<1>0. Repin!TypeOK /\ RepinHistoryInv
  BY DEF RepinIInv
<1>1. target[r] \in Repin!Commits /\ Repin!Commits \subseteq Repin!Commits'
  BY DEF RepinRunInv, MainMoves
<1>2. ~Repin!PinIsCurrent(target[r])'
  BY <1>0, <1>1, OldCommits DEF RepinRunInv
<1>3. ASSUME NEW i \in Repin!IssueIds, issues[i].target # Nothing
      PROVE  \/ issues[i].target \in commits'[target[r]].past
             \/ issues[i].target \notin commits'[main'].past
  <2>1. PICK t \in Repin!Commits : t = issues[i].target
    BY <1>0, <1>3 DEF Repin!TypeOK, Repin!Issue
  <2>2. PICK d \in Repin!Commits : d = target[r]
    BY <1>1
  <2>3. Repin!Ancestor(t, d) \/ ~Repin!Ancestor(t, main)
    BY <1>3, <2>1, <2>2 DEF RepinRunInv
  <2>4. Repin!Ancestor(t, d)' \/ ~Repin!Ancestor(t, main)'
    BY <1>0, <2>3, OldCommits
  <2> QED
    BY <2>1, <2>2, <2>4 DEF Repin!Ancestor
<1>4. Repin!Since(target[r])' \/ RepinSomeQueued'
  BY <1>0, <1>1, SinceKept DEF RepinRunInv
<1>5. /\ repinAt[r] = "write" /\ plan[r] = Nothing => Repin!Ours' = {}
      /\ repinAt[r] = "write" /\ plan[r] # Nothing =>
             issues'[plan[r]].bot /\ issues'[plan[r]].state # "none"
  BY <1>0 DEF IssuesStay, RepinRunInv, Repin!TypeOK
<1>6. \A i \in Repin!IssueIds : issues'[i].target = issues[i].target
  BY DEF IssuesStay
<1>7. ASSUME NEW i \in Repin!IssueIds, issues'[i].target # Nothing
      PROVE  Repin!Ancestor(issues[i].target, target[r])' \/ ~Repin!Ancestor(issues[i].target, main)'
  BY <1>3, <1>6, <1>7 DEF Repin!Ancestor
<1> QED
  BY <1>1, <1>2, <1>4, <1>5, <1>6, <1>7 DEF RepinRunInv

\* A debt stays filed, or in a person's way, while main's action stands.
LEMMA FiledKept ==
    ASSUME Repin!TypeOK, RepinHistoryInv, MainMoves, MainKeepsAction, IssuesStay, Repin!Filed
               \/ Repin!PersonsIssue
    PROVE  (Repin!Filed \/ Repin!PersonsIssue)'
<1>1. ASSUME Repin!Filed
      PROVE  Repin!Filed'
  <2>1. PICK i \in Repin!IssueIds : issues[i].target # Nothing /\ Repin!Since(issues[i].target)
    BY <1>1 DEF Repin!Filed
  <2>2. PICK t \in Repin!Commits : t = issues[i].target
    BY <2>1 DEF Repin!TypeOK, Repin!Issue
  <2>3. Repin!Since(t)'
    BY <2>1, <2>2, SinceKept
  <2>4. issues'[i].target = t
    BY <2>2 DEF IssuesStay
  <2>5. issues'[i].target # Nothing /\ Repin!Since(issues[i].target)'
    BY <2>1, <2>2, <2>3, <2>4 DEF Repin!Since
  <2> QED
    BY <2>5 DEF Repin!Filed
<1>2. ASSUME Repin!PersonsIssue
      PROVE  Repin!PersonsIssue'
  BY <1>2 DEF Repin!PersonsIssue, IssuesStay, Repin!TypeOK, Repin!Issue
<1> QED
  BY <1>1, <1>2

OneOfOurs == \A i, j \in Repin!Ours : i = j

\* A run that enters the group has the debt still to pay.
LEMMA EnterKeeps ==
    ASSUME RepinIInv, Repin!TypeOK', MainMoves, IssuesStay, NEW r \in RepinRuns,
               repinAt[r] \notin Repin!Working, Repin!Enter(r),
           UNCHANGED <<target, plan>>, \A i \in Repin!IssueIds : RepinIssueInv(i)'
    PROVE  RepinIInv'
<1> USE DEF RepinIInv, Repin!Working
<1>1. \A q \in RepinRuns : (repinAt'[q] \in Repin!Working
          => repinAt[q] = repinAt'[q]) /\ (repinAt'[q] \in Repin!Working
              <=> repinAt[q] \in Repin!Working)
  BY DEF Repin!Enter, Repin!TypeOK
<1>2. repinAt'[r] = "queued"
  BY DEF Repin!Enter, Repin!TypeOK
<1>3. RepinSomeQueued' /\ RepinDebtInv'
  BY <1>2 DEF RepinSomeQueued, RepinDebtInv
<1>4. ASSUME NEW q \in RepinRuns
      PROVE  RepinRunInv(q)'
  <2>1. CASE repinAt'[q] \in Repin!Working
    BY <1>1, <1>3, <2>1, WorkersKeep
  <2>2. CASE repinAt'[q] \notin Repin!Working
    BY <2>2 DEF RepinRunInv
  <2> QED
    BY <2>1, <2>2
<1>5. RepinGroupInv'
  BY <1>1 DEF RepinGroupInv
<1>6. RepinHistoryInv' /\ OneOfOurs'
  BY DEF MainMoves, IssuesStay, OneOfOurs
<1> QED
  BY <1>3, <1>4, <1>5, <1>6 DEF OneOfOurs

\* No run moves and main's action stands.
LEMMA RunsStand ==
    ASSUME RepinIInv, Repin!TypeOK', MainMoves, MainKeepsAction, IssuesStay, UNCHANGED <<repinAt,
               target, plan>>,
           \A i \in Repin!IssueIds : RepinIssueInv(i)',
           Repin!PinIsCurrent(main) => (Repin!PinIsCurrent(main) \/ Repin!PersonsIssue)'
    PROVE  RepinIInv'
<1> USE DEF RepinIInv
<1>1. RepinSomeQueued' <=> RepinSomeQueued
  BY DEF RepinSomeQueued
<1>2. \A r \in RepinRuns : RepinRunInv(r)'
  BY <1>1, WorkersKeep
<1>3. RepinGroupInv'
  BY DEF RepinGroupInv
<1>4. RepinHistoryInv' /\ OneOfOurs'
  BY DEF MainMoves, IssuesStay, OneOfOurs
<1>5. RepinDebtInv'
  BY FiledKept DEF RepinDebtInv
<1> QED
  BY <1>2, <1>3, <1>4, <1>5 DEF OneOfOurs

LEMMA MergesKeep ==
    ASSUME RepinIInv, [Repin!Next]_Repin!vars,
           \/ Repin!MergeOther
           \/ \E r \in RepinRuns : Repin!MergeAction(r) \/ Repin!Rewrite(r) \/ Repin!Rerun(r)
           \/ \E i \in Repin!IssueIds : Repin!MergeRepin(i)
    PROVE  RepinIInv'
<1>1. Repin!TypeOK' /\ MainMoves /\ Repin!TypeOK /\ RepinHistoryInv
  BY RepinTypeStep, SuccessorsHistory DEF RepinIInv
<1>2. ASSUME UNCHANGED issues
      PROVE  IssuesStay /\ \A i \in Repin!IssueIds : RepinIssueInv(i)'
  BY <1>2 DEF IssuesStay, RepinIInv, RepinIssueInv, Repin!Ours, Repin!OpenIssues
<1>3. main \in commits[main].past /\ main \in Repin!Commits /\ commits[main].pin \in Repin!Commits
      /\ commits[main].edit \in Nat /\ commits[main].action \in RepinActions
  <2>1. main \in Repin!Commits /\ commits[main] \in Repin!CommitRecord /\ Len(commits) \in Nat
    BY <1>1 DEF Repin!TypeOK, Repin!Commits
  <2> QED
    BY <1>1, <2>1 DEF RepinHistoryInv, Repin!CommitRecord, Repin!Commits
<1>4. ASSUME NEW r \in RepinRuns, Repin!MergeAction(r) \/ Repin!Rewrite(r) \/ Repin!Rerun(r)
      PROVE  RepinIInv'
  <2>1. repinAt[r] \notin Repin!Working /\ Repin!Enter(r) /\ UNCHANGED <<target, plan, issues>>
    BY <1>4 DEF Repin!MergeAction, Repin!Rewrite, Repin!Rerun, Repin!Working
  <2> QED
    BY <1>1, <1>2, <2>1, EnterKeeps
<1>5. ASSUME Repin!MergeOther
      PROVE  RepinIInv'
  <2>1. PICK e \in {commits[main].edit, Len(commits)} :
            Repin!Commit(commits[main].action, commits[main].pin, e, main)
    BY <1>5 DEF Repin!MergeOther
  <2>2. e \in Nat
    BY <1>1, <1>3, <2>1 DEF Repin!TypeOK
  <2>3. /\ commits'[main'].action = commits[main].action
        /\ commits'[main'].pin = commits[main].pin
        /\ commits'[main'].past = commits[main].past \cup {main'}
    BY <1>1, <1>3, <2>1, <2>2, CommitStep
  <2>4. main' \notin Repin!Commits
    BY <1>1, <2>1 DEF Repin!Commit, Repin!TypeOK, Repin!Commits
  <2>5. MainKeepsAction
    BY <2>3, <2>4 DEF MainKeepsAction
  <2>6. commits'[commits[main].pin] = commits[commits[main].pin]
    BY <1>1, <1>3 DEF MainMoves
  <2>7. Repin!PinIsCurrent(main) => Repin!PinIsCurrent(main)'
    BY <2>3, <2>6 DEF Repin!PinIsCurrent, Repin!SameAction, Repin!Ancestor
  <2>8. UNCHANGED <<repinAt, target, plan, issues>>
    BY <1>5 DEF Repin!MergeOther
  <2> QED
    BY <1>1, <1>2, <2>5, <2>7, <2>8, RunsStand
<1>6. ASSUME NEW i \in Repin!IssueIds, Repin!MergeRepin(i)
      PROVE  RepinIInv'
  <2>1. issues[i].target \in Repin!Commits
            /\ Repin!Commit(commits[main].action, issues[i].target, commits[main].edit, main)
        /\ Repin!SameAction(issues[i].target, main) /\ Repin!Ancestor(issues[i].target, main)
    BY <1>1, <1>6 DEF Repin!MergeRepin, Repin!TypeOK, Repin!Issue
  <2>2. /\ commits'[main'].action = commits[main].action
        /\ commits'[main'].pin = issues[i].target
        /\ commits'[main'].past = commits[main].past \cup {main'}
    BY <1>1, <1>3, <2>1, CommitStep
  <2>3. main' \notin Repin!Commits
    BY <1>1, <2>1 DEF Repin!Commit, Repin!TypeOK, Repin!Commits
  <2>4. MainKeepsAction
    BY <2>2, <2>3 DEF MainKeepsAction
  <2>5. commits'[issues[i].target] = commits[issues[i].target]
    BY <1>1, <2>1 DEF MainMoves
  <2>6. Repin!PinIsCurrent(main)'
    BY <2>1, <2>2, <2>5 DEF Repin!PinIsCurrent, Repin!SameAction, Repin!Ancestor
  <2>7. issues' = [issues EXCEPT ![i].state = "closed"] /\ issues[i].state = "open"
        /\ UNCHANGED <<repinAt, target, plan>>
    BY <1>6 DEF Repin!MergeRepin
  <2>8. \A j \in Repin!IssueIds :
            /\ issues'[j].target = issues[j].target /\ issues'[j].bot = issues[j].bot
            /\ issues'[j].state = "none" <=> issues[j].state = "none"
            /\ issues'[j].state = "open" => issues[j].state = "open"
    BY <1>1, <2>7 DEF Repin!TypeOK, Repin!Issue
  <2>9. IssuesStay /\ \A j \in Repin!IssueIds : RepinIssueInv(j)'
    BY <2>8 DEF IssuesStay, RepinIInv, RepinIssueInv, Repin!Ours, Repin!OpenIssues
  <2> QED
    BY <1>1, <2>4, <2>6, <2>7, <2>9, RunsStand
<1> QED
  BY <1>4, <1>5, <1>6

LEMMA RepinPeopleKeep ==
    ASSUME RepinIInv, [Repin!Next]_Repin!vars, NEW i \in Repin!IssueIds, Repin!PersonOpens(i)
               \/ Repin!PersonCloses(i)
    PROVE  RepinIInv'
<1>1. Repin!TypeOK' /\ MainMoves /\ Repin!TypeOK
  BY RepinTypeStep, SuccessorsHistory DEF RepinIInv
<1>2. UNCHANGED <<commits, main, repinAt, target, plan>>
  BY DEF Repin!PersonOpens, Repin!PersonCloses
<1>3. MainKeepsAction /\ (Repin!PinIsCurrent(main) => Repin!PinIsCurrent(main)')
  BY <1>2 DEF MainKeepsAction, Repin!PinIsCurrent, Repin!SameAction, Repin!Ancestor
<1>4. IssuesStay /\ \A j \in Repin!IssueIds : RepinIssueInv(j)'
  <2>1. issues[i].state = "none" => issues[i].target = Nothing
    BY DEF RepinIInv, RepinIssueInv
  <2>2. CASE Repin!PersonOpens(i)
    BY <1>1, <2>1, <2>2
       DEF IssuesStay, RepinIInv, RepinIssueInv, Repin!Ours, Repin!OpenIssues, Repin!TypeOK,
           Repin!Issue, Repin!PersonOpens, Repin!NextId
  <2>3. CASE Repin!PersonCloses(i)
    <3>1. \A j \in Repin!IssueIds :
              /\ issues'[j].target = issues[j].target /\ issues'[j].bot = issues[j].bot
              /\ issues'[j].state = "none" <=> issues[j].state = "none"
              /\ issues'[j].state = "open" => issues[j].state = "open"
      BY <1>1, <2>3 DEF Repin!PersonCloses, Repin!TypeOK, Repin!Issue
    <3> QED
      BY <3>1 DEF IssuesStay, RepinIInv, RepinIssueInv, Repin!Ours, Repin!OpenIssues
  <2> QED
    BY <2>2, <2>3
<1> QED
  BY <1>1, <1>2, <1>3, <1>4, RunsStand

\* A run that moves without writing.
LEMMA ChecksKeep ==
    ASSUME RepinIInv, [Repin!Next]_Repin!vars, NEW r \in RepinRuns, UNCHANGED issues,
           Repin!Prepare(r) \/ Repin!Check(r) \/ Repin!Fetch(r) \/ Repin!List(r) \/ Repin!StepFails(r)
    PROVE  RepinIInv'
<1>1. Repin!TypeOK' /\ MainMoves /\ Repin!TypeOK /\ RepinHistoryInv
  BY RepinTypeStep, SuccessorsHistory DEF RepinIInv
<1>2. UNCHANGED <<commits, main, issues>>
  BY DEF Repin!Prepare, Repin!Check, Repin!Fetch, Repin!List, Repin!StepFails
<1>3. MainKeepsAction /\ IssuesStay /\ (\A i \in Repin!IssueIds : RepinIssueInv(i)') /\ OneOfOurs'
  BY <1>2
     DEF MainKeepsAction, IssuesStay, Repin!Ours, Repin!OpenIssues, RepinIInv, RepinIssueInv,
         OneOfOurs
<1>4. /\ \A q \in RepinRuns \ {r} : repinAt'[q] = repinAt[q] /\ target'[q] = target[q]
             /\ plan'[q] = plan[q]
      /\ repinAt'[r] \in {"done", "failed", "check", "fetch", "list", "write"}
  BY <1>1
     DEF Repin!Prepare, Repin!Check, Repin!Fetch, Repin!List, Repin!StepFails, Repin!GoTo,
         Repin!TypeOK
<1>5. Repin!PinIsCurrent(main)' <=> Repin!PinIsCurrent(main)
  BY <1>2 DEF Repin!PinIsCurrent, Repin!SameAction, Repin!Ancestor
<1>6. RepinGroupInv' /\ (\A q \in RepinRuns \ {r} : repinAt[q] \notin Repin!Working)
  BY <1>4
     DEF RepinIInv, RepinGroupInv, Repin!Prepare, Repin!Check, Repin!Fetch, Repin!List,
         Repin!StepFails, Repin!GroupIsFree, Repin!Working
<1>7. CASE Repin!Prepare(r)
  <2>1. /\ target'[r] = main /\ main \in Repin!Commits
        /\ repinAt'[r] = IF Repin!PinIsCurrent(main) THEN "done" ELSE "check"
    BY <1>1, <1>7 DEF Repin!Prepare, Repin!GoTo, Repin!CheckOut, Repin!TypeOK
  <2>2. Repin!Since(main)
    BY <1>1, <2>1 DEF RepinHistoryInv, Repin!Since, Repin!SameAction, Repin!TypeOK, Repin!Commits
  <2>3. RepinRunInv(r)'
    <3>1. repinAt'[r] \in Repin!Working => ~Repin!PinIsCurrent(target[r])'
      BY <1>2, <2>1 DEF Repin!PinIsCurrent, Repin!SameAction, Repin!Ancestor, Repin!Working
    <3>2. Repin!Since(target[r])'
      BY <1>2, <2>1, <2>2 DEF Repin!Since, Repin!SameAction
    <3>3. target'[r] = main' /\ target'[r] \in Repin!Commits' /\ repinAt'[r] # "write"
      BY <1>2, <2>1 DEF Repin!Commits
    <3> QED
      BY <3>1, <3>2, <3>3 DEF RepinRunInv, Repin!Ancestor
  <2>4. RepinDebtInv'
    BY <1>5, <2>1 DEF RepinDebtInv, Repin!Working
  <2>5. \A q \in RepinRuns : RepinRunInv(q)'
    BY <1>4, <1>6, <2>3 DEF RepinRunInv
  <2> QED
    BY <1>1, <1>3, <1>6, <2>4, <2>5 DEF RepinIInv, OneOfOurs, MainMoves
<1>8. CASE ~Repin!Prepare(r)
  <2>1. repinAt[r] \in Repin!Working /\ UNCHANGED target
    BY <1>8 DEF Repin!Check, Repin!Fetch, Repin!List, Repin!StepFails, Repin!Working
  <2>2. target[r] \in Repin!Commits /\ ~Repin!PinIsCurrent(target[r])
            /\ (Repin!Since(target[r]) \/ RepinSomeQueued)
    BY <2>1 DEF RepinIInv, RepinRunInv
  <2>3. RepinSomeQueued => RepinSomeQueued'
    BY <1>4, <2>1 DEF RepinSomeQueued, Repin!Working
  <2>4. Repin!Since(target[r]) => Repin!Since(target[r])'
    BY <1>2, <2>1 DEF Repin!Since, Repin!SameAction
  <2>5. /\ repinAt'[r] = "write" /\ plan'[r] = Nothing => Repin!Ours' = {}
        /\ repinAt'[r] = "write" /\ plan'[r] # Nothing =>
               issues'[plan'[r]].bot /\ issues'[plan'[r]].state # "none"
    <3>1. CASE Repin!List(r)
      <4>1. \A i \in Repin!IssueIds : i # Nothing
        BY RepinInstance DEF Repin!RepinAssumption, Repin!IssueIds
      <4>2. Repin!Ours' = Repin!Ours
        BY <1>2 DEF Repin!Ours, Repin!OpenIssues
      <4> QED
        BY <1>1, <1>2, <3>1, <4>1, <4>2
           DEF Repin!List, Repin!GoTo, Repin!Ours, Repin!OpenIssues, Repin!TypeOK
    <3>2. CASE ~Repin!List(r)
      BY <1>1, <1>8, <3>2 DEF Repin!Check, Repin!Fetch, Repin!StepFails, Repin!GoTo, Repin!TypeOK
    <3> QED
      BY <3>1, <3>2
  <2>6. RepinRunInv(r)'
    <3>1. ~Repin!PinIsCurrent(target[r])'
      BY <1>2, <2>1, <2>2 DEF Repin!PinIsCurrent, Repin!SameAction, Repin!Ancestor
    <3>2. \A i \in Repin!IssueIds : issues'[i].target # Nothing =>
              Repin!Ancestor(issues[i].target, target[r])' \/ ~Repin!Ancestor(issues[i].target, main)'
      BY <1>2, <2>1 DEF RepinIInv, RepinRunInv, Repin!Ancestor
    <3>3. target'[r] \in Repin!Commits' /\ (Repin!Since(target[r])' \/ RepinSomeQueued')
      BY <1>2, <2>1, <2>2, <2>3, <2>4 DEF Repin!Commits
    <3> QED
      BY <2>5, <3>1, <3>2, <3>3 DEF RepinRunInv
  <2>7. \A q \in RepinRuns : RepinRunInv(q)'
    BY <1>4, <1>6, <2>6 DEF RepinRunInv
  <2>8. RepinDebtInv'
    <3>1. CASE repinAt'[r] # "done"
      BY <1>4, <3>1 DEF RepinDebtInv, Repin!Working
    <3>2. CASE repinAt'[r] = "done"
      <4>1. Repin!List(r)
        BY <1>1, <1>8, <3>2
           DEF Repin!Check, Repin!Fetch, Repin!List, Repin!StepFails, Repin!GoTo, Repin!TypeOK
      <4>2. CASE Repin!Ours = {} /\ Repin!OpenIssues # {}
        <5>1. Repin!PersonsIssue'
          BY <1>2, <4>2 DEF Repin!PersonsIssue, Repin!Ours, Repin!OpenIssues
        <5> QED
          BY <5>1 DEF RepinDebtInv
      <4>3. CASE \E i \in Repin!Ours : issues[i].target = target[r]
        <5>1. target[r] # Nothing
          BY <2>2, RepinInstance, <1>1 DEF Repin!RepinAssumption, Repin!Commits, Repin!TypeOK
        <5>2. Repin!Since(target[r]) => Repin!Filed'
          BY <1>2, <4>3, <5>1
             DEF Repin!Filed, Repin!Since, Repin!SameAction, Repin!Ours, Repin!OpenIssues
        <5>3. RepinSomeQueued => RepinDebtInv'
          BY <2>3 DEF RepinSomeQueued, RepinDebtInv
        <5> QED
          BY <2>2, <5>2, <5>3 DEF RepinDebtInv
      <4> QED
        BY <1>1, <3>2, <4>1, <4>2, <4>3 DEF Repin!List, Repin!GoTo, Repin!TypeOK
    <3> QED
      BY <3>1, <3>2
  <2> QED
    BY <1>1, <1>3, <1>6, <2>7, <2>8 DEF RepinIInv, OneOfOurs, MainMoves
<1> QED
  BY <1>7, <1>8

\* A run that writes is the last to work.
LEMMA WritesKeep ==
    ASSUME RepinIInv, [Repin!Next]_Repin!vars, NEW r \in RepinRuns, repinAt[r] = "write",
               Repin!Arrives(r),
           Repin!Write(r) \/ Repin!StepFails(r)
    PROVE  RepinIInv'
<1>1. Repin!TypeOK' /\ MainMoves /\ Repin!TypeOK
  BY RepinTypeStep, SuccessorsHistory DEF RepinIInv
<1>2. UNCHANGED <<commits, main, target>> /\ repinAt' = [repinAt EXCEPT ![r] = repinAt'[r]]
      /\ repinAt'[r] \in {"done", "failed"}
  BY <1>1 DEF Repin!Write, Repin!StepFails, Repin!GoTo, Repin!TypeOK
<1>3. /\ target[r] \in Repin!Commits /\ (Repin!Since(target[r]) \/ RepinSomeQueued)
      /\ plan[r] = Nothing => Repin!Ours = {}
      /\ plan[r] # Nothing => issues[plan[r]].bot /\ issues[plan[r]].state # "none"
  BY DEF RepinIInv, RepinRunInv, Repin!Working
<1>4. \A q \in RepinRuns : repinAt'[q] \notin Repin!Working
  BY <1>1, <1>2 DEF RepinIInv, RepinGroupInv, Repin!Working, Repin!TypeOK
<1>5. RepinGroupInv' /\ \A q \in RepinRuns : RepinRunInv(q)'
  BY <1>4 DEF RepinGroupInv, RepinRunInv
<1>6. PICK k \in Repin!IssueIds :
          /\ issues' = [issues EXCEPT ![k] = issues'[k]]
          /\ issues'[k].target = target[r] /\ issues'[k].state # "none" /\ issues'[k].bot
          /\ \/ issues[k].state = issues'[k].state /\ issues[k].bot
             \/ Repin!Ours = {}
  <2>1. CASE plan[r] # Nothing
    <3>1. plan[r] \in Repin!IssueIds /\ issues' = [issues EXCEPT ![plan[r]].target = target[r]]
      BY <1>1, <2>1 DEF Repin!Arrives, Repin!TypeOK
    <3> QED
      BY <1>1, <1>3, <2>1, <3>1 DEF Repin!TypeOK, Repin!Issue
  <2>2. CASE plan[r] = Nothing
    <3>1. PICK i \in Repin!IssueIds :
              issues' = [issues EXCEPT ![i] = [state |-> "open", bot |-> TRUE, target |-> target[r]]]
      BY <2>2 DEF Repin!Arrives
    <3> QED
      BY <1>1, <1>3, <2>2, <3>1 DEF Repin!TypeOK
  <2> QED
    BY <2>1, <2>2
<1>7. \A i \in Repin!IssueIds : i # k => issues'[i] = issues[i]
  BY <1>1, <1>6 DEF Repin!TypeOK
<1>8. \A i \in Repin!IssueIds : RepinIssueInv(i)'
  BY <1>6, <1>7 DEF RepinIInv, RepinIssueInv
<1>9. OneOfOurs'
  <2>1. \A i \in Repin!Ours' : i = k \/ i \in Repin!Ours
    BY <1>7 DEF Repin!Ours, Repin!OpenIssues
  <2>2. k \in Repin!Ours' => k \in Repin!Ours \/ Repin!Ours = {}
    BY <1>6 DEF Repin!Ours, Repin!OpenIssues
  <2> QED
    BY <2>1, <2>2 DEF OneOfOurs, RepinIInv
<1>10. RepinDebtInv'
  <2>1. target[r] # Nothing
    BY <1>3, RepinInstance, <1>1 DEF Repin!RepinAssumption, Repin!Commits, Repin!TypeOK
  <2>2. Repin!Since(target[r]) => Repin!Filed'
    BY <1>2, <1>6, <2>1 DEF Repin!Filed, Repin!Since, Repin!SameAction
  <2>3. RepinSomeQueued => \E q \in RepinRuns : repinAt'[q] = "queued"
    BY <1>1, <1>2 DEF RepinSomeQueued, Repin!TypeOK
  <2> QED
    BY <1>3, <2>2, <2>3 DEF RepinDebtInv
<1> QED
  BY <1>1, <1>5, <1>8, <1>9, <1>10 DEF RepinIInv, OneOfOurs, MainMoves

LEMMA RepinInvInit == Repin!Init => RepinIInv
<1> SUFFICES ASSUME Repin!Init PROVE RepinIInv
  OBVIOUS
<1>1. PICK a \in RepinActions : commits = <<[action |-> a, pin |-> 1, edit |-> 0, past |-> {1}]>>
  BY DEF Repin!Init
<1>2. /\ Len(commits) = 1 /\ Repin!Commits = {1} /\ main = 1
      /\ commits[1] = [action |-> a, pin |-> 1, edit |-> 0, past |-> {1}]
      /\ commits \in Seq(Repin!CommitRecord)
  BY <1>1 DEF Repin!Init, Repin!Commits, Repin!CommitRecord
<1>3. Repin!TypeOK
  BY <1>2 DEF Repin!Init, Repin!TypeOK, Repin!Issue, Repin!NoIssue
<1>4. RepinHistoryInv /\ Repin!PinIsCurrent(main)
  BY <1>2 DEF RepinHistoryInv, Repin!PinIsCurrent, Repin!SameAction, Repin!Ancestor
<1>5. RepinGroupInv /\ (\A r \in RepinRuns : RepinRunInv(r))
          /\ (\A i \in Repin!IssueIds : RepinIssueInv(i)) /\ Repin!Ours = {}
  BY DEF Repin!Init, RepinGroupInv, RepinRunInv, RepinIssueInv, Repin!Working, Repin!NoIssue,
         Repin!Ours, Repin!OpenIssues
<1> QED
  BY <1>3, <1>4, <1>5 DEF RepinIInv, RepinDebtInv

LEMMA RepinInvNext == RepinIInv /\ [Repin!Next]_Repin!vars => RepinIInv'
<1> SUFFICES ASSUME RepinIInv, [Repin!Next]_Repin!vars PROVE RepinIInv'
  OBVIOUS
<1>1. CASE UNCHANGED Repin!vars
  <2>1. Repin!TypeOK' /\ MainMoves
    BY RepinTypeStep, SuccessorsHistory DEF RepinIInv
  <2>2. UNCHANGED <<commits, main, repinAt, target, plan, issues>>
    BY <1>1 DEF Repin!vars
  <2>3. MainKeepsAction /\ IssuesStay /\ (\A i \in Repin!IssueIds : RepinIssueInv(i)')
        /\ (Repin!PinIsCurrent(main) => Repin!PinIsCurrent(main)')
    BY <2>2
       DEF MainKeepsAction, IssuesStay, RepinIInv, RepinIssueInv, Repin!Ours, Repin!OpenIssues,
                Repin!PinIsCurrent, Repin!SameAction, Repin!Ancestor
  <2> QED
    BY <2>1, <2>2, <2>3, RunsStand
<1>2. ASSUME NEW r \in RepinRuns, Repin!MergeAction(r) \/ Repin!Rewrite(r) \/ Repin!Rerun(r)
      PROVE  RepinIInv'
  BY <1>2, MergesKeep
<1>3. ASSUME NEW r \in RepinRuns, Repin!RunStep(r) \/ Repin!StepFails(r)
      PROVE  RepinIInv'
  <2>1. CASE Repin!Write(r) \/ (Repin!StepFails(r) /\ repinAt[r] = "write" /\ Repin!Arrives(r))
    BY <2>1, WritesKeep DEF Repin!Write
  <2>2. CASE ~Repin!Write(r) /\ ~(Repin!StepFails(r) /\ repinAt[r] = "write" /\ Repin!Arrives(r))
    <3>1. UNCHANGED issues
              /\ (Repin!Prepare(r) \/ Repin!Check(r) \/ Repin!Fetch(r) \/ Repin!List(r)
                     \/ Repin!StepFails(r))
      BY <1>3, <2>2
         DEF Repin!RunStep, Repin!Prepare, Repin!Check, Repin!Fetch, Repin!List, Repin!StepFails
    <3> QED
      BY <3>1, ChecksKeep
  <2> QED
    BY <2>1, <2>2
<1>4. ASSUME NEW i \in Repin!IssueIds, Repin!MergeRepin(i) \/ Repin!PersonOpens(i)
                 \/ Repin!PersonCloses(i)
      PROVE  RepinIInv'
  BY <1>4, MergesKeep, RepinPeopleKeep
<1>5. CASE Repin!MergeOther
  BY <1>5, MergesKeep
<1> QED
  BY <1>1, <1>2, <1>3, <1>4, <1>5 DEF Repin!Next

LEMMA RepinFiles == RepinIInv => Repin!FiledOnce
<1> SUFFICES ASSUME RepinIInv PROVE Repin!FiledOnce
  OBVIOUS
<1>1. Repin!Cardinality(Repin!Ours) <= 1
  <2>1. CASE Repin!Ours = {}
    <3>1. Repin!Cardinality({}) = Cardinality({})
      BY DEF Repin!Cardinality, Cardinality
    <3> QED
      BY <2>1, <3>1, FS_EmptySet
  <2>2. ASSUME NEW i \in Repin!Ours
        PROVE  Repin!Cardinality(Repin!Ours) <= 1
    <3>1. Repin!Ours = {i}
      BY DEF RepinIInv
    <3>2. Repin!Cardinality({i}) = Cardinality({i})
      BY DEF Repin!Cardinality, Cardinality
    <3>3. Cardinality({i}) = 1
      BY FS_Singleton
    <3> QED
      BY <3>1, <3>2, <3>3
  <2> QED
    BY <2>1, <2>2
<1>2. Repin!DebtIsFiled
  BY DEF RepinIInv, RepinDebtInv, Repin!DebtIsFiled, Repin!Working
<1> QED
  BY <1>1, <1>2 DEF Repin!FiledOnce, Repin!OneIssue

LEMMA RepinKept == RepinIInv /\ [Repin!Next]_Repin!vars => Repin!IssuesAreKept
<1> SUFFICES ASSUME RepinIInv, [Repin!Next]_Repin!vars PROVE Repin!IssuesAreKept
  OBVIOUS
<1>1. Repin!TypeOK /\ Repin!TypeOK'
  BY RepinTypeStep DEF RepinIInv
<1>2. ASSUME NEW r \in RepinRuns, repinAt[r] = "write", Repin!Arrives(r)
      PROVE  Repin!IssuesAreKept
  <2>1. RepinRunInv(r) /\ repinAt[r] \in Repin!Working
    BY <1>2 DEF RepinIInv, Repin!Working
  <2>2. CASE plan[r] # Nothing
    <3>1. plan[r] \in Repin!IssueIds /\ issues' = [issues EXCEPT ![plan[r]].target = target[r]]
      BY <1>1, <1>2, <2>2 DEF Repin!Arrives, Repin!TypeOK
    <3>2. \A i \in Repin!IssueIds : issues'[i].bot = issues[i].bot
      BY <1>1, <3>1 DEF Repin!TypeOK, Repin!Issue
    <3>3. \A i \in Repin!IssueIds : i # plan[r] => issues'[i] = issues[i]
      BY <1>1, <3>1 DEF Repin!TypeOK
    <3>4. issues'[plan[r]].target = target[r]
      BY <1>1, <3>1 DEF Repin!TypeOK, Repin!Issue
    <3> QED
      BY <1>2, <2>1, <2>2, <3>1, <3>2, <3>3, <3>4
         DEF Repin!IssuesAreKept, Repin!PatchMovesForward, Repin!PeopleAreLeftAlone, RepinRunInv
  <2>3. CASE plan[r] = Nothing
    <3>1. PICK k \in Repin!IssueIds :
              /\ issues[k].state = "none"
              /\ issues' = [issues EXCEPT ![k] = [state |-> "open", bot |-> TRUE, target |-> target[r]]]
      BY <1>2, <2>3 DEF Repin!Arrives, Repin!NextId
    <3>2. issues[k].target = Nothing
      BY <3>1 DEF RepinIInv, RepinIssueInv
    <3>3. (\A i \in Repin!IssueIds : i # k => issues'[i] = issues[i])
          /\ issues'[k] = [state |-> "open", bot |-> TRUE, target |-> target[r]]
      BY <1>1, <3>1 DEF Repin!TypeOK
    <3>4. issues'[k].target = target[r] /\ issues'[k].bot /\ ~Repin!PinIsCurrent(target[r])
      BY <2>1, <3>3 DEF RepinRunInv
    <3>5. Repin!PatchMovesForward
      BY <3>2, <3>3 DEF Repin!PatchMovesForward
    <3>6. Repin!PeopleAreLeftAlone
      BY <3>1, <3>3, <3>4 DEF Repin!PeopleAreLeftAlone
    <3> QED
      BY <3>5, <3>6 DEF Repin!IssuesAreKept
  <2> QED
    BY <2>2, <2>3
<1>3. ASSUME NEW i \in Repin!IssueIds, Repin!MergeRepin(i) \/ Repin!PersonCloses(i)
      PROVE  Repin!IssuesAreKept
  <2>1. issues' = [issues EXCEPT ![i].state = "closed"]
    BY <1>3 DEF Repin!MergeRepin, Repin!PersonCloses
  <2>2. \A j \in Repin!IssueIds : issues'[j].target = issues[j].target /\ issues'[j].bot = issues[j].bot
    BY <1>1, <2>1 DEF Repin!TypeOK, Repin!Issue
  <2> QED
    BY <2>2 DEF Repin!IssuesAreKept, Repin!PatchMovesForward, Repin!PeopleAreLeftAlone
<1>4. ASSUME NEW i \in Repin!IssueIds, Repin!PersonOpens(i)
      PROVE  Repin!IssuesAreKept
  <2>1. issues[i].state = "none" /\ issues[i].target = Nothing
    BY <1>4 DEF Repin!PersonOpens, Repin!NextId, RepinIInv, RepinIssueInv
  <2>2. (\A j \in Repin!IssueIds : j # i => issues'[j] = issues[j]) /\ issues'[i].target = Nothing
    BY <1>1, <1>4 DEF Repin!PersonOpens, Repin!TypeOK
  <2> QED
    BY <2>1, <2>2 DEF Repin!IssuesAreKept, Repin!PatchMovesForward, Repin!PeopleAreLeftAlone
<1>5. CASE UNCHANGED issues
  BY <1>5 DEF Repin!IssuesAreKept, Repin!PatchMovesForward, Repin!PeopleAreLeftAlone
<1> QED
  BY <1>2, <1>3, <1>4, <1>5
     DEF Repin!Next, Repin!vars, Repin!MergeAction, Repin!MergeOther, Repin!Rewrite, Repin!RunStep,
         Repin!Prepare, Repin!Check, Repin!Fetch, Repin!List, Repin!Write,
         Repin!StepFails, Repin!Rerun

\* The invariant holds where RepinIssue moves, beside what stands still.
LEMMA RepinRunsOn == ToolSpec => [](tool = "Repin" => RepinIInv)
<1> DEFINE Inv == tool = "Repin" => RepinIInv
<1>1. ToolInit => Inv
  BY RepinInvInit DEF ToolInit
<1>2. Inv /\ [ToolStep]_toolVars => Inv'
  <2> SUFFICES ASSUME Inv, [ToolStep]_toolVars, tool' = "Repin"
               PROVE  RepinIInv'
    OBVIOUS
  <2>1. tool = "Repin" /\ [Repin!Next]_Repin!vars
    BY DEF ToolStep, toolVars, repinVars, Repin!vars
  <2> QED
    BY <2>1, RepinInvNext
<1> HIDE DEF Inv
<1>3. ToolSpec => []Inv
  BY <1>1, <1>2, PTL DEF ToolSpec
<1> QED
  BY <1>3 DEF Inv

\* Once the runs of the workflow are over, what main owes is filed, in one issue
\* of its own, unless a person's stands in the way: for any number of runs,
\* commits, rewrites of history and failing steps.
THEOREM DebtIsFiledOnce == ToolSpec => []FiledOnce
<1>1. (tool = "Repin" => RepinIInv) => FiledOnce
  BY RepinFiles DEF FiledOnce
<1> QED
  BY <1>1, RepinRunsOn, PTL

\* No step of any run takes an issue back to an earlier patch or over from the
\* person who opened it.
THEOREM IssuesOnlyGoOn == ToolSpec => IssuesAreKept
<1> DEFINE Inv == tool = "Repin" => RepinIInv
           Kept == tool = "Repin" => Repin!IssuesAreKept
<1>1. Inv /\ [ToolStep]_toolVars => Kept
  <2> SUFFICES ASSUME Inv, [ToolStep]_toolVars, tool = "Repin"
               PROVE  Repin!IssuesAreKept
    OBVIOUS
  <2>1. [Repin!Next]_Repin!vars
    BY DEF ToolStep, toolVars, repinVars, Repin!vars
  <2> QED
    BY <2>1, RepinKept
<1>2. ToolSpec => []Inv
  BY RepinRunsOn
<1> HIDE DEF Inv
<1>3. ToolSpec => [][Kept]_toolVars
  <2> HIDE DEF Kept
  <2> QED
    BY <1>1, <1>2, PTL DEF ToolSpec
<1> QED
  BY <1>3 DEF IssuesAreKept

-----------------------------------------------------------------------------
(* The capture of a pull request.                                            *)

\* The sizes an instance counts are those of the library.
LEMMA CaptureCounts ==
    \A S : /\ Capture!IsFiniteSet(S) = IsFiniteSet(S)
           /\ Capture!Cardinality(S) = Cardinality(S)
BY DEF Capture!IsFiniteSet, IsFiniteSet, Capture!Cardinality, Cardinality

\* The change between two trees is finite: an entry is known by its names and
\* its status.
LEMMA CaptureChangesFinite ==
    ASSUME NEW t
    PROVE  /\ IsFiniteSet(Capture!Changes(t)) /\ Cardinality(Capture!Changes(t)) \in Nat
           /\ \A c \in Capture!Changes(t) : c =
                  Capture!Entry(c.path, c.old, c.status, c.patch[1], c.patch[2])
<1> DEFINE R == {Capture!Entry(x[2], x[1], "renamed", CaptureBefore[x[1]], t[x[2]]) :
                    x \in {x \in CapturePaths \X CapturePaths : Capture!Renamed(t, x[1], x[2])}}
           A == {Capture!Entry(p, p, "added", CaptureAbsent, t[p]) :
                    p \in {a \in Capture!Added(t) : \A q \in CapturePaths :
                        ~Capture!Renamed(t, q, a)}}
           D == {Capture!Entry(p, p, "removed", CaptureBefore[p], CaptureAbsent) :
                    p \in {r \in Capture!Removed(t) : \A a \in CapturePaths :
                        ~Capture!Renamed(t, r, a)}}
           M == {Capture!Entry(p, p, "modified", CaptureBefore[p], t[p]) :
                    p \in {m \in CapturePaths : CaptureAbsent \notin {CaptureBefore[m], t[m]}
                        /\ CaptureBefore[m] # t[m]}}
           Statuses == {"renamed", "added", "removed", "modified"}
           Names == (CapturePaths \X CapturePaths) \X Statuses
           f == [c \in Capture!Changes(t) |-> <<<<c.old, c.path>>, c.status>>]
<1>1. Capture!Changes(t) = R \cup A \cup D \cup M
  BY DEF Capture!Changes
<1>2. ASSUME NEW c \in R
      PROVE  /\ <<c.old, c.path>> \in CapturePaths \X CapturePaths /\ c.status = "renamed"
             /\ c = Capture!Entry(c.path, c.old, "renamed", CaptureBefore[c.old], t[c.path])
             /\ c.patch[1] = CaptureBefore[c.old] /\ c.patch[2] = t[c.path]
  <2>1. PICK x \in CapturePaths \X CapturePaths : c =
            Capture!Entry(x[2], x[1], "renamed", CaptureBefore[x[1]], t[x[2]])
    BY <1>2
  <2> QED
    BY <2>1 DEF Capture!Entry
<1>3. ASSUME NEW c \in A
      PROVE  /\ <<c.old, c.path>> \in CapturePaths \X CapturePaths /\ c.status = "added"
                    /\ c.old = c.path
             /\ c = Capture!Entry(c.path, c.old, "added", CaptureAbsent, t[c.path])
             /\ c.patch[1] = CaptureAbsent /\ c.patch[2] = t[c.path]
  BY <1>3 DEF Capture!Entry, Capture!Added
<1>4. ASSUME NEW c \in D
      PROVE  /\ <<c.old, c.path>> \in CapturePaths \X CapturePaths /\ c.status = "removed"
                    /\ c.old = c.path
             /\ c = Capture!Entry(c.path, c.old, "removed", CaptureBefore[c.path], CaptureAbsent)
             /\ c.patch[1] = CaptureBefore[c.path] /\ c.patch[2] = CaptureAbsent
  BY <1>4 DEF Capture!Entry, Capture!Removed
<1>5. ASSUME NEW c \in M
      PROVE  /\ <<c.old, c.path>> \in CapturePaths \X CapturePaths /\ c.status = "modified"
                    /\ c.old = c.path
             /\ c = Capture!Entry(c.path, c.old, "modified", CaptureBefore[c.path], t[c.path])
             /\ c.patch[1] = CaptureBefore[c.path] /\ c.patch[2] = t[c.path]
  BY <1>5 DEF Capture!Entry
<1> HIDE DEF R, A, D, M
<1>6. \A c \in Capture!Changes(t) :
          /\ c = Capture!Entry(c.path, c.old, c.status, c.patch[1], c.patch[2])
          /\ c.patch[1] = (IF c.status = "added" THEN CaptureAbsent ELSE CaptureBefore[c.old])
          /\ c.patch[2] = (IF c.status = "removed" THEN CaptureAbsent ELSE t[c.path])
  BY <1>1, <1>2, <1>3, <1>4, <1>5
<1>7. f \in Injection(Capture!Changes(t), Names)
  <2>1. f \in [Capture!Changes(t) -> Names]
    BY <1>1, <1>2, <1>3, <1>4, <1>5
  <2>2. ASSUME NEW c \in Capture!Changes(t), NEW d \in Capture!Changes(t), f[c] = f[d] PROVE c = d
    <3>1. c.old = d.old /\ c.path = d.path /\ c.status = d.status
      BY <2>2
    <3>2. c.patch[1] = d.patch[1] /\ c.patch[2] = d.patch[2]
      BY <1>6, <3>1
    <3>3. /\ c = Capture!Entry(c.path, c.old, c.status, c.patch[1], c.patch[2])
          /\ d = Capture!Entry(d.path, d.old, d.status, d.patch[1], d.patch[2])
      BY <1>6
    <3> QED
      BY <3>1, <3>2, <3>3
  <2> QED
    BY <2>1, <2>2, Fun_IsInj
<1>8. IsFiniteSet(Names)
  <2>1. IsFiniteSet(Statuses)
    <3>1. Statuses = ({"renamed"} \cup {"added"}) \cup ({"removed"} \cup {"modified"})
      OBVIOUS
    <3> HIDE DEF Statuses
    <3> QED
      BY <3>1, FS_Singleton, FS_Union
  <2>2. IsFiniteSet(CapturePaths \X CapturePaths)
    BY CaptureInstance, CaptureCounts, FS_Product DEF Capture!CaptureAssumption
  <2> HIDE DEF Statuses
  <2> QED
    BY <2>1, <2>2, FS_Product
<1>9. IsFiniteSet(Capture!Changes(t))
  BY <1>7, <1>8, FS_Injection
<1> QED
  BY <1>6, <1>9, FS_CardinalityType

\* A listing without a patch left out, as long as the change and naming nothing
\* twice, is the change.
LEMMA CaptureCompleteIsAll ==
    ASSUME Capture!Complete, count = Capture!ChangedFiles(firstHead),
           listed \in Seq(Capture!Listed(firstHead))
    PROVE  /\ {listed[i] : i \in DOMAIN listed} = Capture!Changes(tree[firstHead])
           /\ \A i \in DOMAIN listed : Capture!Record(listed[i]) = Capture!Frozen(listed[i])
<1> DEFINE All == Capture!Changes(tree[firstHead])
           n == Len(listed)
<1>1. n \in Nat /\ DOMAIN listed = 1 .. n /\ listed = [i \in 1 .. n |-> listed[i]]
  OBVIOUS
<1>2. ASSUME NEW i \in DOMAIN listed
      PROVE  listed[i] \in All /\ Capture!Record(listed[i]) = Capture!Frozen(listed[i])
  <2>1. listed[i].patch = <<Capture!BeforeOf(listed[i]), Capture!AfterOf(listed[i])>>
    BY DEF Capture!Complete, Capture!PatchFits
  <2>2. PICK c \in All : listed[i] \in {c, [c EXCEPT !.patch = <<>>]}
    BY DEF Capture!Listed
  <2>3. c = Capture!Entry(c.path, c.old, c.status, c.patch[1], c.patch[2])
    BY CaptureChangesFinite
  <2>4. listed[i] # [c EXCEPT !.patch = <<>>]
    <3>1. [c EXCEPT !.patch = <<>>].patch = <<>>
      BY <2>3 DEF Capture!Entry
    <3>2. <<>> # <<Capture!BeforeOf(listed[i]), Capture!AfterOf(listed[i])>>
      OBVIOUS
    <3> QED
      BY <2>1, <3>1, <3>2
  <2> QED
    BY <2>1, <2>2, <2>4 DEF Capture!Record, Capture!Frozen
<1>3. listed \in Injection(1 .. n, All)
  <2>1. listed \in [1 .. n -> All]
    BY <1>1, <1>2
  <2>2. \A i, j \in 1 .. n : listed[i] = listed[j] => i = j
    BY <1>1 DEF Capture!Complete
  <2> QED
    BY <2>1, <2>2, Fun_IsInj
<1>4. IsFiniteSet(All) /\ Cardinality(All) = n
  BY CaptureChangesFinite, CaptureCounts DEF Capture!Complete, Capture!ChangedFiles
<1>5. Cardinality(1 .. n) = n
  <2>1. n \in Int /\ 1 \in Int
    BY <1>1
  <2> HIDE DEF n
  <2>2. Cardinality(1 .. n) = IF 1 > n THEN 0 ELSE n - 1 + 1
    BY <2>1, FS_Interval
  <2> QED
    BY <1>1, <2>2
<1>6. listed \in Surjection(1 .. n, All)
  BY <1>3, <1>4, <1>5, FS_Injection
<1>7. {listed[i] : i \in DOMAIN listed} = All
  BY <1>1, <1>6, Fun_SurjectionProperties
<1> QED
  BY <1>2, <1>7

\* The change of a head is not one of the capture's variables.
LEMMA CaptureSameChange ==
    ASSUME UNCHANGED <<tree, renames, firstHead>>
    PROVE  Capture!Listed(firstHead)' = Capture!Listed(firstHead)
               /\ Capture!ChangedFiles(firstHead)' = Capture!ChangedFiles(firstHead)
<1>1. Capture!Changes(tree[firstHead])' = Capture!Changes(tree[firstHead])
  BY DEF Capture!Changes, Capture!Renamed, Capture!Least, Capture!Added, Capture!Removed,
         Capture!Entry
<1> QED
  BY <1>1 DEF Capture!Listed, Capture!ChangedFiles

LEMMA CaptureInvInit == Capture!Init => Capture!IInv
BY DEF Capture!Init, Capture!IInv, Capture!Steps, Capture!CaptureIsComplete

\* The head that was read first is only ever left for good.
LEMMA CapturePushInv ==
    ASSUME ReturnsToHead = FALSE
    PROVE  Capture!IInv /\ Capture!Push => Capture!IInv'
<1> SUFFICES ASSUME Capture!IInv, Capture!Push PROVE Capture!IInv'
  OBVIOUS
<1>1. head' \notin left' /\ left' = left \cup {head}
  BY DEF Capture!Push
<1>2. /\ UNCHANGED <<tree, renames, captureAt, minimal, firstHead, count, filesPage, listed,
             frozen, cut>>
      /\ captureAt \notin {"captured", "failed"}
  BY DEF Capture!Push, Capture!capture
<1>3. captureAt \notin {"identify", "first"} => head' # firstHead
  BY <1>1, <1>2 DEF Capture!IInv
<1>4. Capture!Complete' = Capture!Complete
  BY <1>2
     DEF Capture!Complete, Capture!Readable, Capture!PatchFits, Capture!BeforeOf,
         Capture!AfterOf
<1>5. {Capture!Record(listed[i]) : i \in DOMAIN listed}' =
          {Capture!Record(listed[i]) : i \in DOMAIN listed}
  BY <1>2 DEF Capture!Record, Capture!BeforeOf, Capture!AfterOf
<1> QED
  BY <1>1, <1>2, <1>3, <1>4, <1>5 DEF Capture!IInv, Capture!CaptureIsComplete

LEMMA CaptureIdentifyInv == Capture!IInv /\ Capture!Identify => Capture!IInv'
BY DEF Capture!IInv, Capture!Identify, Capture!Steps, Capture!CaptureIsComplete

LEMMA CaptureReadFirstInv == Capture!IInv /\ Capture!ReadFirst => Capture!IInv'
<1> SUFFICES ASSUME Capture!IInv, Capture!ReadFirst PROVE Capture!IInv'
  OBVIOUS
<1>1. /\ captureAt = "first" /\ captureAt' \in {"listing", "failed"} /\ listed = <<>>
      /\ firstHead' = head /\ count' = Capture!ChangedFiles(head)
      /\ UNCHANGED <<tree, renames, head, left, listed>>
  BY DEF Capture!IInv, Capture!ReadFirst
<1>2. count' = Capture!ChangedFiles(firstHead)'
  BY <1>1
     DEF Capture!ChangedFiles, Capture!Changes, Capture!Renamed, Capture!Least, Capture!Added,
         Capture!Removed, Capture!Entry
<1>3. DOMAIN listed' = {}
  BY <1>1
<1> QED
  BY <1>1, <1>2, <1>3 DEF Capture!IInv, Capture!Steps, Capture!CaptureIsComplete

\* A page holds entries of the change, one of them perhaps without its patch.
LEMMA CaptureBatchIsListed ==
    ASSUME NEW h, NEW n, NEW batch \in Capture!Orders(Capture!Page(h, n))
    PROVE  /\ batch \in Seq(Capture!Listed(h))
           /\ \A k \in DOMAIN batch : [batch EXCEPT ![k].patch = <<>>] \in Seq(Capture!Listed(h))
<1> DEFINE P == Capture!Page(h, n)
           size == Cardinality(P)
<1>1. IsFiniteSet(P) /\ P \subseteq Capture!Changes(tree[h])
  BY CaptureChangesFinite, FS_Subset DEF Capture!Page
<1>2. size \in Nat /\ batch \in [1 .. size -> P]
  BY <1>1, FS_CardinalityType, CaptureCounts DEF Capture!Orders
<1> HIDE DEF P, size
<1>3. batch \in [1 .. size -> Capture!Listed(h)]
  BY <1>1, <1>2 DEF Capture!Listed
<1>4. ASSUME NEW k \in DOMAIN batch
      PROVE  [batch EXCEPT ![k].patch = <<>>] \in [1 .. size -> Capture!Listed(h)]
  <2>1. [batch[k] EXCEPT !.patch = <<>>] \in Capture!Listed(h)
    BY <1>1, <1>2 DEF Capture!Listed
  <2> QED
    BY <1>3, <2>1
<1> QED
  BY <1>2, <1>3, <1>4

LEMMA CaptureReadPageInv == Capture!IInv /\ Capture!ReadPage => Capture!IInv'
<1> SUFFICES ASSUME Capture!IInv, Capture!ReadPage PROVE Capture!IInv'
  OBVIOUS
<1>1. /\ captureAt = "listing" /\ captureAt' \in {"listing", "freeze"}
      /\ UNCHANGED <<tree, renames, head, left, minimal, firstHead, count, frozen>>
  BY DEF Capture!ReadPage
<1>2. PICK batch \in Capture!Orders(Capture!Page(head, filesPage)) :
          \/ listed' = listed \o batch
          \/ \E k \in DOMAIN batch : listed' = listed \o [batch EXCEPT ![k].patch = <<>>]
  BY DEF Capture!ReadPage
<1>3. ASSUME head = firstHead
      PROVE  (count = Capture!ChangedFiles(firstHead)
                 /\ listed \in Seq(Capture!Listed(firstHead)))'
  <2>1. PICK more \in Seq(Capture!Listed(firstHead)) : listed' = listed \o more
    BY <1>2, <1>3, CaptureBatchIsListed
  <2>2. listed' \in Seq(Capture!Listed(firstHead))
    <3>1. listed \in Seq(Capture!Listed(firstHead))
      BY <1>1, <1>3 DEF Capture!IInv
    <3> QED
      BY <2>1, <3>1
  <2>3. Capture!Listed(firstHead)' = Capture!Listed(firstHead)
            /\ Capture!ChangedFiles(firstHead)' = Capture!ChangedFiles(firstHead)
    BY <1>1, CaptureSameChange
  <2> QED
    BY <1>1, <1>3, <2>2, <2>3 DEF Capture!IInv
<1> QED
  BY <1>1, <1>3 DEF Capture!IInv, Capture!Steps, Capture!CaptureIsComplete

LEMMA CaptureFreezeInv == Capture!IInv /\ Capture!Freeze => Capture!IInv'
<1> SUFFICES ASSUME Capture!IInv, Capture!Freeze PROVE Capture!IInv'
  OBVIOUS
<1>1. /\ captureAt = "freeze" /\ captureAt' \in {"confirm", "failed"}
      /\ UNCHANGED <<tree, renames, head, left, minimal, firstHead, count, listed>>
      /\ captureAt' = "confirm" => Capture!Complete
             /\ frozen' = {Capture!Record(listed[i]) : i \in DOMAIN listed}
  BY DEF Capture!Freeze
<1>2. /\ Capture!Complete' = Capture!Complete
      /\ {Capture!Record(listed[i]) : i \in DOMAIN listed}' =
             {Capture!Record(listed[i]) : i \in DOMAIN listed}
  BY <1>1
     DEF Capture!Complete, Capture!Readable, Capture!PatchFits, Capture!BeforeOf,
         Capture!AfterOf, Capture!Record
<1>3. Capture!Listed(firstHead)' = Capture!Listed(firstHead)
          /\ Capture!ChangedFiles(firstHead)' = Capture!ChangedFiles(firstHead)
  BY <1>1, CaptureSameChange
<1> QED
  BY <1>1, <1>2, <1>3 DEF Capture!IInv, Capture!Steps, Capture!CaptureIsComplete

\* At the end the head is the one of the first read, which it never left.
LEMMA CaptureConfirmInv == Capture!IInv /\ Capture!Confirm => Capture!IInv'
<1> SUFFICES ASSUME Capture!IInv, Capture!Confirm PROVE Capture!IInv'
  OBVIOUS
<1>1. /\ captureAt = "confirm" /\ captureAt' \in {"captured", "failed"}
      /\ UNCHANGED <<tree, renames, head, left, minimal, firstHead, count, listed, frozen>>
      /\ captureAt' = "captured" => head = firstHead /\ minimal = firstHead
  BY DEF Capture!Confirm, Capture!Unchanged
<1>2. ASSUME captureAt' = "captured"
      PROVE  frozen = {Capture!Frozen(c) : c \in Capture!Changes(tree[minimal])}
  <2>1. /\ Capture!Complete /\ frozen = {Capture!Record(listed[i]) : i \in DOMAIN listed}
        /\ count = Capture!ChangedFiles(firstHead) /\ listed \in Seq(Capture!Listed(firstHead))
    BY <1>1, <1>2 DEF Capture!IInv
  <2>2. /\ {listed[i] : i \in DOMAIN listed} = Capture!Changes(tree[firstHead])
        /\ \A i \in DOMAIN listed : Capture!Record(listed[i]) = Capture!Frozen(listed[i])
    BY <2>1, CaptureCompleteIsAll
  <2> QED
    BY <1>1, <1>2, <2>1, <2>2
<1>3. Capture!Changes(tree[minimal])' = Capture!Changes(tree[minimal])
  BY <1>1
     DEF Capture!Changes, Capture!Renamed, Capture!Least, Capture!Added, Capture!Removed,
         Capture!Entry
<1>4. Capture!CaptureIsComplete'
  BY <1>1, <1>2, <1>3 DEF Capture!CaptureIsComplete, Capture!Frozen
<1> QED
  BY <1>1, <1>4 DEF Capture!IInv, Capture!Steps

LEMMA CaptureInvNext ==
    ASSUME ReturnsToHead = FALSE
    PROVE  Capture!IInv /\ [Capture!Next]_Capture!vars => Capture!IInv'
<1> SUFFICES ASSUME Capture!IInv, [Capture!Next]_Capture!vars PROVE Capture!IInv'
  OBVIOUS
<1>1. CASE UNCHANGED Capture!vars
  <2>1. UNCHANGED <<tree, renames, head, left, captureAt, minimal, firstHead, count, listed,
            frozen>>
    BY <1>1 DEF Capture!vars, Capture!capture
  <2>2. /\ Capture!Complete' = Capture!Complete
        /\ {Capture!Record(listed[i]) : i \in DOMAIN listed}' =
               {Capture!Record(listed[i]) : i \in DOMAIN listed}
    BY <2>1
       DEF Capture!Complete, Capture!Readable, Capture!PatchFits, Capture!BeforeOf,
           Capture!AfterOf, Capture!Record
  <2>3. Capture!Changes(tree[minimal])' = Capture!Changes(tree[minimal])
    BY <2>1
       DEF Capture!Changes, Capture!Renamed, Capture!Least, Capture!Added, Capture!Removed,
           Capture!Entry
  <2>4. Capture!Listed(firstHead)' = Capture!Listed(firstHead)
            /\ Capture!ChangedFiles(firstHead)' = Capture!ChangedFiles(firstHead)
    BY <2>1, CaptureSameChange
  <2> QED
    BY <2>1, <2>2, <2>3, <2>4 DEF Capture!IInv, Capture!CaptureIsComplete
<1> QED
  BY <1>1, CapturePushInv, CaptureIdentifyInv, CaptureReadFirstInv, CaptureReadPageInv,
     CaptureFreezeInv, CaptureConfirmInv
     DEF Capture!Next

LEMMA CaptureRuns ==
    ASSUME ReturnsToHead = FALSE
    PROVE  ToolSpec => [](tool = "Capture" => Capture!IInv)
<1> DEFINE Inv == tool = "Capture" => Capture!IInv
<1>1. ToolInit => Inv
  BY CaptureInvInit DEF ToolInit
<1>2. Inv /\ [ToolStep]_toolVars => Inv'
  <2> SUFFICES ASSUME Inv, [ToolStep]_toolVars, tool' = "Capture"
               PROVE  Capture!IInv'
    OBVIOUS
  <2>1. tool = "Capture" /\ [Capture!Next]_Capture!vars
    BY DEF ToolStep, toolVars, captureVars, Capture!vars, Capture!capture
  <2> QED
    BY <2>1, CaptureInvNext
<1> HIDE DEF Inv
<1>3. ToolSpec => []Inv
  BY <1>1, <1>2, PTL DEF ToolSpec
<1> QED
  BY <1>3 DEF Inv

\* What is captured is the whole change of the recorded head: for any trees,
\* page sizes, patches left out and pushes while it is read, as long as no push
\* brings back a head that was left.
THEOREM CapturedIsWhole ==
    ASSUME ReturnsToHead = FALSE
    PROVE  ToolSpec => []CaptureIsComplete
<1>1. (tool = "Capture" => Capture!IInv) => CaptureIsComplete
  BY DEF CaptureIsComplete, Capture!IInv
<1> QED
  BY <1>1, CaptureRuns, PTL

-----------------------------------------------------------------------------
(* The receipts of the paid reviews.                                         *)

\* Nothing was sent or written before the journal is.
ReceiptsPlanInv ==
    /\ receiptsAt \in {"reserve", "plan"} =>
           disk = None /\ ordinal = 1 /\ spent = 0 /\ remaining = Receipts!Reservation /\ ids = {}
    /\ disk = None => \A i \in Receipts!Calls : ~Receipts!Sent(i) /\ lookups[i] = 0
    /\ receiptsAt # "reserve" /\ receiptsAt \in Receipts!Live \cup {"plan"} =>
           Receipts!Reservation <= MaxReview

ReceiptsUntouched(i) == data.calls[i] = Receipts!NotStarted /\ ~Receipts!Sent(i) /\ lookups[i] = 0

ReceiptsIsAccepted(i) ==
    LET c == data.calls[i] IN
    /\ c.transport = "response_received" /\ c.output = "valid" /\ c.category = None
    /\ c.id \in ids /\ c.lookup \notin {"awaiting_response", "not_eligible"}
    /\ Receipts!Sent(i) /\ c.cost = bills[i]

\* An answer to a request that was billed so, looked up or not yet.
ReceiptsAnswersTo(bill) ==
    [readable : {FALSE}]
    \cup [readable : {TRUE}, id : GenerationIds \cup {None}, cost : {bill, None},
          lookup : Receipts!LookupStates \cup {None}, matches : BOOLEAN, content : Receipts!Contents]

\* What the journal says of the call under way, line by line.
ReceiptsIsUnderWay(i) ==
    LET c == data.calls[i] IN
    /\ c.output = "not_checked" /\ c.category = None
    /\ c.transport = CASE receiptsAt = "intend" -> "not_started"
                       [] receiptsAt \in {"send", "observe"} -> "request_intended"
                       [] receiptsAt = "read" -> "response_observed"
                       [] OTHER -> "response_received"
    /\ receiptsAt \in {"intend", "send", "observe", "read"} => c.id = None /\ c.cost = None
    /\ receiptsAt \in {"intend", "send"} => ~Receipts!Sent(i)
    /\ receiptsAt \notin {"intend", "send"} =>
           Receipts!Sent(i) /\ answer \in ReceiptsAnswersTo(bills[i])
    /\ receiptsAt \in {"intend_lookup", "lookup", "record_lookup", "validate", "accept"} =>
           answer.readable /\ c.id = answer.id /\ c.cost = answer.cost
    /\ c.lookup = CASE receiptsAt \in {"lookup", "record_lookup"} ->
                           IF answer.id = None THEN "not_eligible" ELSE "lookup_intended"
                    [] receiptsAt \in {"validate", "accept"} -> answer.lookup
                    [] OTHER -> "awaiting_response"
    /\ receiptsAt \in {"record_lookup", "validate", "accept"} =>
           answer.lookup \in Receipts!LookupStates
           /\ (answer.lookup = "not_eligible") = (answer.id = None)
    /\ IF receiptsAt \in {"record_lookup", "validate", "accept"} THEN lookups[i] <= 1
       ELSE lookups[i] = 0
    /\ receiptsAt = "accept" => Receipts!Category = None

\* The journal in memory is the one on disk: calls accepted, one under way, and
\* the rest not started.
ReceiptsLiveInv ==
    receiptsAt \in Receipts!Live =>
        /\ data \in Receipts!Journal /\ disk = data
        /\ receiptsAt \in Receipts!Calling <=> ordinal \in Receipts!Calls
        /\ \A i \in Receipts!Calls : i < ordinal => ReceiptsIsAccepted(i)
        /\ \A i, j \in Receipts!Calls : i < j /\ j < ordinal => data.calls[i].id # data.calls[j].id
        /\ receiptsAt \in Receipts!Calling => ReceiptsIsUnderWay(ordinal)
        /\ \A i \in Receipts!Calls : ordinal < i => ReceiptsUntouched(i)
        /\ receiptsAt = "report" => data.finished

\* The bills accepted, and what they leave of the reservation.
ReceiptsAccounted == IF receiptsAt = "accept" THEN ordinal ELSE ordinal - 1

ReceiptsMoneyInv ==
    receiptsAt \in Receipts!Live =>
        /\ spent = Receipts!SumOf(bills, ReceiptsAccounted)
        /\ remaining = Receipts!Reservation - Receipts!SumOf(Reserved, ReceiptsAccounted)
        /\ spent <= Receipts!Reservation /\ spent <= MaxReview
        /\ receiptsAt \in Receipts!Calling \ {"intend"} =>
               Receipts!SumOf(bills, ordinal - 1) <= Receipts!SumOf(Reserved, ordinal - 1)

ReceiptsReportInv == report # None => receiptsAt = "done"

ReceiptsIInv == Receipts!TypeOK /\ ReceiptsPlanInv /\ ReceiptsLiveInv /\ ReceiptsMoneyInv /\ ReceiptsReportInv /\ Receipts!ReceiptsAreTrue

IsTotal(f, a, n) == f = [k \in 0 .. n |-> IF k = 0 THEN 0 ELSE f[k - 1] + a[k]]

\* A set of numbers has a least member.
LEMMA LeastOf ==
    ASSUME NEW T \in SUBSET Nat, T # {}
    PROVE  \E n \in T : \A m \in T : n <= m
<1>1. PICK n \in T : \A m \in T : ~(<<m, n>> \in OpToRel(<, Nat))
  BY NatLessThanWellFounded, WFMin
<1>2. \A m \in T : ~(m < n)
  BY <1>1 DEF OpToRel
<1> QED
  BY <1>2

LEMMA TotalExists ==
    ASSUME NEW a, NEW n \in Nat
    PROVE  \E f : IsTotal(f, a, n)
<1> DEFINE T == {m \in Nat : ~\E f : IsTotal(f, a, m)}
<1>1. SUFFICES ASSUME T # {} PROVE FALSE
  BY <1>1
<1>2. PICK m \in T : \A k \in T : m <= k
  <2>1. T \in SUBSET Nat
    OBVIOUS
  <2> HIDE DEF T
  <2> QED
    BY <1>1, <2>1, LeastOf
<1>3. CASE m = 0
  <2>1. IsTotal([k \in 0 .. 0 |-> 0], a, 0)
    BY DEF IsTotal
  <2> QED
    BY <1>3, <2>1
<1>4. CASE m # 0
  <2>1. m - 1 \in Nat /\ m - 1 \notin T
    BY <1>2, <1>4
  <2>2. PICK f : IsTotal(f, a, m - 1)
    BY <2>1
  <2> DEFINE g == [k \in 0 .. m |-> IF k = m THEN f[m - 1] + a[m] ELSE f[k]]
  <2>3. IsTotal(g, a, m)
    <3>1. ASSUME NEW k \in 0 .. m
          PROVE  g[k] = IF k = 0 THEN 0 ELSE g[k - 1] + a[k]
      <4>1. CASE k = m
        BY <1>4, <4>1, <2>1
      <4>2. CASE k # m
        <5>1. k \in 0 .. m - 1 /\ (k # 0 => k - 1 \in 0 .. m /\ k - 1 # m)
          BY <4>2, <2>1
        <5>2. f[k] = IF k = 0 THEN 0 ELSE f[k - 1] + a[k]
          BY <2>2, <5>1 DEF IsTotal
        <5> QED
          BY <4>2, <5>1, <5>2
      <4> QED
        BY <4>1, <4>2
    <3>2. g = [k \in 0 .. m |-> g[k]]
      OBVIOUS
    <3> HIDE DEF g
    <3> QED
      BY <3>1, <3>2 DEF IsTotal
  <2> QED
    BY <2>3
<1> QED
  BY <1>3, <1>4

\* Totals of amounts that agree are the same.
LEMMA TotalsAgree ==
    ASSUME NEW a, NEW b, NEW f, NEW g, NEW m \in Nat, NEW n \in Nat, m <= n,
           IsTotal(f, a, m), IsTotal(g, b, n), \A i \in 1 .. m : a[i] = b[i]
    PROVE  \A k \in 0 .. m : f[k] = g[k]
<1> DEFINE T == {k \in 0 .. m : f[k] # g[k]}
<1>1. SUFFICES ASSUME T # {} PROVE FALSE
  BY <1>1
<1>2. PICK k \in T : \A j \in T : k <= j
  <2>1. T \in SUBSET Nat
    OBVIOUS
  <2> HIDE DEF T
  <2> QED
    BY <1>1, <2>1, LeastOf
<1>3. /\ f[k] = IF k = 0 THEN 0 ELSE f[k - 1] + a[k]
      /\ g[k] = IF k = 0 THEN 0 ELSE g[k - 1] + b[k]
  BY DEF IsTotal
<1>4. k # 0
  BY <1>3
<1>5. k - 1 \in 0 .. m /\ k - 1 \notin T /\ k \in 1 .. m
  BY <1>2, <1>4
<1>6. f[k - 1] = g[k - 1] /\ a[k] = b[k]
  BY <1>5
<1> QED
  BY <1>3, <1>4, <1>6

LEMMA SumIsTotal ==
    ASSUME NEW a, NEW n \in Nat
    PROVE  \E f : IsTotal(f, a, n) /\ Receipts!SumOf(a, n) = f[n]
<1>1. PICK f : IsTotal(f, a, n)
  BY TotalExists
<1> DEFINE sums == CHOOSE g : g = [k \in 0 .. n |-> IF k = 0 THEN 0 ELSE g[k - 1] + a[k]]
<1>2. IsTotal(sums, a, n)
  BY <1>1 DEF IsTotal
<1>3. Receipts!SumOf(a, n) = sums[n]
  BY DEF Receipts!SumOf
<1> QED
  BY <1>2, <1>3

LEMMA SumsAgree ==
    ASSUME NEW a, NEW b, NEW n \in Nat, \A i \in 1 .. n : a[i] = b[i]
    PROVE  Receipts!SumOf(a, n) = Receipts!SumOf(b, n)
<1>1. PICK f : IsTotal(f, a, n) /\ Receipts!SumOf(a, n) = f[n]
  BY SumIsTotal
<1>2. PICK g : IsTotal(g, b, n) /\ Receipts!SumOf(b, n) = g[n]
  BY SumIsTotal
<1>3. \A k \in 0 .. n : f[k] = g[k]
  BY <1>1, <1>2, TotalsAgree
<1> QED
  BY <1>1, <1>2, <1>3

LEMMA SumOfMore ==
    ASSUME NEW a
    PROVE  /\ Receipts!SumOf(a, 0) = 0
           /\ \A n \in Nat : Receipts!SumOf(a, n + 1) = Receipts!SumOf(a, n) + a[n + 1]
<1>1. Receipts!SumOf(a, 0) = 0
  BY SumIsTotal DEF IsTotal
<1>2. ASSUME NEW n \in Nat PROVE Receipts!SumOf(a, n + 1) = Receipts!SumOf(a, n) + a[n + 1]
  <2>1. PICK f : IsTotal(f, a, n) /\ Receipts!SumOf(a, n) = f[n]
    BY SumIsTotal
  <2>2. PICK g : IsTotal(g, a, n + 1) /\ Receipts!SumOf(a, n + 1) = g[n + 1]
    BY SumIsTotal
  <2>3. f[n] = g[n]
    BY <2>1, <2>2, TotalsAgree
  <2>4. g[n + 1] = g[n] + a[n + 1]
    BY <2>2 DEF IsTotal
  <2> QED
    BY <2>1, <2>2, <2>3, <2>4
<1> QED
  BY <1>1, <1>2

LEMMA SumIsNat ==
    ASSUME NEW a, NEW n \in Nat, \A i \in 1 .. n : a[i] \in Nat
    PROVE  Receipts!SumOf(a, n) \in Nat
<1> DEFINE T == {k \in 0 .. n : Receipts!SumOf(a, k) \notin Nat}
<1>1. SUFFICES ASSUME T # {} PROVE FALSE
  BY <1>1
<1>2. PICK k \in T : \A j \in T : k <= j
  <2>1. T \in SUBSET Nat
    OBVIOUS
  <2> HIDE DEF T
  <2> QED
    BY <1>1, <2>1, LeastOf
<1>3. k # 0
  BY SumOfMore
<1>4. k - 1 \in Nat /\ k - 1 \notin T /\ k - 1 \in 0 .. n /\ a[k] \in Nat
  BY <1>2, <1>3
<1>5. Receipts!SumOf(a, (k - 1) + 1) = Receipts!SumOf(a, k - 1) + a[(k - 1) + 1]
  BY <1>4, SumOfMore
<1> QED
  BY <1>4, <1>5

LEMMA SumOnlyGrows ==
    ASSUME NEW a, NEW m \in Nat, NEW n \in Nat, m <= n, \A i \in 1 .. n : a[i] \in Nat
    PROVE  Receipts!SumOf(a, m) <= Receipts!SumOf(a, n)
<1> DEFINE T == {k \in m .. n : ~(Receipts!SumOf(a, m) <= Receipts!SumOf(a, k))}
<1>1. SUFFICES ASSUME T # {} PROVE FALSE
  BY <1>1
<1>2. PICK k \in T : \A j \in T : k <= j
  <2>1. T \in SUBSET Nat
    OBVIOUS
  <2> HIDE DEF T
  <2> QED
    BY <1>1, <2>1, LeastOf
<1>3. Receipts!SumOf(a, m) \in Nat
  BY SumIsNat
<1>4. k # m
  BY <1>3
<1>5. k - 1 \in Nat /\ k - 1 \notin T /\ k - 1 \in m .. n /\ a[k] \in Nat
  BY <1>2, <1>4
<1>6. Receipts!SumOf(a, k) = Receipts!SumOf(a, k - 1) + a[k]
  <2>1. Receipts!SumOf(a, (k - 1) + 1) = Receipts!SumOf(a, k - 1) + a[(k - 1) + 1]
    BY <1>5, SumOfMore
  <2> QED
    BY <2>1
<1>7. Receipts!SumOf(a, k - 1) \in Nat
  BY <1>5, SumIsNat
<1> QED
  BY <1>3, <1>5, <1>6, <1>7

LEMMA ReceiptsConstants ==
    /\ Len(Reserved) \in Nat /\ 0 < Len(Reserved) /\ Receipts!Calls = 1 .. Len(Reserved)
    /\ \A i \in Receipts!Calls : Reserved[i] \in Nat
    /\ Receipts!Reservation \in Nat /\ MaxReview \in Nat
    /\ None \notin Nat /\ None \notin Bills /\ None \notin GenerationIds
           /\ None \notin Receipts!Journal
    /\ None \notin {"completion_contract", "strict_schema", "unexpected_runtime"}
<1>1. /\ Len(Reserved) \in Nat /\ 0 < Len(Reserved) /\ Receipts!Calls = 1 .. Len(Reserved)
      /\ \A i \in Receipts!Calls : Reserved[i] \in Nat
  BY ReceiptInstance DEF Receipts!ReceiptAssumption, Receipts!Calls
<1>2. Receipts!Reservation \in Nat
  BY <1>1, SumIsNat DEF Receipts!Reservation
<1> QED
  BY <1>1, <1>2, ReceiptInstance DEF Receipts!ReceiptAssumption

\* What a report stands on, and what the journal says, needs no receipt to
\* change.
LEMMA ReceiptsStopsInv ==
    ASSUME Receipts!TypeOK', receiptsAt' \in {"failed", "dead"}, report' = None,
           Receipts!BillsAreJournaled', Receipts!CallsStayReserved', Receipts!LookedUpOnce',
           disk' = None => \A i \in Receipts!Calls : ~Receipts!Sent(i)' /\ lookups'[i] = 0
    PROVE  ReceiptsIInv'
<1>1. ReceiptsPlanInv'
  BY DEF ReceiptsPlanInv, Receipts!Live, Receipts!Calling
<1>2. ReceiptsLiveInv' /\ ReceiptsMoneyInv'
  BY DEF ReceiptsLiveInv, ReceiptsMoneyInv, Receipts!Live, Receipts!Calling
<1>3. ReceiptsReportInv' /\ Receipts!ReportIsBacked' /\ Receipts!JournalIsValid'
  BY DEF ReceiptsReportInv, Receipts!ReportIsBacked, Receipts!JournalIsValid
<1> QED
  BY <1>1, <1>2, <1>3 DEF ReceiptsIInv, Receipts!ReceiptsAreTrue

LEMMA NoReportYet ==
    ASSUME ReceiptsIInv, receiptsAt # "done"
    PROVE  report = None
BY DEF ReceiptsIInv, ReceiptsReportInv

\* A step that leaves the journal and OpenRouter alone.
LEMMA ReceiptsSameReceipts ==
    ASSUME ReceiptsIInv, UNCHANGED <<disk, Receipts!upstream>>
    PROVE  /\ Receipts!BillsAreJournaled' /\ Receipts!CallsStayReserved' /\ Receipts!LookedUpOnce'
           /\ disk' = None => \A i \in Receipts!Calls : ~Receipts!Sent(i)' /\ lookups'[i] = 0
<1>1. UNCHANGED <<disk, bills, lookups>>
  BY DEF Receipts!upstream
<1>2. Receipts!BillsAreJournaled' /\ Receipts!LookedUpOnce'
  BY <1>1
     DEF ReceiptsIInv, Receipts!ReceiptsAreTrue, Receipts!BillsAreJournaled,
         Receipts!LookedUpOnce, Receipts!Sent
<1>3. Receipts!CallsStayReserved'
  BY <1>1 DEF ReceiptsIInv, Receipts!ReceiptsAreTrue, Receipts!CallsStayReserved, Receipts!Sent
<1>4. disk' = None => \A i \in Receipts!Calls : ~Receipts!Sent(i)' /\ lookups'[i] = 0
  BY <1>1 DEF ReceiptsIInv, ReceiptsPlanInv, Receipts!Sent
<1> QED
  BY <1>2, <1>3, <1>4

\* The calls of a journal that is kept are as save requires.
LEMMA CallsAreValid ==
    ASSUME ReceiptsIInv, receiptsAt \in Receipts!Live
    PROVE  \A i \in Receipts!Calls : Receipts!CallIsValid(data.calls[i])
<1>1. ASSUME NEW i \in Receipts!Calls PROVE Receipts!CallIsValid(data.calls[i])
  <2>1. CASE ReceiptsIsAccepted(i)
    BY <2>1, ReceiptsConstants
       DEF ReceiptsIsAccepted, Receipts!CallIsValid, ReceiptsIInv, Receipts!TypeOK
  <2>2. CASE ReceiptsUntouched(i)
    BY <2>2 DEF ReceiptsUntouched, Receipts!NotStarted, Receipts!CallIsValid
  <2>3. CASE receiptsAt \in Receipts!Calling /\ i = ordinal
    <3>1. ReceiptsIsUnderWay(i) /\ data.calls[i].output = "not_checked"
              /\ data.calls[i].category = None
      BY <2>3 DEF ReceiptsIInv, ReceiptsLiveInv, ReceiptsIsUnderWay, Receipts!Live
    <3>2. CASE receiptsAt \in {"intend", "send", "observe", "read"}
      BY <3>1, <3>2 DEF ReceiptsIsUnderWay, Receipts!CallIsValid
    <3>3. CASE receiptsAt = "intend_lookup"
      BY <3>1, <3>3 DEF ReceiptsIsUnderWay, Receipts!CallIsValid
    <3>4. CASE receiptsAt \in {"lookup", "record_lookup"}
      BY <3>1, <3>4 DEF ReceiptsIsUnderWay, Receipts!CallIsValid
    <3>5. CASE receiptsAt \in {"validate", "accept"}
      BY <3>1, <3>5 DEF ReceiptsIsUnderWay, Receipts!CallIsValid, Receipts!LookupStates
    <3> QED
      BY <2>3, <3>2, <3>3, <3>4, <3>5 DEF Receipts!Calling
  <2>4. ordinal \in Nat /\ i \in Nat
    BY ReceiptsConstants DEF ReceiptsIInv, Receipts!TypeOK
  <2> QED
    BY <2>1, <2>2, <2>3, <2>4 DEF ReceiptsIInv, ReceiptsLiveInv
<1> QED
  BY <1>1

LEMMA SaveOf ==
    ASSUME NEW journal, NEW step, Receipts!Save(journal, step),
           \A i \in Receipts!Calls : Receipts!CallIsValid(journal.calls[i])
    PROVE  /\ data' = journal
           /\ \/ receiptsAt' = step /\ disk' = journal
              \/ receiptsAt' = "failed" /\ disk' \in {disk, journal}
BY DEF Receipts!Save

\* A receipt written while a call is under way.
LEMMA UpdateOf ==
    ASSUME ReceiptsIInv, receiptsAt \in Receipts!Calling, NEW receipt \in Receipts!Receipt,
           NEW step,
           Receipts!Update(receipt, step), UNCHANGED Receipts!upstream,
           Receipts!CallIsValid(receipt), receipt.transport # "not_started",
           Receipts!Sent(ordinal) => receipt.cost \in {None, bills[ordinal]},
           lookups[ordinal] > 0 =>
               receipt.transport = "response_received" /\ receipt.lookup # "awaiting_response"
    PROVE  /\ data' \in Receipts!Journal /\ ordinal \in Receipts!Calls
                  /\ data'.calls[ordinal] = receipt
           /\ \A i \in Receipts!Calls \ {ordinal} : data'.calls[i] = data.calls[i]
           /\ data'.finished = data.finished
           /\ receiptsAt' = "failed" \/ (receiptsAt' = step /\ disk' = data')
           /\ disk' \in Receipts!Journal
           /\ Receipts!BillsAreJournaled' /\ Receipts!CallsStayReserved' /\ Receipts!LookedUpOnce'
<1>1. ordinal \in Receipts!Calls /\ data \in Receipts!Journal /\ disk = data
          /\ receiptsAt \in Receipts!Live
  BY DEF ReceiptsIInv, ReceiptsLiveInv, Receipts!Live
<1> DEFINE journal == [data EXCEPT !.calls[ordinal] = receipt]
<1>2. /\ journal \in Receipts!Journal /\ journal.calls[ordinal] = receipt
      /\ \A i \in Receipts!Calls \ {ordinal} : journal.calls[i] = data.calls[i]
      /\ journal.finished = data.finished
  BY <1>1 DEF Receipts!Journal
<1>3. Receipts!Save(journal, step)
  BY DEF Receipts!Update
<1> HIDE DEF journal
<1>4. \A i \in Receipts!Calls : Receipts!CallIsValid(journal.calls[i])
  BY <1>1, <1>2, CallsAreValid
<1>5. /\ data' = journal
      /\ receiptsAt' = "failed" \/ (receiptsAt' = step /\ disk' = data')
      /\ disk' \in {data, journal}
  BY <1>1, <1>3, <1>4, SaveOf
<1>6. disk' \in Receipts!Journal /\ disk' # None /\ disk # None
  BY <1>1, <1>2, <1>5, ReceiptsConstants
<1>7. bills' = bills /\ lookups' = lookups
  BY DEF Receipts!upstream
<1>8. Receipts!BillsAreJournaled'
  <2>1. ASSUME NEW i \in Receipts!Calls, Receipts!Sent(i)
        PROVE  /\ disk' # None /\ disk'.calls[i].transport # "not_started"
               /\ disk'.calls[i].cost \in {None, bills[i]}
               /\ (\E j \in Receipts!Calls : j > i /\ Receipts!Sent(j)) =>
                      disk'.calls[i].output = "valid" /\ disk'.calls[i].cost = bills[i]
    <3>1. /\ disk.calls[i].transport # "not_started"
          /\ disk.calls[i].cost \in {None, bills[i]}
          /\ (\E j \in Receipts!Calls : j > i /\ Receipts!Sent(j)) =>
                 disk.calls[i].output = "valid" /\ disk.calls[i].cost = bills[i]
      BY <2>1 DEF ReceiptsIInv, Receipts!ReceiptsAreTrue, Receipts!BillsAreJournaled
    <3>2. i = ordinal => ~\E j \in Receipts!Calls : j > i /\ Receipts!Sent(j)
      BY <1>1 DEF ReceiptsIInv, ReceiptsLiveInv, ReceiptsUntouched
    <3> QED
      BY <1>1, <1>2, <1>5, <1>6, <2>1, <3>1, <3>2
  <2> QED
    BY <1>7, <2>1 DEF Receipts!BillsAreJournaled, Receipts!Sent
<1>9. Receipts!LookedUpOnce'
  <2>1. ASSUME NEW i \in Receipts!Calls, lookups[i] > 0
        PROVE  /\ lookups[i] = 1
               /\ disk'.calls[i].transport = "response_received"
               /\ disk'.calls[i].lookup # "awaiting_response"
    <3>1. /\ lookups[i] = 1 /\ disk.calls[i].transport = "response_received"
          /\ disk.calls[i].lookup # "awaiting_response"
      BY <2>1 DEF ReceiptsIInv, Receipts!ReceiptsAreTrue, Receipts!LookedUpOnce
    <3> QED
      BY <1>1, <1>2, <1>5, <2>1, <3>1
  <2> QED
    BY <1>7, <2>1 DEF Receipts!LookedUpOnce
<1>10. Receipts!CallsStayReserved'
  BY <1>7 DEF ReceiptsIInv, Receipts!ReceiptsAreTrue, Receipts!CallsStayReserved, Receipts!Sent
<1> QED
  BY <1>1, <1>2, <1>5, <1>6, <1>8, <1>9, <1>10

\* The call under way moves; those before it and after it do not.
LEMMA ReceiptsStillLive ==
    ASSUME ReceiptsIInv, receiptsAt \in Receipts!Calling, receiptsAt' \in Receipts!Calling,
           ordinal' = ordinal, ids' = ids,
           data' \in Receipts!Journal, disk' = data',
           \A i \in Receipts!Calls \ {ordinal} :
               data'.calls[i] = data.calls[i] /\ bills'[i] = bills[i] /\ lookups'[i] = lookups[i],
           ReceiptsIsUnderWay(ordinal)'
    PROVE  ReceiptsLiveInv'
<1>1. receiptsAt \in Receipts!Live /\ ReceiptsLiveInv /\ ordinal \in Receipts!Calls
          /\ ordinal \in Nat
  BY ReceiptsConstants DEF ReceiptsIInv, ReceiptsLiveInv, Receipts!Live
<1>2. ASSUME NEW i \in Receipts!Calls, i < ordinal PROVE ReceiptsIsAccepted(i)'
  <2>1. i # ordinal /\ ReceiptsIsAccepted(i)
    BY <1>1, <1>2, ReceiptsConstants DEF ReceiptsLiveInv
  <2> QED
    BY <2>1 DEF ReceiptsIsAccepted, Receipts!Sent
<1>3. ASSUME NEW i \in Receipts!Calls, ordinal < i PROVE ReceiptsUntouched(i)'
  <2>1. i # ordinal /\ ReceiptsUntouched(i)
    BY <1>1, <1>3, ReceiptsConstants DEF ReceiptsLiveInv
  <2> QED
    BY <2>1 DEF ReceiptsUntouched, Receipts!NotStarted, Receipts!Sent
<1>4. ASSUME NEW i \in Receipts!Calls, NEW j \in Receipts!Calls, i < j, j < ordinal
      PROVE  data'.calls[i].id # data'.calls[j].id
  <2>1. i # ordinal /\ j # ordinal /\ data.calls[i].id # data.calls[j].id
    BY <1>1, <1>4, ReceiptsConstants DEF ReceiptsLiveInv
  <2> QED
    BY <2>1
<1>5. receiptsAt' # "report"
  BY DEF Receipts!Calling
<1> QED
  BY <1>1, <1>2, <1>3, <1>4, <1>5 DEF ReceiptsLiveInv

LEMMA ReceiptsSameMoney ==
    ASSUME ReceiptsIInv, receiptsAt \in Receipts!Calling \ {"intend", "accept"},
           receiptsAt' \in Receipts!Calling \ {"intend", "accept"},
           UNCHANGED <<Receipts!money, bills, ordinal>>
    PROVE  ReceiptsMoneyInv'
<1>1. UNCHANGED <<spent, remaining, bills, ordinal>>
  BY DEF Receipts!money
<1>2. ReceiptsAccounted' = ReceiptsAccounted
  BY <1>1 DEF ReceiptsAccounted
<1> QED
  BY <1>1, <1>2 DEF ReceiptsIInv, ReceiptsMoneyInv, Receipts!Live

LEMMA ReceiptsTypeKept ==
    ASSUME ReceiptsIInv, ordinal' = ordinal, disk' \in Receipts!Journal \cup {None},
           UNCHANGED <<Receipts!money, ids, Receipts!upstream>>,
           receiptsAt' \in Receipts!Live
                  \cup {"reserve", "plan", "failed", "invalid_receipt", "done", "dead"}
    PROVE  Receipts!TypeOK'
BY DEF ReceiptsIInv, Receipts!TypeOK, Receipts!money, Receipts!upstream

\* A step of the call under way that only writes its receipt, and goes on or
\* fails.
LEMMA ReceiptsGoesOn ==
    ASSUME ReceiptsIInv, receiptsAt \in Receipts!Calling \ {"intend", "accept"},
           NEW receipt \in Receipts!Receipt,
           NEW step \in Receipts!Calling \ {"intend", "accept"},
           Receipts!Update(receipt, step),
           UNCHANGED <<ordinal, answer, Receipts!money, ids, report, Receipts!upstream>>,
           Receipts!CallIsValid(receipt), receipt.transport # "not_started",
           Receipts!Sent(ordinal) => receipt.cost \in {None, bills[ordinal]},
           lookups[ordinal] > 0 =>
               receipt.transport = "response_received" /\ receipt.lookup # "awaiting_response",
           receiptsAt' = step /\ data'.calls[ordinal] = receipt => ReceiptsIsUnderWay(ordinal)'
    PROVE  ReceiptsIInv'
<1>1. /\ data' \in Receipts!Journal /\ ordinal \in Receipts!Calls
             /\ data'.calls[ordinal] = receipt
      /\ \A i \in Receipts!Calls \ {ordinal} : data'.calls[i] = data.calls[i]
      /\ receiptsAt' = "failed" \/ (receiptsAt' = step /\ disk' = data')
      /\ disk' \in Receipts!Journal
      /\ Receipts!BillsAreJournaled' /\ Receipts!CallsStayReserved' /\ Receipts!LookedUpOnce'
  BY UpdateOf
<1>2. Receipts!TypeOK'
  BY <1>1, ReceiptsTypeKept DEF Receipts!Live
<1>3. report' = None /\ disk' # None
  BY <1>1, NoReportYet, ReceiptsConstants DEF Receipts!Calling
<1>4. CASE receiptsAt' = "failed"
  BY <1>1, <1>2, <1>3, <1>4, ReceiptsStopsInv
<1>5. CASE receiptsAt' = step /\ disk' = data'
  <2>1. ReceiptsLiveInv'
    BY <1>1, <1>5, ReceiptsStillLive DEF Receipts!upstream
  <2>2. ReceiptsMoneyInv'
    BY <1>5, ReceiptsSameMoney DEF Receipts!upstream
  <2>3. ReceiptsPlanInv'
    BY <1>3, <1>5 DEF ReceiptsIInv, ReceiptsPlanInv, Receipts!Calling, Receipts!Live
  <2>4. ReceiptsReportInv' /\ Receipts!ReportIsBacked' /\ Receipts!JournalIsValid'
    BY <1>3, <1>5
       DEF ReceiptsReportInv, Receipts!ReportIsBacked, Receipts!JournalIsValid,
           Receipts!Calling
  <2> QED
    BY <1>1, <1>2, <2>1, <2>2, <2>3, <2>4 DEF ReceiptsIInv, Receipts!ReceiptsAreTrue
<1> QED
  BY <1>1, <1>4, <1>5

LEMMA ReceiptsInvInit == Receipts!Init => ReceiptsIInv
<1> SUFFICES ASSUME Receipts!Init PROVE ReceiptsIInv
  OBVIOUS
<1>1. Receipts!TypeOK
  BY ReceiptsConstants DEF Receipts!Init, Receipts!TypeOK
<1>2. ReceiptsPlanInv /\ ReceiptsReportInv /\ ReceiptsLiveInv /\ ReceiptsMoneyInv
  BY DEF Receipts!Init, ReceiptsPlanInv, ReceiptsReportInv, ReceiptsLiveInv,
         ReceiptsMoneyInv, Receipts!Live, Receipts!Calling, Receipts!Sent
<1>3. Receipts!ReceiptsAreTrue
  BY DEF Receipts!Init, Receipts!ReceiptsAreTrue, Receipts!BillsAreJournaled,
         Receipts!CallsStayReserved, Receipts!LookedUpOnce, Receipts!ReportIsBacked,
         Receipts!JournalIsValid, Receipts!Sent
<1> QED
  BY <1>1, <1>2, <1>3 DEF ReceiptsIInv

LEMMA ReceiptsReserveInv == ReceiptsIInv /\ Receipts!Reserve => ReceiptsIInv'
<1> SUFFICES ASSUME ReceiptsIInv, Receipts!Reserve PROVE ReceiptsIInv'
  OBVIOUS
<1>1. /\ receiptsAt = "reserve" /\ receiptsAt' \in {"plan", "failed"}
      /\ receiptsAt' = "plan" => Receipts!Reservation <= MaxReview
      /\ UNCHANGED <<ordinal, data, disk, answer, Receipts!money, ids, report, Receipts!upstream>>
  BY DEF Receipts!Reserve
<1>2. Receipts!TypeOK'
  BY <1>1, ReceiptsTypeKept DEF ReceiptsIInv, Receipts!TypeOK
<1>3. /\ Receipts!BillsAreJournaled' /\ Receipts!CallsStayReserved' /\ Receipts!LookedUpOnce'
      /\ disk' = None => \A i \in Receipts!Calls : ~Receipts!Sent(i)' /\ lookups'[i] = 0
  BY <1>1, ReceiptsSameReceipts
<1>4. report' = None
  BY <1>1, NoReportYet
<1>5. CASE receiptsAt' = "failed"
  BY <1>2, <1>3, <1>4, <1>5, ReceiptsStopsInv
<1>6. CASE receiptsAt' = "plan"
  <2>1. ReceiptsPlanInv'
    BY <1>1, <1>3, <1>6 DEF ReceiptsIInv, ReceiptsPlanInv, Receipts!money
  <2>2. ReceiptsLiveInv' /\ ReceiptsMoneyInv' /\ ReceiptsReportInv'
            /\ Receipts!ReportIsBacked' /\ Receipts!JournalIsValid'
    BY <1>4, <1>6
       DEF ReceiptsLiveInv, ReceiptsMoneyInv, ReceiptsReportInv, Receipts!ReportIsBacked,
           Receipts!JournalIsValid, Receipts!Live, Receipts!Calling
  <2> QED
    BY <1>2, <1>3, <2>1, <2>2 DEF ReceiptsIInv, Receipts!ReceiptsAreTrue
<1> QED
  BY <1>1, <1>5, <1>6

LEMMA ReceiptsPlanStepInv == ReceiptsIInv /\ Receipts!Plan => ReceiptsIInv'
<1> SUFFICES ASSUME ReceiptsIInv, Receipts!Plan PROVE ReceiptsIInv'
  OBVIOUS
<1> DEFINE journal == [calls |-> [i \in Receipts!Calls |-> Receipts!NotStarted],
        finished |-> FALSE]
<1>1. /\ receiptsAt = "plan" /\ Receipts!Save(journal, "intend")
      /\ UNCHANGED <<ordinal, answer, Receipts!money, ids, report, Receipts!upstream>>
  BY DEF Receipts!Plan
<1>2. journal \in Receipts!Journal
          /\ \A i \in Receipts!Calls : journal.calls[i] = Receipts!NotStarted
  BY DEF Receipts!Journal, Receipts!Receipt, Receipts!NotStarted
<1> HIDE DEF journal
<1>3. \A i \in Receipts!Calls : Receipts!CallIsValid(journal.calls[i])
  BY <1>2 DEF Receipts!NotStarted, Receipts!CallIsValid
<1>4. /\ data' = journal
      /\ \/ receiptsAt' = "intend" /\ disk' = journal
         \/ receiptsAt' = "failed" /\ disk' \in {disk, journal}
  BY <1>1, <1>3, SaveOf
<1>5. /\ disk = None /\ ordinal = 1 /\ spent = 0 /\ remaining = Receipts!Reservation /\ ids = {}
      /\ \A i \in Receipts!Calls : ~Receipts!Sent(i) /\ lookups[i] = 0
      /\ Receipts!Reservation <= MaxReview
  BY <1>1 DEF ReceiptsIInv, ReceiptsPlanInv, Receipts!Live
<1>6. UNCHANGED <<ordinal, spent, remaining, ids, report, bills, lookups>>
  BY <1>1 DEF Receipts!money, Receipts!upstream
<1>7. \A i \in Receipts!Calls : ~Receipts!Sent(i)' /\ lookups'[i] = 0
  BY <1>5, <1>6 DEF Receipts!Sent
<1>8. Receipts!TypeOK'
  BY <1>1, <1>2, <1>4, <1>5, ReceiptsTypeKept DEF Receipts!Live, Receipts!Calling
<1>9. Receipts!BillsAreJournaled' /\ Receipts!CallsStayReserved' /\ Receipts!LookedUpOnce'
  BY <1>7 DEF Receipts!BillsAreJournaled, Receipts!CallsStayReserved, Receipts!LookedUpOnce
<1>10. report' = None
  BY <1>1, <1>6, NoReportYet
<1>11. CASE receiptsAt' = "failed"
  BY <1>7, <1>8, <1>9, <1>10, <1>11, ReceiptsStopsInv
<1>12. CASE receiptsAt' = "intend" /\ disk' = journal
  <2>1. disk' # None
    BY <1>2, <1>12, ReceiptsConstants
  <2>2. ReceiptsPlanInv'
    BY <1>5, <1>6, <1>12, <2>1 DEF ReceiptsPlanInv
  <2>3. ReceiptsIsUnderWay(ordinal)'
    BY <1>2, <1>4, <1>5, <1>6, <1>7, <1>12, ReceiptsConstants
       DEF ReceiptsIsUnderWay, Receipts!NotStarted
  <2>4. \A i \in Receipts!Calls : ReceiptsUntouched(i)'
    BY <1>2, <1>4, <1>7 DEF ReceiptsUntouched, Receipts!NotStarted
  <2>5. ReceiptsLiveInv'
    BY <1>2, <1>4, <1>5, <1>6, <1>12, <2>3, <2>4, ReceiptsConstants
       DEF ReceiptsLiveInv, Receipts!Live, Receipts!Calling
  <2>6. ReceiptsAccounted' = 0
    BY <1>5, <1>6, <1>12 DEF ReceiptsAccounted
  <2>7. Receipts!SumOf(bills', 0) = 0 /\ Receipts!SumOf(Reserved, 0) = 0
    BY SumOfMore
  <2>8. ReceiptsMoneyInv'
    BY <1>5, <1>6, <1>12, <2>6, <2>7, ReceiptsConstants DEF ReceiptsMoneyInv
  <2>9. ReceiptsReportInv' /\ Receipts!ReportIsBacked' /\ Receipts!JournalIsValid'
    BY <1>10, <1>12 DEF ReceiptsReportInv, Receipts!ReportIsBacked, Receipts!JournalIsValid
  <2> QED
    BY <1>8, <1>9, <2>2, <2>5, <2>8, <2>9 DEF ReceiptsIInv, Receipts!ReceiptsAreTrue
<1> QED
  BY <1>4, <1>11, <1>12

LEMMA ReceiptsUnderWay ==
    ASSUME ReceiptsIInv, receiptsAt \in Receipts!Calling
    PROVE  /\ ordinal \in Receipts!Calls /\ ordinal \in Nat /\ data \in Receipts!Journal
                  /\ disk = data
           /\ Receipts!Call \in Receipts!Receipt /\ ReceiptsIsUnderWay(ordinal)
                  /\ receiptsAt \in Receipts!Live /\ disk # None
<1>1. /\ ordinal \in Receipts!Calls /\ data \in Receipts!Journal /\ disk = data
      /\ ReceiptsIsUnderWay(ordinal) /\ receiptsAt \in Receipts!Live
  BY DEF ReceiptsIInv, ReceiptsLiveInv, Receipts!Live
<1>2. Receipts!Call \in Receipts!Receipt
  BY <1>1 DEF Receipts!Journal, Receipts!Call
<1> QED
  BY <1>1, <1>2, ReceiptsConstants

\* What is left of the reservation, when the next call is let through, shows
\* that the calls before it stayed within theirs.
LEMMA ReceiptsIntendInv == ReceiptsIInv /\ Receipts!Intend => ReceiptsIInv'
<1> SUFFICES ASSUME ReceiptsIInv, Receipts!Intend PROVE ReceiptsIInv'
  OBVIOUS
<1>1. receiptsAt = "intend" /\ UNCHANGED <<ordinal, answer, Receipts!money, ids, report,
          Receipts!upstream>>
  BY DEF Receipts!Intend
<1>2. receiptsAt \in Receipts!Calling
  BY <1>1 DEF Receipts!Calling
<1>3. /\ ordinal \in Receipts!Calls /\ ordinal \in Nat /\ data \in Receipts!Journal /\ disk = data
      /\ Receipts!Call \in Receipts!Receipt /\ ReceiptsIsUnderWay(ordinal)
             /\ receiptsAt \in Receipts!Live /\ disk # None
  BY <1>2, ReceiptsUnderWay
<1>4. report' = None /\ UNCHANGED <<spent, remaining, bills, lookups>>
  BY <1>1, NoReportYet DEF Receipts!money, Receipts!upstream
<1>5. CASE ~(spent + remaining > Receipts!Reservation)
  <2> DEFINE receipt == [Receipts!Call EXCEPT !.transport = "request_intended"]
  <2>1. /\ receipt \in Receipts!Receipt /\ receipt.transport = "request_intended"
        /\ receipt.output = "not_checked" /\ receipt.category = None /\ receipt.id = None
        /\ receipt.cost = None /\ receipt.lookup = "awaiting_response"
        /\ ~Receipts!Sent(ordinal) /\ lookups[ordinal] = 0
    BY <1>1, <1>3 DEF ReceiptsIsUnderWay, Receipts!Receipt, Receipts!Call
  <2>2. Receipts!Update(receipt, "send")
    BY <1>1, <1>5 DEF Receipts!Intend
  <2> HIDE DEF receipt
  <2>3. Receipts!CallIsValid(receipt)
    BY <2>1 DEF Receipts!CallIsValid
  <2>4. /\ data' \in Receipts!Journal /\ ordinal \in Receipts!Calls
               /\ data'.calls[ordinal] = receipt
        /\ \A i \in Receipts!Calls \ {ordinal} : data'.calls[i] = data.calls[i]
        /\ receiptsAt' = "failed" \/ (receiptsAt' = "send" /\ disk' = data')
        /\ disk' \in Receipts!Journal
        /\ Receipts!BillsAreJournaled' /\ Receipts!CallsStayReserved' /\ Receipts!LookedUpOnce'
    BY <1>1, <1>2, <2>1, <2>2, <2>3, UpdateOf
  <2>5. Receipts!TypeOK' /\ disk' # None
    BY <1>1, <2>4, ReceiptsTypeKept, ReceiptsConstants DEF Receipts!Live, Receipts!Calling
  <2>6. CASE receiptsAt' = "failed"
    BY <1>4, <2>4, <2>5, <2>6, ReceiptsStopsInv
  <2>7. CASE receiptsAt' = "send" /\ disk' = data'
    <3>1. ReceiptsIsUnderWay(ordinal)'
      BY <1>1, <1>4, <2>1, <2>4, <2>7 DEF ReceiptsIsUnderWay, Receipts!Sent
    <3>2. ReceiptsLiveInv'
      BY <1>1, <1>2, <1>4, <2>4, <2>7, <3>1, ReceiptsStillLive DEF Receipts!Calling
    <3>3. /\ spent = Receipts!SumOf(bills, ordinal - 1)
          /\ remaining = Receipts!Reservation - Receipts!SumOf(Reserved, ordinal - 1)
          /\ spent <= Receipts!Reservation /\ spent <= MaxReview /\ spent \in Nat
      BY <1>1, <1>3 DEF ReceiptsIInv, Receipts!TypeOK, ReceiptsMoneyInv, ReceiptsAccounted
    <3>4. Receipts!SumOf(Reserved, ordinal - 1) \in Nat
      <4>1. ordinal - 1 \in Nat /\ \A i \in 1 .. ordinal - 1 : Reserved[i] \in Nat
        BY <1>3, ReceiptsConstants
      <4> QED
        BY <4>1, SumIsNat
    <3>5. Receipts!SumOf(bills, ordinal - 1) <= Receipts!SumOf(Reserved, ordinal - 1)
      BY <1>5, <3>3, <3>4, ReceiptsConstants
    <3>6. ReceiptsMoneyInv'
      BY <1>1, <1>4, <2>7, <3>3, <3>5 DEF ReceiptsMoneyInv, ReceiptsAccounted
    <3>7. ReceiptsPlanInv'
      BY <1>3, <1>4, <2>5, <2>7 DEF ReceiptsIInv, ReceiptsPlanInv
    <3>8. ReceiptsReportInv' /\ Receipts!ReportIsBacked' /\ Receipts!JournalIsValid'
      BY <1>4, <2>7 DEF ReceiptsReportInv, Receipts!ReportIsBacked, Receipts!JournalIsValid
    <3> QED
      BY <2>4, <2>5, <3>2, <3>6, <3>7, <3>8 DEF ReceiptsIInv, Receipts!ReceiptsAreTrue
  <2> QED
    BY <2>4, <2>6, <2>7
<1>6. CASE spent + remaining > Receipts!Reservation
  <2>1. receiptsAt' = "failed" /\ UNCHANGED <<data, disk>>
    BY <1>1, <1>6 DEF Receipts!Intend
  <2>2. Receipts!TypeOK'
    BY <1>1, <2>1, ReceiptsTypeKept DEF ReceiptsIInv, Receipts!TypeOK
  <2>3. /\ Receipts!BillsAreJournaled' /\ Receipts!CallsStayReserved' /\ Receipts!LookedUpOnce'
        /\ disk' = None => \A i \in Receipts!Calls : ~Receipts!Sent(i)' /\ lookups'[i] = 0
    BY <1>1, <2>1, ReceiptsSameReceipts
  <2> QED
    BY <1>4, <2>1, <2>2, <2>3, ReceiptsStopsInv
<1> QED
  BY <1>5, <1>6

\* The request is billed: the bills of the calls before it do not change, and
\* what they add up to is known to be within their reservations.
LEMMA ReceiptsSendInv == ReceiptsIInv /\ Receipts!Send => ReceiptsIInv'
<1> SUFFICES ASSUME ReceiptsIInv, Receipts!Send PROVE ReceiptsIInv'
  OBVIOUS
<1>1. /\ receiptsAt = "send" /\ receiptsAt \in Receipts!Calling
      /\ UNCHANGED <<ordinal, data, disk, Receipts!money, ids, report, lookups>>
  BY DEF Receipts!Send, Receipts!Calling
<1>2. PICK bill \in Bills : /\ bills' = [bills EXCEPT ![ordinal] = bill]
                            /\ \/ receiptsAt' = "failed" /\ UNCHANGED answer
                               \/ receiptsAt' = "observe" /\ answer' \in Receipts!Responses(bill)
  BY DEF Receipts!Send
<1>3. /\ ordinal \in Receipts!Calls /\ ordinal \in Nat /\ data \in Receipts!Journal /\ disk = data
      /\ Receipts!Call \in Receipts!Receipt /\ ReceiptsIsUnderWay(ordinal)
             /\ receiptsAt \in Receipts!Live /\ disk # None
  BY <1>1, ReceiptsUnderWay
<1>4. report' = None /\ UNCHANGED <<spent, remaining>>
  BY <1>1, NoReportYet DEF Receipts!money
<1>5. bills \in [Receipts!Calls -> Bills \cup {None}]
  BY DEF ReceiptsIInv, Receipts!TypeOK
<1>6. Receipts!TypeOK'
  BY <1>1, <1>2, <1>4, <1>5 DEF ReceiptsIInv, Receipts!TypeOK, Receipts!Live, Receipts!Calling
<1>7. /\ bills'[ordinal] = bill /\ Receipts!Sent(ordinal)'
      /\ \A i \in Receipts!Calls \ {ordinal} : bills'[i] = bills[i]
             /\ (Receipts!Sent(i)' <=> Receipts!Sent(i))
  BY <1>1, <1>2, <1>3, <1>5, ReceiptsConstants DEF Receipts!Sent
<1>8. /\ data.calls[ordinal].transport = "request_intended"
      /\ data.calls[ordinal].cost = None /\ lookups[ordinal] = 0
  BY <1>1, <1>3 DEF ReceiptsIsUnderWay
<1>9. /\ \A i \in Receipts!Calls : i < ordinal => ReceiptsIsAccepted(i)
      /\ \A i \in Receipts!Calls : ordinal < i => ~Receipts!Sent(i)
  BY <1>3 DEF ReceiptsIInv, ReceiptsLiveInv, ReceiptsUntouched
<1>10. Receipts!BillsAreJournaled'
  <2>1. ASSUME NEW i \in Receipts!Calls, Receipts!Sent(i)'
        PROVE  /\ disk # None /\ disk.calls[i].transport # "not_started"
               /\ disk.calls[i].cost \in {None, bills'[i]}
               /\ (\E j \in Receipts!Calls : j > i /\ Receipts!Sent(j)') =>
                      disk.calls[i].output = "valid" /\ disk.calls[i].cost = bills'[i]
    <3>1. CASE i < ordinal
      BY <1>3, <1>7, <1>9, <3>1 DEF ReceiptsIsAccepted
    <3>2. CASE i = ordinal
      <4>1. ~\E j \in Receipts!Calls : j > i /\ Receipts!Sent(j)'
        BY <1>3, <1>7, <1>9, <3>2, ReceiptsConstants
      <4> QED
        BY <1>3, <1>8, <3>2, <4>1
    <3>3. CASE i > ordinal
      <4>1. ~Receipts!Sent(i) /\ i \in Receipts!Calls \ {ordinal}
        BY <1>3, <1>9, <3>3, ReceiptsConstants
      <4> QED
        BY <1>7, <2>1, <4>1
    <3> QED
      BY <1>3, <3>1, <3>2, <3>3, ReceiptsConstants
  <2> QED
    BY <1>1, <2>1 DEF Receipts!BillsAreJournaled
<1>11. ASSUME NEW n \in 0 .. ordinal - 1
       PROVE  Receipts!SumOf(bills', n) = Receipts!SumOf(bills, n)
  <2>1. n \in Nat /\ \A i \in 1 .. n : i \in Receipts!Calls \ {ordinal}
    BY <1>3, ReceiptsConstants
  <2> QED
    BY <1>7, <2>1, SumsAgree
<1>12. Receipts!SumOf(bills, ordinal - 1) <= Receipts!SumOf(Reserved, ordinal - 1)
  BY <1>1, <1>3 DEF ReceiptsIInv, ReceiptsMoneyInv
<1>13. Receipts!CallsStayReserved'
  <2>1. ASSUME NEW j \in Receipts!Calls, Receipts!Sent(j)'
        PROVE  Receipts!SumOf(bills', j - 1) <= Receipts!SumOf(Reserved, j - 1)
    <3>1. CASE j = ordinal
      BY <1>3, <1>11, <1>12, <3>1, ReceiptsConstants
    <3>2. CASE j # ordinal
      <4>1. Receipts!Sent(j) /\ j - 1 \in 0 .. ordinal - 1
        BY <1>3, <1>7, <1>9, <2>1, <3>2, ReceiptsConstants
      <4>2. Receipts!SumOf(bills, j - 1) <= Receipts!SumOf(Reserved, j - 1)
        BY <4>1 DEF ReceiptsIInv, Receipts!ReceiptsAreTrue, Receipts!CallsStayReserved
      <4> QED
        BY <1>11, <4>1, <4>2
    <3> QED
      BY <3>1, <3>2
  <2> QED
    BY <2>1 DEF Receipts!CallsStayReserved
<1>14. Receipts!LookedUpOnce'
  BY <1>1 DEF ReceiptsIInv, Receipts!ReceiptsAreTrue, Receipts!LookedUpOnce
<1>15. disk' # None
  BY <1>1, <1>3
<1>16. CASE receiptsAt' = "failed"
  BY <1>4, <1>6, <1>10, <1>13, <1>14, <1>15, <1>16, ReceiptsStopsInv
<1>17. CASE receiptsAt' = "observe" /\ answer' \in Receipts!Responses(bill)
  <2>1. answer' \in ReceiptsAnswersTo(bill)
    BY <1>17 DEF Receipts!Responses, ReceiptsAnswersTo
  <2>2. ReceiptsIsUnderWay(ordinal)'
    BY <1>1, <1>3, <1>7, <1>17, <2>1 DEF ReceiptsIsUnderWay
  <2>3. ReceiptsLiveInv'
    BY <1>1, <1>3, <1>7, <1>17, <2>2, ReceiptsStillLive DEF Receipts!Calling
  <2>4. Receipts!SumOf(bills', ordinal - 1) = Receipts!SumOf(bills, ordinal - 1)
    BY <1>3, <1>11, ReceiptsConstants
  <2>5. ReceiptsMoneyInv'
    BY <1>1, <1>3, <1>4, <1>17, <2>4
       DEF ReceiptsIInv, ReceiptsMoneyInv, ReceiptsAccounted, Receipts!Calling
  <2>6. ReceiptsPlanInv' /\ ReceiptsReportInv' /\ Receipts!ReportIsBacked'
            /\ Receipts!JournalIsValid'
    BY <1>1, <1>3, <1>4, <1>15, <1>17
       DEF ReceiptsIInv, ReceiptsPlanInv, ReceiptsReportInv, Receipts!ReportIsBacked,
           Receipts!JournalIsValid
  <2> QED
    BY <1>6, <1>10, <1>13, <1>14, <2>3, <2>5, <2>6 DEF ReceiptsIInv, Receipts!ReceiptsAreTrue
<1> QED
  BY <1>2, <1>16, <1>17

LEMMA ReceiptsObserveInv == ReceiptsIInv /\ Receipts!Observe => ReceiptsIInv'
<1> SUFFICES ASSUME ReceiptsIInv, Receipts!Observe PROVE ReceiptsIInv'
  OBVIOUS
<1> DEFINE receipt == [Receipts!Call EXCEPT !.transport = "response_observed"]
<1>1. /\ receiptsAt = "observe" /\ Receipts!Update(receipt, "read")
      /\ UNCHANGED <<ordinal, answer, Receipts!money, ids, report, Receipts!upstream>>
  BY DEF Receipts!Observe
<1>2. /\ ordinal \in Receipts!Calls /\ Receipts!Call \in Receipts!Receipt
             /\ ReceiptsIsUnderWay(ordinal)
  BY <1>1, ReceiptsUnderWay DEF Receipts!Calling
<1>3. /\ receipt \in Receipts!Receipt /\ receipt.transport = "response_observed"
      /\ receipt.output = "not_checked" /\ receipt.category = None /\ receipt.id = None
      /\ receipt.cost = None /\ receipt.lookup = "awaiting_response"
      /\ Receipts!Sent(ordinal) /\ lookups[ordinal] = 0
             /\ answer \in ReceiptsAnswersTo(bills[ordinal])
  BY <1>1, <1>2 DEF ReceiptsIsUnderWay, Receipts!Receipt, Receipts!Call
<1> HIDE DEF receipt
<1>4. Receipts!CallIsValid(receipt)
  BY <1>3 DEF Receipts!CallIsValid
<1>5. ASSUME receiptsAt' = "read", data'.calls[ordinal] = receipt
      PROVE  ReceiptsIsUnderWay(ordinal)'
  BY <1>1, <1>3, <1>5 DEF ReceiptsIsUnderWay, Receipts!Sent, Receipts!upstream
<1> QED
  BY <1>1, <1>3, <1>4, <1>5, ReceiptsGoesOn DEF Receipts!Calling

LEMMA ReceiptsReadInv == ReceiptsIInv /\ Receipts!Read => ReceiptsIInv'
<1> SUFFICES ASSUME ReceiptsIInv, Receipts!Read PROVE ReceiptsIInv'
  OBVIOUS
<1>1. receiptsAt = "read" /\ UNCHANGED <<ordinal, answer, Receipts!money, ids, report,
          Receipts!upstream>>
  BY DEF Receipts!Read
<1>2. /\ ordinal \in Receipts!Calls /\ Receipts!Call \in Receipts!Receipt
             /\ ReceiptsIsUnderWay(ordinal) /\ disk # None
  BY <1>1, ReceiptsUnderWay DEF Receipts!Calling
<1>3. CASE answer.readable
  <2> DEFINE receipt == [Receipts!Call EXCEPT !.transport = "response_received", !.id = answer.id,
                                  !.cost = answer.cost]
  <2>1. Receipts!Update(receipt, "intend_lookup")
    BY <1>1, <1>3 DEF Receipts!Read
  <2>2. Receipts!Sent(ordinal) /\ lookups[ordinal] = 0
            /\ answer \in ReceiptsAnswersTo(bills[ordinal])
    BY <1>1, <1>2 DEF ReceiptsIsUnderWay
  <2>3. bills[ordinal] \in Bills
    BY <1>2, <2>2 DEF ReceiptsIInv, Receipts!TypeOK, Receipts!Sent
  <2>4. answer.id \in GenerationIds \cup {None} /\ answer.cost \in {None, bills[ordinal]}
    BY <1>3, <2>2 DEF ReceiptsAnswersTo
  <2>5. /\ receipt \in Receipts!Receipt /\ receipt.transport = "response_received"
        /\ receipt.output = "not_checked" /\ receipt.category = None /\ receipt.id = answer.id
        /\ receipt.cost = answer.cost /\ receipt.lookup = "awaiting_response"
    BY <1>1, <1>2, <2>3, <2>4 DEF ReceiptsIsUnderWay, Receipts!Receipt, Receipts!Call
  <2> HIDE DEF receipt
  <2>6. Receipts!CallIsValid(receipt)
    BY <2>5 DEF Receipts!CallIsValid
  <2>7. ASSUME receiptsAt' = "intend_lookup", data'.calls[ordinal] = receipt
        PROVE  ReceiptsIsUnderWay(ordinal)'
    BY <1>1, <1>3, <2>2, <2>5, <2>7 DEF ReceiptsIsUnderWay, Receipts!Sent, Receipts!upstream
  <2> QED
    BY <1>1, <2>1, <2>2, <2>4, <2>5, <2>6, <2>7, ReceiptsGoesOn DEF Receipts!Calling
<1>4. CASE ~answer.readable
  <2>1. receiptsAt' = "failed" /\ UNCHANGED <<data, disk>>
    BY <1>1, <1>4 DEF Receipts!Read
  <2>2. Receipts!TypeOK' /\ report' = None
    BY <1>1, <2>1, ReceiptsTypeKept, NoReportYet DEF ReceiptsIInv, Receipts!TypeOK
  <2> QED
    BY <1>1, <2>1, <2>2, ReceiptsSameReceipts, ReceiptsStopsInv
<1> QED
  BY <1>3, <1>4

LEMMA ReceiptsIntendLookupInv == ReceiptsIInv /\ Receipts!IntendLookup => ReceiptsIInv'
<1> SUFFICES ASSUME ReceiptsIInv, Receipts!IntendLookup PROVE ReceiptsIInv'
  OBVIOUS
<1> DEFINE state == IF answer.id = None THEN "not_eligible" ELSE "lookup_intended"
           receipt == [Receipts!Call EXCEPT !.lookup = state]
<1>1. /\ receiptsAt = "intend_lookup" /\ Receipts!Update(receipt, "lookup")
      /\ UNCHANGED <<ordinal, answer, Receipts!money, ids, report, Receipts!upstream>>
  BY DEF Receipts!IntendLookup
<1>2. /\ ordinal \in Receipts!Calls /\ Receipts!Call \in Receipts!Receipt
             /\ ReceiptsIsUnderWay(ordinal)
  BY <1>1, ReceiptsUnderWay DEF Receipts!Calling
<1>3. /\ Receipts!Sent(ordinal) /\ lookups[ordinal] = 0
             /\ answer \in ReceiptsAnswersTo(bills[ordinal])
      /\ answer.readable
  BY <1>1, <1>2 DEF ReceiptsIsUnderWay
<1>4. /\ receipt \in Receipts!Receipt /\ receipt.transport = "response_received"
      /\ receipt.output = "not_checked" /\ receipt.category = None /\ receipt.id = answer.id
      /\ receipt.cost = answer.cost /\ receipt.lookup = state
  BY <1>1, <1>2 DEF ReceiptsIsUnderWay, Receipts!Receipt, Receipts!Call
<1>5. answer.cost \in {None, bills[ordinal]}
  BY <1>3 DEF ReceiptsAnswersTo
<1> HIDE DEF receipt
<1>6. Receipts!CallIsValid(receipt)
  BY <1>4 DEF Receipts!CallIsValid
<1>7. ASSUME receiptsAt' = "lookup", data'.calls[ordinal] = receipt
      PROVE  ReceiptsIsUnderWay(ordinal)'
  BY <1>1, <1>3, <1>4, <1>7 DEF ReceiptsIsUnderWay, Receipts!Sent, Receipts!upstream
<1> QED
  BY <1>1, <1>3, <1>4, <1>5, <1>6, <1>7, ReceiptsGoesOn DEF Receipts!Calling

\* The lookup counts what the journal already says is intended.
LEMMA ReceiptsLookupInv == ReceiptsIInv /\ Receipts!Lookup => ReceiptsIInv'
<1> SUFFICES ASSUME ReceiptsIInv, Receipts!Lookup PROVE ReceiptsIInv'
  OBVIOUS
<1>1. /\ receiptsAt = "lookup" /\ receiptsAt' = "record_lookup"
      /\ UNCHANGED <<ordinal, data, disk, Receipts!money, ids, report, bills>>
  BY DEF Receipts!Lookup
<1>2. PICK state \in Receipts!LookupStates :
          /\ (state = "not_eligible") = (answer.id = None)
          /\ answer' = [answer EXCEPT !.lookup = state]
          /\ \/ state # "not_eligible" /\ lookups' = [lookups EXCEPT ![ordinal] = @ + 1]
             \/ UNCHANGED lookups
  BY DEF Receipts!Lookup
<1>3. /\ ordinal \in Receipts!Calls /\ ordinal \in Nat /\ data \in Receipts!Journal /\ disk = data
      /\ Receipts!Call \in Receipts!Receipt /\ ReceiptsIsUnderWay(ordinal)
             /\ receiptsAt \in Receipts!Live /\ disk # None
  BY <1>1, ReceiptsUnderWay DEF Receipts!Calling
<1>4. /\ Receipts!Sent(ordinal) /\ lookups[ordinal] = 0
             /\ answer \in ReceiptsAnswersTo(bills[ordinal])
      /\ answer.readable
  BY <1>1, <1>3 DEF ReceiptsIsUnderWay
<1>5. /\ answer' \in ReceiptsAnswersTo(bills[ordinal]) /\ answer'.readable
             /\ answer'.lookup = state
      /\ answer'.id = answer.id /\ answer'.cost = answer.cost
  BY <1>2, <1>4 DEF ReceiptsAnswersTo
<1>6. lookups \in [Receipts!Calls -> Nat]
  BY DEF ReceiptsIInv, Receipts!TypeOK
<1>7. /\ lookups' \in [Receipts!Calls -> Nat] /\ lookups'[ordinal] \in {0, 1}
      /\ \A i \in Receipts!Calls \ {ordinal} : lookups'[i] = lookups[i]
  BY <1>2, <1>3, <1>4, <1>6
<1>8. /\ data.calls[ordinal].transport = "response_received"
      /\ data.calls[ordinal].lookup # "awaiting_response"
  BY <1>1, <1>3 DEF ReceiptsIsUnderWay
<1>9. Receipts!LookedUpOnce'
  <2>1. ASSUME NEW i \in Receipts!Calls, lookups'[i] > 0
        PROVE  /\ lookups'[i] = 1 /\ disk.calls[i].transport = "response_received"
               /\ disk.calls[i].lookup # "awaiting_response"
    <3>1. CASE i = ordinal
      BY <1>3, <1>7, <1>8, <2>1, <3>1
    <3>2. CASE i # ordinal
      BY <1>7, <2>1, <3>2 DEF ReceiptsIInv, Receipts!ReceiptsAreTrue, Receipts!LookedUpOnce
    <3> QED
      BY <3>1, <3>2
  <2> QED
    BY <1>1, <2>1 DEF Receipts!LookedUpOnce
<1>10. Receipts!BillsAreJournaled' /\ Receipts!CallsStayReserved'
  BY <1>1
     DEF ReceiptsIInv, Receipts!ReceiptsAreTrue, Receipts!BillsAreJournaled,
         Receipts!CallsStayReserved, Receipts!Sent
<1>11. Receipts!TypeOK' /\ report' = None
  BY <1>1, <1>7, NoReportYet
     DEF ReceiptsIInv, Receipts!TypeOK, Receipts!money, Receipts!Live, Receipts!Calling
<1>12. ReceiptsIsUnderWay(ordinal)'
  BY <1>1, <1>2, <1>3, <1>4, <1>5, <1>7 DEF ReceiptsIsUnderWay, Receipts!Sent
<1>13. ReceiptsLiveInv'
  BY <1>1, <1>3, <1>7, <1>12, ReceiptsStillLive DEF Receipts!Calling
<1>14. ReceiptsMoneyInv'
  BY <1>1, ReceiptsSameMoney DEF Receipts!Calling
<1>15. ReceiptsPlanInv' /\ ReceiptsReportInv' /\ Receipts!ReportIsBacked'
           /\ Receipts!JournalIsValid'
  BY <1>1, <1>3, <1>11
     DEF ReceiptsIInv, ReceiptsPlanInv, ReceiptsReportInv, Receipts!ReportIsBacked,
         Receipts!JournalIsValid
<1> QED
  BY <1>9, <1>10, <1>11, <1>13, <1>14, <1>15 DEF ReceiptsIInv, Receipts!ReceiptsAreTrue

LEMMA ReceiptsRecordLookupInv == ReceiptsIInv /\ Receipts!RecordLookup => ReceiptsIInv'
<1> SUFFICES ASSUME ReceiptsIInv, Receipts!RecordLookup PROVE ReceiptsIInv'
  OBVIOUS
<1> DEFINE receipt == [Receipts!Call EXCEPT !.lookup = answer.lookup]
<1>1. /\ receiptsAt = "record_lookup" /\ Receipts!Update(receipt, "validate")
      /\ UNCHANGED <<ordinal, answer, Receipts!money, ids, report, Receipts!upstream>>
  BY DEF Receipts!RecordLookup
<1>2. /\ ordinal \in Receipts!Calls /\ Receipts!Call \in Receipts!Receipt
             /\ ReceiptsIsUnderWay(ordinal)
  BY <1>1, ReceiptsUnderWay DEF Receipts!Calling
<1>3. /\ Receipts!Sent(ordinal) /\ lookups[ordinal] <= 1
             /\ answer \in ReceiptsAnswersTo(bills[ordinal])
      /\ answer.readable /\ answer.lookup \in Receipts!LookupStates
      /\ (answer.lookup = "not_eligible") = (answer.id = None)
  BY <1>1, <1>2 DEF ReceiptsIsUnderWay
<1>4. /\ receipt \in Receipts!Receipt /\ receipt.transport = "response_received"
      /\ receipt.output = "not_checked" /\ receipt.category = None /\ receipt.id = answer.id
      /\ receipt.cost = answer.cost /\ receipt.lookup = answer.lookup
  BY <1>1, <1>2, <1>3
     DEF ReceiptsIsUnderWay, Receipts!Receipt, Receipts!Call, Receipts!LookupStates
<1>5. answer.cost \in {None, bills[ordinal]}
  BY <1>3 DEF ReceiptsAnswersTo
<1> HIDE DEF receipt
<1>6. Receipts!CallIsValid(receipt) /\ receipt.lookup # "awaiting_response"
  BY <1>3, <1>4 DEF Receipts!CallIsValid, Receipts!LookupStates
<1>7. ASSUME receiptsAt' = "validate", data'.calls[ordinal] = receipt
      PROVE  ReceiptsIsUnderWay(ordinal)'
  BY <1>1, <1>3, <1>4, <1>7 DEF ReceiptsIsUnderWay, Receipts!Sent, Receipts!upstream
<1> QED
  BY <1>1, <1>3, <1>4, <1>5, <1>6, <1>7, ReceiptsGoesOn DEF Receipts!Calling

\* What nothing objected to is a response with its bill and a new identifier.
LEMMA NothingObjects ==
    ASSUME ReceiptsIInv, receiptsAt \in {"validate", "accept"}, Receipts!Category = None
    PROVE  /\ answer.cost = bills[ordinal] /\ bills[ordinal] \in Nat
           /\ answer.id \in GenerationIds /\ answer.id \notin ids
<1>1. /\ ordinal \in Receipts!Calls /\ ReceiptsIsUnderWay(ordinal)
  BY ReceiptsUnderWay DEF Receipts!Calling
<1>2. Receipts!Sent(ordinal) /\ answer \in ReceiptsAnswersTo(bills[ordinal]) /\ answer.readable
  BY <1>1 DEF ReceiptsIsUnderWay
<1>3. answer.id \in GenerationIds \cup {None} /\ answer.cost \in {None, bills[ordinal]}
  BY <1>2 DEF ReceiptsAnswersTo
<1>4. answer.cost # None /\ answer.id \notin ids \cup {None}
  BY ReceiptsConstants DEF Receipts!Category
<1>5. bills[ordinal] \in Bills
  BY <1>1, <1>2 DEF ReceiptsIInv, Receipts!TypeOK, Receipts!Sent
<1>6. bills[ordinal] \in Nat
  BY <1>5, ReceiptInstance DEF Receipts!ReceiptAssumption
<1> QED
  BY <1>3, <1>4, <1>6

LEMMA ReceiptsRejectInv == ReceiptsIInv /\ Receipts!Reject => ReceiptsIInv'
<1> SUFFICES ASSUME ReceiptsIInv, Receipts!Reject PROVE ReceiptsIInv'
  OBVIOUS
<1> DEFINE receipt == [Receipts!Call EXCEPT
                        !.output =
                            IF Receipts!Category = "unexpected_runtime" THEN "indeterminate"
                            ELSE "invalid",
                        !.category = Receipts!Category]
<1>1. /\ receiptsAt = "validate" /\ Receipts!Update(receipt, "failed") /\ Receipts!Category # None
      /\ UNCHANGED <<ordinal, answer, Receipts!money, ids, report, Receipts!upstream>>
  BY DEF Receipts!Reject
<1>2. /\ ordinal \in Receipts!Calls /\ Receipts!Call \in Receipts!Receipt
             /\ ReceiptsIsUnderWay(ordinal)
  BY <1>1, ReceiptsUnderWay DEF Receipts!Calling
<1>3. /\ Receipts!Sent(ordinal) /\ lookups[ordinal] <= 1
             /\ answer \in ReceiptsAnswersTo(bills[ordinal])
      /\ answer.readable /\ answer.lookup \in Receipts!LookupStates
      /\ (answer.lookup = "not_eligible") = (answer.id = None)
  BY <1>1, <1>2 DEF ReceiptsIsUnderWay
<1>4. Receipts!Category \in {"completion_contract", "unexpected_runtime", "strict_schema"}
  BY <1>1 DEF Receipts!Category
<1> DEFINE category == Receipts!Category
<1> HIDE DEF category
<1>5. /\ receipt \in Receipts!Receipt /\ receipt.transport = "response_received"
      /\ receipt.output = IF category = "unexpected_runtime" THEN "indeterminate" ELSE "invalid"
      /\ receipt.category = category /\ receipt.id = answer.id
      /\ receipt.cost = answer.cost /\ receipt.lookup = answer.lookup
  BY <1>1, <1>2, <1>4 DEF ReceiptsIsUnderWay, Receipts!Receipt, Receipts!Call, category
<1>6. answer.cost \in {None, bills[ordinal]}
  BY <1>3 DEF ReceiptsAnswersTo
<1> HIDE DEF receipt
<1>7. Receipts!CallIsValid(receipt) /\ receipt.lookup # "awaiting_response"
  BY <1>3, <1>4, <1>5 DEF Receipts!CallIsValid, Receipts!LookupStates, category
<1>8. receiptsAt \in Receipts!Calling
  BY <1>1 DEF Receipts!Calling
<1>9. /\ receiptsAt' = "failed" /\ disk' \in Receipts!Journal
      /\ Receipts!BillsAreJournaled' /\ Receipts!CallsStayReserved' /\ Receipts!LookedUpOnce'
  BY <1>1, <1>3, <1>5, <1>6, <1>7, <1>8, UpdateOf
<1>10. Receipts!TypeOK' /\ report' = None /\ disk' # None
  BY <1>1, <1>9, ReceiptsTypeKept, NoReportYet, ReceiptsConstants
<1> QED
  BY <1>9, <1>10, ReceiptsStopsInv

\* The bill moves from what may be spent to what is.
LEMMA ReceiptsAccountInv == ReceiptsIInv /\ Receipts!Account => ReceiptsIInv'
<1> SUFFICES ASSUME ReceiptsIInv, Receipts!Account PROVE ReceiptsIInv'
  OBVIOUS
<1>1. /\ receiptsAt = "validate" /\ Receipts!Category = None
      /\ spent' = spent + answer.cost /\ remaining' = remaining - Reserved[ordinal]
      /\ receiptsAt' \in {"accept", "failed"}
      /\ receiptsAt' = "accept" => spent' <= Receipts!Reservation /\ spent' <= MaxReview
      /\ UNCHANGED <<ordinal, data, disk, answer, ids, report, Receipts!upstream>>
  BY DEF Receipts!Account
<1>2. /\ ordinal \in Receipts!Calls /\ ordinal \in Nat /\ data \in Receipts!Journal /\ disk = data
      /\ ReceiptsIsUnderWay(ordinal) /\ receiptsAt \in Receipts!Live /\ disk # None
  BY <1>1, ReceiptsUnderWay DEF Receipts!Calling
<1>3. answer.cost = bills[ordinal] /\ bills[ordinal] \in Nat
  BY <1>1, NothingObjects
<1>4. spent \in Nat /\ bills' = bills /\ lookups' = lookups
  BY <1>1 DEF ReceiptsIInv, Receipts!TypeOK, Receipts!upstream
<1>5. Receipts!TypeOK' /\ report' = None
  BY <1>1, <1>3, <1>4, NoReportYet
     DEF ReceiptsIInv, Receipts!TypeOK, Receipts!Live, Receipts!Calling
<1>6. /\ Receipts!BillsAreJournaled' /\ Receipts!CallsStayReserved' /\ Receipts!LookedUpOnce'
      /\ disk' = None => \A i \in Receipts!Calls : ~Receipts!Sent(i)' /\ lookups'[i] = 0
  BY <1>1, ReceiptsSameReceipts
<1>7. CASE receiptsAt' = "failed"
  BY <1>5, <1>6, <1>7, ReceiptsStopsInv
<1>8. CASE receiptsAt' = "accept"
  <2>1. ReceiptsIsUnderWay(ordinal)'
    BY <1>1, <1>2, <1>4, <1>8 DEF ReceiptsIsUnderWay, Receipts!Sent, Receipts!Category
  <2>2. ReceiptsLiveInv'
    BY <1>1, <1>2, <1>4, <1>8, <2>1, ReceiptsStillLive DEF Receipts!Calling
  <2>3. /\ spent = Receipts!SumOf(bills, ordinal - 1)
        /\ remaining = Receipts!Reservation - Receipts!SumOf(Reserved, ordinal - 1)
        /\ Receipts!SumOf(bills, ordinal - 1) <= Receipts!SumOf(Reserved, ordinal - 1)
    BY <1>1, <1>2 DEF ReceiptsIInv, ReceiptsMoneyInv, ReceiptsAccounted, Receipts!Calling
  <2>4. ordinal - 1 \in Nat /\ (ordinal - 1) + 1 = ordinal
    BY <1>2, ReceiptsConstants
  <2>5. /\ Receipts!SumOf(bills, ordinal) = Receipts!SumOf(bills, ordinal - 1) + bills[ordinal]
        /\ Receipts!SumOf(Reserved, ordinal) =
               Receipts!SumOf(Reserved, ordinal - 1) + Reserved[ordinal]
    <3>1. /\ Receipts!SumOf(bills, (ordinal - 1) + 1) =
                 Receipts!SumOf(bills, ordinal - 1) + bills[(ordinal - 1) + 1]
          /\ Receipts!SumOf(Reserved, (ordinal - 1) + 1)
                 = Receipts!SumOf(Reserved, ordinal - 1) + Reserved[(ordinal - 1) + 1]
      BY <2>4, SumOfMore
    <3> QED
      BY <2>4, <3>1
  <2>6. Receipts!SumOf(Reserved, ordinal - 1) \in Nat /\ Reserved[ordinal] \in Nat
    <3>1. \A i \in 1 .. ordinal - 1 : Reserved[i] \in Nat
      BY <1>2, ReceiptsConstants
    <3> QED
      BY <1>2, <2>4, <3>1, SumIsNat, ReceiptsConstants
  <2>7. /\ spent' = Receipts!SumOf(bills, ordinal)
        /\ remaining' = Receipts!Reservation - Receipts!SumOf(Reserved, ordinal)
    BY <1>1, <1>3, <2>3, <2>5, <2>6, ReceiptsConstants
  <2>8. ReceiptsMoneyInv'
    BY <1>1, <1>4, <1>8, <2>3, <2>7 DEF ReceiptsMoneyInv, ReceiptsAccounted
  <2>9. ReceiptsPlanInv' /\ ReceiptsReportInv' /\ Receipts!ReportIsBacked'
            /\ Receipts!JournalIsValid'
    BY <1>1, <1>2, <1>5, <1>8
       DEF ReceiptsIInv, ReceiptsPlanInv, ReceiptsReportInv, Receipts!ReportIsBacked,
           Receipts!JournalIsValid
  <2> QED
    BY <1>5, <1>6, <2>2, <2>8, <2>9 DEF ReceiptsIInv, Receipts!ReceiptsAreTrue
<1> QED
  BY <1>1, <1>7, <1>8

LEMMA ReceiptsAcceptInv == ReceiptsIInv /\ Receipts!Accept => ReceiptsIInv'
<1> SUFFICES ASSUME ReceiptsIInv, Receipts!Accept PROVE ReceiptsIInv'
  OBVIOUS
<1> DEFINE receipt == [Receipts!Call EXCEPT !.output = "valid"]
           step == IF ordinal = Len(Reserved) THEN "finish" ELSE "intend"
<1>1. /\ receiptsAt = "accept" /\ Receipts!Update(receipt, step)
      /\ ids' = ids \cup {answer.id} /\ ordinal' = ordinal + 1
      /\ UNCHANGED <<Receipts!money, report, Receipts!upstream>>
  BY DEF Receipts!Accept
<1>2. receiptsAt \in Receipts!Calling
  BY <1>1 DEF Receipts!Calling
<1>3. /\ ordinal \in Receipts!Calls /\ ordinal \in Nat /\ data \in Receipts!Journal /\ disk = data
      /\ Receipts!Call \in Receipts!Receipt /\ ReceiptsIsUnderWay(ordinal)
             /\ receiptsAt \in Receipts!Live /\ disk # None
  BY <1>2, ReceiptsUnderWay
<1>4. /\ Receipts!Sent(ordinal) /\ lookups[ordinal] <= 1
             /\ answer.lookup \in Receipts!LookupStates
      /\ (answer.lookup = "not_eligible") = (answer.id = None) /\ Receipts!Category = None
  BY <1>1, <1>3 DEF ReceiptsIsUnderWay
<1>5. answer.cost = bills[ordinal] /\ answer.id \in GenerationIds /\ answer.id \notin ids
  BY <1>1, <1>4, NothingObjects
<1>6. /\ receipt \in Receipts!Receipt /\ receipt.transport = "response_received"
      /\ receipt.output = "valid" /\ receipt.category = None /\ receipt.id = answer.id
      /\ receipt.cost = answer.cost /\ receipt.lookup = answer.lookup
  BY <1>1, <1>3 DEF ReceiptsIsUnderWay, Receipts!Receipt, Receipts!Call
<1> HIDE DEF receipt, step
<1>7. /\ Receipts!CallIsValid(receipt)
             /\ receipt.lookup \notin {"awaiting_response", "not_eligible"}
  BY <1>4, <1>5, <1>6, ReceiptsConstants DEF Receipts!CallIsValid, Receipts!LookupStates
<1>8. /\ data' \in Receipts!Journal /\ data'.calls[ordinal] = receipt
      /\ \A i \in Receipts!Calls \ {ordinal} : data'.calls[i] = data.calls[i]
      /\ receiptsAt' = "failed" \/ (receiptsAt' = step /\ disk' = data')
      /\ disk' \in Receipts!Journal
      /\ Receipts!BillsAreJournaled' /\ Receipts!CallsStayReserved' /\ Receipts!LookedUpOnce'
  BY <1>1, <1>2, <1>5, <1>6, <1>7, UpdateOf
<1>9. UNCHANGED <<spent, remaining, bills, lookups>> /\ report' = None /\ disk' # None
  BY <1>1, <1>8, NoReportYet, ReceiptsConstants DEF Receipts!money, Receipts!upstream
<1>10. Receipts!TypeOK'
  BY <1>1, <1>3, <1>5, <1>8, <1>9, ReceiptsConstants
     DEF ReceiptsIInv, Receipts!TypeOK, step, Receipts!Live, Receipts!Calling
<1>11. CASE receiptsAt' = "failed"
  BY <1>8, <1>9, <1>10, <1>11, ReceiptsStopsInv
<1>12. CASE receiptsAt' = step /\ disk' = data'
  <2>1. receiptsAt' \in {"intend", "finish"}
            /\ (receiptsAt' = "intend" <=> ordinal + 1 \in Receipts!Calls)
    BY <1>3, <1>12, ReceiptsConstants DEF step
  <2>2. ASSUME NEW i \in Receipts!Calls, i < ordinal + 1
        PROVE  ReceiptsIsAccepted(i)'
    <3>1. CASE i = ordinal
      BY <1>1, <1>4, <1>5, <1>6, <1>7, <1>8, <1>9, <3>1 DEF ReceiptsIsAccepted, Receipts!Sent
    <3>2. CASE i # ordinal
      <4>1. ReceiptsIsAccepted(i)
        BY <1>3, <2>2, <3>2, ReceiptsConstants DEF ReceiptsIInv, ReceiptsLiveInv
      <4> QED
        BY <1>1, <1>8, <1>9, <3>2, <4>1 DEF ReceiptsIsAccepted, Receipts!Sent
    <3> QED
      BY <3>1, <3>2
  <2>3. ASSUME NEW i \in Receipts!Calls, NEW j \in Receipts!Calls, i < j, j < ordinal + 1
        PROVE  data'.calls[i].id # data'.calls[j].id
    <3>1. i < ordinal /\ i # ordinal /\ (j = ordinal \/ j < ordinal)
      BY <1>3, <2>3, ReceiptsConstants
    <3>2. CASE j = ordinal
      <4>1. data.calls[i].id \in ids
        BY <1>3, <3>1 DEF ReceiptsIInv, ReceiptsLiveInv, ReceiptsIsAccepted
      <4> QED
        BY <1>5, <1>6, <1>8, <3>1, <3>2, <4>1
    <3>3. CASE j < ordinal
      <4>1. data.calls[i].id # data.calls[j].id
        BY <1>3, <2>3, <3>3 DEF ReceiptsIInv, ReceiptsLiveInv
      <4>2. j # ordinal
        BY <1>3, <3>3, ReceiptsConstants
      <4> QED
        BY <1>8, <3>1, <4>1, <4>2
    <3> QED
      BY <3>1, <3>2, <3>3
  <2>4. ASSUME NEW i \in Receipts!Calls, ordinal < i
        PROVE  ReceiptsUntouched(i) /\ ReceiptsUntouched(i)'
                   /\ data'.calls[i] = Receipts!NotStarted
    <3>1. ReceiptsUntouched(i) /\ i # ordinal
      BY <1>3, <2>4, ReceiptsConstants DEF ReceiptsIInv, ReceiptsLiveInv
    <3> QED
      BY <1>8, <1>9, <3>1 DEF ReceiptsUntouched, Receipts!Sent, Receipts!NotStarted
  <2>5. ASSUME receiptsAt' = "intend" PROVE ReceiptsIsUnderWay(ordinal)'
    <3>1. ordinal + 1 \in Receipts!Calls /\ ordinal < ordinal + 1
      BY <1>3, <2>1, <2>5
    <3>2. data'.calls[ordinal'] = Receipts!NotStarted /\ ~Receipts!Sent(ordinal)'
              /\ lookups'[ordinal'] = 0
      BY <1>1, <2>4, <3>1 DEF ReceiptsUntouched, Receipts!Sent
    <3> QED
      BY <2>5, <3>2 DEF ReceiptsIsUnderWay, Receipts!NotStarted
  <2>6. ASSUME NEW i \in Receipts!Calls, ordinal' < i PROVE ReceiptsUntouched(i)'
    BY <1>1, <1>3, <2>4, <2>6, ReceiptsConstants
  <2>7. ReceiptsLiveInv'
    BY <1>1, <1>8, <1>12, <2>1, <2>2, <2>3, <2>5, <2>6 DEF ReceiptsLiveInv, Receipts!Calling
  <2>8. ReceiptsAccounted' = ordinal /\ ReceiptsAccounted = ordinal
    BY <1>1, <1>3, <2>1 DEF ReceiptsAccounted
  <2>9. ReceiptsMoneyInv'
    BY <1>3, <1>9, <2>1, <2>8 DEF ReceiptsIInv, ReceiptsMoneyInv, Receipts!Calling
  <2>10. ReceiptsPlanInv' /\ ReceiptsReportInv' /\ Receipts!ReportIsBacked'
             /\ Receipts!JournalIsValid'
    BY <1>1, <1>3, <1>9, <2>1
       DEF ReceiptsIInv, ReceiptsPlanInv, ReceiptsReportInv, Receipts!ReportIsBacked,
           Receipts!JournalIsValid
  <2> QED
    BY <1>8, <1>10, <2>7, <2>9, <2>10 DEF ReceiptsIInv, Receipts!ReceiptsAreTrue
<1> QED
  BY <1>8, <1>11, <1>12

\* Every call is accepted when the journal is finished.
LEMMA AllAccepted ==
    ASSUME ReceiptsIInv, receiptsAt \in {"finish", "report"}
    PROVE  /\ ordinal = Len(Reserved) + 1 /\ data \in Receipts!Journal /\ disk = data
           /\ \A i \in Receipts!Calls : ReceiptsIsAccepted(i)
           /\ \A i, j \in Receipts!Calls : i < j => data.calls[i].id # data.calls[j].id
           /\ receiptsAt \in Receipts!Live /\ disk # None
<1>1. /\ receiptsAt \in Receipts!Live /\ ~(receiptsAt \in Receipts!Calling)
  BY DEF Receipts!Live, Receipts!Calling
<1>2. ordinal \notin Receipts!Calls /\ data \in Receipts!Journal /\ disk = data
  BY <1>1 DEF ReceiptsIInv, ReceiptsLiveInv
<1>3. ordinal = Len(Reserved) + 1
  BY <1>2, ReceiptsConstants DEF ReceiptsIInv, Receipts!TypeOK
<1>4. \A i \in Receipts!Calls : i < ordinal
  BY <1>3, ReceiptsConstants
<1> QED
  BY <1>1, <1>2, <1>3, <1>4, ReceiptsConstants DEF ReceiptsIInv, ReceiptsLiveInv

LEMMA ReceiptsFinishInv == ReceiptsIInv /\ Receipts!Finish => ReceiptsIInv'
<1> SUFFICES ASSUME ReceiptsIInv, Receipts!Finish PROVE ReceiptsIInv'
  OBVIOUS
<1> DEFINE journal == [data EXCEPT !.finished = TRUE]
<1>1. /\ receiptsAt = "finish" /\ Receipts!Save(journal, "report")
      /\ UNCHANGED <<ordinal, answer, Receipts!money, ids, report, Receipts!upstream>>
  BY DEF Receipts!Finish
<1>2. /\ ordinal = Len(Reserved) + 1 /\ data \in Receipts!Journal /\ disk = data
      /\ \A i \in Receipts!Calls : ReceiptsIsAccepted(i)
      /\ \A i, j \in Receipts!Calls : i < j => data.calls[i].id # data.calls[j].id
      /\ receiptsAt \in Receipts!Live /\ disk # None
  BY <1>1, AllAccepted
<1>3. journal \in Receipts!Journal /\ journal.calls = data.calls /\ journal.finished
  BY <1>2 DEF Receipts!Journal
<1> HIDE DEF journal
<1>4. \A i \in Receipts!Calls : Receipts!CallIsValid(journal.calls[i])
  BY <1>2, <1>3, CallsAreValid
<1>5. /\ data' = journal
      /\ \/ receiptsAt' = "report" /\ disk' = journal
         \/ receiptsAt' = "failed" /\ disk' \in {disk, journal}
  BY <1>1, <1>4, SaveOf
<1>6. disk' \in Receipts!Journal /\ disk' # None /\ disk'.calls = disk.calls
  BY <1>2, <1>3, <1>5, ReceiptsConstants
<1>7. UNCHANGED <<spent, remaining, bills, lookups>> /\ report' = None
  BY <1>1, NoReportYet DEF Receipts!money, Receipts!upstream
<1>8. Receipts!TypeOK'
  BY <1>1, <1>5, <1>6, ReceiptsTypeKept DEF Receipts!Live, Receipts!Calling
<1>9. Receipts!BillsAreJournaled'
  BY <1>6, <1>7
     DEF ReceiptsIInv, Receipts!ReceiptsAreTrue, Receipts!BillsAreJournaled, Receipts!Sent
<1>10. Receipts!CallsStayReserved' /\ Receipts!LookedUpOnce'
  BY <1>6, <1>7
     DEF ReceiptsIInv, Receipts!ReceiptsAreTrue, Receipts!CallsStayReserved,
         Receipts!LookedUpOnce, Receipts!Sent
<1>11. CASE receiptsAt' = "failed"
  BY <1>6, <1>7, <1>8, <1>9, <1>10, <1>11, ReceiptsStopsInv
<1>12. CASE receiptsAt' = "report" /\ disk' = journal
  <2>1. \A i \in Receipts!Calls : ReceiptsIsAccepted(i)'
    BY <1>1, <1>2, <1>3, <1>5, <1>7 DEF ReceiptsIsAccepted, Receipts!Sent
  <2>2. ~(ordinal' \in Receipts!Calls) /\ \A i \in Receipts!Calls : ~(ordinal' < i)
    BY <1>1, <1>2, ReceiptsConstants
  <2>3. ReceiptsLiveInv'
    BY <1>2, <1>3, <1>5, <1>12, <2>1, <2>2 DEF ReceiptsLiveInv, Receipts!Calling
  <2>4. ReceiptsMoneyInv'
    BY <1>1, <1>2, <1>7, <1>12
       DEF ReceiptsIInv, ReceiptsMoneyInv, ReceiptsAccounted, Receipts!Calling
  <2>5. ReceiptsPlanInv' /\ ReceiptsReportInv' /\ Receipts!ReportIsBacked'
            /\ Receipts!JournalIsValid'
    BY <1>1, <1>2, <1>6, <1>7, <1>12
       DEF ReceiptsIInv, ReceiptsPlanInv, ReceiptsReportInv, Receipts!ReportIsBacked,
           Receipts!JournalIsValid
  <2> QED
    BY <1>8, <1>9, <1>10, <2>3, <2>4, <2>5 DEF ReceiptsIInv, Receipts!ReceiptsAreTrue
<1> QED
  BY <1>5, <1>11, <1>12

LEMMA ReceiptsReportStepInv == ReceiptsIInv /\ Receipts!Report => ReceiptsIInv'
<1> SUFFICES ASSUME ReceiptsIInv, Receipts!Report PROVE ReceiptsIInv'
  OBVIOUS
<1>1. /\ receiptsAt = "report"
      /\ \/ report' = spent /\ receiptsAt' = "done"
         \/ receiptsAt' = "failed" /\ UNCHANGED report
      /\ UNCHANGED <<ordinal, data, disk, answer, Receipts!money, ids, Receipts!upstream>>
  BY DEF Receipts!Report
<1>2. /\ ordinal = Len(Reserved) + 1 /\ data \in Receipts!Journal /\ disk = data
      /\ \A i \in Receipts!Calls : ReceiptsIsAccepted(i)
      /\ \A i, j \in Receipts!Calls : i < j => data.calls[i].id # data.calls[j].id
      /\ receiptsAt \in Receipts!Live /\ disk # None
  BY <1>1, AllAccepted
<1>3. Receipts!TypeOK'
  BY <1>1, ReceiptsTypeKept DEF ReceiptsIInv, Receipts!TypeOK
<1>4. /\ Receipts!BillsAreJournaled' /\ Receipts!CallsStayReserved' /\ Receipts!LookedUpOnce'
      /\ disk' = None => \A i \in Receipts!Calls : ~Receipts!Sent(i)' /\ lookups'[i] = 0
  BY <1>1, ReceiptsSameReceipts
<1>5. UNCHANGED <<spent, bills>>
  BY <1>1 DEF Receipts!money, Receipts!upstream
<1>6. CASE receiptsAt' = "failed" /\ UNCHANGED report
  <2>1. report' = None
    BY <1>1, <1>6, NoReportYet
  <2> QED
    BY <1>3, <1>4, <1>6, <2>1, ReceiptsStopsInv
<1>7. CASE report' = spent /\ receiptsAt' = "done"
  <2>1. /\ spent = Receipts!SumOf(bills, Len(Reserved)) /\ spent <= Receipts!Reservation
               /\ spent <= MaxReview
    <3>1. ReceiptsAccounted = Len(Reserved)
      BY <1>1, <1>2, ReceiptsConstants DEF ReceiptsAccounted
    <3> QED
      BY <1>2, <3>1 DEF ReceiptsIInv, ReceiptsMoneyInv
  <2>2. disk.finished
    BY <1>1, <1>2 DEF ReceiptsIInv, ReceiptsLiveInv
  <2>3. \A i, j \in Receipts!Calls : disk.calls[i].id = disk.calls[j].id => i = j
    BY <1>2, ReceiptsConstants
  <2>4. \A i \in Receipts!Calls : disk.calls[i].output = "valid"
    BY <1>2 DEF ReceiptsIsAccepted
  <2>5. Receipts!ReportIsBacked'
    BY <1>1, <1>5, <1>7, <2>1, <2>2, <2>3, <2>4 DEF Receipts!ReportIsBacked
  <2>6. ReceiptsPlanInv' /\ ReceiptsLiveInv' /\ ReceiptsMoneyInv' /\ ReceiptsReportInv'
            /\ Receipts!JournalIsValid'
    BY <1>1, <1>2, <1>7
       DEF ReceiptsPlanInv, ReceiptsLiveInv, ReceiptsMoneyInv, ReceiptsReportInv,
           Receipts!JournalIsValid, Receipts!Live, Receipts!Calling
  <2> QED
    BY <1>3, <1>4, <2>5, <2>6 DEF ReceiptsIInv, Receipts!ReceiptsAreTrue
<1> QED
  BY <1>1, <1>6, <1>7

LEMMA ReceiptsDieInv == ReceiptsIInv /\ Receipts!Die => ReceiptsIInv'
<1> SUFFICES ASSUME ReceiptsIInv, Receipts!Die PROVE ReceiptsIInv'
  OBVIOUS
<1>1. /\ receiptsAt # "done" /\ receiptsAt' = "dead"
      /\ UNCHANGED <<ordinal, disk, Receipts!money, ids, report, Receipts!upstream>>
  BY DEF Receipts!Die
<1>2. Receipts!TypeOK' /\ report' = None
  BY <1>1, ReceiptsTypeKept, NoReportYet DEF ReceiptsIInv, Receipts!TypeOK
<1> QED
  BY <1>1, <1>2, ReceiptsSameReceipts, ReceiptsStopsInv

LEMMA ReceiptsStaysInv == ReceiptsIInv /\ UNCHANGED Receipts!vars => ReceiptsIInv'
<1> SUFFICES ASSUME ReceiptsIInv, UNCHANGED Receipts!vars PROVE ReceiptsIInv'
  OBVIOUS
<1>1. /\ UNCHANGED <<receiptsAt, ordinal, data, disk, answer, spent, remaining, ids, report>>
      /\ UNCHANGED <<bills, lookups>>
  BY DEF Receipts!vars, Receipts!money, Receipts!upstream
<1>2. Receipts!TypeOK' /\ ReceiptsPlanInv' /\ ReceiptsReportInv'
  BY <1>1
     DEF ReceiptsIInv, Receipts!TypeOK, ReceiptsPlanInv, ReceiptsReportInv, Receipts!Sent
<1>3. ReceiptsLiveInv'
  <2>1. \A i \in Receipts!Calls : (ReceiptsIsAccepted(i)' <=> ReceiptsIsAccepted(i))
            /\ (ReceiptsUntouched(i)' <=> ReceiptsUntouched(i))
    BY <1>1 DEF ReceiptsIsAccepted, ReceiptsUntouched, Receipts!NotStarted, Receipts!Sent
  <2>2. ReceiptsIsUnderWay(ordinal)' <=> ReceiptsIsUnderWay(ordinal)
    BY <1>1 DEF ReceiptsIsUnderWay, Receipts!Sent, Receipts!Category
  <2> QED
    BY <1>1, <2>1, <2>2 DEF ReceiptsIInv, ReceiptsLiveInv
<1>4. ReceiptsMoneyInv'
  BY <1>1 DEF ReceiptsIInv, ReceiptsMoneyInv, ReceiptsAccounted
<1>5. Receipts!BillsAreJournaled' /\ Receipts!CallsStayReserved' /\ Receipts!LookedUpOnce'
  BY <1>1, ReceiptsSameReceipts DEF Receipts!upstream
<1>6. Receipts!ReportIsBacked' /\ Receipts!JournalIsValid'
  BY <1>1
     DEF ReceiptsIInv, Receipts!ReceiptsAreTrue, Receipts!ReportIsBacked,
         Receipts!JournalIsValid
<1> QED
  BY <1>2, <1>3, <1>4, <1>5, <1>6 DEF ReceiptsIInv, Receipts!ReceiptsAreTrue

LEMMA ReceiptsInvNext == ReceiptsIInv /\ [Receipts!Next]_Receipts!vars => ReceiptsIInv'
BY ReceiptsStaysInv, ReceiptsReserveInv, ReceiptsPlanStepInv, ReceiptsIntendInv,
   ReceiptsSendInv, ReceiptsObserveInv, ReceiptsReadInv, ReceiptsIntendLookupInv,
   ReceiptsLookupInv, ReceiptsRecordLookupInv, ReceiptsRejectInv, ReceiptsAccountInv,
   ReceiptsAcceptInv, ReceiptsFinishInv, ReceiptsReportStepInv, ReceiptsDieInv
   DEF Receipts!Next

LEMMA ReceiptsRuns == ToolSpec => [](tool = "Receipts" => ReceiptsIInv)
<1> DEFINE Inv == tool = "Receipts" => ReceiptsIInv
<1>1. ToolInit => Inv
  BY ReceiptsInvInit DEF ToolInit
<1>2. Inv /\ [ToolStep]_toolVars => Inv'
  <2> SUFFICES ASSUME Inv, [ToolStep]_toolVars, tool' = "Receipts"
               PROVE  ReceiptsIInv'
    OBVIOUS
  <2>1. tool = "Receipts" /\ [Receipts!Next]_Receipts!vars
    BY DEF ToolStep, toolVars, receiptsVars, Receipts!vars, Receipts!money, Receipts!upstream
  <2> QED
    BY <2>1, ReceiptsInvNext
<1> HIDE DEF Inv
<1>3. ToolSpec => []Inv
  BY <1>1, <1>2, PTL DEF ToolSpec
<1> QED
  BY <1>3 DEF Inv

\* Whatever fails and whenever the runner dies, the journal on disk knows every
\* request that may have been billed, no call is paid from the reservation of
\* another, none is looked up twice, and a report states what was billed: for any
\* number of calls, reservations, limits and bills.
THEOREM JournalKnowsTheBills == ToolSpec => []ReceiptsAreTrue
<1>1. (tool = "Receipts" => ReceiptsIInv) => ReceiptsAreTrue
  BY DEF ReceiptsAreTrue, ReceiptsIInv
<1> QED
  BY <1>1, ReceiptsRuns, PTL

=============================================================================
