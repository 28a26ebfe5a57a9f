--------------------------- MODULE ReceiptJournal ---------------------------
(***************************************************************************)
(* scripts/pr_review_agent.py, review_snapshot, with the ReceiptJournal of  *)
(* pr_review_receipts.py: paid calls to two models, one after another,      *)
(* against a reservation made before the first.  Every step of a call is    *)
(* written to the journal before the next, as a write can fail and the      *)
(* runner can die at any time; the journal is all that is left then.        *)
(***************************************************************************)
EXTENDS Naturals, Sequences, FiniteSets

CONSTANTS
    Reserved,  \* what each planned call reserves, in the order of the calls
    MaxReview, \* policy: max_review_usd
    KeyLimits, \* what the key may have left
    Bills,     \* what a request may be billed, nothing (0) included
    Ids,       \* generation identifiers
    None

VARIABLES
    pc,       \* the next step of review_snapshot
    ordinal,  \* the call it is at
    data,     \* the journal in memory
    disk,     \* the journal on disk
    answer,   \* the response to the call
    spent, remaining, \* the bills accepted, the reservations of the calls left
    ids,      \* generation_ids
    report,   \* the spent_usd of the report on disk
    bills,    \* OpenRouter: what each request was billed
    lookups   \* OpenRouter: how often each call was looked up

money == <<spent, remaining>>
upstream == <<bills, lookups>>
vars == <<pc, ordinal, data, disk, answer, money, ids, report, upstream>>

-----------------------------------------------------------------------------

Calls == DOMAIN Reserved

\* What the first n of some amounts add up to.
SumOf(amounts, n) ==
    LET total[k \in 0 .. n] == IF k = 0 THEN 0 ELSE total[k - 1] + amounts[k]
    IN  total[n]

\* reservation: what all the calls may cost.
Reservation == SumOf(Reserved, Len(Reserved))

NotStarted ==
    [transport |-> "not_started", output |-> "not_checked", category |-> None,
     id |-> None, cost |-> None, lookup |-> "awaiting_response"]

Init ==
    /\ pc = "reserve" /\ ordinal = 1
    /\ data = None /\ disk = None /\ answer = None
    /\ spent = 0 /\ remaining = Reservation /\ ids = {}
    /\ report = None
    /\ bills = [i \in Calls |-> None] /\ lookups = [i \in Calls |-> 0]

-----------------------------------------------------------------------------
(* The journal *)

\* What save and validate_lookup require of every call.
CallIsValid(c) ==
    /\ \/ c.output \in {"not_checked", "valid"} /\ c.category = None
       \/ /\ c.transport = "response_received"
          /\ \/ c.output = "invalid" /\ c.category \in {"completion_contract", "strict_schema"}
             \/ c.output = "indeterminate" /\ c.category = "unexpected_runtime"
    /\ c.lookup # "awaiting_response" => c.transport = "response_received"
    /\ c.lookup = "not_eligible" => c.id = None
    /\ c.lookup \notin {"awaiting_response", "not_eligible"} => c.id # None

\* The file is replaced as a whole; a failure leaves the old one or, when only
\* the directory could not be synchronised, the new one.
Save(journal, step) ==
    /\ data' = journal
    /\ IF \E i \in Calls : ~CallIsValid(journal.calls[i])
       THEN pc' = "invalid_receipt" /\ UNCHANGED disk
       ELSE \/ pc' = step /\ disk' = journal
            \/ pc' = "failed" /\ disk' \in {disk, journal}

Call == data.calls[ordinal]

Update(call, step) == Save([data EXCEPT !.calls[ordinal] = call], step)

-----------------------------------------------------------------------------
(* review_snapshot *)

\* reserve_budget: the reservation fits the policy and what the key has left.
Reserve ==
    /\ pc = "reserve"
    /\ \E left \in KeyLimits :
         pc' = IF Reservation <= MaxReview /\ Reservation <= left THEN "plan" ELSE "failed"
    /\ UNCHANGED <<ordinal, data, disk, answer, money, ids, report, upstream>>

Plan ==
    /\ pc = "plan"
    /\ Save([calls |-> [i \in Calls |-> NotStarted], finished |-> FALSE], "intend")
    /\ UNCHANGED <<ordinal, answer, money, ids, report, upstream>>

\* Mutant: the intention is in memory when the request is sent.
IntendUnsaved ==
    /\ pc = "intend"
    /\ IF spent + remaining > Reservation
       THEN pc' = "failed" /\ UNCHANGED data
       ELSE /\ pc' = "send"
            /\ data' = [data EXCEPT !.calls[ordinal].transport = "request_intended"]
    /\ UNCHANGED <<ordinal, disk, answer, money, ids, report, upstream>>

\* What is spent must leave the reservations of the calls to come alone.
Intend ==
    /\ pc = "intend"
    /\ IF spent + remaining > Reservation
       THEN pc' = "failed" /\ UNCHANGED <<data, disk>>
       ELSE Update([Call EXCEPT !.transport = "request_intended"], "send")
    /\ UNCHANGED <<ordinal, answer, money, ids, report, upstream>>

Contents == {"good", "bad_choices", "odd_choices", "bad_text", "odd_text"}

\* What can come back: an envelope that is no JSON or an HTTP error, or a
\* response, with the bill or without, whose choices or whose text may be
\* refused or of a type that nothing foresaw.
Responses(bill) ==
    [readable : {FALSE}]
    \cup [readable : {TRUE}, id : Ids \cup {None}, cost : {bill, None}, lookup : {None},
          matches : BOOLEAN, content : Contents]

\* The request is billed or not, whether an answer arrives or not.
Send ==
    /\ pc = "send"
    /\ \E bill \in Bills :
         /\ bills' = [bills EXCEPT ![ordinal] = bill]
         /\ \/ pc' = "failed" /\ UNCHANGED answer
            \/ pc' = "observe" /\ answer' \in Responses(bill)
    /\ UNCHANGED <<ordinal, data, disk, money, ids, report, lookups>>

\* response_observer, before the envelope is read.
Observe ==
    /\ pc = "observe"
    /\ Update([Call EXCEPT !.transport = "response_observed"], "read")
    /\ UNCHANGED <<ordinal, answer, money, ids, report, upstream>>

Read ==
    /\ pc = "read"
    /\ IF answer.readable
       THEN Update([Call EXCEPT !.transport = "response_received", !.id = answer.id,
                                !.cost = answer.cost], "intend_lookup")
       ELSE pc' = "failed" /\ UNCHANGED <<data, disk>>
    /\ UNCHANGED <<ordinal, answer, money, ids, report, upstream>>

IntendLookup ==
    /\ pc = "intend_lookup"
    /\ Update([Call EXCEPT !.lookup =
                   IF answer.id = None THEN "not_eligible" ELSE "lookup_intended"], "lookup")
    /\ UNCHANGED <<ordinal, answer, money, ids, report, upstream>>

LookupStates == {"not_eligible", "attempted_unavailable", "attempted_rejected", "verified"}

\* generation_metadata: a call without a valid identifier, or with an identity
\* that is not the planned one, is not looked up.
Lookup ==
    /\ pc = "lookup" /\ pc' = "record_lookup"
    /\ \E state \in LookupStates :
         /\ (state = "not_eligible") = (answer.id = None)
         /\ answer' = [answer EXCEPT !.lookup = state]
         /\ \/ state # "not_eligible" /\ lookups' = [lookups EXCEPT ![ordinal] = @ + 1]
            \/ /\ state = "not_eligible" \/ (state = "attempted_rejected" /\ ~answer.matches)
               /\ UNCHANGED lookups
    /\ UNCHANGED <<ordinal, data, disk, money, ids, report, bills>>

RecordLookup ==
    /\ pc = "record_lookup"
    /\ Update([Call EXCEPT !.lookup = answer.lookup], "validate")
    /\ UNCHANGED <<ordinal, answer, money, ids, report, upstream>>

\* validate_completion, the identifier, the parser: the first that objects.
Category ==
    IF ~answer.matches THEN "completion_contract"
    ELSE IF answer.content = "odd_choices" THEN "unexpected_runtime"
    ELSE IF answer.content = "bad_choices" \/ answer.cost = None \/ answer.id \in ids \cup {None}
    THEN "completion_contract"
    ELSE IF answer.content = "odd_text" THEN "unexpected_runtime"
    ELSE IF answer.content = "bad_text" THEN "strict_schema"
    ELSE None

Reject ==
    /\ pc = "validate" /\ Category # None
    /\ Update([Call EXCEPT
                   !.output = IF Category = "unexpected_runtime" THEN "indeterminate" ELSE "invalid",
                   !.category = Category], "failed")
    /\ UNCHANGED <<ordinal, answer, money, ids, report, upstream>>

\* The bill of a valid response is accounted before the response is accepted.
Account ==
    /\ pc = "validate" /\ Category = None
    /\ spent' = spent + answer.cost
    /\ remaining' = remaining - Reserved[ordinal]
    /\ pc' = IF spent' <= Reservation /\ spent' <= MaxReview THEN "accept" ELSE "failed"
    /\ UNCHANGED <<ordinal, data, disk, answer, ids, report, upstream>>

Accept ==
    /\ pc = "accept"
    /\ ids' = ids \cup {answer.id}
    /\ Update([Call EXCEPT !.output = "valid"], IF ordinal = Len(Reserved) THEN "finish" ELSE "intend")
    /\ ordinal' = ordinal + 1
    /\ answer' = None
    /\ UNCHANGED <<money, report, upstream>>

Finish ==
    /\ pc = "finish"
    /\ Save([data EXCEPT !.finished = TRUE], "report")
    /\ UNCHANGED <<ordinal, answer, money, ids, report, upstream>>

\* write_report
Report ==
    /\ pc = "report"
    /\ \/ report' = spent /\ pc' = "done"
       \/ pc' = "failed" /\ UNCHANGED report
    /\ UNCHANGED <<ordinal, data, disk, answer, money, ids, upstream>>

\* The runner dies or the job is cancelled; what was in memory is gone.
Die ==
    /\ pc \notin {"failed", "invalid_receipt", "done", "dead"}
    /\ pc' = "dead" /\ data' = None /\ answer' = None
    /\ UNCHANGED <<ordinal, disk, money, ids, report, upstream>>

Next ==
    \/ Reserve \/ Plan \/ Intend \/ Send \/ Observe \/ Read
    \/ IntendLookup \/ Lookup \/ RecordLookup \/ Reject \/ Account \/ Accept
    \/ Finish \/ Report \/ Die

Spec == Init /\ [][Next]_vars

-----------------------------------------------------------------------------
(* Properties, of what is on disk whenever the runner dies *)

Sent(i) == bills[i] # None

\* A request that may have been billed is in the journal, whatever failed after
\* it was sent; a bill that the journal knows is the bill, never a guess; and
\* all requests but the last are accepted ones whose bills it knows ("saves a
\* bounded journal before each intended paid request", docs/pr-review.md
\* 296-307).
BillsAreJournaled ==
    \A i \in Calls : Sent(i) =>
        /\ disk # None /\ disk.calls[i].transport # "not_started"
        /\ disk.calls[i].cost \in {None, bills[i]}
        /\ (\E j \in Calls : j > i /\ Sent(j)) =>
               disk.calls[i].output = "valid" /\ disk.calls[i].cost = bills[i]

\* However the bills fall, only the last request can exceed what was reserved:
\* those before it were within the reservations of their own calls, so that no
\* call is ever paid from another one's (review_snapshot 256, 291-292).
CallsStayReserved ==
    \A j \in Calls : Sent(j) =>
        SumOf(bills, j - 1) <= SumOf(Reserved, j - 1)

\* A call is looked up once at most, after its receipt is durable.
LookedUpOnce ==
    \A i \in Calls : lookups[i] > 0 =>
        /\ lookups[i] = 1
        /\ disk.calls[i].transport = "response_received"
        /\ disk.calls[i].lookup # "awaiting_response"

\* "The final journal write must succeed before a complete report is written":
\* a report stands on a finished journal of valid calls with identifiers of
\* their own, and states exactly what they were billed (docs/pr-review.md
\* 338-342).
ReportIsBacked ==
    report # None =>
        /\ disk.finished
        /\ \A i \in Calls : disk.calls[i].output = "valid"
        /\ \A i, j \in Calls : disk.calls[i].id = disk.calls[j].id => i = j
        /\ report = SumOf(bills, Len(Reserved)) /\ report <= Reservation /\ report <= MaxReview

\* No sequence of steps arrives at a journal that save refuses.
JournalIsValid == pc # "invalid_receipt"

\* What the receipts are good for.
ReceiptsAreTrue ==
    BillsAreJournaled /\ CallsStayReserved /\ LookedUpOnce /\ ReportIsBacked /\ JournalIsValid

-----------------------------------------------------------------------------
(* What the proofs assume of the constants, and what the variables hold.     *)

Receipt ==
    [transport : {"not_started", "request_intended", "response_observed", "response_received"},
     output : {"not_checked", "valid", "invalid", "indeterminate"},
     category : {None, "completion_contract", "strict_schema", "unexpected_runtime"},
     id : Ids \cup {None}, cost : Bills \cup {None},
     lookup : {"awaiting_response", "lookup_intended", "not_eligible", "attempted_unavailable",
               "attempted_rejected", "verified"}]

Journal == [calls : [Calls -> Receipt], finished : BOOLEAN]

\* There is a call to make, and None is nothing else.
ReceiptAssumption ==
    /\ Reserved \in Seq(Nat) /\ Reserved # <<>>
    /\ MaxReview \in Nat /\ Bills \subseteq Nat
    /\ None \notin Nat \cup Ids \cup Journal
    /\ None \notin {"completion_contract", "strict_schema", "unexpected_runtime"}

\* The steps of one call, and all that follow the first write of the journal.
Calling ==
    {"intend", "send", "observe", "read", "intend_lookup", "lookup", "record_lookup",
     "validate", "accept"}
Live == Calling \cup {"finish", "report"}

TypeOK ==
    /\ pc \in Live \cup {"reserve", "plan", "failed", "invalid_receipt", "done", "dead"}
    /\ ordinal \in 1 .. Len(Reserved) + 1
    /\ disk \in Journal \cup {None}
    /\ spent \in Nat /\ ids \subseteq Ids
    /\ bills \in [Calls -> Bills \cup {None}]
    /\ lookups \in [Calls -> Nat]

=============================================================================
