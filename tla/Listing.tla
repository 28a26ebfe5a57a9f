------------------------------- MODULE Listing -------------------------------
(***************************************************************************)
(* read_pages and paginate of src/required_checks.rs (and of its twin,      *)
(* scripts/required_checks.py): a paginated GitHub listing is read while    *)
(* runs and jobs appear in it and vanish from it.  A page is served by      *)
(* offset, so an entry that appears or vanishes between two pages shifts    *)
(* the others across the page boundary: one may be read twice or never.     *)
(* The reader has no other defence than to count, and to read it all again. *)
(***************************************************************************)
EXTENDS Naturals, Sequences, FiniteSets

CONSTANTS
    Ids,      \* the ids GitHub gives to entries; an id is never given again
    PageSize, \* per_page=100
    MaxTries  \* the 0..3 of paginate

ASSUME ListingAssumption ==
    /\ IsFiniteSet(Ids)
    /\ PageSize \in Nat \ {0}
    /\ MaxTries \in Nat \ {0}

VARIABLES
    listing, \* GitHub: the entries in the order they are served
    gone,    \* GitHub: ids that were listed and are no longer
    pc,      \* "reading", "returned", "changed" (gave up) or "failed" (an error)
    try,     \* rounds of paginate's loop begun
    second,  \* is this the second reading of the round?
    page,    \* the page read_pages asks for next
    total,   \* total_count of the reading's first page
    seen,    \* ids read so far in this reading
    first,   \* what the round's first reading returned
    snapshot \* history: what was listed when the reading's page 1 was served

github == <<listing, gone>>
reader == <<pc, try, second, page, total, seen, first, snapshot>>
vars   == <<github, reader>>

Entries(s) == {s[k] : k \in DOMAIN s}

Distinct(s) == \A j, k \in DOMAIN s : s[j] = s[k] => j = k

TypeOK ==
    /\ listing \in Seq(Ids)
    /\ gone \in SUBSET Ids
    /\ pc \in {"reading", "returned", "changed", "failed"}
    /\ try \in 1 .. MaxTries
    /\ second \in BOOLEAN
    /\ page \in Nat \ {0}
    /\ total \in Nat
    /\ seen \in Seq(Ids)
    /\ first \in Seq(Ids)
    /\ snapshot \in SUBSET Ids

Init ==
    /\ listing \in {s \in UNION {[1 .. n -> Ids] : n \in 0 .. Cardinality(Ids)} : Distinct(s)}
    /\ gone = {}
    /\ pc = "reading"
    /\ try = 1
    /\ second = FALSE
    /\ page = 1
    /\ total = 0
    /\ seen = <<>>
    /\ first = <<>>
    /\ snapshot = {}

-----------------------------------------------------------------------------
(* The reader *)

Least(a, b) == IF a <= b THEN a ELSE b

\* The entries GitHub serves as page p.
Page(p) == SubSeq(listing, (p - 1) * PageSize + 1, Least(p * PageSize, Len(listing)))

\* The tests at the end of a reading: distinct ids, as many as announced.
Consistent(ids, count) ==
    /\ Cardinality(Entries(ids)) = Len(ids)
    /\ Len(ids) = count

StartReading ==
    /\ page' = 1
    /\ total' = 0
    /\ seen' = <<>>

\* read_pages returned None, or the two readings differ.
Retry ==
    /\ StartReading
    /\ second' = FALSE
    /\ first' = <<>>
    /\ \/ try < MaxTries /\ try' = try + 1 /\ UNCHANGED pc
       \/ try = MaxTries /\ pc' = "changed" /\ UNCHANGED try

\* A full page: go on to the next, unless the count moved since page 1.
NextPage ==
    /\ pc = "reading"
    /\ Len(Page(page)) = PageSize
    /\ IF page > 1 /\ Len(listing) # total
         THEN Retry /\ UNCHANGED snapshot
         ELSE /\ page' = page + 1
              /\ total' = IF page = 1 THEN Len(listing) ELSE total
              /\ seen' = seen \o Page(page)
              /\ snapshot' = IF page = 1 THEN Entries(listing) ELSE snapshot
              /\ UNCHANGED <<pc, try, second, first>>
    /\ UNCHANGED github

Announced == IF page = 1 THEN Len(listing) ELSE total

\* Mutant: one consistent reading is enough.
FinishOnce ==
    /\ pc' = "returned"
    /\ first' = seen \o Page(page)
    /\ UNCHANGED <<try, second, page, total, seen>>

\* A consistent reading ends: read again, return, or start over.
Finish ==
    \/ /\ ~second
       /\ second' = TRUE
       /\ first' = seen \o Page(page)
       /\ StartReading
       /\ UNCHANGED <<pc, try>>
    \/ /\ second
       /\ first = seen \o Page(page)
       /\ pc' = "returned"
       /\ seen' = first
       /\ UNCHANGED <<try, second, page, total, first>>
    \/ /\ second
       /\ first # seen \o Page(page)
       /\ Retry

\* A short page ends the reading.
LastPage ==
    /\ pc = "reading"
    /\ Len(Page(page)) < PageSize
    /\ IF Len(listing) = Announced /\ Consistent(seen \o Page(page), Announced)
         THEN Finish
         ELSE Retry
    /\ snapshot' = IF page = 1 THEN Entries(listing) ELSE snapshot
    /\ UNCHANGED github

\* A call fails, or its answer cannot be read in full.
FetchFails ==
    /\ pc = "reading"
    /\ pc' = "failed"
    /\ UNCHANGED <<github, try, second, page, total, seen, first, snapshot>>

-----------------------------------------------------------------------------
(* GitHub *)

Observed ==
    /\ UNCHANGED <<pc, try, second, page, total, seen, first, snapshot>>

Insert(s, k, id) == SubSeq(s, 1, k) \o <<id>> \o SubSeq(s, k + 1, Len(s))

WithoutAt(s, k) == SubSeq(s, 1, k - 1) \o SubSeq(s, k + 1, Len(s))

\* A new run or job takes its place anywhere in the order.
Appears(id, k) ==
    /\ id \notin Entries(listing) \cup gone
    /\ listing' = Insert(listing, k, id)
    /\ UNCHANGED gone
    /\ Observed

\* A run is deleted, or a job superseded by that of a later attempt.
Vanishes(k) ==
    /\ gone' = gone \cup {listing[k]}
    /\ listing' = WithoutAt(listing, k)
    /\ Observed

-----------------------------------------------------------------------------

Read == NextPage \/ LastPage

Changes ==
    \/ \E id \in Ids : \E k \in 0 .. Len(listing) : Appears(id, k)
    \/ \E k \in DOMAIN listing : Vanishes(k)

Next == Read \/ FetchFails \/ Changes

Spec == Init /\ [][Next]_vars

-----------------------------------------------------------------------------
(* Properties *)

\* What paginate returns was listed, whole and nothing else, at one instant of
\* the call: the moment the second reading began.  Neither the count, nor the
\* distinct ids, nor the second reading alone would give that (lines 178-211).
ReturnsASnapshot == pc = "returned" => Entries(first) = snapshot

=============================================================================
