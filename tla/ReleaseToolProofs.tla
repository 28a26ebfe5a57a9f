-------------------------- MODULE ReleaseToolProofs --------------------------
(***************************************************************************)
(* The tools of a release: the reading of a GitHub listing, for every page  *)
(* size, every number of tries and every way the listing changes while it   *)
(* is read; the building of archives, for any trees and moves of the        *)
(* branch; the creation and verification of a candidate, for any contexts,  *)
(* payloads and changes of its files; the scan for what must not leave, for *)
(* any tree and terms; the pin families of any two trees; and the exit      *)
(* status of any command, for any size of the buffer and broken streams.    *)
(***************************************************************************)
EXTENDS Tools, SequencesExt, FiniteSetTheorems, FunctionTheorems, SequenceTheorems, TLAPS

-----------------------------------------------------------------------------
(* The inductive invariant of a listing.                                     *)

\* What the reading knows.  An entry of the first reading that is no longer
\* listed when the second begins is gone for good, so the second cannot see it.
ReadingInv ==
    /\ Distinct(listing)
    /\ Entries(listing) \cap gone = {}
    /\ Entries(seen) \subseteq Entries(listing) \cup gone
    /\ Entries(first) \subseteq Entries(listing) \cup gone
    /\ pc = "reading" /\ page = 1 => seen = <<>>
    /\ page > 1 => Cardinality(snapshot) = total
    /\ second /\ page > 1 =>
         \A id \in Entries(first) : id \in snapshot \/ id \in gone \ Entries(seen)

\* The invariant the proofs rest on.
IInv == TypeOK /\ ReadingInv /\ ReturnsASnapshot

-----------------------------------------------------------------------------
(* Listing.                                                                  *)

\* The entries of two readings put together.
LEMMA EntriesOfConcat ==
  ASSUME NEW S, NEW s \in Seq(S), NEW t \in Seq(S)
  PROVE  /\ s \o t \in Seq(S)
         /\ Entries(s \o t) = Entries(s) \cup Entries(t)
<1>1. /\ s \o t \in Seq(S)
      /\ Len(s \o t) = Len(s) + Len(t)
      /\ \A i \in 1 .. Len(s) + Len(t) : (s \o t)[i] =
             IF i <= Len(s) THEN s[i] ELSE t[i - Len(s)]
  BY ConcatProperties
<1>2. /\ Len(s) \in Nat /\ DOMAIN s = 1 .. Len(s)
      /\ Len(t) \in Nat /\ DOMAIN t = 1 .. Len(t)
      /\ DOMAIN (s \o t) = 1 .. Len(s) + Len(t)
  BY <1>1, LenProperties
<1>3. ASSUME NEW x \in Entries(s \o t) PROVE x \in Entries(s) \cup Entries(t)
  <2>1. PICK i \in 1 .. Len(s) + Len(t) : (s \o t)[i] = x  BY <1>2, <1>3 DEF Entries
  <2>2. CASE i <= Len(s)  BY <1>1, <1>2, <2>1, <2>2 DEF Entries
  <2>3. CASE ~(i <= Len(s))
    <3>1. i - Len(s) \in DOMAIN t  BY <1>2, <2>1, <2>3
    <3>2. x = t[i - Len(s)]  BY <1>1, <2>1, <2>3
    <3>3. QED  BY <3>1, <3>2 DEF Entries
  <2>4. QED  BY <2>2, <2>3
<1>4. ASSUME NEW x \in Entries(s) PROVE x \in Entries(s \o t)
  <2>1. PICK i \in 1 .. Len(s) : s[i] = x  BY <1>2, <1>4 DEF Entries
  <2>2. i \in DOMAIN (s \o t) /\ (s \o t)[i] = x  BY <1>1, <1>2, <2>1
  <2>3. QED  BY <2>2 DEF Entries
<1>5. ASSUME NEW x \in Entries(t) PROVE x \in Entries(s \o t)
  <2>1. PICK i \in 1 .. Len(t) : t[i] = x  BY <1>2, <1>5 DEF Entries
  <2>2. i + Len(s) \in DOMAIN (s \o t) /\ (s \o t)[i + Len(s)] = x
    BY <1>1, <1>2, <2>1
  <2>3. QED  BY <2>2 DEF Entries
<1>6. QED  BY <1>1, <1>3, <1>4, <1>5

\* A slice that ends within a sequence shows entries of it.
LEMMA EntriesOfSlice ==
  ASSUME NEW S, NEW s \in Seq(S), NEW m \in Nat \ {0}, NEW n \in Int, n <= Len(s)
  PROVE  /\ SubSeq(s, m, n) \in Seq(S)
         /\ Len(SubSeq(s, m, n)) = IF m <= n THEN n - m + 1 ELSE 0
         /\ \A i \in 1 .. n - m + 1 : SubSeq(s, m, n)[i] = s[m + i - 1]
         /\ Entries(SubSeq(s, m, n)) = {s[i] : i \in m .. n}
<1>1. Len(s) \in Nat /\ DOMAIN s = 1 .. Len(s) /\ \A i \in m .. n : s[i] \in S
  BY ElementOfSeq, LenProperties
<1>2. /\ SubSeq(s, m, n) \in Seq(S)
      /\ Len(SubSeq(s, m, n)) = IF m <= n THEN n - m + 1 ELSE 0
      /\ \A i \in 1 .. n - m + 1 : SubSeq(s, m, n)[i] = s[m + i - 1]
  BY <1>1, SubSeqProperties
<1>3. DOMAIN SubSeq(s, m, n) = 1 .. n - m + 1  BY <1>2, LenProperties
<1>4. ASSUME NEW i \in 1 .. n - m + 1 PROVE SubSeq(s, m, n)[i] \in {s[k] : k \in m .. n}
  <2>1. m + i - 1 \in m .. n  OBVIOUS
  <2>2. QED  BY <2>1, <1>2
<1>5. ASSUME NEW k \in m .. n PROVE s[k] \in Entries(SubSeq(s, m, n))
  <2>1. k - m + 1 \in 1 .. n - m + 1 /\ m + (k - m + 1) - 1 = k  OBVIOUS
  <2>2. SubSeq(s, m, n)[k - m + 1] = s[k]  BY <2>1, <1>2
  <2>3. QED  BY <2>1, <2>2, <1>3 DEF Entries
<1>6. QED  BY <1>2, <1>3, <1>4, <1>5 DEF Entries

\* A listing without repetition has as many entries as places.
LEMMA DistinctCount ==
  ASSUME NEW s \in Seq(Ids), Distinct(s)
  PROVE  IsFiniteSet(Entries(s)) /\ Cardinality(Entries(s)) = Len(s)
<1>1. Len(s) \in Nat /\ DOMAIN s = 1 .. Len(s) /\ s \in [1 .. Len(s) -> Ids]
  BY LenProperties
<1>2. s \in [1 .. Len(s) -> Entries(s)]  BY <1>1 DEF Entries
<1>3. s \in Bijection(1 .. Len(s), Entries(s))
  BY <1>1, <1>2 DEF Bijection, Injection, Surjection, IsInjective, Distinct, Entries
<1>4. IsFiniteSet(1 .. Len(s)) /\ Cardinality(1 .. Len(s)) = Len(s)
  BY <1>1, FS_Interval
<1>5. ExistsBijection(1 .. Len(s), Entries(s))  BY <1>3 DEF ExistsBijection
<1>6. QED  BY <1>4, <1>5, FS_Bijection

\* A page shows listed entries.
LEMMA PageEntries ==
  ASSUME TypeOK
  PROVE  Page(page) \in Seq(Ids) /\ Entries(Page(page)) \subseteq Entries(listing)
<1> DEFINE m == (page - 1) * PageSize + 1
           n == Least(page * PageSize, Len(listing))
<1>1. listing \in Seq(Ids) /\ page \in Nat \ {0} /\ PageSize \in Nat \ {0}
  BY ListingAssumption DEF TypeOK
<1>2. Len(listing) \in Nat /\ DOMAIN listing = 1 .. Len(listing)  BY <1>1, LenProperties
<1>3. (page - 1) * PageSize \in Nat /\ page * PageSize \in Nat  BY <1>1
<1>4. m \in Nat \ {0} /\ n \in Int /\ n <= Len(listing)  BY <1>2, <1>3 DEF Least
<1>5. Page(page) = SubSeq(listing, m, n)  BY DEF Page
<1> HIDE DEF m, n
<1>6. /\ SubSeq(listing, m, n) \in Seq(Ids)
      /\ Entries(SubSeq(listing, m, n)) = {listing[i] : i \in m .. n}
  BY <1>1, <1>4, EntriesOfSlice
<1>7. \A i \in m .. n : i \in DOMAIN listing  BY <1>2, <1>4
<1>8. QED  BY <1>5, <1>6, <1>7 DEF Entries

\* Two sequences, one after the other, by place.
LEMMA ConcatByPlace ==
  ASSUME NEW S, NEW a \in Seq(S), NEW b \in Seq(S)
  PROVE  /\ DOMAIN (a \o b) = 1 .. Len(a) + Len(b)
         /\ \A i \in 1 .. Len(a) : (a \o b)[i] = a[i]
         /\ \A i \in 1 .. Len(b) : (a \o b)[Len(a) + i] = b[i]
<1>1. Len(a) \in Nat /\ Len(b) \in Nat  BY LenProperties
<1>2. /\ a \o b \in Seq(S) /\ Len(a \o b) = Len(a) + Len(b)
      /\ \A i \in 1 .. Len(a) + Len(b) :
           (a \o b)[i] = IF i <= Len(a) THEN a[i] ELSE b[i - Len(a)]
  BY ConcatProperties
<1>3. DOMAIN (a \o b) = 1 .. Len(a) + Len(b)  BY <1>2, LenProperties
<1>4. ASSUME NEW i \in 1 .. Len(a) PROVE (a \o b)[i] = a[i]
  <2>1. i \in 1 .. Len(a) + Len(b) /\ i <= Len(a)  BY <1>1
  <2>2. QED  BY <2>1, <1>2
<1>5. ASSUME NEW i \in 1 .. Len(b) PROVE (a \o b)[Len(a) + i] = b[i]
  <2>1. /\ Len(a) + i \in 1 .. Len(a) + Len(b)
        /\ ~(Len(a) + i <= Len(a)) /\ (Len(a) + i) - Len(a) = i
    BY <1>1
  <2>2. QED  BY <2>1, <1>2
<1>6. QED  BY <1>3, <1>4, <1>5

\* Two duplicate-free sequences with nothing in common.
LEMMA ConcatDistinct ==
  ASSUME NEW S, NEW a \in Seq(S), NEW b \in Seq(S), Distinct(a), Distinct(b),
         Entries(a) \cap Entries(b) = {}
  PROVE  Distinct(a \o b)
<1>1. /\ Len(a) \in Nat /\ DOMAIN a = 1 .. Len(a)
      /\ Len(b) \in Nat /\ DOMAIN b = 1 .. Len(b)
  BY LenProperties
<1>2. /\ DOMAIN (a \o b) = 1 .. Len(a) + Len(b)
      /\ \A i \in 1 .. Len(a) : (a \o b)[i] = a[i]
      /\ \A i \in 1 .. Len(b) : (a \o b)[Len(a) + i] = b[i]
  BY ConcatByPlace
<1>3. ASSUME NEW i \in 1 .. Len(a) + Len(b)
      PROVE  \/ i \in DOMAIN a /\ (a \o b)[i] = a[i]
             \/ i - Len(a) \in DOMAIN b /\ (a \o b)[i] = b[i - Len(a)]
  <2>1. CASE i <= Len(a)  BY <2>1, <1>1, <1>2
  <2>2. CASE ~(i <= Len(a))
    <3>1. i - Len(a) \in 1 .. Len(b) /\ Len(a) + (i - Len(a)) = i  BY <2>2, <1>1
    <3>2. (a \o b)[Len(a) + (i - Len(a))] = b[i - Len(a)]  BY <3>1, <1>2
    <3>3. QED  BY <3>1, <3>2, <1>1
  <2>3. QED  BY <2>1, <2>2
<1>4. ASSUME NEW i \in DOMAIN a, NEW j \in DOMAIN b PROVE a[i] # b[j]
  BY DEF Entries
<1>5. ASSUME NEW i \in 1 .. Len(a) + Len(b), NEW j \in 1 .. Len(a) + Len(b),
             (a \o b)[i] = (a \o b)[j]
      PROVE  i = j
  <2>1. CASE i \in DOMAIN a /\ (a \o b)[i] = a[i]
    <3>1. CASE j \in DOMAIN a /\ (a \o b)[j] = a[j]
      BY <2>1, <3>1, <1>5 DEF Distinct
    <3>2. CASE j - Len(a) \in DOMAIN b /\ (a \o b)[j] = b[j - Len(a)]
      BY <2>1, <3>2, <1>4, <1>5
    <3>3. QED  BY <3>1, <3>2, <1>3
  <2>2. CASE i - Len(a) \in DOMAIN b /\ (a \o b)[i] = b[i - Len(a)]
    <3>1. CASE j \in DOMAIN a /\ (a \o b)[j] = a[j]
      BY <2>2, <3>1, <1>4, <1>5
    <3>2. CASE j - Len(a) \in DOMAIN b /\ (a \o b)[j] = b[j - Len(a)]
      <4>1. i - Len(a) = j - Len(a)  BY <2>2, <3>2, <1>5 DEF Distinct
      <4>2. QED  BY <4>1, <1>1
    <3>3. QED  BY <3>1, <3>2, <1>3
  <2>3. QED  BY <2>1, <2>2, <1>3
<1>6. QED  BY <1>2, <1>5 DEF Distinct

\* The entries before place m + 1 and from place n on, m < n, of a listing.
LEMMA Ends ==
  ASSUME NEW s \in Seq(Ids), Distinct(s), NEW m \in Nat, NEW n \in Nat,
         m < n, m <= Len(s)
  PROVE  LET u == SubSeq(s, 1, m)
             v == SubSeq(s, n, Len(s))
         IN  /\ u \in Seq(Ids) /\ Distinct(u)
             /\ v \in Seq(Ids) /\ Distinct(v)
             /\ Entries(u) \cap Entries(v) = {}
             /\ Entries(u) = {s[i] : i \in 1 .. m}
             /\ Entries(v) = {s[i] : i \in n .. Len(s)}
<1> DEFINE u == SubSeq(s, 1, m)
           v == SubSeq(s, n, Len(s))
<1>1. Len(s) \in Nat /\ DOMAIN s = 1 .. Len(s)  BY LenProperties
<1>2. 1 \in Nat \ {0} /\ m \in Int /\ n \in Nat \ {0} /\ Len(s) \in Int /\ Len(s) <= Len(s)
  BY <1>1
<1>3. /\ u \in Seq(Ids)
      /\ Len(u) = IF 1 <= m THEN m - 1 + 1 ELSE 0
      /\ \A i \in 1 .. m - 1 + 1 : u[i] = s[1 + i - 1]
      /\ Entries(u) = {s[i] : i \in 1 .. m}
  BY <1>2, EntriesOfSlice
<1>4. /\ v \in Seq(Ids)
      /\ Len(v) = IF n <= Len(s) THEN Len(s) - n + 1 ELSE 0
      /\ \A i \in 1 .. Len(s) - n + 1 : v[i] = s[n + i - 1]
      /\ Entries(v) = {s[i] : i \in n .. Len(s)}
  BY <1>2, EntriesOfSlice
<1>5. DOMAIN u = 1 .. m /\ DOMAIN v = 1 .. Len(s) - n + 1
  BY <1>1, <1>3, <1>4, LenProperties
<1>6. Distinct(u)
  <2>1. \A i \in 1 .. m : i \in DOMAIN s /\ u[i] = s[i]  BY <1>1, <1>3
  <2>2. QED  BY <2>1, <1>5 DEF Distinct
<1>7. Distinct(v)
  <2>1. \A i \in 1 .. Len(s) - n + 1 : n + i - 1 \in DOMAIN s /\ v[i] = s[n + i - 1]
    BY <1>1, <1>4
  <2>2. ASSUME NEW i \in DOMAIN v, NEW j \in DOMAIN v, v[i] = v[j] PROVE i = j
    <3>1. n + i - 1 = n + j - 1  BY <2>1, <2>2, <1>5 DEF Distinct
    <3>2. QED  BY <3>1, <1>5, <1>1
  <2>3. QED  BY <2>2 DEF Distinct
<1>8. ASSUME NEW i \in 1 .. m, NEW j \in n .. Len(s) PROVE s[i] # s[j]
  <2>1. i \in DOMAIN s /\ j \in DOMAIN s /\ i # j  BY <1>1
  <2>2. QED  BY <2>1 DEF Distinct
<1>9. Entries(u) \cap Entries(v) = {}  BY <1>3, <1>4, <1>8
<1>10. QED  BY <1>3, <1>4, <1>6, <1>7, <1>9

\* An entry takes its place: it and the old ones are listed, each once.
LEMMA InsertEntry ==
  ASSUME NEW s \in Seq(Ids), Distinct(s), NEW x \in Ids, x \notin Entries(s),
         NEW k \in 0 .. Len(s)
  PROVE  /\ Insert(s, k, x) \in Seq(Ids) /\ Distinct(Insert(s, k, x))
         /\ Entries(Insert(s, k, x)) = Entries(s) \cup {x}
<1> DEFINE u == SubSeq(s, 1, k)
           v == SubSeq(s, k + 1, Len(s))
           y == <<x>>
           w == u \o y
<1>1. Len(s) \in Nat /\ DOMAIN s = 1 .. Len(s)  BY LenProperties
<1>2. k \in Nat /\ k + 1 \in Nat /\ k < k + 1 /\ k <= Len(s)  BY <1>1
<1>3. /\ u \in Seq(Ids) /\ Distinct(u)
      /\ v \in Seq(Ids) /\ Distinct(v)
      /\ Entries(u) \cap Entries(v) = {}
      /\ Entries(u) = {s[i] : i \in 1 .. k}
      /\ Entries(v) = {s[i] : i \in k + 1 .. Len(s)}
  BY <1>2, Ends
<1>4. Insert(s, k, x) = w \o v  BY DEF Insert
<1> HIDE DEF u, v
<1>5. Entries(s) = Entries(u) \cup Entries(v)
  <2>1. 1 .. Len(s) = (1 .. k) \cup (k + 1 .. Len(s))  BY <1>1
  <2>2. QED  BY <1>1, <1>3, <2>1 DEF Entries
<1>6. y \in Seq(Ids) /\ Distinct(y) /\ Entries(y) = {x}
  BY DEF Entries, Distinct
<1> HIDE DEF y
<1>7. w \in Seq(Ids) /\ Entries(w) = Entries(u) \cup {x}
  <2>1. u \o y \in Seq(Ids) /\ Entries(u \o y) = Entries(u) \cup Entries(y)
    BY <1>3, <1>6, EntriesOfConcat
  <2>2. QED  BY <2>1, <1>6
<1>8. Entries(u) \cap Entries(y) = {}  BY <1>5, <1>6
<1>9. Distinct(w)  BY <1>3, <1>6, <1>8, ConcatDistinct
<1> HIDE DEF w
<1>10. w \o v \in Seq(Ids) /\ Entries(w \o v) = Entries(w) \cup Entries(v)
  BY <1>3, <1>7, EntriesOfConcat
<1>11. Entries(w) \cap Entries(v) = {}  BY <1>3, <1>5, <1>7
<1>12. Distinct(w \o v)  BY <1>3, <1>7, <1>9, <1>11, ConcatDistinct
<1>13. QED  BY <1>4, <1>5, <1>7, <1>10, <1>12

\* An entry goes: the others are still listed, each once.
LEMMA RemoveEntry ==
  ASSUME NEW s \in Seq(Ids), Distinct(s), NEW k \in DOMAIN s
  PROVE  /\ WithoutAt(s, k) \in Seq(Ids) /\ Distinct(WithoutAt(s, k))
         /\ Entries(WithoutAt(s, k)) = Entries(s) \ {s[k]}
<1> DEFINE u == SubSeq(s, 1, k - 1)
           v == SubSeq(s, k + 1, Len(s))
<1>1. Len(s) \in Nat /\ DOMAIN s = 1 .. Len(s) /\ k \in 1 .. Len(s)  BY LenProperties
<1>2. k - 1 \in Nat /\ k + 1 \in Nat /\ k - 1 < k + 1 /\ k - 1 <= Len(s)  BY <1>1
<1>3. /\ u \in Seq(Ids) /\ Distinct(u)
      /\ v \in Seq(Ids) /\ Distinct(v)
      /\ Entries(u) \cap Entries(v) = {}
      /\ Entries(u) = {s[i] : i \in 1 .. k - 1}
      /\ Entries(v) = {s[i] : i \in k + 1 .. Len(s)}
  BY <1>2, Ends
<1>4. WithoutAt(s, k) = u \o v  BY DEF WithoutAt
<1> HIDE DEF u, v
<1>5. u \o v \in Seq(Ids) /\ Entries(u \o v) = Entries(u) \cup Entries(v)
  BY <1>3, EntriesOfConcat
<1>6. Distinct(u \o v)  BY <1>3, ConcatDistinct
<1>7. Entries(u) \cup Entries(v) = Entries(s) \ {s[k]}
  <2>1. 1 .. Len(s) = (1 .. k - 1) \cup {k} \cup (k + 1 .. Len(s))  BY <1>1
  <2>2. ASSUME NEW i \in (1 .. k - 1) \cup (k + 1 .. Len(s)) PROVE s[i] # s[k]
    <3>1. i \in DOMAIN s /\ i # k  BY <1>1
    <3>2. QED  BY <3>1 DEF Distinct
  <2>3. Entries(s) = Entries(u) \cup Entries(v) \cup {s[k]}
    BY <1>1, <1>3, <2>1 DEF Entries
  <2>4. s[k] \notin Entries(u) \cup Entries(v)  BY <1>3, <2>2, SMTT(30)
  <2>5. QED  BY <2>3, <2>4
<1>8. QED  BY <1>4, <1>5, <1>6, <1>7

-----------------------------------------------------------------------------
(* The invariant *)

LEMMA InitInv == Init => IInv
<1> SUFFICES ASSUME Init PROVE IInv  OBVIOUS
<1>1. listing \in Seq(Ids) /\ Distinct(listing)
  <2>1. PICK n \in 0 .. Cardinality(Ids) : listing \in [1 .. n -> Ids]
    <3>1. listing \in UNION {[1 .. n -> Ids] : n \in 0 .. Cardinality(Ids)}  BY DEF Init
    <3>2. QED  BY <3>1
  <2>2. Cardinality(Ids) \in Nat  BY ListingAssumption, FS_CardinalityType
  <2>3. n \in Nat  BY <2>1, <2>2
  <2>4. QED  BY <2>1, <2>3 DEF Init
<1>2. <<>> \in Seq(Ids) /\ Entries(<<>>) = {}  BY DEF Entries
<1>3. 1 \in 1 .. MaxTries  BY ListingAssumption
<1>4. TypeOK
  <2>1. second \in BOOLEAN  BY DEF Init
  <2>2. page \in Nat \ {0} /\ total \in Nat /\ gone \in SUBSET Ids /\ snapshot \in SUBSET Ids
    BY DEF Init
  <2>3. /\ pc \in {"reading", "returned", "changed", "failed"} /\ try \in 1 .. MaxTries
        /\ seen \in Seq(Ids) /\ first \in Seq(Ids)
    BY <1>2, <1>3 DEF Init
  <2>4. QED  BY <1>1, <2>1, <2>2, <2>3 DEF TypeOK
<1>5. ReadingInv  BY <1>1, <1>2 DEF Init, ReadingInv
<1>6. QED  BY <1>4, <1>5 DEF Init, IInv, ReturnsASnapshot

\* Starting the loop over forgets both readings.
LEMMA RetryInv ==
  ASSUME IInv, pc = "reading", Retry, UNCHANGED github,
         snapshot' \in SUBSET Ids
  PROVE  IInv'
<1>1. <<>> \in Seq(Ids) /\ Entries(<<>>) = {}  BY DEF Entries
<1>2. try' \in 1 .. MaxTries /\ pc' \in {"reading", "changed"}
  BY ListingAssumption DEF IInv, TypeOK, Retry
<1>3. /\ page' = 1 /\ total' = 0 /\ seen' = <<>> /\ first' = <<>>
      /\ second' = FALSE
      /\ listing' = listing /\ gone' = gone
  BY DEF Retry, StartReading, github
<1>4. TypeOK'
  <2>1. second' \in BOOLEAN  BY <1>3
  <2>2. /\ listing' \in Seq(Ids) /\ gone' \in SUBSET Ids
        /\ seen' \in Seq(Ids) /\ first' \in Seq(Ids)
    BY <1>1, <1>3 DEF IInv, TypeOK
  <2>3. page' \in Nat \ {0} /\ total' \in Nat  BY <1>3
  <2>4. QED  BY <1>2, <2>1, <2>2, <2>3 DEF TypeOK
<1>5. ReadingInv'
  <2>1. Distinct(listing) /\ Entries(listing) \cap gone = {}  BY DEF IInv, ReadingInv
  <2>2. QED  BY <1>1, <1>3, <2>1 DEF ReadingInv
<1>6. QED  BY <1>2, <1>4, <1>5 DEF IInv, ReturnsASnapshot

\* What a page adds to the reading.
LEMMA ReadMore ==
  ASSUME IInv
  PROVE  LET more == seen \o Page(page)
         IN  /\ more \in Seq(Ids)
             /\ Entries(more) = Entries(seen) \cup Entries(Page(page))
             /\ Entries(more) \subseteq Entries(listing) \cup gone
             /\ Entries(Page(page)) \cap gone = {}
             /\ pc = "reading" /\ page = 1 => Entries(more) \subseteq Entries(listing)
<1>1. Page(page) \in Seq(Ids) /\ Entries(Page(page)) \subseteq Entries(listing)
  BY PageEntries DEF IInv
<1>2. /\ seen \in Seq(Ids) /\ Entries(seen) \subseteq Entries(listing) \cup gone
      /\ Entries(listing) \cap gone = {}
      /\ pc = "reading" /\ page = 1 => seen = <<>>
  BY DEF IInv, TypeOK, ReadingInv
<1>3. /\ seen \o Page(page) \in Seq(Ids)
      /\ Entries(seen \o Page(page)) = Entries(seen) \cup Entries(Page(page))
  BY <1>1, <1>2, EntriesOfConcat
<1>4. Entries(<<>>) = {}  BY DEF Entries
<1>5. QED  BY <1>1, <1>2, <1>3, <1>4

LEMMA NextPageInv == IInv /\ NextPage => IInv'
<1> SUFFICES ASSUME IInv, NextPage PROVE IInv'  OBVIOUS
<1> USE DEF IInv
<1>1. CASE page > 1 /\ Len(listing) # total
  BY <1>1, RetryInv DEF NextPage, TypeOK
<1>2. CASE ~(page > 1 /\ Len(listing) # total)
  <2> DEFINE more == seen \o Page(page)
  <2>1. /\ more \in Seq(Ids)
        /\ Entries(more) = Entries(seen) \cup Entries(Page(page))
        /\ Entries(more) \subseteq Entries(listing) \cup gone
        /\ Entries(Page(page)) \cap gone = {}
        /\ page = 1 => Entries(more) \subseteq Entries(listing)
    BY ReadMore DEF NextPage
  <2>2. /\ pc = "reading" /\ pc' = pc /\ try' = try /\ second' = second
        /\ page' = page + 1
        /\ total' = IF page = 1 THEN Len(listing) ELSE total
        /\ seen' = more /\ first' = first
        /\ snapshot' = IF page = 1 THEN Entries(listing) ELSE snapshot
        /\ listing' = listing /\ gone' = gone
    BY <1>2 DEF NextPage, github
  <2> HIDE DEF more
  <2>3. /\ listing \in Seq(Ids) /\ Distinct(listing)
        /\ Len(listing) \in Nat /\ Entries(listing) \subseteq Ids
        /\ Cardinality(Entries(listing)) = Len(listing)
    <3>1. listing \in Seq(Ids) /\ Distinct(listing)  BY DEF TypeOK, ReadingInv
    <3>2. Len(listing) \in Nat /\ Entries(listing) \subseteq Ids
      BY <3>1, LenProperties DEF Entries
    <3>3. QED  BY <3>1, <3>2, DistinctCount
  <2>4. TypeOK'  BY <2>1, <2>2, <2>3 DEF TypeOK
  <2>5. page \in Nat \ {0} /\ page' > 1 /\ page' # 1  BY <2>2 DEF TypeOK
  <2>6. Cardinality(snapshot') = total'
    <3>1. CASE page = 1  BY <3>1, <2>2, <2>3
    <3>2. CASE page > 1  BY <3>2, <2>2, <2>5 DEF ReadingInv
    <3>3. QED  BY <3>1, <3>2, <2>5
  <2>7. second' => \A id \in Entries(first') :
            id \in snapshot' \/ id \in gone' \ Entries(seen')
    <3>1. CASE page = 1
      BY <3>1, <2>1, <2>2 DEF ReadingInv
    <3>2. CASE page > 1
      BY <3>2, <2>1, <2>2, <2>5 DEF ReadingInv
    <3>3. QED  BY <3>1, <3>2, <2>5
  <2>8. ReadingInv'
    BY <2>1, <2>2, <2>5, <2>6, <2>7 DEF ReadingInv
  <2>9. QED  BY <2>2, <2>4, <2>8 DEF ReturnsASnapshot
<1>3. QED  BY <1>1, <1>2

LEMMA LastPageInv == IInv /\ LastPage => IInv'
<1> SUFFICES ASSUME IInv, LastPage PROVE IInv'  OBVIOUS
<1> USE DEF IInv
<1> DEFINE more == seen \o Page(page)
<1>1. /\ more \in Seq(Ids)
      /\ Entries(more) = Entries(seen) \cup Entries(Page(page))
      /\ Entries(more) \subseteq Entries(listing) \cup gone
      /\ Entries(Page(page)) \cap gone = {}
      /\ page = 1 => Entries(more) \subseteq Entries(listing)
  BY ReadMore DEF LastPage
<1>2. /\ pc = "reading" /\ listing' = listing /\ gone' = gone
      /\ snapshot' = IF page = 1 THEN Entries(listing) ELSE snapshot
  BY DEF LastPage, github
<1>3. /\ listing \in Seq(Ids) /\ Distinct(listing)
      /\ Len(listing) \in Nat /\ Entries(listing) \subseteq Ids
      /\ Cardinality(Entries(listing)) = Len(listing)
  <2>1. listing \in Seq(Ids) /\ Distinct(listing)  BY DEF TypeOK, ReadingInv
  <2>2. Len(listing) \in Nat /\ Entries(listing) \subseteq Ids
    BY <2>1, LenProperties DEF Entries
  <2>3. QED  BY <2>1, <2>2, DistinctCount
<1>4. snapshot' \in SUBSET Ids  BY <1>2, <1>3 DEF TypeOK
<1>5. page \in Nat \ {0} /\ UNCHANGED github  BY DEF TypeOK, LastPage
<1>6. CASE Retry  BY <1>2, <1>4, <1>5, <1>6, RetryInv
<1>7. CASE Finish /\ Consistent(more, Announced)
  <2>1. CASE /\ ~second /\ second' = TRUE
             /\ first' = more
             /\ StartReading
             /\ UNCHANGED <<pc, try>>
    <3>1. <<>> \in Seq(Ids) /\ Entries(<<>>) = {}  BY DEF Entries
    <3>2. TypeOK'  BY <2>1, <3>1, <1>1, <1>2, <1>4 DEF TypeOK, StartReading
    <3>3. ReadingInv'
      BY <2>1, <3>1, <1>1, <1>2 DEF ReadingInv, StartReading
    <3>4. QED  BY <2>1, <3>2, <3>3, <1>2 DEF ReturnsASnapshot
  <2>2. CASE /\ second /\ first = more
             /\ pc' = "returned" /\ seen' = first
             /\ UNCHANGED <<try, second, page, total, first>>
    <3>1. Cardinality(Entries(more)) = Announced  BY <1>7 DEF Consistent
    <3>2. Entries(more) \subseteq snapshot'
      <4>1. CASE page = 1  BY <4>1, <1>1, <1>2
      <4>2. CASE page > 1
        <5>1. \A id \in Entries(more) : id \in snapshot \/ id \in gone \ Entries(seen)
          BY <2>2, <4>2 DEF ReadingInv
        <5>2. QED  BY <5>1, <4>2, <1>1, <1>2, <1>5
      <4>3. QED  BY <4>1, <4>2, <1>5
    <3>3. Cardinality(snapshot') = Announced
      <4>1. CASE page = 1  BY <4>1, <1>2, <1>3 DEF Announced
      <4>2. CASE page > 1  BY <4>2, <1>2, <1>5 DEF Announced, ReadingInv
      <4>3. QED  BY <4>1, <4>2, <1>5
    <3>4. IsFiniteSet(snapshot')  BY <1>4, ListingAssumption, FS_Subset
    <3>5. Entries(more) = snapshot'  BY <3>1, <3>2, <3>3, <3>4, FS_Subset
    <3>6. TypeOK'  BY <2>2, <1>1, <1>2, <1>4 DEF TypeOK
    <3>7. page > 1 => Cardinality(snapshot') = total'
      BY <2>2, <3>3, <1>5 DEF Announced
    <3>8. ReadingInv'
      BY <2>2, <3>5, <3>7, <1>1, <1>2, <1>5 DEF ReadingInv
    <3>9. QED  BY <2>2, <3>5, <3>6, <3>8 DEF ReturnsASnapshot
  <2>3. CASE Retry  BY <2>3, <1>6
  <2>4. QED  BY <1>7, <2>1, <2>2, <2>3 DEF Finish
<1>8. QED  BY <1>6, <1>7 DEF LastPage

LEMMA AppearsInv ==
  ASSUME IInv, NEW id \in Ids, NEW k \in 0 .. Len(listing), Appears(id, k)
  PROVE  IInv'
<1> USE DEF IInv
<1>1. /\ listing' = Insert(listing, k, id) /\ gone' = gone
      /\ id \notin Entries(listing) \cup gone
      /\ UNCHANGED <<pc, try, second, page, total, seen, first, snapshot>>
  BY DEF Appears, Observed
<1>2. listing \in Seq(Ids) /\ Distinct(listing)  BY DEF TypeOK, ReadingInv
<1>3. /\ listing' \in Seq(Ids) /\ Distinct(listing')
      /\ Entries(listing') = Entries(listing) \cup {id}
  BY <1>1, <1>2, InsertEntry
<1>4. TypeOK'  BY <1>1, <1>3 DEF TypeOK
<1>5. ReadingInv'  BY <1>1, <1>3 DEF ReadingInv
<1>6. QED  BY <1>1, <1>4, <1>5 DEF ReturnsASnapshot

LEMMA VanishesInv ==
  ASSUME IInv, NEW k \in DOMAIN listing, Vanishes(k)
  PROVE  IInv'
<1> USE DEF IInv
<1>1. /\ listing' = WithoutAt(listing, k) /\ gone' = gone \cup {listing[k]}
      /\ UNCHANGED <<pc, try, second, page, total, seen, first, snapshot>>
  BY DEF Vanishes, Observed
<1>2. listing \in Seq(Ids) /\ Distinct(listing)  BY DEF TypeOK, ReadingInv
<1>3. /\ listing' \in Seq(Ids) /\ Distinct(listing')
      /\ Entries(listing') = Entries(listing) \ {listing[k]}
  BY <1>1, <1>2, RemoveEntry
<1>4. listing[k] \in Ids  BY <1>2, LenProperties, ElementOfSeq
<1>5. TypeOK'  BY <1>1, <1>3, <1>4 DEF TypeOK
<1>6. ReadingInv'
  <2>1. Entries(listing') \cap gone' = {}  BY <1>1, <1>3 DEF ReadingInv
  <2>2. /\ Entries(seen) \subseteq Entries(listing') \cup gone'
        /\ Entries(first) \subseteq Entries(listing') \cup gone'
    BY <1>1, <1>3 DEF ReadingInv
  <2>3. QED  BY <1>1, <1>3, <2>1, <2>2 DEF ReadingInv
<1>7. QED  BY <1>1, <1>5, <1>6 DEF ReturnsASnapshot

LEMMA FetchFailsInv == IInv /\ FetchFails => IInv'
BY DEF IInv, TypeOK, ReadingInv, ReturnsASnapshot, FetchFails, github, Distinct, Entries

LEMMA StutterInv == IInv /\ UNCHANGED vars => IInv'
BY DEF IInv, TypeOK, ReadingInv, ReturnsASnapshot, vars, reader, github, Distinct, Entries

\* The invariant of the reading holds whatever the listing does (lines 149-217).
THEOREM Invariance == Spec => []IInv
<1>1. Init => IInv  BY InitInv
<1>2. IInv /\ [Next]_vars => IInv'
  <2> SUFFICES ASSUME IInv, [Next]_vars PROVE IInv'  OBVIOUS
  <2>1. CASE Read  BY <2>1, NextPageInv, LastPageInv DEF Read
  <2>2. CASE FetchFails  BY <2>2, FetchFailsInv
  <2>3. CASE Changes  BY <2>3, AppearsInv, VanishesInv DEF Changes
  <2>4. CASE UNCHANGED vars  BY <2>4, StutterInv
  <2>5. QED  BY <2>1, <2>2, <2>3, <2>4 DEF Next
<1>3. QED  BY <1>1, <1>2, PTL DEF Spec

\* What paginate returns was listed at one instant of the call (lines 178-211).
THEOREM Snapshot == Spec => []ReturnsASnapshot
<1>1. IInv => ReturnsASnapshot  BY DEF IInv
<1>2. QED  BY <1>1, Invariance, PTL

-----------------------------------------------------------------------------
(* ArchiveBuild.                                                             *)

\* Up to its second preflight a command has made nothing, and it makes nothing
\* where anything was.
ArchivesFilesInv ==
    /\ archiveAt \notin {"zip", "tar.gz", "done"} => files = before
    /\ archiveAt \in {"zip", "tar.gz", "done"} =>
           \A o \in Archives!Outputs :
               IF o \in Archives!Mine THEN before[o] = Archives!Absent ELSE files[o] = before[o]

\* Everything is of the commit that was resolved at the start.
ArchivesCommitInv ==
    /\ commit = named
    /\ archiveAt \in {"mkdir", "again", "zip", "tar.gz", "done"} => stamp = commit
    /\ \A o \in Archives!Mine : archiveAt = "done" \/ (archiveAt = "tar.gz" /\ o.format = "zip") =>
           files[o] = Archives!Archive(commit)

ArchivesIInv == Archives!TypeOK /\ ArchivesFilesInv /\ ArchivesCommitInv

LEMMA ArchivesInvInit == Archives!Init => ArchivesIInv
BY DEF Archives!Init, ArchivesIInv, Archives!TypeOK, ArchivesFilesInv, ArchivesCommitInv,
       Archives!Ended, Archives!Archives

LEMMA ArchivesTypeStep == Archives!TypeOK /\ [Archives!Next]_Archives!vars => Archives!TypeOK'
<1> SUFFICES ASSUME Archives!TypeOK, [Archives!Next]_Archives!vars PROVE Archives!TypeOK'
  OBVIOUS
<1> USE DEF Archives!TypeOK, Archives!Ended, Archives!Continue
<1>1. \A f \in {"zip", "tar.gz"} : [base |-> base, format |-> f] \in Archives!Outputs
  BY DEF Archives!Outputs, Archives!Formats
<1>2. CASE Archives!Write
  <2>1. Archives!Archive(commit) \in Archives!Archives
    BY DEF Archives!Archive, Archives!Archives
  <2> QED
    BY <1>1, <1>2, <2>1 DEF Archives!Write
<1>3. CASE Archives!WriteFails
  <2>1. Archives!Absent \in Archives!Archives
    BY DEF Archives!Archives
  <2> QED
    BY <1>3, <2>1 DEF Archives!WriteFails
<1>4. ASSUME NEW o \in Archives!Outputs, Archives!FileAppears(o)
      PROVE  Archives!TypeOK'
  <2>1. Archives!Foreign \in Archives!Archives
    BY DEF Archives!Archives
  <2> QED
    BY <1>4, <2>1 DEF Archives!FileAppears
<1>5. CASE UNCHANGED files /\ ~(\E o \in Archives!Outputs : Archives!FileAppears(o))
  BY <1>5
     DEF Archives!Next, Archives!vars, Archives!Begin, Archives!ReadSource, Archives!Preflight,
         Archives!Stamp, Archives!MakeDirectory, Archives!Write, Archives!WriteFails,
              Archives!CallFails, Archives!BranchMoves
<1> QED
  BY <1>2, <1>3, <1>4, <1>5
     DEF Archives!Next, Archives!vars, Archives!Begin, Archives!ReadSource, Archives!Preflight,
         Archives!Stamp, Archives!MakeDirectory, Archives!CallFails, Archives!BranchMoves

LEMMA ArchivesInvNext == ArchivesIInv /\ [Archives!Next]_Archives!vars => ArchivesIInv'
<1> SUFFICES ASSUME ArchivesIInv, [Archives!Next]_Archives!vars PROVE ArchivesIInv'
  OBVIOUS
<1>1. Archives!TypeOK /\ Archives!TypeOK' /\ ArchivesFilesInv /\ ArchivesCommitInv
  BY ArchivesTypeStep DEF ArchivesIInv
<1> SUFFICES ArchivesFilesInv' /\ ArchivesCommitInv'
  BY <1>1 DEF ArchivesIInv
<1> USE DEF Archives!Continue
<1>2. CASE Archives!Write
  <2> DEFINE written == [base |-> base, format |-> archiveAt]
  <2>1. written \in Archives!Outputs /\ written \in Archives!Mine /\ archiveAt \in {"zip", "tar.gz"}
    BY <1>1, <1>2
       DEF Archives!Write, Archives!TypeOK, Archives!Outputs, Archives!Formats, Archives!Mine
  <2>2. /\ files'[written] = Archives!Archive(commit) /\ \A o \in Archives!Outputs : o # written
               => files'[o] = files[o]
    BY <1>1, <1>2, <2>1 DEF Archives!Write, Archives!TypeOK
  <2>3. Archives!Mine' = Archives!Mine /\ Archives!Archive(commit)' = Archives!Archive(commit)
    BY <1>2 DEF Archives!Write, Archives!Mine, Archives!Archive
  <2>4. ArchivesFilesInv'
    BY <1>1, <1>2, <2>1, <2>2, <2>3 DEF Archives!Write, ArchivesFilesInv, Archives!TypeOK
  <2>5. \A o \in Archives!Mine : o = written \/ o.format # archiveAt
    BY <2>1 DEF Archives!Mine, Archives!Outputs, Archives!Formats
  <2>6. \A o \in Archives!Mine : o.format \in {"zip", "tar.gz"}
    BY DEF Archives!Mine, Archives!Outputs, Archives!Formats
  <2>7. Archives!Mine \subseteq Archives!Outputs
    BY DEF Archives!Mine
  <2> HIDE DEF written
  <2>8. ASSUME NEW o \in Archives!Mine, archiveAt' = "done" \/ (archiveAt' = "tar.gz"
                   /\ o.format = "zip")
        PROVE  files'[o] = Archives!Archive(commit)
    <3>1. CASE o = written
      BY <2>2, <3>1
    <3>2. CASE o # written
      <4>1. archiveAt = "tar.gz" /\ o.format = "zip"
        BY <1>2, <2>1, <2>5, <2>6, <2>8, <3>2 DEF Archives!Write
      <4> QED
        BY <1>1, <2>2, <2>7, <3>2, <4>1 DEF ArchivesCommitInv
    <3> QED
      BY <3>1, <3>2
  <2>9. commit' = named' /\ stamp' = commit'
    BY <1>1, <1>2, <2>1 DEF Archives!Write, ArchivesCommitInv
  <2>10. \A o \in Archives!Mine' : archiveAt' = "done" \/ (archiveAt' = "tar.gz" /\ o.format = "zip") =>
             files'[o] = Archives!Archive(commit)'
    BY <2>3, <2>8
  <2>11. ArchivesCommitInv'
    BY <2>9, <2>10 DEF ArchivesCommitInv
  <2> QED
    BY <2>4, <2>11
<1>3. CASE Archives!WriteFails
  <2>1. files' = before'
    BY <1>1, <1>3 DEF Archives!WriteFails, ArchivesFilesInv, Archives!TypeOK
  <2> QED
    BY <1>1, <1>3, <2>1 DEF Archives!WriteFails, ArchivesFilesInv, ArchivesCommitInv
<1>4. ASSUME NEW o \in Archives!Outputs, Archives!FileAppears(o)
      PROVE  ArchivesFilesInv' /\ ArchivesCommitInv'
  BY <1>1, <1>4 DEF Archives!FileAppears, ArchivesFilesInv, ArchivesCommitInv
<1>5. ASSUME NEW b \in DOMAIN ArchivePlaces, NEW s \in ArchiveSources, Archives!Begin(b, s)
      PROVE  ArchivesFilesInv' /\ ArchivesCommitInv'
  BY <1>1, <1>5 DEF Archives!Begin, ArchivesFilesInv, ArchivesCommitInv
<1>6. CASE Archives!Preflight
  <2>1. Archives!Mine' = Archives!Mine /\ archiveAt' \in {"failed", "stamp", "zip"}
    BY <1>6 DEF Archives!Preflight, Archives!Mine
  <2>2. archiveAt' = "zip" => Archives!MayWrite /\ archiveAt = "again"
    BY <1>6 DEF Archives!Preflight
  <2> QED
    BY <1>1, <1>6, <2>1, <2>2
       DEF Archives!Preflight, ArchivesFilesInv, ArchivesCommitInv, Archives!MayWrite
<1>7. CASE Archives!ReadSource \/ Archives!Stamp \/ Archives!MakeDirectory \/ Archives!CallFails
  BY <1>1, <1>7
     DEF Archives!ReadSource, Archives!Stamp, Archives!MakeDirectory, Archives!CallFails,
         ArchivesFilesInv, ArchivesCommitInv
<1>8. CASE Archives!BranchMoves \/ UNCHANGED Archives!vars
  BY <1>1, <1>8
     DEF Archives!BranchMoves, Archives!vars, ArchivesFilesInv, ArchivesCommitInv, Archives!Mine,
         Archives!Archive
<1> QED
  BY <1>2, <1>3, <1>4, <1>5, <1>6, <1>7, <1>8 DEF Archives!Next

LEMMA ArchivesTrue == ArchivesIInv => Archives!ArchivesAreExact
BY DEF ArchivesIInv, Archives!TypeOK, ArchivesFilesInv, ArchivesCommitInv,
       Archives!ArchivesAreExact, Archives!ArchivesAreTheCommit, Archives!OnlyNewArchives,
       Archives!Archive, Archives!Mine

\* The invariant holds where ArchiveBuild moves, beside what stands still.
LEMMA ArchivesRuns == ToolSpec => [](tool = "Archives" => ArchivesIInv)
<1> DEFINE Inv == tool = "Archives" => ArchivesIInv
<1>1. ToolInit => Inv
  BY ArchivesInvInit DEF ToolInit
<1>2. Inv /\ [ToolStep]_toolVars => Inv'
  <2> SUFFICES ASSUME Inv, [ToolStep]_toolVars, tool' = "Archives"
               PROVE  ArchivesIInv'
    OBVIOUS
  <2>1. tool = "Archives" /\ [Archives!Next]_Archives!vars
    BY DEF ToolStep, toolVars, archivesVars, Archives!vars
  <2> QED
    BY <2>1, ArchivesInvNext
<1> HIDE DEF Inv
<1>3. ToolSpec => []Inv
  BY <1>1, <1>2, PTL DEF ToolSpec
<1> QED
  BY <1>3 DEF Inv

\* A build that succeeds leaves two archives of the commit the revision named
\* when it began, one that fails nothing new: for any sources, places, trees and
\* moves of the branch, and files that appear on the way.
THEOREM ArchivesOfTheCommit == ToolSpec => []ArchivesAreExact
<1>1. (tool = "Archives" => ArchivesIInv) => ArchivesAreExact
  BY ArchivesTrue DEF ArchivesAreExact
<1> QED
  BY <1>1, ArchivesRuns, PTL

-----------------------------------------------------------------------------
(* ReleaseCandidate.                                                         *)

\* A directory of entries with a kind and bytes.
CandidateIsDirectory(d) ==
    d = [n \in DOMAIN d |-> [kind |-> d[n].kind, bytes |-> d[n].bytes]]

\* The inventory of a directory: what manifest_bytes is given.
CandidateInventoryOf(d, ctx) ==
    [context |-> ctx,
     assets  |-> [i \in 1 .. 3 |->
                     LET n == Candidate!Contract(ctx)[i].name IN
                     [name |-> n, media |-> Candidate!Contract(ctx)[i].media,
                      digest |-> d[n].bytes, size |-> d[n].bytes.size]]]

\* The payloads of a context and the manifest of them, all regular.
CandidateIsInventoried(d, ctx) ==
    /\ Candidate!IsValid(ctx)
    /\ Candidate!Summed(ctx) \subseteq DOMAIN d
    /\ \A n \in Candidate!Summed(ctx) : d[n].kind = "file"
    /\ \A n \in Candidate!Payloads(ctx) : d[n].bytes.size \in 1 .. MaxAsset
    /\ d[Candidate!Manifest].bytes = Candidate!ManifestBytes(CandidateInventoryOf(d, ctx))

\* What create-candidate completes.
CandidateIsCandidate(c) ==
    /\ c = [context |-> c.context, dir |-> c.dir]
    /\ CandidateIsDirectory(c.dir) /\ CandidateIsInventoried(c.dir, c.context)
    /\ DOMAIN c.dir = Candidate!Payloads(c.context) \cup Candidate!Controls
    /\ c.dir[Candidate!Checksums] =
           Candidate!Regular([n \in Candidate!Summed(c.context) |-> c.dir[n].bytes])

\* A checksum file is written by create-candidate alone, wherever it is put
\* afterwards.
CandidateChecksumsInv ==
    Candidate!Checksums \in DOMAIN dir /\ dir[Candidate!Checksums].kind = "file" =>
        \E c \in made : dir[Candidate!Checksums] = c.dir[Candidate!Checksums]

CandidateIInv ==
    /\ CandidateIsDirectory(dir)
    /\ \A c \in made : CandidateIsCandidate(c)
    /\ candidateAt = "listed" => CandidateIsInventoried(dir, job) /\ DOMAIN dir = Candidate!Summed(job)
    /\ CandidateChecksumsInv
    /\ Candidate!VerdictIsExact

LEMMA ControlNames == Candidate!Manifest # Candidate!Checksums
    /\ Candidate!Extra # Candidate!Manifest /\ Candidate!Extra # Candidate!Checksums
<1>1. Candidate!Manifest.kind = "manifest" /\ Candidate!Checksums.kind = "checksums"
          /\ Candidate!Extra.kind = "extra"
  BY DEF Candidate!Manifest, Candidate!Checksums, Candidate!Extra
<1> QED
  BY <1>1

LEMMA CandidateNames ==
    ASSUME NEW ctx
    PROVE  Candidate!Manifest \notin Candidate!Payloads(ctx)
               /\ Candidate!Checksums \notin Candidate!Summed(ctx)
<1>1. \A n \in Candidate!Payloads(ctx) : n.kind \in {"wheel", "sdist", "sbom"}
  BY DEF Candidate!Payloads, Candidate!Contract, Candidate!Kinds
<1>2. Candidate!Manifest.kind = "manifest" /\ Candidate!Checksums.kind = "checksums"
  BY DEF Candidate!Manifest, Candidate!Checksums
<1>3. Candidate!Manifest \notin Candidate!Payloads(ctx)
          /\ Candidate!Checksums \notin Candidate!Payloads(ctx)
  BY <1>1, <1>2
<1> QED
  BY <1>3, ControlNames DEF Candidate!Summed

\* An entry of a directory, and what makes one of entries.
LEMMA DirectoryEntry ==
    ASSUME NEW d, CandidateIsDirectory(d), NEW n \in DOMAIN d
    PROVE  d[n] = [kind |-> d[n].kind, bytes |-> d[n].bytes]
BY DEF CandidateIsDirectory

LEMMA DirectoryOf ==
    ASSUME NEW d, d = [n \in DOMAIN d |-> d[n]],
           \A n \in DOMAIN d : d[n] = [kind |-> d[n].kind, bytes |-> d[n].bytes]
    PROVE  CandidateIsDirectory(d)
BY DEF CandidateIsDirectory

\* verify-candidate accepts a candidate for its own context.
LEMMA CandidateVerifies ==
    ASSUME NEW ctx, CandidateIsCandidate([context |-> ctx, dir |-> dir])
    PROVE  Candidate!Verifies(ctx)
<1> DEFINE bytes == dir[Candidate!Manifest].bytes
<1>1. /\ CandidateIsDirectory(dir) /\ CandidateIsInventoried(dir, ctx)
             /\ DOMAIN dir = Candidate!Payloads(ctx) \cup Candidate!Controls
      /\ dir[Candidate!Checksums] = Candidate!Regular([n \in Candidate!Summed(ctx) |-> dir[n].bytes])
  BY DEF CandidateIsCandidate
<1>2. dir[Candidate!Checksums].kind = "file"
          /\ dir[Candidate!Checksums].bytes = Candidate!Sums(Candidate!Summed(ctx))
  BY <1>1 DEF Candidate!Regular, Candidate!Sums
<1>3. Candidate!AllRegular
  BY <1>1, <1>2
     DEF Candidate!AllRegular, CandidateIsInventoried, Candidate!Summed, Candidate!Controls
<1>4. /\ bytes.form = "canonical" /\ bytes.inventory.context = ctx /\ Candidate!IsCanonical(bytes)
      /\ bytes.inventory.assets =
            [i \in 1 .. 3 |-> [name |-> Candidate!Contract(ctx)[i].name,
                               media |-> Candidate!Contract(ctx)[i].media,
                               digest |-> dir[Candidate!Contract(ctx)[i].name].bytes,
                               size |-> dir[Candidate!Contract(ctx)[i].name].bytes.size]]
  <2> DEFINE inventory == CandidateInventoryOf(dir, ctx)
  <2>1. bytes = Candidate!ManifestBytes(inventory)
    BY <1>1 DEF CandidateIsInventoried
  <2>2. /\ inventory.context = ctx
        /\ inventory.assets =
              [i \in 1 .. 3 |-> [name |-> Candidate!Contract(ctx)[i].name,
                                 media |-> Candidate!Contract(ctx)[i].media,
                                 digest |-> dir[Candidate!Contract(ctx)[i].name].bytes,
                                 size |-> dir[Candidate!Contract(ctx)[i].name].bytes.size]]
    BY DEF CandidateInventoryOf
  <2> HIDE DEF inventory
  <2>3. bytes.form = "canonical" /\ bytes.inventory = inventory
    BY <2>1 DEF Candidate!ManifestBytes
  <2> QED
    BY <2>1, <2>2, <2>3 DEF Candidate!IsCanonical
<1> DEFINE assets == bytes.inventory.assets
<1>5. /\ DOMAIN assets = 1 .. 3 /\ Len(assets) = 3
      /\ \A i \in 1 .. 3 : /\ assets[i].name = Candidate!Contract(ctx)[i].name
                           /\ assets[i].media = Candidate!Contract(ctx)[i].media
                           /\ assets[i].digest = dir[assets[i].name].bytes
                           /\ assets[i].size = dir[assets[i].name].bytes.size
  <2>1. PICK contract : contract = Candidate!Contract(ctx)
    OBVIOUS
  <2>2. assets = [i \in 1 .. 3 |-> [name |-> contract[i].name, media |-> contract[i].media,
                                    digest |-> dir[contract[i].name].bytes,
                                    size |-> dir[contract[i].name].bytes.size]]
    BY <1>4, <2>1
  <2> HIDE DEF assets
  <2>3. DOMAIN assets = 1 .. 3
    BY <2>2
  <2>4. \A i \in 1 .. 3 : assets[i] = [name |-> contract[i].name, media |-> contract[i].media,
                                       digest |-> dir[contract[i].name].bytes,
                                       size |-> dir[contract[i].name].bytes.size]
    BY <2>2
  <2>5. assets \in Seq(Range(assets)) /\ Len(assets) = 3
    <3>1. assets \in [1 .. 3 -> Range(assets)]
      BY <2>2, <2>3 DEF Range
    <3> QED
      BY <3>1
  <2> QED
    BY <2>1, <2>3, <2>4, <2>5
<1> HIDE DEF assets
<1>6. Candidate!ListsPayloads(assets, ctx)
  BY <1>5 DEF Candidate!ListsPayloads, Candidate!Payloads
<1>7. ASSUME NEW i \in 1 .. 3
      PROVE  Candidate!AssetHolds(assets[i], ctx)
  <2>1. assets[i].name \in Candidate!Payloads(ctx)
    BY <1>5 DEF Candidate!Payloads
  <2>2. Candidate!IsAsset(assets[i].name)
    BY <1>1, <2>1 DEF Candidate!IsAsset, CandidateIsInventoried, Candidate!Summed
  <2> QED
    BY <1>5, <2>2 DEF Candidate!AssetHolds
<1>8. Candidate!IsValid(ctx)
  BY <1>1 DEF CandidateIsInventoried
<1> QED
  BY <1>1, <1>2, <1>3, <1>4, <1>5, <1>6, <1>7, <1>8
     DEF Candidate!Verifies, Candidate!Readable, Candidate!ContextMatches, assets

\* What it accepts is a candidate that was created.
LEMMA VerifiedWasMade ==
    ASSUME CandidateIInv, NEW ctx, Candidate!Verifies(ctx)
    PROVE  [context |-> ctx, dir |-> dir] \in made
<1>1. /\ Candidate!AllRegular /\ DOMAIN dir = Candidate!Payloads(ctx) \cup Candidate!Controls
      /\ dir[Candidate!Manifest].bytes.inventory.context = ctx
      /\ dir[Candidate!Checksums].bytes = [n \in Candidate!Summed(ctx) |-> dir[n].bytes]
  BY DEF Candidate!Verifies, Candidate!ContextMatches, Candidate!Sums
<1>2. PICK c \in made : dir[Candidate!Checksums] = c.dir[Candidate!Checksums]
  BY <1>1 DEF CandidateIInv, CandidateChecksumsInv, Candidate!AllRegular, Candidate!Controls
<1>3. /\ c = [context |-> c.context, dir |-> c.dir]
      /\ CandidateIsDirectory(c.dir) /\ CandidateIsInventoried(c.dir, c.context)
      /\ DOMAIN c.dir = Candidate!Payloads(c.context) \cup Candidate!Controls
      /\ c.dir[Candidate!Checksums].bytes = [n \in Candidate!Summed(c.context) |-> c.dir[n].bytes]
  <2>1. CandidateIsCandidate(c)
    BY <1>2 DEF CandidateIInv
  <2>2. c.dir[Candidate!Checksums]
            = Candidate!Regular([n \in Candidate!Summed(c.context) |-> c.dir[n].bytes])
    BY <2>1 DEF CandidateIsCandidate
  <2>3. c.dir[Candidate!Checksums].bytes = [n \in Candidate!Summed(c.context) |-> c.dir[n].bytes]
    BY <2>2 DEF Candidate!Regular
  <2> QED
    BY <2>1, <2>3 DEF CandidateIsCandidate
<1>4. Candidate!Summed(c.context) = Candidate!Summed(ctx)
  <2>1. DOMAIN dir[Candidate!Checksums].bytes = Candidate!Summed(ctx)
    BY <1>1
  <2>2. DOMAIN c.dir[Candidate!Checksums].bytes = Candidate!Summed(c.context)
    BY <1>3
  <2> QED
    BY <1>2, <2>1, <2>2
<1>5. \A n \in Candidate!Summed(ctx) : c.dir[n].bytes = dir[n].bytes
  <2>1. \A n \in Candidate!Summed(ctx) : dir[Candidate!Checksums].bytes[n] = dir[n].bytes
    BY <1>1
  <2>2. \A n \in Candidate!Summed(ctx) : c.dir[Candidate!Checksums].bytes[n] = c.dir[n].bytes
    BY <1>3, <1>4
  <2> QED
    BY <1>2, <2>1, <2>2
<1>6. c.context = ctx
  <2>1. c.dir[Candidate!Manifest].bytes = dir[Candidate!Manifest].bytes
    BY <1>5 DEF Candidate!Summed
  <2>2. c.dir[Candidate!Manifest].bytes.inventory.context = c.context
    <3>1. c.dir[Candidate!Manifest].bytes = Candidate!ManifestBytes(CandidateInventoryOf(c.dir,
              c.context))
      BY <1>3 DEF CandidateIsInventoried
    <3>2. c.dir[Candidate!Manifest].bytes.inventory = CandidateInventoryOf(c.dir, c.context)
      BY <3>1 DEF Candidate!ManifestBytes
    <3>3. CandidateInventoryOf(c.dir, c.context).context = c.context
      BY DEF CandidateInventoryOf
    <3> QED
      BY <3>2, <3>3
  <2>3. c.dir[Candidate!Manifest].bytes.inventory.context
            = dir[Candidate!Manifest].bytes.inventory.context
    BY <2>1
  <2> QED
    BY <1>1, <2>2, <2>3
<1>7. DOMAIN c.dir = DOMAIN dir
  BY <1>1, <1>3, <1>6
<1>8. ASSUME NEW n \in DOMAIN dir
      PROVE  c.dir[n] = dir[n]
  <2>1. CASE n = Candidate!Checksums
    BY <1>2, <2>1
  <2>2. CASE n # Candidate!Checksums
    <3>1. n \in Candidate!Summed(ctx)
      BY <1>1, <1>8, <2>2 DEF Candidate!Summed, Candidate!Controls
    <3>2. dir[n].kind = "file" /\ c.dir[n].kind = "file" /\ c.dir[n].bytes = dir[n].bytes
      BY <1>1, <1>3, <1>5, <1>6, <1>8, <3>1 DEF Candidate!AllRegular, CandidateIsInventoried
    <3>3. dir[n] = [kind |-> dir[n].kind, bytes |-> dir[n].bytes]
      BY <1>8 DEF CandidateIInv, CandidateIsDirectory
    <3>4. c.dir[n] = [kind |-> c.dir[n].kind, bytes |-> c.dir[n].bytes]
      BY <1>3, <1>7, <1>8 DEF CandidateIsDirectory
    <3> QED
      BY <3>2, <3>3, <3>4
  <2> QED
    BY <2>1, <2>2
<1>9. c.dir = dir
  <2>1. dir = [n \in DOMAIN dir |-> dir[n]]
    BY DEF CandidateIInv, CandidateIsDirectory
  <2>2. c.dir = [n \in DOMAIN c.dir |-> c.dir[n]]
    BY <1>3 DEF CandidateIsDirectory
  <2> QED
    BY <1>7, <1>8, <2>1, <2>2
<1> QED
  BY <1>2, <1>3, <1>6, <1>9

LEMMA WithKeeps ==
    ASSUME CandidateIsDirectory(dir), NEW n, NEW bytes, dir' = Candidate!With(n,
               Candidate!Regular(bytes))
    PROVE  /\ CandidateIsDirectory(dir') /\ DOMAIN dir' = DOMAIN dir \cup {n}
           /\ dir'[n] = Candidate!Regular(bytes)
           /\ \A x \in DOMAIN dir \ {n} : dir'[x] = dir[x]
<1>1. /\ DOMAIN dir' = DOMAIN dir \cup {n}
      /\ dir'[n] = Candidate!Regular(bytes)
      /\ \A x \in DOMAIN dir \ {n} : dir'[x] = dir[x]
      /\ dir' = [x \in DOMAIN dir' |-> dir'[x]]
  BY DEF Candidate!With
<1>2. \A x \in DOMAIN dir' : dir'[x] = [kind |-> dir'[x].kind, bytes |-> dir'[x].bytes]
  BY <1>1 DEF CandidateIsDirectory, Candidate!Regular
<1> QED
  BY <1>1, <1>2 DEF CandidateIsDirectory

LEMMA ManifestStep ==
    ASSUME CandidateIInv, Candidate!WriteManifest
    PROVE  CandidateIsDirectory(dir') /\ CandidateIsInventoried(dir', job)
               /\ DOMAIN dir' = Candidate!Summed(job)
           /\ Candidate!Checksums \notin DOMAIN dir'
<1> DEFINE old == [context |-> job, assets |-> [i \in 1 .. 3 |-> Candidate!Entry(job, i)]]
<1>1. Candidate!MayInventory
          /\ dir' = Candidate!With(Candidate!Manifest, Candidate!Regular(Candidate!ManifestBytes(old)))
  BY DEF Candidate!WriteManifest
<1>2. DOMAIN dir = Candidate!Payloads(job) /\ Candidate!IsValid(job) /\ CandidateIsDirectory(dir)
      /\ \A n \in Candidate!Payloads(job) : dir[n].kind = "file" /\ dir[n].bytes.size \in 1 .. MaxAsset
  BY <1>1 DEF Candidate!MayInventory, Candidate!IsAsset, CandidateIInv
<1> HIDE DEF old
<1>3. /\ CandidateIsDirectory(dir') /\ DOMAIN dir' = Candidate!Summed(job)
      /\ dir'[Candidate!Manifest] = Candidate!Regular(Candidate!ManifestBytes(old))
      /\ \A n \in Candidate!Payloads(job) : dir'[n] = dir[n]
  BY <1>1, <1>2, WithKeeps, CandidateNames, ZenonT(60) DEF Candidate!Summed
<1>4. old = CandidateInventoryOf(dir', job)
  <2>1. \A i \in 1 .. 3 : Candidate!Contract(job)[i].name \in Candidate!Payloads(job)
    BY DEF Candidate!Payloads
  <2>2. \A i \in 1 .. 3 : dir'[Candidate!Contract(job)[i].name] = dir[Candidate!Contract(job)[i].name]
    BY <1>3, <2>1
  <2> QED
    BY <2>2 DEF CandidateInventoryOf, Candidate!Entry, old
<1>5. dir'[Candidate!Manifest].kind = "file"
          /\ dir'[Candidate!Manifest].bytes = Candidate!ManifestBytes(old)
  BY <1>3 DEF Candidate!Regular
<1>6. CandidateIsInventoried(dir', job)
  BY <1>2, <1>3, <1>4, <1>5 DEF CandidateIsInventoried, Candidate!Summed
<1> QED
  BY <1>3, <1>6, CandidateNames

LEMMA ChecksumsStep ==
    ASSUME CandidateIInv, Candidate!WriteChecksums
    PROVE  CandidateIsDirectory(dir') /\ CandidateIsCandidate([context |-> job, dir |-> dir'])
<1>1. CandidateIsDirectory(dir) /\ CandidateIsInventoried(dir, job)
          /\ DOMAIN dir = Candidate!Summed(job)
      /\ dir' = Candidate!With(Candidate!Checksums,
             Candidate!Regular(Candidate!Sums(Candidate!Summed(job))))
  BY DEF CandidateIInv, Candidate!WriteChecksums
<1>2. /\ CandidateIsDirectory(dir') /\ DOMAIN dir' = Candidate!Payloads(job) \cup Candidate!Controls
      /\ dir'[Candidate!Checksums] = Candidate!Regular(Candidate!Sums(Candidate!Summed(job)))
      /\ \A n \in Candidate!Summed(job) : dir'[n] = dir[n]
  BY <1>1, WithKeeps, CandidateNames DEF Candidate!Summed, Candidate!Controls
<1>3. Candidate!Manifest \in Candidate!Summed(job)
          /\ Candidate!Payloads(job) \subseteq Candidate!Summed(job)
      /\ \A i \in 1 .. 3 : Candidate!Contract(job)[i].name \in Candidate!Summed(job)
  BY DEF Candidate!Summed, Candidate!Payloads
<1>4. CandidateInventoryOf(dir', job) = CandidateInventoryOf(dir, job)
  BY <1>2, <1>3 DEF CandidateInventoryOf
<1>5. CandidateIsInventoried(dir', job)
  BY <1>1, <1>2, <1>3, <1>4 DEF CandidateIsInventoried, Candidate!Controls, Candidate!Summed
<1>6. Candidate!Sums(Candidate!Summed(job)) = [n \in Candidate!Summed(job) |-> dir'[n].bytes]
  BY <1>2 DEF Candidate!Sums
<1> QED
  BY <1>2, <1>5, <1>6 DEF CandidateIsCandidate

LEMMA ChangeStep ==
    ASSUME CandidateIInv, Candidate!Change
    PROVE  CandidateIsDirectory(dir') /\ CandidateChecksumsInv'
<1>1. UNCHANGED made /\ CandidateIsDirectory(dir) /\ dir = [n \in DOMAIN dir |-> dir[n]]
  BY DEF Candidate!Change, CandidateIInv, CandidateIsDirectory
<1>2. ASSUME NEW n \in DOMAIN dir, NEW file \in Candidate!Others(n), dir' = [dir EXCEPT ![n] = file]
      PROVE  CandidateIsDirectory(dir') /\ CandidateChecksumsInv'
  <2>1. /\ DOMAIN dir' = DOMAIN dir /\ dir'[n] = file
        /\ \A x \in DOMAIN dir \ {n} : dir'[x] = dir[x]
        /\ dir' = [x \in DOMAIN dir' |-> dir'[x]]
    BY <1>1, <1>2
  <2>2. file = [kind |-> file.kind, bytes |-> file.bytes]
    <3>1. ASSUME NEW c \in made, n \in DOMAIN c.dir, file = c.dir[n]
          PROVE  file = [kind |-> file.kind, bytes |-> file.bytes]
      <4>1. CandidateIsDirectory(c.dir)
        BY DEF CandidateIInv, CandidateIsCandidate
      <4> QED
        BY <3>1, <4>1, DirectoryEntry
    <3> QED
      BY <1>2, <3>1 DEF Candidate!Others, Candidate!Regular
  <2>3. CandidateIsDirectory(dir')
    <3>1. \A x \in DOMAIN dir' : dir'[x] = [kind |-> dir'[x].kind, bytes |-> dir'[x].bytes]
      BY <1>1, <2>1, <2>2, DirectoryEntry
    <3> QED
      BY <2>1, <3>1, DirectoryOf
  <2>6. made' = made
    BY <1>1
  <2>4. CASE n # Candidate!Checksums
    <3>1. Candidate!Checksums \in DOMAIN dir'
              => dir'[Candidate!Checksums] = dir[Candidate!Checksums]
                  /\ Candidate!Checksums \in DOMAIN dir
      BY <2>1, <2>4
    <3> QED
      BY <2>3, <2>6, <3>1 DEF CandidateIInv, CandidateChecksumsInv
  <2>5. CASE n = Candidate!Checksums
    <3>1. file.kind = "other" \/ \E c \in made : file = c.dir[n]
      BY <1>2, <2>5, ControlNames DEF Candidate!Others
    <3>2. dir'[Candidate!Checksums] = file
      BY <2>1, <2>5
    <3> QED
      BY <2>3, <2>5, <2>6, <3>1, <3>2 DEF CandidateChecksumsInv
  <2> QED
    BY <2>3, <2>4, <2>5
<1>3. ASSUME NEW n \in DOMAIN dir, dir' = [x \in DOMAIN dir \ {n} |-> dir[x]]
      PROVE  CandidateIsDirectory(dir') /\ CandidateChecksumsInv'
  <2>1. DOMAIN dir' = DOMAIN dir \ {n} /\ \A x \in DOMAIN dir' : dir'[x] = dir[x]
    BY <1>3
  <2>2. CandidateIsDirectory(dir')
    BY <1>1, <1>3, <2>1 DEF CandidateIsDirectory
  <2> QED
    BY <1>1, <2>1, <2>2 DEF CandidateIInv, CandidateChecksumsInv
<1>4. CASE dir' = Candidate!With(Candidate!Extra, Candidate!Regular([id |-> "extra", size |-> 1]))
  <2>1. CandidateIsDirectory(dir') /\ DOMAIN dir' = DOMAIN dir \cup {Candidate!Extra}
        /\ \A x \in DOMAIN dir \ {Candidate!Extra} : dir'[x] = dir[x]
    BY <1>1, <1>4, WithKeeps
  <2> QED
    BY <1>1, <2>1, ControlNames DEF CandidateIInv, CandidateChecksumsInv
<1> QED
  BY <1>2, <1>3, <1>4 DEF Candidate!Change

LEMMA CandidateInvInit == Candidate!Init => CandidateIInv
BY DEF Candidate!Init, CandidateIInv, CandidateIsDirectory, CandidateChecksumsInv,
       Candidate!VerdictIsExact, Candidate!VerifiedIsAsCreated,
       Candidate!UntouchedIsVerified

LEMMA CandidateInvNext == CandidateIInv /\ [Candidate!Next]_Candidate!vars => CandidateIInv'
<1> SUFFICES ASSUME CandidateIInv, [Candidate!Next]_Candidate!vars PROVE CandidateIInv'
  OBVIOUS
<1> USE DEF Candidate!VerdictIsExact, Candidate!VerifiedIsAsCreated, Candidate!UntouchedIsVerified
<1>1. ASSUME NEW ctx \in CandidateContexts, Candidate!Build(ctx)
      PROVE  CandidateIInv'
  <2>1. DOMAIN dir' = Candidate!Payloads(ctx) /\ CandidateIsDirectory(dir')
    BY <1>1 DEF Candidate!Build, CandidateIsDirectory, Candidate!Regular
  <2>2. CandidateChecksumsInv'
    BY <2>1, CandidateNames DEF CandidateChecksumsInv, Candidate!Summed
  <2> QED
    BY <1>1, <2>1, <2>2 DEF Candidate!Build, CandidateIInv
<1>2. ASSUME NEW ctx \in CandidateContexts, Candidate!Verify(ctx)
      PROVE  CandidateIInv'
  <2>1. [context |-> ctx, dir |-> dir] \in made => Candidate!Verifies(ctx)
    BY CandidateVerifies DEF CandidateIInv
  <2>2. Candidate!Verifies(ctx) => [context |-> ctx, dir |-> dir] \in made
    BY VerifiedWasMade
  <2>3. /\ UNCHANGED <<dir, made>> /\ job' = ctx
        /\ candidateAt' = IF Candidate!Verifies(ctx) THEN "verified" ELSE "refused"
    BY <1>2 DEF Candidate!Verify
  <2>4. Candidate!VerdictIsExact'
    BY <2>1, <2>2, <2>3
  <2> QED
    BY <2>3, <2>4 DEF CandidateIInv, CandidateChecksumsInv
<1>3. CASE Candidate!WriteManifest
  BY <1>3, ManifestStep DEF CandidateIInv, Candidate!WriteManifest, CandidateChecksumsInv
<1>4. CASE Candidate!WriteChecksums
  <2>1. made' = made \cup {[context |-> job, dir |-> dir']} /\ candidateAt' = "created"
    BY <1>4 DEF Candidate!WriteChecksums
  <2>2. CandidateChecksumsInv'
    <3>1. [context |-> job, dir |-> dir'].dir[Candidate!Checksums] = dir'[Candidate!Checksums]
      OBVIOUS
    <3> QED
      BY <2>1, <3>1 DEF CandidateChecksumsInv
  <2>3. \A c \in made' : CandidateIsCandidate(c)
    BY <1>4, <2>1, ChecksumsStep DEF CandidateIInv
  <2> QED
    BY <1>4, <2>1, <2>2, <2>3, ChecksumsStep DEF CandidateIInv
<1>5. CASE Candidate!CreateFails \/ Candidate!CreateAgain \/ Candidate!Finish
  BY <1>5
     DEF Candidate!CreateFails, Candidate!CreateAgain, Candidate!Finish, CandidateIInv,
         CandidateChecksumsInv
<1>6. CASE Candidate!Change
  BY <1>6, ChangeStep DEF Candidate!Change, CandidateIInv
<1>7. CASE UNCHANGED Candidate!vars
  BY <1>7 DEF Candidate!vars, CandidateIInv, CandidateChecksumsInv
<1> QED
  BY <1>1, <1>2, <1>3, <1>4, <1>5, <1>6, <1>7 DEF Candidate!Next

LEMMA CandidateTrue == CandidateIInv => Candidate!VerdictIsExact
BY DEF CandidateIInv

\* The invariant holds where ReleaseCandidate moves, beside what stands still.
LEMMA CandidateRuns == ToolSpec => [](tool = "Candidate" => CandidateIInv)
<1> DEFINE Inv == tool = "Candidate" => CandidateIInv
<1>1. ToolInit => Inv
  BY CandidateInvInit DEF ToolInit
<1>2. Inv /\ [ToolStep]_toolVars => Inv'
  <2> SUFFICES ASSUME Inv, [ToolStep]_toolVars, tool' = "Candidate"
               PROVE  CandidateIInv'
    OBVIOUS
  <2>1. tool = "Candidate" /\ [Candidate!Next]_Candidate!vars
    BY DEF ToolStep, toolVars, candidateVars, Candidate!vars
  <2> QED
    BY <2>1, CandidateInvNext
<1> HIDE DEF Inv
<1>3. ToolSpec => []Inv
  BY <1>1, <1>2, PTL DEF ToolSpec
<1> QED
  BY <1>3 DEF Inv

\* verify-candidate accepts the candidates that create-candidate completed for
\* the context it is asked about and no others: for any contexts, payloads and
\* asset limit, and any sequence of changes to the files in between.
THEOREM OnlyCandidatesVerify == ToolSpec => []VerdictIsExact
<1>1. (tool = "Candidate" => CandidateIInv) => VerdictIsExact
  BY CandidateTrue DEF VerdictIsExact
<1> QED
  BY <1>1, CandidateRuns, PTL

-----------------------------------------------------------------------------
(* Lists.                                                                    *)

\* A set is listed with nothing left out.
LEMMA SetListed ==
    ASSUME NEW S, IsFiniteSet(S)
    PROVE  SetToSeq(S) \in Seq(S) /\ Range(SetToSeq(S)) = S
<1> DEFINE n == Cardinality(S)
<1>1. n \in Nat /\ ExistsBijection(1 .. n, S)
  BY FS_CardinalityType
<1>2. PICK f \in Bijection(1 .. n, S) : TRUE
  BY <1>1 DEF ExistsBijection
<1>3. f \in [1 .. n -> S] /\ IsInjective(f)
  BY <1>2 DEF Bijection, Injection, IsInjective
<1>4. SetToSeq(S) \in [1 .. n -> S] /\ IsInjective(SetToSeq(S))
  BY <1>3 DEF SetToSeq
<1> DEFINE s == SetToSeq(S)
<1> HIDE DEF s
<1>5. IsFiniteSet(1 .. n) /\ Cardinality(1 .. n) = n
  BY <1>1, FS_Interval
<1>6. s \in Injection(1 .. n, S)
  BY <1>4 DEF Injection, IsInjective, s
<1>7. s \in Surjection(1 .. n, S)
  BY <1>5, <1>6, FS_Injection
<1>8. Range(s) = S
  BY <1>7 DEF Surjection, Range
<1> QED
  BY <1>1, <1>4, <1>8 DEF s

\* Two sequences one after the other.
LEMMA Joined ==
    ASSUME NEW S, NEW T, NEW s \in Seq(S), NEW t \in Seq(T)
    PROVE  s \o t \in Seq(Range(s \o t)) /\ Range(s \o t) = Range(s) \cup Range(t)
<1>1. s \in Seq(S \cup T) /\ t \in Seq(S \cup T)
  OBVIOUS
<1>2. s \o t \in Seq(S \cup T)
  BY <1>1, ConcatProperties
<1>3. s \o t \in Seq(Range(s \o t))
  BY <1>2, SeqOfRange
<1>4. Range(s \o t) = Range(s) \cup Range(t)
  BY <1>1, RangeConcatenation
<1> QED
  BY <1>3, <1>4

\* A sequence without its last element.
LEMMA LastTaken ==
    ASSUME NEW S, NEW s \in Seq(S), s # <<>>
    PROVE  /\ Last(s) \in Range(s) /\ Front(s) \in Seq(S)
           /\ Range(s) = Range(Front(s)) \cup {Last(s)}
<1>1. /\ Len(s) \in Nat \ {0} /\ DOMAIN s = 1 .. Len(s) /\ Last(s) = s[Len(s)]
      /\ s \in [1 .. Len(s) -> S]
  BY EmptySeq, LenProperties DEF Last
<1>2. /\ Front(s) \in Seq(S) /\ DOMAIN Front(s) = 1 .. Len(s) - 1
      /\ \A i \in 1 .. Len(s) - 1 : Front(s)[i] = s[i]
  BY <1>1, SubSeqProperties, LenProperties DEF Front
<1>3. Last(s) \in Range(s) /\ Range(Front(s)) \subseteq Range(s)
  BY <1>1, <1>2 DEF Range
<1>4. ASSUME NEW i \in DOMAIN s PROVE s[i] \in Range(Front(s)) \cup {Last(s)}
  <2>1. CASE i = Len(s)
    BY <1>1, <2>1
  <2>2. CASE i # Len(s)
    BY <1>1, <1>2, <2>2 DEF Range
  <2> QED
    BY <2>1, <2>2
<1> QED
  BY <1>2, <1>3, <1>4 DEF Range

-----------------------------------------------------------------------------
(* EgressCheck.                                                              *)

\* The lists and finite sets of an instance are those of the library.
LEMMA EgressSetListed ==
    ASSUME NEW S, Egress!IsFiniteSet(S)
    PROVE  Egress!SetToSeq(S) \in Seq(S) /\ Egress!Range(Egress!SetToSeq(S)) = S
<1>1. IsFiniteSet(S)
  BY DEF IsFiniteSet, Egress!IsFiniteSet
<1>2. Egress!SetToSeq(S) = SetToSeq(S)
  BY DEF SetToSeq, Egress!SetToSeq, Cardinality, Egress!Cardinality, IsInjective, Egress!IsInjective
<1>3. \A s : Egress!Range(s) = Range(s)
  BY DEF Range, Egress!Range
<1> QED
  BY <1>1, <1>2, <1>3, SetListed

LEMMA EgressSubset == \A S \in SUBSET EgressFiles : Egress!IsFiniteSet(S)
<1>1. IsFiniteSet(EgressFiles)
  BY EgressInstance DEF Egress!EgressAssumption, Egress!IsFiniteSet, IsFiniteSet
<1>2. \A S \in SUBSET EgressFiles : IsFiniteSet(S)
  BY <1>1, FS_Subset
<1> QED
  BY <1>2 DEF Egress!IsFiniteSet, IsFiniteSet

LEMMA EgressInvInit == Egress!Init => Egress!IInv
<1> SUFFICES ASSUME Egress!Init PROVE Egress!IInv
  OBVIOUS
<1>1. request \in Egress!Request /\ request.paths \in EgressRequests
  BY DEF Egress!Init, Egress!Request
<1>2. Egress!AskedInv
  BY <1>1 DEF Egress!Init, Egress!AskedInv
<1>3. Egress!WalkInv
  <2>1. queue = request.paths /\ found = {} /\ queue \subseteq EgressFiles \cup Egress!Directories
    BY <1>1, EgressInstance DEF Egress!Init, Egress!EgressAssumption
  <2>2. Egress!IsVisited({})
    BY <2>1 DEF Egress!IsVisited
  <2> QED
    BY <2>1, <2>2 DEF Egress!WalkInv, Egress!IsWhole
<1>4. Egress!ScanInv
  BY DEF Egress!Init, Egress!ScanInv
<1> QED
  BY <1>2, <1>3, <1>4 DEF Egress!IInv

\* The walk adds what every whole set of paths has, and leaves nothing out.
LEMMA EgressVisitKeeps ==
    ASSUME Egress!IInv, Egress!Visit
    PROVE  Egress!WalkInv'
<1>1. PICK path \in queue :
        IF path \in EgressFiles
        THEN found' = found \cup {path} /\ queue' = queue \ {path}
        ELSE /\ found' = found \cup (EgressUnder[path] \cap EgressFiles)
             /\ queue' = (queue \ {path})
                    \cup ((EgressUnder[path] \cap Egress!Directories) \ EgressLinks)
  BY DEF Egress!Visit
<1>2. request' = request
  BY DEF Egress!Visit, Egress!Asked
<1>3. Egress!WalkInv
  BY DEF Egress!IInv
<1>4. PICK V \in SUBSET Egress!Directories : Egress!IsVisited(V)
  BY <1>3 DEF Egress!WalkInv
<1>5. \A S : Egress!IsWhole(S)' <=> Egress!IsWhole(S)
  BY <1>2 DEF Egress!IsWhole
<1>6. CASE path \in EgressFiles
  <2>1. found' \cup queue' = found \cup queue /\ found' \subseteq EgressFiles
        /\ queue' \subseteq EgressFiles \cup Egress!Directories
    BY <1>1, <1>3, <1>6 DEF Egress!WalkInv
  <2>2. Egress!IsVisited(V)'
    BY <1>2, <1>4, <2>1 DEF Egress!IsVisited
  <2> QED
    BY <1>3, <1>5, <2>1, <2>2 DEF Egress!WalkInv
<1>7. CASE path \notin EgressFiles
  <2>1. path \in Egress!Directories
    BY <1>3, <1>7 DEF Egress!WalkInv
  <2>2. found' \subseteq EgressFiles /\ queue' \subseteq EgressFiles \cup Egress!Directories
    BY <1>1, <1>3, <1>7 DEF Egress!WalkInv
  <2>3. ASSUME NEW S \in SUBSET (EgressFiles \cup Egress!Directories), Egress!IsWhole(S)
        PROVE  queue' \cup found' \subseteq S
    <3>1. queue \cup found \subseteq S
      BY <1>3, <2>3 DEF Egress!WalkInv
    <3>2. \A x \in EgressUnder[path] : x \in EgressFiles \/ x \notin EgressLinks => x \in S
      BY <2>1, <2>3, <3>1 DEF Egress!IsWhole
    <3> QED
      BY <1>1, <1>7, <3>1, <3>2
  <2>4. Egress!IsVisited(V \cup {path})'
    <3>1. V \cup queue \cup found \subseteq (V \cup {path}) \cup queue' \cup found'
      BY <1>1, <1>7
    <3>2. \A x \in EgressUnder[path] : x \in EgressFiles \/ x \notin EgressLinks
              => x \in queue' \cup found'
      BY <1>1, <1>7, <2>1, EgressInstance DEF Egress!EgressAssumption
    <3> QED
      BY <1>2, <1>4, <3>1, <3>2 DEF Egress!IsVisited
  <2> QED
    BY <1>5, <2>1, <2>2, <2>3, <2>4 DEF Egress!WalkInv
<1> QED
  BY <1>6, <1>7

\* Where neither the walk nor what was asked moves, its invariant stays.
LEMMA EgressWalkStays ==
    ASSUME Egress!WalkInv, UNCHANGED <<request, queue, found>>
    PROVE  Egress!WalkInv'
BY DEF Egress!WalkInv, Egress!IsWhole, Egress!IsVisited

LEMMA EgressAskedStays ==
    ASSUME Egress!AskedInv, UNCHANGED Egress!Asked, phase' \in {"walk", "scan", "done", "error"},
           phase' # "error" => UNCHANGED terms /\ phase \in {"walk", "scan", "done"}
    PROVE  Egress!AskedInv'
BY DEF Egress!AskedInv, Egress!Asked, Egress!Listed

LEMMA EgressScanKeeps ==
    ASSUME Egress!IInv, Egress!Scan
    PROVE  Egress!ScanInv'
<1>0. PICK path : path = Head(scanning)
  OBVIOUS
<1>1. /\ phase = "scan" /\ phase' = "scan" /\ scanning # <<>> /\ scanning' = Tail(scanning)
      /\ UNCHANGED <<content, request, terms, queue, found>>
  BY DEF Egress!Scan, Egress!Asked
<1>2. scanning \in Seq(EgressFiles) /\ Egress!ScanInv
  BY DEF Egress!IInv, Egress!ScanInv
<1>3. /\ path \in EgressFiles /\ scanning' \in Seq(EgressFiles)
      /\ Egress!Range(scanning) \subseteq Egress!Range(scanning') \cup {path}
  <2>1. /\ Len(scanning) \in Nat \ {0} /\ DOMAIN scanning = 1 .. Len(scanning)
        /\ path = scanning[1] /\ path \in EgressFiles
    BY <1>0, <1>1, <1>2, EmptySeq, LenProperties
  <2>2. /\ scanning' \in Seq(EgressFiles) /\ DOMAIN scanning' = 1 .. Len(scanning) - 1
        /\ \A i \in 1 .. Len(scanning) - 1 : scanning'[i] = scanning[i + 1]
    BY <1>1, <1>2, HeadTailProperties, LenProperties
  <2>3. ASSUME NEW i \in DOMAIN scanning
        PROVE  scanning[i] \in Egress!Range(scanning') \cup {path}
    <3>1. CASE i = 1
      BY <2>1, <3>1
    <3>2. CASE i # 1
      <4>1. i - 1 \in DOMAIN scanning' /\ scanning'[i - 1] = scanning[i]
        BY <2>1, <2>2, <3>2
      <4> QED
        BY <4>1 DEF Egress!Range
    <3> QED
      BY <3>1, <3>2
  <2> QED
    BY <2>1, <2>2, <2>3 DEF Egress!Range
<1>4. checked' = IF path \in EgressTexts /\ content[path] # Undecodable
                 THEN [checked EXCEPT !.findings =
                         @ \cup UNION {Egress!Findings(path, i) : i \in DOMAIN content[path]}]
                 ELSE [checked EXCEPT !.unscanned = @ \cup {path}]
  BY <1>0 DEF Egress!Scan
<1>5. /\ checked' = [findings |-> checked'.findings, unscanned |-> checked'.unscanned,
                    excluded |-> checked'.excluded]
      /\ checked'.excluded = checked.excluded /\ checked.unscanned \subseteq checked'.unscanned
      /\ checked.findings \subseteq checked'.findings
      /\ \/ path \in checked'.unscanned
         \/ /\ content[path] # Undecodable
            /\ \A i \in DOMAIN content[path] : Egress!Findings(path, i) \subseteq checked'.findings
  <2> DEFINE findings == checked.findings \cup UNION {Egress!Findings(path,
          i) : i \in DOMAIN content[path]}
             unscanned == checked.unscanned \cup {path}
  <2>1. checked = [findings |-> checked.findings, unscanned |-> checked.unscanned,
                   excluded |-> checked.excluded]
    BY <1>2 DEF Egress!ScanInv
  <2>2. CASE path \in EgressTexts /\ content[path] # Undecodable
    <3>1. checked' = [findings |-> findings, unscanned |-> checked.unscanned,
                      excluded |-> checked.excluded]
      BY <1>4, <2>1, <2>2
    <3>2. \A i \in DOMAIN content[path] : Egress!Findings(path, i) \subseteq findings
      OBVIOUS
    <3> QED
      BY <2>2, <3>1, <3>2
  <2>3. CASE ~(path \in EgressTexts /\ content[path] # Undecodable)
    <3>1. checked' = [findings |-> checked.findings, unscanned |-> unscanned,
                      excluded |-> checked.excluded]
      BY <1>4, <2>1, <2>3
    <3> QED
      BY <3>1
  <2> QED
    BY <2>2, <2>3
<1>6. \A f, i : Egress!Findings(f, i)' = Egress!Findings(f, i)
  BY <1>1 DEF Egress!Findings
<1>7. Egress!Unused' = Egress!Unused /\ Egress!Excluded' = Egress!Excluded
  BY <1>1 DEF Egress!Unused, Egress!Excluded
<1>8. \A f : Egress!IsRead(f) => Egress!IsRead(f)'
  BY <1>1, <1>5, <1>6 DEF Egress!IsRead
<1>9. path \in checked'.unscanned \/ Egress!IsRead(path)'
  <2>1. CASE path \in checked'.unscanned
    BY <2>1
  <2>2. CASE path \notin checked'.unscanned
    <3>1. /\ content[path] # Undecodable
          /\ \A i \in DOMAIN content[path] : Egress!Findings(path, i) \subseteq checked'.findings
      BY <1>5, <2>2
    <3>2. content' = content
      BY <1>1
    <3> QED
      BY <1>6, <3>1, <3>2 DEF Egress!IsRead
  <2> QED
    BY <2>1, <2>2
<1>10. \A f \in found \ Egress!Excluded :
           f \in Egress!Range(scanning') \cup checked'.unscanned \/ Egress!IsRead(f)'
  <2> SUFFICES ASSUME NEW f \in found \ Egress!Excluded
               PROVE  f \in Egress!Range(scanning') \cup checked'.unscanned \/ Egress!IsRead(f)'
    OBVIOUS
  <2>1. f \in Egress!Range(scanning) \cup checked.unscanned \/ Egress!IsRead(f)
    BY <1>1, <1>2 DEF Egress!ScanInv
  <2>2. CASE f \in Egress!Range(scanning)
    BY <1>3, <1>9, <2>2
  <2>3. CASE f \in checked.unscanned
    <3>1. checked.unscanned \subseteq checked'.unscanned
      BY <1>5
    <3> QED
      BY <2>3, <3>1
  <2>4. CASE Egress!IsRead(f)
    BY <1>8, <2>4
  <2> QED
    BY <2>1, <2>2, <2>3, <2>4
<1> QED
  BY <1>1, <1>2, <1>3, <1>5, <1>7, <1>10 DEF Egress!ScanInv

LEMMA EgressSplitKeeps ==
    ASSUME Egress!IInv, Egress!Split
    PROVE  Egress!ScanInv'
<1>1. /\ phase = "walk" /\ queue = {} /\ UNCHANGED <<content, request, terms, queue, found>>
      /\ Egress!ScanInv /\ found \subseteq EgressFiles
  BY DEF Egress!Split, Egress!Asked, Egress!IInv, Egress!WalkInv
<1>2. CASE Egress!Unused # {}
  BY <1>1, <1>2 DEF Egress!Split, Egress!Error, Egress!ScanInv
<1>3. CASE Egress!Unused = {}
  <2>1. /\ phase' = "scan" /\ scanning' = Egress!SetToSeq(found \ Egress!Excluded)
        /\ checked' = [checked EXCEPT !.excluded = Egress!Excluded]
    BY <1>3 DEF Egress!Split
  <2>2. Egress!IsFiniteSet(found \ Egress!Excluded)
    BY <1>1, EgressSubset, EgressInstance DEF Egress!EgressAssumption
  <2>3. scanning' \in Seq(found \ Egress!Excluded) /\ Egress!Range(scanning') = found \ Egress!Excluded
    BY <2>1, <2>2, EgressSetListed
  <2>4. scanning' \in Seq(EgressFiles)
    BY <1>1, <2>3
  <2>5. Egress!Unused' = {} /\ Egress!Excluded' = Egress!Excluded
    BY <1>1, <1>3 DEF Egress!Unused, Egress!Excluded
  <2>6. checked' = [findings |-> checked.findings, unscanned |-> checked.unscanned,
                    excluded |-> Egress!Excluded]
    BY <1>1, <2>1 DEF Egress!ScanInv
  <2> QED
    BY <1>1, <2>1, <2>3, <2>4, <2>5, <2>6 DEF Egress!ScanInv
<1> QED
  BY <1>2, <1>3

LEMMA EgressInvNext == Egress!IInv /\ [Egress!Next]_Egress!vars => Egress!IInv'
<1> SUFFICES ASSUME Egress!IInv, [Egress!Next]_Egress!vars PROVE Egress!IInv'
  OBVIOUS
<1>1. Egress!AskedInv /\ Egress!WalkInv /\ Egress!ScanInv
  BY DEF Egress!IInv
<1>2. CASE Egress!LoadTerms
  <2>1. terms' = Egress!Listed /\ UNCHANGED Egress!Asked /\ phase' \in {"walk", "error"}
        /\ (phase' = "walk" => ~(request.terms /\ terms' = {}))
    BY <1>2 DEF Egress!LoadTerms, Egress!Error, Egress!Listed
  <2>2. Egress!AskedInv'
    BY <1>1, <2>1 DEF Egress!AskedInv, Egress!Asked, Egress!Listed
  <2>3. Egress!WalkInv' /\ Egress!ScanInv'
    BY <1>1, <1>2, <2>1, EgressWalkStays DEF Egress!LoadTerms, Egress!Asked, Egress!ScanInv
  <2> QED
    BY <2>2, <2>3 DEF Egress!IInv
<1>3. CASE Egress!Visit
  <2>1. Egress!AskedInv'
    BY <1>1, <1>3, EgressAskedStays DEF Egress!Visit
  <2>2. Egress!ScanInv'
    BY <1>1, <1>3 DEF Egress!Visit, Egress!ScanInv
  <2> QED
    BY <1>3, <2>1, <2>2, EgressVisitKeeps DEF Egress!IInv
<1>4. CASE Egress!Split
  <2>1. Egress!AskedInv' /\ Egress!WalkInv'
    BY <1>1, <1>4, EgressAskedStays, EgressWalkStays DEF Egress!Split, Egress!Asked, Egress!Error
  <2> QED
    BY <1>4, <2>1, EgressSplitKeeps DEF Egress!IInv
<1>5. CASE Egress!Scan
  <2>1. Egress!AskedInv' /\ Egress!WalkInv'
    BY <1>1, <1>5, EgressAskedStays, EgressWalkStays DEF Egress!Scan, Egress!Asked
  <2> QED
    BY <1>5, <2>1, EgressScanKeeps DEF Egress!IInv
<1>6. CASE Egress!Finish
  <2>1. Egress!AskedInv' /\ Egress!WalkInv'
    BY <1>1, <1>6, EgressAskedStays, EgressWalkStays DEF Egress!Finish, Egress!Asked
  <2>2. Egress!ScanInv'
    BY <1>1, <1>6
       DEF Egress!Finish, Egress!Asked, Egress!ScanInv, Egress!Unused, Egress!Excluded,
           Egress!IsRead, Egress!Findings
  <2> QED
    BY <2>1, <2>2 DEF Egress!IInv
<1>7. CASE Egress!ReadFails
  <2>1. Egress!AskedInv' /\ Egress!WalkInv'
    BY <1>1, <1>7, EgressAskedStays, EgressWalkStays
       DEF Egress!ReadFails, Egress!Asked, Egress!Error
  <2>2. Egress!ScanInv'
    BY <1>1, <1>7 DEF Egress!ReadFails, Egress!Error, Egress!ScanInv
  <2> QED
    BY <2>1, <2>2 DEF Egress!IInv
<1>8. CASE UNCHANGED Egress!vars
  <2>1. Egress!AskedInv' /\ Egress!WalkInv'
    BY <1>1, <1>8, EgressWalkStays DEF Egress!vars, Egress!AskedInv, Egress!Listed
  <2>2. Egress!ScanInv'
    BY <1>1, <1>8
       DEF Egress!vars, Egress!ScanInv, Egress!Unused, Egress!Excluded, Egress!IsRead,
           Egress!Findings
  <2> QED
    BY <2>1, <2>2 DEF Egress!IInv
<1> QED
  BY <1>2, <1>3, <1>4, <1>5, <1>6, <1>7, <1>8 DEF Egress!Next

\* Once the walk is over, what was found is the candidate.
LEMMA EgressFoundIsCandidate ==
    ASSUME Egress!WalkInv, queue = {}, request.paths \subseteq EgressFiles \cup Egress!Directories
    PROVE  found = Egress!Candidate
<1>1. PICK V \in SUBSET Egress!Directories : Egress!IsVisited(V)
  BY DEF Egress!WalkInv
<1>2. V \cup found \in SUBSET (EgressFiles \cup Egress!Directories) /\ Egress!IsWhole(V \cup found)
  BY <1>1, EgressInstance
     DEF Egress!EgressAssumption, Egress!WalkInv, Egress!IsVisited, Egress!IsWhole
<1>3. Egress!Candidate \subseteq found
  BY <1>2, EgressInstance DEF Egress!EgressAssumption, Egress!Candidate
<1>4. found \subseteq Egress!Candidate
  BY DEF Egress!WalkInv, Egress!Candidate
<1> QED
  BY <1>3, <1>4

LEMMA EgressCleared == Egress!IInv => Egress!ClearedIsScanned
<1> SUFFICES ASSUME Egress!IInv, phase = "done", Egress!Status = 0
             PROVE  /\ \A f \in Egress!Candidate :
                        \/ f \in checked.excluded /\ \E p \in request.exclude : f \in EgressMatches[p]
                        \/ f \in checked.unscanned /\ request.unscanned
                        \/ /\ content[f] # Undecodable
                           /\ \A i \in DOMAIN content[f] : ~Egress!Offends(content[f][i])
                    /\ request.terms => terms # {}
                    /\ \A p \in request.exclude : EgressMatches[p] \cap Egress!Candidate # {}
  BY DEF Egress!ClearedIsScanned
<1>1. /\ content \in EgressCandidates /\ request \in Egress!Request
      /\ terms = Egress!Listed /\ (request.terms => terms # {})
  BY DEF Egress!IInv, Egress!AskedInv
<1>2. /\ queue = {} /\ Egress!Unused = {} /\ checked.excluded = Egress!Excluded /\ scanning = <<>>
      /\ \A f \in found \ Egress!Excluded : f \in Egress!Range(scanning) \cup checked.unscanned
             \/ Egress!IsRead(f)
  BY DEF Egress!IInv, Egress!ScanInv
<1>3. ~Egress!Objections
  BY DEF Egress!Status
<1>4. found = Egress!Candidate /\ found \subseteq EgressFiles
  <2>1. request.paths \in EgressRequests
    BY <1>1 DEF Egress!Request
  <2> QED
    BY <1>2, <2>1, EgressFoundIsCandidate, EgressInstance
       DEF Egress!EgressAssumption, Egress!IInv, Egress!WalkInv
<1>5. Egress!Range(scanning) = {}
  BY <1>2 DEF Egress!Range
<1>6. ASSUME NEW f \in EgressFiles, Egress!IsRead(f), NEW i \in DOMAIN content[f],
                 Egress!Offends(content[f][i])
      PROVE  FALSE
  <2> DEFINE line == content[f][i]
  <2>1. Egress!Findings(f, i) \subseteq checked.findings /\ content[f] # Undecodable
    BY <1>6 DEF Egress!IsRead
  <2>2. line.pattern \in BOOLEAN /\ line.marker \in BOOLEAN
            /\ line.terms \cap {Egress!Blank, Egress!Comment} = {}
    BY <1>1, <2>1, EgressInstance DEF Egress!EgressAssumption
  <2>3. CASE line.marker
    <3>1. Egress!Finding("C", f, i) \in Egress!Findings(f, i)
      BY <2>2, <2>3 DEF Egress!Findings
    <3>2. Egress!Finding("C", f, i).layer # "B"
      BY DEF Egress!Finding
    <3> QED
      BY <1>3, <2>1, <3>1, <3>2 DEF Egress!Objections
  <2>4. CASE line.pattern /\ ~request.structural
    <3>1. Egress!Finding("B", f, i) \in Egress!Findings(f, i)
      BY <2>2, <2>4 DEF Egress!Findings
    <3> QED
      BY <1>3, <2>1, <2>4, <3>1 DEF Egress!Objections
  <2>5. CASE request.terms /\ \E j \in DOMAIN termsFile : termsFile[j] \in line.terms
    <3>1. PICK j \in DOMAIN termsFile : termsFile[j] \in line.terms
      BY <2>5
    <3>2. termsFile[j] \notin {Egress!Blank, Egress!Comment}
      BY <2>2, <3>1
    <3>3. [line |-> j, text |-> termsFile[j]] \in terms
      BY <1>1, <2>5, <3>2 DEF Egress!Listed
    <3>4. Egress!Finding("A", f, i) \in Egress!Findings(f, i)
      BY <3>1, <3>3 DEF Egress!Findings
    <3>5. Egress!Finding("A", f, i).layer # "B"
      BY DEF Egress!Finding
    <3> QED
      BY <1>3, <2>1, <3>4, <3>5 DEF Egress!Objections
  <2> QED
    BY <1>6, <2>3, <2>4, <2>5 DEF Egress!Offends
<1>7. ASSUME NEW f \in Egress!Candidate
      PROVE  \/ f \in checked.excluded /\ \E p \in request.exclude : f \in EgressMatches[p]
             \/ f \in checked.unscanned /\ request.unscanned
             \/ /\ content[f] # Undecodable
                /\ \A i \in DOMAIN content[f] : ~Egress!Offends(content[f][i])
  <2>1. CASE f \in Egress!Excluded
    BY <1>2, <2>1 DEF Egress!Excluded
  <2>2. CASE f \in checked.unscanned
    BY <1>3, <2>2 DEF Egress!Objections
  <2>3. CASE Egress!IsRead(f)
    BY <1>4, <1>6, <1>7, <2>3 DEF Egress!IsRead
  <2> QED
    BY <1>2, <1>4, <1>5, <1>7, <2>1, <2>2, <2>3
<1>8. \A p \in request.exclude : EgressMatches[p] \cap Egress!Candidate # {}
  BY <1>2, <1>4 DEF Egress!Unused
<1> QED
  BY <1>1, <1>7, <1>8

\* The invariant holds where EgressCheck moves, beside what stands still.
LEMMA EgressRuns == ToolSpec => [](tool = "Egress" => Egress!IInv)
<1> DEFINE Inv == tool = "Egress" => Egress!IInv
<1>1. ToolInit => Inv
  BY EgressInvInit DEF ToolInit
<1>2. Inv /\ [ToolStep]_toolVars => Inv'
  <2> SUFFICES ASSUME Inv, [ToolStep]_toolVars, tool' = "Egress"
               PROVE  Egress!IInv'
    OBVIOUS
  <2>1. tool = "Egress" /\ [Egress!Next]_Egress!vars
    BY DEF ToolStep, toolVars, egressVars, Egress!vars
  <2> QED
    BY <2>1, EgressInvNext
<1> HIDE DEF Inv
<1>3. ToolSpec => []Inv
  BY <1>1, <1>2, PTL DEF ToolSpec
<1> QED
  BY <1>3 DEF Inv

\* A candidate that check-egress clears was scanned in full, but for what it says
\* was left out: for any files, links, patterns, terms, requests and reads that
\* fail.
THEOREM ClearedWasScanned == ToolSpec => []ClearedIsScanned
<1>1. (tool = "Egress" => Egress!IInv) => ClearedIsScanned
  BY EgressCleared DEF ClearedIsScanned
<1> QED
  BY <1>1, EgressRuns, PTL

-----------------------------------------------------------------------------
(* PinFamilies.                                                              *)

\* The lists and finite sets of an instance are those of the library.
LEMMA PinsSetListed ==
    ASSUME NEW S, Pins!IsFiniteSet(S)
    PROVE  Pins!SetToSeq(S) \in Seq(S) /\ Pins!Range(Pins!SetToSeq(S)) = S
<1>1. IsFiniteSet(S)
  BY DEF IsFiniteSet, Pins!IsFiniteSet
<1>2. Pins!SetToSeq(S) = SetToSeq(S)
  BY DEF SetToSeq, Pins!SetToSeq, Cardinality, Pins!Cardinality, IsInjective, Pins!IsInjective
<1>3. \A s : Pins!Range(s) = Range(s)
  BY DEF Range, Pins!Range
<1> QED
  BY <1>1, <1>2, <1>3, SetListed

LEMMA PinsSeqOfRange ==
    ASSUME NEW S, NEW s \in Seq(S)
    PROVE  s \in Seq(Pins!Range(s))
BY SeqOfRange DEF Range, Pins!Range

LEMMA PinsJoined ==
    ASSUME NEW S, NEW T, NEW s \in Seq(S), NEW t \in Seq(T)
    PROVE  /\ s \o t \in Seq(Pins!Range(s \o t))
           /\ Pins!Range(s \o t) = Pins!Range(s) \cup Pins!Range(t)
<1>1. \A x : Pins!Range(x) = Range(x)
  BY DEF Range, Pins!Range
<1> QED
  BY <1>1, Joined

LEMMA PinsLastTaken ==
    ASSUME NEW S, NEW s \in Seq(S), s # <<>>
    PROVE  /\ Pins!Last(s) \in Pins!Range(s) /\ Pins!Front(s) \in Seq(S)
           /\ Pins!Range(s) = Pins!Range(Pins!Front(s)) \cup {Pins!Last(s)}
<1>1. \A x : Pins!Range(x) = Range(x)
  BY DEF Range, Pins!Range
<1>2. Pins!Last(s) = Last(s) /\ Pins!Front(s) = Front(s)
  BY DEF Last, Pins!Last, Front, Pins!Front
<1> QED
  BY <1>1, <1>2, LastTaken

\* What a family executes is the least closed set.
LEMMA PinsExecutesIsClosed ==
    ASSUME NEW f, NEW t
    PROVE  /\ Pins!Executes(f, t) \subseteq DOMAIN t
                  /\ Pins!IsClosed(Pins!Executes(f, t), f, t)
           /\ \A S \in SUBSET DOMAIN t : Pins!IsClosed(S, f, t)
                  => Pins!Executes(f, t) \subseteq S
BY DEF Pins!Executes, Pins!IsClosed

LEMMA PinsLeast ==
    ASSUME NEW f, NEW t, NEW S \in SUBSET DOMAIN t, Pins!IsClosed(S, f, t),
           \A T \in SUBSET DOMAIN t : Pins!IsClosed(T, f, t) => S \subseteq T
    PROVE  S = Pins!Executes(f, t)
BY DEF Pins!Executes

\* When the queue is empty the walk of a t is over.
LEMMA PinsWalkEnds ==
    ASSUME Pins!WalkInv, family # <<>>, unread = <<>>
    PROVE  pinned = Pins!Executes(family[1], Pins!Tree)
<1>1. Pins!Range(unread) = {}
  BY DEF Pins!Range
<1>2. /\ pinned \subseteq DOMAIN Pins!Tree
      /\ \A S \in SUBSET DOMAIN Pins!Tree : Pins!IsClosed(S, family[1], Pins!Tree) => pinned \subseteq S
      /\ Pins!IsClosed(pinned, family[1], Pins!Tree)
  BY <1>1 DEF Pins!WalkInv, Pins!IsClosed
<1> QED
  BY <1>2, PinsLeast

\* The files that do not differ are the same at both commits, and so is where
\* they lead.
LEMMA PinsSameFiles ==
    ASSUME NEW f, Pins!Diff(Pins!Executes(f, oldTree) \cup Pins!Executes(f, newTree)) = {}
    PROVE  Pins!Executes(f, oldTree) = Pins!Executes(f, newTree)
<1> DEFINE o == Pins!Executes(f, oldTree)
           n == Pins!Executes(f, newTree)
           S == o \cap n
<1>1. /\ o \subseteq DOMAIN oldTree /\ n \subseteq DOMAIN newTree
      /\ Pins!IsClosed(o, f, oldTree) /\ Pins!IsClosed(n, f, newTree)
  BY PinsExecutesIsClosed
<1>2. \A p \in o \cup n : p \in DOMAIN oldTree /\ p \in DOMAIN newTree /\ oldTree[p] = newTree[p]
  BY <1>1 DEF Pins!Diff, Pins!Differs
<1> HIDE DEF o, n
<1>3. \A p \in S, x \in DOMAIN oldTree \cap DOMAIN newTree :
          x \in Pins!References(oldTree, p) <=> x \in Pins!References(newTree, p)
  <2> SUFFICES ASSUME NEW p \in S, NEW x \in DOMAIN oldTree \cap DOMAIN newTree
               PROVE  x \in Pins!References(oldTree, p) <=> x \in Pins!References(newTree, p)
    OBVIOUS
  <2>1. PICK text : text = oldTree[p] /\ text = newTree[p]
    BY <1>2
  <2> DEFINE Leads(t) ==
               \/ x \in text.workflows
               \/ \E a \in text.actions : x \in PinUnder[a] \cap DOMAIN t
               \/ \E m \in text.names : x = PinScript[m] /\ PinScript[m] \in DOMAIN t
               \/ \E m \in text.imports :
                      x = PinScript[m] /\ p \in PinPython /\ PinScript[m] \in DOMAIN t
  <2>2. x \in Pins!References(oldTree, p) <=> Leads(oldTree)
    BY <2>1 DEF Pins!References
  <2>3. x \in Pins!References(newTree, p) <=> Leads(newTree)
    BY <2>1 DEF Pins!References
  <2>4. Leads(oldTree) <=> Leads(newTree)
    OBVIOUS
  <2> QED
    BY <2>2, <2>3, <2>4
<1>4. Pins!IsClosed(S, f, newTree)
  <2>1. {PinEntry[f]} \cap DOMAIN newTree \subseteq S
    BY <1>1, <1>2 DEF Pins!IsClosed
  <2>2. ASSUME NEW p \in S, NEW x \in Pins!References(newTree, p) \cap DOMAIN newTree
        PROVE  x \in S
    BY <1>1, <1>2, <1>3, <2>2 DEF Pins!IsClosed
  <2> QED
    BY <2>1, <2>2 DEF Pins!IsClosed
<1>5. Pins!IsClosed(S, f, oldTree)
  <2>1. {PinEntry[f]} \cap DOMAIN oldTree \subseteq S
    BY <1>1, <1>2 DEF Pins!IsClosed
  <2>2. ASSUME NEW p \in S, NEW x \in Pins!References(oldTree, p) \cap DOMAIN oldTree
        PROVE  x \in S
    BY <1>1, <1>2, <1>3, <2>2 DEF Pins!IsClosed
  <2> QED
    BY <2>1, <2>2 DEF Pins!IsClosed
<1>6. n \subseteq S /\ o \subseteq S
  BY <1>1, <1>4, <1>5, PinsExecutesIsClosed DEF o, n
<1> QED
  BY <1>6 DEF o, n

LEMMA PinsExactly ==
    ASSUME NEW f
    PROVE  LET o == Pins!Executes(f, oldTree)
               n == Pins!Executes(f, newTree) IN
           (Pins!Diff(o \cup n) = {}) <=> (Pins!Restricted(oldTree, o) = Pins!Restricted(newTree, n))
<1> DEFINE o == Pins!Executes(f, oldTree)
           n == Pins!Executes(f, newTree)
<1>1. o \subseteq DOMAIN oldTree /\ n \subseteq DOMAIN newTree
  BY PinsExecutesIsClosed
<1>2. ASSUME Pins!Diff(o \cup n) = {} PROVE Pins!Restricted(oldTree, o) = Pins!Restricted(newTree, n)
  <2>1. o = n
    BY <1>2, PinsSameFiles
  <2>2. \A p \in o : oldTree[p] = newTree[p]
    BY <1>1, <1>2, <2>1 DEF Pins!Diff, Pins!Differs
  <2> QED
    BY <2>1, <2>2 DEF Pins!Restricted
<1>3. ASSUME Pins!Restricted(oldTree, o) = Pins!Restricted(newTree, n) PROVE Pins!Diff(o \cup n) = {}
  <2>1. DOMAIN Pins!Restricted(oldTree, o) = o /\ DOMAIN Pins!Restricted(newTree, n) = n
    BY DEF Pins!Restricted
  <2>2. o = n
    BY <1>3, <2>1
  <2>3. \A p \in o : oldTree[p] = newTree[p]
    <3>1. \A p \in o : Pins!Restricted(oldTree, o)[p] = oldTree[p]
              /\ Pins!Restricted(newTree, n)[p] = newTree[p]
      BY <2>2 DEF Pins!Restricted
    <3> QED
      BY <1>3, <3>1
  <2> QED
    BY <1>1, <2>2, <2>3 DEF Pins!Diff, Pins!Differs
<1> QED
  BY <1>2, <1>3

\* A walk begins at the workflow of the family.
LEMMA PinsWalkBegins ==
    ASSUME NEW f
    PROVE  /\ <<PinEntry[f]>> \in Seq(Pins!Range(<<PinEntry[f]>>))
                  /\ Pins!Range(<<PinEntry[f]>>) = {PinEntry[f]}
           /\ \A t : \A S \in SUBSET DOMAIN t :
                  Pins!IsClosed(S, f, t) => {PinEntry[f]} \cap DOMAIN t \subseteq S
<1>1. Pins!Range(<<PinEntry[f]>>) = {PinEntry[f]}
  BY DEF Pins!Range
<1> QED
  BY <1>1 DEF Pins!IsClosed

LEMMA PinsInvInit == Pins!Init => Pins!IInv
<1> SUFFICES ASSUME Pins!Init PROVE Pins!IInv
  OBVIOUS
<1>1. Pins!WalkInv
  BY PinsWalkBegins DEF Pins!Init, Pins!WalkInv
<1>2. Pins!JudgedInv
  <2>1. changed = <<>> /\ Pins!Range(changed) = {}
    BY DEF Pins!Init, Pins!Range
  <2> QED
    BY <2>1 DEF Pins!JudgedInv
<1> QED
  BY <1>1, <1>2 DEF Pins!Init, Pins!IInv

LEMMA PinsVisitKeeps ==
    ASSUME Pins!IInv, Pins!Visit
    PROVE  Pins!WalkInv'
<1> SUFFICES ASSUME family # <<>> PROVE Pins!WalkInv'
  BY DEF Pins!Visit, Pins!WalkInv
<1> DEFINE f == family[1]
<1>1. PICK path, rest : path = Pins!Last(unread) /\ rest = Pins!Front(unread)
  OBVIOUS
<1>2. /\ unread # <<>> /\ UNCHANGED <<oldTree, newTree, family, side, paths, changed>>
      /\ IF path \in pinned \/ path \notin DOMAIN Pins!Tree
         THEN unread' = rest /\ pinned' = pinned
         ELSE /\ pinned' = pinned \cup {path}
              /\ unread' = rest \o Pins!SetToSeq(Pins!References(Pins!Tree, path))
  BY <1>1 DEF Pins!Visit
<1>3. /\ unread \in Seq(Pins!Range(unread)) /\ pinned \subseteq DOMAIN Pins!Tree
      /\ \A S \in SUBSET DOMAIN Pins!Tree :
             Pins!IsClosed(S, f, Pins!Tree)
                 => (pinned \cup Pins!Range(unread)) \cap DOMAIN Pins!Tree \subseteq S
      /\ {PinEntry[f]} \cap DOMAIN Pins!Tree \subseteq pinned \cup Pins!Range(unread)
      /\ \A p \in pinned : Pins!References(Pins!Tree,
             p) \cap DOMAIN Pins!Tree \subseteq pinned \cup Pins!Range(unread)
      /\ side \in {"old", "new"} /\ (side = "new" => paths = Pins!Executes(f, oldTree))
  BY DEF Pins!IInv, Pins!WalkInv
<1>4. /\ path \in Pins!Range(unread) /\ rest \in Seq(Pins!Range(unread))
      /\ Pins!Range(unread) = Pins!Range(rest) \cup {path}
  BY <1>1, <1>2, <1>3, PinsLastTaken
<1>5. PICK t : t = Pins!Tree /\ t \in TreesBefore \cup TreesAfter
  BY DEF Pins!Tree, Pins!IInv
<1>6. Pins!Tree' = t /\ f' = f
  BY <1>2, <1>5 DEF Pins!Tree
<1> HIDE DEF f
<1>7. CASE path \in pinned \/ path \notin DOMAIN t
  <2>1. unread' = rest /\ pinned' = pinned /\ rest \in Seq(Pins!Range(rest))
    BY <1>2, <1>4, <1>5, <1>7, PinsSeqOfRange
  <2> QED
    BY <1>2, <1>3, <1>4, <1>5, <1>6, <1>7, <2>1 DEF Pins!WalkInv, f
<1>8. CASE path \notin pinned /\ path \in DOMAIN t
  <2> DEFINE refs == Pins!References(t, path)
  <2>1. Pins!IsFiniteSet(refs)
    BY <1>5, <1>8, PinInstance DEF Pins!PinAssumption
  <2>2. Pins!SetToSeq(refs) \in Seq(refs) /\ Pins!Range(Pins!SetToSeq(refs)) = refs
    BY <2>1, PinsSetListed
  <2>3. pinned' = pinned \cup {path} /\ unread' = rest \o Pins!SetToSeq(refs)
    BY <1>2, <1>5, <1>8
  <2> HIDE DEF refs
  <2>4. unread' \in Seq(Pins!Range(unread')) /\ Pins!Range(unread') = Pins!Range(rest) \cup refs
    BY <1>4, <2>2, <2>3, PinsJoined
  <2>5. \A S \in SUBSET DOMAIN t :
            Pins!IsClosed(S, f, t) => (pinned' \cup Pins!Range(unread')) \cap DOMAIN t \subseteq S
    <3> SUFFICES ASSUME NEW S \in SUBSET DOMAIN t, Pins!IsClosed(S, f, t)
                 PROVE  (pinned' \cup Pins!Range(unread')) \cap DOMAIN t \subseteq S
      OBVIOUS
    <3>1. (pinned \cup Pins!Range(unread)) \cap DOMAIN t \subseteq S
      BY <1>3, <1>5
    <3>2. path \in S /\ refs \cap DOMAIN t \subseteq S
      BY <1>4, <1>8, <3>1 DEF Pins!IsClosed, refs
    <3> QED
      BY <1>4, <2>3, <2>4, <3>1, <3>2
  <2>6. pinned \cup Pins!Range(unread) \subseteq pinned' \cup Pins!Range(unread')
    BY <1>4, <2>3, <2>4
  <2>7. \A p \in pinned' : Pins!References(t,
            p) \cap DOMAIN t \subseteq pinned' \cup Pins!Range(unread')
    <3>1. \A p \in pinned : Pins!References(t,
              p) \cap DOMAIN t \subseteq pinned' \cup Pins!Range(unread')
      BY <1>3, <1>5, <2>6
    <3> QED
      BY <2>3, <2>4, <3>1 DEF refs
  <2>8. pinned' \subseteq DOMAIN t
            /\ {PinEntry[f]} \cap DOMAIN t \subseteq pinned' \cup Pins!Range(unread')
    BY <1>3, <1>5, <1>8, <2>3, <2>6
  <2> QED
    BY <1>2, <1>3, <1>6, <2>4, <2>5, <2>7, <2>8 DEF Pins!WalkInv, f, Pins!Executes, Pins!IsClosed
<1> QED
  BY <1>5, <1>7, <1>8

LEMMA PinsNewSideKeeps ==
    ASSUME Pins!IInv, Pins!NewSide
    PROVE  Pins!WalkInv'
<1>1. /\ family # <<>> /\ unread = <<>> /\ side = "old" /\ side' = "new" /\ paths' = pinned
      /\ pinned' = {} /\ unread' = <<PinEntry[family[1]]>> /\ UNCHANGED <<oldTree, newTree, family>>
  BY DEF Pins!NewSide
<1>2. pinned = Pins!Executes(family[1], oldTree)
  BY <1>1, PinsWalkEnds DEF Pins!IInv, Pins!Tree
<1> QED
  BY <1>1, <1>2, PinsWalkBegins DEF Pins!WalkInv

LEMMA PinsJudgeKeeps ==
    ASSUME Pins!IInv, Pins!Judge
    PROVE  Pins!WalkInv' /\ Pins!JudgedInv'
<1> DEFINE v == [family |-> family[1], files |-> Pins!Diff(paths \cup pinned)]
<1>1. /\ family # <<>> /\ unread = <<>> /\ side = "new" /\ side' = "old"
      /\ changed' = Append(changed, v) /\ pinned' = {} /\ UNCHANGED <<oldTree, newTree>>
      /\ unread' = IF family' = <<>> THEN <<>> ELSE <<PinEntry[family'[1]]>>
  BY DEF Pins!Judge
<1>2. pinned = Pins!Executes(family[1], newTree) /\ paths = Pins!Executes(family[1], oldTree)
  BY <1>1, PinsWalkEnds DEF Pins!IInv, Pins!Tree, Pins!WalkInv
<1>3. Pins!WalkInv'
  <2> SUFFICES ASSUME family' # <<>> PROVE Pins!WalkInv'
    BY DEF Pins!WalkInv
  <2>1. PICK f : f = family'[1]
    OBVIOUS
  <2>2. unread' = <<PinEntry[f]>>
    BY <1>1, <2>1
  <2>3. unread' \in Seq(Pins!Range(unread')) /\ Pins!Range(unread') = {PinEntry[f]}
    BY <2>2, PinsWalkBegins
  <2>4. \A S \in SUBSET DOMAIN Pins!Tree' :
            Pins!IsClosed(S, f, Pins!Tree')
                => (pinned' \cup Pins!Range(unread')) \cap DOMAIN Pins!Tree' \subseteq S
    BY <1>1, <2>3 DEF Pins!IsClosed
  <2> QED
    BY <1>1, <2>1, <2>3, <2>4 DEF Pins!WalkInv
<1>4. v.files = Pins!Diff(Pins!Executes(v.family, oldTree) \cup Pins!Executes(v.family, newTree))
  BY <1>2
<1>5. changed \in Seq(Pins!Range(changed))
  BY DEF Pins!IInv, Pins!JudgedInv
<1> HIDE DEF v
<1>6. changed' = changed \o <<v>> /\ <<v>> \in Seq({v}) /\ Pins!Range(<<v>>) = {v}
  <2>1. changed \in Seq(Pins!Range(changed) \cup {v})
    BY <1>5, SeqMonotonic
  <2>2. changed' = changed \o <<v>>
    BY <1>1, <2>1, AppendIsConcat
  <2> QED
    BY <2>2 DEF Pins!Range
<1>7. changed' \in Seq(Pins!Range(changed')) /\ Pins!Range(changed') = Pins!Range(changed) \cup {v}
  <2> DEFINE w == <<v>>
  <2>1. w \in Seq({v}) /\ changed' = changed \o w /\ Pins!Range(w) = {v}
    BY <1>6
  <2> HIDE DEF w
  <2> QED
    BY <1>5, <2>1, PinsJoined
<1>8. \A ps : Pins!Diff(ps)' = Pins!Diff(ps)
  BY <1>1 DEF Pins!Diff, Pins!Differs
<1> QED
  BY <1>1, <1>3, <1>4, <1>7, <1>8 DEF Pins!IInv, Pins!JudgedInv

LEMMA PinsInvNext == Pins!IInv /\ [Pins!Next]_Pins!vars => Pins!IInv'
<1> SUFFICES ASSUME Pins!IInv, [Pins!Next]_Pins!vars PROVE Pins!IInv'
  OBVIOUS
<1>1. Pins!JudgedInv' \/ Pins!Judge
  BY
     DEF Pins!Next, Pins!Visit, Pins!NewSide, Pins!vars, Pins!IInv, Pins!JudgedInv, Pins!Diff,
         Pins!Differs
<1>2. oldTree' \in TreesBefore /\ newTree' \in TreesAfter
  BY DEF Pins!IInv, Pins!Next, Pins!Visit, Pins!NewSide, Pins!Judge, Pins!vars
<1>3. CASE Pins!Visit \/ Pins!NewSide
  BY <1>1, <1>2, <1>3, PinsVisitKeeps, PinsNewSideKeeps, PinsJudgeKeeps DEF Pins!IInv
<1>4. CASE Pins!Judge
  BY <1>2, <1>4, PinsJudgeKeeps DEF Pins!IInv
<1>5. CASE UNCHANGED Pins!vars
  <2>1. Pins!WalkInv'
    BY <1>5 DEF Pins!vars, Pins!IInv, Pins!WalkInv, Pins!Tree
  <2> QED
    BY <1>1, <1>2, <2>1, PinsJudgeKeeps DEF Pins!IInv
<1> QED
  BY <1>3, <1>4, <1>5 DEF Pins!Next

LEMMA PinsTrue == Pins!IInv => Pins!VerdictsAreExact
<1> SUFFICES ASSUME Pins!IInv, NEW i \in DOMAIN changed
             PROVE  LET f == changed[i].family
                        o == Pins!Restricted(oldTree, Pins!Executes(f, oldTree))
                        n == Pins!Restricted(newTree, Pins!Executes(f, newTree)) IN
                    /\ (changed[i].files = {}) = (o = n)
                    /\ changed[i].files \subseteq Pins!Executes(f, oldTree) \cup Pins!Executes(f,
                           newTree)
  BY DEF Pins!VerdictsAreExact
<1> DEFINE f == changed[i].family
<1>1. changed[i].files = Pins!Diff(Pins!Executes(f, oldTree) \cup Pins!Executes(f, newTree))
  BY DEF Pins!IInv, Pins!JudgedInv, Pins!Range
<1> QED
  BY <1>1, PinsExactly DEF Pins!Diff

\* The invariant holds where PinFamilies moves, beside what stands still.
LEMMA PinsRuns == ToolSpec => [](tool = "Pins" => Pins!IInv)
<1> DEFINE Inv == tool = "Pins" => Pins!IInv
<1>1. ToolInit => Inv
  BY PinsInvInit DEF ToolInit
<1>2. Inv /\ [ToolStep]_toolVars => Inv'
  <2> SUFFICES ASSUME Inv, [ToolStep]_toolVars, tool' = "Pins"
               PROVE  Pins!IInv'
    OBVIOUS
  <2>1. tool = "Pins" /\ [Pins!Next]_Pins!vars
    BY DEF ToolStep, toolVars, pinsVars, Pins!vars
  <2> QED
    BY <2>1, PinsInvNext
<1> HIDE DEF Inv
<1>3. ToolSpec => []Inv
  BY <1>1, <1>2, PTL DEF ToolSpec
<1> QED
  BY <1>3 DEF Inv

\* A family is to be re-pinned exactly if the files that it executes differ:
\* for any two trees, any families and any references among the files.
THEOREM RepinsAreExact == ToolSpec => []VerdictsAreExact
<1>1. (tool = "Pins" => Pins!IInv) => VerdictsAreExact
  BY PinsTrue DEF VerdictsAreExact
<1> QED
  BY <1>1, PinsRuns, PTL

-----------------------------------------------------------------------------
(* CommandLine.                                                              *)

\* The sizes an instance counts are those of the library.
LEMMA LineCounts == \A S : Line!Cardinality(S) = Cardinality(S)
BY DEF Line!Cardinality, Cardinality

\* What a command prints is a sequence of texts for the two streams.
LEMMA AnswerOf ==
    ASSUME NEW c \in LineCalls
    PROVE  /\ Line!Execute(c).texts \in Seq([to : Line!Streams, size : Nat])
           /\ Line!Execute(c).code \in Nat
           /\ c.command = "usage" => Len(Line!Execute(c).texts) = 1
<1> DEFINE T == [to : Line!Streams, size : Nat]
<1>1. /\ Line!Out \in T /\ Line!Err \in T
      /\ \A n \in Nat : Line!Text("out", n) \in T /\ Line!Text("err", n) \in T
  BY DEF Line!Out, Line!Err, Line!Text, Line!Streams
<1>2. \A n \in Nat : Line!Lines(n) \in Seq(T)
  BY <1>1 DEF Line!Lines
<1>3. /\ <<>> \in Seq(T) /\ <<Line!Out>> \in Seq(T) /\ <<Line!Err>> \in Seq(T)
      /\ <<Line!Err, Line!Out>> \in Seq(T)
      /\ \A n \in Nat : <<Line!Text("out", n)>> \in Seq(T)
      /\ \A m, n \in Nat : <<Line!Text("out", m), Line!Text("err", n)>> \in Seq(T)
      /\ \A m \in Nat : <<Line!Text("out", m), Line!Err>> \in Seq(T)
  BY <1>1
<1> HIDE DEF T
<1>4. ASSUME NEW ok, NEW texts \in Seq(T)
      PROVE  Line!Plainly(ok, texts).texts \in Seq(T) /\ Line!Plainly(ok, texts).code \in Nat
  BY <1>3 DEF Line!Plainly, Line!Answer
<1>5. CASE c.command = "check-egress"
  <2>1. /\ c.excluded \in Nat /\ c.unscanned \in Nat /\ c.structural \in Nat /\ c.other \in Nat
    BY <1>5, LineInstance DEF Line!LineAssumption
  <2>2. Line!Lines(c.excluded + c.unscanned + c.structural + c.other + 1) \in Seq(T)
    <3>1. c.excluded + c.unscanned + c.structural + c.other + 1 \in Nat
      BY <2>1
    <3> QED
      BY <1>2, <3>1
  <2>3. Line!Egress(c).texts \in Seq(T) /\ Line!Egress(c).code \in Nat
    BY <1>3, <2>2 DEF Line!Egress, Line!Answer
  <2> QED
    BY <1>5, <2>3 DEF Line!Execute, T
<1>6. CASE c.command = "required-checks"
  <2>1. c.passed \in Nat /\ c.pending \in Nat /\ c.failed \in Nat
    BY <1>6, LineInstance DEF Line!LineAssumption
  <2>2. Line!Required(c).texts \in Seq(T) /\ Line!Required(c).code \in Nat
    BY <1>3, <2>1 DEF Line!Required, Line!Answer
  <2> QED
    BY <1>6, <2>2 DEF Line!Execute, T
<1>7. CASE c.command = "check-canaries"
  <2>1. c.errors \in Nat /\ c.warnings \in Nat
    BY <1>7, LineInstance DEF Line!LineAssumption
  <2>2. Line!Canaries(c).texts \in Seq(T) /\ Line!Canaries(c).code \in Nat
    BY <1>3, <2>1 DEF Line!Canaries, Line!Answer
  <2> QED
    BY <1>7, <2>2 DEF Line!Execute, T
<1>8. CASE c.command \in {"attribution-status", "check-reviews", "verify-skills"}
  BY <1>3, <1>4, <1>8 DEF Line!Execute, Line!Attribution, Line!Reviews, Line!Skills, T
<1>9. CASE c.command = "python-release"
  <2>1. c.prints \in Nat
    BY <1>9, LineInstance DEF Line!LineAssumption
  <2> QED
    BY <1>2, <1>4, <1>9, <2>1 DEF Line!Execute, Line!Release, T
<1>10. CASE c.command = "pin-families"
  <2>1. c.families \in Nat
    BY <1>10, LineInstance DEF Line!LineAssumption
  <2>2. Line!Pins(c).texts \in Seq(T) /\ Line!Pins(c).code \in Nat
    BY <1>3, <1>4, <2>1 DEF Line!Pins, Line!Answer
  <2> QED
    BY <1>10, <2>2 DEF Line!Execute, T
<1>11. CASE c.command = "usage"
  <2>1. Line!Usage(c).texts \in Seq(T) /\ Line!Usage(c).code \in Nat
            /\ Len(Line!Usage(c).texts) = 1
    BY <1>3 DEF Line!Usage, Line!Answer
  <2> QED
    BY <1>11, <2>1 DEF Line!Execute, T
<1>12. CASE c.command = "panic"
  BY <1>3, <1>12 DEF Line!Execute, Line!Panics, Line!Answer, T
<1>13. c.command \in {"check-egress", "required-checks", "attribution-status", "check-reviews",
                      "verify-skills", "check-canaries", "python-release", "pin-families",
                      "usage", "panic"}
  BY LineInstance DEF Line!LineAssumption
<1> QED
  BY <1>5, <1>6, <1>7, <1>8, <1>9, <1>10, <1>11, <1>12, <1>13

\* An answer of 0 is earned by what the command found.
Earned(c) ==
    CASE c.command = "check-egress" ->
           /\ ~c.failed /\ c.terms # c.noTerms
           /\ c.other = 0
           /\ c.structural > 0 => c.allowStructural
           /\ c.unscanned > 0 => c.allowUnscanned
      [] c.command = "required-checks" ->
           ~c.failing /\ c.list = "checks" /\ c.pending + c.failed = 0
      [] c.command = "attribution-status" -> c.result = "clean"
      [] c.command = "check-canaries" ->
           c.manifest /\ (c.live => ~c.failing /\ c.errors = 0)
      [] c.command \in {"check-reviews", "python-release", "verify-skills"} -> c.ok
      [] c.command = "pin-families" -> c.two /\ c.ok
      [] c.command = "usage" -> c.help
      [] OTHER -> FALSE

LEMMA AnswerIsEarned ==
    ASSUME NEW c \in LineCalls, Line!Execute(c).code = 0
    PROVE  Earned(c)
<1>1. CASE c.command = "check-egress"
  <2>1. /\ c.excluded \in Nat /\ c.unscanned \in Nat /\ c.structural \in Nat /\ c.other \in Nat
    BY <1>1, LineInstance DEF Line!LineAssumption
  <2>2. Line!Egress(c).code = 0
    BY <1>1 DEF Line!Execute
  <2>3. ~Line!EgressRefused(c) /\ ~(Line!Blocking(c) > 0)
            /\ ~(c.unscanned > 0 /\ ~c.allowUnscanned)
    BY <2>2 DEF Line!Egress, Line!Answer
  <2>4. c.other = 0 /\ (c.structural > 0 => c.allowStructural)
    BY <2>1, <2>3 DEF Line!Blocking
  <2> QED
    BY <1>1, <2>3, <2>4 DEF Line!EgressRefused, Earned
<1>2. CASE c.command = "required-checks"
  <2>1. c.passed \in Nat /\ c.pending \in Nat /\ c.failed \in Nat
    BY <1>2, LineInstance DEF Line!LineAssumption
  <2>2. Line!Required(c).code = 0
    BY <1>2 DEF Line!Execute
  <2> QED
    BY <1>2, <2>1, <2>2 DEF Line!Required, Line!ListIsReadable, Line!Answer, Earned
<1>3. CASE c.command = "check-canaries"
  <2>1. c.errors \in Nat /\ c.warnings \in Nat
    BY <1>3, LineInstance DEF Line!LineAssumption
  <2>2. Line!Canaries(c).code = 0
    BY <1>3 DEF Line!Execute
  <2> QED
    BY <1>3, <2>1, <2>2 DEF Line!Canaries, Line!Answer, Earned
<1>4. CASE c.command \in {"attribution-status", "check-reviews", "verify-skills",
                          "python-release", "pin-families"}
  BY <1>4
     DEF Line!Execute, Line!Attribution, Line!Reviews, Line!Skills, Line!Release, Line!Pins,
         Line!Plainly, Line!Answer, Earned
<1>5. CASE c.command \in {"usage", "panic"}
  BY <1>5 DEF Line!Execute, Line!Usage, Line!Panics, Line!Answer, Earned
<1>6. c.command \in {"check-egress", "required-checks", "attribution-status", "check-reviews",
                      "verify-skills", "check-canaries", "python-release", "pin-families",
                      "usage", "panic"}
  BY LineInstance DEF Line!LineAssumption
<1> QED
  BY <1>1, <1>2, <1>3, <1>4, <1>5, <1>6

\* One more text counts for its stream.
LEMMA OneMoreText ==
    ASSUME NEW k \in Nat, NEW s
    PROVE  /\ Line!Sent(s, k) \in Nat
           /\ Line!Sent(s, k + 1) = IF Line!Texts[k + 1].to =
                  s THEN Line!Sent(s, k) + 1 ELSE Line!Sent(s, k)
<1> DEFINE Those(n) == {i \in 1 .. n : Line!Texts[i].to = s}
<1>1. IsFiniteSet(Those(k)) /\ Cardinality(Those(k)) \in Nat /\ k + 1 \notin Those(k)
  <2>1. IsFiniteSet(1 .. k)
    BY FS_Interval
  <2>2. IsFiniteSet(Those(k))
    BY <2>1, FS_Subset
  <2> QED
    BY <2>2, FS_CardinalityType
<1>2. Those(k + 1) = IF Line!Texts[k + 1].to = s THEN Those(k) \cup {k + 1} ELSE Those(k)
  BY DEF Those
<1>3. Cardinality(Those(k) \cup {k + 1}) = Cardinality(Those(k)) + 1
  BY <1>1, FS_AddElement
<1> QED
  BY <1>1, <1>2, <1>3, LineCounts DEF Line!Sent

LEMMA AllSent ==
    ASSUME call \in LineCalls
    PROVE  \A s \in Line!Streams : Line!Sent(s, Len(Line!Texts)) = Line!Printing(s)
<1>1. DOMAIN Line!Texts = 1 .. Len(Line!Texts)
  BY AnswerOf DEF Line!Texts
<1> QED
  BY <1>1 DEF Line!Sent, Line!Printing, Line!Texts

\* The next text to print.
LEMMA NextText ==
    ASSUME call \in LineCalls, NEW k \in 0 .. Len(Line!Texts), todo =
               SubSeq(Line!Texts, k + 1, Len(Line!Texts)),
           todo # <<>>
    PROVE  /\ k + 1 \in 1 .. Len(Line!Texts) /\ Head(todo) = Line!Texts[k + 1]
           /\ Tail(todo) = SubSeq(Line!Texts, k + 2, Len(Line!Texts))
           /\ Line!Texts[k + 1] \in [to : Line!Streams, size : Nat]
           /\ Line!IsUsage => k = 0 /\ Tail(todo) = <<>>
<1> DEFINE T == [to : Line!Streams, size : Nat]
<1>1. Line!Texts \in Seq(T) /\ (Line!IsUsage => Len(Line!Texts) = 1)
  BY AnswerOf DEF Line!Texts, Line!IsUsage
<1> HIDE DEF T
<1>2. PICK n \in Nat : n = Len(Line!Texts)
  BY <1>1
<1>3. k \in Nat /\ k <= n
  BY <1>2
<1>4. k < n
  <2> SUFFICES ASSUME k = n PROVE FALSE
    BY <1>2, <1>3
  <2>1. SubSeq(Line!Texts, k + 1, n) = <<>>
    BY <1>1, <1>2
  <2> QED
    BY <1>2, <2>1
<1>5. Line!Texts[k + 1] \in T
  BY <1>1, <1>2, <1>3, <1>4, ElementOfSeq
<1>6. Head(todo) = Line!Texts[k + 1] /\ Tail(todo) = SubSeq(Line!Texts, k + 2, n)
  BY <1>1, <1>2, <1>3, <1>4
<1>7. Line!IsUsage => k = 0 /\ SubSeq(Line!Texts, k + 2, n) = <<>>
  BY <1>1, <1>2, <1>3, <1>4
<1> QED
  BY <1>2, <1>3, <1>4, <1>5, <1>6, <1>7 DEF T

\* What is written to stdout arrives or is held, with what was held before.
LEMMA WriteOutKeeps ==
    ASSUME NEW text \in [to : Line!Streams, size : Nat], buffer \in Seq(Nat),
           Line!WriteOut(text).ok
    PROVE  /\ Line!WriteOut(text).got \in Nat /\ Line!WriteOut(text).held \in Seq(Nat)
           /\ Line!WriteOut(text).got + Len(Line!WriteOut(text).held) = Len(buffer) + 1
<1>1. CASE text.size = 0
  BY <1>1 DEF Line!WriteOut
<1>2. CASE text.size # 0
  <2> DEFINE flushes == Line!Holds /\ Line!Total(buffer) + text.size > BufferSize
             through == ~Line!Holds \/ text.size >= BufferSize
             flushed == IF flushes THEN Len(buffer) ELSE 0
             keeps == (IF flushes THEN <<>> ELSE buffer)
                         \o (IF through THEN <<>> ELSE <<text.size>>)
  <2>0. Line!WriteOut(text).held = keeps
    BY <1>2 DEF Line!WriteOut
  <2>1. Line!WriteOut(text).got = flushed + IF through THEN 1 ELSE 0
    BY <1>2 DEF Line!WriteOut
  <2> HIDE DEF flushes, through
  <2>2. PICK n \in Nat : n = Len(buffer)
    OBVIOUS
  <2>3. CASE through
    <3>1. /\ keeps = (IF flushes THEN <<>> ELSE buffer) /\ keeps \in Seq(Nat)
          /\ Len(keeps) = (IF flushes THEN 0 ELSE n)
          /\ Line!WriteOut(text).got = (IF flushes THEN n + 1 ELSE 1)
      BY <2>1, <2>2, <2>3
    <3> HIDE DEF keeps
    <3> QED
      BY <2>0, <2>2, <3>1
  <2>4. CASE ~through
    <3>a. <<text.size>> \in Seq(Nat) /\ Len(<<text.size>>) = 1
      OBVIOUS
    <3>b. /\ <<>> \o <<text.size>> \in Seq(Nat) /\ Len(<<>> \o <<text.size>>) = 1
          /\ buffer \o <<text.size>> \in Seq(Nat)
          /\ Len(buffer \o <<text.size>>) = n + 1
      BY <2>2, <3>a
    <3>c. keeps = (IF flushes THEN <<>> ELSE buffer) \o <<text.size>>
      BY <2>4
    <3>1. /\ keeps \in Seq(Nat)
          /\ Len(keeps) = (IF flushes THEN 1 ELSE n + 1)
          /\ Line!WriteOut(text).got = (IF flushes THEN n ELSE 0)
      BY <2>1, <2>2, <2>4, <3>b, <3>c
    <3> HIDE DEF keeps
    <3> QED
      BY <2>0, <2>2, <3>1
  <2> QED
    BY <2>3, <2>4
<1> QED
  BY <1>1, <1>2

LEMMA LineInvInit == Line!Init => Line!IInv
<1> SUFFICES ASSUME Line!Init PROVE Line!IInv
  OBVIOUS
<1>1. /\ Line!Texts \in Seq([to : Line!Streams, size : Nat]) /\ code \in Nat
      /\ todo = Line!Texts /\ code = Line!Execute(call).code
  BY AnswerOf DEF Line!Init, Line!Texts
<1>2. Line!IsPrinted(0)
  <2>1. SubSeq(Line!Texts, 1, Len(Line!Texts)) = Line!Texts
    BY <1>1
  <2>2. \A s : Line!Sent(s, 0) = 0
    <3>1. \A s : {i \in 1 .. 0 : Line!Texts[i].to = s} = {}
      OBVIOUS
    <3> QED
      BY <3>1, FS_EmptySet, LineCounts DEF Line!Sent
  <2> QED
    BY <1>1, <2>1, <2>2 DEF Line!IsPrinted, Line!Init, Line!Streams
<1>3. 0 \in 0 .. Len(Line!Texts)
  BY <1>1
<1> QED
  BY <1>1, <1>2, <1>3
     DEF Line!Init, Line!IInv, Line!ZeroMeansDone, Line!ZeroIsDelivered, Line!ZeroIsEarned,
         Line!Streams

\* A text that was printed, or whose loss is noted.
LEMMA PrintedOne ==
    ASSUME Line!IInv, lineAt = "print", NEW k \in 0 .. Len(Line!Texts), Line!IsPrinted(k),
           todo # <<>>, Line!Printed,
           got' \in [Line!Streams -> Nat], buffer' \in Seq(Nat), errFailed => errFailed',
           pending' => todo' = <<>>,
           ~(Line!IsUsage /\ unbuffered) =>
               \/ pending' \/ (errFailed' /\ ~unbuffered)
               \/ /\ got'["out"] + Len(buffer') =
                         got["out"] + Len(buffer) + (IF Head(todo).to = "out" THEN 1 ELSE 0)
                  /\ got'["err"] = got["err"] + (IF Head(todo).to = "err" THEN 1 ELSE 0)
    PROVE  Line!IInv'
<1>1. /\ k + 1 \in 1 .. Len(Line!Texts) /\ Head(todo) = Line!Texts[k + 1]
      /\ todo' = SubSeq(Line!Texts, k + 2, Len(Line!Texts))
      /\ Head(todo).to \in Line!Streams
  BY NextText DEF Line!IInv, Line!IsPrinted, Line!Printed
<1>2. call' = call /\ unbuffered' = unbuffered /\ code' = code /\ lineAt' = lineAt
          /\ exitStatus' = exitStatus
  BY DEF Line!Printed
<1>3. k \in Nat /\ k + 1 \in 0 .. Len(Line!Texts) /\ ~pending
  BY <1>1 DEF Line!IInv
<1>4. /\ Line!Sent("out", k + 1) = Line!Sent("out", k) + IF Head(todo).to = "out" THEN 1 ELSE 0
      /\ Line!Sent("err", k + 1) = Line!Sent("err", k) + IF Head(todo).to = "err" THEN 1 ELSE 0
      /\ Line!Sent("out", k) \in Nat /\ Line!Sent("err", k) \in Nat
  <2>1. k + 1 \in Nat /\ \A s : Line!Sent(s, k) \in Nat
            /\ Line!Sent(s, k + 1) = IF Line!Texts[k + 1].to =
                   s THEN Line!Sent(s, k) + 1 ELSE Line!Sent(s, k)
    BY <1>3, OneMoreText
  <2>2. Line!Sent("out", k) \in Nat /\ Line!Sent("err", k) \in Nat
    BY <2>1
  <2> QED
    BY <1>1, <2>1, <2>2
<1>5. Line!IsPrinted(k + 1)'
  <2>1. k + 1 + 1 = k + 2
    BY <1>3
  <2> QED
    BY <1>1, <1>2, <1>3, <1>4, <2>1 DEF Line!IsPrinted, Line!IsUsage, Line!Texts, Line!Sent
<1>6. \E j \in 0 .. Len(Line!Texts') : Line!IsPrinted(j)'
  BY <1>2, <1>3, <1>5 DEF Line!Texts
<1> QED
  BY <1>2, <1>6 DEF Line!IInv, Line!ZeroMeansDone, Line!ZeroIsDelivered, Line!ZeroIsEarned

LEMMA LineFailsInv == Line!IInv /\ lineAt = "print" /\ Line!PrintFails => Line!IInv'
BY DEF Line!IInv, Line!PrintFails, Line!ZeroMeansDone, Line!ZeroIsDelivered, Line!ZeroIsEarned

LEMMA LinePrintOutInv == Line!IInv /\ Line!PrintOut => Line!IInv'
<1> SUFFICES ASSUME Line!IInv, Line!PrintOut PROVE Line!IInv'
  OBVIOUS
<1> DEFINE text == Head(todo)
<1>1. CASE ~Line!WriteOut(text).ok
  BY <1>1, LineFailsInv DEF Line!PrintOut
<1>2. CASE Line!WriteOut(text).ok
  <2>1. PICK k \in 0 .. Len(Line!Texts) : Line!IsPrinted(k)
    BY DEF Line!IInv, Line!PrintOut
  <2>2. text \in [to : Line!Streams, size : Nat] /\ text.to = "out"
    BY <2>1, NextText DEF Line!IInv, Line!IsPrinted, Line!PrintOut
  <2>3. /\ Line!Printed /\ errFailed' = errFailed /\ pending' = pending
        /\ buffer' = Line!WriteOut(text).held
        /\ got' = [got EXCEPT !["out"] = @ + Line!WriteOut(text).got]
    BY <1>2 DEF Line!PrintOut
  <2>4. /\ Line!WriteOut(text).got \in Nat /\ Line!WriteOut(text).held \in Seq(Nat)
        /\ Line!WriteOut(text).got + Len(Line!WriteOut(text).held) = Len(buffer) + 1
    BY <1>2, <2>2, WriteOutKeeps DEF Line!IInv
  <2>5. /\ got' \in [Line!Streams -> Nat] /\ got'["err"] = got["err"]
        /\ got'["out"] = got["out"] + Line!WriteOut(text).got
        /\ got["out"] \in Nat /\ got["err"] \in Nat /\ buffer \in Seq(Nat)
        /\ Len(buffer) \in Nat /\ Len(Line!WriteOut(text).held) \in Nat
    BY <2>3, <2>4 DEF Line!IInv, Line!Streams
  <2>6. got'["out"] + Len(buffer') = got["out"] + Len(buffer) + 1
    <3> DEFINE w == Line!WriteOut(text).got
               h == Len(Line!WriteOut(text).held)
               n == Len(buffer)
               g == got["out"]
    <3>1. w \in Nat /\ h \in Nat /\ n \in Nat /\ g \in Nat /\ w + h = n + 1
      BY <2>4, <2>5
    <3>2. got'["out"] = g + w /\ Len(buffer') = h
      BY <2>3, <2>5
    <3>3. (g + w) + h = g + n + 1
      <4> HIDE DEF w, h, n, g
      <4> QED
        BY <3>1
    <3> QED
      BY <3>2, <3>3
  <2>7. ~pending'
    BY <2>3 DEF Line!IInv, Line!PrintOut
  <2> QED
    <3>1. buffer' \in Seq(Nat) /\ errFailed' = errFailed /\ lineAt = "print" /\ todo # <<>>
      BY <2>3, <2>4 DEF Line!PrintOut
    <3>2. /\ got'["out"] + Len(buffer') =
               got["out"] + Len(buffer) + (IF text.to = "out" THEN 1 ELSE 0)
          /\ got'["err"] = got["err"] + (IF text.to = "err" THEN 1 ELSE 0)
      BY <2>2, <2>5, <2>6
    <3> QED
      BY <2>1, <2>3, <2>5, <2>7, <3>1, <3>2, PrintedOne
<1> QED
  BY <1>1, <1>2

LEMMA LinePrintErrInv == Line!IInv /\ Line!PrintErr => Line!IInv'
<1> SUFFICES ASSUME Line!IInv, Line!PrintErr PROVE Line!IInv'
  OBVIOUS
<1>1. CASE ~(Line!Works("err") \/ Head(todo).size = 0)
  BY <1>1, LineFailsInv DEF Line!PrintErr
<1>2. CASE Line!Works("err") \/ Head(todo).size = 0
  <2>1. PICK k \in 0 .. Len(Line!Texts) : Line!IsPrinted(k)
    BY DEF Line!IInv, Line!PrintErr
  <2>2. /\ Line!Printed /\ errFailed' = errFailed /\ ~pending' /\ buffer' = buffer
        /\ got' = [got EXCEPT !["err"] = @ + 1]
    BY <1>2 DEF Line!PrintErr, Line!IInv
  <2>3. /\ got' \in [Line!Streams -> Nat] /\ got'["err"] = got["err"] + 1
        /\ got'["out"] = got["out"] /\ got["out"] \in Nat /\ buffer' \in Seq(Nat)
        /\ Len(buffer) \in Nat
    BY <2>2 DEF Line!IInv, Line!Streams
  <2> QED
    BY <2>1, <2>2, <2>3, PrintedOne DEF Line!PrintErr
<1> QED
  BY <1>1, <1>2

LEMMA LinePrintUsageInv == Line!IInv /\ Line!PrintUsage => Line!IInv'
<1> SUFFICES ASSUME Line!IInv, Line!PrintUsage PROVE Line!IInv'
  OBVIOUS
<1> DEFINE to == Head(todo).to
           keeps == to = "out" /\ Line!Holds
<1>1. PICK k \in 0 .. Len(Line!Texts) : Line!IsPrinted(k)
  BY DEF Line!IInv, Line!PrintUsage
<1>2. Head(todo) \in [to : Line!Streams, size : Nat] /\ Tail(todo) = <<>>
  BY <1>1, NextText DEF Line!IInv, Line!IsPrinted, Line!PrintUsage
<1>3. /\ Line!Printed
      /\ got' = IF ~keeps /\ Line!Works(to) THEN [got EXCEPT ![to] = @ + 1] ELSE got
      /\ buffer' = IF keeps THEN Append(buffer, Head(todo).size) ELSE buffer
      /\ errFailed' = (errFailed \/ (to = "err" /\ ~Line!Works(to)))
      /\ pending' = (to = "out" /\ to \in terminal /\ ~Line!Works(to) /\ ~unbuffered)
  BY DEF Line!PrintUsage
<1>4. to \in {"out", "err"} /\ got \in [Line!Streams -> Nat] /\ buffer \in Seq(Nat)
  BY <1>2 DEF Line!IInv, Line!Streams
<1>5. got' \in [Line!Streams -> Nat] /\ buffer' \in Seq(Nat) /\ todo' = <<>>
  BY <1>2, <1>3, <1>4 DEF Line!Printed, Line!Streams
<1>6. CASE keeps
  <2>1. got' = got /\ Len(buffer') = Len(buffer) + 1 /\ Len(buffer) \in Nat
    BY <1>3, <1>4, <1>6
  <2>2. got["out"] \in Nat /\ got["err"] \in Nat
    BY <1>4 DEF Line!Streams
  <2>3. /\ got'["out"] + Len(buffer') =
               got["out"] + Len(buffer) + (IF to = "out" THEN 1 ELSE 0)
        /\ got'["err"] = got["err"] + (IF to = "err" THEN 1 ELSE 0)
    BY <1>6, <2>1, <2>2
  <2> HIDE DEF keeps
  <2> QED
    BY <1>1, <1>3, <1>5, <2>3, PrintedOne DEF Line!PrintUsage
<1>7. CASE ~keeps /\ Line!Works(to)
  <2>1. buffer' = buffer /\ got' = [got EXCEPT ![to] = @ + 1] /\ Len(buffer) \in Nat
    BY <1>3, <1>4, <1>7
  <2>2. /\ got["out"] \in Nat /\ got["err"] \in Nat
        /\ got'["out"] = got["out"] + IF to = "out" THEN 1 ELSE 0
        /\ got'["err"] = got["err"] + IF to = "err" THEN 1 ELSE 0
    BY <1>4, <2>1 DEF Line!Streams
  <2>3. /\ got'["out"] + Len(buffer') =
               got["out"] + Len(buffer) + (IF to = "out" THEN 1 ELSE 0)
        /\ got'["err"] = got["err"] + (IF to = "err" THEN 1 ELSE 0)
    BY <1>4, <2>1, <2>2
  <2> HIDE DEF keeps
  <2> QED
    BY <1>1, <1>3, <1>5, <2>3, PrintedOne DEF Line!PrintUsage
<1>8. CASE ~keeps /\ ~Line!Works(to)
  <2>1. ~(Line!IsUsage /\ unbuffered) => pending' \/ (errFailed' /\ ~unbuffered)
    BY <1>3, <1>4, <1>8 DEF Line!Holds, Line!PrintUsage
  <2> QED
    BY <1>1, <1>3, <1>5, <2>1, PrintedOne DEF Line!PrintUsage
<1> QED
  BY <1>6, <1>7, <1>8

LEMMA LineReturnInv == Line!IInv /\ Line!Return => Line!IInv'
<1> SUFFICES ASSUME Line!IInv, Line!Return PROVE Line!IInv'
  OBVIOUS
<1>1. PICK k \in 0 .. Len(Line!Texts) : Line!IsPrinted(k)
  BY DEF Line!IInv, Line!Return
<1>0. Line!Texts \in Seq([to : Line!Streams, size : Nat])
  BY AnswerOf DEF Line!IInv, Line!Texts
<1>2. PICK n \in Nat : n = Len(Line!Texts)
  BY <1>0
<1>3. k = n
  <2> SUFFICES ASSUME k # n PROVE FALSE
    OBVIOUS
  <2>1. k + 1 \in 1 .. n
    BY <1>2
  <2>2. Len(SubSeq(Line!Texts, k + 1, n)) = n - k /\ n - k # 0
    BY <1>0, <1>2, <2>1
  <2>3. SubSeq(Line!Texts, k + 1, n) = <<>>
    BY <1>1, <1>2 DEF Line!IsPrinted, Line!Return
  <2> QED
    BY <2>2, <2>3
<1>4. Line!IsPrinted(Len(Line!Texts))'
  <2>1. Line!IsPrinted(Len(Line!Texts))
    BY <1>1, <1>2, <1>3
  <2> QED
    BY <2>1 DEF Line!Return, Line!IsPrinted, Line!Texts, Line!Sent, Line!IsUsage
<1> QED
  BY <1>4
     DEF Line!IInv, Line!Return, Line!ZeroMeansDone, Line!ZeroIsDelivered, Line!ZeroIsEarned

LEMMA LineShutdownInv == Line!IInv /\ Line!Shutdown => Line!IInv'
<1> SUFFICES ASSUME Line!IInv, Line!Shutdown PROVE Line!IInv'
  OBVIOUS
<1> DEFINE failed == pending \/ (buffer # <<>> /\ ~Line!Works("out"))
           errs == errFailed \/ (failed /\ ~Line!Works("err"))
<1>1. /\ lineAt' = "exited" /\ call' = call /\ code' = code /\ unbuffered' = unbuffered
      /\ closed' = closed /\ pending' = pending /\ todo' = todo /\ buffer' = <<>>
      /\ exitStatus' = IF failed \/ (errs /\ ~unbuffered) THEN 120 ELSE code
      /\ got' = IF failed THEN got ELSE [got EXCEPT !["out"] = @ + Len(buffer)]
  BY DEF Line!Shutdown
<1>2. got' \in [Line!Streams -> Nat]
  BY <1>1 DEF Line!IInv, Line!Streams
<1>3. ASSUME exitStatus' = 0
      PROVE  code = 0 /\ ~failed /\ ~(errFailed /\ ~unbuffered) /\ call.command = call'.command
  BY <1>1, <1>3
<1>4. Line!ZeroIsEarned'
  <2> SUFFICES ASSUME exitStatus' = 0 PROVE Earned(call)
    BY <1>1 DEF Line!ZeroIsEarned, Earned
  <2> QED
    BY <1>3, AnswerIsEarned DEF Line!IInv
<1>5. Line!ZeroIsDelivered'
  <2> SUFFICES ASSUME exitStatus' = 0, ~(Line!IsUsage /\ unbuffered), NEW s \in Line!Streams
               PROVE  got'[s] = Line!Printing(s)
    BY <1>1 DEF Line!ZeroIsDelivered, Line!IsUsage, Line!Printing
  <2>1. Line!IsPrinted(Len(Line!Texts)) /\ ~pending /\ ~(errFailed /\ ~unbuffered)
    BY <1>3 DEF Line!IInv, Line!Shutdown
  <2>2. /\ got["out"] + Len(buffer) = Line!Sent("out", Len(Line!Texts))
        /\ got["err"] = Line!Sent("err", Len(Line!Texts))
    BY <2>1 DEF Line!IsPrinted
  <2>3. got' = [got EXCEPT !["out"] = @ + Len(buffer)]
    BY <1>1, <1>3
  <2>4. got'["out"] = got["out"] + Len(buffer) /\ got'["err"] = got["err"]
    BY <2>3 DEF Line!IInv, Line!Streams
  <2> QED
    BY <2>2, <2>4, AllSent DEF Line!IInv, Line!Streams
<1> QED
  BY <1>1, <1>2, <1>4, <1>5 DEF Line!IInv, Line!ZeroMeansDone

LEMMA LineStaysInv ==
    ASSUME Line!IInv, UNCHANGED <<call, unbuffered, closed, todo, code, buffer, got, errFailed,
               pending,
                             lineAt, exitStatus>>
    PROVE  Line!IInv'
<1>1. Line!Texts' = Line!Texts /\ Line!IsUsage' = Line!IsUsage
          /\ \A s : Line!Printing(s)' = Line!Printing(s)
  BY DEF Line!Texts, Line!IsUsage, Line!Printing
<1>2. \A s, k : Line!Sent(s, k)' = Line!Sent(s, k)
  BY <1>1 DEF Line!Sent
<1>3. \A k : Line!IsPrinted(k)' <=> Line!IsPrinted(k)
  BY <1>1, <1>2 DEF Line!IsPrinted
<1>4. Line!ZeroIsEarned' <=> Line!ZeroIsEarned
  BY DEF Line!ZeroIsEarned
<1>5. Line!ZeroIsDelivered' <=> Line!ZeroIsDelivered
  BY <1>1 DEF Line!ZeroIsDelivered
<1> QED
  BY <1>1, <1>3, <1>4, <1>5 DEF Line!IInv, Line!ZeroMeansDone

LEMMA LineInvNext == Line!IInv /\ [Line!Next]_Line!vars => Line!IInv'
<1>1. ASSUME Line!IInv, NEW s \in Line!Streams, Line!Break(s) PROVE Line!IInv'
  BY <1>1, LineStaysInv DEF Line!Break
<1>2. ASSUME Line!IInv, UNCHANGED Line!vars PROVE Line!IInv'
  BY <1>2, LineStaysInv DEF Line!vars
<1> QED
  BY <1>1, <1>2, LinePrintOutInv, LinePrintErrInv, LinePrintUsageInv, LineReturnInv,
     LineShutdownInv
     DEF Line!Next

LEMMA LineRuns == ToolSpec => [](tool = "Line" => Line!IInv)
<1> DEFINE Inv == tool = "Line" => Line!IInv
<1>1. ToolInit => Inv
  BY LineInvInit DEF ToolInit
<1>2. Inv /\ [ToolStep]_toolVars => Inv'
  <2> SUFFICES ASSUME Inv, [ToolStep]_toolVars, tool' = "Line"
               PROVE  Line!IInv'
    OBVIOUS
  <2>1. tool = "Line" /\ [Line!Next]_Line!vars
    BY DEF ToolStep, toolVars, lineVars, Line!vars
  <2> QED
    BY <2>1, LineInvNext
<1> HIDE DEF Inv
<1>3. ToolSpec => []Inv
  BY <1>1, <1>2, PTL DEF ToolSpec
<1> QED
  BY <1>3 DEF Inv

\* Status 0 is earned by what the command found, and everything it printed has
\* arrived: for any results, sizes of texts and of the buffer, and streams that
\* break at any moment.
THEOREM ZeroIsDone == ToolSpec => []ZeroMeansDone
<1>1. (tool = "Line" => Line!IInv) => ZeroMeansDone
  BY DEF ZeroMeansDone, Line!IInv
<1> QED
  BY <1>1, LineRuns, PTL

=============================================================================
