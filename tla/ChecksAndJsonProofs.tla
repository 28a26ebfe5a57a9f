------------------------- MODULE ChecksAndJsonProofs -------------------------
(***************************************************************************)
(* Two components that share nothing but this module.  JSON (src/pyjson.rs), *)
(* character by character in its scalars (match_number, scanstring and        *)
(* dump_str) and token by token in its documents (loads and dumps), for any   *)
(* texts: the assumptions on their constants are hypotheses, which MCTools    *)
(* checks of the instances it runs.  What a text spells (Contents) and what it denotes      *)
(* (Meaning) recurse on shorter texts: that each equation has a solution is   *)
(* proved first, from the shortest text without one, and every fact about     *)
(* texts of any length likewise, from the least counterexample.  And the gate *)
(* on required checks, for any checks, runs, waits and re-runs.               *)
(***************************************************************************)
EXTENDS RequiredChecks, JsonDocument,
        SequenceTheorems, FiniteSetTheorems, WellFoundedInduction, TLAPS

LEMMA LeastOf ==
    ASSUME NEW T \in SUBSET Nat, T # {}
    PROVE  \E n \in T : \A m \in T : n <= m
<1>1. PICK n \in T : \A m \in T : ~(<<m, n>> \in OpToRel(<, Nat))
  BY NatLessThanWellFounded, WFMin
<1>2. \A m \in T : ~(m < n)
  BY <1>1 DEF OpToRel
<1> QED
  BY <1>2

-----------------------------------------------------------------------------
\* Text: what a text is; a part of it.
Texts == Seq(Alphabet)

LEMMA PartOf ==
    ASSUME NEW t \in Texts, NEW i \in 1 .. Len(t) + 1, NEW j \in i - 1 .. Len(t)
    PROVE  /\ SubSeq(t, i, j) \in Texts /\ Len(SubSeq(t, i, j)) = j - i + 1
           /\ \A k \in 1 .. j - i + 1 : SubSeq(t, i, j)[k] = t[i + k - 1]
<1>1. Len(t) \in Nat /\ \A k \in 1 .. Len(t) : t[k] \in Alphabet
  BY DEF Texts
<1>2. i \in Int /\ j \in Int /\ \A k \in i .. j : t[k] \in Alphabet
  BY <1>1
<1>3. /\ SubSeq(t, i, j) \in Texts
      /\ Len(SubSeq(t, i, j)) = IF i <= j THEN j - i + 1 ELSE 0
      /\ \A k \in 1 .. j - i + 1 : SubSeq(t, i, j)[k] = t[i + k - 1]
  BY <1>2, SubSeqProperties DEF Texts
<1> QED
  BY <1>1, <1>3

LEMMA PartOfPart ==
    ASSUME NEW t \in Texts, NEW n \in 0 .. Len(t),
           NEW i \in 1 .. n + 1, NEW j \in i - 1 .. n
    PROVE  SubSeq(SubSeq(t, 1, n), i, j) = SubSeq(t, i, j)
<1>1. Len(t) \in Nat
  BY DEF Texts
<1> DEFINE u == SubSeq(t, 1, n)
<1>2. u \in Texts /\ Len(u) = n /\ \A k \in 1 .. n : u[k] = t[k]
  BY <1>1, PartOf
<1>3. /\ SubSeq(u, i, j) \in Texts /\ Len(SubSeq(u, i, j)) = j - i + 1
      /\ \A k \in 1 .. j - i + 1 : SubSeq(u, i, j)[k] = u[i + k - 1]
  <2> HIDE DEF u
  <2> QED
    BY <1>1, <1>2, PartOf
<1>4. /\ SubSeq(t, i, j) \in Texts /\ Len(SubSeq(t, i, j)) = j - i + 1
      /\ \A k \in 1 .. j - i + 1 : SubSeq(t, i, j)[k] = t[i + k - 1]
  BY <1>1, PartOf
<1>5. \A k \in 1 .. j - i + 1 : SubSeq(u, i, j)[k] = SubSeq(t, i, j)[k]
  BY <1>1, <1>2, <1>3, <1>4
<1> HIDE DEF u
<1>6. SubSeq(u, i, j) = SubSeq(t, i, j)
  BY <1>3, <1>4, <1>5, SeqEqual DEF Texts
<1> QED
  BY <1>6 DEF u

-----------------------------------------------------------------------------
\* The grammar of a number, position by position.
DigitsAt(t, i, j) == i <= j /\ \A k \in i .. j : t[k] \in Digits

LEMMA NumeralsAt ==
    ASSUME NEW t \in Texts, NEW i \in 1 .. Len(t) + 1, NEW j \in i - 1 .. Len(t)
    PROVE  Numerals(SubSeq(t, i, j)) <=> DigitsAt(t, i, j)
<1> DEFINE s == SubSeq(t, i, j)
<1>1. Len(t) \in Nat
  BY DEF Texts
<1>2. s \in Texts /\ Len(s) = j - i + 1 /\ \A k \in 1 .. j - i + 1 : s[k] = t[i + k - 1]
  BY PartOf
<1> HIDE DEF s
<1>3. s = <<>> <=> j = i - 1
  BY <1>1, <1>2, EmptySeq DEF Texts
<1>4. Range(s) = {s[k] : k \in 1 .. j - i + 1}
  <2>1. DOMAIN s = 1 .. Len(s)
    BY <1>2, LenProperties DEF Texts
  <2> QED
    BY <1>2, <2>1 DEF Range
<1>5. Range(s) \subseteq Digits <=> \A k \in 1 .. j - i + 1 : t[i + k - 1] \in Digits
  BY <1>2, <1>4
<1>6. (\A k \in 1 .. j - i + 1 : t[i + k - 1] \in Digits) <=> \A k \in i .. j : t[k] \in Digits
  <2>1. ASSUME \A k \in 1 .. j - i + 1 : t[i + k - 1] \in Digits, NEW k \in i .. j
        PROVE  t[k] \in Digits
    <3>1. k - i + 1 \in 1 .. j - i + 1 /\ i + (k - i + 1) - 1 = k
      BY <1>1
    <3> QED
      BY <2>1, <3>1
  <2>2. ASSUME \A k \in i .. j : t[k] \in Digits, NEW k \in 1 .. j - i + 1
        PROVE  t[i + k - 1] \in Digits
    BY <1>1, <2>2
  <2> QED
    BY <2>1, <2>2
<1> QED
  <2>1. Numerals(s) <=> DigitsAt(t, i, j)
    <3>1. s # <<>> <=> i <= j
      BY <1>1, <1>3
    <3> QED
      BY <1>5, <1>6, <3>1 DEF Numerals, DigitsAt
  <2> QED
    BY <2>1 DEF s

\* What is left of a part without its sign.
LEMMA WithoutAt ==
    ASSUME NEW t \in Texts, NEW i \in 1 .. Len(t) + 1, NEW j \in i - 1 .. Len(t), NEW signs
    PROVE  Without(SubSeq(t, i, j), signs) =
               SubSeq(t, IF i <= j /\ t[i] \in signs THEN i + 1 ELSE i, j)
<1> DEFINE s == SubSeq(t, i, j)
<1>1. Len(t) \in Nat
  BY DEF Texts
<1>2. s \in Texts /\ Len(s) = j - i + 1 /\ \A k \in 1 .. j - i + 1 : s[k] = t[i + k - 1]
  BY PartOf
<1>3. s = <<>> <=> j = i - 1
  <2> HIDE DEF s
  <2> QED
    BY <1>1, <1>2, EmptySeq DEF Texts
<1>4. CASE i <= j
  <2>1. s[1] = t[i]
    BY <1>1, <1>2, <1>4
  <2>2. Tail(s) = SubSeq(t, i + 1, j)
    BY <1>1, <1>4, HeadTailOfSubSeq DEF Texts
  <2> QED
    BY <1>1, <1>3, <1>4, <2>1, <2>2 DEF Without
<1>5. CASE ~(i <= j)
  BY <1>1, <1>3, <1>5 DEF Without
<1> QED
  BY <1>4, <1>5

\* Where the digits of the text's integers begin, behind a sign.
First(t) == IF t[1] = "-" THEN 2 ELSE 1

IntegerTo(t, i) ==
    LET b == First(t) IN
    b <= i /\ (\A k \in b .. i : t[k] \in Digits) /\ (t[b] # "0" \/ i = b)

LEMMA IntegerAt ==
    ASSUME NEW t \in Texts, NEW i \in 1 .. Len(t)
    PROVE  /\ IsInteger(SubSeq(t, 1, i)) <=> IntegerTo(t, i)
           /\ Without(SubSeq(t, 1, i), {"-"}) = SubSeq(t, First(t), i)
<1> DEFINE b == First(t)
           n == SubSeq(t, b, i)
<1>1. Len(t) \in Nat
  BY DEF Texts
<1>2. b \in {1, 2} /\ b \in 1 .. i + 1
  BY <1>1 DEF First
<1>3. Without(SubSeq(t, 1, i), {"-"}) = n
  <2>1. Without(SubSeq(t, 1, i), {"-"}) =
            SubSeq(t, IF 1 <= i /\ t[1] \in {"-"} THEN 1 + 1 ELSE 1, i)
    <3>1. 1 \in 1 .. Len(t) + 1 /\ i \in 1 - 1 .. Len(t)
      BY <1>1
    <3> QED
      BY <3>1, WithoutAt
  <2> QED
    BY <2>1 DEF First
<1>4. b \in 1 .. Len(t) + 1 /\ i \in b - 1 .. Len(t)
  BY <1>1, <1>2
<1> HIDE DEF b
<1>5. Numerals(n) <=> DigitsAt(t, b, i)
  BY <1>4, NumeralsAt
<1>6. Len(n) = i - b + 1 /\ \A k \in 1 .. i - b + 1 : n[k] = t[b + k - 1]
  BY <1>4, PartOf
<1>7. b <= i => n[1] = t[b]
  BY <1>2, <1>6
<1>8. Len(n) = 1 <=> i = b
  BY <1>2, <1>6
<1> HIDE DEF n
<1>9. IsInteger(SubSeq(t, 1, i)) <=> Numerals(n) /\ (n[1] # "0" \/ Len(n) = 1)
  BY <1>3 DEF IsInteger
<1>10. IsInteger(SubSeq(t, 1, i)) <=> IntegerTo(t, i)
  BY <1>5, <1>7, <1>8, <1>9 DEF DigitsAt, IntegerTo, b
<1> QED
  BY <1>3, <1>10 DEF n, b

LEMMA NoInteger == ~IsInteger(<<>>) /\ \A t \in Texts : ~IsInteger(SubSeq(t, 1, 0))
<1>1. ~IsInteger(<<>>)
  BY DEF IsInteger, Without, Numerals
<1>2. ASSUME NEW t \in Texts PROVE SubSeq(t, 1, 0) = <<>>
  BY SubSeqEmpty
<1> QED
  BY <1>1, <1>2

\* A float of the first n characters, by where its parts end.
FloatTo(t, n) ==
    \E i, j \in 1 .. n + 1 :
        /\ i <= j /\ ~(i = j /\ j = n + 1)
        /\ i # 1 /\ IntegerTo(t, i - 1)
        /\ i = j \/ (t[i] = "." /\ DigitsAt(t, i + 1, j - 1))
        /\ \/ j = n + 1
           \/ t[j] = "e" /\ DigitsAt(t, IF j < n /\ t[j + 1] \in {"+", "-"}
                                   THEN j + 2 ELSE j + 1, n)

LEMMA FloatAt ==
    ASSUME NEW t \in Texts, NEW n \in 1 .. Len(t)
    PROVE  IsFloat(SubSeq(t, 1, n)) <=> FloatTo(t, n)
<1> DEFINE s == SubSeq(t, 1, n)
<1>1. Len(t) \in Nat
  BY DEF Texts
<1>2. s \in Texts /\ Len(s) = n /\ \A k \in 1 .. n : s[k] = t[k]
  BY <1>1, PartOf
<1>3. ASSUME NEW i \in 1 .. n + 1
      PROVE  IsInteger(SubSeq(s, 1, i - 1)) <=> i # 1 /\ IntegerTo(t, i - 1)
  <2>1. SubSeq(s, 1, i - 1) = SubSeq(t, 1, i - 1)
    BY <1>1, PartOfPart
  <2>2. CASE i = 1
    <3>1. SubSeq(s, 1, i - 1) = SubSeq(t, 1, 0)
      BY <2>1, <2>2
    <3>2. ~IsInteger(SubSeq(t, 1, 0))
      BY NoInteger
    <3> QED
      BY <2>2, <3>1, <3>2
  <2>3. CASE i # 1
    <3>1. i - 1 \in 1 .. Len(t)
      BY <1>1, <2>3
    <3> QED
      BY <2>1, <2>3, <3>1, IntegerAt
  <2> QED
    BY <2>2, <2>3
<1>4. ASSUME NEW i \in 1 .. n + 1, NEW j \in 1 .. n + 1, i < j
      PROVE  Numerals(SubSeq(s, i + 1, j - 1)) <=> DigitsAt(t, i + 1, j - 1)
  <2>1. i + 1 \in 1 .. n + 1 /\ j - 1 \in (i + 1) - 1 .. n
    BY <1>1, <1>4
  <2>2. SubSeq(s, i + 1, j - 1) = SubSeq(t, i + 1, j - 1)
    BY <1>1, <2>1, PartOfPart
  <2>3. i + 1 \in 1 .. Len(t) + 1 /\ j - 1 \in (i + 1) - 1 .. Len(t)
    BY <1>1, <2>1
  <2> QED
    BY <2>2, <2>3, NumeralsAt
<1>5. ASSUME NEW j \in 1 .. n
      PROVE  Numerals(Without(SubSeq(s, j + 1, Len(s)), {"+", "-"})) <=>
                 DigitsAt(t, IF j < n /\ t[j + 1] \in {"+", "-"} THEN j + 2 ELSE j + 1, n)
  <2> DEFINE k == IF j < n /\ t[j + 1] \in {"+", "-"} THEN j + 2 ELSE j + 1
  <2>1. j + 1 \in 1 .. n + 1 /\ n \in (j + 1) - 1 .. n
    BY <1>1
  <2>2. SubSeq(s, j + 1, Len(s)) = SubSeq(t, j + 1, n)
    BY <1>1, <1>2, <2>1, PartOfPart
  <2>3. j + 1 \in 1 .. Len(t) + 1 /\ n \in (j + 1) - 1 .. Len(t)
    BY <1>1
  <2>4. Without(SubSeq(t, j + 1, n), {"+", "-"}) =
            SubSeq(t, IF j + 1 <= n /\ t[j + 1] \in {"+", "-"} THEN (j + 1) + 1 ELSE j + 1, n)
    BY <2>3, WithoutAt
  <2>5. Without(SubSeq(t, j + 1, n), {"+", "-"}) = SubSeq(t, k, n)
    BY <1>1, <2>4
  <2>6. k \in 1 .. Len(t) + 1 /\ n \in k - 1 .. Len(t)
    BY <1>1
  <2> HIDE DEF k
  <2>7. Numerals(SubSeq(t, k, n)) <=> DigitsAt(t, k, n)
    BY <2>6, NumeralsAt
  <2> QED
    BY <2>2, <2>5, <2>7 DEF k
<1> HIDE DEF s
<1>6. IsFloat(s) <=>
      \E i, j \in 1 .. n + 1 :
        /\ i <= j /\ ~(i = j /\ j = n + 1)
        /\ IsInteger(SubSeq(s, 1, i - 1))
        /\ i = j \/ (s[i] = "." /\ Numerals(SubSeq(s, i + 1, j - 1)))
        /\ j = n + 1 \/ (s[j] = "e" /\ Numerals(Without(SubSeq(s, j + 1, Len(s)), {"+", "-"})))
  BY <1>2 DEF IsFloat
<1>7. ASSUME NEW i \in 1 .. n + 1, NEW j \in 1 .. n + 1, i <= j
      PROVE  /\ i = j \/ (s[i] = "." /\ Numerals(SubSeq(s, i + 1, j - 1)))
                <=> i = j \/ (t[i] = "." /\ DigitsAt(t, i + 1, j - 1))
             /\ j = n + 1 \/ (s[j] = "e" /\ Numerals(Without(SubSeq(s, j + 1, Len(s)), {"+", "-"})))
                <=> \/ j = n + 1
                    \/ t[j] = "e" /\ DigitsAt(t, IF j < n /\ t[j + 1] \in {"+", "-"}
                                                 THEN j + 2 ELSE j + 1, n)
  <2>1. i # j => i < j /\ s[i] = t[i]
    BY <1>1, <1>2, <1>7
  <2>2. j # n + 1 => j \in 1 .. n /\ s[j] = t[j]
    BY <1>1, <1>2
  <2> QED
    BY <1>4, <1>5, <2>1, <2>2
<1> QED
  BY <1>3, <1>6, <1>7 DEF FloatTo, s

-----------------------------------------------------------------------------
\* match_number.
LEMMA DigitsEndOf ==
    ASSUME text \in Texts, NEW i \in 1 .. Len(text) + 1
    PROVE  /\ DigitsEnd(i) \in i .. Len(text) + 1
           /\ \A k \in i .. DigitsEnd(i) - 1 : text[k] \in Digits
           /\ DigitsEnd(i) <= Len(text) => text[DigitsEnd(i)] \notin Digits
<1> DEFINE T == {j \in i .. Len(text) + 1 : Char(j) \notin Digits}
<1>1. Len(text) \in Nat
  BY DEF Texts
<1>2. Len(text) + 1 \in T
  BY <1>1 DEF Char, Digits
<1>3. PICK m \in T : \A n \in T : m <= n
  <2>1. T \in SUBSET Nat /\ T # {}
    BY <1>1, <1>2
  <2> HIDE DEF T
  <2> QED
    BY <2>1, LeastOf
<1>4. DigitsEnd(i) \in T /\ \A n \in T : DigitsEnd(i) <= n
  BY <1>3 DEF DigitsEnd, Min
<1> DEFINE e == DigitsEnd(i)
<1>5. e \in i .. Len(text) + 1 /\ Char(e) \notin Digits
  BY <1>4
<1>6. ASSUME NEW k \in i .. e - 1 PROVE text[k] \in Digits
  <2>1. k \in i .. Len(text) + 1 /\ k <= Len(text) /\ ~(e <= k)
    BY <1>1, <1>5
  <2>2. Char(k) \in Digits
    BY <1>4, <2>1
  <2> QED
    BY <2>1, <2>2 DEF Char
<1>7. e <= Len(text) => text[e] \notin Digits
  BY <1>5 DEF Char
<1> QED
  BY <1>5, <1>6, <1>7

WholeEnd(w) ==
    /\ w \in 1 .. Len(text) /\ IntegerTo(text, w)
    /\ \A i \in 1 .. Len(text) : IntegerTo(text, i) => i <= w /\ (i < w => text[i + 1] \in Digits)

FractionEnd(w, f) ==
    \/ /\ out = "float" /\ text[w + 1] = "."
       /\ f \in w + 2 .. Len(text) /\ DigitsAt(text, w + 2, f)
       /\ f < Len(text) => text[f + 1] \notin Digits
    \/ /\ out = "int" /\ f = w
       /\ ~(w + 2 <= Len(text) /\ text[w + 1] = "." /\ text[w + 2] \in Digits)

\* An exponent behind the first f characters that ends at n.
ExponentTo(f, n) ==
    /\ f < n /\ text[f + 1] = "e"
    /\ DigitsAt(text, IF f + 1 < n /\ text[f + 2] \in {"+", "-"} THEN f + 3 ELSE f + 2, n)

LEMMA FloatsEnd ==
    ASSUME text \in Texts, NEW w, NEW f, WholeEnd(w), FractionEnd(w, f),
           NEW n \in 1 .. Len(text), FloatTo(text, n)
    PROVE  (out = "float" /\ n <= f) \/ ExponentTo(f, n)
<1>1. Len(text) \in Nat /\ w \in 1 .. Len(text)
  BY DEF Texts, WholeEnd
<1>2. PICK i \in 1 .. n + 1, j \in 1 .. n + 1 :
        /\ i <= j /\ ~(i = j /\ j = n + 1)
        /\ i # 1 /\ IntegerTo(text, i - 1)
        /\ i = j \/ (text[i] = "." /\ DigitsAt(text, i + 1, j - 1))
        /\ \/ j = n + 1
           \/ text[j] = "e" /\ DigitsAt(text, IF j < n /\ text[j + 1] \in {"+", "-"}
                                      THEN j + 2 ELSE j + 1, n)
  BY DEF FloatTo
<1>3. i - 1 \in 1 .. Len(text) /\ i <= n /\ text[i] \in {".", "e"}
  BY <1>1, <1>2
<1>4. i = w + 1
  <2>1. i - 1 <= w /\ (i - 1 < w => text[(i - 1) + 1] \in Digits)
    BY <1>2, <1>3 DEF WholeEnd
  <2>2. (i - 1) + 1 = i /\ text[i] \notin Digits
    BY <1>1, <1>3 DEF Digits
  <2> QED
    BY <1>1, <2>1, <2>2
<1>5. CASE i = j
  <2>1. text[w + 1] = "e"
    BY <1>2, <1>4, <1>5
  <2>2. f = w
    BY <2>1 DEF FractionEnd
  <2> QED
    BY <1>1, <1>2, <1>4, <1>5, <2>1, <2>2 DEF ExponentTo
<1>6. CASE i < j
  <2>1. text[w + 1] = "." /\ DigitsAt(text, w + 2, j - 1)
    BY <1>1, <1>2, <1>4, <1>6
  <2>2. w + 2 <= j - 1 /\ w + 2 <= Len(text) /\ text[w + 2] \in Digits
    BY <1>1, <1>2, <2>1 DEF DigitsAt
  <2>3. /\ out = "float" /\ f \in w + 2 .. Len(text) /\ DigitsAt(text, w + 2, f)
        /\ f < Len(text) => text[f + 1] \notin Digits
    BY <1>1, <2>1, <2>2 DEF FractionEnd
  <2>4. j - 1 <= f
    <3>1. SUFFICES ASSUME f + 1 <= j - 1 PROVE FALSE
      BY <1>1, <2>3
    <3>2. f + 1 \in w + 2 .. j - 1 /\ f < Len(text)
      BY <1>1, <1>2, <2>3, <3>1
    <3> QED
      BY <2>1, <2>3, <3>2 DEF DigitsAt
  <2>5. CASE j = n + 1
    BY <1>1, <2>3, <2>4, <2>5
  <2>6. CASE j # n + 1
    <3>1. text[j] = "e" /\ j <= n
      BY <1>1, <1>2, <2>6
    <3>2. j = f + 1
      <4>1. text[j] \notin Digits
        BY <3>1 DEF Digits
      <4>2. ~(j \in w + 2 .. f)
        BY <2>3, <4>1 DEF DigitsAt
      <4> QED
        BY <1>1, <2>2, <2>3, <2>4, <4>2
    <3> QED
      BY <1>1, <1>2, <2>3, <2>6, <3>1, <3>2 DEF ExponentTo
  <2> QED
    BY <2>5, <2>6
<1> QED
  BY <1>1, <1>2, <1>5, <1>6

LEMMA FloatsThere ==
    ASSUME text \in Texts, NEW w, NEW f, WholeEnd(w), FractionEnd(w, f)
    PROVE  /\ out = "float" => FloatTo(text, f)
           /\ \A n \in 1 .. Len(text) : ExponentTo(f, n) => FloatTo(text, n)
<1>1. Len(text) \in Nat /\ w \in 1 .. Len(text) /\ IntegerTo(text, w)
  BY DEF Texts, WholeEnd
<1>2. f \in w .. Len(text)
  BY <1>1 DEF FractionEnd
<1>3. /\ w + 1 <= f + 1 /\ w + 1 # 1 /\ IntegerTo(text, (w + 1) - 1)
      /\ w + 1 = f + 1 \/ (text[w + 1] = "." /\ DigitsAt(text, (w + 1) + 1, (f + 1) - 1))
  <2>1. (w + 1) - 1 = w /\ (w + 1) + 1 = w + 2 /\ (f + 1) - 1 = f
    BY <1>1, <1>2
  <2> QED
    BY <1>1, <1>2, <2>1 DEF FractionEnd
<1>4. ASSUME out = "float" PROVE FloatTo(text, f)
  <2>1. w + 2 <= f
    BY <1>1, <1>4 DEF FractionEnd
  <2>2. w + 1 \in 1 .. f + 1 /\ f + 1 \in 1 .. f + 1 /\ w + 1 # f + 1
    BY <1>1, <1>2, <2>1
  <2> QED
    BY <1>3, <2>2 DEF FloatTo
<1>5. ASSUME NEW n \in 1 .. Len(text), ExponentTo(f, n) PROVE FloatTo(text, n)
  <2>1. f < n /\ text[f + 1] = "e"
    BY <1>5 DEF ExponentTo
  <2>2. w + 1 \in 1 .. n + 1 /\ f + 1 \in 1 .. n + 1 /\ f + 1 # n + 1
    BY <1>1, <1>2, <2>1
  <2>3. DigitsAt(text, IF f + 1 < n /\ text[(f + 1) + 1] \in {"+", "-"}
                       THEN (f + 1) + 2 ELSE (f + 1) + 1, n)
    <3>1. (f + 1) + 1 = f + 2 /\ (f + 1) + 2 = f + 3
      BY <1>1, <1>2
    <3> QED
      BY <1>5, <3>1 DEF ExponentTo
  <2> QED
    BY <1>3, <2>1, <2>2, <2>3 DEF FloatTo
<1> QED
  BY <1>4, <1>5

LEMMA LongestIs ==
    ASSUME text \in Texts, NEW n \in 0 .. Len(text), n = 0 \/ IsNumber(SubSeq(text, 1, n)),
           \A i \in 1 .. Len(text) : IsNumber(SubSeq(text, 1, i)) => i <= n
    PROVE  Max({i \in 1 .. Len(text) : IsNumber(SubSeq(text, 1, i))} \cup {0}) = n
<1> DEFINE T == {i \in 1 .. Len(text) : IsNumber(SubSeq(text, 1, i))} \cup {0}
<1>1. Len(text) \in Nat
  BY DEF Texts
<1>2. n \in T /\ T \subseteq Nat /\ \A i \in T : n >= i
  BY <1>1
<1> HIDE DEF T
<1>3. Max(T) \in T /\ \A i \in T : Max(T) >= i
  <2>1. \E x \in T : \A y \in T : x >= y
    BY <1>2
  <2> QED
    BY <2>1, Zenon DEF Max
<1> DEFINE m == Max(T)
<1>4. m \in Nat /\ n \in Nat /\ m >= n /\ n >= m
  BY <1>2, <1>3
<1>5. m = n
  <2> HIDE DEF m
  <2> QED
    BY <1>4
<1> QED
  BY <1>5 DEF T

\* What Exponent looks at: where the digits end of what could be an exponent.
ExponentEnd(f) ==
    DigitsEnd(IF Char(f + 2) \in {"+", "-"} /\ f + 2 < Len(text) THEN f + 3 ELSE f + 2)

LEMMA ExponentsEnd ==
    ASSUME text \in Texts, NEW f \in 1 .. Len(text)
    PROVE  IF Char(f + 1) = "e" /\ f + 1 < Len(text) /\ text[ExponentEnd(f) - 1] \in Digits
           THEN /\ ExponentEnd(f) - 1 \in 1 .. Len(text)
                /\ ExponentTo(f, ExponentEnd(f) - 1)
                /\ \A n \in 1 .. Len(text) : ExponentTo(f, n) => n <= ExponentEnd(f) - 1
           ELSE \A n \in 1 .. Len(text) : ~ExponentTo(f, n)
<1> DEFINE signed == f + 2 < Len(text) /\ text[f + 2] \in {"+", "-"}
           first == IF signed THEN f + 3 ELSE f + 2
           end == ExponentEnd(f)
<1>1. Len(text) \in Nat
  BY DEF Texts
<1>2. ~(Char(f + 1) = "e" /\ f + 1 < Len(text)) => \A n \in 1 .. Len(text) : ~ExponentTo(f, n)
  <2>1. ASSUME NEW n \in 1 .. Len(text), ExponentTo(f, n)
        PROVE  Char(f + 1) = "e" /\ f + 1 < Len(text)
    <3>1. f + 1 <= Len(text) /\ text[f + 1] = "e"
      BY <1>1, <2>1 DEF ExponentTo
    <3>2. f + 2 <= n
      BY <1>1, <2>1 DEF ExponentTo, DigitsAt
    <3> QED
      BY <1>1, <3>1, <3>2 DEF Char
  <2> QED
    BY <2>1
<1>3. SUFFICES ASSUME Char(f + 1) = "e", f + 1 < Len(text)
               PROVE  IF text[end - 1] \in Digits
                      THEN /\ end - 1 \in 1 .. Len(text) /\ ExponentTo(f, end - 1)
                           /\ \A n \in 1 .. Len(text) : ExponentTo(f, n) => n <= end - 1
                      ELSE \A n \in 1 .. Len(text) : ~ExponentTo(f, n)
  BY <1>2
<1>4. first \in f + 2 .. Len(text) /\ first \in 1 .. Len(text) + 1
  BY <1>1, <1>3
<1>5. end = DigitsEnd(first)
  <2>1. Char(f + 2) = text[f + 2]
    BY <1>1, <1>3 DEF Char
  <2> QED
    BY <2>1 DEF ExponentEnd
<1>6. /\ end \in first .. Len(text) + 1
      /\ \A k \in first .. end - 1 : text[k] \in Digits
      /\ end <= Len(text) => text[end] \notin Digits
  <2> HIDE DEF first, end
  <2> QED
    BY <1>4, <1>5, DigitsEndOf
<1>7. text[f + 1] = "e"
  BY <1>1, <1>3 DEF Char
<1>8. text[first - 1] \notin Digits
  <2>1. CASE signed
    <3>1. first - 1 = f + 2 /\ text[f + 2] \in {"+", "-"}
      BY <1>1, <2>1
    <3> QED
      BY <3>1 DEF Digits
  <2>2. CASE ~signed
    <3>1. first - 1 = f + 1
      BY <1>1, <2>2
    <3> QED
      BY <1>7, <3>1 DEF Digits
  <2> QED
    BY <2>1, <2>2
<1>9. ASSUME NEW n \in 1 .. Len(text), ExponentTo(f, n)
      PROVE  first <= n /\ DigitsAt(text, first, n)
  <2>1. DigitsAt(text, IF f + 1 < n /\ text[f + 2] \in {"+", "-"} THEN f + 3 ELSE f + 2, n)
    BY <1>9 DEF ExponentTo
  <2>2. f + 2 <= n
    BY <1>1, <2>1 DEF DigitsAt
  <2>3. CASE text[f + 2] \in {"+", "-"}
    <3>1. DigitsAt(text, f + 3, n)
      BY <1>1, <2>1, <2>2, <2>3
    <3>2. f + 3 <= n
      BY <3>1 DEF DigitsAt
    <3> QED
      BY <1>1, <2>3, <3>1, <3>2
  <2>4. CASE text[f + 2] \notin {"+", "-"}
    BY <1>1, <2>1, <2>2, <2>4
  <2> QED
    BY <2>3, <2>4
<1>10. ASSUME NEW n \in 1 .. Len(text), ExponentTo(f, n)
       PROVE  n <= end - 1 /\ first < end
  <2> HIDE DEF first, end
  <2>1. first <= n /\ \A k \in first .. n : text[k] \in Digits
    BY <1>9, <1>10 DEF DigitsAt
  <2>2. ~(end \in first .. n)
    BY <1>1, <1>6, <2>1
  <2> QED
    BY <1>1, <1>4, <1>6, <2>1, <2>2
<1>11. CASE first < end
  <2>1. DigitsAt(text, first, end - 1)
    <3> HIDE DEF first, end
    <3> QED
      BY <1>1, <1>4, <1>6, <1>11 DEF DigitsAt
  <2>2. text[end - 1] \in Digits /\ end - 1 \in 1 .. Len(text) /\ f < end - 1
    <3> HIDE DEF first, end
    <3> QED
      BY <1>1, <1>4, <1>6, <1>11
  <2>3. first = IF f + 1 < end - 1 /\ text[f + 2] \in {"+", "-"} THEN f + 3 ELSE f + 2
    <3>1. CASE text[f + 2] \in {"+", "-"}
      <4>1. f + 2 < Len(text)
        <5>1. SUFFICES ASSUME ~(f + 2 < Len(text)) PROVE FALSE
          OBVIOUS
        <5>2. first = f + 2
          BY <5>1
        <5>3. text[f + 2] \in Digits
          <6> HIDE DEF first, end
          <6> QED
            BY <1>1, <1>4, <1>6, <1>11, <5>2
        <5> QED
          BY <3>1, <5>3 DEF Digits
      <4>2. first = f + 3
        BY <3>1, <4>1
      <4>3. f + 1 < end - 1
        <5> HIDE DEF first, end
        <5> QED
          BY <1>1, <1>6, <1>11, <4>2
      <4> QED
        BY <3>1, <4>2, <4>3
    <3>2. CASE text[f + 2] \notin {"+", "-"}
      BY <3>2
    <3> QED
      BY <3>1, <3>2
  <2>4. ExponentTo(f, end - 1)
    <3> HIDE DEF first, end
    <3> QED
      BY <1>7, <2>1, <2>2, <2>3 DEF ExponentTo
  <2> HIDE DEF first, end
  <2> QED
    BY <1>10, <2>2, <2>4
<1>12. CASE ~(first < end)
  <2> HIDE DEF first, end
  <2>1. first = end
    BY <1>1, <1>4, <1>6, <1>12
  <2> QED
    BY <1>8, <1>10, <1>12, <2>1
<1> QED
  BY <1>11, <1>12

\* How many of the first characters are digits.
LEMMA DigitsOfInteger ==
    ASSUME text \in Texts, NEW w, WholeEnd(w)
    PROVE  Cardinality({i \in 1 .. w : text[i] \in Digits}) =
               Len(Without(SubSeq(text, 1, w), {"-"}))
<1> DEFINE b == First(text)
<1>1. Len(text) \in Nat /\ w \in 1 .. Len(text) /\ IntegerTo(text, w)
  BY DEF Texts, WholeEnd
<1>2. b \in {1, 2} /\ b <= w /\ \A k \in b .. w : text[k] \in Digits
  BY <1>1 DEF First, IntegerTo
<1>3. b = 2 => text[1] \notin Digits
  BY DEF First, Digits
<1>4. Len(Without(SubSeq(text, 1, w), {"-"})) = w - b + 1
  <2>1. Without(SubSeq(text, 1, w), {"-"}) = SubSeq(text, b, w)
    BY <1>1, IntegerAt
  <2>2. b \in 1 .. Len(text) + 1 /\ w \in b - 1 .. Len(text)
    BY <1>1, <1>2
  <2> HIDE DEF b
  <2> QED
    BY <2>1, <2>2, PartOf
<1> HIDE DEF b
<1>5. {i \in 1 .. w : text[i] \in Digits} = b .. w
  <2>1. \A i \in 1 .. w : text[i] \in Digits <=> i \in b .. w
    BY <1>1, <1>2, <1>3
  <2>2. b .. w \subseteq 1 .. w
    BY <1>1, <1>2
  <2> QED
    BY <2>1, <2>2
<1>6. Cardinality(b .. w) = w - b + 1
  BY <1>1, <1>2, FS_Interval
<1> QED
  BY <1>4, <1>5, <1>6

NumberInv ==
    kind = "number" =>
        /\ text \in Texts /\ idx \in 1 .. Len(text) + 1
        /\ scalarAt \in {"sign", "whole", "fraction", "exponent", "done", "refused"}
        /\ scalarAt = "sign" => out = "int"
        /\ scalarAt = "whole" => out = "int" /\ idx = IF Char(1) = "-" THEN 2 ELSE 1
        /\ scalarAt = "fraction" => out = "int" /\ WholeEnd(idx - 1)
        /\ scalarAt = "exponent" => \E w \in 1 .. Len(text) : WholeEnd(w) /\ FractionEnd(w, idx - 1)
        /\ NumbersAreLongest

\* What Whole finds: an integer, or that there is no number.
LEMMA WholeFinds ==
    ASSUME text \in Texts, NEW i, i = IF Char(1) = "-" THEN 2 ELSE 1
    PROVE  /\ i \in 1 .. Len(text) + 1
           /\ Char(i) = "1" => /\ DigitsEnd(i + 1) \in 2 .. Len(text) + 1
                               /\ WholeEnd(DigitsEnd(i + 1) - 1)
           /\ Char(i) = "0" => i + 1 \in 2 .. Len(text) + 1 /\ WholeEnd(i)
           /\ Char(i) \notin Digits => \A n \in 1 .. Len(text) : ~IntegerTo(text, n)
<1>1. Len(text) \in Nat
  BY DEF Texts
<1>2. i \in 1 .. Len(text) + 1 /\ i \in {1, 2}
  BY <1>1 DEF Char
<1>3. Len(text) # 0 => First(text) = i
  BY <1>1 DEF First, Char
<1>4. ASSUME NEW n \in 1 .. Len(text), IntegerTo(text, n)
      PROVE  /\ i <= n /\ Char(i) = text[i] /\ (\A k \in i .. n : text[k] \in Digits)
             /\ text[i] \in Digits /\ (text[i] # "0" \/ n = i)
  <2>1. i <= n /\ (\A k \in i .. n : text[k] \in Digits) /\ (text[i] # "0" \/ n = i)
    BY <1>1, <1>3, <1>4 DEF IntegerTo
  <2> QED
    BY <1>1, <1>2, <2>1 DEF Char
<1>5. CASE Char(i) \notin Digits
  <2>1. Char(i) # "1" /\ Char(i) # "0"
    BY <1>5 DEF Digits
  <2> QED
    BY <1>2, <1>4, <1>5, <2>1
<1>6. CASE Char(i) = "0"
  <2>1. i \in 1 .. Len(text) /\ text[i] = "0" /\ "0" # "1" /\ "0" \in Digits
    BY <1>1, <1>2, <1>6 DEF Char, Digits
  <2>2. IntegerTo(text, i)
    BY <1>1, <1>3, <2>1 DEF IntegerTo
  <2>3. WholeEnd(i)
    BY <1>1, <1>4, <2>1, <2>2 DEF WholeEnd
  <2> QED
    BY <1>1, <1>2, <1>6, <2>1, <2>3
<1>7. CASE Char(i) = "1"
  <2> DEFINE e == DigitsEnd(i + 1)
  <2>1. i \in 1 .. Len(text) /\ text[i] = "1" /\ "0" # "1" /\ "1" \in Digits
    BY <1>1, <1>2, <1>7 DEF Char, Digits
  <2>2. i + 1 \in 1 .. Len(text) + 1
    BY <1>1, <2>1
  <2>3. /\ e \in i + 1 .. Len(text) + 1
        /\ \A k \in i + 1 .. e - 1 : text[k] \in Digits
        /\ e <= Len(text) => text[e] \notin Digits
    BY <2>2, DigitsEndOf
  <2> HIDE DEF e
  <2>4. e - 1 \in 1 .. Len(text) /\ i <= e - 1 /\ \A k \in i .. e - 1 : text[k] \in Digits
    BY <1>1, <2>1, <2>3
  <2>5. IntegerTo(text, e - 1)
    BY <1>1, <1>3, <2>1, <2>4 DEF IntegerTo
  <2>6. ASSUME NEW n \in 1 .. Len(text), IntegerTo(text, n)
        PROVE  n <= e - 1 /\ (n < e - 1 => text[n + 1] \in Digits)
    <3>1. i <= n /\ \A k \in i .. n : text[k] \in Digits
      BY <1>4, <2>6
    <3>2. ~(e \in i .. n)
      BY <1>1, <2>1, <2>3, <3>1
    <3>3. n <= e - 1
      BY <1>1, <2>1, <2>3, <3>1, <3>2
    <3>4. n < e - 1 => n + 1 \in i .. e - 1
      BY <1>1, <2>1, <2>3, <3>1
    <3> QED
      BY <2>4, <3>3, <3>4
  <2>7. WholeEnd(e - 1)
    BY <2>4, <2>5, <2>6 DEF WholeEnd
  <2>8. e \in 2 .. Len(text) + 1
    BY <1>1, <2>1, <2>3
  <2> QED
    BY <1>2, <1>7, <2>1, <2>7, <2>8 DEF e
<1> QED
  BY <1>5, <1>6, <1>7 DEF Digits

\* No number begins without an integer.
LEMMA NoNumber ==
    ASSUME text \in Texts, \A n \in 1 .. Len(text) : ~IntegerTo(text, n)
    PROVE  Max({i \in 1 .. Len(text) : IsNumber(SubSeq(text, 1, i))} \cup {0}) = 0
<1>1. Len(text) \in Nat
  BY DEF Texts
<1>2. ASSUME NEW n \in 1 .. Len(text) PROVE ~IsNumber(SubSeq(text, 1, n))
  <2>1. ~IsInteger(SubSeq(text, 1, n))
    BY <1>2, IntegerAt
  <2>2. ~FloatTo(text, n)
    <3>1. \A i \in 1 .. n + 1 : i # 1 => i - 1 \in 1 .. Len(text)
      BY <1>1
    <3> QED
      BY <3>1 DEF FloatTo
  <2>3. ~IsFloat(SubSeq(text, 1, n))
    BY <2>2, FloatAt
  <2> QED
    BY <2>1, <2>3 DEF IsNumber
<1>3. 0 \in 0 .. Len(text)
  BY <1>1
<1> QED
  BY <1>2, <1>3, LongestIs

\* What Exponent ends with is the longest number.
LEMMA ExponentFinds ==
    ASSUME text \in Texts, NEW w, NEW f, WholeEnd(w), FractionEnd(w, f)
    PROVE  LET longest == Max({i \in 1 .. Len(text) : IsNumber(SubSeq(text, 1, i))} \cup {0})
               number == SubSeq(text, 1, longest)
           IN  IF Char(f + 1) = "e" /\ f + 1 < Len(text) /\ text[ExponentEnd(f) - 1] \in Digits
               THEN longest = ExponentEnd(f) - 1 /\ longest \in 1 .. Len(text) /\ IsFloat(number)
               ELSE /\ longest = f /\ f \in 1 .. Len(text) /\ (IsFloat(number) <=> out = "float")
                    /\ out = "int" => f = w /\ IsInteger(number)
<1> DEFINE exponent == Char(f + 1) = "e" /\ f + 1 < Len(text) /\ text[ExponentEnd(f) - 1] \in Digits
           end == ExponentEnd(f) - 1
           longest == Max({i \in 1 .. Len(text) : IsNumber(SubSeq(text, 1, i))} \cup {0})
           number == SubSeq(text, 1, longest)
<1>1. Len(text) \in Nat /\ w \in 1 .. Len(text) /\ IntegerTo(text, w)
  BY DEF Texts, WholeEnd
<1>2. f \in w .. Len(text) /\ f \in 1 .. Len(text) /\ out \in {"int", "float"}
        /\ (out = "int" => f = w)
  BY <1>1 DEF FractionEnd
<1>3. IF exponent
      THEN /\ end \in 1 .. Len(text) /\ ExponentTo(f, end)
           /\ \A n \in 1 .. Len(text) : ExponentTo(f, n) => n <= end
      ELSE \A n \in 1 .. Len(text) : ~ExponentTo(f, n)
  BY <1>2, ExponentsEnd
<1> HIDE DEF exponent, end
<1>4. ASSUME NEW n \in 1 .. Len(text), IsNumber(SubSeq(text, 1, n))
      PROVE  n <= f \/ ExponentTo(f, n)
  <2>1. CASE IsInteger(SubSeq(text, 1, n))
    <3>1. IntegerTo(text, n)
      BY <2>1, IntegerAt
    <3> QED
      BY <1>1, <1>2, <3>1 DEF WholeEnd
  <2>2. CASE IsFloat(SubSeq(text, 1, n))
    <3>1. FloatTo(text, n)
      BY <2>2, FloatAt
    <3> QED
      BY <3>1, FloatsEnd
  <2> QED
    BY <1>4, <2>1, <2>2 DEF IsNumber
<1>5. CASE exponent
  <2>1. f < end
    BY <1>3, <1>5 DEF ExponentTo
  <2>2. IsFloat(SubSeq(text, 1, end))
    <3>1. FloatTo(text, end)
      BY <1>3, <1>5, FloatsThere
    <3> QED
      BY <1>3, <1>5, <3>1, FloatAt
  <2>3. end \in 0 .. Len(text) /\ IsNumber(SubSeq(text, 1, end))
    BY <1>1, <1>3, <1>5, <2>2 DEF IsNumber
  <2>4. \A i \in 1 .. Len(text) : IsNumber(SubSeq(text, 1, i)) => i <= end
    BY <1>1, <1>2, <1>3, <1>4, <1>5, <2>1
  <2>5. longest = end
    BY <2>3, <2>4, LongestIs
  <2> HIDE DEF longest
  <2> QED
    BY <1>3, <1>5, <2>2, <2>5 DEF exponent, end, longest
<1>6. CASE ~exponent
  <2>1. out = "float" => IsFloat(SubSeq(text, 1, f))
    <3>1. out = "float" => FloatTo(text, f)
      BY FloatsThere
    <3> QED
      BY <1>2, <3>1, FloatAt
  <2>2. out = "int" => IsInteger(SubSeq(text, 1, f))
    BY <1>1, <1>2, IntegerAt
  <2>3. out = "int" => ~IsFloat(SubSeq(text, 1, f))
    <3>1. ASSUME IsFloat(SubSeq(text, 1, f)) PROVE out = "float"
      <4>1. FloatTo(text, f)
        BY <1>2, <3>1, FloatAt
      <4>2. (out = "float" /\ f <= f) \/ ExponentTo(f, f)
        BY <1>2, <4>1, FloatsEnd
      <4> QED
        BY <1>2, <4>2 DEF ExponentTo
    <3> QED
      BY <3>1
  <2>4. f \in 0 .. Len(text) /\ IsNumber(SubSeq(text, 1, f))
    BY <1>2, <2>1, <2>2 DEF IsNumber
  <2>5. \A i \in 1 .. Len(text) : IsNumber(SubSeq(text, 1, i)) => i <= f
    BY <1>3, <1>4, <1>6
  <2>6. longest = f
    BY <2>4, <2>5, LongestIs
  <2> HIDE DEF longest
  <2> QED
    BY <1>2, <1>6, <2>1, <2>2, <2>3, <2>6 DEF exponent, longest
<1> QED
  BY <1>5, <1>6

LEMMA NumberInit ==
    ASSUME ScalarAssumption
    PROVE  ScalarInit => NumberInv
<1> SUFFICES ASSUME ScalarInit, kind = "number" PROVE NumberInv
  BY DEF NumberInv
<1>1. text \in NumberTexts /\ scalarAt = "sign" /\ out = "int" /\ idx = 1
  BY DEF ScalarInit
<1>2. text \in Texts
  BY <1>1 DEF ScalarAssumption, Texts
<1>3. 1 \in 1 .. Len(text) + 1
  BY <1>2 DEF Texts
<1> QED
  BY <1>1, <1>2, <1>3 DEF NumberInv, NumbersAreLongest

LEMMA NumberNext == NumberInv /\ [ScalarNext]_scalarVars => NumberInv'
<1> SUFFICES ASSUME NumberInv, [ScalarNext]_scalarVars, kind' = "number" PROVE NumberInv'
  BY DEF NumberInv
<1>0. kind = "number" /\ text' = text
  BY DEF ScalarNext, scalarVars, Sign, Whole, Fraction, Exponent, ScanString
<1>1. /\ text \in Texts /\ idx \in 1 .. Len(text) + 1
      /\ scalarAt \in {"sign", "whole", "fraction", "exponent", "done", "refused"}
      /\ scalarAt = "sign" => out = "int"
      /\ scalarAt = "whole" => out = "int" /\ idx = IF Char(1) = "-" THEN 2 ELSE 1
      /\ scalarAt = "fraction" => out = "int" /\ WholeEnd(idx - 1)
      /\ scalarAt = "exponent" => \E w \in 1 .. Len(text) : WholeEnd(w) /\ FractionEnd(w, idx - 1)
      /\ NumbersAreLongest
  BY <1>0 DEF NumberInv
<1>2. Len(text) \in Nat
  BY <1>1 DEF Texts
<1>3. CASE UNCHANGED scalarVars
  BY <1>1, <1>3 DEF scalarVars, NumberInv, NumbersAreLongest, WholeEnd, FractionEnd, Char
<1>4. CASE Sign
  <2>1. /\ scalarAt' = "whole" /\ out' = out /\ idx' = IF Char(1) = "-" THEN 2 ELSE 1
        /\ scalarAt = "sign"
    BY <1>4 DEF Sign
  <2>2. idx' \in 1 .. Len(text) + 1
    BY <1>2, <2>1 DEF Char
  <2> QED
    BY <1>0, <1>1, <2>1, <2>2 DEF NumberInv, NumbersAreLongest, Char
<1>5. CASE Whole
  <2>1. scalarAt = "whole" /\ out' = out /\ idx = IF Char(1) = "-" THEN 2 ELSE 1
    BY <1>1, <1>5 DEF Whole
  <2>2. CASE Char(idx) = "1"
    <3>1. idx' = DigitsEnd(idx + 1) /\ scalarAt' = "fraction"
      BY <1>5, <2>2 DEF Whole
    <3>2. idx' \in 2 .. Len(text) + 1 /\ WholeEnd(idx' - 1)
      BY <1>1, <2>1, <2>2, <3>1, WholeFinds
    <3>3. WholeEnd(idx - 1)'
      BY <1>0, <3>2 DEF WholeEnd
    <3> QED
      BY <1>0, <1>1, <1>2, <2>1, <3>1, <3>2, <3>3 DEF NumberInv, NumbersAreLongest
  <2>3. CASE Char(idx) = "0"
    <3>1. idx' = idx + 1 /\ scalarAt' = "fraction"
      BY <1>5, <2>3 DEF Whole
    <3>2. idx + 1 \in 2 .. Len(text) + 1 /\ WholeEnd(idx)
      BY <1>1, <2>1, <2>3, WholeFinds
    <3>3. idx' - 1 = idx
      BY <1>2, <3>1, <1>1
    <3>4. WholeEnd(idx - 1)'
      BY <1>0, <3>2, <3>3 DEF WholeEnd
    <3> QED
      BY <1>0, <1>1, <1>2, <2>1, <3>1, <3>2, <3>4 DEF NumberInv, NumbersAreLongest
  <2>4. CASE Char(idx) # "1" /\ Char(idx) # "0"
    <3>1. idx' = idx /\ scalarAt' = "refused"
      BY <1>5, <2>4 DEF Whole
    <3>2. Char(idx) \notin Digits
      BY <2>4 DEF Digits
    <3>3. \A n \in 1 .. Len(text) : ~IntegerTo(text, n)
      BY <1>1, <2>1, <3>2, WholeFinds
    <3>4. Max({i \in 1 .. Len(text) : IsNumber(SubSeq(text, 1, i))} \cup {0}) = 0
      BY <1>1, <3>3, NoNumber
    <3>5. NumbersAreLongest'
      BY <1>0, <3>1, <3>4 DEF NumbersAreLongest
    <3> QED
      BY <1>0, <1>1, <3>1, <3>5 DEF NumberInv
  <2> QED
    BY <2>2, <2>3, <2>4
<1>6. CASE Fraction
  <2>0. idx - 1 \in 1 .. Len(text)
    BY <1>1, <1>6 DEF Fraction, WholeEnd
  <2> PICK w \in 1 .. Len(text) : w = idx - 1
    BY <2>0
  <2>1. scalarAt = "fraction" /\ scalarAt' = "exponent" /\ out = "int" /\ WholeEnd(w) /\ idx = w + 1
    BY <1>1, <1>2, <1>6 DEF Fraction
  <2>2. CASE Char(idx) = "." /\ Char(idx + 1) \in Digits
    <3> DEFINE e == DigitsEnd(idx + 1)
    <3>1. idx' = e /\ out' = "float"
      BY <1>6, <2>2 DEF Fraction
    <3>2. idx + 1 <= Len(text) /\ text[idx] = "." /\ text[idx + 1] \in Digits
      BY <1>1, <1>2, <2>2 DEF Char, Digits
    <3>3. idx + 1 \in 1 .. Len(text) + 1
      BY <1>1, <1>2, <3>2
    <3>4. /\ e \in idx + 1 .. Len(text) + 1
          /\ \A k \in idx + 1 .. e - 1 : text[k] \in Digits
          /\ e <= Len(text) => text[e] \notin Digits
      BY <1>1, <3>3, DigitsEndOf
    <3> HIDE DEF e
    <3>5. e # idx + 1
      BY <3>2, <3>4
    <3>6. e - 1 \in w + 2 .. Len(text) /\ idx + 1 = w + 2
      BY <1>1, <1>2, <2>1, <3>4, <3>5
    <3>7. (e - 1) + 1 = e /\ e - 1 < Len(text) => text[(e - 1) + 1] \notin Digits
      BY <1>2, <3>4
    <3>8. DigitsAt(text, w + 2, e - 1)
      BY <1>2, <3>4, <3>6 DEF DigitsAt
    <3>9. FractionEnd(w, idx - 1)'
      BY <1>0, <1>2, <2>1, <3>1, <3>2, <3>4, <3>6, <3>7, <3>8 DEF FractionEnd
    <3>10. idx' \in 1 .. Len(text) + 1
      BY <1>1, <1>2, <3>1, <3>4
    <3>11. WholeEnd(w)'
      BY <1>0, <2>1 DEF WholeEnd
    <3> QED
      BY <1>0, <1>1, <2>1, <3>9, <3>10, <3>11 DEF NumberInv, NumbersAreLongest
  <2>3. CASE ~(Char(idx) = "." /\ Char(idx + 1) \in Digits)
    <3>1. idx' = idx /\ out' = out
      BY <1>6, <2>3 DEF Fraction
    <3>2. ~(w + 2 <= Len(text) /\ text[w + 1] = "." /\ text[w + 2] \in Digits)
      BY <1>1, <1>2, <2>1, <2>3 DEF Char
    <3>3. FractionEnd(w, idx - 1)'
      BY <1>0, <2>1, <3>1, <3>2 DEF FractionEnd
    <3>4. WholeEnd(w)'
      BY <1>0, <2>1, <3>1 DEF WholeEnd
    <3> QED
      BY <1>0, <1>1, <2>1, <3>1, <3>3, <3>4 DEF NumberInv, NumbersAreLongest
  <2> QED
    BY <2>2, <2>3
<1>7. CASE Exponent
  <2> DEFINE f == idx - 1
             first == IF Char(idx + 1) \in {"+", "-"} /\ idx + 1 < Len(text) THEN idx + 2 ELSE idx + 1
             exponent == Char(idx) = "e" /\ idx < Len(text) /\ text[DigitsEnd(first) - 1] \in Digits
             tall == Cardinality({i \in 1 .. (idx - 1) : text[i] \in Digits}) > DigitLimit
             longest == Max({i \in 1 .. Len(text) : IsNumber(SubSeq(text, 1, i))} \cup {0})
             number == SubSeq(text, 1, longest)
  <2>1. scalarAt = "exponent"
    BY <1>7 DEF Exponent
  <2>2. PICK w \in 1 .. Len(text) : WholeEnd(w) /\ FractionEnd(w, f)
    BY <1>1, <2>1
  <2>3. IF exponent THEN scalarAt' = "done" /\ idx' = DigitsEnd(first) /\ out' = "float"
        ELSE IF out = "int" /\ tall THEN scalarAt' = "refused" /\ idx' = idx /\ out' = out
        ELSE scalarAt' = "done" /\ idx' = idx /\ out' = out
    BY <1>7 DEF Exponent, Done, Refuse
  <2>4. idx = f + 1 /\ idx + 1 = f + 2 /\ idx + 2 = f + 3
    BY <1>1, <1>2
  <2>5. DigitsEnd(first) = ExponentEnd(f)
    BY <2>4 DEF ExponentEnd
  <2>6. IF exponent
        THEN longest = ExponentEnd(f) - 1 /\ longest \in 1 .. Len(text) /\ IsFloat(number)
        ELSE /\ longest = f /\ f \in 1 .. Len(text) /\ (IsFloat(number) <=> out = "float")
             /\ out = "int" => f = w /\ IsInteger(number)
    <3>1. IF Char(f + 1) = "e" /\ f + 1 < Len(text) /\ text[ExponentEnd(f) - 1] \in Digits
          THEN longest = ExponentEnd(f) - 1 /\ longest \in 1 .. Len(text) /\ IsFloat(number)
          ELSE /\ longest = f /\ f \in 1 .. Len(text) /\ (IsFloat(number) <=> out = "float")
               /\ out = "int" => f = w /\ IsInteger(number)
      <4> HIDE DEF f
      <4> QED
        BY <1>1, <2>2, ExponentFinds
    <3> QED
      BY <2>4, <2>5, <3>1
  <2>7. out \in {"int", "float"}
    BY <2>2 DEF FractionEnd
  <2>8. exponent => ExponentEnd(f) \in 1 .. Len(text) + 1 /\ ExponentEnd(f) = longest + 1
    <3>1. CASE exponent
      <4>1. idx + 1 <= Len(text) /\ first \in 1 .. Len(text) + 1
        BY <1>1, <1>2, <3>1
      <4>2. ExponentEnd(f) \in first .. Len(text) + 1
        <5> HIDE DEF first
        <5> QED
          BY <1>1, <2>5, <4>1, DigitsEndOf
      <4> HIDE DEF first, longest, f
      <4> QED
        BY <1>2, <2>6, <3>1, <4>1, <4>2
    <3> QED
      BY <3>1
  <2>9. out = "int" /\ tall /\ ~exponent =>
            IsInteger(number) /\ Len(Without(number, {"-"})) > DigitLimit
    <3>1. Cardinality({i \in 1 .. w : text[i] \in Digits}) = Len(Without(SubSeq(text, 1, w), {"-"}))
      BY <1>1, <2>2, DigitsOfInteger
    <3> HIDE DEF exponent, longest
    <3> QED
      BY <2>6, <3>1
  <2> HIDE DEF f, first, exponent, tall, longest
  <2>10. idx' \in 1 .. Len(text) + 1 /\ scalarAt' \in {"done", "refused"}
    BY <1>1, <2>3, <2>5, <2>8
  <2>11. /\ scalarAt' = "done" => idx' = longest + 1 /\ out' = (IF IsFloat(number) THEN "float" ELSE "int")
         /\ scalarAt' = "refused" =>
              longest = 0 \/ (IsInteger(number) /\ Len(Without(number, {"-"})) > DigitLimit)
    BY <2>3, <2>4, <2>5, <2>6, <2>7, <2>8, <2>9
  <2>12. NumbersAreLongest'
    BY <1>0, <2>11 DEF NumbersAreLongest, longest
  <2> QED
    BY <1>0, <1>1, <2>10, <2>12 DEF NumberInv
<1>8. CASE ScanString
  BY <1>1, <1>8 DEF ScanString
<1> QED
  BY <1>3, <1>4, <1>5, <1>6, <1>7, <1>8 DEF ScalarNext

\* Whatever the text, match_number takes the longest number it begins with, an
\* integer only if no float is longer, and refuses a text only if it begins with
\* none or with an integer of too many digits (match_number).
THEOREM NumberIsLongest ==
    ASSUME ScalarAssumption
    PROVE  ScalarSpec => []NumbersAreLongest
<1>1. NumberInv => NumbersAreLongest
  BY DEF NumberInv, NumbersAreLongest
<1> QED
  BY <1>1, NumberInit, NumberNext, PTL DEF ScalarSpec

-----------------------------------------------------------------------------
\* Recursion on texts that get shorter: <<c, t>> in next[s] says that the text s
\* goes on with t behind the character c.
Step(next, g, s) ==
    IF s = <<>> THEN {<<>>} ELSE UNION {{<<p[1]>> \o r : r \in g[p[2]]} : p \in next[s]}

Shrinks(next) ==
    \A s \in Texts : \A p \in next[s] : p[2] \in Texts /\ Len(p[2]) < Len(s)

UpTo(n) == {s \in Texts : Len(s) <= n}

Unrolls(next, g, n) == g = [s \in UpTo(n) |-> Step(next, g, s)]

LEMMA StepsAgree ==
    ASSUME NEW next, Shrinks(next), NEW g, NEW h, NEW s \in Texts,
           \A t \in Texts : Len(t) < Len(s) => g[t] = h[t]
    PROVE  Step(next, g, s) = Step(next, h, s)
<1> DEFINE G(p) == {<<p[1]>> \o r : r \in g[p[2]]}
           H(p) == {<<p[1]>> \o r : r \in h[p[2]]}
<1>1. ASSUME NEW p \in next[s] PROVE G(p) = H(p)
  <2>1. g[p[2]] = h[p[2]]
    BY DEF Shrinks
  <2> QED
    BY <2>1
<1> HIDE DEF G, H
<1>2. {G(p) : p \in next[s]} = {H(p) : p \in next[s]}
  BY <1>1
<1>3. UNION {G(p) : p \in next[s]} = UNION {H(p) : p \in next[s]}
  BY <1>2
<1> QED
  BY <1>3 DEF Step, G, H

LEMMA UnrolledAgree ==
    ASSUME NEW next, Shrinks(next), NEW g, NEW h, NEW n \in Nat, NEW m \in Nat,
           Unrolls(next, g, n), Unrolls(next, h, m)
    PROVE  \A s \in UpTo(n) \cap UpTo(m) : g[s] = h[s]
<1> DEFINE T == {Len(s) : s \in {s \in UpTo(n) \cap UpTo(m) : g[s] # h[s]}}
<1>1. SUFFICES ASSUME T # {} PROVE FALSE
  BY <1>1
<1>2. \A s \in Texts : Len(s) \in Nat
  BY DEF Texts
<1>3. PICK k \in T : \A j \in T : k <= j
  <2>1. T \in SUBSET Nat
    BY <1>2 DEF UpTo
  <2> HIDE DEF T
  <2> QED
    BY <1>1, <2>1, LeastOf
<1>4. PICK s \in UpTo(n) \cap UpTo(m) : Len(s) = k /\ g[s] # h[s]
  BY <1>3
<1>5. ASSUME NEW t \in Texts, Len(t) < Len(s) PROVE g[t] = h[t]
  <2>1. t \in UpTo(n) \cap UpTo(m)
    BY <1>2, <1>4, <1>5 DEF UpTo
  <2>2. Len(t) \notin T
    BY <1>2, <1>3, <1>4, <1>5 DEF UpTo
  <2> QED
    BY <2>1, <2>2
<1>6. s \in Texts
  BY <1>4 DEF UpTo
<1>7. Step(next, g, s) = Step(next, h, s)
  BY <1>5, <1>6, StepsAgree
<1>8. g[s] = Step(next, g, s) /\ h[s] = Step(next, h, s)
  BY <1>4 DEF Unrolls
<1> QED
  BY <1>4, <1>7, <1>8

LEMMA UnrolledExists ==
    ASSUME NEW next, Shrinks(next), NEW n \in Nat
    PROVE  \E g : Unrolls(next, g, n)
<1> DEFINE T == {k \in Nat : ~\E g : Unrolls(next, g, k)}
<1>1. SUFFICES ASSUME T # {} PROVE FALSE
  BY <1>1
<1>2. \A s \in Texts : Len(s) \in Nat
  BY DEF Texts
<1>3. PICK k \in T : \A j \in T : k <= j
  <2>1. T \in SUBSET Nat
    OBVIOUS
  <2> HIDE DEF T
  <2> QED
    BY <1>1, <2>1, LeastOf
<1>4. PICK g : \A s \in Texts : Len(s) < k => g[s] = Step(next, g, s)
  <2>1. CASE k = 0
    BY <1>2, <2>1
  <2>2. CASE k # 0
    <3>1. k - 1 \in Nat /\ k - 1 \notin T
      BY <1>3, <2>2
    <3>2. PICK g : Unrolls(next, g, k - 1)
      BY <3>1
    <3>3. \A s \in Texts : Len(s) < k => s \in UpTo(k - 1)
      BY <1>2, <3>1 DEF UpTo
    <3> QED
      BY <3>2, <3>3 DEF Unrolls
  <2> QED
    BY <2>1, <2>2
<1> DEFINE h == [s \in UpTo(k) |-> Step(next, g, s)]
<1>5. ASSUME NEW s \in UpTo(k) PROVE Step(next, g, s) = Step(next, h, s)
  <2>1. ASSUME NEW t \in Texts, Len(t) < Len(s) PROVE g[t] = h[t]
    <3>1. t \in UpTo(k) /\ Len(t) < k
      BY <1>2, <1>3, <2>1 DEF UpTo
    <3> QED
      BY <1>4, <3>1
  <2>2. s \in Texts
    BY DEF UpTo
  <2> HIDE DEF h
  <2> QED
    BY <2>1, <2>2, StepsAgree
<1>6. h = [s \in UpTo(k) |-> Step(next, h, s)]
  BY <1>5
<1>7. Unrolls(next, h, k)
  BY <1>6 DEF Unrolls
<1> QED
  BY <1>3, <1>7

LEMMA RecursionOnTexts ==
    ASSUME NEW next, Shrinks(next)
    PROVE  \E f : f = [s \in Texts |-> Step(next, f, s)]
<1> DEFINE g(n) == CHOOSE g : Unrolls(next, g, n)
           f == [s \in Texts |-> g(Len(s))[s]]
<1>1. \A s \in Texts : Len(s) \in Nat
  BY DEF Texts
<1>2. \A n \in Nat : Unrolls(next, g(n), n)
  BY UnrolledExists, Zenon
<1> HIDE DEF g
<1>3. ASSUME NEW s \in Texts PROVE f[s] = Step(next, f, s)
  <2>1. Unrolls(next, g(Len(s)), Len(s)) /\ s \in UpTo(Len(s))
    BY <1>1, <1>2 DEF UpTo
  <2>2. f[s] = Step(next, g(Len(s)), s)
    BY <2>1 DEF Unrolls
  <2>3. ASSUME NEW t \in Texts, Len(t) < Len(s) PROVE g(Len(s))[t] = f[t]
    <3>1. t \in UpTo(Len(s)) \cap UpTo(Len(t)) /\ Unrolls(next, g(Len(t)), Len(t))
      BY <1>1, <1>2, <2>3 DEF UpTo
    <3>2. g(Len(s))[t] = g(Len(t))[t]
      BY <1>1, <2>1, <3>1, UnrolledAgree
    <3> QED
      BY <3>2
  <2> HIDE DEF f
  <2> QED
    BY <2>2, <2>3, StepsAgree
<1>4. f = [s \in Texts |-> Step(next, f, s)]
  BY <1>3
<1> QED
  BY <1>4

-----------------------------------------------------------------------------
\* FlattenSeq, and what dump_str writes.
IsFlat(f, ss, n) == f = [i \in 1 .. n |-> IF i = 1 THEN ss[i] ELSE f[i - 1] \o ss[i]]

LEMMA FlatAgree ==
    ASSUME NEW f, NEW g, NEW a, NEW b, NEW n \in Nat, NEW m \in Nat,
           IsFlat(f, a, n), IsFlat(g, b, m),
           NEW k \in Nat, k <= n, k <= m, \A i \in 1 .. k : a[i] = b[i]
    PROVE  \A i \in 1 .. k : f[i] = g[i]
<1> DEFINE T == {i \in 1 .. k : f[i] # g[i]}
<1>1. SUFFICES ASSUME T # {} PROVE FALSE
  BY <1>1
<1>2. PICK i \in T : \A j \in T : i <= j
  <2>1. T \in SUBSET Nat
    OBVIOUS
  <2> HIDE DEF T
  <2> QED
    BY <1>1, <2>1, LeastOf
<1>3. i \in 1 .. n /\ i \in 1 .. m /\ a[i] = b[i]
  BY <1>2
<1>4. /\ f[i] = IF i = 1 THEN a[i] ELSE f[i - 1] \o a[i]
      /\ g[i] = IF i = 1 THEN b[i] ELSE g[i - 1] \o b[i]
  BY <1>3 DEF IsFlat
<1>5. i # 1 => f[i - 1] = g[i - 1]
  <2>1. i # 1 => i - 1 \in 1 .. k /\ i - 1 \notin T
    BY <1>2
  <2> QED
    BY <2>1
<1> QED
  BY <1>2, <1>3, <1>4, <1>5

LEMMA FlatExists ==
    ASSUME NEW a, NEW n \in Nat
    PROVE  \E f : IsFlat(f, a, n)
<1> DEFINE T == {m \in Nat : ~\E f : IsFlat(f, a, m)}
<1>1. SUFFICES ASSUME T # {} PROVE FALSE
  BY <1>1
<1>2. PICK m \in T : \A k \in T : m <= k
  <2>1. T \in SUBSET Nat
    OBVIOUS
  <2> HIDE DEF T
  <2> QED
    BY <1>1, <2>1, LeastOf
<1>3. CASE m = 0
  <2> DEFINE f == [i \in 1 .. 0 |-> a]
  <2>1. f = [i \in 1 .. 0 |-> IF i = 1 THEN a[i] ELSE f[i - 1] \o a[i]]
    OBVIOUS
  <2>2. IsFlat(f, a, 0)
    BY <2>1 DEF IsFlat
  <2> QED
    BY <1>2, <1>3, <2>2
<1>4. CASE m # 0
  <2>1. m - 1 \in Nat /\ m - 1 \notin T
    BY <1>2, <1>4
  <2>2. PICK f : IsFlat(f, a, m - 1)
    BY <2>1
  <2> DEFINE g == [i \in 1 .. m |-> IF i = 1 THEN a[i] ELSE f[i - 1] \o a[i]]
  <2>3. \A i \in 1 .. m - 1 : g[i] = f[i]
    <3>1. \A i \in 1 .. m - 1 : i \in 1 .. m
      BY <2>1
    <3> QED
      BY <2>2, <3>1 DEF IsFlat
  <2>4. \A i \in 1 .. m : i # 1 => i - 1 \in 1 .. m - 1
    BY <2>1
  <2>5. g = [i \in 1 .. m |-> IF i = 1 THEN a[i] ELSE g[i - 1] \o a[i]]
    BY <2>3, <2>4
  <2> HIDE DEF g
  <2>6. IsFlat(g, a, m)
    BY <2>5 DEF IsFlat
  <2> QED
    BY <1>2, <2>6
<1> QED
  BY <1>3, <1>4

LEMMA FlattenIsFlat ==
    ASSUME NEW ss, Len(ss) \in Nat \ {0}
    PROVE  \E f : IsFlat(f, ss, Len(ss)) /\ FlattenSeq(ss) = f[Len(ss)]
<1>1. PICK f : IsFlat(f, ss, Len(ss))
  BY FlatExists
<1> DEFINE flat == CHOOSE g : g = [i \in 1 .. Len(ss) |-> IF i = 1 THEN ss[i] ELSE g[i - 1] \o ss[i]]
<1>2. IsFlat(flat, ss, Len(ss))
  BY <1>1 DEF IsFlat
<1>3. FlattenSeq(ss) = flat[Len(ss)]
  BY DEF FlattenSeq
<1> QED
  BY <1>2, <1>3

LEMMA FlattenMore ==
    /\ FlattenSeq(<<>>) = <<>>
    /\ \A ss \in Seq(Texts), t \in Texts :
           FlattenSeq(Append(ss, t)) = IF ss = <<>> THEN t ELSE FlattenSeq(ss) \o t
<1>1. FlattenSeq(<<>>) = <<>>
  BY DEF FlattenSeq
<1>2. ASSUME NEW ss \in Seq(Texts), NEW t \in Texts
      PROVE  FlattenSeq(Append(ss, t)) = IF ss = <<>> THEN t ELSE FlattenSeq(ss) \o t
  <2> DEFINE n == Len(ss)
             more == Append(ss, t)
  <2>1. n \in Nat /\ Len(more) = n + 1 /\ more[n + 1] = t /\ \A i \in 1 .. n : more[i] = ss[i]
    BY <1>2, AppendProperties, LenProperties
  <2>2. ss = <<>> <=> n = 0
    BY <1>2, EmptySeq
  <2> HIDE DEF n, more
  <2>3. PICK f : IsFlat(f, more, n + 1) /\ FlattenSeq(more) = f[n + 1]
    <3>1. Len(more) \in Nat \ {0}
      BY <2>1
    <3> QED
      BY <2>1, <3>1, FlattenIsFlat
  <2>4. n + 1 \in 1 .. n + 1 /\ (n + 1 = 1 <=> n = 0)
    BY <2>1
  <2>5. f[n + 1] = IF n = 0 THEN more[n + 1] ELSE f[(n + 1) - 1] \o more[n + 1]
    BY <2>3, <2>4 DEF IsFlat
  <2>6. n # 0 => FlattenSeq(ss) = f[n]
    <3>1. SUFFICES ASSUME n # 0 PROVE FlattenSeq(ss) = f[n]
      OBVIOUS
    <3>2. PICK g : IsFlat(g, ss, n) /\ FlattenSeq(ss) = g[n]
      BY <2>1, <3>1, FlattenIsFlat DEF n
    <3>3. \A i \in 1 .. n : f[i] = g[i]
      BY <2>1, <2>3, <3>2, FlatAgree
    <3> QED
      BY <2>1, <3>1, <3>2, <3>3
  <2>7. (n + 1) - 1 = n
    BY <2>1
  <2> QED
    BY <2>1, <2>2, <2>3, <2>5, <2>6, <2>7 DEF more
<1> QED
  BY <1>1, <1>2

LEMMA CharactersAre ==
    ASSUME ScalarAssumption
    PROVE  /\ "backslash" \in Alphabet /\ "quote" \in Alphabet /\ "newline" \in Alphabet
           /\ "control" \in Alphabet /\ "z" \in Alphabet /\ "astral" \in Alphabet
           /\ "n" \in Alphabet /\ "u" \in Alphabet /\ "0001" \in Alphabet /\ "007a" \in Alphabet
           /\ "d83d" \in Alphabet /\ "de00" \in Alphabet /\ "end" \notin Alphabet
<1>1. /\ {"quote", "backslash", "control", "newline", "end"} \ {"end"} \subseteq Alphabet
      /\ Quads \subseteq Alphabet /\ {"n", "u", Paired} \subseteq Alphabet /\ Range(Code) \subseteq Alphabet
      /\ "end" \notin Alphabet
  BY DEF ScalarAssumption, Stops
<1>2. Code["007a"] = "z" /\ "007a" \in DOMAIN Code /\ "0001" \in DOMAIN Code
  BY DEF Code
<1>3. "z" \in Range(Code)
  BY <1>2, Zenon DEF Range
<1>4. High \in Quads /\ Low \in Quads /\ "007a" \in Quads /\ "0001" \in Quads
  BY <1>2 DEF Quads
<1> QED
  BY <1>1, <1>3, <1>4 DEF High, Low, Paired

LEMMA SpeltIsText ==
    ASSUME ScalarAssumption, NEW c \in Alphabet, NEW ascii \in BOOLEAN
    PROVE  /\ Spelt(c, ascii) \in Texts /\ Len(Spelt(c, ascii)) > 0
           /\ c \in {"quote", "backslash"} => Spelt(c, ascii) = <<"backslash", c>>
           /\ c = "newline" => Spelt(c, ascii) = <<"backslash", "n">>
           /\ c = "control" => Spelt(c, ascii) = <<"backslash", "u", "0001">>
           /\ c = "astral" /\ ascii =>
                  Spelt(c, ascii) = <<"backslash", "u", "d83d", "backslash", "u", "de00">>
           /\ c \notin {"quote", "backslash", "newline", "control"} /\ ~(c = "astral" /\ ascii) =>
                  Spelt(c, ascii) = <<c>>
<1>1. /\ c \in {"quote", "backslash"} => Spelt(c, ascii) = <<"backslash", c>>
      /\ c = "newline" => Spelt(c, ascii) = <<"backslash", "n">>
      /\ c = "control" => Spelt(c, ascii) = <<"backslash", "u", "0001">>
      /\ c = "astral" /\ ascii =>
             Spelt(c, ascii) = <<"backslash", "u", "d83d", "backslash", "u", "de00">>
      /\ c \notin {"quote", "backslash", "newline", "control"} /\ ~(c = "astral" /\ ascii) =>
             Spelt(c, ascii) = <<c>>
  BY DEF Spelt, Paired, High, Low
<1>2. \A b, d \in Alphabet : <<d>> \in Texts /\ Len(<<d>>) = 1 /\ <<b, d>> \in Texts /\ Len(<<b, d>>) = 2
  BY DEF Texts
<1>3. \A b, d, e \in Alphabet : <<b, d, e>> \in Texts /\ Len(<<b, d, e>>) = 3
  BY DEF Texts
<1>4. \A a1, a2, a3, a4, a5, a6 \in Alphabet :
         <<a1, a2, a3, a4, a5, a6>> \in Texts /\ Len(<<a1, a2, a3, a4, a5, a6>>) = 6
  BY DEF Texts
<1>5. <<"backslash", c>> \in Texts /\ Len(<<"backslash", c>>) = 2 /\ <<c>> \in Texts /\ Len(<<c>>) = 1
  BY <1>2, CharactersAre
<1>6. <<"backslash", "n">> \in Texts /\ Len(<<"backslash", "n">>) = 2
  BY <1>2, CharactersAre
<1>7. <<"backslash", "u", "0001">> \in Texts /\ Len(<<"backslash", "u", "0001">>) = 3
  BY <1>3, CharactersAre
<1>8. /\ <<"backslash", "u", "d83d", "backslash", "u", "de00">> \in Texts
      /\ Len(<<"backslash", "u", "d83d", "backslash", "u", "de00">>) = 6
  BY <1>4, CharactersAre, Zenon
<1>9. \/ Spelt(c, ascii) = <<"backslash", c>> \/ Spelt(c, ascii) = <<"backslash", "n">>
      \/ Spelt(c, ascii) = <<"backslash", "u", "0001">> \/ Spelt(c, ascii) = <<c>>
      \/ Spelt(c, ascii) = <<"backslash", "u", "d83d", "backslash", "u", "de00">>
  BY <1>1
<1>10. Len(Spelt(c, ascii)) \in {1, 2, 3, 6} /\ Spelt(c, ascii) \in Texts
  BY <1>5, <1>6, <1>7, <1>8, <1>9, Zenon
<1> QED
  BY <1>1, <1>10

LEMMA DumpMore ==
    ASSUME ScalarAssumption, NEW ascii \in BOOLEAN
    PROVE  /\ DumpStr(<<>>, ascii) = <<>>
           /\ \A c \in Alphabet : DumpStr(<<c>>, ascii) = Spelt(c, ascii)
           /\ \A o \in Texts, c \in Alphabet :
                  DumpStr(Append(o, c), ascii) =
                      IF o = <<>> THEN Spelt(c, ascii) ELSE DumpStr(o, ascii) \o Spelt(c, ascii)
<1> DEFINE spelt(o) == [i \in DOMAIN o |-> Spelt(o[i], ascii)]
<1>1. ASSUME NEW o \in Texts
      PROVE  spelt(o) \in Seq(Texts) /\ Len(spelt(o)) = Len(o)
  <2>1. Len(o) \in Nat /\ DOMAIN o = 1 .. Len(o) /\ \A i \in 1 .. Len(o) : o[i] \in Alphabet
    BY LenProperties DEF Texts
  <2>2. spelt(o) \in [1 .. Len(o) -> Texts]
    BY <2>1, SpeltIsText
  <2> QED
    BY <2>1, <2>2
<1>2. spelt(<<>>) = <<>>
  OBVIOUS
<1>3. ASSUME NEW o \in Texts, NEW c \in Alphabet
      PROVE  spelt(Append(o, c)) = Append(spelt(o), Spelt(c, ascii))
  <2> DEFINE more == Append(o, c)
             longer == Append(spelt(o), Spelt(c, ascii))
  <2>1. more \in Texts /\ Len(more) = Len(o) + 1 /\ Len(o) \in Nat
          /\ more[Len(o) + 1] = c /\ \A i \in 1 .. Len(o) : more[i] = o[i]
    <3>1. o \in Seq(Alphabet) /\ c \in Alphabet /\ Len(o) \in Nat
      BY <1>3 DEF Texts
    <3> HIDE DEF more
    <3>2. /\ more \in Seq(Alphabet) /\ Len(more) = Len(o) + 1
          /\ more[Len(o) + 1] = c /\ \A i \in 1 .. Len(o) : more[i] = o[i]
      BY <3>1, AppendProperties DEF more
    <3> QED
      BY <3>1, <3>2 DEF Texts
  <2>2. DOMAIN more = 1 .. Len(o) + 1 /\ DOMAIN o = 1 .. Len(o)
    BY <1>3, <2>1, LenProperties DEF Texts
  <2>3. Spelt(c, ascii) \in Texts
    BY <1>3, SpeltIsText
  <2>4. longer \in Seq(Texts) /\ Len(longer) = Len(o) + 1 /\ longer[Len(o) + 1] = Spelt(c, ascii)
          /\ \A i \in 1 .. Len(o) : longer[i] = spelt(o)[i]
    <3>1. spelt(o) \in Seq(Texts) /\ Len(spelt(o)) = Len(o)
      BY <1>1, <1>3
    <3> HIDE DEF spelt, longer
    <3>2. /\ longer \in Seq(Texts) /\ Len(longer) = Len(spelt(o)) + 1
          /\ longer[Len(spelt(o)) + 1] = Spelt(c, ascii)
          /\ \A i \in 1 .. Len(spelt(o)) : longer[i] = spelt(o)[i]
      BY <2>3, <3>1, AppendProperties DEF longer
    <3> QED
      BY <3>1, <3>2
  <2>5. spelt(more) \in Seq(Texts) /\ Len(spelt(more)) = Len(o) + 1
    BY <1>1, <2>1
  <2>6. \A i \in 1 .. Len(o) + 1 : spelt(more)[i] = longer[i]
    <3> HIDE DEF more, longer
    <3>1. \A i \in 1 .. Len(o) + 1 : spelt(more)[i] = Spelt(more[i], ascii)
      BY <2>2
    <3>2. \A i \in 1 .. Len(o) : spelt(o)[i] = Spelt(o[i], ascii)
      BY <2>2
    <3>3. \A i \in 1 .. Len(o) + 1 : i = Len(o) + 1 \/ i \in 1 .. Len(o)
      BY <2>1
    <3> HIDE DEF spelt
    <3> QED
      BY <2>1, <2>4, <3>1, <3>2, <3>3
  <2> HIDE DEF spelt, more, longer
  <2>7. spelt(more) = longer
    BY <2>4, <2>5, <2>6, SeqEqual
  <2> QED
    BY <2>7 DEF more, longer
<1>4. \A o : DumpStr(o, ascii) = FlattenSeq(spelt(o))
  BY DEF DumpStr
<1>5. ASSUME NEW o \in Texts, NEW c \in Alphabet
      PROVE  DumpStr(Append(o, c), ascii) =
                 IF o = <<>> THEN Spelt(c, ascii) ELSE DumpStr(o, ascii) \o Spelt(c, ascii)
  <2>1. spelt(o) = <<>> <=> o = <<>>
    <3>1. spelt(o) \in Seq(Texts) /\ Len(spelt(o)) = Len(o)
      BY <1>1, <1>5
    <3> HIDE DEF spelt
    <3>2. spelt(o) = <<>> <=> Len(spelt(o)) = 0
      BY <3>1, EmptySeq
    <3>3. o = <<>> <=> Len(o) = 0
      BY <1>5, EmptySeq DEF Texts
    <3> QED
      BY <3>1, <3>2, <3>3
  <2>2. FlattenSeq(Append(spelt(o), Spelt(c, ascii))) =
            IF spelt(o) = <<>> THEN Spelt(c, ascii) ELSE FlattenSeq(spelt(o)) \o Spelt(c, ascii)
    <3>1. spelt(o) \in Seq(Texts) /\ Spelt(c, ascii) \in Texts
      BY <1>1, <1>5, SpeltIsText
    <3> HIDE DEF spelt
    <3> QED
      BY <3>1, FlattenMore
  <2>3. DumpStr(Append(o, c), ascii) = FlattenSeq(Append(spelt(o), Spelt(c, ascii)))
    BY <1>3, <1>4, <1>5
  <2> HIDE DEF spelt
  <2> QED
    BY <1>4, <2>1, <2>2, <2>3
<1>6. DumpStr(<<>>, ascii) = <<>>
  BY <1>2, <1>4, FlattenMore
<1>7. ASSUME NEW c \in Alphabet PROVE DumpStr(<<c>>, ascii) = Spelt(c, ascii)
  <2>1. <<>> \in Texts /\ Append(<<>>, c) = <<c>>
    BY DEF Texts
  <2> QED
    BY <1>5, <1>7, <2>1
<1> QED
  BY <1>5, <1>6, <1>7

-----------------------------------------------------------------------------
\* The spellings of a character, one by one.
Plain(c) == c \notin {"quote", "backslash", "newline", "control"}

IsSpelling(sp, c) ==
    \/ Plain(c) /\ sp = <<c>>
    \/ c \in {"quote", "backslash"} /\ sp = <<"backslash", c>>
    \/ c = "newline" /\ sp = <<"backslash", "n">>
    \/ c = "control" /\ sp = <<"backslash", "u", "0001">>
    \/ c = "z" /\ sp = <<"backslash", "u", "007a">>
    \/ c = "astral" /\ sp = <<"backslash", "u", "d83d", "backslash", "u", "de00">>

LEMMA CodesAre ==
    /\ DOMAIN Code = {"007a", "0001"} /\ Code["007a"] = "z" /\ Code["0001"] = "control"
    /\ DOMAIN Escape = {"quote", "backslash", "n"}
    /\ Escape["quote"] = "quote" /\ Escape["backslash"] = "backslash" /\ Escape["n"] = "newline"
    /\ Quads = {"007a", "0001", "d83d", "de00"}
BY DEF Code, Escape, Quads, High, Low

LEMMA SpellingsAre ==
    ASSUME ScalarAssumption, NEW c \in Alphabet, NEW sp
    PROVE  sp \in Spellings(c) <=> IsSpelling(sp, c)
<1>1. \A ascii \in BOOLEAN : DumpStr(<<c>>, ascii) = Spelt(c, ascii)
  BY DumpMore
<1>2. sp \in Spellings(c) <=>
        \/ \E ascii \in BOOLEAN : sp = Spelt(c, ascii)
        \/ \E q \in DOMAIN Code : Code[q] = c /\ sp = <<"backslash", "u", q>>
  BY <1>1 DEF Spellings
<1>3. (\E q \in DOMAIN Code : Code[q] = c /\ sp = <<"backslash", "u", q>>) <=>
        \/ c = "control" /\ sp = <<"backslash", "u", "0001">>
        \/ c = "z" /\ sp = <<"backslash", "u", "007a">>
  BY CodesAre
<1>4. (\E ascii \in BOOLEAN : sp = Spelt(c, ascii)) <=> sp = Spelt(c, TRUE) \/ sp = Spelt(c, FALSE)
  OBVIOUS
<1>5. /\ c \in {"quote", "backslash"} =>
             Spelt(c, TRUE) = <<"backslash", c>> /\ Spelt(c, FALSE) = <<"backslash", c>>
      /\ c = "newline" =>
             Spelt(c, TRUE) = <<"backslash", "n">> /\ Spelt(c, FALSE) = <<"backslash", "n">>
      /\ c = "control" =>
             /\ Spelt(c, TRUE) = <<"backslash", "u", "0001">>
             /\ Spelt(c, FALSE) = <<"backslash", "u", "0001">>
      /\ c = "astral" => Spelt(c, TRUE) = <<"backslash", "u", "d83d", "backslash", "u", "de00">>
      /\ Plain(c) => Spelt(c, FALSE) = <<c>>
      /\ Plain(c) /\ c # "astral" => Spelt(c, TRUE) = <<c>>
  BY SpeltIsText DEF Plain
<1>6. "astral" \notin {"quote", "backslash", "newline", "control"} /\ Plain("z")
  BY DEF Plain
<1> QED
  BY <1>2, <1>3, <1>4, <1>5, <1>6 DEF IsSpelling, Plain

LEMMA SpellingIsText ==
    ASSUME ScalarAssumption, NEW c \in Alphabet, NEW sp, IsSpelling(sp, c)
    PROVE  sp \in Texts /\ Len(sp) \in Nat \ {0}
<1>1. \A b, d \in Alphabet : <<d>> \in Texts /\ Len(<<d>>) = 1 /\ <<b, d>> \in Texts /\ Len(<<b, d>>) = 2
  BY DEF Texts
<1>2. \A b, d, e \in Alphabet : <<b, d, e>> \in Texts /\ Len(<<b, d, e>>) = 3
  BY DEF Texts
<1>3. \A a1, a2, a3, a4, a5, a6 \in Alphabet :
         <<a1, a2, a3, a4, a5, a6>> \in Texts /\ Len(<<a1, a2, a3, a4, a5, a6>>) = 6
  BY DEF Texts
<1>4. CASE sp = <<c>> \/ sp = <<"backslash", c>> \/ sp = <<"backslash", "n">>
  <2>1. /\ <<c>> \in Texts /\ Len(<<c>>) = 1
        /\ <<"backslash", c>> \in Texts /\ Len(<<"backslash", c>>) = 2
    BY <1>1, CharactersAre
  <2>2. <<"backslash", "n">> \in Texts /\ Len(<<"backslash", "n">>) = 2
    BY <1>1, CharactersAre
  <2>3. sp \in Texts /\ (Len(sp) = 1 \/ Len(sp) = 2)
    BY <1>4, <2>1, <2>2, Zenon
  <2> QED
    BY <2>3
<1>5. CASE sp = <<"backslash", "u", "0001">> \/ sp = <<"backslash", "u", "007a">>
  <2>1. <<"backslash", "u", "0001">> \in Texts /\ Len(<<"backslash", "u", "0001">>) = 3
    BY <1>2, CharactersAre
  <2>2. <<"backslash", "u", "007a">> \in Texts /\ Len(<<"backslash", "u", "007a">>) = 3
    BY <1>2, CharactersAre
  <2>3. sp \in Texts /\ Len(sp) = 3
    BY <1>5, <2>1, <2>2, Zenon
  <2> QED
    BY <2>3
<1>6. CASE sp = <<"backslash", "u", "d83d", "backslash", "u", "de00">>
  <2>1. sp \in Texts /\ Len(sp) = 6
    BY <1>3, <1>6, CharactersAre, Zenon
  <2> QED
    BY <2>1
<1> QED
  BY <1>4, <1>5, <1>6 DEF IsSpelling

\* What is in a text, by what it begins with.
LEMMA PrefixOf ==
    ASSUME NEW s \in Texts, NEW t \in Texts
    PROVE  /\ IsPrefix(s, t) <=> Len(s) <= Len(t) /\ \A k \in 1 .. Len(s) : t[k] = s[k]
           /\ IsPrefix(s, s \o t) /\ SubSeq(s \o t, Len(s) + 1, Len(s \o t)) = t
           /\ s \o t \in Texts /\ Len(s \o t) = Len(s) + Len(t) /\ Len(s) \in Nat /\ Len(t) \in Nat
           /\ \A k \in 1 .. Len(s) : (s \o t)[k] = s[k]
<1>1. Len(s) \in Nat /\ Len(t) \in Nat
  BY DEF Texts
<1>2. ASSUME NEW u \in Texts
      PROVE  IsPrefix(s, u) <=> Len(s) <= Len(u) /\ \A k \in 1 .. Len(s) : u[k] = s[k]
  <2>1. Len(u) \in Nat
    BY <1>2 DEF Texts
  <2>2. SubSeq(s, 1, Len(s)) = s
    BY SubSeqFull DEF Texts
  <2>3. CASE Len(s) <= Len(u)
    <3>1. /\ SubSeq(u, 1, Len(s)) \in Texts /\ Len(SubSeq(u, 1, Len(s))) = Len(s)
          /\ \A k \in 1 .. Len(s) : SubSeq(u, 1, Len(s))[k] = u[k]
      BY <1>1, <1>2, <2>1, <2>3, PartOf
    <3>2. (\A k \in 1 .. Len(s) : SubSeq(u, 1, Len(s))[k] = s[k]) <=> SubSeq(u, 1, Len(s)) = s
      BY <3>1, SeqEqual DEF Texts
    <3> QED
      BY <2>2, <2>3, <3>1, <3>2 DEF IsPrefix
  <2> QED
    BY <2>3 DEF IsPrefix
<1> DEFINE u == s \o t
<1>3. /\ u \in Texts /\ Len(u) = Len(s) + Len(t)
      /\ \A i \in 1 .. Len(s) + Len(t) : u[i] = IF i <= Len(s) THEN s[i] ELSE t[i - Len(s)]
  BY ConcatProperties DEF Texts
<1> HIDE DEF u
<1>4. \A k \in 1 .. Len(s) : u[k] = s[k]
  BY <1>1, <1>3
<1>5. IsPrefix(s, u)
  BY <1>1, <1>2, <1>3, <1>4
<1>6. SubSeq(u, Len(s) + 1, Len(u)) = t
  <2>1. Len(s) + 1 \in 1 .. Len(u) + 1 /\ Len(u) \in (Len(s) + 1) - 1 .. Len(u)
    BY <1>1, <1>3
  <2>2. /\ SubSeq(u, Len(s) + 1, Len(u)) \in Texts
        /\ Len(SubSeq(u, Len(s) + 1, Len(u))) = Len(u) - (Len(s) + 1) + 1
        /\ \A k \in 1 .. Len(u) - (Len(s) + 1) + 1 :
               SubSeq(u, Len(s) + 1, Len(u))[k] = u[(Len(s) + 1) + k - 1]
    BY <1>3, <2>1, PartOf
  <2>3. Len(SubSeq(u, Len(s) + 1, Len(u))) = Len(t)
    BY <1>1, <1>3, <2>2
  <2>4. \A k \in 1 .. Len(t) : SubSeq(u, Len(s) + 1, Len(u))[k] = t[k]
    <3>1. SUFFICES ASSUME NEW k \in 1 .. Len(t)
                   PROVE  SubSeq(u, Len(s) + 1, Len(u))[k] = t[k]
      OBVIOUS
    <3>2. SubSeq(u, Len(s) + 1, Len(u))[k] = u[Len(s) + k]
      BY <1>1, <1>3, <2>2
    <3>3. u[Len(s) + k] = t[(Len(s) + k) - Len(s)]
      BY <1>1, <1>3
    <3>4. (Len(s) + k) - Len(s) = k
      BY <1>1
    <3> QED
      BY <3>2, <3>3, <3>4
  <2> HIDE DEF u
  <2> QED
    BY <2>2, <2>3, <2>4, SeqEqual DEF Texts
<1> QED
  BY <1>1, <1>2, <1>3, <1>4, <1>5, <1>6 DEF u

LEMMA CharactersOf ==
    ASSUME ScalarAssumption, NEW s \in Texts
    PROVE  /\ Characters(s) \subseteq Alphabet
           /\ \A k \in 1 .. Len(s) : s[k] \in Characters(s)
           /\ {"quote", "backslash", "newline", "control", "z", "astral"} \subseteq Characters(s)
<1>1. Range(Code) \subseteq Alphabet /\ Range(Escape) \subseteq Alphabet /\ Paired \in Alphabet
  BY DEF ScalarAssumption
<1>2. Range(s) = {s[k] : k \in 1 .. Len(s)} /\ \A k \in 1 .. Len(s) : s[k] \in Alphabet
  BY LenProperties DEF Texts, Range
<1>3. {"z", "control"} \subseteq Range(Code)
  <2>1. Range(Code) = {Code[q] : q \in DOMAIN Code}
    BY DEF Range
  <2> QED
    BY <2>1, CodesAre
<1>4. {"quote", "backslash", "newline"} \subseteq Range(Escape)
  <2>1. Range(Escape) = {Escape[q] : q \in DOMAIN Escape}
    BY DEF Range
  <2> QED
    BY <2>1, CodesAre
<1>5. Paired = "astral"
  BY DEF Paired
<1> QED
  BY <1>1, <1>2, <1>3, <1>4, <1>5 DEF Characters

-----------------------------------------------------------------------------
\* Contents, by its own equation.
Goes(s) ==
    {p \in Alphabet \X Texts :
        /\ p[1] \in Characters(s)
        /\ \E sp \in Spellings(p[1]) :
               IsPrefix(sp, s) /\ p[2] = SubSeq(s, Len(sp) + 1, Len(s))}

LEMMA RestOf ==
    ASSUME ScalarAssumption, NEW s \in Texts, NEW c \in Alphabet, NEW sp \in Spellings(c),
           IsPrefix(sp, s)
    PROVE  /\ SubSeq(s, Len(sp) + 1, Len(s)) \in Texts
           /\ Len(SubSeq(s, Len(sp) + 1, Len(s))) < Len(s)
<1>1. sp \in Texts /\ Len(sp) \in Nat \ {0} /\ Len(s) \in Nat /\ Len(sp) <= Len(s)
  BY SpellingsAre, SpellingIsText DEF IsPrefix, Texts
<1>2. Len(sp) + 1 \in 1 .. Len(s) + 1 /\ Len(s) \in (Len(sp) + 1) - 1 .. Len(s)
  BY <1>1
<1>3. /\ SubSeq(s, Len(sp) + 1, Len(s)) \in Texts
      /\ Len(SubSeq(s, Len(sp) + 1, Len(s))) = Len(s) - (Len(sp) + 1) + 1
  BY <1>2, PartOf
<1> QED
  BY <1>1, <1>3

LEMMA ContentsAre ==
    ASSUME ScalarAssumption, NEW s \in Texts, NEW o
    PROVE  o \in Contents[s] <=>
               IF s = <<>> THEN o = <<>>
               ELSE \E c \in Characters(s) : \E sp \in Spellings(c) :
                        /\ IsPrefix(sp, s)
                        /\ \E r \in Contents[SubSeq(s, Len(sp) + 1, Len(s))] : o = <<c>> \o r
<1> DEFINE next == [t \in Texts |-> Goes(t)]
           Rest(t, sp) == SubSeq(t, Len(sp) + 1, Len(t))
           Body(f, t) ==
               IF t = <<>> THEN {<<>>}
               ELSE UNION {UNION {{<<c>> \o r : r \in f[Rest(t, sp)]} :
                                     sp \in {sp \in Spellings(c) : IsPrefix(sp, t)}} : c \in Characters(t)}
<1>1. Shrinks(next)
  <2>1. ASSUME NEW t \in Texts, NEW p \in Goes(t) PROVE p[2] \in Texts /\ Len(p[2]) < Len(t)
    BY <2>1, RestOf DEF Goes
  <2> QED
    BY <2>1 DEF Shrinks
<1>2. PICK f : f = [t \in Texts |-> Step(next, f, t)]
  BY <1>1, RecursionOnTexts
<1>3. ASSUME NEW g, NEW t \in Texts PROVE Step(next, g, t) = Body(g, t)
  <2>1. CASE t = <<>>
    BY <2>1 DEF Step
  <2>2. CASE t # <<>>
    <3>1. Step(next, g, t) = UNION {{<<p[1]>> \o r : r \in g[p[2]]} : p \in Goes(t)}
      BY <1>3, <2>2 DEF Step
    <3>2. ASSUME NEW e \in Step(next, g, t) PROVE e \in Body(g, t)
      <4>1. PICK p \in Goes(t) : \E r \in g[p[2]] : e = <<p[1]>> \o r
        BY <3>1, <3>2
      <4>2. PICK sp \in Spellings(p[1]) : IsPrefix(sp, t) /\ p[2] = Rest(t, sp)
        BY <4>1 DEF Goes
      <4>3. p[1] \in Characters(t)
        BY <4>1 DEF Goes
      <4>4. e \in {<<p[1]>> \o r : r \in g[Rest(t, sp)]}
        BY <4>1, <4>2
      <4> HIDE DEF Rest
      <4> QED
        BY <2>2, <4>2, <4>3, <4>4
    <3>3. ASSUME NEW e \in Body(g, t) PROVE e \in Step(next, g, t)
      <4>1. PICK c \in Characters(t) : \E sp \in Spellings(c) :
                IsPrefix(sp, t) /\ e \in {<<c>> \o r : r \in g[Rest(t, sp)]}
        <5> DEFINE E(c, sp) == {<<c>> \o r : r \in g[Rest(t, sp)]}
                   S(c) == {sp \in Spellings(c) : IsPrefix(sp, t)}
                   U(c) == UNION {E(c, sp) : sp \in S(c)}
        <5>1. Body(g, t) = UNION {U(c) : c \in Characters(t)}
          BY <2>2
        <5>2. PICK c \in Characters(t) : e \in U(c)
          <6> HIDE DEF U, Body
          <6> QED
            BY <3>3, <5>1
        <5>3. PICK sp \in S(c) : e \in E(c, sp)
          <6> HIDE DEF E, S
          <6> QED
            BY <5>2 DEF U
        <5> QED
          BY <5>3
      <4>2. PICK sp \in Spellings(c) : IsPrefix(sp, t) /\ e \in {<<c>> \o r : r \in g[Rest(t, sp)]}
        BY <4>1
      <4>3. c \in Alphabet /\ Rest(t, sp) \in Texts
        BY <1>3, <4>1, <4>2, CharactersOf, RestOf
      <4> DEFINE p == <<c, Rest(t, sp)>>
      <4>4. p \in Goes(t)
        BY <4>1, <4>2, <4>3 DEF Goes
      <4>5. p[1] = c /\ p[2] = Rest(t, sp)
        OBVIOUS
      <4>6. e \in {<<p[1]>> \o r : r \in g[p[2]]}
        BY <4>2, <4>5
      <4> HIDE DEF p
      <4> QED
        BY <3>1, <4>4, <4>6
    <3> HIDE DEF Body
    <3> QED
      BY <3>2, <3>3
  <2> QED
    BY <2>1, <2>2
<1> HIDE DEF next
<1>4. f = [t \in Texts |-> Body(f, t)]
  <2> HIDE DEF Body
  <2>1. \A t \in Texts : Step(next, f, t) = Body(f, t)
    BY <1>3
  <2> QED
    BY <1>2, <2>1
<1>5. Contents = [t \in Texts |-> Body(Contents, t)]
  <2> DEFINE contents == CHOOSE g : g = [t \in Texts |-> Body(g, t)]
  <2>1. contents = [t \in Texts |-> Body(contents, t)]
    <3> HIDE DEF Body
    <3> QED
      BY <1>4
  <2>2. Contents = contents
    BY DEF Contents, Texts
  <2> HIDE DEF contents, Body
  <2> QED
    BY <2>1, <2>2
<1>6. Contents[s] = Body(Contents, s)
  <2> HIDE DEF Body
  <2> QED
    BY <1>5
<1>7. CASE s = <<>>
  BY <1>6, <1>7
<1>8. CASE s # <<>>
  <2> HIDE DEF Rest
  <2>1. o \in Contents[s] <=> \E c \in Characters(s) : \E sp \in Spellings(c) :
            IsPrefix(sp, s) /\ o \in {<<c>> \o r : r \in Contents[Rest(s, sp)]}
    <3> DEFINE E(c, sp) == {<<c>> \o r : r \in Contents[Rest(s, sp)]}
               S(c) == {sp \in Spellings(c) : IsPrefix(sp, s)}
               U(c) == UNION {E(c, sp) : sp \in S(c)}
    <3>1. Contents[s] = UNION {U(c) : c \in Characters(s)}
      BY <1>6, <1>8
    <3>2. o \in Contents[s] <=> \E c \in Characters(s) : o \in U(c)
      <4> HIDE DEF U
      <4> QED
        BY <3>1
    <3>3. \A c : o \in U(c) <=> \E sp \in S(c) : o \in E(c, sp)
      <4> HIDE DEF E, S
      <4> QED
        BY DEF U
    <3>4. \A c : \A sp : sp \in S(c) <=> sp \in Spellings(c) /\ IsPrefix(sp, s)
      OBVIOUS
    <3> HIDE DEF S, U
    <3> QED
      BY <3>2, <3>3, <3>4
  <2> QED
    BY <1>8, <2>1 DEF Rest
<1> QED
  BY <1>7, <1>8

\* A text begins with the spelling sp of c: read off its first characters.
Begins(s, c, sp) ==
    \/ /\ Len(s) >= 1 /\ Plain(s[1])
       /\ c = s[1] /\ sp = <<c>>
    \/ /\ Len(s) >= 2 /\ s[1] = "backslash" /\ s[2] \in {"quote", "backslash"}
       /\ c = s[2] /\ sp = <<"backslash", c>>
    \/ /\ Len(s) >= 2 /\ s[1] = "backslash" /\ s[2] = "n"
       /\ c = "newline" /\ sp = <<"backslash", "n">>
    \/ /\ Len(s) >= 3 /\ s[1] = "backslash" /\ s[2] = "u" /\ s[3] = "0001"
       /\ c = "control" /\ sp = <<"backslash", "u", "0001">>
    \/ /\ Len(s) >= 3 /\ s[1] = "backslash" /\ s[2] = "u" /\ s[3] = "007a"
       /\ c = "z" /\ sp = <<"backslash", "u", "007a">>
    \/ /\ Len(s) >= 6 /\ s[1] = "backslash" /\ s[2] = "u" /\ s[3] = "d83d"
       /\ s[4] = "backslash" /\ s[5] = "u" /\ s[6] = "de00"
       /\ c = "astral" /\ sp = <<"backslash", "u", "d83d", "backslash", "u", "de00">>

LEMMA BeginsOrNot ==
    ASSUME ScalarAssumption, NEW s \in Texts, NEW c \in Alphabet, NEW sp
    PROVE  IsSpelling(sp, c) /\ IsPrefix(sp, s) <=> Begins(s, c, sp)
<1>1. Len(s) \in Nat
  BY DEF Texts
<1>2. \A a1 : Len(<<a1>>) = 1 /\ <<a1>>[1] = a1
  OBVIOUS
<1>3. \A a1, a2 : Len(<<a1, a2>>) = 2 /\ <<a1, a2>>[1] = a1 /\ <<a1, a2>>[2] = a2
  OBVIOUS
<1>4. \A a1, a2, a3 : /\ Len(<<a1, a2, a3>>) = 3 /\ <<a1, a2, a3>>[1] = a1
                      /\ <<a1, a2, a3>>[2] = a2 /\ <<a1, a2, a3>>[3] = a3
  OBVIOUS
<1>5. \A a1, a2, a3, a4, a5, a6 :
          LET a == <<a1, a2, a3, a4, a5, a6>> IN
          Len(a) = 6 /\ a[1] = a1 /\ a[2] = a2 /\ a[3] = a3 /\ a[4] = a4 /\ a[5] = a5 /\ a[6] = a6
  OBVIOUS
<1>6. ASSUME IsSpelling(sp, c)
      PROVE  IsPrefix(sp, s) <=> Len(sp) <= Len(s) /\ \A k \in 1 .. Len(sp) : s[k] = sp[k]
  BY <1>6, SpellingIsText, PrefixOf
<1>7. CASE Plain(c) /\ sp = <<c>>
  <2>1. IsSpelling(sp, c)
    BY <1>7 DEF IsSpelling
  <2>2. IsPrefix(sp, s) <=> 1 <= Len(s) /\ s[1] = c
    BY <1>1, <1>2, <1>6, <1>7, <2>1
  <2> QED
    BY <1>1, <1>2, <1>7, <2>1, <2>2 DEF Begins, Plain
<1>8. CASE c \in {"quote", "backslash"} /\ sp = <<"backslash", c>>
  <2>1. IsSpelling(sp, c)
    BY <1>8 DEF IsSpelling
  <2>2. IsPrefix(sp, s) <=> 2 <= Len(s) /\ s[1] = "backslash" /\ s[2] = c
    BY <1>1, <1>3, <1>6, <1>8, <2>1
  <2> QED
    BY <1>1, <1>2, <1>3, <1>8, <2>1, <2>2 DEF Begins, Plain
<1>9. CASE c = "newline" /\ sp = <<"backslash", "n">>
  <2>1. IsSpelling(sp, c)
    BY <1>9 DEF IsSpelling
  <2>2. IsPrefix(sp, s) <=> 2 <= Len(s) /\ s[1] = "backslash" /\ s[2] = "n"
    BY <1>1, <1>3, <1>6, <1>9, <2>1
  <2> QED
    BY <1>1, <1>2, <1>3, <1>9, <2>1, <2>2 DEF Begins, Plain
<1>10. CASE c = "control" /\ sp = <<"backslash", "u", "0001">>
  <2>1. IsSpelling(sp, c)
    BY <1>10 DEF IsSpelling
  <2>2. IsPrefix(sp, s) <=> 3 <= Len(s) /\ s[1] = "backslash" /\ s[2] = "u" /\ s[3] = "0001"
    BY <1>1, <1>4, <1>6, <1>10, <2>1
  <2> QED
    BY <1>1, <1>2, <1>10, <2>1, <2>2 DEF Begins, Plain
<1>11. CASE c = "z" /\ sp = <<"backslash", "u", "007a">>
  <2>1. IsSpelling(sp, c)
    BY <1>11 DEF IsSpelling
  <2>2. IsPrefix(sp, s) <=> 3 <= Len(s) /\ s[1] = "backslash" /\ s[2] = "u" /\ s[3] = "007a"
    BY <1>1, <1>4, <1>6, <1>11, <2>1
  <2>3. sp # <<c>>
    BY <1>2, <1>4, <1>11
  <2> QED
    BY <1>1, <1>11, <2>1, <2>2, <2>3 DEF Begins
<1>12. CASE c = "astral" /\ sp = <<"backslash", "u", "d83d", "backslash", "u", "de00">>
  <2>1. IsSpelling(sp, c)
    BY <1>12 DEF IsSpelling
  <2>2. Len(sp) = 6 /\ sp[1] = "backslash" /\ sp[2] = "u" /\ sp[3] = "d83d"
          /\ sp[4] = "backslash" /\ sp[5] = "u" /\ sp[6] = "de00"
    BY <1>5, <1>12
  <2>3. IsPrefix(sp, s) <=> 6 <= Len(s) /\ s[1] = "backslash" /\ s[2] = "u" /\ s[3] = "d83d"
                              /\ s[4] = "backslash" /\ s[5] = "u" /\ s[6] = "de00"
    <3>1. 1 .. 6 = {1, 2, 3, 4, 5, 6}
      OBVIOUS
    <3> QED
      BY <1>1, <1>6, <2>1, <2>2, <3>1
  <2>4. sp # <<c>>
    BY <1>2, <2>2
  <2> QED
    BY <1>1, <1>12, <2>1, <2>3, <2>4 DEF Begins
<1>13. CASE ~IsSpelling(sp, c)
  BY <1>13 DEF IsSpelling, Begins
<1> QED
  BY <1>7, <1>8, <1>9, <1>10, <1>11, <1>12, <1>13 DEF IsSpelling

\* No text begins with the spellings of two characters, or with two of one.
LEMMA PrefixFree ==
    ASSUME NEW s \in Texts, NEW c \in Alphabet, NEW sp, Begins(s, c, sp),
           NEW d \in Alphabet, NEW sq, Begins(s, d, sq)
    PROVE  c = d /\ sp = sq
<1>1. CASE Plain(s[1])
  BY <1>1 DEF Begins, Plain
<1>2. CASE ~Plain(s[1]) /\ s[2] # "u"
  BY <1>2 DEF Begins, Plain
<1>3. CASE ~Plain(s[1]) /\ s[2] = "u"
  BY <1>3 DEF Begins, Plain
<1> QED
  BY <1>1, <1>2, <1>3

\* What is said by a text that says o first, and goes on as s.
Behind(o, s) == {o \o r : r \in Contents[s]}

LEMMA ContentsBegin ==
    ASSUME ScalarAssumption, NEW s \in Texts, NEW c \in Alphabet, NEW sp, Begins(s, c, sp)
    PROVE  Contents[s] = Behind(<<c>>, SubSeq(s, Len(sp) + 1, Len(s)))
<1>1. IsSpelling(sp, c) /\ IsPrefix(sp, s) /\ sp \in Spellings(c)
  BY BeginsOrNot, SpellingsAre
<1>2. s # <<>> /\ c \in Characters(s)
  <2>1. Len(s) \in Nat /\ Len(s) >= 1
    BY DEF Begins, Texts
  <2>2. Len(<<>>) = 0
    OBVIOUS
  <2>3. c = s[1] \/ c \in {"quote", "backslash", "newline", "control", "z", "astral"}
    BY DEF Begins
  <2> QED
    BY <2>1, <2>2, <2>3, CharactersOf
<1>3. \A o : o \in Contents[s] <=> \E d \in Characters(s) : \E sq \in Spellings(d) :
                 /\ IsPrefix(sq, s)
                 /\ \E r \in Contents[SubSeq(s, Len(sq) + 1, Len(s))] : o = <<d>> \o r
  BY <1>2, ContentsAre
<1>4. ASSUME NEW d \in Characters(s), NEW sq \in Spellings(d), IsPrefix(sq, s)
      PROVE  d = c /\ sq = sp
  <2>1. d \in Alphabet
    BY CharactersOf
  <2>2. Begins(s, d, sq)
    BY <1>4, <2>1, BeginsOrNot, SpellingsAre
  <2> QED
    BY <2>1, <2>2, PrefixFree
<1>5. \A o : o \in Contents[s] <=>
                 \E r \in Contents[SubSeq(s, Len(sp) + 1, Len(s))] : o = <<c>> \o r
  <2> DEFINE GoesOn(o, d, sq) ==
                 \E r \in Contents[SubSeq(s, Len(sq) + 1, Len(s))] : o = <<d>> \o r
  <2>1. ASSUME NEW o \in Contents[s] PROVE GoesOn(o, c, sp)
    <3>1. PICK d \in Characters(s) : \E sq \in Spellings(d) : IsPrefix(sq, s) /\ GoesOn(o, d, sq)
      BY <1>3, <2>1
    <3>2. PICK sq \in Spellings(d) : IsPrefix(sq, s) /\ GoesOn(o, d, sq)
      BY <3>1
    <3>3. d = c /\ sq = sp
      BY <1>4, <3>2
    <3> HIDE DEF GoesOn
    <3> QED
      BY <3>2, <3>3
  <2>2. ASSUME NEW o, GoesOn(o, c, sp) PROVE o \in Contents[s]
    <3>1. \E d \in Characters(s) : \E sq \in Spellings(d) : IsPrefix(sq, s) /\ GoesOn(o, d, sq)
      <4> HIDE DEF GoesOn
      <4> QED
        BY <1>1, <1>2, <2>2
    <3> QED
      BY <1>3, <3>1
  <2> QED
    BY <2>1, <2>2
<1> DEFINE all == Contents[s]
           rest == Contents[SubSeq(s, Len(sp) + 1, Len(s))]
<1>6. \A o : o \in all <=> \E r \in rest : o = <<c>> \o r
  BY <1>5
<1> HIDE DEF all, rest
<1>7. \A o : o \in {<<c>> \o r : r \in rest} <=> \E r \in rest : o = <<c>> \o r
  OBVIOUS
<1> DEFINE gone == {<<c>> \o r : r \in rest}
<1>8. \A o : o \in all <=> o \in gone
  BY <1>6, <1>7
<1>9. all = gone
  <2> HIDE DEF gone
  <2> QED
    BY <1>8
<1> QED
  BY <1>9 DEF all, rest, Behind

LEMMA ContentsStuck ==
    ASSUME ScalarAssumption, NEW s \in Texts, s # <<>>, \A c \in Alphabet : \A sp : ~Begins(s,
           c, sp)
    PROVE  Contents[s] = {}
<1>1. ASSUME NEW o \in Contents[s] PROVE FALSE
  <2>1. PICK d \in Characters(s) : \E sq \in Spellings(d) : IsPrefix(sq, s)
    BY ContentsAre
  <2>2. d \in Alphabet
    BY CharactersOf
  <2> QED
    BY <2>1, <2>2, SpellingsAre, BeginsOrNot
<1> QED
  BY <1>1

-----------------------------------------------------------------------------
\* What a text contains, and what is left of it behind its first i - 1 characters.
LEMMA PartFrom ==
    ASSUME NEW t \in Texts, NEW i \in 1 .. Len(t) + 1, NEW j \in i - 1 .. Len(t),
           NEW n \in 0 .. j - i + 1
    PROVE  SubSeq(SubSeq(t, i, j), n + 1, Len(SubSeq(t, i, j))) = SubSeq(t, i + n, j)
<1>1. Len(t) \in Nat
  BY DEF Texts
<1> DEFINE u == SubSeq(t, i, j)
           v == SubSeq(u, n + 1, Len(u))
           w == SubSeq(t, i + n, j)
<1>2. u \in Texts /\ Len(u) = j - i + 1 /\ \A k \in 1 .. j - i + 1 : u[k] = t[i + k - 1]
  BY PartOf
<1> HIDE DEF u
<1>3. /\ v \in Texts /\ Len(v) = Len(u) - (n + 1) + 1
      /\ \A k \in 1 .. Len(u) - (n + 1) + 1 : v[k] = u[(n + 1) + k - 1]
  <2>1. n + 1 \in 1 .. Len(u) + 1 /\ Len(u) \in (n + 1) - 1 .. Len(u)
    BY <1>1, <1>2
  <2> QED
    BY <1>2, <2>1, PartOf
<1>4. /\ w \in Texts /\ Len(w) = j - (i + n) + 1
      /\ \A k \in 1 .. j - (i + n) + 1 : w[k] = t[(i + n) + k - 1]
  <2>1. i + n \in 1 .. Len(t) + 1 /\ j \in (i + n) - 1 .. Len(t)
    BY <1>1
  <2> QED
    BY <2>1, PartOf
<1> HIDE DEF v, w
<1>5. Len(v) = Len(w)
  BY <1>1, <1>2, <1>3, <1>4
<1>6. ASSUME NEW k \in 1 .. Len(v) PROVE v[k] = w[k]
  <2>1. k \in 1 .. j - (i + n) + 1 /\ n + k \in 1 .. j - i + 1 /\ (n + 1) + k - 1 = n + k
          /\ i + (n + k) - 1 = (i + n) + k - 1 /\ k \in 1 .. Len(u) - (n + 1) + 1
    BY <1>1, <1>2, <1>3, <1>6
  <2> QED
    BY <1>2, <1>3, <1>4, <2>1
<1>7. v = w
  BY <1>3, <1>4, <1>5, <1>6, SeqEqual DEF Texts
<1> QED
  BY <1>7 DEF u, v, w

LEMMA ContentsAreTexts ==
    ASSUME ScalarAssumption, NEW s \in Texts
    PROVE  Contents[s] \subseteq Texts
<1> DEFINE T == {Len(t) : t \in {t \in Texts : ~(Contents[t] \subseteq Texts)}}
<1>1. SUFFICES ASSUME T # {} PROVE FALSE
  BY <1>1
<1>2. \A t \in Texts : Len(t) \in Nat
  BY DEF Texts
<1>3. PICK k \in T : \A j \in T : k <= j
  <2>1. T \in SUBSET Nat
    BY <1>2
  <2> HIDE DEF T
  <2> QED
    BY <1>1, <2>1, LeastOf
<1>4. PICK t \in Texts : Len(t) = k /\ ~(Contents[t] \subseteq Texts)
  BY <1>3
<1>5. PICK o \in Contents[t] : o \notin Texts
  BY <1>4
<1>6. CASE t = <<>>
  BY <1>4, <1>5, <1>6, ContentsAre DEF Texts
<1>7. CASE t # <<>>
  <2>1. PICK c \in Characters(t) : \E sp \in Spellings(c) :
            /\ IsPrefix(sp, t)
            /\ \E r \in Contents[SubSeq(t, Len(sp) + 1, Len(t))] : o = <<c>> \o r
    BY <1>5, <1>7, ContentsAre
  <2>2. PICK sp \in Spellings(c) :
            /\ IsPrefix(sp, t)
            /\ \E r \in Contents[SubSeq(t, Len(sp) + 1, Len(t))] : o = <<c>> \o r
    BY <2>1
  <2> DEFINE rest == SubSeq(t, Len(sp) + 1, Len(t))
  <2>3. c \in Alphabet /\ rest \in Texts /\ Len(rest) < Len(t)
    BY <1>4, <2>1, <2>2, CharactersOf, RestOf
  <2>4. PICK r \in Contents[rest] : o = <<c>> \o r
    BY <2>2
  <2> HIDE DEF rest
  <2>5. Contents[rest] \subseteq Texts
    <3>1. Len(rest) \notin T
      BY <1>2, <1>3, <1>4, <2>3
    <3> QED
      BY <2>3, <3>1
  <2>6. r \in Texts /\ <<c>> \in Texts
    BY <2>3, <2>4, <2>5 DEF Texts
  <2>7. <<c>> \o r \in Texts
    BY <2>6, PrefixOf
  <2> QED
    BY <1>5, <2>4, <2>7
<1> QED
  BY <1>6, <1>7

\* The first i - 1 characters of t say o, however the text goes on.
ReadTo(t, i, o) ==
    \A j \in i - 1 .. Len(t) : Contents[SubSeq(t, 1, j)] = Behind(o, SubSeq(t, i, j))

LEMMA BehindMore ==
    ASSUME ScalarAssumption, NEW o \in Texts, NEW c \in Alphabet, NEW s \in Texts, NEW u \in Texts,
           Contents[u] = Behind(<<c>>, s)
    PROVE  Behind(o, u) = Behind(Append(o, c), s)
<1>1. \A r \in Contents[s] : r \in Texts
  BY ContentsAreTexts
<1>2. <<c>> \in Texts
  BY DEF Texts
<1>3. \A r \in Texts : o \o (<<c>> \o r) = (o \o <<c>>) \o r
  BY <1>2, ConcatAssociative DEF Texts
<1>4. o \o <<c>> = Append(o, c)
  BY AppendIsConcat DEF Texts
<1> DEFINE rests == Contents[s]
<1>5. Behind(o, u) = {o \o q : q \in {<<c>> \o r : r \in rests}}
  <2>1. Contents[u] = {<<c>> \o r : r \in rests}
    BY DEF Behind
  <2> QED
    BY <2>1 DEF Behind
<1>6. Behind(Append(o, c), s) = {Append(o, c) \o r : r \in rests}
  BY DEF Behind
<1>7. \A r \in rests : o \o (<<c>> \o r) = Append(o, c) \o r
  BY <1>1, <1>3, <1>4
<1> DEFINE before == Behind(o, u)
           after == Behind(Append(o, c), s)
<1>8. \A x : x \in before <=> \E r \in rests : x = o \o (<<c>> \o r)
  <2> HIDE DEF rests
  <2> QED
    BY <1>5
<1>9. \A x : x \in after <=> \E r \in rests : x = Append(o, c) \o r
  <2> HIDE DEF rests
  <2> QED
    BY <1>6
<1> HIDE DEF rests, before, after
<1>10. before = after
  BY <1>7, <1>8, <1>9
<1> QED
  BY <1>10 DEF before, after

LEMMA ReadStart ==
    ASSUME ScalarAssumption, NEW t \in Texts
    PROVE  ReadTo(t, 1, <<>>)
<1>1. Len(t) \in Nat
  BY DEF Texts
<1>2. ASSUME NEW j \in 0 .. Len(t)
      PROVE  Contents[SubSeq(t, 1, j)] = Behind(<<>>, SubSeq(t, 1, j))
  <2>1. SubSeq(t, 1, j) \in Texts
    BY <1>1, <1>2, PartOf
  <2>2. \A r \in Contents[SubSeq(t, 1, j)] : <<>> \o r = r
    BY <2>1, ContentsAreTexts, ConcatEmptySeq DEF Texts
  <2> DEFINE all == Contents[SubSeq(t, 1, j)]
  <2>3. Behind(<<>>, SubSeq(t, 1, j)) = {<<>> \o r : r \in all}
    BY DEF Behind
  <2> HIDE DEF all
  <2>4. all = {<<>> \o r : r \in all}
    BY <2>2 DEF all
  <2> QED
    BY <2>3, <2>4 DEF all
<1> QED
  BY <1>2 DEF ReadTo

LEMMA ReadOn ==
    ASSUME ScalarAssumption, NEW t \in Texts, NEW i \in 1 .. Len(t) + 1, NEW o \in Texts,
           ReadTo(t, i, o),
           NEW c \in Alphabet, NEW sp, Begins(SubSeq(t, i, Len(t)), c, sp)
    PROVE  i + Len(sp) \in 1 .. Len(t) + 1 /\ ReadTo(t, i + Len(sp), Append(o, c))
<1>1. Len(t) \in Nat
  BY DEF Texts
<1> DEFINE n == Len(sp)
           s(j) == SubSeq(t, i, j)
<1>2. \A j \in i - 1 .. Len(t) :
          /\ s(j) \in Texts /\ Len(s(j)) = j - i + 1
          /\ \A k \in 1 .. j - i + 1 : s(j)[k] = t[i + k - 1]
  BY <1>1, PartOf
<1>3. Len(t) \in i - 1 .. Len(t)
  BY <1>1
<1>4. IsSpelling(sp, c) /\ IsPrefix(sp, s(Len(t)))
  BY <1>2, <1>3, BeginsOrNot
<1>5. sp \in Texts /\ n \in Nat \ {0}
  BY <1>4, SpellingIsText
<1> HIDE DEF n, s
<1>6. n <= Len(t) - i + 1 /\ \A k \in 1 .. n : s(Len(t))[k] = sp[k]
  BY <1>2, <1>3, <1>4, <1>5, PrefixOf DEF n
<1>7. ASSUME NEW j \in (i + n) - 1 .. Len(t)
      PROVE  Contents[SubSeq(t, 1, j)] = Behind(Append(o, c), SubSeq(t, i + n, j))
  <2>1. j \in i - 1 .. Len(t) /\ n \in 0 .. j - i + 1 /\ n <= j - i + 1
    BY <1>1, <1>5, <1>6, <1>7
  <2>2. \A k \in 1 .. n : k \in 1 .. j - i + 1 /\ k \in 1 .. Len(t) - i + 1
    BY <1>1, <1>5, <2>1
  <2>3. \A k \in 1 .. n : s(j)[k] = sp[k]
    BY <1>2, <1>3, <1>6, <2>1, <2>2
  <2>4. IsPrefix(sp, s(j))
    BY <1>2, <1>5, <2>1, <2>3, PrefixOf DEF n
  <2>5. Begins(s(j), c, sp)
    BY <1>2, <1>4, <2>1, <2>4, BeginsOrNot
  <2>6. Contents[s(j)] = Behind(<<c>>, SubSeq(s(j), n + 1, Len(s(j))))
    BY <1>2, <2>1, <2>5, ContentsBegin DEF n
  <2>7. SubSeq(s(j), n + 1, Len(s(j))) = SubSeq(t, i + n, j)
    BY <2>1, PartFrom DEF s
  <2>8. SubSeq(t, i + n, j) \in Texts
    <3>1. i + n \in 1 .. Len(t) + 1 /\ j \in (i + n) - 1 .. Len(t)
      BY <1>1, <1>5, <1>6, <1>7
    <3> QED
      BY <3>1, PartOf
  <2>9. Behind(o, s(j)) = Behind(Append(o, c), SubSeq(t, i + n, j))
    <3>1. s(j) \in Texts
      BY <1>2, <2>1
    <3>2. Contents[s(j)] = Behind(<<c>>, SubSeq(t, i + n, j))
      BY <2>6, <2>7
    <3> QED
      BY <2>8, <3>1, <3>2, BehindMore
  <2> QED
    BY <2>1, <2>9 DEF ReadTo, s
<1>8. i + n \in 1 .. Len(t) + 1
  BY <1>1, <1>5, <1>6
<1> QED
  BY <1>7, <1>8 DEF ReadTo, n

LEMMA ReadRun ==
    ASSUME ScalarAssumption, NEW t \in Texts, NEW i \in 1 .. Len(t) + 1,
           NEW stop \in i .. Len(t) + 1,
           NEW o \in Texts, ReadTo(t, i, o), \A k \in i .. stop - 1 : Plain(t[k])
    PROVE  ReadTo(t, stop, o \o SubSeq(t, i, stop - 1)) /\ o \o SubSeq(t, i, stop - 1) \in Texts
<1>1. Len(t) \in Nat
  BY DEF Texts
<1> DEFINE soFar(k) == o \o SubSeq(t, i, k - 1)
           T == {k \in i .. stop : ~ReadTo(t, k, soFar(k))}
<1>2. ASSUME NEW k \in i .. Len(t) + 1 PROVE soFar(k) \in Texts
  <2>1. SubSeq(t, i, k - 1) \in Texts
    <3>1. k - 1 \in i - 1 .. Len(t)
      BY <1>1
    <3> QED
      BY <3>1, PartOf
  <2> QED
    BY <2>1, PrefixOf
<1>3. ASSUME T # {} PROVE FALSE
  <2>1. PICK k \in T : \A j \in T : k <= j
    <3>1. T \in SUBSET Nat
      BY <1>1
    <3> HIDE DEF T
    <3> QED
      BY <1>3, <3>1, LeastOf
  <2>2. k \in i .. stop /\ ~ReadTo(t, k, soFar(k))
    BY <2>1
  <2>3. CASE k = i
    <3>1. SubSeq(t, i, i - 1) = <<>>
      BY <1>1, SubSeqEmpty
    <3>2. soFar(i) = o
      BY <3>1, ConcatEmptySeq DEF Texts
    <3> QED
      BY <2>2, <2>3, <3>2
  <2>4. CASE k # i
    <3>1. k - 1 \in i .. stop /\ k - 1 \notin T /\ k - 1 \in 1 .. Len(t) /\ k - 1 \in i .. stop - 1
      BY <1>1, <2>1, <2>2, <2>4
    <3> DEFINE h == k - 1
               c == t[h]
               s == SubSeq(t, h, Len(t))
    <3>2. h \in 1 .. Len(t) /\ h \in i .. stop - 1 /\ h \in i .. Len(t) + 1
      BY <1>1, <3>1
    <3>3. ReadTo(t, h, soFar(h)) /\ soFar(h) \in Texts
      BY <1>2, <3>1, <3>2
    <3>4. Plain(c) /\ c \in Alphabet
      BY <3>2 DEF Texts
    <3>5. s \in Texts /\ Len(s) = Len(t) - h + 1 /\ \A m \in 1 .. Len(t) - h + 1 : s[m] = t[h + m - 1]
      <4>1. h \in 1 .. Len(t) + 1 /\ Len(t) \in h - 1 .. Len(t)
        BY <1>1, <3>2
      <4> HIDE DEF h
      <4> QED
        BY <4>1, PartOf
    <3> HIDE DEF s
    <3>6. Len(s) >= 1 /\ s[1] = c
      <4>1. 1 \in 1 .. Len(t) - h + 1 /\ h + 1 - 1 = h
        BY <1>1, <3>2
      <4> HIDE DEF h
      <4> QED
        BY <1>1, <3>2, <3>5, <4>1
    <3>7. Begins(s, c, <<c>>)
      BY <3>4, <3>6 DEF Begins
    <3>8. Len(<<c>>) = 1
      OBVIOUS
    <3>9. ReadTo(t, h + 1, Append(soFar(h), c))
      <4>1. h \in 1 .. Len(t) + 1
        BY <1>1, <3>2
      <4> HIDE DEF h, soFar, c
      <4>2. h + Len(<<c>>) = h + 1
        BY <3>8, <4>1
      <4> QED
        BY <3>3, <3>4, <3>7, <4>1, <4>2, ReadOn DEF s
    <3>10. Append(soFar(h), c) = soFar(k)
      <4>1. i \in 1 .. Len(t) /\ h \in i .. Len(t)
        BY <1>1, <3>2
      <4>2. SubSeq(t, i, h) = SubSeq(t, i, h - 1) \o <<c>>
        BY <4>1, SubSeqRecursiveSecond DEF Texts
      <4>3. SubSeq(t, i, h - 1) \in Texts /\ <<c>> \in Texts
        <5>1. i \in 1 .. Len(t) + 1 /\ h - 1 \in i - 1 .. Len(t)
          BY <1>1, <3>2
        <5> HIDE DEF h, c
        <5>2. SubSeq(t, i, h - 1) \in Texts
          BY <5>1, PartOf
        <5> QED
          BY <3>4, <5>2 DEF Texts
      <4>4. o \o (SubSeq(t, i, h - 1) \o <<c>>) = (o \o SubSeq(t, i, h - 1)) \o <<c>>
        <5> DEFINE a == SubSeq(t, i, h - 1)
                   b == <<c>>
        <5>1. a \in Seq(Alphabet) /\ b \in Seq(Alphabet) /\ o \in Seq(Alphabet)
          BY <4>3 DEF Texts
        <5> HIDE DEF a, b
        <5>2. o \o (a \o b) = (o \o a) \o b
          BY <5>1, ConcatAssociative
        <5> QED
          BY <5>2 DEF a, b
      <4>5. Append(soFar(h), c) = soFar(h) \o <<c>>
        <5> HIDE DEF h, c, soFar
        <5> QED
          BY <3>3, <3>4, AppendIsConcat DEF Texts
      <4> QED
        BY <4>2, <4>4, <4>5
    <3>11. h + 1 = k
      BY <2>2, <1>1
    <3> HIDE DEF soFar, h, c
    <3> QED
      BY <2>2, <3>9, <3>10, <3>11
  <2> QED
    BY <2>3, <2>4
<1>4. stop \in i .. stop /\ stop \in i .. Len(t) + 1
  BY <1>1
<1>5. ReadTo(t, stop, soFar(stop))
  BY <1>3, <1>4
<1>6. soFar(stop) \in Texts
  BY <1>2, <1>4
<1> QED
  BY <1>5, <1>6

-----------------------------------------------------------------------------
\* What is dumped says what was dumped.
LEMMA DumpSays ==
    ASSUME ScalarAssumption, NEW ascii \in BOOLEAN, NEW o \in Texts
    PROVE  /\ DumpStr(o, ascii) \in Texts
           /\ \A u \in Texts : Contents[DumpStr(o, ascii) \o u] = Behind(o, u)
<1> DEFINE Says(p) == /\ DumpStr(p, ascii) \in Texts
                      /\ \A u \in Texts : Contents[DumpStr(p, ascii) \o u] = Behind(p, u)
           T == {Len(p) : p \in {p \in Texts : ~Says(p)}}
<1>1. SUFFICES ASSUME T # {} PROVE FALSE
  BY <1>1
<1> HIDE DEF Says
<1>2. \A p \in Texts : Len(p) \in Nat
  BY DEF Texts
<1>3. PICK n \in T : \A m \in T : n <= m
  <2>1. T \in SUBSET Nat
    BY <1>2
  <2> HIDE DEF T
  <2> QED
    BY <1>1, <2>1, LeastOf
<1>4. PICK p \in Texts : Len(p) = n /\ ~Says(p)
  BY <1>3
<1>5. CASE p = <<>>
  <2>1. DumpStr(p, ascii) = <<>> /\ <<>> \in Texts
    BY <1>5, DumpMore DEF Texts
  <2>2. ASSUME NEW u \in Texts PROVE Contents[<<>> \o u] = Behind(<<>>, u)
    <3>1. <<>> \o u = u
      BY ConcatEmptySeq DEF Texts
    <3>2. \A r \in Contents[u] : <<>> \o r = r
      BY ContentsAreTexts, ConcatEmptySeq DEF Texts
    <3> DEFINE all == Contents[u]
    <3>3. Behind(<<>>, u) = {<<>> \o r : r \in all}
      BY DEF Behind
    <3>4. \A r \in all : <<>> \o r = r
      BY <3>2
    <3> HIDE DEF all
    <3>5. all = {<<>> \o r : r \in all}
      BY <3>4
    <3> QED
      BY <3>1, <3>3, <3>5 DEF all
  <2> QED
    BY <1>4, <1>5, <2>1, <2>2 DEF Says
<1>6. CASE p # <<>>
  <2> DEFINE q == SubSeq(p, 1, n - 1)
             c == p[n]
             sp == Spelt(c, ascii)
             d == DumpStr(q, ascii)
  <2>1. n \in Nat \ {0}
    BY <1>4, <1>6, EmptySeq DEF Texts
  <2>2. q \in Texts /\ Len(q) = n - 1 /\ c \in Alphabet
    <3>1. 1 \in 1 .. Len(p) + 1 /\ n - 1 \in 1 - 1 .. Len(p) /\ n \in 1 .. Len(p)
      BY <1>4, <2>1
    <3>2. SubSeq(p, 1, n - 1) \in Texts /\ Len(SubSeq(p, 1, n - 1)) = (n - 1) - 1 + 1
      BY <3>1, PartOf
    <3>3. c \in Alphabet
      BY <3>1 DEF Texts
    <3> QED
      BY <2>1, <3>2, <3>3
  <2>3. p = Append(q, c)
    <3>1. 1 \in 1 .. Len(p) /\ n \in 1 .. Len(p)
      BY <1>4, <2>1
    <3>2. SubSeq(p, 1, n) = q \o <<c>>
      BY <3>1, SubSeqRecursiveSecond DEF Texts
    <3>3. SubSeq(p, 1, n) = p
      BY <1>4, SubSeqFull DEF Texts
    <3> HIDE DEF q, c
    <3>4. Append(q, c) = q \o <<c>>
      BY <2>2, AppendIsConcat DEF Texts
    <3> QED
      BY <3>2, <3>3, <3>4
  <2> HIDE DEF q, c
  <2>4. Says(q)
    <3>1. n - 1 \notin T
      <4> HIDE DEF T
      <4> QED
        BY <1>3, <2>1
    <3> QED
      BY <2>1, <2>2, <3>1
  <2>5. sp \in Texts /\ IsSpelling(sp, c)
    <3>1. DumpStr(<<c>>, ascii) = sp
      BY <2>2, DumpMore
    <3>2. sp \in Spellings(c)
      BY <3>1 DEF Spellings
    <3> QED
      BY <2>2, <3>2, SpellingsAre, SpeltIsText
  <2>6. DumpStr(p, ascii) = d \o sp /\ d \in Texts
    <3>1. DumpStr(Append(q, c), ascii) = IF q = <<>> THEN sp ELSE d \o sp
      BY <2>2, DumpMore
    <3>2. d \in Texts
      BY <2>4 DEF Says
    <3>3. CASE q = <<>>
      <4>1. d = <<>>
        BY <3>3, DumpMore
      <4>2. <<>> \o sp = sp
        BY <2>5, ConcatEmptySeq DEF Texts
      <4> QED
        BY <2>3, <3>1, <3>2, <3>3, <4>1, <4>2
    <3> QED
      BY <2>3, <3>1, <3>2, <3>3
  <2> HIDE DEF sp
  <2>7. ASSUME NEW u \in Texts PROVE Contents[(d \o sp) \o u] = Behind(p, u)
    <3>1. (d \o sp) \o u = d \o (sp \o u)
      <4>1. d \in Texts /\ sp \in Texts /\ u \in Texts
        BY <2>5, <2>6
      <4> HIDE DEF d
      <4> QED
        BY <4>1, ConcatAssociative DEF Texts
    <3>2. sp \o u \in Texts /\ IsPrefix(sp, sp \o u) /\ SubSeq(sp \o u, Len(sp) + 1, Len(sp \o u)) = u
      BY <2>5, PrefixOf
    <3>3. Contents[d \o (sp \o u)] = Behind(q, sp \o u)
      BY <2>4, <3>2 DEF Says
    <3>4. Begins(sp \o u, c, sp)
      BY <2>2, <2>5, <3>2, BeginsOrNot
    <3> DEFINE w == sp \o u
    <3>5. Contents[w] = Behind(<<c>>, SubSeq(w, Len(sp) + 1, Len(w)))
      BY <2>2, <3>2, <3>4, ContentsBegin
    <3>6. w \in Texts /\ Contents[w] = Behind(<<c>>, u)
      BY <3>2, <3>5
    <3> HIDE DEF w
    <3>7. q \in Texts /\ c \in Alphabet /\ u \in Texts
      BY <2>2, <2>7
    <3>8. Behind(q, w) = Behind(Append(q, c), u)
      BY <3>6, <3>7, BehindMore
    <3> QED
      BY <2>3, <3>1, <3>3, <3>8 DEF w
  <2>8. d \o sp \in Texts
    BY <2>5, <2>6, PrefixOf
  <2> QED
    BY <1>4, <2>6, <2>7, <2>8 DEF Says
<1> QED
  BY <1>5, <1>6

LEMMA BehindIsAll ==
    ASSUME ScalarAssumption, NEW o \in Texts
    PROVE  Behind(o, <<>>) = {o}
<1>1. <<>> \in Texts /\ o \o <<>> = o
  BY ConcatEmptySeq DEF Texts
<1>2. \A r : r \in Contents[<<>>] <=> r = <<>>
  BY <1>1, ContentsAre
<1>3. Contents[<<>>] = {<<>>}
  BY <1>2
<1> QED
  BY <1>1, <1>3 DEF Behind

LEMMA DumpReads ==
    ASSUME ScalarAssumption, NEW ascii \in BOOLEAN, NEW o \in Texts
    PROVE  Contents[DumpStr(o, ascii)] = {o}
<1>1. DumpStr(o, ascii) \in Texts /\ <<>> \in Texts
  BY DumpSays DEF Texts
<1>2. DumpStr(o, ascii) \o <<>> = DumpStr(o, ascii)
  BY <1>1, ConcatEmptySeq DEF Texts
<1>3. Contents[DumpStr(o, ascii) \o <<>>] = Behind(o, <<>>)
  BY <1>1, DumpSays
<1> QED
  BY <1>2, <1>3, BehindIsAll

-----------------------------------------------------------------------------
\* scanstring.
LEMMA StopOf ==
    ASSUME text \in Texts, NEW i \in 1 .. Len(text) + 1
    PROVE  /\ Stop(i) \in i .. Len(text) + 1
           /\ \A k \in i .. Stop(i) - 1 : text[k] \notin Stops
           /\ Char(Stop(i)) \in Stops
<1> DEFINE T == {j \in i .. Len(text) + 1 : Char(j) \in Stops}
<1>1. Len(text) \in Nat
  BY DEF Texts
<1>2. Len(text) + 1 \in T
  BY <1>1 DEF Char, Stops
<1>3. PICK m \in T : \A n \in T : m <= n
  <2>1. T \in SUBSET Nat /\ T # {}
    BY <1>1, <1>2
  <2> HIDE DEF T
  <2> QED
    BY <2>1, LeastOf
<1>4. Stop(i) \in T /\ \A n \in T : Stop(i) <= n
  BY <1>3 DEF Stop, Min
<1> DEFINE e == Stop(i)
<1>5. e \in i .. Len(text) + 1 /\ Char(e) \in Stops
  BY <1>4
<1>6. ASSUME NEW k \in i .. e - 1 PROVE text[k] \notin Stops
  <2>1. k \in i .. Len(text) + 1 /\ k <= Len(text) /\ ~(e <= k)
    BY <1>1, <1>5
  <2>2. Char(k) \notin Stops
    BY <1>4, <2>1
  <2> QED
    BY <2>1, <2>2 DEF Char
<1> QED
  BY <1>5, <1>6

LEMMA CharOf ==
    ASSUME ScalarAssumption, text \in Texts, NEW k \in Nat \ {0}
    PROVE  /\ k <= Len(text) => Char(k) = text[k] /\ Char(k) \in Alphabet /\ Char(k) # "end"
           /\ k > Len(text) => Char(k) = "end"
           /\ Char(k) # "end" => k <= Len(text) /\ Char(k) = text[k]
<1>1. Len(text) \in Nat /\ \A j \in 1 .. Len(text) : text[j] \in Alphabet
  BY DEF Texts
<1> QED
  BY <1>1, CharactersAre DEF Char

\* No closing quote so far.
Unclosed(t, i) == \A k \in 1 .. i - 1 : t[k] = "quote" => Contents[SubSeq(t, 1, k - 1)] = {}

\* s holds what t holds from i to j.
Holds(s, t, i, j) ==
    /\ s \in Texts /\ s # <<>> /\ Len(s) = j - i + 1 /\ s[1] = t[i]
    /\ i + 1 <= j => s[2] = t[i + 1]
    /\ i + 2 <= j => s[3] = t[i + 2]
    /\ i + 3 <= j => s[4] = t[i + 3]
    /\ i + 4 <= j => s[5] = t[i + 4]
    /\ i + 5 <= j => s[6] = t[i + 5]

LEMMA PartAt ==
    ASSUME NEW t \in Texts, NEW i \in 1 .. Len(t), NEW j \in i .. Len(t)
    PROVE  Holds(SubSeq(t, i, j), t, i, j)
<1>1. Len(t) \in Nat
  BY DEF Texts
<1> DEFINE s == SubSeq(t, i, j)
<1>2. i \in 1 .. Len(t) + 1 /\ j \in i - 1 .. Len(t)
  BY <1>1
<1>3. s \in Texts /\ Len(s) = j - i + 1 /\ \A k \in 1 .. j - i + 1 : s[k] = t[i + k - 1]
  BY <1>2, PartOf
<1> HIDE DEF s
<1>4. s # <<>>
  BY <1>1, <1>3, EmptySeq DEF Texts
<1>5. \A k \in 1 .. 6 : i + k - 1 <= j => k \in 1 .. j - i + 1
  BY <1>1
<1>6. /\ i + 1 - 1 = i /\ i + 2 - 1 = i + 1 /\ i + 3 - 1 = i + 2 /\ i + 4 - 1 = i + 3
      /\ i + 5 - 1 = i + 4 /\ i + 6 - 1 = i + 5
  BY <1>1
<1>7. Holds(s, t, i, j)
  BY <1>1, <1>3, <1>4, <1>5, <1>6 DEF Holds
<1> QED
  BY <1>7 DEF s

\* From i on the text spells no character that ends before its k-th.
LEMMA NothingBefore ==
    ASSUME ScalarAssumption, NEW t \in Texts, NEW i \in 1 .. Len(t), NEW o \in Texts, ReadTo(t,
           i, o),
           NEW k \in i + 1 .. Len(t),
           \A c \in Alphabet : \A sp : ~Begins(SubSeq(t, i, k - 1), c, sp)
    PROVE  Contents[SubSeq(t, 1, k - 1)] = {}
<1>1. Len(t) \in Nat
  BY DEF Texts
<1> DEFINE s == SubSeq(t, i, k - 1)
<1>2. k - 1 \in i .. Len(t) /\ k - 1 \in i - 1 .. Len(t)
  BY <1>1
<1>3. s \in Texts /\ s # <<>>
  BY <1>2, PartAt DEF Holds
<1>4. Contents[s] = {}
  <2> HIDE DEF s
  <2>1. \A c \in Alphabet : \A sp : ~Begins(s, c, sp)
    BY DEF s
  <2> QED
    BY <1>3, <2>1, ContentsStuck
<1>5. Contents[SubSeq(t, 1, k - 1)] = Behind(o, s)
  BY <1>2 DEF ReadTo
<1> QED
  BY <1>4, <1>5 DEF Behind

LEMMA UnclosedIsNone ==
    ASSUME text \in Texts, Unclosed(text, Len(text) + 1)
    PROVE  LET Quotes == {i \in DOMAIN text : text[i] = "quote"} IN
           UNION {Contents[SubSeq(text, 1, i - 1)] : i \in Quotes} = {}
<1>1. Len(text) \in Nat /\ DOMAIN text = 1 .. Len(text)
  BY LenProperties DEF Texts
<1>2. \A i \in DOMAIN text : text[i] = "quote" => Contents[SubSeq(text, 1, i - 1)] = {}
  BY <1>1 DEF Unclosed
<1> QED
  BY <1>2

StringInv ==
    kind = "string" =>
        /\ text \in Texts /\ out \in Texts /\ scalarAt \in {"scan", "done", "refused"}
        /\ scalarAt = "scan" =>
             idx \in 1 .. Len(text) + 1 /\ ReadTo(text, idx, out) /\ Unclosed(text, idx)
        /\ StringsReadBack

LEMMA StringInit ==
    ASSUME ScalarAssumption
    PROVE  ScalarInit => StringInv
<1> SUFFICES ASSUME ScalarInit, kind = "string" PROVE StringInv
  BY DEF StringInv
<1>1. text \in StringTexts /\ scalarAt = "scan" /\ out = <<>> /\ idx = 1
  BY DEF ScalarInit
<1>2. text \in Texts /\ <<>> \in Texts
  BY <1>1 DEF ScalarAssumption, Texts
<1>3. 1 \in 1 .. Len(text) + 1 /\ 1 .. 1 - 1 = {}
  BY <1>2 DEF Texts
<1>4. ReadTo(text, 1, <<>>)
  BY <1>2, ReadStart
<1> QED
  BY <1>1, <1>2, <1>3, <1>4 DEF StringInv, StringsReadBack, Unclosed

\* The scanner at the stop behind a run.
AtStop(i, o) ==
    i \in 1 .. Len(text) + 1 /\ o \in Texts /\ ReadTo(text, i, o) /\ Unclosed(text, i)

LEMMA RunReads ==
    ASSUME ScalarAssumption, text \in Texts, idx \in 1 .. Len(text) + 1, out \in Texts,
           ReadTo(text, idx, out), Unclosed(text, idx)
    PROVE  /\ AtStop(Stop(idx), out \o SubSeq(text, idx, Stop(idx) - 1))
           /\ Char(Stop(idx)) \in Stops
<1>1. PICK i : i = idx
  OBVIOUS
<1>2. PICK stop : stop = Stop(i)
  OBVIOUS
<1>3. Len(text) \in Nat /\ i \in 1 .. Len(text) + 1
  BY <1>1 DEF Texts
<1>4. /\ stop \in i .. Len(text) + 1 /\ Char(stop) \in Stops
      /\ \A k \in i .. stop - 1 : text[k] \notin Stops
  BY <1>2, <1>3, StopOf
<1>5. \A k \in i .. stop - 1 : Plain(text[k]) /\ text[k] # "quote"
  BY <1>4 DEF Plain, Stops
<1>6. ReadTo(text, stop, out \o SubSeq(text, i, stop - 1)) /\ out \o SubSeq(text, i, stop - 1) \in Texts
  BY <1>1, <1>3, <1>4, <1>5, ReadRun
<1>7. Unclosed(text, stop)
  <2>1. \A k \in 1 .. stop - 1 : k \in 1 .. i - 1 \/ k \in i .. stop - 1
    BY <1>3, <1>4
  <2> QED
    BY <1>1, <1>5, <2>1 DEF Unclosed
<1>8. stop \in 1 .. Len(text) + 1
  BY <1>3, <1>4
<1> QED
  BY <1>1, <1>2, <1>4, <1>6, <1>7, <1>8 DEF AtStop

\* An escape that spells c, with no quote in it that could be the closing one.
LEMMA EscapeReads ==
    ASSUME ScalarAssumption, text \in Texts, NEW i, NEW o, AtStop(i, o), i <= Len(text),
           NEW c \in Alphabet, NEW sp, Begins(SubSeq(text, i, Len(text)), c, sp),
           \A k \in i .. i + Len(sp) - 1 : text[k] = "quote" => Contents[SubSeq(text, 1, k - 1)] = {}
    PROVE  AtStop(i + Len(sp), Append(o, c))
<1>1. Len(text) \in Nat /\ i \in 1 .. Len(text) + 1 /\ i \in 1 .. Len(text) /\ Len(text) \in i .. Len(text)
  BY DEF AtStop, Texts
<1>2. i + Len(sp) \in 1 .. Len(text) + 1 /\ ReadTo(text, i + Len(sp), Append(o, c))
  BY <1>1, ReadOn DEF AtStop
<1>3. Len(sp) \in Nat
  <2>1. SubSeq(text, i, Len(text)) \in Texts
    BY <1>1, PartAt DEF Holds
  <2> QED
    BY <2>1, BeginsOrNot, SpellingIsText
<1>4. Append(o, c) \in Texts
  BY AppendProperties DEF AtStop, Texts
<1>5. Unclosed(text, i + Len(sp))
  <2>1. \A k \in 1 .. i + Len(sp) - 1 : k \in 1 .. i - 1 \/ k \in i .. i + Len(sp) - 1
    BY <1>1, <1>3
  <2> QED
    BY <2>1 DEF Unclosed, AtStop
<1> QED
  BY <1>2, <1>4, <1>5 DEF AtStop

\* Nothing behind i that is a closing quote.
LEMMA StopRefuses ==
    ASSUME text \in Texts, NEW i, NEW o, AtStop(i, o),
           \A k \in i .. Len(text) : text[k] = "quote" => Contents[SubSeq(text, 1, k - 1)] = {}
    PROVE  Unclosed(text, Len(text) + 1)
<1>1. Len(text) \in Nat /\ i \in 1 .. Len(text) + 1
  BY DEF AtStop, Texts
<1>2. \A k \in 1 .. (Len(text) + 1) - 1 : k \in 1 .. i - 1 \/ k \in i .. Len(text)
  BY <1>1
<1> QED
  BY <1>2 DEF AtStop, Unclosed

PairAt(i) ==
    /\ Char(i + 2) = "d83d" /\ Char(i + 6) # "end"
    /\ Char(i + 3) = "backslash" /\ Char(i + 4) = "u" /\ Char(i + 5) = "de00"

\* Why a scan stops at i for good.
Blocked(i) ==
    \/ Char(i) \in {"control", "newline", "end"}
    \/ Char(i) = "backslash" /\ Char(i + 1) \notin {"quote", "backslash", "n", "u"}
    \/ /\ Char(i) = "backslash" /\ Char(i + 1) = "u"
       /\ Char(i + 2) \notin {"0001", "007a", "d83d", "de00"}
    \/ /\ Char(i) = "backslash" /\ Char(i + 1) = "u"
       /\ Char(i + 2) \in {"0001", "007a", "d83d", "de00"} /\ Char(i + 3) = "end"
    \/ /\ Char(i) = "backslash" /\ Char(i + 1) = "u"
       /\ Char(i + 2) \in {"d83d", "de00"} /\ ~PairAt(i)

\* The escapes it takes at i, each with how far it goes and what it is for.
Escaped(i, j, c) ==
    \/ Char(i + 1) \in {"quote", "backslash", "n"} /\ j = i + 2 /\ c = Escape[Char(i + 1)]
    \/ Char(i + 1) = "u" /\ PairAt(i) /\ j = i + 6 /\ c = "astral"
    \/ /\ Char(i + 1) = "u" /\ Char(i + 2) \in {"0001", "007a"} /\ Char(i + 3) # "end"
       /\ j = i + 3 /\ c = Code[Char(i + 2)]

LEMMA ScanCases ==
    ASSUME text \in Texts, idx \in 1 .. Len(text) + 1, ScanString,
           NEW i, i = Stop(idx), NEW o, o = out \o SubSeq(text, idx, i - 1), Char(i) \in Stops
    PROVE  \/ Char(i) = "quote" /\ scalarAt' = "done" /\ idx' = i + 1 /\ out' = o
           \/ Blocked(i) /\ scalarAt' = "refused" /\ out' = out
           \/ /\ scalarAt' = scalarAt /\ Char(i) = "backslash"
              /\ \E j, c : Escaped(i, j, c) /\ idx' = j /\ out' = Append(o, c)
<1>1. i \in Nat /\ i + 2 + 1 = i + 3 /\ i + 2 + 2 = i + 4 /\ i + 2 + 3 = i + 5 /\ i + 2 + 4 = i + 6
  <2>1. Len(text) \in Nat
    BY DEF Texts
  <2> QED
    BY <2>1, StopOf
<1>2. Stop(idx) = i /\ out \o SubSeq(text, idx, Stop(idx) - 1) = o
  OBVIOUS
<1>3. CASE Char(i) = "quote"
  BY <1>2, <1>3 DEF ScanString, Done
<1>4. CASE Char(i) \in {"control", "newline", "end"}
  BY <1>2, <1>4 DEF ScanString, Refuse, Blocked
<1>5. CASE Char(i) = "backslash"
  <2> DEFINE a == Char(i + 1)
             q == Char(i + 2)
             pair == /\ q = High /\ Char(i + 2 + 4) # "end"
                     /\ Char(i + 2 + 1) = "backslash" /\ Char(i + 2 + 2) = "u"
                     /\ Char(i + 2 + 3) = Low
             On(j, c) == idx' = j /\ out' = Append(o, c) /\ UNCHANGED scalarAt
  <2>1. IF a # "u"
        THEN IF a \in DOMAIN Escape THEN On(i + 2, Escape[a]) ELSE Refuse
        ELSE IF q \notin Quads \/ Char(i + 2 + 1) = "end" THEN Refuse
        ELSE IF pair THEN On(i + 2 + 4, Paired)
        ELSE IF q \in DOMAIN Code THEN On(i + 2 + 1, Code[q])
        ELSE Refuse
    BY <1>2, <1>5 DEF ScanString
  <2>2. pair <=> PairAt(i)
    BY <1>1 DEF PairAt, High, Low
  <2>3. Refuse => scalarAt' = "refused" /\ out' = out
    BY DEF Refuse
  <2> HIDE DEF a, q, pair
  <2>4. CASE a # "u" /\ a \in {"quote", "backslash", "n"}
    BY <1>5, <2>1, <2>4, CodesAre DEF a, Escaped
  <2>5. CASE a # "u" /\ a \notin {"quote", "backslash", "n"}
    BY <1>5, <2>1, <2>3, <2>5, CodesAre DEF a, Blocked
  <2>6. CASE a = "u" /\ q \notin {"0001", "007a", "d83d", "de00"}
    BY <1>5, <2>1, <2>3, <2>6, CodesAre DEF a, q, Blocked
  <2>7. CASE a = "u" /\ q \in {"0001", "007a", "d83d", "de00"} /\ Char(i + 3) = "end"
    BY <1>1, <1>5, <2>1, <2>3, <2>7, CodesAre DEF a, q, Blocked
  <2>8. CASE a = "u" /\ q \in {"0001", "007a", "d83d", "de00"} /\ Char(i + 3) # "end" /\ pair
    BY <1>1, <1>5, <2>1, <2>2, <2>8, CodesAre DEF a, Paired, Escaped
  <2>9. CASE a = "u" /\ q \in {"0001", "007a"} /\ Char(i + 3) # "end" /\ ~pair
    BY <1>1, <1>5, <2>1, <2>9, CodesAre DEF a, q, Escaped
  <2>10. CASE a = "u" /\ q \in {"d83d", "de00"} /\ Char(i + 3) # "end" /\ ~pair
    BY <1>1, <1>5, <2>1, <2>2, <2>3, <2>10, CodesAre DEF a, q, Blocked
  <2> QED
    BY <2>4, <2>5, <2>6, <2>7, <2>8, <2>9, <2>10
<1> QED
  BY <1>3, <1>4, <1>5 DEF Stops

\* An escape, by its characters.
LEMMA BeginsEscape ==
    ASSUME NEW s \in Texts, NEW c, NEW sp, Begins(s, c, sp), ~Plain(s[1])
    PROVE  /\ s[1] = "backslash" /\ Len(s) >= 2
           /\ \/ s[2] \in {"quote", "backslash", "n"}
              \/ /\ s[2] = "u" /\ Len(s) >= 3
                 /\ \/ s[3] \in {"0001", "007a"}
                    \/ /\ s[3] = "d83d" /\ Len(s) >= 6
                       /\ s[4] = "backslash" /\ s[5] = "u" /\ s[6] = "de00"
<1>1. Len(s) \in Nat
  BY DEF Texts
<1>2. /\ Len(s) >= 3 => Len(s) >= 2
      /\ Len(s) >= 6 => Len(s) >= 2
      /\ Len(s) >= 6 => Len(s) >= 3
  BY <1>1
<1> QED
  BY <1>2, Zenon DEF Begins

\* Where a scan that cannot go on has stopped, no quote behind closes a string.
LEMMA RefusedRightly ==
    ASSUME ScalarAssumption, text \in Texts, NEW i, NEW o, AtStop(i, o), Blocked(i)
    PROVE  Unclosed(text, Len(text) + 1)
<1>1. Len(text) \in Nat /\ i \in Nat \ {0} /\ i <= Len(text) + 1
  BY DEF AtStop, Texts
<1>2. SUFFICES ASSUME NEW k \in i .. Len(text), text[k] = "quote"
               PROVE  Contents[SubSeq(text, 1, k - 1)] = {}
  BY StopRefuses
<1>3. i \in 1 .. Len(text) /\ k - 1 <= Len(text) /\ k \in Nat
  BY <1>1
<1>4. \A j \in Nat \ {0} : j <= k => Char(j) = text[j] /\ Char(j) # "end"
  BY <1>1, <1>3, CharOf
<1>5. k # i
  <2>1. Char(k) = "quote"
    BY <1>1, <1>2, <1>3, <1>4
  <2>2. Char(i) # "quote"
    BY DEF Blocked
  <2> QED
    BY <2>1, <2>2
<1>6. k \in i + 1 .. Len(text) /\ k - 1 \in i .. Len(text)
  BY <1>1, <1>3, <1>5
<1>7. PICK s : s = SubSeq(text, i, k - 1)
  OBVIOUS
<1>8. Holds(s, text, i, k - 1)
  BY <1>3, <1>6, <1>7, PartAt
<1>9. ASSUME NEW c \in Alphabet, NEW sp, Begins(s, c, sp) PROVE FALSE
  <2>1. Char(i) = s[1] /\ s \in Texts
    BY <1>1, <1>3, <1>4, <1>8 DEF Holds
  <2>2. CASE Char(i) \in {"control", "newline", "end"}
    <3>1. ~Plain(s[1]) /\ s[1] # "backslash"
      <4>1. Char(i) # "end"
        BY <1>1, <1>3, <1>4
      <4> QED
        BY <2>1, <2>2, <4>1 DEF Plain
    <3> QED
      BY <1>9, <2>1, <3>1, BeginsEscape
  <2>3. CASE Char(i) = "backslash"
    <3>1. ~Plain(s[1])
      BY <2>1, <2>3 DEF Plain
    <3>2. /\ Len(s) >= 2
          /\ \/ s[2] \in {"quote", "backslash", "n"}
             \/ /\ s[2] = "u" /\ Len(s) >= 3
                /\ \/ s[3] \in {"0001", "007a"}
                   \/ /\ s[3] = "d83d" /\ Len(s) >= 6
                      /\ s[4] = "backslash" /\ s[5] = "u" /\ s[6] = "de00"
      BY <1>9, <2>1, <3>1, BeginsEscape
    <3>3. Len(s) >= 2 => s[2] = Char(i + 1)
      BY <1>1, <1>3, <1>4, <1>8 DEF Holds
    <3>4. Len(s) >= 3 => s[3] = Char(i + 2) /\ i + 3 <= k
      BY <1>1, <1>3, <1>4, <1>8 DEF Holds
    <3>5. Len(s) >= 6 => /\ s[4] = Char(i + 3) /\ s[5] = Char(i + 4) /\ s[6] = Char(i + 5)
                         /\ Char(i + 6) # "end"
      BY <1>1, <1>3, <1>4, <1>8 DEF Holds
    <3>6. CASE Char(i + 1) \notin {"quote", "backslash", "n", "u"}
      BY <3>2, <3>3, <3>6
    <3>7. CASE Char(i + 1) = "u" /\ Char(i + 2) \notin {"0001", "007a", "d83d", "de00"}
      BY <3>2, <3>3, <3>4, <3>7
    <3>8. CASE Char(i + 1) = "u" /\ Char(i + 3) = "end"
      <4>1. i + 3 <= k
        BY <3>2, <3>3, <3>4, <3>8
      <4> QED
        BY <1>1, <1>4, <3>8, <4>1
    <3>9. CASE Char(i + 1) = "u" /\ Char(i + 2) \in {"d83d", "de00"} /\ ~PairAt(i)
      BY <3>2, <3>3, <3>4, <3>5, <3>9 DEF PairAt
    <3> QED
      BY <2>3, <3>6, <3>7, <3>8, <3>9 DEF Blocked
  <2> QED
    BY <2>2, <2>3 DEF Blocked
<1>10. o \in Texts /\ ReadTo(text, i, o)
  BY DEF AtStop
<1> QED
  BY <1>3, <1>6, <1>7, <1>9, <1>10, NothingBefore

\* The escape the scanner takes is the one the text spells.
LEMMA TakenRightly ==
    ASSUME ScalarAssumption, text \in Texts, NEW i, NEW o, AtStop(i, o), Char(i) = "backslash"
    PROVE  \A j, c : Escaped(i, j, c) => AtStop(j, Append(o, c))
<1>1. Len(text) \in Nat /\ i \in Nat \ {0} /\ i <= Len(text) + 1
  BY DEF AtStop, Texts
<1>2. \A j \in Nat \ {0} : Char(j) # "end" => j <= Len(text) /\ Char(j) = text[j]
  BY CharOf
<1>3. i <= Len(text) /\ text[i] = "backslash"
  BY <1>1, <1>2
<1>4. PICK s : s = SubSeq(text, i, Len(text))
  OBVIOUS
<1>5. Holds(s, text, i, Len(text))
  <2>1. i \in 1 .. Len(text) /\ Len(text) \in i .. Len(text)
    BY <1>1, <1>3
  <2> QED
    BY <1>4, <2>1, PartAt
<1>6. s[1] = "backslash" /\ Len(s) \in Nat
  BY <1>1, <1>3, <1>5 DEF Holds
<1>7. ASSUME NEW c \in Alphabet, NEW sp, Begins(s, c, sp),
             \A k \in i .. i + Len(sp) - 1 : text[k] = "quote" => Contents[SubSeq(text, 1, k - 1)] = {}
      PROVE  AtStop(i + Len(sp), Append(o, c))
  BY <1>3, <1>4, <1>7, EscapeReads
<1>8. ASSUME Char(i + 1) \in {"quote", "backslash", "n"}
      PROVE  AtStop(i + 2, Append(o, Escape[Char(i + 1)]))
  <2>1. PICK a : a = Char(i + 1)
    OBVIOUS
  <2> DEFINE c == Escape[a]
             sp == <<"backslash", a>>
  <2>2. i + 1 <= Len(text) /\ text[i + 1] = a /\ a \in {"quote", "backslash", "n"}
    BY <1>1, <1>2, <1>8, <2>1
  <2>3. Len(s) >= 2 /\ s[2] = a
    BY <1>1, <1>5, <2>2 DEF Holds
  <2>4. c \in Alphabet /\ (a = "n" => c = "newline") /\ (a # "n" => c = a)
    BY <2>2, CharactersAre, CodesAre
  <2> HIDE DEF c
  <2>5. Begins(s, c, sp)
    BY <1>6, <2>2, <2>3, <2>4 DEF Begins
  <2>6. Len(sp) = 2
    OBVIOUS
  <2>7. ASSUME NEW k \in i .. i + Len(sp) - 1, text[k] = "quote"
        PROVE  Contents[SubSeq(text, 1, k - 1)] = {}
    <3>1. k \in i .. i + 1 /\ k # i
      BY <1>1, <1>3, <2>6, <2>7
    <3>2. k = i + 1
      BY <1>1, <3>1
    <3>3. Holds(SubSeq(text, i, i), text, i, i)
      <4>1. i \in 1 .. Len(text) /\ i \in i .. Len(text)
        BY <1>1, <1>3
      <4> QED
        BY <4>1, PartAt
    <3>4. PICK u : u = SubSeq(text, i, i)
      OBVIOUS
    <3>5. u \in Texts /\ Len(u) = 1 /\ u[1] = "backslash"
      BY <1>1, <1>3, <3>3, <3>4 DEF Holds
    <3>6. ASSUME NEW d \in Alphabet, NEW sq, Begins(u, d, sq) PROVE FALSE
      <4>1. ~Plain(u[1])
        BY <3>5 DEF Plain
      <4> QED
        BY <3>5, <3>6, <4>1, BeginsEscape
    <3>7. k - 1 = i /\ k \in i + 1 .. Len(text) /\ i \in 1 .. Len(text)
      BY <1>1, <1>3, <2>2, <3>2
    <3>8. \A d \in Alphabet : \A sq : ~Begins(SubSeq(text, i, k - 1), d, sq)
      BY <3>4, <3>6, <3>7
    <3>9. o \in Texts /\ ReadTo(text, i, o)
      BY DEF AtStop
    <3> QED
      BY <3>7, <3>8, <3>9, NothingBefore
  <2> HIDE DEF sp
  <2>8. AtStop(i + Len(sp), Append(o, c))
    BY <1>7, <2>4, <2>5, <2>7
  <2> QED
    BY <2>1, <2>6, <2>8 DEF c
<1>9. ASSUME Char(i + 1) = "u", PairAt(i)
      PROVE  AtStop(i + 6, Append(o, "astral"))
  <2> DEFINE sp == <<"backslash", "u", "d83d", "backslash", "u", "de00">>
  <2>1. /\ text[i + 1] = "u" /\ text[i + 2] = "d83d" /\ text[i + 3] = "backslash"
        /\ text[i + 4] = "u" /\ text[i + 5] = "de00" /\ i + 5 <= Len(text)
    BY <1>1, <1>2, <1>9 DEF PairAt
  <2>2. /\ Len(s) >= 6 /\ s[2] = "u" /\ s[3] = "d83d" /\ s[4] = "backslash"
        /\ s[5] = "u" /\ s[6] = "de00"
    BY <1>1, <1>5, <2>1 DEF Holds
  <2>3. Begins(s, "astral", sp)
    BY <1>6, <2>2 DEF Begins
  <2>4. Len(sp) = 6
    OBVIOUS
  <2> HIDE DEF sp
  <2>5. \A k \in i .. i + Len(sp) - 1 : text[k] # "quote"
    <3>1. \A k \in i .. i + 5 : k = i \/ k = i + 1 \/ k = i + 2 \/ k = i + 3 \/ k = i + 4 \/ k = i + 5
      BY <1>1
    <3>2. i + Len(sp) - 1 = i + 5
      BY <1>1, <2>4
    <3> QED
      BY <1>3, <2>1, <3>1, <3>2
  <2>6. AtStop(i + Len(sp), Append(o, "astral"))
    BY <1>7, <2>3, <2>5, CharactersAre
  <2> QED
    BY <2>4, <2>6
<1>10. ASSUME Char(i + 1) = "u", Char(i + 2) \in {"0001", "007a"}
       PROVE  AtStop(i + 3, Append(o, Code[Char(i + 2)]))
  <2>1. PICK q : q = Char(i + 2)
    OBVIOUS
  <2> DEFINE c == Code[q]
             sp == <<"backslash", "u", q>>
  <2>2. text[i + 1] = "u" /\ text[i + 2] = q /\ i + 2 <= Len(text) /\ q \in {"0001", "007a"}
    BY <1>1, <1>2, <1>10, <2>1
  <2>3. Len(s) >= 3 /\ s[2] = "u" /\ s[3] = q
    BY <1>1, <1>5, <2>2 DEF Holds
  <2>4. c \in Alphabet /\ (q = "0001" => c = "control") /\ (q = "007a" => c = "z")
    BY <2>2, CharactersAre, CodesAre
  <2> HIDE DEF c
  <2>5. Begins(s, c, sp)
    BY <1>6, <2>2, <2>3, <2>4 DEF Begins
  <2>6. Len(sp) = 3
    OBVIOUS
  <2> HIDE DEF sp
  <2>7. \A k \in i .. i + Len(sp) - 1 : text[k] # "quote"
    <3>1. \A k \in i .. i + 2 : k = i \/ k = i + 1 \/ k = i + 2
      BY <1>1
    <3>2. i + Len(sp) - 1 = i + 2
      BY <1>1, <2>6
    <3> QED
      BY <1>3, <2>2, <3>1, <3>2
  <2>8. AtStop(i + Len(sp), Append(o, c))
    BY <1>7, <2>4, <2>5, <2>7
  <2> QED
    BY <2>1, <2>6, <2>8 DEF c
<1> QED
  BY <1>8, <1>9, <1>10 DEF Escaped

\* The run up to the closing quote is all the text before it says.
LEMMA ClosedRightly ==
    ASSUME ScalarAssumption, text \in Texts, NEW i, NEW o, AtStop(i, o)
    PROVE  Contents[SubSeq(text, 1, i - 1)] = {o}
<1>1. Len(text) \in Nat /\ i \in 1 .. Len(text) + 1
  BY DEF AtStop, Texts
<1>2. i - 1 \in i - 1 .. Len(text) /\ SubSeq(text, i, i - 1) = <<>>
  BY <1>1, SubSeqEmpty
<1>3. Contents[SubSeq(text, 1, i - 1)] = Behind(o, SubSeq(text, i, i - 1))
  BY <1>2 DEF AtStop, ReadTo
<1> QED
  BY <1>2, <1>3, BehindIsAll DEF AtStop

LEMMA StringNext ==
    ASSUME ScalarAssumption
    PROVE  StringInv /\ [ScalarNext]_scalarVars => StringInv'
<1> SUFFICES ASSUME StringInv, [ScalarNext]_scalarVars, kind' = "string" PROVE StringInv'
  BY DEF StringInv
<1>1. kind = "string" /\ text' = text
  BY DEF ScalarNext, scalarVars, Sign, Whole, Fraction, Exponent, ScanString
<1>2. /\ text \in Texts /\ out \in Texts /\ scalarAt \in {"scan", "done", "refused"}
      /\ scalarAt = "scan" =>
           idx \in 1 .. Len(text) + 1 /\ ReadTo(text, idx, out) /\ Unclosed(text, idx)
      /\ StringsReadBack
  BY <1>1 DEF StringInv
<1>3. CASE UNCHANGED scalarVars
  BY <1>2, <1>3 DEF scalarVars, StringInv, StringsReadBack, ReadTo, Unclosed
<1>4. CASE Sign \/ Whole \/ Fraction \/ Exponent
  BY <1>2, <1>4 DEF Sign, Whole, Fraction, Exponent
<1>5. CASE ScanString
  <2>1. PICK i : i = Stop(idx)
    OBVIOUS
  <2>2. PICK o : o = out \o SubSeq(text, idx, i - 1)
    OBVIOUS
  <2>3. scalarAt = "scan"
    BY <1>5 DEF ScanString
  <2>4. AtStop(i, o) /\ Char(i) \in Stops
    BY <1>2, <2>1, <2>2, <2>3, RunReads
  <2>5. ASSUME Char(i) = "quote", scalarAt' = "done", idx' = i + 1, out' = o
        PROVE  StringInv'
    <3>1. o \in Texts /\ Contents[SubSeq(text, 1, i - 1)] = {o}
      BY <1>2, <2>4, ClosedRightly DEF AtStop
    <3>2. \A ascii \in BOOLEAN : Contents[DumpStr(o, ascii)] = {o}
      BY <3>1, DumpReads
    <3>3. idx' - 2 = i - 1
      <4>1. i \in Nat
        BY <2>4 DEF AtStop
      <4> QED
        BY <2>5, <4>1
    <3>4. StringsReadBack'
      BY <1>1, <2>5, <3>1, <3>2, <3>3 DEF StringsReadBack
    <3> QED
      BY <1>1, <1>2, <2>5, <3>1, <3>4 DEF StringInv
  <2>6. ASSUME scalarAt' = "refused", out' = out, Unclosed(text, Len(text) + 1)
        PROVE  StringInv'
    <3>1. StringsReadBack'
      BY <1>1, <1>2, <2>6, UnclosedIsNone DEF StringsReadBack
    <3> QED
      BY <1>1, <1>2, <2>6, <3>1 DEF StringInv
  <2>7. ASSUME scalarAt' = scalarAt, AtStop(idx', out')
        PROVE  StringInv'
    <3>1. StringsReadBack'
      BY <2>3, <2>7 DEF StringsReadBack
    <3>2. /\ out' \in Texts /\ idx' \in 1 .. Len(text) + 1
          /\ ReadTo(text, idx', out') /\ Unclosed(text, idx')
      BY <2>7 DEF AtStop
    <3> QED
      BY <1>1, <1>2, <2>7, <3>1, <3>2 DEF StringInv, ReadTo, Unclosed
  <2>8. \/ Char(i) = "quote" /\ scalarAt' = "done" /\ idx' = i + 1 /\ out' = o
        \/ scalarAt' = "refused" /\ out' = out /\ Unclosed(text, Len(text) + 1)
        \/ scalarAt' = scalarAt /\ AtStop(idx', out')
    <3>1. \/ Char(i) = "quote" /\ scalarAt' = "done" /\ idx' = i + 1 /\ out' = o
          \/ Blocked(i) /\ scalarAt' = "refused" /\ out' = out
          \/ /\ scalarAt' = scalarAt /\ Char(i) = "backslash"
             /\ \E j, c : Escaped(i, j, c) /\ idx' = j /\ out' = Append(o, c)
      BY <1>2, <1>5, <2>1, <2>2, <2>3, <2>4, ScanCases
    <3>2. Blocked(i) => Unclosed(text, Len(text) + 1)
      BY <1>2, <2>4, RefusedRightly
    <3>3. Char(i) = "backslash" => \A j, c : Escaped(i, j, c) => AtStop(j, Append(o, c))
      BY <1>2, <2>4, TakenRightly
    <3> QED
      BY <3>1, <3>2, <3>3
  <2> QED
    BY <2>5, <2>6, <2>7, <2>8
<1> QED
  BY <1>3, <1>4, <1>5 DEF ScalarNext

\* Whatever the text, scanstring reads what its first characters spell up to the
\* closing quote, and that is the one string they spell; it refuses a text only
\* if nothing up to any quote spells a string; and what dump_str writes of the
\* string it read, in ASCII or not, spells that string and no other.
THEOREM StringReadsBack ==
    ASSUME ScalarAssumption
    PROVE  ScalarSpec => []StringsReadBack
<1>1. StringInv => StringsReadBack
  BY DEF StringInv, StringsReadBack
<1> QED
  BY <1>1, StringInit, StringNext, PTL DEF ScalarSpec

-----------------------------------------------------------------------------
(* The documents of JSON.  First, the grammar of JsonDocument has a meaning:  *)
(* its equation recurses on the smaller of two phrases, and is solved the way *)
(* the equation of Contents is.                                               *)

\* Streams of tokens; a part of one.
Streams == Seq(Tokens)

LEMMA PieceOf ==
    ASSUME NEW t \in Streams, NEW i \in 1 .. Len(t) + 1, NEW j \in i - 1 .. Len(t)
    PROVE  /\ SubSeq(t, i, j) \in Streams /\ Len(SubSeq(t, i, j)) = j - i + 1
           /\ \A k \in 1 .. j - i + 1 : SubSeq(t, i, j)[k] = t[i + k - 1]
<1>1. Len(t) \in Nat /\ \A k \in 1 .. Len(t) : t[k] \in Tokens
  BY DEF Streams
<1>2. i \in Int /\ j \in Int /\ \A k \in i .. j : t[k] \in Tokens
  BY <1>1
<1>3. /\ SubSeq(t, i, j) \in Streams
      /\ Len(SubSeq(t, i, j)) = IF i <= j THEN j - i + 1 ELSE 0
      /\ \A k \in 1 .. j - i + 1 : SubSeq(t, i, j)[k] = t[i + k - 1]
  BY <1>2, SubSeqProperties DEF Streams
<1> QED
  BY <1>1, <1>3

LEMMA PieceOfPiece ==
    ASSUME NEW t \in Streams, NEW a \in 1 .. Len(t) + 1, NEW b \in a - 1 .. Len(t),
           NEW i \in 1 .. b - a + 2, NEW j \in i - 1 .. b - a + 1
    PROVE  SubSeq(SubSeq(t, a, b), i, j) = SubSeq(t, a + i - 1, a + j - 1)
<1>1. Len(t) \in Nat
  BY DEF Streams
<1> DEFINE u == SubSeq(t, a, b)
           w == SubSeq(t, a + i - 1, a + j - 1)
<1>2. u \in Streams /\ Len(u) = b - a + 1 /\ \A k \in 1 .. b - a + 1 : u[k] = t[a + k - 1]
  BY <1>1, PieceOf
<1>3. /\ SubSeq(u, i, j) \in Streams /\ Len(SubSeq(u, i, j)) = j - i + 1
      /\ \A k \in 1 .. j - i + 1 : SubSeq(u, i, j)[k] = u[i + k - 1]
  <2>1. i \in 1 .. Len(u) + 1 /\ j \in i - 1 .. Len(u)
    BY <1>1, <1>2
  <2> HIDE DEF u
  <2> QED
    BY <1>2, <2>1, PieceOf
<1>4. /\ w \in Streams /\ Len(w) = j - i + 1
      /\ \A k \in 1 .. j - i + 1 : w[k] = t[a + i + k - 2]
  <2>1. a + i - 1 \in 1 .. Len(t) + 1 /\ a + j - 1 \in (a + i - 1) - 1 .. Len(t)
    BY <1>1
  <2>2. /\ w \in Streams /\ Len(w) = (a + j - 1) - (a + i - 1) + 1
        /\ \A k \in 1 .. (a + j - 1) - (a + i - 1) + 1 : w[k] = t[(a + i - 1) + k - 1]
    BY <2>1, PieceOf
  <2> HIDE DEF w
  <2>3. (a + j - 1) - (a + i - 1) + 1 = j - i + 1 /\ \A k \in Int : (a + i - 1) + k - 1 = a + i + k - 2
    BY <1>1
  <2> QED
    BY <2>2, <2>3
<1> HIDE DEF u, w
<1>5. \A k \in 1 .. j - i + 1 : SubSeq(u, i, j)[k] = w[k]
  <2> TAKE k \in 1 .. j - i + 1
  <2>1. i + k - 1 \in 1 .. b - a + 1 /\ a + (i + k - 1) - 1 = a + i + k - 2
    BY <1>1
  <2> QED
    BY <1>2, <1>3, <1>4, <2>1
<1>6. SubSeq(u, i, j) = w
  BY <1>3, <1>4, <1>5, SeqEqual DEF Streams
<1> QED
  BY <1>6 DEF u, w

-----------------------------------------------------------------------------
\* The grammar, by its own equation.
Grammar(g, p) == IF p[2] = "value" THEN Denoted(g, p[1]) ELSE Lists(g, p[1], p[2])

LEMMA MeaningChosen == Meaning = CHOOSE g : g = [phrase \in Phrases |-> Grammar(g, phrase)]
BY DEF Meaning, Grammar

Kinds == {"items", "members"}
Size(p) == 2 * Len(p[1]) + (IF p[2] = "value" THEN 0 ELSE 1)
Within(n) == {p \in Phrases : Size(p) <= n}
AgreeBelow(g, h, n) == \A q \in Phrases : Size(q) < n => g[q] = h[q]

LEMMA Sizes ==
    /\ \A p \in Phrases : Size(p) \in Nat
    /\ \A s \in Streams : Size(<<s, "value">>) = 2 * Len(s) /\ <<s, "value">> \in Phrases
    /\ \A s \in Streams, of \in Kinds : Size(<<s, of>>) = 2 * Len(s) + 1 /\ <<s, of>> \in Phrases
<1>1. \A s \in Streams : Len(s) \in Nat
  BY DEF Streams
<1>2. \A p \in Phrases : Size(p) \in Nat
  <2> SUFFICES ASSUME NEW p \in Phrases PROVE Size(p) \in Nat
    OBVIOUS
  <2>1. Len(p[1]) \in Nat
    BY <1>1 DEF Phrases, Streams
  <2>2. Size(p) = 2 * Len(p[1]) + 0 \/ Size(p) = 2 * Len(p[1]) + 1
    BY Zenon DEF Size
  <2> QED
    BY <2>1, <2>2
<1>3. \A s \in Streams, of \in Kinds \cup {"value"} : <<s, of>> \in Phrases
  BY DEF Phrases, Streams, Kinds
<1>4. \A s \in Streams : Size(<<s, "value">>) = 2 * Len(s)
  BY <1>1 DEF Size
<1>5. ASSUME NEW s \in Streams, NEW of \in Kinds PROVE Size(<<s, of>>) = 2 * Len(s) + 1
  BY <1>1 DEF Size, Kinds
<1> QED
  BY <1>2, <1>3, <1>4, <1>5

LEMMA AroundComma ==
    ASSUME NEW s \in Streams, NEW i \in 1 .. Len(s)
    PROVE  /\ SubSeq(s, 1, i - 1) \in Streams /\ Len(SubSeq(s, 1, i - 1)) = i - 1
           /\ SubSeq(s, i + 1, Len(s)) \in Streams /\ Len(SubSeq(s, i + 1, Len(s))) = Len(s) - i
           /\ 2 * (i - 1) + 1 < 2 * Len(s) + 1 /\ 2 * (Len(s) - i) + 1 < 2 * Len(s) + 1
<1>1. Len(s) \in Nat
  BY DEF Streams
<1> DEFINE before == SubSeq(s, 1, i - 1)
           behind == SubSeq(s, i + 1, Len(s))
<1>2. /\ 1 \in 1 .. Len(s) + 1 /\ i - 1 \in 1 - 1 .. Len(s)
      /\ i + 1 \in 1 .. Len(s) + 1 /\ Len(s) \in (i + 1) - 1 .. Len(s)
  BY <1>1
<1>3. (i - 1) - 1 + 1 = i - 1 /\ Len(s) - (i + 1) + 1 = Len(s) - i
  BY <1>1
<1>4. /\ before \in Streams /\ Len(before) = (i - 1) - 1 + 1
      /\ behind \in Streams /\ Len(behind) = Len(s) - (i + 1) + 1
  BY <1>2, PieceOf
<1> HIDE DEF before, behind
<1>5. /\ before \in Streams /\ Len(before) = i - 1 /\ behind \in Streams /\ Len(behind) = Len(s) - i
      /\ 2 * (i - 1) + 1 < 2 * Len(s) + 1 /\ 2 * (Len(s) - i) + 1 < 2 * Len(s) + 1
  BY <1>1, <1>3, <1>4
<1> QED
  BY <1>5 DEF before, behind

LEMMA ElementsAgree ==
    ASSUME NEW g, NEW h, NEW s \in Streams, NEW of \in Kinds, AgreeBelow(g, h, 2 * Len(s) + 1)
    PROVE  Elements(g, s, of) = Elements(h, s, of)
<1>1. Len(s) \in Nat
  BY DEF Streams
<1>2. CASE of = "items"
  <2>1. g[<<s, "value">>] = h[<<s, "value">>]
    BY <1>1, Sizes DEF AgreeBelow
  <2> QED
    BY <1>2, <2>1 DEF Elements
<1>3. CASE of = "members" /\ Len(s) > 2
  <2> DEFINE rest == SubSeq(s, 3, Len(s))
  <2>1. rest \in Streams /\ Len(rest) = Len(s) - 3 + 1
    <3>1. 3 \in 1 .. Len(s) + 1 /\ Len(s) \in 3 - 1 .. Len(s)
      BY <1>1, <1>3
    <3> QED
      BY <3>1, PieceOf
  <2> HIDE DEF rest
  <2>2. <<rest, "value">> \in Phrases /\ Size(<<rest, "value">>) = 2 * (Len(s) - 3 + 1)
    BY <2>1, Sizes
  <2>3. Size(<<rest, "value">>) < 2 * Len(s) + 1
    BY <1>1, <2>2
  <2>4. g[<<SubSeq(s, 3, Len(s)), "value">>] = h[<<SubSeq(s, 3, Len(s)), "value">>]
    BY <2>2, <2>3 DEF AgreeBelow, rest
  <2> QED
    BY <1>3, <2>4 DEF Elements
<1>4. CASE of = "members" /\ ~(Len(s) > 2)
  BY <1>4 DEF Elements
<1> QED
  BY <1>2, <1>3, <1>4 DEF Kinds

Joined(E, L) == {<<e>> \o rest : e \in E, rest \in L}

LEMMA ListsAgree ==
    ASSUME NEW g, NEW h, NEW s \in Streams, NEW of \in Kinds, AgreeBelow(g, h, 2 * Len(s) + 1)
    PROVE  Lists(g, s, of) = Lists(h, s, of)
<1>1. Len(s) \in Nat /\ DOMAIN s = 1 .. Len(s)
  BY DEF Streams
<1> DEFINE commas == {i \in DOMAIN s : s[i] = Comma}
           Splits(f, i) == Joined(Elements(f, SubSeq(s, 1, i - 1), of),
                                  f[<<SubSeq(s, i + 1, Len(s)), of>>])
<1>2. ASSUME NEW i \in 1 .. Len(s) PROVE Splits(g, i) = Splits(h, i)
  <2>1. i \in 1 .. Len(s)
    OBVIOUS
  <2>2. /\ SubSeq(s, 1, i - 1) \in Streams /\ Len(SubSeq(s, 1, i - 1)) = i - 1
        /\ SubSeq(s, i + 1, Len(s)) \in Streams
        /\ Size(<<SubSeq(s, i + 1, Len(s)), of>>) < 2 * Len(s) + 1
        /\ <<SubSeq(s, i + 1, Len(s)), of>> \in Phrases
    <3> DEFINE before == SubSeq(s, 1, i - 1)
               behind == SubSeq(s, i + 1, Len(s))
    <3>1. /\ before \in Streams /\ Len(before) = i - 1
          /\ behind \in Streams /\ Len(behind) = Len(s) - i
          /\ 2 * (Len(s) - i) + 1 < 2 * Len(s) + 1
      BY AroundComma
    <3> HIDE DEF before, behind
    <3>2. Size(<<behind, of>>) = 2 * Len(behind) + 1 /\ <<behind, of>> \in Phrases
      BY <3>1, Sizes
    <3> QED
      BY <3>1, <3>2 DEF before, behind
  <2>3. AgreeBelow(g, h, 2 * Len(SubSeq(s, 1, i - 1)) + 1)
    <3> SUFFICES ASSUME NEW q \in Phrases, Size(q) < 2 * (i - 1) + 1 PROVE g[q] = h[q]
      BY <2>2 DEF AgreeBelow
    <3>1. Size(q) \in Nat /\ i \in Nat /\ 2 * (i - 1) + 1 < 2 * Len(s) + 1
      BY <1>1, <2>1, AroundComma, Sizes
    <3> QED
      BY <1>1, <3>1 DEF AgreeBelow
  <2>4. Elements(g, SubSeq(s, 1, i - 1), of) = Elements(h, SubSeq(s, 1, i - 1), of)
    BY <2>2, <2>3, ElementsAgree
  <2>5. g[<<SubSeq(s, i + 1, Len(s)), of>>] = h[<<SubSeq(s, i + 1, Len(s)), of>>]
    BY <2>2 DEF AgreeBelow
  <2> QED
    BY <2>4, <2>5
<1>3. Elements(g, s, of) = Elements(h, s, of)
  BY ElementsAgree
<1> HIDE DEF Splits
<1>4. {Splits(g, i) : i \in commas} = {Splits(h, i) : i \in commas}
  BY <1>1, <1>2
<1>5. UNION {Splits(g, i) : i \in commas} = UNION {Splits(h, i) : i \in commas}
  BY <1>4
<1>6. \A f : Lists(f, s, of) = {<<e>> : e \in Elements(f, s, of)} \cup UNION {Splits(f, i) : i \in commas}
  BY DEF Lists, Splits, Joined
<1> QED
  BY <1>3, <1>5, <1>6

LEMMA DenotedAgree ==
    ASSUME NEW g, NEW h, NEW s \in Streams, AgreeBelow(g, h, 2 * Len(s))
    PROVE  Denoted(g, s) = Denoted(h, s)
<1>1. Len(s) \in Nat
  BY DEF Streams
<1>2. CASE Len(s) > 2
  <2>1. SubSeq(s, 2, Len(s) - 1) \in Streams /\ Len(SubSeq(s, 2, Len(s) - 1)) = Len(s) - 2
    <3>1. 2 \in 1 .. Len(s) + 1 /\ Len(s) - 1 \in 2 - 1 .. Len(s) /\ (Len(s) - 1) - 2 + 1 = Len(s) - 2
      BY <1>1, <1>2
    <3> QED
      BY <3>1, PieceOf
  <2>2. 2 * (Len(s) - 2) + 1 < 2 * Len(s)
    BY <1>1
  <2>3. \A of \in Kinds : g[<<SubSeq(s, 2, Len(s) - 1), of>>] = h[<<SubSeq(s, 2, Len(s) - 1), of>>]
    BY <2>1, <2>2, Sizes DEF AgreeBelow
  <2>4. "items" \in Kinds /\ "members" \in Kinds
    BY DEF Kinds
  <2>5. /\ g[<<SubSeq(s, 2, Len(s) - 1), "items">>] = h[<<SubSeq(s, 2, Len(s) - 1), "items">>]
        /\ g[<<SubSeq(s, 2, Len(s) - 1), "members">>] = h[<<SubSeq(s, 2, Len(s) - 1), "members">>]
    BY <2>3, <2>4
  <2> QED
    BY <2>5 DEF Denoted
<1>3. CASE ~(Len(s) > 2)
  BY <1>3 DEF Denoted
<1> QED
  BY <1>2, <1>3

LEMMA GrammarAgree ==
    ASSUME NEW g, NEW h, NEW p \in Phrases, AgreeBelow(g, h, Size(p))
    PROVE  Grammar(g, p) = Grammar(h, p)
<1>1. p[1] \in Streams /\ p[2] \in Kinds \cup {"value"}
  BY DEF Phrases, Streams, Kinds
<1>2. CASE p[2] = "value"
  BY <1>1, <1>2, DenotedAgree DEF Grammar, Size
<1>3. CASE p[2] # "value"
  BY <1>1, <1>3, ListsAgree DEF Grammar, Size
<1> QED
  BY <1>2, <1>3

Expands(g, n) == g = [p \in Within(n) |-> Grammar(g, p)]

LEMMA ExpandedAgree ==
    ASSUME NEW g, NEW h, NEW n \in Nat, NEW m \in Nat, Expands(g, n), Expands(h, m)
    PROVE  \A p \in Within(n) \cap Within(m) : g[p] = h[p]
<1> DEFINE T == {Size(p) : p \in {p \in Within(n) \cap Within(m) : g[p] # h[p]}}
<1>1. SUFFICES ASSUME T # {} PROVE FALSE
  BY <1>1
<1>2. PICK k \in T : \A j \in T : k <= j
  <2>1. T \in SUBSET Nat
    BY Sizes DEF Within
  <2> HIDE DEF T
  <2> QED
    BY <1>1, <2>1, LeastOf
<1>3. PICK p \in Within(n) \cap Within(m) : Size(p) = k /\ g[p] # h[p]
  BY <1>2
<1>4. p \in Phrases
  BY <1>3 DEF Within
<1>5. AgreeBelow(g, h, Size(p))
  <2> SUFFICES ASSUME NEW q \in Phrases, Size(q) < Size(p) PROVE g[q] = h[q]
    BY DEF AgreeBelow
  <2>1. Size(p) \in Nat /\ Size(q) \in Nat /\ Size(p) <= n /\ Size(p) <= m
    BY <1>3, <1>4, Sizes DEF Within
  <2>2. Size(q) \notin T
    BY <1>2, <1>3, <2>1
  <2>3. q \in Within(n) \cap Within(m)
    BY <2>1 DEF Within
  <2> QED
    BY <2>2, <2>3
<1>6. Grammar(g, p) = Grammar(h, p)
  BY <1>4, <1>5, GrammarAgree
<1>7. g[p] = Grammar(g, p) /\ h[p] = Grammar(h, p)
  BY <1>3 DEF Expands
<1> QED
  BY <1>3, <1>6, <1>7

LEMMA ExpandedExists ==
    ASSUME NEW n \in Nat
    PROVE  \E g : Expands(g, n)
<1> DEFINE T == {k \in Nat : ~\E g : Expands(g, k)}
<1>1. SUFFICES ASSUME T # {} PROVE FALSE
  BY <1>1
<1>2. PICK k \in T : \A j \in T : k <= j
  <2>1. T \in SUBSET Nat
    OBVIOUS
  <2> HIDE DEF T
  <2> QED
    BY <1>1, <2>1, LeastOf
<1>3. PICK g : \A p \in Phrases : Size(p) < k => g[p] = Grammar(g, p)
  <2>1. CASE k = 0
    BY <2>1, Sizes
  <2>2. CASE k # 0
    <3>1. k - 1 \in Nat /\ k - 1 \notin T
      BY <1>2, <2>2
    <3>2. PICK g : Expands(g, k - 1)
      BY <3>1
    <3>3. \A p \in Phrases : Size(p) < k => p \in Within(k - 1)
      BY <1>2, <3>1, Sizes DEF Within
    <3> QED
      BY <3>2, <3>3 DEF Expands
  <2> QED
    BY <2>1, <2>2
<1> DEFINE h == [p \in Within(k) |-> Grammar(g, p)]
<1>4. ASSUME NEW p \in Within(k) PROVE Grammar(g, p) = Grammar(h, p)
  <2>1. AgreeBelow(g, h, Size(p))
    <3> SUFFICES ASSUME NEW q \in Phrases, Size(q) < Size(p) PROVE g[q] = h[q]
      BY DEF AgreeBelow
    <3>1. q \in Within(k) /\ Size(q) < k
      BY <1>2, Sizes DEF Within
    <3> QED
      BY <1>3, <3>1
  <2>2. p \in Phrases
    BY DEF Within
  <2> HIDE DEF h
  <2> QED
    BY <2>1, <2>2, GrammarAgree
<1>5. Expands(h, k)
  BY <1>4 DEF Expands
<1> QED
  BY <1>2, <1>5

LEMMA MeaningIs == \A p \in Phrases : Meaning[p] = Grammar(Meaning, p)
<1> DEFINE g(n) == CHOOSE g : Expands(g, n)
           f == [p \in Phrases |-> g(Size(p))[p]]
<1>1. \A n \in Nat : Expands(g(n), n)
  BY ExpandedExists, Zenon
<1> HIDE DEF g
<1>2. ASSUME NEW p \in Phrases PROVE f[p] = Grammar(f, p)
  <2>1. Size(p) \in Nat /\ Expands(g(Size(p)), Size(p)) /\ p \in Within(Size(p))
    BY <1>1, Sizes DEF Within
  <2>2. f[p] = Grammar(g(Size(p)), p)
    BY <2>1 DEF Expands
  <2>3. AgreeBelow(g(Size(p)), f, Size(p))
    <3> SUFFICES ASSUME NEW q \in Phrases, Size(q) < Size(p) PROVE g(Size(p))[q] = f[q]
      BY DEF AgreeBelow
    <3>1. Size(q) \in Nat /\ Expands(g(Size(q)), Size(q)) /\ q \in Within(Size(p)) \cap Within(Size(q))
      BY <1>1, <2>1, Sizes DEF Within
    <3>2. g(Size(p))[q] = g(Size(q))[q]
      BY <2>1, <3>1, ExpandedAgree
    <3> QED
      BY <3>2
  <2> HIDE DEF f
  <2> QED
    BY <2>2, <2>3, GrammarAgree
<1>3. f = [phrase \in Phrases |-> Grammar(f, phrase)]
  BY <1>2
<1> HIDE DEF f
<1>4. Meaning = [phrase \in Phrases |-> Grammar(Meaning, phrase)]
  BY <1>3, MeaningChosen
<1> QED
  BY <1>4

-----------------------------------------------------------------------------
(* What a text denotes, by the symbol it begins with; where a value, an       *)
(* element and a list of elements may end that begin at a place.              *)

Denotes(s) == Meaning[<<s, "value">>]
Listed(s, of) == Meaning[<<s, of>>]

LEMMA ByTheGrammar ==
    ASSUME NEW s \in Streams
    PROVE  /\ Denotes(s) = Denoted(Meaning, s)
           /\ \A of \in Kinds : Listed(s, of) = Lists(Meaning, s, of)
<1>1. Denotes(s) = Denoted(Meaning, s)
  <2>1. <<s, "value">> \in Phrases
    BY Sizes
  <2> QED
    BY <2>1, MeaningIs DEF Grammar, Denotes
<1>2. ASSUME NEW of \in Kinds PROVE Listed(s, of) = Lists(Meaning, s, of)
  <2>1. <<s, of>> \in Phrases /\ of # "value"
    BY Sizes DEF Kinds
  <2> QED
    BY <2>1, MeaningIs DEF Grammar, Listed
<1> QED
  BY <1>1, <1>2

\* What the symbols are not.
LEMMA Distinct ==
    /\ LeftBrace \notin {"[", "]", RightBrace, Comma, ":", Space, "0"}
    /\ RightBrace \notin {"[", "]", Comma, ":", Space, "0"}
    /\ Comma \notin {"[", "]", ":", Space, "0"}
    /\ Space \notin {"[", "]", ":", "0"}
BY Zenon DEF LeftBrace, RightBrace, Comma, Space

Symbols == {"[", "]", LeftBrace, RightBrace, Comma, ":", Space}

LEMMA SymbolsAreNotScalars ==
    ASSUME DocumentAssumption
    PROVE  Scalars \cap Symbols = {} /\ Tokens = Scalars \cup Symbols /\ Range(Keys) \subseteq Scalars
<1>1. "0" \notin Symbols
  BY Distinct DEF Symbols
<1>2. Range(Keys) \cap Symbols = {}
  BY DEF DocumentAssumption, Symbols
<1> QED
  BY <1>1, <1>2 DEF Scalars, Tokens, Symbols

LEMMA TwoLong ==
    ASSUME NEW s \in Streams, NEW a, NEW b
    PROVE  s = <<a, b>> <=> Len(s) = 2 /\ s[1] = a /\ s[2] = b
<1>1. ASSUME Len(s) = 2, s[1] = a, s[2] = b PROVE s = <<a, b>>
  <2>1. a \in Tokens /\ b \in Tokens
    BY <1>1 DEF Streams
  <2>2. <<a, b>> \in Seq(Tokens) /\ Len(<<a, b>>) = 2 /\ <<a, b>>[1] = a /\ <<a, b>>[2] = b
    BY <2>1
  <2>3. \A k \in 1 .. 2 : s[k] = <<a, b>>[k]
    BY <1>1, <2>2
  <2> QED
    BY <1>1, <2>2, <2>3, SeqEqual DEF Streams
<1> QED
  BY <1>1

LEMMA DenotedByFirst ==
    ASSUME DocumentAssumption, NEW s \in Streams
    PROVE  /\ Len(s) = 0 => Denotes(s) = {}
           /\ Len(s) >= 1 /\ s[1] \notin Scalars \cup {"[", LeftBrace} => Denotes(s) = {}
           /\ Len(s) = 1 /\ s[1] \in Scalars => Denotes(s) = {Scalar(s[1])}
           /\ Len(s) > 1 /\ s[1] \in Scalars => Denotes(s) = {}
           /\ Len(s) = 2 /\ s[1] = "[" /\ s[2] = "]" => Denotes(s) = {Array(<<>>)}
           /\ Len(s) > 2 /\ s[1] = "[" /\ s[Len(s)] = "]" =>
                Denotes(s) = {Array(l) : l \in Listed(SubSeq(s, 2, Len(s) - 1), "items")}
           /\ Len(s) >= 1 /\ s[1] = "[" /\ s[Len(s)] # "]" => Denotes(s) = {}
           /\ Len(s) = 2 /\ s[1] = LeftBrace /\ s[2] = RightBrace => Denotes(s) = {Object(<<>>)}
           /\ Len(s) > 2 /\ s[1] = LeftBrace /\ s[Len(s)] = RightBrace =>
                Denotes(s) = {Object(Merged(l)) : l \in Listed(SubSeq(s, 2, Len(s) - 1), "members")}
           /\ Len(s) >= 1 /\ s[1] = LeftBrace /\ s[Len(s)] # RightBrace => Denotes(s) = {}
<1> DEFINE n == Len(s)
           first == s[1]
           second == s[2]
           last == s[Len(s)]
           items == Listed(SubSeq(s, 2, Len(s) - 1), "items")
           pairs == Listed(SubSeq(s, 2, Len(s) - 1), "members")
           one == {Scalar(t) : t \in Scalars \cap {s[1]}}
           array == {Array(<<>>)}
           object == {Object(<<>>)}
           arrays == {Array(l) : l \in items}
           objects == {Object(Merged(l)) : l \in pairs}
<1>1. n \in Nat /\ (n = 2 => last = second) /\ (n = 1 => last = first)
  BY DEF Streams
<1>2. s = <<"[", "]">> <=> n = 2 /\ first = "[" /\ second = "]"
  BY TwoLong
<1>3. s = <<LeftBrace, RightBrace>> <=> n = 2 /\ first = LeftBrace /\ second = RightBrace
  BY TwoLong
<1>4. "[" \notin Scalars /\ LeftBrace \notin Scalars
  BY SymbolsAreNotScalars DEF Symbols
<1>5. Denotes(s) = CASE n = 1 -> one
                     [] s = <<"[", "]">> -> array
                     [] s = <<LeftBrace, RightBrace>> -> object
                     [] n > 2 /\ first = "[" /\ last = "]" -> arrays
                     [] n > 2 /\ first = LeftBrace /\ last = RightBrace -> objects
                     [] OTHER -> {}
  BY ByTheGrammar DEF Denoted, Listed
<1>6. first \notin Scalars => one = {}
  OBVIOUS
<1>7. first \in Scalars => one = {Scalar(first)}
  OBVIOUS
<1> HIDE DEF n, first, second, last, items, pairs, one, array, object, arrays, objects
<1>8. Denotes(s) = CASE n = 1 -> one
                     [] n = 2 /\ first = "[" /\ second = "]" -> array
                     [] n = 2 /\ first = LeftBrace /\ second = RightBrace -> object
                     [] n > 2 /\ first = "[" /\ last = "]" -> arrays
                     [] n > 2 /\ first = LeftBrace /\ last = RightBrace -> objects
                     [] OTHER -> {}
  BY <1>2, <1>3, <1>5, Zenon
<1>9. /\ n = 0 => Denotes(s) = {}
      /\ n >= 1 /\ first \notin Scalars \cup {"[", LeftBrace} => Denotes(s) = {}
  BY <1>1, <1>6, <1>8
<1>10. /\ n = 1 /\ first \in Scalars => Denotes(s) = {Scalar(first)}
       /\ n > 1 /\ first \in Scalars => Denotes(s) = {}
  BY <1>1, <1>4, <1>7, <1>8
<1>11. n = 2 /\ first = "[" /\ second = "]" => Denotes(s) = array
  BY <1>1, <1>8, Distinct
<1>12. n > 2 /\ first = "[" /\ last = "]" => Denotes(s) = arrays
  BY <1>1, <1>8, Distinct
<1>13. n >= 1 /\ first = "[" /\ last # "]" => Denotes(s) = {}
  BY <1>1, <1>4, <1>6, <1>8, Distinct
<1>14. n = 2 /\ first = LeftBrace /\ second = RightBrace => Denotes(s) = object
  BY <1>1, <1>8, Distinct
<1>15. n > 2 /\ first = LeftBrace /\ last = RightBrace => Denotes(s) = objects
  BY <1>1, <1>8, Distinct
<1>16. n >= 1 /\ first = LeftBrace /\ last # RightBrace => Denotes(s) = {}
  BY <1>1, <1>4, <1>6, <1>8, Distinct
<1> QED
  BY <1>9, <1>10, <1>11, <1>12, <1>13, <1>14, <1>15, <1>16
     DEF n, first, second, last, items, pairs, array, object, arrays, objects

-----------------------------------------------------------------------------
(* <<v, j>> in Stands(t, i): the value v may stand at i in the text t, and the *)
(* text goes on at j.  Elements and lists likewise, a list with its closing. *)
Stands(t, i) == UNION {{<<v, j>> : v \in Denotes(SubSeq(t, i, j - 1))} : j \in i .. Len(t) + 1}
ElementsFrom(t, i, of) ==
    UNION {{<<e, j>> : e \in Elements(Meaning, SubSeq(t, i, j - 1), of)} : j \in i .. Len(t) + 1}
Closing(of) == IF of = "items" THEN "]" ELSE RightBrace
From(t, i, of) ==
    UNION {{<<l, j + 1>> : l \in Listed(SubSeq(t, i, j - 1), of)} :
             j \in {j \in i .. Len(t) : t[j] = Closing(of)}}
Then(t, R, of) ==
    {<<<<x[1]>>, x[2] + 1>> : x \in {x \in R : x[2] <= Len(t) /\ t[x[2]] = Closing(of)}}
    \cup UNION {{<<<<x[1]>> \o y[1], y[2]>> : y \in From(t, x[2] + 1, of)} :
                  x \in {x \in R : x[2] <= Len(t) /\ t[x[2]] = Comma}}

\* Pieces of t, up to j, and their pieces.
LEMMA Piece ==
    ASSUME NEW t \in Streams, NEW i \in 1 .. Len(t) + 1, NEW j \in i .. Len(t) + 1
    PROVE  /\ SubSeq(t, i, j - 1) \in Streams /\ Len(SubSeq(t, i, j - 1)) = j - i
           /\ j > i => SubSeq(t, i, j - 1)[1] = t[i]
           /\ \A k \in 1 .. j - i : SubSeq(t, i, j - 1)[k] = t[i + k - 1]
           /\ \A a \in 1 .. j - i + 1 : \A b \in a .. j - i + 1 :
                SubSeq(SubSeq(t, i, j - 1), a, b - 1) = SubSeq(t, i + a - 1, i + b - 2)
<1> DEFINE u == SubSeq(t, i, j - 1)
<1>1. Len(t) \in Nat
  BY DEF Streams
<1>2. j - 1 \in i - 1 .. Len(t) /\ (j - 1) - i + 1 = j - i
  BY <1>1
<1>3. /\ u \in Streams /\ Len(u) = (j - 1) - i + 1
      /\ \A k \in 1 .. (j - 1) - i + 1 : u[k] = t[i + k - 1]
  BY <1>2, PieceOf
<1>4. ASSUME NEW a \in 1 .. j - i + 1, NEW b \in a .. j - i + 1
      PROVE  SubSeq(u, a, b - 1) = SubSeq(t, i + a - 1, i + b - 2)
  <2>1. a \in 1 .. (j - 1) - i + 2 /\ b - 1 \in a - 1 .. (j - 1) - i + 1
    BY <1>1
  <2>2. SubSeq(u, a, b - 1) = SubSeq(t, i + a - 1, i + (b - 1) - 1)
    BY <1>2, <2>1, PieceOfPiece
  <2>3. i + (b - 1) - 1 = i + b - 2
    BY <1>1
  <2> QED
    BY <2>2, <2>3
<1> HIDE DEF u
<1>5. j > i => u[1] = t[i]
  BY <1>1, <1>3
<1>6. u \in Streams /\ Len(u) = j - i /\ \A k \in 1 .. j - i : u[k] = t[i + k - 1]
  BY <1>2, <1>3
<1> QED
  BY <1>4, <1>5, <1>6 DEF u

LEMMA NothingStarts ==
    ASSUME DocumentAssumption, NEW t \in Streams, NEW i \in 1 .. Len(t) + 1,
           i = Len(t) + 1 \/ t[i] \notin Scalars \cup {"[", LeftBrace}
    PROVE  Stands(t, i) = {}
<1> SUFFICES \A j \in i .. Len(t) + 1 : Denotes(SubSeq(t, i, j - 1)) = {}
  BY DEF Stands
<1> TAKE j \in i .. Len(t) + 1
<1> DEFINE u == SubSeq(t, i, j - 1)
<1>1. Len(t) \in Nat
  BY DEF Streams
<1>2. u \in Streams /\ Len(u) = j - i /\ (j > i => u[1] = t[i])
  BY Piece
<1> HIDE DEF u
<1>3. CASE j = i
  <2>1. Len(u) = 0
    BY <1>1, <1>2, <1>3
  <2> QED
    BY <1>2, <2>1, DenotedByFirst DEF u
<1>4. CASE j > i
  <2>1. Len(u) >= 1 /\ u[1] \notin Scalars \cup {"[", LeftBrace}
    BY <1>1, <1>2, <1>4
  <2> QED
    BY <1>2, <2>1, DenotedByFirst DEF u
<1> QED
  BY <1>1, <1>3, <1>4

LEMMA ScalarStarts ==
    ASSUME DocumentAssumption, NEW t \in Streams, NEW i \in 1 .. Len(t), t[i] \in Scalars
    PROVE  Stands(t, i) = {<<Scalar(t[i]), i + 1>>}
<1>1. Len(t) \in Nat
  BY DEF Streams
<1>2. ASSUME NEW j \in i .. Len(t) + 1
      PROVE  Denotes(SubSeq(t, i, j - 1)) = IF j = i + 1 THEN {Scalar(t[i])} ELSE {}
  <2> DEFINE u == SubSeq(t, i, j - 1)
  <2>1. u \in Streams /\ Len(u) = j - i /\ (j > i => u[1] = t[i])
    BY <1>1, Piece
  <2> HIDE DEF u
  <2>2. CASE j = i
    <3>1. Len(u) = 0 /\ j # i + 1
      BY <1>1, <2>1, <2>2
    <3> QED
      BY <2>1, <3>1, DenotedByFirst DEF u
  <2>3. CASE j > i
    <3>1. /\ u[1] = t[i] /\ (j = i + 1 => Len(u) = 1) /\ (j # i + 1 => Len(u) > 1)
      BY <1>1, <2>1, <2>3
    <3> QED
      BY <2>1, <2>3, <3>1, DenotedByFirst DEF u
  <2> QED
    BY <1>1, <2>2, <2>3
<1>3. i + 1 \in i .. Len(t) + 1
  BY <1>1
<1> QED
  BY <1>2, <1>3 DEF Stands

-----------------------------------------------------------------------------
(* A list unfolds from its front, as the reader goes through it, although the *)
(* grammar may split it at any comma.                                         *)

\* The list l of the text s, by its first element.
IsListed(s, of, l) ==
    \/ \E e \in Elements(Meaning, s, of) : l = <<e>>
    \/ \E c \in 1 .. Len(s) : /\ s[c] = Comma
                              /\ \E e \in Elements(Meaning, SubSeq(s, 1, c - 1), of),
                                    rest \in Listed(SubSeq(s, c + 1, Len(s)), of) : l = <<e>> \o rest

LEMMA ListedBy ==
    ASSUME NEW s \in Streams, NEW of \in Kinds, NEW l
    PROVE  l \in Listed(s, of) <=> IsListed(s, of, l)
<1> DEFINE Split(i) == Joined(Elements(Meaning, SubSeq(s, 1, i - 1), of),
                              Listed(SubSeq(s, i + 1, Len(s)), of))
<1>1. DOMAIN s = 1 .. Len(s)
  BY DEF Streams
<1>2. Listed(s, of) = {<<e>> : e \in Elements(Meaning, s, of)}
                        \cup UNION {Split(i) : i \in {i \in DOMAIN s : s[i] = Comma}}
  <2>1. Listed(s, of) = Lists(Meaning, s, of)
    BY ByTheGrammar
  <2> QED
    BY <2>1 DEF Lists, Listed, Joined
<1>3. \A c : l \in Split(c) <=> \E e \in Elements(Meaning, SubSeq(s, 1, c - 1), of),
                                  rest \in Listed(SubSeq(s, c + 1, Len(s)), of) : l = <<e>> \o rest
  BY DEF Joined
<1> HIDE DEF Split
<1>4. l \in Listed(s, of) <=>
        \/ \E e \in Elements(Meaning, s, of) : l = <<e>>
        \/ \E c \in 1 .. Len(s) : s[c] = Comma /\ l \in Split(c)
  BY <1>1, <1>2
<1> QED
  BY <1>3, <1>4 DEF IsListed

LEMMA ListUnfolds ==
    ASSUME NEW t \in Streams, NEW i \in 1 .. Len(t) + 1, NEW of \in Kinds
    PROVE  From(t, i, of) = Then(t, ElementsFrom(t, i, of), of)
<1> DEFINE R == ElementsFrom(t, i, of)
           Element(j) == Elements(Meaning, SubSeq(t, i, j - 1), of)
           closing == Closing(of)
           Ends(x) == x[2] <= Len(t) /\ t[x[2]] = closing
           GoesOn(x) == x[2] <= Len(t) /\ t[x[2]] = Comma
<1>1. Len(t) \in Nat
  BY DEF Streams
<1>2. \A x : x \in R <=> \E j \in i .. Len(t) + 1 : \E e \in Element(j) : x = <<e, j>>
  BY DEF ElementsFrom
<1>3. \A k, z : z \in From(t, k, of) <=>
        \E j \in k .. Len(t) : t[j] = closing /\ \E l \in Listed(SubSeq(t, k, j - 1), of) : z = <<l, j + 1>>
  BY DEF From
<1> HIDE DEF R
<1>4. \A z : z \in Then(t, R, of) <=>
        \/ \E x \in R : Ends(x) /\ z = <<<<x[1]>>, x[2] + 1>>
        \/ \E x \in R : GoesOn(x) /\ \E y \in From(t, x[2] + 1, of) : z = <<<<x[1]>> \o y[1], y[2]>>
  <2> DEFINE E == {<<<<x[1]>>, x[2] + 1>> : x \in {x \in R : Ends(x)}}
             G(x) == {<<<<x[1]>> \o y[1], y[2]>> : y \in From(t, x[2] + 1, of)}
  <2>1. Then(t, R, of) = E \cup UNION {G(x) : x \in {x \in R : GoesOn(x)}}
    BY DEF Then
  <2>2. \A z : z \in E <=> \E x \in R : Ends(x) /\ z = <<<<x[1]>>, x[2] + 1>>
    OBVIOUS
  <2>3. \A z, x : z \in G(x) <=> \E y \in From(t, x[2] + 1, of) : z = <<<<x[1]>> \o y[1], y[2]>>
    OBVIOUS
  <2> HIDE DEF E, G, Ends, GoesOn
  <2>4. \A z : z \in Then(t, R, of) <=> z \in E \/ \E x \in R : GoesOn(x) /\ z \in G(x)
    BY <2>1
  <2> QED
    BY <2>2, <2>3, <2>4
<1> HIDE DEF Element, closing
\* A list of the text between i and j, by its first element.
<1>5. ASSUME NEW j \in i .. Len(t), NEW l
      PROVE  l \in Listed(SubSeq(t, i, j - 1), of) <=>
               \/ \E e \in Element(j) : l = <<e>>
               \/ \E k \in i .. j - 1 : /\ t[k] = Comma
                                        /\ \E e \in Element(k), rest \in Listed(SubSeq(t, k + 1, j - 1), of) :
                                             l = <<e>> \o rest
  <2> DEFINE u == SubSeq(t, i, j - 1)
  <2>1. j \in i .. Len(t) + 1 /\ j - i \in Nat
    BY <1>1
  <2>2. /\ u \in Streams /\ Len(u) = j - i
        /\ \A k \in 1 .. j - i : u[k] = t[i + k - 1]
        /\ \A a \in 1 .. j - i + 1 : \A b \in a .. j - i + 1 :
             SubSeq(u, a, b - 1) = SubSeq(t, i + a - 1, i + b - 2)
    BY <2>1, Piece
  <2> HIDE DEF u
  <2>3. ASSUME NEW c \in 1 .. j - i
        PROVE  /\ u[c] = t[i + c - 1] /\ SubSeq(u, 1, c - 1) = SubSeq(t, i, (i + c - 1) - 1)
               /\ SubSeq(u, c + 1, j - i) = SubSeq(t, (i + c - 1) + 1, j - 1)
               /\ i + c - 1 \in i .. j - 1
    <3>1. 1 \in 1 .. j - i + 1 /\ c \in 1 .. j - i + 1 /\ c + 1 \in 1 .. j - i + 1
          /\ j - i + 1 \in c + 1 .. j - i + 1
      BY <1>1, <2>1
    <3>2. SubSeq(u, 1, c - 1) = SubSeq(t, i + 1 - 1, i + c - 2)
      BY <2>2, <3>1
    <3>3. SubSeq(u, c + 1, (j - i + 1) - 1) = SubSeq(t, i + (c + 1) - 1, i + (j - i + 1) - 2)
      BY <2>2, <3>1
    <3>4. i + 1 - 1 = i /\ i + c - 2 = (i + c - 1) - 1 /\ (j - i + 1) - 1 = j - i
          /\ i + (c + 1) - 1 = (i + c - 1) + 1 /\ i + (j - i + 1) - 2 = j - 1 /\ i + c - 1 \in i .. j - 1
      BY <1>1, <2>1
    <3> QED
      BY <2>2, <3>2, <3>3, <3>4
  <2>10. Element(j) = Elements(Meaning, u, of)
    BY DEF Element, u
  <2>11. l \in Listed(u, of) <=> IsListed(u, of, l)
    BY <2>2, ListedBy
  <2>12. Len(u) = j - i
    BY <2>2
  <2>4. l \in Listed(u, of) <=>
          \/ \E e \in Element(j) : l = <<e>>
          \/ \E c \in 1 .. j - i :
               /\ u[c] = Comma
               /\ \E e \in Elements(Meaning, SubSeq(u, 1, c - 1), of),
                     rest \in Listed(SubSeq(u, c + 1, j - i), of) : l = <<e>> \o rest
    BY <2>10, <2>11, <2>12 DEF IsListed
  <2>5. l \in Listed(u, of) <=>
          \/ \E e \in Element(j) : l = <<e>>
          \/ \E c \in 1 .. j - i :
               /\ t[i + c - 1] = Comma
               /\ \E e \in Element(i + c - 1), rest \in Listed(SubSeq(t, (i + c - 1) + 1, j - 1), of) :
                     l = <<e>> \o rest
    BY <2>3, <2>4 DEF Element
  <2>6. \A k \in i .. j - 1 : k - i + 1 \in 1 .. j - i /\ i + (k - i + 1) - 1 = k
    BY <1>1, <2>1
  <2> DEFINE P(k) == /\ t[k] = Comma
                     /\ \E e \in Element(k), rest \in Listed(SubSeq(t, k + 1, j - 1), of) : l = <<e>> \o rest
  <2>7. l \in Listed(u, of) <=>
          (\E e \in Element(j) : l = <<e>>) \/ \E c \in 1 .. j - i : P(i + c - 1)
    BY <2>5
  <2> HIDE DEF P
  <2>8. (\E c \in 1 .. j - i : P(i + c - 1)) <=> \E k \in i .. j - 1 : P(k)
    BY <2>3, <2>6
  <2> QED
    BY <2>7, <2>8 DEF P, u
<1>6. ASSUME NEW z \in From(t, i, of) PROVE z \in Then(t, R, of)
  <2>1. PICK j \in i .. Len(t) : t[j] = closing /\ \E l \in Listed(SubSeq(t, i, j - 1), of) : z = <<l, j + 1>>
    BY <1>3, <1>6
  <2>2. PICK l \in Listed(SubSeq(t, i, j - 1), of) : z = <<l, j + 1>>
    BY <2>1
  <2>3. CASE \E e \in Element(j) : l = <<e>>
    <3>1. PICK e \in Element(j) : l = <<e>>
      BY <2>3
    <3>2. <<e, j>> \in R /\ j <= Len(t)
      BY <1>1, <1>2
    <3>3. \E x \in R : Ends(x) /\ z = <<<<x[1]>>, x[2] + 1>>
      <4>1. Ends(<<e, j>>) /\ z = <<<<<<e, j>>[1]>>, <<e, j>>[2] + 1>>
        BY <2>1, <2>2, <3>1, <3>2
      <4> QED
        BY <3>2, <4>1
    <3> QED
      BY <1>4, <3>3
  <2>4. CASE \E k \in i .. j - 1 : /\ t[k] = Comma
                                   /\ \E e \in Element(k), rest \in Listed(SubSeq(t, k + 1, j - 1), of) :
                                        l = <<e>> \o rest
    <3>1. PICK k \in i .. j - 1 : /\ t[k] = Comma
                                  /\ \E e \in Element(k), rest \in Listed(SubSeq(t, k + 1, j - 1), of) :
                                        l = <<e>> \o rest
      BY <2>4
    <3>2. PICK e \in Element(k), rest \in Listed(SubSeq(t, k + 1, j - 1), of) : l = <<e>> \o rest
      BY <3>1
    <3>3. k \in i .. Len(t) + 1 /\ k <= Len(t) /\ j \in k + 1 .. Len(t)
      BY <1>1
    <3>4. <<e, k>> \in R
      BY <1>2, <3>3
    <3>5. <<rest, j + 1>> \in From(t, k + 1, of)
      BY <1>3, <2>1, <3>2, <3>3
    <3>6. \E x \in R : GoesOn(x) /\ \E y \in From(t, x[2] + 1, of) : z = <<<<x[1]>> \o y[1], y[2]>>
      <4>1. GoesOn(<<e, k>>) /\ <<e, k>>[2] + 1 = k + 1
        BY <3>1, <3>3
      <4>2. z = <<<<<<e, k>>[1]>> \o <<rest, j + 1>>[1], <<rest, j + 1>>[2]>>
        BY <2>2, <3>2
      <4> QED
        BY <3>4, <3>5, <4>1, <4>2
    <3> QED
      BY <1>4, <3>6
  <2> QED
    BY <1>5, <2>3, <2>4
<1>7. ASSUME NEW z \in Then(t, R, of) PROVE z \in From(t, i, of)
  <2>1. CASE \E x \in R : Ends(x) /\ z = <<<<x[1]>>, x[2] + 1>>
    <3>1. PICK x \in R : Ends(x) /\ z = <<<<x[1]>>, x[2] + 1>>
      BY <2>1
    <3>2. PICK j \in i .. Len(t) + 1 : \E e \in Element(j) : x = <<e, j>>
      BY <1>2
    <3> PICK e \in Element(j) : x = <<e, j>>
      BY <3>2
    <3>3. j \in i .. Len(t) /\ t[j] = closing /\ z = <<<<e>>, j + 1>>
      BY <1>1, <3>1, <3>2
    <3>4. <<e>> \in Listed(SubSeq(t, i, j - 1), of)
      BY <1>5, <3>3
    <3> QED
      BY <1>3, <3>3, <3>4
  <2>2. CASE \E x \in R : GoesOn(x) /\ \E y \in From(t, x[2] + 1, of) : z = <<<<x[1]>> \o y[1], y[2]>>
    <3>1. PICK x \in R : GoesOn(x) /\ \E y \in From(t, x[2] + 1, of) : z = <<<<x[1]>> \o y[1], y[2]>>
      BY <2>2
    <3>2. PICK k \in i .. Len(t) + 1 : \E e \in Element(k) : x = <<e, k>>
      BY <1>2
    <3> PICK e \in Element(k) : x = <<e, k>>
      BY <3>2
    <3>3. k \in i .. Len(t) /\ t[k] = Comma
      BY <1>1, <3>1, <3>2
    <3>4. PICK y \in From(t, k + 1, of) : z = <<<<e>> \o y[1], y[2]>>
      BY <3>1, <3>2
    <3>5. PICK j \in k + 1 .. Len(t) :
            t[j] = closing /\ \E rest \in Listed(SubSeq(t, k + 1, j - 1), of) : y = <<rest, j + 1>>
      BY <1>3
    <3>6. PICK rest \in Listed(SubSeq(t, k + 1, j - 1), of) : y = <<rest, j + 1>>
      BY <3>5
    <3>7. j \in i .. Len(t) /\ k \in i .. j - 1
      BY <1>1, <3>3, <3>5
    <3>8. <<e>> \o rest \in Listed(SubSeq(t, i, j - 1), of)
      BY <1>5, <3>3, <3>7
    <3>9. z = <<<<e>> \o rest, j + 1>>
      BY <3>4, <3>6
    <3> QED
      BY <1>3, <3>5, <3>7, <3>8, <3>9
  <2> QED
    BY <1>4, <2>1, <2>2
<1> QED
  BY <1>6, <1>7 DEF R

-----------------------------------------------------------------------------
(* An item is a value; a member is a key, a colon and a value.                *)

LEMMA ItemsFrom == \A t, i : ElementsFrom(t, i, "items") = Stands(t, i)
BY DEF ElementsFrom, Stands, Elements, Denotes

Named(key, R) == {<<Pair(key, x[1]), x[2]>> : x \in R}

LEMMA MembersFrom ==
    ASSUME DocumentAssumption, NEW t \in Streams, NEW i \in 1 .. Len(t) + 1
    PROVE  /\ i + 1 <= Len(t) /\ t[i] \in Range(Keys) /\ t[i + 1] = ":" =>
                ElementsFrom(t, i, "members") = Named(t[i], Stands(t, i + 2))
           /\ ~(i + 1 <= Len(t) /\ t[i] \in Range(Keys) /\ t[i + 1] = ":") =>
                ElementsFrom(t, i, "members") = {}
<1>1. Len(t) \in Nat
  BY DEF Streams
<1> DEFINE Element(j) == Elements(Meaning, SubSeq(t, i, j - 1), "members")
           keyed == i + 1 <= Len(t) /\ t[i] \in Range(Keys) /\ t[i + 1] = ":"
<1>2. ASSUME NEW j \in i .. Len(t) + 1
      PROVE  /\ keyed /\ j >= i + 2 =>
                  Element(j) = {Pair(t[i], v) : v \in Denotes(SubSeq(t, i + 2, j - 1))}
             /\ ~(keyed /\ j >= i + 2) => Element(j) = {}
  <2> DEFINE u == SubSeq(t, i, j - 1)
  <2>1. /\ u \in Streams /\ Len(u) = j - i
        /\ \A k \in 1 .. j - i : u[k] = t[i + k - 1]
        /\ \A a \in 1 .. j - i + 1 : \A b \in a .. j - i + 1 :
             SubSeq(u, a, b - 1) = SubSeq(t, i + a - 1, i + b - 2)
    BY Piece
  <2>2. Element(j) = IF Len(u) > 2 /\ u[1] \in Range(Keys) /\ u[2] = ":"
                     THEN {Pair(u[1], v) : v \in Denotes(SubSeq(u, 3, Len(u)))} ELSE {}
    BY DEF Elements, Denotes
  <2> HIDE DEF u, Element
  <2>3. CASE j >= i + 3
    <3>1. 3 \in 1 .. j - i + 1 /\ j - i + 1 \in 3 .. j - i + 1 /\ i + 1 <= Len(t)
      BY <1>1, <2>3
    <3>2. SubSeq(u, 3, (j - i + 1) - 1) = SubSeq(t, i + 3 - 1, i + (j - i + 1) - 2)
      BY <2>1, <3>1
    <3>3. (j - i + 1) - 1 = j - i /\ i + 3 - 1 = i + 2 /\ i + (j - i + 1) - 2 = j - 1
      BY <1>1
    <3>4. SubSeq(u, 3, j - i) = SubSeq(t, i + 2, j - 1)
      BY <3>2, <3>3
    <3>5. u[1] = t[i] /\ u[2] = t[i + 1]
      <4>1. 1 \in 1 .. j - i /\ 2 \in 1 .. j - i /\ i + 1 - 1 = i /\ i + 2 - 1 = i + 1
        BY <1>1, <2>3
      <4>2. u[1] = t[i + 1 - 1] /\ u[2] = t[i + 2 - 1]
        BY <2>1, <4>1
      <4> QED
        BY <4>1, <4>2
    <3>6. Len(u) = j - i /\ Len(u) > 2 /\ j >= i + 2
      BY <1>1, <2>1, <2>3
    <3>7. Element(j) = IF u[1] \in Range(Keys) /\ u[2] = ":"
                       THEN {Pair(u[1], v) : v \in Denotes(SubSeq(u, 3, Len(u)))} ELSE {}
      BY <2>2, <3>6
    <3>8. SubSeq(u, 3, Len(u)) = SubSeq(t, i + 2, j - 1)
      BY <3>4, <3>6
    <3> QED
      BY <3>1, <3>5, <3>6, <3>7, <3>8
  <2>4. CASE j <= i + 2
    <3>1. Element(j) = {}
      BY <1>1, <2>1, <2>2, <2>4
    <3>2. keyed /\ j >= i + 2 => Denotes(SubSeq(t, i + 2, j - 1)) = {}
      <4> SUFFICES ASSUME keyed, j >= i + 2 PROVE Denotes(SubSeq(t, i + 2, j - 1)) = {}
        OBVIOUS
      <4> DEFINE w == SubSeq(t, i + 2, j - 1)
      <4>1. j = i + 2 /\ i + 2 \in 1 .. Len(t) + 1 /\ j \in i + 2 .. Len(t) + 1
        BY <1>1, <2>4
      <4>2. w \in Streams /\ Len(w) = j - (i + 2)
        BY <4>1, Piece
      <4> HIDE DEF w
      <4>3. Len(w) = 0
        BY <1>1, <4>1, <4>2
      <4> QED
        BY <4>2, <4>3, DenotedByFirst DEF w
    <3> QED
      BY <3>1, <3>2
  <2> QED
    BY <1>1, <2>3, <2>4
<1>3. ElementsFrom(t, i, "members") = UNION {{<<e, j>> : e \in Element(j)} : j \in i .. Len(t) + 1}
  BY DEF ElementsFrom
<1> HIDE DEF Element, keyed
<1>4. ASSUME keyed PROVE ElementsFrom(t, i, "members") = Named(t[i], Stands(t, i + 2))
  <2>1. \A x : x \in Stands(t, i + 2) <=>
          \E j \in i + 2 .. Len(t) + 1 : \E v \in Denotes(SubSeq(t, i + 2, j - 1)) : x = <<v, j>>
    BY DEF Stands
  <2>2. \A z : z \in Named(t[i], Stands(t, i + 2)) <=>
          \E j \in i + 2 .. Len(t) + 1 : \E v \in Denotes(SubSeq(t, i + 2, j - 1)) : z = <<Pair(t[i], v), j>>
    <3> SUFFICES ASSUME NEW z
                 PROVE  z \in Named(t[i], Stands(t, i + 2)) <=>
                          \E j \in i + 2 .. Len(t) + 1 : \E v \in Denotes(SubSeq(t, i + 2, j - 1)) :
                             z = <<Pair(t[i], v), j>>
      OBVIOUS
    <3>1. z \in Named(t[i], Stands(t, i + 2)) <=> \E x \in Stands(t, i + 2) : z = <<Pair(t[i], x[1]), x[2]>>
      BY DEF Named
    <3>2. ASSUME NEW x \in Stands(t, i + 2), z = <<Pair(t[i], x[1]), x[2]>>
          PROVE  \E j \in i + 2 .. Len(t) + 1 : \E v \in Denotes(SubSeq(t, i + 2, j - 1)) :
                             z = <<Pair(t[i], v), j>>
      <4>1. PICK j \in i + 2 .. Len(t) + 1 : \E v \in Denotes(SubSeq(t, i + 2, j - 1)) : x = <<v, j>>
        BY <2>1
      <4> QED
        BY <3>2, <4>1
    <3>3. ASSUME NEW j \in i + 2 .. Len(t) + 1, NEW v \in Denotes(SubSeq(t, i + 2, j - 1)),
                 z = <<Pair(t[i], v), j>>
          PROVE  \E x \in Stands(t, i + 2) : z = <<Pair(t[i], x[1]), x[2]>>
      <4>1. <<v, j>> \in Stands(t, i + 2)
        BY <2>1
      <4> QED
        BY <3>3, <4>1
    <3> QED
      BY <3>1, <3>2, <3>3
  <2>3. \A z : z \in ElementsFrom(t, i, "members") <=>
          \E j \in i .. Len(t) + 1 : \E e \in Element(j) : z = <<e, j>>
    BY <1>3
  <2>4. \A j \in i .. Len(t) + 1 : j >= i + 2 <=> j \in i + 2 .. Len(t) + 1
    BY <1>1
  <2>5. \A j \in i .. Len(t) + 1 : \A e : e \in Element(j) <=>
          j \in i + 2 .. Len(t) + 1 /\ \E v \in Denotes(SubSeq(t, i + 2, j - 1)) : e = Pair(t[i], v)
    BY <1>2, <1>4, <2>4
  <2>6. \A j \in i + 2 .. Len(t) + 1 : j \in i .. Len(t) + 1
    BY <1>1
  <2>7. \A z : z \in ElementsFrom(t, i, "members") <=>
          \E j \in i + 2 .. Len(t) + 1 : \E v \in Denotes(SubSeq(t, i + 2, j - 1)) : z = <<Pair(t[i], v), j>>
    BY <2>3, <2>5, <2>6
  <2> QED
    BY <2>2, <2>7
<1>5. ASSUME ~keyed PROVE ElementsFrom(t, i, "members") = {}
  <2>1. \A j \in i .. Len(t) + 1 : Element(j) = {}
    BY <1>2, <1>5
  <2> QED
    BY <1>3, <2>1
<1> QED
  BY <1>4, <1>5 DEF keyed

-----------------------------------------------------------------------------
(* A container is empty, or the list behind its opening bracket.              *)

Opening(of) == IF of = "items" THEN "[" ELSE LeftBrace
Empty(of) == IF of = "items" THEN Array(<<>>) ELSE Object(<<>>)
Wrap(of, l) == IF of = "items" THEN Array(l) ELSE Object(Merged(l))

LEMMA BracketedText ==
    ASSUME DocumentAssumption, NEW s \in Streams, NEW of \in Kinds, Len(s) >= 1, s[1] = Opening(of)
    PROVE  /\ Len(s) = 2 /\ s[2] = Closing(of) => Denotes(s) = {Empty(of)}
           /\ Len(s) > 2 /\ s[Len(s)] = Closing(of) =>
                Denotes(s) = {Wrap(of, l) : l \in Listed(SubSeq(s, 2, Len(s) - 1), of)}
           /\ s[Len(s)] # Closing(of) => Denotes(s) = {}
<1>1. CASE of = "items"
  BY <1>1, DenotedByFirst DEF Opening, Closing, Empty, Wrap
<1>2. CASE of = "members"
  BY <1>2, DenotedByFirst DEF Opening, Closing, Empty, Wrap
<1> QED
  BY <1>1, <1>2 DEF Kinds

LEMMA BracketedPart ==
    ASSUME DocumentAssumption, NEW t \in Streams, NEW i \in 1 .. Len(t), NEW of \in Kinds,
           t[i] = Opening(of), NEW j \in i .. Len(t) + 1
    PROVE  /\ j = i + 2 /\ t[i + 1] = Closing(of) => Denotes(SubSeq(t, i, j - 1)) = {Empty(of)}
           /\ j > i + 2 /\ t[j - 1] = Closing(of) =>
                Denotes(SubSeq(t, i, j - 1)) = {Wrap(of, l) : l \in Listed(SubSeq(t, i + 1, j - 2), of)}
           /\ ~(j >= i + 2 /\ t[j - 1] = Closing(of)) => Denotes(SubSeq(t, i, j - 1)) = {}
<1>1. Len(t) \in Nat /\ i \in 1 .. Len(t) + 1
  BY DEF Streams
<1> DEFINE u == SubSeq(t, i, j - 1)
           lists == Listed(SubSeq(t, i + 1, j - 2), of)
<1>2. /\ u \in Streams /\ Len(u) = j - i
      /\ \A k \in 1 .. j - i : u[k] = t[i + k - 1]
      /\ \A a \in 1 .. j - i + 1 : \A b \in a .. j - i + 1 :
           SubSeq(u, a, b - 1) = SubSeq(t, i + a - 1, i + b - 2)
  BY <1>1, Piece
<1> SUFFICES /\ j = i + 2 /\ t[i + 1] = Closing(of) => Denotes(u) = {Empty(of)}
             /\ j > i + 2 /\ t[j - 1] = Closing(of) => Denotes(u) = {Wrap(of, l) : l \in lists}
             /\ ~(j >= i + 2 /\ t[j - 1] = Closing(of)) => Denotes(u) = {}
  OBVIOUS
<1> HIDE DEF u, lists
<1>3. Opening(of) # Closing(of)
  BY Distinct DEF Opening, Closing, Kinds
<1>4. CASE j = i
  <2>1. Len(u) = 0
    BY <1>1, <1>2, <1>4
  <2>2. Denotes(u) = {}
    BY <1>2, <2>1, DenotedByFirst
  <2> QED
    BY <1>1, <1>4, <2>2
<1>5. CASE j > i
  <2>1. /\ Len(u) >= 1 /\ u[1] = t[i] /\ u[Len(u)] = t[j - 1]
        /\ (j = i + 1 => t[j - 1] = t[i])
    <3>1. 1 \in 1 .. j - i /\ j - i \in 1 .. j - i /\ i + 1 - 1 = i /\ i + (j - i) - 1 = j - 1
      BY <1>1, <1>5
    <3>2. u[1] = t[i + 1 - 1] /\ u[j - i] = t[i + (j - i) - 1]
      BY <1>2, <3>1
    <3> QED
      BY <1>1, <1>2, <1>5, <3>1, <3>2
  <2>2. CASE j > i + 2
    <3>1. 2 \in 1 .. j - i + 1 /\ j - i \in 2 .. j - i + 1
      BY <1>1, <2>2
    <3>2. SubSeq(u, 2, (j - i) - 1) = SubSeq(t, i + 2 - 1, i + (j - i) - 2)
      BY <1>2, <3>1
    <3>3. i + 2 - 1 = i + 1 /\ i + (j - i) - 2 = j - 2 /\ j - i > 2
      BY <1>1, <2>2
    <3>4. Len(u) > 2 /\ Listed(SubSeq(u, 2, Len(u) - 1), of) = lists
      BY <1>2, <3>2, <3>3 DEF lists
    <3>5. t[j - 1] = Closing(of) => Denotes(u) = {Wrap(of, l) : l \in lists}
      BY <1>2, <2>1, <3>4, BracketedText
    <3>6. t[j - 1] # Closing(of) => Denotes(u) = {}
      BY <1>2, <2>1, BracketedText
    <3> QED
      BY <1>1, <2>2, <3>5, <3>6
  <2>3. CASE j = i + 2
    <3>1. 2 \in 1 .. j - i /\ i + 2 - 1 = i + 1 /\ j - 1 = i + 1 /\ j - i = 2
      BY <1>1, <2>3
    <3>2. u[2] = t[i + 1] /\ Len(u) = 2
      BY <1>2, <3>1
    <3>3. t[i + 1] = Closing(of) => Denotes(u) = {Empty(of)}
      BY <1>2, <2>1, <3>2, BracketedText
    <3>4. t[i + 1] # Closing(of) => Denotes(u) = {}
      BY <1>2, <2>1, <3>1, <3>2, BracketedText
    <3> QED
      BY <1>1, <2>3, <3>1, <3>3, <3>4
  <2>4. CASE j = i + 1
    <3>1. Denotes(u) = {}
      BY <1>2, <1>3, <2>1, <2>4, BracketedText
    <3> QED
      BY <1>1, <2>4, <3>1
  <2> QED
    BY <1>1, <1>5, <2>2, <2>3, <2>4
<1> QED
  BY <1>1, <1>4, <1>5

LEMMA NoListAtClosing ==
    ASSUME DocumentAssumption, NEW t \in Streams, NEW i \in 1 .. Len(t), NEW of \in Kinds,
           t[i] = Closing(of)
    PROVE  From(t, i, of) = {}
<1>1. Len(t) \in Nat /\ i \in 1 .. Len(t) + 1
  BY DEF Streams
<1>2. Closing(of) \notin Scalars \cup {"[", LeftBrace} /\ Closing(of) \notin Range(Keys)
  BY Distinct, SymbolsAreNotScalars DEF Closing, Symbols
<1>3. ElementsFrom(t, i, of) = {}
  <2>1. CASE of = "items"
    BY <1>1, <1>2, <2>1, NothingStarts, ItemsFrom
  <2>2. CASE of = "members"
    BY <1>1, <1>2, <2>2, MembersFrom
  <2> QED
    BY <2>1, <2>2 DEF Kinds
<1>4. Then(t, {}, of) = {}
  BY DEF Then
<1> QED
  BY <1>1, <1>3, <1>4, ListUnfolds

Wrapped(of, L) == {<<Wrap(of, y[1]), y[2]>> : y \in L}

LEMMA ContainerStarts ==
    ASSUME DocumentAssumption, NEW t \in Streams, NEW i \in 1 .. Len(t), NEW of \in Kinds,
           t[i] = Opening(of)
    PROVE  /\ i + 1 <= Len(t) /\ t[i + 1] = Closing(of) => Stands(t, i) = {<<Empty(of), i + 2>>}
           /\ ~(i + 1 <= Len(t) /\ t[i + 1] = Closing(of)) =>
                Stands(t, i) = Wrapped(of, From(t, i + 1, of))
<1>1. Len(t) \in Nat
  BY DEF Streams
<1> DEFINE D(j) == Denotes(SubSeq(t, i, j - 1))
           L(j) == Listed(SubSeq(t, i + 1, j - 1), of)
<1>2. \A x : x \in Stands(t, i) <=> \E j \in i .. Len(t) + 1 : \E v \in D(j) : x = <<v, j>>
  BY DEF Stands
<1>3. \A z : z \in From(t, i + 1, of) <=>
        \E j \in i + 1 .. Len(t) : t[j] = Closing(of) /\ \E l \in L(j) : z = <<l, j + 1>>
  BY DEF From
<1>4. ASSUME NEW j \in i .. Len(t) + 1
      PROVE  /\ j = i + 2 /\ t[i + 1] = Closing(of) => D(j) = {Empty(of)}
             /\ j > i + 2 /\ t[j - 1] = Closing(of) => D(j) = {Wrap(of, l) : l \in L(j - 1)}
             /\ ~(j >= i + 2 /\ t[j - 1] = Closing(of)) => D(j) = {}
  <2>1. (j - 1) - 1 = j - 2
    BY <1>1
  <2>2. L(j - 1) = Listed(SubSeq(t, i + 1, j - 2), of)
    BY <2>1
  <2> HIDE DEF L
  <2> QED
    BY <2>2, BracketedPart
<1> HIDE DEF D, L
<1>5. ASSUME i + 1 <= Len(t), t[i + 1] = Closing(of)
      PROVE  Stands(t, i) = {<<Empty(of), i + 2>>}
  <2>1. From(t, i + 1, of) = {}
    BY <1>1, <1>5, NoListAtClosing
  <2>2. ASSUME NEW j \in i .. Len(t) + 1, j # i + 2 PROVE D(j) = {}
    <3>1. CASE j > i + 2 /\ t[j - 1] = Closing(of)
      <4>1. j - 1 \in i + 1 .. Len(t) /\ (j - 1) + 1 = j
        BY <1>1, <3>1
      <4>2. L(j - 1) = {}
        BY <1>3, <2>1, <3>1, <4>1
      <4> QED
        BY <1>4, <3>1, <4>2
    <3>2. CASE ~(j > i + 2 /\ t[j - 1] = Closing(of))
      BY <1>1, <1>4, <2>2, <3>2
    <3> QED
      BY <3>1, <3>2
  <2>3. i + 2 \in i .. Len(t) + 1 /\ D(i + 2) = {Empty(of)}
    BY <1>1, <1>4, <1>5
  <2> QED
    BY <1>2, <2>2, <2>3
<1>6. ASSUME ~(i + 1 <= Len(t) /\ t[i + 1] = Closing(of))
      PROVE  Stands(t, i) = Wrapped(of, From(t, i + 1, of))
  <2>1. ASSUME NEW x \in Stands(t, i) PROVE x \in Wrapped(of, From(t, i + 1, of))
    <3>1. PICK j \in i .. Len(t) + 1 : \E v \in D(j) : x = <<v, j>>
      BY <1>2
    <3>2. j > i + 2 /\ t[j - 1] = Closing(of)
      <4>1. j >= i + 2 /\ t[j - 1] = Closing(of)
        BY <1>4, <3>1
      <4>2. j # i + 2
        BY <1>1, <1>6, <4>1
      <4> QED
        BY <1>1, <4>1, <4>2
    <3>3. PICK l \in L(j - 1) : x = <<Wrap(of, l), j>>
      BY <1>4, <3>1, <3>2
    <3>4. j - 1 \in i + 1 .. Len(t) /\ (j - 1) + 1 = j
      BY <1>1, <3>2
    <3>5. <<l, j>> \in From(t, i + 1, of)
      BY <1>3, <3>2, <3>4
    <3> QED
      BY <3>3, <3>5 DEF Wrapped
  <2>2. ASSUME NEW x \in Wrapped(of, From(t, i + 1, of)) PROVE x \in Stands(t, i)
    <3>1. PICK y \in From(t, i + 1, of) : x = <<Wrap(of, y[1]), y[2]>>
      BY DEF Wrapped
    <3>2. PICK c \in i + 1 .. Len(t) : t[c] = Closing(of) /\ \E l \in L(c) : y = <<l, c + 1>>
      BY <1>3
    <3> PICK l \in L(c) : y = <<l, c + 1>>
      BY <3>2
    <3>3. x = <<Wrap(of, l), c + 1>>
      BY <3>1
    <3>4. (c + 1) - 1 = c /\ c + 1 \in i .. Len(t) + 1 /\ c + 1 > i + 2
      <4>1. c # i + 1
        BY <1>1, <1>6, <3>2
      <4> QED
        BY <1>1, <4>1
    <3>5. D(c + 1) = {Wrap(of, k) : k \in L(c)}
      BY <1>4, <3>2, <3>4
    <3> QED
      BY <1>2, <3>3, <3>4, <3>5
  <2> QED
    BY <2>1, <2>2
<1> QED
  BY <1>5, <1>6

-----------------------------------------------------------------------------
(* The text without its blanks: the place in it of every place of the text.   *)

\* The numbers of a set, in order.
UpToIn(S, i) == {j \in S : j <= i}

LEMMA Ranked ==
    ASSUME NEW S \in SUBSET Int, IsFiniteSet(S)
    PROVE  /\ Cardinality(S) \in Nat
           /\ \A i \in S : Cardinality(UpToIn(S, i)) \in 1 .. Cardinality(S)
           /\ \A i \in S, k \in S : i < k => Cardinality(UpToIn(S, i)) < Cardinality(UpToIn(S, k))
           /\ \A n \in 1 .. Cardinality(S) : \E i \in S : Cardinality(UpToIn(S, i)) = n
<1> DEFINE N == Cardinality(S)
           r(i) == Cardinality(UpToIn(S, i))
           f == [i \in S |-> r(i)]
<1>1. N \in Nat /\ \A i \in S : i \in Int
  BY FS_CardinalityType
<1>2. \A i : UpToIn(S, i) \in SUBSET S
  BY DEF UpToIn
<1>3. \A i : IsFiniteSet(UpToIn(S, i)) /\ r(i) \in Nat /\ r(i) <= N
  BY <1>1, <1>2, FS_Subset, FS_CardinalityType
<1>4. ASSUME NEW i \in S, NEW k \in S, i < k PROVE r(i) < r(k)
  <2>1. UpToIn(S, i) \in SUBSET UpToIn(S, k) /\ k \in UpToIn(S, k) /\ k \notin UpToIn(S, i)
    <3>1. \A j \in S : j <= i => j <= k
      BY <1>1, <1>4
    <3>2. k <= k /\ ~(k <= i)
      BY <1>1, <1>4
    <3> QED
      BY <3>1, <3>2 DEF UpToIn
  <2>2. r(i) <= r(k) /\ r(i) # r(k)
    BY <1>3, <2>1, FS_Subset
  <2> QED
    BY <1>3, <2>2
<1>5. ASSUME NEW i \in S PROVE r(i) \in 1 .. N
  <2>1. r(i) # 0
    <3>1. i \in UpToIn(S, i)
      BY <1>1 DEF UpToIn
    <3> QED
      BY <1>3, <3>1, FS_EmptySet
  <2> QED
    BY <1>1, <1>3, <2>1
<1>6. f \in Injection(S, 1 .. N)
  <2>1. f \in [S -> 1 .. N]
    BY <1>5
  <2>2. ASSUME NEW i \in S, NEW k \in S, f[i] = f[k] PROVE i = k
    <3>1. r(i) = r(k)
      BY <2>2
    <3> HIDE DEF r
    <3>2. ~(i < k) /\ ~(k < i)
      BY <1>3, <1>4, <3>1
    <3> QED
      BY <1>1, <3>2
  <2> QED
    BY <2>1, <2>2 DEF Injection, IsInjective
<1>7. IsFiniteSet(1 .. N) /\ Cardinality(1 .. N) = N
  BY <1>1, FS_Interval
<1>8. f \in Surjection(S, 1 .. N)
  BY <1>6, <1>7, FS_Injection
<1>9. \A n \in 1 .. N : \E i \in S : f[i] = n
  BY <1>8 DEF Surjection
<1>10. \A n \in 1 .. N : \E i \in S : r(i) = n
  BY <1>9
<1> QED
  BY <1>1, <1>4, <1>5, <1>10

LEMMA AscendingIs ==
    ASSUME NEW S \in SUBSET Int, IsFiniteSet(S)
    PROVE  /\ Ascending(S) \in Seq(S) /\ Len(Ascending(S)) = Cardinality(S)
           /\ DOMAIN Ascending(S) = 1 .. Cardinality(S)
           /\ \A i \in S : Ascending(S)[Cardinality(UpToIn(S, i))] = i
           /\ \A n \in 1 .. Cardinality(S) : Cardinality(UpToIn(S, Ascending(S)[n])) = n
<1> DEFINE N == Cardinality(S)
           r(i) == Cardinality(UpToIn(S, i))
<1>1. N \in Nat /\ \A i \in S : i \in Int
  BY Ranked
<1>2. \A n : Nth(S, n) = CHOOSE i \in S : r(i) = n
  BY DEF Nth, UpToIn
<1>3. \A n \in 1 .. N : \E i \in S : r(i) = n
  BY Ranked
<1>4. \A i \in S : r(i) \in 1 .. N
  BY Ranked
<1>5. \A i \in S, k \in S : i < k => r(i) < r(k)
  BY Ranked
<1> HIDE DEF r
<1>6. \A n \in 1 .. N : Nth(S, n) \in S /\ r(Nth(S, n)) = n
  BY <1>2, <1>3
<1>7. ASSUME NEW i \in S PROVE Nth(S, r(i)) = i
  <2> DEFINE k == Nth(S, r(i))
  <2>1. k \in S /\ r(k) = r(i)
    BY <1>4, <1>6
  <2> HIDE DEF k
  <2>2. ~(i < k) /\ ~(k < i)
    BY <1>4, <1>5, <2>1
  <2>3. k = i
    BY <1>1, <2>1, <2>2
  <2> QED
    BY <2>3 DEF k
<1>8. Ascending(S) = [n \in 1 .. N |-> Nth(S, n)]
  BY DEF Ascending
<1>9. Ascending(S) \in Seq(S) /\ Len(Ascending(S)) = N /\ DOMAIN Ascending(S) = 1 .. N
  BY <1>1, <1>6, <1>8
<1> QED
  BY <1>4, <1>6, <1>7, <1>8, <1>9 DEF r

-----------------------------------------------------------------------------
\* The tokens that are not blank, and where one of them is in the text without
\* the blanks.
Solid(s) == {i \in DOMAIN s : s[i] # Space}
Position(s, i) == Cardinality({j \in Solid(s) : j < i}) + 1

LEMMA Positions ==
    ASSUME NEW s \in Streams
    PROVE  /\ Compact(s) \in Streams /\ Len(Compact(s)) \in Nat
           /\ \A i \in 1 .. Len(s) + 1 : Position(s, i) \in 1 .. Len(Compact(s)) + 1
           /\ Position(s, 1) = 1 /\ Position(s, Len(s) + 1) = Len(Compact(s)) + 1
           /\ \A i \in 1 .. Len(s) : s[i] # Space =>
                /\ Position(s, i) \in 1 .. Len(Compact(s)) /\ Compact(s)[Position(s, i)] = s[i]
                /\ Position(s, i + 1) = Position(s, i) + 1
           /\ \A i \in 1 .. Len(s) + 1 : \A k \in i .. Len(s) + 1 :
                (\A j \in i .. k - 1 : s[j] = Space) => Position(s, k) = Position(s, i)
<1> DEFINE S == Solid(s)
           N == Cardinality(S)
           B(i) == {j \in S : j < i}
<1>1. Len(s) \in Nat /\ DOMAIN s = 1 .. Len(s) /\ \A i \in 1 .. Len(s) : s[i] \in Tokens
  BY DEF Streams
<1>2. S \in SUBSET (1 .. Len(s)) /\ \A i \in 1 .. Len(s) : i \in S <=> s[i] # Space
  BY <1>1 DEF Solid
<1>3. IsFiniteSet(S) /\ N \in Nat /\ S \in SUBSET Int /\ \A i \in S : i \in 1 .. Len(s)
  <2>1. IsFiniteSet(1 .. Len(s))
    BY <1>1, FS_Interval
  <2>2. IsFiniteSet(S)
    BY <1>2, <2>1, FS_Subset
  <2> QED
    BY <1>1, <1>2, <2>2, FS_CardinalityType
<1>4. \A i : Position(s, i) = Cardinality(B(i)) + 1
  BY DEF Position
<1>5. Compact(s) = [n \in DOMAIN Ascending(S) |-> s[Ascending(S)[n]]]
  BY DEF Compact, Solid
<1> HIDE DEF S
<1>6. \A i : B(i) \in SUBSET S /\ IsFiniteSet(B(i)) /\ Cardinality(B(i)) \in Nat /\ Cardinality(B(i)) <= N
  BY <1>3, FS_Subset, FS_CardinalityType
<1>7. /\ Ascending(S) \in Seq(S) /\ Len(Ascending(S)) = N /\ DOMAIN Ascending(S) = 1 .. N
      /\ \A i \in S : Ascending(S)[Cardinality(UpToIn(S, i))] = i
  BY <1>3, AscendingIs
<1>8. Compact(s) \in Streams /\ Len(Compact(s)) = N
  <2>1. \A n \in 1 .. N : Ascending(S)[n] \in S
    BY <1>7
  <2>2. \A n \in 1 .. N : s[Ascending(S)[n]] \in Tokens
    BY <1>1, <1>2, <2>1
  <2> QED
    BY <1>3, <1>5, <1>7, <2>2 DEF Streams
<1>9. ASSUME NEW i \in S
      PROVE  /\ Cardinality(B(i)) + 1 \in 1 .. N /\ Cardinality(B(i + 1)) = Cardinality(B(i)) + 1
             /\ Compact(s)[Cardinality(B(i)) + 1] = s[i]
  <2>0. \A j \in S : (j <= i <=> j < i \/ j = i) /\ (j < i + 1 <=> j < i \/ j = i)
    BY <1>1, <1>3
  <2>1. UpToIn(S, i) = B(i) \cup {i} /\ B(i + 1) = B(i) \cup {i} /\ i \notin B(i)
    <3>1. ~(i < i)
      BY <1>1, <1>3
    <3>2. UpToIn(S, i) = B(i) \cup {i}
      BY <2>0 DEF UpToIn
    <3>3. B(i + 1) = B(i) \cup {i}
      BY <2>0
    <3> QED
      BY <3>1, <3>2, <3>3
  <2> HIDE DEF B
  <2>2. Cardinality(UpToIn(S, i)) = Cardinality(B(i)) + 1 /\ Cardinality(B(i + 1)) = Cardinality(B(i)) + 1
    BY <1>6, <2>1, FS_AddElement
  <2>3. Cardinality(B(i)) + 1 \in 1 .. N
    BY <1>3, <1>6, <2>2
  <2>4. Compact(s)[Cardinality(B(i)) + 1] = s[Ascending(S)[Cardinality(UpToIn(S, i))]]
    BY <1>5, <1>7, <2>2, <2>3
  <2> QED
    BY <1>7, <2>2, <2>3, <2>4
<1>10. B(1) = {} /\ B(Len(s) + 1) = S
  <2>1. \A j \in S : ~(j < 1) /\ j < Len(s) + 1
    BY <1>1, <1>3
  <2> QED
    BY <2>1
<1>11. ASSUME NEW i \in 1 .. Len(s) + 1, NEW k \in i .. Len(s) + 1, \A j \in i .. k - 1 : s[j] = Space
       PROVE  B(k) = B(i)
  <2>1. \A j \in S : j < k <=> j < i
    <3> SUFFICES ASSUME NEW j \in S, j < k PROVE j < i
      BY <1>1, <1>3
    <3>1. j \in 1 .. Len(s) /\ s[j] # Space
      BY <1>2, <1>3
    <3>2. j \notin i .. k - 1
      BY <1>11, <3>1
    <3> QED
      BY <1>1, <3>1, <3>2
  <2> QED
    BY <2>1
<1> HIDE DEF B
<1>12. Position(s, 1) = 1 /\ Position(s, Len(s) + 1) = N + 1
  BY <1>4, <1>10, FS_EmptySet
<1>13. \A i : Position(s, i) \in 1 .. N + 1
  BY <1>3, <1>4, <1>6
<1>14. ASSUME NEW i \in 1 .. Len(s), s[i] # Space
       PROVE  /\ Position(s, i) \in 1 .. N /\ Compact(s)[Position(s, i)] = s[i]
              /\ Position(s, i + 1) = Position(s, i) + 1
  <2>1. i \in S
    BY <1>2, <1>14
  <2> QED
    BY <1>4, <1>9, <2>1
<1>15. ASSUME NEW i \in 1 .. Len(s) + 1, NEW k \in i .. Len(s) + 1, \A j \in i .. k - 1 : s[j] = Space
       PROVE  Position(s, k) = Position(s, i)
  BY <1>4, <1>11, <1>15
<1> QED
  BY <1>3, <1>8, <1>12, <1>13, <1>14, <1>15

-----------------------------------------------------------------------------
(* Lists of anything; what Skip passes over; the keys of some pairs.          *)

\* Sequences of anything.
IsList(s) == \E S : s \in Seq(S)

LEMMA ListIs ==
    ASSUME NEW s, IsList(s)
    PROVE  Len(s) \in Nat /\ DOMAIN s = 1 .. Len(s) /\ s = [i \in 1 .. Len(s) |-> s[i]]
<1> PICK S : s \in Seq(S)
  BY DEF IsList
<1>1. Len(s) \in Nat /\ s \in [1 .. Len(s) -> S]
  BY LenProperties
<1> QED
  BY <1>1

LEMMA ListsEqual ==
    ASSUME NEW s, NEW u, IsList(s), IsList(u), Len(s) = Len(u), \A i \in 1 .. Len(s) : s[i] = u[i]
    PROVE  s = u
BY ListIs

Extends(a, s, v) ==
    /\ IsList(a) /\ Len(a) = Len(s) + 1 /\ DOMAIN a = 1 .. Len(s) + 1
    /\ \A i \in 1 .. Len(s) : a[i] = s[i]
    /\ a[Len(s) + 1] = v

LEMMA ListAppend ==
    ASSUME NEW s, NEW v, IsList(s)
    PROVE  Extends(Append(s, v), s, v) /\ Append(s, v) = s \o <<v>>
<1> PICK S : s \in Seq(S)
  BY DEF IsList
<1> DEFINE T == S \cup {v}
<1>1. s \in Seq(T) /\ v \in T
  BY SeqMonotonic, S \subseteq T
<1> HIDE DEF T
<1>2. Append(s, v) \in Seq(T) /\ Append(s, v) = s \o <<v>>
  BY <1>1, AppendProperties, AppendIsConcat
<1>3. /\ Len(Append(s, v)) = Len(s) + 1 /\ \A i \in 1 .. Len(s) : Append(s, v)[i] = s[i]
      /\ Append(s, v)[Len(s) + 1] = v
  BY <1>1, AppendProperties
<1>4. DOMAIN Append(s, v) = 1 .. Len(Append(s, v))
  BY <1>2, LenProperties
<1> QED
  BY <1>2, <1>3, <1>4 DEF IsList, Extends

LEMMA ListsJoin ==
    ASSUME NEW s, NEW u, NEW v, IsList(s), IsList(u)
    PROVE  /\ IsList(<<v>>) /\ IsList(s \o u)
           /\ Append(s, v) \o u = s \o (<<v>> \o u)
<1> PICK S : s \in Seq(S)
  BY DEF IsList
<1> PICK U : u \in Seq(U)
  BY DEF IsList
<1> DEFINE T == S \cup U \cup {v}
<1>1. s \in Seq(T) /\ u \in Seq(T) /\ <<v>> \in Seq(T)
  <2>1. s \in Seq(T)
    BY SeqMonotonic, S \subseteq T
  <2>2. u \in Seq(T)
    BY SeqMonotonic, U \subseteq T
  <2> QED
    BY <2>1, <2>2
<1> HIDE DEF T
<1>2. (s \o <<v>>) \o u = s \o (<<v>> \o u)
  BY <1>1, ConcatAssociative
<1>3. s \o u \in Seq(T)
  BY <1>1, ConcatProperties
<1> QED
  BY <1>1, <1>2, <1>3, ListAppend DEF IsList, Extends

\* The least and the greatest number of a set.
LEMMA MinIs ==
    ASSUME NEW T \in SUBSET Nat, T # {}
    PROVE  Min(T) \in T /\ \A m \in T : Min(T) <= m
BY LeastOf DEF Min

LEMMA MaxIs ==
    ASSUME NEW n \in Nat, NEW T \in SUBSET (0 .. n), T # {}
    PROVE  Max(T) \in T /\ \A m \in T : m <= Max(T)
<1> DEFINE D == {n - m : m \in T}
<1>1. D \in SUBSET Nat /\ D # {}
  <2>1. \A m \in T : n - m \in Nat
    OBVIOUS
  <2>2. D # {}
    OBVIOUS
  <2> QED
    BY <2>1, <2>2
<1>2. PICK d \in D : \A e \in D : d <= e
  BY <1>1, LeastOf
<1>3. PICK k \in T : d = n - k
  BY <1>2
<1>4. \A m \in T : m \in Int /\ k \in Int
  OBVIOUS
<1>5. \A m \in T : n - k <= n - m
  BY <1>2, <1>3
<1>6. \A m \in T : k >= m
  BY <1>4, <1>5
<1>7. \E x \in T : \A y \in T : x >= y
  BY <1>6
<1>8. Max(T) \in T /\ \A y \in T : Max(T) >= y
  BY <1>7 DEF Max
<1> QED
  BY <1>4, <1>8

LEMMA SkipIs ==
    ASSUME tokens \in Streams, NEW i \in 1 .. Len(tokens) + 1
    PROVE  /\ Skip(i) \in i .. Len(tokens) + 1
           /\ Skip(i) <= Len(tokens) => tokens[Skip(i)] # Space
           /\ \A j \in i .. Skip(i) - 1 : tokens[j] = Space
           /\ Position(tokens, Skip(i)) = Position(tokens, i)
<1>1. Len(tokens) \in Nat
  BY DEF Streams
<1> DEFINE T == {j \in i .. Len(tokens) : tokens[j] # Space} \cup {Len(tokens) + 1}
<1>2. Max({i, Len(tokens) + 1}) = Len(tokens) + 1
  <2>1. {i, Len(tokens) + 1} \in SUBSET (0 .. Len(tokens) + 1) /\ Len(tokens) + 1 \in Nat
    BY <1>1
  <2>2. /\ Max({i, Len(tokens) + 1}) \in {i, Len(tokens) + 1}
        /\ Len(tokens) + 1 <= Max({i, Len(tokens) + 1})
    BY <2>1, MaxIs
  <2> QED
    BY <1>1, <2>2
<1>3. Skip(i) = Min(T)
  BY <1>2 DEF Skip
<1>4. T \in SUBSET Nat /\ T # {}
  BY <1>1
<1>5. Min(T) \in T /\ \A m \in T : Min(T) <= m
  <2> HIDE DEF T
  <2> QED
    BY <1>4, MinIs
<1>6. Skip(i) \in i .. Len(tokens) + 1 /\ (Skip(i) <= Len(tokens) => tokens[Skip(i)] # Space)
  BY <1>1, <1>3, <1>5
<1>7. ASSUME NEW j \in i .. Skip(i) - 1 PROVE tokens[j] = Space
  <2>1. j \in i .. Len(tokens) /\ ~(Min(T) <= j)
    BY <1>1, <1>3, <1>6
  <2> QED
    BY <1>5, <2>1
<1>8. Position(tokens, Skip(i)) = Position(tokens, i)
  BY <1>6, <1>7, Positions
<1> QED
  BY <1>6, <1>7, <1>8

-----------------------------------------------------------------------------
\* One pair for every key.
SameKey(p, i) == {j \in DOMAIN p : p[j].key = p[i].key}
Firsts(p) == {i \in DOMAIN p : i = Min(SameKey(p, i))}

LEMMA MergedBy ==
    \A p : Merged(p) = [n \in DOMAIN Ascending(Firsts(p)) |-> p[Max(SameKey(p, Ascending(Firsts(p))[n]))]]
BY DEF Merged, SameKey, Firsts

LEMMA KeysOf ==
    ASSUME NEW p, IsList(p)
    PROVE  /\ Firsts(p) \in SUBSET (1 .. Len(p)) /\ Firsts(p) \in SUBSET Int /\ IsFiniteSet(Firsts(p))
           /\ \A i \in 1 .. Len(p) :
                /\ SameKey(p, i) \in SUBSET (1 .. Len(p)) /\ i \in SameKey(p, i)
                /\ Min(SameKey(p, i)) \in SameKey(p, i) /\ Min(SameKey(p, i)) \in Firsts(p)
                /\ \A j \in SameKey(p, i) : Min(SameKey(p, i)) <= j /\ SameKey(p, j) = SameKey(p, i)
                /\ Max(SameKey(p, i)) \in SameKey(p, i)
                /\ \A j \in SameKey(p, i) : j <= Max(SameKey(p, i))
<1>1. Len(p) \in Nat /\ DOMAIN p = 1 .. Len(p)
  BY ListIs
<1>2. Firsts(p) \in SUBSET (1 .. Len(p)) /\ Firsts(p) \in SUBSET Int
  BY <1>1 DEF Firsts
<1>3. IsFiniteSet(Firsts(p))
  <2>1. IsFiniteSet(1 .. Len(p))
    BY <1>1, FS_Interval
  <2> QED
    BY <1>2, <2>1, FS_Subset
<1>4. ASSUME NEW i \in 1 .. Len(p)
      PROVE  /\ SameKey(p, i) \in SUBSET (1 .. Len(p)) /\ i \in SameKey(p, i)
             /\ \A j \in SameKey(p, i) : SameKey(p, j) = SameKey(p, i)
  BY <1>1 DEF SameKey
<1>5. ASSUME NEW i \in 1 .. Len(p)
      PROVE  /\ Min(SameKey(p, i)) \in SameKey(p, i) /\ \A j \in SameKey(p, i) : Min(SameKey(p, i)) <= j
             /\ Max(SameKey(p, i)) \in SameKey(p, i) /\ \A j \in SameKey(p, i) : j <= Max(SameKey(p, i))
  <2>1. SameKey(p, i) \in SUBSET Nat /\ SameKey(p, i) \in SUBSET (0 .. Len(p)) /\ SameKey(p, i) # {}
    BY <1>1, <1>4
  <2> QED
    BY <1>1, <2>1, MinIs, MaxIs
<1>6. ASSUME NEW i \in 1 .. Len(p) PROVE Min(SameKey(p, i)) \in Firsts(p)
  <2> DEFINE m == Min(SameKey(p, i))
  <2>1. m \in SameKey(p, i)
    BY <1>5
  <2>2. m \in DOMAIN p /\ SameKey(p, m) = SameKey(p, i)
    BY <1>1, <1>4, <2>1
  <2>3. m = Min(SameKey(p, m))
    BY <2>2
  <2> QED
    BY <2>2, <2>3 DEF Firsts
<1> QED
  BY <1>2, <1>3, <1>4, <1>5, <1>6

-----------------------------------------------------------------------------
(* Of every key the first place and the last value: one more pair.            *)

LEMMA MergedIs ==
    ASSUME NEW p, IsList(p)
    PROVE  /\ IsList(Merged(p)) /\ Len(Merged(p)) = Cardinality(Firsts(p))
           /\ DOMAIN Merged(p) = 1 .. Cardinality(Firsts(p)) /\ Cardinality(Firsts(p)) \in Nat
           /\ \A i \in Firsts(p) :
                /\ Cardinality(UpToIn(Firsts(p), i)) \in 1 .. Cardinality(Firsts(p))
                /\ Merged(p)[Cardinality(UpToIn(Firsts(p), i))] = p[Max(SameKey(p, i))]
           /\ \A n \in 1 .. Cardinality(Firsts(p)) :
                \E i \in Firsts(p) : n = Cardinality(UpToIn(Firsts(p), i))
           /\ \A n \in DOMAIN Merged(p), m \in DOMAIN Merged(p) :
                Merged(p)[n].key = Merged(p)[m].key => n = m
<1> DEFINE F == Firsts(p)
           N == Cardinality(F)
           r(i) == Cardinality(UpToIn(F, i))
           A == Ascending(F)
<1>1. F \in SUBSET (1 .. Len(p)) /\ F \in SUBSET Int /\ IsFiniteSet(F)
  BY KeysOf
<1>2. /\ N \in Nat /\ DOMAIN A = 1 .. N
      /\ \A i \in F : r(i) \in 1 .. N /\ A[r(i)] = i
      /\ \A n \in 1 .. N : A[n] \in F /\ n = r(A[n])
  <2> HIDE DEF F
  <2>1. A \in Seq(F) /\ Len(A) = N
    BY <1>1, AscendingIs
  <2>2. \A n \in 1 .. N : A[n] \in F
    BY <2>1, ElementOfSeq
  <2> QED
    BY <1>1, <2>2, Ranked, AscendingIs
<1>3. Merged(p) = [n \in 1 .. N |-> p[Max(SameKey(p, A[n]))]]
  BY <1>2, MergedBy
<1> HIDE DEF F, r, A, N
<1>4. IsList(Merged(p)) /\ Len(Merged(p)) = N /\ DOMAIN Merged(p) = 1 .. N
  <2>1. \A n \in 1 .. N : p[Max(SameKey(p, A[n]))] \in {p[Max(SameKey(p, A[k]))] : k \in 1 .. N}
    OBVIOUS
  <2>2. Merged(p) \in Seq({p[Max(SameKey(p, A[k]))] : k \in 1 .. N}) /\ Len(Merged(p)) = N
    BY <1>2, <1>3, <2>1
  <2>3. DOMAIN Merged(p) = 1 .. N
    BY <1>3
  <2> QED
    BY <2>2, <2>3 DEF IsList
<1>5. \A i \in F : r(i) \in 1 .. N /\ Merged(p)[r(i)] = p[Max(SameKey(p, i))]
  BY <1>2, <1>3
<1>6. \A n \in 1 .. N : \E i \in F : n = r(i)
  BY <1>2
<1>7. ASSUME NEW n \in 1 .. N, NEW m \in 1 .. N, Merged(p)[n].key = Merged(p)[m].key PROVE n = m
  <2>1. PICK i \in F : n = r(i)
    BY <1>6
  <2>2. PICK k \in F : m = r(k)
    BY <1>6
  <2>3. /\ SameKey(p, i) = SameKey(p, Max(SameKey(p, i))) /\ i = Min(SameKey(p, i))
        /\ SameKey(p, k) = SameKey(p, Max(SameKey(p, k))) /\ k = Min(SameKey(p, k))
    <3>1. \A x \in F : SameKey(p, x) = SameKey(p, Max(SameKey(p, x)))
      BY <1>1, KeysOf
    <3>2. \A x \in F : x = Min(SameKey(p, x))
      BY DEF F, Firsts
    <3> QED
      BY <3>1, <3>2
  <2>4. p[Max(SameKey(p, i))].key = p[Max(SameKey(p, k))].key
    BY <1>5, <1>7, <2>1, <2>2
  <2>5. SameKey(p, Max(SameKey(p, i))) = SameKey(p, Max(SameKey(p, k)))
    BY <2>4 DEF SameKey
  <2>6. i = k
    BY <2>3, <2>5
  <2> QED
    BY <2>1, <2>2, <2>6
<1> QED
  BY <1>2, <1>4, <1>5, <1>6, <1>7 DEF F, r, N

LEMMA MergedOfMore ==
    ASSUME NEW p, NEW x, IsList(p)
    PROVE  Merged(Append(p, x)) = Put(Merged(p), x)
<1> DEFINE m == Len(p)
           q == Append(p, x)
           F == Firsts(p)
           G == Firsts(q)
           N == Cardinality(F)
<1>1. m \in Nat /\ DOMAIN p = 1 .. m
  BY ListIs
<1>2. /\ IsList(q) /\ Len(q) = m + 1 /\ DOMAIN q = 1 .. m + 1
      /\ q[m + 1] = x /\ \A i \in 1 .. m : q[i] = p[i]
  <2>1. Extends(q, p, x)
    BY ListAppend
  <2> HIDE DEF q
  <2> QED
    BY <2>1 DEF Extends
<1> HIDE DEF m, q
\* The same key, with one more pair.
<1>3. ASSUME NEW i \in 1 .. m
      PROVE  /\ p[i].key = x.key => SameKey(q, i) = SameKey(p, i) \cup {m + 1}
             /\ p[i].key # x.key => SameKey(q, i) = SameKey(p, i)
  BY <1>1, <1>2 DEF SameKey
<1>4. /\ \A i \in 1 .. m : p[i].key # x.key => i \notin SameKey(q, m + 1)
      /\ \A i \in 1 .. m : p[i].key = x.key => SameKey(q, m + 1) = SameKey(q, i)
      /\ (\A i \in 1 .. m : p[i].key # x.key) => SameKey(q, m + 1) = {m + 1}
  <2>1. \A j \in 1 .. m : j \in 1 .. m + 1 /\ q[j] = p[j] /\ j # m + 1
    BY <1>1, <1>2
  <2>2. m + 1 \in 1 .. m + 1 /\ \A j \in 1 .. m + 1 : j = m + 1 \/ j \in 1 .. m
    BY <1>1
  <2> QED
    BY <1>2, <2>1, <2>2 DEF SameKey
<1>5. ASSUME NEW i \in 1 .. m PROVE Min(SameKey(q, i)) = Min(SameKey(p, i))
  <2>1. CASE p[i].key # x.key
    BY <1>3, <2>1
  <2>2. CASE p[i].key = x.key
    <3>1. /\ Min(SameKey(p, i)) \in SameKey(p, i) /\ SameKey(p, i) \in SUBSET (1 .. m)
          /\ \A j \in SameKey(p, i) : Min(SameKey(p, i)) <= j
      BY KeysOf DEF m
    <3>2. i \in 1 .. Len(q)
      BY <1>1, <1>2
    <3>3. Min(SameKey(q, i)) \in SameKey(q, i) /\ \A j \in SameKey(q, i) : Min(SameKey(q, i)) <= j
      BY <1>2, <3>2, KeysOf
    <3>4. SameKey(q, i) = SameKey(p, i) \cup {m + 1}
      BY <1>3, <2>2
    <3>5. Min(SameKey(p, i)) \in 1 .. m
      BY <3>1
    <3>6. Min(SameKey(q, i)) # m + 1
      <4>1. Min(SameKey(q, i)) <= Min(SameKey(p, i))
        BY <3>1, <3>3, <3>4
      <4> QED
        BY <1>1, <3>5, <4>1
    <3>7. Min(SameKey(q, i)) \in SameKey(p, i)
      BY <3>3, <3>4, <3>6
    <3>8. Min(SameKey(q, i)) <= Min(SameKey(p, i)) /\ Min(SameKey(p, i)) <= Min(SameKey(q, i))
      BY <3>1, <3>3, <3>4, <3>7
    <3>9. Min(SameKey(q, i)) \in Int /\ Min(SameKey(p, i)) \in Int
      BY <3>1, <3>5, <3>7
    <3> QED
      BY <3>8, <3>9
  <2> QED
    BY <2>1, <2>2
<1>6. ASSUME NEW i \in 1 .. m
      PROVE  q[Max(SameKey(q, i))] = IF p[i].key = x.key THEN x ELSE p[Max(SameKey(p, i))]
  <2>1. CASE p[i].key # x.key
    <3>1. Max(SameKey(p, i)) \in 1 .. m
      BY KeysOf DEF m
    <3>2. SameKey(q, i) = SameKey(p, i)
      BY <1>3, <2>1
    <3> QED
      BY <1>2, <2>1, <3>1, <3>2
  <2>2. CASE p[i].key = x.key
    <3>1. i \in 1 .. Len(q)
      BY <1>1, <1>2
    <3>2. Max(SameKey(q, i)) \in SameKey(q, i) /\ \A j \in SameKey(q, i) : j <= Max(SameKey(q, i))
      BY <1>2, <3>1, KeysOf
    <3>3. SameKey(q, i) \in SUBSET (1 .. m + 1) /\ m + 1 \in SameKey(q, i)
      BY <1>2, <1>3, <2>2, <3>1, KeysOf
    <3>4. Max(SameKey(q, i)) = m + 1
      <4>1. m + 1 <= Max(SameKey(q, i)) /\ Max(SameKey(q, i)) \in 1 .. m + 1
        BY <3>2, <3>3
      <4> QED
        BY <1>1, <4>1
    <3> QED
      BY <1>2, <2>2, <3>4
  <2> QED
    BY <2>1, <2>2
<1>7. \A i \in 1 .. m : i \in G <=> i \in F
  <2>1. \A i \in 1 .. m : i \in DOMAIN p /\ i \in DOMAIN q
    BY <1>1, <1>2
  <2> QED
    BY <1>5, <2>1 DEF Firsts
<1>8. F \in SUBSET (1 .. m) /\ IsFiniteSet(F) /\ G \in SUBSET (1 .. m + 1)
  BY <1>2, KeysOf DEF m
<1>9. /\ IsList(Merged(p)) /\ Len(Merged(p)) = N /\ DOMAIN Merged(p) = 1 .. N /\ N \in Nat
      /\ \A i \in F : /\ Cardinality(UpToIn(F, i)) \in 1 .. N
                      /\ Merged(p)[Cardinality(UpToIn(F, i))] = p[Max(SameKey(p, i))]
      /\ \A n \in 1 .. N : \E i \in F : n = Cardinality(UpToIn(F, i))
      /\ \A a \in DOMAIN Merged(p), b \in DOMAIN Merged(p) : Merged(p)[a].key = Merged(p)[b].key => a = b
  BY MergedIs
<1>10. /\ IsList(Merged(q)) /\ Len(Merged(q)) = Cardinality(G)
       /\ \A i \in G : Merged(q)[Cardinality(UpToIn(G, i))] = q[Max(SameKey(q, i))]
  BY <1>2, MergedIs
<1>11. \A i \in F : p[Max(SameKey(p, i))].key = p[i].key
  <2>1. \A i \in F : i \in 1 .. m /\ Max(SameKey(p, i)) \in SameKey(p, i)
    BY <1>8, KeysOf DEF m
  <2> QED
    BY <2>1 DEF SameKey
<1> HIDE DEF F, G, N
<1>12. CASE \A i \in 1 .. m : p[i].key # x.key
  <2>1. m + 1 \in G
    <3>1. Min({m + 1}) = m + 1
      BY <1>1 DEF Min
    <3>2. SameKey(q, m + 1) = {m + 1} /\ m + 1 \in DOMAIN q
      BY <1>1, <1>2, <1>4, <1>12
    <3> QED
      BY <3>1, <3>2 DEF G, Firsts
  <2>2. G = F \cup {m + 1} /\ m + 1 \notin F
    <3>1. m + 1 \notin 1 .. m /\ \A i \in 1 .. m + 1 : i = m + 1 \/ i \in 1 .. m
      BY <1>1
    <3> QED
      BY <1>7, <1>8, <2>1, <3>1
  <2>3. Cardinality(G) = N + 1
    BY <1>8, <2>2, FS_AddElement DEF N
  <2>4. \A i \in F : UpToIn(G, i) = UpToIn(F, i)
    <3>1. \A i \in F : ~(m + 1 <= i)
      BY <1>1, <1>8
    <3> QED
      BY <2>2, <3>1 DEF UpToIn
  <2>5. UpToIn(G, m + 1) = G
    <3>1. \A i \in G : i <= m + 1
      BY <1>1, <1>8
    <3> QED
      BY <3>1 DEF UpToIn
  <2>6. ASSUME NEW n \in 1 .. N PROVE Merged(q)[n] = Merged(p)[n]
    <3>1. PICK i \in F : n = Cardinality(UpToIn(F, i))
      BY <1>9
    <3>2. i \in G /\ i \in 1 .. m /\ p[i].key # x.key
      BY <1>8, <1>12, <2>2
    <3>3. Merged(q)[n] = q[Max(SameKey(q, i))] /\ Merged(p)[n] = p[Max(SameKey(p, i))]
      BY <1>9, <1>10, <2>4, <3>1, <3>2
    <3> QED
      BY <1>6, <3>2, <3>3
  <2>7. Merged(q)[N + 1] = x
    <3>1. Merged(q)[N + 1] = q[Max(SameKey(q, m + 1))]
      BY <1>10, <2>1, <2>3, <2>5
    <3>2. Max({m + 1}) = m + 1
      BY <1>1 DEF Max
    <3> QED
      BY <1>2, <1>4, <1>12, <3>1, <3>2
  <2>8. Merged(q) = Append(Merged(p), x)
    <3> DEFINE a == Append(Merged(p), x)
    <3>0. Extends(a, Merged(p), x)
      BY <1>9, ListAppend
    <3> HIDE DEF a
    <3>1. IsList(a) /\ Len(a) = N + 1 /\ a[N + 1] = x /\ \A n \in 1 .. N : a[n] = Merged(p)[n]
      BY <1>9, <3>0 DEF Extends
    <3>2. \A n \in 1 .. N + 1 : n \in 1 .. N \/ n = N + 1
      BY <1>9
    <3>3. \A n \in 1 .. N + 1 : Merged(q)[n] = a[n]
      BY <2>6, <2>7, <3>1, <3>2
    <3>4. Merged(q) = a
      BY <1>10, <2>3, <3>1, <3>3, ListsEqual
    <3> QED
      BY <3>4 DEF a
  <2>9. ~\E n \in DOMAIN Merged(p) : Merged(p)[n].key = x.key
    <3> SUFFICES ASSUME NEW n \in 1 .. N PROVE Merged(p)[n].key # x.key
      BY <1>9
    <3>1. PICK i \in F : n = Cardinality(UpToIn(F, i))
      BY <1>9
    <3>2. Merged(p)[n].key = p[i].key /\ i \in 1 .. m
      BY <1>8, <1>9, <1>11, <3>1
    <3> QED
      BY <1>12, <3>2
  <2> QED
    BY <2>8, <2>9 DEF Put, q
<1>13. CASE \E i \in 1 .. m : p[i].key = x.key
  <2>1. m + 1 \notin G
    <3>1. PICK i \in 1 .. m : p[i].key = x.key
      BY <1>13
    <3>2. SameKey(q, m + 1) = SameKey(q, i) /\ Min(SameKey(q, i)) = Min(SameKey(p, i))
      BY <1>4, <1>5, <3>1
    <3>3. Min(SameKey(p, i)) \in 1 .. m
      BY KeysOf DEF m
    <3>4. Min(SameKey(q, m + 1)) # m + 1
      BY <1>1, <3>2, <3>3
    <3> QED
      BY <3>4 DEF G, Firsts
  <2>2. G = F
    <3>1. \A i \in 1 .. m + 1 : i = m + 1 \/ i \in 1 .. m
      BY <1>1
    <3> QED
      BY <1>7, <1>8, <2>1, <3>1
  <2>3. PICK c \in DOMAIN Merged(p) : Merged(p)[c].key = x.key
    <3>1. PICK i \in 1 .. m : p[i].key = x.key
      BY <1>13
    <3>2. Min(SameKey(p, i)) \in F /\ Min(SameKey(p, i)) \in SameKey(p, i)
      BY KeysOf DEF m, F
    <3>3. p[Min(SameKey(p, i))].key = x.key
      BY <3>1, <3>2 DEF SameKey
    <3> DEFINE c == Cardinality(UpToIn(F, Min(SameKey(p, i))))
    <3>4. c \in DOMAIN Merged(p) /\ Merged(p)[c].key = x.key
      BY <1>9, <1>11, <3>2, <3>3
    <3> QED
      BY <3>4
  <2>4. (CHOOSE n \in DOMAIN Merged(p) : Merged(p)[n].key = x.key) = c
    <3>1. \A n \in DOMAIN Merged(p) : Merged(p)[n].key = x.key => n = c
      BY <1>9, <2>3
    <3> QED
      BY <2>3, <3>1
  <2>5. Put(Merged(p), x) = [Merged(p) EXCEPT ![c] = x]
    BY <2>3, <2>4 DEF Put
  <2>6. ASSUME NEW n \in 1 .. N
        PROVE  Merged(q)[n] = IF n = c THEN x ELSE Merged(p)[n]
    <3>1. PICK i \in F : n = Cardinality(UpToIn(F, i))
      BY <1>9
    <3>2. i \in G /\ i \in 1 .. m
      BY <1>8, <2>2
    <3>3. Merged(q)[n] = q[Max(SameKey(q, i))] /\ Merged(p)[n] = p[Max(SameKey(p, i))]
      BY <1>9, <1>10, <2>2, <3>1, <3>2
    <3>4. Merged(p)[n].key = p[i].key
      BY <1>11, <3>3
    <3>5. n = c <=> p[i].key = x.key
      BY <1>9, <2>3, <3>4
    <3> QED
      BY <1>6, <3>2, <3>3, <3>5
  <2>7. Merged(q) = [n \in 1 .. N |-> IF n = c THEN x ELSE Merged(p)[n]]
    <3>1. Merged(q) = [n \in 1 .. N |-> Merged(q)[n]]
      BY <1>10, <2>2, ListIs DEF N
    <3> QED
      BY <2>6, <3>1
  <2>8. [Merged(p) EXCEPT ![c] = x] = [n \in 1 .. N |-> IF n = c THEN x ELSE Merged(p)[n]]
    BY <1>9
  <2> QED
    BY <2>5, <2>7, <2>8 DEF q
<1> QED
  BY <1>12, <1>13

-----------------------------------------------------------------------------
(* Hence what the dict of the reader keeps is what the grammar merges.        *)

Begin(p, n) == SubSeq(p, 1, n)

LEMMA Beginnings ==
    ASSUME NEW p, IsList(p)
    PROVE  /\ Begin(p, 0) = <<>> /\ Begin(p, Len(p)) = p
           /\ \A n \in 0 .. Len(p) : IsList(Begin(p, n))
           /\ \A n \in 1 .. Len(p) : Begin(p, n) = Append(Begin(p, n - 1), p[n])
<1> PICK S : p \in Seq(S)
  BY DEF IsList
<1>1. Len(p) \in Nat /\ \A i \in 1 .. Len(p) : p[i] \in S
  BY LenProperties, ElementOfSeq
<1>2. Begin(p, 0) = <<>>
  BY SubSeqEmpty DEF Begin
<1>3. Begin(p, Len(p)) = p
  BY SubSeqFull DEF Begin
<1>4. ASSUME NEW n \in 0 .. Len(p) PROVE Begin(p, n) \in Seq(S)
  <2>1. \A i \in 1 .. n : p[i] \in S
    BY <1>1
  <2> QED
    BY <1>1, <2>1, SubSeqProperties DEF Begin
<1>5. ASSUME NEW n \in 1 .. Len(p) PROVE Begin(p, n) = Append(Begin(p, n - 1), p[n])
  BY <1>1, SubSeqRecursiveSecond DEF Begin
<1> QED
  BY <1>2, <1>3, <1>4, <1>5 DEF IsList

LEMMA MergedOfNone == Merged(<<>>) = <<>>
<1>1. IsList(<<>>) /\ Len(<<>>) = 0
  BY EmptySeq DEF IsList
<1>2. Firsts(<<>>) = {}
  BY DEF Firsts
<1>3. IsList(Merged(<<>>)) /\ Len(Merged(<<>>)) = 0
  BY <1>1, <1>2, MergedIs, FS_EmptySet
<1>4. \A i \in 1 .. 0 : Merged(<<>>)[i] = <<>>[i]
  OBVIOUS
<1> QED
  BY <1>1, <1>3, <1>4, ListsEqual

IsKept(f, p) == f = [n \in 0 .. Len(p) |-> IF n = 0 THEN <<>> ELSE Put(f[n - 1], p[n])]

LEMMA DictIsMerged ==
    ASSUME NEW p, IsList(p)
    PROVE  Dict(p) = Merged(p)
<1> DEFINE h == [n \in 0 .. Len(p) |-> Merged(Begin(p, n))]
           f == CHOOSE f : IsKept(f, p)
<1>1. Len(p) \in Nat
  BY ListIs
<1>2. Dict(p) = f[Len(p)]
  BY DEF Dict, IsKept
<1>3. IsKept(h, p)
  <2>1. ASSUME NEW n \in 0 .. Len(p)
        PROVE  h[n] = IF n = 0 THEN <<>> ELSE Put(h[n - 1], p[n])
    <3>1. CASE n = 0
      BY <1>1, <3>1, Beginnings, MergedOfNone
    <3>2. CASE n # 0
      <4>1. n \in 1 .. Len(p) /\ n - 1 \in 0 .. Len(p)
        BY <1>1, <3>2
      <4>2. IsList(Begin(p, n - 1)) /\ Begin(p, n) = Append(Begin(p, n - 1), p[n])
        BY <4>1, Beginnings
      <4>3. h[n] = Merged(Begin(p, n)) /\ h[n - 1] = Merged(Begin(p, n - 1))
        BY <4>1
      <4> QED
        BY <3>2, <4>2, <4>3, MergedOfMore
    <3> QED
      BY <3>1, <3>2
  <2> QED
    BY <2>1 DEF IsKept
<1>4. IsKept(f, p)
  BY <1>3
<1> HIDE DEF f
<1>5. \A n \in 0 .. Len(p) : f[n] = h[n]
  <2> DEFINE T == {n \in 0 .. Len(p) : f[n] # h[n]}
  <2>1. SUFFICES ASSUME T # {} PROVE FALSE
    OBVIOUS
  <2>2. T \in SUBSET Nat
    OBVIOUS
  <2>3. PICK n \in T : \A m \in T : n <= m
    <3> HIDE DEF T
    <3> QED
      BY <2>1, <2>2, LeastOf
  <2> HIDE DEF h
  <2>4. /\ f[n] = IF n = 0 THEN <<>> ELSE Put(f[n - 1], p[n])
        /\ h[n] = IF n = 0 THEN <<>> ELSE Put(h[n - 1], p[n])
    BY <1>3, <1>4 DEF IsKept
  <2>5. n # 0 => f[n - 1] = h[n - 1]
    <3> SUFFICES ASSUME n # 0 PROVE f[n - 1] = h[n - 1]
      OBVIOUS
    <3>1. n - 1 \in 0 .. Len(p) /\ ~(n <= n - 1)
      BY <1>1
    <3> QED
      BY <2>3, <3>1
  <2> QED
    BY <2>4, <2>5
<1> QED
  BY <1>1, <1>2, <1>5, Beginnings

-----------------------------------------------------------------------------
(* The lists of the grammar are lists.                                        *)

LEMMA NoneIsList == IsList(<<>>)
<1>1. <<>> \in Seq({})
  OBVIOUS
<1> QED
  BY <1>1 DEF IsList

LEMMA OneIsList == \A v : IsList(<<v>>) /\ Len(<<v>>) = 1 /\ <<v>>[1] = v
BY NoneIsList, ListsJoin

LEMMA Joint ==
    ASSUME NEW e, NEW l, IsList(l)
    PROVE  /\ IsList(<<e>> \o l) /\ Len(<<e>> \o l) = Len(l) + 1 /\ (<<e>> \o l)[1] = e
           /\ \A k \in 1 .. Len(l) : (<<e>> \o l)[k + 1] = l[k]
<1>1. PICK S : l \in Seq(S)
  BY DEF IsList
<1> DEFINE T == S \cup {e}
<1>2. l \in Seq(T) /\ <<e>> \in Seq(T) /\ Len(<<e>>) = 1 /\ Len(l) \in Nat /\ <<e>>[1] = e
  BY <1>1
<1>3. /\ <<e>> \o l \in Seq(T) /\ Len(<<e>> \o l) = Len(<<e>>) + Len(l)
      /\ \A i \in 1 .. Len(<<e>>) + Len(l) :
           (<<e>> \o l)[i] = IF i <= Len(<<e>>) THEN <<e>>[i] ELSE l[i - Len(<<e>>)]
  BY <1>2, ConcatProperties
<1> DEFINE c == <<e>> \o l
           o == <<e>>
<1> HIDE DEF T, c, o
<1>4. /\ Len(o) = 1 /\ o[1] = e
      /\ c \in Seq(T) /\ Len(c) = 1 + Len(l)
      /\ \A i \in 1 .. 1 + Len(l) : c[i] = IF i <= 1 THEN o[i] ELSE l[i - 1]
  BY <1>2, <1>3 DEF c, o
<1>5. c[1] = e
  BY <1>2, <1>4
<1>6. \A k \in 1 .. Len(l) : k + 1 \in 1 .. 1 + Len(l) /\ ~(k + 1 <= 1) /\ (k + 1) - 1 = k
  BY <1>2
<1>7. \A k \in 1 .. Len(l) : c[k + 1] = l[k]
  BY <1>4, <1>6
<1>8. IsList(c) /\ Len(c) = Len(l) + 1
  BY <1>2, <1>4 DEF IsList
<1> QED
  BY <1>5, <1>7, <1>8 DEF c

\* What the grammar lists are lists, of elements of parts of the text.
Formed(l, of, n) ==
    /\ IsList(l) /\ Len(l) >= 1
    /\ \A k \in 1 .. Len(l) : \E u \in Streams : Len(u) <= n /\ l[k] \in Elements(Meaning, u, of)
Unformed(s) == \E of \in Kinds : \E l \in Listed(s, of) : ~Formed(l, of, Len(s))

LEMMA ListedIs ==
    ASSUME NEW s \in Streams, NEW of \in Kinds, NEW l \in Listed(s, of)
    PROVE  Formed(l, of, Len(s))
<1> DEFINE T == {n \in Nat : \E u \in Streams : Len(u) = n /\ Unformed(u)}
<1> SUFFICES ASSUME ~Formed(l, of, Len(s)) PROVE FALSE
  OBVIOUS
<1>1. \A u \in Streams : Len(u) \in Nat
  BY DEF Streams
<1>2. T \in SUBSET Nat /\ T # {}
  BY <1>1 DEF Unformed
<1>3. PICK n \in T : \A m \in T : n <= m
  BY <1>2, LeastOf
<1>4. PICK u \in Streams : Len(u) = n /\ Unformed(u)
  BY <1>3
<1>5. PICK form \in Kinds : \E x \in Listed(u, form) : ~Formed(x, form, Len(u))
  BY <1>4 DEF Unformed
<1>6. PICK x \in Listed(u, form) : ~Formed(x, form, Len(u))
  BY <1>5
<1>7. IsListed(u, form, x)
  BY <1>6, ListedBy
<1>8. ASSUME NEW e \in Elements(Meaning, u, form), x = <<e>> PROVE FALSE
  <2>1. IsList(x) /\ Len(x) = 1 /\ x[1] = e
    BY <1>8, OneIsList
  <2>2. \A k \in 1 .. Len(x) : x[k] \in Elements(Meaning, u, form)
    BY <1>8, <2>1
  <2>3. Formed(x, form, Len(u))
    BY <1>1, <2>1, <2>2 DEF Formed
  <2> QED
    BY <1>6, <2>3
<1>9. PICK c \in 1 .. Len(u) :
        \E e \in Elements(Meaning, SubSeq(u, 1, c - 1), form),
           rest \in Listed(SubSeq(u, c + 1, Len(u)), form) : x = <<e>> \o rest
  BY <1>7, <1>8 DEF IsListed
<1> DEFINE b == SubSeq(u, 1, c - 1)
           w == SubSeq(u, c + 1, Len(u))
<1>10. PICK e \in Elements(Meaning, b, form) : \E rest \in Listed(w, form) : x = <<e>> \o rest
  BY <1>9
<1>11. PICK rest \in Listed(w, form) : x = <<e>> \o rest
  BY <1>10
<1>12. w \in Streams /\ Len(w) = Len(u) - c /\ b \in Streams /\ Len(b) = c - 1
  BY AroundComma
<1> HIDE DEF w, b
<1>13. Formed(rest, form, Len(w))
  <2> SUFFICES ASSUME ~Formed(rest, form, Len(w)) PROVE FALSE
    OBVIOUS
  <2>1. Unformed(w)
    BY <1>11 DEF Unformed
  <2>2. Len(w) \in T /\ Len(w) < n
    BY <1>1, <1>4, <1>12, <2>1
  <2> QED
    BY <1>1, <1>3, <1>12, <2>2
<1>14. /\ IsList(rest) /\ Len(rest) \in Nat /\ Len(w) <= Len(u) /\ Len(b) <= Len(u) /\ Len(u) \in Nat
       /\ Len(w) \in Nat
  BY <1>1, <1>12, <1>13, ListIs DEF Formed
<1>15. /\ IsList(x) /\ Len(x) = Len(rest) + 1 /\ x[1] = e
       /\ \A k \in 1 .. Len(rest) : x[k + 1] = rest[k]
  BY <1>11, <1>14, Joint
<1>16. ASSUME NEW k \in 1 .. Len(x)
       PROVE  \E p \in Streams : Len(p) <= Len(u) /\ x[k] \in Elements(Meaning, p, form)
  <2>1. CASE k = 1
    BY <1>10, <1>12, <1>14, <1>15, <2>1
  <2>2. CASE k # 1
    <3>1. k - 1 \in 1 .. Len(rest) /\ (k - 1) + 1 = k
      BY <1>14, <1>15, <2>2
    <3>2. x[k] = rest[k - 1]
      BY <1>15, <3>1
    <3>3. PICK p \in Streams : Len(p) <= Len(w) /\ rest[k - 1] \in Elements(Meaning, p, form)
      BY <1>13, <3>1 DEF Formed
    <3>4. Len(p) <= Len(u)
      BY <1>1, <1>14, <3>3
    <3> QED
      BY <3>2, <3>3, <3>4
  <2> QED
    BY <2>1, <2>2
<1>17. Formed(x, form, Len(u))
  BY <1>14, <1>15, <1>16 DEF Formed
<1> QED
  BY <1>6, <1>17

LEMMA FromIsList ==
    ASSUME NEW t \in Streams, NEW i \in 1 .. Len(t) + 1, NEW of \in Kinds, NEW y \in From(t, i, of)
    PROVE  IsList(y[1])
<1>1. Len(t) \in Nat
  BY DEF Streams
<1>2. PICK j \in i .. Len(t) : \E l \in Listed(SubSeq(t, i, j - 1), of) : y = <<l, j + 1>>
  BY DEF From
<1>3. j \in i .. Len(t) + 1
  BY <1>1
<1>4. SubSeq(t, i, j - 1) \in Streams
  BY <1>3, Piece
<1> QED
  BY <1>2, <1>4, ListedIs DEF Formed

-----------------------------------------------------------------------------
(* A frame of the stack, as the context of the value that comes next: what    *)
(* its container may become, and where it may end.                            *)

\* A frame of the stack: what it becomes when its next value is one of R.
KindOf(f) == IF f.k = "array" THEN "items" ELSE "members"
Held(f) == IF f.k = "array" THEN f.items ELSE f.pairs
Start(f, R) == IF f.k = "array" THEN R ELSE Named(f.key, R)
Resumed(of, held, L) == {<<Wrap(of, held \o y[1]), y[2]>> : y \in L}
Single(e, j) == {<<<<e>>, j>>}
After(e, L) == {<<<<e>> \o y[1], y[2]>> : y \in L}
Outer(t, f, R) == Resumed(KindOf(f), Held(f), Then(t, Start(f, R), KindOf(f)))

LEMMA ThenOfOne ==
    ASSUME NEW t \in Streams, NEW j \in 1 .. Len(t) + 1, NEW of \in Kinds, NEW e
    PROVE  /\ j <= Len(t) /\ t[j] = Closing(of) => Then(t, {<<e, j>>}, of) = Single(e, j + 1)
           /\ j <= Len(t) /\ t[j] = Comma => Then(t, {<<e, j>>}, of) = After(e, From(t, j + 1, of))
           /\ ~(j <= Len(t) /\ t[j] \in {Closing(of), Comma}) => Then(t, {<<e, j>>}, of) = {}
<1> DEFINE R == {<<e, j>>}
           Ends(x) == x[2] <= Len(t) /\ t[x[2]] = Closing(of)
           GoesOn(x) == x[2] <= Len(t) /\ t[x[2]] = Comma
           E == {<<<<x[1]>>, x[2] + 1>> : x \in {x \in R : Ends(x)}}
           G == UNION {After(x[1], From(t, x[2] + 1, of)) : x \in {x \in R : GoesOn(x)}}
           z == <<e, j>>
<1>1. Then(t, R, of) = E \cup G
  BY DEF Then, After
<1>2. z[1] = e /\ z[2] = j
  OBVIOUS
<1>3. Ends(z) => E = Single(e, j + 1)
  <2> SUFFICES ASSUME Ends(z) PROVE E = {<<<<e>>, j + 1>>}
    BY DEF Single
  <2>1. {x \in R : Ends(x)} = {z}
    OBVIOUS
  <2> QED
    BY <2>1, <1>2
<1>4. ~Ends(z) => E = {}
  OBVIOUS
<1>5. GoesOn(z) => G = After(e, From(t, j + 1, of))
  <2> SUFFICES ASSUME GoesOn(z) PROVE G = After(e, From(t, j + 1, of))
    OBVIOUS
  <2>1. {x \in R : GoesOn(x)} = {z}
    OBVIOUS
  <2> QED
    BY <2>1, <1>2
<1>6. ~GoesOn(z) => G = {}
  OBVIOUS
<1>7. /\ Ends(z) <=> j <= Len(t) /\ t[j] = Closing(of)
      /\ GoesOn(z) <=> j <= Len(t) /\ t[j] = Comma
      /\ Closing(of) # Comma
  BY <1>2, Distinct DEF Closing
<1> HIDE DEF R, E, G, z, Ends, GoesOn
<1>8. /\ j <= Len(t) /\ t[j] = Closing(of) => Then(t, R, of) = Single(e, j + 1)
      /\ j <= Len(t) /\ t[j] = Comma => Then(t, R, of) = After(e, From(t, j + 1, of))
      /\ ~(j <= Len(t) /\ t[j] \in {Closing(of), Comma}) => Then(t, R, of) = {}
  BY <1>1, <1>3, <1>4, <1>5, <1>6, <1>7
<1> QED
  BY <1>8 DEF R

LEMMA ResumedAfter ==
    ASSUME NEW of, NEW held, IsList(held), NEW e, NEW L, \A y \in L : IsList(y[1])
    PROVE  Resumed(of, held, After(e, L)) = Resumed(of, Append(held, e), L)
<1>1. \A y \in L : held \o (<<e>> \o y[1]) = Append(held, e) \o y[1]
  BY ListsJoin
<1> DEFINE one(y) == <<<<e>> \o y[1], y[2]>>
           a(y) == <<Wrap(of, held \o y[1]), y[2]>>
           b(y) == <<Wrap(of, Append(held, e) \o y[1]), y[2]>>
<1>2. \A y \in L : a(one(y)) = b(y)
  <2> TAKE y \in L
  <2>1. one(y)[1] = <<e>> \o y[1] /\ one(y)[2] = y[2]
    OBVIOUS
  <2> HIDE DEF one
  <2> QED
    BY <1>1, <2>1
<1>3. /\ After(e, L) = {one(y) : y \in L}
      /\ Resumed(of, held, After(e, L)) = {a(y) : y \in After(e, L)}
      /\ Resumed(of, Append(held, e), L) = {b(y) : y \in L}
  BY DEF After, Resumed
<1> HIDE DEF one, a, b
<1> QED
  BY <1>2, <1>3

LEMMA ResumedOfOne ==
    ASSUME NEW of, NEW held, IsList(held), NEW e, NEW j
    PROVE  Resumed(of, held, Single(e, j)) = {<<Wrap(of, Append(held, e)), j>>}
<1> DEFINE z == <<<<e>>, j>>
<1>1. held \o <<e>> = Append(held, e) /\ z[1] = <<e>> /\ z[2] = j
  BY ListAppend
<1>2. Resumed(of, held, {z}) = {<<Wrap(of, held \o z[1]), z[2]>>}
  BY DEF Resumed
<1> HIDE DEF z
<1>3. Resumed(of, held, {z}) = {<<Wrap(of, Append(held, e)), j>>}
  BY <1>1, <1>2
<1> QED
  BY <1>3 DEF z, Single

LEMMA Nothing ==
    /\ \A of, held : Resumed(of, held, {}) = {}
    /\ \A e : After(e, {}) = {}
    /\ \A t, f : Outer(t, f, {}) = {}
<1>1. \A of, held : Resumed(of, held, {}) = {}
  BY DEF Resumed
<1>2. \A e : After(e, {}) = {}
  BY DEF After
<1>3. \A t, of : Then(t, {}, of) = {}
  BY DEF Then
<1>4. \A f : Start(f, {}) = {}
  BY DEF Start, Named
<1> QED
  BY <1>1, <1>2, <1>3, <1>4 DEF Outer

LEMMA Frames ==
    ASSUME NEW held, NEW key
    PROVE  /\ KindOf(Array(held)) = "items" /\ Held(Array(held)) = held
           /\ \A R : Start(Array(held), R) = R
           /\ KindOf(Open(held, key)) = "members" /\ Held(Open(held, key)) = held
           /\ \A R : Start(Open(held, key), R) = Named(key, R)
BY DEF KindOf, Held, Start, Array, Open

\* Going on with a list of which some elements are held.
LEMMA Resumes ==
    ASSUME DocumentAssumption, NEW t \in Streams, NEW i \in 1 .. Len(t) + 1, NEW held
    PROVE  /\ Resumed("items", held, From(t, i, "items")) = Outer(t, Array(held), Stands(t, i))
           /\ i + 1 <= Len(t) /\ t[i] \in Range(Keys) /\ t[i + 1] = ":" =>
                Resumed("members", held, From(t, i, "members")) = Outer(t, Open(held, t[i]), Stands(t, i + 2))
           /\ ~(i + 1 <= Len(t) /\ t[i] \in Range(Keys) /\ t[i + 1] = ":") =>
                Resumed("members", held, From(t, i, "members")) = {}
<1>1. From(t, i, "items") = Then(t, Stands(t, i), "items")
  BY ListUnfolds, ItemsFrom DEF Kinds
<1>2. From(t, i, "members") = Then(t, ElementsFrom(t, i, "members"), "members")
  BY ListUnfolds DEF Kinds
<1>3. Resumed("items", held, From(t, i, "items")) = Outer(t, Array(held), Stands(t, i))
  BY <1>1, Frames DEF Outer
<1>4. ASSUME i + 1 <= Len(t), t[i] \in Range(Keys), t[i + 1] = ":"
      PROVE  Resumed("members", held, From(t, i, "members")) = Outer(t, Open(held, t[i]), Stands(t, i + 2))
  <2>1. ElementsFrom(t, i, "members") = Named(t[i], Stands(t, i + 2))
    BY <1>4, MembersFrom
  <2> QED
    BY <1>2, <2>1, Frames DEF Outer
<1>5. ASSUME ~(i + 1 <= Len(t) /\ t[i] \in Range(Keys) /\ t[i + 1] = ":")
      PROVE  Resumed("members", held, From(t, i, "members")) = {}
  <2>1. ElementsFrom(t, i, "members") = {}
    BY <1>5, MembersFrom
  <2>2. From(t, i, "members") = {}
    BY <1>2, <2>1 DEF Then
  <2> QED
    BY <2>2, Nothing
<1> QED
  BY <1>3, <1>4, <1>5

\* Beginning a list that is not empty.
LEMMA ResumedFromNone ==
    ASSUME NEW t \in Streams, NEW i \in 1 .. Len(t) + 1, NEW of \in Kinds
    PROVE  Wrapped(of, From(t, i, of)) = Resumed(of, <<>>, From(t, i, of))
<1> DEFINE L == From(t, i, of)
<1>1. \A y \in L : IsList(y[1])
  BY FromIsList
<1>2. \A y \in L : <<>> \o y[1] = y[1]
  <2> SUFFICES ASSUME NEW l, IsList(l) PROVE <<>> \o l = l
    BY <1>1
  <2>1. PICK S : l \in Seq(S)
    BY DEF IsList
  <2> QED
    BY <2>1
<1> HIDE DEF L
<1>3. Wrapped(of, L) = Resumed(of, <<>>, L)
  BY <1>2 DEF Wrapped, Resumed
<1> QED
  BY <1>3 DEF L

-----------------------------------------------------------------------------
(* The whole stack, as the context of the value that comes next.              *)

\* D[n] is what the n-th container may be and where it ends, when what stands
\* innermost is one of R.
Closes(t, st, R, D) ==
    /\ D[Len(st)] = R
    /\ \A n \in 1 .. Len(st) : D[n - 1] = Outer(t, st[n], D[n])
Leads(t, st, R, A) == \E D : Closes(t, st, R, D) /\ D[0] = A

LEMMA LeadsFromNothing == \A t, R, A : Leads(t, <<>>, R, A) <=> R = A
<1> TAKE t, R, A
<1>1. ASSUME Leads(t, <<>>, R, A) PROVE R = A
  BY <1>1 DEF Leads, Closes
<1>2. ASSUME R = A PROVE Leads(t, <<>>, R, A)
  <2> DEFINE D == [n \in {0} |-> R]
  <2>1. Closes(t, <<>>, R, D) /\ D[0] = A
    BY <1>2 DEF Closes
  <2> QED
    BY <2>1 DEF Leads
<1> QED
  BY <1>1, <1>2

LEMMA LeadsIn ==
    ASSUME NEW t, NEW st, IsList(st), NEW f, NEW R, NEW A, Leads(t, st, Outer(t, f, R), A)
    PROVE  Leads(t, Append(st, f), R, A)
<1> DEFINE m == Len(st)
           q == Append(st, f)
<1>1. /\ m \in Nat /\ Len(q) = m + 1 /\ q[m + 1] = f
      /\ \A n \in 1 .. m : q[n] = st[n]
  BY ListIs, ListAppend DEF Extends
<1>2. PICK D : Closes(t, st, Outer(t, f, R), D) /\ D[0] = A
  BY DEF Leads
<1>3. D[m] = Outer(t, f, R) /\ \A n \in 1 .. m : D[n - 1] = Outer(t, st[n], D[n])
  BY <1>2 DEF Closes
<1> DEFINE E == [n \in 0 .. m + 1 |-> IF n = m + 1 THEN R ELSE D[n]]
<1> HIDE DEF m, q
<1>4. E[m + 1] = R /\ \A n \in 0 .. m : E[n] = D[n]
  BY <1>1
<1> HIDE DEF E
<1>5. ASSUME NEW n \in 1 .. m + 1 PROVE E[n - 1] = Outer(t, q[n], E[n])
  <2>1. CASE n = m + 1
    <3>1. n - 1 = m /\ m \in 0 .. m
      BY <1>1, <2>1
    <3> QED
      BY <1>1, <1>3, <1>4, <2>1, <3>1
  <2>2. CASE n # m + 1
    <3>1. n \in 1 .. m /\ n \in 0 .. m /\ n - 1 \in 0 .. m
      BY <1>1, <2>2
    <3> QED
      BY <1>1, <1>3, <1>4, <3>1
  <2> QED
    BY <2>1, <2>2
<1>6. E[0] = A
  BY <1>1, <1>2, <1>4
<1>7. Closes(t, q, R, E)
  BY <1>1, <1>4, <1>5 DEF Closes
<1> QED
  BY <1>6, <1>7 DEF Leads, q

LEMMA FrontIs ==
    ASSUME NEW st, IsList(st), st # <<>>
    PROVE  /\ IsList(Front(st)) /\ Len(st) \in Nat \ {0} /\ Len(Front(st)) = Len(st) - 1
           /\ \A n \in 1 .. Len(st) - 1 : Front(st)[n] = st[n]
           /\ Last(st) = st[Len(st)]
<1>1. PICK S : st \in Seq(S)
  BY DEF IsList
<1>2. Len(st) \in Nat /\ Len(st) # 0
  BY <1>1
<1>3. /\ SubSeq(st, 1, Len(st) - 1) \in Seq(S) /\ Len(SubSeq(st, 1, Len(st) - 1)) = Len(st) - 1
      /\ \A n \in 1 .. Len(st) - 1 : SubSeq(st, 1, Len(st) - 1)[n] = st[n]
  <2>1. \A n \in 1 .. Len(st) - 1 : st[n] \in S
    BY <1>1
  <2>2. /\ SubSeq(st, 1, Len(st) - 1) \in Seq(S)
        /\ Len(SubSeq(st, 1, Len(st) - 1)) = IF 1 <= Len(st) - 1 THEN (Len(st) - 1) - 1 + 1 ELSE 0
        /\ \A n \in 1 .. (Len(st) - 1) - 1 + 1 : SubSeq(st, 1, Len(st) - 1)[n] = st[1 + n - 1]
    BY <1>2, <2>1, SubSeqProperties
  <2>3. (Len(st) - 1) - 1 + 1 = Len(st) - 1 /\ \A n \in Int : 1 + n - 1 = n
    BY <1>2
  <2> QED
    BY <1>2, <2>2, <2>3
<1> QED
  BY <1>2, <1>3 DEF Front, Last, IsList

LEMMA LeadsOut ==
    ASSUME NEW t, NEW st, IsList(st), st # <<>>, NEW R, NEW A, Leads(t, st, R, A)
    PROVE  Leads(t, Front(st), Outer(t, Last(st), R), A)
<1>1. PICK D : Closes(t, st, R, D) /\ D[0] = A
  BY DEF Leads
<1> DEFINE m == Len(st)
<1>2. m \in Nat \ {0} /\ Len(Front(st)) = m - 1 /\ Last(st) = st[m]
  BY FrontIs
<1>3. D[m] = R /\ \A n \in 1 .. m : D[n - 1] = Outer(t, st[n], D[n])
  BY <1>1 DEF Closes
<1>4. \A n \in 1 .. m - 1 : Front(st)[n] = st[n]
  BY FrontIs
<1> HIDE DEF m
<1>5. D[m - 1] = Outer(t, Last(st), R)
  BY <1>2, <1>3
<1>6. \A n \in 1 .. m - 1 : D[n - 1] = Outer(t, Front(st)[n], D[n])
  <2> TAKE n \in 1 .. m - 1
  <2>1. n \in 1 .. m
    BY <1>2
  <2> QED
    BY <1>3, <1>4, <2>1
<1>7. Closes(t, Front(st), Outer(t, Last(st), R), D)
  BY <1>2, <1>5, <1>6 DEF Closes
<1> QED
  BY <1>1, <1>7 DEF Leads

LEMMA LeadsNowhere ==
    ASSUME NEW t, NEW st, IsList(st), NEW A, Leads(t, st, {}, A)
    PROVE  A = {}
<1>1. PICK D : Closes(t, st, {}, D) /\ D[0] = A
  BY DEF Leads
<1> DEFINE m == Len(st)
           T == {n \in 0 .. m : D[n] = {}}
<1>2. m \in Nat
  BY ListIs
<1>3. D[m] = {} /\ \A n \in 1 .. m : D[n - 1] = Outer(t, st[n], D[n])
  BY <1>1 DEF Closes
<1> HIDE DEF m
<1>4. T \in SUBSET Nat /\ T # {}
  BY <1>2, <1>3
<1>5. PICK n \in T : \A k \in T : n <= k
  BY <1>4, LeastOf
<1>6. n = 0
  <2> SUFFICES ASSUME n # 0 PROVE FALSE
    OBVIOUS
  <2>1. n \in 1 .. m /\ D[n] = {} /\ n - 1 \in 0 .. m
    BY <1>2
  <2>2. D[n - 1] = {}
    BY <1>3, <2>1, Nothing
  <2>3. n - 1 \in T /\ n - 1 < n
    BY <1>2, <2>1, <2>2
  <2> QED
    BY <1>2, <1>5, <2>1, <2>3
<1> QED
  BY <1>1, <1>6

\* What a whole text denotes.
LEMMA ValuesAre ==
    ASSUME NEW s \in Streams, NEW v
    PROVE  v \in Values(s) <=> <<v, Len(Compact(s)) + 1>> \in Stands(Compact(s), 1)
<1> DEFINE t == Compact(s)
           n == Len(t)
<1>1. t \in Streams /\ n \in Nat
  BY Positions
<1>2. SubSeq(t, 1, (n + 1) - 1) = t
  <2>1. n + 1 \in 1 .. n + 1 /\ 1 \in 1 .. n + 1 /\ (n + 1) - 1 = n
    BY <1>1
  <2> DEFINE u == SubSeq(t, 1, (n + 1) - 1)
  <2>2. /\ u \in Streams /\ Len(u) = (n + 1) - 1
        /\ \A k \in 1 .. (n + 1) - 1 : u[k] = t[1 + k - 1]
    BY <1>1, <2>1, Piece
  <2> HIDE DEF u, t
  <2>3. \A k \in 1 .. n : u[k] = t[k]
    BY <1>1, <2>1, <2>2
  <2>4. u = t
    BY <1>1, <2>1, <2>2, <2>3, SeqEqual DEF Streams
  <2> QED
    BY <2>4 DEF u
<1>3. Values(s) = Denotes(t)
  BY DEF Values, Denotes
<1> HIDE DEF t
<1>4. \A x : x \in Stands(t, 1) <=> \E j \in 1 .. n + 1 : \E w \in Denotes(SubSeq(t, 1, j - 1)) : x = <<w, j>>
  BY DEF Stands
<1>5. <<v, n + 1>> \in Stands(t, 1) <=> v \in Denotes(SubSeq(t, 1, (n + 1) - 1))
  <2>1. n + 1 \in 1 .. n + 1
    BY <1>1
  <2> HIDE DEF n
  <2> QED
    BY <1>4, <2>1
<1>6. v \in Values(s) <=> <<v, n + 1>> \in Stands(t, 1)
  BY <1>2, <1>3, <1>5
<1> QED
  BY <1>6 DEF t

-----------------------------------------------------------------------------
(* The places of the text and of the text without its blanks; the invariant   *)
(* of the reader, and what keeps it.                                          *)

\* What stands at a place that is not blank, in the text without its blanks.
Sees(i) == i \in 1 .. Len(tokens) + 1 /\ (i <= Len(tokens) => tokens[i] # Space)

LEMMA Seen ==
    ASSUME tokens \in Streams, NEW i, Sees(i)
    PROVE  /\ Position(tokens, i) \in 1 .. Len(Compact(tokens)) + 1
           /\ i <= Len(tokens) <=> Position(tokens, i) <= Len(Compact(tokens))
           /\ i = Len(tokens) + 1 => Position(tokens, i) = Len(Compact(tokens)) + 1
           /\ i <= Len(tokens) =>
                /\ Compact(tokens)[Position(tokens, i)] = tokens[i]
                /\ i + 1 \in 1 .. Len(tokens) + 1
                /\ Position(tokens, i + 1) = Position(tokens, i) + 1
<1>1. Len(tokens) \in Nat /\ Len(Compact(tokens)) \in Nat /\ i \in 1 .. Len(tokens) + 1
  BY Positions DEF Streams, Sees
<1>2. CASE i <= Len(tokens)
  <2>1. i \in 1 .. Len(tokens) /\ tokens[i] # Space /\ i # Len(tokens) + 1 /\ i + 1 \in 1 .. Len(tokens) + 1
    BY <1>1, <1>2 DEF Sees
  <2>2. /\ Position(tokens, i) \in 1 .. Len(Compact(tokens))
        /\ Compact(tokens)[Position(tokens, i)] = tokens[i]
        /\ Position(tokens, i + 1) = Position(tokens, i) + 1
    BY <2>1, Positions
  <2> QED
    BY <1>1, <1>2, <2>1, <2>2
<1>3. CASE i = Len(tokens) + 1
  <2>1. Position(tokens, i) = Len(Compact(tokens)) + 1
    BY <1>3, Positions
  <2> QED
    BY <1>1, <1>3, <2>1
<1> QED
  BY <1>1, <1>2, <1>3

LEMMA SkipSees ==
    ASSUME tokens \in Streams, NEW i \in 1 .. Len(tokens) + 1
    PROVE  Sees(Skip(i)) /\ Position(tokens, Skip(i)) = Position(tokens, i)
<1>1. Len(tokens) \in Nat
  BY DEF Streams
<1>2. /\ Skip(i) \in i .. Len(tokens) + 1
      /\ Skip(i) <= Len(tokens) => tokens[Skip(i)] # Space
      /\ Position(tokens, Skip(i)) = Position(tokens, i)
  BY SkipIs
<1>3. Skip(i) \in 1 .. Len(tokens) + 1
  BY <1>1, <1>2
<1> QED
  BY <1>2, <1>3 DEF Sees

LEMMA AtIs ==
    ASSUME tokens \in Streams, NEW i, Sees(i), NEW x
    PROVE  At(i, x) <=> /\ Position(tokens, i) <= Len(Compact(tokens))
                        /\ Compact(tokens)[Position(tokens, i)] = x
BY Seen DEF At

LEMMA KeyIs ==
    ASSUME DocumentAssumption, tokens \in Streams, NEW i, Sees(i)
    PROVE  LET t == Compact(tokens)
               pos == Position(tokens, i) IN
           /\ ReadKey(i).ok <=> pos + 1 <= Len(t) /\ t[pos] \in Range(Keys) /\ t[pos + 1] = ":"
           /\ ReadKey(i).ok =>
                /\ ReadKey(i).key = t[pos]
                /\ Sees(ReadKey(i).next) /\ Position(tokens, ReadKey(i).next) = pos + 2
<1> DEFINE t == Compact(tokens)
           pos == Position(tokens, i)
           colon == Skip(i + 1)
           named == i <= Len(tokens) /\ tokens[i] \in Range(Keys)
<1>1. Len(tokens) \in Nat /\ Len(t) \in Nat /\ pos \in 1 .. Len(t) + 1 /\ i \in 1 .. Len(tokens) + 1
  BY Positions, Seen DEF Streams, Sees
<1>2. /\ named /\ At(colon, ":") => ReadKey(i) = [ok |-> TRUE, key |-> tokens[i], next |-> Skip(colon + 1)]
      /\ ~(named /\ At(colon, ":")) => ReadKey(i) = [ok |-> FALSE]
  BY DEF ReadKey
<1>3. i <= Len(tokens) <=> pos <= Len(t)
  BY Seen
<1>4. CASE ~(i <= Len(tokens))
  <2>1. ~(pos <= Len(t)) /\ ReadKey(i) = [ok |-> FALSE]
    BY <1>2, <1>3, <1>4
  <2>2. ~(pos + 1 <= Len(t)) /\ ~ReadKey(i).ok
    BY <1>1, <2>1
  <2> QED
    BY <2>2
<1>5. CASE i <= Len(tokens)
  <2>1. t[pos] = tokens[i] /\ i + 1 \in 1 .. Len(tokens) + 1 /\ Position(tokens, i + 1) = pos + 1
    BY <1>5, Seen
  <2>2. Sees(colon) /\ Position(tokens, colon) = pos + 1
    BY <2>1, SkipSees
  <2> HIDE DEF t, pos, colon
  <2>3. At(colon, ":") <=> pos + 1 <= Len(t) /\ t[pos + 1] = ":"
    BY <2>2, AtIs DEF t
  <2>4. At(colon, ":") => /\ Sees(Skip(colon + 1)) /\ Position(tokens, Skip(colon + 1)) = pos + 2
    <3> SUFFICES ASSUME At(colon, ":")
                 PROVE  Sees(Skip(colon + 1)) /\ Position(tokens, Skip(colon + 1)) = pos + 2
      OBVIOUS
    <3>1. colon <= Len(tokens)
      BY DEF At
    <3>2. colon + 1 \in 1 .. Len(tokens) + 1 /\ Position(tokens, colon + 1) = (pos + 1) + 1
      BY <2>2, <3>1, Seen
    <3>3. (pos + 1) + 1 = pos + 2
      BY <1>1
    <3> QED
      BY <3>2, <3>3, SkipSees
  <2>5. ReadKey(i).ok <=> named /\ At(colon, ":")
    BY <1>2
  <2>6. ReadKey(i).ok => ReadKey(i).key = tokens[i] /\ ReadKey(i).next = Skip(colon + 1)
    BY <1>2
  <2> QED
    BY <1>5, <2>1, <2>3, <2>4, <2>5, <2>6 DEF t, pos
<1> QED
  BY <1>4, <1>5

-----------------------------------------------------------------------------
IsFrame(f) ==
    \/ \E items : IsList(items) /\ f = Array(items)
    \/ \E pairs, key : IsList(pairs) /\ f = Open(pairs, key)
IsStack(st) == IsList(st) /\ \A n \in 1 .. Len(st) : IsFrame(st[n])

\* The reader is where the grammar leads: what may stand at its place is what
\* the frames of its stack need for the whole text to denote anything.
ReadingAt(s, p, st, v, sg) ==
    /\ s \in Streams /\ p \in 1 .. Len(s) + 1 /\ IsStack(st)
    /\ sg = "value" =>
         /\ p <= Len(s) => s[p] # Space
         /\ Leads(Compact(s), st, Stands(Compact(s), Position(s, p)), Stands(Compact(s), 1))
    /\ sg = "attach" => Leads(Compact(s), st, {<<v, Position(s, p)>>}, Stands(Compact(s), 1))
    /\ sg = "read" => Values(s) = {v}
    /\ sg = "refused" => Values(s) = {}
Reading == ReadingAt(tokens, place, stack, value, stage)

LEMMA NoFrames == IsStack(<<>>)
<1>1. <<>> \in Seq({}) /\ Len(<<>>) = 0
  OBVIOUS
<1> QED
  BY <1>1 DEF IsStack, IsList

LEMMA OneMoreFrame ==
    ASSUME NEW st, IsStack(st), NEW f, IsFrame(f)
    PROVE  IsStack(Append(st, f))
<1>1. IsList(st) /\ Len(st) \in Nat
  BY ListIs DEF IsStack
<1>2. Extends(Append(st, f), st, f)
  BY <1>1, ListAppend
<1> DEFINE q == Append(st, f)
<1> HIDE DEF q
<1>3. IsList(q) /\ Len(q) = Len(st) + 1 /\ (\A i \in 1 .. Len(st) : q[i] = st[i]) /\ q[Len(st) + 1] = f
  BY <1>2 DEF Extends, q
<1>4. ASSUME NEW n \in 1 .. Len(q) PROVE IsFrame(q[n])
  <2>1. CASE n = Len(st) + 1
    BY <1>3, <2>1
  <2>2. CASE n # Len(st) + 1
    <3>1. n \in 1 .. Len(st)
      BY <1>1, <1>3, <2>2
    <3> QED
      BY <1>3, <3>1 DEF IsStack
  <2> QED
    BY <2>1, <2>2
<1>5. IsStack(q)
  BY <1>3, <1>4 DEF IsStack
<1> QED
  BY <1>5 DEF q

LEMMA OneFrameLess ==
    ASSUME NEW st, IsStack(st), st # <<>>
    PROVE  IsList(st) /\ IsStack(Front(st)) /\ IsFrame(Last(st))
<1>1. IsList(st)
  BY DEF IsStack
<1>2. /\ IsList(Front(st)) /\ Len(st) \in Nat \ {0} /\ Len(Front(st)) = Len(st) - 1
      /\ \A n \in 1 .. Len(st) - 1 : Front(st)[n] = st[n]
      /\ Last(st) = st[Len(st)]
  BY <1>1, FrontIs
<1>3. \A n \in 1 .. Len(st) - 1 : n \in 1 .. Len(st)
  BY <1>2
<1>4. Len(st) \in 1 .. Len(st)
  BY <1>2
<1> QED
  BY <1>1, <1>2, <1>3, <1>4 DEF IsStack

LEMMA NothingDenoted ==
    ASSUME NEW s \in Streams, Stands(Compact(s), 1) = {}
    PROVE  Values(s) = {}
BY ValuesAre

\* The three things a step does with what it finds.
LEMMA Enters ==
    ASSUME tokens \in Streams, tokens' = tokens, NEW frames, NEW f, NEW i, Enter(frames, f, i),
           IsStack(frames), IsFrame(f), Sees(i),
           Leads(Compact(tokens), frames,
                 Outer(Compact(tokens), f, Stands(Compact(tokens), Position(tokens, i))), Stands(Compact(tokens), 1))
    PROVE  Reading'
<1>1. stack' = Append(frames, f) /\ place' = i /\ stage' = "value"
  BY DEF Enter
<1>2. IsStack(Append(frames, f))
  BY OneMoreFrame
<1>3. Leads(Compact(tokens), Append(frames, f), Stands(Compact(tokens), Position(tokens, i)), Stands(Compact(tokens), 1))
  BY LeadsIn DEF IsStack
<1>4. ReadingAt(tokens, i, Append(frames, f), value', "value")
  BY <1>2, <1>3 DEF ReadingAt, Sees
<1> QED
  BY <1>1, <1>4 DEF Reading

LEMMA Finishes ==
    ASSUME tokens \in Streams, tokens' = tokens, NEW frames, NEW v, NEW i, Deliver(frames, v, i),
           IsStack(frames), i \in 1 .. Len(tokens) + 1,
           Leads(Compact(tokens), frames, {<<v, Position(tokens, i)>>}, Stands(Compact(tokens), 1))
    PROVE  Reading'
<1>1. stack' = frames /\ value' = v /\ place' = i /\ stage' = "attach"
  BY DEF Deliver
<1>2. ReadingAt(tokens, i, frames, v, "attach")
  BY DEF ReadingAt
<1> QED
  BY <1>1, <1>2 DEF Reading

LEMMA Refuses ==
    ASSUME Reading, tokens' = tokens, RefuseText, NEW frames, IsStack(frames),
           Leads(Compact(tokens), frames, {}, Stands(Compact(tokens), 1))
    PROVE  Reading'
<1>1. stage' = "refused" /\ place' = place /\ stack' = stack /\ value' = value
  BY DEF RefuseText
<1>2. tokens \in Streams /\ place \in 1 .. Len(tokens) + 1 /\ IsStack(stack)
  BY DEF Reading, ReadingAt
<1>3. Stands(Compact(tokens), 1) = {}
  BY LeadsNowhere DEF IsStack
<1>4. Values(tokens) = {}
  BY <1>2, <1>3, NothingDenoted
<1>5. ReadingAt(tokens, place, stack, value, "refused")
  BY <1>2, <1>4 DEF ReadingAt
<1> QED
  BY <1>1, <1>5 DEF Reading

-----------------------------------------------------------------------------
(* One value within a frame; the reader's steps.                              *)

ElementOf(f, v) == IF f.k = "array" THEN v ELSE Pair(f.key, v)

Found(v, j) == {<<v, j>>}

LEMMA OuterOfOne ==
    ASSUME NEW t \in Streams, NEW f, IsFrame(f), NEW v, NEW j \in 1 .. Len(t) + 1
    PROVE  LET of == KindOf(f)
               more == Append(Held(f), ElementOf(f, v)) IN
           /\ IsList(Held(f)) /\ IsList(more) /\ of \in Kinds
           /\ j <= Len(t) /\ t[j] = Closing(of) => Outer(t, f, Found(v, j)) = {<<Wrap(of, more), j + 1>>}
           /\ j <= Len(t) /\ t[j] = Comma =>
                Outer(t, f, Found(v, j)) = Resumed(of, more, From(t, j + 1, of))
           /\ ~(j <= Len(t) /\ t[j] \in {Closing(of), Comma}) => Outer(t, f, Found(v, j)) = {}
<1> DEFINE of == KindOf(f)
           e == ElementOf(f, v)
           held == Held(f)
           more == Append(held, e)
<1>1. of \in Kinds
  BY DEF KindOf, Kinds
<1>2. IsList(held)
  <2>1. CASE \E items : IsList(items) /\ f = Array(items)
    <3>1. PICK items : IsList(items) /\ f = Array(items)
      BY <2>1
    <3> QED
      BY <3>1, Frames
  <2>2. CASE \E pairs, key : IsList(pairs) /\ f = Open(pairs, key)
    <3>1. PICK pairs, key : IsList(pairs) /\ f = Open(pairs, key)
      BY <2>2
    <3> QED
      BY <3>1, Frames
  <2> QED
    BY <2>1, <2>2 DEF IsFrame
<1>3. Start(f, Found(v, j)) = {<<e, j>>}
  <2>1. CASE f.k = "array"
   BY <2>1 DEF Start, ElementOf, Found
  <2>2. CASE f.k # "array"
    <3>1. Named(f.key, {<<v, j>>}) = {<<Pair(f.key, v), j>>}
      BY DEF Named
    <3> QED
      BY <2>2, <3>1 DEF Start, ElementOf, Found
  <2> QED
    BY <2>1, <2>2
<1>4. Outer(t, f, Found(v, j)) = Resumed(of, held, Then(t, {<<e, j>>}, of))
  BY <1>3 DEF Outer
<1>5. IsList(more)
  BY <1>2, ListAppend DEF Extends
<1> HIDE DEF of, e, held
<1>6. ASSUME j <= Len(t), t[j] = Closing(of)
      PROVE  Outer(t, f, Found(v, j)) = {<<Wrap(of, more), j + 1>>}
  <2>1. Then(t, {<<e, j>>}, of) = Single(e, j + 1)
    BY <1>1, <1>6, ThenOfOne
  <2> QED
    BY <1>2, <1>4, <2>1, ResumedOfOne
<1>7. ASSUME j <= Len(t), t[j] = Comma
      PROVE  Outer(t, f, Found(v, j)) = Resumed(of, more, From(t, j + 1, of))
  <2>1. Outer(t, f, Found(v, j)) = Resumed(of, held, After(e, From(t, j + 1, of)))
    BY <1>1, <1>4, <1>7, ThenOfOne
  <2>2. j + 1 \in 1 .. Len(t) + 1
    BY <1>7 DEF Streams
  <2>3. \A y \in From(t, j + 1, of) : IsList(y[1])
    BY <1>1, <2>2, FromIsList
  <2> QED
    BY <1>2, <2>1, <2>3, ResumedAfter
<1>8. ~(j <= Len(t) /\ t[j] \in {Closing(of), Comma}) => Outer(t, f, Found(v, j)) = {}
  BY <1>1, <1>4, ThenOfOne, Nothing
<1> QED
  BY <1>1, <1>2, <1>5, <1>6, <1>7, <1>8 DEF of, e, held

-----------------------------------------------------------------------------
LEMMA ReadingStarts ==
    ASSUME DocumentAssumption, DocumentInit
    PROVE  Reading
<1>1. tokens \in Streams /\ Len(tokens) \in Nat /\ 1 \in 1 .. Len(tokens) + 1
  BY DEF DocumentAssumption, DocumentInit, Streams
<1>2. Sees(place) /\ Position(tokens, place) = 1
  BY <1>1, SkipSees, Positions DEF DocumentInit
<1>3. Leads(Compact(tokens), <<>>, Stands(Compact(tokens), Position(tokens, place)), Stands(Compact(tokens), 1))
  BY <1>2, LeadsFromNothing
<1>4. ReadingAt(tokens, place, <<>>, value, "value")
  BY <1>1, <1>2, <1>3, NoFrames DEF ReadingAt, Sees
<1> QED
  BY <1>4 DEF Reading, DocumentInit

\* Where the reader is in each stage, in the text t without its blanks.
LEMMA WhereIs ==
    ASSUME Reading
    PROVE  /\ tokens \in Streams /\ Compact(tokens) \in Streams /\ IsStack(stack)
           /\ Len(tokens) \in Nat /\ Len(Compact(tokens)) \in Nat
           /\ place \in 1 .. Len(tokens) + 1
           /\ Position(tokens, place) \in 1 .. Len(Compact(tokens)) + 1
           /\ stage = "value" =>
                /\ Sees(place)
                /\ Leads(Compact(tokens), stack, Stands(Compact(tokens), Position(tokens, place)),
                         Stands(Compact(tokens), 1))
           /\ stage = "attach" =>
                Leads(Compact(tokens), stack, {<<value, Position(tokens, place)>>}, Stands(Compact(tokens), 1))
           /\ stage = "read" => Values(tokens) = {value}
<1>1. /\ tokens \in Streams /\ IsStack(stack) /\ place \in 1 .. Len(tokens) + 1
      /\ stage = "value" =>
           /\ place <= Len(tokens) => tokens[place] # Space
           /\ Leads(Compact(tokens), stack, Stands(Compact(tokens), Position(tokens, place)),
                    Stands(Compact(tokens), 1))
      /\ stage = "attach" =>
           Leads(Compact(tokens), stack, {<<value, Position(tokens, place)>>}, Stands(Compact(tokens), 1))
      /\ stage = "read" => Values(tokens) = {value}
  BY DEF Reading, ReadingAt
<1>2. Compact(tokens) \in Streams /\ Len(Compact(tokens)) \in Nat
  BY <1>1, Positions
<1>3. Position(tokens, place) \in 1 .. Len(Compact(tokens)) + 1
  BY <1>1, Positions
<1> QED
  BY <1>1, <1>2, <1>3 DEF Sees, Streams

LEMMA ScalarIsRead ==
    ASSUME DocumentAssumption, Reading, ReadScalar
    PROVE  Reading'
<1> DEFINE t == Compact(tokens)
           pos == Position(tokens, place)
<1>1. /\ tokens \in Streams /\ t \in Streams /\ IsStack(stack) /\ Sees(place)
      /\ Leads(t, stack, Stands(t, pos), Stands(t, 1))
  BY WhereIs DEF ReadScalar
<1>2. place <= Len(tokens) /\ tokens[place] \in Scalars /\ tokens' = tokens
  BY DEF ReadScalar
<1>3. /\ pos \in 1 .. Len(t) + 1 /\ pos <= Len(t) /\ t[pos] = tokens[place]
      /\ place + 1 \in 1 .. Len(tokens) + 1 /\ Position(tokens, place + 1) = pos + 1
  BY <1>1, <1>2, Seen
<1>4. pos \in 1 .. Len(t)
  BY <1>1, <1>3, WhereIs
<1>5. Stands(t, pos) = {<<Scalar(tokens[place]), Position(tokens, place + 1)>>}
  BY <1>1, <1>2, <1>3, <1>4, ScalarStarts
<1>6. Deliver(stack, Scalar(tokens[place]), place + 1)
  BY DEF ReadScalar
<1> QED
  BY <1>1, <1>2, <1>3, <1>5, <1>6, Finishes

LEMMA NoValueIsRead ==
    ASSUME DocumentAssumption, Reading, ExpectValue
    PROVE  Reading'
<1> DEFINE t == Compact(tokens)
           pos == Position(tokens, place)
<1>1. /\ tokens \in Streams /\ t \in Streams /\ IsStack(stack) /\ Sees(place)
      /\ pos \in 1 .. Len(t) + 1 /\ Len(t) \in Nat
      /\ Leads(t, stack, Stands(t, pos), Stands(t, 1))
  BY WhereIs DEF ExpectValue
<1>2. /\ ~(place <= Len(tokens) /\ tokens[place] \in Scalars \cup {"[", LeftBrace})
      /\ RefuseText /\ tokens' = tokens
  BY DEF ExpectValue
<1>3. /\ place <= Len(tokens) <=> pos <= Len(t)
      /\ place <= Len(tokens) => t[pos] = tokens[place]
  BY <1>1, Seen
<1>4. pos = Len(t) + 1 \/ t[pos] \notin Scalars \cup {"[", LeftBrace}
  <2>1. pos <= Len(t) \/ pos = Len(t) + 1
    BY <1>1
  <2> QED
    BY <1>2, <1>3, <2>1
<1>5. Stands(t, pos) = {}
  BY <1>1, <1>4, NothingStarts
<1> QED
  BY <1>1, <1>2, <1>5, Refuses

\* What follows the opening bracket of a container.
LEMMA Opened ==
    ASSUME DocumentAssumption, Reading, stage = "value", NEW of \in Kinds, At(place, Opening(of))
    PROVE  LET i == Skip(place + 1)
               t == Compact(tokens)
               pos == Position(tokens, place) + 1 IN
           /\ tokens \in Streams /\ t \in Streams /\ IsStack(stack) /\ Sees(i)
           /\ pos \in 1 .. Len(t) + 1 /\ Position(tokens, i) = pos
           /\ At(i, Closing(of)) =>
                /\ i + 1 \in 1 .. Len(tokens) + 1
                /\ Leads(t, stack, {<<Empty(of), Position(tokens, i + 1)>>}, Stands(t, 1))
           /\ ~At(i, Closing(of)) => Leads(t, stack, Resumed(of, <<>>, From(t, pos, of)), Stands(t, 1))
<1> DEFINE i == Skip(place + 1)
           t == Compact(tokens)
           here == Position(tokens, place)
<1>1. /\ tokens \in Streams /\ t \in Streams /\ IsStack(stack) /\ Sees(place)
      /\ here \in 1 .. Len(t) + 1 /\ Len(t) \in Nat
      /\ Leads(t, stack, Stands(t, here), Stands(t, 1))
  BY WhereIs
<1>2. here <= Len(t) /\ t[here] = Opening(of)
  BY <1>1, AtIs
<1>3. here \in 1 .. Len(t) /\ here + 1 \in 1 .. Len(t) + 1
  BY <1>1, <1>2
<1>4. place + 1 \in 1 .. Len(tokens) + 1 /\ Position(tokens, place + 1) = here + 1
  <2>1. place <= Len(tokens)
    BY DEF At
  <2> QED
    BY <1>1, <2>1, Seen
<1>5. Sees(i) /\ Position(tokens, i) = here + 1
  BY <1>1, <1>4, SkipSees
<1> HIDE DEF i, t
<1>6. At(i, Closing(of)) <=> here + 1 <= Len(t) /\ t[here + 1] = Closing(of)
  BY <1>1, <1>5, AtIs DEF t
<1>7. ASSUME At(i, Closing(of))
      PROVE  /\ i + 1 \in 1 .. Len(tokens) + 1
             /\ Leads(t, stack, {<<Empty(of), Position(tokens, i + 1)>>}, Stands(t, 1))
  <2>1. i <= Len(tokens)
    BY <1>7 DEF At
  <2>2. i + 1 \in 1 .. Len(tokens) + 1 /\ Position(tokens, i + 1) = (here + 1) + 1
    BY <1>1, <1>5, <2>1, Seen
  <2>3. Stands(t, here) = {<<Empty(of), here + 2>>}
    BY <1>1, <1>2, <1>3, <1>6, <1>7, ContainerStarts
  <2>4. (here + 1) + 1 = here + 2
    BY <1>1
  <2> QED
    BY <1>1, <2>2, <2>3, <2>4
<1>8. ASSUME ~At(i, Closing(of)) PROVE Leads(t, stack, Resumed(of, <<>>, From(t, here + 1, of)), Stands(t, 1))
  <2>1. Stands(t, here) = Wrapped(of, From(t, here + 1, of))
    BY <1>1, <1>2, <1>3, <1>6, <1>8, ContainerStarts
  <2>2. Stands(t, here) = Resumed(of, <<>>, From(t, here + 1, of))
    BY <1>1, <1>3, <2>1, ResumedFromNone
  <2> QED
    BY <1>1, <2>2
<1> QED
  BY <1>1, <1>3, <1>5, <1>7, <1>8 DEF i, t

\* A list is gone on with: an item or a key comes next, or nothing is denoted.
LEMMA ItemComes ==
    ASSUME DocumentAssumption, tokens \in Streams, tokens' = tokens, NEW frames, IsStack(frames),
           NEW held, IsList(held), NEW i, Sees(i), Enter(frames, Array(held), i),
           Leads(Compact(tokens), frames,
                 Resumed("items", held, From(Compact(tokens), Position(tokens, i), "items")),
                 Stands(Compact(tokens), 1))
    PROVE  Reading'
<1>1. Compact(tokens) \in Streams /\ Position(tokens, i) \in 1 .. Len(Compact(tokens)) + 1
  BY Positions, Seen
<1>2. Resumed("items", held, From(Compact(tokens), Position(tokens, i), "items"))
        = Outer(Compact(tokens), Array(held), Stands(Compact(tokens), Position(tokens, i)))
  BY <1>1, Resumes
<1>3. IsFrame(Array(held))
  BY DEF IsFrame
<1> QED
  BY <1>2, <1>3, Enters

LEMMA KeyComes ==
    ASSUME DocumentAssumption, Reading, tokens' = tokens, NEW frames, IsStack(frames),
           NEW held, IsList(held), NEW i, Sees(i),
           ReadKey(i).ok => Enter(frames, Open(held, ReadKey(i).key), ReadKey(i).next),
           ~ReadKey(i).ok => RefuseText,
           Leads(Compact(tokens), frames,
                 Resumed("members", held, From(Compact(tokens), Position(tokens, i), "members")),
                 Stands(Compact(tokens), 1))
    PROVE  Reading'
<1> DEFINE t == Compact(tokens)
           pos == Position(tokens, i)
           key == ReadKey(i).key
           next == ReadKey(i).next
<1>1. tokens \in Streams /\ t \in Streams /\ pos \in 1 .. Len(t) + 1
  BY WhereIs, Seen
<1>2. ReadKey(i).ok <=> pos + 1 <= Len(t) /\ t[pos] \in Range(Keys) /\ t[pos + 1] = ":"
  BY <1>1, KeyIs
<1>3. CASE ReadKey(i).ok
  <2>1. key = t[pos] /\ Sees(next) /\ Position(tokens, next) = pos + 2
    BY <1>1, <1>3, KeyIs
  <2>2. Resumed("members", held, From(t, pos, "members")) = Outer(t, Open(held, t[pos]), Stands(t, pos + 2))
    BY <1>1, <1>2, <1>3, Resumes
  <2>3. IsFrame(Open(held, key))
    BY DEF IsFrame
  <2>4. Enter(frames, Open(held, key), next)
    BY <1>3
  <2> HIDE DEF key, next
  <2>5. Leads(t, frames, Outer(t, Open(held, key), Stands(t, Position(tokens, next))), Stands(t, 1))
    BY <2>1, <2>2
  <2> QED
    BY <1>1, <2>1, <2>3, <2>4, <2>5, Enters
<1>4. CASE ~ReadKey(i).ok
  <2>1. Resumed("members", held, From(t, pos, "members")) = {}
    BY <1>1, <1>2, <1>4, Resumes
  <2> QED
    BY <1>4, <2>1, Refuses
<1> QED
  BY <1>3, <1>4

LEMMA ArrayIsOpened ==
    ASSUME DocumentAssumption, Reading, OpenArray
    PROVE  Reading'
<1> DEFINE i == Skip(place + 1)
<1>1. /\ stage = "value" /\ At(place, Opening("items")) /\ "items" \in Kinds /\ tokens' = tokens
      /\ At(i, "]") => Deliver(stack, Array(<<>>), i + 1)
      /\ ~At(i, "]") => Enter(stack, Array(<<>>), i)
  BY DEF OpenArray, Opening, Kinds
<1>2. Closing("items") = "]" /\ Empty("items") = Array(<<>>)
  BY DEF Closing, Empty
<1>3. /\ tokens \in Streams /\ IsStack(stack) /\ Sees(i)
      /\ At(i, "]") =>
           /\ i + 1 \in 1 .. Len(tokens) + 1
           /\ Leads(Compact(tokens), stack, {<<Array(<<>>), Position(tokens, i + 1)>>}, Stands(Compact(tokens), 1))
      /\ ~At(i, "]") =>
           Leads(Compact(tokens), stack,
                 Resumed("items", <<>>, From(Compact(tokens), Position(tokens, i), "items")),
                 Stands(Compact(tokens), 1))
  BY <1>1, <1>2, Opened
<1> HIDE DEF i
<1>4. CASE At(i, "]")
  BY <1>1, <1>3, <1>4, Finishes
<1>5. CASE ~At(i, "]")
  BY <1>1, <1>3, <1>5, ItemComes, NoneIsList
<1> QED
  BY <1>4, <1>5

LEMMA ObjectIsOpened ==
    ASSUME DocumentAssumption, Reading, OpenObject
    PROVE  Reading'
<1> DEFINE i == Skip(place + 1)
<1>1. /\ stage = "value" /\ At(place, Opening("members")) /\ "members" \in Kinds /\ tokens' = tokens
      /\ At(i, RightBrace) => Deliver(stack, Object(<<>>), i + 1)
      /\ ~At(i, RightBrace) /\ ReadKey(i).ok => Enter(stack, Open(<<>>, ReadKey(i).key), ReadKey(i).next)
      /\ ~At(i, RightBrace) /\ ~ReadKey(i).ok => RefuseText
  BY DEF OpenObject, Opening, Kinds
<1>2. Closing("members") = RightBrace /\ Empty("members") = Object(<<>>)
  BY DEF Closing, Empty
<1>3. /\ tokens \in Streams /\ IsStack(stack) /\ Sees(i)
      /\ At(i, RightBrace) =>
           /\ i + 1 \in 1 .. Len(tokens) + 1
           /\ Leads(Compact(tokens), stack, {<<Object(<<>>), Position(tokens, i + 1)>>}, Stands(Compact(tokens), 1))
      /\ ~At(i, RightBrace) =>
           Leads(Compact(tokens), stack,
                 Resumed("members", <<>>, From(Compact(tokens), Position(tokens, i), "members")),
                 Stands(Compact(tokens), 1))
  BY <1>1, <1>2, Opened
<1> HIDE DEF i
<1>4. CASE At(i, RightBrace)
  BY <1>1, <1>3, <1>4, Finishes
<1>5. CASE ~At(i, RightBrace)
  BY <1>1, <1>3, <1>5, KeyComes, NoneIsList
<1> QED
  BY <1>4, <1>5

LEMMA TextIsRead ==
    ASSUME Reading, AttachToNothing
    PROVE  Reading'
<1> DEFINE t == Compact(tokens)
           n == Len(t)
           i == Skip(place)
<1>1. /\ stage = "attach" /\ stack = <<>> /\ tokens' = tokens /\ value' = value /\ stack' = <<>> /\ place' = i
      /\ stage' = IF i = Len(tokens) + 1 THEN "read" ELSE "refused"
  BY DEF AttachToNothing
<1>2. /\ tokens \in Streams /\ place \in 1 .. Len(tokens) + 1 /\ n \in Nat
      /\ Leads(t, <<>>, {<<value, Position(tokens, place)>>}, Stands(t, 1))
  BY <1>1, WhereIs
<1>3. Stands(t, 1) = {<<value, Position(tokens, place)>>}
  BY <1>2, LeadsFromNothing
<1>4. Sees(i) /\ Position(tokens, i) = Position(tokens, place)
  BY <1>2, SkipSees
<1>5. \A v : v \in Values(tokens) <=> <<v, n + 1>> = <<value, Position(tokens, i)>>
  BY <1>2, <1>3, <1>4, ValuesAre
<1> HIDE DEF t, n, i
<1>6. CASE i = Len(tokens) + 1
  <2>1. Position(tokens, i) = n + 1
    BY <1>2, <1>4, <1>6, Seen DEF n, t
  <2>2. Values(tokens) = {value}
    BY <1>5, <2>1
  <2>3. ReadingAt(tokens, i, <<>>, value, "read")
    BY <1>2, <1>4, <2>2, NoFrames DEF ReadingAt, Sees
  <2> QED
    BY <1>1, <1>6, <2>3 DEF Reading
<1>7. CASE i # Len(tokens) + 1
  <2>1. i <= Len(tokens)
    BY <1>2, <1>4, <1>7 DEF Sees, Streams
  <2>2. Position(tokens, i) <= n /\ Position(tokens, i) \in 1 .. n + 1
    BY <1>2, <1>4, <2>1, Seen DEF n, t
  <2>3. Position(tokens, i) # n + 1
    BY <1>2, <2>2
  <2>4. Values(tokens) = {}
    BY <1>5, <2>3
  <2>5. ReadingAt(tokens, i, <<>>, value, "refused")
    BY <1>2, <1>4, <2>4, NoFrames DEF ReadingAt, Sees
  <2> QED
    BY <1>1, <1>7, <2>5 DEF Reading
<1> QED
  BY <1>6, <1>7

\* What follows a value within a container.
LEMMA Attached ==
    ASSUME DocumentAssumption, Reading, stage = "attach", stack # <<>>
    PROVE  LET f == Last(stack)
               of == KindOf(f)
               more == Append(Held(f), ElementOf(f, value))
               t == Compact(tokens)
               i == Skip(place)
               next == Skip(i + 1) IN
           /\ tokens \in Streams /\ IsStack(Front(stack)) /\ IsFrame(f) /\ IsList(more) /\ Sees(i)
           /\ At(i, Closing(of)) =>
                /\ i + 1 \in 1 .. Len(tokens) + 1
                /\ Leads(t, Front(stack), {<<Wrap(of, more), Position(tokens, i + 1)>>}, Stands(t, 1))
           /\ At(i, Comma) =>
                /\ Sees(next)
                /\ Leads(t, Front(stack), Resumed(of, more, From(t, Position(tokens, next), of)), Stands(t, 1))
                /\ At(next, Closing(of)) => Leads(t, Front(stack), {}, Stands(t, 1))
           /\ ~At(i, Closing(of)) /\ ~At(i, Comma) => Leads(t, Front(stack), {}, Stands(t, 1))
<1> DEFINE f == Last(stack)
           of == KindOf(f)
           more == Append(Held(f), ElementOf(f, value))
           t == Compact(tokens)
           i == Skip(place)
           next == Skip(i + 1)
           pos == Position(tokens, place)
           over == Outer(t, f, Found(value, pos))
<1>1. /\ tokens \in Streams /\ t \in Streams /\ IsStack(stack)
      /\ place \in 1 .. Len(tokens) + 1 /\ pos \in 1 .. Len(t) + 1 /\ Len(t) \in Nat
      /\ Leads(t, stack, {<<value, pos>>}, Stands(t, 1))
  BY WhereIs
<1>2. IsList(stack) /\ IsStack(Front(stack)) /\ IsFrame(f)
  BY <1>1, OneFrameLess
<1>3. Leads(t, Front(stack), over, Stands(t, 1))
  BY <1>1, <1>2, LeadsOut DEF Found
<1>4. /\ IsList(more) /\ of \in Kinds
      /\ pos <= Len(t) /\ t[pos] = Closing(of) => over = {<<Wrap(of, more), pos + 1>>}
      /\ pos <= Len(t) /\ t[pos] = Comma => over = Resumed(of, more, From(t, pos + 1, of))
      /\ ~(pos <= Len(t) /\ t[pos] \in {Closing(of), Comma}) => over = {}
  <2> HIDE DEF f, t, pos
  <2>1. IsList(more) /\ of \in Kinds
    BY <1>1, <1>2, OuterOfOne
  <2>2. pos <= Len(t) /\ t[pos] = Closing(of) => over = {<<Wrap(of, more), pos + 1>>}
    BY <1>1, <1>2, OuterOfOne
  <2>3. pos <= Len(t) /\ t[pos] = Comma => over = Resumed(of, more, From(t, pos + 1, of))
    BY <1>1, <1>2, OuterOfOne
  <2>4. ~(pos <= Len(t) /\ t[pos] \in {Closing(of), Comma}) => over = {}
    BY <1>1, <1>2, OuterOfOne
  <2> QED
    BY <2>1, <2>2, <2>3, <2>4
<1>5. Sees(i) /\ Position(tokens, i) = pos
  BY <1>1, SkipSees
<1> HIDE DEF f, of, more, t, i, next, pos, over
<1>6. /\ At(i, Closing(of)) <=> pos <= Len(t) /\ t[pos] = Closing(of)
      /\ At(i, Comma) <=> pos <= Len(t) /\ t[pos] = Comma
  BY <1>1, <1>5, AtIs DEF t
<1>7. \A x : At(i, x) => i + 1 \in 1 .. Len(tokens) + 1 /\ Position(tokens, i + 1) = pos + 1
  <2> SUFFICES ASSUME NEW x, At(i, x)
               PROVE  i + 1 \in 1 .. Len(tokens) + 1 /\ Position(tokens, i + 1) = pos + 1
    OBVIOUS
  <2>1. i <= Len(tokens)
    BY DEF At
  <2> QED
    BY <1>1, <1>5, <2>1, Seen
<1>8. At(i, Closing(of)) => Leads(t, Front(stack), {<<Wrap(of, more), Position(tokens, i + 1)>>}, Stands(t, 1))
  BY <1>3, <1>4, <1>6, <1>7
<1>9. ASSUME At(i, Comma)
      PROVE  /\ Sees(next)
             /\ Leads(t, Front(stack), Resumed(of, more, From(t, Position(tokens, next), of)), Stands(t, 1))
             /\ At(next, Closing(of)) => Leads(t, Front(stack), {}, Stands(t, 1))
  <2>1. Sees(next) /\ Position(tokens, next) = pos + 1
    BY <1>1, <1>7, <1>9, SkipSees DEF next
  <2>2. over = Resumed(of, more, From(t, pos + 1, of))
    BY <1>4, <1>6, <1>9
  <2>3. At(next, Closing(of)) => From(t, pos + 1, of) = {}
    <3> SUFFICES ASSUME At(next, Closing(of)) PROVE From(t, pos + 1, of) = {}
      OBVIOUS
    <3>1. pos + 1 <= Len(t) /\ t[pos + 1] = Closing(of)
      BY <1>1, <2>1, AtIs DEF t
    <3>2. pos + 1 \in 1 .. Len(t)
      BY <1>1, <3>1
    <3> QED
      BY <1>1, <1>4, <3>1, <3>2, NoListAtClosing
  <2> QED
    BY <1>3, <2>1, <2>2, <2>3, Nothing
<1>10. ~At(i, Closing(of)) /\ ~At(i, Comma) => Leads(t, Front(stack), {}, Stands(t, 1))
  BY <1>3, <1>4, <1>6
<1> QED
  BY <1>1, <1>2, <1>4, <1>5, <1>7, <1>8, <1>9, <1>10 DEF f, of, more, t, i, next

LEMMA ItemIsAttached ==
    ASSUME DocumentAssumption, Reading, AttachToArray
    PROVE  Reading'
<1> DEFINE f == Last(stack)
           more == Append(f.items, value)
           i == Skip(place)
           next == Skip(i + 1)
<1>1. /\ stage = "attach" /\ stack # <<>> /\ f.k = "array" /\ tokens' = tokens
      /\ At(i, "]") => Deliver(Front(stack), Array(more), i + 1)
      /\ ~At(i, "]") /\ At(i, Comma) /\ ~At(next, "]") => Enter(Front(stack), Array(more), next)
      /\ ~At(i, "]") /\ ~(At(i, Comma) /\ ~At(next, "]")) => RefuseText
  BY DEF AttachToArray
<1>2. /\ KindOf(f) = "items" /\ Held(f) = f.items /\ ElementOf(f, value) = value
      /\ Closing("items") = "]" /\ Wrap("items", more) = Array(more)
  BY <1>1 DEF KindOf, Held, ElementOf, Closing, Wrap
<1>3. /\ tokens \in Streams /\ IsStack(Front(stack)) /\ IsList(more) /\ Sees(i)
      /\ At(i, "]") =>
           /\ i + 1 \in 1 .. Len(tokens) + 1
           /\ Leads(Compact(tokens), Front(stack), {<<Array(more), Position(tokens, i + 1)>>}, Stands(Compact(tokens), 1))
      /\ At(i, Comma) =>
           /\ Sees(next)
           /\ Leads(Compact(tokens), Front(stack),
                    Resumed("items", more, From(Compact(tokens), Position(tokens, next), "items")),
                    Stands(Compact(tokens), 1))
           /\ At(next, "]") => Leads(Compact(tokens), Front(stack), {}, Stands(Compact(tokens), 1))
      /\ ~At(i, "]") /\ ~At(i, Comma) => Leads(Compact(tokens), Front(stack), {}, Stands(Compact(tokens), 1))
  BY <1>1, <1>2, Attached
<1> HIDE DEF f, more, i, next
<1>4. CASE At(i, "]")
  BY <1>1, <1>3, <1>4, Finishes
<1>5. CASE ~At(i, "]") /\ At(i, Comma) /\ ~At(next, "]")
  BY <1>1, <1>3, <1>5, ItemComes
<1>6. CASE ~At(i, "]") /\ ~(At(i, Comma) /\ ~At(next, "]"))
  BY <1>1, <1>3, <1>6, Refuses
<1> QED
  BY <1>4, <1>5, <1>6

LEMMA MemberIsAttached ==
    ASSUME DocumentAssumption, Reading, AttachToObject
    PROVE  Reading'
<1> DEFINE f == Last(stack)
           more == Append(f.pairs, Pair(f.key, value))
           i == Skip(place)
           next == Skip(i + 1)
           key == ReadKey(next)
<1>1. /\ stage = "attach" /\ stack # <<>> /\ f.k = "object" /\ tokens' = tokens
      /\ At(i, RightBrace) => Deliver(Front(stack), Object(Dict(more)), i + 1)
      /\ ~At(i, RightBrace) /\ At(i, Comma) /\ ~At(next, RightBrace) /\ key.ok =>
           Enter(Front(stack), Open(more, key.key), key.next)
      /\ ~At(i, RightBrace) /\ ~(At(i, Comma) /\ ~At(next, RightBrace) /\ key.ok) => RefuseText
  BY DEF AttachToObject
<1>2. /\ KindOf(f) = "members" /\ Held(f) = f.pairs /\ ElementOf(f, value) = Pair(f.key, value)
      /\ Closing("members") = RightBrace /\ Wrap("members", more) = Object(Merged(more))
  BY <1>1 DEF KindOf, Held, ElementOf, Closing, Wrap
<1>3. /\ tokens \in Streams /\ IsStack(Front(stack)) /\ IsList(more) /\ Sees(i)
      /\ At(i, RightBrace) =>
           /\ i + 1 \in 1 .. Len(tokens) + 1
           /\ Leads(Compact(tokens), Front(stack), {<<Object(Merged(more)), Position(tokens, i + 1)>>},
                    Stands(Compact(tokens), 1))
      /\ At(i, Comma) =>
           /\ Sees(next)
           /\ Leads(Compact(tokens), Front(stack),
                    Resumed("members", more, From(Compact(tokens), Position(tokens, next), "members")),
                    Stands(Compact(tokens), 1))
           /\ At(next, RightBrace) => Leads(Compact(tokens), Front(stack), {}, Stands(Compact(tokens), 1))
      /\ ~At(i, RightBrace) /\ ~At(i, Comma) => Leads(Compact(tokens), Front(stack), {}, Stands(Compact(tokens), 1))
  BY <1>1, <1>2, Attached
<1> HIDE DEF f, more, i, next
<1>4. CASE At(i, RightBrace)
  <2>1. Dict(more) = Merged(more)
    BY <1>3, DictIsMerged
  <2> QED
    BY <1>1, <1>3, <1>4, <2>1, Finishes
<1>5. CASE ~At(i, RightBrace) /\ At(i, Comma) /\ ~At(next, RightBrace)
  <2>1. /\ ReadKey(next).ok => Enter(Front(stack), Open(more, ReadKey(next).key), ReadKey(next).next)
        /\ ~ReadKey(next).ok => RefuseText
    BY <1>1, <1>5
  <2> QED
    BY <1>1, <1>3, <1>5, <2>1, KeyComes
<1>6. CASE ~At(i, RightBrace) /\ ~(At(i, Comma) /\ ~At(next, RightBrace))
  BY <1>1, <1>3, <1>6, Refuses
<1> QED
  BY <1>4, <1>5, <1>6

LEMMA ReadingGoesOn ==
    ASSUME DocumentAssumption, Reading, [DocumentNext]_documentVars
    PROVE  Reading'
<1>1. CASE Write
  <2>1. /\ stage' = "written" /\ tokens' = tokens /\ place' = place /\ stack' = stack /\ value' = value
    BY <1>1 DEF Write
  <2>2. ReadingAt(tokens, place, stack, value, "written")
    BY WhereIs DEF ReadingAt
  <2> QED
    BY <2>1, <2>2 DEF Reading
<1>2. CASE UNCHANGED documentVars
  BY <1>2 DEF documentVars, Reading
<1> QED
  BY <1>1, <1>2, ScalarIsRead, NoValueIsRead, ArrayIsOpened, ObjectIsOpened, TextIsRead,
     ItemIsAttached, MemberIsAttached DEF DocumentNext

\* The document reader gives a text exactly the value that the grammar gives it, whatever
\* the text, and refuses exactly the texts to which the grammar gives none.
THEOREM TextReadByGrammar == ASSUME DocumentAssumption PROVE DocumentSpec => []ReadsTheGrammar
<1>1. DocumentInit => Reading
  BY ReadingStarts
<1>2. Reading /\ [DocumentNext]_documentVars => Reading'
  BY ReadingGoesOn
<1>3. Reading => ReadsTheGrammar
  BY DEF Reading, ReadingAt, ReadsTheGrammar
<1> QED
  BY <1>1, <1>2, <1>3, PTL DEF DocumentSpec

-----------------------------------------------------------------------------
(* The three definitions by levels that the writer and its property use: which*)
(* values nest how deep, what is written of them and which are equal.  Each   *)
(* level is what Body makes of the level below.                               *)

\* The three definitions by levels: a level by the one below.
Body(which, n, below) ==
    IF which = "values" THEN Holding(below)
    ELSE IF which = "texts" THEN DumpInto(Json[n], below) ELSE Equal(Json[n], below)
Bottom(which) == IF which = "values" THEN {} ELSE <<>>
Level(which, g, n) == Body(which, n, IF n = 0 THEN Bottom(which) ELSE g[n - 1])
Levels(which, g, n) == g = [k \in 0 .. n |-> Level(which, g, k)]

LEMMA LevelsAgree ==
    ASSUME NEW which, NEW g, NEW h, NEW n \in Nat, NEW m \in Nat,
           Levels(which, g, n), Levels(which, h, m)
    PROVE  \A k \in Nat : k <= n /\ k <= m => g[k] = h[k]
<1> DEFINE T == {k \in Nat : k <= n /\ k <= m /\ g[k] # h[k]}
<1>1. SUFFICES ASSUME T # {} PROVE FALSE
  BY <1>1
<1>2. PICK k \in T : \A j \in T : k <= j
  <2>1. T \in SUBSET Nat
    OBVIOUS
  <2> HIDE DEF T
  <2> QED
    BY <1>1, <2>1, LeastOf
<1>3. k \in 0 .. n /\ k \in 0 .. m /\ k \in Nat /\ g[k] # h[k]
  BY <1>2
<1>4. g[k] = Level(which, g, k) /\ h[k] = Level(which, h, k)
  BY <1>3 DEF Levels
<1>5. k # 0 => g[k - 1] = h[k - 1]
  <2> SUFFICES ASSUME k # 0 PROVE g[k - 1] = h[k - 1]
    OBVIOUS
  <2>1. k - 1 \in Nat /\ k - 1 <= n /\ k - 1 <= m /\ k - 1 < k
    BY <1>3
  <2>2. k - 1 \notin T
    <3> HIDE DEF T
    <3> QED
      BY <1>2, <1>3, <2>1
  <2> QED
    BY <2>1, <2>2
<1>6. Level(which, g, k) = Level(which, h, k)
  BY <1>5 DEF Level
<1> QED
  BY <1>3, <1>4, <1>6

LEMMA LevelsExist ==
    ASSUME NEW which, NEW n \in Nat
    PROVE  \E g : Levels(which, g, n)
<1> DEFINE T == {k \in Nat : ~\E g : Levels(which, g, k)}
<1>1. SUFFICES ASSUME T # {} PROVE FALSE
  BY <1>1
<1>2. PICK k \in T : \A j \in T : k <= j
  <2>1. T \in SUBSET Nat
    OBVIOUS
  <2> HIDE DEF T
  <2> QED
    BY <1>1, <2>1, LeastOf
<1>3. k \in Nat /\ ~\E g : Levels(which, g, k)
  BY <1>2
<1>4. CASE k = 0
  <2> DEFINE g == [j \in 0 .. 0 |-> Body(which, j, Bottom(which))]
  <2>1. \A j \in 0 .. 0 : Level(which, g, j) = Body(which, j, Bottom(which))
    BY DEF Level
  <2>2. g = [j \in 0 .. 0 |-> Level(which, g, j)]
    BY <2>1
  <2> HIDE DEF g
  <2>3. Levels(which, g, 0)
    BY <2>2 DEF Levels
  <2> QED
    BY <1>3, <1>4, <2>3
<1>5. CASE k # 0
  <2>1. k - 1 \in Nat /\ k - 1 < k
    BY <1>3, <1>5
  <2>2. k - 1 \notin T
    <3> HIDE DEF T
    <3> QED
      BY <1>2, <1>3, <2>1
  <2>3. PICK f : Levels(which, f, k - 1)
    BY <2>1, <2>2
  <2> DEFINE g == [j \in 0 .. k |-> Level(which, f, j)]
  <2>4. \A j \in 0 .. k - 1 : f[j] = Level(which, f, j)
    BY <2>3 DEF Levels
  <2>5. \A j \in 0 .. k - 1 : j \in 0 .. k /\ g[j] = f[j]
    BY <1>3, <2>4
  <2>6. \A j \in 0 .. k : Level(which, g, j) = Level(which, f, j)
    <3> TAKE j \in 0 .. k
    <3>1. j # 0 => j - 1 \in 0 .. k - 1
      BY <1>3
    <3>2. j # 0 => g[j - 1] = f[j - 1]
      BY <2>5, <3>1
    <3> HIDE DEF g
    <3> QED
      BY <3>2 DEF Level
  <2>7. g = [j \in 0 .. k |-> Level(which, g, j)]
    BY <2>6
  <2> HIDE DEF g
  <2>8. Levels(which, g, k)
    BY <2>7 DEF Levels
  <2> QED
    BY <1>3, <2>8
<1> QED
  BY <1>4, <1>5

LEMMA EveryLevel ==
    ASSUME NEW which
    PROVE  \E h : h = [n \in Nat |-> Level(which, h, n)]
<1> DEFINE g(n) == CHOOSE g : Levels(which, g, n)
           h == [n \in Nat |-> g(n)[n]]
<1>1. \A n \in Nat : Levels(which, g(n), n)
  BY LevelsExist
<1> HIDE DEF g
<1>2. ASSUME NEW n \in Nat PROVE g(n)[n] = Level(which, h, n)
  <2>1. n \in 0 .. n
    OBVIOUS
  <2>2. g(n)[n] = Level(which, g(n), n)
    BY <1>1, <2>1 DEF Levels
  <2>3. n # 0 => g(n)[n - 1] = h[n - 1]
    <3> SUFFICES ASSUME n # 0 PROVE g(n)[n - 1] = h[n - 1]
      OBVIOUS
    <3>1. n - 1 \in Nat /\ n - 1 <= n
      OBVIOUS
    <3>2. g(n)[n - 1] = g(n - 1)[n - 1]
      BY <1>1, <3>1, LevelsAgree
    <3> QED
      BY <3>1, <3>2
  <2> HIDE DEF h
  <2>4. Level(which, g(n), n) = Level(which, h, n)
    BY <2>3 DEF Level
  <2> QED
    BY <2>2, <2>4
<1>3. h = [n \in Nat |-> Level(which, h, n)]
  BY <1>2
<1> QED
  BY <1>3

LEMMA LevelsAre ==
    ASSUME NEW n \in Nat
    PROVE  /\ Json[n] = Holding(IF n = 0 THEN {} ELSE Json[n - 1])
           /\ Dumps[n] = DumpInto(Json[n], IF n = 0 THEN <<>> ELSE Dumps[n - 1])
           /\ PyEq[n] = Equal(Json[n], IF n = 0 THEN <<>> ELSE PyEq[n - 1])
<1>1. Json = CHOOSE h : h = [k \in Nat |-> Level("values", h, k)]
  BY DEF Json, Level, Body, Bottom
<1>2. Dumps = CHOOSE h : h = [k \in Nat |-> Level("texts", h, k)]
  BY DEF Dumps, Level, Body, Bottom
<1>3. PyEq = CHOOSE h : h = [k \in Nat |-> Level("equality", h, k)]
  BY DEF PyEq, Level, Body, Bottom
<1>4. Json = [k \in Nat |-> Level("values", Json, k)]
  BY <1>1, EveryLevel
<1>5. Dumps = [k \in Nat |-> Level("texts", Dumps, k)]
  BY <1>2, EveryLevel
<1>6. PyEq = [k \in Nat |-> Level("equality", PyEq, k)]
  BY <1>3, EveryLevel
<1>7. /\ Json[n] = Level("values", Json, n)
      /\ Dumps[n] = Level("texts", Dumps, n)
      /\ PyEq[n] = Level("equality", PyEq, n)
  BY <1>4, <1>5, <1>6
<1> QED
  BY <1>7 DEF Level, Body, Bottom

-----------------------------------------------------------------------------
(* What a text of n tokens denotes is a value of the n-th level, whose objects*)
(* have no key twice.                                                         *)

\* A value that a text of up to n tokens denotes.
IsMeant(v, n) == \E s \in Streams : Len(s) <= n /\ v \in Denotes(s)
IsMapping(l, n) ==
    /\ IsList(l)
    /\ \A k \in 1 .. Len(l) : \E key \in Range(Keys) : \E w : IsMeant(w, n) /\ l[k] = Pair(key, w)
    /\ \A i \in 1 .. Len(l), j \in 1 .. Len(l) : l[i].key = l[j].key => i = j

LEMMA ListOf ==
    ASSUME NEW l, IsList(l), NEW S, \A k \in 1 .. Len(l) : l[k] \in S
    PROVE  l \in Seq(S)
<1>1. Len(l) \in Nat /\ l = [i \in 1 .. Len(l) |-> l[i]]
  BY ListIs
<1> DEFINE n == Len(l)
           f == [i \in 1 .. n |-> l[i]]
<1> HIDE DEF n
<1>2. f \in Seq(S)
  BY <1>1 DEF n
<1> QED
  BY <1>1, <1>2 DEF n

LEMMA MembersMeant ==
    ASSUME DocumentAssumption, NEW n \in Nat, NEW s \in Streams, Len(s) <= n,
           NEW e \in Elements(Meaning, s, "members")
    PROVE  \E key \in Range(Keys) : \E w : IsMeant(w, n) /\ e = Pair(key, w)
<1>1. Len(s) \in Nat
  BY DEF Streams
<1>2. Elements(Meaning, s, "members") =
        IF Len(s) > 2 /\ s[1] \in Range(Keys) /\ s[2] = ":"
        THEN {Pair(s[1], v) : v \in Denotes(SubSeq(s, 3, Len(s)))} ELSE {}
  BY DEF Elements, Denotes
<1>3. Len(s) > 2 /\ s[1] \in Range(Keys)
  BY <1>2
<1> DEFINE u == SubSeq(s, 3, Len(s))
<1>4. PICK w \in Denotes(u) : e = Pair(s[1], w)
  BY <1>2
<1>5. u \in Streams /\ Len(u) = Len(s) - 3 + 1
  <2>1. 3 \in 1 .. Len(s) + 1 /\ Len(s) \in 3 - 1 .. Len(s)
    BY <1>1, <1>3
  <2> QED
    BY <2>1, PieceOf
<1> HIDE DEF u
<1>6. Len(u) <= n
  BY <1>1, <1>3, <1>5
<1>7. IsMeant(w, n)
  BY <1>4, <1>5, <1>6 DEF IsMeant
<1> QED
  BY <1>3, <1>4, <1>7

\* Of every list of members what is merged is a mapping.
LEMMA MergedMeant ==
    ASSUME NEW n, NEW l, IsList(l),
           \A k \in 1 .. Len(l) : \E key \in Range(Keys) : \E w : IsMeant(w, n) /\ l[k] = Pair(key, w)
    PROVE  IsMapping(Merged(l), n)
<1> DEFINE p == Merged(l)
           N == Cardinality(Firsts(l))
<1>1. /\ IsList(p) /\ Len(p) = N /\ DOMAIN p = 1 .. N
      /\ \A i \in Firsts(l) : p[Cardinality(UpToIn(Firsts(l), i))] = l[Max(SameKey(l, i))]
      /\ \A k \in 1 .. N : \E i \in Firsts(l) : k = Cardinality(UpToIn(Firsts(l), i))
      /\ \A a \in DOMAIN p, b \in DOMAIN p : p[a].key = p[b].key => a = b
  BY MergedIs
<1>2. \A i \in Firsts(l) : i \in 1 .. Len(l) /\ Max(SameKey(l, i)) \in 1 .. Len(l)
  <2> TAKE i \in Firsts(l)
  <2>1. i \in 1 .. Len(l)
    BY KeysOf
  <2>2. SameKey(l, i) \in SUBSET (1 .. Len(l)) /\ Max(SameKey(l, i)) \in SameKey(l, i)
    BY <2>1, KeysOf
  <2> QED
    BY <2>1, <2>2
<1> HIDE DEF p, N
<1>3. ASSUME NEW k \in 1 .. Len(p)
      PROVE  \E key \in Range(Keys) : \E w : IsMeant(w, n) /\ p[k] = Pair(key, w)
  <2>1. PICK i \in Firsts(l) : k = Cardinality(UpToIn(Firsts(l), i))
    BY <1>1
  <2>2. p[k] = l[Max(SameKey(l, i))] /\ Max(SameKey(l, i)) \in 1 .. Len(l)
    BY <1>1, <1>2, <2>1
  <2> QED
    BY <2>2
<1>4. IsMapping(p, n)
  BY <1>1, <1>3 DEF IsMapping
<1> QED
  BY <1>4 DEF p

LEMMA MeantIs ==
    ASSUME DocumentAssumption, NEW n \in Nat, NEW v, IsMeant(v, n)
    PROVE  /\ n - 1 \in Nat
           /\ \/ \E t \in Scalars : v = Scalar(t)
              \/ \E l : v = Array(l) /\ IsList(l) /\ \A k \in 1 .. Len(l) : IsMeant(l[k], n - 1)
              \/ \E l : v = Object(l) /\ IsMapping(l, n - 1)
<1>1. PICK s \in Streams : Len(s) <= n /\ v \in Denotes(s)
  BY DEF IsMeant
<1>2. Len(s) \in Nat
  BY <1>1 DEF Streams
<1> DEFINE inner == SubSeq(s, 2, Len(s) - 1)
           lists == Listed(inner, "items")
           members == Listed(inner, "members")
<1>3. Len(s) >= 1 /\ s[1] \in Scalars \cup {"[", LeftBrace}
  BY <1>1, <1>2, DenotedByFirst
<1>4. n - 1 \in Nat
  BY <1>1, <1>2, <1>3
<1>5. Len(s) > 2 => inner \in Streams /\ Len(inner) <= n - 1
  <2> SUFFICES ASSUME Len(s) > 2 PROVE inner \in Streams /\ Len(inner) <= n - 1
    OBVIOUS
  <2>1. 2 \in 1 .. Len(s) + 1 /\ Len(s) - 1 \in 2 - 1 .. Len(s)
    BY <1>2
  <2>2. inner \in Streams /\ Len(inner) = (Len(s) - 1) - 2 + 1
    BY <2>1, PieceOf
  <2> HIDE DEF inner
  <2> QED
    BY <1>1, <1>2, <2>2
<1> HIDE DEF inner
<1>6. CASE s[1] \in Scalars
  <2>1. v = Scalar(s[1])
    BY <1>1, <1>2, <1>3, <1>6, DenotedByFirst
  <2> QED
    BY <1>4, <1>6, <2>1
<1>7. CASE s[1] = "["
  <2>1. CASE Len(s) > 2
    <3>1. PICK l \in lists : v = Array(l)
      BY <1>1, <1>2, <1>3, <1>7, <2>1, DenotedByFirst DEF inner
    <3>2. Formed(l, "items", Len(inner))
      BY <1>5, <2>1, <3>1, ListedIs DEF Kinds
    <3>3. ASSUME NEW k \in 1 .. Len(l) PROVE IsMeant(l[k], n - 1)
      <4>1. PICK u \in Streams : Len(u) <= Len(inner) /\ l[k] \in Elements(Meaning, u, "items")
        BY <3>2 DEF Formed
      <4>2. l[k] \in Denotes(u)
        BY <4>1 DEF Elements, Denotes
      <4>3. Len(u) <= n - 1
        <5>1. Len(u) \in Nat /\ Len(inner) \in Nat
          BY <1>5, <2>1 DEF Streams
        <5> QED
          BY <1>4, <1>5, <2>1, <4>1, <5>1
      <4> QED
        BY <4>2, <4>3 DEF IsMeant
    <3> QED
      BY <1>4, <3>1, <3>2, <3>3 DEF Formed
  <2>2. CASE ~(Len(s) > 2)
    <3>1. v = Array(<<>>)
      <4>1. CASE Len(s) = 2 /\ s[2] = "]"
        BY <1>1, <1>7, <4>1, DenotedByFirst
      <4>2. CASE ~(Len(s) = 2 /\ s[2] = "]")
        <5>1. s[Len(s)] # "]"
          <6>1. Len(s) = 1 \/ Len(s) = 2
            <7>1. \A m \in Nat : m >= 1 /\ ~(m > 2) => m = 1 \/ m = 2
              OBVIOUS
            <7>2. Len(s) >= 1
              BY <1>3
            <7> QED
              BY <1>2, <2>2, <7>1, <7>2
          <6>2. s[1] # "]"
            BY <1>7
          <6>3. Len(s) = 2 => s[2] # "]"
            BY <4>2
          <6> QED
            BY <6>1, <6>2, <6>3
        <5> QED
          BY <1>1, <1>3, <1>7, <5>1, DenotedByFirst
      <4> QED
        BY <4>1, <4>2
    <3>2. IsList(<<>>) /\ \A k \in 1 .. Len(<<>>) : FALSE
      BY NoneIsList
    <3> QED
      BY <1>4, <3>1, <3>2
  <2> QED
    BY <2>1, <2>2
<1>8. CASE s[1] = LeftBrace
  <2>1. CASE Len(s) > 2
    <3>1. PICK l \in members : v = Object(Merged(l))
      BY <1>1, <1>2, <1>3, <1>8, <2>1, DenotedByFirst DEF inner
    <3>2. Formed(l, "members", Len(inner))
      BY <1>5, <2>1, <3>1, ListedIs DEF Kinds
    <3>3. ASSUME NEW k \in 1 .. Len(l)
          PROVE  \E key \in Range(Keys) : \E w : IsMeant(w, n - 1) /\ l[k] = Pair(key, w)
      <4>1. PICK u \in Streams : Len(u) <= Len(inner) /\ l[k] \in Elements(Meaning, u, "members")
        BY <3>2 DEF Formed
      <4>2. Len(u) <= n - 1
        <5>1. Len(u) \in Nat /\ Len(inner) \in Nat
          BY <1>5, <2>1 DEF Streams
        <5> QED
          BY <1>4, <1>5, <2>1, <4>1, <5>1
      <4> QED
        BY <1>4, <4>1, <4>2, MembersMeant
    <3>4. IsMapping(Merged(l), n - 1)
      BY <3>2, <3>3, MergedMeant DEF Formed
    <3> QED
      BY <1>4, <3>1, <3>4
  <2>2. CASE ~(Len(s) > 2)
    <3>1. v = Object(<<>>)
      <4>1. CASE Len(s) = 2 /\ s[2] = RightBrace
        BY <1>1, <1>8, <4>1, DenotedByFirst
      <4>2. CASE ~(Len(s) = 2 /\ s[2] = RightBrace)
        <5>1. s[Len(s)] # RightBrace
          <6>1. Len(s) = 1 \/ Len(s) = 2
            <7>1. \A m \in Nat : m >= 1 /\ ~(m > 2) => m = 1 \/ m = 2
              OBVIOUS
            <7>2. Len(s) >= 1
              BY <1>3
            <7> QED
              BY <1>2, <2>2, <7>1, <7>2
          <6>2. s[1] # RightBrace
            BY <1>8 DEF LeftBrace, RightBrace
          <6>3. Len(s) = 2 => s[2] # RightBrace
            BY <4>2
          <6> QED
            BY <6>1, <6>2, <6>3
        <5> QED
          BY <1>1, <1>3, <1>8, <5>1, DenotedByFirst
      <4> QED
        BY <4>1, <4>2
    <3>2. IsList(<<>>) /\ \A k \in 1 .. Len(<<>>) : FALSE
      BY NoneIsList
    <3>3. IsMapping(<<>>, n - 1)
      BY <3>2 DEF IsMapping
    <3> QED
      BY <1>4, <3>1, <3>3
  <2> QED
    BY <2>1, <2>2
<1> QED
  BY <1>3, <1>6, <1>7, <1>8

\* The values of a level of Json.
LEMMA JsonHas ==
    ASSUME NEW n \in Nat
    PROVE  /\ \A t \in Scalars : Scalar(t) \in Json[n]
           /\ \A l : n - 1 \in Nat /\ IsList(l) /\ (\A k \in 1 .. Len(l) : l[k] \in Json[n - 1])
                        => Array(l) \in Json[n]
           /\ \A l : n - 1 \in Nat /\ IsList(l)
                     /\ (\A k \in 1 .. Len(l) : \E key \in Range(Keys), w \in Json[n - 1] : l[k] = Pair(key, w))
                        => Object(l) \in Json[n]
<1> DEFINE below == IF n = 0 THEN {} ELSE Json[n - 1]
<1>1. Json[n] = Holding(below) /\ (n - 1 \in Nat => below = Json[n - 1])
  BY LevelsAre
<1> HIDE DEF below
<1>2. \A t \in Scalars : Scalar(t) \in Holding(below)
  BY DEF Holding, Scalar
<1>3. \A l \in Seq(below) : Array(l) \in Holding(below)
  BY DEF Holding, Array
<1>4. \A l \in Seq([key : Range(Keys), value : below]) : Object(l) \in Holding(below)
  BY DEF Holding, Object
<1>5. ASSUME NEW l, n - 1 \in Nat, IsList(l), \A k \in 1 .. Len(l) : l[k] \in Json[n - 1]
      PROVE  Array(l) \in Json[n]
  BY <1>1, <1>3, <1>5, ListOf
<1>6. ASSUME NEW l, n - 1 \in Nat, IsList(l),
             \A k \in 1 .. Len(l) : \E key \in Range(Keys), w \in Json[n - 1] : l[k] = Pair(key, w)
      PROVE  Object(l) \in Json[n]
  <2>1. \A k \in 1 .. Len(l) : \E key \in Range(Keys), w \in below : l[k] = Pair(key, w)
    BY <1>1, <1>6
  <2>2. \A key \in Range(Keys), w \in below : Pair(key, w) \in [key : Range(Keys), value : below]
    BY DEF Pair
  <2>3. \A k \in 1 .. Len(l) : l[k] \in [key : Range(Keys), value : below]
    BY <2>1, <2>2
  <2> QED
    BY <1>1, <1>4, <1>6, <2>3, ListOf
<1> QED
  BY <1>1, <1>2, <1>5, <1>6

LEMMA MeantIsJson ==
    ASSUME DocumentAssumption, NEW n \in Nat, NEW v, IsMeant(v, n)
    PROVE  v \in Json[n]
<1> DEFINE T == {m \in Nat : \E w : IsMeant(w, m) /\ w \notin Json[m]}
<1> SUFFICES ASSUME v \notin Json[n] PROVE FALSE
  OBVIOUS
<1>1. T \in SUBSET Nat /\ T # {}
  OBVIOUS
<1>2. PICK m \in T : \A k \in T : m <= k
  BY <1>1, LeastOf
<1>3. PICK w : IsMeant(w, m) /\ w \notin Json[m]
  BY <1>2
<1>4. m \in Nat /\ m - 1 \in Nat
  BY <1>2, <1>3, MeantIs
<1>5. \A x : IsMeant(x, m - 1) => x \in Json[m - 1]
  BY <1>2, <1>4
<1> HIDE DEF T
<1>6. ASSUME NEW t \in Scalars, w = Scalar(t) PROVE FALSE
  BY <1>3, <1>4, <1>6, JsonHas
<1>7. ASSUME NEW l, w = Array(l), IsList(l), \A k \in 1 .. Len(l) : IsMeant(l[k], m - 1) PROVE FALSE
  BY <1>3, <1>4, <1>5, <1>7, JsonHas
<1>8. ASSUME NEW l, w = Object(l), IsMapping(l, m - 1) PROVE FALSE
  <2>1. \A k \in 1 .. Len(l) : \E key \in Range(Keys), x \in Json[m - 1] : l[k] = Pair(key, x)
    BY <1>5, <1>8 DEF IsMapping
  <2>2. IsList(l)
    BY <1>8 DEF IsMapping
  <2> QED
    BY <1>3, <1>4, <1>8, <2>1, <2>2, JsonHas
<1> QED
  BY <1>3, <1>4, <1>6, <1>7, <1>8, MeantIs

-----------------------------------------------------------------------------
(* Texts within texts: where a text holds another, and the laying of several  *)
(* end to end.                                                                *)

\* The text s holds the text w from i on.
Bears(s, i, w) == i + Len(w) <= Len(s) + 1 /\ \A k \in 1 .. Len(w) : s[i + k - 1] = w[k]

LEMMA BearsItself == \A s \in Streams : Bears(s, 1, s) /\ Len(s) \in Nat
<1> TAKE s \in Streams
<1>1. Len(s) \in Nat
  BY DEF Streams
<1>2. \A k \in 1 .. Len(s) : 1 + k - 1 = k
  BY <1>1
<1> QED
  BY <1>1, <1>2 DEF Bears

LEMMA StreamsJoin ==
    ASSUME NEW u \in Streams, NEW w \in Streams
    PROVE  /\ u \o w \in Streams /\ Len(u \o w) = Len(u) + Len(w)
           /\ \A i \in 1 .. Len(u) + Len(w) : (u \o w)[i] = IF i <= Len(u) THEN u[i] ELSE w[i - Len(u)]
BY ConcatProperties DEF Streams

LEMMA BearsBoth ==
    ASSUME NEW s \in Streams, NEW i \in 1 .. Len(s) + 1, NEW u \in Streams, NEW w \in Streams,
           Bears(s, i, u \o w)
    PROVE  /\ Bears(s, i, u) /\ Bears(s, i + Len(u), w)
           /\ i + Len(u) \in 1 .. Len(s) + 1 /\ i + Len(u) + Len(w) = i + Len(u \o w)
           /\ i + Len(u) + Len(w) \in 1 .. Len(s) + 1
<1> DEFINE both == u \o w
           m == Len(u)
           n == Len(w)
<1>1. Len(s) \in Nat /\ m \in Nat /\ n \in Nat
  BY DEF Streams
<1>2. /\ Len(both) = m + n
      /\ \A k \in 1 .. m + n : both[k] = IF k <= m THEN u[k] ELSE w[k - m]
  BY StreamsJoin
<1> HIDE DEF both, m, n
<1>3. i + Len(both) <= Len(s) + 1 /\ \A k \in 1 .. Len(both) : s[i + k - 1] = both[k]
  BY DEF Bears, both
<1>4. /\ i + (m + n) <= Len(s) + 1
      /\ \A k \in 1 .. m + n : s[i + k - 1] = IF k <= m THEN u[k] ELSE w[k - m]
  BY <1>2, <1>3
<1>5. \A k \in 1 .. m : s[i + k - 1] = u[k]
  <2>1. \A k \in 1 .. m : k \in 1 .. m + n /\ k <= m
    BY <1>1
  <2> QED
    BY <1>4, <2>1
<1>6. \A k \in 1 .. n : s[i + m + k - 1] = w[k]
  <2> TAKE k \in 1 .. n
  <2>1. m + k \in 1 .. m + n /\ ~(m + k <= m) /\ (m + k) - m = k /\ i + (m + k) - 1 = i + m + k - 1
    BY <1>1
  <2> QED
    BY <1>4, <2>1
<1>7. /\ i + m <= Len(s) + 1 /\ i + m + n <= Len(s) + 1 /\ i + m + n = i + (m + n)
      /\ i + m \in 1 .. Len(s) + 1 /\ i + m + n \in 1 .. Len(s) + 1
  BY <1>1, <1>4
<1>8. Bears(s, i, u)
  BY <1>5, <1>7 DEF Bears, m
<1>9. Bears(s, i + m, w)
  BY <1>6, <1>7 DEF Bears, n
<1> QED
  BY <1>2, <1>7, <1>8, <1>9 DEF m, n, both

\* Where the k-th of the joined texts begins.
Before(f, k) == IF k = 1 THEN 0 ELSE Len(f[k - 1])
Spread(s, i, ss, f, n) ==
    /\ f[n] \in Streams
    /\ Bears(s, i, f[n]) => \A k \in 1 .. n : Bears(s, i + Before(f, k), ss[k])

LEMMA SpreadAll ==
    ASSUME NEW s \in Streams, NEW i \in 1 .. Len(s) + 1, NEW n \in Nat, NEW ss,
           \A k \in 1 .. n : ss[k] \in Streams, NEW f, IsFlat(f, ss, n)
    PROVE  \A k \in 1 .. n : Spread(s, i, ss, f, k)
<1> DEFINE T == {k \in 1 .. n : ~Spread(s, i, ss, f, k)}
<1>1. SUFFICES ASSUME T # {} PROVE FALSE
  BY <1>1
<1>2. PICK k \in T : \A j \in T : k <= j
  <2>1. T \in SUBSET Nat
    OBVIOUS
  <2> HIDE DEF T
  <2> QED
    BY <1>1, <2>1, LeastOf
<1>3. k \in 1 .. n /\ ~Spread(s, i, ss, f, k) /\ ss[k] \in Streams
  BY <1>2
<1>4. f[k] = IF k = 1 THEN ss[k] ELSE f[k - 1] \o ss[k]
  BY <1>3 DEF IsFlat
<1>5. CASE k = 1
  <2>1. f[1] = ss[1] /\ Before(f, 1) = 0 /\ i + 0 = i
    BY <1>4, <1>5 DEF Before
  <2>2. \A j \in 1 .. 1 : j = 1
    OBVIOUS
  <2>3. f[1] \in Streams /\ (Bears(s, i, f[1]) => Bears(s, i + Before(f, 1), ss[1]))
    BY <1>3, <1>5, <2>1
  <2>4. Spread(s, i, ss, f, 1)
    BY <2>2, <2>3 DEF Spread
  <2> QED
    BY <1>3, <1>5, <2>4
<1>6. CASE k # 1
  <2>1. k - 1 \in 1 .. n /\ k - 1 < k /\ k - 1 \in Nat /\ \A j \in 1 .. k : j = k \/ j \in 1 .. k - 1
    BY <1>3, <1>6
  <2>2. Spread(s, i, ss, f, k - 1)
    BY <1>2, <2>1
  <2>3. f[k] = f[k - 1] \o ss[k] /\ Before(f, k) = Len(f[k - 1])
    BY <1>4, <1>6 DEF Before
  <2>4. f[k - 1] \in Streams
    BY <2>2 DEF Spread
  <2>5. f[k] \in Streams
    BY <1>3, <2>3, <2>4, StreamsJoin
  <2>6. ASSUME Bears(s, i, f[k]) PROVE \A j \in 1 .. k : Bears(s, i + Before(f, j), ss[j])
    <3>1. Bears(s, i, f[k - 1]) /\ Bears(s, i + Before(f, k), ss[k])
      <4> DEFINE u == f[k - 1]
                 w == ss[k]
      <4>1. u \in Streams /\ w \in Streams /\ Bears(s, i, u \o w)
        BY <1>3, <2>3, <2>4, <2>6
      <4> HIDE DEF u, w
      <4>2. Bears(s, i, u) /\ Bears(s, i + Len(u), w)
        BY <4>1, BearsBoth
      <4> QED
        BY <2>3, <4>2 DEF u, w
    <3>2. \A j \in 1 .. k - 1 : Bears(s, i + Before(f, j), ss[j])
      BY <2>2, <3>1 DEF Spread
    <3> QED
      BY <2>1, <3>1, <3>2
  <2>7. Spread(s, i, ss, f, k)
    BY <2>5, <2>6 DEF Spread
  <2> QED
    BY <1>3, <2>7
<1> QED
  BY <1>5, <1>6

\* Where each of the texts that were joined begins, within a text that holds them.
Laid(s, off, ss, n) ==
    \A k \in 1 .. n : /\ off[k] \in 1 .. Len(s) + 1 /\ Bears(s, off[k], ss[k])
                      /\ off[k + 1] = off[k] + Len(ss[k])

LEMMA FlatIsLaid ==
    ASSUME NEW ss, IsList(ss), Len(ss) >= 1, \A k \in 1 .. Len(ss) : ss[k] \in Streams
    PROVE  /\ FlattenSeq(ss) \in Streams
           /\ \A s \in Streams : \A i \in 1 .. Len(s) + 1 :
                Bears(s, i, FlattenSeq(ss)) =>
                  \E off : /\ Laid(s, off, ss, Len(ss))
                           /\ off[1] = i /\ off[Len(ss) + 1] = i + Len(FlattenSeq(ss))
<1> DEFINE n == Len(ss)
<1>1. n \in Nat /\ n >= 1 /\ n \in Nat \ {0} /\ n \in 1 .. n /\ 1 \in 1 .. n
  BY ListIs
<1>2. PICK f : IsFlat(f, ss, n) /\ FlattenSeq(ss) = f[n]
  BY <1>1, FlattenIsFlat
<1> HIDE DEF n
<1>3. \A s \in Streams : \A i \in 1 .. Len(s) + 1 : \A k \in 1 .. n : Spread(s, i, ss, f, k)
  <2> TAKE s \in Streams
  <2> TAKE i \in 1 .. Len(s) + 1
  <2> QED
    BY <1>1, <1>2, SpreadAll DEF n
<1>4. \A k \in 1 .. n : f[k] \in Streams
  <2>1. <<>> \in Streams /\ 1 \in 1 .. Len(<<>>) + 1
    BY DEF Streams
  <2> QED
    BY <1>3, <2>1 DEF Spread
<1>5. ASSUME NEW s \in Streams, NEW i \in 1 .. Len(s) + 1, Bears(s, i, f[n])
      PROVE  \E off : /\ Laid(s, off, ss, n)
                      /\ off[1] = i /\ off[n + 1] = i + Len(f[n])
  <2> DEFINE off == [k \in 1 .. n + 1 |-> i + Before(f, k)]
  <2>0. Len(s) \in Nat /\ \A k \in 1 .. n : Len(ss[k]) \in Nat /\ Len(f[k]) \in Nat
    BY <1>4 DEF Streams, n
  <2>1. Spread(s, i, ss, f, n)
    BY <1>1, <1>3
  <2>2. \A k \in 1 .. n : Bears(s, i + Before(f, k), ss[k])
    BY <1>5, <2>1 DEF Spread
  <2>3. off[1] = i /\ off[n + 1] = i + Len(f[n])
    <3>1. Before(f, 1) = 0 /\ i + 0 = i /\ 1 \in 1 .. n + 1
      BY <1>1 DEF Before
    <3>2. Before(f, n + 1) = Len(f[n]) /\ n + 1 \in 1 .. n + 1
      <4>1. n + 1 # 1 /\ (n + 1) - 1 = n /\ n + 1 \in 1 .. n + 1
        BY <1>1
      <4> QED
        BY <4>1 DEF Before
    <3> QED
      BY <3>1, <3>2
  <2>4. ASSUME NEW k \in 1 .. n
        PROVE  /\ off[k] \in 1 .. Len(s) + 1 /\ Bears(s, off[k], ss[k])
               /\ off[k + 1] = off[k] + Len(ss[k])
    <3>1. k \in 1 .. n + 1 /\ k + 1 \in 1 .. n + 1 /\ k + 1 # 1 /\ (k + 1) - 1 = k
      BY <1>1
    <3>2. off[k] = i + Before(f, k) /\ off[k + 1] = i + Len(f[k])
      BY <3>1 DEF Before
    <3> HIDE DEF off
    <3>3. Bears(s, off[k], ss[k])
      BY <2>2, <3>2
    <3>4. f[k] = IF k = 1 THEN ss[k] ELSE f[k - 1] \o ss[k]
      BY <1>2 DEF IsFlat
    <3>5. Len(f[k]) = Before(f, k) + Len(ss[k]) /\ Before(f, k) \in Nat
      <4>1. CASE k = 1
        BY <2>0, <3>4, <4>1 DEF Before
      <4>2. CASE k # 1
        <5>1. k - 1 \in 1 .. n
          BY <1>1, <4>2
        <5>2. f[k] = f[k - 1] \o ss[k] /\ f[k - 1] \in Streams /\ ss[k] \in Streams
          BY <1>4, <3>4, <4>2, <5>1 DEF n
        <5>3. Len(f[k]) = Len(f[k - 1]) + Len(ss[k])
          BY <5>2, StreamsJoin
        <5> QED
          BY <2>0, <4>2, <5>1, <5>3 DEF Before
      <4> QED
        BY <4>1, <4>2
    <3>6. off[k] + Len(ss[k]) <= Len(s) + 1
      BY <3>3 DEF Bears
    <3> QED
      BY <2>0, <3>2, <3>3, <3>5, <3>6
  <2> HIDE DEF off
  <2>5. Laid(s, off, ss, n)
    BY <2>4 DEF Laid
  <2> QED
    BY <2>3, <2>5
<1> QED
  BY <1>1, <1>2, <1>4, <1>5 DEF n

-----------------------------------------------------------------------------
(* The grammar's reading of a list, found element by element.                 *)

\* What is left of a list from its k-th element on.
Rest(e, k) == SubSeq(e, k, Len(e))

LEMMA RestIs ==
    ASSUME NEW e, IsList(e), NEW k \in 1 .. Len(e)
    PROVE  /\ k = Len(e) => Rest(e, k) = <<e[k]>>
           /\ k < Len(e) => Rest(e, k) = <<e[k]>> \o Rest(e, k + 1)
           /\ Rest(e, 1) = e
<1>1. PICK S : e \in Seq(S)
  BY DEF IsList
<1> DEFINE n == Len(e)
<1>2. n \in Nat /\ e \in [1 .. n -> S]
  BY <1>1
<1> HIDE DEF n
<1>3. \A a \in 1 .. n + 1 :
        /\ IsList(SubSeq(e, a, n)) /\ Len(SubSeq(e, a, n)) = n - a + 1
        /\ \A i \in 1 .. n - a + 1 : SubSeq(e, a, n)[i] = e[a + i - 1]
  <2> TAKE a \in 1 .. n + 1
  <2>0. n = Len(e)
    BY DEF n
  <2>1. \A i \in a .. n : e[i] \in S
    BY <1>1, <1>2
  <2>2. SubSeq(e, a, n) \in Seq(S)
    BY <1>1, <1>2, <2>0, <2>1, SubSeqProperties
  <2>3. Len(SubSeq(e, a, n)) = n - a + 1 /\ \A i \in 1 .. n - a + 1 : SubSeq(e, a, n)[i] = e[a + i - 1]
    BY <1>1, <1>2, <2>0, SubSeqProperties
  <2> QED
    BY <2>2, <2>3 DEF IsList
<1> DEFINE rest == Rest(e, k)
           more == Rest(e, k + 1)
<1>4. /\ IsList(rest) /\ Len(rest) = n - k + 1 /\ \A i \in 1 .. n - k + 1 : rest[i] = e[k + i - 1]
      /\ k \in 1 .. n
  BY <1>2, <1>3 DEF Rest, n
<1>5. /\ IsList(more) /\ Len(more) = n - k
      /\ \A i \in 1 .. n - k : more[i] = e[k + i]
  <2>1. k + 1 \in 1 .. n + 1 /\ n - (k + 1) + 1 = n - k /\ \A i \in 1 .. n - k : (k + 1) + i - 1 = k + i
    BY <1>2, <1>4
  <2>2. more = SubSeq(e, k + 1, n)
    BY DEF Rest, n
  <2> HIDE DEF more
  <2>3. /\ IsList(more) /\ Len(more) = n - (k + 1) + 1
        /\ \A i \in 1 .. n - (k + 1) + 1 : more[i] = e[(k + 1) + i - 1]
    BY <1>3, <2>1, <2>2
  <2> QED
    BY <2>1, <2>3
<1> HIDE DEF rest, more
<1>6. n = Len(e)
  BY DEF n
<1>7. ASSUME k = n PROVE rest = <<e[k]>>
  <2>1. IsList(<<e[k]>>) /\ Len(<<e[k]>>) = 1 /\ <<e[k]>>[1] = e[k]
    BY OneIsList
  <2>2. Len(rest) = 1 /\ rest[1] = e[k] /\ \A i \in 1 .. 1 : i = 1
    BY <1>2, <1>4, <1>7
  <2> QED
    BY <1>4, <2>1, <2>2, ListsEqual
<1>8. ASSUME k < n PROVE rest = <<e[k]>> \o more
  <2> DEFINE both == <<e[k]>> \o more
  <2>1. /\ IsList(both) /\ Len(both) = Len(more) + 1 /\ both[1] = e[k]
        /\ \A i \in 1 .. Len(more) : both[i + 1] = more[i]
    BY <1>5, Joint
  <2> HIDE DEF both
  <2>2. Len(both) = Len(rest)
    BY <1>2, <1>4, <1>5, <2>1
  <2>3. ASSUME NEW i \in 1 .. n - k + 1 PROVE rest[i] = both[i]
    <3>1. CASE i = 1
      BY <1>2, <1>4, <2>1, <3>1
    <3>2. CASE i # 1
      <4>1. i - 1 \in 1 .. n - k /\ (i - 1) + 1 = i /\ k + (i - 1) = k + i - 1
        BY <1>2, <1>4, <3>2
      <4>2. both[i] = more[i - 1]
        BY <1>5, <2>1, <4>1
      <4>3. more[i - 1] = e[k + (i - 1)]
        BY <1>5, <4>1
      <4> QED
        BY <1>4, <4>1, <4>2, <4>3
    <3> QED
      BY <3>1, <3>2
  <2>4. rest = both
    BY <1>4, <2>1, <2>2, <2>3, ListsEqual
  <2> QED
    BY <2>4 DEF both
<1>9. Rest(e, 1) = e
  <2> DEFINE whole == Rest(e, 1)
  <2>1. IsList(whole) /\ Len(whole) = n - 1 + 1 /\ \A i \in 1 .. n - 1 + 1 : whole[i] = e[1 + i - 1]
    BY <1>2, <1>3 DEF Rest, n
  <2> HIDE DEF whole
  <2>2. n - 1 + 1 = n /\ \A i \in 1 .. n : 1 + i - 1 = i
    BY <1>2
  <2>3. Len(whole) = Len(e) /\ \A i \in 1 .. Len(whole) : whole[i] = e[i]
    BY <1>6, <2>1, <2>2
  <2>4. whole = e
    BY <2>1, <2>3, ListsEqual
  <2> QED
    BY <2>4 DEF whole
<1> QED
  BY <1>6, <1>7, <1>8, <1>9 DEF rest, more

\* The elements of e stand in the text t, the k-th between q[k] and r[k].
Lined(t, of, e, q, r) ==
    /\ \A k \in 1 .. Len(e) : /\ q[k] \in 1 .. Len(t) + 1 /\ r[k] \in 1 .. Len(t)
                              /\ ElementsFrom(t, q[k], of) = Found(e[k], r[k])
                              /\ k < Len(e) => t[r[k]] = Comma /\ q[k + 1] = r[k] + 1
                              /\ k = Len(e) => t[r[k]] = Closing(of)

LEMMA AfterFound == \A x, l, j : After(x, Found(l, j)) = Found(<<x>> \o l, j)
BY DEF After, Found

LEMMA ListFound ==
    ASSUME NEW t \in Streams, NEW of \in Kinds, NEW e, IsList(e), Len(e) >= 1, NEW q, NEW r,
           Lined(t, of, e, q, r)
    PROVE  From(t, q[1], of) = Found(e, r[Len(e)] + 1)
<1> DEFINE n == Len(e)
           end == r[n] + 1
           Listing(k) == From(t, q[k], of) = Found(Rest(e, k), end)
           T == {m \in 0 .. n - 1 : ~Listing(n - m)}
<1>1. n \in Nat /\ n >= 1
  BY ListIs
<1>2. SUFFICES ASSUME T # {} PROVE FALSE
  <2>1. n - 1 \in 0 .. n - 1 /\ n - (n - 1) = 1
    BY <1>1
  <2> HIDE DEF Listing
  <2>2. Listing(1)
    BY <1>2, <2>1
  <2>3. Rest(e, 1) = e
    <3>1. 1 \in 1 .. Len(e)
      BY <1>1
    <3> QED
      BY <3>1, RestIs
  <2> QED
    BY <2>2, <2>3 DEF Listing
<1>3. PICK m \in T : \A j \in T : m <= j
  <2>1. T \in SUBSET Nat
    BY <1>1
  <2> HIDE DEF T
  <2> QED
    BY <1>2, <2>1, LeastOf
<1>4. m \in 0 .. n - 1 /\ ~Listing(n - m)
  BY <1>3
<1> DEFINE k == n - m
<1>5. k \in 1 .. n /\ ~Listing(k)
  BY <1>1, <1>4
<1>6. k < n => Listing(k + 1)
  <2> SUFFICES ASSUME k < n PROVE Listing(k + 1)
    OBVIOUS
  <2>1. m - 1 \in 0 .. n - 1 /\ m - 1 < m /\ n - (m - 1) = k + 1
    BY <1>1, <1>4
  <2>2. m - 1 \notin T
    <3> HIDE DEF T
    <3> QED
      BY <1>1, <1>3, <1>4, <2>1
  <2> HIDE DEF Listing, k
  <2> QED
    BY <2>1, <2>2
<1> HIDE DEF T, k
<1>7. /\ q[k] \in 1 .. Len(t) + 1 /\ r[k] \in 1 .. Len(t) /\ Len(t) \in Nat
      /\ ElementsFrom(t, q[k], of) = Found(e[k], r[k])
  BY <1>5 DEF Lined, Streams
<1>8. From(t, q[k], of) = Then(t, {<<e[k], r[k]>>}, of) /\ r[k] \in 1 .. Len(t) + 1 /\ r[k] <= Len(t)
  <2>1. From(t, q[k], of) = Then(t, ElementsFrom(t, q[k], of), of)
    BY <1>7, ListUnfolds
  <2>2. ElementsFrom(t, q[k], of) = {<<e[k], r[k]>>}
    BY <1>7 DEF Found
  <2> QED
    BY <1>7, <2>1, <2>2
<1>9. CASE k = n
  <2>1. t[r[k]] = Closing(of)
    BY <1>5, <1>9 DEF Lined
  <2>2. Then(t, {<<e[k], r[k]>>}, of) = Single(e[k], r[k] + 1)
    BY <1>8, <2>1, ThenOfOne
  <2>3. Rest(e, k) = <<e[k]>>
    BY <1>5, <1>9, RestIs
  <2> QED
    BY <1>5, <1>8, <1>9, <2>2, <2>3 DEF Single, Found
<1>10. CASE k # n
  <2>1. k < n
    BY <1>1, <1>5, <1>10
  <2>2. t[r[k]] = Comma /\ q[k + 1] = r[k] + 1
    BY <1>5, <2>1 DEF Lined
  <2>3. Then(t, {<<e[k], r[k]>>}, of) = After(e[k], From(t, r[k] + 1, of))
    BY <1>8, <2>2, ThenOfOne
  <2>4. From(t, r[k] + 1, of) = Found(Rest(e, k + 1), end)
    BY <1>6, <2>1, <2>2
  <2>5. Rest(e, k) = <<e[k]>> \o Rest(e, k + 1)
    BY <1>5, <2>1, RestIs
  <2>6. From(t, q[k], of) = Found(Rest(e, k), end)
    BY <1>8, <2>3, <2>4, <2>5, AfterFound
  <2> QED
    BY <1>5, <2>6
<1> QED
  BY <1>9, <1>10

LEMMA ContainerFound ==
    ASSUME DocumentAssumption,
           NEW t \in Streams, NEW i \in 1 .. Len(t), NEW of \in Kinds, t[i] = Opening(of),
           NEW e, IsList(e), Len(e) >= 1, NEW q, NEW r, Lined(t, of, e, q, r), q[1] = i + 1
    PROVE  Stands(t, i) = Found(Wrap(of, e), r[Len(e)] + 1)
<1> DEFINE end == r[Len(e)] + 1
<1> HIDE DEF end
<1>1. From(t, i + 1, of) = Found(e, end)
  BY ListFound DEF end
<1>2. <<e, end>> \in From(t, i + 1, of)
  BY <1>1 DEF Found
<1>3. ~(i + 1 <= Len(t) /\ t[i + 1] = Closing(of))
  <2> SUFFICES ASSUME i + 1 <= Len(t), t[i + 1] = Closing(of) PROVE FALSE
    OBVIOUS
  <2>1. i + 1 \in 1 .. Len(t)
    BY DEF Streams
  <2>2. From(t, i + 1, of) = {}
    BY <2>1, NoListAtClosing
  <2> QED
    BY <1>2, <2>2
<1>4. Stands(t, i) = Wrapped(of, From(t, i + 1, of))
  BY <1>3, ContainerStarts
<1>5. Wrapped(of, Found(e, end)) = Found(Wrap(of, e), end)
  BY DEF Wrapped, Found
<1> QED
  BY <1>1, <1>4, <1>5 DEF end

-----------------------------------------------------------------------------
(* The writer's pieces, as the grammar reads them wherever they stand: a token,*)
(* a line break, a separator, an item with what parts it from the one before. *)

\* Wherever a text holds w, the grammar reads e there and goes on behind w.
ReadsAs(w, of, e) ==
    \A s \in Streams : \A i \in 1 .. Len(s) + 1 :
        Bears(s, i, w) =>
            ElementsFrom(Compact(s), Position(s, i), of) = Found(e, Position(s, i + Len(w)))

LEMMA OneToken ==
    ASSUME NEW x \in Tokens
    PROVE  <<x>> \in Streams /\ Len(<<x>>) = 1 /\ <<x>>[1] = x
BY DEF Streams

LEMMA BearsOne ==
    ASSUME NEW s \in Streams, NEW i \in 1 .. Len(s) + 1, NEW x \in Tokens, Bears(s, i, <<x>>)
    PROVE  /\ i \in 1 .. Len(s) /\ s[i] = x /\ i + 1 \in 1 .. Len(s) + 1
           /\ x # Space => /\ Position(s, i) \in 1 .. Len(Compact(s))
                           /\ Compact(s)[Position(s, i)] = x
                           /\ Position(s, i + 1) = Position(s, i) + 1
           /\ x = Space => Position(s, i + 1) = Position(s, i)
<1>1. Len(s) \in Nat
  BY DEF Streams
<1>2. i + 1 <= Len(s) + 1 /\ \A k \in 1 .. 1 : s[i + k - 1] = <<x>>[k]
  BY OneToken DEF Bears
<1>3. 1 \in 1 .. 1 /\ i + 1 - 1 = i /\ i \in 1 .. Len(s) /\ i + 1 \in i .. Len(s) + 1 /\ i + 1 \in 1 .. Len(s) + 1
  BY <1>1, <1>2
<1>4. s[i] = x
  BY <1>2, <1>3, OneToken
<1>5. \A j \in i .. (i + 1) - 1 : j = i
  BY <1>3
<1>6. x = Space => Position(s, i + 1) = Position(s, i)
  <2> SUFFICES ASSUME x = Space PROVE Position(s, i + 1) = Position(s, i)
    OBVIOUS
  <2>1. \A j \in i .. (i + 1) - 1 : s[j] = Space
    BY <1>4, <1>5
  <2> QED
    BY <1>3, <2>1, Positions
<1> QED
  BY <1>3, <1>4, <1>6, Positions

LEMMA SymbolTokens == {"[", "]", LeftBrace, RightBrace, Comma, ":", Space} \subseteq Tokens
BY DEF Tokens

LEMMA BreakIs ==
    ASSUME NEW o \in Options
    PROVE  /\ Break(o) \in Streams
           /\ \A s \in Streams : \A i \in 1 .. Len(s) + 1 :
                Bears(s, i, Break(o)) => Position(s, i + Len(Break(o))) = Position(s, i)
<1>1. CASE o.indent
  <2>1. Break(o) = <<Space>>
    BY <1>1 DEF Break
  <2>2. ASSUME NEW s \in Streams, NEW i \in 1 .. Len(s) + 1, Bears(s, i, <<Space>>)
        PROVE  Position(s, i + Len(<<Space>>)) = Position(s, i)
    BY <2>2, BearsOne, SymbolTokens, OneToken
  <2> QED
    BY <2>1, <2>2, OneToken, SymbolTokens
<1>2. CASE ~o.indent
  <2>1. Break(o) = <<>> /\ Len(<<>>) = 0
    BY <1>2 DEF Break
  <2>2. <<>> \in Streams
    BY DEF Streams
  <2>3. ASSUME NEW s \in Streams, NEW i \in 1 .. Len(s) + 1 PROVE i + 0 = i
    BY DEF Streams
  <2> QED
    BY <2>1, <2>2, <2>3
<1> QED
  BY <1>1, <1>2

LEMMA SeparatorIs ==
    ASSUME NEW o \in Options
    PROVE  /\ Separator(o) \in Streams
           /\ \A s \in Streams : \A i \in 1 .. Len(s) + 1 :
                Bears(s, i, Separator(o)) =>
                    /\ Position(s, i) \in 1 .. Len(Compact(s))
                    /\ Compact(s)[Position(s, i)] = Comma
                    /\ Position(s, i + Len(Separator(o))) = Position(s, i) + 1
<1>0. Comma \in Tokens /\ Space \in Tokens /\ Comma # Space
  BY SymbolTokens, Distinct
<1>1. CASE o.indent
  <2>1. Separator(o) = <<Comma>>
    BY <1>1 DEF Separator
  <2>2. ASSUME NEW s \in Streams, NEW i \in 1 .. Len(s) + 1, Bears(s, i, <<Comma>>)
        PROVE  /\ Position(s, i) \in 1 .. Len(Compact(s))
               /\ Compact(s)[Position(s, i)] = Comma
               /\ Position(s, i + 1) = Position(s, i) + 1
    BY <1>0, <2>2, BearsOne
  <2>3. <<Comma>> \in Streams /\ Len(<<Comma>>) = 1
    BY <1>0, OneToken
  <2> QED
    BY <2>1, <2>2, <2>3
<1>2. CASE ~o.indent
  <2> DEFINE u == <<Comma>>
             w == <<Space>>
  <2>1. Separator(o) = u \o w /\ u \in Streams /\ w \in Streams /\ Len(u) = 1 /\ Len(w) = 1
    BY <1>0, <1>2, OneToken DEF Separator
  <2>2. u \o w \in Streams /\ Len(u \o w) = 2
    BY <2>1, StreamsJoin
  <2>3. ASSUME NEW s \in Streams, NEW i \in 1 .. Len(s) + 1, Bears(s, i, u \o w)
        PROVE  /\ Position(s, i) \in 1 .. Len(Compact(s))
               /\ Compact(s)[Position(s, i)] = Comma
               /\ Position(s, i + 2) = Position(s, i) + 1
    <3>0. Len(s) \in Nat
      BY DEF Streams
    <3> HIDE DEF u, w
    <3>1. Bears(s, i, u) /\ Bears(s, i + 1, w) /\ i + 1 \in 1 .. Len(s) + 1
      BY <2>1, <2>3, BearsBoth
    <3>2. /\ Position(s, i) \in 1 .. Len(Compact(s))
          /\ Compact(s)[Position(s, i)] = Comma
          /\ Position(s, i + 1) = Position(s, i) + 1
      BY <1>0, <3>1, BearsOne DEF u
    <3>3. Position(s, (i + 1) + 1) = Position(s, i + 1)
      BY <1>0, <3>1, BearsOne DEF w
    <3>4. (i + 1) + 1 = i + 2
      BY <3>0
    <3> QED
      BY <3>2, <3>3, <3>4
  <2> HIDE DEF u, w
  <2> QED
    BY <2>1, <2>2, <2>3
<1> QED
  BY <1>1, <1>2

Parting(o, k) == IF k > 1 THEN Separator(o) ELSE <<>>
Parted(o, w, k) == Parting(o, k) \o Break(o) \o w

\* Where the k-th item begins, within a text that holds it with what parts it.
LEMMA PartedIs ==
    ASSUME NEW o \in Options, NEW of, NEW w \in Streams, NEW e, ReadsAs(w, of, e), NEW k \in Nat \ {0}
    PROVE  /\ Parted(o, w, k) \in Streams
           /\ \A s \in Streams : \A i \in 1 .. Len(s) + 1 :
                Bears(s, i, Parted(o, w, k)) =>
                  \E q \in 1 .. Len(Compact(s)) + 1 :
                    /\ ElementsFrom(Compact(s), q, of) = Found(e, Position(s, i + Len(Parted(o, w, k))))
                    /\ k = 1 => q = Position(s, i)
                    /\ k > 1 => /\ Position(s, i) \in 1 .. Len(Compact(s))
                                /\ Compact(s)[Position(s, i)] = Comma /\ q = Position(s, i) + 1
<1> DEFINE a == Parting(o, k)
           b == Break(o)
           ab == a \o b
           all == ab \o w
<1>1. a \in Streams /\ b \in Streams
  <2>1. <<>> \in Streams
    BY DEF Streams
  <2> QED
    BY <2>1, BreakIs, SeparatorIs DEF Parting
<1>2. a = IF k > 1 THEN Separator(o) ELSE <<>>
  BY DEF Parting
<1> HIDE DEF a, b
<1>3. ab \in Streams
  BY <1>1, StreamsJoin
<1> HIDE DEF ab
<1>4. all \in Streams /\ Parted(o, w, k) = all
  BY <1>3, StreamsJoin DEF Parted, ab, a, b
<1>5. ASSUME NEW s \in Streams, NEW i \in 1 .. Len(s) + 1, Bears(s, i, all)
      PROVE  \E q \in 1 .. Len(Compact(s)) + 1 :
                    /\ ElementsFrom(Compact(s), q, of) = Found(e, Position(s, i + Len(all)))
                    /\ k = 1 => q = Position(s, i)
                    /\ k > 1 => /\ Position(s, i) \in 1 .. Len(Compact(s))
                                /\ Compact(s)[Position(s, i)] = Comma /\ q = Position(s, i) + 1
  <2>1. /\ Bears(s, i, ab) /\ Bears(s, i + Len(ab), w) /\ i + Len(ab) \in 1 .. Len(s) + 1
        /\ i + Len(ab) + Len(w) = i + Len(all)
    BY <1>3, <1>5, BearsBoth
  <2>2. /\ Bears(s, i, a) /\ Bears(s, i + Len(a), b) /\ i + Len(a) \in 1 .. Len(s) + 1
        /\ i + Len(a) + Len(b) = i + Len(ab)
    BY <1>1, <2>1, BearsBoth DEF ab
  <2> DEFINE q == Position(s, i + Len(ab))
  <2>3. q \in 1 .. Len(Compact(s)) + 1
    BY <2>1, Positions
  <2>4. ElementsFrom(Compact(s), q, of) = Found(e, Position(s, i + Len(all)))
    <3>1. ElementsFrom(Compact(s), Position(s, i + Len(ab)), of) = Found(e, Position(s, i + Len(ab) + Len(w)))
      BY <2>1 DEF ReadsAs
    <3> QED
      BY <2>1, <3>1
  <2>5. q = Position(s, i + Len(a))
    <3>1. Position(s, i + Len(a) + Len(b)) = Position(s, i + Len(a))
      BY <2>2, BreakIs DEF b
    <3> QED
      BY <2>2, <3>1
  <2>6. k = 1 => q = Position(s, i)
    <3> SUFFICES ASSUME k = 1 PROVE q = Position(s, i)
      OBVIOUS
    <3>1. a = <<>> /\ Len(<<>>) = 0 /\ i + 0 = i
      <4>1. Len(s) \in Nat
        BY DEF Streams
      <4> QED
        BY <1>2, <4>1
    <3> HIDE DEF q
    <3> QED
      BY <2>5, <3>1
  <2>7. k > 1 => /\ Position(s, i) \in 1 .. Len(Compact(s))
                 /\ Compact(s)[Position(s, i)] = Comma /\ q = Position(s, i) + 1
    <3> SUFFICES ASSUME k > 1
                 PROVE  /\ Position(s, i) \in 1 .. Len(Compact(s))
                        /\ Compact(s)[Position(s, i)] = Comma /\ q = Position(s, i) + 1
      OBVIOUS
    <3>1. a = Separator(o)
      BY <1>2
    <3>2. /\ Position(s, i) \in 1 .. Len(Compact(s))
          /\ Compact(s)[Position(s, i)] = Comma
          /\ Position(s, i + Len(a)) = Position(s, i) + 1
      BY <2>2, <3>1, SeparatorIs
    <3> QED
      BY <2>5, <3>2
  <2> QED
    BY <2>3, <2>4, <2>6, <2>7
<1> QED
  BY <1>4, <1>5

-----------------------------------------------------------------------------
(* The items of a container in its brackets read as the container.            *)

LEMMA Brackets ==
    ASSUME NEW of \in Kinds
    PROVE  Opening(of) \in Tokens \ {Space} /\ Closing(of) \in Tokens \ {Space}
BY SymbolTokens, Distinct DEF Opening, Closing, Kinds

\* The items of a text in brackets, each with what parts it from the one before.
Items(parts, o) == [k \in 1 .. Len(parts) |-> Parted(o, parts[k], k)]
Middle(parts, of, o) == <<Opening(of)>> \o FlattenSeq(Items(parts, o))
Text(parts, of, o) == Middle(parts, of, o) \o Break(o) \o <<Closing(of)>>

LEMMA TextIs ==
    ASSUME NEW of, NEW o, NEW parts, IsList(parts), Len(parts) >= 1
    PROVE  Bracketed(Opening(of), parts, Closing(of), o) = Text(parts, of, o)
<1>1. parts # <<>> /\ DOMAIN parts = 1 .. Len(parts)
  <2>1. Len(<<>>) = 0
    OBVIOUS
  <2> QED
    BY <2>1, ListIs
<1>2. Bracketed(Opening(of), parts, Closing(of), o)
        = <<Opening(of)>> \o FlattenSeq([k \in DOMAIN parts |-> Parted(o, parts[k], k)]) \o Break(o) \o <<Closing(of)>>
  BY <1>1 DEF Bracketed, Parted, Parting
<1> QED
  BY <1>1, <1>2 DEF Text, Middle, Items

ReadsAll(parts, of, e) ==
    /\ IsList(parts) /\ IsList(e) /\ Len(parts) >= 1 /\ Len(e) = Len(parts)
    /\ \A k \in 1 .. Len(parts) : parts[k] \in Streams /\ ReadsAs(parts[k], of, e[k])

LEMMA ItemsAre ==
    ASSUME NEW of, NEW o \in Options, NEW parts, NEW e, ReadsAll(parts, of, e)
    PROVE  /\ IsList(Items(parts, o)) /\ Len(Items(parts, o)) = Len(parts)
           /\ \A k \in 1 .. Len(parts) : /\ Items(parts, o)[k] = Parted(o, parts[k], k)
                                         /\ Items(parts, o)[k] \in Streams
           /\ FlattenSeq(Items(parts, o)) \in Streams
<1> DEFINE n == Len(parts)
           ss == Items(parts, o)
<1>1. n \in Nat /\ n >= 1
  BY ListIs DEF ReadsAll
<1>2. ss = [k \in 1 .. n |-> Parted(o, parts[k], k)]
  BY DEF Items
<1>3. \A k \in 1 .. n : Parted(o, parts[k], k) \in Streams
  <2> TAKE k \in 1 .. n
  <2>1. k \in Nat \ {0}
    BY <1>1
  <2> QED
    BY <2>1, PartedIs DEF ReadsAll
<1> HIDE DEF n, ss
<1>4. ss \in [1 .. n -> Streams]
  BY <1>2, <1>3
<1>5. ss \in Seq(Streams) /\ Len(ss) = n
  BY <1>1, <1>4
<1>6. IsList(ss)
  BY <1>5 DEF IsList
<1>7. \A k \in 1 .. Len(ss) : ss[k] \in Streams
  BY <1>4, <1>5
<1>8. FlattenSeq(ss) \in Streams
  BY <1>1, <1>5, <1>6, <1>7, FlatIsLaid
<1> QED
  BY <1>2, <1>3, <1>5, <1>6, <1>8 DEF n, ss

LEMMA TextIsStream ==
    ASSUME NEW of \in Kinds, NEW o \in Options, NEW parts, NEW e, ReadsAll(parts, of, e)
    PROVE  /\ <<Opening(of)>> \in Streams /\ <<Closing(of)>> \in Streams
           /\ Len(<<Opening(of)>>) = 1 /\ Len(<<Closing(of)>>) = 1
           /\ Middle(parts, of, o) \in Streams /\ Middle(parts, of, o) \o Break(o) \in Streams
           /\ Text(parts, of, o) \in Streams
<1>1. <<Opening(of)>> \in Streams /\ <<Closing(of)>> \in Streams
      /\ Len(<<Opening(of)>>) = 1 /\ Len(<<Closing(of)>>) = 1
  BY Brackets, OneToken
<1>2. Middle(parts, of, o) \in Streams
  BY <1>1, ItemsAre, StreamsJoin DEF Middle
<1>3. Middle(parts, of, o) \o Break(o) \in Streams
  BY <1>2, BreakIs, StreamsJoin
<1>4. Text(parts, of, o) \in Streams
  BY <1>1, <1>3, StreamsJoin DEF Text
<1> QED
  BY <1>1, <1>2, <1>3, <1>4

\* The k-th item stands at q, behind a comma unless it is the first.
Placed(s, off, of, e, k, q) ==
    /\ q \in 1 .. Len(Compact(s)) + 1
    /\ ElementsFrom(Compact(s), q, of) = Found(e[k], Position(s, off[k + 1]))
    /\ k = 1 => q = Position(s, off[1])
    /\ k > 1 => /\ Position(s, off[k]) \in 1 .. Len(Compact(s))
                /\ Compact(s)[Position(s, off[k])] = Comma /\ q = Position(s, off[k]) + 1

LEMMA ItemsPlaced ==
    ASSUME NEW of \in Kinds, NEW o \in Options, NEW parts, NEW e, ReadsAll(parts, of, e),
           NEW s \in Streams, NEW off, Laid(s, off, Items(parts, o), Len(parts)),
           NEW k \in 1 .. Len(parts)
    PROVE  \E q : Placed(s, off, of, e, k, q)
<1> DEFINE item == Parted(o, parts[k], k)
           i == off[k]
<1>1. Len(parts) \in Nat /\ k \in Nat \ {0}
  BY ListIs DEF ReadsAll
<1>2. i \in 1 .. Len(s) + 1 /\ Bears(s, i, item) /\ off[k + 1] = i + Len(item)
  BY ItemsAre DEF Laid
<1>3. parts[k] \in Streams /\ ReadsAs(parts[k], of, e[k])
  BY DEF ReadsAll
<1> HIDE DEF i
<1>4. PICK q \in 1 .. Len(Compact(s)) + 1 :
                    /\ ElementsFrom(Compact(s), q, of) = Found(e[k], Position(s, i + Len(item)))
                    /\ k = 1 => q = Position(s, i)
                    /\ k > 1 => /\ Position(s, i) \in 1 .. Len(Compact(s))
                                /\ Compact(s)[Position(s, i)] = Comma /\ q = Position(s, i) + 1
  BY <1>1, <1>2, <1>3, PartedIs
<1>5. k = 1 => i = off[1]
  BY DEF i
<1> HIDE DEF item
<1>6. Placed(s, off, of, e, k, q)
  BY <1>2, <1>4, <1>5 DEF Placed, i
<1> QED
  BY <1>6

\* A text in brackets reads as the container of what its items read as.
LEMMA BracketedReads ==
    ASSUME DocumentAssumption, NEW of \in Kinds, NEW o \in Options, NEW parts, NEW e, ReadsAll(parts, of, e)
    PROVE  /\ Bracketed(Opening(of), parts, Closing(of), o) \in Streams
           /\ ReadsAs(Bracketed(Opening(of), parts, Closing(of), o), "items", Wrap(of, e))
<1> DEFINE n == Len(parts)
           F == FlattenSeq(Items(parts, o))
           a == <<Opening(of)>>
           af == Middle(parts, of, o)
           b == Break(o)
           afb == af \o b
           c == <<Closing(of)>>
           all == Text(parts, of, o)
<1>1. n \in Nat /\ n >= 1 /\ n \in 1 .. n /\ 1 \in 1 .. n /\ Len(e) = n /\ IsList(e)
  BY ListIs DEF ReadsAll
<1>2. /\ a \in Streams /\ F \in Streams /\ af \in Streams /\ b \in Streams /\ afb \in Streams /\ c \in Streams
      /\ all \in Streams /\ Len(a) = 1 /\ Len(c) = 1
      /\ af = a \o F /\ all = afb \o c
  BY TextIsStream, ItemsAre, BreakIs DEF Middle, Text
<1>3. Bracketed(Opening(of), parts, Closing(of), o) = all
  BY TextIs DEF ReadsAll
<1>4. ASSUME NEW s \in Streams, NEW i \in 1 .. Len(s) + 1, Bears(s, i, all)
      PROVE  Stands(Compact(s), Position(s, i)) = Found(Wrap(of, e), Position(s, i + Len(all)))
  <2> DEFINE t == Compact(s)
             p == Position(s, i)
  <2>0. Len(s) \in Nat /\ t \in Streams /\ Len(t) \in Nat
    BY Positions DEF Streams
  <2> HIDE DEF F, a, af, b, afb, c, all
  <2>1. /\ Bears(s, i, afb) /\ Bears(s, i + Len(afb), c) /\ i + Len(afb) \in 1 .. Len(s) + 1
        /\ i + Len(afb) + 1 = i + Len(all)
    <3>1. afb \in Streams /\ c \in Streams /\ Len(c) = 1 /\ all = afb \o c
      BY <1>2
    <3>2. Bears(s, i, afb \o c)
      BY <1>4, <3>1
    <3>3. /\ Bears(s, i, afb) /\ Bears(s, i + Len(afb), c) /\ i + Len(afb) \in 1 .. Len(s) + 1
          /\ i + Len(afb) + Len(c) = i + Len(afb \o c)
      BY <3>1, <3>2, BearsBoth
    <3> QED
      BY <3>1, <3>3
  <2>2. /\ Bears(s, i, af) /\ Bears(s, i + Len(af), b) /\ i + Len(af) \in 1 .. Len(s) + 1
        /\ i + Len(af) + Len(b) = i + Len(afb)
    <3>1. af \in Streams /\ b \in Streams /\ afb = af \o b
      BY <1>2 DEF afb
    <3>2. Bears(s, i, af \o b)
      BY <2>1, <3>1
    <3> QED
      BY <3>1, <3>2, BearsBoth
  <2>3. /\ Bears(s, i, a) /\ Bears(s, i + 1, F) /\ i + 1 \in 1 .. Len(s) + 1
        /\ i + 1 + Len(F) = i + Len(af)
    <3>1. a \in Streams /\ F \in Streams /\ Len(a) = 1 /\ af = a \o F
      BY <1>2
    <3>2. Bears(s, i, a \o F)
      BY <2>2, <3>1
    <3>3. /\ Bears(s, i, a) /\ Bears(s, i + Len(a), F) /\ i + Len(a) \in 1 .. Len(s) + 1
          /\ i + Len(a) + Len(F) = i + Len(a \o F)
      BY <3>1, <3>2, BearsBoth
    <3> QED
      BY <3>1, <3>3
  <2>4. PICK off : Laid(s, off, Items(parts, o), n) /\ off[1] = i + 1 /\ off[n + 1] = i + Len(af)
    <3>1. IsList(Items(parts, o)) /\ Len(Items(parts, o)) = n /\ \A k \in 1 .. n : Items(parts, o)[k] \in Streams
      BY ItemsAre
    <3> DEFINE ss == Items(parts, o)
    <3>2. IsList(ss) /\ Len(ss) = n /\ \A k \in 1 .. Len(ss) : ss[k] \in Streams
      BY <3>1
    <3>3. F = FlattenSeq(ss)
      BY DEF F
    <3> HIDE DEF ss, n
    <3>4. \E off : /\ Laid(s, off, ss, Len(ss))
                   /\ off[1] = i + 1 /\ off[Len(ss) + 1] = i + 1 + Len(F)
      BY <1>1, <2>3, <3>2, <3>3, FlatIsLaid
    <3> QED
      BY <2>3, <3>2, <3>4 DEF ss
  <2>5. /\ p \in 1 .. Len(t) /\ t[p] = Opening(of) /\ Position(s, i + 1) = p + 1
    <3>1. Opening(of) \in Tokens /\ Opening(of) # Space
      BY Brackets
    <3> QED
      BY <2>3, <3>1, BearsOne DEF a
  <2>6. /\ Position(s, off[n + 1]) \in 1 .. Len(t) /\ t[Position(s, off[n + 1])] = Closing(of)
        /\ Position(s, i + Len(all)) = Position(s, off[n + 1]) + 1
    <3>1. Closing(of) \in Tokens /\ Closing(of) # Space
      BY Brackets
    <3> DEFINE j == i + Len(afb)
    <3>2. Bears(s, j, c) /\ j \in 1 .. Len(s) + 1 /\ j + 1 = i + Len(all)
      BY <2>1
    <3>3. Position(s, j) = Position(s, off[n + 1])
      <4>1. Position(s, i + Len(af) + Len(b)) = Position(s, i + Len(af))
        BY <2>2, BreakIs DEF b
      <4> QED
        BY <2>2, <2>4, <4>1
    <3> HIDE DEF j
    <3>4. Position(s, j) \in 1 .. Len(t) /\ t[Position(s, j)] = Closing(of) /\ Position(s, j + 1) = Position(s, j) + 1
      BY <3>1, <3>2, BearsOne DEF c
    <3> QED
      BY <3>2, <3>3, <3>4
  <2>7. \A k \in 1 .. n : \E x : Placed(s, off, of, e, k, x)
    BY <2>4, ItemsPlaced
  <2> DEFINE q == [k \in 1 .. n |-> CHOOSE x : Placed(s, off, of, e, k, x)]
             r == [k \in 1 .. n |-> Position(s, off[k + 1])]
  <2>8. \A k \in 1 .. n : Placed(s, off, of, e, k, q[k])
    BY <2>7
  <2>9. \A k \in 1 .. n : r[k] = Position(s, off[k + 1])
    OBVIOUS
  <2> HIDE DEF q, r, t, p, n
  <2>10. ASSUME NEW k \in 1 .. n
         PROVE  /\ q[k] \in 1 .. Len(t) + 1 /\ r[k] \in 1 .. Len(t)
                /\ ElementsFrom(t, q[k], of) = Found(e[k], r[k])
                /\ k < n => t[r[k]] = Comma /\ q[k + 1] = r[k] + 1
                /\ k = n => t[r[k]] = Closing(of)
    <3>1. q[k] \in 1 .. Len(t) + 1 /\ ElementsFrom(t, q[k], of) = Found(e[k], r[k])
      BY <2>8, <2>9 DEF Placed, t
    <3>2. k < n => r[k] \in 1 .. Len(t) /\ t[r[k]] = Comma /\ q[k + 1] = r[k] + 1
      <4> SUFFICES ASSUME k < n PROVE r[k] \in 1 .. Len(t) /\ t[r[k]] = Comma /\ q[k + 1] = r[k] + 1
        OBVIOUS
      <4>1. k + 1 \in 1 .. n /\ k + 1 > 1
        BY <1>1
      <4> QED
        BY <2>8, <2>9, <4>1 DEF Placed, t
    <3>3. k = n => r[k] \in 1 .. Len(t) /\ t[r[k]] = Closing(of)
      BY <2>6, <2>9
    <3>4. k < n \/ k = n
      BY <1>1
    <3> QED
      BY <3>1, <3>2, <3>3, <3>4
  <2>11. Lined(t, of, e, q, r)
    BY <1>1, <2>10 DEF Lined
  <2>12. q[1] = p + 1
    <3>1. q[1] = Position(s, off[1])
      BY <1>1, <2>8 DEF Placed
    <3> QED
      BY <2>4, <2>5, <3>1
  <2>13. Stands(t, p) = Found(Wrap(of, e), r[Len(e)] + 1)
    <3>1. Len(e) >= 1
      BY <1>1
    <3> QED
      BY <1>1, <2>0, <2>5, <2>11, <2>12, <3>1, ContainerFound
  <2>14. r[Len(e)] + 1 = Position(s, i + Len(all))
    BY <1>1, <2>6, <2>9
  <2> QED
    BY <2>13, <2>14 DEF t, p
<1> HIDE DEF all
<1>5. ReadsAs(all, "items", Wrap(of, e))
  BY <1>4, ItemsFrom DEF ReadsAs
<1> QED
  BY <1>2, <1>3, <1>5

-----------------------------------------------------------------------------
(* A scalar, an empty container and a member read as what they were made of.  *)

LEMMA ScalarReads ==
    ASSUME DocumentAssumption, NEW x \in Scalars
    PROVE  <<x>> \in Streams /\ ReadsAs(<<x>>, "items", Scalar(x))
<1>1. x \in Tokens /\ x # Space
  BY SymbolsAreNotScalars DEF Symbols
<1>2. <<x>> \in Streams /\ Len(<<x>>) = 1
  BY <1>1, OneToken
<1>3. ASSUME NEW s \in Streams, NEW i \in 1 .. Len(s) + 1, Bears(s, i, <<x>>)
      PROVE  Stands(Compact(s), Position(s, i)) = Found(Scalar(x), Position(s, i + 1))
  <2> DEFINE t == Compact(s)
             p == Position(s, i)
  <2>1. p \in 1 .. Len(t) /\ t[p] = x /\ Position(s, i + 1) = p + 1
    BY <1>1, <1>3, BearsOne
  <2>2. t \in Streams
    BY Positions
  <2> HIDE DEF t, p
  <2>3. Stands(t, p) = {<<Scalar(t[p]), p + 1>>}
    BY <2>1, <2>2, ScalarStarts
  <2> QED
    BY <2>1, <2>3 DEF Found, t, p
<1> QED
  BY <1>2, <1>3, ItemsFrom DEF ReadsAs

LEMMA EmptyReads ==
    ASSUME DocumentAssumption, NEW of \in Kinds
    PROVE  /\ <<Opening(of), Closing(of)>> \in Streams
           /\ ReadsAs(<<Opening(of), Closing(of)>>, "items", Empty(of))
<1> DEFINE a == Opening(of)
           c == Closing(of)
           u == <<a>>
           w == <<c>>
           both == <<a, c>>
<1>1. a \in Tokens /\ a # Space /\ c \in Tokens /\ c # Space
  BY Brackets
<1>2. both = u \o w
  OBVIOUS
<1>3. u \in Streams /\ w \in Streams /\ Len(u) = 1 /\ Len(w) = 1
  BY <1>1, OneToken
<1>4. both \in Streams /\ Len(both) = 2
  BY <1>1 DEF Streams
<1>5. ASSUME NEW s \in Streams, NEW i \in 1 .. Len(s) + 1, Bears(s, i, both)
      PROVE  Stands(Compact(s), Position(s, i)) = Found(Empty(of), Position(s, i + 2))
  <2> DEFINE t == Compact(s)
             p == Position(s, i)
  <2>1. t \in Streams /\ Len(t) \in Nat /\ Len(s) \in Nat
    BY Positions DEF Streams
  <2> HIDE DEF both, u, w, a, c
  <2>2. Bears(s, i, u \o w)
    BY <1>2, <1>5
  <2>3. Bears(s, i, u) /\ Bears(s, i + Len(u), w) /\ i + Len(u) \in 1 .. Len(s) + 1
    BY <1>3, <2>2, BearsBoth
  <2>4. Bears(s, i, u) /\ Bears(s, i + 1, w) /\ i + 1 \in 1 .. Len(s) + 1 /\ (i + 1) + 1 = i + 2
    BY <1>3, <2>1, <2>3
  <2>5. p \in 1 .. Len(t) /\ t[p] = a /\ Position(s, i + 1) = p + 1
    BY <1>1, <2>4, BearsOne DEF u
  <2>6. /\ Position(s, i + 1) \in 1 .. Len(t) /\ t[Position(s, i + 1)] = c
        /\ Position(s, (i + 1) + 1) = Position(s, i + 1) + 1
    BY <1>1, <2>4, BearsOne DEF w
  <2> HIDE DEF t, p
  <2>7. p + 1 <= Len(t) /\ t[p + 1] = c /\ Position(s, i + 2) = p + 2
    BY <2>1, <2>4, <2>5, <2>6
  <2>8. Stands(t, p) = {<<Empty(of), p + 2>>}
    BY <2>1, <2>5, <2>7, ContainerStarts DEF a, c
  <2> QED
    BY <2>7, <2>8 DEF Found, t, p
<1> HIDE DEF both
<1>6. ReadsAs(both, "items", Empty(of))
  BY <1>4, <1>5, ItemsFrom DEF ReadsAs
<1> QED
  BY <1>4, <1>6 DEF both

Member(key, w) == <<key, ":", Space>> \o w

LEMMA MemberReads ==
    ASSUME DocumentAssumption, NEW key \in Range(Keys), NEW w \in Streams, NEW v, ReadsAs(w, "items", v)
    PROVE  Member(key, w) \in Streams /\ ReadsAs(Member(key, w), "members", Pair(key, v))
<1> DEFINE head == <<key, ":", Space>>
           all == head \o w
<1>1. key \in Tokens /\ key # Space /\ ":" \in Tokens /\ Space \in Tokens /\ ":" # Space
  BY SymbolsAreNotScalars, SymbolTokens, Distinct DEF Symbols
<1>2. head \in Streams /\ Len(head) = 3 /\ head[1] = key /\ head[2] = ":" /\ head[3] = Space
  BY <1>1 DEF Streams
<1> HIDE DEF head
<1>3. all \in Streams
  BY <1>2, StreamsJoin
<1>4. ASSUME NEW s \in Streams, NEW i \in 1 .. Len(s) + 1, Bears(s, i, all)
      PROVE  ElementsFrom(Compact(s), Position(s, i), "members") = Found(Pair(key, v), Position(s, i + Len(all)))
  <2> DEFINE t == Compact(s)
             p == Position(s, i)
  <2>1. t \in Streams /\ Len(t) \in Nat /\ Len(s) \in Nat /\ p \in 1 .. Len(t) + 1
    BY Positions DEF Streams
  <2>2. /\ Bears(s, i, head) /\ Bears(s, i + Len(head), w) /\ i + Len(head) \in 1 .. Len(s) + 1
        /\ i + Len(head) + Len(w) = i + Len(head \o w)
    BY <1>2, <1>4, BearsBoth
  <2> HIDE DEF all
  <2>3. Bears(s, i + 3, w) /\ i + 3 \in 1 .. Len(s) + 1 /\ (i + 3) + Len(w) = i + Len(all)
    BY <1>2, <2>2 DEF all
  <2>4. s[i] = key /\ s[i + 1] = ":" /\ s[i + 2] = Space
    <3>1. \A k \in 1 .. 3 : s[i + k - 1] = head[k]
      BY <1>2, <2>2 DEF Bears
    <3>2. /\ 1 \in 1 .. 3 /\ 2 \in 1 .. 3 /\ 3 \in 1 .. 3
          /\ i + 1 - 1 = i /\ i + 2 - 1 = i + 1 /\ i + 3 - 1 = i + 2
      BY <2>1
    <3> QED
      BY <1>2, <3>1, <3>2
  <2>5. i \in 1 .. Len(s) /\ i + 1 \in 1 .. Len(s) /\ i + 2 \in 1 .. Len(s) + 1 /\ (i + 1) + 1 = i + 2
        /\ i + 3 \in i + 2 .. Len(s) + 1 /\ \A j \in i + 2 .. (i + 3) - 1 : j = i + 2
    BY <2>1, <2>3
  <2>6. p \in 1 .. Len(t) /\ t[p] = key /\ Position(s, i + 1) = p + 1
    BY <1>1, <2>4, <2>5, Positions
  <2>7. /\ Position(s, i + 1) \in 1 .. Len(t) /\ t[Position(s, i + 1)] = ":"
        /\ Position(s, (i + 1) + 1) = Position(s, i + 1) + 1
    BY <1>1, <2>4, <2>5, Positions
  <2>8. Position(s, i + 3) = Position(s, i + 2)
    <3>1. \A j \in i + 2 .. (i + 3) - 1 : s[j] = Space
      BY <2>4, <2>5
    <3> QED
      BY <2>5, <3>1, Positions
  <2>9. ElementsFrom(t, Position(s, i + 3), "items") = Found(v, Position(s, (i + 3) + Len(w)))
    BY <2>3 DEF ReadsAs
  <2> DEFINE end == Position(s, i + Len(all))
  <2> HIDE DEF t, p, end
  <2>10. p + 1 <= Len(t) /\ t[p] \in Range(Keys) /\ t[p + 1] = ":" /\ Position(s, i + 3) = p + 2
    BY <2>1, <2>5, <2>6, <2>7, <2>8
  <2>11. Stands(t, p + 2) = Found(v, end)
    BY <2>3, <2>9, <2>10, ItemsFrom DEF end
  <2>12. ElementsFrom(t, p, "members") = Named(t[p], Stands(t, p + 2))
    BY <2>1, <2>10, MembersFrom
  <2>13. Named(key, Found(v, end)) = Found(Pair(key, v), end)
    BY DEF Named, Found
  <2> QED
    BY <2>6, <2>11, <2>12, <2>13 DEF t, p, end
<1> HIDE DEF all
<1>5. ReadsAs(all, "members", Pair(key, v))
  BY <1>4 DEF ReadsAs
<1> QED
  BY <1>3, <1>5 DEF all, head, Member

-----------------------------------------------------------------------------
(* The pairs of an object in the order of their keys are the same pairs.      *)

LEMMA Counting == \A n \in Nat : IsFiniteSet(1 .. n) /\ Cardinality(1 .. n) = n
<1> TAKE n \in Nat
<1>1. CASE n = 0
  <2>1. 1 .. n = {}
    BY <1>1
  <2> QED
    BY <1>1, <2>1, FS_EmptySet
<1>2. CASE n # 0
  <2>1. 1 \in Int /\ n \in Int /\ ~(1 > n) /\ n - 1 + 1 = n
    BY <1>2
  <2> QED
    BY <2>1, FS_Interval
<1> QED
  BY <1>1, <1>2

\* Every key comes once.
OneEach(p) == \A i \in 1 .. Len(p), j \in 1 .. Len(p) : p[i].key = p[j].key => i = j

LEMMA OneEachMerged ==
    ASSUME NEW p, IsList(p), OneEach(p)
    PROVE  Merged(p) = p
<1> DEFINE n == Len(p)
           m == Merged(p)
<1>1. n \in Nat /\ DOMAIN p = 1 .. n
  BY ListIs
<1>2. \A i \in 1 .. n : SameKey(p, i) = {i}
  BY <1>1 DEF SameKey, OneEach
<1>3. \A i \in 1 .. n : Max(SameKey(p, i)) = i /\ Min(SameKey(p, i)) = i
  <2> TAKE i \in 1 .. n
  <2>1. Min(SameKey(p, i)) \in SameKey(p, i) /\ Max(SameKey(p, i)) \in SameKey(p, i)
    BY KeysOf
  <2> QED
    BY <1>2, <2>1
<1>4. Firsts(p) = 1 .. n
  BY <1>1, <1>3 DEF Firsts
<1>5. \A i \in 1 .. n : Cardinality(UpToIn(1 .. n, i)) = i
  <2> TAKE i \in 1 .. n
  <2>1. UpToIn(1 .. n, i) = 1 .. i
    BY <1>1 DEF UpToIn
  <2>2. i \in Nat
    BY <1>1
  <2> QED
    BY <2>1, <2>2, Counting
<1>6. Cardinality(1 .. n) = n
  BY <1>1, Counting
<1>7. /\ IsList(m) /\ Len(m) = Cardinality(Firsts(p))
      /\ \A i \in Firsts(p) : m[Cardinality(UpToIn(Firsts(p), i))] = p[Max(SameKey(p, i))]
  BY MergedIs
<1> HIDE DEF m, n
<1>8. Len(m) = n
  BY <1>4, <1>6, <1>7
<1>9. \A i \in 1 .. n : m[i] = p[i]
  <2> TAKE i \in 1 .. n
  <2>1. m[Cardinality(UpToIn(1 .. n, i))] = p[Max(SameKey(p, i))]
    BY <1>4, <1>7
  <2> QED
    BY <1>3, <1>5, <2>1
<1>10. m = p
  <2>1. n = Len(p)
    BY DEF n
  <2> QED
    BY <1>7, <1>8, <1>9, <2>1, ListsEqual
<1> QED
  BY <1>10 DEF m

LEMMA RankIs ==
    ASSUME DocumentAssumption
    PROVE  /\ \A a \in Range(Keys) : Rank(a) \in Int /\ Keys[Rank(a)] = a
           /\ \A a \in Range(Keys), b \in Range(Keys) : Rank(a) = Rank(b) => a = b
<1>1. \A a \in Range(Keys) : Rank(a) \in DOMAIN Keys /\ Keys[Rank(a)] = a
  <2> TAKE a \in Range(Keys)
  <2>1. \E i \in DOMAIN Keys : Keys[i] = a
    BY DEF Range
  <2> QED
    BY <2>1 DEF Rank
<1>2. DOMAIN Keys \subseteq Int
  <2>1. Keys \in Seq(Range(Keys))
    BY DEF DocumentAssumption
  <2> QED
    BY <2>1
<1> QED
  BY <1>1, <1>2

\* The list p has the elements of l, each with a key of its own.
Rearranged(p, l) ==
    /\ IsList(p) /\ Len(p) = Len(l) /\ OneEach(p)
    /\ \A b \in 1 .. Len(l) : \E a \in 1 .. Len(l) : p[b] = l[a]
    /\ \A a \in 1 .. Len(l) : \E b \in 1 .. Len(l) : p[b] = l[a]

Ranks(l) == {Rank(x.key) : x \in Range(l)}
OfRank(l, r) == CHOOSE x \in Range(l) : Rank(x.key) = r

LEMMA RanksAre ==
    ASSUME DocumentAssumption, NEW l, IsList(l), OneEach(l), \A k \in 1 .. Len(l) : l[k].key \in Range(Keys)
    PROVE  /\ Ranks(l) \in SUBSET Int /\ IsFiniteSet(Ranks(l)) /\ Cardinality(Ranks(l)) = Len(l)
           /\ \A k \in 1 .. Len(l) : Rank(l[k].key) \in Ranks(l) /\ OfRank(l, Rank(l[k].key)) = l[k]
           /\ \A r \in Ranks(l) : \E k \in 1 .. Len(l) : r = Rank(l[k].key)
<1> DEFINE n == Len(l)
           f == [k \in 1 .. n |-> Rank(l[k].key)]
           R == Ranks(l)
<1>1. n \in Nat /\ DOMAIN l = 1 .. n
  BY ListIs
<1>2. Range(l) = {l[k] : k \in 1 .. n}
  BY <1>1 DEF Range
<1>3. R = {Rank(l[k].key) : k \in 1 .. n}
  BY <1>2 DEF Ranks
<1>4. \A i \in 1 .. n, j \in 1 .. n : Rank(l[i].key) = Rank(l[j].key) => i = j
  <2> TAKE i \in 1 .. n, j \in 1 .. n
  <2>1. l[i].key \in Range(Keys) /\ l[j].key \in Range(Keys)
    OBVIOUS
  <2>2. Rank(l[i].key) = Rank(l[j].key) => l[i].key = l[j].key
    BY <2>1, RankIs
  <2> QED
    BY <2>2 DEF OneEach
<1>5. R \in SUBSET Int
  BY <1>3, RankIs
<1>6. f \in Bijection(1 .. n, R)
  <2> HIDE DEF n, R
  <2>1. f \in [1 .. n -> R] /\ \A k \in 1 .. n : f[k] = Rank(l[k].key)
    BY <1>3
  <2> HIDE DEF f
  <2>2. \A r \in R : \E k \in 1 .. n : f[k] = r
    BY <1>3, <2>1
  <2>3. \A i, j \in 1 .. n : f[i] = f[j] => i = j
    BY <1>4, <2>1
  <2> QED
    BY <2>1, <2>2, <2>3 DEF Bijection, Injection, Surjection, IsInjective
<1>7. IsFiniteSet(1 .. n) /\ Cardinality(1 .. n) = n
  BY <1>1, Counting
<1>8. IsFiniteSet(R) /\ Cardinality(R) = n
  <2> HIDE DEF n, R, f
  <2>1. ExistsBijection(1 .. n, R)
    BY <1>6 DEF ExistsBijection
  <2> QED
    BY <1>7, <2>1, FS_Bijection
<1>9. ASSUME NEW k \in 1 .. n PROVE OfRank(l, Rank(l[k].key)) = l[k]
  <2> DEFINE x == OfRank(l, Rank(l[k].key))
  <2>1. l[k] \in Range(l)
    BY <1>2
  <2>2. x \in Range(l) /\ Rank(x.key) = Rank(l[k].key)
    BY <2>1 DEF OfRank
  <2> HIDE DEF x
  <2>3. PICK j \in 1 .. n : x = l[j]
    BY <1>2, <2>2
  <2>4. j = k
    BY <1>4, <2>2, <2>3
  <2> QED
    BY <2>3, <2>4 DEF x
<1> QED
  BY <1>3, <1>5, <1>8, <1>9

LEMMA InOrderIs ==
    ASSUME DocumentAssumption, NEW o \in Options,
           NEW l, IsList(l), OneEach(l), \A k \in 1 .. Len(l) : l[k].key \in Range(Keys)
    PROVE  Rearranged(InOrder(l, o), l) /\ (o.sorted \/ InOrder(l, o) = l)
<1> DEFINE n == Len(l)
           R == Ranks(l)
           asc == Ascending(R)
           p == InOrder(l, o)
<1>1. CASE ~o.sorted
  <2>1. p = l
    BY <1>1 DEF InOrder
  <2> QED
    BY <2>1 DEF Rearranged
<1>2. CASE o.sorted
  <2>1. /\ R \in SUBSET Int /\ IsFiniteSet(R) /\ Cardinality(R) = n
        /\ \A k \in 1 .. n : Rank(l[k].key) \in R /\ OfRank(l, Rank(l[k].key)) = l[k]
        /\ \A r \in R : \E k \in 1 .. n : r = Rank(l[k].key)
    BY RanksAre
  <2> HIDE DEF R
  <2>2. /\ asc \in Seq(R) /\ Len(asc) = n /\ DOMAIN asc = 1 .. n
        /\ \A r \in R : asc[Cardinality(UpToIn(R, r))] = r /\ Cardinality(UpToIn(R, r)) \in 1 .. n
        /\ \A b \in 1 .. n : Cardinality(UpToIn(R, asc[b])) = b
    BY <2>1, AscendingIs, Ranked
  <2>3. p = [b \in DOMAIN asc |-> OfRank(l, asc[b])]
    BY <1>2 DEF InOrder, OfRank, Ranks, R
  <2> HIDE DEF asc, p
  <2>4. n \in Nat /\ \A b \in 1 .. n : asc[b] \in R
    <3>1. n \in Nat
      BY ListIs
    <3> QED
      BY <2>2, <3>1
  <2> HIDE DEF n
  <2>5. IsList(p) /\ Len(p) = n /\ \A b \in 1 .. n : p[b] = OfRank(l, asc[b])
    <3>1. p = [b \in 1 .. n |-> OfRank(l, asc[b])]
      BY <2>2, <2>3
    <3> DEFINE S == {OfRank(l, asc[b]) : b \in 1 .. n}
    <3>2. p \in [1 .. n -> S]
      BY <3>1
    <3> HIDE DEF S
    <3>3. p \in Seq(S) /\ Len(p) = n
      BY <2>4, <3>2
    <3> QED
      BY <3>1, <3>3 DEF IsList
  <2>6. ASSUME NEW b \in 1 .. n PROVE \E a \in 1 .. n : p[b] = l[a] /\ asc[b] = Rank(l[a].key)
    <3>1. PICK a \in 1 .. n : asc[b] = Rank(l[a].key)
      BY <2>1, <2>4
    <3> QED
      BY <2>1, <2>5, <3>1
  <2>7. ASSUME NEW a \in 1 .. n PROVE \E b \in 1 .. n : p[b] = l[a]
    <3> DEFINE b == Cardinality(UpToIn(R, Rank(l[a].key)))
    <3>1. b \in 1 .. n /\ asc[b] = Rank(l[a].key)
      BY <2>1, <2>2
    <3> HIDE DEF b
    <3> QED
      BY <2>1, <2>5, <3>1
  <2>8. ASSUME NEW b \in 1 .. n, NEW c \in 1 .. n, p[b].key = p[c].key PROVE b = c
    <3>1. asc[b] = Rank(p[b].key) /\ asc[c] = Rank(p[c].key)
      BY <2>6
    <3>2. asc[b] = asc[c]
      BY <2>8, <3>1
    <3>3. Cardinality(UpToIn(R, asc[b])) = b /\ Cardinality(UpToIn(R, asc[c])) = c
      BY <2>2
    <3> QED
      BY <3>2, <3>3
  <2>9. OneEach(p)
    BY <2>5, <2>8 DEF OneEach
  <2>10. Rearranged(p, l)
    BY <2>5, <2>6, <2>7, <2>9 DEF Rearranged, n
  <2> QED
    BY <1>2, <2>10 DEF p
<1> QED
  BY <1>1, <1>2

-----------------------------------------------------------------------------
(* What is written of a scalar, an array and an object, and what equals it.   *)

Quoted(n, o, l) == [k \in DOMAIN l |-> Dumps[n][o][l[k]]]
Members(n, o, p) == [k \in DOMAIN p |-> Member(p[k].key, Dumps[n][o][p[k].value])]

LEMMA DumpedAs ==
    ASSUME NEW n \in Nat, NEW o \in Options
    PROVE  /\ \A x : Scalar(x) \in Json[n] => Dumps[n][o][Scalar(x)] = <<x>>
           /\ \A l : Array(l) \in Json[n] /\ n - 1 \in Nat =>
                Dumps[n][o][Array(l)] = Bracketed("[", Quoted(n - 1, o, l), "]", o)
           /\ \A l : Object(l) \in Json[n] /\ n - 1 \in Nat =>
                Dumps[n][o][Object(l)]
                    = Bracketed(LeftBrace, Members(n - 1, o, InOrder(l, o)), RightBrace, o)
<1> DEFINE V == Json[n]
           below == IF n = 0 THEN <<>> ELSE Dumps[n - 1]
           Text1(v) ==
               CASE v.k = "scalar" -> <<v.token>>
                 [] v.k = "array" ->
                      Bracketed("[", [i \in DOMAIN v.items |-> below[o][v.items[i]]], "]", o)
                 [] v.k = "object" ->
                      LET pairs == InOrder(v.pairs, o) IN
                      Bracketed(LeftBrace, [i \in DOMAIN pairs |->
                          <<pairs[i].key, ":", Space>> \o below[o][pairs[i].value]], RightBrace, o)
<1>1. Dumps[n] = DumpInto(V, below)
  BY LevelsAre
<1>2. n - 1 \in Nat => below = Dumps[n - 1]
  OBVIOUS
<1> HIDE DEF V, below
<1>3. \A v \in V : Dumps[n][o][v] = Text1(v)
  <2>1. Dumps[n][o] = [v \in V |-> Text1(v)]
    BY <1>1 DEF DumpInto
  <2> HIDE DEF Text1
  <2> QED
    BY <2>1
<1>4. ASSUME NEW x PROVE Text1(Scalar(x)) = <<x>>
  <2>1. Scalar(x).k = "scalar" /\ Scalar(x).token = x
    BY DEF Scalar
  <2> QED
    BY <2>1
<1>5. ASSUME NEW l, n - 1 \in Nat PROVE Text1(Array(l)) = Bracketed("[", Quoted(n - 1, o, l), "]", o)
  <2>1. Array(l).k = "array" /\ Array(l).items = l
    BY DEF Array
  <2>2. Text1(Array(l)) = Bracketed("[", [i \in DOMAIN l |-> below[o][l[i]]], "]", o)
    BY <2>1
  <2> HIDE DEF Text1
  <2> QED
    BY <1>2, <1>5, <2>2 DEF Quoted
<1>6. ASSUME NEW l, n - 1 \in Nat
      PROVE  Text1(Object(l)) = Bracketed(LeftBrace, Members(n - 1, o, InOrder(l, o)), RightBrace, o)
  <2>1. Object(l).k = "object" /\ Object(l).pairs = l
    BY DEF Object
  <2> DEFINE p == InOrder(l, o)
  <2>2. Text1(Object(l)) = Bracketed(LeftBrace, [i \in DOMAIN p |->
                             <<p[i].key, ":", Space>> \o below[o][p[i].value]], RightBrace, o)
    BY <2>1
  <2> HIDE DEF Text1
  <2> QED
    BY <1>2, <1>6, <2>2 DEF Members, Member
<1> HIDE DEF Text1
<1> QED
  BY <1>3, <1>4, <1>5, <1>6 DEF V

\* Python's == among the values of a level.
ItemsEqual(n, l, m) == Len(l) = Len(m) /\ \A i \in DOMAIN l : PyEq[n][l[i]][m[i]]
MembersEqual(n, l, m) ==
    /\ Len(l) = Len(m)
    /\ \A i \in DOMAIN l : \E j \in DOMAIN m : l[i].key = m[j].key /\ PyEq[n][l[i].value][m[j].value]

LEMMA EqualAs ==
    ASSUME NEW n \in Nat
    PROVE  /\ \A x : Scalar(x) \in Json[n] => PyEq[n][Scalar(x)][Scalar(x)]
           /\ \A l, m : Array(l) \in Json[n] /\ Array(m) \in Json[n] /\ n - 1 \in Nat
                        /\ ItemsEqual(n - 1, l, m) => PyEq[n][Array(l)][Array(m)]
           /\ \A l, m : Object(l) \in Json[n] /\ Object(m) \in Json[n] /\ n - 1 \in Nat
                        /\ MembersEqual(n - 1, l, m) => PyEq[n][Object(l)][Object(m)]
<1> DEFINE V == Json[n]
           below == IF n = 0 THEN <<>> ELSE PyEq[n - 1]
           Equal1(a, b) ==
               /\ a.k = b.k
               /\ CASE a.k = "scalar" -> a.token = b.token
                    [] a.k = "array" ->
                         /\ Len(a.items) = Len(b.items)
                         /\ \A i \in DOMAIN a.items : below[a.items[i]][b.items[i]]
                    [] a.k = "object" ->
                         /\ Len(a.pairs) = Len(b.pairs)
                         /\ \A i \in DOMAIN a.pairs : \E j \in DOMAIN b.pairs :
                               /\ a.pairs[i].key = b.pairs[j].key
                               /\ below[a.pairs[i].value][b.pairs[j].value]
<1>1. PyEq[n] = Equal(V, below)
  BY LevelsAre
<1>2. n - 1 \in Nat => below = PyEq[n - 1]
  OBVIOUS
<1> HIDE DEF V, below
<1>3. \A a \in V, b \in V : PyEq[n][a][b] = Equal1(a, b)
  <2>1. PyEq[n] = [a \in V |-> [b \in V |-> Equal1(a, b)]]
    BY <1>1 DEF Equal
  <2> HIDE DEF Equal1
  <2> QED
    BY <2>1
<1>4. ASSUME NEW x PROVE Equal1(Scalar(x), Scalar(x))
  <2>1. Scalar(x).k = "scalar"
    BY DEF Scalar
  <2> QED
    BY <2>1
<1>5. ASSUME NEW l, NEW m, n - 1 \in Nat, ItemsEqual(n - 1, l, m) PROVE Equal1(Array(l), Array(m))
  <2> DEFINE a == Array(l)
             b == Array(m)
  <2>1. a.k = "array" /\ b.k = "array" /\ a.items = l /\ b.items = m
    BY DEF Array
  <2>2. Len(l) = Len(m) /\ \A i \in DOMAIN l : below[l[i]][m[i]]
    BY <1>2, <1>5 DEF ItemsEqual
  <2> HIDE DEF a, b
  <2>3. Equal1(a, b)
    BY <2>1, <2>2
  <2> QED
    BY <2>3 DEF a, b
<1>6. ASSUME NEW l, NEW m, n - 1 \in Nat, MembersEqual(n - 1, l, m) PROVE Equal1(Object(l), Object(m))
  <2> DEFINE a == Object(l)
             b == Object(m)
  <2>1. a.k = "object" /\ b.k = "object" /\ a.pairs = l /\ b.pairs = m
    BY DEF Object
  <2>2. /\ Len(l) = Len(m)
        /\ \A i \in DOMAIN l : \E j \in DOMAIN m : l[i].key = m[j].key /\ below[l[i].value][m[j].value]
    BY <1>2, <1>6 DEF MembersEqual
  <2> HIDE DEF a, b
  <2>3. Equal1(a, b)
    BY <2>1, <2>2
  <2> QED
    BY <2>3 DEF a, b
<1> HIDE DEF Equal1
<1>7. ASSUME NEW a \in V, NEW b \in V, Equal1(a, b) PROVE PyEq[n][a][b]
  BY <1>3, <1>7
<1> QED
  BY <1>4, <1>5, <1>6, <1>7 DEF V

-----------------------------------------------------------------------------
(* What is written of a container reads back when what is written of the values*)
(* in it does.                                                                *)

\* What is written of v reads back as w.
Back(n, o, v, w) ==
    /\ w \in Json[n] /\ PyEq[n][v][w] /\ PyEq[n][w][v] /\ (o.sorted \/ w = v)
    /\ Dumps[n][o][v] \in Streams /\ ReadsAs(Dumps[n][o][v], "items", w)

\* The lists of what several values read back as.
BackAs(n, o, v) == CHOOSE w : Back(n, o, v, w)

LEMMA ListMade ==
    ASSUME NEW n \in Nat, NEW f, f = [k \in 1 .. n |-> f[k]]
    PROVE  IsList(f) /\ Len(f) = n /\ DOMAIN f = 1 .. n
<1> DEFINE S == {f[k] : k \in 1 .. n}
<1>1. f \in [1 .. n -> S]
  OBVIOUS
<1> HIDE DEF S
<1>2. f \in Seq(S) /\ Len(f) = n /\ DOMAIN f = 1 .. n
  BY <1>1
<1> QED
  BY <1>2 DEF IsList

LEMMA NoneWritten ==
    ASSUME NEW of, NEW o, NEW parts, IsList(parts), Len(parts) = 0
    PROVE  parts = <<>> /\ Bracketed(Opening(of), parts, Closing(of), o) = <<Opening(of), Closing(of)>>
<1>1. parts = <<>>
  BY ListsEqual, NoneIsList
<1> QED
  BY <1>1 DEF Bracketed

LEMMA ScalarBack ==
    ASSUME DocumentAssumption, NEW n \in Nat, NEW o \in Options, NEW x \in Scalars
    PROVE  Back(n, o, Scalar(x), Scalar(x))
<1>1. Scalar(x) \in Json[n]
  BY JsonHas
<1>2. Dumps[n][o][Scalar(x)] = <<x>> /\ PyEq[n][Scalar(x)][Scalar(x)]
  BY <1>1, DumpedAs, EqualAs
<1>3. <<x>> \in Streams /\ ReadsAs(<<x>>, "items", Scalar(x))
  BY ScalarReads
<1> QED
  BY <1>1, <1>2, <1>3 DEF Back

LEMMA ArrayBack ==
    ASSUME DocumentAssumption, NEW n \in Nat, n - 1 \in Nat, NEW o \in Options, NEW l, IsList(l),
           Array(l) \in Json[n], \A k \in 1 .. Len(l) : \E w : Back(n - 1, o, l[k], w)
    PROVE  \E w : Back(n, o, Array(l), w)
<1> DEFINE m == Len(l)
           e == [k \in 1 .. m |-> BackAs(n - 1, o, l[k])]
           parts == Quoted(n - 1, o, l)
           v == Array(l)
           w == Array(e)
<1>1. m \in Nat /\ DOMAIN l = 1 .. m
  BY ListIs
<1> HIDE DEF m
<1>2. \A k \in 1 .. m : Back(n - 1, o, l[k], e[k])
  BY DEF BackAs, m
<1>3. \A k \in 1 .. m : parts[k] = Dumps[n - 1][o][l[k]]
  BY <1>1 DEF Quoted
<1>4. IsList(parts) /\ Len(parts) = m
  <2>1. parts = [k \in 1 .. m |-> parts[k]]
    BY <1>1 DEF Quoted
  <2> HIDE DEF parts
  <2> QED
    BY <1>1, <2>1, ListMade
<1>5. IsList(e) /\ Len(e) = m /\ DOMAIN e = 1 .. m
  <2>1. e = [k \in 1 .. m |-> e[k]]
    OBVIOUS
  <2> HIDE DEF e
  <2> QED
    BY <1>1, <2>1, ListMade
<1> HIDE DEF e, parts
<1>6. Len(l) = m
  BY DEF m
<1>7. w \in Json[n]
  <2>1. \A k \in 1 .. Len(e) : e[k] \in Json[n - 1]
    BY <1>2, <1>5 DEF Back
  <2> QED
    BY <1>5, <2>1, JsonHas
<1>8. ItemsEqual(n - 1, l, e) /\ ItemsEqual(n - 1, e, l)
  BY <1>1, <1>2, <1>5, <1>6 DEF ItemsEqual, Back
<1>9. PyEq[n][v][w] /\ PyEq[n][w][v]
  BY <1>7, <1>8, EqualAs
<1>10. o.sorted \/ w = v
  <2> SUFFICES ASSUME ~o.sorted PROVE w = v
    OBVIOUS
  <2>1. \A k \in 1 .. m : e[k] = l[k]
    BY <1>2 DEF Back
  <2>2. e = l
    BY <1>5, <1>6, <2>1, ListsEqual
  <2> QED
    BY <2>2
<1>11. Dumps[n][o][v] = Bracketed(Opening("items"), parts, Closing("items"), o)
  BY DumpedAs DEF Opening, Closing, parts
<1>12. "items" \in Kinds
  BY DEF Kinds
<1> DEFINE shown == Bracketed(Opening("items"), parts, Closing("items"), o)
<1>13. shown \in Streams /\ ReadsAs(shown, "items", w)
  <2>1. CASE m = 0
    <3>1. shown = <<Opening("items"), Closing("items")>>
      BY <1>4, <2>1, NoneWritten
    <3>2. e = <<>>
      BY <1>5, <2>1, ListsEqual, NoneIsList
    <3>3. Empty("items") = w
      BY <3>2 DEF Empty
    <3> HIDE DEF shown, w
    <3> QED
      BY <1>12, <3>1, <3>3, EmptyReads
  <2>2. CASE m # 0
    <3>1. ReadsAll(parts, "items", e)
      <4>1. m >= 1
        BY <1>1, <2>2
      <4>2. \A k \in 1 .. m : parts[k] \in Streams /\ ReadsAs(parts[k], "items", e[k])
        BY <1>2, <1>3 DEF Back
      <4> QED
        BY <1>4, <1>5, <4>1, <4>2 DEF ReadsAll
    <3>2. Wrap("items", e) = w
      BY DEF Wrap
    <3> HIDE DEF w
    <3> QED
      BY <1>12, <3>1, <3>2, BracketedReads
  <2> QED
    BY <2>1, <2>2
<1> HIDE DEF shown, v, w
<1>14. Back(n, o, v, w)
  <2>1. Dumps[n][o][v] = shown
    BY <1>11 DEF shown
  <2> QED
    BY <1>7, <1>9, <1>10, <1>13, <2>1 DEF Back
<1> QED
  BY <1>14 DEF v

LEMMA ObjectBack ==
    ASSUME DocumentAssumption, NEW n \in Nat, n - 1 \in Nat, NEW o \in Options, NEW l, IsList(l), OneEach(l),
           \A k \in 1 .. Len(l) : l[k].key \in Range(Keys) /\ l[k] = Pair(l[k].key, l[k].value),
           Object(l) \in Json[n], \A k \in 1 .. Len(l) : \E w : Back(n - 1, o, l[k].value, w)
    PROVE  \E w : Back(n, o, Object(l), w)
<1> DEFINE m == Len(l)
           p == InOrder(l, o)
           e == [k \in 1 .. m |-> Pair(p[k].key, BackAs(n - 1, o, p[k].value))]
           parts == Members(n - 1, o, p)
           v == Object(l)
           w == Object(e)
<1>1. m \in Nat /\ DOMAIN l = 1 .. m
  BY ListIs
<1>2. Rearranged(p, l) /\ (o.sorted \/ p = l)
  BY InOrderIs
<1> HIDE DEF m, p
<1>3. IsList(p) /\ Len(p) = m /\ DOMAIN p = 1 .. m /\ OneEach(p)
  BY <1>2, ListIs DEF Rearranged, m
<1>4. \A k \in 1 .. m : /\ p[k].key \in Range(Keys) /\ p[k] = Pair(p[k].key, p[k].value)
                        /\ \E x : Back(n - 1, o, p[k].value, x)
  <2> TAKE k \in 1 .. m
  <2>1. PICK a \in 1 .. m : p[k] = l[a]
    BY <1>2 DEF Rearranged, m
  <2> QED
    BY <2>1 DEF m
<1>5. \A k \in 1 .. m : e[k].key = p[k].key /\ Back(n - 1, o, p[k].value, e[k].value)
                        /\ e[k] = Pair(e[k].key, e[k].value)
  <2> TAKE k \in 1 .. m
  <2>1. e[k] = Pair(p[k].key, BackAs(n - 1, o, p[k].value))
    OBVIOUS
  <2>2. e[k].key = p[k].key /\ e[k].value = BackAs(n - 1, o, p[k].value)
    BY <2>1 DEF Pair
  <2>3. Back(n - 1, o, p[k].value, BackAs(n - 1, o, p[k].value))
    BY <1>4 DEF BackAs
  <2> HIDE DEF e
  <2> QED
    BY <2>1, <2>2, <2>3
<1>6. \A k \in 1 .. m : parts[k] = Member(p[k].key, Dumps[n - 1][o][p[k].value])
  BY <1>3 DEF Members
<1>7. IsList(parts) /\ Len(parts) = m
  <2>1. parts = [k \in 1 .. m |-> parts[k]]
    BY <1>3 DEF Members
  <2> HIDE DEF parts
  <2> QED
    BY <1>1, <2>1, ListMade
<1>8. IsList(e) /\ Len(e) = m /\ DOMAIN e = 1 .. m
  <2>1. e = [k \in 1 .. m |-> e[k]]
    OBVIOUS
  <2> HIDE DEF e
  <2> QED
    BY <1>1, <2>1, ListMade
<1> HIDE DEF e, parts
<1>9. Len(l) = m
  BY DEF m
<1>10. w \in Json[n]
  <2>1. \A k \in 1 .. Len(e) : \E key \in Range(Keys), x \in Json[n - 1] : e[k] = Pair(key, x)
    <3> TAKE k \in 1 .. Len(e)
    <3>1. k \in 1 .. m
      BY <1>8
    <3> QED
      BY <1>4, <1>5, <3>1 DEF Back
  <2> QED
    BY <1>8, <2>1, JsonHas
<1>11. MembersEqual(n - 1, l, e)
  <2>1. ASSUME NEW a \in 1 .. m
        PROVE  \E b \in 1 .. m : l[a].key = e[b].key /\ PyEq[n - 1][l[a].value][e[b].value]
    <3>1. PICK b \in 1 .. m : p[b] = l[a]
      BY <1>2, <1>9 DEF Rearranged
    <3>2. e[b].key = p[b].key /\ PyEq[n - 1][p[b].value][e[b].value]
      BY <1>5 DEF Back
    <3> QED
      BY <3>1, <3>2
  <2> QED
    BY <1>1, <1>8, <1>9, <2>1 DEF MembersEqual
<1>12. MembersEqual(n - 1, e, l)
  <2>1. ASSUME NEW b \in 1 .. m
        PROVE  \E a \in 1 .. m : e[b].key = l[a].key /\ PyEq[n - 1][e[b].value][l[a].value]
    <3>1. PICK a \in 1 .. m : p[b] = l[a]
      BY <1>2, <1>9 DEF Rearranged
    <3>2. e[b].key = p[b].key /\ PyEq[n - 1][e[b].value][p[b].value]
      BY <1>5 DEF Back
    <3> QED
      BY <3>1, <3>2
  <2> QED
    BY <1>1, <1>8, <1>9, <2>1 DEF MembersEqual
<1>13. PyEq[n][v][w] /\ PyEq[n][w][v]
  BY <1>10, <1>11, <1>12, EqualAs
<1>14. o.sorted \/ w = v
  <2> SUFFICES ASSUME ~o.sorted PROVE w = v
    OBVIOUS
  <2>1. \A k \in 1 .. m : e[k] = p[k]
    BY <1>4, <1>5 DEF Back
  <2>2. e = p
    BY <1>3, <1>8, <2>1, ListsEqual
  <2> QED
    BY <1>2, <2>2
<1>15. Dumps[n][o][v] = Bracketed(Opening("members"), parts, Closing("members"), o)
  BY DumpedAs DEF Opening, Closing, parts, p
<1>16. "members" \in Kinds
  BY DEF Kinds
<1> DEFINE shown == Bracketed(Opening("members"), parts, Closing("members"), o)
<1>17. shown \in Streams /\ ReadsAs(shown, "items", w)
  <2>1. CASE m = 0
    <3>1. shown = <<Opening("members"), Closing("members")>>
      BY <1>7, <2>1, NoneWritten
    <3>2. e = <<>>
      BY <1>8, <2>1, ListsEqual, NoneIsList
    <3>3. Empty("members") = w
      BY <3>2 DEF Empty
    <3> HIDE DEF shown, w
    <3> QED
      BY <1>16, <3>1, <3>3, EmptyReads
  <2>2. CASE m # 0
    <3>1. ReadsAll(parts, "members", e)
      <4>1. m >= 1
        BY <1>1, <2>2
      <4>2. ASSUME NEW k \in 1 .. m PROVE parts[k] \in Streams /\ ReadsAs(parts[k], "members", e[k])
        <5> DEFINE written1 == Dumps[n - 1][o][p[k].value]
        <5>1. written1 \in Streams /\ ReadsAs(written1, "items", e[k].value)
          BY <1>5 DEF Back
        <5>2. p[k].key \in Range(Keys) /\ e[k] = Pair(p[k].key, e[k].value) /\ parts[k] = Member(p[k].key, written1)
          BY <1>4, <1>5, <1>6
        <5> HIDE DEF written1
        <5>3. Member(p[k].key, written1) \in Streams
              /\ ReadsAs(Member(p[k].key, written1), "members", Pair(p[k].key, e[k].value))
          BY <5>1, <5>2, MemberReads
        <5> QED
          BY <5>2, <5>3
      <4> QED
        BY <1>7, <1>8, <4>1, <4>2 DEF ReadsAll
    <3>2. Wrap("members", e) = w
      <4>1. OneEach(e)
        BY <1>3, <1>5, <1>8 DEF OneEach
      <4>2. Merged(e) = e
        BY <1>8, <4>1, OneEachMerged
      <4> QED
        BY <4>2 DEF Wrap
    <3> HIDE DEF w
    <3> QED
      BY <1>16, <3>1, <3>2, BracketedReads
  <2> QED
    BY <2>1, <2>2
<1> HIDE DEF shown, v, w
<1>18. Back(n, o, v, w)
  <2>1. Dumps[n][o][v] = shown
    BY <1>15 DEF shown
  <2> QED
    BY <1>10, <1>13, <1>14, <1>17, <2>1 DEF Back
<1> QED
  BY <1>18 DEF v

-----------------------------------------------------------------------------
(* What is written of any value that was read reads back: a value that did not,*)
(* of the least level, would hold one that does not.                          *)

LEMMA MeantReadsBack ==
    ASSUME DocumentAssumption, NEW n \in Nat, NEW o \in Options, NEW v, IsMeant(v, n)
    PROVE  \E w : Back(n, o, v, w)
<1> DEFINE T == {m \in Nat : \E x : IsMeant(x, m) /\ ~\E w : Back(m, o, x, w)}
<1> SUFFICES ASSUME ~\E w : Back(n, o, v, w) PROVE FALSE
  OBVIOUS
<1>1. T \in SUBSET Nat /\ T # {}
  OBVIOUS
<1>2. PICK m \in T : \A k \in T : m <= k
  BY <1>1, LeastOf
<1>3. PICK x : IsMeant(x, m) /\ ~\E w : Back(m, o, x, w)
  BY <1>2
<1>4. m \in Nat /\ m - 1 \in Nat
  BY <1>2, <1>3, MeantIs
<1>5. \A y : IsMeant(y, m - 1) => \E w : Back(m - 1, o, y, w)
  BY <1>2, <1>4
<1> HIDE DEF T
<1>6. x \in Json[m]
  BY <1>3, <1>4, MeantIsJson
<1>7. ASSUME NEW t \in Scalars, x = Scalar(t) PROVE FALSE
  BY <1>3, <1>4, <1>7, ScalarBack
<1>8. ASSUME NEW l, x = Array(l), IsList(l), \A k \in 1 .. Len(l) : IsMeant(l[k], m - 1) PROVE FALSE
  <2>1. \A k \in 1 .. Len(l) : \E w : Back(m - 1, o, l[k], w)
    BY <1>5, <1>8
  <2>2. Array(l) \in Json[m]
    BY <1>6, <1>8
  <2> QED
    BY <1>3, <1>4, <1>8, <2>1, <2>2, ArrayBack
<1>9. ASSUME NEW l, x = Object(l), IsMapping(l, m - 1) PROVE FALSE
  <2>1. IsList(l) /\ OneEach(l)
    BY <1>9 DEF IsMapping, OneEach
  <2>2. \A k \in 1 .. Len(l) : /\ l[k].key \in Range(Keys) /\ l[k] = Pair(l[k].key, l[k].value)
                               /\ IsMeant(l[k].value, m - 1)
    <3> TAKE k \in 1 .. Len(l)
    <3>1. PICK key \in Range(Keys) : \E w : IsMeant(w, m - 1) /\ l[k] = Pair(key, w)
      BY <1>9 DEF IsMapping
    <3>2. PICK w : IsMeant(w, m - 1) /\ l[k] = Pair(key, w)
      BY <3>1
    <3>3. Pair(key, w).key = key /\ Pair(key, w).value = w
      BY DEF Pair
    <3> QED
      BY <3>2, <3>3
  <2>3. \A k \in 1 .. Len(l) : \E w : Back(m - 1, o, l[k].value, w)
    BY <1>5, <2>2
  <2>4. Object(l) \in Json[m]
    BY <1>6, <1>9
  <2> QED
    BY <1>3, <1>4, <1>9, <2>1, <2>2, <2>3, <2>4, ObjectBack
<1> QED
  BY <1>3, <1>4, <1>7, <1>8, <1>9, MeantIs

LEMMA CompactIsShorter == \A s \in Streams : Compact(s) \in Streams /\ Len(Compact(s)) <= Len(s)
<1> TAKE s \in Streams
<1>1. Len(s) \in Nat /\ DOMAIN s = 1 .. Len(s)
  BY DEF Streams
<1>2. Solid(s) \subseteq 1 .. Len(s) /\ Solid(s) \in SUBSET Int
  BY <1>1 DEF Solid
<1>3. IsFiniteSet(1 .. Len(s)) /\ Cardinality(1 .. Len(s)) = Len(s)
  BY <1>1, Counting
<1>4. IsFiniteSet(Solid(s)) /\ Cardinality(Solid(s)) <= Len(s)
  BY <1>2, <1>3, FS_Subset
<1>5. Len(Compact(s)) = Cardinality(Solid(s))
  <2> DEFINE asc == Ascending(Solid(s))
  <2>1. DOMAIN asc = 1 .. Cardinality(Solid(s)) /\ Cardinality(Solid(s)) \in Nat
    BY <1>2, <1>4, AscendingIs, Ranked
  <2>2. Compact(s) = [n \in DOMAIN asc |-> s[asc[n]]]
    BY DEF Compact, Solid
  <2> HIDE DEF asc
  <2> QED
    BY <2>1, <2>2
<1> QED
  BY <1>4, <1>5, Positions

\* The value of a text is one that a text of its length denotes.
LEMMA ValueIsMeant ==
    ASSUME NEW s \in Streams, NEW v \in Values(s)
    PROVE  IsMeant(v, Len(s))
<1>1. v \in Denotes(Compact(s))
  BY DEF Values, Denotes
<1> QED
  BY <1>1, CompactIsShorter DEF IsMeant

LEMMA OnlyValue ==
    ASSUME NEW s \in Streams, NEW w, ReadsAs(s, "items", w)
    PROVE  Values(s) = {w}
<1> DEFINE t == Compact(s)
           end == Len(t) + 1
<1>1. Bears(s, 1, s) /\ 1 \in 1 .. Len(s) + 1 /\ 1 + Len(s) = Len(s) + 1 /\ Len(s) \in Nat
  <2>1. Bears(s, 1, s) /\ Len(s) \in Nat
    BY BearsItself
  <2> QED
    BY <2>1
<1>2. Position(s, 1) = 1 /\ Position(s, Len(s) + 1) = end
  BY Positions
<1>3. Stands(t, 1) = {<<w, end>>}
  <2>1. ElementsFrom(t, Position(s, 1), "items") = Found(w, Position(s, 1 + Len(s)))
    BY <1>1 DEF ReadsAs
  <2> QED
    BY <1>1, <1>2, <2>1, ItemsFrom DEF Found
<1>4. \A v : v \in Values(s) <=> <<v, end>> \in Stands(t, 1)
  BY ValuesAre
<1> HIDE DEF t, end
<1>5. \A v : <<v, end>> \in {<<w, end>>} <=> v = w
  OBVIOUS
<1> QED
  BY <1>3, <1>4, <1>5

-----------------------------------------------------------------------------
Writing ==
    stage = "written" =>
        /\ options \in Options
        /\ tokens \in Streams /\ Values(tokens) = {value}
        /\ written = Dumps[Len(tokens)][options][value]

LEMMA WritingIsReadBack ==
    ASSUME DocumentAssumption, Writing
    PROVE  WrittenReadsBack
<1> SUFFICES ASSUME stage = "written" PROVE WrittenReadsBack
  BY DEF WrittenReadsBack
<1> DEFINE n == Len(tokens)
<1>1. /\ options \in Options /\ tokens \in Streams /\ value \in Values(tokens) /\ n \in Nat
      /\ written = Dumps[n][options][value]
  BY DEF Writing, Streams
<1>2. IsMeant(value, n)
  BY <1>1, ValueIsMeant
<1> HIDE DEF n
<1>3. PICK w : Back(n, options, value, w)
  BY <1>1, <1>2, MeantReadsBack
<1>4. /\ PyEq[n][value][w] /\ PyEq[n][w][value] /\ (options.sorted \/ w = value)
      /\ written \in Streams /\ ReadsAs(written, "items", w)
  BY <1>1, <1>3 DEF Back
<1>5. Values(written) = {w}
  BY <1>4, OnlyValue
<1> QED
  BY <1>4, <1>5 DEF WrittenReadsBack, n

LEMMA WritingGoesOn ==
    ASSUME DocumentAssumption, Reading, Writing, [DocumentNext]_documentVars
    PROVE  Writing'
<1>1. CASE ReadScalar \/ OpenArray \/ OpenObject \/ ExpectValue \/ AttachToNothing \/ AttachToArray \/ AttachToObject
  <2>1. stage' # "written"
    BY <1>1 DEF ReadScalar, OpenArray, OpenObject, ExpectValue, AttachToNothing, AttachToArray, AttachToObject,
                Deliver, Enter, RefuseText
  <2> QED
    BY <2>1 DEF Writing
<1>2. CASE Write
  <2>1. /\ options' \in Options /\ tokens' = tokens /\ value' = value
        /\ written' = Dumps[Len(tokens)][options'][value]
    BY <1>2 DEF Write
  <2>2. tokens \in Streams /\ Values(tokens) = {value}
    BY <1>2, WhereIs DEF Write
  <2>3. tokens' \in Streams /\ Values(tokens') = {value'} /\ written' = Dumps[Len(tokens')][options'][value']
    BY <2>1, <2>2
  <2> QED
    BY <2>1, <2>3 DEF Writing
<1>3. CASE UNCHANGED documentVars
  <2>1. /\ options' = options /\ tokens' = tokens /\ value' = value /\ stage' = stage /\ written' = written
    BY <1>3 DEF documentVars
  <2> QED
    BY <2>1 DEF Writing
<1> QED
  BY <1>1, <1>2, <1>3 DEF DocumentNext

(* What the document writer writes, of any value that was read and with any of its      *)
(* options, denotes that value: with every key in its place unless the keys were sorted. *)
THEOREM WrittenIsReadBack == ASSUME DocumentAssumption PROVE DocumentSpec => []WrittenReadsBack
<1>1. DocumentInit => Reading /\ Writing
  <2>1. DocumentInit => Reading
    BY ReadingStarts
  <2>2. DocumentInit => stage # "written"
    BY DEF DocumentInit
  <2> QED
    BY <2>1, <2>2 DEF Writing
<1>2. Reading /\ Writing /\ [DocumentNext]_documentVars => Reading' /\ Writing'
  BY ReadingGoesOn, WritingGoesOn
<1>3. Writing => WrittenReadsBack
  BY WritingIsReadBack
<1> QED
  BY <1>1, <1>2, <1>3, PTL DEF DocumentSpec

(* JSON is read exactly, a text by its tokens and a token by its characters, and what *)
(* is written reads back: all that is said of the four parts of src/pyjson.rs, at once. *)
THEOREM JsonReadExactly ==
    ASSUME DocumentAssumption, ScalarAssumption
    PROVE  DocumentSpec /\ ScalarSpec => []JsonIsReadExactly
<1>1. DocumentSpec => []ReadsTheGrammar
  BY TextReadByGrammar
<1>2. DocumentSpec => []WrittenReadsBack
  BY WrittenIsReadBack
<1>3. ScalarSpec => []NumbersAreLongest
  BY NumberIsLongest
<1>4. ScalarSpec => []StringsReadBack
  BY StringReadsBack
<1>5. ReadsTheGrammar /\ WrittenReadsBack /\ NumbersAreLongest /\ StringsReadBack => JsonIsReadExactly
  BY DEF JsonIsReadExactly
<1> QED
  BY <1>1, <1>2, <1>3, <1>4, <1>5, PTL

-----------------------------------------------------------------------------
(* The gate on required checks.                                              *)

USE ChecksAssumption

LEMMA NoJobsType == NoJobs \in [Checks -> JobViews]
BY DEF NoJobs, JobViews

LEMMA InitType == Init => TypeOK
<1> SUFFICES ASSUME Init PROVE TypeOK  OBVIOUS
<1>1. run \in [RunIds -> RunStates] /\ listed \in [RunIds -> RunStates]
  BY DEF Init, RunStates
<1>2. job \in [RunIds -> [Checks -> JobViews]]  BY NoJobsType DEF Init
<1>3. reruns \in 0 .. MaxReruns /\ clock \in 0 .. MaxClock /\ wake \in 0 .. Wait + MaxClock
  BY DEF Init
<1>4. pc \in {"list", "judge", "pause", "sleep"} \cup Ended  BY DEF Init
<1>5. cache \in [RunIds -> [Checks -> JobViews] \cup {<<>>}]  BY DEF Init, NothingRead
<1>6. QED  BY <1>1, <1>2, <1>3, <1>4, <1>5 DEF TypeOK

\* A job listing of one run changes in one place.
LEMMA JobUpdate ==
  ASSUME TypeOK, NEW r \in RunIds, NEW c \in Checks, NEW view \in JobViews,
         job' = [job EXCEPT ![r] = [job[r] EXCEPT ![c] = view]]
  PROVE  job' \in [RunIds -> [Checks -> JobViews]]
<1>1. job \in [RunIds -> [Checks -> JobViews]]  BY DEF TypeOK
<1>2. [job[r] EXCEPT ![c] = view] \in [Checks -> JobViews]  BY <1>1
<1>3. QED  BY <1>1, <1>2

LEMMA GateType == TypeOK /\ (GateStep \/ CallFails) => TypeOK'
<1> SUFFICES ASSUME TypeOK, GateStep \/ CallFails PROVE TypeOK'  OBVIOUS
<1> USE DEF TypeOK
<1>1. CASE ListRuns
  <2>1. listed' \in [RunIds -> RunStates]  BY <1>1 DEF ListRuns, RunStates
  <2>2. QED  BY <1>1, <2>1 DEF ListRuns, github
<1>2. ASSUME NEW r \in RunIds, ReadJobs(r) PROVE TypeOK'
  <2>1. cache' \in [RunIds -> [Checks -> JobViews] \cup {<<>>}]  BY <1>2 DEF ReadJobs
  <2>2. QED  BY <1>2, <2>1 DEF ReadJobs, github
<1>3. CASE Judge
  <2>1. Verdict \in {"passed", "refused", "timed_out", "pause"}
    <3>1. Evaluate \in {"passed", "failed", "pending"}  BY DEF Evaluate
    <3>2. QED  BY <3>1 DEF Verdict
  <2>2. /\ listed' \in [RunIds -> RunStates]
        /\ cache' \in [RunIds -> [Checks -> JobViews] \cup {<<>>}]
    BY <1>3 DEF Judge, NothingRead, RunStates
  <2>3. pc' \in {"list", "judge", "pause", "sleep"} \cup Ended
    BY <1>3, <2>1 DEF Judge, Ended
  <2>4. QED  BY <1>3, <2>2, <2>3 DEF Judge, github
<1>4. CASE Sleep
  <2> DEFINE left == IF clock < Wait THEN Wait - clock ELSE 0
  <2>1. clock \in Nat /\ clock <= MaxClock  OBVIOUS
  <2>2. left \in Nat /\ left <= Wait  BY <2>1
  <2>3. Least(Poll, left) \in Nat /\ Least(Poll, left) <= Wait  BY <2>2 DEF Least
  <2>4. wake' = clock + Least(Poll, left)  BY <1>4 DEF Sleep
  <2>5. wake' \in 0 .. Wait + MaxClock  BY <2>1, <2>3, <2>4
  <2>6. QED  BY <1>4, <2>5 DEF Sleep, github
<1>5. CASE Wake  BY <1>5 DEF Wake, github
<1>6. CASE CallFails  BY <1>6 DEF CallFails, github, Ended
<1>7. QED  BY <1>1, <1>2, <1>3, <1>4, <1>5, <1>6 DEF GateStep

LEMMA GitHubType == TypeOK /\ (RunsGoOn \/ Tick) => TypeOK'
<1> SUFFICES ASSUME TypeOK, RunsGoOn \/ Tick PROVE TypeOK'  OBVIOUS
<1> USE DEF TypeOK
<1>1. ASSUME NEW r \in RunIds, RunStarts(r) PROVE TypeOK'
  <2>1. run' \in [RunIds -> RunStates]  BY <1>1 DEF RunStarts, RunStates
  <2>2. QED  BY <1>1, <2>1 DEF RunStarts, gate
<1>2. ASSUME NEW r \in RunIds, RunCompletes(r) PROVE TypeOK'
  <2>1. run' \in [RunIds -> RunStates]  BY <1>2 DEF RunCompletes, RunStates
  <2>2. QED  BY <1>2, <2>1 DEF RunCompletes, gate
<1>3. ASSUME NEW r \in RunIds, Rerun(r) PROVE TypeOK'
  <2>1. run' \in [RunIds -> RunStates]  BY <1>3 DEF Rerun, RunStates
  <2>2. PICK kept \in {{}, {"success"}} :
          job' = [job EXCEPT ![r] =
                    [c \in Checks |-> IF job[r][c] \in kept THEN job[r][c] ELSE "missing"]]
    BY <1>3 DEF Rerun
  <2>3. [c \in Checks |-> IF job[r][c] \in kept THEN job[r][c] ELSE "missing"]
          \in [Checks -> JobViews]
    BY DEF JobViews
  <2>4. job' \in [RunIds -> [Checks -> JobViews]]  BY <2>2, <2>3
  <2>5. reruns' \in 0 .. MaxReruns  BY <1>3 DEF Rerun
  <2>6. QED  BY <1>3, <2>1, <2>4, <2>5 DEF Rerun, gate
<1>4. ASSUME NEW r \in RunIds, NEW c \in Checks, JobStarts(r, c) PROVE TypeOK'
  <2>1. PICK view \in {"running", "several"} :
          job' = [job EXCEPT ![r] = [job[r] EXCEPT ![c] = view]]
    BY <1>4 DEF JobStarts
  <2>2. view \in JobViews  BY DEF JobViews
  <2>3. job' \in [RunIds -> [Checks -> JobViews]]  BY <2>1, <2>2, JobUpdate
  <2>4. QED  BY <1>4, <2>3 DEF JobStarts, gate
<1>5. ASSUME NEW r \in RunIds, NEW c \in Checks, JobEnds(r, c) PROVE TypeOK'
  <2>1. PICK view \in {"success", "other"} :
          job' = [job EXCEPT ![r] = [job[r] EXCEPT ![c] = view]]
    BY <1>5 DEF JobEnds
  <2>2. view \in JobViews  BY DEF JobViews
  <2>3. job' \in [RunIds -> [Checks -> JobViews]]  BY <2>1, <2>2, JobUpdate
  <2>4. QED  BY <1>5, <2>3 DEF JobEnds, gate
<1>6. CASE Tick  BY <1>6 DEF Tick, github, gate
<1>7. QED  BY <1>1, <1>2, <1>3, <1>4, <1>5, <1>6 DEF RunsGoOn

\* The gate's state is what the code keeps (lines 312-402).
THEOREM TypeCorrect == Spec => []TypeOK
<1>1. Init => TypeOK  BY InitType
<1>2. TypeOK /\ [Next]_vars => TypeOK'
  <2>1. TypeOK /\ UNCHANGED vars => TypeOK'  BY DEF TypeOK, vars, github, gate
  <2>2. QED  BY <2>1, GateType, GitHubType DEF Next
<1>3. QED  BY <1>1, <1>2, PTL DEF Spec

-----------------------------------------------------------------------------
(* Passing over a failure *)

\* evaluate starts with an empty cache.
FreshCache == pc \in {"list", "pause", "sleep"} => cache = NothingRead

LEMMA FreshCacheHolds == Spec => []FreshCache
<1>1. Init => FreshCache  BY DEF Init, FreshCache
<1>2. FreshCache /\ [Next]_vars => FreshCache'
  <2> SUFFICES ASSUME FreshCache, [Next]_vars PROVE FreshCache'  OBVIOUS
  <2>1. CASE GateStep
    BY <2>1 DEF GateStep, ListRuns, ReadJobs, Judge, Sleep, Wake, FreshCache
  <2>2. CASE CallFails  BY <2>2 DEF CallFails, FreshCache
  <2>3. CASE RunsGoOn
    BY <2>3 DEF RunsGoOn, RunStarts, RunCompletes, Rerun, JobStarts, JobEnds, gate, FreshCache
  <2>4. CASE Tick  BY <2>4 DEF Tick, gate, FreshCache
  <2>5. CASE UNCHANGED vars  BY <2>5 DEF vars, gate, FreshCache
  <2>6. QED  BY <2>1, <2>2, <2>3, <2>4, <2>5 DEF Next
<1>3. QED  BY <1>1, <1>2, PTL DEF Spec

\* While the check of r has not succeeded, the gate holds nothing that says it
\* has, and it has r in hand whenever it judges.
Unproved ==
    {p \in Checks \X RunIds :
        /\ p[2] \in TrustedRuns /\ run[p[2]] # "absent"
        /\ pc # "passed"
        /\ pc = "judge" => /\ listed[p[2]] # "absent"
                           /\ cache[p[2]] = <<>> \/ cache[p[2]][p[1]] # "success"}

\* A check that a listed run does not report as a success keeps it from passing.
LEMMA OneStopsAll ==
  ASSUME TypeOK, NEW c \in Checks, NEW r \in RunIds, Belongs(r, c),
         listed[r] # "absent", cache[r] = <<>> \/ cache[r][c] # "success",
         Unread = {}
  PROVE  Verdict # "passed"
<1>1. r \in RunsOf(c)  BY DEF RunsOf, Belongs
<1>2. cache[r] # <<>>
  <2>1. r \in UNION {RunsOf(x) : x \in Checks}  BY <1>1
  <2>2. QED  BY <2>1 DEF Unread
<1>3. cache[r] \in [Checks -> JobViews]  BY <1>2 DEF TypeOK
<1>4. cache[r][c] \in {"missing", "running", "other", "several"}
  BY <1>2, <1>3 DEF JobViews
<1>5. Fails(c) \/ Pends(c)  BY <1>1, <1>4 DEF Fails, Pends
<1>6. Evaluate # "passed"  BY <1>5 DEF Evaluate
<1>7. Evaluate \in {"failed", "pending"}  BY <1>6 DEF Evaluate
<1>8. QED  BY <1>7 DEF Verdict

\* No step of the gate or of GitHub changes that.
LEMMA StaysUnproved ==
  ASSUME TypeOK, FreshCache, [Next]_vars, NEW p \in Unproved,
         Belongs(p[2], p[1]), job[p[2]][p[1]] # "success"
  PROVE  p \in Unproved'
<1> DEFINE c == p[1]
           r == p[2]
<1>0. /\ p \in Checks \X RunIds /\ r \in TrustedRuns /\ run[r] # "absent" /\ pc # "passed"
      /\ pc = "judge" => /\ listed[r] # "absent"
                         /\ cache[r] = <<>> \/ cache[r][c] # "success"
  BY DEF Unproved
<1> SUFFICES /\ run'[r] # "absent" /\ pc' # "passed"
             /\ pc' = "judge" => /\ listed'[r] # "absent"
                                 /\ cache'[r] = <<>> \/ cache'[r][c] # "success"
  BY <1>0 DEF Unproved
<1>1. CASE ListRuns
  <2>1. listed'[r] = run[r] /\ run' = run  BY <1>0, <1>1 DEF ListRuns, github
  <2>2. cache'[r] = <<>>  BY <1>0, <1>1 DEF ListRuns, FreshCache, NothingRead
  <2>3. QED  BY <1>0, <1>1, <2>1, <2>2 DEF ListRuns
<1>2. CASE \E q \in RunIds : ReadJobs(q)
  <2>1. PICK q \in RunIds : ReadJobs(q)  BY <1>2
  <2>2. cache'[r] = IF r = q THEN job[r] ELSE cache[r]  BY <1>0, <2>1 DEF ReadJobs, TypeOK
  <2>3. pc = "judge" /\ pc' = pc /\ listed' = listed /\ run' = run
    BY <2>1 DEF ReadJobs, github
  <2>4. QED  BY <1>0, <2>2, <2>3
<1>3. CASE Judge
  <2>1. pc = "judge" /\ Unread = {} /\ pc' = Verdict /\ run' = run  BY <1>3 DEF Judge, github
  <2>2. Verdict # "passed"
    <3>1. c \in Checks /\ r \in RunIds /\ Belongs(r, c)  BY <1>0
    <3>2. listed[r] # "absent" /\ (cache[r] = <<>> \/ cache[r][c] # "success")  BY <1>0, <2>1
    <3>3. QED  BY <2>1, <3>1, <3>2, OneStopsAll
  <2>3. Verdict # "judge"
    <3>1. Evaluate \in {"passed", "failed", "pending"}  BY DEF Evaluate
    <3>2. QED  BY <3>1 DEF Verdict
  <2>4. QED  BY <1>0, <2>1, <2>2, <2>3
<1>4. CASE Sleep  BY <1>0, <1>4 DEF Sleep, github
<1>5. CASE Wake  BY <1>0, <1>5 DEF Wake, github, FreshCache
<1>6. CASE CallFails  BY <1>0, <1>6 DEF CallFails, github
<1>7. CASE RunsGoOn
  <2>1. UNCHANGED gate /\ run'[r] # "absent"
    BY <1>0, <1>7 DEF RunsGoOn, RunStarts, RunCompletes, Rerun, JobStarts, JobEnds, TypeOK
  <2>2. QED  BY <1>0, <2>1 DEF gate
<1>8. CASE Tick  BY <1>0, <1>8 DEF Tick, github, gate
<1>9. CASE UNCHANGED vars  BY <1>0, <1>9 DEF vars, github, gate
<1>10. QED
  BY <1>1, <1>2, <1>3, <1>4, <1>5, <1>6, <1>7, <1>8, <1>9 DEF Next, GateStep

-----------------------------------------------------------------------------

LEMMA PairStaysUnproved ==
  ASSUME NEW c \in Checks, NEW r \in RunIds, Belongs(r, c)
  PROVE  TypeOK /\ FreshCache /\ [Next]_vars /\ job[r][c] # "success" /\ <<c, r>> \in Unproved
           => (<<c, r>> \in Unproved)'
<1> SUFFICES ASSUME TypeOK, FreshCache, [Next]_vars, job[r][c] # "success", <<c, r>> \in Unproved
             PROVE  <<c, r>> \in Unproved'
  OBVIOUS
<1> DEFINE p == <<c, r>>
<1>1. p[1] = c /\ p[2] = r  OBVIOUS
<1>2. Belongs(p[2], p[1]) /\ job[p[2]][p[1]] # "success" /\ p \in Unproved  BY <1>1
<1> HIDE DEF p
<1>3. p \in Unproved'  BY <1>2, StaysUnproved
<1>4. QED  BY <1>3 DEF p

LEMMA NeverPassesOverOne ==
  ASSUME NEW c \in Checks, NEW r \in RunIds, Belongs(r, c)
  PROVE  Spec => NeverPassesOver(c, r)
<1>1. pc = "list" /\ Present(r) => <<c, r>> \in Unproved  BY DEF Unproved, Present
<1>2. TypeOK /\ FreshCache /\ [Next]_vars /\ job[r][c] # "success" /\ <<c, r>> \in Unproved
        => (<<c, r>> \in Unproved)'
  BY PairStaysUnproved
<1>3. <<c, r>> \in Unproved => pc # "passed"  BY DEF Unproved
<1>4. QED
  BY <1>1, <1>2, <1>3, TypeCorrect, FreshCacheHolds, PTL DEF Spec, NeverPassesOver

\* The gate never passes over a trusted run that was there when it last listed
\* the runs and whose check has not succeeded since (lines 312-379): whatever
\* other runs report, however the calls interleave with the runs and re-runs.
THEOREM NeverPassesOverFailure == Spec => NoPassOverFailure
<1>1. ASSUME NEW c \in Checks, NEW r \in RunIds, Belongs(r, c)
      PROVE  Spec => NeverPassesOver(c, r)
  BY <1>1, NeverPassesOverOne
<1>2. QED  BY <1>1 DEF NoPassOverFailure

=============================================================================
