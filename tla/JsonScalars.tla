---------------------------- MODULE JsonScalars -----------------------------
(***************************************************************************)
(* src/pyjson.rs, match_number, scanstring and dump_str: the tokens that    *)
(* JsonDocument takes whole, character by character.  The four hexadecimal  *)
(* digits of an escape are one character here, a quad, which stands for the *)
(* same four characters outside an escape.                                  *)
(***************************************************************************)
EXTENDS Naturals, Sequences, SequencesExt, FiniteSets, FiniteSetsExt

CONSTANTS
    Alphabet,    \* the characters
    NumberTexts, \* texts to match a number at the start of
    StringTexts, \* texts to scan a string in, from behind its quote
    DigitLimit   \* the digits an integer may have (CPython's limit)

Digits == {"0", "1"}

VARIABLES
    kind,  \* "number" or "string"
    text, idx,
    scalarAt, \* of a number: "sign", "whole", "fraction", "exponent";
              \* of a string: "scan"; of both: "done" or "refused"
    out       \* the characters scanned, or the kind of number matched

scalarVars == <<kind, text, idx, scalarAt, out>>

Refuse == scalarAt' = "refused" /\ UNCHANGED <<idx, out>>
Done(i, result) == scalarAt' = "done" /\ idx' = i /\ out' = result

ScalarInit ==
    /\ idx = 1
    /\ \/ kind = "number" /\ text \in NumberTexts /\ scalarAt = "sign" /\ out = "int"
       \/ kind = "string" /\ text \in StringTexts /\ scalarAt = "scan" /\ out = <<>>

-----------------------------------------------------------------------------
(* match_number.  Positions past the end hold no character.                 *)

Char(i) == IF i <= Len(text) THEN text[i] ELSE "end"
DigitsEnd(i) == Min({j \in i..Len(text) + 1 : Char(j) \notin Digits})

Sign ==
    /\ scalarAt = "sign"
    /\ scalarAt' = "whole"
    /\ idx' = IF Char(1) = "-" THEN 2 ELSE 1
    /\ UNCHANGED <<kind, text, out>>

Whole ==
    /\ scalarAt = "whole"
    /\ CASE Char(idx) = "1" -> idx' = DigitsEnd(idx + 1) /\ scalarAt' = "fraction"
         [] Char(idx) = "0" -> idx' = idx + 1 /\ scalarAt' = "fraction"
         [] OTHER -> scalarAt' = "refused" /\ UNCHANGED idx
    /\ UNCHANGED <<kind, text, out>>

Fraction ==
    /\ scalarAt = "fraction"
    /\ scalarAt' = "exponent"
    /\ IF Char(idx) = "." /\ Char(idx + 1) \in Digits
       THEN idx' = DigitsEnd(idx + 1) /\ out' = "float"
       ELSE UNCHANGED <<idx, out>>
    /\ UNCHANGED <<kind, text>>

\* The exponent only counts if a digit comes last; only an integer has a limit.
Exponent ==
    /\ scalarAt = "exponent"
    /\ LET first == IF Char(idx + 1) \in {"+", "-"} /\ idx + 1 < Len(text) THEN idx + 2 ELSE idx + 1
           end == DigitsEnd(first)
           exponent == Char(idx) = "e" /\ idx < Len(text) /\ text[end - 1] \in Digits IN
       IF exponent THEN Done(end, "float")
       ELSE IF out = "int" /\ Cardinality({i \in 1..(idx - 1) : text[i] \in Digits}) > DigitLimit
       THEN Refuse
       ELSE Done(idx, out)
    /\ UNCHANGED <<kind, text>>

-----------------------------------------------------------------------------
(* scanstring.                                                              *)

\* Quads, and the character each one is the code of; two make a pair.
Code == [q \in {"007a", "0001"} |-> IF q = "007a" THEN "z" ELSE "control"]
High == "d83d"
Low  == "de00"
Paired == "astral"
Quads == DOMAIN Code \cup {High, Low}

\* The escapes of one character, and what they stand for.
Escape == [c \in {"quote", "backslash", "n"} |-> IF c = "n" THEN "newline" ELSE c]

\* The first character at or after i that ends a run, or cannot be in one.
Stops == {"quote", "backslash", "control", "newline", "end"}
Stop(i) == Min({j \in i..Len(text) + 1 : Char(j) \in Stops})

\* One turn of the loop: a run of plain characters, and what stopped it.  A
\* quad must be followed by a character, as the closing quote is yet to come.
ScanString ==
    /\ scalarAt = "scan"
    /\ LET stop == Stop(idx)
           plain == out \o SubSeq(text, idx, stop - 1)
           code == stop + 2
           On(i, c) == idx' = i /\ out' = Append(plain, c) /\ UNCHANGED scalarAt IN
       CASE Char(stop) = "quote" -> Done(stop + 1, plain)
         [] Char(stop) \in {"control", "newline", "end"} -> Refuse
         [] OTHER ->
              IF Char(stop + 1) # "u"
              THEN IF Char(stop + 1) \in DOMAIN Escape
                   THEN On(stop + 2, Escape[Char(stop + 1)]) ELSE Refuse
              ELSE IF Char(code) \notin Quads \/ Char(code + 1) = "end" THEN Refuse
              ELSE IF /\ Char(code) = High /\ Char(code + 4) # "end"
                      /\ Char(code + 1) = "backslash" /\ Char(code + 2) = "u"
                      /\ Char(code + 3) = Low
              THEN On(code + 4, Paired)
              ELSE IF Char(code) \in DOMAIN Code THEN On(code + 1, Code[Char(code)])
              ELSE Refuse
    /\ UNCHANGED <<kind, text>>

\* dump_str, without its quotes.
Spelt(c, ascii) ==
    CASE c \in {"quote", "backslash"} -> <<"backslash", c>>
      [] c = "newline" -> <<"backslash", "n">>
      [] c = "control" -> <<"backslash", "u", "0001">>
      [] c = Paired /\ ascii -> <<"backslash", "u", High, "backslash", "u", Low>>
      [] OTHER -> <<c>>
DumpStr(s, ascii) == FlattenSeq([i \in DOMAIN s |-> Spelt(s[i], ascii)])

ScalarNext == Sign \/ Whole \/ Fraction \/ Exponent \/ ScanString

ScalarSpec == ScalarInit /\ [][ScalarNext]_scalarVars

-----------------------------------------------------------------------------
(* The grammar of both; the scanner shares its tables and nothing else.     *)

Numerals(s) == s # <<>> /\ Range(s) \subseteq Digits
Without(s, signs) == IF s # <<>> /\ s[1] \in signs THEN Tail(s) ELSE s

IsInteger(s) ==
    LET n == Without(s, {"-"}) IN Numerals(n) /\ (n[1] # "0" \/ Len(n) = 1)
IsFloat(s) ==
    \E i, j \in 1..Len(s) + 1 :
        /\ i <= j /\ ~(i = j /\ j = Len(s) + 1)
        /\ IsInteger(SubSeq(s, 1, i - 1))
        /\ i = j \/ (s[i] = "." /\ Numerals(SubSeq(s, i + 1, j - 1)))
        /\ j = Len(s) + 1 \/ (s[j] = "e" /\ Numerals(Without(SubSeq(s, j + 1, Len(s)), {"+", "-"})))
IsNumber(s) == IsInteger(s) \/ IsFloat(s)

(* A number is the longest one the text begins with, an integer only if no  *)
(* float is longer: a point or an exponent with no digit behind it is left  *)
(* for the caller to refuse, and none of it is taken for part of the number.*)
NumbersAreLongest ==
    kind = "number" =>
        LET Numbers == {i \in 1..Len(text) : IsNumber(SubSeq(text, 1, i))}
            longest == Max(Numbers \cup {0})
            number == SubSeq(text, 1, longest) IN
        /\ scalarAt = "done" => idx = longest + 1 /\ out = (IF IsFloat(number) THEN "float" ELSE "int")
        /\ scalarAt = "refused" =>
             \/ longest = 0
             \/ IsInteger(number) /\ Len(Without(number, {"-"})) > DigitLimit

Spellings(c) ==
    {DumpStr(<<c>>, ascii) : ascii \in BOOLEAN}
        \cup {<<"backslash", "u", q>> : q \in {q \in DOMAIN Code : Code[q] = c}}
Characters(s) == Range(s) \cup Range(Code) \cup Range(Escape) \cup {Paired}

Contents[s \in Seq(Alphabet)] ==
    IF s = <<>> THEN {<<>>}
    ELSE UNION {UNION {{<<c>> \o rest : rest \in Contents[SubSeq(s, Len(sp) + 1, Len(s))]} :
                          sp \in {sp \in Spellings(c) : IsPrefix(sp, s)}} : c \in Characters(s)}

(* A string is what its spelling says up to its closing quote, whichever of  *)
(* the ways to spell a character was used; a text that spells no string is  *)
(* refused, and a string that is dumped is scanned back as it was.          *)
StringsReadBack ==
    kind = "string" =>
        LET Quotes == {i \in DOMAIN text : text[i] = "quote"}
            Strings == UNION {Contents[SubSeq(text, 1, i - 1)] : i \in Quotes} IN
        /\ scalarAt = "done" =>
             /\ Contents[SubSeq(text, 1, idx - 2)] = {out}
             /\ \A ascii \in BOOLEAN : Contents[DumpStr(out, ascii)] = {out}
        /\ scalarAt = "refused" => Strings = {}

-----------------------------------------------------------------------------
(* Texts are of characters, and "end" says that there is none.               *)

ScalarAssumption ==
    /\ Stops \ {"end"} \subseteq Alphabet /\ "end" \notin Alphabet
    /\ Range(Code) \cup Range(Escape) \cup Quads \cup {"n", "u", Paired} \subseteq Alphabet
    /\ NumberTexts \cup StringTexts \subseteq Seq(Alphabet)
    /\ DigitLimit \in Nat

=============================================================================
