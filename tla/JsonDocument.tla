---------------------------- MODULE JsonDocument ----------------------------
(***************************************************************************)
(* src/pyjson.rs, loads and dumps: the reader with a stack of its own in    *)
(* place of recursion, and the writer, over texts whose strings and numbers *)
(* are single tokens (JsonScalars reads and writes those).  Every receipt,  *)
(* ledger, record and manifest of the program passes through both, and a    *)
(* canonical file is one that the writer gives back unchanged.              *)
(***************************************************************************)
EXTENDS JsonScalars

CONSTANTS
    Documents, \* the texts to read
    Keys       \* the strings, in the order of their characters

Scalars == {"0"} \cup Range(Keys) \* one number, and the strings
Space == " "
Comma == ","
LeftBrace == "{"
RightBrace == "}"
Tokens == Scalars \cup {"[", "]", LeftBrace, RightBrace, Comma, ":", Space}

VARIABLES
    tokens, place, \* the text, and the next token to look at
    stack,   \* the containers that are open, the last one innermost
    value,   \* the value just finished
    stage,   \* "value", "attach", "read", "refused" or "written"
    options, \* of the writer
    written  \* what it wrote

documentVars == <<tokens, place, stack, value, stage, options, written>>

Null == [k |-> "null"]
Scalar(t) == [k |-> "scalar", token |-> t]
Array(items) == [k |-> "array", items |-> items]
Object(pairs) == [k |-> "object", pairs |-> pairs]
Pair(key, v) == [key |-> key, value |-> v]

-----------------------------------------------------------------------------
(* Reading. *)

\* The first token at or after i that is not blank.
Skip(i) == Min({j \in i..Len(tokens) : tokens[j] # Space} \cup {Max({i, Len(tokens) + 1})})
At(i, t) == i <= Len(tokens) /\ tokens[i] = t

\* The key at i and the place of its value; ok is FALSE when it is refused.
ReadKey(i) ==
    LET colon == Skip(i + 1) IN
    IF i <= Len(tokens) /\ tokens[i] \in Range(Keys) /\ At(colon, ":")
    THEN [ok |-> TRUE, key |-> tokens[i], next |-> Skip(colon + 1)]
    ELSE [ok |-> FALSE]

\* Mutant: a repeated key is ignored.
PutOnce(pairs, p) ==
    IF \E i \in DOMAIN pairs : pairs[i].key = p.key THEN pairs ELSE Append(pairs, p)

\* A repeated key keeps its first position and takes the last value.
Put(pairs, p) ==
    IF \E i \in DOMAIN pairs : pairs[i].key = p.key
    THEN [pairs EXCEPT ![CHOOSE i \in DOMAIN pairs : pairs[i].key = p.key] = p]
    ELSE Append(pairs, p)
Dict(pairs) ==
    LET Kept[n \in 0..Len(pairs)] == IF n = 0 THEN <<>> ELSE Put(Kept[n - 1], pairs[n])
    IN  Kept[Len(pairs)]

DocumentInit ==
    /\ tokens \in Documents
    /\ place = Skip(1)
    /\ stack = <<>> /\ value = Null /\ stage = "value"
    /\ options = [indent |-> FALSE, sorted |-> FALSE] /\ written = <<>>

RefuseText == stage' = "refused" /\ UNCHANGED <<place, stack, value>>

\* Another value is read into the frame, which is pushed or replaced.
Enter(frames, frame, i) ==
    /\ stack' = Append(frames, frame)
    /\ place' = i /\ stage' = "value"
    /\ UNCHANGED value

Deliver(frames, v, i) ==
    /\ stack' = frames /\ value' = v
    /\ place' = i /\ stage' = "attach"

ReadScalar ==
    /\ stage = "value" /\ place <= Len(tokens) /\ tokens[place] \in Scalars
    /\ Deliver(stack, Scalar(tokens[place]), place + 1)
    /\ UNCHANGED <<tokens, options, written>>

OpenArray ==
    /\ stage = "value" /\ At(place, "[")
    /\ LET i == Skip(place + 1) IN
       IF At(i, "]") THEN Deliver(stack, Array(<<>>), i + 1)
       ELSE Enter(stack, Array(<<>>), i)
    /\ UNCHANGED <<tokens, options, written>>

\* The frame of an object also holds the key whose value comes next.
Open(pairs, key) == [k |-> "object", pairs |-> pairs, key |-> key]

OpenObject ==
    /\ stage = "value" /\ At(place, LeftBrace)
    /\ LET i == Skip(place + 1)
           key == ReadKey(i) IN
       IF At(i, RightBrace) THEN Deliver(stack, Object(<<>>), i + 1)
       ELSE IF key.ok THEN Enter(stack, Open(<<>>, key.key), key.next)
       ELSE RefuseText
    /\ UNCHANGED <<tokens, options, written>>

ExpectValue ==
    /\ stage = "value"
    /\ ~(place <= Len(tokens) /\ tokens[place] \in Scalars \cup {"[", LeftBrace})
    /\ RefuseText
    /\ UNCHANGED <<tokens, options, written>>

AttachToNothing ==
    /\ stage = "attach" /\ stack = <<>>
    /\ place' = Skip(place)
    /\ stage' = IF place' = Len(tokens) + 1 THEN "read" ELSE "refused"
    /\ UNCHANGED <<tokens, stack, value, options, written>>

AttachToArray ==
    /\ stage = "attach" /\ stack # <<>> /\ Last(stack).k = "array"
    /\ LET items == Append(Last(stack).items, value)
           i == Skip(place)
           next == Skip(i + 1) IN
       IF At(i, "]") THEN Deliver(Front(stack), Array(items), i + 1)
       ELSE IF At(i, Comma) /\ ~At(next, "]") THEN Enter(Front(stack), Array(items), next)
       ELSE RefuseText
    /\ UNCHANGED <<tokens, options, written>>

AttachToObject ==
    /\ stage = "attach" /\ stack # <<>> /\ Last(stack).k = "object"
    /\ LET pairs == Append(Last(stack).pairs, Pair(Last(stack).key, value))
           i == Skip(place)
           next == Skip(i + 1)
           key == ReadKey(next) IN
       IF At(i, RightBrace) THEN Deliver(Front(stack), Object(Dict(pairs)), i + 1)
       ELSE IF At(i, Comma) /\ ~At(next, RightBrace) /\ key.ok
       THEN Enter(Front(stack), Open(pairs, key.key), key.next)
       ELSE RefuseText
    /\ UNCHANGED <<tokens, options, written>>

-----------------------------------------------------------------------------
(* Writing. *)

\* The values whose containers hold values of V.
Holding(V) ==
    [k : {"scalar"}, token : Scalars]
        \cup [k : {"array"}, items : Seq(V)]
        \cup [k : {"object"}, pairs : Seq([key : Range(Keys), value : V])]

\* The values that nest at most n containers in each other.
Json[n \in Nat] == Holding(IF n = 0 THEN {} ELSE Json[n - 1])

\* The n-th number of a set, and its numbers in order.
Nth(S, n) == CHOOSE i \in S : Cardinality({j \in S : j <= i}) = n
Ascending(S) == [n \in 1..Cardinality(S) |-> Nth(S, n)]

Rank(key) == CHOOSE i \in DOMAIN Keys : Keys[i] = key
InOrder(pairs, o) ==
    IF ~o.sorted THEN pairs
    ELSE LET Ranked(r) == CHOOSE p \in Range(pairs) : Rank(p.key) = r
             ranks == Ascending({Rank(p.key) : p \in Range(pairs)}) IN
         [n \in DOMAIN ranks |-> Ranked(ranks[n])]

\* With an indent there is a line break around every item, and a bare comma.
Break(o) == IF o.indent THEN <<Space>> ELSE <<>>
Separator(o) == IF o.indent THEN <<Comma>> ELSE <<Comma, Space>>
Bracketed(open, parts, close, o) ==
    IF parts = <<>> THEN <<open, close>>
    ELSE LET Item(i) == (IF i > 1 THEN Separator(o) ELSE <<>>) \o Break(o) \o parts[i] IN
         <<open>> \o FlattenSeq([i \in DOMAIN parts |-> Item(i)]) \o Break(o) \o <<close>>

Options == [indent : BOOLEAN, sorted : BOOLEAN]

\* What is written of the values of V, by what is written of the values they hold.
DumpInto(V, inner) ==
    [o \in Options |-> [v \in V |->
        CASE v.k = "scalar" -> <<v.token>>
          [] v.k = "array" ->
               Bracketed("[", [i \in DOMAIN v.items |-> inner[o][v.items[i]]], "]", o)
          [] v.k = "object" ->
               LET pairs == InOrder(v.pairs, o) IN
               Bracketed(LeftBrace, [i \in DOMAIN pairs |->
                   <<pairs[i].key, ":", Space>> \o inner[o][pairs[i].value]], RightBrace, o)]]
Dumps[n \in Nat] == DumpInto(Json[n], IF n = 0 THEN <<>> ELSE Dumps[n - 1])

Write ==
    /\ stage = "read"
    /\ options' \in Options
    /\ stage' = "written" /\ written' = Dumps[Len(tokens)][options'][value]
    /\ UNCHANGED <<tokens, place, stack, value>>

DocumentNext ==
    \/ ReadScalar \/ OpenArray \/ OpenObject \/ ExpectValue
    \/ AttachToNothing \/ AttachToArray \/ AttachToObject
    \/ Write

DocumentSpec == DocumentInit /\ [][DocumentNext]_documentVars

-----------------------------------------------------------------------------
(* What a text means, by the grammar: the values it denotes, blanks aside.  *)
(* Nothing here is shared with the reader.                                  *)

Compact(s) ==
    LET solid == Ascending({i \in DOMAIN s : s[i] # Space}) IN
    [n \in DOMAIN solid |-> s[solid[n]]]

\* One pair for every key: where it is first, with what it has last.
Merged(pairs) ==
    LET SameKey(i) == {j \in DOMAIN pairs : pairs[j].key = pairs[i].key}
        firsts == Ascending({i \in DOMAIN pairs : i = Min(SameKey(i))}) IN
    [n \in DOMAIN firsts |-> pairs[Max(SameKey(firsts[n]))]]

\* By the meanings of shorter texts: what a text denotes as one item of an
\* array or one member of an object, as several that commas separate, as a value.
Elements(g, s, of) ==
    IF of = "items" THEN g[<<s, "value">>]
    ELSE IF Len(s) > 2 /\ s[1] \in Range(Keys) /\ s[2] = ":"
    THEN {Pair(s[1], v) : v \in g[<<SubSeq(s, 3, Len(s)), "value">>]}
    ELSE {}
Lists(g, s, of) ==
    {<<e>> : e \in Elements(g, s, of)}
    \cup UNION {{<<e>> \o rest : e \in Elements(g, SubSeq(s, 1, i - 1), of),
                                 rest \in g[<<SubSeq(s, i + 1, Len(s)), of>>]} :
                  i \in {i \in DOMAIN s : s[i] = Comma}}
Denoted(g, s) ==
    CASE Len(s) = 1 -> {Scalar(t) : t \in Scalars \cap {s[1]}}
      [] s = <<"[", "]">> -> {Array(<<>>)}
      [] s = <<LeftBrace, RightBrace>> -> {Object(<<>>)}
      [] Len(s) > 2 /\ s[1] = "[" /\ s[Len(s)] = "]" ->
           {Array(items) : items \in g[<<SubSeq(s, 2, Len(s) - 1), "items">>]}
      [] Len(s) > 2 /\ s[1] = LeftBrace /\ s[Len(s)] = RightBrace ->
           {Object(Merged(pairs)) : pairs \in g[<<SubSeq(s, 2, Len(s) - 1), "members">>]}
      [] OTHER -> {}

Phrases == Seq(Tokens) \X {"value", "items", "members"}
Meaning[phrase \in Phrases] ==
    IF phrase[2] = "value" THEN Denoted(Meaning, phrase[1])
    ELSE Lists(Meaning, phrase[1], phrase[2])
Values(s) == Meaning[<<Compact(s), "value">>]

\* Python's ==, for which the order of an object's keys is nothing, among the
\* values of V, by what is equal among the values they hold.
Equal(V, inner) ==
    [a \in V |-> [b \in V |->
        /\ a.k = b.k
        /\ CASE a.k = "scalar" -> a.token = b.token
             [] a.k = "array" ->
                  /\ Len(a.items) = Len(b.items)
                  /\ \A i \in DOMAIN a.items : inner[a.items[i]][b.items[i]]
             [] a.k = "object" ->
                  /\ Len(a.pairs) = Len(b.pairs)
                  /\ \A i \in DOMAIN a.pairs : \E j \in DOMAIN b.pairs :
                        /\ a.pairs[i].key = b.pairs[j].key
                        /\ inner[a.pairs[i].value][b.pairs[j].value]]]
PyEq[n \in Nat] == Equal(Json[n], IF n = 0 THEN <<>> ELSE PyEq[n - 1])

(* loads gives exactly the value that the grammar gives a text, and refuses  *)
(* exactly the texts the grammar gives none: whatever the stack was when a   *)
(* container closed, a comma trailed or a key came twice.                    *)
ReadsTheGrammar ==
    /\ stage = "read" => Values(tokens) = {value}
    /\ stage = "refused" => Values(tokens) = {}

(* What the writer writes denotes the value that was read, with every key in *)
(* its place unless the keys were sorted: the files written with one set of  *)
(* options and read back before they are believed lose nothing on the way.   *)
WrittenReadsBack ==
    stage = "written" =>
        LET Same(a, b) == PyEq[Len(tokens)][a][b]
            back == Values(written) IN
        /\ back # {}
        /\ \A v \in back : Same(v, value) /\ Same(value, v) /\ (options.sorted \/ v = value)

DocumentAssumption ==
    /\ Keys \in Seq(Range(Keys)) /\ \A i, j \in DOMAIN Keys : Keys[i] = Keys[j] => i = j
    /\ Range(Keys) \cap {"0", "[", "]", LeftBrace, RightBrace, Comma, ":", Space} = {}
    /\ Documents \subseteq Seq(Tokens)

(* A JSON text is read as the grammar says, token by token and character by  *)
(* character, and what is written of a value or of a string reads back.      *)
JsonIsReadExactly ==
    ReadsTheGrammar /\ WrittenReadsBack /\ NumbersAreLongest /\ StringsReadBack

=============================================================================
