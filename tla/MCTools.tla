------------------------------- MODULE MCTools -------------------------------
(***************************************************************************)
(* Small instances of the machines of Tools, and of the two readers of JSON, *)
(* which share the run.                                                     *)
(***************************************************************************)
EXTENDS Tools, JsonDocument, TLC

\* Within either set the members are interchangeable.
Symmetry == Permutations(PullRequests) \cup Permutations(PullRequestHeads)

-----------------------------------------------------------------------------
(* ReleaseCandidate: two attempts of one run, another commit, another        *)
(* version, and a context whose tag is not its version's.                    *)

FirstContext ==
    [stem |-> "pkg", version |-> "1.0.0", tag |-> [prefix |-> "", version |-> "1.0.0"],
     repository |-> "me/pkg", commit |-> "c1", policy |-> "p1", run |-> 1, attempt |-> 1]

MCCandidateContexts ==
    {FirstContext, [FirstContext EXCEPT !.attempt = 2], [FirstContext EXCEPT !.commit = "c2"],
     [FirstContext EXCEPT !.version = "1.0.1", !.tag.version = "1.0.1"],
     [FirstContext EXCEPT !.version = "1.0.1"]}

MCCandidatePatterns ==
    [stem |-> {"pkg"}, version |-> {"1.0.0", "1.0.1"}, prefix |-> {"lib"},
     repository |-> {"me/pkg"}, sha |-> {"c1", "c2", "p1"}]

\* The wheel depends on the commit and the attempt, the rest on neither.
MCCandidateFiles ==
    [ctx \in MCCandidateContexts |->
        [k \in {"wheel", "sdist", "sbom"} |->
            [id   |-> IF k = "wheel" THEN <<k, ctx.commit, ctx.attempt>> ELSE <<k>>,
             size |-> IF k = "sbom" THEN 2 ELSE 1]]]

-----------------------------------------------------------------------------
(* ArchiveBuild: c2 has turned lib/a into a symbolic link.                   *)

MCArchiveCommits == {"c1", "c2"}
MCArchiveSources == {<<>>, <<"lib">>, <<"lib", "a">>}
MCArchiveEntries ==
    [c \in MCArchiveCommits |->
        [d \in {<<"lib">>, <<"lib", "a">>} |->
            IF c = "c2" /\ d = <<"lib", "a">> THEN "link" ELSE "tree"]]
MCArchiveTracked == [c \in MCArchiveCommits |-> {<<"lib">>, <<"lib", "a">>}]

PlainPlace == [traverses |-> FALSE, linked |-> FALSE, relative |-> TRUE, inside |-> TRUE]
MCArchivePlaces == [dist |-> PlainPlace, out |-> [PlainPlace EXCEPT !.inside = FALSE]]

-----------------------------------------------------------------------------
(* PinFamilies: two families that share an action, a script and a module.    *)

MCPinEntry == [archive |-> "a.yml", python |-> "p.yml"]
MCPinScript == [gates |-> "gates.sh", tags |-> "tags.py"]
MCPinUnder == [act |-> {"action.yml"}]
MCPinPython == {"tags.py"}

Source(version, workflows, actions, names, imports) ==
    [version |-> version, workflows |-> workflows, actions |-> actions,
     names |-> names, imports |-> imports]

\* Every path is absent, or holds one of two texts.
TextsOf(path) ==
    CASE path = "a.yml"      -> {Source(1, {}, {"act"}, {}, {}), Source(1, {"p.yml"}, {}, {}, {})}
      [] path = "p.yml"      -> {Source(1, {}, {}, {"gates"}, {}), Source(1, {"a.yml"}, {}, {"gates"}, {})}
      [] path = "action.yml" -> {Source(1, {}, {}, {"tags"}, {}), Source(1, {}, {}, {}, {"tags"})}
      [] path = "gates.sh"   -> {Source(1, {}, {}, {"tags"}, {}), Source(2, {}, {}, {"gates"}, {})}
      [] path = "tags.py"    -> {Source(1, {}, {}, {}, {"tags"}), Source(2, {}, {}, {"gates"}, {})}

Paths == {"a.yml", "p.yml", "action.yml", "gates.sh", "tags.py"}
SourceTrees ==
    UNION {{t \in [ps -> UNION {TextsOf(p) : p \in ps}] : \A p \in ps : t[p] \in TextsOf(p)} :
              ps \in SUBSET Paths}

\* A workflow, a script and a module turn up between the two, or were there.
MCTreesBefore == {t \in SourceTrees : "action.yml" \in DOMAIN t}
MCTreesAfter  == {t \in MCTreesBefore : {"p.yml", "gates.sh", "tags.py"} \subseteq DOMAIN t}

-----------------------------------------------------------------------------
(* EgressCheck: a directory with a file, a link to a file, a directory with  *)
(* a file whose suffix is no text's, and a link to a directory, which may be *)
(* supplied.                                                                 *)

MCEgressUnder ==
    ("top" :> {"a.md", "link.md", "in", "loop"}) @@ ("in" :> {"b.bin"}) @@ ("loop" :> {"c.md"})
MCEgressLinks == {"link.md", "loop"}
MCEgressTexts == {"a.md", "link.md", "c.md"}
MCEgressFiles == MCEgressTexts \cup {"b.bin"}
MCEgressMatches == [md |-> MCEgressTexts, link |-> {"link.md"}, bin |-> {"b.bin"}]
MCEgressRequests == {{"top"}, {"in", "loop"}, {"top", "loop"}, {"a.md", "in"}}

EgressLine(has, pattern, marker) == [terms |-> has, pattern |-> pattern, marker |-> marker]
Clean == EgressLine({}, FALSE, FALSE)
OneTerm == EgressLine({"one"}, FALSE, FALSE)
Shape == EgressLine({}, TRUE, FALSE)

MCEgressCandidates ==
    {("a.md" :> a) @@ ("link.md" :> l) @@ ("b.bin" :> <<OneTerm>>) @@ ("c.md" :> c) :
        a \in {Undecodable, <<>>, <<Clean, OneTerm>>, <<Shape, Clean>>,
                <<EgressLine({"one", "two"}, TRUE, TRUE)>>},
        l \in {Undecodable, <<Clean>>, <<OneTerm, Shape>>},
        c \in {<<Clean, Clean>>, <<EgressLine({"two"}, FALSE, FALSE)>>}}

MCEgressTerms == {<<"comment", "blank">>, <<"two">>, <<"comment", "one", "two">>}

-----------------------------------------------------------------------------
(* CommandLine: every command with its options and outcomes; most counts     *)
(* stop at one.                                                              *)

MCLineCalls ==
    [command : {"check-egress"}, terms : BOOLEAN, noTerms : BOOLEAN, failed : BOOLEAN,
     excluded : {0, 1}, unscanned : 0 .. 1, structural : 0 .. 1, other : 0 .. 1,
     allowStructural : BOOLEAN, allowUnscanned : BOOLEAN]
    \cup
    [command : {"required-checks"}, arguments : BOOLEAN, list : {"checks", "empty", "malformed"},
     failing : BOOLEAN, passed : 0 .. 2, pending : 0 .. 1, failed : 0 .. 1]
    \cup [command : {"attribution-status"}, identity : BOOLEAN, result : {"clean", "dirty", "error"}]
    \cup [command : {"check-reviews", "verify-skills"}, ok : BOOLEAN]
    \cup
    [command : {"check-canaries"}, manifest : BOOLEAN, live : BOOLEAN, failing : BOOLEAN,
     errors : 0 .. 1, warnings : 0 .. 1, current : BOOLEAN]
    \cup [command : {"python-release"}, ok : BOOLEAN, prints : 0 .. 1]
    \cup [command : {"pin-families"}, two : BOOLEAN, ok : BOOLEAN, families : {3}]
    \cup [command : {"usage"}, help : BOOLEAN]
    \cup [command : {"panic"}]

-----------------------------------------------------------------------------
(* JsonDocument: every short text, and every text one token away from a few  *)
(* long ones.  JsonScalars: every short text, and what is one character away *)
(* from some with escapes.                                                   *)

DocumentKeys == <<"a", "b">>
ShortTokens == {"{", "}", "[", "]", ",", ":", "a", "0", " "}
LongDocuments == {
    <<"{", "b", ":", "0", ",", "a", ":", "[", "0", "]", ",", "b", ":", "a", "}">>,
    <<"[", "{", "a", ":", "{", "}", "}", ",", "[", "]", ",", " ", "b", "]">>,
    <<"{", "a", ":", "0", ",", " ", "a", ":", "b", ",", "b", ":", "0", "}">> }
Edits(s, characters) ==
    {s} \cup {RemoveAt(s, i) : i \in DOMAIN s}
        \cup {ReplaceAt(s, i, t) : i \in DOMAIN s, t \in characters}
        \cup {InsertAt(s, i, t) : i \in DOMAIN s, t \in characters}
Upto(length, characters) == UNION {[1..n -> characters] : n \in 0..length}
DocumentTexts == Upto(5, ShortTokens) \cup UNION {Edits(s, ShortTokens) : s \in LongDocuments}

NumberCharacters == {"-", "+", "0", "1", ".", "e", "x"}
ScalarNumbers ==
    (Upto(5, NumberCharacters) \ {<<>>})
        \cup {<<"-", "1", "0", ".", "0", "1", "e", "-", "1", "0", "x">>, <<"1", "0", "1", "0", "1">>}
StringCharacters == {"quote", "backslash", "n", "u", "newline", "control", "z", "astral",
                     "007a", "0001", "d83d", "de00"}
ScalarCharacters == StringCharacters \cup NumberCharacters
Escaped == {
    <<"z", "backslash", "u", "d83d", "backslash", "u", "de00", "n", "quote">>,
    <<"backslash", "u", "007a", "astral", "backslash", "quote", "quote", "n">> }
ScalarStrings == Upto(4, StringCharacters) \cup UNION {Edits(s, StringCharacters) : s \in Escaped}

-----------------------------------------------------------------------------
(* ReceiptJournal: three calls; a bill may exceed what its call reserved,    *)
(* and what the earlier ones left.                                           *)

MCReserved == <<2, 1, 1>>

-----------------------------------------------------------------------------
(* PrCapture: two files at the merge base, a third that may be added; no     *)
(* push brings a head back (the run capture_return lets one do so).          *)

MCCapturePaths == 1 .. 3
MCCaptureBefore == <<"x", "x", "absent">>

-----------------------------------------------------------------------------

ASSUME DocumentInstance == DocumentAssumption
ASSUME ScalarInstance == ScalarAssumption

DocumentOff ==
    /\ tokens = Off /\ place = Off /\ stack = Off /\ value = Off /\ stage = Off
    /\ options = Off /\ written = Off
ScalarOff == kind = Off /\ text = Off /\ idx = Off /\ scalarAt = Off /\ out = Off

\* Entries are interchangeable, so they are numbered in the order in which they
\* turn up, beginning with those that are there at first.
Numbered == listing = [k \in DOMAIN listing |-> k]
InTurn == \A id \in Entries(listing') \ Entries(listing) : \A other \in 1 .. id - 1 :
              other \in Entries(listing) \cup gone

\* Runs of the repin workflow leave the idle state in their order, as it does
\* not matter which one is which.
Started(steps) == {r \in DOMAIN steps : steps[r] # "idle"}
RunsInTurn == Started(repinAt') = 1 .. Cardinality(Started(repinAt'))

\* One thing happens beside the events: the base moves, or a call fails.
OneMishap == baseMoves' + faults' <= 1

\* A step fails, or main is rewritten, so that commits are left behind.
FailsOrRewrites == failures' = 0 \/ DOMAIN commits' \subseteq commits'[main'].past

\* Generation identifiers are numbered in the order in which they are accepted.
IdsInTurn ==
    answer' # None /\ answer'.readable => answer'.id \in ids \cup {None, Cardinality(ids) + 1}

Begin ==
    \/ ToolInit /\ DocumentOff /\ ScalarOff /\ (tool = "Listing" => Numbered)
    \/ ToolsOff /\ tool = "Document" /\ DocumentInit /\ ScalarOff
    \/ ToolsOff /\ tool = "Scalar" /\ ScalarInit /\ DocumentOff

Step ==
    \/ /\ ToolStep
       /\ tool = "Listing" => InTurn
       /\ tool = "Attribution" => OneMishap
       /\ tool = "Repin" => RunsInTurn /\ FailsOrRewrites
       /\ tool = "Receipts" => IdsInTurn
       /\ UNCHANGED <<documentVars, scalarVars>>
    \/ tool = "Document" /\ DocumentNext /\ UNCHANGED <<toolVars, scalarVars>>
    \/ tool = "Scalar" /\ ScalarNext /\ UNCHANGED <<toolVars, documentVars>>

Explored == Begin /\ [][Step]_<<toolVars, documentVars, scalarVars>>

=============================================================================
