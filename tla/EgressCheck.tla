---------------------------- MODULE EgressCheck -----------------------------
(***************************************************************************)
(* src/egress.rs, check_candidate, and the verdict of check-egress on it:   *)
(* the files below the supplied paths are collected, the excluded ones set  *)
(* aside, and every other one read and scanned line by line.  Nothing was   *)
(* checked unless everything was; what was left out is said.                *)
(***************************************************************************)
EXTENDS Naturals, Sequences, SequencesExt, FiniteSets

CONSTANTS
    Files,       \* paths of files
    Under,       \* what every directory holds, by its path
    Links,       \* the paths that are symbolic links
    TextFiles,   \* the files whose suffix is one of SUFFIXES
    Matches,     \* the paths every pattern of --exclude matches
    Candidates,  \* what the files may hold: lines, or Undecodable
    Undecodable,
    TermsFiles,  \* what the terms file may hold, line by line
    Requests,    \* the paths that may be asked for together
    MaxFaults    \* bound: reads that fail

Directories == DOMAIN Under

\* A line of a candidate: the terms it contains, whether a structural pattern
\* matches it, and whether the reserved namespace is in it.
Line(terms, pattern, marker) == [terms |-> terms, pattern |-> pattern, marker |-> marker]

\* A line of the terms file that lists no term.
Blank   == "blank"
Comment == "comment"

VARIABLES
    content,    \* what every file holds
    request,    \* the arguments of the command
    termsFile,  \* what the terms file holds
    phase,      \* "terms", "walk", "split", "scan", "done" or "error"
    terms,      \* the terms, each with its line
    queue,      \* supplied paths and directories not visited yet
    found,      \* files collected
    scanning,   \* files to scan, in order
    checked,    \* findings, files not scanned, files excluded
    faults

vars == <<content, request, termsFile, phase, terms, queue, found, scanning, checked, faults>>

Init ==
    /\ content \in Candidates
    /\ request \in [paths : Requests, exclude : SUBSET DOMAIN Matches, terms : BOOLEAN,
                    structural : BOOLEAN, unscanned : BOOLEAN]
    /\ termsFile \in TermsFiles
    /\ phase = "terms" /\ terms = {}
    /\ queue = request.paths /\ found = {} /\ scanning = <<>>
    /\ checked = [findings |-> {}, unscanned |-> {}, excluded |-> {}]
    /\ faults = 0

Error == phase' = "error"
Asked == <<content, request, termsFile>>

-----------------------------------------------------------------------------

\* load_terms, or --no-terms.
LoadTerms ==
    /\ phase = "terms"
    /\ terms' = IF ~request.terms THEN {}
                ELSE {[line |-> i, text |-> termsFile[i]] :
                        i \in {i \in DOMAIN termsFile : termsFile[i] \notin {Blank, Comment}}}
    /\ IF request.terms /\ terms' = {} THEN Error ELSE phase' = "walk"
    /\ UNCHANGED <<queue, found, scanning, checked, faults>> /\ UNCHANGED Asked

\* Mutant: no link is followed, to a directory or to a file.
VisitNoLinks ==
    /\ phase = "walk"
    /\ \E path \in queue :
        IF path \in Files
        THEN found' = found \cup {path} /\ queue' = queue \ {path}
        ELSE /\ found' = found \cup ((Under[path] \cap Files) \ Links)
             /\ queue' = (queue \ {path}) \cup ((Under[path] \cap Directories) \ Links)
    /\ UNCHANGED <<phase, terms, scanning, checked, faults>> /\ UNCHANGED Asked

\* candidate_files, one path: a link to a directory is followed only when it
\* was supplied, a link to a file always.
Visit ==
    /\ phase = "walk"
    /\ \E path \in queue :
        IF path \in Files
        THEN found' = found \cup {path} /\ queue' = queue \ {path}
        ELSE /\ found' = found \cup (Under[path] \cap Files)
             /\ queue' = (queue \ {path}) \cup ((Under[path] \cap Directories) \ Links)
    /\ UNCHANGED <<phase, terms, scanning, checked, faults>> /\ UNCHANGED Asked

Excluded == {f \in found : \E p \in request.exclude : f \in Matches[p]}
Unused   == {p \in request.exclude : Matches[p] \cap found = {}}

\* partition_excluded: a pattern that matches nothing is a mistake.
Split ==
    /\ phase = "walk" /\ queue = {}
    /\ IF Unused # {} THEN Error /\ UNCHANGED <<scanning, checked>>
       ELSE /\ phase' = "scan"
            /\ scanning' = SetToSeq(found \ Excluded)
            /\ checked' = [checked EXCEPT !.excluded = Excluded]
    /\ UNCHANGED <<terms, queue, found, faults>> /\ UNCHANGED Asked

Finding(layer, path, line) == [layer |-> layer, path |-> path, line |-> line]

\* scan_text, one line: every layer has its say.
Findings(path, i) ==
    LET line == content[path][i] IN
    {Finding("A", path, i) : t \in {t \in terms : t.text \in line.terms}}
        \cup {Finding("B", path, i) : on \in {TRUE} \cap {line.pattern}}
        \cup {Finding("C", path, i) : on \in {TRUE} \cap {line.marker}}

Scan ==
    /\ phase = "scan" /\ scanning # <<>>
    /\ LET path == Head(scanning) IN
       checked' = IF path \in TextFiles /\ content[path] # Undecodable
                  THEN [checked EXCEPT !.findings =
                          @ \cup UNION {Findings(path, i) : i \in DOMAIN content[path]}]
                  ELSE [checked EXCEPT !.unscanned = @ \cup {path}]
    /\ scanning' = Tail(scanning)
    /\ UNCHANGED <<phase, terms, queue, found, faults>> /\ UNCHANGED Asked

Finish ==
    /\ phase = "scan" /\ scanning = <<>>
    /\ phase' = "done"
    /\ UNCHANGED <<terms, queue, found, scanning, checked, faults>> /\ UNCHANGED Asked

\* The terms file, a supplied path, a directory or a file cannot be read.
ReadFails ==
    /\ faults < MaxFaults
    /\ \/ phase = "terms" /\ request.terms
       \/ phase = "walk" /\ queue # {}
       \/ phase = "scan" /\ scanning # <<>> /\ Head(scanning) \in TextFiles
    /\ Error /\ faults' = faults + 1
    /\ UNCHANGED <<terms, queue, found, scanning, checked>> /\ UNCHANGED Asked

Next == LoadTerms \/ Visit \/ Split \/ Scan \/ Finish \/ ReadFails

Spec == Init /\ [][Next]_vars

\* A finding that was not waved through, or a file that was not scanned.
Objections ==
    \/ \E f \in checked.findings : f.layer # "B" \/ ~request.structural
    \/ checked.unscanned # {} /\ ~request.unscanned

\* The status of check-egress.
Status == IF phase = "error" THEN 2 ELSE IF Objections THEN 1 ELSE 0

-----------------------------------------------------------------------------

\* A set of paths that has what was asked for and, with a directory, what is
\* under it; a link to a directory leads nowhere, unless it was asked for.
IsWhole(S) ==
    /\ request.paths \subseteq S
    /\ \A d \in S \cap Directories : \A x \in Under[d] : x \in Files \/ x \notin Links => x \in S

\* What a reader of the command line expects to be published.
Candidate ==
    LET wholes == {S \in SUBSET (Files \cup Directories) : IsWhole(S)} IN
    {f \in Files : \A S \in wholes : f \in S}

Offends(line) ==
    \/ line.marker
    \/ line.pattern /\ ~request.structural
    \/ request.terms /\ \E i \in DOMAIN termsFile : termsFile[i] \in line.terms

(* A candidate is cleared (status 0) only when every file of it was read and *)
(* has no line that offends, or was excluded by name and is listed so, or is *)
(* listed as not scanned and was waved through; with --terms there were some *)
(* and every pattern of --exclude hit something.                             *)
ClearedIsScanned ==
    phase = "done" /\ Status = 0 =>
        /\ \A f \in Candidate :
            \/ f \in checked.excluded /\ \E p \in request.exclude : f \in Matches[p]
            \/ f \in checked.unscanned /\ request.unscanned
            \/ /\ content[f] # Undecodable
               /\ \A i \in DOMAIN content[f] : ~Offends(content[f][i])
        /\ request.terms => terms # {}
        /\ \A p \in request.exclude : Matches[p] \cap Candidate # {}

-----------------------------------------------------------------------------
(* What the proofs assume of the constants, and what they rest on.           *)

\* A path is a file's or a directory's; a term is a text, and so no blank line
\* and no comment.
EgressAssumption ==
    /\ IsFiniteSet(Files) /\ Files \cap Directories = {}
    /\ Requests \subseteq SUBSET (Files \cup Directories)
    /\ \A d \in Directories : Under[d] \subseteq Files \cup Directories
    /\ \A c \in Candidates : \A f \in Files : c[f] # Undecodable =>
           \A i \in DOMAIN c[f] :
               /\ c[f][i].pattern \in BOOLEAN /\ c[f][i].marker \in BOOLEAN
               /\ c[f][i].terms \cap {Blank, Comment} = {}

Request ==
    [paths : Requests, exclude : SUBSET DOMAIN Matches, terms : BOOLEAN,
     structural : BOOLEAN, unscanned : BOOLEAN]

Listed ==
    IF ~request.terms THEN {}
    ELSE {[line |-> i, text |-> termsFile[i]] :
            i \in {i \in DOMAIN termsFile : termsFile[i] \notin {Blank, Comment}}}

AskedInv ==
    /\ content \in Candidates /\ request \in Request
    /\ phase \in {"terms", "walk", "scan", "done", "error"}
    /\ phase \in {"walk", "scan", "done"} => terms = Listed /\ (request.terms => terms # {})

\* The directories that were visited; what is under them was found or waits.
IsVisited(V) ==
    /\ request.paths \subseteq V \cup queue \cup found
    /\ \A d \in V : \A x \in Under[d] : x \in Files \/ x \notin Links => x \in V \cup queue \cup found

WalkInv ==
    /\ found \subseteq Files /\ queue \subseteq Files \cup Directories
    /\ \A S \in SUBSET (Files \cup Directories) : IsWhole(S) => queue \cup found \subseteq S
    /\ \E V \in SUBSET Directories : IsVisited(V)

IsRead(f) ==
    /\ content[f] # Undecodable
    /\ \A i \in DOMAIN content[f] : Findings(f, i) \subseteq checked.findings

ScanInv ==
    /\ checked = [findings |-> checked.findings, unscanned |-> checked.unscanned,
                  excluded |-> checked.excluded]
    /\ scanning \in Seq(Files)
    /\ phase \in {"scan", "done"} =>
           /\ queue = {} /\ Unused = {} /\ checked.excluded = Excluded
           /\ \A f \in found \ Excluded :
                  f \in Range(scanning) \cup checked.unscanned \/ IsRead(f)
    /\ phase = "done" => scanning = <<>>

IInv == AskedInv /\ WalkInv /\ ScanInv

=============================================================================
