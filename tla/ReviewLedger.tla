--------------------------- MODULE ReviewLedger ---------------------------
(***************************************************************************)
(* The review ledger of a consumer repository (src/check_reviews.rs):      *)
(* reviews/index.json, the verdict files it lists, and the register of     *)
(* known unknowns, over a history of main.  A pull request changes the     *)
(* three documents at will; check_consumer judges its checkout, with main  *)
(* as --base, and what it accepts is merged, be it later than that: git    *)
(* then joins the changes of both sides.                                   *)
(*                                                                         *)
(* A tree is the three documents.  index maps review ids to entries,       *)
(* verdicts maps them to verdict files, register maps known-unknown ids to *)
(* their entries, each with NONE where there is nothing.  That an index is *)
(* canonical JSON, sorted and free of duplicates, is the bit canonical.    *)
(***************************************************************************)
EXTENDS PyDates, Sequences

CONSTANTS
    Ids,        \* review ids, numbered as their strings sort
    BadIds,     \* those whose date prefix is no calendar date
    Unknowns,   \* the ids KU-NNN
    NONE,       \* no entry, no file, no release, no tag
    Entries,    \* what people write into the index,
    Files,      \* into a verdict file,
    Headings,   \* and under a heading of the register
    Trees,      \* the trees a pull request may propose
    Start,      \* the trees main may start from: no review is listed yet
    Commits,    \* the commits of main's history that reviews name
    Tags,       \* its release tags
    Days,       \* texts of the dates of commits
    Pulls,      \* pull requests at work at a time
    MaxMain     \* bound: commits on main

VARIABLES
    main,       \* the commits of main: tree, date, and the date its check went by
    tags,       \* the commit of each tag, or NONE
    accepted    \* what a pull request's check accepted: tree, date, main's length; or NONE

vars == <<main, tags, accepted>>

HEAD == main[Len(main)]

Tree ==
    [canonical : BOOLEAN, index : [Ids -> Entries \cup {NONE}],
     verdicts : [Ids -> Files \cup {NONE}], register : [Unknowns -> Headings \cup {NONE}]]

CommitsOfMain == [tree : Tree, date : Days, checked : Days]

Acceptances == [tree : Trees, checked : Days, at : Nat]

\* A verdict file comes with the entry that lists it, as the documentation asks.  A pull
\* request that edits a file nobody lists yet, beside one that lists it, can be merged into
\* a main whose check then fails; the check of either cannot see the other.
ASSUME TreesAssumption ==
    /\ Trees \subseteq Tree /\ Start \subseteq Tree
    /\ \A tree \in Start : \A id \in Ids : tree.index[id] = NONE
    /\ \A tree \in Trees \cup Start : \A id \in Ids : tree.verdicts[id] # NONE => tree.index[id] # NONE

ASSUME ConstantsAssumption ==
    /\ NONE \notin Acceptances
    /\ MaxMain \in Nat

-----------------------------------------------------------------------------
(* The index *)

\* A date is ten characters that fromisoformat reads.
IsLedgerDate(t) == FromIsoFormat(t) # NoDate /\ Length(t) = 10

\* require_not_after compares the texts.
NotAfter(t, bound) == ~SortsAfter(t, bound)

Listed(tree) == {id \in Ids : tree.index[id] # NONE}

\* The shape of an entry: every field matches its pattern, and the path is the id's.
EntryIsShaped(id, e) ==
    /\ e.shaped
    /\ e.path = id
    /\ id \notin BadIds
    /\ IsLedgerDate(e.date)

\* The bytes are the canonical dump of what they say.
LoadIndexDocument(tree) == tree.canonical

ParseIndex(tree) ==
    /\ LoadIndexDocument(tree)
    /\ \A id \in Listed(tree) :
        LET e == tree.index[id]
        IN  /\ EntryIsShaped(id, e)
            /\ e.supersedes # NONE =>
                \E earlier \in Listed(tree) : earlier = e.supersedes /\ earlier < id

\* The subject is in the history that was checked out, and its release tag is on it.
RequireSubjectCommit(e) ==
    /\ e.commit \in Commits
    /\ e.release # NONE => tags[e.release] = e.commit

-----------------------------------------------------------------------------
(* A verdict file *)

\* Line endings do not count; a byte order mark or a lone return is refused.
CanonicalText(file) == IF file.ending \in {"lf", "crlf"} THEN file.text ELSE NONE

SectionsOf(verdict) ==
    {"Subject", "Headline", "Citations", "Findings", "Questions", "Method", "Attestation"}
        \cup IF verdict = "FIX" THEN {"Changes"} ELSE {}

\* The Subject table repeats the entry.
CheckSubject(text, e) ==
    text.subject = [commit |-> e.commit, release |-> e.release, relationship |-> e.relationship,
                    verdict |-> e.verdict, date |-> e.date]

CheckHeadline(text, e) ==
    /\ text.opens = e.verdict
    /\ e.relationship = "author" => text.selfReview

CheckCitations(text) ==
    /\ text.citations # {}
    /\ \A row \in text.citations : row.correct \/ row.corrected

CheckFindings(text, e) ==
    /\ e.verdict = "REJECT" => "CRITICAL" \in text.findings
    /\ e.verdict = "ACCEPT" => "CRITICAL" \notin text.findings

CheckAttestation(text, e) == text.attested /\ text.signed = e.date

\* The verdict file of a listed review is the listed one and agrees with its entry.
CheckVerdict(tree, id) ==
    LET e == tree.index[id]
        text == CanonicalText(tree.verdicts[id])
    IN  /\ tree.verdicts[id] # NONE
        /\ text # NONE
        /\ e.sha256 = text
        /\ text.title = id
        /\ text.sections = SectionsOf(e.verdict)
        /\ CheckSubject(text, e)
        /\ CheckHeadline(text, e)
        /\ CheckCitations(text)
        /\ CheckFindings(text, e)
        /\ e.verdict = "FIX" => text.changes
        /\ CheckAttestation(text, e)

-----------------------------------------------------------------------------
(* The register *)

Registered(tree) == {k \in Unknowns : tree.register[k] # NONE}

IsOpen(ku) == ku.status.on = NONE

CheckKnownUnknowns(tree, bound) ==
    \A k \in Registered(tree) :
        LET ku == tree.register[k]
        IN  /\ IsLedgerDate(ku.raised) /\ NotAfter(ku.raised, bound)
            /\ ~IsOpen(ku) =>
                /\ IsLedgerDate(ku.status.on) /\ NotAfter(ku.status.on, bound)
                /\ ku.status.by \in Ids => ku.status.by \in Listed(tree)

\* Every question a listed verdict leaves open is a heading of the register.
QuestionsAreRegistered(tree) ==
    \A id \in Listed(tree) : \A q \in CanonicalText(tree.verdicts[id]).questions :
        \E k \in Registered(tree) : tree.register[k].question = q

-----------------------------------------------------------------------------
(* check_consumer *)

\* check_consumer without --base, on a tree committed at the date bound.
ChecksAlone(tree, bound) ==
    /\ ParseIndex(tree)
    /\ \A id \in Listed(tree) :
        /\ NotAfter(tree.index[id].date, bound)
        /\ CheckVerdict(tree, id)
        /\ RequireSubjectCommit(tree.index[id])
    /\ CheckKnownUnknowns(tree, bound)
    /\ QuestionsAreRegistered(tree)

\* What of a known unknown may not change.
Fixed(ku) == [question |-> ku.question, raised |-> ku.raised, text |-> ku.text]

\* Mutant: a status that differs is a status that moved on.
AppendOnlyAnyStatus(base, tree) ==
    /\ \A id \in Listed(base) : tree.index[id] = base.index[id]
    /\ \A k \in Registered(base) :
        /\ tree.register[k] # NONE
        /\ Fixed(tree.register[k]) = Fixed(base.register[k])

\* Mutant: what the tree still lists is unchanged.
AppendOnlyOfListed(base, tree) ==
    /\ \A id \in Listed(base) \cap Listed(tree) : tree.index[id] = base.index[id]
    /\ \A k \in Registered(base) :
        /\ tree.register[k] # NONE
        /\ Fixed(tree.register[k]) = Fixed(base.register[k])
        /\ tree.register[k].status = base.register[k].status
              \/ (IsOpen(base.register[k]) /\ ~IsOpen(tree.register[k]))

RequireAppendOnly(base, tree) ==
    /\ \A id \in Listed(base) : tree.index[id] = base.index[id]
    /\ \A k \in Registered(base) :
        /\ tree.register[k] # NONE
        /\ Fixed(tree.register[k]) = Fixed(base.register[k])
        /\ tree.register[k].status = base.register[k].status
              \/ (IsOpen(base.register[k]) /\ ~IsOpen(tree.register[k]))

CheckConsumer(base, tree, bound) == ChecksAlone(tree, bound) /\ RequireAppendOnly(base, tree)

-----------------------------------------------------------------------------
(* The history *)

Init ==
    /\ tags = [t \in Tags |-> NONE]
    /\ \E tree \in Start, d \in Days :
        /\ ChecksAlone(tree, d)
        /\ main = <<[tree |-> tree, date |-> d, checked |-> d]>>
    /\ accepted = [p \in Pulls |-> NONE]

\* check_consumer, with main as --base, accepts what was pushed to a pull request.
Accept(p) ==
    /\ Len(main) < MaxMain
    /\ accepted[p] = NONE
    /\ \E tree \in Trees, d \in Days :
        /\ tree # HEAD.tree
        /\ CheckConsumer(HEAD.tree, tree, d)
        /\ accepted' = [accepted EXCEPT ![p] = [tree |-> tree, checked |-> d, at |-> Len(main)]]
    /\ UNCHANGED <<main, tags>>

\* git's three-way merge of one document, by the keys of the document.
Joined(base, mine, theirs) ==
    [k \in DOMAIN base |-> IF mine[k] = base[k] THEN theirs[k] ELSE mine[k]]

Disjoint(base, mine, theirs) ==
    \A k \in DOMAIN base : mine[k] = base[k] \/ theirs[k] = base[k] \/ mine[k] = theirs[k]

JoinedTree(base, mine, theirs) ==
    [canonical |-> mine.canonical /\ theirs.canonical,
     index     |-> Joined(base.index, mine.index, theirs.index),
     verdicts  |-> Joined(base.verdicts, mine.verdicts, theirs.verdicts),
     register  |-> Joined(base.register, mine.register, theirs.register)]

\* An accepted pull request is merged, into whatever main is by then.
Merge(p) ==
    /\ accepted[p] # NONE
    /\ Len(main) < MaxMain
    /\ LET base == main[accepted[p].at].tree
           mine == accepted[p].tree
       IN  /\ Disjoint(base.index, mine.index, HEAD.tree.index)
           /\ Disjoint(base.verdicts, mine.verdicts, HEAD.tree.verdicts)
           /\ Disjoint(base.register, mine.register, HEAD.tree.register)
           /\ \E d \in Days :
                main' = Append(main, [tree |-> JoinedTree(base, mine, HEAD.tree), date |-> d,
                                      checked |-> accepted[p].checked])
    /\ accepted' = [accepted EXCEPT ![p] = NONE]
    /\ UNCHANGED tags

\* Release tags are set, and moved.
SetTag ==
    /\ \E t \in Tags, c \in Commits \cup {NONE} : tags' = [tags EXCEPT ![t] = c]
    /\ UNCHANGED <<main, accepted>>

Next ==
    \/ \E p \in Pulls : Accept(p) \/ Merge(p)
    \/ SetTag

Spec == Init /\ [][Next]_vars

-----------------------------------------------------------------------------
(* Properties *)

\* A listed review is never edited or removed, nor is the text of its verdict file: what one
\* commit of main lists, every later one lists.  Each check compares with one base only
\* (require_append_only_with, check_verdict), and pull requests overlap.
NothingListedChanges ==
    \A i \in 1..Len(main), j \in 1..Len(main) : i <= j =>
        \A id \in Listed(main[i].tree) :
            /\ main[j].tree.index[id] = main[i].tree.index[id]
            /\ CanonicalText(main[j].tree.verdicts[id]) = CanonicalText(main[i].tree.verdicts[id])

\* A known unknown keeps its text for ever, and its status moves once at most, from open to
\* resolved, however many pull requests touch it.
UnknownsOnlyClose ==
    \A i \in 1..Len(main), j \in 1..Len(main) : i <= j =>
        \A k \in Registered(main[i].tree) :
            LET before == main[i].tree.register[k]
                after == main[j].tree.register[k]
            IN  /\ after # NONE
                /\ Fixed(after) = Fixed(before)
                /\ IsOpen(before) \/ after.status = before.status

\* A question that a verdict on main left open is a heading of the register from then on,
\* also when the verdict and a change of the register come from different pull requests.
QuestionsStayRegistered ==
    \A i \in 1..Len(main), j \in 1..Len(main) : i <= j =>
        \A id \in Listed(main[i].tree) :
            \A q \in CanonicalText(main[i].tree.verdicts[id]).questions :
                \E k \in Registered(main[j].tree) : main[j].tree.register[k].question = q

\* The register forgets nothing: neither an unknown nor a question.
UnknownsAreKept == UnknownsOnlyClose /\ QuestionsStayRegistered

\* No review on main is dated after the commit whose check admitted it.
DatesAreNotLater ==
    \A i \in 1..Len(main) : \A id \in Listed(main[i].tree) :
        (i = 1 \/ main[i - 1].tree.index[id] = NONE) =>
            Ordinal(FromIsoFormat(main[i].tree.index[id].date)) <= Ordinal(FromIsoFormat(main[i].checked))
=============================================================================
