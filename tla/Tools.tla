-------------------------------- MODULE Tools --------------------------------
(***************************************************************************)
(* The machines that are small enough to share a run, with the variables    *)
(* and constants that each of them needs.  A process runs one command, and  *)
(* the library parts know nothing of each other, so they are explored one   *)
(* at a time: `tool` names the one that moves.  Listing is extended and     *)
(* keeps its names; the others are instances, whose names are kept where    *)
(* two of them do not share one.                                            *)
(***************************************************************************)
EXTENDS Listing

CONSTANT Off \* what the variables of the machines that stand still hold

CONSTANTS \* of ReleaseCandidate
    CandidateContexts, CandidatePatterns, CandidateFiles,
    MaxAsset, MaxChanges, MaxJobs

CONSTANTS \* of ArchiveBuild
    ArchiveCommits, ArchiveEntries, ArchiveTracked, ArchiveSources, ArchivePlaces,
    MaxBuilds, MaxMoves

CONSTANTS \* of PinFamilies
    PinEntry, PinScript, PinUnder, PinPython, TreesBefore, TreesAfter

CONSTANTS \* of AttributionStatus
    PullRequests, PullRequestHeads, PullRequestTexts, CleanTexts,
    MaxEvents, MaxBaseMoves, MaxFaults

CONSTANTS \* of EgressCheck
    EgressFiles, EgressUnder, EgressLinks, EgressTexts, EgressMatches,
    EgressCandidates, EgressTerms, EgressRequests, MaxReadFaults, Undecodable

CONSTANTS \* of RepinIssue
    RepinRuns, RepinActions, MaxCommits, MaxIssues, MaxFailures, Nothing

CONSTANTS \* of CommandLine
    LineCalls, BufferSize

CONSTANTS \* of PrCapture
    CapturePaths, CaptureContents, CaptureAbsent, CaptureBefore, CaptureHeads,
    FilesPerPage, MaxPages, MaxPushes, ReturnsToHead

CONSTANTS \* of ReceiptJournal
    Reserved, MaxReview, KeyLimits, Bills, GenerationIds, None

VARIABLES \* of ReleaseCandidate
    dir, job, candidateAt, made, changes, jobs

VARIABLES \* of ArchiveBuild
    branch, files, base, source, archiveAt, commit, stamp, before, named, builds, moves

VARIABLES \* of PinFamilies
    oldTree, newTree, family, side, unread, pinned, paths, changed

VARIABLES \* of AttributionStatus
    pr, status, waiting, statusAt, snap, proof, verdict, held, read, events,
    baseMoves, faults, missed

VARIABLES \* of EgressCheck
    content, request, termsFile, phase, terms, queue, found, scanning, checked, readFaults

VARIABLES \* of RepinIssue
    commits, main, repinAt, target, plan, issues, failures

VARIABLES \* of CommandLine
    call, unbuffered, terminal, closed, broken, todo, code, buffer, got, errFailed,
    pending, lineAt, exitStatus

VARIABLES \* of PrCapture
    tree, renames, head, left, pushes, captureAt, minimal, firstHead, count,
    filesPage, listed, frozen, cut

VARIABLES \* of ReceiptJournal
    receiptsAt, ordinal, data, disk, answer, spent, remaining, ids, report, bills,
    lookups

VARIABLE tool \* the machine that moves

-----------------------------------------------------------------------------

Candidate == INSTANCE ReleaseCandidate
    WITH pc <- candidateAt, Contexts <- CandidateContexts,
         WellFormed <- CandidatePatterns, Built <- CandidateFiles
Archives == INSTANCE ArchiveBuild
    WITH pc <- archiveAt, Commits <- ArchiveCommits, EntryOf <- ArchiveEntries,
         Tracked <- ArchiveTracked, Sources <- ArchiveSources, Places <- ArchivePlaces
Pins == INSTANCE PinFamilies
    WITH old <- oldTree, new <- newTree, queue <- unread, found <- pinned,
         Entry <- PinEntry, Script <- PinScript, Under <- PinUnder,
         IsPython <- PinPython, OldTrees <- TreesBefore, NewTrees <- TreesAfter
Attribution == INSTANCE AttributionStatus
    WITH pc <- statusAt, moves <- baseMoves, Numbers <- PullRequests,
         Heads <- PullRequestHeads, Texts <- PullRequestTexts,
         MaxMoves <- MaxBaseMoves
Egress == INSTANCE EgressCheck
    WITH faults <- readFaults, Files <- EgressFiles, Under <- EgressUnder,
         Links <- EgressLinks, TextFiles <- EgressTexts, Matches <- EgressMatches,
         Candidates <- EgressCandidates, TermsFiles <- EgressTerms,
         Requests <- EgressRequests, MaxFaults <- MaxReadFaults
Repin == INSTANCE RepinIssue
    WITH pc <- repinAt, Runs <- RepinRuns, Actions <- RepinActions
Line == INSTANCE CommandLine
    WITH pc <- lineAt, status <- exitStatus, Calls <- LineCalls
Capture == INSTANCE PrCapture
    WITH pc <- captureAt, first <- firstHead, page <- filesPage, files <- listed,
         Paths <- CapturePaths, Before <- CaptureBefore, Contents <- CaptureContents,
         Absent <- CaptureAbsent, Heads <- CaptureHeads, PageSize <- FilesPerPage
Receipts == INSTANCE ReceiptJournal
    WITH pc <- receiptsAt, Ids <- GenerationIds

ASSUME EgressInstance == Egress!EgressAssumption

ASSUME PinInstance == Pins!PinAssumption

ASSUME RepinInstance == Repin!RepinAssumption

ASSUME LineInstance == Line!LineAssumption

ASSUME CaptureInstance == Capture!CaptureAssumption

ASSUME ReceiptInstance == Receipts!ReceiptAssumption

candidateVars == <<dir, job, candidateAt, made, changes, jobs>>
archivesVars ==
    <<branch, files, base, source, archiveAt, commit, stamp, before, named, builds,
      moves>>
pinsVars == <<oldTree, newTree, family, side, unread, pinned, paths, changed>>
attributionVars ==
    <<pr, status, waiting, statusAt, snap, proof, verdict, held, read, events,
      baseMoves, faults, missed>>
egressVars ==
    <<content, request, termsFile, phase, terms, queue, found, scanning, checked,
      readFaults>>
repinVars == <<commits, main, repinAt, target, plan, issues, failures>>
lineVars ==
    <<call, unbuffered, terminal, closed, broken, todo, code, buffer, got, errFailed,
      pending, lineAt, exitStatus>>
captureVars ==
    <<tree, renames, head, left, pushes, captureAt, minimal, firstHead, count,
      filesPage, listed, frozen, cut>>
receiptsVars ==
    <<receiptsAt, ordinal, data, disk, answer, spent, remaining, ids, report, bills,
      lookups>>

ListingOff ==
    /\ listing = Off /\ gone = Off /\ pc = Off /\ try = Off /\ second = Off
    /\ page = Off /\ total = Off /\ seen = Off /\ first = Off /\ snapshot = Off

CandidateOff ==
    dir = Off /\ job = Off /\ candidateAt = Off /\ made = Off /\ changes = Off /\ jobs = Off

ArchivesOff ==
    /\ branch = Off /\ files = Off /\ base = Off /\ source = Off /\ archiveAt = Off
    /\ commit = Off /\ stamp = Off /\ before = Off /\ named = Off /\ builds = Off
    /\ moves = Off

PinsOff ==
    /\ oldTree = Off /\ newTree = Off /\ family = Off /\ side = Off /\ unread = Off
    /\ pinned = Off /\ paths = Off /\ changed = Off

AttributionOff ==
    /\ pr = Off /\ status = Off /\ waiting = Off /\ statusAt = Off /\ snap = Off
    /\ proof = Off /\ verdict = Off /\ held = Off /\ read = Off /\ events = Off
    /\ baseMoves = Off /\ faults = Off /\ missed = Off

EgressOff ==
    /\ content = Off /\ request = Off /\ termsFile = Off /\ phase = Off /\ terms = Off
    /\ queue = Off /\ found = Off /\ scanning = Off /\ checked = Off /\ readFaults = Off

RepinOff ==
    /\ commits = Off /\ main = Off /\ repinAt = Off /\ target = Off /\ plan = Off
    /\ issues = Off /\ failures = Off

LineOff ==
    /\ call = Off /\ unbuffered = Off /\ terminal = Off /\ closed = Off /\ broken = Off
    /\ todo = Off /\ code = Off /\ buffer = Off /\ got = Off /\ errFailed = Off
    /\ pending = Off /\ lineAt = Off /\ exitStatus = Off

CaptureOff ==
    /\ tree = Off /\ renames = Off /\ head = Off /\ left = Off /\ pushes = Off
    /\ captureAt = Off /\ minimal = Off /\ firstHead = Off /\ count = Off
    /\ filesPage = Off /\ listed = Off /\ frozen = Off /\ cut = Off

ReceiptsOff ==
    /\ receiptsAt = Off /\ ordinal = Off /\ data = Off /\ disk = Off /\ answer = Off
    /\ spent = Off /\ remaining = Off /\ ids = Off /\ report = Off /\ bills = Off
    /\ lookups = Off

ToolsOff ==
    /\ ListingOff /\ CandidateOff /\ ArchivesOff /\ PinsOff /\ AttributionOff
    /\ EgressOff /\ RepinOff /\ LineOff /\ CaptureOff /\ ReceiptsOff

ToolInit ==
    \/ /\ tool = "Listing" /\ Init
       /\ CandidateOff /\ ArchivesOff /\ PinsOff /\ AttributionOff /\ EgressOff
       /\ RepinOff /\ LineOff /\ CaptureOff /\ ReceiptsOff
    \/ /\ tool = "Candidate" /\ Candidate!Init
       /\ ListingOff /\ ArchivesOff /\ PinsOff /\ AttributionOff /\ EgressOff
       /\ RepinOff /\ LineOff /\ CaptureOff /\ ReceiptsOff
    \/ /\ tool = "Archives" /\ Archives!Init
       /\ ListingOff /\ CandidateOff /\ PinsOff /\ AttributionOff /\ EgressOff
       /\ RepinOff /\ LineOff /\ CaptureOff /\ ReceiptsOff
    \/ /\ tool = "Pins" /\ Pins!Init
       /\ ListingOff /\ CandidateOff /\ ArchivesOff /\ AttributionOff /\ EgressOff
       /\ RepinOff /\ LineOff /\ CaptureOff /\ ReceiptsOff
    \/ /\ tool = "Attribution" /\ Attribution!Init
       /\ ListingOff /\ CandidateOff /\ ArchivesOff /\ PinsOff /\ EgressOff
       /\ RepinOff /\ LineOff /\ CaptureOff /\ ReceiptsOff
    \/ /\ tool = "Egress" /\ Egress!Init
       /\ ListingOff /\ CandidateOff /\ ArchivesOff /\ PinsOff /\ AttributionOff
       /\ RepinOff /\ LineOff /\ CaptureOff /\ ReceiptsOff
    \/ /\ tool = "Repin" /\ Repin!Init
       /\ ListingOff /\ CandidateOff /\ ArchivesOff /\ PinsOff /\ AttributionOff
       /\ EgressOff /\ LineOff /\ CaptureOff /\ ReceiptsOff
    \/ /\ tool = "Line" /\ Line!Init
       /\ ListingOff /\ CandidateOff /\ ArchivesOff /\ PinsOff /\ AttributionOff
       /\ EgressOff /\ RepinOff /\ CaptureOff /\ ReceiptsOff
    \/ /\ tool = "Capture" /\ Capture!Init
       /\ ListingOff /\ CandidateOff /\ ArchivesOff /\ PinsOff /\ AttributionOff
       /\ EgressOff /\ RepinOff /\ LineOff /\ ReceiptsOff
    \/ /\ tool = "Receipts" /\ Receipts!Init
       /\ ListingOff /\ CandidateOff /\ ArchivesOff /\ PinsOff /\ AttributionOff
       /\ EgressOff /\ RepinOff /\ LineOff /\ CaptureOff

ToolStep ==
    \/ /\ tool = "Listing" /\ Next
       /\ UNCHANGED <<tool, candidateVars, archivesVars, pinsVars, attributionVars,
                      egressVars, repinVars, lineVars, captureVars, receiptsVars>>
    \/ /\ tool = "Candidate" /\ Candidate!Next
       /\ UNCHANGED <<tool, vars, archivesVars, pinsVars, attributionVars,
                      egressVars, repinVars, lineVars, captureVars, receiptsVars>>
    \/ /\ tool = "Archives" /\ Archives!Next
       /\ UNCHANGED <<tool, vars, candidateVars, pinsVars, attributionVars,
                      egressVars, repinVars, lineVars, captureVars, receiptsVars>>
    \/ /\ tool = "Pins" /\ Pins!Next
       /\ UNCHANGED <<tool, vars, candidateVars, archivesVars, attributionVars,
                      egressVars, repinVars, lineVars, captureVars, receiptsVars>>
    \/ /\ tool = "Attribution" /\ Attribution!Next
       /\ UNCHANGED <<tool, vars, candidateVars, archivesVars, pinsVars, egressVars,
                      repinVars, lineVars, captureVars, receiptsVars>>
    \/ /\ tool = "Egress" /\ Egress!Next
       /\ UNCHANGED <<tool, vars, candidateVars, archivesVars, pinsVars,
                      attributionVars, repinVars, lineVars, captureVars,
                      receiptsVars>>
    \/ /\ tool = "Repin" /\ Repin!Next
       /\ UNCHANGED <<tool, vars, candidateVars, archivesVars, pinsVars,
                      attributionVars, egressVars, lineVars, captureVars,
                      receiptsVars>>
    \/ /\ tool = "Line" /\ Line!Next
       /\ UNCHANGED <<tool, vars, candidateVars, archivesVars, pinsVars,
                      attributionVars, egressVars, repinVars, captureVars,
                      receiptsVars>>
    \/ /\ tool = "Capture" /\ Capture!Next
       /\ UNCHANGED <<tool, vars, candidateVars, archivesVars, pinsVars,
                      attributionVars, egressVars, repinVars, lineVars, receiptsVars>>
    \/ /\ tool = "Receipts" /\ Receipts!Next
       /\ UNCHANGED <<tool, vars, candidateVars, archivesVars, pinsVars,
                      attributionVars, egressVars, repinVars, lineVars, captureVars>>

toolVars ==
    <<tool, vars, candidateVars, archivesVars, pinsVars, attributionVars,
      egressVars, repinVars, lineVars, captureVars, receiptsVars>>

ToolSpec == ToolInit /\ [][ToolStep]_toolVars

-----------------------------------------------------------------------------
(* The properties of the modules; ReturnsASnapshot is Listing's own.         *)

\* verify-candidate accepts exactly the candidates that create-candidate
\* completed for the context asked for (release.rs).
VerdictIsExact == tool = "Candidate" => Candidate!VerdictIsExact

\* Two archives of the commit the revision named, or nothing new (archives.rs).
ArchivesAreExact == tool = "Archives" => Archives!ArchivesAreExact

\* Families whose files differ are re-pinned, and no others (pin_families.rs).
VerdictsAreExact == tool = "Pins" => Pins!VerdictsAreExact

\* The status of a commit of one pull request is true once its runs are over,
\* and no pending one is left behind (attribution.rs).
StatusIsTrue == tool = "Attribution" => Attribution!StatusIsTrue

\* A cleared candidate was read in full, but for what is said to be left out
\* (egress.rs).
ClearedIsScanned == tool = "Egress" => Egress!ClearedIsScanned

\* Once its runs are over the workflow has filed what main owes, in one issue,
\* unless a person's stands in the way (attribution-repin.yml, repin_issue.py).
FiledOnce == tool = "Repin" => Repin!FiledOnce

\* Status 0 is earned and everything printed has arrived (common.rs, main.rs).
ZeroMeansDone == tool = "Line" => Line!ZeroMeansDone

\* A captured pull request is the whole change of the recorded head
\* (pr_review.py).
CaptureIsComplete == tool = "Capture" => Capture!CaptureIsComplete

\* Whenever the runner dies, the journal on disk knows what was paid for, and a
\* report stands on a finished one (pr_review_agent.py, pr_review_receipts.py).
ReceiptsAreTrue == tool = "Receipts" => Receipts!ReceiptsAreTrue

\* No step takes an issue back to an earlier patch, or a person's issue over
\* (repin_issue.py).
IssuesAreKept == [][tool = "Repin" => Repin!IssuesAreKept]_toolVars

=============================================================================
