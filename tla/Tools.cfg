SPECIFICATION Explored
CONSTANTS
  Off = Off
  Ids = {1, 2, 3, 4}
  PageSize = 1
  MaxTries = 2
  CandidateContexts <- MCCandidateContexts
  CandidatePatterns <- MCCandidatePatterns
  CandidateFiles <- MCCandidateFiles
  MaxAsset = 2
  MaxChanges = 3
  MaxJobs = 2
  ArchiveCommits <- MCArchiveCommits
  ArchiveEntries <- MCArchiveEntries
  ArchiveTracked <- MCArchiveTracked
  ArchiveSources <- MCArchiveSources
  ArchivePlaces <- MCArchivePlaces
  MaxBuilds = 2
  MaxMoves = 2
  PinEntry <- MCPinEntry
  PinScript <- MCPinScript
  PinUnder <- MCPinUnder
  PinPython <- MCPinPython
  TreesBefore <- MCTreesBefore
  TreesAfter <- MCTreesAfter
  PullRequests = {pr1, pr2}
  PullRequestHeads = {one, other}
  PullRequestTexts = {"clean", "credit"}
  CleanTexts = {"clean"}
  MaxEvents = 2
  MaxBaseMoves = 1
  MaxFaults = 1
  EgressFiles <- MCEgressFiles
  EgressUnder <- MCEgressUnder
  EgressLinks <- MCEgressLinks
  EgressTexts <- MCEgressTexts
  EgressMatches <- MCEgressMatches
  EgressCandidates <- MCEgressCandidates
  EgressTerms <- MCEgressTerms
  EgressRequests <- MCEgressRequests
  MaxReadFaults = 1
  Undecodable = Undecodable
  RepinRuns = {1, 2, 3}
  RepinActions = {one, other}
  MaxCommits = 4
  MaxIssues = 2
  MaxFailures = 1
  Nothing = 0
  LineCalls <- MCLineCalls
  BufferSize = 2
  CapturePaths <- MCCapturePaths
  CaptureContents = {"x", "y"}
  CaptureAbsent = "absent"
  CaptureBefore <- MCCaptureBefore
  CaptureHeads = {"h1", "h2"}
  FilesPerPage = 1
  MaxPages = 2
  MaxPushes = 2
  ReturnsToHead = FALSE
  Reserved <- MCReserved
  MaxReview = 4
  KeyLimits = {3, 4}
  Bills = {0, 1, 2}
  GenerationIds = {1, 2, 3}
  None = None
  Documents <- DocumentTexts
  Keys <- DocumentKeys
  Alphabet <- ScalarCharacters
  NumberTexts <- ScalarNumbers
  StringTexts <- ScalarStrings
  DigitLimit = 3
SYMMETRY Symmetry
INVARIANTS
  ReturnsASnapshot VerdictIsExact ArchivesAreExact VerdictsAreExact 
   ZeroMeansDone  CaptureIsComplete 
  ReceiptsAreTrue
PROPERTIES IssuesAreKept
CHECK_DEADLOCK FALSE
