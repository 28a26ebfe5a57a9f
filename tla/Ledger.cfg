SPECIFICATION Spec
CONSTANTS
    Ids = {1, 2}
    BadIds = {}
    Unknowns = {"KU-001", "KU-002"}
    NONE = NONE
    Entries <- AllEntries
    Files <- AllFiles
    Headings <- AllHeadings
    Trees <- AllTrees
    Start <- Fresh
    Commits = {"c"}
    Tags = {"v1"}
    Days <- TwoDays
    Pulls = {p1, p2}
    MaxMain = 3
SYMMETRY PullSymmetry
INVARIANTS
    NothingListedChanges
    UnknownsAreKept
CHECK_DEADLOCK FALSE
