SPECIFICATION Spec
CONSTANTS
    Ids = {1, 2}
    BadIds = {}
    Unknowns = {"KU-001", "KU-002"}
    NONE = NONE
    Entries <- AllEntries
    Files <- AllFiles
    Headings <- AllHeadings
    Trees <- WeekTrees
    Start <- Fresh
    Commits = {"c"}
    Tags = {"v1"}
    Days <- OneDay
    Pulls = {p1, p2}
    MaxMain = 3
INVARIANT DatesAreNotLater
CHECK_DEADLOCK FALSE
