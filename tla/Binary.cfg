SPECIFICATION FairSpec
CONSTANTS
    run1 = run1
    run2 = run2
    nobody = nobody
    Runs <- TwoRuns
    Targets <- OneTarget
    Commits <- MCCommits
    CommitOf <- MCCommitOf
    MaxAttempts <- MCAttempts
    MaxMoves = 1
    Nobody = nobody
INVARIANTS PublishedIsDescribed RecheckStaysTrue
PROPERTIES PublishedInOneAttempt RunsEnd
CHECK_DEADLOCK FALSE
