SPECIFICATION Spec
CONSTANTS
    Runs = {r1, r2}
    Ids = {i1, i2}
    Assets = {zip}
    MaxAttempts = 2
    LatePatch = FALSE
    NoId = NoId
INVARIANTS AtMostOnePublished SuccessIsSound PublishedIsExact QuietFailureLeavesNoDraft
PROPERTIES OnlyOwnDraftDeleted PublishedStays RefinesContract
