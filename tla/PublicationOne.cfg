SPECIFICATION FairSpec
CONSTANTS
    Runs = {r1}
    Ids = {i1}
    Assets = {zip, sums}
    MaxAttempts = 3
    LatePatch = TRUE
    NoId = NoId
PROPERTY NoStalePublication
PROPERTY RunsEnd
