SPECIFICATION Spec
CONSTANTS
    Runs = {r1}
    Ids = {i1}
    Assets = {zip}
    MaxAttempts = 3
    LatePatch = TRUE
    NoId = NoId
PROPERTY PublishedStays
