SPECIFICATION Spec
CONSTANTS
  Paths <- MCPaths
  Contents <- MCContents
  Absent = "absent"
  Before <- MCBefore
  Heads <- MCHeads
  PageSize = 2
  MaxPages = 2
  MaxPushes = 2
  ReturnsToHead = TRUE
INVARIANTS CaptureIsComplete
CHECK_DEADLOCK FALSE
