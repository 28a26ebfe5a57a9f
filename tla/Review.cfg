SPECIFICATION Spec
CONSTANTS
  Runs = {run1, run2}
  Heads = {h1, h2}
  Bases = {b1, b2}
  Models = {glm, mimo}
  MaxMoves = 2
  Nobody = Nobody
  None = None
SYMMETRY Symmetry
INVARIANTS ClearIsReviewed 
PROPERTIES LaterRunsPrevail VerdictIsKept
CHECK_DEADLOCK FALSE
