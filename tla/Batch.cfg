SPECIFICATION FairSpec
CONSTANTS
  e1 = e1  e2 = e2  e3 = e3  e4 = e4  e5 = e5  c1 = c1  c2 = c2
  Events = {e1, e2, e3, e4, e5}
  Closers = {c1, c2}
  MaxSize = 2
  HasQueue = TRUE
INVARIANTS Conserved NothingLeftBehind
PROPERTIES AcceptedLeaves CallsReturn
ACTION_CONSTRAINT InOrder
CHECK_DEADLOCK FALSE
