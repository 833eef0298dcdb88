SPECIFICATION Spec
CONSTANTS
  e1 = e1  e2 = e2  e3 = e3  e4 = e4  e5 = e5  c1 = c1  c2 = c2
  Events = {e1, e2}
  Closers = {c1}
  MaxSize = 1
  HasQueue = FALSE
INVARIANT HandleNeverPanics
CHECK_DEADLOCK FALSE
