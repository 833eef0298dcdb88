SPECIFICATION Spec
CONSTANTS
  i1 = i1  i2 = i2  i3 = i3  c1 = c1  c2 = c2  None = None
  Ids = {i1, i2}
  Callers = {c1, c2}
  Sizes = {1, 2, 3}
  MaxBytes = 3
  MaxLine = 2
  Retention = 1
  MaxTime = 2
  MaxOps = 3
  Limits = {1}
  Offsets = {0, 1}
SYMMETRY Symmetry
INVARIANTS FileSound AcceptedKept PageInBounds
PROPERTIES StuckNotLost ImplementsDeadLetters
CHECK_DEADLOCK FALSE
