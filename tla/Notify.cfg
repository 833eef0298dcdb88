SPECIFICATION Spec
CONSTANTS
  r1 = r1  r2 = r2  w1 = w1  w2 = w2  b1 = b1  b2 = b2
  Runs = {r1, r2}
  Workers = {w1, w2}
  Builds = {b1, b2}
  Events <- SomeEvents
  Setups <- AllSetups
  MaxEvents = 3
  MaxFaults = 1
SYMMETRY Symmetry
INVARIANTS TypeOK DuplicatesExplained Reported OneThread OnlySeenDropped OwnPolicy
PROPERTY NothingAfterClose
CHECK_DEADLOCK FALSE
