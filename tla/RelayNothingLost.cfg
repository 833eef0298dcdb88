SPECIFICATION Spec
CONSTANTS
  e1 = e1  e2 = e2  e3 = e3  e4 = e4  e5 = e5  h1 = h1  h2 = h2  o = o
  s1 = s1  s2 = s2  j1 = j1
  Events = {e1}
  Handlers = {h1, h2}
  Slots = {s1, s2}
  Jobs = {}
  OverrideId = o
  Fate <- OkFate
  Matched <- PairMatched
  DeadLetter = TRUE
  SharedStore = TRUE
  Faults = {}
  MaxFaults = 1
  MaxSends = 2
INVARIANT NothingLost
CHECK_DEADLOCK FALSE
