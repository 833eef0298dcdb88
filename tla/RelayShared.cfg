SPECIFICATION Spec
CONSTANTS
  e1 = e1  e2 = e2  e3 = e3  e4 = e4  e5 = e5  h1 = h1  h2 = h2  o = o  s1 = s1  s2 = s2  j1 = j1
  Events = {e1, e2}
  Handlers = {h1, h2}
  Slots = {s1, s2}
  Jobs = {j1}
  OverrideId = o
  Fate <- OkFate
  Matched <- PairMatched
  DeadLetter = TRUE
  SharedStore = TRUE
  Faults = {"storeError", "expire", "gone", "crash", "enqueueFails", "removeFails", "purge"}
  MaxFaults = 2
  MaxSends = 2
SYMMETRY SlotSymmetry
INVARIANTS AckedAccounted AtMostOncePerId
PROPERTY DeadLetterStep
CHECK_DEADLOCK FALSE
