SPECIFICATION Spec
CONSTANTS
  First <- Started
  Files <- Changes
  MaxBuilds = 3
INVARIANTS
  TypeOK
  AcceptedBuilds
  OpenAccounted
  KeyOfOne
  AsRestarted
CHECK_DEADLOCK FALSE
