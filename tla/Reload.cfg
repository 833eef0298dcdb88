SPECIFICATION FairSpec
CONSTANTS
  r1 = r1  r2 = r2
  Requests = {r1, r2}
  MaxVersion = 2
  MaxSignals = 1
INVARIANTS OneConfiguration ServedOpen ReplacedClosed ExitFlushed
PROPERTIES NeverBack EventuallyCurrent
CHECK_DEADLOCK FALSE
