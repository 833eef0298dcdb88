SPECIFICATION Spec
CONSTANTS
  Keys = {"run1", "run2"}
  Workers = {w1, w2}
  States = {"running", "success", "error", "canceled"}
  Page = 1
  Names = {"bug", "ci-running", "ci-ok", "ci-seen", "a name over the limit"}
  Add <- MCAdd
  Remove <- MCRemove
  Coloured = {"ci-running", "ci-ok"}
  Long = {"a name over the limit"}
  Existing = {"bug", "ci-ok"}
  LabelPage = 2
  MaxEvents = 3
  MaxFaults = 1
INVARIANTS TypeOK DuplicatesExplained Reflected LabelsConverge
PROPERTY OwnItemsOnly
CHECK_DEADLOCK FALSE
SYMMETRY Alike
