SPECIFICATION Spec
CONSTANTS
  p1 = p1  p2 = p2  p3 = p3  t1 = t1  t2 = t2  t3 = t3  grp = grp  w1 = w1  w2 = w2
  Pipelines = {p1, p2, p3}
  Tasks = {t1, t2, t3}
  Parent <- Parents
  RunId <- PipelineUid
  Groups = {grp}
  Ungrouped = Ungrouped
  GroupOf <- OneGroup
  Workers = {w1, w2}
  MaxCalls = 5
  MaxMishaps = 1
SYMMETRY Symmetry
INVARIANTS ShownOnce TaskAccounted Summarised CompleteGroupsFlushed
CHECK_DEADLOCK FALSE
