\* Two members of the group: rebalances, evictions, crashes and restarts.
SPECIFICATION Spec
CONSTANTS
  m1 = m1
  m2 = m2
  None = None
  Members = {m1, m2}
  WorkerCount = 1
  FirstDelay = 1
  MaxDelay = 1
  MaxEnd = 3
  Malformed = {}
  MaxRows = 2
SYMMETRY MCSymmetry
INVARIANTS
  Inv
  NothingSkipped
  RowsAreExcused
