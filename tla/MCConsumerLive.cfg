\* One member at a time, with workers in parallel: shutdown, restarts, failed joins.
SPECIFICATION FairSpec
CONSTANTS
  m1 = m1
  m2 = m2
  None = None
  Members = {m1}
  WorkerCount = 2
  FirstDelay = 1
  MaxDelay = 3
  MaxEnd = 3
  Malformed = {1}
  MaxRows = 2
INVARIANTS
  Inv
  RetryDelayBounded
PROPERTIES
  EveryMessageEnds
  ShutdownCompletes
