\* Nothing is committed for the group, and a claim without a committed offset begins with the newest
\* message: what was published while no member had the partition is never delivered.
SPECIFICATION HealthySpec
CONSTANTS
  m1 = m1
  m2 = m2
  None = None
  Members = {m1}
  WorkerCount = 1
  FirstDelay = 1
  MaxDelay = 1
  MaxEnd = 2
  Malformed = {}
  MaxRows = 2
PROPERTY EveryEventStored
