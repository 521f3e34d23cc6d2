\* One worker and one member, as deployed; two reservations, two messages on the topic.
SPECIFICATION Spec
CONSTANTS
  w1 = w1
  m1 = m1
  None = None
  Events = {1, 2}
  Stock = 2
  Workers = {w1}
  Limit = 2
  MaxCopies = 4
  MaxSends = 4
  TripAt = 1
  MaxRequests = 1
  Members = {m1}
  WorkerCount = 1
  FirstDelay = 1
  MaxDelay = 1
  MaxRows = 2
  MaxEnd = 2
CONSTRAINT MCTroubleComesEarly
INVARIANTS
  Inv
  AnalyticsWithinLedger
PROPERTY KeepsPromise
