\* One worker, as deployed: restarts, lost UPDATEs, resent messages, an open breaker.
SPECIFICATION FairSpec
CONSTANTS
  w1 = w1
  w2 = w2
  Events = {1, 2, 3}
  Workers = {w1}
  Limit = 2
  MaxCopies = 2
  MaxSends = 4
  TripAt = 2
  MaxRequests = 2
INVARIANT
  SoloInv
PROPERTIES
  VerdictStands
  EventuallySettled
