\* Two workers, as during a rolling update.
SPECIFICATION Spec
CONSTANTS
  w1 = w1
  w2 = w2
  Events = {1, 2}
  Workers = {w1, w2}
  Limit = 2
  MaxCopies = 2
  MaxSends = 4
  TripAt = 2
  MaxRequests = 2
SYMMETRY MCSymmetry
INVARIANTS
  Inv
  ProcessedWasPublished
  DuplicatesAreExcused
PROPERTY SettledStaysSettled
