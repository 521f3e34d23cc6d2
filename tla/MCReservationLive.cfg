\* Liveness, and every kind of input: an unknown product, a bad quantity, one that is no INT,
\* commands that Redis executes twice.  No symmetry.
SPECIFICATION FairSpec
CONSTANTS
  a1 = a1
  a2 = a2
  a3 = a3
  n1 = n1
  n2 = n2
  p1 = p1
  p2 = p2
  r1 = r1
  r2 = r2
  None = None
  Attempts = {a1, a3}
  Nodes = {n1, n2}
  NodeOf <- MCNodeOf2
  ProductIDs = {p1, p2}
  Total <- MCTotal
  RequestIDs = {r1, r2}
  Quantities <- MCQuantities
  MaxInt = 5
  MaxSends = 2
INVARIANTS
  Inv
  CacheFollowsLedger
PROPERTY EveryRequestAnswered
\* Every attempt runs once and then rests: the instance ends when all have.
CHECK_DEADLOCK FALSE
