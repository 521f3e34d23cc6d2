\* Safety and refinement: every interleaving of three attempts with crashes, lost replies,
\* key expiry and Redis restarts.
SPECIFICATION Spec
CONSTANTS
  a1 = a1
  a2 = a2
  a3 = a3
  n1 = n1
  n2 = n2
  p1 = p1
  p2 = p2
  r1 = r1
  r2 = r2
  None = None
  Attempts <- MCAttempts
  Nodes = {n1, n2}
  NodeOf <- MCNodeOf
  ProductIDs = {p1}
  Total <- MCTotal
  RequestIDs = {r1, r2}
  Quantities = {2, 3}
  MaxInt = 5
  MaxSends = 1
SYMMETRY MCSymmetry
INVARIANTS
  Inv
  NoOversell
  LedgerBalanced
  OneReservationPerWindow
  RepliesMatchLedger
PROPERTY ImplementsLedger
\* Every attempt runs once and then rests: the instance ends when all have.
CHECK_DEADLOCK FALSE
