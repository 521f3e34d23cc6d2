\* One node: two pages come and go while two attempts are logged, the node stops and starts again.
SPECIFICATION FairSpec
CONSTANTS
  n1 = n1
  g1 = g1
  g2 = g2
  None = None
  Attempts = {1, 2}
  Nodes = {n1}
  NodeOf <- MCNodeOf
  Pages = {g1, g2}
  ServerOf <- MCServerOf
  Answered = {g1}
  Limit = 1
  SocketRoom = 1
INVARIANTS
  Inv
  NothingInvented
  InOrder
PROPERTIES
  GoroutinesEnd
  ReachesClients
