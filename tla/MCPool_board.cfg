SPECIFICATION Spec
CONSTANTS
  epoch_blocks = 100
  max_epoch_lag = 1
  quota = 1
  ticket_price = 2
  max_fee = 2
  max_tip = 1
  min_l2_gas = 1
  MaxU64 = 1000
  p = p
  a1 = a1
  a2 = a2
  a3 = a3
  Accounts = {p, a1, a2, a3}
  Pool = p
  h1 = h1
  h2 = h2
  h3 = h3
  Handles = {h1, h2, h3}
  k1 = k1
  ScanKeys = {k1}
  m1 = m1
  MemberSecrets = {m1}
  t1 = t1
  t2 = t2
  t3 = t3
  TicketSecrets = {t1, t2, t3}
  c1 = c1
  Commitments = {c1}
  x1 = x1
  x2 = x2
  x3 = x3
  x4 = x4
  Contents = {x1, x2, x3, x4}
  PaddedContents = {x1, x2, x3}
  Zero = Zero
  None = None
  ForeignRoot = ForeignRoot
  ROOT_HISTORY_SIZE = 2
  MAX_LEAVES = 3
  MAX_TICKETS_PER_BUY = 2
  Blocks = {0, 199, 350}
  Txs <- PoolTxs
  Slots = {0, 1}
  MemberRoots = {1, ForeignRoot}
  TicketRoots = {3, ForeignRoot}
SYMMETRY PoolSymmetry
INVARIANTS TypeOK RootWindow DirectoryConsistent FeesCoveredByTickets UnspentTicketsBacked ValidatedNeverReverts NoReplay RateLimited PublishedByMembers
PROPERTY ImplementsBoard
CHECK_DEADLOCK FALSE
