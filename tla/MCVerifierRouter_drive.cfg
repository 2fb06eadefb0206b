SPECIFICATION FairSpec
CONSTANTS
  h1 = h1
  h2 = h2
  e1 = e1
  e2 = e2
  p1 = p1
  zero = zero
  f1 = f1
  f2 = f2
  l1 = l1
  o1 = o1
  o2 = o2
  Heads = {h1, h2}
  Memory = {e1, e2}
  SampledFelts <- MCSampled
  FriHeads = {f1, f2}
  LayerProofs = {l1}
  Output <- MCOutput
  Valid <- MCValid
  N_FAMILIES = 3
  N_QUERIES = 2
  N_INNER = 1
  MAX_PROGRAM = 2
  driver = driver
  other = other
  Driver = driver
  Callers = {driver, other}
  i1 = i1
  ProofIds = {i1}
  Parts = {p1, zero}
  N_SLOTS = 2
  Zero = zero
  OodsClasses <- MCClasses
  Router = Router
  MAX_CHUNKS = 2
  Script <- TheScript
INVARIANT PhasesPassed
PROPERTIES ImplementsVerifier DriveFinishes
CHECK_DEADLOCK FALSE
