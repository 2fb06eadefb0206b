SPECIFICATION Spec
CONSTANTS
  s1 = s1
  s2 = s2
  t1 = t1
  t2 = t2
  Tickets = {t1,t2}
  Sends = {s1,s2}
  NoSend = NoSend
  NoTicket = NoTicket
  quota = 2
  max_epoch_lag = 0
  MaxEpoch = 1
  MaxNonce = 2
  Crashes = FALSE
  LatePosts = FALSE
  SaveFails = FALSE
  GuiGates = TRUE
SYMMETRY Symmetry
INVARIANT SecretsOnDisk
CHECK_DEADLOCK FALSE
