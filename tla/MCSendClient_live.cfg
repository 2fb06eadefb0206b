SPECIFICATION FairSpec
CONSTANTS
  s1 = s1
  t1 = t1
  Tickets = {t1}
  Sends = {s1}
  NoSend = NoSend
  NoTicket = NoTicket
  quota = 1
  max_epoch_lag = 0
  MaxEpoch = 1
  MaxNonce = 2
  Crashes = TRUE
  LatePosts = TRUE
  SaveFails = TRUE
  GuiGates = FALSE

INVARIANT LandsOnce
PROPERTY PendingSendsEnd
CHECK_DEADLOCK FALSE
