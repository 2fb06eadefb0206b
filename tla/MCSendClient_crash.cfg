SPECIFICATION Spec
CONSTANTS
  s1 = s1
  s2 = s2
  t1 = t1
  t2 = t2
  Tickets = {t1,t2}
  Sends = {s1,s2}
  NoSend = NoSend
  NoTicket = NoTicket
  quota = 2
  max_epoch_lag = 0
  MaxEpoch = 2
  MaxNonce = 2
  Crashes = TRUE
  LatePosts = FALSE
  SaveFails = TRUE
  GuiGates = FALSE
SYMMETRY Symmetry
INVARIANTS SlotNeverReused SecretsOnDisk RetiredNeverLands HarmContained
CHECK_DEADLOCK FALSE
