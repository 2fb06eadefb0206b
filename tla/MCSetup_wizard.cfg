SPECIFICATION FairSpec
CONSTANTS
  Handle = h
  OtherHandle = g
  Contested = {h}
  Modes = {"Transfer", "External"}
  Starts = {"fresh","v4","old"}
  NoFile = NoFile
  Torn = Torn
  NoKeys = NoKeys
  NoConfig = NoConfig
  NoFlow = NoFlow
  NoOne = NoOne
  Other = Other
  NoTx = NoTx
  MaxMint = 5
  MaxNonce = 3
  MaxTrouble = 2
INVARIANTS FundedOnce RegisteredIsHeld
PROPERTY SetupFinishes
CHECK_DEADLOCK FALSE
