SPECIFICATION Spec
CONSTANTS
  Names = {"a", "b"}
  Ids = {1, 2, 3}
  Accounts = {1, 2}
  Tickets = {1}
  NoDir = NoDir
  NoName = NoName
  NoOp = NoOp
  NoId = NoId
  NoAccount = NoAccount
  Files = {"config", "vault", "tickets", "sends"}
  ROOT_ENTRIES = {"config", "sends"}
  InitialDirs <- Pairs
  MaxCrashes = 1
  FreshPlans = TRUE
  FlatInUse = FALSE
INVARIANTS TicketsKept 
PROPERTIES SpentStays OthersKeep
CHECK_DEADLOCK FALSE
