SPECIFICATION Spec
CONSTANTS
  Names = {"a", "b"}
  Ids = {1, 2, 3}
  Accounts = {1, 2}
  Tickets = {1}
  NoDir = NoDir
  NoName = NoName
  NoOp = NoOp
  NoId = NoId
  NoAccount = NoAccount
  Files = {"config", "vault", "tickets", "sends"}
  ROOT_ENTRIES = {"config", "sends"}
  InitialDirs <- FlatRoot
  MaxCrashes = 0
  FreshPlans = TRUE
  FlatInUse = TRUE
INVARIANT MigratedOpens
CHECK_DEADLOCK FALSE
