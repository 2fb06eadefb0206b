SPECIFICATION Spec
CONSTANTS
  ui = ui
  worker = worker
  cli = cli
  gui = gui
  shell = shell
  Threads = {ui, cli}
  Procs = {gui, shell}
  proc <- GuiAndCli
  Profiles = {"p1"}
  n1 = n1
  n2 = n2
  Pins = {n1, n2}
  MAX_ATTEMPTS = 2
  FREE_ATTEMPTS = 0
  NoLock = NoLock
  NoThread = NoThread
  Nothing = Nothing
  Bare = Bare
  MaxClock = 1
  MaxMasters = 1
  MaxWraps = 2
  MaxKeys = 2
  SerialFirstUse = TRUE
  Changes = TRUE
  MaxKills = 1
  AfterWipe = FALSE
SYMMETRY Symmetry
INVARIANTS GuessesCounted TenthWrongWipes SealedUnderNamedKey PinOpensProfiles
CHECK_DEADLOCK FALSE
