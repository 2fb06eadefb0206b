SPECIFICATION Spec
CONSTANTS
  Profiles = {p, q}
  Handles = {x, y}
  SendIds = {s1}
  MaxThreads = 2
  Starts = {"ready", "two", "bare", "legacy", "old"}
  NoOne = NoOne
INVARIANTS ShownIsOwn OnePaidFlow ResolvedIsShown NoSendStranded
SYMMETRY Symmetry
