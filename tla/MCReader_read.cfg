CONSTANTS
    TREE_DEPTH = 2
    CHUNK = 2
    BASE_MIN_AGE = 1
    BASE_ROUND = 2
    Me = "me"
    Handles = {"me", "ann", "bob"}
    Starts <- MCStarts
    MaxHead = 5
    Reorgs = 1
SPECIFICATION Spec
INVARIANTS PreparedProves RefusalIsTrue InboxExact
