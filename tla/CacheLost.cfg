CONSTANTS
    Caches = {"c1"}
    Hosts = {}
    Tags = {"x", "y"}
    Setups <- TightWriteBack
SPECIFICATION CoherenceSpec
INVARIANT NothingLost
CHECK_DEADLOCK FALSE
