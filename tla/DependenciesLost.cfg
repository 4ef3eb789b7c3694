SPECIFICATION Spec
CONSTANTS
  LastTask = 3
  Addrs = {1}
  Kinds = {"in", "concurrent"}
  Waiting = {}
  LastComm = 3
INVARIANT Ordered
CHECK_DEADLOCK FALSE
