SPECIFICATION Spec
CONSTANTS
  LastTask = 2
  Addrs = {1}
  Kinds = {"in", "inout"}
  Waiting = {}
  LastComm = 0
INVARIANT LockedAlive
CHECK_DEADLOCK FALSE
