CONSTANTS
    N = 3
    Tasks <- PolicyTasks
    TiedTasks = {}
    Setups <- StealParent
SPECIFICATION PoliciesSpec
INVARIANT MovedIsNoticed
CHECK_DEADLOCK FALSE
