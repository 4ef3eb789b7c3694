CONSTANTS
    t1 = t1
    t2 = t2
    a = a
    b = b
    a1 = a1
    b1 = b1
    b2 = b2
    Threads = {t1, t2}
    Master = t1
    Main = Main
    Tasks = {a, b, a1, b1, b2}
    Parent <- NestedParent
    TiedTasks = {a}
    ULT = TRUE
    Unwaited = TRUE
    MaxYields = 0
    MaxStops = 0
    None = None
SPECIFICATION Spec
INVARIANT TiedRules
CHECK_DEADLOCK FALSE
