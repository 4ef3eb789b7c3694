CONSTANTS
    t1 = t1
    t2 = t2
    a = a
    b = b
    a1 = a1
    b1 = b1
    b2 = b2
    Threads = {t1, t2}
    Master = t1
    Main = Main
    Tasks = {a, b, a1, b1}
    Parent <- NestedParent
    TiedTasks = {a}
    ULT = FALSE
    Unwaited = TRUE
    MaxYields = 1
    MaxStops = 1
    None = None
SPECIFICATION TasksSpec
INVARIANTS TypeOK OnePlace NoUseAfterFree TiedRules
PROPERTIES ImplementsForkJoin AllDone
CHECK_DEADLOCK FALSE
