CONSTANTS
    Programs = {"regions"}
    Submissions = 3
    Addresses = {1, 2}
    Accesses = {"in", "out"}
    WaitOns = {3}
    Width = 4
    LastTask = 3
    Plugins = {"perfect-regions"}
    Calls <- HalvesCalls
SPECIFICATION DependencesSpec
INVARIANT RegionsInOrder
CHECK_DEADLOCK FALSE
