CONSTANTS
    Programs = {"shared", "plain", "regions"}
    Submissions = 3
    Addresses = {1, 2}
    Accesses = {"in", "out"}
    WaitOns = {3}
    Width = 4
    LastTask = 3
    Plugins = {"regions-default", "perfect-regions"}
    Calls <- RegionCalls
SPECIFICATION DependencesSpec
INVARIANTS PlainRecords PredsCounted RunInOrder NothingDangles GroupsApart TreeSearched
PROPERTIES PlainImplementsDataFlow EveryTaskEnds
CHECK_DEADLOCK FALSE
