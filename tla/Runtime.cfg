CONSTANTS
    Caches = {"c1", "c2"}
    Hosts = {"h1", "h2"}
    Tags = {"x", "y"}
    Setups <- MCSetups
    N = 3
    Tasks = 2
    MaxStops = 2
    Limit = 4
    MaxTeams = 3
    Size = 2
SPECIFICATION RuntimeSpec
INVARIANTS InTeamOnceIfSpaced AsManyAsAsked ReservedOnce TeamOutlives LastTold GuardBetween PiecesAddUp
           ReadsLatest DirectoryKnows EnsuresHold
           NothingInSection
PROPERTIES ImplementsConstructs RuntimeGoesOn
CHECK_DEADLOCK FALSE
