CONSTANTS
    Procs = {0, 1, 2, 3}
    NoProc = NoProc
    MaxEpisodes = 3
SPECIFICATION PluginSpec
INVARIANTS TypeOK Contract ReducedBetween NoLostWakeup
PROPERTIES ImplementsBarrier OthersImplement EveryoneReturns
CHECK_DEADLOCK FALSE
