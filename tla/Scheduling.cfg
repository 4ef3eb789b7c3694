CONSTANTS
    N = 3
    Tasks <- PolicyTasks
    TiedTasks = {5}
    Setups <- PolicySetups
    Main = 7
    Sharers = {3, 4, 5}
    Brothers <- MCBrothers
    Family <- MCFamily
SPECIFICATION SchedulingSpec
INVARIANTS OneHolder RunsWhatItMay QueuesInOrder Exclusive AllOrNothing
PROPERTY SchedulingEnds
CHECK_DEADLOCK FALSE
