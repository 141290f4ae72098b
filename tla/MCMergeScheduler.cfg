SPECIFICATION FairSpec
CONSTANTS
    Jobs = 2
    Requests <- MCRequests
INVARIANTS
    OrderRespected
    QueueExact
    VictimOrder
    WorkdirsExclusive
    NothingRunnableLeft
    CleanExit
PROPERTIES
    Terminates
    ImplementsBuildOrder
