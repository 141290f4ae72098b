SPECIFICATION Spec
CONSTANTS
    Nodes <- MCNodes
    Requests <- MCRequests
INVARIANTS
    HardCyclesOnly
    NothingTurnedBack
    InversionsForced
    NeverStalls
