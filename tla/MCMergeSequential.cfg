SPECIFICATION Spec
CONSTANTS
    Requests <- MCSequentialRequests
INVARIANTS
    StrongVictimGone
    WeakVictimKept
    CleanExit
PROPERTIES
    ImplementsBuildOrder
