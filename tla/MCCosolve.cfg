SPECIFICATION Spec
CONSTANTS
    Packages <- MCPackages
    Graphs <- MCGraphs
    IUses <- MCIUses
    Holds <- MCHolds
    MaxSolves = 8
    MaxAsked = 2
CHECK_DEADLOCK FALSE
INVARIANTS
    Explained
    SettlementHolds
    ForcedForAReason
