SPECIFICATION VSSpec
CONSTANTS
    MaxNum = 2
    Base = 2
    MaxLetter = 2
    Patterns <- MCPatterns
    Ops <- MCOps
    Repositories <- MCRepositories
    Universe <- MCUniverse
CHECK_DEADLOCK FALSE
INVARIANTS
    KnownSettled
    KeyOrder
    RangesHold
