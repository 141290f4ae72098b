SPECIFICATION Spec
CONSTANTS
    Keys <- MCKeys
    AnySlot = 0
    Requests <- MCRequests
CHECK_DEADLOCK FALSE
INVARIANTS
    VictimsGone
