SPECIFICATION Spec
CONSTANTS
    a1 = a1
    a2 = a2
    b1 = b1
    c1 = c1
    fa1 = fa1
    fa2 = fa2
    fb1 = fb1
    s1 = s1
    s2 = s2
    sA = sA
    sB = sB
    sC = sC
    emM = emM
    emW = emW
    emC = emC
    Packages <- MCPackages
    Slots <- MCSlots
    SlotOf <- MCSlotOf
    Libs <- MCLibs
    Needs <- MCNeeds
    Paths <- MCPaths
    SonameOf <- MCSonameOf
    Modes <- MCModes
    MaxJobs = 3
    MaxFaults = 1
CHECK_DEADLOCK FALSE
PROPERTIES
    DeferredReclaimSafe
