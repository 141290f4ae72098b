SPECIFICATION FairSpec
CONSTANTS
    x1 = x1
    x2 = x2
    y = y
    f = f
    g = g
    em1 = em1
    em2 = em2
    emC = emC
    p1 = p1
    q1 = q1
    q2 = q2
    c1 = c1
    Packages <- MCPackages
    Paths <- MCPaths
    SlotOf <- MCSlotOf
    Images <- MCImages
    Procs <- MCProcs
    Tasks <- MCTasks
    ProcOf <- MCProcOf
    Reuse = {em2}
    Removers = {c1}
    MaxJobs = 2
    MaxUpsets = 1
CHECK_DEADLOCK FALSE
INVARIANTS
    NoSharedPaths
    SlotUnique
    IndexExact
    OwnedOnDisk
    Settled
PROPERTIES
    JobsEnd
