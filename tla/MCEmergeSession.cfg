SPECIFICATION FairSpec
CONSTANTS
    a = a
    b = b
    Packages <- MCPackages
    Shapes <- MCShapes
    MaxJobs = 3
    MaxFaults = 3
CHECK_DEADLOCK FALSE
INVARIANTS
    ResumeSound
PROPERTIES
    NoRebuild
    NoJobForgotten
    BackupUntouched
    EventuallyNothingPending
