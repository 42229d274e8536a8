SPECIFICATION Spec
CONSTANTS
    p = p
    q = q
    pkg1 = pkg1
    mpkg = mpkg
    x = x
    y = y
    d = d
    e = e
    Packages <- MCPackages
    Names <- MCNames
    Sources <- MCSources
    Manifest = pkg1
    ArchiveNames <- MCArchiveNames
    Absent = Absent
    SharedBuffer = FALSE
    MaxDepth = 2
    MaxEntries = 4
    Operations <- MCAllCommands
    Faults <- MCEverything
    MaxOps = 3
CHECK_DEADLOCK FALSE
INVARIANT OfferedIsWhole
INVARIANT FailedLeavesNothing
INVARIANT RemovedIsGone
INVARIANT ListIsExact
