SPECIFICATION Spec
CONSTANTS
    p = p
    q = q
    pkg1 = pkg1
    mpkg = mpkg
    x = x
    y = y
    d = d
    e = e
    Packages <- MCPackages
    Names <- MCNames
    Sources <- MCNestedOnly
    Manifest = pkg1
    ArchiveNames <- MCArchiveNames
    Absent = Absent
    SharedBuffer = TRUE
    MaxDepth = 2
    MaxEntries = 4
    Operations <- MCNoRebuild
    Faults <- MCNoFaults
    MaxOps = 2
CHECK_DEADLOCK FALSE
INVARIANT OfferedIsWhole
