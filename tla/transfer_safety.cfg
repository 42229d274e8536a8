SPECIFICATION Spec
CONSTANTS
    a = a
    b = b
    right = right
    wrong = wrong
    Chunk <- MCChunk
    Archives <- MCArchives
    Passwords <- MCPasswords
    NoPassword = NoPassword
    Absent = Absent
    ServerPassword = right
    ClientPasswords <- MCEveryClient
    HandlePins = TRUE
    Faults <- MCFaultsAll
    MaxBuilds = 2
    MaxSessions = 2
CHECK_DEADLOCK FALSE
INVARIANT VerifiedIsComplete
INVARIANT VerifiedWasShown
INVARIANT NoPartialStage
PROPERTY DeliverySpec
INVARIANT NoServiceWithoutPassword
INVARIANT StayInStep
