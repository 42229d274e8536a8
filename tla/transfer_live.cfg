SPECIFICATION FairSpec
CONSTANTS
    a = a
    b = b
    right = right
    wrong = wrong
    Chunk <- MCChunk
    Archives <- MCTwoArchives
    Passwords <- MCPasswords
    NoPassword = NoPassword
    Absent = Absent
    ServerPassword = right
    ClientPasswords <- MCEveryClient
    HandlePins = TRUE
    Faults <- MCFaultsLive
    MaxBuilds = 1
    MaxSessions = 2
CHECK_DEADLOCK FALSE
PROPERTY SessionsEnd
