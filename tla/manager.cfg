SPECIFICATION FairSpec
CONSTANTS
    s1 = s1
    s2 = s2
    s3 = s3
    Servers <- MCServers
    None = None
    MaxServers = 2
    MaxPackages = 2
CHECK_DEADLOCK FALSE
INVARIANT ListedServer
INVARIANT InstallsFromLister
INVARIANT OneListener
PROPERTY ListsUndisturbed
PROPERTY WindowAnswers
