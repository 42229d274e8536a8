SPECIFICATION Spec
CONSTANTS
    c1 = c1
    c2 = c2
    None = None
    Clients <- MCClients
    Commands <- MCCommands
    Hellos <- MCHellos
    Lists <- MCLists
    Names <- MCNames
    Packages <- MCPackages
    Archives <- MCArchives
    Preinstalled <- MCPreinstalled
    MaxServers = 2
    MaxCommands = 2
    Faults <- MCFaults
SYMMETRY Symmetric
INVARIANT RefusedWritesNothing
INVARIANT UndisturbedIsVerified
INVARIANT NoTwins
PROPERTY DoneIsWhole
