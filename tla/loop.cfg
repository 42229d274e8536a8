SPECIFICATION FairSpec
CONSTANTS
    c1 = c1
    c2 = c2
    c3 = c3
    p1 = p1
    p2 = p2
    p3 = p3
    Clients <- MCClients
    Chatty <- MCOneChatty
    Pids <- MCPids
    None = None
    Builds <- MCBoth
    MaxClients = 2
    MaxBacklog = 2
    MaxErrors = 1
    Faults <- MCEverything
CHECK_DEADLOCK FALSE
INVARIANT ServedLimit
INVARIANT OneServerEach
PROPERTY WaitingIsServed
PROPERTY InterruptEnds
PROPERTY ZombiesAreReaped
