SPECIFICATION FairSpec
CONSTANTS
    c1 = c1
    c2 = c2
    NoClient = NoClient
    Threads = {1, 2}
    Clients <- MCClients
    Loopback <- MCLoopback
    Access <- MCAccess
    AnyConns = FALSE
INVARIANTS
    AcceptSerial
    AcceptorAlive
    ServesUntilStopped
    OnlyClientsCrash
PROPERTIES
    StopEnds
    EveryoneHandled
