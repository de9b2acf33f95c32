SPECIFICATION Spec
CONSTANTS
    host = host
    a = a
    b = b
    d = d
    h1 = h1
    h2 = h2
    h3 = h3
    hostName = hostName
    aName = aName
    bName = bName
    dName = dName
    Host = host
    HostName = hostName
    Anon = anon
    Blank = blank
    Listen = listen
    Nobody = nobody
    Acceptor = acceptor
    Main = main
    Names <- FourNames
    Clients <- TwoClients
    Handles <- TwoHandles
    MainAt = "asleep"
    Late = {}
    PoolSize = 3
    Says <- LoginSays
    Quota <- LoginQuota
    MayDrop <- OnlyB
    Restless <- MainOnly
SYMMETRY HandleSymmetry
INVARIANTS
    TypeOK
    RegistryConsistent
    UniqueNames
    GoodbyeIsTrue
PROPERTIES
    OnlyOwnQuitRemoves
    RunsOnPool
CHECK_DEADLOCK FALSE
