SPECIFICATION ServingSpec
CONSTANTS
    host = host
    a = a
    b = b
    d = d
    h1 = h1
    h2 = h2
    h3 = h3
    hostName = hostName
    aName = aName
    bName = bName
    dName = dName
    Host = host
    HostName = hostName
    Anon = anon
    Blank = blank
    Listen = listen
    Nobody = nobody
    Acceptor = acceptor
    Main = main
    Names <- FourNames
    Clients <- TwoClients
    Handles <- ThreeHandles
    MainAt = "asleep"
    Late = {}
    PoolSize = 10
    Says <- UploadSays
    Quota <- UploadQuota
    MayDrop = {}
    Restless <- MainOnly
INVARIANTS
    NoFlagLeftBehind
    OneWaiter
    InfoAfterApproval
CHECK_DEADLOCK FALSE
