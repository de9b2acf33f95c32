SPECIFICATION ServingSystemFairSpec
CONSTANTS
    host = host
    a = a
    b = b
    d = d
    h1 = h1
    h2 = h2
    h3 = h3
    hostName = hostName
    aName = aName
    bName = bName
    dName = dName
    Host = host
    HostName = hostName
    Anon = anon
    Blank = blank
    Listen = listen
    Nobody = nobody
    Acceptor = acceptor
    Main = main
    Names <- FourNames
    Clients <- OnlyA
    Handles <- OneHandle
    MainAt = "asleep"
    Late = {}
    PoolSize = 10
    Says <- ClientSays
    Quota <- ClientQuota
    MayDrop = {}
    Restless <- ClientThreads
    Types <- ClientTypes
    Lines <- OneLine
INVARIANTS
    ClientTypeOK
    AnswerNeedsLine
    OneReader
    InfoIsFetched
    NoCircularWait
PROPERTIES
    PeersSuffice
    ClientCloses
    KeyboardComesBack
    EndReachesAll
CHECK_DEADLOCK FALSE
