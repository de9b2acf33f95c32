SPECIFICATION FairSpec
CONSTANTS
    w1 = w1
    w2 = w2
    w3 = w3
    t1 = t1
    t2 = t2
    t3 = t3
    t4 = t4
    Workers <- ThreeWorkers
    Tasks <- FourTasks
    Endless <- OneEndless
    Owner = owner
    NoTask = noTask
INVARIANTS
    TypeOK
    EachTaskInOnePlace
    NoLostWakeup
    DestructorReachesAll
PROPERTIES
    ImplementsTaskPool
    EventuallyStarted
    DestructorReturns
CHECK_DEADLOCK FALSE
