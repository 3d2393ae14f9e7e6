SPECIFICATION SafetySpec
CONSTANTS
    Parts = {"breaker", "applier", "drainer", "collector", "worker", "lock", "counter",
             "raft", "rollout", "tracker", "informer", "delays"}
    Caller = {g1, g2, g3}
    FailureThreshold = 2
    SuccessThreshold = 2
    PlanNode = {m1, m2}
    AllocID = {a1, a2}
    Capacity = {2, 3}
    Demand = {1, 2}
    MaxEvictions = 1
    MaxPlacements = 2
    DrainedNode = {n1}
    BatchSize = 2
    AllocCount = {0, 3}
    ChannelSize = 1
    MaxDrains = 3
    ObjectKey = {o1, o2}
    MaxUID = 3
    MaxGCFaults = 1
    Poller = {p1, p2}
    MaxIndex = 3
    Key = {k1, k2}
    QueueWorkers = {w1, w2}
    MaxRetries = 1
    MaxAsleep = 1
    MaxQueue = 2
    Client = {c1, c2, c3}
    NoValue = NoValue
    MaxLeases = 3
    MaxStoreFaults = 2
    Process = {s1, s2, s3}
    MaxCounted = 4
    Replica = {r1, r2}
    ResourceKey = {t1}
    KVKey = {v1}
    Alloc = {b1, b2}
    MinHealthyTime = 1
    Canaries = 1
    TotalAllocations = 2
    Entity = {e1, e2}
    MaxRegistrations = 2
    ObjKey = {x1, x2}
    Handler = {h1, h2}
    MaxEvents = 3
    DelayedKey = {d1, d2}
    MaxDelay = 3
    IdleSleep = 4
    MaxCallers = 2
    MaxLog = 3
INVARIANTS
    ClosedBelowThreshold
    UsedCoversAllocations
    NotOvercommitted
    RunningIsRegistered
    NoOrphans
    RetriesAreBounded
    LockIsExclusive
    
    FollowsLog
    OneReportPerRegistration
    HandlersKnowTheCache
    NothingIsOverslept
PROPERTY
    FlappingDoesNotCount
CHECK_DEADLOCK FALSE
