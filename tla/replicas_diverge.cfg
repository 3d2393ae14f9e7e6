SPECIFICATION SafetySpec
CONSTANTS
    Parts = {"raft"}
    Caller = {}
    FailureThreshold = 1
    SuccessThreshold = 1
    PlanNode = {}
    AllocID = {}
    Capacity = {}
    Demand = {}
    MaxEvictions = 1
    MaxPlacements = 2
    DrainedNode = {}
    BatchSize = 1
    AllocCount = {}
    ChannelSize = 1
    MaxDrains = 1
    ObjectKey = {}
    MaxUID = 0
    MaxGCFaults = 0
    Poller = {}
    MaxIndex = 1
    Key = {}
    QueueWorkers = {w1}
    MaxRetries = 0
    MaxAsleep = 0
    MaxQueue = 0
    Client = {}
    NoValue = NoValue
    MaxLeases = 2
    MaxStoreFaults = 0
    Process = {}
    MaxCounted = 0
    Replica = {r1, r2}
    ResourceKey = {t1}
    KVKey = {}
    Alloc = {b1, b2}
    MinHealthyTime = 1
    Canaries = 1
    TotalAllocations = 2
    Entity = {e1, e2}
    MaxRegistrations = 2
    ObjKey = {x1, x2}
    Handler = {h1, h2}
    MaxEvents = 3
    DelayedKey = {d1, d2}
    MaxDelay = 3
    IdleSleep = 4
    MaxCallers = 2
    MaxLog = 3
INVARIANT
    ReplicasAgree
CHECK_DEADLOCK FALSE
