SPECIFICATION Spec
CONSTANTS
    Key = {k1}
    NoKey = NoKey
    Client = {c1}
    Worker = {w1}
    ChanCap = 2
    WritesBack = TRUE
    Results = {"forget", "rate"}
    MaxOps = 2
    MaxRequeues = 0
    MaxFaults = 0
    MaxRestarts = 0
    Cancels = FALSE
PROPERTY
    EventuallyIdle
