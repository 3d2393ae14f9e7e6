SPECIFICATION Spec
CONSTANTS
    Key = {k1}
    NoKey = NoKey
    Client = {c1}
    Worker = {w1, w2}
    ChanCap = 1
    WritesBack = FALSE
    Results = {"forget", "after", "rate"}
    MaxOps = 2
    MaxRequeues = 1
    MaxFaults = 0
    MaxRestarts = 1
    Cancels = TRUE
PROPERTIES
    EventuallyReconciled
    StopsWhenCancelled
