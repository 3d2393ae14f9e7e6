SPECIFICATION SafetySpec
CONSTANTS
    Key = {k1}
    NoKey = NoKey
    Client = {c1, c2}
    Worker = {w1, w2}
    ChanCap = 1
    WritesBack = TRUE
    Results = {"forget", "after", "rate"}
    MaxOps = 3
    MaxRequeues = 1
    MaxFaults = 1
    MaxRestarts = 1
    Cancels = FALSE
SYMMETRY Symmetry
INVARIANTS
    TypeOK
    DirtyIsQueued
    
    
