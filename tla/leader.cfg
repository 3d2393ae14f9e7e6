SPECIFICATION Spec
CONSTANTS
    Node = {n1, n2, n3}
    NoNode = NoNode
    LeaseDuration = 3
    RenewDeadline = 2
    RetryPeriod = 1
    MaxCall = 2
    MaxFaults = 2
    MaxStops = 1
INVARIANTS
    TypeOK
    OverlapIsBrief
PROPERTIES
    OnlyExpiredIsStolen
    
