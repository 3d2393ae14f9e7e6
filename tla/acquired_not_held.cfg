SPECIFICATION Spec
CONSTANTS
    Node = {n1, n2}
    NoNode = NoNode
    LeaseDuration = 3
    RenewDeadline = 2
    RetryPeriod = 1
    MaxCall = 2
    MaxFaults = 1
    MaxStops = 1
PROPERTY
    AcquiredIsHeld
