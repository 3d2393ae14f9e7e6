SPECIFICATION Spec
CONSTANTS
    Id = {i1, i2}
    Worker = {w1, w2}
    Priority = {1, 2}
    DeliveryLimit = 1
    VisibilityTimeout = TRUE
    MaxSubmits = 2
INVARIANTS
    TypeOK
    NoLostWakeup
PROPERTIES
    LeavesOnlyOnAck
    CoalescesUpwards
    AbandonedIsTakenBack
    CloseReleases
