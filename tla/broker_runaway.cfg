SPECIFICATION WorkingSpec
CONSTANTS
    Id = {i1}
    Worker = {w1}
    Priority = {1}
    DeliveryLimit = 1
    VisibilityTimeout = TRUE
    MaxSubmits = 1
PROPERTY
    RunawayIsDeadLettered
