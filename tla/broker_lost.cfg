SPECIFICATION Spec
CONSTANTS
    Id = {i1}
    Worker = {w1, w2}
    Priority = {1}
    DeliveryLimit = 1
    VisibilityTimeout = TRUE
    MaxSubmits = 2
INVARIANT
    HeldIsTracked
