\* Two relays compete for the same rows; one row can be the replay of another.
SPECIFICATION Spec
CONSTANTS
    e1 = e1
    e2 = e2
    r1 = r1
    r2 = r2
    Event = {e1, e2}
    Relay = {r1, r2}
    MaxAttempts = 2
    BatchLimit = 1
    Lease = 2
    PublishTimeout = 1
    RetryDelay = 0
    FailureCode = {"QUEUE_UNAVAILABLE", "INVALID"}
    QueueUnavailable = "QUEUE_UNAVAILABLE"
    None = None
    MaxClaims = 3
    MaxFaults = 2
SYMMETRY Symmetric
INVARIANTS
    PublishedIsQueued
    ClosedWithReason
PROPERTIES
    OnlyHolderSettles
    ImplementsLeasedWork
