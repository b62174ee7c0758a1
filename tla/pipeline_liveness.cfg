\* One relay and one slot carry one event through, with faults on either side.
SPECIFICATION FairSpec
CONSTANTS
    e1 = e1
    e2 = e2
    e3 = e3
    r1 = r1
    s1 = s1
    s2 = s2
    Event = {e1}
    Relay = {r1}
    Slot = {s1}
    MaxAttempts = 2
    BatchLimit = 1
    Lease = 2
    PublishTimeout = 1
    RetryDelay = 0
    MaxStalls = 1
    TaskFailure = {"INVALID"}
    ExhaustedCode = "EXHAUSTED"
    QueueUnavailable = "QUEUE_UNAVAILABLE"
    None = None
    MaxClaims = 3
    MaxRelayFaults = 2
    MaxSlotFaults = 1
PROPERTIES
    EveryEventFinishes
