\* Two events and a replay that waits; the relay may give up what the queue has
\* taken.
SPECIFICATION ThreeRowSpec
CONSTANTS
    e1 = e1
    e2 = e2
    e3 = e3
    r1 = r1
    s1 = s1
    s2 = s2
    Event = {e1, e2, e3}
    Relay = {r1}
    Slot = {s1}
    MaxAttempts = 1
    BatchLimit = 2
    Lease = 2
    PublishTimeout = 1
    RetryDelay = 0
    MaxStalls = 1
    TaskFailure = {"INVALID"}
    ExhaustedCode = "EXHAUSTED"
    QueueUnavailable = "QUEUE_UNAVAILABLE"
    None = None
    MaxClaims = 2
    MaxRelayFaults = 2
    MaxSlotFaults = 0
SYMMETRY Symmetric
INVARIANTS
    LettersExplained
    RepeatedOnlyIfUnheard
    ReplayedOnce
