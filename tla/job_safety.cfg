\* Two slots, one job that can be redelivered while it runs.
SPECIFICATION Spec
CONSTANTS
    k1 = k1
    k2 = k2
    s1 = s1
    s2 = s2
    Job = {k1}
    Slot = {s1, s2}
    MaxAttempts = 3
    MaxStalls = 1
    TaskFailure = {"INVALID"}
    ExhaustedCode = "EXHAUSTED"
    ForeignCode = {"QUEUE_UNAVAILABLE"}
    None = None
    MaxFaults = 3
SYMMETRY Symmetric
INVARIANTS
    TerminalHasLetter
    VerdictsAgree
    GivenUpOnlyWhenSpent
PROPERTIES
    OnlyOwnerRecords
    ImplementsLeasedWork
CHECK_DEADLOCK FALSE
