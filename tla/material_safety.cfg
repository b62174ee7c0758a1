\* One quiz or overview, its event and the replay, two slots and a fault.
SPECIFICATION Spec
CONSTANTS
    m1 = m1
    s1 = s1
    s2 = s2
    Material = {m1}
    Slot = {s1, s2}
    MaxAttempts = 2
    MaxStalls = 1
    ExhaustedCode = "EXHAUSTED"
    ForeignCode = {"QUEUE_UNAVAILABLE"}
    None = None
    MaxGeneration = 2
    MaxFaults = 1
SYMMETRY Symmetric
VIEW View
INVARIANTS
    SuccessHasContent
    ConflictIsReal
    WaitIsAnswered
PROPERTIES
    ContentOnce
CHECK_DEADLOCK FALSE
