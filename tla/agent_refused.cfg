\* A run whose work all succeeds, but for the quiz its payload is too old for.
SPECIFICATION FairSpec
CONSTANTS
    w1 = w1
    w2 = w2
    p1 = p1
    Worker = {w1}
    Step = {p1}
    Posted = {p1}
    CallBudget = 1
    TokenBudget = 1
    Outcomes <- QuizRefused
    None = None
    MaxAttempts = 1
    MaxEvents = 2
    MaxFaults = 0
PROPERTIES
    ApprovedCompletes
CHECK_DEADLOCK FALSE
