\* A run of two attempts and one step from a post, two workers, two faults and edits of the course.
SPECIFICATION Spec
CONSTANTS
    w1 = w1
    w2 = w2
    p1 = p1
    Worker = {w1, w2}
    Step = {p1}
    Posted = {p1}
    CallBudget = 2
    TokenBudget = 2
    Outcomes <- RetrievalFails
    None = None
    MaxAttempts = 2
    MaxEvents = 3
    MaxFaults = 2
VIEW View
SYMMETRY Symmetric
INVARIANTS
    BudgetKept
    RunFollowsAttempts
    RunFollowsItems
    WaitingHasJob
PROPERTIES
    ApprovedWhatWasSeen
CHECK_DEADLOCK FALSE
