\* Two users, two videos and two days; every limit admits one of the works only.
SPECIFICATION Spec
CONSTANTS
    u1 = u1
    u2 = u2
    k1 = k1
    k2 = k2
    w1 = w1
    w2 = w2
    q1 = q1
    q2 = q2
    j1 = j1
    j2 = j2
    User = {u1, u2}
    Key = {k1, k2}
    Work = {w1, w2}
    Request = {q1, q2}
    Worker = {j1}
    Seconds <- TwoLengths
    MaxUserSeconds = 2
    MaxDailySeconds = 2
    MaxDailyCost = 2
    MaxMonthlyCost = 2
    MaxWorks = 1
    MaxWorksPerUser = 1
    None = None
    LastDay = 2
VIEW View
SYMMETRY Symmetric
INVARIANTS
    UserWithinDay
    ServiceWithinLimits
    OpenEventIsWanted
    ChargedForWorkDone
    WorksWithinDay
CHECK_DEADLOCK FALSE
