\* A post, a course of up to two steps, two overlapping jobs and two faults.
SPECIFICATION Spec
CONSTANTS
    p1 = p1
    s1 = s1
    s2 = s2
    x1 = x1
    x2 = x2
    Post = {p1}
    Step = {s1, s2}
    Slot = {x1, x2}
    None = None
    MaxVersion = 3
    MaxEdits = 2
    MaxFaults = 2
VIEW View
SYMMETRY Symmetric
INVARIANTS
    StaleIsQueued
    GoneIsForgotten
    ServedAsShown
PROPERTIES
    IndexNeverGoesBack
    NothingUnseenIsRemoved
CHECK_DEADLOCK FALSE
