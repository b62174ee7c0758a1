\* Two learners, a session each, two verifications and two requests: a mark
\* of the tick before is too old.  A learner may as well sign in twice.
SPECIFICATION Spec
CONSTANTS
    Person = {p1, p2}
    Session = {s1, s2}
    Attempt = {t1, t2}
    Video = {v1}
    Request = {r1, r2}
    None = None
    AttemptTtl = 1
    ReauthTtl = 0
    SessionTtl = 2
    LastTime = 1
    MaxFaults = 1
SYMMETRY Symmetry
VIEW View
CONSTRAINT OneKind
INVARIANTS
    ReferencesHold
    NothingRemains
PROPERTIES
    ErasedByOwner
CHECK_DEADLOCK FALSE
