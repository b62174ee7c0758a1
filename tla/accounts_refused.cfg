\* One learner verifies and deletes the account.
SPECIFICATION Spec
CONSTANTS
    Person = {p1, p2}
    Session = {s1, s2}
    Attempt = {t1}
    Video = {v1}
    Request = {r1}
    None = None
    AttemptTtl = 1
    ReauthTtl = 0
    SessionTtl = 2
    LastTime = 1
    MaxFaults = 1
SYMMETRY Symmetry
PROPERTIES
    ProvenIsNotRefused
CHECK_DEADLOCK FALSE
