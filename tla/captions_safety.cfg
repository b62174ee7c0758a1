\* A job and a live session caption one video for two learners.
SPECIFICATION CaptionsSpec
CONSTANTS
    w1 = w1
    c1 = c1
    c2 = c2
    t1 = t1
    t2 = t2
    Work = {w1}
    Session = {"live"}
    Context = {c1, c2}
    Word = {t1, t2}
    Answer <- Answers
    MaxRuns = 2
    MaxIntakes = 1
    Null = Null
SYMMETRY Symmetric
VIEW View
INVARIANTS
    CaptionsTypeOK
    ContextNeverAhead
    ShownIsReady
    PublishedAsAnswered
PROPERTIES
    VideoNeverGoesBack
CHECK_DEADLOCK FALSE
