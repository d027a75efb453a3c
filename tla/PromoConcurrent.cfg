\* Overlapping calls of every kind, jobs and recovery; the process may stop
\* anywhere, calls may fail, any window may be submitted.
CONSTANTS
    Offers = {o1, o2}
    JobIds = {j1, j2, j3}
    Requests = {r1, r2}
    MaxTime = 3
    MaxCrashes = 1
    Starts = {0}
    Ops = {"add", "insertMany", "update", "updateMultiple", "delete", "deleteMultiple"}
    Endless = FALSE
    Serial = FALSE
    ValidWindows = FALSE
    DirtyStops = TRUE
    CallsFail = TRUE
    NoOffer = NoOffer
    NoJob = NoJob
SPECIFICATION Spec
INVARIANT TypeOK
INVARIANT SubmittedEnds
PROPERTY ImplementsLifecycle
SYMMETRY Symmetry
CHECK_DEADLOCK FALSE
