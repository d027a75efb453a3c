\* One administrator at a time; the process may stop anywhere.
CONSTANTS
    Offers = {o1, o2}
    JobIds = {j1, j2, j3, j4}
    Requests = {r1}
    MaxTime = 3
    MaxCrashes = 2
    Starts = {0, 2}
    Ops = {"add", "update", "deleteMultiple"}
    Endless = TRUE
    Serial = TRUE
    ValidWindows = TRUE
    DirtyStops = TRUE
    CallsFail = FALSE
    NoOffer = NoOffer
    NoJob = NoJob
SPECIFICATION Spec
INVARIANT PersistedEndIsArmed
SYMMETRY Symmetry
CHECK_DEADLOCK FALSE
