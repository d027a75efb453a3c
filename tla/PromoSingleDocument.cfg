\* Two administrators add an offer at the same time.
CONSTANTS
    Offers = {o1, o2}
    JobIds = {j1, j2}
    Requests = {r1, r2}
    MaxTime = 2
    MaxCrashes = 0
    Starts = {0}
    Ops = {"add"}
    Endless = FALSE
    Serial = FALSE
    ValidWindows = TRUE
    DirtyStops = FALSE
    CallsFail = FALSE
    NoOffer = NoOffer
    NoJob = NoJob
SPECIFICATION Spec
INVARIANT SingleDocument
CHECK_DEADLOCK FALSE
