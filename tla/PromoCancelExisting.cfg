\* One administrator adds, deletes by id, adds again and updates.
CONSTANTS
    Offers = {o1, o2}
    JobIds = {j1, j2, j3, j4}
    Requests = {r1}
    MaxTime = 3
    MaxCrashes = 0
    Starts = {0}
    Ops = {"add", "delete", "update"}
    Endless = TRUE
    Serial = TRUE
    ValidWindows = TRUE
    DirtyStops = FALSE
    CallsFail = FALSE
    NoOffer = NoOffer
    NoJob = NoJob
SPECIFICATION Spec
INVARIANT ExistingScheduleCancelled
CHECK_DEADLOCK FALSE
