\* One administrator, prompt server, clean restarts, valid windows.
CONSTANTS
    Offers = {o1, o2}
    JobIds = {j1, j2, j3}
    Requests = {r1}
    MaxTime = 3
    MaxCrashes = 2
    Starts = {0, 2}
    Ops = {"add", "update", "deleteMultiple"}
    Endless = TRUE
    Serial = TRUE
    ValidWindows = TRUE
    DirtyStops = FALSE
    CallsFail = FALSE
    NoOffer = NoOffer
    NoJob = NoJob
SPECIFICATION FairSpec
INVARIANT EndJobsMatchOffers
PROPERTY NeverEndedEarly
PROPERTY EveryOfferEnds
CHECK_DEADLOCK FALSE
