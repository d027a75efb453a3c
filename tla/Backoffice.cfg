\* Every collection, four ways of working, four documents at most.
CONSTANTS
    x = x
    y = y
    a1 = a1
    a2 = a2
    p1 = p1
    MaxDocs = 4
    Bases = {x, y}
    SaltMax = 1
    MaxBatch = 2
    Admins = {a1, a2}
    Products = {p1}
    PageSize = 1
    Families <- AllFamilies
    Scenarios <- AllScenarios
    NoName = NoName
    NoDoc = NoDoc
SPECIFICATION Spec
SYMMETRY Symmetry
INVARIANTS TypeOK ReferencesLive RefusedByChanceOnly SlugFollowsName PagingMissesNothing
PROPERTY DefaultKept
CHECK_DEADLOCK FALSE
