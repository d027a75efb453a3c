\* The collections a product refers to once, carefully administered.
CONSTANTS
    x = x
    y = y
    a1 = a1
    a2 = a2
    p1 = p1
    MaxDocs = 4
    Bases = {x, y}
    SaltMax = 1
    MaxBatch = 2
    Admins = {a1, a2}
    Products = {p1}
    PageSize = 1
    Families <- SingleFamilies
    Scenarios <- CarefulOnly
    NoName = NoName
    NoDoc = NoDoc
SPECIFICATION Spec
INVARIANT UsageReset
CHECK_DEADLOCK FALSE
