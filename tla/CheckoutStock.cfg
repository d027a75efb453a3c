SPECIFICATION Spec
CONSTANTS
    u1 = u1
    u2 = u2
    s1 = s1
    s2 = s2
    s3 = s3
    p1 = p1
    p2 = p2
    l1 = l1
    l2 = l2
    Users = {u1, u2}
    Sessions = {s1, s2, s3}
    Products = {p1, p2}
    Coupons = {}
    Owner <- TwoUsersAndAdmin
    LineIds = {}
    MaxOrders = 2
    CartLists = {}
    Drafts <- TwoItems
    MaxQty = 2
    MaxCancelled = 2
    Stock = 3
    CartLimit <- NoLimit
    Tracked = {}
    Statuses = {5, 6, 7}
    Ops <- StockOps
    CallsFail = TRUE
    NoUser = NoUser
    NoLine = NoLine
    NoOrder = NoOrder
    NoCoupon = NoCoupon
    NoProduct = NoProduct
INVARIANT StockSettled
INVARIANT StockBounds
PROPERTY NothingUndone
CHECK_DEADLOCK FALSE
