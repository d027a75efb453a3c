------------------------------ MODULE Checkout ------------------------------
(***************************************************************************)
(* Carts, coupons, orders and stock: CartService (pages/cart),             *)
(* CouponService.checkCouponAvailability (pages/offers/coupon) and         *)
(* OrderService (pages/sales/order).                                       *)
(*                                                                         *)
(* No handler uses a transaction: each is a sequence of awaited database   *)
(* calls on carts, users, orders and products, and the calls of all        *)
(* sessions interleave.  Each action is the code from one database call,   *)
(* as the database executes it, to the next.  A session is one browser     *)
(* tab: it sends a call when the one before is answered.                   *)
(***************************************************************************)
EXTENDS Integers, FiniteSets

CONSTANTS
    Users, Sessions, Products, Coupons,
    Owner,          \* the user of each session, or NoUser: guest or admin
    LineIds,        \* ids of the cart lines alive at one time
    MaxOrders,      \* order numbers go up to this
    CartLists,      \* the items sessions add to a cart
    Drafts,         \* the orders sessions submit
    MaxQty,         \* bound of the units in a call and in a cart line
    MaxCancelled,   \* bound of the units of a product that cancels put back
    Stock,          \* quantity of each product at the start
    CartLimit,      \* cartLimit of each product, 0 for none
    Tracked,        \* the products with trackQuantity
    Statuses,       \* the statuses administrators set
    Ops,            \* the operations in use at each session
    CallsFail,      \* a database call may fail
    NoUser, NoLine, NoOrder, NoCoupon, NoProduct

AllOps == {"addToCart", "deleteCart", "updateCart", "updateCartQty",
           "checkCoupon", "addOrder", "insertMany", "changeStatus",
           "deleteOrder"}

\* enum OrderStatus
PENDING    == 1
CONFIRM    == 2
PROCESSING == 3
SHIPPING   == 4
DELIVERED  == 5
CANCEL     == 6
REFUND     == 7

\* A list of items, by product.  The loops over one take the products in any
\* order: the array's order is the client's.
Items == [Products -> 0..MaxQty]
NoItems == [p \in Products |-> 0]
Qtys == (-MaxQty)..MaxQty
Line == [user: Users, product: Products, qty: Qtys]
\* What a client fills in: an order begins PENDING with nothing done.
Draft == [items: Items, hasTimeline: BOOLEAN, paid: BOOLEAN]
\* done: the timeline entries with success; dated: deliveryDate is set.
Order == [user: Users \union {NoUser}, items: Items,
          coupon: Coupons \union {NoCoupon}, status: PENDING..REFUND,
          hasTimeline: BOOLEAN, done: SUBSET (CONFIRM..REFUND),
          paid: BOOLEAN, dated: BOOLEAN]

ASSUME ConstantsAssumption ==
    /\ Owner \in [Sessions -> Users \union {NoUser}]
    /\ NoUser \notin Users
    /\ IsFiniteSet(Sessions)
    /\ MaxOrders \in Nat
    /\ MaxQty \in Nat
    /\ MaxCancelled \in Nat
    /\ CartLists \subseteq Items
    /\ Drafts \subseteq Draft
    /\ Stock \in Int
    /\ CartLimit \in [Products -> Nat]
    /\ Tracked \subseteq Products
    /\ Statuses \subseteq PENDING..REFUND
    /\ Ops \in [Sessions -> SUBSET AllOps]
    /\ CallsFail \in BOOLEAN
    /\ NoLine \notin Line \union LineIds
    /\ NoOrder \notin Order
    /\ NoCoupon \notin Coupons
    /\ NoProduct \notin Products

VARIABLES
    lines,          \* carts: the documents of the collection
    carts,          \* users.carts: the line ids each user refers to
    usedCoupons,    \* users.usedCoupons
    orders,         \* orders, by their number
    orderSeq,       \* uniqueids.orderId: the last number given
    quantity,       \* products.quantity
    totalSold,      \* products.totalSold
    call,           \* the call each session has in flight
    granted,        \* the coupons the last checks granted to each session
    \* Observation only: units of the orders addOrder saved, units of the
    \* cancels written, whether some call has failed half-way, and the users
    \* whose cart a form gave or took a line, or a line of another product.
    placed, cancelled, failed, readdressed

cartVars  == <<lines, carts>>
orderVars == <<orders, orderSeq>>
stockVars == <<quantity, totalSold>>
obsVars   == <<placed, cancelled, failed, readdressed>>
vars == <<lines, carts, usedCoupons, orders, orderSeq, quantity, totalSold,
          call, granted, placed, cancelled, failed, readdressed>>

\* A call in flight: its next database call and the data it still uses.
Pcs == {"idle", "find", "inc", "saveLine", "pushLine", "pull", "incQty",
        "saveOrder", "clear", "empty", "coupon", "sold", "deduct",
        "setStatus", "restock", "insert"}
Call == [pc: Pcs, todo: Items, item: Products \union {NoProduct},
         line: LineIds \union {NoLine}, by: Qtys, number: 0..MaxOrders,
         order: Order \union {NoOrder}]
Idle == [pc |-> "idle", todo |-> NoItems, item |-> NoProduct, line |-> NoLine,
         by |-> 0, number |-> 0, order |-> NoOrder]

TypeOK ==
    /\ lines \in [LineIds -> Line \union {NoLine}]
    /\ carts \in [Users -> SUBSET LineIds]
    /\ usedCoupons \in [Users -> SUBSET Coupons]
    /\ orders \in [1..MaxOrders -> Order \union {NoOrder}]
    /\ orderSeq \in 0..MaxOrders
    /\ quantity \in [Products -> Int]
    /\ totalSold \in [Products -> Int]
    /\ call \in [Sessions -> Call]
    /\ granted \in [Sessions -> SUBSET Coupons]
    /\ placed \in [Products -> Nat]
    /\ cancelled \in [Products -> Nat]
    /\ failed \in BOOLEAN
    /\ readdressed \subseteq Users

Init ==
    /\ lines = [l \in LineIds |-> NoLine]
    /\ carts = [u \in Users |-> {}]
    /\ usedCoupons = [u \in Users |-> {}]
    /\ orders = [n \in 1..MaxOrders |-> NoOrder]
    /\ orderSeq = 0
    /\ quantity = [p \in Products |-> Stock]
    /\ totalSold = [p \in Products |-> 0]
    /\ call = [s \in Sessions |-> Idle]
    /\ granted = [s \in Sessions |-> {}]
    /\ placed = [p \in Products |-> 0]
    /\ cancelled = [p \in Products |-> 0]
    /\ failed = FALSE
    /\ readdressed = {}

InFlight(s) == call[s].pc # "idle"
IsAdmin(s) == Owner[s] = NoUser
MayStart(s, op) == op \in Ops[s] /\ ~InFlight(s)
UserMayStart(s, op) == MayStart(s, op) /\ ~IsAdmin(s)
AdminMayStart(s, op) == MayStart(s, op) /\ IsAdmin(s)

Goto(s, pc) == call' = [call EXCEPT ![s].pc = pc]
Respond(s)  == call' = [call EXCEPT ![s] = Idle]

LineExists(l) == lines[l] # NoLine
LinesOf(u) == {l \in LineIds : LineExists(l) /\ lines[l].user = u}
LineIdsInUse == {l \in LineIds : LineExists(l)}
                \union (UNION {carts[u] : u \in Users})
                \union {call[s].line : s \in Sessions}

\* $inc of f by q at x.
Inc(f, x, q) == [f EXCEPT ![x] = @ + q]

Plus(f, items) == [p \in Products |-> f[p] + items[p]]

\* The for-of loops: one begins at database call pc, or is over at once; the
\* next item is p; item p is done.
Loop(s, pc, items) ==
    IF items = NoItems THEN Respond(s)
    ELSE call' = [call EXCEPT ![s] = [@ EXCEPT !.pc = pc, !.todo = items]]

Pending(s) == {p \in Products : call[s].todo[p] > 0}

NextItem(s, p, pc) ==
    IF Pending(s) \subseteq {p} THEN Respond(s)
    ELSE call' = [call EXCEPT ![s] = [@ EXCEPT !.pc = pc, !.todo[p] = 0,
                      !.item = NoProduct, !.line = NoLine]]

(***************************************************************************)
(* CartService                                                             *)
(***************************************************************************)
\* addToCart, and addToCartMultiple with several items.
AddToCart(s) ==
    /\ UserMayStart(s, "addToCart")
    /\ \E items \in CartLists : Loop(s, "find", items)
    /\ UNCHANGED <<cartVars, usedCoupons, orderVars, stockVars, granted, obsVars>>

\* The lines findOne({user, product}) matches.
LinesFor(u, p) == {l \in LinesOf(u) : lines[l].product = p}

FindLine(s) ==
    /\ call[s].pc = "find"
    /\ \E p \in Pending(s) :
          \/ \E l \in LinesFor(Owner[s], p) :
                call' = [call EXCEPT ![s] =
                             [@ EXCEPT !.pc = "inc", !.item = p, !.line = l]]
          \/ /\ LinesFor(Owner[s], p) = {}
             /\ call' = [call EXCEPT ![s] =
                             [@ EXCEPT !.pc = "saveLine", !.item = p]]
    /\ UNCHANGED <<cartVars, usedCoupons, orderVars, stockVars, granted, obsVars>>

\* $inc selectedQty of line l by q, which does nothing when the line is gone.
IncLineQty(l, q) ==
    IF LineExists(l)
    THEN /\ lines[l].qty + q \in Qtys
         /\ lines' = [lines EXCEPT ![l].qty = @ + q]
    ELSE UNCHANGED lines

IncLine(s) ==
    /\ call[s].pc = "inc"
    /\ IncLineQty(call[s].line, call[s].todo[call[s].item])
    /\ NextItem(s, call[s].item, "find")
    /\ UNCHANGED <<carts, usedCoupons, orderVars, stockVars, granted, obsVars>>

\* newData.save()
SaveLine(s) ==
    LET p == call[s].item IN
    /\ call[s].pc = "saveLine"
    /\ \E l \in LineIds \ LineIdsInUse :
          /\ lines' = [lines EXCEPT ![l] = [user |-> Owner[s],
                           product |-> p, qty |-> call[s].todo[p]]]
          /\ call' = [call EXCEPT ![s] =
                          [@ EXCEPT !.pc = "pushLine", !.line = l]]
    /\ UNCHANGED <<carts, usedCoupons, orderVars, stockVars, granted, obsVars>>

\* $push: {carts: saveData._id}
PushLine(s) ==
    /\ call[s].pc = "pushLine"
    /\ carts' = [carts EXCEPT ![Owner[s]] = @ \union {call[s].line}]
    /\ NextItem(s, call[s].item, "find")
    /\ UNCHANGED <<lines, usedCoupons, orderVars, stockVars, granted, obsVars>>

\* deleteCartById: the line goes, then the reference.
DeleteCart(s) ==
    /\ UserMayStart(s, "deleteCart")
    /\ \E l \in LinesOf(Owner[s]) \union carts[Owner[s]] :
          /\ lines' = [lines EXCEPT ![l] = NoLine]
          /\ call' = [call EXCEPT ![s] = [@ EXCEPT !.pc = "pull", !.line = l]]
    /\ UNCHANGED <<carts, usedCoupons, orderVars, stockVars, granted, obsVars>>

PullLine(s) ==
    /\ call[s].pc = "pull"
    /\ carts' = [carts EXCEPT ![Owner[s]] = @ \ {call[s].line}]
    /\ Respond(s)
    /\ UNCHANGED <<lines, usedCoupons, orderVars, stockVars, granted, obsVars>>

\* updateCartById writes the form as it comes: any of the quantity, the product
\* and the user of one of the user's lines.  No other line is looked at, and
\* users.carts is left alone.
UpdateCart(s) ==
    /\ UserMayStart(s, "updateCart")
    /\ \E l \in LinesOf(Owner[s]), to \in Users, p \in Products :
          /\ \E q \in {lines[l].qty} \union 1..MaxQty :
                lines' = [lines EXCEPT ![l] = [user |-> to, product |-> p, qty |-> q]]
          /\ readdressed' = IF to = lines[l].user /\ p = lines[l].product
                            THEN readdressed
                            ELSE readdressed \union {lines[l].user, to}
    /\ UNCHANGED <<carts, usedCoupons, orderVars, stockVars, call, granted,
                   placed, cancelled, failed>>

\* The guards of an increment, on the line and the product as findById read them.
MayIncrement(l) ==
    LET p == lines[l].product IN
    /\ CartLimit[p] > 0 => lines[l].qty < CartLimit[p]
    /\ p \in Tracked => lines[l].qty < quantity[p]

\* updateCartQty; a refused increment changes nothing.
UpdateCartQty(s) ==
    /\ UserMayStart(s, "updateCartQty")
    /\ \E l \in LinesOf(Owner[s]), q \in 1..MaxQty :
          \E by \in {-q} \union (IF MayIncrement(l) THEN {q} ELSE {}) :
             call' = [call EXCEPT ![s] =
                          [@ EXCEPT !.pc = "incQty", !.line = l, !.by = by]]
    /\ UNCHANGED <<cartVars, usedCoupons, orderVars, stockVars, granted, obsVars>>

IncQty(s) ==
    /\ call[s].pc = "incQty"
    /\ IncLineQty(call[s].line, call[s].by)
    /\ Respond(s)
    /\ UNCHANGED <<carts, usedCoupons, orderVars, stockVars, granted, obsVars>>

(***************************************************************************)
(* CouponService                                                           *)
(***************************************************************************)
\* Mutant of CheckCoupon: a used coupon is granted again.
CheckCouponAgain(s) ==
    /\ UserMayStart(s, "checkCoupon")
    /\ \E c \in Coupons : granted' = [granted EXCEPT ![s] = @ \union {c}]
    /\ UNCHANGED <<cartVars, usedCoupons, orderVars, stockVars, call, obsVars>>

\* checkCouponAvailability grants a coupon the user has not used.  It may also
\* refuse one for its dates or its minimum amount; a refusal changes nothing.
CheckCoupon(s) ==
    /\ UserMayStart(s, "checkCoupon")
    /\ \E c \in Coupons \ usedCoupons[Owner[s]] :
          granted' = [granted EXCEPT ![s] = @ \union {c}]
    /\ UNCHANGED <<cartVars, usedCoupons, orderVars, stockVars, call, obsVars>>

(***************************************************************************)
(* OrderService                                                            *)
(***************************************************************************)
NewOrder(d, u, c) ==
    [user |-> u, items |-> d.items, coupon |-> c, status |-> PENDING,
     hasTimeline |-> d.hasTimeline, done |-> {}, paid |-> d.paid,
     dated |-> FALSE]

\* addOrder, addOrderByUser: $inc takes the next number.  The session submits a
\* draft with a coupon it was granted, and forgets its grants.
AddOrder(s) ==
    /\ MayStart(s, "addOrder")
    /\ orderSeq < MaxOrders
    /\ orderSeq' = orderSeq + 1
    /\ \E d \in Drafts, c \in granted[s] \union {NoCoupon} :
          call' = [call EXCEPT ![s] = [@ EXCEPT
                       !.pc = "saveOrder", !.number = orderSeq + 1,
                       !.order = NewOrder(d, Owner[s], c)]]
    /\ granted' = [granted EXCEPT ![s] = {}]
    /\ UNCHANGED <<cartVars, usedCoupons, orders, stockVars, obsVars>>

\* newData.save(), which fails on a number that is taken.
SaveOrder(s) ==
    LET n == call[s].number    o == call[s].order IN
    /\ call[s].pc = "saveOrder"
    /\ \/ /\ orders[n] # NoOrder
          /\ Respond(s)
          /\ UNCHANGED <<orders, placed>>
       \/ /\ orders[n] = NoOrder
          /\ orders' = [orders EXCEPT ![n] = o]
          /\ placed' = Plus(placed, o.items)
          /\ IF IsAdmin(s) THEN Loop(s, "sold", o.items) ELSE Goto(s, "clear")
    /\ UNCHANGED <<cartVars, usedCoupons, orderSeq, stockVars, granted,
                   cancelled, failed, readdressed>>

\* cartModel.deleteMany({user})
ClearLines(s) ==
    /\ call[s].pc = "clear"
    /\ lines' = [l \in LineIds |-> IF l \in LinesOf(Owner[s]) THEN NoLine
                                   ELSE lines[l]]
    /\ Goto(s, "empty")
    /\ UNCHANGED <<carts, usedCoupons, orderVars, stockVars, granted, obsVars>>

\* Mutant of EmptyCart: the user's references stay.
KeepCart(s) ==
    /\ call[s].pc = "empty"
    /\ IF call[s].order.coupon = NoCoupon
       THEN Loop(s, "sold", call[s].order.items)
       ELSE Goto(s, "coupon")
    /\ UNCHANGED <<cartVars, usedCoupons, orderVars, stockVars, granted, obsVars>>

\* $set: {carts: []}
EmptyCart(s) ==
    /\ call[s].pc = "empty"
    /\ carts' = [carts EXCEPT ![Owner[s]] = {}]
    /\ IF call[s].order.coupon = NoCoupon
       THEN Loop(s, "sold", call[s].order.items)
       ELSE Goto(s, "coupon")
    /\ UNCHANGED <<lines, usedCoupons, orderVars, stockVars, granted, obsVars>>

\* $push: {usedCoupons: coupon}
UseCoupon(s) ==
    /\ call[s].pc = "coupon"
    /\ usedCoupons' = [usedCoupons EXCEPT ![Owner[s]] =
                           @ \union {call[s].order.coupon}]
    /\ Loop(s, "sold", call[s].order.items)
    /\ UNCHANGED <<cartVars, orderVars, stockVars, granted, obsVars>>

\* $inc: {totalSold: f.quantity}
CountSold(s) ==
    /\ call[s].pc = "sold"
    /\ \E p \in Pending(s) :
          /\ totalSold' = Inc(totalSold, p, call[s].todo[p])
          /\ call' = [call EXCEPT ![s] = [@ EXCEPT !.pc = "deduct", !.item = p]]
    /\ UNCHANGED <<cartVars, usedCoupons, orderVars, quantity, granted, obsVars>>

\* Mutant of DeductStock: one unit goes, whatever was ordered.
DeductOne(s) ==
    /\ call[s].pc = "deduct"
    /\ quantity' = Inc(quantity, call[s].item, -1)
    /\ NextItem(s, call[s].item, "sold")
    /\ UNCHANGED <<cartVars, usedCoupons, orderVars, totalSold, granted, obsVars>>

\* $inc: {quantity: -f.quantity}
DeductStock(s) ==
    LET p == call[s].item IN
    /\ call[s].pc = "deduct"
    /\ quantity' = Inc(quantity, p, -call[s].todo[p])
    /\ NextItem(s, p, "sold")
    /\ UNCHANGED <<cartVars, usedCoupons, orderVars, totalSold, granted, obsVars>>

\* The orders S are deleted.  A status change that has read one of them will
\* find no document to write to, which number 0 stands for, even when another
\* order gets the number in the meantime.
OrdersWithout(S) == [n \in 1..MaxOrders |-> IF n \in S THEN NoOrder ELSE orders[n]]
CallsWithout(S) == [s \in Sessions |->
    IF call[s].pc = "setStatus" /\ call[s].number \in S
    THEN [call[s] EXCEPT !.number = 0] ELSE call[s]]

\* insertManyOrder, with or without the deleteMany option; the file brings its
\* own numbers, and no stock, cart or coupon is touched.
InsertManyOrderStart(s) ==
    /\ AdminMayStart(s, "insertMany")
    /\ \E S \in {{}, 1..MaxOrders} :
          /\ orders' = OrdersWithout(S)
          /\ call' = [CallsWithout(S) EXCEPT ![s].pc = "insert"]
    /\ UNCHANGED <<cartVars, usedCoupons, orderSeq, stockVars, granted, obsVars>>

InsertManyOrder(s) ==
    /\ call[s].pc = "insert"
    /\ \E S \in SUBSET {n \in 1..MaxOrders : orders[n] = NoOrder},
          d \in Drafts :
          orders' = [n \in 1..MaxOrders |->
                        IF n \in S THEN NewOrder(d, NoUser, NoCoupon)
                        ELSE orders[n]]
    /\ Respond(s)
    /\ UNCHANGED <<cartVars, usedCoupons, orderSeq, stockVars, granted, obsVars>>

\* Mutant of StepsDone: pending counts as a step.
StepsDonePending(st) == IF st = DELIVERED THEN CONFIRM..DELIVERED ELSE {st}

\* The timeline entries that setting status st completes.
StepsDone(st) ==
    CASE st = DELIVERED -> CONFIRM..DELIVERED
      [] st = PENDING   -> {}
      [] OTHER          -> {st}

\* Mutant of WithStatus: a payment counts only with the delivery.
WithStatusUnpaid(o, st) ==
    [o EXCEPT !.status = st,
              !.done = IF o.hasTimeline THEN @ \union StepsDone(st) ELSE {},
              !.paid = (st = DELIVERED),
              !.dated = (st = DELIVERED)]

\* Mutant of WithStatus: a delivery completes its own entry only.
WithStatusNoBackfill(o, st) ==
    [o EXCEPT !.status = st,
              !.done = IF o.hasTimeline /\ st # PENDING THEN @ \union {st} ELSE @,
              !.paid = @ \/ st = DELIVERED,
              !.dated = (st = DELIVERED)]

\* mData: the fields changeOrderStatus writes, computed from the order as read.
WithStatus(o, st) ==
    [o EXCEPT !.status = st,
              !.done = IF o.hasTimeline THEN @ \union StepsDone(st) ELSE {},
              !.paid = @ \/ st = DELIVERED,
              !.dated = (st = DELIVERED)]

\* changeOrderStatus: findById
ReadOrder(s) ==
    /\ AdminMayStart(s, "changeStatus")
    /\ \E n \in 1..MaxOrders, st \in Statuses :
          /\ orders[n] # NoOrder
          /\ st = CANCEL => \A p \in Products :
                 cancelled[p] + orders[n].items[p] <= MaxCancelled
          /\ call' = [call EXCEPT ![s] = [@ EXCEPT
                          !.pc = "setStatus", !.number = n,
                          !.order = WithStatus(orders[n], st)]]
    /\ UNCHANGED <<cartVars, usedCoupons, orderVars, stockVars, granted, obsVars>>

\* Mutant of PutsBack: a refund puts the units back as well.
RefundPutsBack(st) == st \in {CANCEL, REFUND}

PutsBack(st) == st = CANCEL

\* findByIdAndUpdate(id, {$set: mData}); a cancel goes on to the stock, whatever
\* the status was and whether or not the order is still there.
SetStatus(s) ==
    LET n == call[s].number    o == call[s].order IN
    /\ call[s].pc = "setStatus"
    /\ orders' = IF n = 0 THEN orders
                 ELSE [orders EXCEPT ![n] =
                           [@ EXCEPT !.status = o.status, !.done = o.done,
                                     !.paid = o.paid, !.dated = o.dated]]
    /\ IF PutsBack(o.status) THEN Loop(s, "restock", o.items) ELSE Respond(s)
    /\ cancelled' = IF o.status = CANCEL THEN Plus(cancelled, o.items)
                    ELSE cancelled
    /\ UNCHANGED <<cartVars, usedCoupons, orderSeq, stockVars, granted, placed,
                   failed, readdressed>>

\* $inc: {quantity: f.quantity}
Restock(s) ==
    /\ call[s].pc = "restock"
    /\ \E p \in Pending(s) :
          /\ quantity' = Inc(quantity, p, call[s].todo[p])
          /\ NextItem(s, p, "restock")
    /\ UNCHANGED <<cartVars, usedCoupons, orderVars, totalSold, granted, obsVars>>

\* deleteOrderById, deleteMultipleOrderById: the stock is not put back.
DeleteOrders(s) ==
    /\ AdminMayStart(s, "deleteOrder")
    /\ \E S \in (SUBSET {n \in 1..MaxOrders : orders[n] # NoOrder}) \ {{}} :
          orders' = OrdersWithout(S) /\ call' = CallsWithout(S)
    /\ UNCHANGED <<cartVars, usedCoupons, orderSeq, stockVars, granted, obsVars>>

(***************************************************************************)
(* The server                                                              *)
(***************************************************************************)
\* A database call fails, or the process stops under the call: what the call
\* has done stays done.
CallFails(s) ==
    /\ CallsFail
    /\ InFlight(s)
    /\ Respond(s)
    /\ failed' = TRUE
    /\ UNCHANGED <<cartVars, usedCoupons, orderVars, stockVars, granted, placed,
                   cancelled, readdressed>>

CartStep(s) ==
    \/ AddToCart(s) \/ FindLine(s) \/ IncLine(s) \/ SaveLine(s) \/ PushLine(s)
    \/ DeleteCart(s) \/ PullLine(s)
    \/ UpdateCart(s)
    \/ UpdateCartQty(s) \/ IncQty(s)

OrderStep(s) ==
    \/ AddOrder(s) \/ SaveOrder(s) \/ ClearLines(s) \/ EmptyCart(s)
    \/ UseCoupon(s) \/ CountSold(s) \/ DeductStock(s)
    \/ InsertManyOrderStart(s) \/ InsertManyOrder(s)
    \/ ReadOrder(s) \/ SetStatus(s) \/ Restock(s)
    \/ DeleteOrders(s)

Next == \E s \in Sessions :
            CartStep(s) \/ CheckCoupon(s) \/ OrderStep(s) \/ CallFails(s)

Spec == Init /\ [][Next]_vars

(***************************************************************************)
(* Properties                                                              *)
(***************************************************************************)
Answered(u) == \A s \in Sessions : Owner[s] = u => ~InFlight(s)

\* Between the calls of a user who waits for each answer, whatever the others
\* do, users.carts names exactly the user's lines, and a product has one line:
\* addToCart, deleteCartById and addOrder agree on two collections that no
\* transaction joins.  Not so once an updateCartById has given a line of the
\* user another product, or moved one to the user or away.
CartConsistent ==
    \A u \in Users \ readdressed : Answered(u) =>
        /\ carts[u] = LinesOf(u)
        /\ \A l, m \in LinesOf(u) : lines[l].product = lines[m].product => l = m

\* checkCouponAvailability: "Sorry! Coupon already used in your account."  No
\* user has two orders with one coupon.
CouponOncePerUser ==
    \A m, n \in 1..MaxOrders :
        /\ orders[m] # NoOrder /\ orders[n] # NoOrder
        /\ orders[m].user # NoUser /\ orders[m].user = orders[n].user
        /\ orders[m].coupon # NoCoupon /\ orders[m].coupon = orders[n].coupon
        => m = n

\* Once every call is answered and none has failed, the stock accounts for
\* every order saved and every cancel written, in whatever order the $inc's of
\* racing addOrder and changeOrderStatus calls were executed.
StockSettled ==
    (\A s \in Sessions : ~InFlight(s)) /\ ~failed =>
        \A p \in Products :
            /\ totalSold[p] = placed[p]
            /\ quantity[p] = Stock - placed[p] + cancelled[p]

\* At every moment, and after any call that stopped half-way, the counts err on
\* one side only: no unit is sold or deducted twice, none is deducted that was
\* not counted as sold, none comes back without a cancel.
StockBounds ==
    \A p \in Products :
        /\ totalSold[p] <= placed[p]
        /\ quantity[p] + totalSold[p] >= Stock
        /\ quantity[p] <= Stock + cancelled[p]

\* The parts of an order that changeOrderStatus writes together agree, even
\* when it wrote them from a stale copy: the timeline has the status and, on
\* delivery, every step before it; a delivered order is paid, and it alone has
\* a delivery date.
Coherent(o) ==
    /\ o.hasTimeline => StepsDone(o.status) \subseteq o.done
    /\ o.status = DELIVERED => o.paid
    /\ o.dated <=> o.status = DELIVERED

StatusCoherent ==
    \A n \in 1..MaxOrders : orders[n] # NoOrder => Coherent(orders[n])

\* While one administrator at a time changes statuses, no status change takes
\* a payment back or erases a step of the timeline.
NothingUndone ==
    [][\A n \in 1..MaxOrders :
          orders[n] # NoOrder /\ orders'[n] # NoOrder =>
              /\ orders[n].paid => orders'[n].paid
              /\ orders[n].done \subseteq orders'[n].done]_vars
=============================================================================
