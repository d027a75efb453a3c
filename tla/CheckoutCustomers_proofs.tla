----------------------- MODULE CheckoutCustomers_proofs -----------------------
(***************************************************************************)
(* Proofs about what Checkout promises its customers: a coupon is used     *)
(* once, the cart's two collections agree.  Both rest on a user who waits  *)
(* for each answer in one tab, and on calls that do not stop half-way.     *)
(***************************************************************************)
EXTENDS Checkout_proofs

\* Nobody shops from two tabs at once.
OneTabPerUser == \A s, t \in Sessions :
    Owner[s] = Owner[t] /\ Owner[s] # NoUser => s = t

\* Steps of session s that are not failures.
Works(s) == CartStep(s) \/ CheckCoupon(s) \/ OrderStep(s)

(***************************************************************************)
(* Coupons                                                                 *)
(***************************************************************************)
\* From the order's save to the push of its coupon.
Saved == {"clear", "empty", "coupon"}

\* A coupon granted to a session, which is not ordering, is still unused.
GrantsUnused ==
    \A s \in Sessions : \A c \in granted[s] :
        /\ Owner[s] \in Users
        /\ c \notin usedCoupons[Owner[s]]
        /\ call[s].pc \notin Saved \union {"saveOrder"}

\* So is the coupon of an order about to be saved.
DraftsUnused ==
    \A s \in Sessions :
        call[s].pc = "saveOrder" /\ call[s].order.coupon # NoCoupon =>
            /\ Owner[s] \in Users
            /\ call[s].order.coupon \notin usedCoupons[Owner[s]]

\* A saved order's coupon is used, or will be when its call gets there.
OrdersUse ==
    \A n \in 1..MaxOrders :
        /\ orders[n] # NoOrder /\ orders[n].user # NoUser
        /\ orders[n].coupon # NoCoupon
        => \/ orders[n].coupon \in usedCoupons[orders[n].user]
           \/ \E s \in Sessions : /\ Owner[s] = orders[n].user
                                  /\ call[s].pc \in Saved
                                  /\ call[s].order.coupon = orders[n].coupon

CouponInv == GrantsUnused /\ DraftsUnused /\ OrdersUse /\ CouponOncePerUser

\* Every order after the step bears no user, or is one from before.
NoNewUserOrder ==
    \A n \in 1..MaxOrders : orders'[n] # NoOrder =>
        \/ orders'[n].user = NoUser
        \/ /\ orders[n] # NoOrder
           /\ orders'[n].user = orders[n].user
           /\ orders'[n].coupon = orders[n].coupon

\* A session that is not ordering, or stays where it is in an order.
OrderingStays(t) ==
    \/ /\ call'[t].pc = call[t].pc
       /\ call'[t].order = call[t].order
    \/ /\ call[t].pc \notin Saved
       /\ call'[t].pc \notin Saved \union {"saveOrder"}

\* A step that saves no user's order and moves no session into, or on in, one.
LEMMA CouponFrame ==
    ASSUME TypeInv, CouponInv, UNCHANGED <<usedCoupons, granted>>,
           NoNewUserOrder, \A t \in Sessions : OrderingStays(t)
    PROVE  CouponInv'
<1>1. GrantsUnused'
  BY DEF CouponInv, GrantsUnused, OrderingStays
<1>2. DraftsUnused'
  BY DEF CouponInv, DraftsUnused, OrderingStays
<1>3. OrdersUse'
  BY DEF CouponInv, OrdersUse, NoNewUserOrder, OrderingStays
<1>4. CouponOncePerUser'
  BY DEF CouponInv, CouponOncePerUser, NoNewUserOrder
<1> QED BY <1>1, <1>2, <1>3, <1>4 DEF CouponInv

\* The steps of which that is true, all but the coupon's own way.
LEMMA CouponFrameSteps ==
    ASSUME TypeInv, CouponInv, NEW s \in Sessions,
           \/ CartStep(s) \/ CountSold(s) \/ DeductStock(s)
           \/ InsertManyOrderStart(s) \/ InsertManyOrder(s) \/ ReadOrder(s)
           \/ SetStatus(s) \/ Restock(s) \/ DeleteOrders(s)
    PROVE  CouponInv'
<1>0. /\ \A t \in Sessions : call[t] \in Call
      /\ \A n \in 1..MaxOrders : orders[n] \in Order \union {NoOrder}
  BY DEF TypeInv, TypeOK
<1>1. UNCHANGED <<usedCoupons, granted>>
  BY DEF CartStep, AddToCart, FindLine, IncLine, SaveLine, PushLine, DeleteCart,
         PullLine, UpdateCart, UpdateCartQty, IncQty, CountSold, DeductStock,
         InsertManyOrderStart, InsertManyOrder, ReadOrder, SetStatus, Restock,
         DeleteOrders
<1>2. \A t \in Sessions \ {s} : OrderingStays(t)
  BY OthersStay DEF OrderStep, TypeInv, SameCall, OrderingStays
<1>3. OrderingStays(s)
  <2>1. ASSUME NEW pcs, MovesTo(s, pcs), "saveOrder" \notin pcs,
               "clear" \notin pcs, "empty" \notin pcs, "coupon" \notin pcs,
               call[s].pc \notin Saved
        PROVE  OrderingStays(s)
    BY <2>1 DEF MovesTo, OrderingStays, Saved
  <2>2. CASE CartStep(s)
    <3>1. call[s].pc \notin Saved
      BY <2>2 DEF CartStep, AddToCart, FindLine, IncLine, SaveLine, PushLine,
         DeleteCart, PullLine, UpdateCart, UpdateCartQty, IncQty,
         UserMayStart, MayStart, InFlight, Saved
    <3> QED BY <2>1, <2>2, <3>1, CartMoves DEF TypeInv
  <2>3. CASE CountSold(s) \/ DeductStock(s) \/ Restock(s)
    <3>1. call[s].pc \notin Saved
      BY <2>3 DEF CountSold, DeductStock, Restock, Saved
    <3> QED BY <2>1, <2>3, <3>1, OrderMoves DEF TypeInv
  <2>4. CASE InsertManyOrder(s) \/ ReadOrder(s) \/ SetStatus(s)
    <3>1. call[s].pc \notin Saved
      BY <2>4 DEF InsertManyOrder, ReadOrder, SetStatus, AdminMayStart,
         MayStart, InFlight, Saved
    <3> QED BY <2>1, <2>4, <3>1, OrderMoves DEF TypeInv
  <2>5. CASE InsertManyOrderStart(s) \/ DeleteOrders(s)
    <3>1. call[s].pc = "idle"
      BY <2>5 DEF InsertManyOrderStart, DeleteOrders, AdminMayStart, MayStart,
         InFlight
    <3> QED BY <2>5, <3>1, WithoutMoves DEF TypeInv, SameCall, OrderingStays, Saved
  <2> QED BY <2>2, <2>3, <2>4, <2>5
<1>4. NoNewUserOrder
  <2>1. CASE CartStep(s) \/ CountSold(s) \/ DeductStock(s) \/ ReadOrder(s)
             \/ Restock(s)
    <3>1. UNCHANGED orders
      BY <2>1 DEF CartStep, AddToCart, FindLine, IncLine, SaveLine, PushLine,
         DeleteCart, PullLine, UpdateCart, UpdateCartQty, IncQty, CountSold,
         DeductStock, ReadOrder, Restock, orderVars
    <3> QED BY <3>1 DEF NoNewUserOrder
  <2>2. CASE InsertManyOrderStart(s) \/ DeleteOrders(s)
    BY <2>2 DEF InsertManyOrderStart, DeleteOrders, OrdersWithout, NoNewUserOrder
  <2>3. CASE InsertManyOrder(s)
    <3>1. \A d : NewOrder(d, NoUser, NoCoupon).user = NoUser
      BY DEF NewOrder
    <3> QED BY <2>3, <3>1 DEF InsertManyOrder, NoNewUserOrder
  <2>4. CASE SetStatus(s)
    <3> DEFINE n == call[s].number
               o == call[s].order
    <3>1. CASE n = 0
      BY <2>4, <3>1 DEF SetStatus, NoNewUserOrder
    <3>2. CASE n # 0
      <4>1. n \in 1..MaxOrders /\ call[s].pc = "setStatus"
        BY <1>0, <2>4, <3>2, ConstantsAssumption DEF SetStatus, Call
      <4>2. orders[n] \in Order
        BY <1>0, <4>1 DEF TypeInv, StatusCallsFit
      <4>3. orders' = [orders EXCEPT ![n] =
                          [@ EXCEPT !.status = o.status, !.done = o.done,
                                    !.paid = o.paid, !.dated = o.dated]]
        BY <2>4, <3>2 DEF SetStatus
      <4>4. /\ orders'[n].user = orders[n].user
            /\ orders'[n].coupon = orders[n].coupon
        BY <4>1, <4>2, <4>3 DEF Order, TypeInv, TypeOK
      <4>5. \A m \in 1..MaxOrders : m # n => orders'[m] = orders[m]
        BY <4>3 DEF TypeInv, TypeOK
      <4>6. orders[n] # NoOrder
        BY <4>2, ConstantsAssumption
      <4> QED BY <4>4, <4>5, <4>6 DEF NoNewUserOrder
    <3> QED BY <3>1, <3>2
  <2> QED BY <2>1, <2>2, <2>3, <2>4
<1> QED BY <1>1, <1>2, <1>3, <1>4, CouponFrame

\* checkCouponAvailability grants what is unused, between two calls.
LEMMA GrantCoupon ==
    ASSUME TypeInv, CouponInv, NEW s \in Sessions, CheckCoupon(s)
    PROVE  CouponInv'
<1>1. PICK c \in Coupons \ usedCoupons[Owner[s]] :
          granted' = [granted EXCEPT ![s] = @ \union {c}]
  BY DEF CheckCoupon
<1>2. Owner[s] \in Users /\ call[s].pc = "idle"
  BY ConstantsAssumption DEF CheckCoupon, UserMayStart, MayStart, InFlight, IsAdmin
<1>3. /\ granted'[s] = granted[s] \union {c}
      /\ \A t \in Sessions \ {s} : granted'[t] = granted[t]
  BY <1>1 DEF TypeInv, TypeOK
<1>4. UNCHANGED <<usedCoupons, call, orders>>
  BY DEF CheckCoupon, orderVars
<1>5. GrantsUnused'
  BY <1>1, <1>2, <1>3, <1>4 DEF CouponInv, GrantsUnused, Saved
<1> QED BY <1>4, <1>5 DEF CouponInv, DraftsUnused, OrdersUse, CouponOncePerUser

\* addOrder submits a coupon that was granted, and forgets the grants.
LEMMA SubmitCoupon ==
    ASSUME TypeInv, CouponInv, NEW s \in Sessions, AddOrder(s)
    PROVE  CouponInv'
<1>1. PICK d \in Drafts, c \in granted[s] \union {NoCoupon} :
          call' = [call EXCEPT ![s] = [@ EXCEPT
                       !.pc = "saveOrder", !.number = orderSeq + 1,
                       !.order = NewOrder(d, Owner[s], c)]]
  BY DEF AddOrder
<1>2. call[s] \in Call /\ call[s].pc = "idle"
  BY DEF TypeInv, TypeOK, AddOrder, MayStart, InFlight
<1>3. /\ call'[s].pc = "saveOrder" /\ call'[s].order = NewOrder(d, Owner[s], c)
      /\ \A t \in Sessions \ {s} : call'[t] = call[t]
  BY <1>1, <1>2 DEF TypeInv, TypeOK, Call
<1>4. call'[s].order.coupon = c
  BY <1>3 DEF NewOrder
<1>5. /\ granted'[s] = {}
      /\ \A t \in Sessions \ {s} : granted'[t] = granted[t]
      /\ UNCHANGED <<usedCoupons, orders>>
  BY DEF AddOrder, TypeInv, TypeOK
<1>6. GrantsUnused'
  BY <1>3, <1>5 DEF CouponInv, GrantsUnused
<1>7. DraftsUnused'
  BY <1>3, <1>4, <1>5 DEF CouponInv, GrantsUnused, DraftsUnused
<1>8. OrdersUse'
  BY <1>2, <1>3, <1>5 DEF CouponInv, OrdersUse, Saved
<1> QED BY <1>5, <1>6, <1>7, <1>8 DEF CouponInv, CouponOncePerUser

\* newData.save(): the coupon is unused, so no order of the user bears it.
LEMMA SaveCoupon ==
    ASSUME OneTabPerUser, TypeInv, CouponInv, NEW s \in Sessions, SaveOrder(s)
    PROVE  CouponInv'
<1> DEFINE n == call[s].number
           o == call[s].order
<1>0. /\ call[s] \in Call /\ call[s].pc = "saveOrder"
      /\ o \in Order /\ n \in 1..MaxOrders /\ o.user = Owner[s]
  BY ConstantsAssumption DEF SaveOrder, TypeInv, TypeOK, CallsFit, CallFits, Call
<1>1. UNCHANGED <<usedCoupons, granted>>
  BY DEF SaveOrder
<1>2. MovesTo(s, {"idle", "sold", "clear"})
  BY OrderMoves DEF TypeInv
<1>3. CASE UNCHANGED orders /\ call'[s].pc # "clear"
  BY <1>0, <1>1, <1>2, <1>3, CouponFrame
     DEF MovesTo, NoNewUserOrder, OrderingStays, Saved
<1>4. CASE ~(UNCHANGED orders /\ call'[s].pc # "clear")
  <2>1. CASE orders[n] # NoOrder
    BY <1>4, <2>1, RespondMoves DEF SaveOrder, TypeInv, MovesTo
  <2>2. CASE orders[n] = NoOrder
    <3>1. /\ orders' = [orders EXCEPT ![n] = o]
          /\ IF IsAdmin(s) THEN Loop(s, "sold", o.items) ELSE Goto(s, "clear")
      BY <2>2 DEF SaveOrder
    <3>2. \A m \in 1..MaxOrders : orders'[m] = IF m = n THEN o ELSE orders[m]
      BY <1>0, <3>1 DEF TypeInv, TypeOK
    <3>3. GrantsUnused'
      BY <1>0, <1>1, <1>2 DEF CouponInv, GrantsUnused, MovesTo, Saved
    <3>4. DraftsUnused'
      BY <1>1, <1>2 DEF CouponInv, DraftsUnused, MovesTo
    <3>5. ~IsAdmin(s) => call'[s].pc = "clear" /\ call'[s].order = o
      BY <1>0, <3>1 DEF Goto, TypeInv, TypeOK, Call
    <3>6. OrdersUse'
      <4> SUFFICES ASSUME NEW m \in 1..MaxOrders, orders'[m] # NoOrder,
                          orders'[m].user # NoUser, orders'[m].coupon # NoCoupon
                   PROVE  \/ orders'[m].coupon \in usedCoupons[orders'[m].user]
                          \/ \E t \in Sessions :
                               /\ Owner[t] = orders'[m].user
                               /\ call'[t].pc \in Saved
                               /\ call'[t].order.coupon = orders'[m].coupon
        BY <1>1 DEF OrdersUse
      <4>1. CASE m = n
        BY <1>0, <3>2, <3>5, <4>1 DEF IsAdmin, Saved
      <4>2. CASE m # n
        BY <1>0, <1>2, <3>2, <4>2 DEF CouponInv, OrdersUse, MovesTo, Saved
      <4> QED BY <4>1, <4>2
    <3>7. CouponOncePerUser'
      <4>1. ASSUME NEW m \in 1..MaxOrders, orders[m] # NoOrder,
                   orders[m].user = o.user, o.user # NoUser,
                   orders[m].coupon = o.coupon, o.coupon # NoCoupon
            PROVE  FALSE
        <5>1. o.coupon \notin usedCoupons[o.user]
          BY <1>0, <4>1 DEF CouponInv, DraftsUnused
        <5>2. PICK t \in Sessions : Owner[t] = Owner[s] /\ call[t].pc \in Saved
          BY <1>0, <4>1, <5>1 DEF CouponInv, OrdersUse
        <5>3. t = s
          BY <1>0, <4>1, <5>2 DEF OneTabPerUser
        <5> QED BY <1>0, <5>2, <5>3 DEF Saved
      <4> QED BY <3>2, <4>1 DEF CouponInv, CouponOncePerUser
    <3> QED BY <3>3, <3>4, <3>6, <3>7 DEF CouponInv
  <2> QED BY <2>1, <2>2
<1> QED BY <1>3, <1>4

\* On to the coupon, for an order that has one.
LEMMA CarryCoupon ==
    ASSUME TypeInv, CouponInv, NEW s \in Sessions,
           ClearLines(s) \/ EmptyCart(s)
    PROVE  CouponInv'
<1> DEFINE o == call[s].order
<1>0. call[s] \in Call /\ call[s].pc \in {"clear", "empty"}
  BY DEF TypeInv, TypeOK, ClearLines, EmptyCart
<1>1. UNCHANGED <<usedCoupons, granted, orders>>
  BY DEF ClearLines, EmptyCart, orderVars
<1>2. MovesTo(s, {"idle", "sold", "empty", "coupon"})
  BY OrderMoves DEF TypeInv, MovesTo
<1>3. \/ call'[s].pc \in Saved /\ call'[s].order = o
      \/ o.coupon = NoCoupon /\ call'[s].pc \notin Saved
  <2>1. ASSUME NEW pc \in {"empty", "coupon"}, Goto(s, pc)
        PROVE  call'[s].pc \in Saved /\ call'[s].order = o
    BY <1>0, <2>1 DEF Goto, TypeInv, TypeOK, Call, Saved
  <2>2. ASSUME Loop(s, "sold", o.items) PROVE call'[s].pc \notin Saved
    BY <2>2, LoopMoves DEF TypeInv, MovesTo, Saved
  <2> QED BY <2>1, <2>2 DEF ClearLines, EmptyCart
<1>4. GrantsUnused'
  BY <1>0, <1>1, <1>2 DEF CouponInv, GrantsUnused, MovesTo, Saved
<1>5. DraftsUnused'
  BY <1>1, <1>2 DEF CouponInv, DraftsUnused, MovesTo
<1>6. OrdersUse'
  BY <1>1, <1>2, <1>3 DEF CouponInv, OrdersUse, MovesTo
<1> QED BY <1>1, <1>4, <1>5, <1>6 DEF CouponInv, CouponOncePerUser

\* $push: {usedCoupons: coupon}; the user's one session has no grant left.
LEMMA PushCoupon ==
    ASSUME OneTabPerUser, TypeInv, CouponInv, NEW s \in Sessions, UseCoupon(s)
    PROVE  CouponInv'
<1> DEFINE o == call[s].order
<1>0. /\ call[s] \in Call /\ call[s].pc = "coupon" /\ Owner[s] \in Users
      /\ Owner[s] # NoUser
  BY ConstantsAssumption DEF UseCoupon, TypeInv, TypeOK, CallsFit, CallFits
<1>1. UNCHANGED <<granted, orders>>
  BY DEF UseCoupon, orderVars
<1>2. \A u \in Users : usedCoupons'[u] =
          IF u = Owner[s] THEN usedCoupons[u] \union {o.coupon} ELSE usedCoupons[u]
  BY <1>0 DEF UseCoupon, TypeInv, TypeOK
<1>3. MovesTo(s, {"idle", "sold"})
  BY OrderMoves DEF TypeInv
<1>4. granted[s] = {}
  BY <1>0 DEF CouponInv, GrantsUnused, Saved
<1>5. \A t \in Sessions \ {s} : Owner[t] # Owner[s]
  BY <1>0 DEF OneTabPerUser
<1>6. GrantsUnused'
  BY <1>1, <1>2, <1>3, <1>4, <1>5 DEF CouponInv, GrantsUnused, MovesTo
<1>7. DraftsUnused'
  BY <1>2, <1>3, <1>5 DEF CouponInv, DraftsUnused, MovesTo
<1>8. OrdersUse'
  <2> SUFFICES ASSUME NEW m \in 1..MaxOrders, orders[m] # NoOrder,
                      orders[m].user # NoUser, orders[m].coupon # NoCoupon
               PROVE  \/ orders[m].coupon \in usedCoupons'[orders[m].user]
                      \/ \E t \in Sessions :
                           /\ Owner[t] = orders[m].user
                           /\ call'[t].pc \in Saved
                           /\ call'[t].order.coupon = orders[m].coupon
    BY <1>1 DEF OrdersUse
  <2>1. orders[m].user \in Users
    BY DEF TypeInv, TypeOK, Order
  <2>2. CASE orders[m].coupon \in usedCoupons[orders[m].user]
    BY <1>2, <2>1, <2>2
  <2>3. CASE \E t \in Sessions : /\ Owner[t] = orders[m].user
                                 /\ call[t].pc \in Saved
                                 /\ call[t].order.coupon = orders[m].coupon
    BY <1>2, <1>3, <2>1, <2>3 DEF MovesTo
  <2> QED BY <2>2, <2>3 DEF CouponInv, OrdersUse
<1> QED BY <1>1, <1>6, <1>7, <1>8 DEF CouponInv, CouponOncePerUser

\* At the start nobody has a coupon or an order.
LEMMA CouponInit == Init => CouponInv
BY DEF Init, CouponInv, GrantsUnused, DraftsUnused, OrdersUse,
       CouponOncePerUser, Idle

\* Every step of a handler that does not fail keeps the invariant.
LEMMA CouponNext ==
    ASSUME OneTabPerUser, TypeInv, CouponInv, NEW s \in Sessions, Works(s)
    PROVE  CouponInv'
BY CouponFrameSteps, GrantCoupon, SubmitCoupon, SaveCoupon, CarryCoupon,
   PushCoupon DEF Works, OrderStep

\* A call that fails is remembered, and no step forgets it.
LEMMA FailureStays ==
    ASSUME [Next]_vars
    PROVE  \/ failed'
           \/ UNCHANGED vars
           \/ (failed' => failed) /\ (failed => failed') /\ \E s \in Sessions : Works(s)
<1>1. ASSUME NEW s \in Sessions, CallFails(s) PROVE failed'
  BY <1>1, Zenon DEF CallFails
<1>2. ASSUME NEW s \in Sessions, Works(s) PROVE UNCHANGED failed
  BY <1>2 DEF Works, CartStep, AddToCart, FindLine, IncLine, SaveLine, PushLine,
     DeleteCart, PullLine, UpdateCart, UpdateCartQty, IncQty, CheckCoupon,
     OrderStep, AddOrder, SaveOrder, ClearLines, EmptyCart, UseCoupon,
     CountSold, DeductStock, InsertManyOrderStart, InsertManyOrder, ReadOrder,
     SetStatus, Restock, DeleteOrders, obsVars
<1>3. Next => \E s \in Sessions : Works(s) \/ CallFails(s)
  BY Zenon DEF Next, Works
<1> QED BY <1>1, <1>2, <1>3, Zenon

\* checkCouponAvailability refuses a coupon that usedCoupons lists, and addOrder
\* lists it only after the order is saved: while no call has failed half-way,
\* that is enough for a user who orders from one tab, and no user ever has two
\* orders with one coupon, whatever other users and administrators do.
THEOREM CouponOncePerUserAlways ==
    ASSUME OneTabPerUser
    PROVE  Spec => [](~failed => CouponOncePerUser)
<1> DEFINE Inv == ~failed => CouponInv
<1>1. Init => Inv
  BY CouponInit
<1>2. TypeInv /\ Inv /\ [Next]_vars => Inv'
  <2> SUFFICES ASSUME TypeInv, Inv, [Next]_vars, ~failed' PROVE CouponInv'
    BY Zenon
  <2>1. CASE UNCHANGED vars
    <3>1. CouponInv
      BY <2>1, Zenon DEF vars
    <3> QED BY <2>1, <3>1 DEF vars, CouponInv, GrantsUnused, DraftsUnused,
            OrdersUse, CouponOncePerUser
  <2>2. CASE (failed => failed') /\ \E s \in Sessions : Works(s)
    <3>1. CouponInv
      BY <2>2, Zenon
    <3> QED BY <2>2, <3>1, OneTabPerUser, CouponNext
  <2> QED BY <2>1, <2>2, FailureStays, Zenon
<1>3. TypeInv /\ Inv => (~failed => CouponOncePerUser)
  BY Zenon DEF CouponInv
<1> QED BY <1>1, <1>2, <1>3, TypeInit, TypeNext, PTL DEF Spec
(***************************************************************************)
(* Carts                                                                   *)
(***************************************************************************)
OneLineEach(u) ==
    \A l, m \in LinesOf(u) : lines[l].product = lines[m].product => l = m

\* What a user's two collections are to each other at each place of the call
\* of the user's session.
CartFits(s) ==
    LET u == Owner[s]    c == call[s] IN
    /\ c.pc \notin {"pushLine", "pull", "empty"} => carts[u] = LinesOf(u)
    /\ c.pc = "pushLine" => LinesOf(u) = carts[u] \union {c.line}
    /\ c.pc = "pull" => LinesOf(u) = carts[u] \ {c.line}
    /\ c.pc = "empty" => LinesOf(u) = {}
    /\ c.pc = "saveLine" => LinesFor(u, c.item) = {}

\* The users whose cart no updateCartById gave or took a line.
Own == Users \ readdressed

\* Their lines are referred to, and about to be referred to, by nobody else.
OwnIds ==
    \A w \in Own : \A l \in LinesOf(w) :
        /\ \A v \in Users : l \in carts[v] => v = w
        /\ \A s \in Sessions :
              call[s].pc = "pushLine" /\ call[s].line = l => Owner[s] = w

CartInv ==
    /\ OwnIds
    /\ \A u \in Own : OneLineEach(u)
    /\ \A s \in Sessions : Owner[s] \in Own => CartFits(s)
    /\ \A u \in Own :
           (\A s \in Sessions : Owner[s] # u) => carts[u] = LinesOf(u)

\* The cart of user v is the same after the step, save for quantities.
SameCart(v) ==
    /\ carts'[v] = carts[v]
    /\ LinesOf(v)' = LinesOf(v)
    /\ \A l \in LinesOf(v) : lines'[l].product = lines[l].product

\* The same cart has the same lines for a product, and one at most.
LEMMA SameCartLines ==
    ASSUME NEW v \in Users, SameCart(v)
    PROVE  /\ OneLineEach(v) => OneLineEach(v)'
           /\ \A p : LinesFor(v, p)' = LinesFor(v, p)
<1>1. OneLineEach(v) => OneLineEach(v)'
  BY DEF OneLineEach, SameCart
<1>2. ASSUME NEW p PROVE LinesFor(v, p)' = LinesFor(v, p)
  BY DEF LinesFor, SameCart
<1> QED BY <1>1, <1>2

\* A session that stays, and whose user's cart stays, fits as before.
LEMMA SameCartFits ==
    ASSUME NEW t \in Sessions, Owner[t] \in Users, SameCall(t),
           SameCart(Owner[t]), CartFits(t)
    PROVE  CartFits(t)'
BY SameCartLines DEF CartFits, SameCall, SameCart

\* No line and no reference comes to anybody, and no call gets to a push.
LEMMA OwnIdsKept ==
    ASSUME TypeInv, OwnIds, readdressed \subseteq readdressed',
           \A v \in Users : carts'[v] \subseteq carts[v],
           \A v \in Own' : LinesOf(v)' \subseteq LinesOf(v),
           \A t \in Sessions : call'[t].pc = "pushLine" => SameCall(t)
    PROVE  OwnIds'
BY DEF OwnIds, Own, SameCall

\* A step of session s that keeps every other user's cart and puts its own
\* user's in order.
LEMMA OwnCart ==
    ASSUME OneTabPerUser, TypeInv, CartInv, NEW s \in Sessions,
           Owner[s] \in Users, UNCHANGED readdressed, OwnIds',
           \A t \in Sessions \ {s} : SameCall(t),
           \A v \in Own \ {Owner[s]} : SameCart(v),
           Owner[s] \in Own => OneLineEach(Owner[s])' /\ CartFits(s)'
    PROVE  CartInv'
<1> USE DEF Own
<1>1. ASSUME NEW v \in Own PROVE OneLineEach(v)'
  BY SameCartLines DEF CartInv
<1>2. ASSUME NEW t \in Sessions, Owner[t] \in Own PROVE CartFits(t)'
  <2>1. CASE t = s
    BY <1>2, <2>1
  <2>2. CASE t # s
    <3>1. Owner[t] \in Own \ {Owner[s]}
      BY <1>2, <2>2, ConstantsAssumption DEF OneTabPerUser
    <3> QED BY <1>2, <2>2, <3>1, SameCartFits DEF CartInv
  <2> QED BY <2>1, <2>2
<1>3. ASSUME NEW u \in Own, \A t \in Sessions : Owner[t] # u
      PROVE  (carts[u] = LinesOf(u))'
  BY <1>3 DEF CartInv, SameCart
<1> QED BY <1>1, <1>2, <1>3 DEF CartInv

\* Places where a user's collections agree and no line is about to be saved.
CartAtRest(c) == c.pc \notin {"pushLine", "pull", "empty", "saveLine"}

\* A step that changes the cart of readdressed users at most, between such
\* places.
LEMMA CartFrame ==
    ASSUME TypeInv, CartInv, NEW s \in Sessions,
           \A t \in Sessions \ {s} : SameCall(t),
           UNCHANGED carts, readdressed \subseteq readdressed',
           \A v \in Own' : SameCart(v),
           SameCall(s) \/ (CartAtRest(call[s]) /\ CartAtRest(call'[s]))
    PROVE  CartInv'
<1>0. Own' \subseteq Own /\ Own' \subseteq Users
  BY DEF Own
<1>1. ASSUME NEW t \in Sessions, Owner[t] \in Own' PROVE CartFits(t)'
  <2>0. CartFits(t) /\ SameCart(Owner[t]) /\ Owner[t] \in Users
    BY <1>0, <1>1 DEF CartInv
  <2>1. CASE SameCall(t)
    BY <2>0, <2>1, SameCartFits
  <2>2. CASE CartAtRest(call[t]) /\ CartAtRest(call'[t])
    BY <2>0, <2>2 DEF CartFits, SameCart, CartAtRest
  <2> QED BY <2>1, <2>2
<1>2. OwnIds'
  <2>1. \A v \in Own' : LinesOf(v)' \subseteq LinesOf(v)
    BY DEF SameCart
  <2>2. \A t \in Sessions : call'[t].pc = "pushLine" => SameCall(t)
    BY DEF CartAtRest
  <2> QED BY <2>1, <2>2, OwnIdsKept DEF CartInv
<1>3. ASSUME NEW u \in Own' PROVE OneLineEach(u)'
  BY <1>0, SameCartLines DEF CartInv
<1>4. ASSUME NEW u \in Own', \A t \in Sessions : Owner[t] # u
      PROVE  (carts[u] = LinesOf(u))'
  BY <1>0, <1>4 DEF CartInv, SameCart
<1> QED BY <1>1, <1>2, <1>3, <1>4 DEF CartInv

\* A step that leaves both collections alone, quantities aside.
LEMMA LinesKept ==
    ASSUME TypeInv, UNCHANGED carts,
           \/ UNCHANGED lines
           \/ \E l \in LineIds, q \in Qtys :
                /\ LineExists(l)
                /\ lines' = [lines EXCEPT ![l].qty = q]
    PROVE  \A v \in Users : SameCart(v)
<1>1. CASE UNCHANGED lines
  BY <1>1 DEF SameCart, LinesOf, LineExists
<1>2. ASSUME NEW l \in LineIds, NEW q \in Qtys, LineExists(l),
             lines' = [lines EXCEPT ![l].qty = q]
      PROVE  \A v \in Users : SameCart(v)
  <2>1. lines[l] \in Line
    BY <1>2 DEF TypeInv, TypeOK, LineExists
  <2>2. /\ lines'[l] # NoLine /\ lines'[l].user = lines[l].user
        /\ lines'[l].product = lines[l].product
    <3>1. lines'[l] = [lines[l] EXCEPT !.qty = q]
      BY <1>2 DEF TypeInv, TypeOK
    <3>2. lines'[l] \in Line
      BY <2>1, <3>1 DEF Line
    <3> QED BY <2>1, <3>1, <3>2, ConstantsAssumption DEF Line
  <2>3. \A m \in LineIds : m # l => lines'[m] = lines[m]
    BY <1>2 DEF TypeInv, TypeOK
  <2>4. ASSUME NEW v \in Users PROVE LinesOf(v)' = LinesOf(v)
    BY <1>2, <2>2, <2>3 DEF LinesOf, LineExists
  <2> QED BY <2>2, <2>3, <2>4 DEF SameCart, LinesOf
<1> QED BY <1>1, <1>2

\* $inc selectedQty touches the quantity of a line that is there.
LEMMA IncKeepsLines ==
    ASSUME TypeInv, NEW l \in LineIds, NEW q \in Int, IncLineQty(l, q),
           UNCHANGED carts
    PROVE  \A v \in Users : SameCart(v)
<1>1. CASE LineExists(l)
  <2>1. lines[l].qty + q \in Qtys /\ lines' = [lines EXCEPT ![l].qty = @ + q]
    BY <1>1 DEF IncLineQty
  <2>2. lines' = [lines EXCEPT ![l].qty = lines[l].qty + q]
    BY <2>1
  <2> QED BY <1>1, <2>1, <2>2, LinesKept
<1>2. CASE ~LineExists(l)
  BY <1>2, LinesKept DEF IncLineQty
<1> QED BY <1>1, <1>2

\* CartService, where it changes quantities only.
LEMMA QtySteps ==
    ASSUME TypeInv, CartInv, NEW s \in Sessions,
           AddToCart(s) \/ IncLine(s) \/ UpdateCartQty(s) \/ IncQty(s)
    PROVE  CartInv'
<1>0. call[s] \in Call /\ CallFits(s, call[s])
  BY DEF TypeInv, TypeOK, CallsFit
<1>1. \A t \in Sessions \ {s} : SameCall(t)
  BY OthersStay DEF TypeInv, CartStep
<1>2. UNCHANGED <<carts, readdressed>>
  BY DEF AddToCart, IncLine, UpdateCartQty, IncQty, cartVars, obsVars
<1>3. \A v \in Users : SameCart(v)
  <2>1. CASE AddToCart(s) \/ UpdateCartQty(s)
    BY <1>2, <2>1, LinesKept DEF AddToCart, UpdateCartQty, cartVars
  <2>2. CASE IncLine(s)
    <3>1. /\ call[s].line \in LineIds /\ call[s].item \in Products
      BY <1>0, <2>2 DEF IncLine, CallFits
    <3>2. call[s].todo[call[s].item] \in Int
      BY <1>0, <3>1, ItemsType DEF Call
    <3> QED BY <1>2, <2>2, <3>1, <3>2, IncKeepsLines DEF IncLine
  <2>3. CASE IncQty(s)
    <3>1. call[s].line \in LineIds /\ call[s].by \in Int
      BY <1>0, <2>3, ConstantsAssumption DEF IncQty, CallFits, Call, Qtys
    <3> QED BY <1>2, <2>3, <3>1, IncKeepsLines DEF IncQty
  <2> QED BY <2>1, <2>2, <2>3
<1>4. CartAtRest(call[s]) /\ CartAtRest(call'[s])
  <2>2. CASE AddToCart(s)
    <3>1. MovesTo(s, {"idle", "find"})
      BY <2>2, LoopMoves DEF AddToCart, TypeInv
    <3> QED BY <2>2, <3>1
            DEF AddToCart, UserMayStart, MayStart, InFlight, MovesTo, CartAtRest
  <2>3. CASE IncLine(s)
    BY <2>3, NextItemMoves DEF TypeInv, IncLine, MovesTo, CartAtRest
  <2>4. CASE IncQty(s)
    BY <2>4, RespondMoves DEF TypeInv, IncQty, MovesTo, CartAtRest
  <2>5. CASE UpdateCartQty(s)
    <3>1. call[s].pc = "idle"
      BY <2>5 DEF UpdateCartQty, UserMayStart, MayStart, InFlight
    <3>2. call'[s].pc = "incQty"
      BY <1>0, <2>5 DEF UpdateCartQty, TypeInv, TypeOK, Call
    <3> QED BY <3>1, <3>2 DEF CartAtRest
  <2> QED BY <2>2, <2>3, <2>4, <2>5
<1> QED BY <1>1, <1>2, <1>3, <1>4, CartFrame DEF Own

\* updateCartById: whoever gains or loses a line, or gets one of another
\* product, is readdressed; the other carts stay.
LEMMA UpdateCartFits ==
    ASSUME TypeInv, CartInv, NEW s \in Sessions, UpdateCart(s)
    PROVE  CartInv'
<1>1. \A t \in Sessions : SameCall(t)
  BY DEF UpdateCart, SameCall
<1>2. PICK l \in LinesOf(Owner[s]), to \in Users, p \in Products :
        /\ \E q \in {lines[l].qty} \union 1..MaxQty :
              lines' = [lines EXCEPT ![l] = [user |-> to, product |-> p, qty |-> q]]
        /\ readdressed' = IF to = lines[l].user /\ p = lines[l].product
                          THEN readdressed
                          ELSE readdressed \union {lines[l].user, to}
  BY DEF UpdateCart
<1>3. l \in LineIds /\ lines[l] \in Line /\ lines[l] # NoLine
  BY DEF LinesOf, LineExists, TypeInv, TypeOK
<1>4. PICK q \in Qtys :
        lines' = [lines EXCEPT ![l] = [user |-> to, product |-> p, qty |-> q]]
  <2>1. \A q \in {lines[l].qty} \union 1..MaxQty : q \in Qtys
    BY <1>3, ConstantsAssumption DEF Line, Qtys
  <2> QED BY <1>2, <2>1
<1> DEFINE new == [user |-> to, product |-> p, qty |-> q]
<1>5. new \in Line /\ new # NoLine /\ new.user = to /\ new.product = p
  BY <1>4, ConstantsAssumption DEF Line
<1> HIDE DEF new
<1>6. \A m \in LineIds : lines'[m] = IF m = l THEN new ELSE lines[m]
  BY <1>3, <1>4 DEF TypeInv, TypeOK, new
<1>7. UNCHANGED carts
  BY DEF UpdateCart
<1>8. ASSUME NEW v \in Own' PROVE SameCart(v)
  <2>1. \/ to = lines[l].user /\ p = lines[l].product
        \/ v # lines[l].user /\ v # to
    BY <1>2, <1>8 DEF Own
  <2> QED BY <1>3, <1>5, <1>6, <1>7, <2>1 DEF SameCart, LinesOf, LineExists
<1>9. readdressed \subseteq readdressed'
  BY <1>2
<1> QED BY <1>1, <1>7, <1>8, <1>9, CartFrame

\* CouponService, and OrderService outside a user's cart.
LEMMA ElsewhereSteps ==
    ASSUME TypeInv, CartInv, NEW s \in Sessions,
           \/ CheckCoupon(s) \/ AddOrder(s) \/ SaveOrder(s) \/ UseCoupon(s)
           \/ CountSold(s) \/ DeductStock(s) \/ InsertManyOrderStart(s)
           \/ InsertManyOrder(s) \/ ReadOrder(s) \/ SetStatus(s) \/ Restock(s)
           \/ DeleteOrders(s)
    PROVE  CartInv'
<1>1. \A t \in Sessions \ {s} : SameCall(t)
  BY OthersStay DEF TypeInv, OrderStep
<1>2. UNCHANGED cartVars
  BY DEF CheckCoupon, AddOrder, SaveOrder, UseCoupon, CountSold, DeductStock,
         InsertManyOrderStart, InsertManyOrder, ReadOrder, SetStatus, Restock,
         DeleteOrders
<1>3. \A v \in Users : SameCart(v)
  BY <1>2, LinesKept DEF cartVars
<1>5. UNCHANGED <<carts, readdressed>>
  BY <1>2 DEF CheckCoupon, AddOrder, SaveOrder, UseCoupon, CountSold,
     DeductStock, InsertManyOrderStart, InsertManyOrder, ReadOrder, SetStatus,
     Restock, DeleteOrders, cartVars, obsVars
<1>4. SameCall(s) \/ (CartAtRest(call[s]) /\ CartAtRest(call'[s]))
  <2>1. CASE CheckCoupon(s)
    BY <2>1 DEF CheckCoupon, SameCall
  <2>2. CASE InsertManyOrderStart(s) \/ DeleteOrders(s)
    <3>1. call[s].pc = "idle"
      BY <2>2 DEF InsertManyOrderStart, DeleteOrders, AdminMayStart, MayStart,
         InFlight
    <3> QED BY <2>2, <3>1, WithoutMoves DEF TypeInv, CartAtRest
  <2>3. CASE \/ AddOrder(s) \/ SaveOrder(s) \/ UseCoupon(s) \/ CountSold(s)
             \/ DeductStock(s) \/ InsertManyOrder(s) \/ ReadOrder(s)
             \/ SetStatus(s) \/ Restock(s)
    <3>1. CartAtRest(call[s])
      BY <2>3 DEF AddOrder, SaveOrder, UseCoupon, CountSold, DeductStock,
         InsertManyOrder, ReadOrder, SetStatus, Restock, AdminMayStart, MayStart,
         InFlight, CartAtRest
    <3>2. CartAtRest(call'[s])
      BY <2>3, OrderMoves DEF TypeInv, MovesTo, CartAtRest
    <3> QED BY <3>1, <3>2
  <2> QED BY <2>1, <2>2, <2>3
<1> QED BY <1>1, <1>3, <1>4, <1>5, CartFrame DEF Own

\* findOne({user, product}) finds the line, or none.
LEMMA FindLineFits ==
    ASSUME OneTabPerUser, TypeInv, CartInv, NEW s \in Sessions, FindLine(s)
    PROVE  CartInv'
<1> DEFINE u == Owner[s]
<1>0. call[s] \in Call /\ u \in Users /\ call[s].pc = "find"
  BY DEF FindLine, TypeInv, TypeOK, CallsFit, CallFits
<1>1. \A t \in Sessions \ {s} : SameCall(t)
  BY OthersStay DEF TypeInv, CartStep
<1>2. \A v \in Users : SameCart(v)
  BY LinesKept DEF FindLine, cartVars
<1>3. \/ call'[s].pc = "inc"
      \/ call'[s].pc = "saveLine" /\ LinesFor(u, call'[s].item) = {}
  <2>1. PICK p \in Pending(s) :
           \/ \E l \in LinesFor(u, p) :
                 call' = [call EXCEPT ![s] =
                              [@ EXCEPT !.pc = "inc", !.item = p, !.line = l]]
           \/ /\ LinesFor(u, p) = {}
              /\ call' = [call EXCEPT ![s] =
                              [@ EXCEPT !.pc = "saveLine", !.item = p]]
    BY DEF FindLine
  <2>2. ASSUME NEW l,
               call' = [call EXCEPT ![s] =
                            [@ EXCEPT !.pc = "inc", !.item = p, !.line = l]]
        PROVE  call'[s].pc = "inc"
    BY <1>0, <2>2 DEF TypeInv, TypeOK, Call
  <2>3. ASSUME call' = [call EXCEPT ![s] =
                            [@ EXCEPT !.pc = "saveLine", !.item = p]]
        PROVE  call'[s].pc = "saveLine" /\ call'[s].item = p
    BY <1>0, <2>3 DEF TypeInv, TypeOK, Call
  <2> QED BY <2>1, <2>2, <2>3
<1>4. u \in Own => carts[u] = LinesOf(u)
  BY <1>0 DEF CartInv, CartFits
<1>5. \A p : LinesFor(u, p)' = LinesFor(u, p)
  BY <1>0, <1>2, SameCartLines
<1>6. LinesFor(u, call[s].item)' = LinesFor(u, call'[s].item)
  BY <1>0, <1>2 DEF LinesFor, SameCart
<1>7. u \in Own => CartFits(s)'
  BY <1>0, <1>2, <1>3, <1>4, <1>6 DEF CartFits, SameCart
<1>8. UNCHANGED <<carts, readdressed>>
  BY DEF FindLine, cartVars, obsVars
<1>9. OwnIds'
  <2>1. call'[s].pc # "pushLine"
    BY <1>3
  <2> QED BY <1>1, <1>2, <1>8, <2>1, OwnIdsKept DEF CartInv, Own, SameCart
<1>10. u \in Own => OneLineEach(u)'
  BY <1>0, <1>2, SameCartLines DEF CartInv
<1> QED BY <1>0, <1>1, <1>2, <1>7, <1>8, <1>9, <1>10, OwnCart DEF Own

\* newData.save(): one more line of the user, with a product of its own.
LEMMA SaveLineFits ==
    ASSUME OneTabPerUser, TypeInv, CartInv, NEW s \in Sessions, SaveLine(s)
    PROVE  CartInv'
<1> DEFINE u == Owner[s]
           p == call[s].item
<1>0. /\ call[s] \in Call /\ u \in Users /\ p \in Products
      /\ call[s].pc = "saveLine"
  BY DEF SaveLine, TypeInv, TypeOK, CallsFit, CallFits
<1>1. \A t \in Sessions \ {s} : SameCall(t)
  BY OthersStay DEF TypeInv, CartStep
<1>2. PICK l \in LineIds \ LineIdsInUse :
          /\ lines' = [lines EXCEPT ![l] = [user |-> u, product |-> p,
                                            qty |-> call[s].todo[p]]]
          /\ call' = [call EXCEPT ![s] = [@ EXCEPT !.pc = "pushLine", !.line = l]]
  BY DEF SaveLine
<1> DEFINE new == [user |-> u, product |-> p, qty |-> call[s].todo[p]]
<1>3. new \in Line /\ new # NoLine
  BY <1>0, ItemsType, ConstantsAssumption DEF Call, Line
<1>4. /\ ~LineExists(l) /\ UNCHANGED <<carts, readdressed>>
      /\ \A v \in Users : l \notin carts[v]
      /\ \A t \in Sessions : call[t].line # l
      /\ \A m \in LineIds : lines'[m] = IF m = l THEN new ELSE lines[m]
  <2>1. UNCHANGED <<carts, readdressed>>
    BY DEF SaveLine, obsVars
  <2>2. /\ ~LineExists(l) /\ \A v \in Users : l \notin carts[v]
        /\ \A t \in Sessions : call[t].line # l
    <3>1. ~LineExists(l)
      BY DEF LineIdsInUse
    <3>2. l \notin UNION {carts[v] : v \in Users}
      BY DEF LineIdsInUse
    <3>3. l \notin {call[t].line : t \in Sessions}
      BY DEF LineIdsInUse
    <3> QED BY <3>1, <3>2, <3>3
  <2>3. \A m \in LineIds : lines'[m] = IF m = l THEN new ELSE lines[m]
    BY <1>2 DEF TypeInv, TypeOK
  <2> QED BY <2>1, <2>2, <2>3
<1>5. call'[s].pc = "pushLine" /\ call'[s].line = l
  BY <1>0, <1>2 DEF TypeInv, TypeOK, Call
<1>6. new.user = u /\ new.product = p
  OBVIOUS
<1> HIDE DEF new
<1>7. LinesOf(u)' = LinesOf(u) \union {l}
  BY <1>3, <1>4, <1>6 DEF LinesOf, LineExists
<1>8. ASSUME NEW v \in Users \ {u} PROVE SameCart(v)
  BY <1>3, <1>4, <1>6 DEF SameCart, LinesOf, LineExists
<1>9. u \in Own => carts[u] = LinesOf(u) /\ LinesFor(u, p) = {}
  BY <1>0 DEF CartInv, CartFits
<1>10. ASSUME u \in Own PROVE OneLineEach(u)'
  <2>1. OneLineEach(u)
    BY <1>0, <1>10 DEF CartInv
  <2>2. \A m \in LinesOf(u) : m # l /\ lines[m].product # p
    BY <1>4, <1>9, <1>10 DEF LinesFor, LinesOf
  <2>3. /\ lines'[l].product = p
        /\ \A m \in LinesOf(u) : lines'[m].product = lines[m].product
    BY <1>4, <1>6, <2>2 DEF LinesOf
  <2> QED BY <1>7, <2>1, <2>2, <2>3 DEF OneLineEach
<1>11. u \in Own => CartFits(s)'
  BY <1>4, <1>5, <1>7, <1>9 DEF CartFits
<1>12. OwnIds'
  <2> SUFFICES ASSUME NEW w \in Own', NEW m \in LinesOf(w)'
               PROVE  /\ \A v \in Users : m \in carts'[v] => v = w
                      /\ \A t \in Sessions : call'[t].pc = "pushLine"
                             /\ call'[t].line = m => Owner[t] = w
    BY DEF OwnIds
  <2>1. w \in Own /\ w \in Users
    BY <1>4 DEF Own
  <2>2. CASE m = l
    <3>1. w = u
      BY <1>4, <1>6, <2>2 DEF LinesOf
    <3> QED BY <1>0, <1>1, <1>4, <1>5, <2>2, <3>1 DEF SameCall
  <2>3. CASE m # l
    <3>1. m \in LinesOf(w)
      BY <1>7, <1>8, <2>1, <2>3 DEF SameCart
    <3> QED BY <1>1, <1>4, <1>5, <2>1, <2>3, <3>1 DEF CartInv, OwnIds, SameCall
  <2> QED BY <2>2, <2>3
<1> QED BY <1>0, <1>1, <1>4, <1>8, <1>10, <1>11, <1>12, OwnCart DEF Own

\* $push and $pull on users.carts bring it back in line.
LEMMA PushPullFits ==
    ASSUME OneTabPerUser, TypeInv, CartInv, NEW s \in Sessions,
           PushLine(s) \/ PullLine(s)
    PROVE  CartInv'
<1> DEFINE u == Owner[s]
<1>0. call[s] \in Call /\ u \in Users
  BY DEF PushLine, PullLine, TypeInv, TypeOK, CallsFit, CallFits
<1>1. \A t \in Sessions \ {s} : SameCall(t)
  BY OthersStay DEF TypeInv, CartStep
<1>2. /\ UNCHANGED lines
      /\ \A v \in Users \ {u} : carts'[v] = carts[v]
      /\ u \in Own => carts'[u] = LinesOf(u)
      /\ UNCHANGED readdressed
  BY <1>0 DEF PushLine, PullLine, TypeInv, TypeOK, CartInv, CartFits, obsVars
<1>3. call'[s].pc \in {"idle", "find"}
  BY NextItemMoves, RespondMoves DEF PushLine, PullLine, TypeInv, MovesTo
<1>4. \A v \in Users : /\ LinesOf(v)' = LinesOf(v)
                       /\ OneLineEach(v)' = OneLineEach(v)
  BY <1>2 DEF LinesOf, LineExists, OneLineEach
<1>5. ASSUME NEW v \in Users \ {u} PROVE SameCart(v)
  BY <1>2, <1>4 DEF SameCart
<1>6. u \in Own => CartFits(s)'
  BY <1>0, <1>2, <1>3, <1>4 DEF CartFits
<1>7. u \in Own => OneLineEach(u)'
  BY <1>0, <1>4 DEF CartInv
<1>8. OwnIds'
  <2> SUFFICES ASSUME NEW w \in Own, NEW m \in LinesOf(w)
               PROVE  /\ \A v \in Users : m \in carts'[v] => v = w
                      /\ \A t \in Sessions : call'[t].pc = "pushLine"
                             /\ call'[t].line = m => Owner[t] = w
    BY <1>2, <1>4 DEF OwnIds, Own
  <2>1. \/ carts'[u] \subseteq carts[u]
        \/ call[s].pc = "pushLine" /\ carts'[u] = carts[u] \union {call[s].line}
    BY <1>0 DEF PushLine, PullLine, TypeInv, TypeOK
  <2>2. \A t \in Sessions : call'[t].pc = "pushLine" => SameCall(t)
    BY <1>1, <1>3
  <2> QED BY <1>2, <2>1, <2>2 DEF CartInv, OwnIds, SameCall
<1> QED BY <1>0, <1>1, <1>2, <1>5, <1>6, <1>7, <1>8, OwnCart DEF Own

\* Lines of one user that go leave the other carts as they were.
LEMMA LinesGo ==
    ASSUME TypeInv, NEW u \in Users, NEW L \in SUBSET LinesOf(u),
           UNCHANGED carts,
           \A m \in LineIds : lines'[m] = IF m \in L THEN NoLine ELSE lines[m]
    PROVE  /\ LinesOf(u)' = LinesOf(u) \ L
           /\ OneLineEach(u) => OneLineEach(u)'
           /\ \A v \in Users \ {u} : SameCart(v)
<1>1. LinesOf(u)' = LinesOf(u) \ L
  BY DEF LinesOf, LineExists
<1>2. OneLineEach(u) => OneLineEach(u)'
  BY <1>1 DEF OneLineEach, LinesOf
<1>3. ASSUME NEW v \in Users \ {u} PROVE SameCart(v)
  BY DEF SameCart, LinesOf, LineExists
<1> QED BY <1>1, <1>2, <1>3

\* deleteCartById: no line of another user goes, but a readdressed one's.
LEMMA DeleteCartFits ==
    ASSUME OneTabPerUser, TypeInv, CartInv, NEW s \in Sessions, DeleteCart(s)
    PROVE  CartInv'
<1> DEFINE u == Owner[s]
<1>0. call[s] \in Call /\ u \in Users /\ call[s].pc = "idle"
  <2>1. UserMayStart(s, "deleteCart")
    BY DEF DeleteCart
  <2>2. call[s].pc = "idle" /\ u # NoUser
    BY <2>1 DEF UserMayStart, MayStart, IsAdmin, InFlight
  <2> QED BY <2>2, ConstantsAssumption DEF TypeInv, TypeOK
<1>1. \A t \in Sessions \ {s} : SameCall(t)
  BY OthersStay DEF TypeInv, CartStep
<1>2. u \in Own => carts[u] = LinesOf(u) /\ OneLineEach(u)
  BY <1>0 DEF CartInv, CartFits
<1>3. PICK l \in LinesOf(u) \union carts[u] :
          /\ lines' = [lines EXCEPT ![l] = NoLine]
          /\ call' = [call EXCEPT ![s] = [@ EXCEPT !.pc = "pull", !.line = l]]
  BY DEF DeleteCart
<1>4. /\ UNCHANGED <<carts, readdressed>> /\ l \in LineIds
      /\ \A m \in LineIds : lines'[m] = IF m = l THEN NoLine ELSE lines[m]
  BY <1>0, <1>3 DEF DeleteCart, TypeInv, TypeOK, LinesOf, obsVars
<1>5. call'[s].pc = "pull" /\ call'[s].line = l
  BY <1>0, <1>3 DEF TypeInv, TypeOK, Call
<1>6. \A v \in Users : LinesOf(v)' = LinesOf(v) \ {l}
  BY <1>4 DEF LinesOf, LineExists
<1>7. ASSUME NEW v \in Own \ {u} PROVE SameCart(v)
  <2>1. l \notin LinesOf(v)
    BY <1>0, <1>3 DEF CartInv, OwnIds, Own, LinesOf
  <2> QED BY <1>4, <1>6, <2>1 DEF SameCart, Own, LinesOf
<1>8. u \in Own => OneLineEach(u)' /\ CartFits(s)'
  <2> SUFFICES ASSUME u \in Own PROVE OneLineEach(u)' /\ CartFits(s)'
    OBVIOUS
  <2>1. OneLineEach(u)'
    BY <1>0, <1>2, <1>4, <1>6 DEF OneLineEach, LinesOf
  <2> QED BY <1>0, <1>2, <1>4, <1>5, <1>6, <2>1 DEF CartFits
<1>9. OwnIds'
  BY <1>1, <1>4, <1>5, <1>6, OwnIdsKept DEF CartInv, Own
<1> QED BY <1>0, <1>1, <1>4, <1>7, <1>8, <1>9, OwnCart

\* An order empties both collections.
LEMMA EmptyFits ==
    ASSUME OneTabPerUser, TypeInv, CartInv, NEW s \in Sessions,
           ClearLines(s) \/ EmptyCart(s)
    PROVE  CartInv'
<1> DEFINE u == Owner[s]
<1>0. call[s] \in Call /\ u \in Users
  BY DEF ClearLines, EmptyCart, TypeInv, TypeOK, CallsFit, CallFits
<1>1. \A t \in Sessions \ {s} : SameCall(t)
  BY OthersStay DEF TypeInv, OrderStep
<1>2. CASE ClearLines(s)
  <2>1. /\ UNCHANGED carts
        /\ \A m \in LineIds :
              lines'[m] = IF m \in LinesOf(u) THEN NoLine ELSE lines[m]
    BY <1>2 DEF ClearLines
  <2>2. /\ LinesOf(u)' = {} /\ (OneLineEach(u) => OneLineEach(u)')
        /\ \A v \in Users \ {u} : SameCart(v)
    BY <1>0, <2>1, LinesGo
  <2>3. call'[s].pc = "empty"
    BY <1>2, OrderMoves DEF TypeInv, MovesTo
  <2>4. CartFits(s)'
    BY <2>2, <2>3 DEF CartFits
  <2>5. UNCHANGED readdressed
    BY <1>2 DEF ClearLines, obsVars
  <2>6. OwnIds'
    BY <1>1, <2>1, <2>2, <2>3, <2>5, OwnIdsKept DEF CartInv, Own, SameCart
  <2> QED BY <1>0, <1>1, <2>2, <2>4, <2>5, <2>6, OwnCart DEF CartInv, Own
<1>3. CASE EmptyCart(s)
  <2>1. /\ UNCHANGED lines /\ carts'[u] = {}
        /\ \A v \in Users \ {u} : carts'[v] = carts[v]
    BY <1>0, <1>3 DEF EmptyCart, TypeInv, TypeOK
  <2>2. \A v \in Users : /\ LinesOf(v)' = LinesOf(v)
                         /\ OneLineEach(v)' = OneLineEach(v)
    BY <2>1 DEF LinesOf, LineExists, OneLineEach
  <2>3. call'[s].pc \in {"idle", "sold", "coupon"}
    BY <1>3, OrderMoves DEF TypeInv, MovesTo
  <2>4. u \in Own => LinesOf(u) = {} /\ OneLineEach(u)
    BY <1>0, <1>3 DEF EmptyCart, CartInv, CartFits
  <2>5. ASSUME NEW v \in Users \ {u} PROVE SameCart(v)
    BY <2>1, <2>2 DEF SameCart
  <2>6. u \in Own => CartFits(s)'
    BY <1>0, <2>1, <2>2, <2>3, <2>4 DEF CartFits
  <2>7. u \in Own => OneLineEach(u)'
    BY <1>0, <2>2, <2>4
  <2>8. UNCHANGED readdressed
    BY <1>3 DEF EmptyCart, obsVars
  <2>9. OwnIds'
    BY <1>1, <2>1, <2>2, <2>3, <2>8, OwnIdsKept DEF CartInv, Own
  <2> QED BY <1>0, <1>1, <2>5, <2>6, <2>7, <2>8, <2>9, OwnCart DEF Own
<1> QED BY <1>2, <1>3

\* The start, and every step that does not fail.
LEMMA CartInit == Init => CartInv
<1> SUFFICES ASSUME Init PROVE CartInv
  OBVIOUS
<1>1. \A u \in Users : LinesOf(u) = {} /\ carts[u] = {}
  BY DEF Init, LinesOf, LineExists
<1>2. \A s \in Sessions : call[s].pc = "idle"
  BY DEF Init, Idle
<1> QED BY <1>1, <1>2 DEF CartInv, CartFits, OneLineEach, OwnIds, Own

\* Every step of a handler that does not fail keeps the invariant.
LEMMA CartNext ==
    ASSUME OneTabPerUser, TypeInv, CartInv, NEW s \in Sessions, Works(s)
    PROVE  CartInv'
BY QtySteps, UpdateCartFits, ElsewhereSteps, FindLineFits, SaveLineFits, PushPullFits,
   DeleteCartFits, EmptyFits DEF Works, CartStep, OrderStep

\* addToCart, deleteCartById and addOrder each write two collections in two
\* calls, and those of other users fall in between.  While no call has failed
\* half-way, a user who waits for the answer in one tab always finds
\* users.carts to name exactly the user's lines, one for each product, unless
\* an updateCartById gave a line another product or user.
THEOREM CartConsistentAlways ==
    ASSUME OneTabPerUser
    PROVE  Spec => [](~failed => CartConsistent)
<1> DEFINE Inv == ~failed => CartInv
<1>1. Init => Inv
  BY CartInit
<1>2. TypeInv /\ Inv /\ [Next]_vars => Inv'
  <2> SUFFICES ASSUME TypeInv, Inv, [Next]_vars, ~failed' PROVE CartInv'
    BY Zenon
  <2>1. CASE UNCHANGED vars
    <3>1. CartInv
      BY <2>1, Zenon DEF vars
    <3> QED BY <2>1, <3>1
            DEF vars, CartInv, CartFits, OneLineEach, LinesFor, LinesOf,
                LineExists, OwnIds, Own
  <2>2. CASE (failed => failed') /\ \E s \in Sessions : Works(s)
    <3>1. CartInv
      BY <2>2, Zenon
    <3> QED BY <2>2, <3>1, OneTabPerUser, CartNext
  <2> QED BY <2>1, <2>2, FailureStays, Zenon
<1>3. CartInv => CartConsistent
  BY DEF CartInv, CartFits, CartConsistent, Answered, InFlight, OneLineEach, Own
<1>4. TypeInv /\ Inv => (~failed => CartConsistent)
  BY <1>3, Zenon
<1> QED BY <1>1, <1>2, <1>4, TypeInit, TypeNext, PTL DEF Spec
=============================================================================
