--------------------------- MODULE Checkout_proofs ---------------------------
(***************************************************************************)
(* Proofs about Checkout, for every set of users, sessions, products and   *)
(* coupons and every number of orders.                                     *)
(***************************************************************************)
EXTENDS Checkout, TLAPS

(***************************************************************************)
(* Type correctness                                                        *)
(***************************************************************************)
\* What the place of call c in the handler of session s says of its data.
CallFits(s, c) ==
    /\ c.pc \in {"find", "inc", "saveLine", "pushLine", "pull", "incQty",
                 "clear", "empty", "coupon"} => Owner[s] \in Users
    /\ c.pc \in {"inc", "saveLine", "pushLine", "deduct"} => c.item \in Products
    /\ c.pc \in {"inc", "pushLine", "pull", "incQty"} => c.line \in LineIds
    /\ c.pc \in {"saveOrder", "clear", "empty", "coupon", "setStatus"} =>
           c.order \in Order
    /\ c.pc = "saveOrder" => c.number > 0 /\ c.order.user = Owner[s]
    /\ c.pc = "coupon" => c.order.coupon \in Coupons

CallsFit == \A s \in Sessions : CallFits(s, call[s])

\* A status change in flight has an order to write to, or none at all.
StatusCallsFit ==
    \A s \in Sessions : call[s].pc = "setStatus" /\ call[s].number > 0 =>
        orders[call[s].number] # NoOrder

TypeInv == TypeOK /\ CallsFit /\ StatusCallsFit

\* Session s goes on to a call that fits, other than a status change.
CallStep(s) == \E c \in Call : /\ CallFits(s, c)
                               /\ c.pc # "setStatus"
                               /\ call' = [call EXCEPT ![s] = c]

\* The quantities of a list of items, and the list after an item is done.
LEMMA ItemsType ==
    /\ NoItems \in Items
    /\ \A i \in Items, p \in Products : i[p] \in Nat /\ i[p] \in Qtys
    /\ \A i \in Items, p \in Products : [i EXCEPT ![p] = 0] \in Items
BY ConstantsAssumption DEF NoItems, Items, Qtys

\* An answered call is a call, and needs no data.
LEMMA IdleType == Idle \in Call /\ \A s \in Sessions : CallFits(s, Idle)
BY ItemsType, ConstantsAssumption DEF Idle, Call, Pcs, Qtys, CallFits

\* Answering a call leaves a call that fits.
LEMMA RespondStep ==
    ASSUME NEW s \in Sessions, Respond(s)
    PROVE  CallStep(s)
BY IdleType DEF Respond, CallStep, Idle

\* So does beginning a for-of loop over items.
LEMMA LoopStep ==
    ASSUME TypeOK, NEW s \in Sessions, NEW items \in Items,
           NEW pc \in {"find", "sold", "restock"},
           pc = "find" => Owner[s] \in Users,
           Loop(s, pc, items)
    PROVE  CallStep(s)
<1> DEFINE c == [call[s] EXCEPT !.pc = pc, !.todo = items]
<1>1. c \in Call /\ c.pc # "setStatus"
  BY DEF TypeOK, Call, Pcs
<1>2. CallFits(s, c)
  BY DEF CallFits, TypeOK, Call
<1>3. CASE items = NoItems
  BY <1>3, RespondStep DEF Loop
<1>4. CASE items # NoItems
  BY <1>1, <1>2, <1>4 DEF Loop, CallStep
<1> QED BY <1>3, <1>4

\* And so does going on to the next item of a loop, or leaving it.
LEMMA NextItemStep ==
    ASSUME TypeOK, NEW s \in Sessions, NEW p \in Products,
           NEW pc \in {"find", "sold", "restock"},
           pc = "find" => Owner[s] \in Users,
           NextItem(s, p, pc)
    PROVE  CallStep(s)
<1> DEFINE c == [call[s] EXCEPT !.pc = pc, !.todo[p] = 0, !.item = NoProduct,
                                !.line = NoLine]
<1>0. call[s] \in Call
  BY DEF TypeOK
<1>1. c \in Call /\ c.pc # "setStatus"
  BY <1>0, ItemsType DEF Call, Pcs
<1>2. CallFits(s, c)
  BY <1>0 DEF CallFits, Call
<1>3. CASE Pending(s) \subseteq {p}
  BY <1>3, RespondStep DEF NextItem
<1>4. CASE ~(Pending(s) \subseteq {p})
  BY <1>1, <1>2, <1>4 DEF NextItem, CallStep
<1> QED BY <1>3, <1>4

\* What a step of one session does to the calls in flight.
LEMMA CallsStep ==
    ASSUME TypeOK, CallsFit, NEW s \in Sessions, CallStep(s)
    PROVE  call' \in [Sessions -> Call] /\ CallsFit'
<1>1. PICK c \in Call : CallFits(s, c) /\ call' = [call EXCEPT ![s] = c]
  BY DEF CallStep
<1>2. call' \in [Sessions -> Call]
  BY <1>1 DEF TypeOK
<1>3. ASSUME NEW t \in Sessions PROVE CallFits(t, call[t])'
  <2>1. CASE t = s
    BY <1>1, <2>1 DEF TypeOK, CallFits
  <2>2. CASE t # s
    BY <1>1, <2>2 DEF TypeOK, CallFits, CallsFit
  <2> QED BY <2>1, <2>2
<1> QED BY <1>2, <1>3 DEF CallsFit

\* A step that removes no order and starts no status change.
LEMMA QuietStep ==
    ASSUME TypeInv, NEW s \in Sessions, CallStep(s),
           \A n \in 1..MaxOrders : orders[n] # NoOrder => orders'[n] # NoOrder
    PROVE  call' \in [Sessions -> Call] /\ CallsFit' /\ StatusCallsFit'
<1> USE DEF TypeInv
<1>1. call' \in [Sessions -> Call] /\ CallsFit'
  BY CallsStep
<1>2. \A t \in Sessions : t # s => call'[t] = call[t]
  BY DEF CallStep, TypeOK
<1>3. \A t \in Sessions : call[t].number > 0 => call[t].number \in 1..MaxOrders
  BY ConstantsAssumption DEF TypeOK, Call
<1>4. call'[s].pc # "setStatus"
  BY DEF CallStep, TypeOK
<1> QED BY <1>1, <1>2, <1>3, <1>4 DEF StatusCallsFit

\* The empty database, with every session idle, is well-typed.
LEMMA TypeInit == Init => TypeInv
<1> SUFFICES ASSUME Init PROVE TypeInv
  OBVIOUS
<1>1. call \in [Sessions -> Call]
  BY IdleType DEF Init
<1>2. orderSeq \in 0..MaxOrders /\ quantity \in [Products -> Int]
  BY ConstantsAssumption DEF Init
<1>3. TypeOK
  <2>1. /\ lines \in [LineIds -> Line \union {NoLine}]
        /\ orders \in [1..MaxOrders -> Order \union {NoOrder}]
        /\ carts \in [Users -> SUBSET LineIds]
        /\ usedCoupons \in [Users -> SUBSET Coupons]
        /\ granted \in [Sessions -> SUBSET Coupons]
    BY DEF Init
  <2>2. /\ totalSold \in [Products -> Int]
        /\ placed \in [Products -> Nat] /\ cancelled \in [Products -> Nat]
    BY DEF Init
  <2>3. failed \in BOOLEAN /\ readdressed \subseteq Users
    BY Zenon DEF Init
  <2> QED BY <1>1, <1>2, <2>1, <2>2, <2>3 DEF TypeOK
<1>4. CallsFit /\ StatusCallsFit
  BY IdleType DEF Init, CallsFit, StatusCallsFit, Idle
<1> QED BY <1>3, <1>4 DEF TypeInv

\* The types of the cart lines and references that CartService writes.
LEMMA CartTypes ==
    ASSUME TypeInv, NEW s \in Sessions, CartStep(s)
    PROVE  TypeInv'
<1> USE DEF TypeInv, cartVars, orderVars, stockVars, obsVars
<1>0. call[s] \in Call /\ CallFits(s, call[s])
  BY DEF TypeOK, CallsFit
<1>1. ASSUME AddToCart(s) PROVE CallStep(s) /\ UNCHANGED <<lines, carts>>
  <2>1. Owner[s] \in Users
    BY <1>1, ConstantsAssumption DEF AddToCart, UserMayStart, IsAdmin
  <2> QED BY <1>1, <2>1, LoopStep, ConstantsAssumption DEF AddToCart
<1>2. ASSUME FindLine(s) PROVE CallStep(s) /\ UNCHANGED <<lines, carts>>
  <2>1. PICK p \in Pending(s) :
          \/ \E l \in LinesFor(Owner[s], p) :
                call' = [call EXCEPT ![s] =
                             [@ EXCEPT !.pc = "inc", !.item = p, !.line = l]]
          \/ call' = [call EXCEPT ![s] =
                             [@ EXCEPT !.pc = "saveLine", !.item = p]]
    BY <1>2 DEF FindLine
  <2>2. p \in Products /\ Owner[s] \in Users
    BY <1>0, <1>2, <2>1 DEF Pending, FindLine, CallFits
  <2>3. \A l \in LineIds :
            LET c == [call[s] EXCEPT !.pc = "inc", !.item = p, !.line = l]
            IN  c \in Call /\ CallFits(s, c) /\ c.pc # "setStatus"
    BY <1>0, <2>2 DEF Call, Pcs, CallFits
  <2>4. LET c == [call[s] EXCEPT !.pc = "saveLine", !.item = p]
        IN  c \in Call /\ CallFits(s, c) /\ c.pc # "setStatus"
    BY <1>0, <2>2 DEF Call, Pcs, CallFits
  <2>5. LinesFor(Owner[s], p) \subseteq LineIds
    BY DEF LinesFor, LinesOf
  <2> QED BY <1>2, <2>1, <2>3, <2>4, <2>5 DEF CallStep, FindLine
<1>3. ASSUME NEW l \in LineIds, NEW q \in Int, IncLineQty(l, q)
      PROVE  lines' \in [LineIds -> Line \union {NoLine}]
  BY <1>3 DEF IncLineQty, LineExists, TypeOK, Line
<1>4. ASSUME IncLine(s)
      PROVE  /\ CallStep(s)
             /\ lines' \in [LineIds -> Line \union {NoLine}]
             /\ UNCHANGED carts
  <2>1. /\ call[s].item \in Products /\ call[s].line \in LineIds
        /\ Owner[s] \in Users
    BY <1>0, <1>4 DEF IncLine, CallFits
  <2>2. call[s].todo[call[s].item] \in Int
    BY <1>0, <2>1, ItemsType DEF Call
  <2> QED BY <1>3, <1>4, <2>1, <2>2, NextItemStep DEF IncLine
<1>5. ASSUME SaveLine(s)
      PROVE  /\ CallStep(s)
             /\ lines' \in [LineIds -> Line \union {NoLine}]
             /\ UNCHANGED carts
  <2> DEFINE p == call[s].item
  <2>1. p \in Products /\ Owner[s] \in Users
    BY <1>0, <1>5 DEF SaveLine, CallFits
  <2>2. [user |-> Owner[s], product |-> p, qty |-> call[s].todo[p]] \in Line
    BY <1>0, <2>1, ItemsType DEF Call, Line
  <2>3. \A l \in LineIds :
            LET c == [call[s] EXCEPT !.pc = "pushLine", !.line = l]
            IN  c \in Call /\ CallFits(s, c) /\ c.pc # "setStatus"
    BY <1>0, <2>1 DEF Call, Pcs, CallFits
  <2> QED BY <1>5, <2>2, <2>3 DEF SaveLine, CallStep, TypeOK
<1>6. ASSUME PushLine(s)
      PROVE  /\ CallStep(s)
             /\ carts' \in [Users -> SUBSET LineIds]
             /\ UNCHANGED lines
  <2>1. /\ call[s].item \in Products /\ call[s].line \in LineIds
        /\ Owner[s] \in Users
    BY <1>0, <1>6 DEF PushLine, CallFits
  <2> QED BY <1>6, <2>1, NextItemStep DEF PushLine, TypeOK
<1>7. ASSUME DeleteCart(s)
      PROVE  /\ CallStep(s)
             /\ lines' \in [LineIds -> Line \union {NoLine}]
             /\ UNCHANGED carts
  <2>1. Owner[s] \in Users
    BY <1>7, ConstantsAssumption DEF DeleteCart, UserMayStart, IsAdmin
  <2>2. LinesOf(Owner[s]) \union carts[Owner[s]] \subseteq LineIds
    BY <2>1 DEF LinesOf, TypeOK
  <2>3. \A l \in LineIds :
            LET c == [call[s] EXCEPT !.pc = "pull", !.line = l]
            IN  c \in Call /\ CallFits(s, c) /\ c.pc # "setStatus"
    BY <1>0, <2>1 DEF Call, Pcs, CallFits
  <2> QED BY <1>7, <2>2, <2>3 DEF DeleteCart, CallStep, TypeOK
<1>8. ASSUME PullLine(s)
      PROVE  /\ CallStep(s)
             /\ carts' \in [Users -> SUBSET LineIds]
             /\ UNCHANGED lines
  BY <1>8, RespondStep DEF PullLine, TypeOK
<1>9. ASSUME UpdateCart(s)
      PROVE  /\ lines' \in [LineIds -> Line \union {NoLine}]
             /\ readdressed' \subseteq Users
             /\ UNCHANGED <<carts, call>>
             /\ UNCHANGED <<usedCoupons, orderVars, stockVars, granted, placed,
                            cancelled, failed>>
  <2>1. PICK l \in LinesOf(Owner[s]), to \in Users, p \in Products :
          /\ \E q \in {lines[l].qty} \union 1..MaxQty :
                lines' = [lines EXCEPT ![l] = [user |-> to, product |-> p, qty |-> q]]
          /\ readdressed' = IF to = lines[l].user /\ p = lines[l].product
                            THEN readdressed
                            ELSE readdressed \union {lines[l].user, to}
    BY <1>9 DEF UpdateCart
  <2>2. lines[l] \in Line /\ l \in LineIds
    BY DEF LinesOf, LineExists, TypeOK
  <2>3. /\ lines[l].user \in Users
        /\ \A q \in {lines[l].qty} \union 1..MaxQty : q \in Qtys
    BY <2>2, ConstantsAssumption DEF Line, Qtys
  <2>4. \A q \in Qtys : [user |-> to, product |-> p, qty |-> q] \in Line
    BY DEF Line
  <2>5. lines' \in [LineIds -> Line \union {NoLine}]
    BY <2>1, <2>2, <2>3, <2>4 DEF TypeOK
  <2>6. readdressed' \subseteq Users
    BY <2>1, <2>3 DEF TypeOK
  <2> QED BY <1>9, <2>5, <2>6 DEF UpdateCart
<1>10. ASSUME UpdateCartQty(s) PROVE CallStep(s) /\ UNCHANGED <<lines, carts>>
  <2>1. Owner[s] \in Users
    BY <1>10, ConstantsAssumption DEF UpdateCartQty, UserMayStart, IsAdmin
  <2>2. PICK l \in LineIds, by \in Qtys :
            call' = [call EXCEPT ![s] =
                         [@ EXCEPT !.pc = "incQty", !.line = l, !.by = by]]
    <3>1. \A q \in 1..MaxQty : q \in Qtys /\ -q \in Qtys
      BY ConstantsAssumption DEF Qtys
    <3> QED BY <1>10, <3>1 DEF UpdateCartQty, LinesOf
  <2>3. LET c == [call[s] EXCEPT !.pc = "incQty", !.line = l, !.by = by]
        IN  c \in Call /\ CallFits(s, c) /\ c.pc # "setStatus"
    BY <1>0, <2>1, <2>2 DEF Call, Pcs, CallFits
  <2> QED BY <1>10, <2>2, <2>3 DEF UpdateCartQty, CallStep
<1>11. ASSUME IncQty(s)
       PROVE  /\ CallStep(s)
              /\ lines' \in [LineIds -> Line \union {NoLine}]
              /\ UNCHANGED carts
  <2>1. call[s].line \in LineIds /\ call[s].by \in Int
    BY <1>0, <1>11 DEF IncQty, CallFits, Call, Qtys
  <2> QED BY <1>3, <1>11, <2>1, RespondStep DEF IncQty
<1>12. UpdateCart(s)
       \/ UNCHANGED <<usedCoupons, orderVars, stockVars, granted, obsVars>>
  BY DEF CartStep, AddToCart, FindLine, IncLine, SaveLine, PushLine,
         DeleteCart, PullLine, UpdateCartQty, IncQty
<1>13. CASE UpdateCart(s)
  BY <1>9, <1>13 DEF TypeOK, CallsFit, CallFits, StatusCallsFit
<1>14. CASE ~UpdateCart(s)
  <2>1. /\ CallStep(s)
        /\ lines' \in [LineIds -> Line \union {NoLine}]
        /\ carts' \in [Users -> SUBSET LineIds]
    BY <1>1, <1>2, <1>4, <1>5, <1>6, <1>7, <1>8, <1>10, <1>11, <1>14
       DEF CartStep, TypeOK
  <2> QED BY <1>12, <1>14, <2>1, QuietStep DEF TypeOK
<1> QED BY <1>13, <1>14

\* The types of what OrderService writes, and the orders that status changes
\* in flight will write to.
LEMMA OrderTypes ==
    ASSUME TypeInv, NEW s \in Sessions, OrderStep(s)
    PROVE  TypeInv'
<1> USE DEF TypeInv, cartVars, orderVars, stockVars, obsVars
<1>0. call[s] \in Call /\ CallFits(s, call[s])
  BY DEF TypeOK, CallsFit
<1>1. ASSUME NEW x \in Products, NEW q \in Int, NEW f \in [Products -> Int]
      PROVE  Inc(f, x, q) \in [Products -> Int]
  BY <1>1 DEF Inc
<1>2. ASSUME NEW f \in [Products -> Nat], NEW i \in Items
      PROVE  Plus(f, i) \in [Products -> Nat]
  BY <1>2, ItemsType DEF Plus
<1>3. ASSUME NEW d \in Drafts, NEW u \in Users \union {NoUser},
             NEW c \in Coupons \union {NoCoupon}
      PROVE  NewOrder(d, u, c) \in Order /\ NewOrder(d, u, c).user = u
  <2>1. d \in Draft
    BY ConstantsAssumption
  <2> QED BY <2>1 DEF NewOrder, Order, Draft, PENDING, CONFIRM, REFUND
<1>4. ASSUME NEW o \in Order, NEW st \in Statuses
      PROVE  WithStatus(o, st) \in Order
  <2>1. st \in PENDING..REFUND
    BY ConstantsAssumption
  <2>2. StepsDone(st) \subseteq CONFIRM..REFUND
    BY <2>1 DEF StepsDone, PENDING, CONFIRM, DELIVERED, REFUND
  <2> QED BY <2>1, <2>2 DEF WithStatus, Order
<1>5. ASSUME NEW S \in SUBSET (1..MaxOrders)
      PROVE  /\ OrdersWithout(S) \in [1..MaxOrders -> Order \union {NoOrder}]
             /\ CallsWithout(S) \in [Sessions -> Call]
             /\ \A t \in Sessions : CallFits(t, CallsWithout(S)[t])
             /\ \A t \in Sessions :
                    LET c == CallsWithout(S)[t] IN
                    c.pc = "setStatus" /\ c.number > 0 =>
                        OrdersWithout(S)[c.number] # NoOrder
  <2>1. OrdersWithout(S) \in [1..MaxOrders -> Order \union {NoOrder}]
    BY DEF OrdersWithout, TypeOK
  <2>2. ASSUME NEW t \in Sessions
        PROVE  LET c == CallsWithout(S)[t] IN
               /\ c \in Call /\ CallFits(t, c)
               /\ c.pc = "setStatus" /\ c.number > 0 =>
                      OrdersWithout(S)[c.number] # NoOrder
    <3>1. call[t] \in Call /\ CallFits(t, call[t])
      BY DEF TypeOK, CallsFit
    <3>2. CASE call[t].pc = "setStatus" /\ call[t].number \in S
      BY <3>1, <3>2, ConstantsAssumption DEF CallsWithout, Call, CallFits
    <3>3. CASE ~(call[t].pc = "setStatus" /\ call[t].number \in S)
      BY <3>1, <3>3 DEF CallsWithout, OrdersWithout, StatusCallsFit, Call
    <3> QED BY <3>2, <3>3
  <2>3. CallsWithout(S) \in [Sessions -> Call]
    BY <2>2 DEF CallsWithout
  <2> QED BY <2>1, <2>2, <2>3
<1>7. ASSUME AddOrder(s)
      PROVE  CallStep(s)
  <2>1. Owner[s] \in Users \union {NoUser}
    BY ConstantsAssumption
  <2>2. PICK d \in Drafts, c \in Coupons \union {NoCoupon} :
          call' = [call EXCEPT ![s] = [@ EXCEPT
                       !.pc = "saveOrder", !.number = orderSeq + 1,
                       !.order = NewOrder(d, Owner[s], c)]]
    BY <1>7 DEF AddOrder, TypeOK
  <2>3. orderSeq + 1 \in 0..MaxOrders /\ orderSeq + 1 > 0
    BY <1>7, ConstantsAssumption DEF AddOrder, TypeOK
  <2>4. LET n == NewOrder(d, Owner[s], c) IN n \in Order /\ n.user = Owner[s]
    BY <1>3, <2>1
  <2>5. LET c1 == [call[s] EXCEPT !.pc = "saveOrder", !.number = orderSeq + 1,
                                  !.order = NewOrder(d, Owner[s], c)]
        IN  c1 \in Call /\ CallFits(s, c1) /\ c1.pc # "setStatus"
    BY <1>0, <2>3, <2>4 DEF Call, Pcs, CallFits
  <2> QED BY <1>0, <2>2, <2>5 DEF CallStep, TypeOK, Call
<1>8. ASSUME SaveOrder(s)
      PROVE  /\ CallStep(s)
             /\ orders' \in [1..MaxOrders -> Order \union {NoOrder}]
             /\ placed' \in [Products -> Nat]
             /\ \A n \in 1..MaxOrders : orders[n] # NoOrder => orders'[n] # NoOrder
  <2> DEFINE n == call[s].number
             o == call[s].order
  <2>1. o \in Order /\ n \in 1..MaxOrders /\ o.items \in Items /\ o.user = Owner[s]
    BY <1>0, <1>8, ConstantsAssumption DEF SaveOrder, CallFits, Call, Order
  <2>2. CASE orders[n] # NoOrder
    BY <1>8, <2>2, RespondStep DEF SaveOrder, TypeOK
  <2>3. CASE orders[n] = NoOrder
    <3>1. /\ orders' = [orders EXCEPT ![n] = o]
          /\ placed' = Plus(placed, o.items)
          /\ IF IsAdmin(s) THEN Loop(s, "sold", o.items) ELSE Goto(s, "clear")
      BY <1>8, <2>3 DEF SaveOrder
    <3>2. ASSUME IsAdmin(s) PROVE CallStep(s)
      <4>1. Loop(s, "sold", o.items)
        BY <3>1, <3>2
      <4> QED BY <2>1, <4>1, LoopStep
    <3>3. ASSUME ~IsAdmin(s) PROVE CallStep(s)
      <4>1. Owner[s] \in Users
        BY <3>3, ConstantsAssumption DEF IsAdmin
      <4>2. LET c == [call[s] EXCEPT !.pc = "clear"]
            IN  c \in Call /\ CallFits(s, c) /\ c.pc # "setStatus"
        BY <1>0, <2>1, <4>1 DEF Call, Pcs, CallFits
      <4>3. Goto(s, "clear")
        BY <3>1, <3>3
      <4> QED BY <4>2, <4>3 DEF Goto, CallStep
    <3>4. orders' \in [1..MaxOrders -> Order \union {NoOrder}]
      BY <2>1, <3>1 DEF TypeOK
    <3>5. placed' \in [Products -> Nat]
      BY <1>2, <2>1, <3>1 DEF TypeOK
    <3>6. \A m \in 1..MaxOrders : orders[m] # NoOrder => orders'[m] # NoOrder
      BY <2>1, <2>3, <3>1 DEF TypeOK
    <3> QED BY <3>2, <3>3, <3>4, <3>5, <3>6
  <2> QED BY <2>2, <2>3
<1>9. ASSUME ClearLines(s)
      PROVE  /\ CallStep(s)
             /\ lines' \in [LineIds -> Line \union {NoLine}]
  <2>1. LET c == [call[s] EXCEPT !.pc = "empty"] 
        IN  c \in Call /\ CallFits(s, c) /\ c.pc # "setStatus"
    BY <1>0, <1>9 DEF ClearLines, Call, Pcs, CallFits
  <2> QED BY <1>0, <1>9, <2>1 DEF ClearLines, Goto, CallStep, TypeOK
<1>10. ASSUME EmptyCart(s)
       PROVE  /\ CallStep(s)
              /\ carts' \in [Users -> SUBSET LineIds]
  <2>1. call[s].order \in Order /\ call[s].order.items \in Items
    BY <1>0, <1>10 DEF EmptyCart, CallFits, Order
  <2>2. CASE call[s].order.coupon = NoCoupon
    <3>1. Loop(s, "sold", call[s].order.items)
      BY <1>10, <2>2 DEF EmptyCart
    <3>2. CallStep(s)
      BY <2>1, <3>1, LoopStep
    <3> QED BY <1>10, <3>2 DEF EmptyCart, TypeOK
  <2>3. CASE call[s].order.coupon # NoCoupon
    <3>1. LET c == [call[s] EXCEPT !.pc = "coupon"]
          IN  c \in Call /\ CallFits(s, c) /\ c.pc # "setStatus"
      BY <1>0, <1>10, <2>1, <2>3 DEF EmptyCart, Call, Pcs, CallFits, Order
    <3>2. Goto(s, "coupon")
      BY <1>10, <2>3 DEF EmptyCart
    <3>3. CallStep(s)
      BY <3>1, <3>2 DEF Goto, CallStep
    <3> QED BY <1>10, <3>3 DEF EmptyCart, TypeOK
  <2> QED BY <1>10, <2>2, <2>3 DEF EmptyCart, TypeOK
<1>11. ASSUME UseCoupon(s)
       PROVE  /\ CallStep(s)
              /\ usedCoupons' \in [Users -> SUBSET Coupons]
  <2>1. /\ call[s].order.items \in Items /\ call[s].order.coupon \in Coupons
    BY <1>0, <1>11 DEF UseCoupon, CallFits, Order
  <2> QED BY <1>11, <2>1, LoopStep DEF UseCoupon, TypeOK
<1>12. ASSUME CountSold(s)
       PROVE  /\ CallStep(s)
              /\ totalSold' \in [Products -> Int]
  <2>1. PICK p \in Products :
          /\ totalSold' = Inc(totalSold, p, call[s].todo[p])
          /\ call' = [call EXCEPT ![s] = [@ EXCEPT !.pc = "deduct", !.item = p]]
    BY <1>12 DEF CountSold, Pending
  <2>2. call[s].todo[p] \in Int
    BY <1>0, ItemsType DEF Call
  <2>3. LET c == [call[s] EXCEPT !.pc = "deduct", !.item = p]
        IN  c \in Call /\ CallFits(s, c) /\ c.pc # "setStatus"
    BY <1>0 DEF Call, Pcs, CallFits
  <2> QED BY <1>0, <1>1, <2>1, <2>2, <2>3 DEF CallStep, TypeOK, Call
<1>13. ASSUME DeductStock(s)
       PROVE  /\ CallStep(s)
              /\ quantity' \in [Products -> Int]
  <2>1. call[s].item \in Products
    BY <1>0, <1>13 DEF DeductStock, CallFits
  <2>2. -call[s].todo[call[s].item] \in Int
    BY <1>0, <2>1, ItemsType DEF Call
  <2> QED BY <1>1, <1>13, <2>1, <2>2, NextItemStep DEF DeductStock, TypeOK
<1>14. ASSUME Restock(s)
       PROVE  CallStep(s) /\ quantity' \in [Products -> Int]
  <2>1. PICK p \in Products : /\ quantity' = Inc(quantity, p, call[s].todo[p])
                              /\ NextItem(s, p, "restock")
    BY <1>14 DEF Restock, Pending
  <2>2. call[s].todo[p] \in Int
    BY <1>0, ItemsType DEF Call
  <2> QED BY <1>1, <2>1, <2>2, NextItemStep DEF TypeOK
<1>15. ASSUME InsertManyOrder(s)
       PROVE  /\ CallStep(s)
              /\ orders' \in [1..MaxOrders -> Order \union {NoOrder}]
              /\ \A n \in 1..MaxOrders : orders[n] # NoOrder => orders'[n] # NoOrder
  <2>1. PICK S \in SUBSET {n \in 1..MaxOrders : orders[n] = NoOrder},
             d \in Drafts :
          orders' = [n \in 1..MaxOrders |->
                        IF n \in S THEN NewOrder(d, NoUser, NoCoupon)
                        ELSE orders[n]]
    BY <1>15 DEF InsertManyOrder
  <2>2. NewOrder(d, NoUser, NoCoupon) \in Order
    BY <1>3
  <2>3. /\ orders' \in [1..MaxOrders -> Order \union {NoOrder}]
        /\ \A n \in 1..MaxOrders : orders[n] # NoOrder => orders'[n] # NoOrder
    BY <2>1, <2>2 DEF TypeOK
  <2> QED BY <1>15, <2>3, RespondStep DEF InsertManyOrder
<1>16. ASSUME SetStatus(s)
       PROVE  /\ CallStep(s)
              /\ orders' \in [1..MaxOrders -> Order \union {NoOrder}]
              /\ cancelled' \in [Products -> Nat]
              /\ \A n \in 1..MaxOrders : orders[n] # NoOrder => orders'[n] # NoOrder
  <2> DEFINE n == call[s].number
             o == call[s].order
             new == [orders[n] EXCEPT !.status = o.status, !.done = o.done,
                                      !.paid = o.paid, !.dated = o.dated]
  <2>1. o \in Order /\ o.items \in Items /\ n \in 0..MaxOrders
    BY <1>0, <1>16 DEF SetStatus, CallFits, Call, Order
  <2>2. CallStep(s)
    BY <1>16, <2>1, LoopStep, RespondStep DEF SetStatus
  <2>3. cancelled' \in [Products -> Nat]
    BY <1>2, <1>16, <2>1 DEF SetStatus, TypeOK
  <2>4. CASE n = 0
    BY <1>16, <2>2, <2>3, <2>4 DEF SetStatus, TypeOK
  <2>5. CASE n # 0
    <3>1. n \in 1..MaxOrders /\ orders[n] \in Order
      BY <1>16, <2>1, <2>5, ConstantsAssumption
         DEF SetStatus, StatusCallsFit, TypeOK
    <3>2. new \in Order
      BY <2>1, <3>1 DEF Order
    <3>3. orders' = [orders EXCEPT ![n] = new]
      BY <1>16, <2>5 DEF SetStatus
    <3>4. orders' \in [1..MaxOrders -> Order \union {NoOrder}]
      BY <3>1, <3>2, <3>3 DEF TypeOK
    <3>5. \A m \in 1..MaxOrders : orders[m] # NoOrder => orders'[m] # NoOrder
      BY <3>1, <3>2, <3>3, ConstantsAssumption DEF TypeOK
    <3> QED BY <2>2, <2>3, <3>4, <3>5
  <2> QED BY <2>4, <2>5
<1>17. ASSUME ReadOrder(s)
       PROVE  call' \in [Sessions -> Call] /\ CallsFit' /\ StatusCallsFit'
  <2>1. PICK n \in 1..MaxOrders, st \in Statuses :
          /\ orders[n] # NoOrder
          /\ call' = [call EXCEPT ![s] = [@ EXCEPT
                          !.pc = "setStatus", !.number = n,
                          !.order = WithStatus(orders[n], st)]]
    BY <1>17 DEF ReadOrder
  <2> DEFINE c == [call[s] EXCEPT !.pc = "setStatus", !.number = n,
                                  !.order = WithStatus(orders[n], st)]
  <2>2. WithStatus(orders[n], st) \in Order
    BY <1>4, <2>1 DEF TypeOK
  <2>3. n \in 0..MaxOrders
    BY ConstantsAssumption
  <2>4. c \in Call /\ CallFits(s, c) /\ c.number = n
    BY <1>0, <2>2, <2>3 DEF Call, Pcs, CallFits
  <2>5. call' \in [Sessions -> Call] /\ call'[s] = c
    BY <2>1, <2>4 DEF TypeOK
  <2>6. \A t \in Sessions : t # s => call'[t] = call[t]
    BY <2>1 DEF TypeOK
  <2>7. CallsFit'
    BY <2>4, <2>5, <2>6 DEF CallsFit, CallFits
  <2>8. StatusCallsFit'
    BY <1>17, <2>1, <2>4, <2>5, <2>6 DEF StatusCallsFit, ReadOrder
  <2> QED BY <2>5, <2>7, <2>8
<1>18. ASSUME InsertManyOrderStart(s)
       PROVE  /\ orders' \in [1..MaxOrders -> Order \union {NoOrder}]
              /\ call' \in [Sessions -> Call] /\ CallsFit' /\ StatusCallsFit'
  <2>1. PICK S \in SUBSET (1..MaxOrders) :
          /\ orders' = OrdersWithout(S)
          /\ call' = [CallsWithout(S) EXCEPT ![s].pc = "insert"]
    BY <1>18 DEF InsertManyOrderStart
  <2>2. CallsWithout(S)[s] \in Call
    BY <1>5
  <2>3. LET c == [CallsWithout(S)[s] EXCEPT !.pc = "insert"]
        IN  c \in Call /\ CallFits(s, c) /\ c.pc # "setStatus"
    BY <2>2 DEF Call, Pcs, CallFits
  <2>4. \A t \in Sessions : t # s => call'[t] = CallsWithout(S)[t]
    BY <1>5, <2>1
  <2>5. /\ call' \in [Sessions -> Call]
        /\ call'[s] = [CallsWithout(S)[s] EXCEPT !.pc = "insert"]
    BY <1>5, <2>1, <2>3
  <2>6. ASSUME NEW t \in Sessions PROVE CallFits(t, call[t])'
    <3>1. CASE t = s
      BY <2>3, <2>5, <3>1 DEF CallFits
    <3>2. CASE t # s
      BY <1>5, <2>4, <3>2 DEF CallFits
    <3> QED BY <3>1, <3>2
  <2>7. StatusCallsFit'
    BY <1>5, <2>1, <2>3, <2>4, <2>5 DEF StatusCallsFit
  <2> QED BY <1>5, <2>1, <2>5, <2>6, <2>7 DEF CallsFit
<1>19. ASSUME DeleteOrders(s)
       PROVE  /\ orders' \in [1..MaxOrders -> Order \union {NoOrder}]
              /\ call' \in [Sessions -> Call] /\ CallsFit' /\ StatusCallsFit'
  <2>1. PICK S \in SUBSET (1..MaxOrders) : /\ orders' = OrdersWithout(S)
                                           /\ call' = CallsWithout(S)
    BY <1>19 DEF DeleteOrders
  <2> QED BY <1>5, <2>1 DEF CallsFit, CallFits, StatusCallsFit
<1>20. CASE AddOrder(s)
  <2>1. orderSeq' \in 0..MaxOrders /\ granted' \in [Sessions -> SUBSET Coupons]
    BY <1>20, ConstantsAssumption DEF AddOrder, TypeOK
  <2>2. CallStep(s) /\ UNCHANGED orders
    BY <1>7, <1>20 DEF AddOrder
  <2> QED BY QuietStep, <1>20, <2>1, <2>2 DEF AddOrder, TypeOK
<1>21. CASE SaveOrder(s)
  BY QuietStep, <1>8, <1>21 DEF SaveOrder, TypeOK
<1>22. CASE ClearLines(s) \/ EmptyCart(s) \/ UseCoupon(s)
  BY QuietStep, <1>9, <1>10, <1>11, <1>22 DEF ClearLines, EmptyCart, UseCoupon, TypeOK
<1>23. CASE CountSold(s) \/ DeductStock(s) \/ Restock(s)
  BY QuietStep, <1>12, <1>13, <1>14, <1>23 DEF CountSold, DeductStock, Restock, TypeOK
<1>24. CASE InsertManyOrder(s)
  BY QuietStep, <1>15, <1>24 DEF InsertManyOrder, TypeOK
<1>25. CASE SetStatus(s)
  BY QuietStep, <1>16, <1>25 DEF SetStatus, TypeOK
<1>26. CASE ReadOrder(s) \/ InsertManyOrderStart(s) \/ DeleteOrders(s)
  BY <1>17, <1>18, <1>19, <1>26
     DEF ReadOrder, InsertManyOrderStart, DeleteOrders, TypeOK
<1> QED BY <1>20, <1>21, <1>22, <1>23, <1>24, <1>25, <1>26 DEF OrderStep

\* Every handler step of every session keeps types and calls' data.
LEMMA TypeNext == TypeInv /\ [Next]_vars => TypeInv'
<1> SUFFICES ASSUME TypeInv, [Next]_vars PROVE TypeInv'
  OBVIOUS
<1> USE DEF TypeInv, cartVars, orderVars, stockVars, obsVars
<1>1. ASSUME NEW s \in Sessions, CheckCoupon(s) PROVE TypeInv'
  BY <1>1 DEF CheckCoupon, TypeOK, CallsFit, CallFits, StatusCallsFit
<1>2. ASSUME NEW s \in Sessions, CallFails(s) PROVE TypeInv'
  <2>1. CallStep(s) /\ UNCHANGED orders /\ failed' \in BOOLEAN
    BY <1>2, RespondStep DEF CallFails
  <2> QED BY <1>2, <2>1, QuietStep DEF CallFails, TypeOK
<1>3. CASE UNCHANGED vars
  BY <1>3 DEF vars, TypeOK, CallsFit, CallFits, StatusCallsFit
<1> QED BY <1>1, <1>2, <1>3, CartTypes, OrderTypes DEF Next

\* Every variable keeps its type, and a call keeps the data its place in the
\* handler needs: CartService, CouponService and OrderService never touch a
\* line, an order or a product that is not there.
THEOREM TypeCorrect == Spec => []TypeOK
<1>1. Spec => []TypeInv
  BY TypeInit, TypeNext, PTL DEF Spec
<1>2. TypeInv => TypeOK
  BY DEF TypeInv
<1> QED BY <1>1, <1>2, PTL

(***************************************************************************)
(* Orders stay coherent                                                    *)
(***************************************************************************)
\* An order about to be written is coherent by itself, and a stale copy still
\* agrees with its document on hasTimeline, which no handler changes.
CallsCoherent ==
    \A s \in Sessions :
        /\ call[s].pc \in {"saveOrder", "setStatus"} => Coherent(call[s].order)
        /\ call[s].pc = "setStatus" /\ call[s].number > 0 =>
               call[s].order.hasTimeline = orders[call[s].number].hasTimeline

StatusInv == StatusCoherent /\ CallsCoherent

\* A new order, from a client or from an imported file, is coherent.
LEMMA NewOrderCoherent ==
    ASSUME NEW d, NEW u, NEW c
    PROVE  Coherent(NewOrder(d, u, c))
BY DEF NewOrder, Coherent, StepsDone, PENDING, DELIVERED

\* What changeOrderStatus computes from any copy is coherent, whatever status
\* the copy had, and keeps hasTimeline.
LEMMA WithStatusCoherent ==
    ASSUME NEW o \in Order, NEW st
    PROVE  Coherent(WithStatus(o, st)) /\ WithStatus(o, st).hasTimeline = o.hasTimeline
BY DEF WithStatus, Coherent, Order

\* A step by which only session s moves, to a call that writes no order next,
\* and which changes no order.
LEMMA CoherentStep ==
    ASSUME TypeInv, StatusInv, UNCHANGED orders,
           \A t \in Sessions : \/ call'[t] = call[t]
                               \/ call'[t].pc \notin {"saveOrder", "setStatus"}
    PROVE  StatusInv'
BY DEF StatusInv, StatusCoherent, CallsCoherent, Coherent

\* Where the steps of a session may lead, other than AddOrder and ReadOrder.
LEMMA StepTargets ==
    ASSUME TypeInv, NEW s \in Sessions,
           CartStep(s) \/ CheckCoupon(s) \/ CallFails(s)
             \/ ClearLines(s) \/ EmptyCart(s) \/ UseCoupon(s) \/ CountSold(s)
             \/ DeductStock(s) \/ Restock(s)
             \/ SaveOrder(s) \/ SetStatus(s) \/ InsertManyOrder(s)
    PROVE  \A t \in Sessions : \/ call'[t] = call[t]
                               \/ call'[t].pc \notin {"saveOrder", "setStatus"}
<1>0. call \in [Sessions -> Call] /\ \A t \in Sessions : "pc" \in DOMAIN call[t]
  BY DEF TypeInv, TypeOK, Call
<1>1. ASSUME Respond(s) PROVE call'[s].pc = "idle"
  BY <1>0, <1>1 DEF Respond, Idle
<1>2. ASSUME NEW pc, Goto(s, pc) PROVE call'[s].pc = pc
  BY <1>0, <1>2 DEF Goto
<1>3. ASSUME NEW pc, NEW i, Loop(s, pc, i) PROVE call'[s].pc \in {pc, "idle"}
  BY <1>0, <1>1, <1>3 DEF Loop
<1>4. ASSUME NEW pc, NEW p, NextItem(s, p, pc) PROVE call'[s].pc \in {pc, "idle"}
  <2> DEFINE c == [call[s] EXCEPT !.pc = pc, !.todo[p] = 0,
                                  !.item = NoProduct, !.line = NoLine]
  <2>1. call[s] \in Call
    BY DEF TypeInv, TypeOK
  <2>2. c.pc = pc
    BY <2>1 DEF Call
  <2>3. call'[s] = c \/ Respond(s)
    BY <1>0, <1>4 DEF NextItem
  <2> QED BY <1>1, <2>2, <2>3
<1>5. ASSUME NEW pc, NEW o, call'[s] = [call[s] EXCEPT !.pc = pc, !.line = o]
             \/ call'[s] = [call[s] EXCEPT !.pc = pc, !.item = o]
      PROVE  call'[s].pc = pc
  <2>1. call[s] \in Call
    BY DEF TypeInv, TypeOK
  <2> QED BY <1>5, <2>1 DEF Call
<1>6. ASSUME NEW pc, NEW o, NEW x,
             call'[s] = [call[s] EXCEPT !.pc = pc, !.item = o, !.line = x]
      PROVE  call'[s].pc = pc
  <2>1. call[s] \in Call
    BY DEF TypeInv, TypeOK
  <2> QED BY <1>6, <2>1 DEF Call
<1>7. \A t \in Sessions : t # s => call'[t] = call[t]
  BY <1>0 DEF CartStep, AddToCart, FindLine, IncLine, SaveLine, PushLine,
         DeleteCart, PullLine, UpdateCart, UpdateCartQty, IncQty, CheckCoupon,
         CallFails, ClearLines, EmptyCart, UseCoupon, CountSold, DeductStock,
         Restock, SaveOrder, SetStatus, InsertManyOrder, Respond, Goto, Loop,
         NextItem
<1> DEFINE Moved == call'[s].pc \notin {"saveOrder", "setStatus"}
<1> SUFFICES UNCHANGED call \/ Moved
  BY <1>7
<1>8. CASE UpdateCart(s) \/ CheckCoupon(s)
  BY <1>8 DEF UpdateCart, CheckCoupon
<1>9. CASE FindLine(s) \/ SaveLine(s) \/ DeleteCart(s) \/ UpdateCartQty(s)
           \/ CountSold(s)
  <2>1. ASSUME FindLine(s) PROVE Moved
    BY <1>0, <1>5, <1>6, <2>1 DEF FindLine
  <2>2. ASSUME SaveLine(s) PROVE Moved
    BY <1>0, <1>5, <2>2 DEF SaveLine
  <2>3. ASSUME DeleteCart(s) PROVE Moved
    BY <1>0, <1>5, <2>3 DEF DeleteCart
  <2>4. ASSUME UpdateCartQty(s) PROVE Moved
    <3>1. PICK l, by :
              call' = [call EXCEPT ![s] =
                           [@ EXCEPT !.pc = "incQty", !.line = l, !.by = by]]
      BY <2>4, Zenon DEF UpdateCartQty
    <3>2. call'[s] = [call[s] EXCEPT !.pc = "incQty", !.line = l, !.by = by]
      BY <1>0, <3>1
    <3>3. call[s] \in Call
      BY DEF TypeInv, TypeOK
    <3>4. call'[s].pc = "incQty"
      BY <3>2, <3>3 DEF Call
    <3> QED BY <3>4
  <2>5. ASSUME CountSold(s) PROVE Moved
    BY <1>0, <1>5, <2>5 DEF CountSold
  <2> QED BY <1>9, <2>1, <2>2, <2>3, <2>4, <2>5
<1>10. CASE AddToCart(s) \/ IncLine(s) \/ PushLine(s) \/ PullLine(s) \/ IncQty(s)
  BY <1>1, <1>3, <1>4, <1>10
     DEF AddToCart, IncLine, PushLine, PullLine, IncQty
<1>11. CASE CallFails(s) \/ InsertManyOrder(s) \/ SaveOrder(s) \/ SetStatus(s)
  BY <1>1, <1>2, <1>3, <1>11 DEF CallFails, InsertManyOrder, SaveOrder, SetStatus
<1>12. CASE ClearLines(s) \/ EmptyCart(s) \/ UseCoupon(s)
            \/ DeductStock(s) \/ Restock(s)
  BY <1>2, <1>3, <1>4, <1>12
     DEF ClearLines, EmptyCart, UseCoupon, DeductStock, Restock
<1> QED
  BY <1>8, <1>9, <1>10, <1>11, <1>12 DEF CartStep

\* Removing orders leaves the others as they were, and the status changes on
\* them with them.
LEMMA WithoutCoherent ==
    ASSUME TypeInv, StatusInv, NEW S \in SUBSET (1..MaxOrders),
           orders' = OrdersWithout(S),
           NEW Busy \in SUBSET Sessions,
           \A t \in Sessions : IF t \in Busy THEN call'[t].pc = "insert"
                               ELSE call'[t] = CallsWithout(S)[t]
    PROVE  StatusInv'
<1>1. \A n \in 1..MaxOrders : orders'[n] = IF n \in S THEN NoOrder ELSE orders[n]
  BY DEF OrdersWithout
<1>2. StatusCoherent'
  BY <1>1 DEF StatusInv, StatusCoherent, Coherent
<1>3. ASSUME NEW t \in Sessions, call'[t].pc \in {"saveOrder", "setStatus"}
      PROVE  /\ Coherent(call'[t].order)
             /\ call'[t].pc = "setStatus" /\ call'[t].number > 0 =>
                  call'[t].order.hasTimeline = orders'[call'[t].number].hasTimeline
  <2>1. call'[t] = CallsWithout(S)[t]
    BY <1>3
  <2>2. call[t] \in Call
    BY DEF TypeInv, TypeOK
  <2>3. /\ call'[t].pc = call[t].pc /\ call'[t].order = call[t].order
        /\ call'[t].number \in {0, call[t].number}
        /\ call'[t].pc = "setStatus" /\ call'[t].number > 0 =>
               /\ call'[t].number = call[t].number
               /\ call[t].number \in (1..MaxOrders) \ S
    BY <2>1, <2>2, ConstantsAssumption DEF CallsWithout, Call
  <2> QED BY <1>1, <1>3, <2>3 DEF StatusInv, CallsCoherent
<1> QED BY <1>2, <1>3 DEF StatusInv, CallsCoherent, Coherent

\* Every step keeps the orders, and the orders about to be written, coherent.
LEMMA StatusNext == TypeInv /\ StatusInv /\ [Next]_vars => StatusInv'
<1> SUFFICES ASSUME TypeInv, StatusInv, NEW s \in Sessions,
                    CartStep(s) \/ CheckCoupon(s) \/ OrderStep(s) \/ CallFails(s)
             PROVE  StatusInv'
  BY DEF Next, vars, StatusInv, StatusCoherent, CallsCoherent, Coherent
<1> USE DEF orderVars
<1>0. \A t \in Sessions : call[t] \in Call
  BY DEF TypeInv, TypeOK
<1>1. CASE CartStep(s) \/ CheckCoupon(s) \/ CallFails(s)
  <2>1. UNCHANGED orders
    BY <1>1 DEF CartStep, AddToCart, FindLine, IncLine, SaveLine, PushLine,
         DeleteCart, PullLine, UpdateCart, UpdateCartQty, IncQty, CheckCoupon,
         CallFails
  <2> QED BY <1>1, <2>1, StepTargets, CoherentStep
<1>2. CASE ClearLines(s) \/ EmptyCart(s) \/ UseCoupon(s) \/ CountSold(s)
             \/ DeductStock(s) \/ Restock(s)
  <2>1. UNCHANGED orders
    BY <1>2 DEF ClearLines, EmptyCart, UseCoupon, CountSold, DeductStock, Restock
  <2> QED BY <1>2, <2>1, StepTargets, CoherentStep
<1>3. CASE SaveOrder(s)
  <2>1. \A t \in Sessions : \/ call'[t] = call[t]
                            \/ call'[t].pc \notin {"saveOrder", "setStatus"}
    BY <1>3, StepTargets
  <2>2. CASE UNCHANGED orders
    BY <2>1, <2>2, CoherentStep
  <2>3. CASE ~UNCHANGED orders
    <3> DEFINE n == call[s].number
    <3>1. /\ orders[n] = NoOrder /\ call[s].pc = "saveOrder"
          /\ orders' = [orders EXCEPT ![n] = call[s].order]
      BY <1>3, <2>3 DEF SaveOrder
    <3>2. n \in 1..MaxOrders
      BY <1>0, <3>1, ConstantsAssumption DEF TypeInv, CallsFit, CallFits, Call
    <3>3. \A m \in 1..MaxOrders :
              orders'[m] = IF m = n THEN call[s].order ELSE orders[m]
      BY <3>1, <3>2 DEF TypeInv, TypeOK
    <3>4. StatusCoherent'
      BY <3>1, <3>3 DEF StatusInv, StatusCoherent, CallsCoherent, Coherent
    <3>5. \A t \in Sessions : call[t].pc = "setStatus" /\ call[t].number > 0 =>
              call[t].number \in 1..MaxOrders /\ call[t].number # n
      BY <1>0, <3>1, ConstantsAssumption DEF TypeInv, StatusCallsFit, Call
    <3>6. CallsCoherent'
      BY <2>1, <3>3, <3>5 DEF StatusInv, CallsCoherent, Coherent
    <3> QED BY <3>4, <3>6 DEF StatusInv
  <2> QED BY <2>2, <2>3
<1>4. CASE SetStatus(s)
  <2> DEFINE n == call[s].number
             o == call[s].order
  <2>1. \A t \in Sessions : \/ call'[t] = call[t]
                            \/ call'[t].pc \notin {"saveOrder", "setStatus"}
    BY <1>4, StepTargets
  <2>2. CASE n = 0
    <3>1. UNCHANGED orders
      BY <1>4, <2>2 DEF SetStatus
    <3> QED BY <2>1, <3>1, CoherentStep
  <2>3. CASE n # 0
    <3>1. n \in 1..MaxOrders
      BY <1>0, <2>3, ConstantsAssumption DEF Call
    <3>2. call[s].pc = "setStatus" /\ orders[n] \in Order /\ o \in Order
      BY <1>4, <3>1 DEF TypeInv, TypeOK, StatusCallsFit, CallsFit, CallFits, SetStatus
    <3>3. Coherent(o) /\ o.hasTimeline = orders[n].hasTimeline
      BY <3>1, <3>2 DEF StatusInv, CallsCoherent
    <3> DEFINE w == [orders[n] EXCEPT !.status = o.status, !.done = o.done,
                                      !.paid = o.paid, !.dated = o.dated]
    <3>4. Coherent(w) /\ w.hasTimeline = orders[n].hasTimeline
      BY <3>2, <3>3 DEF Coherent, Order
    <3>5. \A m \in 1..MaxOrders : orders'[m] = IF m = n THEN w ELSE orders[m]
      BY <1>4, <2>3, <3>1 DEF SetStatus, TypeInv, TypeOK
    <3> HIDE DEF w
    <3>6. StatusCoherent'
      BY <3>4, <3>5 DEF StatusInv, StatusCoherent, Coherent
    <3>7. \A t \in Sessions : call[t].pc = "setStatus" /\ call[t].number > 0 =>
              call[t].number \in 1..MaxOrders
      BY <1>0, ConstantsAssumption DEF Call
    <3>8. CallsCoherent'
      BY <2>1, <3>4, <3>5, <3>7 DEF StatusInv, CallsCoherent, Coherent
    <3> QED BY <3>6, <3>8 DEF StatusInv
  <2> QED BY <2>2, <2>3
<1>5. CASE InsertManyOrder(s)
  <2>1. \A t \in Sessions : \/ call'[t] = call[t]
                            \/ call'[t].pc \notin {"saveOrder", "setStatus"}
    BY <1>5, StepTargets
  <2>2. PICK S \in SUBSET {n \in 1..MaxOrders : orders[n] = NoOrder}, d \in Drafts :
          orders' = [n \in 1..MaxOrders |->
                        IF n \in S THEN NewOrder(d, NoUser, NoCoupon) ELSE orders[n]]
    BY <1>5 DEF InsertManyOrder
  <2> DEFINE new == NewOrder(d, NoUser, NoCoupon)
  <2>3. Coherent(new)
    BY NewOrderCoherent
  <2>4. \A n \in 1..MaxOrders : orders'[n] = IF n \in S THEN new ELSE orders[n]
    BY <2>2
  <2> HIDE DEF new
  <2>5. StatusCoherent'
    BY <2>3, <2>4 DEF StatusInv, StatusCoherent, Coherent
  <2>6. \A t \in Sessions : call[t].pc = "setStatus" /\ call[t].number > 0 =>
            call[t].number \in (1..MaxOrders) \ S
    BY <1>0, ConstantsAssumption DEF TypeInv, StatusCallsFit, Call
  <2>7. CallsCoherent'
    BY <2>1, <2>4, <2>6 DEF StatusInv, CallsCoherent, Coherent
  <2> QED BY <2>5, <2>7 DEF StatusInv
<1>6. CASE AddOrder(s)
  <2>1. PICK d \in Drafts, c \in granted[s] \union {NoCoupon} :
          call' = [call EXCEPT ![s] = [@ EXCEPT
                       !.pc = "saveOrder", !.number = orderSeq + 1,
                       !.order = NewOrder(d, Owner[s], c)]]
    BY <1>6 DEF AddOrder
  <2> DEFINE new == NewOrder(d, Owner[s], c)
  <2>2. Coherent(new)
    BY NewOrderCoherent
  <2> HIDE DEF new
  <2>3. \A t \in Sessions : t # s => call'[t] = call[t]
    BY <2>1 DEF TypeInv, TypeOK
  <2>4. call'[s].pc = "saveOrder" /\ call'[s].order = new
    BY <1>0, <2>1 DEF TypeInv, TypeOK, Call, new
  <2>5. UNCHANGED orders
    BY <1>6 DEF AddOrder
  <2> QED BY <2>2, <2>3, <2>4, <2>5 DEF StatusInv, StatusCoherent, CallsCoherent, Coherent
<1>7. CASE ReadOrder(s)
  <2>1. PICK n \in 1..MaxOrders, st \in Statuses :
          /\ orders[n] # NoOrder
          /\ call' = [call EXCEPT ![s] = [@ EXCEPT
                          !.pc = "setStatus", !.number = n,
                          !.order = WithStatus(orders[n], st)]]
    BY <1>7 DEF ReadOrder
  <2>2. orders[n] \in Order
    BY <2>1 DEF TypeInv, TypeOK
  <2> DEFINE w == WithStatus(orders[n], st)
  <2>3. Coherent(w) /\ w.hasTimeline = orders[n].hasTimeline
    BY <2>2, WithStatusCoherent
  <2> HIDE DEF w
  <2>4. \A t \in Sessions : t # s => call'[t] = call[t]
    BY <2>1 DEF TypeInv, TypeOK
  <2>5. call'[s].pc = "setStatus" /\ call'[s].order = w /\ call'[s].number = n
    BY <1>0, <2>1 DEF TypeInv, TypeOK, Call, w
  <2>6. UNCHANGED orders
    BY <1>7 DEF ReadOrder
  <2> QED BY <2>3, <2>4, <2>5, <2>6 DEF StatusInv, StatusCoherent, CallsCoherent, Coherent
<1>8. CASE InsertManyOrderStart(s)
  <2>1. PICK S \in SUBSET (1..MaxOrders) :
          /\ orders' = OrdersWithout(S)
          /\ call' = [CallsWithout(S) EXCEPT ![s].pc = "insert"]
    BY <1>8 DEF InsertManyOrderStart
  <2>2. CallsWithout(S)[s] \in Call
    BY <1>0, ConstantsAssumption DEF CallsWithout, Call
  <2>3. call'[s].pc = "insert"
    BY <2>1, <2>2 DEF CallsWithout, Call
  <2>4. \A t \in Sessions : t # s => call'[t] = CallsWithout(S)[t]
    BY <2>1 DEF CallsWithout
  <2> QED BY <2>1, <2>3, <2>4, WithoutCoherent, {s} \in SUBSET Sessions
<1>9. CASE DeleteOrders(s)
  <2>1. PICK S \in SUBSET (1..MaxOrders) : /\ orders' = OrdersWithout(S)
                                          /\ call' = CallsWithout(S)
    BY <1>9 DEF DeleteOrders
  <2> QED BY <2>1, WithoutCoherent, {} \in SUBSET Sessions
<1> QED BY <1>1, <1>2, <1>3, <1>4, <1>5, <1>6, <1>7, <1>8, <1>9 DEF OrderStep

\* changeOrderStatus writes status, timeline, payment and delivery date in one
\* $set computed from one copy: however stale the copy, however many
\* administrators race and whichever call fails, no order ever has parts that
\* contradict each other.
THEOREM StatusCoherentAlways == Spec => []StatusCoherent
<1>1. Init => StatusInv
  BY DEF Init, StatusInv, StatusCoherent, CallsCoherent, Idle
<1>2. Spec => [](TypeInv /\ StatusInv)
  BY <1>1, TypeInit, TypeNext, StatusNext, PTL DEF Spec
<1> QED BY <1>2, PTL DEF StatusInv

(***************************************************************************)
(* How calls move                                                          *)
(***************************************************************************)
\* Only the call of session s moves, to one of these places.
MovesTo(s, pcs) == /\ call'[s].pc \in pcs
                   /\ \A t \in Sessions \ {s} : call'[t] = call[t]

\* A handler that answers leaves its session idle.
LEMMA RespondMoves ==
    ASSUME TypeOK, NEW s \in Sessions, Respond(s)
    PROVE  MovesTo(s, {"idle"}) /\ call'[s] = Idle
BY DEF TypeOK, Respond, Idle, MovesTo

\* A loop over an order's items starts at its place, or answers if there is none.
LEMMA LoopMoves ==
    ASSUME TypeOK, NEW s \in Sessions, NEW pc, NEW items, Loop(s, pc, items)
    PROVE  MovesTo(s, {"idle", pc})
<1>1. CASE items = NoItems
  BY <1>1, RespondMoves DEF Loop, MovesTo
<1>2. CASE items # NoItems
  <2>1. call \in [Sessions -> Call]
    BY DEF TypeOK
  <2>2. call' = [call EXCEPT ![s] = [@ EXCEPT !.pc = pc, !.todo = items]]
    BY <1>2 DEF Loop
  <2> QED BY <2>1, <2>2 DEF MovesTo, Call
<1> QED BY <1>1, <1>2

\* After an item the loop stays at its place, or answers when it was the last.
LEMMA NextItemMoves ==
    ASSUME TypeOK, NEW s \in Sessions, NEW pc, NEW p, NextItem(s, p, pc)
    PROVE  MovesTo(s, {"idle", pc})
<1>1. CASE Pending(s) \subseteq {p}
  BY <1>1, RespondMoves DEF NextItem, MovesTo
<1>2. CASE ~(Pending(s) \subseteq {p})
  BY <1>2 DEF NextItem, MovesTo, TypeOK, Call
<1> QED BY <1>1, <1>2

\* The steps of CartService, by where they lead.
LEMMA CartMoves ==
    ASSUME TypeOK, NEW s \in Sessions, CartStep(s)
    PROVE  MovesTo(s, {"idle", "find", "inc", "saveLine", "pushLine", "pull",
                       "incQty"})
<1> DEFINE pcs == {"idle", "find", "inc", "saveLine", "pushLine", "pull",
                   "incQty"}
<1>1. call[s] \in Call /\ call \in [Sessions -> Call]
  BY DEF TypeOK
<1>2. ASSUME MovesTo(s, {"idle", "find"}) PROVE MovesTo(s, pcs)
  BY <1>2 DEF MovesTo
<1>3. CASE AddToCart(s)
  BY <1>2, <1>3, LoopMoves DEF AddToCart
<1>4. CASE FindLine(s)
  <2>1. PICK p \in Pending(s) :
           \/ \E l \in LinesFor(Owner[s], p) :
                 call' = [call EXCEPT ![s] =
                              [@ EXCEPT !.pc = "inc", !.item = p, !.line = l]]
           \/ call' = [call EXCEPT ![s] =
                           [@ EXCEPT !.pc = "saveLine", !.item = p]]
    BY <1>4 DEF FindLine
  <2>2. ASSUME NEW l,
               call' = [call EXCEPT ![s] =
                            [@ EXCEPT !.pc = "inc", !.item = p, !.line = l]]
        PROVE  MovesTo(s, pcs)
    BY <1>1, <2>2 DEF Call, MovesTo
  <2>3. ASSUME call' = [call EXCEPT ![s] =
                            [@ EXCEPT !.pc = "saveLine", !.item = p]]
        PROVE  MovesTo(s, pcs)
    BY <1>1, <2>3 DEF Call, MovesTo
  <2> QED BY <2>1, <2>2, <2>3
<1>5. CASE IncLine(s) \/ PushLine(s)
  BY <1>2, <1>5, NextItemMoves DEF IncLine, PushLine
<1>6. CASE SaveLine(s)
  BY <1>1, <1>6 DEF SaveLine, Call, MovesTo
<1>7. CASE DeleteCart(s) \/ UpdateCartQty(s)
  BY <1>1, <1>7 DEF DeleteCart, UpdateCartQty, Call, MovesTo
<1>8. CASE PullLine(s) \/ IncQty(s)
  BY <1>8, RespondMoves DEF PullLine, IncQty, MovesTo
<1>9. CASE UpdateCart(s)
  BY <1>1, <1>9 DEF UpdateCart, UserMayStart, MayStart, InFlight, MovesTo
<1> QED BY <1>3, <1>4, <1>5, <1>6, <1>7, <1>8, <1>9 DEF CartStep
\* The steps of OrderService that leave the other calls as they are, by where
\* they lead.
LEMMA OrderMoves ==
    ASSUME TypeOK, NEW s \in Sessions
    PROVE  /\ AddOrder(s) => MovesTo(s, {"saveOrder"})
           /\ SaveOrder(s) => MovesTo(s, {"idle", "sold", "clear"})
           /\ ClearLines(s) => MovesTo(s, {"empty"})
           /\ EmptyCart(s) => MovesTo(s, {"idle", "sold", "coupon"})
           /\ UseCoupon(s) => MovesTo(s, {"idle", "sold"})
           /\ CountSold(s) => MovesTo(s, {"deduct"})
           /\ DeductStock(s) => MovesTo(s, {"idle", "sold"})
           /\ InsertManyOrder(s) => MovesTo(s, {"idle"})
           /\ ReadOrder(s) => MovesTo(s, {"setStatus"})
           /\ SetStatus(s) => MovesTo(s, {"idle", "restock"})
           /\ Restock(s) => MovesTo(s, {"idle", "restock"})
<1>1. call[s] \in Call /\ call \in [Sessions -> Call]
  BY DEF TypeOK
<1>2. ASSUME NEW pc, Goto(s, pc) PROVE MovesTo(s, {pc})
  BY <1>1, <1>2 DEF Goto, MovesTo, Call
<1>3. ASSUME NEW A, NEW B, MovesTo(s, A), A \subseteq B PROVE MovesTo(s, B)
  BY <1>3 DEF MovesTo
<1>4. AddOrder(s) => MovesTo(s, {"saveOrder"})
  BY <1>1 DEF AddOrder, MovesTo, Call
<1>5. SaveOrder(s) => MovesTo(s, {"idle", "sold", "clear"})
  <2>1. SaveOrder(s) => \/ Respond(s)
                        \/ Loop(s, "sold", call[s].order.items)
                        \/ Goto(s, "clear")
    BY DEF SaveOrder
  <2> QED BY <1>2, <1>3, <2>1, RespondMoves, LoopMoves DEF MovesTo
<1>6. ClearLines(s) => MovesTo(s, {"empty"})
  BY <1>2 DEF ClearLines
<1>7. EmptyCart(s) => MovesTo(s, {"idle", "sold", "coupon"})
  <2>1. EmptyCart(s) => \/ Loop(s, "sold", call[s].order.items)
                        \/ Goto(s, "coupon")
    BY DEF EmptyCart
  <2> QED BY <1>2, <2>1, LoopMoves DEF MovesTo
<1>8. UseCoupon(s) => MovesTo(s, {"idle", "sold"})
  BY LoopMoves DEF UseCoupon
<1>9. CountSold(s) => MovesTo(s, {"deduct"})
  BY <1>1 DEF CountSold, MovesTo, Call
<1>10. DeductStock(s) => MovesTo(s, {"idle", "sold"})
  BY NextItemMoves DEF DeductStock
<1>11. InsertManyOrder(s) => MovesTo(s, {"idle"})
  BY RespondMoves DEF InsertManyOrder
<1>12. ReadOrder(s) => MovesTo(s, {"setStatus"})
  BY <1>1 DEF ReadOrder, MovesTo, Call
<1>13. SetStatus(s) => MovesTo(s, {"idle", "restock"})
  <2>1. SetStatus(s) => Respond(s) \/ Loop(s, "restock", call[s].order.items)
    BY DEF SetStatus
  <2> QED BY <2>1, RespondMoves, LoopMoves DEF MovesTo
<1>14. Restock(s) => MovesTo(s, {"idle", "restock"})
  BY NextItemMoves DEF Restock
<1> QED BY <1>4, <1>5, <1>6, <1>7, <1>8, <1>9, <1>10, <1>11, <1>12, <1>13, <1>14

\* A session at the same place of its handler, with the same data, save the
\* order it writes to.
SameCall(t) == /\ call'[t].pc = call[t].pc
               /\ call'[t].order = call[t].order
               /\ call'[t].item = call[t].item
               /\ call'[t].line = call[t].line

\* Removing orders moves no call but the importer's.
LEMMA WithoutMoves ==
    ASSUME TypeOK, NEW s \in Sessions
    PROVE  /\ InsertManyOrderStart(s) =>
                /\ call'[s].pc = "insert"
                /\ \A t \in Sessions \ {s} : SameCall(t)
           /\ DeleteOrders(s) => \A t \in Sessions : SameCall(t)
<1>1. \A t \in Sessions : call[t] \in Call
  BY DEF TypeOK
<1>2. \A S : /\ CallsWithout(S) \in [Sessions -> Call]
             /\ \A t \in Sessions :
                  /\ CallsWithout(S)[t].pc = call[t].pc
                  /\ CallsWithout(S)[t].order = call[t].order
                  /\ CallsWithout(S)[t].item = call[t].item
                  /\ CallsWithout(S)[t].line = call[t].line
  BY <1>1, ConstantsAssumption DEF CallsWithout, Call
<1>3. InsertManyOrderStart(s) =>
          \E S : call' = [CallsWithout(S) EXCEPT ![s].pc = "insert"]
  BY DEF InsertManyOrderStart
<1>4. DeleteOrders(s) => \E S : call' = CallsWithout(S)
  BY DEF DeleteOrders
<1> QED BY <1>2, <1>3, <1>4 DEF SameCall, Call

\* A step of session s leaves the other sessions where they are.
LEMMA OthersStay ==
    ASSUME TypeOK, NEW s \in Sessions,
           CartStep(s) \/ CheckCoupon(s) \/ OrderStep(s) \/ CallFails(s)
    PROVE  \A t \in Sessions \ {s} : SameCall(t)
<1>1. ASSUME NEW pcs, MovesTo(s, pcs) PROVE \A t \in Sessions \ {s} : SameCall(t)
  BY <1>1 DEF MovesTo, SameCall
<1>2. CASE CartStep(s)
  BY <1>1, <1>2, CartMoves
<1>3. CASE CheckCoupon(s)
  BY <1>3 DEF CheckCoupon, SameCall
<1>4. CASE CallFails(s)
  BY <1>1, <1>4, RespondMoves DEF CallFails
<1>5. CASE InsertManyOrderStart(s) \/ DeleteOrders(s)
  BY <1>5, WithoutMoves
<1>6. CASE \/ AddOrder(s) \/ SaveOrder(s) \/ ClearLines(s) \/ EmptyCart(s)
           \/ UseCoupon(s) \/ CountSold(s) \/ DeductStock(s)
           \/ InsertManyOrder(s) \/ ReadOrder(s) \/ SetStatus(s) \/ Restock(s)
  BY <1>1, <1>6, OrderMoves
<1> QED BY <1>2, <1>3, <1>4, <1>5, <1>6 DEF OrderStep
(***************************************************************************)
(* No status change undoes another                                         *)
(***************************************************************************)
\* One administrator at a time.
OneAdmin == \A s, t \in Sessions : IsAdmin(s) /\ IsAdmin(t) => s = t

\* Order o has all that order d has: its payment, its timeline.
Extends(o, d) == (d.paid => o.paid) /\ d.done \subseteq o.done

\* An order without a timeline has no step done.
NoStray(o) == o.hasTimeline \/ o.done = {}

\* The copy that a status change is about to write extends the order.
UndoneInv ==
    /\ \A n \in 1..MaxOrders : orders[n] # NoOrder => NoStray(orders[n])
    /\ \A s \in Sessions : call[s].pc \in {"saveOrder", "setStatus"} =>
           NoStray(call[s].order)
    /\ \A s \in Sessions : call[s].pc = "setStatus" =>
           /\ IsAdmin(s)
           /\ call[s].number > 0 =>
                  Extends(call[s].order, orders[call[s].number])

Kept(n) == orders[n] # NoOrder /\ orders'[n] # NoOrder =>
               Extends(orders'[n], orders[n])

\* Orders as they were, gone, or new ones where there was none.
OrdersStand ==
    \A n \in 1..MaxOrders :
        \/ orders'[n] = orders[n]
        \/ orders'[n] = NoOrder
        \/ orders[n] = NoOrder /\ NoStray(orders'[n])

\* A step that changes no order, and starts to write none, undoes nothing.
LEMMA UndoneFrame ==
    ASSUME TypeInv, UndoneInv, OrdersStand,
           \A t \in Sessions :
               \/ call'[t].pc \notin {"saveOrder", "setStatus"}
               \/ /\ call'[t].pc = call[t].pc /\ call'[t].order = call[t].order
                  /\ \/ call'[t].number = 0
                     \/ /\ call'[t].number = call[t].number
                        /\ call[t].pc = "setStatus" =>
                             \A n \in 1..MaxOrders : n = call[t].number =>
                                 orders'[n] = orders[n]
    PROVE  UndoneInv' /\ \A n \in 1..MaxOrders : Kept(n)
<1>1. \A t \in Sessions : call[t].number > 0 => call[t].number \in 1..MaxOrders
  BY ConstantsAssumption DEF TypeInv, TypeOK, Call
<1>2. \A n \in 1..MaxOrders : Kept(n)
  BY DEF OrdersStand, Kept, Extends
<1>3. (\A n \in 1..MaxOrders : orders[n] # NoOrder => NoStray(orders[n]))'
  BY DEF UndoneInv, OrdersStand, NoStray
<1>4. (\A s \in Sessions : call[s].pc \in {"saveOrder", "setStatus"} =>
           NoStray(call[s].order))'
  BY DEF UndoneInv, NoStray
<1>5. ASSUME NEW t \in Sessions, call'[t].pc = "setStatus"
      PROVE  /\ IsAdmin(t)
             /\ call'[t].number > 0 =>
                    Extends(call'[t].order, orders'[call'[t].number])
  BY <1>1, <1>5 DEF UndoneInv, IsAdmin
<1> QED BY <1>2, <1>3, <1>4, <1>5 DEF UndoneInv, IsAdmin

\* What changeOrderStatus computes extends what it read, and leaves no stray
\* step.
LEMMA WithStatusExtends ==
    ASSUME NEW o \in Order, NEW st, NoStray(o)
    PROVE  Extends(WithStatus(o, st), o) /\ NoStray(WithStatus(o, st))
<1>1. /\ WithStatus(o, st).hasTimeline = o.hasTimeline
      /\ WithStatus(o, st).paid = (o.paid \/ st = DELIVERED)
      /\ WithStatus(o, st).done =
            IF o.hasTimeline THEN o.done \union StepsDone(st) ELSE {}
  BY DEF WithStatus, Order
<1>2. Extends(WithStatus(o, st), o)
  <2>1. o.paid => WithStatus(o, st).paid
    BY <1>1, Zenon
  <2>2. o.done \subseteq WithStatus(o, st).done
    BY <1>1 DEF NoStray
  <2> QED BY <2>1, <2>2, Zenon DEF Extends
<1>3. NoStray(WithStatus(o, st))
  BY <1>1, Zenon DEF NoStray
<1> QED BY <1>2, <1>3

\* Every step leaves each order with what it had.
LEMMA UndoneNext ==
    ASSUME OneAdmin, TypeInv, StatusInv, UndoneInv, [Next]_vars
    PROVE  UndoneInv' /\ \A n \in 1..MaxOrders : Kept(n)
<1> DEFINE Done == UndoneInv' /\ \A n \in 1..MaxOrders : Kept(n)
<1>0. \A t \in Sessions : call[t] \in Call
  BY DEF TypeInv, TypeOK
<1>a. ASSUME UNCHANGED orders PROVE OrdersStand
  BY <1>a DEF OrdersStand
<1>1. CASE UNCHANGED vars
  BY <1>1, <1>a, UndoneFrame DEF vars
<1> SUFFICES ASSUME NEW s \in Sessions,
                    CartStep(s) \/ CheckCoupon(s) \/ OrderStep(s) \/ CallFails(s)
             PROVE  Done
  BY <1>1 DEF Next
<1>2. CASE \/ CartStep(s) \/ CheckCoupon(s) \/ CallFails(s)
           \/ ClearLines(s) \/ EmptyCart(s) \/ UseCoupon(s) \/ CountSold(s)
           \/ DeductStock(s) \/ Restock(s)
  <2>1. UNCHANGED orders
    BY <1>2 DEF CartStep, AddToCart, FindLine, IncLine, SaveLine, PushLine,
         DeleteCart, PullLine, UpdateCart, UpdateCartQty, IncQty, CheckCoupon,
         CallFails, ClearLines, EmptyCart, UseCoupon, CountSold, DeductStock,
         Restock, orderVars
  <2>2. \A t \in Sessions : \/ call'[t] = call[t]
                            \/ call'[t].pc \notin {"saveOrder", "setStatus"}
    BY <1>2, StepTargets
  <2> QED BY <1>a, <2>1, <2>2, UndoneFrame
<1>3. CASE SaveOrder(s)
  <2> DEFINE n == call[s].number
             o == call[s].order
  <2>1. /\ call[s].pc = "saveOrder" /\ n \in 1..MaxOrders /\ NoStray(o)
    BY <1>0, <1>3, ConstantsAssumption
       DEF SaveOrder, TypeInv, CallsFit, CallFits, Call, UndoneInv
  <2>2. \A t \in Sessions : \/ call'[t] = call[t]
                            \/ call'[t].pc \notin {"saveOrder", "setStatus"}
    BY <1>3, StepTargets
  <2>3. CASE UNCHANGED orders
    BY <1>a, <2>2, <2>3, UndoneFrame
  <2>4. CASE ~UNCHANGED orders
    <3>1. orders[n] = NoOrder /\ orders' = [orders EXCEPT ![n] = o]
      BY <1>3, <2>4 DEF SaveOrder
    <3>2. \A m \in 1..MaxOrders : orders'[m] = IF m = n THEN o ELSE orders[m]
      BY <2>1, <3>1 DEF TypeInv, TypeOK
    <3>3. OrdersStand
      BY <2>1, <3>1, <3>2 DEF OrdersStand
    <3>4. \A t \in Sessions : call[t].pc = "setStatus" /\ call[t].number # 0 =>
              orders[call[t].number] # NoOrder
      BY <1>0, ConstantsAssumption DEF TypeInv, StatusCallsFit, Call
    <3> QED BY <2>2, <3>1, <3>2, <3>3, <3>4, UndoneFrame
  <2> QED BY <2>3, <2>4
<1>4. CASE SetStatus(s)
  <2> DEFINE n == call[s].number
             o == call[s].order
  <2>1. \A t \in Sessions : \/ call'[t] = call[t]
                            \/ call'[t].pc \notin {"saveOrder", "setStatus"}
    BY <1>4, StepTargets
  <2>2. CASE n = 0
    BY <1>4, <1>a, <2>1, <2>2, UndoneFrame DEF SetStatus
  <2>3. CASE n # 0
    <3>1. n \in 1..MaxOrders /\ n > 0
      BY <1>0, <2>3, ConstantsAssumption DEF Call
    <3>2. call[s].pc = "setStatus" /\ orders[n] \in Order /\ o \in Order
      BY <1>4, <3>1 DEF TypeInv, TypeOK, StatusCallsFit, CallsFit, CallFits, SetStatus
    <3>3. /\ Extends(o, orders[n]) /\ NoStray(o)
          /\ o.hasTimeline = orders[n].hasTimeline
      BY <3>1, <3>2 DEF UndoneInv, StatusInv, CallsCoherent
    <3> DEFINE w == [orders[n] EXCEPT !.status = o.status, !.done = o.done,
                                      !.paid = o.paid, !.dated = o.dated]
    <3>4. w.paid = o.paid /\ w.done = o.done /\ w.hasTimeline = o.hasTimeline
      BY <3>2, <3>3 DEF Order
    <3>5. \A m \in 1..MaxOrders : orders'[m] = IF m = n THEN w ELSE orders[m]
      BY <1>4, <2>3, <3>1 DEF SetStatus, TypeInv, TypeOK
    <3> HIDE DEF w
    <3>6. Extends(w, orders[n]) /\ NoStray(w)
      BY <3>3, <3>4, Zenon DEF Extends, NoStray
    <3>7. \A t \in Sessions : call'[t].pc # "setStatus"
      <4>1. \A t \in Sessions \ {s} : call[t].pc # "setStatus"
        BY <3>2 DEF UndoneInv, OneAdmin
      <4>2. call'[s].pc \in {"idle", "restock"} /\ \A t \in Sessions \ {s} :
                call'[t] = call[t]
        BY <1>4, OrderMoves DEF TypeInv, MovesTo
      <4> QED BY <4>1, <4>2
    <3>8. \A t \in Sessions : call'[t].pc = "saveOrder" => call'[t] = call[t]
      BY <2>1
    <3>9. UndoneInv'
      BY <3>5, <3>6, <3>7, <3>8 DEF UndoneInv
    <3>10. ASSUME NEW m \in 1..MaxOrders PROVE Kept(m)
      BY <3>5, <3>6 DEF Kept, Extends
    <3> QED BY <3>9, <3>10
  <2> QED BY <2>2, <2>3
<1>5. CASE InsertManyOrder(s)
  <2>1. \A t \in Sessions : \/ call'[t] = call[t]
                            \/ call'[t].pc \notin {"saveOrder", "setStatus"}
    BY <1>5, StepTargets
  <2>2. PICK S \in SUBSET {n \in 1..MaxOrders : orders[n] = NoOrder}, d \in Drafts :
          orders' = [n \in 1..MaxOrders |->
                        IF n \in S THEN NewOrder(d, NoUser, NoCoupon) ELSE orders[n]]
    BY <1>5 DEF InsertManyOrder
  <2> DEFINE new == NewOrder(d, NoUser, NoCoupon)
  <2>3. NoStray(new)
    BY DEF NewOrder, NoStray
  <2>4. \A n \in 1..MaxOrders : orders'[n] = IF n \in S THEN new ELSE orders[n]
    BY <2>2
  <2> HIDE DEF new
  <2>5. OrdersStand
    BY <2>3, <2>4 DEF OrdersStand
  <2>6. \A t \in Sessions : call[t].pc = "setStatus" /\ call[t].number # 0 =>
            call[t].number \in (1..MaxOrders) \ S
    BY <1>0, ConstantsAssumption DEF TypeInv, StatusCallsFit, Call
  <2> QED BY <2>1, <2>4, <2>5, <2>6, UndoneFrame
<1>6. CASE AddOrder(s)
  <2>1. PICK d \in Drafts, c \in granted[s] \union {NoCoupon} :
          call' = [call EXCEPT ![s] = [@ EXCEPT
                       !.pc = "saveOrder", !.number = orderSeq + 1,
                       !.order = NewOrder(d, Owner[s], c)]]
    BY <1>6 DEF AddOrder
  <2>2. NoStray(NewOrder(d, Owner[s], c))
    BY DEF NewOrder, NoStray
  <2>3. /\ call'[s].pc = "saveOrder" /\ call'[s].order = NewOrder(d, Owner[s], c)
        /\ \A t \in Sessions \ {s} : call'[t] = call[t]
    BY <1>0, <2>1 DEF TypeInv, TypeOK, Call
  <2>4. UNCHANGED orders
    BY <1>6 DEF AddOrder
  <2>5. UndoneInv'
    BY <2>2, <2>3, <2>4 DEF UndoneInv, IsAdmin, NoStray, Extends
  <2> QED BY <2>4, <2>5 DEF Kept, Extends
<1>7. CASE ReadOrder(s)
  <2>1. PICK n \in 1..MaxOrders, st \in Statuses :
          /\ orders[n] # NoOrder
          /\ call' = [call EXCEPT ![s] = [@ EXCEPT
                          !.pc = "setStatus", !.number = n,
                          !.order = WithStatus(orders[n], st)]]
    BY <1>7 DEF ReadOrder
  <2> DEFINE w == WithStatus(orders[n], st)
  <2>2. Extends(w, orders[n]) /\ NoStray(w)
    BY <2>1, WithStatusExtends DEF TypeInv, TypeOK, UndoneInv
  <2> HIDE DEF w
  <2>3. /\ call'[s].pc = "setStatus" /\ call'[s].order = w
        /\ call'[s].number = n
        /\ \A t \in Sessions \ {s} : call'[t] = call[t]
    BY <1>0, <2>1 DEF TypeInv, TypeOK, Call, w
  <2>4. UNCHANGED orders /\ IsAdmin(s)
    BY <1>7 DEF ReadOrder, AdminMayStart, orderVars
  <2>5. UndoneInv'
    BY <2>2, <2>3, <2>4 DEF UndoneInv, IsAdmin, NoStray, Extends
  <2> QED BY <2>4, <2>5 DEF Kept, Extends
<1>8. CASE InsertManyOrderStart(s) \/ DeleteOrders(s)
  <2>1. PICK S \in SUBSET (1..MaxOrders) :
          /\ orders' = OrdersWithout(S)
          /\ \/ call' = CallsWithout(S)
             \/ call' = [CallsWithout(S) EXCEPT ![s].pc = "insert"]
    BY <1>8 DEF InsertManyOrderStart, DeleteOrders
  <2>2. \A n \in 1..MaxOrders : orders'[n] = IF n \in S THEN NoOrder ELSE orders[n]
    BY <2>1 DEF OrdersWithout
  <2>3. OrdersStand
    BY <2>2 DEF OrdersStand
  <2>4. \A t \in Sessions :
            LET c == CallsWithout(S)[t] IN
            /\ c.pc = call[t].pc /\ c.order = call[t].order
            /\ \/ c.number = 0
               \/ /\ c.number = call[t].number
                  /\ call[t].pc = "setStatus" => call[t].number \notin S
    BY <1>0, ConstantsAssumption DEF CallsWithout, Call
  <2>5. CallsWithout(S)[s] \in Call
    BY <1>0, ConstantsAssumption DEF CallsWithout, Call
  <2>6. \A t \in Sessions : \/ call'[t] = CallsWithout(S)[t]
                            \/ call'[t].pc = "insert"
    BY <2>1, <2>5 DEF CallsWithout, Call
  <2> QED BY <2>2, <2>3, <2>4, <2>6, UndoneFrame
<1> QED BY <1>2, <1>3, <1>4, <1>5, <1>6, <1>7, <1>8 DEF OrderStep

\* While one administrator at a time changes statuses, no change takes a
\* payment back or erases a step of an order's timeline: what it writes was
\* computed from a copy that nobody else has written since.
THEOREM NothingUndoneAlways ==
    ASSUME OneAdmin
    PROVE  Spec => NothingUndone
<1>1. Init => UndoneInv
  BY DEF Init, UndoneInv, Idle
<1>2. Init => StatusInv
  BY DEF Init, StatusInv, StatusCoherent, CallsCoherent, Idle
<1>3. TypeInv /\ StatusInv /\ UndoneInv /\ [Next]_vars => UndoneInv'
  BY UndoneNext, OneAdmin
<1>4. TypeInv /\ StatusInv /\ UndoneInv /\ [Next]_vars =>
        [\A n \in 1..MaxOrders :
            orders[n] # NoOrder /\ orders'[n] # NoOrder =>
                /\ orders[n].paid => orders'[n].paid
                /\ orders[n].done \subseteq orders'[n].done]_vars
  BY UndoneNext, OneAdmin DEF Kept, Extends
<1> QED BY <1>1, <1>2, <1>3, <1>4, TypeInit, TypeNext, StatusNext, PTL
        DEF Spec, NothingUndone
=============================================================================
