------------------------- MODULE CheckoutStock_proofs -------------------------
(***************************************************************************)
(* Proofs about the stock that Checkout accounts for: what every call in   *)
(* flight has still to count, to deduct and to put back, summed over all   *)
(* sessions.                                                               *)
(***************************************************************************)
EXTENDS Checkout_proofs, SumTheorems

(***************************************************************************)
(* The invariant                                                           *)
(***************************************************************************)
\* Units of product p in a saved order that call c has not counted as sold.
Unsold(c, p) ==
    IF c.pc \in {"clear", "empty", "coupon"} THEN c.order.items[p]
    ELSE IF c.pc = "sold" \/ (c.pc = "deduct" /\ c.item # p) THEN c.todo[p]
    ELSE 0

\* Units that it has counted as sold and not deducted.
Undeducted(c, p) == IF c.pc = "deduct" /\ c.item = p THEN c.todo[p] ELSE 0

\* Units of a cancelled order that it has not put back.
Unreturned(c, p) == IF c.pc = "restock" THEN c.todo[p] ELSE 0

AllUnsold(p) == Total(Sessions)[[s \in Sessions |-> Unsold(call[s], p)]]
AllUndeducted(p) == Total(Sessions)[[s \in Sessions |-> Undeducted(call[s], p)]]
AllUnreturned(p) == Total(Sessions)[[s \in Sessions |-> Unreturned(call[s], p)]]

\* What is still to do makes up for every difference between the orders saved,
\* the cancels written and the stock; a call that failed leaves its part undone.
StockOf(p) ==
    /\ totalSold[p] + AllUnsold(p) <= placed[p]
    /\ quantity[p] + totalSold[p] >= Stock + AllUndeducted(p)
    /\ quantity[p] + AllUnreturned(p) <= Stock + cancelled[p]
    /\ ~failed =>
         /\ totalSold[p] + AllUnsold(p) = placed[p]
         /\ (quantity[p] + totalSold[p]) + AllUnreturned(p)
              = (Stock + AllUndeducted(p)) + cancelled[p]

StockInv == \A p \in Products : StockOf(p)

(***************************************************************************)
(* One session's step                                                      *)
(***************************************************************************)
\* The same differences with the part of one session only.
OverPlaced(s, p)  == (totalSold[p] + Unsold(call[s], p)) - placed[p]
OverStock(s, p)   == (quantity[p] + totalSold[p]) - Undeducted(call[s], p)
OverReturn(s, p)  == (quantity[p] + Unreturned(call[s], p)) - cancelled[p]
Balance(s, p)     == OverStock(s, p) + Unreturned(call[s], p) - cancelled[p]

\* A step of session s loses nothing unless it fails, and never gains.
BooksKept(s, p) ==
    /\ OverPlaced(s, p)' <= OverPlaced(s, p)
    /\ OverStock(s, p)' >= OverStock(s, p)
    /\ OverReturn(s, p)' <= OverReturn(s, p)
    /\ failed => failed'
    /\ ~failed' => /\ OverPlaced(s, p)' = OverPlaced(s, p)
                   /\ Balance(s, p)' = Balance(s, p)

\* The other calls have as much left to do as before.
OthersWait(s, p) ==
    \A t \in Sessions \ {s} :
        /\ Unsold(call'[t], p) = Unsold(call[t], p)
        /\ Undeducted(call'[t], p) = Undeducted(call[t], p)
        /\ Unreturned(call'[t], p) = Unreturned(call[t], p)

\* What is left to do are units.
LEMMA SharesType ==
    ASSUME NEW c \in Call, NEW s \in Sessions, CallFits(s, c),
           NEW p \in Products
    PROVE  /\ Unsold(c, p) \in Nat
           /\ Undeducted(c, p) \in Nat
           /\ Unreturned(c, p) \in Nat
BY ItemsType DEF Unsold, Undeducted, Unreturned, Call, CallFits, Order

\* A step that keeps the books of one session and leaves the others waiting
\* keeps the invariant.
LEMMA SessionStep ==
    ASSUME TypeInv, TypeInv', NEW p \in Products, StockOf(p),
           NEW s \in Sessions, OthersWait(s, p), BooksKept(s, p)
    PROVE  StockOf(p)'
<1> DEFINE U == [t \in Sessions |-> Unsold(call[t], p)]
           V == [t \in Sessions |-> Unsold(call'[t], p)]
           D == [t \in Sessions |-> Undeducted(call[t], p)]
           E == [t \in Sessions |-> Undeducted(call'[t], p)]
           R == [t \in Sessions |-> Unreturned(call[t], p)]
           Q == [t \in Sessions |-> Unreturned(call'[t], p)]
           T == Total(Sessions)
<1>1. \A t \in Sessions : call[t] \in Call /\ CallFits(t, call[t])
  BY DEF TypeInv, TypeOK, CallsFit
<1>2. \A t \in Sessions : call'[t] \in Call /\ CallFits(t, call'[t])
  BY DEF TypeInv, TypeOK, CallsFit, CallFits
<1>3. /\ U \in [Sessions -> Int] /\ D \in [Sessions -> Int]
      /\ R \in [Sessions -> Int]
  BY <1>1, SharesType
<1>4. /\ V \in [Sessions -> Int] /\ E \in [Sessions -> Int]
      /\ Q \in [Sessions -> Int]
  BY <1>2, SharesType
<1>5. \A t \in Sessions \ {s} : V[t] = U[t] /\ E[t] = D[t] /\ Q[t] = R[t]
  BY DEF OthersWait
<1>6. IsFiniteSet(Sessions)
  BY ConstantsAssumption
<1> HIDE DEF U, V, D, E, R, Q
<1>7. /\ T[V] = (T[U] - U[s]) + V[s]
      /\ T[E] = (T[D] - D[s]) + E[s]
      /\ T[Q] = (T[R] - R[s]) + Q[s]
  BY <1>3, <1>4, <1>5, <1>6, SumOfUpdate
<1>8. T[U] \in Int /\ T[D] \in Int /\ T[R] \in Int
  BY <1>3, <1>6, SumFacts
<1>9. /\ U[s] \in Int /\ D[s] \in Int /\ R[s] \in Int
      /\ V[s] \in Int /\ E[s] \in Int /\ Q[s] \in Int
  BY <1>3, <1>4
<1>10. /\ AllUnsold(p) = T[U] /\ AllUnsold(p)' = T[V]
       /\ AllUndeducted(p) = T[D] /\ AllUndeducted(p)' = T[E]
       /\ AllUnreturned(p) = T[R] /\ AllUnreturned(p)' = T[Q]
  BY DEF AllUnsold, AllUndeducted, AllUnreturned, U, V, D, E, R, Q
<1>11. /\ U[s] = Unsold(call[s], p) /\ V[s] = Unsold(call'[s], p)
       /\ D[s] = Undeducted(call[s], p) /\ E[s] = Undeducted(call'[s], p)
       /\ R[s] = Unreturned(call[s], p) /\ Q[s] = Unreturned(call'[s], p)
  BY DEF U, V, D, E, R, Q
<1>12. /\ totalSold[p] \in Int /\ totalSold'[p] \in Int
       /\ quantity[p] \in Int /\ quantity'[p] \in Int
       /\ placed[p] \in Int /\ placed'[p] \in Int
       /\ cancelled[p] \in Int /\ cancelled'[p] \in Int
       /\ Stock \in Int
  BY ConstantsAssumption DEF TypeInv, TypeOK
<1>13. /\ OverPlaced(s, p) = (totalSold[p] + U[s]) - placed[p]
       /\ OverPlaced(s, p)' = (totalSold'[p] + V[s]) - placed'[p]
       /\ OverStock(s, p) = (quantity[p] + totalSold[p]) - D[s]
       /\ OverStock(s, p)' = (quantity'[p] + totalSold'[p]) - E[s]
       /\ OverReturn(s, p) = (quantity[p] + R[s]) - cancelled[p]
       /\ OverReturn(s, p)' = (quantity'[p] + Q[s]) - cancelled'[p]
       /\ Balance(s, p) = OverStock(s, p) + R[s] - cancelled[p]
       /\ Balance(s, p)' = OverStock(s, p)' + Q[s] - cancelled'[p]
  BY <1>11 DEF OverPlaced, OverStock, OverReturn, Balance
<1>14. /\ totalSold'[p] + T[V] <= placed'[p]
       /\ quantity'[p] + totalSold'[p] >= Stock + T[E]
       /\ quantity'[p] + T[Q] <= Stock + cancelled'[p]
  BY <1>7, <1>8, <1>9, <1>10, <1>12, <1>13 DEF StockOf, BooksKept
<1>15. ASSUME ~failed'
       PROVE  /\ totalSold'[p] + T[V] = placed'[p]
              /\ (quantity'[p] + totalSold'[p]) + T[Q]
                   = (Stock + T[E]) + cancelled'[p]
  <2>1. /\ OverPlaced(s, p)' = OverPlaced(s, p)
        /\ Balance(s, p)' = Balance(s, p)
        /\ totalSold[p] + AllUnsold(p) = placed[p]
        /\ (quantity[p] + totalSold[p]) + AllUnreturned(p)
             = (Stock + AllUndeducted(p)) + cancelled[p]
    BY <1>15, Zenon DEF StockOf, BooksKept
  <2>2. /\ (totalSold'[p] + V[s]) - placed'[p] = (totalSold[p] + U[s]) - placed[p]
        /\ ((quantity'[p] + totalSold'[p]) - E[s]) + Q[s] - cancelled'[p]
             = ((quantity[p] + totalSold[p]) - D[s]) + R[s] - cancelled[p]
    BY <1>13, <2>1
  <2>3. /\ totalSold[p] + T[U] = placed[p]
        /\ (quantity[p] + totalSold[p]) + T[R] = (Stock + T[D]) + cancelled[p]
    BY <1>10, <2>1
  <2>4. totalSold'[p] + T[V] = placed'[p]
    BY <1>7, <1>8, <1>9, <1>12, <2>2, <2>3
  <2>5. (quantity'[p] + totalSold'[p]) + T[Q] = (Stock + T[E]) + cancelled'[p]
    <3>1. quantity'[p] + totalSold'[p]
            = (((quantity[p] + totalSold[p]) + R[s] + E[s]) - D[s]) - Q[s]
                + (cancelled'[p] - cancelled[p])
      BY <1>9, <1>12, <2>2
    <3> QED BY <1>7, <1>8, <1>9, <1>12, <2>3, <3>1
  <2> QED BY <2>4, <2>5
<1> QED BY <1>10, <1>14, <1>15 DEF StockOf

\* A call that answers has nothing left to do, and no other call has moved.
LEMMA RespondShares ==
    ASSUME TypeOK, NEW s \in Sessions, Respond(s), NEW p \in Products
    PROVE  /\ Unsold(call'[s], p) = 0
           /\ Undeducted(call'[s], p) = 0
           /\ Unreturned(call'[s], p) = 0
           /\ OthersWait(s, p)
BY DEF Respond, Idle, TypeOK, Unsold, Undeducted, Unreturned, OthersWait

\* A loop that begins has everything left to do.
LEMMA LoopShares ==
    ASSUME TypeOK, NEW s \in Sessions, NEW items \in Items,
           NEW pc \in {"find", "sold", "restock"}, Loop(s, pc, items),
           NEW p \in Products
    PROVE  /\ Unsold(call'[s], p) = IF pc = "sold" THEN items[p] ELSE 0
           /\ Undeducted(call'[s], p) = 0
           /\ Unreturned(call'[s], p) = IF pc = "restock" THEN items[p] ELSE 0
           /\ OthersWait(s, p)
<1>1. CASE items = NoItems
  BY <1>1, RespondShares DEF Loop, NoItems
<1>2. CASE items # NoItems
  <2>1. call' = [call EXCEPT ![s] = [@ EXCEPT !.pc = pc, !.todo = items]]
    BY <1>2 DEF Loop
  <2>2. call'[s].pc = pc /\ call'[s].todo = items
    BY <2>1 DEF TypeOK, Call
  <2> QED BY <2>1, <2>2
          DEF TypeOK, Unsold, Undeducted, Unreturned, OthersWait
<1> QED BY <1>1, <1>2

\* A loop that goes on has everything but the item left to do.
LEMMA NextShares ==
    ASSUME TypeOK, NEW s \in Sessions, NEW q \in Products,
           NEW pc \in {"find", "sold", "restock"}, NextItem(s, q, pc),
           NEW p \in Products
    PROVE  LET left == IF p = q THEN 0 ELSE call[s].todo[p]
           IN  /\ Unsold(call'[s], p) = IF pc = "sold" THEN left ELSE 0
               /\ Undeducted(call'[s], p) = 0
               /\ Unreturned(call'[s], p) = IF pc = "restock" THEN left ELSE 0
               /\ OthersWait(s, p)
<1>0. call[s] \in Call /\ call[s].todo[p] \in Nat
  BY ItemsType DEF TypeOK, Call
<1>1. CASE Pending(s) \subseteq {q}
  <2>1. p # q => call[s].todo[p] = 0
    BY <1>0, <1>1 DEF Pending
  <2> QED BY <1>1, <2>1, RespondShares DEF NextItem
<1>2. CASE ~(Pending(s) \subseteq {q})
  <2>1. call' = [call EXCEPT ![s] = [@ EXCEPT !.pc = pc, !.todo[q] = 0,
                    !.item = NoProduct, !.line = NoLine]]
    BY <1>2 DEF NextItem
  <2>2. /\ call'[s].pc = pc
        /\ call'[s].todo[p] = IF p = q THEN 0 ELSE call[s].todo[p]
    BY <1>0, <2>1 DEF TypeOK, Call, Items
  <2> QED BY <2>1, <2>2
          DEF TypeOK, Unsold, Undeducted, Unreturned, OthersWait
<1> QED BY <1>1, <1>2

(***************************************************************************)
(* The handlers                                                            *)
(***************************************************************************)
\* Places of a handler where nothing is left to do for the stock.
Aside == {"idle", "find", "inc", "saveLine", "pushLine", "pull", "incQty",
          "saveOrder", "setStatus", "insert"}

KeepsStock(s, p) == OthersWait(s, p) /\ BooksKept(s, p)

\* A step from one such place to another, which touches no stock.
LEMMA AsideStep ==
    ASSUME TypeInv, NEW s \in Sessions, NEW p \in Products, OthersWait(s, p),
           call[s].pc \in Aside, call'[s].pc \in Aside,
           UNCHANGED <<stockVars, placed, cancelled, failed>>
    PROVE  KeepsStock(s, p)
<1>1. /\ Unsold(call[s], p) = 0 /\ Unsold(call'[s], p) = 0
      /\ Undeducted(call[s], p) = 0 /\ Undeducted(call'[s], p) = 0
      /\ Unreturned(call[s], p) = 0 /\ Unreturned(call'[s], p) = 0
  BY DEF Aside, Unsold, Undeducted, Unreturned
<1>2. /\ totalSold[p] \in Int /\ quantity[p] \in Int
      /\ placed[p] \in Int /\ cancelled[p] \in Int
  BY DEF TypeInv, TypeOK
<1>3. failed => failed'
  BY Zenon
<1> QED BY <1>1, <1>2, <1>3 DEF stockVars, KeepsStock, BooksKept,
        OverPlaced, OverStock, OverReturn, Balance

\* CartService and CouponService.
LEMMA CartKeepsStock ==
    ASSUME TypeInv, NEW s \in Sessions, CartStep(s) \/ CheckCoupon(s),
           NEW p \in Products
    PROVE  KeepsStock(s, p)
<1> USE DEF TypeInv
<1>1. UNCHANGED <<stockVars, placed, cancelled, failed>>
  BY DEF CartStep, AddToCart, FindLine, IncLine, SaveLine, PushLine, DeleteCart,
         PullLine, UpdateCart, UpdateCartQty, IncQty, CheckCoupon, obsVars
<1>2. /\ call[s].pc \in Aside /\ call'[s].pc \in Aside
      /\ \A t \in Sessions \ {s} : call'[t] = call[t]
  <2>1. CASE CartStep(s)
    <3>1. call[s].pc \in Aside
      BY <2>1 DEF CartStep, AddToCart, FindLine, IncLine, SaveLine, PushLine,
         DeleteCart, PullLine, UpdateCart, UpdateCartQty, IncQty,
         UserMayStart, MayStart, InFlight, Aside
    <3> QED BY <2>1, <3>1, CartMoves DEF MovesTo, Aside
  <2>2. CASE CheckCoupon(s)
    BY <2>2 DEF CheckCoupon, UserMayStart, MayStart, InFlight, Aside
  <2> QED BY <2>1, <2>2
<1>3. OthersWait(s, p)
  BY <1>2 DEF OthersWait
<1> QED BY <1>1, <1>2, <1>3, AsideStep

\* A call that fails leaves its part undone, and is the reason why.
LEMMA FailureKeepsStock ==
    ASSUME TypeInv, NEW s \in Sessions, CallFails(s), NEW p \in Products
    PROVE  KeepsStock(s, p)
<1> USE DEF TypeInv
<1>1. /\ Unsold(call[s], p) \in Nat /\ Undeducted(call[s], p) \in Nat
      /\ Unreturned(call[s], p) \in Nat
  BY SharesType DEF TypeOK, CallsFit
<1>2. /\ Unsold(call'[s], p) = 0 /\ Undeducted(call'[s], p) = 0
      /\ Unreturned(call'[s], p) = 0 /\ OthersWait(s, p)
  BY RespondShares DEF CallFails
<1>3. /\ totalSold[p] \in Int /\ quantity[p] \in Int
      /\ placed[p] \in Int /\ cancelled[p] \in Int
  BY DEF TypeOK
<1>4. UNCHANGED <<stockVars, placed, cancelled>>
  BY DEF CallFails
<1>5. failed'
  BY Zenon DEF CallFails
<1> QED BY <1>1, <1>2, <1>3, <1>4, <1>5 DEF stockVars, KeepsStock, BooksKept,
        OverPlaced, OverStock, OverReturn, Balance
\* A step of a call that does not fail, by what it does to the differences.
LEMMA StepKeeps ==
    ASSUME TypeInv, NEW s \in Sessions, NEW p \in Products, OthersWait(s, p),
           failed' = failed,
           OverPlaced(s, p)' = OverPlaced(s, p),
           OverStock(s, p)' >= OverStock(s, p),
           OverReturn(s, p)' <= OverReturn(s, p),
           Balance(s, p)' = Balance(s, p)
    PROVE  KeepsStock(s, p)
<1>1. Unsold(call[s], p) \in Int
  BY SharesType DEF TypeInv, TypeOK, CallsFit
<1>2. totalSold[p] \in Int /\ placed[p] \in Int
  BY DEF TypeInv, TypeOK
<1>3. OverPlaced(s, p) \in Int
  BY <1>1, <1>2 DEF OverPlaced
<1>4. OverPlaced(s, p)' <= OverPlaced(s, p)
  BY <1>3
<1>5. failed => failed'
  BY Zenon
<1> QED BY <1>4, <1>5, Zenon DEF KeepsStock, BooksKept

\* addOrder: a draft becomes stock's business when it is saved.
LEMMA AddOrderKeepsStock ==
    ASSUME TypeInv, NEW s \in Sessions, AddOrder(s), NEW p \in Products
    PROVE  KeepsStock(s, p)
<1>1. call[s].pc = "idle"
  BY DEF AddOrder, MayStart, InFlight
<1>2. PICK d \in Drafts, c \in granted[s] \union {NoCoupon} :
          call' = [call EXCEPT ![s] = [@ EXCEPT
                       !.pc = "saveOrder", !.number = orderSeq + 1,
                       !.order = NewOrder(d, Owner[s], c)]]
  BY DEF AddOrder
<1>3. call'[s].pc = "saveOrder" /\ \A t \in Sessions \ {s} : call'[t] = call[t]
  BY <1>2 DEF TypeInv, TypeOK, Call
<1>4. OthersWait(s, p)
  BY <1>3 DEF OthersWait
<1>5. UNCHANGED <<stockVars, placed, cancelled, failed>>
  BY DEF AddOrder, obsVars
<1> QED BY <1>1, <1>3, <1>4, <1>5, AsideStep DEF Aside

\* newData.save(): every unit of the order is placed and still to be sold.
LEMMA SaveOrderKeepsStock ==
    ASSUME TypeInv, NEW s \in Sessions, SaveOrder(s), NEW p \in Products
    PROVE  KeepsStock(s, p)
<1> DEFINE n == call[s].number
           o == call[s].order
<1>0. call[s] \in Call /\ CallFits(s, call[s]) /\ call[s].pc = "saveOrder"
  BY DEF TypeInv, TypeOK, CallsFit, SaveOrder
<1>1. o \in Order /\ o.items \in Items /\ o.items[p] \in Int
  BY <1>0, ItemsType DEF CallFits, Order
<1>2. UNCHANGED <<stockVars, cancelled, failed>>
  BY DEF SaveOrder
<1>3. CASE orders[n] # NoOrder
  <2>1. Respond(s) /\ UNCHANGED placed
    BY <1>3 DEF SaveOrder
  <2>2. call'[s].pc = "idle" /\ OthersWait(s, p)
    BY <2>1, RespondMoves, RespondShares DEF TypeInv, MovesTo
  <2> QED BY <1>0, <1>2, <2>1, <2>2, AsideStep DEF Aside, obsVars
<1>4. CASE orders[n] = NoOrder
  <2>1. /\ placed' = Plus(placed, o.items)
        /\ IF IsAdmin(s) THEN Loop(s, "sold", o.items) ELSE Goto(s, "clear")
    BY <1>4 DEF SaveOrder
  <2>2. /\ Unsold(call'[s], p) = o.items[p]
        /\ Undeducted(call'[s], p) = 0 /\ Unreturned(call'[s], p) = 0
        /\ OthersWait(s, p)
    <3>1. CASE IsAdmin(s)
      BY <1>1, <2>1, <3>1, LoopShares DEF TypeInv
    <3>2. CASE ~IsAdmin(s)
      <4>1. call' = [call EXCEPT ![s].pc = "clear"]
        BY <2>1, <3>2 DEF Goto
      <4>2. /\ call'[s].pc = "clear" /\ call'[s].order = o
            /\ \A t \in Sessions \ {s} : call'[t] = call[t]
        BY <1>0, <4>1 DEF TypeInv, TypeOK, Call
      <4> QED BY <4>2 DEF Unsold, Undeducted, Unreturned, OthersWait
    <3> QED BY <3>1, <3>2
  <2>3. /\ Unsold(call[s], p) = 0 /\ Undeducted(call[s], p) = 0
        /\ Unreturned(call[s], p) = 0
    BY <1>0 DEF Unsold, Undeducted, Unreturned
  <2>4. placed'[p] = placed[p] + o.items[p]
    BY <2>1 DEF Plus
  <2>5. /\ totalSold[p] \in Int /\ quantity[p] \in Int
        /\ placed[p] \in Int /\ cancelled[p] \in Int
        /\ UNCHANGED <<totalSold, quantity, cancelled>>
    BY <1>2 DEF TypeInv, TypeOK, stockVars
  <2>6. /\ OverPlaced(s, p)' = OverPlaced(s, p)
        /\ OverStock(s, p)' >= OverStock(s, p)
        /\ OverReturn(s, p)' <= OverReturn(s, p)
        /\ Balance(s, p)' = Balance(s, p)
    BY <1>1, <2>2, <2>3, <2>4, <2>5
       DEF OverPlaced, OverStock, OverReturn, Balance
  <2>7. failed' = failed
    BY <1>2
  <2> QED BY <2>2, <2>6, <2>7, StepKeeps
<1> QED BY <1>3, <1>4

\* A step that leaves the stock, and each session's share of it, as they are.
LEMMA SameShares ==
    ASSUME TypeInv, NEW s \in Sessions, NEW p \in Products, OthersWait(s, p),
           Unsold(call'[s], p) = Unsold(call[s], p),
           Undeducted(call'[s], p) = Undeducted(call[s], p),
           Unreturned(call'[s], p) = Unreturned(call[s], p),
           UNCHANGED <<stockVars, placed, cancelled, failed>>
    PROVE  KeepsStock(s, p)
<1>1. /\ Unsold(call[s], p) \in Int /\ Undeducted(call[s], p) \in Int
      /\ Unreturned(call[s], p) \in Int
  BY SharesType DEF TypeInv, TypeOK, CallsFit
<1>2. /\ totalSold[p] \in Int /\ quantity[p] \in Int
      /\ placed[p] \in Int /\ cancelled[p] \in Int
  BY DEF TypeInv, TypeOK
<1>3. UNCHANGED <<totalSold, quantity, placed, cancelled>> /\ failed' = failed
  BY DEF stockVars, obsVars
<1>4. /\ OverPlaced(s, p)' = OverPlaced(s, p)
      /\ OverStock(s, p)' >= OverStock(s, p)
      /\ OverReturn(s, p)' <= OverReturn(s, p)
      /\ Balance(s, p)' = Balance(s, p)
  BY <1>1, <1>2, <1>3 DEF OverPlaced, OverStock, OverReturn, Balance
<1> QED BY <1>3, <1>4, StepKeeps

\* From the lines' deletion to the loop over the products, the whole order is
\* still to be sold.
LEMMA UserOrderKeepsStock ==
    ASSUME TypeInv, NEW s \in Sessions,
           ClearLines(s) \/ EmptyCart(s) \/ UseCoupon(s), NEW p \in Products
    PROVE  KeepsStock(s, p)
<1> DEFINE o == call[s].order
<1>0. /\ call[s] \in Call /\ CallFits(s, call[s])
      /\ call[s].pc \in {"clear", "empty", "coupon"}
  BY DEF TypeInv, TypeOK, CallsFit, ClearLines, EmptyCart, UseCoupon
<1>1. o.items \in Items
  BY <1>0 DEF CallFits, Order
<1>2. UNCHANGED <<stockVars, placed, cancelled, failed>>
  BY DEF ClearLines, EmptyCart, UseCoupon, obsVars
<1>3. /\ Unsold(call[s], p) = o.items[p] /\ Undeducted(call[s], p) = 0
      /\ Unreturned(call[s], p) = 0
  BY <1>0 DEF Unsold, Undeducted, Unreturned
<1>4. \/ Loop(s, "sold", o.items)
      \/ Goto(s, "empty")
      \/ Goto(s, "coupon")
  BY DEF ClearLines, EmptyCart, UseCoupon
<1>5. ASSUME NEW pc \in {"empty", "coupon"}, Goto(s, pc)
      PROVE  /\ Unsold(call'[s], p) = o.items[p] /\ Undeducted(call'[s], p) = 0
             /\ Unreturned(call'[s], p) = 0 /\ OthersWait(s, p)
  <2>1. /\ call'[s].pc = pc /\ call'[s].order = o
        /\ \A t \in Sessions \ {s} : call'[t] = call[t]
    BY <1>0, <1>5 DEF Goto, TypeInv, TypeOK, Call
  <2> QED BY <2>1 DEF Unsold, Undeducted, Unreturned, OthersWait
<1>6. /\ Unsold(call'[s], p) = o.items[p] /\ Undeducted(call'[s], p) = 0
      /\ Unreturned(call'[s], p) = 0 /\ OthersWait(s, p)
  <2>1. ASSUME Loop(s, "sold", o.items)
        PROVE  /\ Unsold(call'[s], p) = o.items[p] /\ Undeducted(call'[s], p) = 0
               /\ Unreturned(call'[s], p) = 0 /\ OthersWait(s, p)
    BY <1>1, <2>1, LoopShares DEF TypeInv
  <2> QED BY <1>4, <1>5, <2>1
<1> QED BY <1>2, <1>3, <1>6, SameShares

\* $inc totalSold: what was unsold of the product is now to be deducted.
LEMMA CountSoldKeepsStock ==
    ASSUME TypeInv, NEW s \in Sessions, CountSold(s), NEW p \in Products
    PROVE  KeepsStock(s, p)
<1>1. PICK q \in Pending(s) :
          /\ totalSold' = Inc(totalSold, q, call[s].todo[q])
          /\ call' = [call EXCEPT ![s] = [@ EXCEPT !.pc = "deduct", !.item = q]]
  BY DEF CountSold
<1>2. call[s] \in Call /\ call[s].pc = "sold" /\ q \in Products
  BY <1>1 DEF CountSold, TypeInv, TypeOK, Pending
<1>3. /\ call'[s].pc = "deduct" /\ call'[s].item = q
      /\ call'[s].todo = call[s].todo
      /\ \A t \in Sessions \ {s} : call'[t] = call[t]
  BY <1>1, <1>2 DEF TypeInv, TypeOK, Call
<1> DEFINE todo == call[s].todo[p]
<1>4. todo \in Int
  BY <1>2, ItemsType DEF Call
<1>5. /\ Unsold(call[s], p) = todo /\ Undeducted(call[s], p) = 0
      /\ Unreturned(call[s], p) = 0
      /\ Unsold(call'[s], p) = IF p = q THEN 0 ELSE todo
      /\ Undeducted(call'[s], p) = IF p = q THEN todo ELSE 0
      /\ Unreturned(call'[s], p) = 0 /\ OthersWait(s, p)
  BY <1>2, <1>3 DEF Unsold, Undeducted, Unreturned, OthersWait
<1>6. totalSold'[p] = IF p = q THEN totalSold[p] + todo ELSE totalSold[p]
  BY <1>1, <1>2 DEF Inc, TypeInv, TypeOK
<1>7. /\ totalSold[p] \in Int /\ quantity[p] \in Int
      /\ placed[p] \in Int /\ cancelled[p] \in Int
      /\ UNCHANGED <<quantity, placed, cancelled>> /\ failed' = failed
  BY DEF TypeInv, TypeOK, CountSold, obsVars
<1> HIDE DEF todo
<1>8. /\ OverPlaced(s, p)' = OverPlaced(s, p)
      /\ OverStock(s, p)' >= OverStock(s, p)
      /\ OverReturn(s, p)' <= OverReturn(s, p)
      /\ Balance(s, p)' = Balance(s, p)
  BY <1>4, <1>5, <1>6, <1>7 DEF OverPlaced, OverStock, OverReturn, Balance
<1> QED BY <1>5, <1>7, <1>8, StepKeeps

\* $inc quantity: what was to be deducted of the product has been.
LEMMA DeductStockKeepsStock ==
    ASSUME TypeInv, NEW s \in Sessions, DeductStock(s), NEW p \in Products
    PROVE  KeepsStock(s, p)
<1> DEFINE q == call[s].item
           todo == call[s].todo[p]
<1>1. /\ call[s] \in Call /\ call[s].pc = "deduct" /\ q \in Products
  BY DEF DeductStock, TypeInv, TypeOK, CallsFit, CallFits
<1>2. todo \in Int
  BY <1>1, ItemsType DEF Call
<1>3. NextItem(s, q, "sold") /\ quantity' = Inc(quantity, q, -call[s].todo[q])
  BY DEF DeductStock
<1>4. /\ Unsold(call'[s], p) = IF p = q THEN 0 ELSE todo
      /\ Undeducted(call'[s], p) = 0 /\ Unreturned(call'[s], p) = 0
      /\ OthersWait(s, p)
  BY <1>1, <1>3, NextShares DEF TypeInv
<1>5. /\ Unsold(call[s], p) = IF p = q THEN 0 ELSE todo
      /\ Undeducted(call[s], p) = IF p = q THEN todo ELSE 0
      /\ Unreturned(call[s], p) = 0
  BY <1>1 DEF Unsold, Undeducted, Unreturned
<1>6. /\ totalSold[p] \in Int /\ quantity[p] \in Int
      /\ placed[p] \in Int /\ cancelled[p] \in Int
      /\ UNCHANGED <<totalSold, placed, cancelled>> /\ failed' = failed
  BY DEF TypeInv, TypeOK, DeductStock, obsVars
<1>7. quantity'[p] = IF p = q THEN quantity[p] - todo ELSE quantity[p]
  BY <1>1, <1>2, <1>3, <1>6 DEF Inc, TypeInv, TypeOK
<1> HIDE DEF todo, q
<1>8. /\ OverPlaced(s, p)' = OverPlaced(s, p)
      /\ OverStock(s, p)' >= OverStock(s, p)
      /\ Balance(s, p)' = Balance(s, p)
  BY <1>2, <1>4, <1>5, <1>6, <1>7 DEF OverPlaced, OverStock, Balance
<1>9. OverReturn(s, p)' <= OverReturn(s, p)
  <2>1. p = q => todo \in Nat
    BY <1>1, ItemsType DEF Call, q, todo
  <2> QED BY <1>2, <1>4, <1>5, <1>6, <1>7, <2>1 DEF OverReturn
<1> QED BY <1>4, <1>6, <1>8, <1>9, StepKeeps

\* $inc quantity: what a cancel was to put back of the product has been.
LEMMA RestockKeepsStock ==
    ASSUME TypeInv, NEW s \in Sessions, Restock(s), NEW p \in Products
    PROVE  KeepsStock(s, p)
<1>1. PICK q \in Pending(s) : /\ quantity' = Inc(quantity, q, call[s].todo[q])
                              /\ NextItem(s, q, "restock")
  BY DEF Restock
<1> DEFINE todo == call[s].todo[p]
<1>2. /\ call[s] \in Call /\ call[s].pc = "restock" /\ q \in Products
  BY <1>1 DEF Restock, TypeInv, TypeOK, Pending
<1>3. todo \in Nat
  BY <1>2, ItemsType DEF Call
<1>4. /\ Unreturned(call'[s], p) = IF p = q THEN 0 ELSE todo
      /\ Undeducted(call'[s], p) = 0 /\ Unsold(call'[s], p) = 0
      /\ OthersWait(s, p)
  BY <1>1, <1>2, NextShares DEF TypeInv
<1>5. /\ Unreturned(call[s], p) = todo
      /\ Undeducted(call[s], p) = 0 /\ Unsold(call[s], p) = 0
  BY <1>2 DEF Unsold, Undeducted, Unreturned
<1>6. /\ totalSold[p] \in Int /\ quantity[p] \in Int
      /\ placed[p] \in Int /\ cancelled[p] \in Int
      /\ UNCHANGED <<totalSold, placed, cancelled>> /\ failed' = failed
  BY DEF TypeInv, TypeOK, Restock, obsVars
<1>7. quantity'[p] = IF p = q THEN quantity[p] + todo ELSE quantity[p]
  BY <1>1, <1>2, <1>3, <1>6 DEF Inc, TypeInv, TypeOK
<1> HIDE DEF todo
<1>8. /\ OverPlaced(s, p)' = OverPlaced(s, p)
      /\ OverStock(s, p)' >= OverStock(s, p)
      /\ OverReturn(s, p)' <= OverReturn(s, p)
      /\ Balance(s, p)' = Balance(s, p)
  BY <1>3, <1>4, <1>5, <1>6, <1>7
     DEF OverPlaced, OverStock, OverReturn, Balance
<1> QED BY <1>4, <1>6, <1>8, StepKeeps

\* findByIdAndUpdate: every unit of a cancelled order is still to be put back.
LEMMA SetStatusKeepsStock ==
    ASSUME TypeInv, NEW s \in Sessions, SetStatus(s), NEW p \in Products
    PROVE  KeepsStock(s, p)
<1> DEFINE o == call[s].order
<1>0. /\ call[s] \in Call /\ call[s].pc = "setStatus" /\ CallFits(s, call[s])
  BY DEF SetStatus, TypeInv, TypeOK, CallsFit
<1>1. o.items \in Items /\ o.items[p] \in Nat
  BY <1>0, ItemsType DEF CallFits, Order
<1>2. /\ Unsold(call[s], p) = 0 /\ Undeducted(call[s], p) = 0
      /\ Unreturned(call[s], p) = 0
  BY <1>0 DEF Unsold, Undeducted, Unreturned
<1>3. /\ totalSold[p] \in Int /\ quantity[p] \in Int
      /\ placed[p] \in Int /\ cancelled[p] \in Int
      /\ UNCHANGED <<totalSold, quantity, placed>> /\ failed' = failed
  BY DEF TypeInv, TypeOK, SetStatus, stockVars
<1>4. CASE o.status = CANCEL
  <2>1. Loop(s, "restock", o.items) /\ cancelled' = Plus(cancelled, o.items)
    BY <1>4 DEF SetStatus, PutsBack
  <2>2. /\ Unsold(call'[s], p) = 0 /\ Undeducted(call'[s], p) = 0
        /\ Unreturned(call'[s], p) = o.items[p] /\ OthersWait(s, p)
    BY <1>1, <2>1, LoopShares DEF TypeInv
  <2>3. cancelled'[p] = cancelled[p] + o.items[p]
    BY <2>1 DEF Plus
  <2>4. /\ OverPlaced(s, p)' = OverPlaced(s, p)
        /\ OverStock(s, p)' >= OverStock(s, p)
        /\ OverReturn(s, p)' <= OverReturn(s, p)
        /\ Balance(s, p)' = Balance(s, p)
    BY <1>1, <1>2, <1>3, <2>2, <2>3
       DEF OverPlaced, OverStock, OverReturn, Balance
  <2> QED BY <1>3, <2>2, <2>4, StepKeeps
<1>5. CASE o.status # CANCEL
  <2>1. Respond(s) /\ UNCHANGED cancelled
    BY <1>5 DEF SetStatus, PutsBack
  <2>2. call'[s].pc = "idle" /\ OthersWait(s, p)
    BY <2>1, RespondMoves, RespondShares DEF TypeInv, MovesTo
  <2> QED BY <1>0, <1>3, <2>1, <2>2, AsideStep DEF Aside, stockVars, obsVars
<1> QED BY <1>4, <1>5

\* Imports, deletions and reads of orders leave the stock alone; the status
\* changes that lose their order keep the items they read.
LEMMA OtherOrderStepsKeepStock ==
    ASSUME TypeInv, NEW s \in Sessions,
           \/ InsertManyOrderStart(s) \/ InsertManyOrder(s)
           \/ ReadOrder(s) \/ DeleteOrders(s),
           NEW p \in Products
    PROVE  KeepsStock(s, p)
<1>0. \A t \in Sessions : call[t] \in Call
  BY DEF TypeInv, TypeOK
<1>1. UNCHANGED <<stockVars, placed, cancelled, failed>>
  BY DEF InsertManyOrderStart, InsertManyOrder, ReadOrder, DeleteOrders, obsVars
<1>2. ASSUME NEW S PROVE CallsWithout(S) \in [Sessions -> Call]
                         /\ \A t \in Sessions :
                              /\ CallsWithout(S)[t].pc = call[t].pc
                              /\ CallsWithout(S)[t].todo = call[t].todo
                              /\ CallsWithout(S)[t].item = call[t].item
                              /\ CallsWithout(S)[t].order = call[t].order
  BY <1>0, ConstantsAssumption DEF CallsWithout, Call
<1>3. CASE InsertManyOrder(s)
  <2>1. call[s].pc = "insert" /\ Respond(s)
    BY <1>3 DEF InsertManyOrder
  <2>2. call'[s].pc = "idle" /\ OthersWait(s, p)
    BY <2>1, RespondMoves, RespondShares DEF TypeInv, MovesTo
  <2> QED BY <1>1, <2>1, <2>2, AsideStep DEF Aside
<1>4. CASE ReadOrder(s)
  <2>1. PICK n \in 1..MaxOrders, st \in Statuses :
          call' = [call EXCEPT ![s] = [@ EXCEPT
                          !.pc = "setStatus", !.number = n,
                          !.order = WithStatus(orders[n], st)]]
    BY <1>4 DEF ReadOrder
  <2>2. call'[s].pc = "setStatus" /\ \A t \in Sessions \ {s} : call'[t] = call[t]
    BY <1>0, <2>1 DEF TypeInv, TypeOK, Call
  <2>3. call[s].pc = "idle"
    BY <1>4 DEF ReadOrder, AdminMayStart, MayStart, InFlight
  <2>4. OthersWait(s, p)
    BY <2>2 DEF OthersWait
  <2> QED BY <1>1, <2>2, <2>3, <2>4, AsideStep DEF Aside
<1>5. CASE InsertManyOrderStart(s)
  <2>1. PICK S \in {{}, 1..MaxOrders} :
          call' = [CallsWithout(S) EXCEPT ![s].pc = "insert"]
    BY <1>5 DEF InsertManyOrderStart
  <2>2. /\ call'[s].pc = "insert"
        /\ \A t \in Sessions \ {s} : call'[t] = CallsWithout(S)[t]
    BY <1>2, <2>1 DEF Call
  <2>3. OthersWait(s, p)
    BY <1>2, <2>2 DEF OthersWait, Unsold, Undeducted, Unreturned
  <2>4. call[s].pc = "idle"
    BY <1>5 DEF InsertManyOrderStart, AdminMayStart, MayStart, InFlight
  <2> QED BY <1>1, <2>2, <2>3, <2>4, AsideStep DEF Aside
<1>6. CASE DeleteOrders(s)
  <2>1. PICK S \in SUBSET (1..MaxOrders) : call' = CallsWithout(S)
    BY <1>6 DEF DeleteOrders
  <2>2. OthersWait(s, p)
    BY <1>2, <2>1 DEF OthersWait, Unsold, Undeducted, Unreturned
  <2>3. call[s].pc = "idle" /\ call'[s].pc = "idle"
    BY <1>2, <1>6, <2>1 DEF DeleteOrders, AdminMayStart, MayStart, InFlight
  <2> QED BY <1>1, <2>2, <2>3, AsideStep DEF Aside
<1> QED BY <1>3, <1>4, <1>5, <1>6

(***************************************************************************)
(* The theorems                                                            *)
(***************************************************************************)
\* At the start nothing is left to do and nothing was done.
LEMMA StockInit == Init => StockInv
<1> SUFFICES ASSUME Init, NEW p \in Products PROVE StockOf(p)
  BY DEF StockInv
<1>1. \A s \in Sessions : call[s] = Idle
  BY DEF Init
<1>2. \A s \in Sessions : /\ Unsold(call[s], p) = 0
                          /\ Undeducted(call[s], p) = 0
                          /\ Unreturned(call[s], p) = 0
  BY <1>1 DEF Idle, Unsold, Undeducted, Unreturned
<1>3. /\ AllUnsold(p) = 0 /\ AllUndeducted(p) = 0 /\ AllUnreturned(p) = 0
  BY <1>2, ConstantsAssumption, SumFacts
     DEF AllUnsold, AllUndeducted, AllUnreturned
<1>4. /\ totalSold[p] = 0 /\ quantity[p] = Stock
      /\ placed[p] = 0 /\ cancelled[p] = 0
  BY DEF Init
<1> QED BY <1>3, <1>4, ConstantsAssumption DEF StockOf

\* Every step of every session keeps the stock accounted for.
LEMMA StockNext == TypeInv /\ TypeInv' /\ StockInv /\ [Next]_vars => StockInv'
<1> SUFFICES ASSUME TypeInv, TypeInv', StockInv, [Next]_vars, NEW p \in Products
             PROVE  StockOf(p)'
  BY DEF StockInv
<1>1. StockOf(p)
  BY DEF StockInv
<1>2. ASSUME NEW s \in Sessions,
             CartStep(s) \/ CheckCoupon(s) \/ OrderStep(s) \/ CallFails(s)
      PROVE  KeepsStock(s, p)
  BY <1>2, CartKeepsStock, FailureKeepsStock, AddOrderKeepsStock,
     SaveOrderKeepsStock, UserOrderKeepsStock, CountSoldKeepsStock,
     DeductStockKeepsStock, RestockKeepsStock, SetStatusKeepsStock,
     OtherOrderStepsKeepStock DEF OrderStep
<1>3. ASSUME NEW s \in Sessions, KeepsStock(s, p) PROVE StockOf(p)'
  BY <1>1, <1>3, SessionStep DEF KeepsStock
<1>4. CASE UNCHANGED vars
  BY <1>1, <1>4 DEF vars, StockOf, AllUnsold, AllUndeducted, AllUnreturned
<1> QED BY <1>2, <1>3, <1>4 DEF Next

\* What is left to do, over all sessions, are units; none when no call is in
\* flight.
LEMMA AllShares ==
    ASSUME TypeInv, NEW p \in Products
    PROVE  /\ AllUnsold(p) \in Nat /\ AllUndeducted(p) \in Nat
           /\ AllUnreturned(p) \in Nat
           /\ (\A s \in Sessions : ~InFlight(s)) =>
                AllUnsold(p) = 0 /\ AllUndeducted(p) = 0 /\ AllUnreturned(p) = 0
<1>1. \A s \in Sessions : /\ Unsold(call[s], p) \in Nat
                          /\ Undeducted(call[s], p) \in Nat
                          /\ Unreturned(call[s], p) \in Nat
  BY SharesType DEF TypeInv, TypeOK, CallsFit
<1>2. IsFiniteSet(Sessions)
  BY ConstantsAssumption
<1>3. ASSUME NEW f \in [Sessions -> Nat]
      PROVE  /\ Total(Sessions)[f] \in Nat
             /\ (\A s \in Sessions : f[s] = 0) => Total(Sessions)[f] = 0
  BY <1>2, SumFacts
<1>4. ASSUME \A s \in Sessions : ~InFlight(s)
      PROVE  \A s \in Sessions : /\ Unsold(call[s], p) = 0
                                 /\ Undeducted(call[s], p) = 0
                                 /\ Unreturned(call[s], p) = 0
  BY <1>4 DEF InFlight, Unsold, Undeducted, Unreturned
<1> QED BY <1>1, <1>3, <1>4 DEF AllUnsold, AllUndeducted, AllUnreturned

\* The invariant holds throughout.
LEMMA StockAlways == Spec => [](TypeInv /\ StockInv)
BY TypeInit, TypeNext, StockInit, StockNext, PTL DEF Spec

\* The counts of a product err on one side only, whatever the $inc's of racing
\* addOrder and changeOrderStatus calls and wherever a call stops: no unit is
\* sold or deducted twice, none is deducted uncounted, none comes back without
\* a cancel.
THEOREM StockBoundsAlways == Spec => []StockBounds
<1>1. TypeInv /\ StockInv => StockBounds
  <2> SUFFICES ASSUME TypeInv, StockInv, NEW p \in Products
               PROVE  /\ totalSold[p] <= placed[p]
                      /\ quantity[p] + totalSold[p] >= Stock
                      /\ quantity[p] <= Stock + cancelled[p]
    BY DEF StockBounds
  <2>1. /\ AllUnsold(p) \in Nat /\ AllUndeducted(p) \in Nat
        /\ AllUnreturned(p) \in Nat
    BY AllShares
  <2>2. /\ totalSold[p] \in Int /\ quantity[p] \in Int
        /\ placed[p] \in Int /\ cancelled[p] \in Int /\ Stock \in Int
    BY ConstantsAssumption DEF TypeInv, TypeOK
  <2>3. /\ totalSold[p] + AllUnsold(p) <= placed[p]
        /\ quantity[p] + totalSold[p] >= Stock + AllUndeducted(p)
        /\ quantity[p] + AllUnreturned(p) <= Stock + cancelled[p]
    BY DEF StockInv, StockOf
  <2> QED BY <2>1, <2>2, <2>3
<1> QED BY <1>1, StockAlways, PTL

\* Once every call is answered and none failed, totalSold is the units of the
\* orders saved, and quantity what they and the cancels leave of the stock.
THEOREM StockSettledAlways == Spec => []StockSettled
<1>1. TypeInv /\ StockInv => StockSettled
  <2> SUFFICES ASSUME TypeInv, StockInv, NEW p \in Products,
                      \A s \in Sessions : ~InFlight(s), ~failed
               PROVE  /\ totalSold[p] = placed[p]
                      /\ quantity[p] = Stock - placed[p] + cancelled[p]
    BY Zenon DEF StockSettled
  <2>1. AllUnsold(p) = 0 /\ AllUndeducted(p) = 0 /\ AllUnreturned(p) = 0
    BY AllShares
  <2>2. /\ totalSold[p] \in Int /\ quantity[p] \in Int
        /\ placed[p] \in Int /\ cancelled[p] \in Int /\ Stock \in Int
    BY ConstantsAssumption DEF TypeInv, TypeOK
  <2>3. /\ totalSold[p] + AllUnsold(p) = placed[p]
        /\ (quantity[p] + totalSold[p]) + AllUnreturned(p)
             = (Stock + AllUndeducted(p)) + cancelled[p]
    BY Zenon DEF StockInv, StockOf
  <2> QED BY <2>1, <2>2, <2>3
<1> QED BY <1>1, StockAlways, PTL
=============================================================================
