----------------------------- MODULE MCCheckout -----------------------------
(* Instances of Checkout for TLC. *)
EXTENDS Checkout, TLC

CONSTANTS u1, u2, s1, s2, s3, p1, p2, l1, l2

\* Who is at each session.
OneTabEach == s1 :> u1 @@ s2 :> u2
TwoTabs    == s1 :> u1 @@ s2 :> u1
TwoAdmins  == s1 :> NoUser @@ s2 :> NoUser
TwoUsersAndAdmin == s1 :> u1 @@ s2 :> u2 @@ s3 :> NoUser

\* What is put into carts and ordered.
Of(q1, q2) == [p \in Products |-> IF p = p1 THEN q1 ELSE q2]
D(items) == [items |-> items, hasTimeline |-> FALSE, paid |-> FALSE]
ShortLists == {Of(1, 0), Of(1, 1)}
OneItem == {D(Of(2, 0))}
TwoItems == {[items |-> Of(2, 1), hasTimeline |-> TRUE, paid |-> FALSE],
             [items |-> Of(0, 2), hasTimeline |-> TRUE, paid |-> TRUE]}
PaidOrNot == {[items |-> Of(1, 0), hasTimeline |-> t, paid |-> p] :
                  t \in BOOLEAN, p \in BOOLEAN}

\* What is done at each session.
Everywhere(ops) == [s \in Sessions |-> ops]
CartOps == {"addToCart", "deleteCart", "checkCoupon", "addOrder"}
CustomerOps == s1 :> (CartOps \union {"updateCart"})
               @@ s2 :> (CartOps \union {"updateCartQty"})
StockOps  == Everywhere({"addOrder", "changeStatus", "deleteOrder"})
StatusOps == Everywhere({"addOrder", "insertMany", "changeStatus", "deleteOrder"})
CouponOps == Everywhere({"checkCoupon", "addOrder"})

NoLimit == [p \in Products |-> 0]
Limited == [p \in Products |-> 1]
=============================================================================
