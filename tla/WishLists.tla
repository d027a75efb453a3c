------------------------------- MODULE WishLists -------------------------------
(***************************************************************************)
(* WishListService: the products a user has put on the wish list, without  *)
(* their quantities, so that updateWishListQty is left out.  The list of   *)
(* references that the code keeps in the user's document is not in its     *)
(* schema and never stored.                                                *)
(***************************************************************************)
EXTENDS Market

wishesOnly == <<scene, today, users, cache, listings, born, paid>>

WishesFor(u, p) ==
    {w \in WishIds : wishes[w] = [user |-> u, product |-> p]}

\* Each product of the form is looked up, and a line is saved if there is none;
\* the quantity of a line there is grows.  addToWishList has a form of one.
AddToWishList(c, u, wanted) ==
    /\ MayAsk(c, IF Len(wanted) = 1 THEN "addToWishList"
                                    ELSE "addToWishListMultiple", u)
    /\ u \in Live
    /\ Goto(c, [Idle EXCEPT !.pc = "findWish", !.user = u, !.wanted = wanted])
    /\ UNCHANGED <<wishesOnly, wishes>>

\* Mutant of OnList: every product is new.
OnListNever(u, p) == FALSE

OnList(u, p) == WishesFor(u, p) # {}

NextWish(call) ==
    IF Len(call.wanted) = 1 THEN Idle
    ELSE [call EXCEPT !.pc = "findWish", !.wanted = Tail(@)]

\* wishListModel.findOne({user, product})
FindWish(c) ==
    LET call == calls[c] IN
    /\ call.pc = "findWish"
    /\ Goto(c, IF OnList(call.user, Head(call.wanted)) THEN NextWish(call)
               ELSE [call EXCEPT !.pc = "saveWish"])
    /\ UNCHANGED <<wishesOnly, wishes>>

SaveWish(c) ==
    LET call == calls[c] IN
    /\ call.pc = "saveWish"
    /\ \E w \in WishIds :
          /\ wishes[w] = NoWish
          /\ wishes' = [wishes EXCEPT ![w] = [user |-> call.user,
                                              product |-> Head(call.wanted)]]
    /\ Goto(c, NextWish(call))
    /\ UNCHANGED wishesOnly

DeleteWishListById(c, w) ==
    /\ MayCall(c, "deleteWishListById")
    /\ wishes[w] # NoWish
    /\ wishes' = [wishes EXCEPT ![w] = NoWish]
    /\ UNCHANGED <<wishesOnly, calls>>

\* $set: updateWishListDto, which may name another product and another user;
\* nothing is looked up.
UpdateWishListById(c, w, u, p) ==
    /\ MayCall(c, "updateWishListById")
    /\ wishes[w] # NoWish
    /\ wishes' = [wishes EXCEPT ![w] = [user |-> u, product |-> p]]
    /\ UNCHANGED <<wishesOnly, calls>>

Forms == {<<p>> : p \in Products} \union
         {<<p, q>> : p \in Products, q \in Products}

WishListsNext ==
    \E c \in Clients :
       \/ FindWish(c)
       \/ SaveWish(c)
       \/ \E u \in UserIds, wanted \in Forms : AddToWishList(c, u, wanted)
       \/ \E w \in WishIds :
             \/ DeleteWishListById(c, w)
             \/ \E u \in UserIds, p \in Products : UpdateWishListById(c, w, u, p)
===============================================================================
