-------------------------- MODULE Marketplace_proofs --------------------------
(***************************************************************************)
(* Proofs about Marketplace.  In their order: what OneTimeCode promises of *)
(* its own requests it keeps among the handlers of users, listings and     *)
(* wish lists; a user's wish list names a product once; no two users have  *)
(* the same name; types; visibility and spacing of listings, from facts    *)
(* about the calendar; the cached list of users; badges; VIP days.         *)
(***************************************************************************)
EXTENDS Marketplace, OneTimeCode_proofs, SumTheorems, SequenceTheorems

\* A step of the marketplace is a step of the one-time codes, or none of theirs.
LEMMA CodeStep == [Next]_vars => [CodeNext]_codeVars
<1> SUFFICES ASSUME [Next]_vars PROVE [CodeNext]_codeVars
  OBVIOUS
<1>1. ASSUME CodesNext PROVE CodeNext
  BY <1>1 DEF CodesNext, CodeNext, CheckUserAndSentOtp,
              CheckNewEmailAndSentOtp, GenerateOtpWithEmail
<1>2. ASSUME UNCHANGED vars PROVE UNCHANGED codeVars
  BY <1>2 DEF vars
<1> QED BY <1>1, <1>2 DEF Next

\* Whatever users are looked up before it, generateOtpWithEmail is called as
\* OneTimeCode says.
LEMMA MarketRunsCodes == Spec => CodeSpec
<1>1. Init => CodeInit
  BY DEF Init
<1> QED BY <1>1, CodeStep, PTL DEF Spec, CodeSpec

\* In the marketplace, too, one code at a time is good and none is mailed that
\* was not saved.
THEOREM MarketKeepsPromise == Spec => ImplementsPromise
BY MarketRunsCodes, PromiseKept, PTL

\* In the marketplace, too, the code that is stored when all requests of an
\* address have answered is one that was mailed.
THEOREM MarketCodeReachesUser == Spec => []CodeReachesUser
BY MarketRunsCodes, CodeReachesUserAlways, PTL

\* In the marketplace, too, a code is good for its life and no longer.
THEOREM MarketCodeLasts == Spec => []CodeLasts
BY MarketRunsCodes, CodeLastsAlways, PTL

(***************************************************************************)
(* Calls                                                                   *)
(***************************************************************************)
WishPcs == {"findWish", "saveWish"}

\* A call has its fields, and goes on with something after the cache.
Formed(call) == /\ DOMAIN call = DOMAIN Idle
                /\ call.next \in {"idle", "setBadge", "setUser"}

CallsFormed == /\ DOMAIN calls = Clients
               /\ \A c \in Clients : Formed(calls[c])

\* A step of the users or the listings: no wish list, and no call about one.
Elsewhere(c) ==
    \E call : /\ Goto(c, call)
              /\ Formed(call)
              /\ call.pc \notin WishPcs

OtherStep == /\ UNCHANGED <<scene, wishes>>
             /\ UNCHANGED calls \/ \E c \in Clients : Elsewhere(c)

\* A handler starts or goes on.
Began(c) == calls[c] # Idle \/ \E op : MayCall(c, op)

\* A step of the listings: no call about a wish list or a username, either.
NamePcs == {"signup", "uncache", "uncount", "setBadge", "setUser"}
Apart(c) ==
    /\ Began(c)
    /\ \E call : /\ Goto(c, call)
                 /\ Formed(call)
                 /\ call.pc \notin WishPcs \union NamePcs

ListingStep == /\ UNCHANGED <<scene, wishes, users>>
               /\ UNCHANGED calls \/ \E c \in Clients : Apart(c)

\* The fields of the idle call.
LEMMA IdleFormed ==
    /\ Formed(Idle)
    /\ {"pc", "next", "user", "name", "mark", "listing", "status", "ad", "term",
        "date", "rows", "wanted"} = DOMAIN Idle
    /\ Idle.pc = "idle" /\ Idle.next = "idle" /\ Idle.name = NoName
    /\ Idle.user = Nobody
BY DEF Idle, Formed

\* A call that is answered, and one that goes on.
LEMMA Answered ==
    ASSUME NEW c, Respond(c)
    PROVE  Elsewhere(c)
BY IdleFormed DEF Respond, Elsewhere, Goto, WishPcs

\* A call that waits for something other than a line of a wish list.
LEMMA GoesOn ==
    ASSUME NEW c, NEW call, Goto(c, call), Formed(call), call.pc \notin WishPcs
    PROVE  Elsewhere(c)
BY DEF Elsewhere

\* A call that is answered, seen by usernames.
LEMMA AnsweredApart ==
    ASSUME NEW c, calls[c].pc # "idle", Respond(c)
    PROVE  Apart(c)
BY IdleFormed DEF Respond, Apart, Began, Goto, WishPcs, NamePcs

\* A call that waits for neither a line nor a username.
LEMMA GoesApart ==
    ASSUME NEW c, NEW call, Began(c), Goto(c, call), Formed(call),
           call.pc \notin WishPcs \union NamePcs
    PROVE  Apart(c)
BY DEF Apart

\* What users and administrators do to accounts.
LEMMA AccountsElsewhere ==
    ASSUME CallsFormed, AccountsNext
    PROVE  OtherStep
<1>1. CASE CacheExpires
  BY <1>1 DEF CacheExpires, OtherStep, accountsOnly
<1>2. ASSUME NEW c \in Clients, ContinueAccount(c)
      PROVE  OtherStep
  <2>1. Formed(calls[c])
    BY DEF CallsFormed
  <2>2. UNCHANGED <<scene, wishes>>
    BY <1>2 DEF ContinueAccount, Uncache, Uncount, SignupAndLogin, SaveUser,
         ListCount, AggregateUsers, KeepList, KeepCount, CheckName, SetBadge,
         SetUser, DeleteUser, RemoveUsers, Pay, FindLatestAd, ExtendVip,
         accountsOnly
  <2>3. Elsewhere(c)
    <3>1. CASE Uncache(c)
      BY <2>1, <3>1, IdleFormed DEF Uncache, Elsewhere, Formed, WishPcs
    <3>2. CASE Uncount(c)
      BY <2>1, <3>2, IdleFormed DEF Uncount, Elsewhere, Formed, WishPcs
    <3>3. CASE SignupAndLogin(c)
      BY <3>3, IdleFormed
         DEF SignupAndLogin, SaveUser, Elsewhere, Formed, WishPcs
    <3>4. CASE ListCount(c)
      BY <2>1, <3>4, IdleFormed DEF ListCount, Elsewhere, Formed, WishPcs
    <3>5. CASE AggregateUsers(c)
      <4>1. PICK rows :
                Goto(c, [calls[c] EXCEPT !.pc = "keepList", !.rows = rows])
        BY <3>5 DEF AggregateUsers
      <4> QED BY <2>1, <4>1, IdleFormed, GoesOn DEF Formed, WishPcs
    <3>6. CASE KeepList(c)
      BY <2>1, <3>6, IdleFormed DEF KeepList, Elsewhere, Formed, WishPcs
    <3>7. CASE KeepCount(c)
      BY <3>7, Answered DEF KeepCount
    <3>8. CASE CheckName(c)
      BY <2>1, <3>8, IdleFormed, Answered, GoesOn DEF CheckName, Formed, WishPcs
    <3>9. CASE SetBadge(c)
      BY <2>1, <3>9, IdleFormed DEF SetBadge, Elsewhere, Formed, WishPcs
    <3>10. CASE SetUser(c)
      BY <3>10, Answered DEF SetUser
    <3>11. CASE DeleteUser(c)
      BY <3>11, IdleFormed
         DEF DeleteUser, RemoveUsers, AfterDelete, Elsewhere, Formed, WishPcs
    <3>12. CASE Pay(c)
      BY <2>1, <3>12, IdleFormed DEF Pay, Elsewhere, Formed, WishPcs
    <3>13. CASE FindLatestAd(c)
      <4>1. \/ Respond(c)
            \/ \E l, d : Goto(c, [calls[c] EXCEPT !.pc = "extend",
                                                 !.listing = l, !.date = d])
        BY <3>13 DEF FindLatestAd
      <4> QED BY <2>1, <4>1, IdleFormed, Answered, GoesOn DEF Formed, WishPcs
    <3>14. CASE ExtendVip(c)
      BY <3>14, Answered DEF ExtendVip
    <3> QED BY <1>2, <3>1, <3>2, <3>3, <3>4, <3>5, <3>6, <3>7, <3>8, <3>9,
               <3>10, <3>11, <3>12, <3>13, <3>14 DEF ContinueAccount
  <2> QED BY <2>2, <2>3 DEF OtherStep
<1>3. ASSUME NEW c \in Clients, DeleteMultipleUserById(c)
      PROVE  OtherStep
  <2>1. Goto(c, AfterDelete) /\ UNCHANGED <<scene, wishes>>
    BY <1>3 DEF DeleteMultipleUserById, RemoveUsers, accountsOnly
  <2> QED BY <2>1, IdleFormed, GoesOn DEF AfterDelete, Formed, WishPcs, OtherStep
<1>4. ASSUME NEW c \in Clients, NEW n,
             \/ UserSignup(c, n)
             \/ UserSignupAndLogin(c, n)
             \/ UserSignupAndLoginSocial(c, n)
      PROVE  OtherStep
  <2>1. /\ \/ Goto(c, [Idle EXCEPT !.pc = "uncache"])
           \/ Goto(c, [Idle EXCEPT !.pc = "signup", !.name = n])
        /\ UNCHANGED <<scene, wishes>>
    BY <1>4 DEF UserSignup, UserSignupAndLogin, UserSignupAndLoginSocial,
                SaveUser, CheckedSignup, accountsOnly
  <2> QED BY <2>1, IdleFormed, GoesOn DEF Formed, WishPcs, OtherStep
<1>5. ASSUME NEW c \in Clients, NEW n, GetAllUsers(c, n)
      PROVE  OtherStep
  <2>1. PICK rows :
            /\ Goto(c, [Idle EXCEPT !.pc = "listCount", !.name = n,
                                    !.rows = rows])
            /\ UNCHANGED <<scene, wishes>>
    BY <1>5 DEF GetAllUsers, accountsOnly
  <2> QED BY <2>1, IdleFormed, GoesOn DEF Formed, WishPcs, OtherStep
<1>6. ASSUME NEW c \in Clients, NEW n, NEW u, NEW mark,
             UpdateLoggedInUserInfo(c, u, n, mark)
      PROVE  OtherStep
  <2>1. PICK pc \in {"uncache", "checkName"} :
            /\ Goto(c, [Idle EXCEPT !.pc = pc, !.next = "setUser", !.user = u,
                                    !.name = n, !.mark = mark])
            /\ UNCHANGED <<scene, wishes>>
    BY <1>6 DEF UpdateLoggedInUserInfo, accountsOnly
  <2> QED BY <2>1, IdleFormed, GoesOn DEF Formed, WishPcs, OtherStep
<1>7. ASSUME NEW c \in Clients, NEW n, NEW u, NEW mark, NEW status, NEW password,
             UpdateUserById(c, u, n, mark, status, password)
      PROVE  OtherStep
  <2>1. PICK pc \in {"uncache", "checkName"}, next \in {"setBadge", "setUser"} :
            /\ Goto(c, [Idle EXCEPT !.pc = pc, !.next = next, !.user = u,
                                    !.name = n, !.mark = mark])
            /\ UNCHANGED <<scene, wishes>>
    BY <1>7 DEF UpdateUserById, accountsOnly
  <2> QED BY <2>1, IdleFormed, GoesOn DEF Formed, WishPcs, OtherStep
<1>8. ASSUME NEW c \in Clients, NEW u, DeleteUserById(c, u)
      PROVE  OtherStep
  <2>1. /\ Goto(c, [Idle EXCEPT !.pc = "deleteUser", !.user = u])
        /\ UNCHANGED <<scene, wishes>>
    BY <1>8 DEF DeleteUserById, accountsOnly
  <2> QED BY <2>1, IdleFormed, GoesOn DEF Formed, WishPcs, OtherStep
<1>9. ASSUME NEW c \in Clients, NEW u, NEW term, ActivateVip(c, u, term)
      PROVE  OtherStep
  <2>1. /\ Goto(c, [Idle EXCEPT !.pc = "pay", !.user = u, !.term = term])
        /\ UNCHANGED <<scene, wishes>>
    BY <1>9 DEF ActivateVip, accountsOnly
  <2> QED BY <2>1, IdleFormed, GoesOn DEF Formed, WishPcs, OtherStep
<1> QED BY <1>1, <1>2, <1>3, <1>4, <1>5, <1>6, <1>7, <1>8, <1>9
        DEF AccountsNext

\* What users and administrators do to listings.
LEMMA ListingsApart ==
    ASSUME CallsFormed, ListingsNext
    PROVE  ListingStep
<1>1. ASSUME NEW c \in Clients, ContinueListing(c)
      PROVE  ListingStep
  <2>1. Formed(calls[c]) /\ calls[c].pc # "idle" /\ Began(c)
    BY <1>1, IdleFormed
       DEF CallsFormed, Began, ContinueListing, ReadOwner, SaveAd, SaveClone,
           InsertAds, SetAd, SetOwnAd, RemoveAd
  <2>2. UNCHANGED <<scene, wishes, users>>
    BY <1>1 DEF ContinueListing, ReadOwner, SaveAd, SaveClone, InsertAds,
                SetAd, SetOwnAd, RemoveAd, listingsOnly
  <2>3. CASE ReadOwner(c)
    <3>1. PICK ad : Goto(c, [calls[c] EXCEPT !.pc = "saveAd", !.ad = ad])
      BY <2>3 DEF ReadOwner
    <3> QED BY <2>1, <2>2, <3>1, IdleFormed, GoesApart
            DEF Formed, WishPcs, NamePcs, ListingStep
  <2>4. CASE Respond(c)
    BY <2>1, <2>2, <2>4, AnsweredApart DEF ListingStep
  <2> QED BY <1>1, <2>3, <2>4
          DEF ContinueListing, SaveAd, SaveClone, InsertAds, SetAd, SetOwnAd,
              RemoveAd
<1>2. ASSUME NEW c \in Clients, NEW status, NEW pub, AddProduct(c, status, pub)
      PROVE  ListingStep
  BY <1>2 DEF AddProduct, ListingStep, listingsOnly
<1>3. ASSUME NEW c \in Clients, NEW u, NEW status,
             AddProductByUser(c, u, status)
      PROVE  ListingStep
  <2>1. /\ Goto(c, [Idle EXCEPT !.pc = "readOwner", !.user = u,
                                !.status = status])
        /\ Began(c)
        /\ UNCHANGED <<scene, wishes, users>>
    BY <1>3 DEF AddProductByUser, MayAsk, Began, listingsOnly
  <2> QED BY <2>1, IdleFormed, GoesApart
          DEF Formed, WishPcs, NamePcs, ListingStep
<1>4. ASSUME NEW c \in Clients, NEW l, Began(c),
             NEW pc \in {"setAd", "setOwnAd", "removeAd"}, NEW status,
             Look(c, l, pc, status)
      PROVE  ListingStep
  <2>1. /\ Goto(c, [Idle EXCEPT !.pc = pc, !.listing = l, !.status = status,
                                  !.date = PublishDay(pc, status)])
        /\ UNCHANGED <<scene, wishes, users>>
    BY <1>4 DEF Look, listingsOnly
  <2> QED BY <1>4, <2>1, IdleFormed, GoesApart
          DEF Formed, WishPcs, NamePcs, ListingStep
<1>5. ASSUME NEW c \in Clients, NEW S, NEW status,
             \/ UpdateMultipleProductById(c, S, status)
             \/ DeleteMultipleProductById(c, S)
      PROVE  ListingStep
  BY <1>5 DEF UpdateMultipleProductById, DeleteMultipleProductById,
              ListingStep, listingsOnly
<1>6. ASSUME NEW c \in Clients, NEW deleteMany,
             InsertManyProduct(c, deleteMany)
      PROVE  ListingStep
  <2>1. /\ Goto(c, [Idle EXCEPT !.pc = "insertAds"])
        /\ Began(c)
        /\ UNCHANGED <<scene, wishes, users>>
    BY <1>6 DEF InsertManyProduct, Began, listingsOnly
  <2> QED BY <2>1, IdleFormed, GoesApart
          DEF Formed, WishPcs, NamePcs, ListingStep
<1>7. ASSUME NEW c \in Clients, NEW l, CloneSingleProduct(c, l)
      PROVE  ListingStep
  <2>1. PICK ad : /\ Goto(c, [Idle EXCEPT !.pc = "saveClone", !.ad = ad])
                  /\ Began(c)
                  /\ UNCHANGED <<scene, wishes, users>>
    BY <1>7 DEF CloneSingleProduct, Began, listingsOnly
  <2> QED BY <2>1, IdleFormed, GoesApart
          DEF Formed, WishPcs, NamePcs, ListingStep
<1>8. ASSUME NEW c \in Clients, NEW u, NEW l, NEW status,
             \/ UpdateProductById(c, l, status)
             \/ DeleteProductById(c, l)
             \/ UpdateUserProductById(c, u, l, status)
             \/ DeleteUserProductById(c, u, l)
      PROVE  ListingStep
  <2>1. /\ Began(c)
        /\ \E pc \in {"setAd", "setOwnAd", "removeAd"} :
              \E s : Look(c, l, pc, s)
    BY <1>8 DEF UpdateProductById, DeleteProductById, UpdateUserProductById,
                DeleteUserProductById, MayAsk, Began
  <2> QED BY <1>4, <2>1
<1> QED BY <1>1, <1>2, <1>3, <1>5, <1>6, <1>7, <1>8 DEF ListingsNext

\* What users and administrators do to listings.
LEMMA ListingsElsewhere ==
    ASSUME CallsFormed, ListingsNext
    PROVE  OtherStep
BY ListingsApart DEF ListingStep, Apart, OtherStep, Elsewhere

(***************************************************************************)
(* Wish lists                                                              *)
(***************************************************************************)
\* A call that works through a form.
Wishing(c) == calls[c].pc \in WishPcs

WishCall(call) ==
    /\ call.user \in UserIds
    /\ call.wanted \in Seq(Products) /\ call.wanted # <<>>

\* Neither a second tab, nor the update that writes whatever its form says.
OneLook == ~scene.tabs /\ Never({"updateWishListById"})

\* No two lines are for the same product of the same user, and none is there
\* yet for a line about to be saved, since each user has one call at a time.
WishInv ==
    /\ CallsFormed
    /\ wishes \in [WishIds -> Wish \union {NoWish}]
    /\ \A c \in Clients : Wishing(c) => WishCall(calls[c])
    /\ OneLook =>
         /\ \A v, w \in WishIds : wishes[v] = wishes[w] /\ wishes[v] # NoWish
                                    => v = w
         /\ \A c, d \in Clients :
               Wishing(c) /\ Wishing(d) /\ calls[c].user = calls[d].user => c = d
         /\ \A c \in Clients :
               calls[c].pc = "saveWish" =>
                   ~OnList(calls[c].user, Head(calls[c].wanted))

\* The other handlers leave it alone.
LEMMA OtherKeepsWishes ==
    ASSUME WishInv, OtherStep
    PROVE  WishInv'
<1>1. CASE UNCHANGED calls
  BY <1>1 DEF WishInv, OneLook, Never, OtherStep, CallsFormed, Formed, Wishing,
              WishCall, OnList, WishesFor
<1>2. ASSUME NEW c \in Clients, Elsewhere(c)
      PROVE  WishInv'
  <2>1. /\ CallsFormed'
        /\ ~Wishing(c)'
        /\ \A d \in Clients : d # c => calls'[d] = calls[d]
    BY <1>2 DEF Elsewhere, Goto, WishInv, CallsFormed, Formed, Wishing
  <2>2. \A d \in Clients : Wishing(d)' => d # c /\ Wishing(d)
    BY <2>1 DEF Wishing
  <2>3. \A d \in Clients : calls'[d].pc = "saveWish" => d # c
    BY <2>1 DEF Wishing, WishPcs
  <2>4. UNCHANGED <<scene, wishes>>
    BY DEF OtherStep
  <2> QED BY <2>1, <2>2, <2>3, <2>4
          DEF WishInv, OneLook, Never, WishCall, OnList, WishesFor
<1> QED BY <1>1, <1>2 DEF OtherStep

\* A call c that goes on to another one, and no other call.
LEMMA WishStep ==
    ASSUME WishInv, NEW c \in Clients, NEW call, Goto(c, call), Formed(call)
    PROVE  /\ CallsFormed'
           /\ calls'[c] = call
           /\ \A d \in Clients : d # c => calls'[d] = calls[d]
BY DEF WishInv, CallsFormed, Goto, Formed

\* The next product of a form, or the answer.
LEMMA NextWishCall ==
    ASSUME NEW call, Formed(call), WishCall(call), call.pc \in WishPcs
    PROVE  /\ Formed(NextWish(call))
           /\ \/ NextWish(call).pc \notin WishPcs
              \/ /\ NextWish(call).pc = "findWish"
                 /\ NextWish(call).user = call.user
                 /\ WishCall(NextWish(call))
<1>1. CASE Len(call.wanted) = 1
  BY <1>1, IdleFormed DEF NextWish, WishPcs
<1>2. CASE Len(call.wanted) # 1
  <2>1. Tail(call.wanted) \in Seq(Products) /\ Tail(call.wanted) # <<>>
    <3>1. call.wanted \in Seq(Products) /\ call.wanted # <<>>
      BY DEF WishCall
    <3>2. Len(call.wanted) \in Nat /\ Len(call.wanted) > 1
      <4>1. Len(call.wanted) \in Nat /\ Len(call.wanted) # 0
        BY <3>1, EmptySeq
      <4> QED BY <1>2, <4>1
    <3>3. /\ Tail(call.wanted) \in Seq(Products)
          /\ Len(Tail(call.wanted)) = Len(call.wanted) - 1
      BY <3>1, HeadTailProperties
    <3>4. Len(Tail(call.wanted)) # 0
      <4> DEFINE n == Len(call.wanted)
                 m == Len(Tail(call.wanted))
      <4>1. n \in Nat /\ n > 1 /\ m = n - 1
        BY <3>2, <3>3
      <4> HIDE DEF n, m
      <4>2. m # 0
        BY <4>1
      <4> QED BY <4>2 DEF m
    <3>5. Len(<<>>) = 0
      OBVIOUS
    <3> QED BY <3>3, <3>4, <3>5
  <2>2. NextWish(call) = [call EXCEPT !.pc = "findWish",
                                      !.wanted = Tail(call.wanted)]
    BY <1>2 DEF NextWish
  <2> QED BY <2>1, <2>2, IdleFormed DEF Formed, WishCall
<1> QED BY <1>1, <1>2

\* addToWishList and addToWishListMultiple: a form is sent.
LEMMA AddToWishListKeeps ==
    ASSUME WishInv, NEW c \in Clients, NEW u \in UserIds, NEW wanted \in Forms,
           AddToWishList(c, u, wanted)
    PROVE  WishInv'
<1>1. wanted \in Seq(Products) /\ wanted # <<>>
  <2>1. CASE \E p \in Products : wanted = <<p>>
    BY <2>1
  <2>2. CASE \E p \in Products, q \in Products : wanted = <<p, q>>
    BY <2>2
  <2> QED BY <2>1, <2>2 DEF Forms
<1> DEFINE call == [Idle EXCEPT !.pc = "findWish", !.user = u,
                                !.wanted = wanted]
<1>2. /\ Goto(c, call) /\ Formed(call) /\ call.pc = "findWish"
      /\ call.user = u /\ WishCall(call)
  BY <1>1, IdleFormed DEF AddToWishList, Formed, WishCall
<1> HIDE DEF call
<1>3. /\ CallsFormed' /\ calls'[c] = call
      /\ \A d \in Clients : d # c => calls'[d] = calls[d]
  BY <1>2, WishStep
<1>4. /\ UNCHANGED <<scene, wishes>>
      /\ ~scene.tabs => \A d \in Clients : calls[d].user # u
  BY DEF AddToWishList, wishesOnly, MayAsk
<1>5. \A d \in Clients : Wishing(d)' => WishCall(calls[d])'
  BY <1>2, <1>3 DEF WishInv, Wishing, WishCall
<1>6. ASSUME OneLook', NEW d \in Clients, NEW e \in Clients, Wishing(d)',
             Wishing(e)', calls'[d].user = calls'[e].user
      PROVE  d = e
  BY <1>2, <1>3, <1>4, <1>6 DEF WishInv, OneLook, Never, Wishing
<1>7. ASSUME OneLook', NEW d \in Clients, calls'[d].pc = "saveWish"
      PROVE  ~OnList(calls[d].user, Head(calls[d].wanted))'
  BY <1>2, <1>3, <1>4, <1>7 DEF WishInv, OneLook, Never, OnList, WishesFor
<1> QED BY <1>3, <1>4, <1>5, <1>6, <1>7 DEF WishInv, OneLook, Never

\* The look for a line.
LEMMA FindWishKeeps ==
    ASSUME WishInv, NEW c \in Clients, FindWish(c)
    PROVE  WishInv'
<1>1. Formed(calls[c]) /\ WishCall(calls[c]) /\ calls[c].pc \in WishPcs
  BY DEF FindWish, WishInv, CallsFormed, Wishing, WishPcs
<1>2. PICK call :
          /\ Goto(c, call) /\ Formed(call)
          /\ \/ call.pc \notin WishPcs
             \/ call.user = calls[c].user /\ WishCall(call)
          /\ call.pc = "saveWish" =>
                 ~OnList(call.user, Head(call.wanted))
  <2>1. CASE OnList(calls[c].user, Head(calls[c].wanted))
    BY <1>1, <2>1, NextWishCall DEF FindWish, WishPcs
  <2>2. CASE ~OnList(calls[c].user, Head(calls[c].wanted))
    <3> DEFINE call == [calls[c] EXCEPT !.pc = "saveWish"]
    <3>1. Goto(c, call)
      BY <2>2 DEF FindWish
    <3>2. /\ Formed(call) /\ call.user = calls[c].user
          /\ call.wanted = calls[c].wanted
      BY <1>1, IdleFormed DEF Formed
    <3>3. WishCall(call) /\ ~OnList(call.user, Head(call.wanted))
      BY <1>1, <2>2, <3>2 DEF WishCall
    <3> QED BY <3>1, <3>2, <3>3
  <2> QED BY <2>1, <2>2
<1>3. /\ CallsFormed' /\ calls'[c] = call
      /\ \A d \in Clients : d # c => calls'[d] = calls[d]
  BY <1>2, WishStep
<1>4. UNCHANGED <<scene, wishes>>
  BY DEF FindWish, wishesOnly
<1>5. \A d \in Clients : Wishing(d)' => WishCall(calls[d])'
  BY <1>2, <1>3 DEF WishInv, Wishing, WishCall
<1>6. ASSUME OneLook', NEW d \in Clients, NEW e \in Clients, Wishing(d)',
             Wishing(e)', calls'[d].user = calls'[e].user
      PROVE  d = e
  BY <1>1, <1>2, <1>3, <1>4, <1>6 DEF WishInv, OneLook, Never, Wishing
<1>7. ASSUME OneLook', NEW d \in Clients, calls'[d].pc = "saveWish"
      PROVE  ~OnList(calls[d].user, Head(calls[d].wanted))'
  BY <1>2, <1>3, <1>4, <1>7 DEF WishInv, OneLook, Never, OnList, WishesFor
<1> QED BY <1>3, <1>4, <1>5, <1>6, <1>7 DEF WishInv, OneLook, Never

\* The save of a line: no other call of the user has saved it meanwhile.
LEMMA SaveWishKeeps ==
    ASSUME WishInv, NEW c \in Clients, SaveWish(c)
    PROVE  WishInv'
<1>1. /\ Formed(calls[c]) /\ WishCall(calls[c]) /\ calls[c].pc \in WishPcs
      /\ calls[c].pc = "saveWish"
  BY DEF SaveWish, WishInv, CallsFormed, Wishing, WishPcs
<1> DEFINE call == NextWish(calls[c])
           line == [user |-> calls[c].user, product |-> Head(calls[c].wanted)]
<1>2. /\ Goto(c, call) /\ Formed(call)
      /\ \/ call.pc \notin WishPcs
         \/ call.pc = "findWish" /\ call.user = calls[c].user /\ WishCall(call)
  BY <1>1, NextWishCall DEF SaveWish
<1>3. /\ CallsFormed' /\ calls'[c] = call
      /\ \A d \in Clients : d # c => calls'[d] = calls[d]
  BY <1>2, WishStep
<1> HIDE DEF call
<1>4. line \in Wish
  <2>1. Head(calls[c].wanted) \in Products
    BY <1>1 DEF WishCall
  <2> QED BY <1>1, <2>1 DEF WishCall, Wish
<1>5. UNCHANGED scene
  BY DEF SaveWish, wishesOnly
<1>6. PICK w \in WishIds :
          wishes[w] = NoWish /\ wishes' = [wishes EXCEPT ![w] = line]
  BY DEF SaveWish
<1>7. wishes' \in [WishIds -> Wish \union {NoWish}]
  BY <1>4, <1>6 DEF WishInv
<1>8. \A d \in Clients : Wishing(d)' => WishCall(calls[d])'
  BY <1>2, <1>3 DEF WishInv, Wishing, WishCall
<1>9. ASSUME OneLook'
      PROVE  \A v \in WishIds : wishes[v] # line
  BY <1>1, <1>5, <1>9 DEF WishInv, OneLook, Never, OnList, WishesFor
<1>10. ASSUME OneLook', NEW v \in WishIds, NEW x \in WishIds,
              wishes'[v] = wishes'[x], wishes'[v] # NoWish
       PROVE  v = x
  BY <1>5, <1>6, <1>9, <1>10 DEF WishInv, OneLook, Never
<1>11. ASSUME OneLook', NEW d \in Clients, NEW e \in Clients, Wishing(d)',
              Wishing(e)', calls'[d].user = calls'[e].user
       PROVE  d = e
  BY <1>1, <1>2, <1>3, <1>5, <1>11 DEF WishInv, OneLook, Never, Wishing
<1>12. ASSUME OneLook', NEW d \in Clients, calls'[d].pc = "saveWish"
       PROVE  ~OnList(calls[d].user, Head(calls[d].wanted))'
  <2>1. d # c /\ calls'[d] = calls[d]
    BY <1>2, <1>3, <1>12 DEF WishPcs
  <2>2. calls[d].user # calls[c].user
    BY <1>1, <1>5, <1>12, <2>1 DEF WishInv, OneLook, Never, Wishing, WishPcs
  <2>3. \A v \in WishIds :
            wishes[v] # [user |-> calls[d].user,
                         product |-> Head(calls[d].wanted)]
    BY <1>5, <1>12, <2>1 DEF WishInv, OneLook, Never, OnList, WishesFor
  <2>4. line # [user |-> calls[d].user, product |-> Head(calls[d].wanted)]
    BY <2>2
  <2>5. \A v \in WishIds :
            wishes'[v] # [user |-> calls[d].user,
                          product |-> Head(calls[d].wanted)]
    BY <1>6, <2>3, <2>4 DEF WishInv
  <2> QED BY <2>1, <2>5 DEF OnList, WishesFor
<1> QED BY <1>3, <1>7, <1>8, <1>10, <1>11, <1>12 DEF WishInv

\* A line is deleted.
LEMMA DeleteWishKeeps ==
    ASSUME WishInv, NEW c \in Clients, NEW w \in WishIds,
           DeleteWishListById(c, w)
    PROVE  WishInv'
<1>1. /\ wishes' = [wishes EXCEPT ![w] = NoWish]
      /\ UNCHANGED <<scene, calls>>
  BY DEF DeleteWishListById, wishesOnly
<1>2. wishes' \in [WishIds -> Wish \union {NoWish}]
  BY <1>1 DEF WishInv
<1>3. \A v \in WishIds : wishes'[v] \in {wishes[v], NoWish}
  BY <1>1 DEF WishInv
<1>4. ASSUME OneLook, NEW v \in WishIds, NEW x \in WishIds,
             wishes'[v] = wishes'[x], wishes'[v] # NoWish
      PROVE  v = x
  BY <1>3, <1>4 DEF WishInv
<1>5. ASSUME OneLook, NEW d \in Clients, calls[d].pc = "saveWish"
      PROVE  ~OnList(calls[d].user, Head(calls[d].wanted))'
  <2>1. [user |-> calls[d].user, product |-> Head(calls[d].wanted)] # NoWish
    <3>1. WishCall(calls[d])
      BY <1>5 DEF WishInv, Wishing, WishPcs
    <3>2. Head(calls[d].wanted) \in Products /\ calls[d].user \in UserIds
      BY <3>1 DEF WishCall
    <3>3. [user |-> calls[d].user, product |-> Head(calls[d].wanted)] \in Wish
      BY <3>2 DEF Wish
    <3> QED BY <3>3, MarketAssumption
  <2>2. \A v \in WishIds :
            wishes[v] # [user |-> calls[d].user,
                         product |-> Head(calls[d].wanted)]
    BY <1>5 DEF WishInv, OnList, WishesFor
  <2> QED BY <1>1, <1>3, <2>1, <2>2 DEF OnList, WishesFor
<1> QED BY <1>1, <1>2, <1>4, <1>5
        DEF WishInv, OneLook, Never, CallsFormed, Formed, Wishing, WishCall

\* A line is changed, for a user and a product of the form's choice.
LEMMA UpdateWishKeeps ==
    ASSUME WishInv, NEW c \in Clients, NEW w \in WishIds, NEW u \in UserIds,
           NEW p \in Products, UpdateWishListById(c, w, u, p)
    PROVE  WishInv'
<1>1. /\ wishes' = [wishes EXCEPT ![w] = [user |-> u, product |-> p]]
      /\ UNCHANGED <<scene, calls>>
      /\ ~OneLook
  BY DEF UpdateWishListById, wishesOnly, MayCall, OneLook, Never
<1>2. wishes' \in [WishIds -> Wish \union {NoWish}]
  BY <1>1 DEF WishInv, Wish
<1> QED BY <1>1, <1>2 DEF WishInv, CallsFormed, Formed, Wishing, WishCall,
        OneLook, Never

\* The invariant holds throughout.
LEMMA WishInvAlways == Spec => []WishInv
<1>1. Init => WishInv
  <2> SUFFICES ASSUME Init PROVE WishInv
    OBVIOUS
  <2>1. /\ calls = [c \in Clients |-> Idle]
        /\ wishes = [w \in WishIds |-> NoWish]
    BY DEF Init, MarketInit
  <2> QED BY <2>1, IdleFormed DEF WishInv, CallsFormed, Wishing, WishPcs
<1>2. ASSUME WishInv, [Next]_vars PROVE WishInv'
  <2>1. CASE AccountsNext
    BY <1>2, <2>1, AccountsElsewhere, OtherKeepsWishes DEF WishInv
  <2>2. CASE ListingsNext
    BY <1>2, <2>2, ListingsElsewhere, OtherKeepsWishes DEF WishInv
  <2>3. CASE WishListsNext
    BY <1>2, <2>3, AddToWishListKeeps, FindWishKeeps, SaveWishKeeps,
       DeleteWishKeeps, UpdateWishKeeps DEF WishListsNext
  <2>4. ASSUME NEW c \in Clients, CallFails(c) PROVE WishInv'
    <3>1. OtherStep
      BY <2>4, Answered DEF CallFails, OtherStep
    <3> QED BY <1>2, <3>1, OtherKeepsWishes
  <2>5. CASE NextDay \/ UNCHANGED marketVars
    <3>1. OtherStep
      BY <2>5 DEF NextDay, marketVars, OtherStep
    <3> QED BY <1>2, <3>1, OtherKeepsWishes
  <2> QED BY <1>2, <2>1, <2>2, <2>3, <2>4, <2>5 DEF Next, vars
<1> QED BY <1>1, <1>2, PTL DEF Spec

\* For a user who waits for each answer, a product is on the wish list once,
\* with any number of users, products, lines and calls of all services:
\* between the findOne of addToWishList and its save nobody saves the line.
THEOREM OneWishAlways == Spec => []OneWishPerProduct
<1>1. WishInv => OneWishPerProduct
  <2> SUFFICES ASSUME WishInv, OneLook, NEW u \in UserIds,
                      NEW p \in Products
               PROVE  Cardinality(WishesFor(u, p)) <= 1
    BY DEF OneWishPerProduct, OneLook
  <2>1. [user |-> u, product |-> p] # NoWish
    <3>1. [user |-> u, product |-> p] \in Wish
      BY DEF Wish
    <3> QED BY <3>1, MarketAssumption
  <2>2. \A v, w \in WishesFor(u, p) : v = w
    BY <2>1 DEF WishInv, WishesFor
  <2>3. CASE WishesFor(u, p) = {}
    BY <2>3, FS_EmptySet
  <2>4. ASSUME NEW w \in WishesFor(u, p)
        PROVE  Cardinality(WishesFor(u, p)) <= 1
    <3>1. WishesFor(u, p) = {w}
      BY <2>2
    <3>2. Cardinality({w}) = 1
      BY FS_Singleton
    <3> QED BY <3>1, <3>2
  <2> QED BY <2>3, <2>4
<1> QED BY <1>1, WishInvAlways, PTL

(***************************************************************************)
(* Usernames                                                               *)
(***************************************************************************)
\* The users us, or those that a step makes of them.
LiveIn(us) == {u \in UserIds : us[u] \notin {Unborn, Gone}}
Distinct(us) ==
    \A u, v \in LiveIn(us) : u # v => us[u].name # us[v].name

\* The name that a call will save: nobody has it, or only its own user.
Held(call, us) ==
    /\ call.pc = "signup" => \A u \in LiveIn(us) : us[u].name # call.name
    /\ \/ call.pc \in {"setBadge", "setUser"}
       \/ call.pc \in {"uncache", "uncount"} /\ call.next # "idle"
       => \/ call.name = NoName
          \/ \A u \in LiveIn(us) : u # call.user => us[u].name # call.name

\* One call at a time, and each looks before it saves.
Serial == scene.calls = 1 /\ "userSignup" \notin scene.ops

NameInv ==
    /\ CallsFormed
    /\ DOMAIN users = UserIds
    /\ Serial =>
         /\ \A c, d \in Clients : calls[c] # Idle /\ calls[d] # Idle => c = d
         /\ Distinct(users)
         /\ \A c \in Clients : Held(calls[c], users)

\* The idle call holds no name.
LEMMA IdleHolds ==
    ASSUME NEW us
    PROVE  Held(Idle, us)
BY IdleFormed DEF Held

\* A handler that starts finds no other in progress.
LEMMA Alone ==
    ASSUME NameInv, Serial, NEW c \in Clients, Began(c)
    PROVE  \A d \in Clients : d # c => calls[d] = Idle
<1>1. CASE calls[c] # Idle
  BY <1>1 DEF NameInv
<1>2. CASE \E op : MayCall(c, op)
  <2>1. Cardinality(InProgress) < 1
    BY <1>2 DEF MayCall, Serial
  <2>2. IsFiniteSet(InProgress)
    BY MarketAssumption, FS_Subset DEF InProgress
  <2>3. Cardinality(InProgress) \in Nat
    BY <2>2, FS_CardinalityType
  <2>4. InProgress = {}
    BY <2>1, <2>2, <2>3, FS_EmptySet
  <2> QED BY <2>4 DEF InProgress
<1> QED BY <1>1, <1>2 DEF Began

\* A step of one handler keeps the invariant if what it goes on with does.
LEMMA NameStep ==
    ASSUME NameInv, NEW c \in Clients, Began(c),
           NEW call, Goto(c, call), Formed(call),
           UNCHANGED scene, DOMAIN users' = UserIds,
           Serial => Distinct(users') /\ Held(call, users')
    PROVE  NameInv'
<1>1. /\ calls'[c] = call
      /\ \A d \in Clients : d # c => calls'[d] = calls[d]
      /\ CallsFormed'
  BY DEF NameInv, CallsFormed, Goto, Formed
<1>2. ASSUME Serial
      PROVE  /\ \A d, e \in Clients : calls'[d] # Idle /\ calls'[e] # Idle => d = e
             /\ Distinct(users)'
             /\ \A d \in Clients : Held(calls[d], users)'
  <2>1. \A d \in Clients : d # c => calls'[d] = Idle
    BY <1>1, <1>2, Alone
  <2>2. \A d \in Clients : Held(calls'[d], users')
    BY <1>1, <1>2, <2>1, IdleHolds
  <2>3. Distinct(users')
    BY <1>2
  <2> QED BY <2>1, <2>2, <2>3 DEF Distinct, Held, LiveIn
<1>3. Serial' => Serial
  BY DEF Serial
<1> QED BY <1>1, <1>2, <1>3 DEF NameInv

\* The same for a step that leaves the users alone.
LEMMA NameTalk ==
    ASSUME NameInv, NEW c \in Clients, Began(c),
           NEW call, Goto(c, call), Formed(call), UNCHANGED <<scene, users>>,
           Serial => Held(call, users)
    PROVE  NameInv'
<1>1. /\ UNCHANGED scene /\ DOMAIN users' = UserIds
      /\ Serial => Distinct(users') /\ Held(call, users')
  BY DEF NameInv
<1> QED BY <1>1, NameStep

\* An answered call holds no name any more.
LEMMA NameAnswered ==
    ASSUME NameInv, NEW c \in Clients, calls[c].pc # "idle", Respond(c),
           UNCHANGED <<scene, users>>
    PROVE  NameInv'
<1>1. Began(c) /\ Goto(c, Idle) /\ Formed(Idle)
  BY IdleFormed DEF Began, Respond, Goto
<1> QED BY <1>1, IdleHolds, NameTalk

\* No call and no user changes.
LEMMA NameQuiet ==
    ASSUME NameInv, UNCHANGED <<scene, users, calls>>
    PROVE  NameInv'
BY DEF NameInv, CallsFormed, Formed, Serial, Distinct, Held, LiveIn

\* Steps that have nothing to do with usernames.
LEMMA NameApart ==
    ASSUME NameInv, ListingStep
    PROVE  NameInv'
<1>1. CASE UNCHANGED calls
  BY <1>1, NameQuiet DEF ListingStep
<1>2. ASSUME NEW c \in Clients, Apart(c)
      PROVE  NameInv'
  <2>1. PICK call : /\ Goto(c, call)
                    /\ Formed(call)
                    /\ call.pc \notin WishPcs \union NamePcs
    BY <1>2 DEF Apart
  <2>2. Held(call, users)
    BY <2>1 DEF Held, NamePcs
  <2> QED BY <1>2, <2>1, <2>2, NameTalk DEF Apart, ListingStep
<1> QED BY <1>1, <1>2 DEF ListingStep

\* userSignupAndLogin and its like: the save of the name that was free.
LEMMA SaveUserKeeps ==
    ASSUME NameInv, NEW c \in Clients, SignupAndLogin(c)
    PROVE  NameInv'
<1>1. PICK u \in UserIds :
          /\ users[u] = Unborn
          /\ users' = [users EXCEPT ![u] = [name |-> calls[c].name,
                                           verified |-> FALSE]]
  BY DEF SignupAndLogin, SaveUser
<1> DEFINE call == [Idle EXCEPT !.pc = "uncache"]
<1>2. /\ Goto(c, call) /\ Formed(call) /\ UNCHANGED scene
      /\ Began(c) /\ calls[c].pc = "signup"
      /\ call.pc = "uncache" /\ call.next = "idle"
  BY IdleFormed DEF SignupAndLogin, SaveUser, Formed, Began, accountsOnly
<1> HIDE DEF call
<1>3. DOMAIN users' = UserIds
  BY <1>1 DEF NameInv
<1>4. ASSUME Serial PROVE Distinct(users')
  <2>1. \A v \in LiveIn(users) : users[v].name # calls[c].name
    BY <1>2, <1>4 DEF NameInv, Held
  <2>2. users'[u].name = calls[c].name
    BY <1>1 DEF NameInv
  <2>3. \A v \in LiveIn(users') :
            v # u => v \in LiveIn(users) /\ users'[v] = users[v]
    BY <1>1 DEF LiveIn, NameInv
  <2>4. Distinct(users)
    BY <1>4 DEF NameInv
  <2> QED BY <2>1, <2>2, <2>3, <2>4 DEF Distinct
<1>5. Held(call, users')
  BY <1>2 DEF Held
<1> QED BY <1>2, <1>3, <1>4, <1>5, NameStep

\* updateUserById and updateLoggedInUserInfo: the update.
LEMMA SetUserKeeps ==
    ASSUME NameInv, NEW c \in Clients, SetUser(c)
    PROVE  NameInv'
<1>1. /\ Goto(c, Idle) /\ Formed(Idle) /\ UNCHANGED scene
      /\ Began(c) /\ calls[c].pc = "setUser"
  BY IdleFormed DEF SetUser, Respond, Goto, Began, accountsOnly
<1>2. CASE users' = users
  BY <1>1, <1>2, NameTalk, IdleHolds
<1>3. ASSUME NEW u \in UserIds, u = calls[c].user, u \in LiveIn(users),
             users' = [users EXCEPT ![u] = Updated(users[u], calls[c])]
      PROVE  NameInv'
  <2>1. DOMAIN users' = UserIds
    BY <1>3 DEF NameInv
  <2>2. ASSUME Serial PROVE Distinct(users')
    <3>1. users'[u].name = IF calls[c].name = NoName THEN users[u].name
                                                     ELSE calls[c].name
      BY <1>3 DEF NameInv, Updated
    <3>2. \A v \in LiveIn(users') :
              v # u => v \in LiveIn(users) /\ users'[v] = users[v]
      BY <1>3 DEF LiveIn, NameInv
    <3>3. /\ Distinct(users)
          /\ \/ calls[c].name = NoName
             \/ \A v \in LiveIn(users) : v # u => users[v].name # calls[c].name
      BY <1>1, <1>3, <2>2 DEF NameInv, Held
    <3> QED BY <1>3, <3>1, <3>2, <3>3 DEF Distinct
  <2> QED BY <1>1, <2>1, <2>2, NameStep, IdleHolds
<1> QED BY <1>2, <1>3 DEF SetUser, Live, LiveIn

\* deleteUserById and deleteMultipleUserById.
LEMMA RemoveUsersKeeps ==
    ASSUME NameInv, NEW c \in Clients, NEW S, Began(c), RemoveUsers(c, S)
    PROVE  NameInv'
<1> DEFINE call == [Idle EXCEPT !.pc = "uncache"]
<1>1. /\ Goto(c, call) /\ Formed(call) /\ UNCHANGED scene
      /\ call.pc = "uncache" /\ call.next = "idle"
  BY IdleFormed DEF RemoveUsers, AfterDelete, Formed, accountsOnly
<1> HIDE DEF call
<1>2. /\ DOMAIN users' = UserIds
      /\ \A v \in LiveIn(users') : v \in LiveIn(users) /\ users'[v] = users[v]
  BY DEF RemoveUsers, LiveIn
<1>3. Serial => Distinct(users')
  BY <1>2 DEF NameInv, Distinct
<1>4. Held(call, users')
  BY <1>1 DEF Held
<1> QED BY <1>1, <1>2, <1>3, <1>4, NameStep

\* The second calls of all handlers of the accounts.
LEMMA ContinueAccountKeeps ==
    ASSUME NameInv, NEW c \in Clients, ContinueAccount(c)
    PROVE  NameInv'
<1>1. /\ Formed(calls[c]) /\ Began(c) /\ calls[c].pc # "idle"
      /\ Serial => Held(calls[c], users)
  BY IdleFormed
     DEF NameInv, CallsFormed, Began, ContinueAccount, Uncache, Uncount,
         SignupAndLogin, ListCount, AggregateUsers, KeepList, KeepCount,
         CheckName, SetBadge, SetUser, DeleteUser, Pay, FindLatestAd, ExtendVip
<1>2. CASE SignupAndLogin(c)
  BY <1>2, SaveUserKeeps
<1>3. CASE SetUser(c)
  BY <1>3, SetUserKeeps
<1>4. CASE DeleteUser(c)
  BY <1>1, <1>4, RemoveUsersKeeps DEF DeleteUser
<1>5. CASE \/ Uncache(c) \/ Uncount(c) \/ CheckName(c) \/ SetBadge(c)
  <2>1. UNCHANGED <<scene, users>>
    BY <1>5 DEF Uncache, Uncount, CheckName, SetBadge, accountsOnly
  <2>2. CASE Respond(c)
    BY <1>1, <2>1, <2>2, NameAnswered
  <2>3. CASE Goto(c, Idle)
    BY <2>2, <2>3 DEF Goto, Respond
  <2>4. ASSUME NEW pc \in {"uncache", "uncount", "setBadge", "setUser"},
               Goto(c, [calls[c] EXCEPT !.pc = pc]),
               Serial => Held([calls[c] EXCEPT !.pc = pc], users)
        PROVE  NameInv'
    <3>1. Formed([calls[c] EXCEPT !.pc = pc])
      BY <1>1, IdleFormed DEF Formed
    <3> QED BY <1>1, <2>1, <2>4, <3>1, NameTalk
  <2>5. ASSUME NEW pc
        PROVE  LET call == [calls[c] EXCEPT !.pc = pc]
               IN  /\ call.pc = pc /\ call.next = calls[c].next
                   /\ call.name = calls[c].name /\ call.user = calls[c].user
    BY <1>1, IdleFormed DEF Formed
  <2>6. CASE Uncache(c)
    <3>1. calls[c].pc = "uncache" /\ Goto(c, [calls[c] EXCEPT !.pc = "uncount"])
      BY <2>6 DEF Uncache
    <3>2. Serial => Held([calls[c] EXCEPT !.pc = "uncount"], users)
      BY <1>1, <2>5, <3>1 DEF Held
    <3> QED BY <2>4, <3>1, <3>2
  <2>7. CASE Uncount(c)
    <3>1. CASE calls[c].next = "idle"
      BY <2>3, <2>7, <3>1 DEF Uncount
    <3>2. CASE calls[c].next # "idle"
      <4>1. /\ calls[c].pc = "uncount"
            /\ calls[c].next \in {"setBadge", "setUser"}
            /\ Goto(c, [calls[c] EXCEPT !.pc = calls[c].next])
        BY <1>1, <2>7, <3>2 DEF Uncount, Formed
      <4>2. Serial => Held([calls[c] EXCEPT !.pc = calls[c].next], users)
        BY <1>1, <2>5, <3>2, <4>1 DEF Held
      <4> QED BY <2>4, <4>1, <4>2
    <3> QED BY <3>1, <3>2
  <2>8. CASE CheckName(c)
    <3>1. CASE UsernameFree(calls[c].name)
      <4>1. Goto(c, [calls[c] EXCEPT !.pc = "uncache"])
        BY <2>8, <3>1 DEF CheckName
      <4>2. Held([calls[c] EXCEPT !.pc = "uncache"], users)
        BY <2>5, <3>1 DEF Held, UsernameFree, Taken, Live, LiveIn
      <4> QED BY <2>4, <4>1, <4>2
    <3>2. CASE ~UsernameFree(calls[c].name)
      BY <2>2, <2>8, <3>2 DEF CheckName
    <3> QED BY <3>1, <3>2
  <2>9. CASE SetBadge(c)
    <3>1. /\ calls[c].pc = "setBadge"
          /\ Goto(c, [calls[c] EXCEPT !.pc = "setUser"])
      BY <2>9 DEF SetBadge
    <3>2. Serial => Held([calls[c] EXCEPT !.pc = "setUser"], users)
      BY <1>1, <2>5, <3>1 DEF Held
    <3> QED BY <2>4, <3>1, <3>2
  <2> QED BY <1>5, <2>6, <2>7, <2>8, <2>9
<1>6. CASE \/ ListCount(c) \/ AggregateUsers(c) \/ KeepList(c) \/ KeepCount(c)
           \/ Pay(c) \/ FindLatestAd(c) \/ ExtendVip(c)
  <2>1. UNCHANGED <<scene, wishes, users>>
    BY <1>6 DEF ListCount, AggregateUsers, KeepList, KeepCount, Pay,
                FindLatestAd, ExtendVip, accountsOnly
  <2>2. Apart(c)
    <3>1. \/ Goto(c, Idle)
          \/ \E rows : Goto(c, [calls[c] EXCEPT !.pc = "keepList",
                                               !.rows = rows])
          \/ \E pc \in {"aggregate", "keepCount", "findAd"} :
                Goto(c, [calls[c] EXCEPT !.pc = pc])
          \/ \E l, d : Goto(c, [calls[c] EXCEPT !.pc = "extend",
                                               !.listing = l, !.date = d])
      <4>1. CASE ListCount(c) \/ KeepList(c) \/ Pay(c)
        BY <4>1 DEF ListCount, KeepList, Pay
      <4>2. CASE AggregateUsers(c)
        BY <4>2 DEF AggregateUsers
      <4>3. CASE KeepCount(c) \/ ExtendVip(c)
        BY <4>3 DEF KeepCount, ExtendVip, Respond, Goto
      <4>4. CASE FindLatestAd(c)
        <5>1. CASE Respond(c)
          BY <5>1 DEF Respond, Goto
        <5> QED BY <4>4, <5>1 DEF FindLatestAd
      <4> QED BY <1>6, <4>1, <4>2, <4>3, <4>4
    <3> QED BY <1>1, <3>1, IdleFormed, GoesApart DEF Formed, WishPcs, NamePcs
  <2> QED BY <2>1, <2>2, NameApart DEF ListingStep
<1> QED BY <1>2, <1>3, <1>4, <1>5, <1>6 DEF ContinueAccount

\* The handlers of the accounts.
LEMMA AccountsKeepNames ==
    ASSUME NameInv, AccountsNext
    PROVE  NameInv'
<1>1. CASE CacheExpires
  BY <1>1, NameQuiet DEF CacheExpires, accountsOnly
<1>2. ASSUME NEW c \in Clients, ContinueAccount(c)
      PROVE  NameInv'
  BY <1>2, ContinueAccountKeeps
<1>3. ASSUME NEW c \in Clients, DeleteMultipleUserById(c)
      PROVE  NameInv'
  <2>1. Began(c) /\ \E S : RemoveUsers(c, S)
    BY <1>3 DEF DeleteMultipleUserById, Began
  <2> QED BY <2>1, RemoveUsersKeeps
<1>4. ASSUME NEW c \in Clients, NEW n, UserSignup(c, n)
      PROVE  NameInv'
  <2> DEFINE call == [Idle EXCEPT !.pc = "uncache"]
  <2>1. /\ Goto(c, call) /\ Formed(call) /\ Began(c) /\ UNCHANGED scene
        /\ ~Serial
    BY <1>4, IdleFormed
       DEF UserSignup, SaveUser, MayCall, Serial, Formed, Began, accountsOnly
  <2>2. DOMAIN users' = UserIds
    BY <1>4 DEF UserSignup, SaveUser, NameInv
  <2> HIDE DEF call
  <2> QED BY <2>1, <2>2, NameStep
<1>5. ASSUME NEW c \in Clients, NEW n,
             UserSignupAndLogin(c, n) \/ UserSignupAndLoginSocial(c, n)
      PROVE  NameInv'
  <2> DEFINE call == [Idle EXCEPT !.pc = "signup", !.name = n]
  <2>1. /\ Goto(c, call) /\ UsernameFree(n) /\ Began(c)
        /\ UNCHANGED <<scene, users>>
    BY <1>5 DEF UserSignupAndLogin, UserSignupAndLoginSocial, CheckedSignup,
                Began, accountsOnly
  <2>2. Formed(call) /\ call.pc = "signup" /\ call.name = n
    BY IdleFormed DEF Formed
  <2> HIDE DEF call
  <2>3. Held(call, users)
    BY <2>1, <2>2 DEF Held, UsernameFree, Taken, Live, LiveIn
  <2> QED BY <2>1, <2>2, <2>3, NameTalk
<1>6. ASSUME NEW c \in Clients, NEW n, GetAllUsers(c, n)
      PROVE  NameInv'
  <2>1. PICK rows :
            /\ Goto(c, [Idle EXCEPT !.pc = "listCount", !.name = n,
                                    !.rows = rows])
            /\ Began(c)
            /\ UNCHANGED <<scene, wishes, users>>
    BY <1>6 DEF GetAllUsers, Began, accountsOnly
  <2>2. Apart(c)
    BY <2>1, IdleFormed, GoesApart DEF Formed, WishPcs, NamePcs
  <2> QED BY <2>1, <2>2, NameApart DEF ListingStep
<1>7. ASSUME NEW c \in Clients, NEW n, NEW u, NEW mark,
             UpdateLoggedInUserInfo(c, u, n, mark)
      PROVE  NameInv'
  <2>1. PICK pc \in {"uncache", "checkName"} :
            /\ Goto(c, [Idle EXCEPT !.pc = pc, !.next = "setUser", !.user = u,
                                    !.name = n, !.mark = mark])
            /\ pc = "uncache" => n = NoName
            /\ Began(c)
            /\ UNCHANGED <<scene, users>>
    BY <1>7 DEF UpdateLoggedInUserInfo, MayAsk, Began, accountsOnly
  <2> DEFINE call == [Idle EXCEPT !.pc = pc, !.next = "setUser", !.user = u,
                                  !.name = n, !.mark = mark]
  <2>2. Formed(call) /\ call.pc = pc /\ call.name = n
    BY IdleFormed DEF Formed
  <2> HIDE DEF call
  <2>3. Held(call, users)
    BY <2>1, <2>2 DEF Held
  <2> QED BY <2>1, <2>2, <2>3, NameTalk DEF call
<1>8. ASSUME NEW c \in Clients, NEW n, NEW u, NEW mark, NEW status, NEW password,
             UpdateUserById(c, u, n, mark, status, password)
      PROVE  NameInv'
  <2>1. PICK pc \in {"uncache", "checkName"}, next \in {"setBadge", "setUser"} :
            /\ Goto(c, [Idle EXCEPT !.pc = pc, !.next = next, !.user = u,
                                    !.name = n, !.mark = mark])
            /\ pc = "uncache" => n \in {NoName, users[u].name}
            /\ u \in LiveIn(users)
            /\ Began(c)
            /\ UNCHANGED <<scene, users>>
    BY <1>8 DEF UpdateUserById, Began, Live, LiveIn, accountsOnly
  <2> DEFINE call == [Idle EXCEPT !.pc = pc, !.next = next, !.user = u,
                                  !.name = n, !.mark = mark]
  <2>2. Formed(call) /\ call.pc = pc /\ call.name = n /\ call.user = u
    BY IdleFormed DEF Formed
  <2> HIDE DEF call
  <2>3. ASSUME Serial PROVE Held(call, users)
    BY <2>1, <2>2, <2>3 DEF Held, NameInv, Distinct
  <2> QED BY <2>1, <2>2, <2>3, NameTalk DEF call
<1>9. ASSUME NEW c \in Clients, NEW u, DeleteUserById(c, u)
      PROVE  NameInv'
  <2>1. /\ Goto(c, [Idle EXCEPT !.pc = "deleteUser", !.user = u])
        /\ Began(c)
        /\ UNCHANGED <<scene, wishes, users>>
    BY <1>9 DEF DeleteUserById, Began, accountsOnly
  <2>2. Apart(c)
    BY <2>1, IdleFormed, GoesApart DEF Formed, WishPcs, NamePcs
  <2> QED BY <2>1, <2>2, NameApart DEF ListingStep
<1>10. ASSUME NEW c \in Clients, NEW u, NEW term, ActivateVip(c, u, term)
       PROVE  NameInv'
  <2>1. /\ Goto(c, [Idle EXCEPT !.pc = "pay", !.user = u, !.term = term])
        /\ Began(c)
        /\ UNCHANGED <<scene, wishes, users>>
    BY <1>10 DEF ActivateVip, MayAsk, Began, accountsOnly
  <2>2. Apart(c)
    BY <2>1, IdleFormed, GoesApart DEF Formed, WishPcs, NamePcs
  <2> QED BY <2>1, <2>2, NameApart DEF ListingStep
<1> QED BY <1>1, <1>2, <1>3, <1>4, <1>5, <1>6, <1>7, <1>8, <1>9, <1>10
        DEF AccountsNext

\* The handlers of the wish lists.
LEMMA WishListsKeepNames ==
    ASSUME NameInv, WishListsNext
    PROVE  NameInv'
<1>1. ASSUME NEW c \in Clients, NEW call, Began(c), Goto(c, call),
             Formed(call), call.pc \notin NamePcs, UNCHANGED <<scene, users>>
      PROVE  NameInv'
  <2>1. Held(call, users)
    BY <1>1 DEF Held, NamePcs
  <2> QED BY <1>1, <2>1, NameTalk
<1>2. ASSUME NEW c \in Clients, Formed(calls[c]), calls[c].pc \in WishPcs
      PROVE  /\ Began(c)
             /\ Formed(NextWish(calls[c]))
             /\ NextWish(calls[c]).pc \notin NamePcs
  <2>1. \/ NextWish(calls[c]) = Idle
        \/ \E rest : NextWish(calls[c]) =
                [calls[c] EXCEPT !.pc = "findWish", !.wanted = rest]
    BY DEF NextWish
  <2> QED BY <1>2, <2>1, IdleFormed DEF Formed, Began, WishPcs, NamePcs
<1>3. ASSUME NEW c \in Clients, FindWish(c) \/ SaveWish(c)
      PROVE  NameInv'
  <2>1. /\ Formed(calls[c]) /\ calls[c].pc \in WishPcs
        /\ UNCHANGED <<scene, users>>
    BY <1>3 DEF FindWish, SaveWish, NameInv, CallsFormed, WishPcs, wishesOnly
  <2>2. CASE Goto(c, NextWish(calls[c]))
    BY <1>1, <1>2, <2>1, <2>2
  <2>3. CASE Goto(c, [calls[c] EXCEPT !.pc = "saveWish"])
    <3> DEFINE call == [calls[c] EXCEPT !.pc = "saveWish"]
    <3>1. Formed(call) /\ call.pc = "saveWish"
      BY <2>1, IdleFormed DEF Formed
    <3> HIDE DEF call
    <3>2. Goto(c, call)
      BY <2>3 DEF call
    <3> QED BY <1>1, <1>2, <2>1, <3>1, <3>2 DEF NamePcs
  <2> QED BY <1>3, <2>2, <2>3 DEF FindWish, SaveWish
<1>4. ASSUME NEW c \in Clients, NEW u, NEW wanted, AddToWishList(c, u, wanted)
      PROVE  NameInv'
  <2> DEFINE call == [Idle EXCEPT !.pc = "findWish", !.user = u,
                                  !.wanted = wanted]
  <2>1. /\ Goto(c, call) /\ Began(c) /\ UNCHANGED <<scene, users>>
        /\ Formed(call) /\ call.pc = "findWish"
    BY <1>4, IdleFormed DEF AddToWishList, MayAsk, Began, wishesOnly, Formed
  <2> HIDE DEF call
  <2> QED BY <1>1, <2>1 DEF NamePcs
<1>5. ASSUME NEW c \in Clients, NEW w,
             \/ DeleteWishListById(c, w)
             \/ \E u \in UserIds, p \in Products : UpdateWishListById(c, w, u, p)
      PROVE  NameInv'
  BY <1>5, NameQuiet DEF DeleteWishListById, UpdateWishListById, wishesOnly
<1> QED BY <1>3, <1>4, <1>5 DEF WishListsNext

\* The invariant holds throughout.
LEMMA NameInvAlways == Spec => []NameInv
<1>1. Init => NameInv
  <2> SUFFICES ASSUME Init PROVE NameInv
    OBVIOUS
  <2>1. /\ calls = [c \in Clients |-> Idle]
        /\ scene \in Scenes /\ users = scene.users
    BY DEF Init, MarketInit
  <2>2. users \in [UserIds -> User \union {Unborn}]
    <3>1. scene \in Scene
      BY <2>1, SceneAssumption
    <3> QED BY <2>1, <3>1 DEF Scene
  <2>3. Distinct(users)
    <3>1. \A u \in LiveIn(users) : u \in UserIds /\ users[u] \in User
      BY <2>2 DEF LiveIn
    <3>2. \A u, v \in UserIds :
             {scene.users[u], scene.users[v]} \subseteq User /\ u # v =>
                 scene.users[u].name # scene.users[v].name
      BY <2>1, SceneAssumption
    <3> QED BY <2>1, <3>1, <3>2 DEF Distinct
  <2> QED BY <2>1, <2>2, <2>3, IdleFormed, IdleHolds DEF NameInv, CallsFormed
<1>2. ASSUME NameInv, [Next]_vars PROVE NameInv'
  <2>1. CASE AccountsNext
    BY <1>2, <2>1, AccountsKeepNames
  <2>2. CASE ListingsNext
    BY <1>2, <2>2, ListingsApart, NameApart DEF NameInv
  <2>3. CASE WishListsNext
    BY <1>2, <2>3, WishListsKeepNames
  <2>4. ASSUME NEW c \in Clients, CallFails(c) PROVE NameInv'
    <3>1. /\ Began(c) /\ Goto(c, Idle) /\ Formed(Idle)
          /\ UNCHANGED <<scene, users>>
      BY <2>4, IdleFormed DEF CallFails, Respond, Goto, Began
    <3> QED BY <1>2, <3>1, NameTalk, IdleHolds
  <2>5. CASE NextDay \/ UNCHANGED marketVars
    BY <1>2, <2>5, NameQuiet DEF NextDay, marketVars
  <2> QED BY <1>2, <2>1, <2>2, <2>3, <2>4, <2>5 DEF Next, vars
<1> QED BY <1>1, <1>2, PTL DEF Spec

\* One call at a time, no two users get one username, though usernames have no
\* unique index: a name that userSignupAndLogin, updateUserById or
\* updateLoggedInUserInfo found free is free when it is saved, and an own name
\* that is not looked up is nobody else's.
THEOREM UsernamesUniqueAlways == Spec => []UsernamesUnique
<1>1. NameInv => UsernamesUnique
  BY DEF NameInv, UsernamesUnique, OneCallAtATime, Never, Serial, Distinct,
         LiveIn, Live
<1> QED BY <1>1, NameInvAlways, PTL

(***************************************************************************)
(* Types                                                                   *)
(***************************************************************************)
CreatingPcs == {"readOwner", "saveAd", "saveClone", "insertAds"}

\* The data that a call needs at its place in the handler.
CallFits(call) ==
    /\ call.pc = "signup" => call.name \in Names
    /\ call.pc \in {"saveAd", "saveClone"} => call.ad \in Listing
    /\ call.pc = "setOwnAd" => call.date \in Days
    /\ call.pc \in {"readOwner", "pay", "findAd", "extend"} =>
           call.user \in UserIds
    /\ call.pc \in {"keepList", "keepCount"} =>
           call.rows \in SUBSET Row /\ IsFiniteSet(call.rows)

\* A payment in progress keeps to the bound, and there is one at a time.
Paying == \A c \in Clients :
             calls[c].pc = "pay" =>
                 /\ paid[calls[c].user] + calls[c].term <= MaxPaid
                 /\ \A d \in Clients : calls[d].pc = "pay" => d = c

DocsTyped ==
    /\ users \in [UserIds -> User \union {Unborn, Gone}]
    /\ cache \in [data: (SUBSET Row) \union {NoData}, count: Nat \union {NoData}]
    /\ listings \in [ListingIds -> Listing \union {NoListing}]

\* Every listing has an id given already, and there are ids for those to come.
MarketTypes ==
    /\ DocsTyped
    /\ scene \in Scenes
    /\ today \in FirstDay..LastDay
    /\ born \in 0..MaxListings
    /\ paid \in [UserIds -> 0..MaxPaid]
    /\ calls \in [Clients -> Call]
    /\ \A c \in Clients : CallFits(calls[c])
    /\ born + Cardinality(Creating) <= MaxListings
    /\ \A l \in Listed : l <= born
    /\ Paying

\* The idle call is a call.
LEMMA IdleCall == Idle \in Call /\ CallFits(Idle)
<1>1. <<>> \in Seq(Products)
  OBVIOUS
<1>2. Idle \in Call
  BY <1>1, MarketAssumption DEF Idle, Call, Statuses
<1> QED BY <1>2, IdleFormed DEF CallFits

\* The days of a subscription.
LEMMA TermDays ==
    ASSUME NEW call \in Call
    PROVE  call.term \in Nat
<1>1. call.term \in Terms \union {0}
  BY DEF Call
<1>2. \A term \in Terms : term \in Nat
  BY MarketAssumption
<1>3. CASE call.term \in Terms
  BY <1>2, <1>3
<1>4. CASE call.term = 0
  BY <1>4
<1> QED BY <1>1, <1>3, <1>4

\* Calls about to save a listing are finitely many; a call that ceases to be
\* one leaves room for a listing more.
LEMMA CreatingCount ==
    ASSUME MarketTypes
    PROVE  /\ IsFiniteSet(Creating) /\ Cardinality(Creating) \in Nat
           /\ \A c \in Creating :
                 Cardinality(Creating \ {c}) = Cardinality(Creating) - 1
<1>1. IsFiniteSet(Creating)
  BY MarketAssumption, FS_Subset DEF Creating
<1> QED BY <1>1, FS_CardinalityType, FS_RemoveElement

\* A call goes on.
LEMMA CallMoves ==
    ASSUME MarketTypes, NEW c \in Clients, NEW call \in Call, Goto(c, call)
    PROVE  /\ calls' \in [Clients -> Call]
           /\ calls'[c] = call
           /\ \A d \in Clients : d # c => calls'[d] = calls[d]
BY DEF Goto, MarketTypes

\* A call that goes on keeps the types if it has the data it needs and, before
\* it saves a listing or a payment, saw that there is room for it.
LEMMA MoveTyped ==
    ASSUME MarketTypes, NEW c \in Clients, NEW call \in Call, Goto(c, call),
           CallFits(call),
           call.pc \in CreatingPcs => calls[c].pc \in CreatingPcs \/ Room,
           call.pc = "pay" => /\ paid[call.user] + call.term <= MaxPaid
                              /\ \A d \in Clients : calls[d].pc # "pay",
           UNCHANGED <<scene, today, born, paid>>, DocsTyped',
           \A l \in ListingIds : listings[l] = NoListing =>
                                     listings'[l] = NoListing
    PROVE  MarketTypes'
<1>1. /\ calls' \in [Clients -> Call] /\ calls'[c] = call
      /\ \A d \in Clients : d # c => calls'[d] = calls[d]
  BY CallMoves
<1>2. \A d \in Clients : CallFits(calls'[d])
  BY <1>1 DEF MarketTypes
<1>3. born + Cardinality(Creating') <= MaxListings
  <2>1. born \in Nat /\ MaxListings \in Nat
    BY MarketAssumption DEF MarketTypes
  <2>2. CASE Creating' \subseteq Creating
    <3>1. Cardinality(Creating') <= Cardinality(Creating)
          /\ Cardinality(Creating') \in Nat
      BY <2>2, CreatingCount, FS_Subset, FS_CardinalityType
    <3> QED BY <2>1, <3>1, CreatingCount DEF MarketTypes
  <2>3. CASE ~(Creating' \subseteq Creating)
    <3>1. c \notin Creating /\ call.pc \in CreatingPcs
      BY <1>1, <2>3 DEF Creating, CreatingPcs
    <3>2. Creating' = Creating \union {c}
      BY <1>1, <3>1 DEF Creating, CreatingPcs
    <3>3. Cardinality(Creating') = Cardinality(Creating) + 1
      BY <3>1, <3>2, CreatingCount, FS_AddElement
    <3>4. Room
      BY <3>1 DEF Creating, CreatingPcs
    <3> QED BY <2>1, <3>3, <3>4, CreatingCount DEF Room
  <2> QED BY <2>2, <2>3
<1>4. \A l \in Listed' : l <= born
  BY DEF Listed, MarketTypes
<1>5. Paying'
  <2>1. CASE call.pc = "pay"
    BY <1>1, <2>1 DEF Paying
  <2>2. CASE call.pc # "pay"
    BY <1>1, <2>2 DEF Paying, MarketTypes
  <2> QED BY <2>1, <2>2
<1> QED BY <1>1, <1>2, <1>3, <1>4, <1>5 DEF MarketTypes

\* A call that changes its place only.
LEMMA PcMoves ==
    ASSUME NEW call \in Call,
           NEW pc \in {"uncache", "uncount", "setBadge", "setUser", "aggregate",
                       "keepCount", "findAd", "saveWish"}
    PROVE  LET next == [call EXCEPT !.pc = pc]
           IN  /\ next \in Call
               /\ next.pc = pc /\ next.next = call.next
               /\ next.user = call.user /\ next.name = call.name
               /\ next.mark = call.mark /\ next.listing = call.listing
               /\ next.status = call.status /\ next.ad = call.ad
               /\ next.term = call.term /\ next.date = call.date
               /\ next.rows = call.rows /\ next.wanted = call.wanted
BY DEF Call

\* The same for a step that leaves users, cache and listings alone.
LEMMA TalkTyped ==
    ASSUME MarketTypes, NEW c \in Clients, NEW call \in Call, Goto(c, call),
           CallFits(call),
           call.pc \in CreatingPcs => calls[c].pc \in CreatingPcs \/ Room,
           call.pc = "pay" => /\ paid[call.user] + call.term <= MaxPaid
                              /\ \A d \in Clients : calls[d].pc # "pay",
           UNCHANGED <<scene, today, users, cache, listings, born, paid>>
    PROVE  MarketTypes'
<1>1. DocsTyped' /\ \A l \in ListingIds : listings'[l] = listings[l]
  BY DEF MarketTypes, DocsTyped
<1> QED BY <1>1, MoveTyped

\* An answer, with the documents as they are or not.
LEMMA RespondTyped ==
    ASSUME MarketTypes, NEW c \in Clients, Respond(c),
           UNCHANGED <<scene, today, born, paid>>, DocsTyped',
           \A l \in ListingIds : listings[l] = NoListing =>
                                     listings'[l] = NoListing
    PROVE  MarketTypes'
<1>1. Goto(c, Idle) /\ Idle.pc \notin CreatingPcs \union {"pay"}
  BY IdleFormed DEF Respond, Goto, CreatingPcs
<1> QED BY <1>1, IdleCall, MoveTyped

\* The same for a call that has only read, or failed.
LEMMA AnswerTyped ==
    ASSUME MarketTypes, NEW c \in Clients, Respond(c),
           UNCHANGED <<scene, today, users, cache, listings, born, paid>>
    PROVE  MarketTypes'
<1>1. DocsTyped' /\ \A l \in ListingIds : listings'[l] = listings[l]
  BY DEF MarketTypes, DocsTyped
<1> QED BY <1>1, RespondTyped

\* A step that changes no call and gives no id.
LEMMA QuietTyped ==
    ASSUME MarketTypes, UNCHANGED <<scene, today, born, paid, calls>>, DocsTyped',
           \A l \in ListingIds : listings[l] = NoListing =>
                                     listings'[l] = NoListing
    PROVE  MarketTypes'
<1>1. Creating' = Creating
  BY DEF Creating
<1>2. \A l \in Listed' : l <= born
  BY DEF Listed, MarketTypes
<1> QED BY <1>1, <1>2 DEF MarketTypes, Paying

\* Dropping and keeping the cached list.
LEMMA CacheTyped ==
    ASSUME MarketTypes, NEW c \in Clients,
           Uncache(c) \/ Uncount(c) \/ KeepList(c) \/ KeepCount(c)
    PROVE  MarketTypes'
<1>1. calls[c] \in Call /\ CallFits(calls[c])
  BY DEF MarketTypes
<1>2. /\ UNCHANGED <<scene, today, users, listings, born, paid>>
      /\ \A l \in ListingIds : listings'[l] = listings[l]
  BY DEF Uncache, Uncount, KeepList, KeepCount, accountsOnly
<1>3. DocsTyped'
  <2>1. CASE Uncache(c) \/ Uncount(c)
    BY <1>2, <2>1 DEF Uncache, Uncount, MarketTypes, DocsTyped
  <2>2. CASE KeepList(c)
    <3>1. calls[c].rows \in SUBSET Row
      BY <1>1, <2>2 DEF KeepList, CallFits
    <3> QED BY <1>2, <2>2, <3>1 DEF KeepList, MarketTypes, DocsTyped
  <2>3. CASE KeepCount(c)
    <3>1. Cardinality(calls[c].rows) \in Nat
      BY <1>1, <2>3, FS_CardinalityType DEF KeepCount, CallFits
    <3> QED BY <1>2, <2>3, <3>1 DEF KeepCount, MarketTypes, DocsTyped
  <2> QED BY <2>1, <2>2, <2>3
<1>4. CASE Respond(c)
  BY <1>2, <1>3, <1>4, RespondTyped
<1>5. ASSUME NEW pc \in {"uncount", "keepCount", "setBadge", "setUser"},
             Goto(c, [calls[c] EXCEPT !.pc = pc]),
             pc = "keepCount" => calls[c].pc = "keepList"
      PROVE  MarketTypes'
  <2> DEFINE call == [calls[c] EXCEPT !.pc = pc]
  <2>1. /\ call \in Call /\ Goto(c, call) /\ call.pc = pc
        /\ call.rows = calls[c].rows
    BY <1>1, <1>5 DEF Call
  <2> HIDE DEF call
  <2>2. CallFits(call) /\ call.pc \notin CreatingPcs \union {"pay"}
    BY <1>1, <1>5, <2>1 DEF CallFits, CreatingPcs
  <2> QED BY <1>2, <1>3, <2>1, <2>2, MoveTyped
<1>6. CASE Uncache(c)
  BY <1>5, <1>6 DEF Uncache
<1>7. CASE Uncount(c)
  <2>1. CASE calls[c].next = "idle"
    BY <1>4, <1>7, <2>1 DEF Uncount, Goto, Respond
  <2>2. CASE calls[c].next # "idle"
    <3>1. calls[c].next \in {"setBadge", "setUser"}
      BY <1>1, <2>2 DEF Call
    <3> QED BY <1>5, <1>7, <2>2, <3>1 DEF Uncount
  <2> QED BY <2>1, <2>2
<1>8. CASE KeepList(c)
  BY <1>5, <1>8 DEF KeepList
<1>9. CASE KeepCount(c)
  BY <1>4, <1>9 DEF KeepCount
<1> QED BY <1>6, <1>7, <1>8, <1>9

\* Reading the list: what is read are rows, finitely many.
LEMMA ReadTyped ==
    ASSUME MarketTypes, NEW c \in Clients, ListCount(c) \/ AggregateUsers(c)
    PROVE  MarketTypes'
<1>1. calls[c] \in Call /\ CallFits(calls[c])
  BY DEF MarketTypes
<1>2. UNCHANGED <<scene, today, users, cache, listings, born, paid>>
  BY DEF ListCount, AggregateUsers, accountsOnly
<1>3. CASE ListCount(c)
  <2>1. CASE calls[c].rows # NoData
    BY <1>2, <1>3, <2>1, AnswerTyped DEF ListCount, Goto, Respond
  <2>2. CASE calls[c].rows = NoData
    <3> DEFINE call == [calls[c] EXCEPT !.pc = "aggregate"]
    <3>1. call \in Call /\ Goto(c, call) /\ call.pc = "aggregate"
      BY <1>1, <1>3, <2>2, PcMoves DEF ListCount
    <3> HIDE DEF call
    <3>2. CallFits(call) /\ call.pc \notin CreatingPcs \union {"pay"}
      BY <3>1 DEF CallFits, CreatingPcs
    <3> QED BY <1>2, <3>1, <3>2, TalkTyped
  <2> QED BY <2>1, <2>2
<1>4. CASE AggregateUsers(c)
  <2>1. PICK S \in SUBSET Live :
            Goto(c, [calls[c] EXCEPT !.pc = "keepList", !.rows = Rows(S)])
    BY <1>4 DEF AggregateUsers
  <2>2. Rows(S) \in SUBSET Row /\ IsFiniteSet(Rows(S))
    <3>1. \A u \in S : u \in UserIds /\ users[u] \in User
      BY DEF Live, MarketTypes, DocsTyped
    <3>2. IsFiniteSet(S)
      BY <3>1, MarketAssumption, FS_Subset
    <3>3. IsFiniteSet(Rows(S))
      <4> DEFINE row == [u \in S |-> [id |-> u, name |-> users[u].name,
                                      verified |-> users[u].verified]]
      <4>1. row \in Surjection(S, Rows(S))
        BY DEF Surjection, Rows
      <4> QED BY <3>2, <4>1, FS_Surjection
    <3> QED BY <3>1, <3>3 DEF Rows, Row, User
  <2> DEFINE call == [calls[c] EXCEPT !.pc = "keepList", !.rows = Rows(S)]
  <2>3. /\ call \in Call /\ Goto(c, call) /\ call.pc = "keepList"
        /\ call.rows = Rows(S)
    BY <1>1, <2>1, <2>2 DEF Call
  <2> HIDE DEF call
  <2>4. CallFits(call) /\ call.pc \notin CreatingPcs \union {"pay"}
    BY <2>2, <2>3 DEF CallFits, CreatingPcs
  <2> QED BY <1>2, <2>3, <2>4, TalkTyped
<1> QED BY <1>3, <1>4

\* A step that leaves listings alone keeps the documents' types if it does so
\* for the users.
LEMMA UsersTyped ==
    ASSUME MarketTypes, users' \in [UserIds -> User \union {Unborn, Gone}],
           UNCHANGED <<cache, listings>>
    PROVE  /\ DocsTyped'
           /\ \A l \in ListingIds : listings'[l] = listings[l]
BY DEF MarketTypes, DocsTyped

\* Signing up.
LEMMA SignupTyped ==
    ASSUME MarketTypes, NEW c \in Clients,
           \/ SignupAndLogin(c)
           \/ \E n \in Names : \/ UserSignup(c, n)
                               \/ UserSignupAndLogin(c, n)
                               \/ UserSignupAndLoginSocial(c, n)
    PROVE  MarketTypes'
<1>1. ASSUME NEW n \in Names, SaveUser(c, n)
      PROVE  MarketTypes'
  <2>1. users' \in [UserIds -> User \union {Unborn, Gone}]
    <3>1. [name |-> n, verified |-> FALSE] \in User
      BY DEF User
    <3> QED BY <1>1, <3>1 DEF SaveUser, MarketTypes, DocsTyped
  <2>2. DocsTyped' /\ \A l \in ListingIds : listings'[l] = listings[l]
    BY <1>1, <2>1, UsersTyped DEF SaveUser
  <2> DEFINE call == [Idle EXCEPT !.pc = "uncache"]
  <2>3. call \in Call /\ call.pc = "uncache"
    BY IdleCall DEF Call
  <2> HIDE DEF call
  <2>4. CallFits(call) /\ call.pc \notin CreatingPcs \union {"pay"}
    BY <2>3 DEF CallFits, CreatingPcs
  <2>5. UNCHANGED <<scene, today, born, paid>> /\ Goto(c, call)
    BY <1>1 DEF SaveUser, accountsOnly, call
  <2> QED BY <2>2, <2>3, <2>4, <2>5, MoveTyped
<1>2. CASE SignupAndLogin(c)
  <2>1. calls[c].name \in Names
    BY <1>2 DEF SignupAndLogin, MarketTypes, CallFits
  <2> QED BY <1>1, <1>2, <2>1 DEF SignupAndLogin
<1>3. ASSUME NEW n \in Names, UserSignup(c, n)
      PROVE  MarketTypes'
  BY <1>1, <1>3 DEF UserSignup
<1>4. ASSUME NEW n \in Names,
             UserSignupAndLogin(c, n) \/ UserSignupAndLoginSocial(c, n)
      PROVE  MarketTypes'
  <2> DEFINE call == [Idle EXCEPT !.pc = "signup", !.name = n]
  <2>1. call \in Call /\ call.pc = "signup" /\ call.name = n
    BY IdleCall DEF Call
  <2> HIDE DEF call
  <2>2. CallFits(call) /\ call.pc \notin CreatingPcs \union {"pay"}
    BY <2>1 DEF CallFits, CreatingPcs
  <2>3. /\ UNCHANGED <<scene, today, users, cache, listings, born, paid>>
        /\ Goto(c, call)
    BY <1>4 DEF UserSignupAndLogin, UserSignupAndLoginSocial, CheckedSignup,
                accountsOnly, call
  <2> QED BY <2>1, <2>2, <2>3, TalkTyped
<1> QED BY <1>2, <1>3, <1>4

\* The calls that accounts begin with: their first step only reads.
LEMMA AccountsBegin ==
    ASSUME MarketTypes, NEW c \in Clients, NEW call \in Call, Goto(c, call),
           call.pc \in {"listCount", "checkName", "uncache", "deleteUser"},
           UNCHANGED <<accountsOnly, users, cache, listings, paid>>
    PROVE  MarketTypes'
<1>1. CallFits(call) /\ call.pc \notin CreatingPcs \union {"pay"}
  BY DEF CallFits, CreatingPcs
<1> QED BY <1>1, TalkTyped DEF accountsOnly

\* The calls that a form about a user begins with.
FormCall(pc, next, u, n) ==
    [Idle EXCEPT !.pc = pc, !.next = next, !.user = u, !.name = n]
MarkCall(pc, next, u, n, mark) ==
    [Idle EXCEPT !.pc = pc, !.next = next, !.user = u, !.name = n, !.mark = mark]

\* They are calls.
LEMMA FormCalls ==
    ASSUME NEW pc \in {"uncache", "checkName"},
           NEW next \in {"setBadge", "setUser"},
           NEW u \in UserIds, NEW n \in Names \union {NoName},
           NEW mark \in {"unsaid", "verified", "rejected"}
    PROVE  /\ FormCall(pc, next, u, n) \in Call
           /\ FormCall(pc, next, u, n).pc = pc
           /\ MarkCall(pc, next, u, n, mark) \in Call
           /\ MarkCall(pc, next, u, n, mark).pc = pc
<1> DEFINE first == [Idle EXCEPT !.pc = pc, !.next = next]
           form == FormCall(pc, next, u, n)
<1>1. first \in Call /\ first.pc = pc /\ first.next = next
  <2>1. CASE pc = "uncache"
    BY <2>1, IdleCall DEF Call
  <2>2. CASE pc = "checkName"
    BY <2>2, IdleCall DEF Call
  <2> QED BY <2>1, <2>2
<1>2. form = [first EXCEPT !.user = u, !.name = n] /\ first.mark = "unsaid"
  BY DEF Idle, FormCall
<1> HIDE DEF first, form
<1>3. /\ form \in Call /\ form.pc = pc /\ form.next = next
      /\ form.user = u /\ form.name = n /\ form.mark = "unsaid"
  BY <1>1, <1>2 DEF Call
<1>4. [form EXCEPT !.mark = mark] \in Call /\ [form EXCEPT !.mark = mark].pc = pc
  BY <1>3 DEF Call
<1>5. MarkCall(pc, next, u, n, mark) = [form EXCEPT !.mark = mark]
  BY DEF form, FormCall, MarkCall, Idle
<1> QED BY <1>3, <1>4, <1>5 DEF form

\* Searching, and looking for a user to change or to delete.
LEMMA LookTyped ==
    ASSUME MarketTypes, NEW c \in Clients,
           \/ \E n \in Names \union {NoName} :
                 \/ GetAllUsers(c, n)
                 \/ \E u \in UserIds, mark \in {"unsaid", "verified", "rejected"} :
                       \/ UpdateLoggedInUserInfo(c, u, n, mark)
                       \/ \E status, password \in BOOLEAN :
                             UpdateUserById(c, u, n, mark, status, password)
           \/ \E u \in UserIds : DeleteUserById(c, u)
    PROVE  MarketTypes'
<1>1. ASSUME NEW n \in Names \union {NoName}, GetAllUsers(c, n)
      PROVE  MarketTypes'
  <2> DEFINE call == [Idle EXCEPT !.pc = "listCount", !.name = n,
                                  !.rows = cache.data]
  <2>1. cache.data \in (SUBSET Row) \union {NoData}
    BY DEF MarketTypes, DocsTyped
  <2>2. call \in Call /\ call.pc = "listCount"
    BY <2>1, IdleCall DEF Call
  <2> HIDE DEF call
  <2>3. Goto(c, call) /\ UNCHANGED <<accountsOnly, users, cache, listings, paid>>
    BY <1>1 DEF GetAllUsers, call
  <2> QED BY <2>2, <2>3, AccountsBegin
<1>2. ASSUME NEW n \in Names \union {NoName}, NEW u \in UserIds,
             NEW pc \in {"uncache", "checkName"},
             NEW next \in {"setBadge", "setUser"},
             NEW mark \in {"unsaid", "verified", "rejected"},
             Goto(c, MarkCall(pc, next, u, n, mark)),
             UNCHANGED <<accountsOnly, users, cache, listings, paid>>
      PROVE  MarketTypes'
  BY <1>2, FormCalls, AccountsBegin
<1>3. ASSUME NEW n \in Names \union {NoName}, NEW u \in UserIds,
             NEW mark \in {"unsaid", "verified", "rejected"},
             UpdateLoggedInUserInfo(c, u, n, mark)
      PROVE  MarketTypes'
  <2>1. PICK pc \in {"uncache", "checkName"} :
            Goto(c, MarkCall(pc, "setUser", u, n, mark))
    BY <1>3 DEF UpdateLoggedInUserInfo, MarkCall
  <2>2. UNCHANGED <<accountsOnly, users, cache, listings, paid>>
    BY <1>3 DEF UpdateLoggedInUserInfo
  <2> QED BY <1>2, <2>1, <2>2
<1>4. ASSUME NEW n \in Names \union {NoName}, NEW u \in UserIds,
             NEW mark \in {"unsaid", "verified", "rejected"}, NEW status,
             NEW password,
             UpdateUserById(c, u, n, mark, status, password)
      PROVE  MarketTypes'
  <2>1. PICK pc \in {"uncache", "checkName"}, next \in {"setBadge", "setUser"} :
            Goto(c, MarkCall(pc, next, u, n, mark))
    BY <1>4 DEF UpdateUserById, MarkCall
  <2>2. UNCHANGED <<accountsOnly, users, cache, listings, paid>>
    BY <1>4 DEF UpdateUserById
  <2> QED BY <1>2, <2>1, <2>2
<1>5. ASSUME NEW u \in UserIds, DeleteUserById(c, u)
      PROVE  MarketTypes'
  <2> DEFINE call == [Idle EXCEPT !.pc = "deleteUser", !.user = u]
  <2>1. call \in Call /\ call.pc = "deleteUser"
    BY IdleCall DEF Call
  <2> HIDE DEF call
  <2>2. Goto(c, call) /\ UNCHANGED <<accountsOnly, users, cache, listings, paid>>
    BY <1>5 DEF DeleteUserById, call
  <2> QED BY <2>1, <2>2, AccountsBegin
<1> QED BY <1>1, <1>3, <1>4, <1>5

\* The place of a call that does not lead to a payment or a new listing.
LEMMA PcTyped ==
    ASSUME MarketTypes, NEW c \in Clients,
           NEW pc \in {"uncache", "setUser", "saveWish"},
           Goto(c, [calls[c] EXCEPT !.pc = pc]),
           UNCHANGED <<scene, today, born, paid>>, DocsTyped',
           \A l \in ListingIds : listings[l] = NoListing =>
                                     listings'[l] = NoListing
    PROVE  MarketTypes'
<1> DEFINE call == [calls[c] EXCEPT !.pc = pc]
<1>1. call \in Call /\ call.pc = pc
  <2>1. calls[c] \in Call
    BY DEF MarketTypes
  <2> QED BY <2>1 DEF Call
<1>2. Goto(c, call)
  OBVIOUS
<1> HIDE DEF call
<1>3. CallFits(call) /\ call.pc \notin CreatingPcs \union {"pay"}
  BY <1>1 DEF CallFits, CreatingPcs
<1> QED BY <1>1, <1>2, <1>3, MoveTyped

\* Changing a user, and the badge in the listings.
LEMMA ChangeTyped ==
    ASSUME MarketTypes, NEW c \in Clients,
           CheckName(c) \/ SetBadge(c) \/ SetUser(c)
    PROVE  MarketTypes'
<1>1. UNCHANGED <<scene, today, born, paid>>
  BY DEF CheckName, SetBadge, SetUser, accountsOnly
<1>2. CASE CheckName(c)
  <2>1. UNCHANGED <<users, cache, listings>>
    BY <1>2 DEF CheckName
  <2>2. DocsTyped' /\ \A l \in ListingIds : listings'[l] = listings[l]
    BY <2>1 DEF MarketTypes, DocsTyped
  <2>3. Respond(c) \/ Goto(c, [calls[c] EXCEPT !.pc = "uncache"])
    BY <1>2 DEF CheckName
  <2> QED BY <1>1, <2>2, <2>3, PcTyped, RespondTyped
<1>3. CASE SetBadge(c)
  <2>1. listings' = [l \in ListingIds |->
                       IF l \in Listed THEN Badged(listings[l], calls[c].user)
                                       ELSE NoListing]
    BY <1>3 DEF SetBadge
  <2>2. \A l \in Listed : Badged(listings[l], calls[c].user) \in Listing
    <3>1. \A l \in Listed : listings[l] \in Listing
      BY DEF Listed, MarketTypes, DocsTyped
    <3> QED BY <3>1 DEF Badged, Listing
  <2>3. DocsTyped'
    BY <1>3, <2>1, <2>2 DEF SetBadge, MarketTypes, DocsTyped
  <2>4. \A l \in ListingIds : listings[l] = NoListing => listings'[l] = NoListing
    BY <2>1 DEF Listed
  <2> QED BY <1>1, <1>3, <2>3, <2>4, PcTyped DEF SetBadge
<1>4. CASE SetUser(c)
  <2>1. users' \in [UserIds -> User \union {Unborn, Gone}]
    <3>1. CASE calls[c].user \notin Live
      BY <1>4, <3>1 DEF SetUser, MarketTypes, DocsTyped
    <3>2. CASE calls[c].user \in Live
      <4>1. users[calls[c].user] \in User /\ calls[c].user \in UserIds
        BY <3>2 DEF Live, MarketTypes, DocsTyped
      <4>2. calls[c].name \in Names \union {NoName}
        BY DEF MarketTypes, Call
      <4>3. Updated(users[calls[c].user], calls[c]) \in User
        BY <4>1, <4>2 DEF Updated, User
      <4> QED BY <1>4, <3>2, <4>1, <4>3 DEF SetUser, MarketTypes, DocsTyped
    <3> QED BY <3>1, <3>2
  <2>2. DocsTyped' /\ \A l \in ListingIds : listings'[l] = listings[l]
    BY <1>4, <2>1, UsersTyped DEF SetUser
  <2> QED BY <1>1, <1>4, <2>2, RespondTyped DEF SetUser
<1> QED BY <1>2, <1>3, <1>4

\* Deleting users.
LEMMA RemoveTyped ==
    ASSUME MarketTypes, NEW c \in Clients, NEW S, RemoveUsers(c, S)
    PROVE  MarketTypes'
<1>1. users' \in [UserIds -> User \union {Unborn, Gone}]
  BY DEF RemoveUsers, MarketTypes, DocsTyped
<1>2. DocsTyped' /\ \A l \in ListingIds : listings'[l] = listings[l]
  BY <1>1, UsersTyped DEF RemoveUsers
<1> DEFINE call == [Idle EXCEPT !.pc = "uncache"]
<1>3. call \in Call /\ call.pc = "uncache"
  BY IdleCall DEF Call
<1>4. Goto(c, call) /\ UNCHANGED <<scene, today, born, paid>>
  BY DEF RemoveUsers, AfterDelete, accountsOnly
<1> HIDE DEF call
<1>5. CallFits(call) /\ call.pc \notin CreatingPcs \union {"pay"}
  BY <1>3 DEF CallFits, CreatingPcs
<1> QED BY <1>2, <1>3, <1>4, <1>5, MoveTyped

\* A payment begins.
LEMMA ActivateTyped ==
    ASSUME MarketTypes, NEW c \in Clients, NEW u \in UserIds,
           NEW term \in Terms, ActivateVip(c, u, term)
    PROVE  MarketTypes'
<1> DEFINE call == [Idle EXCEPT !.pc = "pay", !.user = u, !.term = term]
<1>1. /\ call \in Call /\ call.pc = "pay" /\ call.user = u
      /\ call.term = term
  BY IdleCall DEF Call
<1>2. /\ Goto(c, call) /\ paid[u] + term <= MaxPaid
      /\ \A d \in Clients : calls[d].pc # "pay"
      /\ UNCHANGED <<scene, today, users, cache, listings, born, paid>>
  BY DEF ActivateVip, accountsOnly
<1> HIDE DEF call
<1>3. CallFits(call) /\ call.pc \notin CreatingPcs
  BY <1>1 DEF CallFits, CreatingPcs
<1> QED BY <1>1, <1>2, <1>3, TalkTyped

\* A payment is saved.
LEMMA PayTyped ==
    ASSUME MarketTypes, NEW c \in Clients, Pay(c)
    PROVE  MarketTypes'
<1> DEFINE call == [calls[c] EXCEPT !.pc = "findAd"]
           u == calls[c].user
<1>1. calls[c] \in Call /\ CallFits(calls[c]) /\ calls[c].pc = "pay"
  BY DEF Pay, MarketTypes
<1>2. call \in Call /\ call.pc = "findAd" /\ call.user = u
  BY <1>1 DEF Call
<1>3. u \in UserIds /\ calls[c].term \in Nat
  BY <1>1, TermDays DEF CallFits
<1>4. /\ Goto(c, call) /\ paid' = [paid EXCEPT ![u] = @ + calls[c].term]
      /\ UNCHANGED <<scene, today, users, cache, listings, born>>
  BY DEF Pay, accountsOnly
<1>5. calls' \in [Clients -> Call] /\ calls'[c] = call
      /\ \A d \in Clients : d # c => calls'[d] = calls[d]
  BY <1>2, <1>4, CallMoves
<1>6. paid[u] + calls[c].term <= MaxPaid /\ \A d \in Clients : d # c =>
          calls[d].pc # "pay"
  BY <1>1 DEF MarketTypes, Paying
<1> HIDE DEF call, u
<1>7. paid' \in [UserIds -> 0..MaxPaid]
  <2>1. paid \in [UserIds -> 0..MaxPaid] /\ MaxPaid \in Nat
    BY MarketAssumption DEF MarketTypes
  <2>2. paid[u] + calls[c].term \in 0..MaxPaid
    BY <1>3, <1>6, <2>1
  <2> QED BY <1>4, <2>1, <2>2
<1>8. Paying'
  <2>1. \A d \in Clients : calls'[d].pc # "pay"
    BY <1>2, <1>5, <1>6
  <2> QED BY <2>1 DEF Paying
<1>9. CallFits(call)
  BY <1>2, <1>3 DEF CallFits
<1>10. Creating' = Creating
  BY <1>1, <1>2, <1>5 DEF Creating
<1>11. DocsTyped' /\ Listed' = Listed
  BY <1>4 DEF MarketTypes, DocsTyped, Listed
<1>12. \A d \in Clients : CallFits(calls'[d])
  BY <1>5, <1>9 DEF MarketTypes
<1> QED BY <1>4, <1>5, <1>7, <1>8, <1>10, <1>11, <1>12 DEF MarketTypes

\* A new VIP expiry.
LEMMA ExtendedTyped ==
    ASSUME MarketTypes, NEW vip \in Nat, NEW term \in Nat
    PROVE  Extended(vip, term) \in Nat
<1>1. today \in Nat
  BY MarketAssumption DEF MarketTypes
<1> QED BY <1>1 DEF Extended

\* The owner's newest listing is looked for, and becomes VIP.
LEMMA VipTyped ==
    ASSUME MarketTypes, NEW c \in Clients, FindLatestAd(c) \/ ExtendVip(c)
    PROVE  MarketTypes'
<1>1. calls[c] \in Call /\ CallFits(calls[c])
  BY DEF MarketTypes
<1>2. UNCHANGED <<scene, today, users, cache, born, paid>>
  BY DEF FindLatestAd, ExtendVip, accountsOnly
<1>3. CASE FindLatestAd(c)
  <2>1. UNCHANGED listings
    BY <1>3 DEF FindLatestAd
  <2>2. CASE Respond(c)
    BY <1>2, <2>1, <2>2, AnswerTyped
  <2>3. ASSUME NEW l \in AdsOf(calls[c].user),
               Goto(c, [calls[c] EXCEPT !.pc = "extend", !.listing = l,
                         !.date = Extended(listings[l].vip, calls[c].term)])
        PROVE  MarketTypes'
    <3> DEFINE date == Extended(listings[l].vip, calls[c].term)
               call == [calls[c] EXCEPT !.pc = "extend", !.listing = l,
                                        !.date = date]
    <3>1. date \in Nat
      <4>1. listings[l] \in Listing
        BY DEF AdsOf, Listed, MarketTypes, DocsTyped
      <4>2. calls[c].term \in Nat /\ listings[l].vip \in Nat
        BY <1>1, <4>1, TermDays DEF Listing
      <4> QED BY <4>2, ExtendedTyped
    <3> HIDE DEF date
    <3>2. l \in 0..MaxListings
      BY MarketAssumption DEF AdsOf, Listed, ListingIds
    <3>3. /\ call \in Call /\ call.pc = "extend"
          /\ call.user = calls[c].user
      BY <1>1, <3>1, <3>2 DEF Call
    <3>4. Goto(c, call)
      BY <2>3 DEF date
    <3> HIDE DEF call
    <3>5. calls[c].user \in UserIds
      BY <1>1, <1>3 DEF FindLatestAd, CallFits
    <3>6. CallFits(call) /\ call.pc \notin CreatingPcs \union {"pay"}
      BY <3>3, <3>5 DEF CallFits, CreatingPcs
    <3> QED BY <1>2, <2>1, <3>3, <3>4, <3>6, TalkTyped
  <2> QED BY <1>3, <2>2, <2>3 DEF FindLatestAd
<1>4. CASE ExtendVip(c)
  <2>1. calls[c].date \in Nat
    BY <1>1 DEF Call
  <2>2. listings' = [l \in ListingIds |->
                       IF l = calls[c].listing /\ l \in Listed
                         THEN [listings[l] EXCEPT !.vip = calls[c].date]
                         ELSE listings[l]]
    BY <1>4 DEF ExtendVip
  <2>3. \A l \in Listed : [listings[l] EXCEPT !.vip = calls[c].date] \in Listing
    <3>1. \A l \in Listed : listings[l] \in Listing
      BY DEF Listed, MarketTypes, DocsTyped
    <3> QED BY <2>1, <3>1 DEF Listing
  <2>4. DocsTyped'
    BY <1>2, <2>2, <2>3 DEF MarketTypes, DocsTyped
  <2>5. \A l \in ListingIds : listings[l] = NoListing => listings'[l] = NoListing
    BY <2>2 DEF Listed
  <2> QED BY <1>2, <1>4, <2>4, <2>5, RespondTyped DEF ExtendVip
<1> QED BY <1>3, <1>4

\* Every step of the accounts.
LEMMA AccountsTyped ==
    ASSUME MarketTypes, AccountsNext
    PROVE  MarketTypes'
<1>1. CASE CacheExpires
  <2>1. /\ UNCHANGED <<scene, today, users, listings, born, paid, calls>>
        /\ \E k \in {"data", "count"} : cache' = [cache EXCEPT ![k] = NoData]
    BY <1>1 DEF CacheExpires, accountsOnly
  <2>2. DocsTyped' /\ \A l \in ListingIds : listings'[l] = listings[l]
    BY <2>1 DEF MarketTypes, DocsTyped
  <2> QED BY <2>1, <2>2, QuietTyped
<1>2. ASSUME NEW c \in Clients, ContinueAccount(c)
      PROVE  MarketTypes'
  BY <1>2, CacheTyped, ReadTyped, SignupTyped, ChangeTyped, RemoveTyped,
     PayTyped, VipTyped DEF ContinueAccount, DeleteUser
<1>3. ASSUME NEW c \in Clients, DeleteMultipleUserById(c)
      PROVE  MarketTypes'
  BY <1>3, RemoveTyped DEF DeleteMultipleUserById
<1> QED BY <1>1, <1>2, <1>3, SignupTyped, LookTyped, ActivateTyped
        DEF AccountsNext

\* A listing is saved: its id is the next one, for which there was room.
LEMMA SaveListingTyped ==
    ASSUME MarketTypes, NEW ad \in Listing, SaveListing(ad),
           UNCHANGED <<scene, today, users, cache, paid>>,
           \/ UNCHANGED calls /\ Room
           \/ \E c \in Clients : Respond(c) /\ calls[c].pc \in CreatingPcs
    PROVE  MarketTypes'
<1>1. born \in Nat /\ MaxListings \in Nat
  BY MarketAssumption DEF MarketTypes
<1>2. born' = born + 1 /\ listings' = [listings EXCEPT ![born + 1] = ad]
  BY DEF SaveListing
<1>3. DocsTyped'
  BY <1>2 DEF MarketTypes, DocsTyped
<1>4. \A l \in Listed' : l <= born'
  <2>1. \A l \in ListingIds : l # born + 1 => listings'[l] = listings[l]
    BY <1>2 DEF MarketTypes, DocsTyped
  <2>2. \A l \in Listed : l <= born
    BY DEF MarketTypes
  <2>3. ASSUME NEW l \in Listed' PROVE l <= born + 1
    <3>1. l \in Nat /\ (l = born + 1 \/ l \in Listed)
      BY <1>1, <2>1 DEF Listed, ListingIds
    <3> QED BY <1>1, <2>2, <3>1
  <2> QED BY <1>2, <2>3
<1>5. /\ calls' \in [Clients -> Call]
      /\ \A c \in Clients : calls'[c] = calls[c] \/ calls'[c] = Idle
  BY IdleCall DEF MarketTypes, Respond
<1>6. \A c \in Clients : CallFits(calls'[c])
  BY <1>5, IdleCall DEF MarketTypes
<1>7. Paying'
  <2>1. \A c \in Clients : calls'[c].pc = "pay" => calls'[c] = calls[c]
    BY <1>5, IdleFormed
  <2> QED BY <2>1 DEF Paying, MarketTypes
<1>8. born' + Cardinality(Creating') <= MaxListings
  <2>1. CASE UNCHANGED calls /\ Room
    <3>1. Creating' = Creating
      BY <2>1 DEF Creating
    <3> QED BY <1>1, <1>2, <2>1, <3>1, CreatingCount DEF Room
  <2>2. ASSUME NEW c \in Clients, Respond(c), calls[c].pc \in CreatingPcs
        PROVE  born' + Cardinality(Creating') <= MaxListings
    <3>1. c \in Creating
      BY <2>2 DEF Creating, CreatingPcs
    <3>2. Creating' = Creating \ {c}
      BY <2>2, IdleFormed DEF Creating, Respond, MarketTypes
    <3>3. Cardinality(Creating') = Cardinality(Creating) - 1
      BY <3>1, <3>2, CreatingCount
    <3>4. born + Cardinality(Creating) <= MaxListings
      BY DEF MarketTypes
    <3> QED BY <1>1, <1>2, <3>3, <3>4, CreatingCount
  <2> QED BY <2>1, <2>2
<1>9. born' \in 0..MaxListings
  <2>1. Creating' \subseteq Clients
    BY DEF Creating
  <2>2. IsFiniteSet(Creating')
    BY <2>1, MarketAssumption, FS_Subset
  <2>3. Cardinality(Creating') \in Nat
    BY <2>2, FS_CardinalityType
  <2> QED BY <1>1, <1>2, <1>8, <2>3
<1> QED BY <1>3, <1>4, <1>5, <1>6, <1>7, <1>8, <1>9 DEF MarketTypes

\* What is saved is a listing.
LEMMA NewAdTyped ==
    ASSUME MarketTypes, NEW status \in Statuses
    PROVE  /\ [NewAd EXCEPT !.status = status] \in Listing
           /\ \A pub \in {0, today} :
                 [NewAd EXCEPT !.status = status, !.pub = pub] \in Listing
           /\ \A u \in UserIds, badge \in BOOLEAN :
                 [NewAd EXCEPT !.status = status, !.pub = today, !.owner = u,
                               !.badge = badge] \in Listing
           /\ \A ad \in Listing :
                 /\ [ad EXCEPT !.served = 0] \in Listing
                 /\ [ad EXCEPT !.status = status] \in Listing
                 /\ \A pub \in Days :
                       [ad EXCEPT !.status = status, !.pub = pub] \in Listing
<1>1. 0 \in Days /\ today \in Days
  BY MarketAssumption DEF MarketTypes, Days
<1>2. NewAd \in Listing
  BY <1>1 DEF NewAd, Listing, Statuses
<1> QED BY <1>1, <1>2 DEF Listing

\* Creating listings.
LEMMA CreateTyped ==
    ASSUME MarketTypes, NEW c \in Clients,
           \/ ReadOwner(c) \/ SaveAd(c) \/ SaveClone(c) \/ InsertAds(c)
           \/ \E status \in Statuses \ {"deleted"} :
                 \/ \E pub \in {0, today} : AddProduct(c, status, pub)
                 \/ \E u \in UserIds : AddProductByUser(c, u, status)
           \/ \E l \in Listed : CloneSingleProduct(c, l)
           \/ \E deleteMany \in BOOLEAN : InsertManyProduct(c, deleteMany)
    PROVE  MarketTypes'
<1>1. calls[c] \in Call /\ CallFits(calls[c])
  BY DEF MarketTypes
<1>2. CASE ReadOwner(c)
  <2>1. UNCHANGED <<scene, today, users, cache, listings, born, paid>>
    BY <1>2 DEF ReadOwner, listingsOnly
  <2>2. calls[c].status \in Statuses /\ calls[c].user \in UserIds
        /\ calls[c].pc = "readOwner"
    BY <1>1, <1>2 DEF ReadOwner, Call, CallFits
  <2>3. PICK ad \in Listing :
            Goto(c, [calls[c] EXCEPT !.pc = "saveAd", !.ad = ad])
    <3>1. CASE calls[c].user \in Live
      <4>1. users[calls[c].user].verified \in BOOLEAN
        <5>1. users[calls[c].user] \in User
          BY <2>2, <3>1 DEF Live, MarketTypes, DocsTyped
        <5> QED BY <5>1 DEF User
      <4> DEFINE ad == [NewAd EXCEPT !.status = calls[c].status, !.pub = today,
                                     !.owner = calls[c].user,
                                     !.badge = users[calls[c].user].verified]
      <4>2. ad \in Listing
        BY <2>2, <4>1, NewAdTyped
      <4>3. Goto(c, [calls[c] EXCEPT !.pc = "saveAd", !.ad = ad])
        BY <1>2, <3>1 DEF ReadOwner
      <4> QED BY <4>2, <4>3
    <3>2. CASE calls[c].user \notin Live
      <4> DEFINE ad == [NewAd EXCEPT !.status = calls[c].status, !.pub = today]
      <4>1. ad \in Listing
        BY <2>2, NewAdTyped
      <4>2. Goto(c, [calls[c] EXCEPT !.pc = "saveAd", !.ad = ad])
        BY <1>2, <3>2 DEF ReadOwner
      <4> QED BY <4>1, <4>2
    <3> QED BY <3>1, <3>2
  <2> DEFINE call == [calls[c] EXCEPT !.pc = "saveAd", !.ad = ad]
  <2>4. /\ call \in Call /\ call.pc = "saveAd" /\ call.ad = ad
        /\ call.user = calls[c].user
    BY <1>1 DEF Call
  <2>5. Goto(c, call)
    BY <2>3
  <2> HIDE DEF call
  <2>6. CallFits(call) /\ calls[c].pc \in CreatingPcs
    BY <2>2, <2>4 DEF CallFits, CreatingPcs
  <2> QED BY <2>1, <2>4, <2>5, <2>6, TalkTyped
<1>3. CASE SaveAd(c)
  <2>1. calls[c].ad \in Listing /\ calls[c].pc \in CreatingPcs
    BY <1>1, <1>3 DEF SaveAd, CallFits, CreatingPcs
  <2> QED BY <1>3, <2>1, SaveListingTyped DEF SaveAd, listingsOnly
<1>4. CASE SaveClone(c)
  <2>1. calls[c].ad \in Listing /\ calls[c].pc \in CreatingPcs
    BY <1>1, <1>4 DEF SaveClone, CallFits, CreatingPcs
  <2>2. [calls[c].ad EXCEPT !.served = 0] \in Listing
    BY <2>1, NewAdTyped DEF Statuses
  <2> QED BY <1>4, <2>1, <2>2, SaveListingTyped DEF SaveClone, listingsOnly
<1>5. CASE InsertAds(c)
  <2>1. calls[c].pc \in CreatingPcs
    BY <1>5 DEF InsertAds, CreatingPcs
  <2>2. PICK status \in Statuses, pub \in {0, today} :
            SaveListing([NewAd EXCEPT !.status = status, !.pub = pub])
    BY <1>5 DEF InsertAds
  <2>3. [NewAd EXCEPT !.status = status, !.pub = pub] \in Listing
    BY NewAdTyped
  <2> QED BY <1>5, <2>1, <2>2, <2>3, SaveListingTyped DEF InsertAds, listingsOnly
<1>6. ASSUME NEW status \in Statuses, NEW pub \in {0, today},
             AddProduct(c, status, pub)
      PROVE  MarketTypes'
  <2>1. [NewAd EXCEPT !.status = status, !.pub = pub] \in Listing
    BY NewAdTyped
  <2> QED BY <1>6, <2>1, SaveListingTyped DEF AddProduct, listingsOnly
<1>7. ASSUME NEW status \in Statuses, NEW u \in UserIds,
             AddProductByUser(c, u, status)
      PROVE  MarketTypes'
  <2> DEFINE call == [Idle EXCEPT !.pc = "readOwner", !.user = u,
                                  !.status = status]
  <2>1. call \in Call /\ call.pc = "readOwner" /\ call.user = u
    BY IdleCall DEF Call
  <2>2. /\ Goto(c, call) /\ Room
        /\ UNCHANGED <<scene, today, users, cache, listings, born, paid>>
    BY <1>7 DEF AddProductByUser, listingsOnly
  <2> HIDE DEF call
  <2>3. CallFits(call)
    BY <2>1 DEF CallFits
  <2> QED BY <2>1, <2>2, <2>3, TalkTyped
<1>8. ASSUME NEW l \in Listed, CloneSingleProduct(c, l)
      PROVE  MarketTypes'
  <2>1. listings[l] \in Listing
    BY DEF Listed, MarketTypes, DocsTyped
  <2> DEFINE call == [Idle EXCEPT !.pc = "saveClone", !.ad = listings[l]]
  <2>2. call \in Call /\ call.pc = "saveClone" /\ call.ad = listings[l]
    BY <2>1, IdleCall DEF Call
  <2>3. /\ Goto(c, call) /\ Room
        /\ UNCHANGED <<scene, today, users, cache, listings, born, paid>>
    BY <1>8 DEF CloneSingleProduct, listingsOnly
  <2> HIDE DEF call
  <2>4. CallFits(call)
    BY <2>1, <2>2 DEF CallFits
  <2> QED BY <2>2, <2>3, <2>4, TalkTyped
<1>9. ASSUME NEW deleteMany \in BOOLEAN, InsertManyProduct(c, deleteMany)
      PROVE  MarketTypes'
  <2> DEFINE call == [Idle EXCEPT !.pc = "insertAds"]
  <2>1. call \in Call /\ call.pc = "insertAds"
    BY IdleCall DEF Call
  <2>2. /\ Goto(c, call) /\ Room
        /\ UNCHANGED <<scene, today, users, cache, born, paid>>
        /\ \/ UNCHANGED listings
           \/ listings' = [l \in ListingIds |-> NoListing]
    BY <1>9 DEF InsertManyProduct, listingsOnly
  <2> HIDE DEF call
  <2>3. CallFits(call)
    BY <2>1 DEF CallFits
  <2>4. DocsTyped'
    BY <2>2 DEF MarketTypes, DocsTyped
  <2>5. \A l \in ListingIds : listings[l] = NoListing => listings'[l] = NoListing
    BY <2>2
  <2> QED BY <2>1, <2>2, <2>3, <2>4, <2>5, MoveTyped
<1> QED BY <1>2, <1>3, <1>4, <1>5, <1>6, <1>7, <1>8, <1>9

\* Changes of the status, the day or the existence of listings.
LEMMA ListingsChange ==
    ASSUME MarketTypes, UNCHANGED <<users, cache>>,
           DOMAIN listings' = ListingIds,
           listings' = [l \in ListingIds |-> listings'[l]],
           \A l \in ListingIds :
              \/ listings'[l] \in {listings[l], NoListing}
              \/ l \in Listed /\ listings'[l] \in Listing
    PROVE  /\ DocsTyped'
           /\ \A l \in ListingIds : listings[l] = NoListing =>
                                        listings'[l] = NoListing
<1>1. listings' \in [ListingIds -> Listing \union {NoListing}]
  BY DEF MarketTypes, DocsTyped
<1> QED BY <1>1 DEF MarketTypes, DocsTyped, Listed

\* Changing and deleting listings.
LEMMA EditTyped ==
    ASSUME MarketTypes, NEW c \in Clients,
           \/ SetAd(c) \/ SetOwnAd(c) \/ RemoveAd(c)
           \/ \E S \in SUBSET Listed :
                 \/ \E status \in Statuses :
                       UpdateMultipleProductById(c, S, status)
                 \/ DeleteMultipleProductById(c, S)
    PROVE  MarketTypes'
<1>1. calls[c] \in Call
  BY DEF MarketTypes
<1>2. calls[c].status \in Statuses
  BY <1>1 DEF Call
<1>3. \A l \in Listed : listings[l] \in Listing
  BY DEF Listed, MarketTypes, DocsTyped
<1>4. UNCHANGED <<scene, today, users, cache, born, paid>>
  BY DEF SetAd, SetOwnAd, RemoveAd, UpdateMultipleProductById,
         DeleteMultipleProductById, listingsOnly
<1>5. ASSUME NEW S, NEW status \in Statuses, SetStatus(S, status)
      PROVE  /\ DocsTyped'
             /\ \A l \in ListingIds : listings[l] = NoListing =>
                                          listings'[l] = NoListing
  <2>1. \A l \in Listed : [listings[l] EXCEPT !.status = status] \in Listing
    BY <1>3, NewAdTyped
  <2> QED BY <1>4, <1>5, <2>1, ListingsChange DEF SetStatus
<1>6. CASE SetAd(c)
  BY <1>2, <1>4, <1>5, <1>6, RespondTyped DEF SetAd
<1>7. CASE SetOwnAd(c)
  <2> DEFINE new(l) == [listings[l] EXCEPT
                          !.status = calls[c].status,
                          !.pub = IF calls[c].status = "publish"
                                    THEN calls[c].date ELSE @]
  <2>1. \A l \in Listed : new(l) \in Listing
    <3>1. calls[c].date \in Days
      BY <1>7 DEF SetOwnAd, MarketTypes, CallFits
    <3> QED BY <1>2, <1>3, <3>1 DEF Listing
  <2>2. listings' = [l \in ListingIds |->
                       IF l = calls[c].listing /\ l \in Listed
                         THEN new(l) ELSE listings[l]]
    BY <1>7 DEF SetOwnAd
  <2> HIDE DEF new
  <2>3. /\ DocsTyped'
        /\ \A l \in ListingIds : listings[l] = NoListing =>
                                     listings'[l] = NoListing
    BY <1>4, <2>1, <2>2, ListingsChange
  <2> QED BY <1>4, <1>7, <2>3, RespondTyped DEF SetOwnAd
<1>8. CASE RemoveAd(c)
  <2>1. listings' = [listings EXCEPT ![calls[c].listing] = NoListing]
    BY <1>8 DEF RemoveAd
  <2>2. /\ DocsTyped'
        /\ \A l \in ListingIds : listings[l] = NoListing =>
                                     listings'[l] = NoListing
    BY <1>4, <2>1 DEF MarketTypes, DocsTyped
  <2> QED BY <1>4, <1>8, <2>2, RespondTyped DEF RemoveAd
<1>9. ASSUME NEW S, NEW status \in Statuses,
             UpdateMultipleProductById(c, S, status)
      PROVE  MarketTypes'
  BY <1>4, <1>5, <1>9, QuietTyped DEF UpdateMultipleProductById
<1>10. ASSUME NEW S, DeleteMultipleProductById(c, S)
       PROVE  MarketTypes'
  <2>1. "deleted" \in Statuses
    BY DEF Statuses
  <2> QED BY <1>4, <1>5, <1>10, <2>1, QuietTyped DEF DeleteMultipleProductById
<1> QED BY <1>6, <1>7, <1>8, <1>9, <1>10

\* A listing is looked for before it is changed.
LEMMA LookForTyped ==
    ASSUME MarketTypes, NEW c \in Clients, NEW l \in Listed,
           \/ DeleteProductById(c, l)
           \/ \E u \in UserIds : DeleteUserProductById(c, u, l)
           \/ \E status \in Statuses :
                 \/ UpdateProductById(c, l, status)
                 \/ \E u \in UserIds : UpdateUserProductById(c, u, l, status)
    PROVE  MarketTypes'
<1>1. ASSUME NEW pc \in {"setAd", "setOwnAd", "removeAd"},
             NEW status \in Statuses, Look(c, l, pc, status)
      PROVE  MarketTypes'
  <2> DEFINE call == [Idle EXCEPT !.pc = pc, !.listing = l, !.status = status,
                                  !.date = PublishDay(pc, status)]
  <2>1. /\ l \in 0..MaxListings
        /\ PublishDay(pc, status) \in Days /\ Days \subseteq Nat
    BY MarketAssumption DEF Listed, ListingIds, PublishDay, Days, MarketTypes
  <2>2. call \in Call /\ call.pc = pc /\ call.date \in Days
    BY <2>1, IdleCall DEF Call
  <2>3. /\ Goto(c, call)
        /\ UNCHANGED <<scene, today, users, cache, listings, born, paid>>
    BY <1>1 DEF Look, listingsOnly
  <2> HIDE DEF call
  <2>4. CallFits(call) /\ call.pc \notin CreatingPcs \union {"pay"}
    BY <2>2 DEF CallFits, CreatingPcs
  <2> QED BY <2>2, <2>3, <2>4, TalkTyped
<1>2. "deleted" \in Statuses
  BY DEF Statuses
<1> QED BY <1>1, <1>2 DEF DeleteProductById, DeleteUserProductById,
        UpdateProductById, UpdateUserProductById

\* Every step of the listings.
LEMMA ListingsTyped ==
    ASSUME MarketTypes, ListingsNext
    PROVE  MarketTypes'
BY CreateTyped, EditTyped, LookForTyped DEF ListingsNext, ContinueListing

\* Every step of the wish lists: none of these documents, and a call that goes
\* on with the next product.
LEMMA WishListsTyped ==
    ASSUME MarketTypes, WishInv, WishListsNext
    PROVE  MarketTypes'
<1>1. ASSUME NEW c \in Clients, NEW call \in Call, Goto(c, call),
             call.pc \in {"idle", "findWish", "saveWish"},
             UNCHANGED wishesOnly
      PROVE  MarketTypes'
  <2>1. CallFits(call) /\ call.pc \notin CreatingPcs \union {"pay"}
    BY <1>1 DEF CallFits, CreatingPcs
  <2> QED BY <1>1, <2>1, TalkTyped DEF wishesOnly
<1>2. ASSUME NEW c \in Clients, FindWish(c) \/ SaveWish(c)
      PROVE  MarketTypes'
  <2>1. /\ calls[c] \in Call /\ Formed(calls[c]) /\ calls[c].pc \in WishPcs
        /\ WishCall(calls[c])
    BY <1>2 DEF FindWish, SaveWish, MarketTypes, WishInv, CallsFormed, Wishing,
                WishPcs
  <2>2. NextWish(calls[c]) \in Call
        /\ NextWish(calls[c]).pc \in {"idle", "findWish"}
    <3>1. CASE Len(calls[c].wanted) = 1
      BY <3>1, IdleCall, IdleFormed DEF NextWish
    <3>2. CASE Len(calls[c].wanted) # 1
      <4> DEFINE rest == Tail(calls[c].wanted)
      <4>1. NextWish(calls[c]) =
                [calls[c] EXCEPT !.pc = "findWish", !.wanted = rest]
        BY <3>2 DEF NextWish
      <4>2. /\ NextWish(calls[c]).pc = "findWish"
            /\ NextWish(calls[c]).wanted = rest
        BY <2>1, <4>1 DEF Call
      <4> HIDE DEF rest
      <4>3. rest \in Seq(Products)
        BY <2>1, <4>2, NextWishCall DEF WishPcs, WishCall
      <4> QED BY <2>1, <4>1, <4>2, <4>3 DEF Call
    <3> QED BY <3>1, <3>2
  <2> DEFINE call == [calls[c] EXCEPT !.pc = "saveWish"]
  <2>3. call \in Call /\ call.pc = "saveWish"
    BY <2>1 DEF Call
  <2>4. \/ Goto(c, NextWish(calls[c]))
        \/ Goto(c, call)
    BY <1>2 DEF FindWish, SaveWish
  <2> HIDE DEF call
  <2>5. UNCHANGED wishesOnly
    BY <1>2 DEF FindWish, SaveWish, wishesOnly
  <2> QED BY <1>1, <2>2, <2>3, <2>4, <2>5
<1>3. ASSUME NEW c \in Clients, NEW u \in UserIds, NEW wanted \in Forms,
             AddToWishList(c, u, wanted)
      PROVE  MarketTypes'
  <2>1. wanted \in Seq(Products)
    <3>1. CASE \E p \in Products : wanted = <<p>>
      BY <3>1
    <3>2. CASE \E p \in Products, q \in Products : wanted = <<p, q>>
      BY <3>2
    <3> QED BY <3>1, <3>2 DEF Forms
  <2> DEFINE call == [Idle EXCEPT !.pc = "findWish", !.user = u,
                                  !.wanted = wanted]
  <2>2. call \in Call /\ call.pc = "findWish"
    BY <2>1, IdleCall DEF Call
  <2>3. Goto(c, call) /\ UNCHANGED wishesOnly
    BY <1>3 DEF AddToWishList
  <2> HIDE DEF call
  <2> QED BY <1>1, <2>2, <2>3
<1>4. ASSUME NEW c \in Clients, NEW w \in WishIds,
             \/ DeleteWishListById(c, w)
             \/ \E u \in UserIds, p \in Products : UpdateWishListById(c, w, u, p)
      PROVE  MarketTypes'
  <2>1. UNCHANGED <<scene, today, users, cache, listings, born, paid, calls>>
    BY <1>4 DEF DeleteWishListById, UpdateWishListById, wishesOnly
  <2>2. DocsTyped'
    BY <2>1 DEF MarketTypes, DocsTyped
  <2> QED BY <2>1, <2>2, QuietTyped
<1> QED BY <1>2, <1>3, <1>4 DEF WishListsNext

\* A new day.
LEMMA DayTyped ==
    ASSUME MarketTypes, NextDay
    PROVE  MarketTypes'
<1>1. /\ UNCHANGED <<scene, users, cache, born, paid, calls>>
      /\ listings' = [l \in ListingIds |-> Served(listings[l])]
      /\ today' = today + 1 /\ today < scene.last
  BY DEF NextDay
<1>2. today' \in FirstDay..LastDay
  <2>1. scene.last \in 0..LastDay
    BY SceneAssumption DEF MarketTypes, Scene, Days
  <2>2. today \in FirstDay..LastDay /\ FirstDay \in Nat /\ LastDay \in Nat
    BY MarketAssumption DEF MarketTypes
  <2> QED BY <1>1, <2>1, <2>2
<1>3. \A l \in ListingIds :
         \/ Served(listings[l]) = listings[l]
         \/ l \in Listed /\ Served(listings[l]) \in Listing
  <2>1. \A ad \in Listing : [ad EXCEPT !.served = @ + 1] \in Listing
    BY DEF Listing
  <2>2. \A l \in ListingIds : listings[l] \in Listing \union {NoListing}
    BY DEF MarketTypes, DocsTyped
  <2> QED BY <2>1, <2>2 DEF Served, Listed
<1>4. /\ DocsTyped'
      /\ \A l \in ListingIds : listings[l] = NoListing =>
                                   listings'[l] = NoListing
  BY <1>1, <1>3, ListingsChange
<1>5. \A l \in Listed' : l <= born
  BY <1>4 DEF Listed, MarketTypes
<1>6. Creating' = Creating /\ Paying'
  BY <1>1 DEF Creating, MarketTypes, Paying
<1> QED BY <1>1, <1>2, <1>4, <1>5, <1>6 DEF MarketTypes

\* The start.
LEMMA InitTyped == Init => MarketTypes
<1> SUFFICES ASSUME Init PROVE MarketTypes
  OBVIOUS
<1>1. scene \in Scene /\ scene \in Scenes /\ Len(scene.ads) <= MaxListings
  BY SceneAssumption DEF Init, MarketInit
<1>2. calls = [c \in Clients |-> Idle] /\ born = Len(scene.ads)
  BY DEF Init, MarketInit
<1>3. /\ scene.users \in [UserIds -> User \union {Unborn}]
      /\ scene.ads \in Seq(Listing)
  BY <1>1 DEF Scene
<1>4. listings = [l \in ListingIds |-> IF l <= Len(scene.ads)
                                         THEN scene.ads[l] ELSE NoListing]
  BY DEF Init, MarketInit
<1>5. MaxListings \in Nat /\ MaxPaid \in Nat /\ FirstDay \in Nat
      /\ LastDay \in Nat /\ FirstDay <= LastDay
  BY MarketAssumption
<1>6. Len(scene.ads) \in Nat
  BY <1>3
<1>7. listings \in [ListingIds -> Listing \union {NoListing}]
  <2>1. \A l \in ListingIds : l <= Len(scene.ads) => scene.ads[l] \in Listing
    BY <1>3, <1>5, <1>6 DEF ListingIds
  <2> QED BY <1>4, <2>1
<1>8. DocsTyped
  BY <1>3, <1>7 DEF DocsTyped, Init, MarketInit
<1>9. Creating = {} /\ Cardinality(Creating) = 0
  BY <1>2, IdleFormed, FS_EmptySet DEF Creating
<1>10. \A l \in Listed : l <= born
  BY <1>2, <1>4 DEF Listed
<1>11. Paying
  BY <1>2, IdleFormed DEF Paying
<1>12. today \in FirstDay..LastDay
  BY <1>5 DEF Init, MarketInit
<1>13. paid \in [UserIds -> 0..MaxPaid]
  BY <1>5 DEF Init, MarketInit
<1>14. born \in 0..MaxListings /\ born + Cardinality(Creating) <= MaxListings
  BY <1>1, <1>2, <1>5, <1>6, <1>9
<1> QED BY <1>1, <1>2, <1>8, <1>10, <1>11, <1>12, <1>13, <1>14, IdleCall
        DEF MarketTypes

\* Steps that touch nothing but codes.
LEMMA StillTyped ==
    ASSUME MarketTypes, UNCHANGED marketVars
    PROVE  MarketTypes'
<1>1. UNCHANGED <<scene, today, users, cache, listings, born, paid, calls>>
  BY DEF marketVars
<1>2. DocsTyped'
  BY <1>1 DEF MarketTypes, DocsTyped
<1> QED BY <1>1, <1>2, QuietTyped

\* The types hold throughout.
LEMMA MarketTypesAlways == Spec => [](MarketTypes /\ WishInv)
<1>1. ASSUME MarketTypes, WishInv, [Next]_vars PROVE MarketTypes'
  <2>1. ASSUME NEW c \in Clients, CallFails(c) PROVE MarketTypes'
    BY <1>1, <2>1, AnswerTyped DEF CallFails
  <2>2. CASE UNCHANGED vars
    BY <1>1, <2>2, StillTyped DEF vars
  <2> QED BY <1>1, <2>1, <2>2, AccountsTyped, ListingsTyped, WishListsTyped,
             DayTyped, StillTyped DEF Next
<1> QED BY <1>1, InitTyped, WishInvAlways, PTL DEF Spec

\* Every variable keeps its type: users, listings, lines of wish lists, codes
\* and what the calls of all handlers carry; no handler of ProductService or
\* UserService touches a listing or a user that has not been created.
THEOREM MarketTypeCorrect == Spec => []TypeOK
<1>1. MarketTypes /\ WishInv /\ CodeTypeOK => TypeOK
  BY DEF MarketTypes, DocsTyped, WishInv, TypeOK
<1>2. Spec => []CodeTypeOK
  BY MarketRunsCodes, CodeTypeCorrect, PTL
<1> QED BY <1>1, <1>2, MarketTypesAlways, PTL

(***************************************************************************)
(* The calendar                                                            *)
(***************************************************************************)
\* What is assumed of the calendar, part by part.
LEMMA CalendarFacts ==
    /\ Len(Calendar) \in Nat /\ Len(Calendar) > 1
    /\ \A m \in 1..Len(Calendar) : Calendar[m] \in 1..31
    /\ FirstDay \in Nat /\ LastDay \in Nat /\ Calendar[1] < FirstDay
    /\ LastDay < MonthStart[Len(Calendar) + 1]
<1>1. Calendar \in Seq(1..31) /\ Len(Calendar) > 1
  BY MarketAssumption
<1>2. FirstDay \in Nat /\ LastDay \in Nat /\ Calendar[1] < FirstDay
  BY MarketAssumption
<1>3. Len(Calendar) \in Nat
  BY <1>1
<1>4. \A m \in 1..Len(Calendar) : Calendar[m] \in 1..31
  BY <1>1, ElementOfSeq
<1>5. LastDay < MonthStart[Len(Calendar) + 1]
  BY CalendarAssumption
<1> QED BY <1>1, <1>2, <1>3, <1>4, <1>5

\* MonthStart up to month n.
StartsTo(f, n) ==
    \A m \in 1..n : f[m] = IF m = 1 THEN 1 ELSE f[m - 1] + Calendar[m - 1]

\* Each month starts when the one before is over.
LEMMA MonthsFollow ==
    /\ MonthStart[1] = 1
    /\ \A m \in 1..Len(Calendar) :
          MonthStart[m + 1] = MonthStart[m] + Calendar[m]
<1> DEFINE N == Len(Calendar) + 1
           K == {n \in Nat : n <= N => \E f : StartsTo(f, n)}
<1>1. N \in Nat /\ N > 2
  BY MarketAssumption
<1> HIDE DEF N
<1>2. 0 \in K
  BY DEF StartsTo
<1>3. ASSUME NEW n \in Nat, n \in K
      PROVE  n + 1 \in K
  <2> SUFFICES ASSUME n + 1 <= N PROVE \E f : StartsTo(f, n + 1)
    OBVIOUS
  <2>1. PICK f : StartsTo(f, n)
    BY <1>1, <1>3
  <2> DEFINE g == [m \in 1..(n + 1) |->
                     IF m <= n THEN f[m]
                     ELSE IF m = 1 THEN 1 ELSE f[m - 1] + Calendar[m - 1]]
  <2>2. ASSUME NEW m \in 1..(n + 1)
        PROVE  g[m] = IF m = 1 THEN 1 ELSE g[m - 1] + Calendar[m - 1]
    <3>1. CASE m <= n
      <4>1. m \in 1..n /\ (m # 1 => m - 1 \in 1..(n + 1) /\ m - 1 <= n)
        BY <3>1
      <4>2. f[m] = IF m = 1 THEN 1 ELSE f[m - 1] + Calendar[m - 1]
        BY <2>1, <4>1 DEF StartsTo
      <4> QED BY <3>1, <4>1, <4>2
    <3>2. CASE m = n + 1
      <4>1. m # 1 => m - 1 \in 1..(n + 1) /\ m - 1 <= n
        BY <3>2
      <4> QED BY <3>2, <4>1
    <3> QED BY <3>1, <3>2
  <2> HIDE DEF g
  <2> QED BY <2>2 DEF StartsTo
<1> HIDE DEF K
<1>4. \A n \in Nat : n \in K
  BY <1>2, <1>3, CountingInduction
<1>5. PICK f : StartsTo(f, N)
  BY <1>1, <1>4 DEF K
<1> DEFINE g == [m \in 1..N |-> f[m]]
           Body(h) == [m \in 1..N |-> IF m = 1 THEN 1
                                      ELSE h[m - 1] + Calendar[m - 1]]
<1>6. g = Body(g)
  <2>1. ASSUME NEW m \in 1..N
        PROVE  f[m] = IF m = 1 THEN 1 ELSE g[m - 1] + Calendar[m - 1]
    BY <1>1, <1>5 DEF StartsTo
  <2> QED BY <2>1
<1>7. MonthStart = Body(MonthStart)
  <2>1. MonthStart = CHOOSE h : h = Body(h)
    BY DEF MonthStart, N
  <2> HIDE DEF Body, g
  <2> QED BY <1>6, <2>1
<1>8. ASSUME NEW m \in 1..N
      PROVE  MonthStart[m] = IF m = 1 THEN 1
                             ELSE MonthStart[m - 1] + Calendar[m - 1]
  BY <1>7
<1>9. ASSUME NEW m \in 1..Len(Calendar)
      PROVE  MonthStart[m + 1] = MonthStart[m] + Calendar[m]
  <2>1. m + 1 \in 1..N /\ m + 1 # 1 /\ (m + 1) - 1 = m
    BY <1>1 DEF N
  <2> QED BY <1>8, <2>1
<1> QED BY <1>1, <1>8, <1>9

\* The days of the calendar have a month, and a month before it.
LEMMA MonthBefore ==
    ASSUME NEW d \in FirstDay..LastDay
    PROVE  MonthOf(d) - 1 \in 1..Len(Calendar)
<1> DEFINE N == Len(Calendar)
           Within(m) == MonthStart[m] <= d /\ d < MonthStart[m + 1]
           Reached(n) == /\ MonthStart[n + 1] \in Nat
                         /\ d < MonthStart[n + 1] => \E m \in 1..n : Within(m)
           K == {n \in Nat : n <= N => Reached(n)}
<1>1. /\ N \in Nat /\ N > 1 /\ d \in Nat
      /\ \A m \in 1..N : Calendar[m] \in 1..31
  BY CalendarFacts
<1>2. Calendar[1] < d /\ d <= LastDay /\ Calendar[1] \in 1..31
  <2>1. 1 \in 1..N
    BY <1>1
  <2>2. Calendar[1] \in 1..31
    BY <1>1, <2>1
  <2>3. FirstDay \in Nat /\ LastDay \in Nat /\ Calendar[1] < FirstDay
    BY CalendarFacts
  <2> QED BY <2>2, <2>3
<1>3. d < MonthStart[N + 1]
  <2>1. LastDay < MonthStart[N + 1] /\ LastDay \in Nat
    BY CalendarFacts
  <2>2. MonthStart[N + 1] \in Nat
    <3> DEFINE L == {n \in Nat : n <= N => MonthStart[n + 1] \in Nat}
    <3>1. 0 \in L
      BY MonthsFollow
    <3>2. ASSUME NEW n \in Nat, n \in L PROVE n + 1 \in L
      <4> SUFFICES ASSUME n + 1 <= N PROVE MonthStart[(n + 1) + 1] \in Nat
        OBVIOUS
      <4>1. n + 1 \in 1..N /\ MonthStart[n + 1] \in Nat
        BY <1>1, <3>2
      <4>2. MonthStart[(n + 1) + 1] = MonthStart[n + 1] + Calendar[n + 1]
        BY <4>1, MonthsFollow
      <4>3. Calendar[n + 1] \in 1..31
        BY <1>1, <4>1
      <4>4. \A a \in Nat, b \in 1..31 : a + b \in Nat
        OBVIOUS
      <4> QED BY <4>1, <4>2, <4>3, <4>4, Zenon
    <3> HIDE DEF L
    <3>3. N \in L
      BY <1>1, <3>1, <3>2, CountingInduction
    <3> QED BY <1>1, <3>3 DEF L
  <2> QED BY <1>1, <1>2, <2>1, <2>2
<1> HIDE DEF N
<1>4. 0 \in K
  <2>1. MonthStart[0 + 1] = 1
    BY MonthsFollow
  <2>2. ~(d < 1)
    BY <1>1, <1>2
  <2> QED BY <2>1, <2>2
<1>5. ASSUME NEW n \in Nat, n \in K
      PROVE  n + 1 \in K
  <2> SUFFICES ASSUME n + 1 <= N PROVE Reached(n + 1)
    OBVIOUS
  <2>1. n + 1 \in 1..N /\ Reached(n)
    BY <1>1, <1>5
  <2>2. MonthStart[(n + 1) + 1] = MonthStart[n + 1] + Calendar[n + 1]
    BY <2>1, MonthsFollow DEF N
  <2>3. MonthStart[(n + 1) + 1] \in Nat
    <3>1. Calendar[n + 1] \in 1..31
      BY <1>1, <2>1
    <3> QED BY <2>1, <2>2, <3>1
  <2>4. ASSUME d < MonthStart[(n + 1) + 1]
        PROVE  \E m \in 1..(n + 1) : Within(m)
    <3>1. CASE d < MonthStart[n + 1]
      <4>1. PICK m \in 1..n : Within(m)
        BY <2>1, <3>1
      <4>2. m \in 1..(n + 1)
        OBVIOUS
      <4> QED BY <4>1, <4>2
    <3>2. CASE ~(d < MonthStart[n + 1])
      <4>1. Within(n + 1) /\ n + 1 \in 1..(n + 1)
        BY <1>1, <2>1, <2>4, <3>2
      <4> QED BY <4>1
    <3> QED BY <3>1, <3>2
  <2> QED BY <2>3, <2>4
<1> HIDE DEF K
<1>6. N \in K
  BY <1>1, <1>4, <1>5, CountingInduction
<1>7. \E m \in 1..N : Within(m)
  BY <1>1, <1>3, <1>6 DEF K
<1>8. MonthOf(d) \in 1..N /\ Within(MonthOf(d))
  BY <1>7 DEF MonthOf, N
<1>9. MonthOf(d) # 1
  <2>1. MonthStart[1 + 1] = MonthStart[1] + Calendar[1] /\ MonthStart[1] = 1
    BY <1>1, MonthsFollow DEF N
  <2>2. ~(d < MonthStart[1 + 1])
    BY <1>1, <1>2, <2>1
  <2> QED BY <1>8, <2>2
<1> QED BY <1>1, <1>8, <1>9 DEF N

\* What the month before subtracts: no less than the shortest month, no more
\* than 31 days.
LEMMA CutoffRange ==
    ASSUME today \in FirstDay..LastDay
    PROVE  /\ Cutoff \in Int
           /\ Cutoff <= today - ShortestMonth
           /\ Cutoff >= today - 31
           /\ ShortestMonth \in Nat
<1> DEFINE Lengths == {Calendar[m] : m \in 1..Len(Calendar)}
           n == Calendar[MonthOf(today) - 1]
<1>1. \A m \in 1..Len(Calendar) : Calendar[m] \in 1..31
  BY CalendarFacts
<1>2. n \in Lengths
  BY MonthBefore
<1>3. Lengths \in SUBSET Nat /\ Lengths # {}
  <2>1. 1..31 \subseteq Nat
    OBVIOUS
  <2>2. Lengths \in SUBSET Nat
    BY <1>1, <2>1, Zenon
  <2> QED BY <1>2, <2>2
<1>4. n \in 1..31 /\ today \in Nat
  <2>1. n \in 1..31
    BY <1>1, MonthBefore
  <2>2. FirstDay \in Nat /\ LastDay \in Nat
    BY CalendarFacts
  <2> QED BY <2>1, <2>2
<1>5. Cutoff = today - n
  BY DEF Cutoff
<1>6. ShortestMonth = Min(Lengths)
  BY DEF ShortestMonth
<1> HIDE DEF Lengths, n
<1>7. PICK x \in Lengths : \A y \in Lengths : x <= y
  BY <1>3, LeastNumber
<1>8. ShortestMonth \in Lengths /\ \A y \in Lengths : ShortestMonth <= y
  BY <1>6, <1>7 DEF Min
<1>9. ShortestMonth \in Nat /\ ShortestMonth <= n
  BY <1>2, <1>3, <1>8
<1> QED BY <1>4, <1>5, <1>9

\* A published listing is listed for the shortest month, and for no more than
\* 31 days, whatever months there are: getAllProducts and getAllAdminProducts
\* compare the publishDate with the same day of the month before.
THEOREM LiveAMonthAlways == Spec => []LiveAMonth
<1>1. MarketTypes => LiveAMonth
  <2> SUFFICES ASSUME MarketTypes PROVE LiveAMonth
    OBVIOUS
  <2>1. /\ today \in FirstDay..LastDay /\ today \in Nat
        /\ \A l \in Listed : listings[l].pub \in Nat
                             /\ listings[l].status \in Statuses
    <3>1. \A l \in Listed : listings[l] \in Listing
      BY DEF Listed, MarketTypes, DocsTyped
    <3> QED BY <3>1, MarketAssumption DEF MarketTypes, Listing, Days
  <2>2. Visible \subseteq AdminVisible
    BY DEF Visible, AdminVisible, Page, Hidden
  <2>3. ASSUME NEW l \in Listed, listings[l].status = "publish",
               today <= listings[l].pub + ShortestMonth
        PROVE  l \in Visible
    <3>1. listings[l].pub >= Cutoff
      BY <2>1, <2>3, CutoffRange
    <3> QED BY <2>3, <3>1 DEF Visible, Page, Hidden, Recent
  <2>4. ASSUME NEW l \in Listed, today > listings[l].pub + 31
        PROVE  l \notin Visible
    <3>1. ~(listings[l].pub >= Cutoff)
      BY <2>1, <2>4, CutoffRange
    <3> QED BY <3>1 DEF Visible, Page, Recent
  <2>5. ASSUME NEW l \in Listed, listings[l].status # "publish"
        PROVE  l \notin Visible
    BY <2>1, <2>5 DEF Visible, Page, Hidden, Statuses
  <2> QED BY <2>2, <2>3, <2>4, <2>5 DEF LiveAMonth
<1> QED BY <1>1, MarketTypesAlways, PTL

(***************************************************************************)
(* Which calls go on                                                       *)
(***************************************************************************)
UserPcs == {"uncache", "uncount", "signup", "checkName", "setBadge", "setUser",
            "deleteUser", "listCount", "aggregate", "keepList", "keepCount"}
PaymentPcs == {"pay", "findAd", "extend"}
ListingPcs == CreatingPcs \union {"setAd", "setOwnAd", "removeAd"}

\* A call of these places begins, goes on or is answered.
Moves(pcs) ==
    \E c \in Clients : \E call :
       /\ Began(c)
       /\ calls[c].pc \in pcs \union {"idle"}
       /\ Goto(c, call)
       /\ call.pc \in pcs \union {"idle"}

Payment(c) ==
    \/ \E u \in UserIds, term \in Terms : ActivateVip(c, u, term)
    \/ Pay(c)
    \/ FindLatestAd(c)
    \/ ExtendVip(c)

\* A step of the accounts that is not about a payment.
UserStep ==
    /\ UNCHANGED <<scene, today, born, wishes, paid>>
    /\ UNCHANGED calls \/ Moves(UserPcs)
    /\ UNCHANGED listings \/ \E c \in Clients : SetBadge(c)

\* A handler that begins, one that goes on, and one that answers.
LEMMA MovesOn ==
    ASSUME NEW c \in Clients, NEW pcs, NEW call, Goto(c, call),
           call.pc \in pcs \union {"idle"},
           \/ \E op : MayCall(c, op)
           \/ calls[c].pc \in pcs \ {"idle"}
    PROVE  Moves(pcs)
<1>1. calls[c].pc \in pcs \union {"idle"}
  BY IdleFormed DEF MayCall
<1>2. Began(c)
  BY IdleFormed DEF Began
<1> QED BY <1>1, <1>2 DEF Moves

\* A handler of these places that answers.
LEMMA MovesAway ==
    ASSUME NEW c \in Clients, NEW pcs, Respond(c), calls[c].pc \in pcs \ {"idle"}
    PROVE  Moves(pcs)
BY MovesOn, IdleFormed DEF Respond, Goto

\* Payments.
LEMMA PaymentMoves ==
    ASSUME MarketTypes, NEW c \in Clients, Payment(c)
    PROVE  /\ Moves(PaymentPcs)
           /\ UNCHANGED <<scene, today, users, cache, born, wishes>>
<1>1. ASSUME NEW u \in UserIds, NEW term \in Terms, ActivateVip(c, u, term)
      PROVE  Moves(PaymentPcs)
  <2> DEFINE call == [Idle EXCEPT !.pc = "pay", !.user = u, !.term = term]
  <2>1. MayCall(c, "activateVip") /\ Goto(c, call)
    BY <1>1 DEF ActivateVip, MayAsk
  <2>2. call.pc = "pay"
    BY IdleFormed
  <2> HIDE DEF call
  <2> QED BY <2>1, <2>2, MovesOn DEF PaymentPcs
<1>2. ASSUME Pay(c) PROVE Moves(PaymentPcs)
  <2> DEFINE call == [calls[c] EXCEPT !.pc = "findAd"]
  <2>1. calls[c].pc = "pay" /\ Goto(c, call) /\ calls[c] \in Call
    BY <1>2 DEF Pay, MarketTypes
  <2>2. call.pc = "findAd"
    BY <2>1 DEF Call
  <2> HIDE DEF call
  <2> QED BY <2>1, <2>2, MovesOn DEF PaymentPcs
<1>3. ASSUME FindLatestAd(c) PROVE Moves(PaymentPcs)
  <2>1. calls[c].pc = "findAd" /\ calls[c] \in Call
    BY <1>3 DEF FindLatestAd, MarketTypes
  <2>2. CASE Respond(c)
    BY <2>1, <2>2, MovesAway DEF PaymentPcs
  <2>3. ASSUME NEW l, NEW date,
               Goto(c, [calls[c] EXCEPT !.pc = "extend", !.listing = l,
                                        !.date = date])
        PROVE  Moves(PaymentPcs)
    <3> DEFINE call == [calls[c] EXCEPT !.pc = "extend", !.listing = l,
                                        !.date = date]
    <3>1. call.pc = "extend" /\ Goto(c, call)
      BY <2>1, <2>3 DEF Call
    <3> HIDE DEF call
    <3> QED BY <2>1, <3>1, MovesOn DEF PaymentPcs
  <2> QED BY <1>3, <2>2, <2>3 DEF FindLatestAd
<1>4. ASSUME ExtendVip(c) PROVE Moves(PaymentPcs)
  BY <1>4, MovesAway DEF ExtendVip, PaymentPcs
<1> QED BY <1>1, <1>2, <1>3, <1>4
        DEF Payment, ActivateVip, Pay, FindLatestAd, ExtendVip, accountsOnly

\* The steps of the users' calls.
LEMMA UserCallMoves ==
    ASSUME MarketTypes, NEW c \in Clients, ContinueAccount(c),
           calls[c].pc \notin PaymentPcs
    PROVE  Moves(UserPcs)
<1>1. calls[c] \in Call
  BY DEF MarketTypes
<1>2. ASSUME NEW pc \in UserPcs, Goto(c, [calls[c] EXCEPT !.pc = pc]),
             calls[c].pc \in UserPcs
      PROVE  Moves(UserPcs)
  <2> DEFINE call == [calls[c] EXCEPT !.pc = pc]
  <2>1. call.pc = pc /\ Goto(c, call)
    BY <1>1, <1>2 DEF Call
  <2> HIDE DEF call
  <2>2. "idle" \notin UserPcs
    BY DEF UserPcs
  <2> QED BY <1>2, <2>1, <2>2, MovesOn
<1>3. ASSUME Respond(c) \/ Goto(c, Idle) \/ Goto(c, [Idle EXCEPT !.pc = "uncache"]),
             calls[c].pc \in UserPcs
      PROVE  Moves(UserPcs)
  <2>1. Idle.pc = "idle" /\ [Idle EXCEPT !.pc = "uncache"].pc = "uncache"
    BY IdleFormed
  <2>2. "idle" \notin UserPcs /\ "uncache" \in UserPcs
    BY DEF UserPcs
  <2> QED BY <1>3, <2>1, <2>2, MovesOn, MovesAway
<1>4. ASSUME NEW rows, Goto(c, [calls[c] EXCEPT !.pc = "keepList", !.rows = rows]),
             calls[c].pc \in UserPcs
      PROVE  Moves(UserPcs)
  <2> DEFINE call == [calls[c] EXCEPT !.pc = "keepList", !.rows = rows]
  <2>1. call.pc = "keepList" /\ Goto(c, call)
    BY <1>1, <1>4 DEF Call
  <2> HIDE DEF call
  <2>2. "idle" \notin UserPcs /\ "keepList" \in UserPcs
    BY DEF UserPcs
  <2> QED BY <1>4, <2>1, <2>2, MovesOn
<1>5. CASE Uncache(c) \/ KeepList(c) \/ SetBadge(c)
  BY <1>2, <1>5 DEF Uncache, KeepList, SetBadge, UserPcs
<1>6. CASE SignupAndLogin(c)
  BY <1>3, <1>6 DEF SignupAndLogin, SaveUser, UserPcs
<1>7. CASE KeepCount(c) \/ SetUser(c) \/ DeleteUser(c)
  BY <1>3, <1>7 DEF KeepCount, SetUser, DeleteUser, RemoveUsers, AfterDelete,
                    UserPcs
<1>8. CASE Uncount(c)
  <2>1. calls[c].next = "idle" \/ calls[c].next \in UserPcs
    BY <1>1 DEF Call, UserPcs
  <2> QED BY <1>2, <1>3, <1>8, <2>1 DEF Uncount, UserPcs
<1>9. CASE ListCount(c) \/ CheckName(c)
  BY <1>2, <1>3, <1>9 DEF ListCount, CheckName, UserPcs
<1>10. CASE AggregateUsers(c)
  BY <1>4, <1>10 DEF AggregateUsers, UserPcs
<1> QED BY <1>5, <1>6, <1>7, <1>8, <1>9, <1>10
        DEF ContinueAccount, PaymentPcs, Pay, FindLatestAd, ExtendVip

\* The handlers of users that begin.
LEMMA UserCallBegins ==
    ASSUME NEW c \in Clients,
           \/ DeleteMultipleUserById(c)
           \/ \E n \in Names : \/ UserSignup(c, n)
                               \/ UserSignupAndLogin(c, n)
                               \/ UserSignupAndLoginSocial(c, n)
           \/ \E n \in Names \union {NoName} :
                 \/ GetAllUsers(c, n)
                 \/ \E u \in UserIds, mark \in {"unsaid", "verified", "rejected"} :
                       \/ UpdateLoggedInUserInfo(c, u, n, mark)
                       \/ \E status, password \in BOOLEAN :
                             UpdateUserById(c, u, n, mark, status, password)
           \/ \E u \in UserIds : DeleteUserById(c, u)
    PROVE  Moves(UserPcs)
<1>1. ASSUME NEW call, Goto(c, call), call.pc \in UserPcs,
             \E op : MayCall(c, op)
      PROVE  Moves(UserPcs)
  BY <1>1, MovesOn
<1>2. CASE DeleteMultipleUserById(c) \/ \E n \in Names : UserSignup(c, n)
  <2>1. Goto(c, AfterDelete) /\ \E op : MayCall(c, op)
    BY <1>2 DEF DeleteMultipleUserById, RemoveUsers, UserSignup, SaveUser,
                AfterDelete
  <2>2. AfterDelete.pc = "uncache"
    BY IdleFormed DEF AfterDelete
  <2> QED BY <1>1, <2>1, <2>2 DEF UserPcs
<1>3. ASSUME NEW n, NEW op, CheckedSignup(c, op, n) PROVE Moves(UserPcs)
  <2> DEFINE call == [Idle EXCEPT !.pc = "signup", !.name = n]
  <2>1. Goto(c, call) /\ MayCall(c, op)
    BY <1>3 DEF CheckedSignup
  <2>2. call.pc = "signup"
    BY IdleFormed
  <2> HIDE DEF call
  <2> QED BY <1>1, <2>1, <2>2 DEF UserPcs
<1>4. ASSUME NEW n, GetAllUsers(c, n) PROVE Moves(UserPcs)
  <2> DEFINE call == [Idle EXCEPT !.pc = "listCount", !.name = n,
                                  !.rows = cache.data]
  <2>1. Goto(c, call) /\ \E op : MayCall(c, op)
    BY <1>4 DEF GetAllUsers
  <2>2. call.pc = "listCount"
    BY IdleFormed
  <2> HIDE DEF call
  <2> QED BY <1>1, <2>1, <2>2 DEF UserPcs
<1>5. ASSUME NEW n, NEW u, NEW mark,
             UpdateLoggedInUserInfo(c, u, n, mark)
      PROVE  Moves(UserPcs)
  <2> DEFINE call == [Idle EXCEPT !.pc = IF n = NoName THEN "uncache"
                                                      ELSE "checkName",
                                  !.next = "setUser", !.user = u, !.name = n,
                                  !.mark = mark]
  <2>1. Goto(c, call) /\ \E op : MayCall(c, op)
    BY <1>5 DEF UpdateLoggedInUserInfo, MayAsk
  <2>2. call.pc \in {"uncache", "checkName"}
    BY IdleFormed
  <2> HIDE DEF call
  <2> QED BY <1>1, <2>1, <2>2 DEF UserPcs
<1>6. ASSUME NEW n, NEW u, NEW mark, NEW status, NEW password,
             UpdateUserById(c, u, n, mark, status, password)
      PROVE  Moves(UserPcs)
  <2> DEFINE call == [Idle EXCEPT !.pc = IF n \in {NoName, users[u].name}
                                           THEN "uncache" ELSE "checkName",
                                  !.next = IF CopiesBadge(mark, status, password)
                                             THEN "setBadge" ELSE "setUser",
                                  !.user = u, !.name = n, !.mark = mark]
  <2>1. Goto(c, call) /\ \E op : MayCall(c, op)
    BY <1>6 DEF UpdateUserById
  <2>2. call.pc \in {"uncache", "checkName"}
    BY IdleFormed
  <2> HIDE DEF call
  <2> QED BY <1>1, <2>1, <2>2 DEF UserPcs
<1>7. ASSUME NEW u, DeleteUserById(c, u) PROVE Moves(UserPcs)
  <2> DEFINE call == [Idle EXCEPT !.pc = "deleteUser", !.user = u]
  <2>1. Goto(c, call) /\ \E op : MayCall(c, op)
    BY <1>7 DEF DeleteUserById
  <2>2. call.pc = "deleteUser"
    BY IdleFormed
  <2> HIDE DEF call
  <2> QED BY <1>1, <2>1, <2>2 DEF UserPcs
<1> QED BY <1>2, <1>3, <1>4, <1>5, <1>6, <1>7
        DEF UserSignupAndLogin, UserSignupAndLoginSocial

\* What the accounts do.
LEMMA AccountSteps ==
    ASSUME MarketTypes, AccountsNext
    PROVE  UserStep \/ \E c \in Clients : Payment(c)
<1>1. CASE CacheExpires
  BY <1>1 DEF CacheExpires, UserStep, accountsOnly
<1>2. ASSUME NEW c \in Clients, ContinueAccount(c)
      PROVE  UserStep \/ Payment(c)
  <2>1. CASE calls[c].pc \in PaymentPcs
    BY <1>2, <2>1 DEF ContinueAccount, Payment, PaymentPcs, Uncache, Uncount,
         SignupAndLogin, ListCount, AggregateUsers, KeepList, KeepCount,
         CheckName, SetBadge, SetUser, DeleteUser
  <2>2. CASE calls[c].pc \notin PaymentPcs
    <3>1. Moves(UserPcs)
      BY <1>2, <2>2, UserCallMoves
    <3>2. /\ UNCHANGED <<scene, today, born, wishes, paid>>
          /\ UNCHANGED listings \/ SetBadge(c)
      BY <1>2, <2>2 DEF ContinueAccount, PaymentPcs, Uncache, Uncount,
           SignupAndLogin, SaveUser, ListCount, AggregateUsers, KeepList,
           KeepCount, CheckName, SetBadge, SetUser, DeleteUser, RemoveUsers,
           Pay, FindLatestAd, ExtendVip, accountsOnly
    <3> QED BY <3>1, <3>2 DEF UserStep
  <2> QED BY <2>1, <2>2
<1>3. ASSUME NEW c \in Clients,
             \/ DeleteMultipleUserById(c)
             \/ \E n \in Names : \/ UserSignup(c, n)
                                 \/ UserSignupAndLogin(c, n)
                                 \/ UserSignupAndLoginSocial(c, n)
             \/ \E n \in Names \union {NoName} :
                   \/ GetAllUsers(c, n)
                   \/ \E u \in UserIds, mark \in {"unsaid", "verified", "rejected"} :
                         \/ UpdateLoggedInUserInfo(c, u, n, mark)
                         \/ \E status, password \in BOOLEAN :
                               UpdateUserById(c, u, n, mark, status, password)
             \/ \E u \in UserIds : DeleteUserById(c, u)
      PROVE  UserStep
  <2>1. Moves(UserPcs)
    BY <1>3, UserCallBegins
  <2>2. UNCHANGED <<scene, today, born, wishes, paid, listings>>
    BY <1>3 DEF DeleteMultipleUserById, RemoveUsers, UserSignup, SaveUser,
         UserSignupAndLogin, UserSignupAndLoginSocial, CheckedSignup,
         GetAllUsers, UpdateLoggedInUserInfo, UpdateUserById, DeleteUserById,
         accountsOnly
  <2> QED BY <2>1, <2>2 DEF UserStep
<1> QED BY <1>1, <1>2, <1>3 DEF AccountsNext, Payment

\* What the listings do.
LEMMA ListingMoves ==
    ASSUME MarketTypes, ListingsNext
    PROVE  /\ UNCHANGED calls \/ Moves(ListingPcs)
           /\ UNCHANGED listingsOnly
<1>1. ASSUME NEW c \in Clients, NEW call, Goto(c, call), call.pc \in ListingPcs,
             \E op : MayCall(c, op)
      PROVE  Moves(ListingPcs)
  BY <1>1, MovesOn
<1>2. ASSUME NEW c \in Clients, NEW pc, NEW l, NEW status, Look(c, l, pc, status),
             pc \in ListingPcs, \E op : MayCall(c, op)
      PROVE  Moves(ListingPcs)
  <2> DEFINE call == [Idle EXCEPT !.pc = pc, !.listing = l, !.status = status,
                                  !.date = PublishDay(pc, status)]
  <2>1. Goto(c, call) /\ call.pc = pc
    BY <1>2, IdleFormed DEF Look
  <2> HIDE DEF call
  <2> QED BY <1>1, <1>2, <2>1
<1>3. ASSUME NEW c \in Clients, ContinueListing(c) PROVE Moves(ListingPcs)
  <2>1. ASSUME ReadOwner(c) PROVE Moves(ListingPcs)
    <3>1. calls[c].pc = "readOwner" /\ calls[c] \in Call
      BY <2>1 DEF ReadOwner, MarketTypes
    <3> DEFINE call(ad) == [calls[c] EXCEPT !.pc = "saveAd", !.ad = ad]
    <3>2. \A ad : call(ad).pc = "saveAd"
      BY <3>1 DEF Call
    <3>3. \E ad : Goto(c, call(ad))
      BY <2>1 DEF ReadOwner
    <3> HIDE DEF call
    <3> QED BY <3>1, <3>2, <3>3, MovesOn DEF ListingPcs, CreatingPcs
  <2>2. ASSUME \/ SaveAd(c) \/ SaveClone(c) \/ InsertAds(c)
               \/ SetAd(c) \/ SetOwnAd(c) \/ RemoveAd(c)
        PROVE  Moves(ListingPcs)
    BY <2>2, MovesAway DEF SaveAd, SaveClone, InsertAds, SetAd, SetOwnAd,
       RemoveAd, ListingPcs, CreatingPcs
  <2> QED BY <1>3, <2>1, <2>2 DEF ContinueListing
<1>4. ASSUME NEW c \in Clients, NEW u, NEW status, AddProductByUser(c, u, status)
      PROVE  Moves(ListingPcs)
  <2> DEFINE call == [Idle EXCEPT !.pc = "readOwner", !.user = u,
                                  !.status = status]
  <2>1. Goto(c, call) /\ \E op : MayCall(c, op)
    BY <1>4 DEF AddProductByUser, MayAsk
  <2>2. call.pc = "readOwner"
    BY IdleFormed
  <2> HIDE DEF call
  <2> QED BY <1>1, <2>1, <2>2 DEF ListingPcs, CreatingPcs
<1>5. ASSUME NEW c \in Clients, NEW l, CloneSingleProduct(c, l)
      PROVE  Moves(ListingPcs)
  <2> DEFINE call == [Idle EXCEPT !.pc = "saveClone", !.ad = listings[l]]
  <2>1. Goto(c, call) /\ \E op : MayCall(c, op)
    BY <1>5 DEF CloneSingleProduct
  <2>2. call.pc = "saveClone"
    BY IdleFormed
  <2> HIDE DEF call
  <2> QED BY <1>1, <2>1, <2>2 DEF ListingPcs, CreatingPcs
<1>6. ASSUME NEW c \in Clients, NEW deleteMany, InsertManyProduct(c, deleteMany)
      PROVE  Moves(ListingPcs)
  <2> DEFINE call == [Idle EXCEPT !.pc = "insertAds"]
  <2>1. Goto(c, call) /\ \E op : MayCall(c, op)
    BY <1>6 DEF InsertManyProduct
  <2>2. call.pc = "insertAds"
    BY IdleFormed
  <2> HIDE DEF call
  <2> QED BY <1>1, <2>1, <2>2 DEF ListingPcs, CreatingPcs
<1>7. ASSUME NEW c \in Clients, NEW u, NEW l, NEW status,
             \/ UpdateUserProductById(c, u, l, status)
             \/ UpdateProductById(c, l, status)
             \/ DeleteProductById(c, l)
             \/ DeleteUserProductById(c, u, l)
      PROVE  Moves(ListingPcs)
  BY <1>2, <1>7 DEF UpdateUserProductById, UpdateProductById, DeleteProductById,
     DeleteUserProductById, MayAsk, ListingPcs
<1>8. UNCHANGED calls \/ Moves(ListingPcs)
  <2>1. ASSUME NEW c \in Clients, NEW S, NEW status, NEW pub,
               \/ AddProduct(c, status, pub)
               \/ UpdateMultipleProductById(c, S, status)
               \/ DeleteMultipleProductById(c, S)
        PROVE  UNCHANGED calls
    BY <2>1 DEF AddProduct, UpdateMultipleProductById, DeleteMultipleProductById
  <2> QED BY <1>3, <1>4, <1>5, <1>6, <1>7, <2>1 DEF ListingsNext
<1>9. UNCHANGED listingsOnly
  BY DEF ListingsNext, ContinueListing, ReadOwner, SaveAd, SaveClone, InsertAds,
     SetAd, SetOwnAd, RemoveAd, AddProduct, AddProductByUser, Look,
     UpdateUserProductById, UpdateProductById, UpdateMultipleProductById,
     InsertManyProduct, DeleteMultipleProductById, CloneSingleProduct,
     DeleteProductById, DeleteUserProductById
<1> QED BY <1>8, <1>9

\* What the wish lists do.
LEMMA WishMoves ==
    ASSUME MarketTypes, WishInv, WishListsNext
    PROVE  /\ UNCHANGED calls \/ Moves(WishPcs)
           /\ UNCHANGED wishesOnly
<1> USE DEF wishesOnly
<1>1. ASSUME NEW c \in Clients, NEW call, Goto(c, call),
             calls[c].pc \in WishPcs \/ \E op : MayCall(c, op),
             call.pc \in WishPcs \union {"idle"}
      PROVE  Moves(WishPcs)
  <2>1. "idle" \notin WishPcs
    BY DEF WishPcs
  <2> QED BY <1>1, <2>1, MovesOn
<1>2. ASSUME NEW c \in Clients, calls[c].pc \in WishPcs
      PROVE  /\ NextWish(calls[c]).pc \in WishPcs \union {"idle"}
             /\ [calls[c] EXCEPT !.pc = "saveWish"].pc \in WishPcs
  <2>1. Formed(calls[c]) /\ WishCall(calls[c]) /\ calls[c] \in Call
    BY <1>2 DEF WishInv, CallsFormed, Wishing, MarketTypes
  <2>2. NextWish(calls[c]) = Idle \/ NextWish(calls[c]).pc = "findWish"
    BY <2>1 DEF NextWish, Call
  <2>3. [calls[c] EXCEPT !.pc = "saveWish"].pc = "saveWish"
    BY <2>1 DEF Call
  <2> QED BY <2>2, <2>3, IdleFormed DEF WishPcs
<1>3. ASSUME NEW c \in Clients, FindWish(c) \/ SaveWish(c)
      PROVE  Moves(WishPcs) /\ UNCHANGED wishesOnly
  <2>1. calls[c].pc \in WishPcs
    BY <1>3 DEF FindWish, SaveWish, WishPcs
  <2>2. \/ Goto(c, NextWish(calls[c]))
        \/ Goto(c, [calls[c] EXCEPT !.pc = "saveWish"])
    BY <1>3 DEF FindWish, SaveWish
  <2>3. UNCHANGED wishesOnly
    BY <1>3 DEF FindWish, SaveWish
  <2> QED BY <1>1, <1>2, <2>1, <2>2, <2>3
<1>4. ASSUME NEW c \in Clients, NEW u, NEW wanted, AddToWishList(c, u, wanted)
      PROVE  Moves(WishPcs) /\ UNCHANGED wishesOnly
  <2> DEFINE call == [Idle EXCEPT !.pc = "findWish", !.user = u,
                                  !.wanted = wanted]
  <2>1. Goto(c, call) /\ \E op : MayCall(c, op)
    BY <1>4 DEF AddToWishList, MayAsk
  <2>2. call.pc = "findWish"
    BY IdleFormed
  <2> HIDE DEF call
  <2>3. UNCHANGED wishesOnly
    BY <1>4 DEF AddToWishList
  <2> QED BY <1>1, <2>1, <2>2, <2>3 DEF WishPcs
<1>5. ASSUME NEW c \in Clients, NEW w,
             \/ DeleteWishListById(c, w)
             \/ \E u \in UserIds, p \in Products : UpdateWishListById(c, w, u, p)
      PROVE  UNCHANGED <<wishesOnly, calls>>
  BY <1>5 DEF DeleteWishListById, UpdateWishListById
<1> QED BY <1>3, <1>4, <1>5 DEF WishListsNext

\* While calls come one at a time, one at most is in progress.
Solo == scene.calls = 1 =>
            \A c, d \in Clients : calls[c] # Idle /\ calls[d] # Idle => c = d

\* The others are idle when a handler of one begins or goes on.
LEMMA OthersIdle ==
    ASSUME MarketTypes, Solo, OneCallAtATime, NEW c \in Clients, Began(c)
    PROVE  \A d \in Clients \ {c} : calls[d] = Idle
<1>1. CASE calls[c] # Idle
  BY <1>1 DEF Solo, OneCallAtATime
<1>2. ASSUME NEW op, MayCall(c, op)
      PROVE  \A d \in Clients : calls[d] = Idle
  <2>1. Cardinality(InProgress) < 1
    BY <1>2 DEF MayCall, OneCallAtATime
  <2>2. IsFiniteSet(InProgress) /\ Cardinality(InProgress) \in Nat
    <3>1. IsFiniteSet(Clients)
      BY MarketAssumption
    <3> QED BY <3>1, FS_Subset, FS_CardinalityType DEF InProgress
  <2>3. InProgress = {}
    <3>1. Cardinality(InProgress) = 0
      BY <2>1, <2>2
    <3> QED BY <2>2, <3>1, FS_EmptySet
  <2> QED BY <2>3 DEF InProgress
<1> QED BY <1>1, <1>2 DEF Began

\* So one call is in progress after a step of a call.
LEMMA MovesSolo ==
    ASSUME MarketTypes, Solo, UNCHANGED scene,
           UNCHANGED calls \/ \E pcs : Moves(pcs)
    PROVE  Solo'
<1>1. CASE UNCHANGED calls
  BY <1>1 DEF Solo
<1>2. ASSUME NEW c \in Clients, NEW call, Began(c), Goto(c, call)
      PROVE  Solo'
  <2>1. \A d \in Clients \ {c} : calls'[d] = calls[d]
    BY <1>2 DEF Goto, MarketTypes
  <2>2. CASE OneCallAtATime
    <3>1. \A d \in Clients \ {c} : calls'[d] = Idle
      BY <1>2, <2>1, <2>2, OthersIdle
    <3> QED BY <3>1 DEF Solo
  <2> QED BY <2>2 DEF Solo, OneCallAtATime
<1> QED BY <1>1, <1>2 DEF Moves

\* A call that fails is answered.
LEMMA FailMoves ==
    ASSUME MarketTypes, NEW c \in Clients, CallFails(c)
    PROVE  Moves({calls[c].pc}) /\ UNCHANGED <<scene, today, users, cache>>
<1>1. Began(c) /\ Goto(c, Idle) /\ Idle.pc = "idle"
  BY IdleFormed DEF CallFails, Respond, Goto, Began
<1>2. UNCHANGED <<scene, today, users, cache>>
  BY DEF CallFails
<1> QED BY <1>1, <1>2 DEF Moves

\* One call at a time.
LEMMA SoloAlways == Spec => [](MarketTypes /\ WishInv /\ Solo)
<1>1. Init => Solo
  BY DEF Init, MarketInit, Solo
<1>2. ASSUME MarketTypes, WishInv, Solo, [Next]_vars PROVE Solo'
  <2>1. CASE AccountsNext
    BY <1>2, <2>1, AccountSteps, PaymentMoves, MovesSolo DEF UserStep
  <2>2. CASE ListingsNext
    BY <1>2, <2>2, ListingMoves, MovesSolo DEF listingsOnly
  <2>3. CASE WishListsNext
    BY <1>2, <2>3, WishMoves, MovesSolo DEF wishesOnly
  <2>4. ASSUME NEW c \in Clients, CallFails(c) PROVE Solo'
    BY <1>2, <2>4, FailMoves, MovesSolo
  <2>5. CASE NextDay \/ UNCHANGED marketVars
    BY <1>2, <2>5, MovesSolo DEF NextDay, marketVars
  <2> QED BY <1>2, <2>1, <2>2, <2>3, <2>4, <2>5 DEF Next, vars
<1> QED BY <1>1, <1>2, MarketTypesAlways, PTL DEF Spec

\* The scene stays.
LEMMA SceneStays ==
    ASSUME MarketTypes, WishInv, [Next]_vars
    PROVE  UNCHANGED scene
<1>1. CASE AccountsNext
  BY <1>1, AccountSteps, PaymentMoves DEF UserStep
<1>2. CASE ListingsNext
  BY <1>2, ListingMoves DEF listingsOnly
<1>3. CASE WishListsNext
  BY <1>3, WishMoves DEF wishesOnly
<1> QED BY <1>1, <1>2, <1>3 DEF Next, vars, CallFails, NextDay, marketVars

(***************************************************************************)
(* Listings a month apart                                                  *)
(***************************************************************************)
\* What badges and the status have nothing to do with.
AdsStay ==
    \A l \in ListingIds :
       listings'[l] # NoListing =>
           /\ listings[l] # NoListing
           /\ listings'[l].owner = listings[l].owner
           /\ listings'[l].pub = listings[l].pub

\* Calls of these places decide on dates.
SpacePcs == {"readOwner", "saveAd", "saveClone", "setOwnAd"}
CallsElsewhere ==
    \A d \in Clients : calls'[d] = calls[d] \/ calls'[d].pc \notin SpacePcs

Posting(c) == calls[c].pc \in {"readOwner", "saveAd"}

\* Neither a second tab nor a handler that copies or publishes again.
NothingElse ==
    ~scene.tabs /\ Never({"cloneSingleProduct", "updateUserProductById"})

\* Whoever is about to post a listing is alone in that, and its listings are
\* older than the shortest month, counted from the day that the new one bears.
SpaceRules ==
    /\ \A c, d \in Clients :
          Posting(c) /\ Posting(d) /\ calls[c].user = calls[d].user => c = d
    /\ \A c \in Clients :
          Posting(c) =>
              /\ calls[c].user \in UserIds
              /\ \A k \in AdsOf(calls[c].user) :
                    today > listings[k].pub + ShortestMonth
    /\ \A c \in Clients :
          calls[c].pc = "saveAd" =>
              /\ calls[c].ad.owner \in {calls[c].user, Nobody}
              /\ \A k \in AdsOf(calls[c].user) :
                    calls[c].ad.pub > listings[k].pub + ShortestMonth
    /\ \A c \in Clients : calls[c].pc \notin {"saveClone", "setOwnAd"}
    /\ \A k, l \in Listed :
          /\ k < l
          /\ listings[k].owner = listings[l].owner
          /\ listings[k].owner # Nobody
          => listings[l].pub > listings[k].pub + ShortestMonth

SpaceInv == NothingElse => SpaceRules

\* Days are numbers.
LEMMA DaysCount ==
    ASSUME MarketTypes
    PROVE  /\ today \in Nat /\ today \in FirstDay..LastDay
           /\ ShortestMonth \in Nat
           /\ \A l \in Listed : listings[l] \in Listing /\ listings[l].pub \in Nat
<1>1. FirstDay \in Nat /\ LastDay \in Nat
  BY MarketAssumption
<1>2. today \in Nat /\ today \in FirstDay..LastDay
  BY <1>1 DEF MarketTypes
<1>3. ShortestMonth \in Nat
  BY <1>2, CutoffRange
<1>4. ASSUME NEW l \in Listed
      PROVE  listings[l] \in Listing /\ listings[l].pub \in Nat
  <2>1. listings[l] \in Listing
    BY DEF Listed, MarketTypes, DocsTyped
  <2> QED BY <1>1, <2>1 DEF Listing, Days
<1> QED BY <1>2, <1>3, <1>4

\* Days pass, other calls go on, and listings change otherwise or go.
LEMMA RulesStay ==
    ASSUME MarketTypes, SpaceRules, AdsStay, CallsElsewhere,
           today' = today \/ today' = today + 1
    PROVE  SpaceRules'
<1>1. Listed' \subseteq Listed
  BY DEF AdsStay, Listed
<1>2. \A l \in Listed' : /\ listings'[l].owner = listings[l].owner
                         /\ listings'[l].pub = listings[l].pub
  BY DEF AdsStay, Listed
<1>3. ASSUME NEW c \in Clients, calls'[c].pc \in SpacePcs
      PROVE  calls'[c] = calls[c]
  BY <1>3 DEF CallsElsewhere
<1>4. ASSUME NEW c \in Clients, Posting(c)'
      PROVE  Posting(c) /\ calls'[c] = calls[c]
  BY <1>3, <1>4 DEF Posting, SpacePcs
<1>5. ASSUME NEW c \in Clients, Posting(c)', NEW k \in AdsOf(calls[c].user)'
      PROVE  today' > listings'[k].pub + ShortestMonth
  <2>1. k \in AdsOf(calls[c].user) /\ listings'[k].pub = listings[k].pub
    BY <1>1, <1>2, <1>4, <1>5 DEF AdsOf
  <2>2. today > listings[k].pub + ShortestMonth
    BY <1>4, <1>5, <2>1 DEF SpaceRules
  <2>3. today \in Nat /\ ShortestMonth \in Nat /\ listings[k].pub \in Nat
    BY <2>1, DaysCount DEF AdsOf
  <2> QED BY <2>1, <2>2, <2>3
<1>6. \A c \in Clients : Posting(c)' => calls'[c].user \in UserIds
  BY <1>4 DEF SpaceRules
<1>7. \A c, d \in Clients :
         Posting(c)' /\ Posting(d)' /\ calls'[c].user = calls'[d].user => c = d
  BY <1>4 DEF SpaceRules
<1>8. ASSUME NEW c \in Clients
      PROVE  /\ calls'[c].pc = "saveAd" =>
                    /\ calls'[c].ad.owner \in {calls'[c].user, Nobody}
                    /\ \A k \in AdsOf(calls[c].user)' :
                          calls'[c].ad.pub > listings'[k].pub + ShortestMonth
             /\ calls'[c].pc \notin {"saveClone", "setOwnAd"}
  <2>1. CASE calls'[c].pc = "saveAd"
    <3>1. calls'[c] = calls[c]
      BY <1>3, <2>1 DEF SpacePcs
    <3>2. \A k \in AdsOf(calls[c].user)' : /\ k \in AdsOf(calls[c].user)
                                           /\ listings'[k].pub = listings[k].pub
      BY <1>1, <1>2, <3>1 DEF AdsOf
    <3> QED BY <2>1, <3>1, <3>2 DEF SpaceRules
  <2> QED BY <1>3, <2>1 DEF SpaceRules, SpacePcs
<1>9. ASSUME NEW k \in Listed', NEW l \in Listed', k < l,
             listings'[k].owner = listings'[l].owner,
             listings'[k].owner # Nobody
      PROVE  listings'[l].pub > listings'[k].pub + ShortestMonth
  BY <1>1, <1>2, <1>9 DEF SpaceRules
<1> QED BY <1>5, <1>6, <1>7, <1>8, <1>9 DEF SpaceRules

\* A listing is saved that is nobody's, or that of the user who posts it.
LEMMA RulesForNew ==
    ASSUME MarketTypes, SpaceRules, NEW ad \in Listing, SaveListing(ad),
           CallsElsewhere, UNCHANGED today,
           \/ ad.owner = Nobody
           \/ \E c \in Clients : /\ Posting(c) /\ calls'[c].pc \notin SpacePcs
                                 /\ ad.owner = calls[c].user
                                 /\ \A k \in AdsOf(ad.owner) :
                                       ad.pub > listings[k].pub + ShortestMonth
    PROVE  SpaceRules'
<1>1. \A l \in ListingIds :
         listings'[l] = IF l = born + 1 THEN ad ELSE listings[l]
  BY DEF SaveListing, MarketTypes, DocsTyped
<1>2. ad # NoListing /\ born \in Nat /\ \A l \in Listed : l <= born
  BY MarketAssumption DEF MarketTypes
<1>3. ASSUME NEW l \in Listed'
      PROVE  \/ l = born + 1 /\ listings'[l] = ad
             \/ l \in Listed /\ listings'[l] = listings[l] /\ l <= born
  BY <1>1, <1>2, <1>3 DEF Listed
<1>4. ASSUME NEW c \in Clients, calls'[c].pc \in SpacePcs
      PROVE  calls'[c] = calls[c]
  BY <1>4 DEF CallsElsewhere
<1>5. ASSUME NEW c \in Clients, Posting(c)'
      PROVE  Posting(c) /\ calls'[c] = calls[c]
  BY <1>4, <1>5 DEF Posting, SpacePcs
<1>6. ASSUME NEW c \in Clients, Posting(c)', NEW k \in AdsOf(calls[c].user)'
      PROVE  /\ today' > listings'[k].pub + ShortestMonth
             /\ calls'[c].pc = "saveAd" =>
                    calls'[c].ad.pub > listings'[k].pub + ShortestMonth
  <2>1. ad.owner # calls[c].user
    <3>1. CASE ad.owner = Nobody
      BY <1>5, <1>6, <3>1, MarketAssumption DEF SpaceRules
    <3>2. ASSUME NEW d \in Clients, Posting(d), calls'[d].pc \notin SpacePcs,
                 ad.owner = calls[d].user
          PROVE  ad.owner # calls[c].user
      <4>1. c # d
        BY <1>6, <3>2 DEF Posting, SpacePcs
      <4> QED BY <1>5, <1>6, <3>2, <4>1 DEF SpaceRules
    <3> QED BY <3>1, <3>2
  <2>2. k \in AdsOf(calls[c].user) /\ listings'[k] = listings[k]
    BY <1>3, <1>5, <1>6, <2>1 DEF AdsOf
  <2> QED BY <1>5, <1>6, <2>2 DEF SpaceRules
<1>7. \A c \in Clients : Posting(c)' => calls'[c].user \in UserIds
  BY <1>5 DEF SpaceRules
<1>8. \A c, d \in Clients :
         Posting(c)' /\ Posting(d)' /\ calls'[c].user = calls'[d].user => c = d
  BY <1>5 DEF SpaceRules
<1>9. \A c \in Clients :
         /\ calls'[c].pc = "saveAd" =>
                /\ calls'[c].ad.owner \in {calls'[c].user, Nobody}
                /\ \A k \in AdsOf(calls[c].user)' :
                      calls'[c].ad.pub > listings'[k].pub + ShortestMonth
         /\ calls'[c].pc \notin {"saveClone", "setOwnAd"}
  BY <1>4, <1>6 DEF SpaceRules, SpacePcs, Posting
<1>10. ASSUME NEW k \in Listed', NEW l \in Listed', k < l,
              listings'[k].owner = listings'[l].owner,
              listings'[k].owner # Nobody
       PROVE  listings'[l].pub > listings'[k].pub + ShortestMonth
  <2>1. k \in Nat /\ l \in Nat
    BY DEF Listed, ListingIds
  <2>2. k \in Listed /\ listings'[k] = listings[k]
    BY <1>2, <1>3, <1>10, <2>1
  <2>3. CASE l \in Listed /\ listings'[l] = listings[l]
    BY <1>10, <2>2, <2>3 DEF SpaceRules
  <2>4. CASE listings'[l] = ad
    <3>1. \A j \in AdsOf(ad.owner) : ad.pub > listings[j].pub + ShortestMonth
      BY <1>10, <2>4
    <3>2. k \in AdsOf(ad.owner)
      BY <1>10, <2>2, <2>4 DEF AdsOf
    <3> QED BY <2>2, <2>4, <3>1, <3>2
  <2> QED BY <1>3, <2>3, <2>4
<1> QED BY <1>6, <1>7, <1>8, <1>9, <1>10 DEF SpaceRules

\* Only the client's own call changes.
LEMMA OneElsewhere ==
    ASSUME MarketTypes, NEW c \in Clients, NEW call, Goto(c, call),
           call.pc \notin SpacePcs
    PROVE  CallsElsewhere
BY DEF Goto, MarketTypes, CallsElsewhere

\* A call that is answered decides on no date.
LEMMA AnsweredElsewhere ==
    ASSUME MarketTypes, NEW c \in Clients, Respond(c)
    PROVE  CallsElsewhere /\ calls'[c].pc \notin SpacePcs
<1>1. Goto(c, Idle) /\ Idle.pc \notin SpacePcs
  BY IdleFormed DEF Respond, Goto, SpacePcs
<1>2. calls'[c] = Idle
  BY <1>1 DEF Goto, MarketTypes
<1> QED BY <1>1, <1>2, OneElsewhere

\* The other handlers.
LEMMA MovesElsewhere ==
    ASSUME MarketTypes, NEW pcs, Moves(pcs), pcs \intersect SpacePcs = {}
    PROVE  CallsElsewhere
<1>1. PICK c \in Clients :
        \E call : Goto(c, call) /\ call.pc \in pcs \union {"idle"}
  BY DEF Moves
<1>2. PICK call : Goto(c, call) /\ call.pc \in pcs \union {"idle"}
  BY <1>1
<1>3. call.pc \notin SpacePcs
  BY <1>2 DEF SpacePcs
<1> QED BY <1>2, <1>3, OneElsewhere

\* What a change of the status, of the date or of the existence leaves alone.
AdsKept ==
    \A l \in ListingIds :
       listings'[l] # NoListing =>
           /\ listings[l] # NoListing
           /\ listings'[l].owner = listings[l].owner
           /\ listings'[l].badge = listings[l].badge
           /\ listings'[l].vip = listings[l].vip
           /\ listings'[l].served = listings[l].served

\* Handlers that change listings or take them away.
Edit(c) ==
    \/ SetAd(c) \/ RemoveAd(c)
    \/ \E S \in SUBSET Listed :
          \/ \E status \in Statuses : UpdateMultipleProductById(c, S, status)
          \/ DeleteMultipleProductById(c, S)
    \/ \E deleteMany \in BOOLEAN : InsertManyProduct(c, deleteMany)

\* Handlers that look for a listing to change.
LookFor(c) ==
    \E l \in Listed :
       \/ DeleteProductById(c, l)
       \/ \E u \in UserIds : DeleteUserProductById(c, u, l)
       \/ \E status \in Statuses : UpdateProductById(c, l, status)

\* A new status leaves the rest of a listing.
LEMMA EditsKept ==
    ASSUME MarketTypes, NEW c \in Clients, Edit(c) \/ SetOwnAd(c)
    PROVE  /\ AdsKept
           /\ Edit(c) => AdsStay
           /\ UNCHANGED <<scene, today, users, cache, born, paid>>
<1>1. \A l \in Listed : listings[l] \in Listing
  BY DEF Listed, MarketTypes, DocsTyped
<1>2. ASSUME NEW S, NEW status, SetStatus(S, status) PROVE AdsKept /\ AdsStay
  <2>1. ASSUME NEW l \in ListingIds, listings'[l] # NoListing
        PROVE  /\ listings[l] # NoListing
               /\ \/ listings'[l] = listings[l]
                  \/ listings'[l] = [listings[l] EXCEPT !.status = status]
    BY <1>2, <2>1 DEF SetStatus, Listed
  <2>2. ASSUME NEW l \in ListingIds, listings'[l] # NoListing
        PROVE  /\ listings'[l].owner = listings[l].owner
               /\ listings'[l].pub = listings[l].pub
               /\ listings'[l].badge = listings[l].badge
               /\ listings'[l].vip = listings[l].vip
               /\ listings'[l].served = listings[l].served
    <3>1. listings[l] \in Listing
      BY <1>1, <2>1, <2>2 DEF Listed
    <3> QED BY <2>1, <2>2, <3>1 DEF Listing
  <2> QED BY <2>1, <2>2 DEF AdsKept, AdsStay
<1>3. CASE SetAd(c)
  BY <1>2, <1>3 DEF SetAd, listingsOnly
<1>4. CASE RemoveAd(c)
  <2>1. ASSUME NEW l \in ListingIds, listings'[l] # NoListing
        PROVE  listings'[l] = listings[l]
    BY <1>4, <2>1 DEF RemoveAd, MarketTypes, DocsTyped
  <2> QED BY <1>4, <2>1 DEF RemoveAd, AdsKept, AdsStay, listingsOnly
<1>5. ASSUME NEW S, NEW status,
             \/ UpdateMultipleProductById(c, S, status)
             \/ DeleteMultipleProductById(c, S)
      PROVE  /\ AdsKept /\ AdsStay
             /\ UNCHANGED <<scene, today, users, cache, born, paid>>
  BY <1>2, <1>5
     DEF UpdateMultipleProductById, DeleteMultipleProductById, listingsOnly
<1>6. ASSUME NEW deleteMany, InsertManyProduct(c, deleteMany)
      PROVE  /\ AdsKept /\ AdsStay
             /\ UNCHANGED <<scene, today, users, cache, born, paid>>
  <2>1. \A l \in ListingIds : listings'[l] # NoListing =>
                                  listings'[l] = listings[l]
    BY <1>6 DEF InsertManyProduct, MarketTypes, DocsTyped
  <2> QED BY <1>6, <2>1 DEF InsertManyProduct, AdsKept, AdsStay, listingsOnly
<1>7. CASE SetOwnAd(c)
  <2>1. ~Edit(c) \/ AdsStay
    BY <1>3, <1>4, <1>5, <1>6 DEF Edit
  <2>2. ASSUME NEW l \in ListingIds, listings'[l] # NoListing
        PROVE  /\ listings[l] # NoListing
               /\ \/ listings'[l] = listings[l]
                  \/ \E pub : listings'[l] =
                        [listings[l] EXCEPT !.status = calls[c].status, !.pub = pub]
    BY <1>7, <2>2 DEF SetOwnAd, Listed
  <2>3. ASSUME NEW l \in ListingIds, listings'[l] # NoListing
        PROVE  /\ listings'[l].owner = listings[l].owner
               /\ listings'[l].badge = listings[l].badge
               /\ listings'[l].vip = listings[l].vip
               /\ listings'[l].served = listings[l].served
    <3>1. listings[l] \in Listing
      BY <1>1, <2>2, <2>3 DEF Listed
    <3> QED BY <2>2, <2>3, <3>1 DEF Listing
  <2> QED BY <1>7, <2>1, <2>2, <2>3 DEF SetOwnAd, AdsKept, listingsOnly
<1> QED BY <1>3, <1>4, <1>5, <1>6, <1>7 DEF Edit

\* The steps of the listings: a listing is created, changed or looked for.
LEMMA ListingSteps ==
    ASSUME ListingsNext
    PROVE  \E c \in Clients :
              \/ ReadOwner(c) \/ SaveAd(c) \/ SaveClone(c) \/ InsertAds(c)
              \/ \E status \in Statuses \ {"deleted"} :
                    \/ \E pub \in {0, today} : AddProduct(c, status, pub)
                    \/ \E u \in UserIds : AddProductByUser(c, u, status)
                    \/ \E u \in UserIds, l \in Listed :
                          UpdateUserProductById(c, u, l, status)
              \/ \E l \in Listed : CloneSingleProduct(c, l)
              \/ SetOwnAd(c) \/ Edit(c) \/ LookFor(c)
BY DEF ListingsNext, ContinueListing, Edit, LookFor

\* The accounts leave owners and dates alone.
LEMMA UserStepStays ==
    ASSUME MarketTypes, UserStep \/ \E c \in Clients : Payment(c)
    PROVE  AdsStay
<1>1. \A l \in Listed : listings[l] \in Listing
  BY DEF Listed, MarketTypes, DocsTyped
<1>2. CASE UNCHANGED listings
  BY <1>2 DEF AdsStay
<1>3. ASSUME NEW l \in ListingIds, listings[l] # NoListing,
             \/ \E badge : listings'[l] = [listings[l] EXCEPT !.badge = badge]
             \/ \E vip : listings'[l] = [listings[l] EXCEPT !.vip = vip]
             \/ listings'[l] = listings[l]
      PROVE  /\ listings'[l].owner = listings[l].owner
             /\ listings'[l].pub = listings[l].pub
  <2>1. listings[l] \in Listing
    BY <1>1, <1>3 DEF Listed
  <2> QED BY <1>3, <2>1 DEF Listing
<1>4. ASSUME NEW c \in Clients, SetBadge(c) \/ ExtendVip(c)
      PROVE  AdsStay
  <2>1. ASSUME NEW l \in ListingIds, listings'[l] # NoListing
        PROVE  /\ listings[l] # NoListing
               /\ \/ \E badge : listings'[l] = [listings[l] EXCEPT !.badge = badge]
                  \/ \E vip : listings'[l] = [listings[l] EXCEPT !.vip = vip]
                  \/ listings'[l] = listings[l]
    BY <1>4, <2>1 DEF SetBadge, ExtendVip, Badged, Listed
  <2> QED BY <1>3, <2>1 DEF AdsStay
<1>5. ASSUME NEW c \in Clients, Payment(c) PROVE AdsStay
  BY <1>2, <1>4, <1>5 DEF Payment, ActivateVip, Pay, FindLatestAd
<1> QED BY <1>2, <1>4, <1>5 DEF UserStep

\* Posting a listing.
LEMMA PostKeepsRules ==
    ASSUME MarketTypes, NothingElse, SpaceRules, NEW c \in Clients,
           NEW u \in UserIds, NEW status, AddProductByUser(c, u, status)
    PROVE  SpaceRules'
<1> DEFINE call == [Idle EXCEPT !.pc = "readOwner", !.user = u,
                                !.status = status]
<1>1. call.pc = "readOwner" /\ call.user = u
  BY IdleFormed
<1>2. /\ Goto(c, call) /\ RecentOf(u) = {}
      /\ UNCHANGED <<today, listings, born>>
      /\ \A d \in Clients : calls[d].user # u
  BY DEF AddProductByUser, MayAsk, NothingElse, listingsOnly
<1> HIDE DEF call
<1>3. /\ calls'[c] = call
      /\ \A d \in Clients : d # c => calls'[d] = calls[d]
  BY <1>2 DEF Goto, MarketTypes
<1>4. ASSUME NEW k \in AdsOf(u)
      PROVE  today > listings[k].pub + ShortestMonth
  <2>1. k \in Listed /\ ~(listings[k].pub >= Cutoff)
    BY <1>2 DEF RecentOf, Recent, AdsOf
  <2>2. today \in Nat /\ ShortestMonth \in Nat /\ listings[k].pub \in Nat
    BY <2>1, DaysCount
  <2>3. Cutoff \in Int /\ Cutoff <= today - ShortestMonth
    BY DaysCount, CutoffRange
  <2> QED BY <2>1, <2>2, <2>3
<1>5. Listed' = Listed
  BY <1>2 DEF Listed
<1>6. \A d \in Clients : Posting(d)' => d = c \/ Posting(d)
  BY <1>3 DEF Posting
<1>7. ASSUME NEW d \in Clients, Posting(d)'
      PROVE  /\ calls'[d].user \in UserIds
             /\ \A k \in AdsOf(calls[d].user)' :
                   today' > listings'[k].pub + ShortestMonth
  <2>1. CASE d = c
    <3>1. calls'[d].user = u /\ AdsOf(calls[d].user)' = AdsOf(u)
      BY <1>1, <1>2, <1>3, <1>5, <2>1 DEF AdsOf
    <3> QED BY <1>2, <1>4, <3>1
  <2>2. CASE d # c
    <3>1. /\ Posting(d) /\ calls'[d].user = calls[d].user
          /\ AdsOf(calls[d].user)' = AdsOf(calls[d].user)
      BY <1>2, <1>3, <1>5, <1>6, <1>7, <2>2 DEF AdsOf
    <3> QED BY <1>2, <3>1 DEF SpaceRules
  <2> QED BY <2>1, <2>2
<1>8. ASSUME NEW d \in Clients, NEW e \in Clients, Posting(d)', Posting(e)',
             calls'[d].user = calls'[e].user
      PROVE  d = e
  BY <1>1, <1>2, <1>3, <1>6, <1>8 DEF SpaceRules
<1>9. ASSUME NEW d \in Clients
      PROVE  /\ calls'[d].pc = "saveAd" =>
                    /\ calls'[d].ad.owner \in {calls'[d].user, Nobody}
                    /\ \A k \in AdsOf(calls[d].user)' :
                          calls'[d].ad.pub > listings'[k].pub + ShortestMonth
             /\ calls'[d].pc \notin {"saveClone", "setOwnAd"}
  <2>1. d # c => AdsOf(calls[d].user)' = AdsOf(calls[d].user)
    BY <1>2, <1>3, <1>5 DEF AdsOf
  <2> QED BY <1>1, <1>2, <1>3, <2>1 DEF SpaceRules
<1> QED BY <1>2, <1>5, <1>7, <1>8, <1>9 DEF SpaceRules

\* The owner is read.
LEMMA ReadOwnerKeepsRules ==
    ASSUME MarketTypes, SpaceRules, NEW c \in Clients, ReadOwner(c)
    PROVE  SpaceRules'
<1> DEFINE call(ad) == [calls[c] EXCEPT !.pc = "saveAd", !.ad = ad]
<1>1. calls[c].pc = "readOwner" /\ calls[c] \in Call
  BY DEF ReadOwner, MarketTypes
<1>2. \A ad : /\ call(ad).pc = "saveAd" /\ call(ad).user = calls[c].user
              /\ call(ad).ad = ad
  BY <1>1 DEF Call
<1>3. PICK ad : /\ Goto(c, call(ad)) /\ ad.owner \in {calls[c].user, Nobody}
                /\ ad.pub = today
  <2> DEFINE own == [NewAd EXCEPT !.status = calls[c].status, !.pub = today,
                                  !.owner = calls[c].user,
                                  !.badge = users[calls[c].user].verified]
             none == [NewAd EXCEPT !.status = calls[c].status, !.pub = today]
  <2>1. /\ own.owner = calls[c].user /\ none.owner = Nobody
        /\ own.pub = today /\ none.pub = today
    BY DEF NewAd
  <2>2. Goto(c, call(own)) \/ Goto(c, call(none))
    BY DEF ReadOwner
  <2> HIDE DEF own, none, call
  <2> QED BY <2>1, <2>2
<1> HIDE DEF call
<1>4. /\ calls'[c] = call(ad)
      /\ \A d \in Clients : d # c => calls'[d] = calls[d]
  BY <1>3 DEF Goto, MarketTypes
<1>5. /\ Posting(c)
      /\ \A d \in Clients : /\ Posting(d)' => Posting(d)
                            /\ calls'[d].user = calls[d].user
  BY <1>1, <1>2, <1>4 DEF Posting
<1>6. UNCHANGED <<today, listings>>
  BY DEF ReadOwner, listingsOnly
<1>7. Listed' = Listed
  BY <1>6 DEF Listed
<1>8. ASSUME NEW d \in Clients
      PROVE  /\ calls'[d].pc = "saveAd" =>
                    /\ calls'[d].ad.owner \in {calls'[d].user, Nobody}
                    /\ \A k \in AdsOf(calls[d].user)' :
                          calls'[d].ad.pub > listings'[k].pub + ShortestMonth
             /\ calls'[d].pc \notin {"saveClone", "setOwnAd"}
  <2>1. AdsOf(calls[d].user)' = AdsOf(calls[d].user)
    BY <1>5, <1>6, <1>7 DEF AdsOf
  <2>2. CASE d = c
    <3>1. calls'[d].ad.pub = today /\ calls'[d].ad.owner \in {calls[d].user, Nobody}
      BY <1>2, <1>3, <1>4, <2>2
    <3> QED BY <1>2, <1>4, <1>5, <1>6, <2>1, <2>2, <3>1 DEF SpaceRules
  <2>3. CASE d # c
    BY <1>4, <1>6, <2>1, <2>3 DEF SpaceRules
  <2> QED BY <2>2, <2>3
<1>9. \A d \in Clients :
         Posting(d)' => /\ calls'[d].user \in UserIds
                        /\ \A k \in AdsOf(calls[d].user)' :
                              today' > listings'[k].pub + ShortestMonth
  <2> SUFFICES ASSUME NEW d \in Clients, Posting(d)'
               PROVE  /\ calls'[d].user \in UserIds
                      /\ \A k \in AdsOf(calls[d].user)' :
                            today' > listings'[k].pub + ShortestMonth
    OBVIOUS
  <2>1. /\ Posting(d) /\ calls'[d].user = calls[d].user
        /\ AdsOf(calls[d].user)' = AdsOf(calls[d].user)
    BY <1>5, <1>6, <1>7 DEF AdsOf
  <2> QED BY <1>6, <2>1 DEF SpaceRules
<1>10. \A d, e \in Clients :
          Posting(d)' /\ Posting(e)' /\ calls'[d].user = calls'[e].user => d = e
  BY <1>5 DEF SpaceRules
<1> QED BY <1>6, <1>7, <1>8, <1>9, <1>10 DEF SpaceRules

\* The listing is saved, with the day it bears.
LEMMA SaveAdKeepsRules ==
    ASSUME MarketTypes, SpaceRules, NEW c \in Clients, SaveAd(c)
    PROVE  SpaceRules'
<1> DEFINE ad == calls[c].ad
<1>1. calls[c].pc = "saveAd" /\ ad \in Listing /\ Posting(c)
  BY DEF SaveAd, MarketTypes, CallFits, Posting
<1>2. SaveListing(ad) /\ Respond(c) /\ UNCHANGED today
  BY DEF SaveAd, listingsOnly
<1>3. CallsElsewhere /\ calls'[c].pc \notin SpacePcs
  BY <1>2, AnsweredElsewhere
<1>4. /\ ad.owner \in {calls[c].user, Nobody}
      /\ \A k \in AdsOf(calls[c].user) :
            ad.pub > listings[k].pub + ShortestMonth
  BY <1>1 DEF SpaceRules
<1> HIDE DEF ad
<1> QED BY <1>1, <1>2, <1>3, <1>4, RulesForNew

\* Every step of the listings.
LEMMA ListingsKeepRules ==
    ASSUME MarketTypes, NothingElse, SpaceRules, ListingsNext
    PROVE  SpaceRules'
<1>1. ASSUME NEW c \in Clients, NEW status \in Statuses, NEW pub \in {0, today},
             AddProduct(c, status, pub)
      PROVE  SpaceRules'
  <2> DEFINE ad == [NewAd EXCEPT !.status = status, !.pub = pub]
  <2>1. ad \in Listing
    BY NewAdTyped
  <2>2. ad.owner = Nobody
    BY DEF NewAd
  <2>3. SaveListing(ad) /\ UNCHANGED <<today, calls>>
    BY <1>1 DEF AddProduct, listingsOnly
  <2> HIDE DEF ad
  <2> QED BY <2>1, <2>2, <2>3, RulesForNew DEF CallsElsewhere
<1>2. ASSUME NEW c \in Clients, InsertAds(c) PROVE SpaceRules'
  <2> DEFINE ad(status, pub) == [NewAd EXCEPT !.status = status, !.pub = pub]
  <2>1. \A status \in Statuses, pub \in {0, today} : ad(status, pub) \in Listing
    BY NewAdTyped
  <2>2. \A status, pub : ad(status, pub).owner = Nobody
    BY DEF NewAd
  <2>3. /\ \E status \in Statuses, pub \in {0, today} :
              SaveListing(ad(status, pub))
        /\ Respond(c) /\ UNCHANGED today
    BY <1>2 DEF InsertAds, listingsOnly
  <2> HIDE DEF ad
  <2>4. CallsElsewhere
    BY <2>3, AnsweredElsewhere
  <2> QED BY <2>1, <2>2, <2>3, <2>4, RulesForNew
<1>3. ASSUME NEW c \in Clients, Edit(c) PROVE SpaceRules'
  <2>1. AdsStay /\ UNCHANGED today
    BY <1>3, EditsKept
  <2>2. CallsElsewhere
    <3>1. CASE UNCHANGED calls
      BY <3>1 DEF CallsElsewhere
    <3>2. CASE Respond(c)
      BY <3>2, AnsweredElsewhere
    <3>3. CASE Goto(c, [Idle EXCEPT !.pc = "insertAds"])
      <4>1. [Idle EXCEPT !.pc = "insertAds"].pc = "insertAds"
        BY IdleFormed
      <4> QED BY <3>3, <4>1, OneElsewhere DEF SpacePcs
    <3> QED BY <1>3, <3>1, <3>2, <3>3 DEF Edit, SetAd, RemoveAd,
            UpdateMultipleProductById, DeleteMultipleProductById,
            InsertManyProduct
  <2> QED BY <2>1, <2>2, RulesStay
<1>4. ASSUME NEW c \in Clients, LookFor(c) PROVE SpaceRules'
  <2>1. PICK l \in Listed, pc \in {"setAd", "removeAd"}, status \in Statuses :
            Look(c, l, pc, status)
    <3>1. ASSUME NEW l \in Listed, NEW status \in Statuses,
                 Look(c, l, "setAd", status) \/ Look(c, l, "removeAd", status)
          PROVE  \E pc \in {"setAd", "removeAd"} : Look(c, l, pc, status)
      BY <3>1
    <3>2. "deleted" \in Statuses
      BY DEF Statuses
    <3> QED BY <1>4, <3>1, <3>2 DEF LookFor, DeleteProductById,
            DeleteUserProductById, UpdateProductById
  <2> DEFINE call == [Idle EXCEPT !.pc = pc, !.listing = l, !.status = status,
                                  !.date = PublishDay(pc, status)]
  <2>2. call.pc = pc /\ Goto(c, call) /\ UNCHANGED <<today, listings>>
    BY <2>1, IdleFormed DEF Look, listingsOnly
  <2> HIDE DEF call
  <2>3. CallsElsewhere
    BY <2>2, OneElsewhere DEF SpacePcs
  <2>4. AdsStay
    BY <2>2 DEF AdsStay
  <2> QED BY <2>2, <2>3, <2>4, RulesStay
<1>5. ASSUME NEW c \in Clients, SaveClone(c) \/ SetOwnAd(c) PROVE FALSE
  BY <1>5 DEF SaveClone, SetOwnAd, SpaceRules
<1>6. ASSUME NEW c \in Clients, NEW u, NEW l, NEW status,
             \/ CloneSingleProduct(c, l)
             \/ UpdateUserProductById(c, u, l, status)
      PROVE  FALSE
  BY <1>6 DEF CloneSingleProduct, UpdateUserProductById, MayAsk, MayCall,
     NothingElse, Never
<1> QED BY <1>1, <1>2, <1>3, <1>4, <1>5, <1>6, ListingSteps, PostKeepsRules,
        ReadOwnerKeepsRules, SaveAdKeepsRules

\* A user who waits for each answer, and neither copies a listing nor publishes
\* one again, posts no two within the shortest month: what addProductByUser
\* found before it read the owner still holds when it saves, over midnight and
\* whatever administrators and other users do in between.
THEOREM SpacedAdsAlways == Spec => []SpacedAds
<1>1. Init => SpaceInv
  <2> SUFFICES ASSUME Init PROVE SpaceRules
    BY DEF SpaceInv
  <2>1. /\ calls = [c \in Clients |-> Idle] /\ scene \in Scenes
        /\ Len(scene.ads) \in Nat
        /\ listings = [l \in ListingIds |-> IF l <= Len(scene.ads)
                                              THEN scene.ads[l] ELSE NoListing]
    <3>1. scene \in Scenes
      BY DEF Init, MarketInit
    <3>2. scene.ads \in Seq(Listing)
      BY <3>1, SceneAssumption DEF Scene
    <3> QED BY <3>1, <3>2 DEF Init, MarketInit
  <2>2. \A c \in Clients : calls[c].pc = "idle"
    BY <2>1, IdleFormed
  <2>3. ASSUME NEW k \in Listed, NEW l \in Listed, k < l,
               listings[k].owner = listings[l].owner,
               listings[k].owner # Nobody
        PROVE  listings[l].pub > listings[k].pub + ShortestMonth
    <3>1. /\ k \in 1..Len(scene.ads) /\ listings[k] = scene.ads[k]
          /\ l \in 1..Len(scene.ads) /\ listings[l] = scene.ads[l]
      BY <2>1 DEF Listed, ListingIds
    <3>2. listings[l].owner \in UserIds
      <4>1. scene.ads \in Seq(Listing)
        BY <2>1, SceneAssumption DEF Scene
      <4>2. scene.ads[l] \in Listing
        BY <3>1, <4>1, ElementOfSeq
      <4> QED BY <2>3, <3>1, <4>2 DEF Listing
    <3> QED BY <2>1, <2>3, <3>1, <3>2, SceneAssumption
  <2> QED BY <2>2, <2>3 DEF SpaceRules, Posting
<1>2. ASSUME MarketTypes, WishInv, SpaceInv, [Next]_vars PROVE SpaceInv'
  <2>1. CASE AccountsNext
    <3>1. UserStep \/ \E c \in Clients : Payment(c)
      BY <1>2, <2>1, AccountSteps
    <3>2. AdsStay
      BY <1>2, <3>1, UserStepStays
    <3>3. UNCHANGED <<scene, today>> /\ CallsElsewhere
      <4>1. CASE UserStep
        BY <1>2, <4>1, MovesElsewhere
           DEF UserStep, CallsElsewhere, UserPcs, SpacePcs
      <4>2. ASSUME NEW c \in Clients, Payment(c)
            PROVE  UNCHANGED <<scene, today>> /\ CallsElsewhere
        BY <1>2, <4>2, PaymentMoves, MovesElsewhere DEF PaymentPcs, SpacePcs
      <4> QED BY <3>1, <4>1, <4>2
    <3> QED BY <1>2, <3>2, <3>3, RulesStay DEF SpaceInv, NothingElse, Never
  <2>2. CASE ListingsNext
    <3>1. UNCHANGED scene
      BY <1>2, <2>2, ListingMoves DEF listingsOnly
    <3> QED BY <1>2, <2>2, <3>1, ListingsKeepRules
            DEF SpaceInv, NothingElse, Never
  <2>3. CASE WishListsNext
    <3>1. UNCHANGED <<scene, today, listings>> /\ CallsElsewhere
      BY <1>2, <2>3, WishMoves, MovesElsewhere
         DEF wishesOnly, CallsElsewhere, WishPcs, SpacePcs
    <3>2. AdsStay
      BY <3>1 DEF AdsStay
    <3> QED BY <1>2, <3>1, <3>2, RulesStay DEF SpaceInv, NothingElse, Never
  <2>4. ASSUME NEW c \in Clients, CallFails(c) PROVE SpaceInv'
    <3>1. UNCHANGED <<scene, today, listings>> /\ CallsElsewhere
      BY <1>2, <2>4, AnsweredElsewhere DEF CallFails
    <3>2. AdsStay
      BY <3>1 DEF AdsStay
    <3> QED BY <1>2, <3>1, <3>2, RulesStay DEF SpaceInv, NothingElse, Never
  <2>5. CASE NextDay
    <3>1. UNCHANGED <<scene, calls>> /\ today' = today + 1
      BY <2>5 DEF NextDay
    <3>2. AdsStay
      <4>1. \A l \in Listed : listings[l] \in Listing
        BY <1>2 DEF Listed, MarketTypes, DocsTyped
      <4>2. ASSUME NEW l \in ListingIds
            PROVE  \/ listings'[l] = listings[l]
                   \/ /\ listings[l] # NoListing
                      /\ \E n : listings'[l] = [listings[l] EXCEPT !.served = n]
        BY <2>5 DEF NextDay, Served
      <4>3. ASSUME NEW l \in ListingIds, listings[l] # NoListing, NEW n,
                   listings'[l] = [listings[l] EXCEPT !.served = n]
            PROVE  /\ listings'[l].owner = listings[l].owner
                   /\ listings'[l].pub = listings[l].pub
        <5>1. listings[l] \in Listing
          BY <4>1, <4>3 DEF Listed
        <5> QED BY <4>3, <5>1 DEF Listing
      <4> QED BY <4>2, <4>3 DEF AdsStay
    <3> QED BY <1>2, <3>1, <3>2, RulesStay
            DEF SpaceInv, NothingElse, Never, CallsElsewhere
  <2>6. CASE UNCHANGED marketVars
    <3>1. UNCHANGED <<scene, today, listings, calls>>
      BY <2>6 DEF marketVars
    <3> QED BY <1>2, <3>1, RulesStay
            DEF SpaceInv, NothingElse, Never, CallsElsewhere, AdsStay
  <2> QED BY <1>2, <2>1, <2>2, <2>3, <2>4, <2>5, <2>6 DEF Next, vars
<1>3. SpaceInv => SpacedAds
  BY DEF SpaceInv, SpaceRules, SpacedAds, NothingElse
<1> QED BY <1>1, <1>2, <1>3, MarketTypesAlways, PTL DEF Spec

(***************************************************************************)
(* The cached list of users                                                *)
(***************************************************************************)
\* The list of all users, and what the cache may hold of it.
RowsIn(us) == {[id |-> u, name |-> us[u].name, verified |-> us[u].verified] :
                  u \in LiveIn(us)}
Fresh(us, ca) == /\ ca.data \in {NoData, RowsIn(us)}
                 /\ ca.count \in {NoData, Cardinality(LiveIn(us))}

\* Where a call has changed the users, it has still to drop the cache; where it
\* has still to change them, the cache is empty.
FreshAt(call, us, ca) ==
    /\ call.pc \notin {"uncache", "uncount"} => Fresh(us, ca)
    /\ call.pc = "uncount" => ca.data = NoData
    /\ call.pc \in {"setBadge", "setUser"} => ca.data = NoData /\ ca.count = NoData
    /\ call.pc \in {"listCount", "aggregate"} => call.name = NoName
    /\ call.pc \in {"keepList", "keepCount"} => call.rows = RowsIn(us)

FreshRules ==
    /\ Quiet => Fresh(users, cache)
    /\ \A c \in Clients : calls[c] # Idle => FreshAt(calls[c], users, cache)

NoSearch == OneCallAtATime /\ ~scene.fails /\ Never({"searchUsers"})
FreshInv == NoSearch => FreshRules

\* A list has as many rows as there are users.
LEMMA RowsCounted ==
    ASSUME NEW us
    PROVE  Cardinality(RowsIn(us)) = Cardinality(LiveIn(us))
<1> DEFINE row(u) == [id |-> u, name |-> us[u].name, verified |-> us[u].verified]
           f == [u \in LiveIn(us) |-> row(u)]
<1>1. IsFiniteSet(LiveIn(us))
  BY MarketAssumption, FS_Subset DEF LiveIn
<1>2. \A u : row(u).id = u
  OBVIOUS
<1>3. f \in Bijection(LiveIn(us), RowsIn(us))
  <2>1. \A u \in LiveIn(us) : row(u) \in RowsIn(us)
    BY DEF RowsIn
  <2>2. \A r \in RowsIn(us) : \E u \in LiveIn(us) : r = row(u)
    BY DEF RowsIn
  <2> HIDE DEF row
  <2>3. f \in [LiveIn(us) -> RowsIn(us)]
    BY <2>1
  <2>4. \A r \in RowsIn(us) : \E u \in LiveIn(us) : f[u] = r
    BY <2>2
  <2>5. \A u, v \in LiveIn(us) : f[u] = f[v] => u = v
    BY <1>2
  <2> QED BY <2>3, <2>4, <2>5 DEF Bijection, Injection, Surjection, IsInjective
<1>4. ExistsBijection(LiveIn(us), RowsIn(us))
  BY <1>3 DEF ExistsBijection
<1> QED BY <1>1, <1>4, FS_Bijection

\* What holds of a call that begins or goes on.
LEMMA FreshNow ==
    ASSUME MarketTypes, Solo, NoSearch, FreshRules, NEW c \in Clients, Began(c)
    PROVE  FreshAt(calls[c], users, cache)
<1>1. CASE calls[c] # Idle
  BY <1>1 DEF FreshRules
<1>2. CASE calls[c] = Idle
  <2>1. Quiet
    BY <1>2, OthersIdle DEF NoSearch, Quiet
  <2> QED BY <1>2, <2>1, IdleFormed DEF FreshRules, FreshAt
<1> QED BY <1>1, <1>2

\* It is enough to look at the call that makes a step.
LEMMA FreshThen ==
    ASSUME MarketTypes, Solo, NoSearch, NEW c \in Clients, Began(c),
           NEW call, Goto(c, call), FreshAt(call, users', cache')
    PROVE  FreshRules'
<1>1. \A d \in Clients \ {c} : calls'[d] = Idle
  BY OthersIdle DEF NoSearch, Goto, MarketTypes
<1>2. calls'[c] = call
  BY DEF Goto, MarketTypes
<1>3. ASSUME Quiet' PROVE Fresh(users', cache')
  <2>1. call = Idle
    BY <1>2, <1>3 DEF Quiet
  <2> QED BY <2>1, IdleFormed DEF FreshAt
<1> QED BY <1>1, <1>2, <1>3 DEF FreshRules

\* Calls of other handlers leave users and cache alone.
LEMMA FreshApart ==
    ASSUME MarketTypes, Solo, NoSearch, FreshRules, NEW pcs, Moves(pcs),
           pcs \intersect UserPcs = {}, UNCHANGED <<users, cache>>
    PROVE  FreshRules'
<1> DEFINE Step(c, call) == /\ Began(c) /\ Goto(c, call)
                            /\ calls[c].pc \in pcs \union {"idle"}
                            /\ call.pc \in pcs \union {"idle"}
<1>0. PICK c \in Clients : \E call : Step(c, call)
  BY DEF Moves
<1>1. PICK call : Step(c, call)
  BY <1>0
<1>2. calls[c].pc \notin UserPcs /\ call.pc \notin UserPcs
  BY <1>1 DEF UserPcs
<1>3. Fresh(users, cache)
  BY <1>1, <1>2, FreshNow DEF FreshAt, UserPcs
<1>4. FreshAt(call, users', cache')
  BY <1>2, <1>3 DEF FreshAt, UserPcs
<1> QED BY <1>1, <1>4, FreshThen

\* The cache, dropped and filled.
LEMMA CacheFresh ==
    ASSUME MarketTypes, Solo, NoSearch, FreshRules, NEW c \in Clients,
           Uncache(c) \/ Uncount(c) \/ KeepList(c) \/ KeepCount(c)
    PROVE  FreshRules'
<1>1. calls[c] \in Call
  BY DEF MarketTypes
<1>2. Began(c)
  BY IdleFormed DEF Uncache, Uncount, KeepList, KeepCount, Began
<1>3. FreshAt(calls[c], users, cache)
  BY <1>2, FreshNow
<1>4. cache \in [data: (SUBSET Row) \union {NoData}, count: Nat \union {NoData}]
  BY DEF MarketTypes, DocsTyped
<1>5. CASE Uncache(c)
  <2> DEFINE call == [calls[c] EXCEPT !.pc = "uncount"]
  <2>1. call.pc = "uncount" /\ Goto(c, call) /\ cache'.data = NoData
    BY <1>1, <1>4, <1>5 DEF Uncache, Call
  <2> HIDE DEF call
  <2>2. FreshAt(call, users', cache')
    BY <2>1 DEF FreshAt
  <2> QED BY <1>2, <2>1, <2>2, FreshThen
<1>6. CASE Uncount(c)
  <2>1. cache.data = NoData
    BY <1>3, <1>6 DEF Uncount, FreshAt
  <2>2. cache'.data = NoData /\ cache'.count = NoData
    BY <1>4, <1>6, <2>1 DEF Uncount
  <2> DEFINE call == IF calls[c].next = "idle" THEN Idle
                     ELSE [calls[c] EXCEPT !.pc = calls[c].next]
  <2>3. Goto(c, call)
    BY <1>6 DEF Uncount
  <2>4. call.pc \in {"idle", "setBadge", "setUser"}
    BY <1>1, IdleFormed DEF Call
  <2> HIDE DEF call
  <2>5. FreshAt(call, users', cache')
    BY <2>2, <2>4 DEF FreshAt, Fresh
  <2> QED BY <1>2, <2>3, <2>5, FreshThen
<1>7. CASE KeepList(c)
  <2>1. calls[c].rows = RowsIn(users) /\ Fresh(users, cache)
    BY <1>3, <1>7 DEF KeepList, FreshAt
  <2>2. /\ cache'.data = RowsIn(users) /\ cache'.count = cache.count
        /\ users' = users
    BY <1>4, <1>7, <2>1 DEF KeepList
  <2> DEFINE call == [calls[c] EXCEPT !.pc = "keepCount"]
  <2>3. Goto(c, call) /\ call.pc = "keepCount" /\ call.rows = calls[c].rows
    BY <1>1, <1>7 DEF KeepList, Call
  <2> HIDE DEF call
  <2>4. FreshAt(call, users', cache')
    BY <2>1, <2>2, <2>3 DEF FreshAt, Fresh
  <2> QED BY <1>2, <2>3, <2>4, FreshThen
<1>8. CASE KeepCount(c)
  <2>1. calls[c].rows = RowsIn(users) /\ Fresh(users, cache)
    BY <1>3, <1>8 DEF KeepCount, FreshAt
  <2>2. /\ cache'.count = Cardinality(calls[c].rows) /\ cache'.data = cache.data
        /\ users' = users /\ Goto(c, Idle)
    BY <1>4, <1>8 DEF KeepCount, Respond, Goto
  <2>3. cache'.count = Cardinality(LiveIn(users))
    BY <2>1, <2>2, RowsCounted
  <2>4. FreshAt(Idle, users', cache')
    BY <2>1, <2>2, <2>3, IdleFormed DEF FreshAt, Fresh
  <2> QED BY <1>2, <2>2, <2>4, FreshThen
<1> QED BY <1>5, <1>6, <1>7, <1>8

\* The list, asked for and read.
LEMMA ListFresh ==
    ASSUME MarketTypes, Solo, NoSearch, FreshRules, NEW c \in Clients,
           \/ \E n \in Names \union {NoName} : GetAllUsers(c, n)
           \/ ListCount(c) \/ AggregateUsers(c)
    PROVE  FreshRules'
<1>1. calls[c] \in Call
  BY DEF MarketTypes
<1>2. Began(c)
  BY IdleFormed DEF GetAllUsers, ListCount, AggregateUsers, Began
<1>3. FreshAt(calls[c], users, cache)
  BY <1>2, FreshNow
<1>4. UNCHANGED <<users, cache>>
  BY DEF GetAllUsers, ListCount, AggregateUsers
<1>5. ASSUME NEW n, GetAllUsers(c, n) PROVE FreshRules'
  <2>1. calls[c].pc = "idle" /\ n = NoName
    BY <1>5, IdleFormed DEF GetAllUsers, MayCall, NoSearch, Never
  <2> DEFINE call == [Idle EXCEPT !.pc = "listCount", !.name = n,
                                  !.rows = cache.data]
  <2>2. Goto(c, call) /\ call.pc = "listCount" /\ call.name = n
    BY <1>5, IdleFormed DEF GetAllUsers
  <2> HIDE DEF call
  <2>3. FreshAt(call, users', cache')
    BY <1>3, <1>4, <2>1, <2>2 DEF FreshAt
  <2> QED BY <1>2, <2>2, <2>3, FreshThen
<1>6. CASE ListCount(c)
  <2>1. calls[c].pc = "listCount"
    BY <1>6 DEF ListCount
  <2> DEFINE call == IF calls[c].rows # NoData THEN Idle
                     ELSE [calls[c] EXCEPT !.pc = "aggregate"]
  <2>2. Goto(c, call)
    BY <1>6 DEF ListCount
  <2>3. \/ call.pc = "idle"
        \/ call.pc = "aggregate" /\ call.name = calls[c].name
    BY <1>1, IdleFormed DEF Call
  <2> HIDE DEF call
  <2>4. FreshAt(call, users', cache')
    BY <1>3, <1>4, <2>1, <2>3 DEF FreshAt
  <2> QED BY <1>2, <2>2, <2>4, FreshThen
<1>7. CASE AggregateUsers(c)
  <2>1. calls[c].pc = "aggregate" /\ calls[c].name = NoName
    BY <1>3, <1>7 DEF AggregateUsers, FreshAt
  <2>2. Rows({u \in Live : calls[c].name = NoName
                           \/ users[u].name = calls[c].name}) = RowsIn(users)
    <3>1. {u \in Live : calls[c].name = NoName
                        \/ users[u].name = calls[c].name} = LiveIn(users)
      BY <2>1 DEF Live, LiveIn
    <3> QED BY <3>1 DEF Rows, RowsIn
  <2> DEFINE call == [calls[c] EXCEPT !.pc = "keepList", !.rows = RowsIn(users)]
  <2>3. Goto(c, call)
    BY <1>7, <2>2 DEF AggregateUsers
  <2>4. call.pc = "keepList" /\ call.rows = RowsIn(users)
    BY <1>1 DEF Call
  <2> HIDE DEF call
  <2>5. FreshAt(call, users', cache')
    BY <1>3, <1>4, <2>1, <2>4 DEF FreshAt
  <2> QED BY <1>2, <2>3, <2>5, FreshThen
<1> QED BY <1>5, <1>6, <1>7

\* Users are saved and deleted, and the cache is dropped next.
LEMMA ChangeFresh ==
    ASSUME MarketTypes, Solo, NoSearch, NEW c \in Clients, Began(c),
           Goto(c, [Idle EXCEPT !.pc = "uncache"])
    PROVE  FreshRules'
<1> DEFINE call == [Idle EXCEPT !.pc = "uncache"]
<1>1. call.pc = "uncache"
  BY IdleFormed
<1> HIDE DEF call
<1>2. FreshAt(call, users', cache')
  BY <1>1 DEF FreshAt
<1> QED BY <1>2, FreshThen DEF call

\* A handler that has looked for a user or a name, and changed nothing yet.
LEMMA LookFresh ==
    ASSUME MarketTypes, Solo, NoSearch, FreshRules, NEW c \in Clients,
           Began(c), calls[c].pc \notin {"uncache", "uncount"},
           NEW call, Goto(c, call),
           call.pc \in {"idle", "signup", "checkName", "uncache", "deleteUser"},
           UNCHANGED <<users, cache>>
    PROVE  FreshRules'
<1>1. FreshAt(call, users', cache')
  BY FreshNow DEF FreshAt
<1> QED BY <1>1, FreshThen

\* Every step of the accounts but those of payments.
LEMMA AccountsFresh ==
    ASSUME MarketTypes, Solo, NoSearch, FreshRules, AccountsNext,
           ~(\E c \in Clients : Payment(c))
    PROVE  FreshRules'
<1>1. CASE CacheExpires
  <2>1. PICK k \in {"data", "count"} : cache' = [cache EXCEPT ![k] = NoData]
    BY <1>1 DEF CacheExpires
  <2>2. UNCHANGED <<users, calls>>
    BY <1>1 DEF CacheExpires
  <2>3. cache \in [data: (SUBSET Row) \union {NoData},
                   count: Nat \union {NoData}]
    BY DEF MarketTypes, DocsTyped
  <2>4. /\ cache'.data \in {cache.data, NoData}
        /\ cache'.count \in {cache.count, NoData}
    BY <2>1, <2>3
  <2>5. Fresh(users, cache) => Fresh(users, cache')
    BY <2>4 DEF Fresh
  <2>6. \A c \in Clients : FreshAt(calls[c], users, cache) =>
                               FreshAt(calls[c], users, cache')
    BY <2>4, <2>5 DEF FreshAt
  <2> QED BY <2>2, <2>5, <2>6 DEF FreshRules, Quiet
<1>2. ASSUME NEW c \in Clients, ContinueAccount(c) PROVE FreshRules'
  <2>1. calls[c] \in Call
    BY DEF MarketTypes
  <2>2. CASE Uncache(c) \/ Uncount(c) \/ KeepList(c) \/ KeepCount(c)
    BY <2>2, CacheFresh
  <2>3. CASE ListCount(c) \/ AggregateUsers(c)
    BY <2>3, ListFresh
  <2>4. CASE SignupAndLogin(c) \/ DeleteUser(c)
    <3>1. Goto(c, [Idle EXCEPT !.pc = "uncache"]) /\ Began(c)
      BY <2>4, IdleFormed DEF SignupAndLogin, SaveUser, DeleteUser, RemoveUsers,
         AfterDelete, Began
    <3> QED BY <3>1, ChangeFresh
  <2>5. CASE CheckName(c)
    <3>1. Began(c) /\ calls[c].pc = "checkName" /\ UNCHANGED <<users, cache>>
      BY <2>5, IdleFormed DEF CheckName, Began
    <3> DEFINE call == [calls[c] EXCEPT !.pc = "uncache"]
    <3>2. call.pc = "uncache" /\ Idle.pc = "idle"
      BY <2>1, IdleFormed DEF Call
    <3>3. Goto(c, call) \/ Goto(c, Idle)
      BY <2>5 DEF CheckName, Respond, Goto
    <3> HIDE DEF call
    <3> QED BY <3>1, <3>2, <3>3, LookFresh
  <2>6. CASE SetBadge(c)
    <3> DEFINE call == [calls[c] EXCEPT !.pc = "setUser"]
    <3>1. /\ Began(c) /\ calls[c].pc = "setBadge" /\ UNCHANGED <<users, cache>>
          /\ Goto(c, call)
      BY <2>6, IdleFormed DEF SetBadge, Began, accountsOnly
    <3>2. call.pc = "setUser"
      BY <2>1 DEF Call
    <3> HIDE DEF call
    <3>3. FreshAt(call, users', cache')
      BY <3>1, <3>2, FreshNow DEF FreshAt
    <3> QED BY <3>1, <3>3, FreshThen
  <2>7. CASE SetUser(c)
    <3>1. /\ Began(c) /\ calls[c].pc = "setUser" /\ UNCHANGED cache
          /\ Goto(c, Idle)
      BY <2>7, IdleFormed DEF SetUser, Began, Respond, Goto
    <3>2. cache.data = NoData /\ cache.count = NoData
      BY <3>1, FreshNow DEF FreshAt
    <3>3. FreshAt(Idle, users', cache')
      BY <3>1, <3>2, IdleFormed DEF FreshAt, Fresh
    <3> QED BY <3>1, <3>3, FreshThen
  <2>8. ~(Pay(c) \/ FindLatestAd(c) \/ ExtendVip(c))
    BY DEF Payment
  <2> QED BY <1>2, <2>2, <2>3, <2>4, <2>5, <2>6, <2>7, <2>8 DEF ContinueAccount
<1>3. ASSUME NEW c \in Clients, calls[c].pc = "idle", Began(c), NEW call,
             Goto(c, call), UNCHANGED <<users, cache>>,
             call.pc \in {"idle", "signup", "checkName", "uncache", "deleteUser"}
      PROVE  FreshRules'
  BY <1>3, LookFresh
<1>4. ASSUME NEW c \in Clients, NEW n \in Names, UserSignup(c, n)
      PROVE  FreshRules'
  BY <1>4, ChangeFresh DEF UserSignup, SaveUser, Began
<1>5. ASSUME NEW c \in Clients, DeleteMultipleUserById(c) PROVE FreshRules'
  BY <1>5, ChangeFresh DEF DeleteMultipleUserById, RemoveUsers, AfterDelete, Began
<1>6. ASSUME NEW c \in Clients, NEW op, NEW n, CheckedSignup(c, op, n)
      PROVE  FreshRules'
  <2> DEFINE call == [Idle EXCEPT !.pc = "signup", !.name = n]
  <2>1. /\ calls[c].pc = "idle" /\ Began(c) /\ Goto(c, call)
        /\ UNCHANGED <<users, cache>>
    BY <1>6, IdleFormed DEF CheckedSignup, MayCall, Began
  <2>2. call.pc = "signup"
    BY IdleFormed
  <2> HIDE DEF call
  <2> QED BY <1>3, <2>1, <2>2
<1>7. ASSUME NEW c \in Clients, NEW u, NEW n, NEW mark,
             UpdateLoggedInUserInfo(c, u, n, mark)
      PROVE  FreshRules'
  <2> DEFINE call == [Idle EXCEPT !.pc = IF n = NoName THEN "uncache"
                                                      ELSE "checkName",
                                  !.next = "setUser", !.user = u, !.name = n,
                                  !.mark = mark]
  <2>1. /\ calls[c].pc = "idle" /\ Began(c) /\ Goto(c, call)
        /\ UNCHANGED <<users, cache>>
    BY <1>7, IdleFormed DEF UpdateLoggedInUserInfo, MayAsk, MayCall, Began
  <2>2. call.pc \in {"uncache", "checkName"}
    BY IdleFormed
  <2> HIDE DEF call
  <2> QED BY <1>3, <2>1, <2>2
<1>8. ASSUME NEW c \in Clients, NEW u, NEW n, NEW mark, NEW status, NEW password,
             UpdateUserById(c, u, n, mark, status, password)
      PROVE  FreshRules'
  <2> DEFINE call == [Idle EXCEPT !.pc = IF n \in {NoName, users[u].name}
                                           THEN "uncache" ELSE "checkName",
                                  !.next = IF CopiesBadge(mark, status, password)
                                             THEN "setBadge" ELSE "setUser",
                                  !.user = u, !.name = n, !.mark = mark]
  <2>1. /\ calls[c].pc = "idle" /\ Began(c) /\ Goto(c, call)
        /\ UNCHANGED <<users, cache>>
    BY <1>8, IdleFormed DEF UpdateUserById, MayCall, Began
  <2>2. call.pc \in {"uncache", "checkName"}
    BY IdleFormed
  <2> HIDE DEF call
  <2> QED BY <1>3, <2>1, <2>2
<1>9. ASSUME NEW c \in Clients, NEW u, DeleteUserById(c, u) PROVE FreshRules'
  <2> DEFINE call == [Idle EXCEPT !.pc = "deleteUser", !.user = u]
  <2>1. /\ calls[c].pc = "idle" /\ Began(c) /\ Goto(c, call)
        /\ UNCHANGED <<users, cache>>
    BY <1>9, IdleFormed DEF DeleteUserById, MayCall, Began
  <2>2. call.pc = "deleteUser"
    BY IdleFormed
  <2> HIDE DEF call
  <2> QED BY <1>3, <2>1, <2>2
<1>10. ASSUME NEW c \in Clients, NEW n \in Names \union {NoName}, GetAllUsers(c, n)
       PROVE  FreshRules'
  BY <1>10, ListFresh
<1>11. ASSUME NEW c \in Clients, NEW u \in UserIds, NEW term \in Terms,
              ActivateVip(c, u, term)
       PROVE  FALSE
  BY <1>11 DEF Payment
<1> QED BY <1>1, <1>2, <1>4, <1>5, <1>6, <1>7, <1>8, <1>9, <1>10, <1>11
        DEF AccountsNext, UserSignupAndLogin, UserSignupAndLoginSocial

\* One call at a time, without failures and searches, the cache holds the list
\* of all users or nothing whenever no call is in progress: each handler drops
\* it after a change, or before one with nobody to fill it in between.
THEOREM UsersListFreshAlways == Spec => []UsersListFresh
<1>1. Init => FreshInv
  <2> SUFFICES ASSUME Init PROVE FreshRules
    BY DEF FreshInv
  <2>1. cache = [data |-> NoData, count |-> NoData] /\ Quiet
    BY DEF Init, MarketInit, Quiet
  <2> QED BY <2>1 DEF FreshRules, Fresh, Quiet
<1>2. ASSUME MarketTypes, WishInv, Solo, FreshInv, [Next]_vars PROVE FreshInv'
  <2> SUFFICES ASSUME NoSearch, UNCHANGED scene PROVE FreshRules'
    <3>1. UNCHANGED scene
      BY <1>2, SceneStays
    <3> QED BY <3>1 DEF FreshInv, NoSearch, OneCallAtATime, Never
  <2>1. FreshRules
    BY <1>2 DEF FreshInv
  <2>2. ASSUME UNCHANGED <<users, cache, calls>> PROVE FreshRules'
    BY <2>1, <2>2 DEF FreshRules, Quiet
  <2>3. CASE AccountsNext
    <3>1. ASSUME NEW c \in Clients, Payment(c) PROVE FreshRules'
      BY <1>2, <2>1, <3>1, PaymentMoves, FreshApart DEF PaymentPcs, UserPcs
    <3> QED BY <1>2, <2>1, <2>3, <3>1, AccountsFresh
  <2>4. CASE ListingsNext
    <3>1. UNCHANGED <<users, cache>>
      BY <1>2, <2>4, ListingMoves DEF listingsOnly
    <3>2. ListingPcs \intersect UserPcs = {}
      BY DEF ListingPcs, CreatingPcs, UserPcs
    <3> QED BY <1>2, <2>1, <2>2, <2>4, <3>1, <3>2, ListingMoves, FreshApart
  <2>5. CASE WishListsNext
    BY <1>2, <2>1, <2>2, <2>5, WishMoves, FreshApart
       DEF wishesOnly, WishPcs, UserPcs
  <2>6. ASSUME NEW c \in Clients, CallFails(c) PROVE FALSE
    BY <2>6 DEF CallFails, NoSearch
  <2>7. CASE NextDay \/ UNCHANGED marketVars
    BY <2>2, <2>7 DEF NextDay, marketVars
  <2> QED BY <1>2, <2>3, <2>4, <2>5, <2>6, <2>7 DEF Next, vars
<1>3. FreshInv => UsersListFresh
  <2>1. Rows(Live) = RowsIn(users) /\ Live = LiveIn(users)
    BY DEF Rows, RowsIn, Live, LiveIn
  <2> QED BY <2>1 DEF FreshInv, FreshRules, NoSearch, UsersListFresh, Fresh
<1> QED BY <1>1, <1>2, <1>3, SoloAlways, PTL DEF Spec

(***************************************************************************)
(* Badges                                                                  *)
(***************************************************************************)
\* A listing of a verified user shows the badge.
AdShown(ad, us) ==
    ad.owner \in LiveIn(us) /\ us[ad.owner].verified => ad.badge
Shown(us, ads) ==
    \A l \in ListingIds : ads[l] # NoListing => AdShown(ads[l], us)

\* A listing about to be saved shows it; a form that verifies a user goes by the
\* listings, and they show it before the user does.
BadgeAt(call, us, ads) ==
    /\ call.pc \in {"saveAd", "saveClone"} => AdShown(call.ad, us)
    /\ call.pc \in {"checkName", "uncache", "uncount"} /\ call.next = "setUser" =>
           call.mark # "verified"
    /\ call.pc = "setUser" /\ call.mark = "verified" =>
           \A l \in ListingIds :
              ads[l] # NoListing /\ ads[l].owner = call.user => ads[l].badge

BadgeRules ==
    /\ Shown(users, listings)
    /\ \A c \in Clients : BadgeAt(calls[c], users, listings)

BadgeForms == OneCallAtATime /\ Never({"verifyOneself", "verifyUserOnly"})
BadgeInv == BadgeForms => BadgeRules

\* Owners and badges stay while listings change otherwise or go.
BadgesStay ==
    \A l \in ListingIds :
       listings'[l] # NoListing => /\ listings[l] # NoListing
                                   /\ listings'[l].owner = listings[l].owner
                                   /\ listings'[l].badge = listings[l].badge

BadgePcs == {"saveAd", "saveClone", "checkName", "uncache", "uncount", "setUser"}

\* It is enough to look at the call that makes a step.
LEMMA BadgeThen ==
    ASSUME MarketTypes, Solo, BadgeForms, NEW c \in Clients, Began(c),
           NEW call, Goto(c, call), Shown(users', listings'),
           BadgeAt(call, users', listings')
    PROVE  BadgeRules'
<1>1. \A d \in Clients \ {c} : calls'[d] = Idle
  BY OthersIdle DEF BadgeForms, Goto, MarketTypes
<1>2. calls'[c] = call
  BY DEF Goto, MarketTypes
<1>3. BadgeAt(Idle, users', listings')
  BY IdleFormed DEF BadgeAt
<1> QED BY <1>1, <1>2, <1>3 DEF BadgeRules

\* Listings that keep their owners and badges.
LEMMA StillShown ==
    ASSUME BadgeRules, BadgesStay, UNCHANGED users
    PROVE  /\ Shown(users', listings')
           /\ \A c \in Clients : BadgeAt(calls[c], users', listings')
<1>1. ASSUME NEW l \in ListingIds, listings'[l] # NoListing
      PROVE  /\ listings[l] # NoListing
             /\ listings'[l].owner = listings[l].owner
             /\ listings'[l].badge = listings[l].badge
  BY <1>1 DEF BadgesStay
<1>2. Shown(users', listings')
  BY <1>1 DEF Shown, AdShown, BadgeRules
<1>3. ASSUME NEW c \in Clients
      PROVE  BadgeAt(calls[c], users', listings')
  <2>1. BadgeAt(calls[c], users, listings)
    BY DEF BadgeRules
  <2> QED BY <1>1, <2>1 DEF BadgeAt
<1> QED BY <1>2, <1>3

\* A call that is answered, or goes on with something else.
LEMMA BadgeApart ==
    ASSUME MarketTypes, Solo, BadgeForms, BadgeRules, NEW c \in Clients, Began(c),
           NEW call, Goto(c, call), call.pc \notin BadgePcs,
           BadgesStay, UNCHANGED users
    PROVE  BadgeRules'
<1>1. BadgeAt(call, users', listings')
  BY DEF BadgeAt, BadgePcs
<1> QED BY <1>1, StillShown, BadgeThen

\* The same for what the payments and the wish lists do.
LEMMA BadgeMoves ==
    ASSUME MarketTypes, Solo, BadgeForms, BadgeRules, NEW pcs, Moves(pcs),
           pcs \intersect BadgePcs = {}, BadgesStay, UNCHANGED users
    PROVE  BadgeRules'
<1> DEFINE Step(c, call) == /\ Began(c) /\ Goto(c, call)
                            /\ call.pc \in pcs \union {"idle"}
<1>0. PICK c \in Clients : \E call : Step(c, call)
  BY DEF Moves
<1>1. PICK call : Step(c, call)
  BY <1>0
<1>2. call.pc \notin BadgePcs
  BY <1>1 DEF BadgePcs
<1> QED BY <1>1, <1>2, BadgeApart

\* A listing is saved that shows what it should.
LEMMA NewShown ==
    ASSUME MarketTypes, Solo, BadgeForms, BadgeRules, NEW c \in Clients, Began(c),
           Goto(c, Idle), NEW ad, AdShown(ad, users), SaveListing(ad),
           UNCHANGED users
    PROVE  BadgeRules'
<1>1. \A l \in ListingIds : listings'[l] \in {listings[l], ad}
  BY DEF SaveListing, MarketTypes, DocsTyped
<1>2. Shown(users', listings')
  BY <1>1 DEF Shown, BadgeRules
<1>3. BadgeAt(Idle, users', listings')
  BY IdleFormed DEF BadgeAt
<1> QED BY <1>2, <1>3, BadgeThen

\* Payments leave owners and badges alone.
LEMMA PaymentShown ==
    ASSUME MarketTypes, NEW c \in Clients, Payment(c)
    PROVE  BadgesStay
<1>1. CASE UNCHANGED listings
  BY <1>1 DEF BadgesStay
<1>2. CASE ExtendVip(c)
  <2>1. ASSUME NEW l \in ListingIds, listings'[l] # NoListing
        PROVE  /\ listings[l] # NoListing
               /\ \/ listings'[l] = listings[l]
                  \/ \E vip : listings'[l] = [listings[l] EXCEPT !.vip = vip]
    BY <1>2, <2>1 DEF ExtendVip, Listed
  <2>2. ASSUME NEW l \in ListingIds, listings'[l] # NoListing
        PROVE  /\ listings'[l].owner = listings[l].owner
               /\ listings'[l].badge = listings[l].badge
    <3>1. listings[l] \in Listing
      BY <2>1, <2>2 DEF MarketTypes, DocsTyped
    <3> QED BY <2>1, <2>2, <3>1 DEF Listing
  <2> QED BY <2>1, <2>2 DEF BadgesStay
<1> QED BY <1>1, <1>2 DEF Payment, ActivateVip, Pay, FindLatestAd

\* Nobody's listings, of imports and administrators.
LEMMA NobodyShown ==
    ASSUME NEW ad, ad.owner = Nobody
    PROVE  AdShown(ad, users)
BY MarketAssumption DEF AdShown, LiveIn

\* Creating listings.
LEMMA CreateShown ==
    ASSUME MarketTypes, Solo, BadgeForms, BadgeRules, NEW c \in Clients,
           \/ ReadOwner(c) \/ SaveAd(c) \/ SaveClone(c) \/ InsertAds(c)
           \/ \E status \in Statuses, pub \in {0, today} : AddProduct(c, status, pub)
           \/ \E u \in UserIds, status \in Statuses :
                 AddProductByUser(c, u, status)
           \/ \E l \in Listed : CloneSingleProduct(c, l)
    PROVE  BadgeRules'
<1>1. calls[c] \in Call /\ CallFits(calls[c]) /\ BadgeAt(calls[c], users, listings)
  BY DEF MarketTypes, BadgeRules
<1>2. Respond(c) => Goto(c, Idle)
  BY DEF Respond, Goto
<1>3. CASE ReadOwner(c)
  <2> DEFINE own == [NewAd EXCEPT !.status = calls[c].status, !.pub = today,
                                  !.owner = calls[c].user,
                                  !.badge = users[calls[c].user].verified]
             none == [NewAd EXCEPT !.status = calls[c].status, !.pub = today]
             call(ad) == [calls[c] EXCEPT !.pc = "saveAd", !.ad = ad]
  <2>1. AdShown(own, users)
    <3>1. own.owner = calls[c].user /\ own.badge = users[calls[c].user].verified
      BY DEF NewAd
    <3> HIDE DEF own
    <3> QED BY <3>1 DEF AdShown
  <2>2. AdShown(none, users)
    <3>1. none.owner = Nobody
      BY DEF NewAd
    <3> HIDE DEF none
    <3> QED BY <3>1, NobodyShown
  <2>3. \A ad : call(ad).pc = "saveAd" /\ call(ad).ad = ad
    BY <1>1 DEF Call
  <2>4. Goto(c, call(own)) \/ Goto(c, call(none))
    BY <1>3 DEF ReadOwner
  <2> HIDE DEF own, none, call
  <2>5. Began(c) /\ UNCHANGED <<users, listings>>
    BY <1>3, IdleFormed DEF ReadOwner, Began, listingsOnly
  <2>6. ASSUME NEW ad, AdShown(ad, users), Goto(c, call(ad)) PROVE BadgeRules'
    <3>1. Shown(users', listings')
      BY <2>5 DEF BadgeRules
    <3>2. BadgeAt(call(ad), users', listings')
      BY <2>3, <2>5, <2>6 DEF BadgeAt
    <3> QED BY <2>5, <2>6, <3>1, <3>2, BadgeThen
  <2> QED BY <2>1, <2>2, <2>4, <2>6
<1>4. CASE SaveAd(c)
  <2> DEFINE ad == calls[c].ad
  <2>1. /\ calls[c].pc = "saveAd" /\ Began(c) /\ SaveListing(ad)
        /\ Goto(c, Idle) /\ UNCHANGED users
    BY <1>2, <1>4, IdleFormed DEF SaveAd, Began, listingsOnly
  <2>2. AdShown(ad, users)
    BY <1>1, <2>1 DEF BadgeAt
  <2> HIDE DEF ad
  <2> QED BY <2>1, <2>2, NewShown
<1>5. CASE SaveClone(c)
  <2> DEFINE ad == [calls[c].ad EXCEPT !.served = 0]
  <2>1. /\ calls[c].pc = "saveClone" /\ Began(c) /\ SaveListing(ad)
        /\ Goto(c, Idle) /\ UNCHANGED users
    BY <1>2, <1>5, IdleFormed DEF SaveClone, Began, listingsOnly
  <2>2. AdShown(calls[c].ad, users) /\ calls[c].ad \in Listing
    BY <1>1, <2>1 DEF BadgeAt, CallFits
  <2>3. ad.owner = calls[c].ad.owner /\ ad.badge = calls[c].ad.badge
    BY <2>2 DEF Listing
  <2> HIDE DEF ad
  <2>4. AdShown(ad, users)
    BY <2>2, <2>3 DEF AdShown
  <2> QED BY <2>1, <2>4, NewShown
<1>6. CASE InsertAds(c)
  <2> DEFINE ad(status, pub) == [NewAd EXCEPT !.status = status, !.pub = pub]
  <2>1. /\ Began(c) /\ Goto(c, Idle) /\ UNCHANGED users
        /\ \E status \in Statuses, pub \in {0, today} :
              SaveListing(ad(status, pub))
    BY <1>2, <1>6, IdleFormed DEF InsertAds, Began, listingsOnly
  <2>2. \A status, pub : ad(status, pub).owner = Nobody
    BY DEF NewAd
  <2> HIDE DEF ad
  <2> QED BY <2>1, <2>2, NobodyShown, NewShown
<1>7. ASSUME NEW status, NEW pub, AddProduct(c, status, pub) PROVE BadgeRules'
  <2> DEFINE ad == [NewAd EXCEPT !.status = status, !.pub = pub]
  <2>1. ad.owner = Nobody
    BY DEF NewAd
  <2>2. /\ SaveListing(ad) /\ UNCHANGED <<users, calls>>
        /\ calls[c] = Idle /\ Began(c)
    BY <1>7 DEF AddProduct, MayCall, Began, listingsOnly
  <2>3. Goto(c, Idle)
    BY <2>2 DEF Goto, MarketTypes
  <2> HIDE DEF ad
  <2> QED BY <2>1, <2>2, <2>3, NobodyShown, NewShown
<1>8. ASSUME NEW u, NEW status, AddProductByUser(c, u, status)
      PROVE  BadgeRules'
  <2> DEFINE call == [Idle EXCEPT !.pc = "readOwner", !.user = u,
                                  !.status = status]
  <2>1. /\ Goto(c, call) /\ Began(c) /\ UNCHANGED <<users, listings>>
    BY <1>8 DEF AddProductByUser, MayAsk, Began, listingsOnly
  <2>2. call.pc \notin BadgePcs
    BY IdleFormed DEF BadgePcs
  <2> HIDE DEF call
  <2> QED BY <2>1, <2>2, BadgeApart DEF BadgesStay
<1>9. ASSUME NEW l \in Listed, CloneSingleProduct(c, l) PROVE BadgeRules'
  <2> DEFINE call == [Idle EXCEPT !.pc = "saveClone", !.ad = listings[l]]
  <2>1. /\ Goto(c, call) /\ Began(c) /\ UNCHANGED <<users, listings>>
    BY <1>9 DEF CloneSingleProduct, Began, listingsOnly
  <2>2. call.pc = "saveClone" /\ call.ad = listings[l]
    BY IdleFormed
  <2> HIDE DEF call
  <2>3. Shown(users', listings') /\ AdShown(listings[l], users)
    BY <2>1 DEF BadgeRules, Shown, Listed
  <2>4. BadgeAt(call, users', listings')
    BY <2>1, <2>2, <2>3 DEF BadgeAt
  <2> QED BY <2>1, <2>3, <2>4, BadgeThen
<1> QED BY <1>3, <1>4, <1>5, <1>6, <1>7, <1>8, <1>9

\* Listings are changed, looked for and taken away.
LEMMA EditsShown ==
    ASSUME MarketTypes, Solo, BadgeForms, BadgeRules, NEW c \in Clients,
           \/ SetOwnAd(c) \/ Edit(c) \/ LookFor(c)
           \/ \E u \in UserIds, l \in Listed, status \in Statuses :
                 UpdateUserProductById(c, u, l, status)
    PROVE  BadgeRules'
<1>1. CASE SetOwnAd(c) \/ Edit(c)
  <2>1. BadgesStay /\ UNCHANGED users
    BY <1>1, EditsKept DEF AdsKept, BadgesStay
  <2>2. CASE UNCHANGED calls
    BY <2>1, <2>2, StillShown DEF BadgeRules
  <2>3. CASE Goto(c, [Idle EXCEPT !.pc = "insertAds"]) /\ Began(c)
    <3>1. [Idle EXCEPT !.pc = "insertAds"].pc = "insertAds"
      BY IdleFormed
    <3> QED BY <2>1, <2>3, <3>1, BadgeApart DEF BadgePcs
  <2>4. CASE Respond(c) /\ Began(c)
    BY <2>1, <2>4, IdleFormed, BadgeApart DEF BadgePcs, Respond, Goto
  <2> QED BY <1>1, <2>2, <2>3, <2>4, IdleFormed
          DEF Edit, SetAd, RemoveAd, SetOwnAd, UpdateMultipleProductById,
              DeleteMultipleProductById, InsertManyProduct, Began
<1>2. ASSUME NEW l, NEW pc \in {"setAd", "removeAd", "setOwnAd"}, NEW status,
             Look(c, l, pc, status), Began(c)
      PROVE  BadgeRules'
  <2> DEFINE call == [Idle EXCEPT !.pc = pc, !.listing = l, !.status = status,
                                  !.date = PublishDay(pc, status)]
  <2>1. call.pc = pc /\ Goto(c, call) /\ UNCHANGED <<users, listings>>
    BY <1>2, IdleFormed DEF Look, listingsOnly
  <2> HIDE DEF call
  <2> QED BY <1>2, <2>1, BadgeApart DEF BadgePcs, BadgesStay
<1> QED BY <1>1, <1>2 DEF LookFor, DeleteProductById, DeleteUserProductById,
        UpdateProductById, UpdateUserProductById, MayAsk, Began

\* A user signs up, unverified, or is deleted.
LEMMA UsersShown ==
    ASSUME MarketTypes, Solo, BadgeForms, BadgeRules, NEW c \in Clients, Began(c),
           (\E n : SaveUser(c, n)) \/ (\E S : RemoveUsers(c, S))
    PROVE  BadgeRules'
<1> DEFINE call == [Idle EXCEPT !.pc = "uncache"]
<1>1. call.pc = "uncache" /\ call.next = "idle"
  BY IdleFormed
<1>2. Goto(c, call) /\ UNCHANGED listings
  BY DEF SaveUser, RemoveUsers, AfterDelete
<1> HIDE DEF call
<1>3. ASSUME NEW u \in LiveIn(users')
      PROVE  \/ u \in LiveIn(users) /\ users'[u] = users[u]
             \/ users'[u].verified = FALSE
  <2>1. u \in UserIds
    BY DEF LiveIn
  <2>2. users \in [UserIds -> User \union {Unborn, Gone}]
    BY DEF MarketTypes, DocsTyped
  <2>3. ASSUME NEW n, SaveUser(c, n)
        PROVE  \/ u \in LiveIn(users) /\ users'[u] = users[u]
               \/ users'[u].verified = FALSE
    BY <1>3, <2>1, <2>2, <2>3 DEF SaveUser, LiveIn
  <2>4. ASSUME NEW S, RemoveUsers(c, S)
        PROVE  u \in LiveIn(users) /\ users'[u] = users[u]
    BY <1>3, <2>1, <2>4 DEF RemoveUsers, LiveIn, Live
  <2> QED BY <2>3, <2>4
<1>4. Shown(users', listings')
  BY <1>2, <1>3 DEF Shown, AdShown, BadgeRules
<1>5. BadgeAt(call, users', listings')
  BY <1>1 DEF BadgeAt
<1> QED BY <1>2, <1>4, <1>5, BadgeThen

\* The listings get the badge, and then the user.
LEMMA BadgesSet ==
    ASSUME MarketTypes, Solo, BadgeForms, BadgeRules, NEW c \in Clients,
           SetBadge(c) \/ SetUser(c)
    PROVE  BadgeRules'
<1>1. calls[c] \in Call /\ BadgeAt(calls[c], users, listings)
  BY DEF MarketTypes, BadgeRules
<1>2. CASE SetBadge(c)
  <2> DEFINE call == [calls[c] EXCEPT !.pc = "setUser"]
  <2>1. Goto(c, call) /\ Began(c) /\ UNCHANGED users
    BY <1>2, IdleFormed DEF SetBadge, Began
  <2>2. call.pc = "setUser" /\ call.user = calls[c].user
    BY <1>1 DEF Call
  <2> HIDE DEF call
  <2>3. ASSUME NEW l \in ListingIds, listings'[l] # NoListing
        PROVE  /\ listings[l] # NoListing
               /\ listings'[l].owner = listings[l].owner
               /\ \/ listings'[l].owner = calls[c].user /\ listings'[l].badge
                  \/ listings'[l].owner # calls[c].user
                     /\ listings'[l].badge = listings[l].badge
    <3>1. listings[l] \in Listing
      BY <1>2, <2>3 DEF SetBadge, Listed, MarketTypes, DocsTyped
    <3>2. listings'[l] = Badged(listings[l], calls[c].user)
      BY <1>2, <2>3 DEF SetBadge
    <3>3. listings[l] # NoListing
      BY <3>1, MarketAssumption
    <3> QED BY <3>1, <3>2, <3>3 DEF Badged, Listing
  <2>4. Shown(users', listings')
    BY <2>1, <2>3 DEF Shown, AdShown, BadgeRules
  <2>5. BadgeAt(call, users', listings')
    BY <2>2, <2>3 DEF BadgeAt
  <2> QED BY <2>1, <2>4, <2>5, BadgeThen
<1>3. CASE SetUser(c)
  <2>1. Goto(c, Idle) /\ Began(c) /\ UNCHANGED listings /\ calls[c].pc = "setUser"
    BY <1>3, IdleFormed DEF SetUser, Began, Respond, Goto
  <2>2. ASSUME NEW u \in LiveIn(users')
        PROVE  \/ u \in LiveIn(users) /\ users'[u] = users[u]
               \/ /\ u = calls[c].user /\ u \in LiveIn(users)
                  /\ users'[u].verified = IF calls[c].mark = "unsaid"
                                            THEN users[u].verified
                                            ELSE calls[c].mark = "verified"
    <3>1. users \in [UserIds -> User \union {Unborn, Gone}] /\ u \in UserIds
      BY DEF MarketTypes, DocsTyped, LiveIn
    <3>2. CASE calls[c].user \notin Live
      BY <1>3, <2>2, <3>2 DEF SetUser
    <3>3. CASE calls[c].user \in Live /\ u = calls[c].user
      <4>1. users'[u] = Updated(users[u], calls[c])
        BY <1>3, <3>1, <3>3 DEF SetUser
      <4>2. u \in LiveIn(users)
        BY <3>3 DEF Live, LiveIn
      <4> QED BY <3>3, <4>1, <4>2 DEF Updated
    <3>4. CASE calls[c].user \in Live /\ u # calls[c].user
      <4>1. users'[u] = users[u]
        BY <1>3, <3>1, <3>4 DEF SetUser
      <4>2. u \in LiveIn(users)
        BY <2>2, <4>1 DEF LiveIn
      <4> QED BY <4>1, <4>2
    <3> QED BY <3>2, <3>3, <3>4
  <2>3. ASSUME NEW l \in ListingIds, listings[l] # NoListing,
               listings[l].owner \in LiveIn(users'),
               users'[listings[l].owner].verified
        PROVE  listings[l].badge
    <3> DEFINE u == listings[l].owner
    <3>1. CASE u \in LiveIn(users) /\ users'[u] = users[u]
      BY <2>3, <3>1 DEF BadgeRules, Shown, AdShown
    <3>2. CASE /\ u = calls[c].user /\ u \in LiveIn(users)
               /\ users'[u].verified = IF calls[c].mark = "unsaid"
                                         THEN users[u].verified
                                         ELSE calls[c].mark = "verified"
      <4>1. CASE calls[c].mark = "unsaid"
        BY <2>3, <3>2, <4>1 DEF BadgeRules, Shown, AdShown
      <4>2. CASE calls[c].mark # "unsaid"
        BY <1>1, <2>1, <2>3, <3>2, <4>2 DEF BadgeAt
      <4> QED BY <4>1, <4>2
    <3> QED BY <2>2, <2>3, <3>1, <3>2
  <2>4. Shown(users', listings')
    BY <2>1, <2>3 DEF Shown, AdShown
  <2>5. BadgeAt(Idle, users', listings')
    BY IdleFormed DEF BadgeAt
  <2> QED BY <2>1, <2>4, <2>5, BadgeThen
<1> QED BY <1>2, <1>3

\* A handler that changes neither users nor listings, and is not on its way to
\* verify a user without the listings.
LEMMA BadgeTalk ==
    ASSUME MarketTypes, Solo, BadgeForms, BadgeRules, NEW c \in Clients, Began(c),
           NEW call, Goto(c, call), call.pc \notin {"saveAd", "saveClone"},
           call.pc \in {"checkName", "uncache", "uncount"} /\ call.next = "setUser"
               => call.mark # "verified",
           call.pc = "setUser" => call.mark # "verified",
           UNCHANGED <<users, listings>>
    PROVE  BadgeRules'
<1>1. BadgeAt(call, users', listings')
  BY DEF BadgeAt
<1>2. Shown(users', listings')
  BY DEF BadgeRules
<1> QED BY <1>1, <1>2, BadgeThen

\* What users' calls do next.
LEMMA ContinueShown ==
    ASSUME MarketTypes, Solo, BadgeForms, BadgeRules, NEW c \in Clients,
           ContinueAccount(c), ~Payment(c)
    PROVE  BadgeRules'
<1>1. calls[c] \in Call /\ BadgeAt(calls[c], users, listings)
  BY DEF MarketTypes, BadgeRules
<1>2. Idle.pc = "idle"
  BY IdleFormed
<1>3. CASE SignupAndLogin(c) \/ DeleteUser(c)
  <2>1. Began(c)
    BY <1>3, IdleFormed DEF SignupAndLogin, DeleteUser, Began
  <2> QED BY <1>3, <2>1, UsersShown DEF SignupAndLogin, DeleteUser
<1>4. CASE SetBadge(c) \/ SetUser(c)
  BY <1>4, BadgesSet
<1>5. ASSUME NEW pc, NEW call, call = [calls[c] EXCEPT !.pc = pc],
             calls[c].pc \in {"checkName", "uncache", "uncount"},
             pc \in {"uncache", "uncount", calls[c].next}, pc # "idle",
             Goto(c, call), Began(c), UNCHANGED <<users, listings>>
      PROVE  BadgeRules'
  <2>1. /\ call.pc = pc /\ call.next = calls[c].next
        /\ call.mark = calls[c].mark
        /\ calls[c].next \in {"idle", "setBadge", "setUser"}
    BY <1>1, <1>5 DEF Call
  <2>2. calls[c].next = "setUser" => calls[c].mark # "verified"
    BY <1>1, <1>5 DEF BadgeAt
  <2> QED BY <1>5, <2>1, <2>2, BadgeTalk
<1>6. CASE Uncache(c)
  BY <1>2, <1>5, <1>6 DEF Uncache, Began
<1>7. CASE Uncount(c)
  <2>1. /\ calls[c].pc = "uncount" /\ Began(c)
        /\ UNCHANGED <<users, listings>>
        /\ Goto(c, IF calls[c].next = "idle" THEN Idle
                   ELSE [calls[c] EXCEPT !.pc = calls[c].next])
    BY <1>2, <1>7 DEF Uncount, Began
  <2>2. CASE calls[c].next = "idle"
    BY <1>2, <2>1, <2>2, BadgeTalk
  <2>3. CASE calls[c].next # "idle"
    BY <1>5, <2>1, <2>3
  <2> QED BY <2>2, <2>3
<1>8. CASE CheckName(c)
  <2>1. /\ calls[c].pc = "checkName" /\ Began(c)
        /\ UNCHANGED <<users, listings>>
        /\ \/ Goto(c, Idle)
           \/ Goto(c, [calls[c] EXCEPT !.pc = "uncache"])
    BY <1>2, <1>8 DEF CheckName, Began, Respond, Goto
  <2> QED BY <1>2, <1>5, <2>1, BadgeTalk
<1>9. CASE ListCount(c) \/ AggregateUsers(c) \/ KeepList(c) \/ KeepCount(c)
  <2>1. Moves({"listCount", "aggregate", "keepList", "keepCount"})
    <3> DEFINE pcs == {"listCount", "aggregate", "keepList", "keepCount"}
    <3>1. calls[c].pc \in pcs \ {"idle"}
      BY <1>9 DEF ListCount, AggregateUsers, KeepList, KeepCount
    <3>2. \E call : Goto(c, call) /\ call.pc \in pcs \union {"idle"}
      <4>1. \A pc : [calls[c] EXCEPT !.pc = pc].pc = pc
        BY <1>1 DEF Call
      <4>2. \A rows : [calls[c] EXCEPT !.pc = "keepList",
                                       !.rows = rows].pc = "keepList"
        BY <1>1 DEF Call
      <4>3. CASE ListCount(c)
        BY <1>2, <4>1, <4>3 DEF ListCount
      <4>4. CASE AggregateUsers(c)
        BY <4>2, <4>4 DEF AggregateUsers
      <4>5. CASE KeepList(c)
        BY <4>1, <4>5 DEF KeepList
      <4>6. CASE KeepCount(c)
        BY <1>2, <4>6 DEF KeepCount, Respond, Goto
      <4> QED BY <1>9, <4>3, <4>4, <4>5, <4>6
    <3> HIDE DEF pcs
    <3> QED BY <3>1, <3>2, MovesOn DEF pcs
  <2>2. UNCHANGED <<users, listings>>
    BY <1>9 DEF ListCount, AggregateUsers, KeepList, KeepCount
  <2> QED BY <2>1, <2>2, BadgeMoves DEF BadgePcs, BadgesStay
<1> QED BY <1>3, <1>4, <1>6, <1>7, <1>8, <1>9 DEF ContinueAccount, Payment

\* Every step of the accounts.
LEMMA AccountsShown ==
    ASSUME MarketTypes, Solo, BadgeForms, BadgeRules, AccountsNext
    PROVE  BadgeRules'
<1>1. CASE CacheExpires
  BY <1>1 DEF CacheExpires, BadgeRules
<1>2. ASSUME NEW c \in Clients, Payment(c) PROVE BadgeRules'
  BY <1>2, PaymentMoves, PaymentShown, BadgeMoves DEF PaymentPcs, BadgePcs
<1>3. ASSUME NEW c \in Clients, ContinueAccount(c) PROVE BadgeRules'
  BY <1>2, <1>3, ContinueShown
<1>4. ASSUME NEW c \in Clients, NEW n, UserSignup(c, n) PROVE BadgeRules'
  BY <1>4, UsersShown DEF UserSignup, Began
<1>5. ASSUME NEW c \in Clients, DeleteMultipleUserById(c) PROVE BadgeRules'
  BY <1>5, UsersShown DEF DeleteMultipleUserById, Began
<1>6. ASSUME NEW c \in Clients, NEW op, NEW n, CheckedSignup(c, op, n)
      PROVE  BadgeRules'
  <2> DEFINE call == [Idle EXCEPT !.pc = "signup", !.name = n]
  <2>1. Began(c) /\ Goto(c, call) /\ UNCHANGED <<users, listings>>
    BY <1>6 DEF CheckedSignup, Began
  <2>2. call.pc = "signup"
    BY IdleFormed
  <2> HIDE DEF call
  <2> QED BY <2>1, <2>2, BadgeTalk
<1>7. ASSUME NEW c \in Clients, NEW u, NEW n, NEW mark,
             UpdateLoggedInUserInfo(c, u, n, mark)
      PROVE  BadgeRules'
  <2> DEFINE call == [Idle EXCEPT !.pc = IF n = NoName THEN "uncache"
                                                      ELSE "checkName",
                                  !.next = "setUser", !.user = u, !.name = n,
                                  !.mark = mark]
  <2>1. Began(c) /\ Goto(c, call) /\ UNCHANGED <<users, listings>>
    BY <1>7 DEF UpdateLoggedInUserInfo, MayAsk, Began
  <2>2. mark # "verified"
    BY <1>7 DEF UpdateLoggedInUserInfo, MayAsk, MayCall, BadgeForms, Never
  <2>3. call.pc \in {"uncache", "checkName"} /\ call.mark = mark
    BY DEF Idle
  <2> HIDE DEF call
  <2> QED BY <2>1, <2>2, <2>3, BadgeTalk
<1>8. ASSUME NEW c \in Clients, NEW u, NEW n, NEW mark, NEW status \in BOOLEAN,
             NEW password \in BOOLEAN,
             UpdateUserById(c, u, n, mark, status, password)
      PROVE  BadgeRules'
  <2> DEFINE call == [Idle EXCEPT !.pc = IF n \in {NoName, users[u].name}
                                           THEN "uncache" ELSE "checkName",
                                  !.next = IF CopiesBadge(mark, status, password)
                                             THEN "setBadge" ELSE "setUser",
                                  !.user = u, !.name = n, !.mark = mark]
  <2>1. Began(c) /\ Goto(c, call) /\ UNCHANGED <<users, listings>>
    BY <1>8 DEF UpdateUserById, Began
  <2>2. mark = "verified" => CopiesBadge(mark, status, password)
    BY <1>8 DEF UpdateUserById, MayCall, BadgeForms, Never
  <2>3. /\ call.pc \in {"uncache", "checkName"} /\ call.mark = mark
        /\ call.next = IF mark = "verified" THEN "setBadge" ELSE "setUser"
    BY <2>2 DEF Idle, CopiesBadge
  <2> HIDE DEF call
  <2> QED BY <2>1, <2>3, BadgeTalk
<1>9. ASSUME NEW c \in Clients, NEW u, DeleteUserById(c, u) PROVE BadgeRules'
  <2> DEFINE call == [Idle EXCEPT !.pc = "deleteUser", !.user = u]
  <2>1. Began(c) /\ Goto(c, call) /\ UNCHANGED <<users, listings>>
    BY <1>9 DEF DeleteUserById, Began
  <2>2. call.pc = "deleteUser"
    BY IdleFormed
  <2> HIDE DEF call
  <2> QED BY <2>1, <2>2, BadgeTalk
<1>10. ASSUME NEW c \in Clients, NEW n, GetAllUsers(c, n) PROVE BadgeRules'
  <2> DEFINE call == [Idle EXCEPT !.pc = "listCount", !.name = n,
                                  !.rows = cache.data]
  <2>1. Began(c) /\ Goto(c, call) /\ UNCHANGED <<users, listings>>
    BY <1>10 DEF GetAllUsers, Began
  <2>2. call.pc = "listCount"
    BY IdleFormed
  <2> HIDE DEF call
  <2> QED BY <2>1, <2>2, BadgeTalk
<1>11. ASSUME NEW c \in Clients, NEW u \in UserIds, NEW term \in Terms,
              ActivateVip(c, u, term)
       PROVE  BadgeRules'
  BY <1>2, <1>11 DEF Payment
<1> QED BY <1>1, <1>3, <1>4, <1>5, <1>6, <1>7, <1>8, <1>9, <1>10, <1>11
        DEF AccountsNext, UserSignupAndLogin, UserSignupAndLoginSocial

\* One call at a time, even if calls fail half-way, the listings of a verified
\* user show the badge: updateUserById goes by the listings first, and a new or
\* copied listing takes the badge of the user or of the listing it was read from.
THEOREM BadgeShownAlways == Spec => []BadgeShown
<1>1. Init => BadgeInv
  <2> SUFFICES ASSUME Init PROVE BadgeRules
    BY DEF BadgeInv
  <2>1. /\ calls = [c \in Clients |-> Idle] /\ scene \in Scenes
        /\ users = scene.users
        /\ listings = [l \in ListingIds |-> IF l <= Len(scene.ads)
                                              THEN scene.ads[l] ELSE NoListing]
    BY DEF Init, MarketInit
  <2>2. scene.ads \in Seq(Listing)
    BY <2>1, SceneAssumption DEF Scene
  <2>3. \A c \in Clients : BadgeAt(calls[c], users, listings)
    BY <2>1, IdleFormed DEF BadgeAt
  <2>4. ASSUME NEW l \in ListingIds, listings[l] # NoListing
        PROVE  AdShown(listings[l], users)
    <3>1. l \in 1..Len(scene.ads) /\ listings[l] = scene.ads[l]
      BY <2>1, <2>2, <2>4 DEF ListingIds
    <3>2. CASE listings[l].owner \in UserIds
      BY <2>1, <3>1, <3>2, SceneAssumption DEF AdShown
    <3>3. CASE listings[l].owner \notin UserIds
      BY <3>3 DEF AdShown, LiveIn
    <3> QED BY <3>2, <3>3
  <2> QED BY <2>3, <2>4 DEF BadgeRules, Shown
<1>2. ASSUME MarketTypes, WishInv, Solo, BadgeInv, [Next]_vars PROVE BadgeInv'
  <2> SUFFICES ASSUME BadgeForms, UNCHANGED scene PROVE BadgeRules'
    <3>1. UNCHANGED scene
      BY <1>2, SceneStays
    <3> QED BY <3>1 DEF BadgeInv, BadgeForms, OneCallAtATime, Never
  <2>1. BadgeRules
    BY <1>2 DEF BadgeInv
  <2>2. CASE AccountsNext
    BY <1>2, <2>1, <2>2, AccountsShown
  <2>3. CASE ListingsNext
    BY <1>2, <2>1, <2>3, ListingSteps, CreateShown, EditsShown
  <2>4. ASSUME BadgesStay, UNCHANGED <<users, calls>> PROVE BadgeRules'
    BY <2>1, <2>4, StillShown DEF BadgeRules
  <2>5. CASE WishListsNext
    <3>1. UNCHANGED <<users, listings>> /\ (UNCHANGED calls \/ Moves(WishPcs))
      BY <1>2, <2>5, WishMoves DEF wishesOnly
    <3>2. BadgesStay /\ WishPcs \intersect BadgePcs = {}
      BY <3>1 DEF BadgesStay, WishPcs, BadgePcs
    <3> QED BY <1>2, <2>1, <2>4, <3>1, <3>2, BadgeMoves
  <2>6. ASSUME NEW c \in Clients, CallFails(c) PROVE BadgeRules'
    <3>1. Began(c) /\ Goto(c, Idle) /\ UNCHANGED <<users, listings>>
      BY <2>6 DEF CallFails, Began, Respond, Goto
    <3> QED BY <1>2, <2>1, <3>1, BadgeApart, IdleFormed DEF BadgesStay, BadgePcs
  <2>7. CASE NextDay
    <3>1. ASSUME NEW l \in ListingIds, listings'[l] # NoListing
          PROVE  /\ listings[l] # NoListing
                 /\ listings'[l].owner = listings[l].owner
                 /\ listings'[l].badge = listings[l].badge
      <4>1. listings'[l] = Served(listings[l])
        BY <2>7 DEF NextDay
      <4>2. listings[l] # NoListing
        BY <3>1, <4>1 DEF Served
      <4>3. listings[l] \in Listing
        BY <1>2, <4>2 DEF MarketTypes, DocsTyped
      <4> QED BY <4>1, <4>2, <4>3 DEF Served, Listing
    <3> QED BY <2>4, <2>7, <3>1 DEF NextDay, BadgesStay
  <2>8. CASE UNCHANGED marketVars
    BY <2>4, <2>8 DEF marketVars, BadgesStay
  <2> QED BY <1>2, <2>2, <2>3, <2>5, <2>6, <2>7, <2>8 DEF Next, vars
<1>3. BadgeInv => BadgeShown
  <2> SUFFICES ASSUME BadgeInv, BadgeForms, NEW l \in Listed,
                      listings[l].owner \in Live, users[listings[l].owner].verified
               PROVE  listings[l].badge
    BY DEF BadgeShown, BadgeForms
  <2> QED BY DEF BadgeInv, BadgeRules, Shown, AdShown, Listed, Live, LiveIn
<1> QED BY <1>1, <1>2, <1>3, SoloAlways, PTL DEF Spec

(***************************************************************************)
(* VIP days                                                                *)
(***************************************************************************)
\* What a listing has been served and will be, if its VIP status ends on day n.
Beyond(n, day) == IF n > day THEN n - day ELSE 0
Share(ad, n, day, u) ==
    IF ad # NoListing /\ ad.owner = u THEN ad.served + Beyond(n, day) ELSE 0

\* What a call has been paid for and has not yet added to a listing.
Owed(call, u) == IF call.pc = "findAd" /\ call.user = u THEN call.term ELSE 0

\* For each listing the latest end that was ever computed for it.
Tops == [ListingIds -> Nat]

SharesIn(ads, top, day, u) ==
    [l \in ListingIds |-> Share(ads[l], top[l], day, u)]
DebtsIn(cs, u) == [c \in Clients |-> Owed(cs[c], u)]
Claim(shares, debts) == Total(ListingIds)[shares] + Total(Clients)[debts]

Shares(top, u) == SharesIn(listings, top, today, u)
Debts(u) == DebtsIn(calls, u)
Claimed(top, u) == Claim(Shares(top, u), Debts(u))

\* No end is later than the latest one, and all the latest ones are paid for.
Within(top) ==
    /\ \A l \in Listed : listings[l].vip <= top[l]
    /\ \A c \in Clients :
          /\ calls[c].pc = "extend" =>
                 /\ calls[c].listing \in 1..born
                 /\ calls[c].date <= top[calls[c].listing]
          /\ calls[c].pc = "saveAd" => calls[c].ad.vip = 0 /\ calls[c].ad.served = 0
          /\ calls[c].pc # "saveClone"
    /\ \A l \in ListingIds : l > born => top[l] = 0
    /\ \A u \in UserIds : Claimed(top, u) <= paid[u]

Exact ==
    OneCallAtATime /\ ~scene.fails /\ ~scene.night /\ scene.ops \subseteq Lossless
StartsWith(u) == \E i \in 1..Len(scene.ads) : scene.ads[i].owner = u

\* Where nothing may be lost, every end computed comes into force.
InForce(top) ==
    /\ \A u \in UserIds :
          StartsWith(u) => AdsOf(u) # {} /\ Claimed(top, u) = paid[u]
    /\ \A c \in Clients :
          /\ calls[c].pc # "removeAd"
          /\ calls[c].pc = "extend" => calls[c].date = top[calls[c].listing]
    /\ \A l \in Listed :
          \/ listings[l].vip = top[l]
          \/ \E c \in Clients : calls[c].pc = "extend" /\ calls[c].listing = l

VipRules(top) == Within(top) /\ (Exact => InForce(top))
VipInv == Never({"cloneSingleProduct"}) => \E top \in Tops : VipRules(top)

\* All of these are numbers.
LEMMA ClaimNumbers ==
    ASSUME NEW top \in Tops, NEW u, NEW day \in Nat,
           NEW ads \in [ListingIds -> Listing \union {NoListing}],
           NEW cs \in [Clients -> Call]
    PROVE  /\ SharesIn(ads, top, day, u) \in [ListingIds -> Nat]
           /\ DebtsIn(cs, u) \in [Clients -> Nat]
<1>1. ASSUME NEW l \in ListingIds
      PROVE  Share(ads[l], top[l], day, u) \in Nat
  <2>1. top[l] \in Nat
    BY DEF Tops
  <2>2. Beyond(top[l], day) \in Nat
    BY <2>1 DEF Beyond
  <2>3. ads[l] # NoListing => ads[l].served \in Nat
    <3>1. ads[l] # NoListing => ads[l] \in Listing
      OBVIOUS
    <3> QED BY <3>1 DEF Listing
  <2> QED BY <2>2, <2>3 DEF Share
<1>2. ASSUME NEW c \in Clients PROVE Owed(cs[c], u) \in Nat
  <2>1. cs[c].term \in Nat
    BY TermDays
  <2> QED BY <2>1 DEF Owed
<1> QED BY <1>1, <1>2 DEF SharesIn, DebtsIn

\* The same of this state, and of the next.
LEMMA ClaimTypes ==
    ASSUME MarketTypes, NEW top \in Tops, NEW u
    PROVE  /\ Shares(top, u) \in [ListingIds -> Nat]
           /\ Debts(u) \in [Clients -> Nat]
BY ClaimNumbers, DaysCount DEF MarketTypes, DocsTyped, Shares, Debts

\* (The types hold in the next state.)
LEMMA ClaimTypesNext ==
    ASSUME MarketTypes', NEW top \in Tops, NEW u
    PROVE  /\ Shares(top, u)' \in [ListingIds -> Nat]
           /\ Debts(u)' \in [Clients -> Nat]
<1>1. today' \in Nat
  BY MarketAssumption DEF MarketTypes
<1> QED BY <1>1, ClaimNumbers DEF MarketTypes, DocsTyped, Shares, Debts

\* Sums of days.
LEMMA ClaimSums ==
    ASSUME NEW f \in [ListingIds -> Nat], NEW g \in [Clients -> Nat]
    PROVE  /\ Claim(f, g) \in Nat
           /\ \A f2 \in [ListingIds -> Nat], g2 \in [Clients -> Nat] :
                 /\ /\ \A l \in ListingIds : f2[l] <= f[l]
                    /\ \A c \in Clients : g2[c] <= g[c]
                    => Claim(f2, g2) <= Claim(f, g)
                 /\ \A l \in ListingIds :
                       (\A k \in ListingIds \ {l} : f2[k] = f[k])
                       => Claim(f2, g) = (Claim(f, g) - f[l]) + f2[l]
                 /\ \A c \in Clients :
                       (\A d \in Clients \ {c} : g2[d] = g[d])
                       => Claim(f, g2) = (Claim(f, g) - g[c]) + g2[c]
<1>1. IsFiniteSet(ListingIds) /\ IsFiniteSet(Clients)
  BY MarketAssumption, FS_Interval DEF ListingIds
<1>2. /\ [ListingIds -> Nat] \subseteq [ListingIds -> Int]
      /\ [Clients -> Nat] \subseteq [Clients -> Int]
  OBVIOUS
<1>3. /\ \A f2 \in [ListingIds -> Nat] : Total(ListingIds)[f2] \in Int
      /\ \A g2 \in [Clients -> Nat] : Total(Clients)[g2] \in Int
  BY <1>1, <1>2, SumFacts
<1>4. Total(ListingIds)[f] >= 0 /\ Total(Clients)[g] >= 0
  BY <1>1, <1>2, SumFacts
<1>5. Claim(f, g) \in Nat
  BY <1>3, <1>4 DEF Claim
<1>6. ASSUME NEW f2 \in [ListingIds -> Nat], NEW g2 \in [Clients -> Nat],
             \A l \in ListingIds : f2[l] <= f[l], \A c \in Clients : g2[c] <= g[c]
      PROVE  Claim(f2, g2) <= Claim(f, g)
  <2>1. Total(ListingIds)[f2] <= Total(ListingIds)[f]
    BY <1>1, <1>2, <1>6, SumFacts
  <2>2. Total(Clients)[g2] <= Total(Clients)[g]
    BY <1>1, <1>2, <1>6, SumFacts
  <2> QED BY <1>3, <2>1, <2>2 DEF Claim
<1>7. ASSUME NEW f2 \in [ListingIds -> Nat], NEW l \in ListingIds,
             \A k \in ListingIds \ {l} : f2[k] = f[k]
      PROVE  Claim(f2, g) = (Claim(f, g) - f[l]) + f2[l]
  <2>1. Total(ListingIds)[f2] = (Total(ListingIds)[f] - f[l]) + f2[l]
    BY <1>1, <1>2, <1>7, SumOfUpdate
  <2> QED BY <1>3, <2>1 DEF Claim
<1>8. ASSUME NEW g2 \in [Clients -> Nat], NEW c \in Clients,
             \A d \in Clients \ {c} : g2[d] = g[d]
      PROVE  Claim(f, g2) = (Claim(f, g) - g[c]) + g2[c]
  <2>1. Total(Clients)[g2] = (Total(Clients)[g] - g[c]) + g2[c]
    BY <1>1, <1>2, <1>8, SumOfUpdate
  <2> QED BY <1>3, <2>1 DEF Claim
<1> QED BY <1>5, <1>6, <1>7, <1>8

\* Listings keep what counts, go, or come without VIP days.
AdsHeld ==
    /\ \A l \in ListingIds :
          listings'[l] # NoListing =>
             \/ /\ listings[l] # NoListing
                /\ listings'[l].owner = listings[l].owner
                /\ listings'[l].vip = listings[l].vip
                /\ listings'[l].served = listings[l].served
             \/ l > born /\ listings'[l].vip = 0 /\ listings'[l].served = 0
    /\ Exact => \A l \in Listed : listings'[l] # NoListing

\* A call goes on that has no payment to add to a listing.
Unpaid(call) ==
    /\ call.pc \notin {"findAd", "extend", "saveClone"}
    /\ call.pc = "saveAd" => call.ad.vip = 0 /\ call.ad.served = 0

CallsHeld ==
    \A c \in Clients :
       \/ calls'[c] = calls[c]
       \/ /\ Unpaid(calls'[c])
          /\ Exact => /\ calls'[c].pc # "removeAd"
                      /\ calls[c].pc # "extend"
                      /\ calls[c].pc = "findAd" => ~StartsWith(calls[c].user)

\* Steps of that kind keep the rules.
LEMMA VipStep ==
    ASSUME MarketTypes, MarketTypes', NEW top \in Tops, VipRules(top),
           UNCHANGED <<scene, today, paid>>, born <= born',
           AdsHeld, CallsHeld
    PROVE  VipRules(top)'
<1>1. /\ today \in Nat /\ born \in Nat /\ born' \in Nat
      /\ \A l \in ListingIds : top[l] \in Nat /\ l \in Nat
      /\ \A l \in Listed : l <= born
  <2>1. born \in Nat /\ born' \in Nat /\ \A l \in Listed : l <= born
    BY MarketAssumption DEF MarketTypes
  <2>2. \A l \in ListingIds : top[l] \in Nat /\ l \in Nat
    BY DEF Tops, ListingIds
  <2> QED BY <2>1, <2>2, DaysCount
<1>2. Within(top)
  BY DEF VipRules
<1>3. UNCHANGED Exact /\ \A u : UNCHANGED StartsWith(u)
  BY DEF Exact, OneCallAtATime, StartsWith
<1>4. ASSUME NEW u \in UserIds, NEW l \in ListingIds
      PROVE  /\ (Shares(top, u)')[l] <= Shares(top, u)[l]
             /\ Exact => (Shares(top, u)')[l] = Shares(top, u)[l]
  <2>1. /\ Shares(top, u)[l] = Share(listings[l], top[l], today, u)
        /\ (Shares(top, u)')[l] = Share(listings'[l], top[l], today, u)
        /\ Shares(top, u)[l] \in Nat
    BY ClaimTypes DEF Shares, SharesIn
  <2>2. CASE listings'[l] = NoListing
    <3>1. (Shares(top, u)')[l] = 0
      BY <2>1, <2>2 DEF Share
    <3>2. Exact => Shares(top, u)[l] = 0
      BY <2>1, <2>2 DEF Share, AdsHeld, Listed
    <3> QED BY <2>1, <3>1, <3>2
  <2>3. CASE /\ listings'[l] # NoListing /\ listings[l] # NoListing
             /\ listings'[l].owner = listings[l].owner
             /\ listings'[l].served = listings[l].served
    <3>1. (Shares(top, u)')[l] = Shares(top, u)[l]
      BY <2>1, <2>3 DEF Share
    <3> QED BY <2>1, <3>1
  <2>4. CASE listings'[l] # NoListing /\ l > born /\ listings'[l].served = 0
    <3>1. top[l] = 0
      BY <1>2, <2>4 DEF Within
    <3>2. Beyond(top[l], today) = 0
      BY <1>1, <3>1 DEF Beyond
    <3>3. (Shares(top, u)')[l] = 0
      BY <2>1, <2>4, <3>2 DEF Share
    <3>4. listings[l] = NoListing
      BY <1>1, <2>4 DEF Listed
    <3>5. Shares(top, u)[l] = 0
      BY <2>1, <3>4 DEF Share
    <3> QED BY <3>3, <3>5
  <2> QED BY <2>2, <2>3, <2>4 DEF AdsHeld
<1>5. ASSUME NEW u \in UserIds, NEW c \in Clients
      PROVE  /\ (Debts(u)')[c] <= Debts(u)[c]
             /\ Exact /\ StartsWith(u) => (Debts(u)')[c] = Debts(u)[c]
  <2>1. /\ Debts(u)[c] = Owed(calls[c], u) /\ (Debts(u)')[c] = Owed(calls'[c], u)
        /\ Debts(u)[c] \in Nat
    BY ClaimTypes DEF Debts, DebtsIn
  <2>2. CASE calls'[c] = calls[c]
    BY <2>1, <2>2
  <2>3. CASE calls'[c] # calls[c]
    <3>1. Owed(calls'[c], u) = 0
      BY <2>3 DEF CallsHeld, Unpaid, Owed
    <3>2. Exact /\ StartsWith(u) => Owed(calls[c], u) = 0
      BY <2>3 DEF CallsHeld, Owed
    <3> QED BY <2>1, <3>1, <3>2
  <2> QED BY <2>2, <2>3
<1>6. ASSUME NEW u \in UserIds
      PROVE  /\ Claimed(top, u)' <= paid'[u]
             /\ Exact /\ StartsWith(u) => Claimed(top, u)' = Claimed(top, u)
  <2>1. /\ Shares(top, u) \in [ListingIds -> Nat] /\ Debts(u) \in [Clients -> Nat]
        /\ Shares(top, u)' \in [ListingIds -> Nat] /\ Debts(u)' \in [Clients -> Nat]
    BY ClaimTypes, ClaimTypesNext
  <2>2. Claimed(top, u)' <= Claimed(top, u)
    BY <1>4, <1>5, <2>1, ClaimSums DEF Claimed
  <2>3. Claimed(top, u) \in Nat /\ Claimed(top, u)' \in Nat
    BY <2>1, ClaimSums DEF Claimed
  <2>4. Claimed(top, u) <= paid[u] /\ paid[u] \in Nat /\ paid'[u] = paid[u]
    BY <1>2, MarketAssumption DEF Within, MarketTypes
  <2>5. ASSUME Exact, StartsWith(u) PROVE Claimed(top, u)' = Claimed(top, u)
    <3>1. Shares(top, u)' = Shares(top, u)
      BY <1>4, <2>1, <2>5
    <3>2. Debts(u)' = Debts(u)
      BY <1>5, <2>1, <2>5
    <3> QED BY <3>1, <3>2 DEF Claimed
  <2> QED BY <2>2, <2>3, <2>4, <2>5
<1>7. ASSUME NEW l \in Listed'
      PROVE  \/ /\ l \in Listed
                /\ listings'[l].owner = listings[l].owner
                /\ listings'[l].vip = listings[l].vip
             \/ listings'[l].vip = 0 /\ top[l] = 0
  BY <1>2, <1>7 DEF Listed, AdsHeld, Within
<1>8. \A l \in Listed' : listings'[l].vip <= top[l]
  BY <1>2, <1>7 DEF Within
<1>9. ASSUME NEW c \in Clients
      PROVE  /\ calls'[c].pc = "extend" =>
                    /\ calls'[c].listing \in 1..born'
                    /\ calls'[c].date <= top[calls'[c].listing]
             /\ calls'[c].pc = "saveAd" =>
                    calls'[c].ad.vip = 0 /\ calls'[c].ad.served = 0
             /\ calls'[c].pc # "saveClone"
  <2>1. CASE calls'[c] = calls[c]
    <3>1. 1..born \subseteq 1..born'
      BY <1>1
    <3> QED BY <1>2, <2>1, <3>1 DEF Within
  <2>2. CASE Unpaid(calls'[c])
    BY <2>2 DEF Unpaid
  <2> QED BY <2>1, <2>2 DEF CallsHeld
<1>10. \A l \in ListingIds : l > born' => top[l] = 0
  BY <1>1, <1>2 DEF Within
<1>11. Within(top)'
  BY <1>6, <1>8, <1>9, <1>10 DEF Within
<1>12. ASSUME Exact PROVE InForce(top)'
  <2>1. InForce(top)
    BY <1>12 DEF VipRules
  <2>2. ASSUME NEW u \in UserIds, StartsWith(u)
        PROVE  AdsOf(u)' # {} /\ Claimed(top, u)' = paid'[u]
    <3>1. PICK l \in Listed : listings[l].owner = u
      BY <2>1, <2>2 DEF InForce, AdsOf
    <3>2. listings'[l] # NoListing /\ l \in ListingIds /\ ~(l > born)
      BY <1>1, <1>12 DEF AdsHeld, Listed
    <3>3. l \in AdsOf(u)'
      BY <3>1, <3>2 DEF AdsHeld, AdsOf, Listed
    <3> QED BY <1>6, <1>12, <2>1, <2>2, <3>3 DEF InForce
  <2>3. ASSUME NEW c \in Clients
        PROVE  /\ calls'[c].pc # "removeAd"
               /\ calls'[c].pc = "extend" =>
                      calls'[c].date = top[calls'[c].listing]
    BY <1>12, <2>1 DEF InForce, CallsHeld, Unpaid
  <2>4. ASSUME NEW l \in Listed'
        PROVE  \/ listings'[l].vip = top[l]
               \/ \E c \in Clients :
                     calls'[c].pc = "extend" /\ calls'[c].listing = l
    <3>1. CASE l \in Listed /\ listings'[l].vip = listings[l].vip
      <4>1. CASE listings[l].vip = top[l]
        BY <3>1, <4>1
      <4>2. ASSUME NEW c \in Clients, calls[c].pc = "extend", calls[c].listing = l
            PROVE  calls'[c].pc = "extend" /\ calls'[c].listing = l
        BY <1>12, <4>2 DEF CallsHeld
      <4> QED BY <2>1, <3>1, <4>1, <4>2 DEF InForce
    <3> QED BY <1>7, <3>1
  <2> QED BY <1>3, <2>2, <2>3, <2>4 DEF InForce
<1> QED BY <1>3, <1>11, <1>12 DEF VipRules

\* A listing is saved that was never VIP.
LEMMA SavedHeld ==
    ASSUME MarketTypes, NEW ad, ad.vip = 0, ad.served = 0, SaveListing(ad)
    PROVE  AdsHeld /\ born <= born'
<1>1. \A l \in ListingIds :
         listings'[l] = IF l = born + 1 THEN ad ELSE listings[l]
  BY DEF SaveListing, MarketTypes, DocsTyped
<1>2. born \in Nat /\ born' = born + 1 /\ \A l \in Listed : l <= born
  BY MarketAssumption DEF MarketTypes, SaveListing
<1>3. ASSUME NEW l \in Listed PROVE listings'[l] # NoListing
  <2>1. l # born + 1
    BY <1>2
  <2> QED BY <1>1, <2>1 DEF Listed
<1>4. \A l \in ListingIds :
         l = born + 1 => l > born /\ listings'[l].vip = 0 /\ listings'[l].served = 0
  BY <1>1, <1>2
<1>5. \A l \in ListingIds : l # born + 1 => listings'[l] = listings[l]
  BY <1>1
<1>6. AdsHeld
  BY <1>3, <1>4, <1>5 DEF AdsHeld
<1> QED BY <1>2, <1>6

\* One call goes on.
LEMMA OneHeld ==
    ASSUME MarketTypes, NEW c \in Clients, NEW call, Goto(c, call), Unpaid(call),
           Exact => /\ call.pc # "removeAd"
                    /\ calls[c].pc # "extend"
                    /\ calls[c].pc = "findAd" => ~StartsWith(calls[c].user)
    PROVE  CallsHeld
BY DEF Goto, MarketTypes, CallsHeld

\* Calls that are about VIP days, or about new listings.
VipPcs == {"findAd", "extend", "saveAd", "saveClone", "removeAd"}

\* The other calls go on.
LEMMA MovesHeld ==
    ASSUME MarketTypes, NEW pcs, Moves(pcs), pcs \intersect VipPcs = {}
    PROVE  CallsHeld
<1> DEFINE Step(c, call) == /\ Goto(c, call)
                            /\ calls[c].pc \in pcs \union {"idle"}
                            /\ call.pc \in pcs \union {"idle"}
<1>0. PICK c \in Clients : \E call : Step(c, call)
  BY DEF Moves
<1>1. PICK call : Step(c, call)
  BY <1>0
<1>2. calls[c].pc \notin VipPcs /\ call.pc \notin VipPcs
  BY <1>1 DEF VipPcs
<1>3. Unpaid(call)
  BY <1>2 DEF Unpaid, VipPcs
<1> QED BY <1>1, <1>2, <1>3, OneHeld DEF VipPcs

\* Listings that all stay.
LEMMA SameAds ==
    ASSUME UNCHANGED <<listings, born>>, MarketTypes
    PROVE  AdsHeld /\ born <= born'
BY MarketAssumption DEF AdsHeld, Listed, MarketTypes

\* A change of the status or the date of listings.
LEMMA EditsHeld ==
    ASSUME MarketTypes, NEW c \in Clients, Edit(c) \/ SetOwnAd(c),
           NEW top, VipRules(top)
    PROVE  AdsHeld /\ born <= born'
<1>1. AdsKept /\ UNCHANGED born /\ born \in Nat
  BY EditsKept, MarketAssumption DEF MarketTypes
<1>2. ASSUME Exact, NEW l \in Listed PROVE listings'[l] # NoListing
  <2>1. calls[c].status \in Statuses /\ listings[l] \in Listing
    BY DEF Listed, MarketTypes, DocsTyped, Call
  <2>2. /\ [listings[l] EXCEPT !.status = calls[c].status] \in Listing
        /\ \A pub \in Days :
              [listings[l] EXCEPT !.status = calls[c].status, !.pub = pub] \in Listing
    BY <2>1, NewAdTyped
  <2>3. CASE SetAd(c)
    <3>1. \/ listings'[l] = listings[l]
          \/ listings'[l] = [listings[l] EXCEPT !.status = calls[c].status]
      BY <2>3 DEF SetAd, SetStatus, Listed
    <3> QED BY <2>1, <2>2, <3>1, MarketAssumption
  <2>4. CASE SetOwnAd(c)
    <3>1. CASE calls[c].status = "publish"
      <4>1. \/ listings'[l] = listings[l]
            \/ listings'[l] = [listings[l] EXCEPT !.status = calls[c].status,
                                                  !.pub = calls[c].date]
        BY <2>4, <3>1 DEF SetOwnAd, Listed
      <4>2. calls[c].date \in Days
        BY <2>4 DEF SetOwnAd, MarketTypes, CallFits
      <4> QED BY <2>1, <2>2, <4>1, <4>2, MarketAssumption
    <3>2. CASE calls[c].status # "publish"
      <4>1. \/ listings'[l] = listings[l]
            \/ listings'[l] = [listings[l] EXCEPT !.status = calls[c].status,
                                                  !.pub = listings[l].pub]
        BY <2>4, <3>2 DEF SetOwnAd, Listed
      <4>2. [listings[l] EXCEPT !.status = calls[c].status, !.pub = listings[l].pub]
               = [listings[l] EXCEPT !.status = calls[c].status]
        BY <2>1 DEF Listing
      <4> QED BY <2>1, <2>2, <4>1, <4>2, MarketAssumption
    <3> QED BY <3>1, <3>2
  <2>5. ~RemoveAd(c)
    BY <1>2 DEF VipRules, InForce, RemoveAd
  <2>6. ASSUME NEW S, NEW status, NEW deleteMany,
               \/ UpdateMultipleProductById(c, S, status)
               \/ DeleteMultipleProductById(c, S)
               \/ InsertManyProduct(c, deleteMany)
        PROVE  FALSE
    BY <1>2, <2>6 DEF UpdateMultipleProductById, DeleteMultipleProductById,
       InsertManyProduct, MayCall, Exact, Lossless
  <2> QED BY <2>3, <2>4, <2>5, <2>6 DEF Edit
<1> QED BY <1>1, <1>2 DEF AdsKept, AdsHeld

\* Listings are looked for, and made.
LEMMA ListingCallsHeld ==
    ASSUME MarketTypes, NEW c \in Clients, NEW top, VipRules(top),
           \/ ReadOwner(c) \/ LookFor(c)
           \/ \E u \in UserIds, status \in Statuses : AddProductByUser(c, u, status)
           \/ \E u \in UserIds, l \in Listed, status \in Statuses :
                 UpdateUserProductById(c, u, l, status)
    PROVE  CallsHeld /\ AdsHeld /\ born <= born'
<1>1. AdsHeld /\ born <= born'
  <2>1. UNCHANGED <<listings, born>>
    BY DEF ReadOwner, LookFor, DeleteProductById, DeleteUserProductById,
       UpdateProductById, Look, AddProductByUser, UpdateUserProductById
  <2> QED BY <2>1, SameAds
<1>2. ASSUME NEW op, MayCall(c, op), NEW call, Goto(c, call), Unpaid(call),
             Exact => call.pc # "removeAd"
      PROVE  CallsHeld
  <2>1. calls[c].pc = "idle"
    BY <1>2, IdleFormed DEF MayCall
  <2> QED BY <1>2, <2>1, OneHeld
<1>3. ASSUME NEW pc \in {"setAd", "setOwnAd", "removeAd"}, NEW l, NEW status,
             NEW op, MayCall(c, op), Look(c, l, pc, status),
             Exact => pc # "removeAd"
      PROVE  CallsHeld
  <2> DEFINE call == [Idle EXCEPT !.pc = pc, !.listing = l, !.status = status,
                                  !.date = PublishDay(pc, status)]
  <2>1. Goto(c, call) /\ call.pc = pc
    BY <1>3, IdleFormed DEF Look
  <2> HIDE DEF call
  <2>2. Unpaid(call)
    BY <2>1 DEF Unpaid
  <2> QED BY <1>2, <1>3, <2>1, <2>2
<1>4. CASE LookFor(c)
  <2>1. ASSUME NEW l, NEW u, DeleteUserProductById(c, u, l) PROVE CallsHeld
    <3>1. MayCall(c, "deleteUserProductById") /\ Look(c, l, "removeAd", "deleted")
      BY <2>1 DEF DeleteUserProductById, MayAsk
    <3>2. ~Exact
      BY <3>1 DEF MayCall, Exact, Lossless
    <3> QED BY <1>3, <3>1, <3>2
  <2>2. ASSUME NEW l, DeleteProductById(c, l) PROVE CallsHeld
    <3>1. MayCall(c, "deleteProductById") /\ Look(c, l, "setAd", "deleted")
      BY <2>2 DEF DeleteProductById
    <3> QED BY <1>3, <3>1
  <2>3. ASSUME NEW l, NEW status, UpdateProductById(c, l, status) PROVE CallsHeld
    <3>1. MayCall(c, "updateProductById") /\ Look(c, l, "setAd", status)
      BY <2>3 DEF UpdateProductById
    <3> QED BY <1>3, <3>1
  <2> QED BY <1>1, <1>4, <2>1, <2>2, <2>3 DEF LookFor
<1>5. ASSUME NEW u, NEW l, NEW status, UpdateUserProductById(c, u, l, status)
      PROVE  CallsHeld
  <2>1. /\ MayCall(c, "updateUserProductById")
        /\ Look(c, l, "setOwnAd", status)
    BY <1>5 DEF UpdateUserProductById, MayAsk
  <2> QED BY <1>3, <2>1
<1>6. ASSUME NEW u, NEW status, AddProductByUser(c, u, status)
      PROVE  CallsHeld
  <2> DEFINE call == [Idle EXCEPT !.pc = "readOwner", !.user = u,
                                  !.status = status]
  <2>1. MayCall(c, "addProductByUser") /\ Goto(c, call)
    BY <1>6 DEF AddProductByUser, MayAsk
  <2>2. call.pc = "readOwner"
    BY IdleFormed
  <2> HIDE DEF call
  <2>3. Unpaid(call)
    BY <2>2 DEF Unpaid
  <2> QED BY <1>2, <2>1, <2>2, <2>3
<1>7. CASE ReadOwner(c)
  <2> DEFINE call(ad) == [calls[c] EXCEPT !.pc = "saveAd", !.ad = ad]
  <2>1. calls[c].pc = "readOwner" /\ calls[c] \in Call
    BY <1>7 DEF ReadOwner, MarketTypes
  <2>2. \A ad : call(ad).pc = "saveAd" /\ call(ad).ad = ad
    BY <2>1 DEF Call
  <2>3. PICK ad : Goto(c, call(ad)) /\ ad.vip = 0 /\ ad.served = 0
    <3> DEFINE ad1 == [NewAd EXCEPT !.status = calls[c].status, !.pub = today,
                                    !.owner = calls[c].user,
                                    !.badge = users[calls[c].user].verified]
               ad2 == [NewAd EXCEPT !.status = calls[c].status, !.pub = today]
    <3>1. /\ ad1.vip = 0 /\ ad1.served = 0
          /\ ad2.vip = 0 /\ ad2.served = 0
      BY DEF NewAd
    <3>2. Goto(c, call(ad1)) \/ Goto(c, call(ad2))
      BY <1>7 DEF ReadOwner
    <3> HIDE DEF ad1, ad2, call
    <3> QED BY <3>1, <3>2
  <2> HIDE DEF call
  <2>4. Unpaid(call(ad))
    BY <2>2, <2>3 DEF Unpaid
  <2> QED BY <1>1, <2>1, <2>2, <2>3, <2>4, OneHeld
<1> QED BY <1>1, <1>4, <1>5, <1>6, <1>7

\* Listings are saved.
LEMMA SavesHeld ==
    ASSUME MarketTypes, NEW c \in Clients, NEW top, VipRules(top),
           \/ SaveAd(c) \/ InsertAds(c)
           \/ \E status \in Statuses, pub \in {0, today} : AddProduct(c, status, pub)
    PROVE  CallsHeld /\ AdsHeld /\ born <= born'
<1>1. ASSUME Respond(c), calls[c].pc \in {"saveAd", "insertAds"} PROVE CallsHeld
  <2>1. Goto(c, Idle) /\ Unpaid(Idle) /\ Idle.pc # "removeAd"
    BY <1>1, IdleFormed DEF Respond, Goto, Unpaid
  <2> QED BY <1>1, <2>1, OneHeld
<1>2. CASE SaveAd(c)
  <2> DEFINE ad == calls[c].ad
  <2>1. calls[c].pc = "saveAd" /\ ad \in Listing /\ SaveListing(ad)
    BY <1>2 DEF SaveAd, MarketTypes, CallFits
  <2>2. ad.vip = 0 /\ ad.served = 0
    BY <2>1 DEF VipRules, Within
  <2> HIDE DEF ad
  <2> QED BY <1>1, <1>2, <2>1, <2>2, SavedHeld DEF SaveAd
<1>3. ASSUME NEW status, NEW pub, SaveListing([NewAd EXCEPT !.status = status,
                                                           !.pub = pub])
      PROVE  AdsHeld /\ born <= born'
  <2> DEFINE ad == [NewAd EXCEPT !.status = status, !.pub = pub]
  <2>1. ad.vip = 0 /\ ad.served = 0 /\ SaveListing(ad)
    BY <1>3 DEF NewAd
  <2> HIDE DEF ad
  <2> QED BY <2>1, SavedHeld
<1>4. CASE InsertAds(c)
  <2>1. PICK status, pub :
            SaveListing([NewAd EXCEPT !.status = status, !.pub = pub])
    BY <1>4 DEF InsertAds
  <2> DEFINE ad == [NewAd EXCEPT !.status = status, !.pub = pub]
  <2>2. ad.vip = 0 /\ ad.served = 0 /\ SaveListing(ad)
    BY <2>1 DEF NewAd
  <2> HIDE DEF ad
  <2> QED BY <1>1, <1>4, <2>2, SavedHeld DEF InsertAds
<1>5. ASSUME NEW status, NEW pub, AddProduct(c, status, pub)
      PROVE  CallsHeld /\ AdsHeld /\ born <= born'
  <2>1. UNCHANGED calls
    BY <1>5 DEF AddProduct
  <2>2. SaveListing([NewAd EXCEPT !.status = status, !.pub = pub])
    BY <1>5 DEF AddProduct
  <2> QED BY <1>3, <2>1, <2>2 DEF CallsHeld
<1> QED BY <1>2, <1>4, <1>5

\* Every step of the listings.
LEMMA ListingsKeepVip ==
    ASSUME MarketTypes, MarketTypes', Never({"cloneSingleProduct"}),
           NEW top \in Tops, VipRules(top), ListingsNext
    PROVE  VipRules(top)'
<1>1. UNCHANGED <<scene, today, paid>>
  BY ListingMoves DEF listingsOnly
<1>2. ASSUME NEW c \in Clients, Edit(c) \/ SetOwnAd(c)
      PROVE  CallsHeld /\ AdsHeld /\ born <= born'
  <2>1. CASE UNCHANGED calls
    BY <1>2, <2>1, EditsHeld DEF CallsHeld
  <2>2. CASE Respond(c) /\ calls[c].pc \in {"setAd", "setOwnAd", "removeAd"}
    <3>1. Goto(c, Idle) /\ Unpaid(Idle) /\ Idle.pc # "removeAd"
      BY <2>2, IdleFormed DEF Respond, Goto, Unpaid
    <3>2. CallsHeld
      BY <2>2, <3>1, OneHeld
    <3> QED BY <3>2, <1>2, EditsHeld
  <2>3. ASSUME NEW deleteMany, InsertManyProduct(c, deleteMany)
        PROVE  CallsHeld
    <3> DEFINE call == [Idle EXCEPT !.pc = "insertAds"]
    <3>1. Goto(c, call) /\ call.pc = "insertAds" /\ calls[c].pc = "idle"
      BY <2>3, IdleFormed DEF InsertManyProduct, MayCall
    <3> HIDE DEF call
    <3>2. Unpaid(call)
      BY <3>1 DEF Unpaid
    <3> QED BY <3>1, <3>2, OneHeld
  <2>4. \/ UNCHANGED calls
        \/ Respond(c) /\ calls[c].pc \in {"setAd", "setOwnAd", "removeAd"}
        \/ \E deleteMany : InsertManyProduct(c, deleteMany)
    BY <1>2 DEF Edit, SetAd, SetOwnAd, RemoveAd, UpdateMultipleProductById,
       DeleteMultipleProductById
  <2> QED BY <1>2, <2>1, <2>2, <2>3, <2>4, EditsHeld
<1>3. ASSUME NEW c \in Clients, SaveClone(c) \/ \E l : CloneSingleProduct(c, l)
      PROVE  FALSE
  BY <1>3 DEF SaveClone, CloneSingleProduct, MayCall, Never, VipRules, Within
<1>4. \A status \in Statuses \ {"deleted"} : status \in Statuses
  OBVIOUS
<1>5. PICK c \in Clients :
              \/ ReadOwner(c) \/ SaveAd(c) \/ SaveClone(c) \/ InsertAds(c)
              \/ \E status \in Statuses \ {"deleted"} :
                    \/ \E pub \in {0, today} : AddProduct(c, status, pub)
                    \/ \E u \in UserIds : AddProductByUser(c, u, status)
                    \/ \E u \in UserIds, l \in Listed :
                          UpdateUserProductById(c, u, l, status)
              \/ \E l \in Listed : CloneSingleProduct(c, l)
              \/ SetOwnAd(c) \/ Edit(c) \/ LookFor(c)
  BY ListingSteps
<1>6. CASE \/ ReadOwner(c) \/ LookFor(c)
           \/ \E status \in Statuses, u \in UserIds : AddProductByUser(c, u, status)
           \/ \E status \in Statuses, u \in UserIds, l \in Listed :
                 UpdateUserProductById(c, u, l, status)
  BY <1>1, <1>6, ListingCallsHeld, VipStep
<1>7. CASE \/ SaveAd(c) \/ InsertAds(c)
           \/ \E status \in Statuses, pub \in {0, today} : AddProduct(c, status, pub)
  BY <1>1, <1>7, SavesHeld, VipStep
<1>8. CASE Edit(c) \/ SetOwnAd(c)
  BY <1>1, <1>2, <1>8, VipStep
<1> QED BY <1>3, <1>4, <1>5, <1>6, <1>7, <1>8

\* Only one call changes.
LEMMA OneChanges ==
    ASSUME MarketTypes, NEW c \in Clients, NEW call, Goto(c, call)
    PROVE  calls'[c] = call /\ \A d \in Clients \ {c} : calls'[d] = calls[d]
BY DEF Goto, MarketTypes

\* The payment is saved, and its days are owed.
LEMMA PayKeepsVip ==
    ASSUME MarketTypes, MarketTypes', NEW top \in Tops, VipRules(top),
           NEW c \in Clients, Pay(c)
    PROVE  VipRules(top)'
<1> DEFINE call == [calls[c] EXCEPT !.pc = "findAd"]
           v == calls[c].user
           n == calls[c].term
<1>1. /\ calls[c].pc = "pay" /\ calls[c] \in Call /\ v \in UserIds /\ n \in Nat
      /\ Goto(c, call) /\ paid' = [paid EXCEPT ![v] = @ + n]
      /\ UNCHANGED <<scene, today, listings, born>>
  BY TermDays DEF Pay, MarketTypes, CallFits, accountsOnly
<1>2. call.pc = "findAd" /\ call.user = v /\ call.term = n
  BY <1>1 DEF Call
<1> HIDE DEF call
<1>3. calls'[c] = call /\ \A d \in Clients \ {c} : calls'[d] = calls[d]
  BY <1>1, OneChanges
<1> HIDE DEF v, n
<1>4. Within(top) /\ UNCHANGED Exact /\ \A u : UNCHANGED StartsWith(u)
  BY <1>1 DEF VipRules, Exact, OneCallAtATime, StartsWith
<1>5. ASSUME NEW u \in UserIds
      PROVE  Claimed(top, u)' - paid'[u] = Claimed(top, u) - paid[u]
  <2>1. /\ Shares(top, u) \in [ListingIds -> Nat] /\ Debts(u) \in [Clients -> Nat]
        /\ Shares(top, u)' = Shares(top, u) /\ Debts(u)' \in [Clients -> Nat]
    BY <1>1, ClaimTypes, ClaimTypesNext DEF Shares, SharesIn
  <2>2. \A d \in Clients \ {c} : (Debts(u)')[d] = Debts(u)[d]
    BY <1>3 DEF Debts, DebtsIn
  <2>3. Claimed(top, u)' = (Claimed(top, u) - Debts(u)[c]) + (Debts(u)')[c]
    BY <2>1, <2>2, ClaimSums DEF Claimed
  <2>4. Debts(u)[c] = 0
    BY <1>1 DEF Debts, DebtsIn, Owed
  <2>5. (Debts(u)')[c] = IF u = v THEN n ELSE 0
    BY <1>2, <1>3 DEF Debts, DebtsIn, Owed
  <2>6. paid[u] \in Nat /\ paid'[u] = IF u = v THEN paid[u] + n ELSE paid[u]
    BY <1>1, MarketAssumption DEF MarketTypes
  <2>7. Claimed(top, u) \in Nat
    BY <2>1, ClaimSums DEF Claimed
  <2> QED BY <1>1, <2>3, <2>4, <2>5, <2>6, <2>7
<1>6. ASSUME NEW u \in UserIds
      PROVE  /\ Claimed(top, u)' <= paid'[u]
             /\ Claimed(top, u) = paid[u] => Claimed(top, u)' = paid'[u]
  <2>1. /\ Shares(top, u)' \in [ListingIds -> Nat] /\ Debts(u)' \in [Clients -> Nat]
        /\ Shares(top, u) \in [ListingIds -> Nat] /\ Debts(u) \in [Clients -> Nat]
    BY ClaimTypes, ClaimTypesNext
  <2>2. Claimed(top, u) \in Nat /\ Claimed(top, u)' \in Nat
    BY <2>1, ClaimSums DEF Claimed
  <2>3. paid[u] \in Nat /\ paid'[u] \in Nat
    BY MarketAssumption DEF MarketTypes
  <2>4. Claimed(top, u) <= paid[u]
    BY <1>4 DEF Within
  <2> QED BY <1>5, <2>2, <2>3, <2>4
<1>7. Within(top)'
  BY <1>1, <1>2, <1>3, <1>4, <1>6 DEF Within, Listed
<1>8. ASSUME InForce(top) PROVE InForce(top)'
  <2>1. \A d \in Clients : calls[d].pc = "extend" => calls'[d] = calls[d]
    BY <1>1, <1>3
  <2>2. \A u : AdsOf(u)' = AdsOf(u)
    BY <1>1 DEF AdsOf, Listed
  <2>3. \A u \in UserIds :
           StartsWith(u) => AdsOf(u) # {} /\ Claimed(top, u)' = paid'[u]
    BY <1>6, <1>8 DEF InForce
  <2>4. \A d \in Clients :
           /\ calls'[d].pc # "removeAd"
           /\ calls'[d].pc = "extend" => calls'[d].date = top[calls'[d].listing]
    BY <1>2, <1>3, <1>8 DEF InForce
  <2>5. \A l \in Listed :
           \/ listings[l].vip = top[l]
           \/ \E d \in Clients : calls'[d].pc = "extend" /\ calls'[d].listing = l
    BY <1>8, <2>1 DEF InForce
  <2> QED BY <1>1, <1>4, <2>2, <2>3, <2>4, <2>5 DEF InForce, Listed
<1> QED BY <1>4, <1>7, <1>8 DEF VipRules

\* A new expiry comes into force.
LEMMA ExtendKeepsVip ==
    ASSUME MarketTypes, MarketTypes', NEW top \in Tops, VipRules(top),
           NEW c \in Clients, ExtendVip(c)
    PROVE  VipRules(top)'
<1> DEFINE k == calls[c].listing
           n == calls[c].date
<1>1. /\ calls[c].pc = "extend" /\ calls[c] \in Call /\ n \in Nat
      /\ Goto(c, Idle) /\ UNCHANGED <<scene, today, paid, born>>
  BY DEF ExtendVip, MarketTypes, Call, accountsOnly, Respond, Goto
<1>2. \A l \in ListingIds :
         listings'[l] = IF l = k /\ l \in Listed
                          THEN [listings[l] EXCEPT !.vip = n] ELSE listings[l]
  BY DEF ExtendVip
<1>3. calls'[c] = Idle /\ \A d \in Clients \ {c} : calls'[d] = calls[d]
  BY <1>1, OneChanges
<1> HIDE DEF k, n
<1>4. /\ Within(top) /\ UNCHANGED Exact /\ \A u : UNCHANGED StartsWith(u)
      /\ n <= top[k]
  BY <1>1 DEF VipRules, Within, Exact, OneCallAtATime, StartsWith, k, n
<1>5. ASSUME NEW l \in ListingIds
      PROVE  /\ listings'[l] = NoListing <=> listings[l] = NoListing
             /\ l \in Listed => /\ listings'[l].owner = listings[l].owner
                                /\ listings'[l].served = listings[l].served
                                /\ listings'[l].vip = IF l = k THEN n
                                                      ELSE listings[l].vip
  <2>1. CASE l \in Listed /\ l = k
    <3>1. listings[l] \in Listing
      BY <2>1 DEF Listed, MarketTypes, DocsTyped
    <3>2. [listings[l] EXCEPT !.vip = n] \in Listing
      BY <1>1, <3>1 DEF Listing
    <3>3. listings'[l] # NoListing /\ listings[l] # NoListing
      BY <1>2, <2>1, <3>1, <3>2, MarketAssumption
    <3> QED BY <1>2, <2>1, <3>1, <3>3 DEF Listing
  <2>2. CASE ~(l \in Listed /\ l = k)
    BY <1>2, <2>2
  <2> QED BY <2>1, <2>2
<1>6. Listed' = Listed /\ \A u : AdsOf(u)' = AdsOf(u)
  BY <1>5 DEF Listed, AdsOf
<1>7. ASSUME NEW u PROVE Claimed(top, u)' = Claimed(top, u)
  <2>1. Shares(top, u)' = Shares(top, u)
    BY <1>1, <1>5 DEF Shares, SharesIn, Share, Listed
  <2>2. \A d \in Clients : Owed(calls'[d], u) = Owed(calls[d], u)
    BY <1>1, <1>3, IdleFormed DEF Owed
  <2>3. Debts(u)' = Debts(u)
    BY <2>2 DEF Debts, DebtsIn
  <2> QED BY <2>1, <2>3 DEF Claimed
<1>8. Within(top)'
  <2>1. \A l \in Listed' : listings'[l].vip <= top[l]
    BY <1>4, <1>5, <1>6 DEF Within, Listed
  <2> QED BY <1>1, <1>3, <1>4, <1>7, <2>1, IdleFormed DEF Within
<1>9. ASSUME InForce(top) PROVE InForce(top)'
  <2>1. n = top[k]
    BY <1>1, <1>9 DEF InForce, k, n
  <2>2. ASSUME NEW l \in Listed
        PROVE  \/ listings'[l].vip = top[l]
               \/ \E d \in Clients :
                     calls'[d].pc = "extend" /\ calls'[d].listing = l
    <3>1. CASE l = k
      BY <1>5, <2>1, <3>1 DEF Listed
    <3>2. CASE l # k
      <4>1. listings'[l].vip = listings[l].vip
        BY <1>5, <3>2 DEF Listed
      <4>2. ASSUME NEW d \in Clients, calls[d].pc = "extend", calls[d].listing = l
            PROVE  calls'[d].pc = "extend" /\ calls'[d].listing = l
        BY <1>3, <3>2, <4>2 DEF k
      <4> QED BY <1>9, <4>1, <4>2 DEF InForce
    <3> QED BY <3>1, <3>2
  <2>3. \A u \in UserIds :
           StartsWith(u) => AdsOf(u) # {} /\ Claimed(top, u)' = paid[u]
    BY <1>7, <1>9 DEF InForce
  <2>4. \A d \in Clients :
           /\ calls'[d].pc # "removeAd"
           /\ calls'[d].pc = "extend" => calls'[d].date = top[calls'[d].listing]
    BY <1>3, <1>9, IdleFormed DEF InForce
  <2> QED BY <1>1, <1>4, <1>6, <2>2, <2>3, <2>4 DEF InForce
<1> QED BY <1>4, <1>8, <1>9 DEF VipRules

\* The term is added to what is left.
LEMMA LaterTop ==
    ASSUME NEW day \in Nat, NEW n \in Nat, NEW vip \in Nat, NEW term \in Nat,
           vip <= n
    PROVE  LET later(v) == (IF v >= day THEN v ELSE day) + term IN
           /\ later(n) \in Nat /\ n <= later(n)
           /\ later(vip) <= later(n)
           /\ Beyond(later(n), day) = Beyond(n, day) + term
           /\ Beyond(n, day) \in Nat
<1>1. CASE n >= day
  BY <1>1 DEF Beyond
<1>2. CASE n < day
  BY <1>2 DEF Beyond
<1> QED BY <1>1, <1>2

\* The owner's newest listing is found: what was owed is its share now.
LEMMA FindKeepsVip ==
    ASSUME MarketTypes, MarketTypes', Solo, NEW top \in Tops, VipRules(top),
           NEW c \in Clients, NEW k \in AdsOf(calls[c].user),
           calls[c].pc = "findAd",
           Goto(c, [calls[c] EXCEPT !.pc = "extend", !.listing = k,
                       !.date = Extended(listings[k].vip, calls[c].term)]),
           UNCHANGED <<accountsOnly, users, cache, listings, paid>>
    PROVE  \E t \in Tops : VipRules(t)'
<1> DEFINE v == calls[c].user
           n == calls[c].term
           date == Extended(listings[k].vip, n)
           call == [calls[c] EXCEPT !.pc = "extend", !.listing = k, !.date = date]
           new == (IF top[k] >= today THEN top[k] ELSE today) + n
<1>1. /\ calls[c] \in Call /\ v \in UserIds /\ n \in Nat
      /\ Goto(c, call) /\ today \in Nat /\ born \in Nat
      /\ UNCHANGED <<scene, today, born, listings, paid>>
  BY TermDays, DaysCount, MarketAssumption DEF MarketTypes, CallFits, accountsOnly
<1>2. call.pc = "extend" /\ call.user = v /\ call.listing = k /\ call.date = date
  BY <1>1 DEF Call
<1> HIDE DEF call
<1>3. calls'[c] = call /\ \A d \in Clients \ {c} : calls'[d] = calls[d]
  BY <1>1, OneChanges
<1>4. /\ k \in Listed /\ k \in ListingIds /\ listings[k] \in Listing
      /\ listings[k].owner = v /\ listings[k] # NoListing
      /\ listings[k].vip \in Nat /\ listings[k].served \in Nat
  BY DEF AdsOf, Listed, MarketTypes, DocsTyped, Listing
<1>5. Within(top) /\ UNCHANGED Exact /\ \A u : UNCHANGED StartsWith(u)
  BY <1>1 DEF VipRules, Exact, OneCallAtATime, StartsWith
<1>6. top[k] \in Nat /\ listings[k].vip <= top[k]
  BY <1>4, <1>5 DEF Tops, Within
<1>7. /\ new \in Nat /\ top[k] <= new /\ date <= new
      /\ Beyond(new, today) = Beyond(top[k], today) + n
      /\ Beyond(top[k], today) \in Nat
  BY <1>1, <1>4, <1>6, LaterTop DEF Extended
<1>8. listings[k].vip = top[k] => date = new
  BY DEF Extended
<1> HIDE DEF v, n, date, new
<1>9. PICK t \in Tops : t = [top EXCEPT ![k] = new]
  BY <1>4, <1>7 DEF Tops
<1>10. t[k] = new /\ \A l \in ListingIds \ {k} : t[l] = top[l]
  BY <1>4, <1>9 DEF Tops
<1>11. \A l \in ListingIds : top[l] <= t[l] /\ top[l] \in Nat /\ t[l] \in Nat
  BY <1>7, <1>10 DEF Tops
<1>12. ASSUME NEW u PROVE Claimed(t, u)' = Claimed(top, u)
  <2> DEFINE f == Shares(top, u)
             g == Debts(u)
             m == IF u = v THEN n ELSE 0
  <2>1. /\ f \in [ListingIds -> Nat] /\ g \in [Clients -> Nat]
        /\ Shares(t, u)' \in [ListingIds -> Nat] /\ Debts(u)' \in [Clients -> Nat]
    BY ClaimTypes, ClaimTypesNext
  <2>2. \A l \in ListingIds \ {k} : (Shares(t, u)')[l] = f[l]
    BY <1>1, <1>10 DEF Shares, SharesIn
  <2>3. (Shares(t, u)')[k] = f[k] + m
    <3>1. /\ f[k] = Share(listings[k], top[k], today, u)
          /\ (Shares(t, u)')[k] = Share(listings[k], new, today, u)
      BY <1>1, <1>4, <1>10 DEF Shares, SharesIn
    <3>2. CASE u = v
      <4>1. f[k] = listings[k].served + Beyond(top[k], today)
        BY <1>4, <3>1, <3>2 DEF Share
      <4>2. (Shares(t, u)')[k] = listings[k].served + Beyond(new, today)
        BY <1>4, <3>1, <3>2 DEF Share
      <4> QED BY <1>1, <1>4, <1>7, <3>2, <4>1, <4>2
    <3>3. CASE u # v
      BY <1>4, <3>1, <3>3 DEF Share
    <3> QED BY <3>2, <3>3
  <2>4. \A d \in Clients \ {c} : (Debts(u)')[d] = g[d]
    BY <1>3 DEF Debts, DebtsIn
  <2>5. (Debts(u)')[c] = 0 /\ g[c] = m
    BY <1>2, <1>3 DEF Debts, DebtsIn, Owed, v, n
  <2>6. m \in Nat
    BY <1>1
  <2> HIDE DEF f, g, m
  <2>7. Claim(Shares(t, u)', g) = (Claim(f, g) - f[k]) + (Shares(t, u)')[k]
    BY <1>4, <2>1, <2>2, ClaimSums
  <2>8. Claim(Shares(t, u)', Debts(u)')
           = (Claim(Shares(t, u)', g) - g[c]) + (Debts(u)')[c]
    BY <2>1, <2>4, ClaimSums
  <2>9. Claim(f, g) \in Nat /\ f[k] \in Nat
    BY <1>4, <2>1, ClaimSums
  <2>10. Claim(Shares(t, u)', Debts(u)') = Claim(f, g)
    BY <2>3, <2>5, <2>6, <2>7, <2>8, <2>9
  <2> QED BY <2>10 DEF Claimed, f, g
<1>13. Within(t)'
  <2>1. \A l \in Listed' : listings'[l].vip <= t[l]
    <3>1. ASSUME NEW l \in Listed PROVE listings[l].vip <= t[l]
      <4>1. listings[l].vip \in Nat /\ l \in ListingIds
        BY DEF Listed, MarketTypes, DocsTyped, Listing
      <4>2. listings[l].vip <= top[l]
        BY <1>5 DEF Within
      <4> QED BY <1>11, <4>1, <4>2
    <3> QED BY <1>1, <3>1 DEF Listed
  <2>2. ASSUME NEW d \in Clients, calls'[d].pc = "extend"
        PROVE  /\ calls'[d].listing \in 1..born
               /\ calls'[d].date <= t[calls'[d].listing]
    <3>1. CASE d = c
      <4>1. k \in 1..born
        BY <1>1, <1>4 DEF MarketTypes, ListingIds
      <4> QED BY <1>2, <1>3, <1>7, <1>10, <3>1, <4>1
    <3>2. CASE d # c
      <4>1. /\ calls'[d] = calls[d] /\ calls[d].listing \in 1..born
            /\ calls[d].date <= top[calls[d].listing]
        BY <1>3, <1>5, <2>2, <3>2 DEF Within
      <4>2. calls[d].listing \in ListingIds /\ calls[d].date \in Nat
        <5>1. born <= MaxListings /\ MaxListings \in Nat
          BY MarketAssumption DEF MarketTypes
        <5> QED BY <1>1, <4>1, <5>1 DEF MarketTypes, Call, ListingIds
      <4> QED BY <1>11, <4>1, <4>2
    <3> QED BY <3>1, <3>2
  <2>3. \A d \in Clients :
           /\ calls'[d].pc = "saveAd" =>
                  calls'[d].ad.vip = 0 /\ calls'[d].ad.served = 0
           /\ calls'[d].pc # "saveClone"
    BY <1>2, <1>3, <1>5 DEF Within
  <2>4. \A l \in ListingIds : l > born => t[l] = 0
    <3>1. k <= born
      BY <1>4 DEF MarketTypes
    <3>2. k \in Nat
      BY <1>4 DEF ListingIds
    <3> QED BY <1>1, <1>5, <1>10, <3>1, <3>2 DEF Within
  <2> QED BY <1>1, <1>5, <1>12, <2>1, <2>2, <2>3, <2>4 DEF Within
<1>14. ASSUME Exact PROVE InForce(t)'
  <2>1. InForce(top)
    BY <1>14 DEF VipRules
  <2>2. \A d \in Clients \ {c} : calls[d] = Idle
    <3>1. calls[c] # Idle
      BY IdleFormed
    <3> QED BY <1>14, <3>1 DEF Solo, Exact, OneCallAtATime
  <2>3. \A d \in Clients : calls[d].pc # "extend"
    BY <2>2, IdleFormed
  <2>4. \A l \in Listed : listings[l].vip = top[l]
    BY <2>1, <2>3 DEF InForce
  <2>5. ASSUME NEW l \in Listed
        PROVE  \/ listings[l].vip = t[l]
               \/ \E d \in Clients :
                     calls'[d].pc = "extend" /\ calls'[d].listing = l
    <3>1. CASE l = k
      BY <1>2, <1>3, <3>1
    <3>2. CASE l # k
      BY <1>10, <2>4, <3>2 DEF Listed
    <3> QED BY <3>1, <3>2
  <2>6. ASSUME NEW d \in Clients
        PROVE  /\ calls'[d].pc # "removeAd"
               /\ calls'[d].pc = "extend" => calls'[d].date = t[calls'[d].listing]
    <3>1. CASE d = c
      BY <1>2, <1>3, <1>4, <1>8, <1>10, <2>4, <3>1
    <3>2. CASE d # c
      BY <1>3, <2>2, <3>2, IdleFormed
    <3> QED BY <3>1, <3>2
  <2>7. \A u : AdsOf(u)' = AdsOf(u)
    BY <1>1 DEF AdsOf, Listed
  <2>8. \A u \in UserIds :
           StartsWith(u) => AdsOf(u) # {} /\ Claimed(t, u)' = paid[u]
    BY <1>12, <2>1 DEF InForce
  <2> QED BY <1>1, <1>5, <2>5, <2>6, <2>7, <2>8 DEF InForce, Listed
<1> QED BY <1>5, <1>13, <1>14 DEF VipRules

\* One day of a listing.
LEMMA DayServed ==
    ASSUME MarketTypes, NEW ad \in Listing, NEW n \in Nat, ad.vip <= n, NEW u,
           today' = today + 1
    PROVE  /\ Served(ad) # NoListing /\ Served(ad).owner = ad.owner
           /\ Served(ad).vip = ad.vip
           /\ Share(Served(ad), n, today', u) <= Share(ad, n, today, u)
           /\ ad.vip = n =>
                  Share(Served(ad), n, today', u) = Share(ad, n, today, u)
<1>1. today \in Nat /\ ad # NoListing /\ ad.served \in Nat /\ ad.vip \in Nat
  BY DaysCount, MarketAssumption DEF Listing
<1>2. [ad EXCEPT !.served = @ + 1] \in Listing
  BY <1>1 DEF Listing
<1>3. /\ Served(ad) \in Listing /\ Served(ad).owner = ad.owner
      /\ Served(ad).vip = ad.vip
      /\ Served(ad).served = IF today < ad.vip THEN ad.served + 1 ELSE ad.served
  BY <1>1, <1>2 DEF Served, Listing
<1>4. Served(ad) # NoListing
  BY <1>3, MarketAssumption
<1> DEFINE s == Served(ad).served
<1>5. /\ s + Beyond(n, today + 1) <= ad.served + Beyond(n, today)
      /\ ad.vip = n => s + Beyond(n, today + 1) = ad.served + Beyond(n, today)
      /\ s \in Nat /\ Beyond(n, today) \in Nat /\ Beyond(n, today + 1) \in Nat
  <2>1. CASE today < ad.vip
    BY <1>1, <1>3, <2>1 DEF Beyond
  <2>2. CASE ~(today < ad.vip)
    BY <1>1, <1>3, <2>2 DEF Beyond
  <2> QED BY <2>1, <2>2
<1>6. CASE ad.owner = u
  <2>1. /\ Share(ad, n, today, u) = ad.served + Beyond(n, today)
        /\ Share(Served(ad), n, today', u) = s + Beyond(n, today + 1)
    BY <1>1, <1>3, <1>4, <1>6 DEF Share
  <2> QED BY <1>3, <1>4, <1>5, <2>1
<1>7. CASE ad.owner # u
  BY <1>3, <1>4, <1>7 DEF Share
<1> QED BY <1>6, <1>7

\* A day that is over is served instead of left.
LEMMA DayKeepsVip ==
    ASSUME MarketTypes, MarketTypes', NEW top \in Tops, VipRules(top), NextDay
    PROVE  VipRules(top)'
<1>1. /\ today' = today + 1 /\ UNCHANGED <<scene, born, paid, calls>>
      /\ \A l \in ListingIds : listings'[l] = Served(listings[l])
  BY DEF NextDay
<1>2. Within(top) /\ UNCHANGED Exact /\ \A u : UNCHANGED StartsWith(u)
  BY <1>1 DEF VipRules, Exact, OneCallAtATime, StartsWith
<1>3. \A l \in Listed : listings[l] \in Listing /\ top[l] \in Nat
  BY DEF Listed, MarketTypes, DocsTyped, Tops
<1>4. \A l \in ListingIds : listings[l] = NoListing => listings'[l] = NoListing
  BY <1>1 DEF Served
<1>5. ASSUME NEW l \in Listed, NEW u
      PROVE  /\ listings'[l] # NoListing /\ listings'[l].owner = listings[l].owner
             /\ listings'[l].vip = listings[l].vip
             /\ (Shares(top, u)')[l] <= Shares(top, u)[l]
             /\ listings[l].vip = top[l] => (Shares(top, u)')[l] = Shares(top, u)[l]
  <2>1. listings'[l] = Served(listings[l]) /\ listings[l].vip <= top[l]
    BY <1>1, <1>2 DEF Within, Listed
  <2>2. /\ Shares(top, u)[l] = Share(listings[l], top[l], today, u)
        /\ (Shares(top, u)')[l] = Share(Served(listings[l]), top[l], today', u)
    BY <2>1 DEF Shares, SharesIn, Listed
  <2> QED BY <1>1, <1>3, <2>1, <2>2, DayServed
<1>6. ASSUME NEW l \in ListingIds \ Listed, NEW u
      PROVE  (Shares(top, u)')[l] = 0 /\ Shares(top, u)[l] = 0
  BY <1>4 DEF Shares, SharesIn, Share, Listed
<1>7. Listed' = Listed /\ \A u : AdsOf(u)' = AdsOf(u)
  BY <1>4, <1>5 DEF Listed, AdsOf
<1>8. ASSUME NEW u \in UserIds PROVE Claimed(top, u)' <= paid[u]
  <2>1. /\ Shares(top, u) \in [ListingIds -> Nat] /\ Debts(u) \in [Clients -> Nat]
        /\ Shares(top, u)' \in [ListingIds -> Nat] /\ Debts(u)' = Debts(u)
    BY <1>1, ClaimTypes, ClaimTypesNext DEF Debts
  <2>2. \A l \in ListingIds : (Shares(top, u)')[l] <= Shares(top, u)[l]
    <3>1. \A l \in ListingIds \ Listed : (Shares(top, u)')[l] <= Shares(top, u)[l]
      BY <1>6
    <3> QED BY <1>5, <3>1
  <2>3. \A d \in Clients : (Debts(u)')[d] <= Debts(u)[d]
    BY <2>1
  <2>4. Claimed(top, u)' <= Claimed(top, u)
    BY <2>1, <2>2, <2>3, ClaimSums DEF Claimed
  <2>5. Claimed(top, u) \in Nat /\ Claimed(top, u)' \in Nat
    BY <2>1, ClaimSums DEF Claimed
  <2>6. Claimed(top, u) <= paid[u] /\ paid[u] \in Nat
    BY <1>2, MarketAssumption DEF Within, MarketTypes
  <2> QED BY <2>4, <2>5, <2>6
<1>9. Within(top)'
  BY <1>1, <1>2, <1>5, <1>7, <1>8 DEF Within
<1>10. ASSUME Exact PROVE InForce(top)'
  <2>1. InForce(top) /\ Quiet
    BY <1>10 DEF VipRules, NextDay, Exact
  <2>2. \A d \in Clients : calls[d].pc # "extend"
    BY <2>1, IdleFormed DEF Quiet
  <2>3. \A l \in Listed : listings[l].vip = top[l]
    BY <2>1, <2>2 DEF InForce
  <2>4. ASSUME NEW u \in UserIds, StartsWith(u)
        PROVE  AdsOf(u) # {} /\ Claimed(top, u)' = paid[u]
    <3>1. Shares(top, u)' = Shares(top, u)
      <4>1. \A l \in ListingIds : (Shares(top, u)')[l] = Shares(top, u)[l]
        BY <1>5, <1>6, <2>3
      <4> QED BY <4>1, ClaimTypes, ClaimTypesNext
    <3>2. Debts(u)' = Debts(u)
      BY <1>1 DEF Debts
    <3> QED BY <2>1, <2>4, <3>1, <3>2 DEF InForce, Claimed
  <2>5. \A l \in Listed : listings'[l].vip = top[l]
    BY <1>5, <2>3
  <2> QED BY <1>1, <1>2, <1>7, <2>1, <2>4, <2>5 DEF InForce
<1> QED BY <1>2, <1>9, <1>10 DEF VipRules

\* Users' handlers, wish lists, failing calls, and a payment that begins or finds
\* no listing.
LEMMA OthersKeepVip ==
    ASSUME MarketTypes, MarketTypes', WishInv, NEW top \in Tops, VipRules(top),
           \/ UserStep \/ WishListsNext
           \/ \E c \in Clients :
                 \/ CallFails(c)
                 \/ \E u \in UserIds, term \in Terms : ActivateVip(c, u, term)
                 \/ FindLatestAd(c) /\ AdsOf(calls[c].user) = {}
    PROVE  VipRules(top)'
<1>1. CASE UserStep
  <2>1. UNCHANGED <<scene, today, born, paid>> /\ born \in Nat
    BY <1>1, MarketAssumption DEF UserStep, MarketTypes
  <2>2. CallsHeld
    <3>1. UserPcs \intersect VipPcs = {}
      BY DEF UserPcs, VipPcs
    <3>2. UNCHANGED calls => CallsHeld
      BY DEF CallsHeld
    <3> QED BY <1>1, <3>1, <3>2, MovesHeld DEF UserStep
  <2>3. AdsHeld
    <3>1. CASE UNCHANGED listings
      BY <3>1 DEF AdsHeld, Listed
    <3>2. ASSUME NEW c \in Clients, SetBadge(c), NEW l \in ListingIds
          PROVE  /\ listings'[l] = NoListing <=> listings[l] = NoListing
                 /\ listings[l] # NoListing =>
                       /\ listings'[l].owner = listings[l].owner
                       /\ listings'[l].vip = listings[l].vip
                       /\ listings'[l].served = listings[l].served
      <4>1. CASE l \in Listed
        <5>1. listings[l] \in Listing
          BY <4>1 DEF Listed, MarketTypes, DocsTyped
        <5>2. [listings[l] EXCEPT !.badge = TRUE] \in Listing
          BY <5>1 DEF Listing
        <5>3. \/ listings'[l] = [listings[l] EXCEPT !.badge = TRUE]
              \/ listings'[l] = listings[l]
          BY <3>2, <4>1 DEF SetBadge, Badged
        <5>4. listings'[l] # NoListing /\ listings[l] # NoListing
          BY <5>1, <5>2, <5>3, MarketAssumption
        <5> QED BY <5>1, <5>3, <5>4 DEF Listing
      <4>2. CASE l \notin Listed
        BY <3>2, <4>2 DEF SetBadge, Listed
      <4> QED BY <4>1, <4>2
    <3>3. ASSUME NEW c \in Clients, SetBadge(c) PROVE AdsHeld
      BY <3>2, <3>3 DEF AdsHeld, Listed
    <3> QED BY <1>1, <3>1, <3>3 DEF UserStep
  <2> QED BY <2>1, <2>2, <2>3, VipStep
<1>2. ASSUME UNCHANGED <<scene, today, paid, born, listings>>, CallsHeld
      PROVE  VipRules(top)'
  BY <1>2, SameAds, VipStep
<1>3. CASE WishListsNext
  <2>1. WishPcs \intersect VipPcs = {}
    BY DEF WishPcs, VipPcs
  <2>2. CallsHeld
    <3>1. UNCHANGED calls => CallsHeld
      BY DEF CallsHeld
    <3> QED BY <1>3, <2>1, <3>1, WishMoves, MovesHeld
  <2> QED BY <1>2, <1>3, <2>2, WishMoves DEF wishesOnly
<1>4. ASSUME NEW c \in Clients, CallFails(c) PROVE VipRules(top)'
  <2>1. Goto(c, Idle) /\ Unpaid(Idle) /\ ~Exact
    BY <1>4, IdleFormed DEF CallFails, Respond, Goto, Unpaid, Exact
  <2>2. CallsHeld
    BY <2>1, OneHeld
  <2> QED BY <1>2, <1>4, <2>2 DEF CallFails
<1>5. ASSUME NEW c \in Clients, NEW u \in UserIds, NEW term \in Terms,
             ActivateVip(c, u, term)
      PROVE  VipRules(top)'
  <2> DEFINE call == [Idle EXCEPT !.pc = "pay", !.user = u, !.term = term]
  <2>1. Goto(c, call) /\ call.pc = "pay" /\ calls[c].pc = "idle"
    BY <1>5, IdleFormed DEF ActivateVip, MayAsk, MayCall
  <2> HIDE DEF call
  <2>2. Unpaid(call)
    BY <2>1 DEF Unpaid
  <2>3. CallsHeld
    BY <2>1, <2>2, OneHeld
  <2> QED BY <1>2, <1>5, <2>3 DEF ActivateVip, accountsOnly
<1>6. ASSUME NEW c \in Clients, FindLatestAd(c), AdsOf(calls[c].user) = {}
      PROVE  VipRules(top)'
  <2>1. /\ Goto(c, Idle) /\ Unpaid(Idle) /\ calls[c].pc = "findAd"
        /\ Idle.pc # "removeAd" /\ calls[c].user \in UserIds
    BY <1>6, IdleFormed DEF FindLatestAd, Respond, Goto, Unpaid, MarketTypes, CallFits
  <2>2. Exact => ~StartsWith(calls[c].user)
    BY <1>6, <2>1 DEF VipRules, InForce
  <2>3. CallsHeld
    BY <2>1, <2>2, OneHeld
  <2> QED BY <1>2, <1>6, <2>3 DEF FindLatestAd, accountsOnly
<1> QED BY <1>1, <1>3, <1>4, <1>5, <1>6

\* Nothing is claimed.
LEMMA NoClaims ==
    ASSUME NEW f \in [ListingIds -> Nat], NEW g \in [Clients -> Nat],
           \A c \in Clients : g[c] = 0
    PROVE  /\ Claim(f, g) = Total(ListingIds)[f]
           /\ (\A l \in ListingIds : f[l] = 0) => Claim(f, g) = 0
<1>1. IsFiniteSet(ListingIds) /\ IsFiniteSet(Clients)
  BY MarketAssumption, FS_Interval DEF ListingIds
<1>2. f \in [ListingIds -> Int] /\ g \in [Clients -> Int]
  OBVIOUS
<1>3. Total(Clients)[g] = 0 /\ Total(ListingIds)[f] \in Int
  BY <1>1, <1>2, SumFacts
<1>4. (\A l \in ListingIds : f[l] = 0) => Total(ListingIds)[f] = 0
  BY <1>1, <1>2, SumFacts
<1> QED BY <1>3, <1>4 DEF Claim

\* At first nothing is claimed and nothing paid.
LEMMA VipInit ==
    ASSUME Init, MarketTypes
    PROVE  \E top \in Tops : VipRules(top)
<1>1. PICK top \in Tops : top = [l \in ListingIds |-> 0]
  BY DEF Tops
<1>2. /\ calls = [c \in Clients |-> Idle] /\ paid = [u \in UserIds |-> 0]
      /\ scene \in Scenes
      /\ listings = [l \in ListingIds |-> IF l <= Len(scene.ads)
                                            THEN scene.ads[l] ELSE NoListing]
  BY DEF Init, MarketInit
<1>3. /\ scene.ads \in Seq(Listing) /\ Len(scene.ads) <= MaxListings
      /\ Len(scene.ads) \in Nat
      /\ \A i \in 1..Len(scene.ads) :
            scene.ads[i].vip = 0 /\ scene.ads[i].served = 0
  <2>1. scene \in Scene /\ Len(scene.ads) <= MaxListings
    BY <1>2, SceneAssumption
  <2>2. \A i \in 1..Len(scene.ads) :
           scene.ads[i].vip = 0 /\ scene.ads[i].served = 0
    BY <1>2, SceneAssumption
  <2> QED BY <2>1, <2>2 DEF Scene
<1>4. \A c \in Clients : calls[c].pc = "idle"
  BY <1>2, IdleFormed
<1>5. ASSUME NEW l \in Listed
      PROVE  l \in 1..Len(scene.ads) /\ listings[l].vip = 0 /\ listings[l].served = 0
  <2>1. l \in 1..Len(scene.ads)
    BY <1>2, <1>3, MarketAssumption DEF Listed, ListingIds
  <2> QED BY <1>2, <1>3, <2>1 DEF Listed, ListingIds
<1>6. ASSUME NEW u PROVE Claimed(top, u) = 0
  <2>1. Shares(top, u) \in [ListingIds -> Nat] /\ Debts(u) \in [Clients -> Nat]
    BY ClaimTypes
  <2>2. \A c \in Clients : Debts(u)[c] = 0
    BY <1>4 DEF Debts, DebtsIn, Owed
  <2>3. ASSUME NEW l \in ListingIds PROVE Shares(top, u)[l] = 0
    <3>1. Beyond(0, today) = 0
      BY DaysCount DEF Beyond
    <3>2. Shares(top, u)[l] = Share(listings[l], 0, today, u)
      BY <1>1 DEF Shares, SharesIn
    <3> QED BY <1>5, <3>1, <3>2 DEF Share, Listed
  <2> QED BY <2>1, <2>2, <2>3, NoClaims DEF Claimed
<1>7. Within(top)
  <2>1. \A l \in ListingIds : top[l] = 0
    BY <1>1
  <2>2. \A u \in UserIds : Claimed(top, u) <= paid[u]
    BY <1>2, <1>6
  <2>3. \A l \in Listed : listings[l].vip <= top[l]
    BY <1>5, <2>1 DEF Listed
  <2> QED BY <1>4, <2>1, <2>2, <2>3 DEF Within
<1>8. InForce(top)
  <2>1. ASSUME NEW u \in UserIds, StartsWith(u) PROVE AdsOf(u) # {}
    <3>1. PICK i \in 1..Len(scene.ads) : scene.ads[i].owner = u
      BY <2>1 DEF StartsWith
    <3>2. scene.ads[i] \in Listing /\ i \in ListingIds /\ i <= Len(scene.ads)
      <4>1. scene.ads[i] \in Listing
        BY <1>3, ElementOfSeq
      <4> QED BY <1>3, <4>1, MarketAssumption DEF ListingIds
    <3>3. listings[i] = scene.ads[i] /\ listings[i] # NoListing
      BY <1>2, <3>2, MarketAssumption
    <3>4. i \in AdsOf(u)
      BY <3>1, <3>2, <3>3 DEF AdsOf, Listed
    <3> QED BY <3>4
  <2>2. \A l \in Listed : listings[l].vip = top[l]
    BY <1>1, <1>5 DEF Listed
  <2> QED BY <1>2, <1>4, <1>6, <2>1, <2>2 DEF InForce
<1> QED BY <1>7, <1>8 DEF VipRules

\* Every step keeps the rules, with a later end for a listing if need be.
LEMMA VipNext ==
    ASSUME MarketTypes, MarketTypes', WishInv, Solo, Never({"cloneSingleProduct"}),
           NEW top \in Tops, VipRules(top), [Next]_vars
    PROVE  \E t \in Tops : VipRules(t)'
<1>1. CASE ListingsNext
  BY <1>1, ListingsKeepVip
<1>2. CASE AccountsNext
  <2>1. ASSUME NEW c \in Clients, FindLatestAd(c), AdsOf(calls[c].user) # {}
        PROVE  \E t \in Tops : VipRules(t)'
    BY <2>1, FindKeepsVip DEF FindLatestAd
  <2>2. ASSUME NEW c \in Clients, Payment(c)
        PROVE  \E t \in Tops : VipRules(t)'
    BY <2>1, <2>2, PayKeepsVip, ExtendKeepsVip, OthersKeepVip DEF Payment
  <2> QED BY <1>2, <2>2, AccountSteps, OthersKeepVip
<1>3. CASE WishListsNext \/ \E c \in Clients : CallFails(c)
  BY <1>3, OthersKeepVip
<1>4. CASE NextDay
  BY <1>4, DayKeepsVip
<1>5. CASE UNCHANGED marketVars
  <2>1. UNCHANGED <<scene, today, paid, born, listings, calls>>
    BY <1>5 DEF marketVars
  <2>2. CallsHeld
    BY <2>1 DEF CallsHeld
  <2> QED BY <2>1, <2>2, SameAds, VipStep
<1> QED BY <1>1, <1>2, <1>3, <1>4, <1>5 DEF Next, vars

\* What is left of the VIP days of a user's listings.
VipDay(l, u) == IF l \in AdsOf(u) THEN listings[l].served + Left(listings[l]) ELSE 0

\* The sum over a user's listings is a sum over all listings.
LEMMA VipDaysSum ==
    ASSUME MarketTypes, NEW u
    PROVE  /\ VipDays(u) = Total(ListingIds)[[l \in ListingIds |-> VipDay(l, u)]]
           /\ [l \in ListingIds |-> VipDay(l, u)] \in [ListingIds -> Nat]
<1> DEFINE f == [l \in ListingIds |-> VipDay(l, u)]
           S == AdsOf(u)
           x(s) == CHOOSE y \in s : TRUE
           Fold(g) == g = [s \in SUBSET S |->
                             IF s = {} THEN 0
                             ELSE (listings[x(s)].served + Left(listings[x(s)]))
                                    + g[s \ {x(s)}]]
<1>1. VipDays(u) = (CHOOSE g : Fold(g))[S]
  BY DEF VipDays, MapThenSumSet, MapThenFoldSet
<1>2. IsFiniteSet(ListingIds) /\ S \in SUBSET ListingIds
  <2>1. IsFiniteSet(ListingIds)
    BY MarketAssumption, FS_Interval DEF ListingIds
  <2> QED BY <2>1 DEF AdsOf, Listed
<1>3. f \in [ListingIds -> Nat]
  <2>1. ASSUME NEW l \in ListingIds PROVE VipDay(l, u) \in Nat
    <3>1. CASE l \in AdsOf(u)
      <4>1. listings[l].served \in Nat /\ listings[l].vip \in Nat /\ today \in Nat
        BY <3>1, DaysCount DEF AdsOf, Listing
      <4> QED BY <3>1, <4>1 DEF VipDay, Left
    <3>2. CASE l \notin AdsOf(u)
      BY <3>2 DEF VipDay
    <3> QED BY <3>1, <3>2
  <2> QED BY <2>1
<1>4. ASSUME NEW g PROVE Fold(g) <=> IsFold(f, S, g)
  <2>1. ASSUME NEW s \in SUBSET S, s # {}
        PROVE  f[x(s)] = listings[x(s)].served + Left(listings[x(s)])
    <3>1. x(s) \in s
      BY <2>1
    <3>2. x(s) \in S /\ x(s) \in ListingIds
      BY <1>2, <3>1
    <3> HIDE DEF x
    <3> QED BY <3>2 DEF VipDay
  <2> HIDE DEF f, S
  <2> QED BY <2>1 DEF IsFold
<1>5. f \in [ListingIds -> Int]
  BY <1>3
<1>6. PICK g : IsFold(f, S, g)
  BY <1>2, <1>5, FoldExists
<1>7. \A l \in ListingIds \ S : f[l] = 0
  BY DEF VipDay
<1> HIDE DEF f, S, Fold
<1>8. Fold(CHOOSE h : Fold(h))
  <2>1. \E h : Fold(h)
    BY <1>4, <1>6
  <2> QED BY <2>1, Zenon
<1>9. IsFold(f, S, CHOOSE h : Fold(h))
  BY <1>4, <1>8
<1>10. (CHOOSE h : Fold(h))[S] = Total(ListingIds)[f]
  BY <1>2, <1>5, <1>7, <1>9, FoldIsSum
<1> QED BY <1>1, <1>3, <1>10 DEF f

\* However payments overlap with each other, with new, changed and deleted
\* listings and with failures, no user's listings are VIP for more days than were
\* paid for; for exactly as many where nothing of that kind happens: the expiry
\* that activateVipAndCreatePayment computes adds the term to what is left.
THEOREM VipMatchesPaymentsAlways == Spec => []VipMatchesPayments
<1>1. Init => VipInv
  BY InitTyped, VipInit DEF VipInv
<1>2. ASSUME MarketTypes, MarketTypes', WishInv, Solo, VipInv, [Next]_vars
      PROVE  VipInv'
  <2>1. CASE Never({"cloneSingleProduct"})
    <3>1. PICK top \in Tops : VipRules(top)
      BY <1>2, <2>1 DEF VipInv
    <3> QED BY <1>2, <2>1, <3>1, VipNext DEF VipInv
  <2>2. CASE ~Never({"cloneSingleProduct"})
    <3>1. UNCHANGED scene
      BY <1>2, SceneStays
    <3> QED BY <2>2, <3>1 DEF VipInv, Never
  <2> QED BY <2>1, <2>2
<1>3. ASSUME MarketTypes, VipInv PROVE VipMatchesPayments
  <2> SUFFICES ASSUME Never({"cloneSingleProduct"}), NEW u \in UserIds
               PROVE  /\ VipDays(u) <= paid[u]
                      /\ Exact /\ Quiet /\ StartsWith(u) => VipDays(u) = paid[u]
    BY DEF VipMatchesPayments, Exact, StartsWith
  <2>1. PICK top \in Tops : VipRules(top)
    BY <1>3 DEF VipInv
  <2> DEFINE f == [l \in ListingIds |-> VipDay(l, u)]
             g == [c \in Clients |-> 0]
  <2>2. /\ Shares(top, u) \in [ListingIds -> Nat] /\ Debts(u) \in [Clients -> Nat]
        /\ f \in [ListingIds -> Nat] /\ g \in [Clients -> Nat]
    BY <1>3, ClaimTypes, VipDaysSum
  <2>3. VipDays(u) = Claim(f, g)
    <3>1. \A c \in Clients : g[c] = 0
      OBVIOUS
    <3> HIDE DEF g
    <3> QED BY <1>3, <2>2, <3>1, VipDaysSum, NoClaims
  <2>4. ASSUME NEW l \in ListingIds
        PROVE  /\ f[l] <= Shares(top, u)[l]
               /\ (l \in Listed => listings[l].vip = top[l]) =>
                      f[l] = Shares(top, u)[l]
    <3>1. CASE l \in AdsOf(u)
      <4>1. /\ listings[l].vip \in Nat /\ listings[l].served \in Nat
            /\ top[l] \in Nat /\ today \in Nat
        BY <1>3, <3>1, DaysCount DEF AdsOf, Listing, Tops
      <4>2. listings[l].vip <= top[l]
        BY <2>1, <3>1 DEF AdsOf, VipRules, Within
      <4>3. f[l] = listings[l].served + Left(listings[l])
        BY <3>1 DEF VipDay
      <4>4. Shares(top, u)[l] = listings[l].served + Beyond(top[l], today)
        BY <3>1 DEF Shares, SharesIn, Share, AdsOf, Listed
      <4>5. /\ Left(listings[l]) <= Beyond(top[l], today)
            /\ listings[l].vip = top[l] => Left(listings[l]) = Beyond(top[l], today)
            /\ Left(listings[l]) \in Nat /\ Beyond(top[l], today) \in Nat
        BY <4>1, <4>2 DEF Left, Beyond
      <4> QED BY <3>1, <4>1, <4>3, <4>4, <4>5 DEF AdsOf
    <3>2. CASE l \notin AdsOf(u)
      <4>1. f[l] = 0 /\ Shares(top, u)[l] = 0
        BY <3>2 DEF VipDay, Shares, SharesIn, Share, AdsOf, Listed
      <4> QED BY <4>1
    <3> QED BY <3>1, <3>2
  <2>5. \A c \in Clients : g[c] <= Debts(u)[c]
    BY <2>2
  <2> HIDE DEF f, g
  <2>6. Claim(f, g) <= Claimed(top, u)
    BY <2>2, <2>4, <2>5, ClaimSums DEF Claimed
  <2>7. Claim(f, g) \in Nat /\ Claimed(top, u) \in Nat /\ paid[u] \in Nat
    <3>1. Claim(f, g) \in Nat
      BY <2>2, ClaimSums
    <3>2. Claimed(top, u) \in Nat
      BY <2>2, ClaimSums DEF Claimed
    <3>3. paid[u] \in Nat
      BY <1>3, MarketAssumption DEF MarketTypes, DocsTyped
    <3> QED BY <3>1, <3>2, <3>3
  <2>8. Claimed(top, u) <= paid[u]
    BY <2>1 DEF VipRules, Within
  <2>9. ASSUME Exact, Quiet, StartsWith(u) PROVE Claim(f, g) = paid[u]
    <3>1. InForce(top)
      BY <2>1, <2>9 DEF VipRules
    <3>2. \A c \in Clients : calls[c].pc = "idle"
      BY <2>9, IdleFormed DEF Quiet
    <3>3. \A l \in Listed : listings[l].vip = top[l]
      BY <3>1, <3>2 DEF InForce
    <3>4. f = Shares(top, u)
      BY <2>2, <2>4, <3>3
    <3>5. g = Debts(u)
      BY <3>2 DEF g, Debts, DebtsIn, Owed
    <3> QED BY <2>9, <3>1, <3>4, <3>5 DEF InForce, Claimed
  <2> QED BY <2>3, <2>6, <2>7, <2>8, <2>9
<1> QED BY <1>1, <1>2, <1>3, SoloAlways, PTL DEF Spec
===============================================================================
