------------------------------ MODULE Marketplace ------------------------------
(***************************************************************************)
(* Users, listings, wish lists and one-time codes together: what a user    *)
(* does to an account shows in the listings, and payments show in their    *)
(* VIP status.  A scene says which handlers are called, and how.           *)
(***************************************************************************)
EXTENDS Accounts, Listings, WishLists, OneTimeCode

CONSTANT EmailOf   \* the address of each user

vars == <<marketVars, codeVars>>

(***************************************************************************)
(* Before a sign-up and before a change of address: the users are looked   *)
(* through, and the request goes on as generateOtpWithEmail.               *)
(***************************************************************************)
Registered(e) == \E u \in Live : EmailOf[u] = e

CheckUserAndSentOtp(r, e, n) ==
    /\ "checkUserAndSentOtp" \in scene.ops
    /\ UsernameFree(n)
    /\ GenerateOtp(r, e)

CheckNewEmailAndSentOtp(r, u, e) ==
    /\ "checkNewEmailAndSentOtp" \in scene.ops
    /\ u \in Live
    /\ ~Registered(e)
    /\ GenerateOtp(r, e)

GenerateOtpWithEmail(r, e) ==
    /\ "generateOtpWithEmail" \in scene.ops
    /\ GenerateOtp(r, e)

CodesNext ==
    \/ \E r \in Requests :
          \/ Generating(r)
          \/ \E e \in Emails :
                \/ GenerateOtpWithEmail(r, e)
                \/ \E n \in Names : CheckUserAndSentOtp(r, e, n)
                \/ \E u \in UserIds : CheckNewEmailAndSentOtp(r, u, e)
    \/ "codeTick" \in scene.ops /\ CodeTick

Init == MarketInit /\ CodeInit

Next ==
    \/ AccountsNext /\ UNCHANGED codeVars
    \/ ListingsNext /\ UNCHANGED codeVars
    \/ WishListsNext /\ UNCHANGED codeVars
    \/ NextDay /\ UNCHANGED codeVars
    \/ (\E c \in Clients : CallFails(c)) /\ UNCHANGED codeVars
    \/ CodesNext /\ UNCHANGED marketVars

Spec == Init /\ [][Next]_vars

(***************************************************************************)
(* Properties                                                              *)
(***************************************************************************)
\* Every variable keeps its type: the documents of users.schema.ts,
\* product.schema.ts, wish-list.schema.ts and otp.schema.ts, and the calls.
TypeOK ==
    /\ scene \in Scenes
    /\ today \in FirstDay..LastDay
    /\ users \in [UserIds -> User \union {Unborn, Gone}]
    /\ cache.data \in (SUBSET Row) \union {NoData}
    /\ cache.count \in Nat \union {NoData}
    /\ listings \in [ListingIds -> Listing \union {NoListing}]
    /\ born \in 0..MaxListings
    /\ paid \in [UserIds -> 0..MaxPaid]
    /\ wishes \in [WishIds -> Wish \union {NoWish}]
    /\ \A c \in Clients : calls[c] \in Call
    /\ CodeTypeOK

OneCallAtATime == scene.calls = 1
Never(ops) == scene.ops \intersect ops = {}

\* One call at a time and without the sign-up that does not look, no two users
\* have one username, though nothing but the handlers' looks sees to it.
UsernamesUnique ==
    OneCallAtATime /\ Never({"userSignup"}) =>
        \A u, v \in Live : u # v => users[u].name # users[v].name

\* One call at a time, without failures and searches, the cached list of all
\* users is the list of all users whenever no call is in progress: every
\* handler that changes a user drops it, before or after the change.
UsersListFresh ==
    /\ OneCallAtATime
    /\ ~scene.fails
    /\ Never({"searchUsers"})
    /\ Quiet
    => /\ cache.data \in {NoData, Rows(Live)}
       /\ cache.count \in {NoData, Cardinality(Live)}

\* One call at a time, even if calls fail half-way, every listing of a verified
\* user shows the badge: the copy in the listing follows the user's document.
\* Two forms verify the user and copy no badge, and are left out: the user's own
\* with isVerfied (verifyOneself), and an administrator's with a new password or
\* without the verifiedStatus (verifyUserOnly).
BadgeShown ==
    /\ OneCallAtATime
    /\ Never({"verifyOneself", "verifyUserOnly"})
    /\ Quiet
    => \A l \in Listed :
          LET u == listings[l].owner IN
          u \in Live /\ users[u].verified => listings[l].badge

Left(ad) == IF ad.vip > today THEN ad.vip - today ELSE 0
VipDays(u) ==
    MapThenSumSet(LAMBDA l : listings[l].served + Left(listings[l]), AdsOf(u))

Lossless == {"activateVip", "addProductByUser", "updateUserProductById"}

\* However calls overlap and fail, a user's listings are VIP for no more days
\* than the user has paid for; for exactly as many when calls come one at a
\* time and not over midnight, none fails, and the user has a listing that stays.
VipMatchesPayments ==
    Never({"cloneSingleProduct"}) =>
        \A u \in UserIds :
            /\ VipDays(u) <= paid[u]
            /\ /\ OneCallAtATime
               /\ ~scene.fails
               /\ ~scene.night
               /\ scene.ops \subseteq Lossless
               /\ Quiet
               /\ \E i \in 1..Len(scene.ads) : scene.ads[i].owner = u
               => VipDays(u) = paid[u]

\* A user who waits for each answer and neither changes nor deletes a listing
\* posts no two within the length of a month, also over midnight, drafts or not.
SpacedAds ==
    /\ ~scene.tabs
    /\ Never({"cloneSingleProduct", "updateUserProductById"})
    => \A k, l \in Listed :
          /\ k < l
          /\ listings[k].owner = listings[l].owner
          /\ listings[k].owner # Nobody
          => listings[l].pub > listings[k].pub + ShortestMonth

\* A published listing is listed for the days of the shortest month from its
\* publishDate, and not for more than 31 days, around the turn of every month;
\* drafts and listings an administrator has deleted are not listed at all, and
\* what users see the administrator sees.
LiveAMonth ==
    /\ Visible \subseteq AdminVisible
    /\ \A l \in Listed :
          LET ad == listings[l] IN
          /\ /\ ad.status = "publish"
             /\ ad.pub > 0
             /\ today <= ad.pub + ShortestMonth
             => l \in Visible
          /\ \/ today > ad.pub + 31
             \/ ad.status # "publish"
             => l \notin Visible

\* For a user who waits for each answer, however additions and deletions follow
\* one another, a product is on the wish list once; updateWishListById, which
\* writes the product and the user of its form without a look, is left out.
OneWishPerProduct ==
    ~scene.tabs /\ Never({"updateWishListById"}) =>
        \A u \in UserIds, p \in Products : Cardinality(WishesFor(u, p)) <= 1
=============================================================================
