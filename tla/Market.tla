-------------------------------- MODULE Market --------------------------------
(***************************************************************************)
(* What the services of users, listings and wish lists share: their        *)
(* collections, the cache of the users' list, and the calls in progress.   *)
(* Each action of the modules that extend this one is the code of a        *)
(* handler from one call to the database or the cache to the next.         *)
(***************************************************************************)
EXTENDS Naturals, Sequences, FiniteSetsExt

CONSTANTS
    UserIds, Names,
    MaxListings,   \* listings created in one behaviour
    WishIds, Products,
    Clients,       \* calls in progress at the same time
    Calendar,      \* the lengths of successive months
    FirstDay, LastDay,
    Terms,         \* days of the subscriptions on sale
    MaxPaid,       \* bounds the days a user pays for
    Scenes,        \* what happens in one behaviour, see Scene
    Nobody, NoName, NoListing, NoWish, NoData,
    Unborn, Gone   \* users that do not exist yet, or any more

Days == 0..LastDay
ListingIds == 1..MaxListings
Statuses == {"publish", "draft", "deleted"}

User == [name: Names, verified: BOOLEAN]

\* A listing with the copy of its owner's badge; pub and vip are days, 0: none.
\* served counts the days it has been VIP.
Listing == [owner: UserIds \union {Nobody}, status: Statuses, pub: Days,
            badge: BOOLEAN, vip: Nat, served: Nat]
Wish == [user: UserIds, product: Products]

\* What getAllUsers lists of a user.
Row == [id: UserIds, name: Names, verified: BOOLEAN]

Scene ==
    [ops: SUBSET STRING,    \* the handlers that are called
     users: [UserIds -> User \union {Unborn}],   \* at the start
     ads: Seq(Listing),     \* at the start
     calls: 1..Cardinality(Clients),   \* at the same time
     tabs: BOOLEAN,         \* a user calls again before the answer
     fails: BOOLEAN,        \* calls fail half-way
     night: BOOLEAN,        \* calls run over midnight
     last: Days]            \* the last day

ShortestMonth == Min({Calendar[m] : m \in 1..Len(Calendar)})

ASSUME MarketAssumption ==
    /\ Calendar \in Seq(1..31) /\ Len(Calendar) > 1
    /\ FirstDay \in Nat /\ LastDay \in Nat
    /\ Calendar[1] < FirstDay /\ FirstDay <= LastDay
    /\ MaxListings \in Nat /\ MaxPaid \in Nat /\ Terms \subseteq Nat
    /\ IsFiniteSet(Clients) /\ IsFiniteSet(UserIds)
    /\ Nobody \notin UserIds /\ NoName \notin Names
    /\ NoListing \notin Listing /\ NoWish \notin Wish
    /\ NoData \notin Nat /\ \A rows \in SUBSET Row : rows # NoData
    /\ Unborn \notin User /\ Gone \notin User /\ Unborn # Gone

\* What a scene starts with obeys the rules of listings: those of users are a
\* month apart and show their badge; nobody is VIP yet.
ASSUME SceneAssumption ==
    \A s \in Scenes :
       /\ s \in Scene
       /\ Len(s.ads) <= MaxListings
       /\ \A u, v \in UserIds :
             {s.users[u], s.users[v]} \subseteq User /\ u # v =>
                 s.users[u].name # s.users[v].name
       /\ \A i \in 1..Len(s.ads) :
             LET ad == s.ads[i] IN
             /\ ad.vip = 0 /\ ad.served = 0
             /\ ad.owner \in UserIds =>
                   /\ s.users[ad.owner] \in User
                   /\ s.users[ad.owner].verified => ad.badge
                   /\ \A j \in 1..Len(s.ads) :
                         j < i /\ s.ads[j].owner = ad.owner =>
                             ad.pub > s.ads[j].pub + ShortestMonth

VARIABLES
    scene,      \* chosen at the start
    today,
    users,      \* id -> user
    cache,      \* cacheAllData and cacheDataCount
    listings,   \* id -> listing; ids in the order of creation
    born,       \* the number of listings created
    paid,       \* userSubscriptions: the days each user has paid for
    wishes,     \* id -> line of a wish list
    calls       \* the calls in progress

marketVars == <<scene, today, users, cache, listings, born, paid, wishes, calls>>

\* The fields of a call that wait for a later step; date is a day that a handler
\* computes before the write: a publishDate or an expiry.
Call == [pc: {"idle", "uncache", "uncount", "signup", "checkName", "setBadge",
              "setUser", "deleteUser", "listCount", "aggregate", "keepList",
              "keepCount", "pay", "findAd", "extend", "readOwner", "saveAd",
              "saveClone", "insertAds", "setAd", "setOwnAd", "removeAd",
              "findWish", "saveWish"},
         next: {"idle", "setBadge", "setUser"},
         user: UserIds \union {Nobody}, name: Names \union {NoName},
         mark: {"unsaid", "verified", "rejected"},
         listing: 0..MaxListings, status: Statuses,
         ad: Listing \union {NoListing},
         term: Terms \union {0}, date: Nat,
         rows: (SUBSET Row) \union {NoData}, wanted: Seq(Products)]
Idle == [pc |-> "idle", next |-> "idle", user |-> Nobody, name |-> NoName,
         mark |-> "unsaid", listing |-> 0, status |-> "draft",
         ad |-> NoListing, term |-> 0, date |-> 0, rows |-> NoData,
         wanted |-> <<>>]

MarketInit ==
    /\ scene \in Scenes
    /\ today = FirstDay
    /\ users = scene.users
    /\ cache = [data |-> NoData, count |-> NoData]
    /\ listings = [l \in ListingIds |-> IF l <= Len(scene.ads)
                                          THEN scene.ads[l] ELSE NoListing]
    /\ born = Len(scene.ads)
    /\ paid = [u \in UserIds |-> 0]
    /\ wishes = [w \in WishIds |-> NoWish]
    /\ calls = [c \in Clients |-> Idle]

Live == {u \in UserIds : users[u] \notin {Unborn, Gone}}
Listed == {l \in ListingIds : listings[l] # NoListing}
AdsOf(u) == {l \in Listed : listings[l].owner = u}

(***************************************************************************)
(* Calls                                                                   *)
(***************************************************************************)
Quiet == \A c \in Clients : calls[c] = Idle
InProgress == {c \in Clients : calls[c] # Idle}

MayCall(c, op) ==
    /\ op \in scene.ops
    /\ calls[c] = Idle
    /\ Cardinality(InProgress) < scene.calls

\* The same, for a user who waits for each answer unless it has several tabs.
MayAsk(c, op, u) ==
    /\ MayCall(c, op)
    /\ scene.tabs \/ \A d \in Clients : calls[d].user # u

Goto(c, call) == calls' = [calls EXCEPT ![c] = call]
Respond(c) == calls' = [calls EXCEPT ![c] = Idle]

\* A call to the database or the cache fails: the handler answers 500.
CallFails(c) ==
    /\ scene.fails
    /\ calls[c] # Idle
    /\ Respond(c)
    /\ UNCHANGED <<scene, today, users, cache, listings, born, paid, wishes>>

(***************************************************************************)
(* Days                                                                    *)
(***************************************************************************)
MonthStart[m \in 1..(Len(Calendar) + 1)] ==
    IF m = 1 THEN 1 ELSE MonthStart[m - 1] + Calendar[m - 1]
MonthOf(d) ==
    CHOOSE m \in 1..Len(Calendar) : MonthStart[m] <= d /\ d < MonthStart[m + 1]

ASSUME CalendarAssumption == LastDay < MonthStart[Len(Calendar) + 1]

\* A VIP listing is served for one day more.
Served(ad) == IF ad # NoListing /\ today < ad.vip
                THEN [ad EXCEPT !.served = @ + 1] ELSE ad

NextDay ==
    /\ today < scene.last
    /\ scene.night \/ Quiet
    /\ today' = today + 1
    /\ listings' = [l \in ListingIds |-> Served(listings[l])]
    /\ UNCHANGED <<scene, users, cache, born, paid, wishes, calls>>
=============================================================================
