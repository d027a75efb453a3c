------------------------------- MODULE Accounts -------------------------------
(***************************************************************************)
(* UserService: accounts, the cached list of all users, the badge of a     *)
(* verified user and the VIP status.  Passwords and mails are left out.    *)
(***************************************************************************)
EXTENDS Market

accountsOnly == <<scene, today, born, wishes>>

Taken(n) == \E u \in Live : users[u].name = n

\* cacheManager.del(cacheAllData) and cacheManager.del(cacheDataCount)
Uncache(c) ==
    /\ calls[c].pc = "uncache"
    /\ cache' = [cache EXCEPT !.data = NoData]
    /\ Goto(c, [calls[c] EXCEPT !.pc = "uncount"])
    /\ UNCHANGED <<accountsOnly, users, listings, paid>>

Uncount(c) ==
    LET call == calls[c] IN
    /\ call.pc = "uncount"
    /\ cache' = [cache EXCEPT !.count = NoData]
    /\ Goto(c, IF call.next = "idle" THEN Idle
                                     ELSE [call EXCEPT !.pc = call.next])
    /\ UNCHANGED <<accountsOnly, users, listings, paid>>

(***************************************************************************)
(* Signing up                                                              *)
(***************************************************************************)
\* newUser.save(); the username has no unique index.
SaveUser(c, n) ==
    /\ \E u \in UserIds :
          /\ users[u] = Unborn
          /\ users' = [users EXCEPT ![u] = [name |-> n, verified |-> FALSE]]
    /\ Goto(c, [Idle EXCEPT !.pc = "uncache"])
    /\ UNCHANGED <<accountsOnly, cache, listings, paid>>

UserSignup(c, n) ==
    /\ MayCall(c, "userSignup")
    /\ SaveUser(c, n)

\* Mutant of UsernameFree: nobody looks.
UsernameFreeAlways(n) == TRUE

\* findOne({username})
UsernameFree(n) == ~Taken(n)

CheckedSignup(c, op, n) ==
    /\ MayCall(c, op)
    /\ UsernameFree(n)
    /\ Goto(c, [Idle EXCEPT !.pc = "signup", !.name = n])
    /\ UNCHANGED <<accountsOnly, users, cache, listings, paid>>

UserSignupAndLogin(c, n) == CheckedSignup(c, "userSignupAndLogin", n)
UserSignupAndLoginSocial(c, n) ==
    CheckedSignup(c, "userSignupAndLoginSocial", n)

SignupAndLogin(c) ==
    /\ calls[c].pc = "signup"
    /\ SaveUser(c, calls[c].name)

(***************************************************************************)
(* Listing all users                                                       *)
(***************************************************************************)
\* Without a filter and a page the list comes from the cache; a search for a
\* name (NoName: none) does not keep it from being read, nor from being kept.
GetAllUsers(c, n) ==
    /\ MayCall(c, IF n = NoName THEN "getAllUsers" ELSE "searchUsers")
    /\ Goto(c, [Idle EXCEPT !.pc = "listCount", !.name = n,
                            !.rows = cache.data])
    /\ UNCHANGED <<accountsOnly, users, cache, listings, paid>>

ListCount(c) ==
    /\ calls[c].pc = "listCount"
    /\ Goto(c, IF calls[c].rows # NoData THEN Idle
               ELSE [calls[c] EXCEPT !.pc = "aggregate"])
    /\ UNCHANGED <<accountsOnly, users, cache, listings, paid>>

Rows(S) == {[id |-> u, name |-> users[u].name, verified |-> users[u].verified] :
               u \in S}

AggregateUsers(c) ==
    LET n == calls[c].name IN
    /\ calls[c].pc = "aggregate"
    /\ Goto(c, [calls[c] EXCEPT !.pc = "keepList",
           !.rows = Rows({u \in Live : n = NoName \/ users[u].name = n})])
    /\ UNCHANGED <<accountsOnly, users, cache, listings, paid>>

KeepList(c) ==
    /\ calls[c].pc = "keepList"
    /\ cache' = [cache EXCEPT !.data = calls[c].rows]
    /\ Goto(c, [calls[c] EXCEPT !.pc = "keepCount"])
    /\ UNCHANGED <<accountsOnly, users, listings, paid>>

KeepCount(c) ==
    /\ calls[c].pc = "keepCount"
    /\ cache' = [cache EXCEPT !.count = Cardinality(calls[c].rows)]
    /\ Respond(c)
    /\ UNCHANGED <<accountsOnly, users, listings, paid>>

\* The time to live of an entry is over, or the cache is full.
CacheExpires ==
    /\ "cacheExpires" \in scene.ops
    /\ \E k \in {"data", "count"} : cache' = [cache EXCEPT ![k] = NoData]
    /\ UNCHANGED <<accountsOnly, users, listings, paid, calls>>

(***************************************************************************)
(* Updating and deleting                                                   *)
(***************************************************************************)
\* findById; then the username is looked up, even the user's own.  The form may
\* carry isVerfied, which is set like the rest of it.
UpdateLoggedInUserInfo(c, u, n, mark) ==
    /\ MayAsk(c, IF mark = "verified" THEN "verifyOneself"
                                      ELSE "updateLoggedInUserInfo", u)
    /\ u \in Live
    /\ Goto(c, [Idle EXCEPT !.pc = IF n = NoName THEN "uncache"
                                                 ELSE "checkName",
                            !.next = "setUser", !.user = u, !.name = n,
                            !.mark = mark])
    /\ UNCHANGED <<accountsOnly, users, cache, listings, paid>>

\* Whether the badge is copied to the listings: the form says isVerfied, its
\* verifiedStatus (status) says so too, and it does not change the password.
CopiesBadge(mark, status, password) ==
    mark = "verified" /\ status /\ ~password

\* findById; then the username is looked up if it is another one.
UpdateUserById(c, u, n, mark, status, password) ==
    /\ MayCall(c, IF mark = "verified" /\ ~CopiesBadge(mark, status, password)
                    THEN "verifyUserOnly" ELSE "updateUserById")
    /\ u \in Live
    /\ Goto(c, [Idle EXCEPT !.pc = IF n \in {NoName, users[u].name}
                                     THEN "uncache" ELSE "checkName",
                            !.next = IF CopiesBadge(mark, status, password)
                                       THEN "setBadge" ELSE "setUser",
                            !.user = u, !.name = n, !.mark = mark])
    /\ UNCHANGED <<accountsOnly, users, cache, listings, paid>>

CheckName(c) ==
    /\ calls[c].pc = "checkName"
    /\ IF UsernameFree(calls[c].name)
         THEN Goto(c, [calls[c] EXCEPT !.pc = "uncache"]) ELSE Respond(c)
    /\ UNCHANGED <<accountsOnly, users, cache, listings, paid>>

\* Mutant of Badged: only visible listings show it.
BadgedPublished(l, u) ==
    IF l.status = "publish" /\ l.owner = u THEN [l EXCEPT !.badge = TRUE] ELSE l

\* productModel.updateMany({'user._id': id}, {'user.isVerfied': true})
Badged(l, u) == IF l.owner = u THEN [l EXCEPT !.badge = TRUE] ELSE l

SetBadge(c) ==
    /\ calls[c].pc = "setBadge"
    /\ listings' = [l \in ListingIds |->
                      IF l \in Listed THEN Badged(listings[l], calls[c].user)
                                      ELSE NoListing]
    /\ Goto(c, [calls[c] EXCEPT !.pc = "setUser"])
    /\ UNCHANGED <<accountsOnly, users, cache, paid>>

\* Mutant of Updated: a field that the form does not have is set as well.
UpdatedAll(user, form) == [name |-> form.name,
                           verified |-> form.mark = "verified"]

Updated(user, form) ==
    [name |-> IF form.name = NoName THEN user.name ELSE form.name,
     verified |-> IF form.mark = "unsaid" THEN user.verified
                  ELSE form.mark = "verified"]

\* findByIdAndUpdate of what is still there.
SetUser(c) ==
    LET call == calls[c] IN
    /\ call.pc = "setUser"
    /\ users' = IF call.user \notin Live THEN users ELSE
          [users EXCEPT ![call.user] = Updated(@, call)]
    /\ Respond(c)
    /\ UNCHANGED <<accountsOnly, cache, listings, paid>>

\* Mutant of AfterDelete: the cache is forgotten.
AfterDeleteKept == Idle

AfterDelete == [Idle EXCEPT !.pc = "uncache"]

\* The listings, wish lists and carts of the user stay.
RemoveUsers(c, S) ==
    /\ users' = [u \in UserIds |-> IF u \in S /\ u \in Live THEN Gone
                                   ELSE users[u]]
    /\ Goto(c, AfterDelete)
    /\ UNCHANGED <<accountsOnly, cache, listings, paid>>

DeleteUserById(c, u) ==
    /\ MayCall(c, "deleteUserById")
    /\ u \in Live
    /\ Goto(c, [Idle EXCEPT !.pc = "deleteUser", !.user = u])
    /\ UNCHANGED <<accountsOnly, users, cache, listings, paid>>

DeleteUser(c) ==
    /\ calls[c].pc = "deleteUser"
    /\ RemoveUsers(c, {calls[c].user})

DeleteMultipleUserById(c) ==
    /\ MayCall(c, "deleteMultipleUserById")
    /\ \E S \in SUBSET Live : RemoveUsers(c, S)

(***************************************************************************)
(* activateVipAndCreatePayment                                             *)
(***************************************************************************)
\* findById of the user and findOne of the subscription.
ActivateVip(c, u, term) ==
    /\ MayAsk(c, "activateVip", u)
    /\ u \in Live
    /\ paid[u] + term <= MaxPaid
    /\ \A d \in Clients : calls[d].pc # "pay"
    /\ Goto(c, [Idle EXCEPT !.pc = "pay", !.user = u, !.term = term])
    /\ UNCHANGED <<accountsOnly, users, cache, listings, paid>>

Pay(c) ==
    LET call == calls[c] IN
    /\ call.pc = "pay"
    /\ paid' = [paid EXCEPT ![call.user] = @ + call.term]
    /\ Goto(c, [call EXCEPT !.pc = "findAd"])
    /\ UNCHANGED <<accountsOnly, users, cache, listings>>

\* Mutant of Extended: a VIP status that still runs is not extended.
ExtendedFromToday(vip, term) == today + term

\* The new expiry: the term is added to what is left, if anything is.
Extended(vip, term) == (IF vip >= today THEN vip ELSE today) + term

\* The owner's newest listing: {status: 'publish'} is taken for a projection.
FindLatestAd(c) ==
    LET call == calls[c]
        ads == AdsOf(call.user)
    IN
    /\ call.pc = "findAd"
    /\ \/ ads = {} /\ Respond(c)
       \/ \E l \in ads :
             /\ \A k \in ads : k <= l
             /\ Goto(c, [call EXCEPT !.pc = "extend", !.listing = l,
                            !.date = Extended(listings[l].vip, call.term)])
    /\ UNCHANGED <<accountsOnly, users, cache, listings, paid>>

ExtendVip(c) ==
    LET call == calls[c] IN
    /\ call.pc = "extend"
    /\ listings' = [l \in ListingIds |->
                      IF l = call.listing /\ l \in Listed
                        THEN [listings[l] EXCEPT !.vip = call.date]
                        ELSE listings[l]]
    /\ Respond(c)
    /\ UNCHANGED <<accountsOnly, users, cache, paid>>

ContinueAccount(c) ==
    \/ Uncache(c)
    \/ Uncount(c)
    \/ SignupAndLogin(c)
    \/ ListCount(c)
    \/ AggregateUsers(c)
    \/ KeepList(c)
    \/ KeepCount(c)
    \/ CheckName(c)
    \/ SetBadge(c)
    \/ SetUser(c)
    \/ DeleteUser(c)
    \/ Pay(c)
    \/ FindLatestAd(c)
    \/ ExtendVip(c)

AccountsNext ==
    \/ CacheExpires
    \/ \E c \in Clients :
          \/ ContinueAccount(c)
          \/ DeleteMultipleUserById(c)
          \/ \E n \in Names : \/ UserSignup(c, n)
                              \/ UserSignupAndLogin(c, n)
                              \/ UserSignupAndLoginSocial(c, n)
          \/ \E n \in Names \union {NoName} :
                \/ GetAllUsers(c, n)
                \/ \E u \in UserIds :
                      \E mark \in {"unsaid", "verified", "rejected"} :
                         \/ UpdateLoggedInUserInfo(c, u, n, mark)
                         \/ \E status, password \in BOOLEAN :
                               UpdateUserById(c, u, n, mark, status, password)
          \/ \E u \in UserIds :
                \/ DeleteUserById(c, u)
                \/ \E term \in Terms : ActivateVip(c, u, term)
=============================================================================
