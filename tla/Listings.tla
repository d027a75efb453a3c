------------------------------- MODULE Listings -------------------------------
(***************************************************************************)
(* ProductService: the listings that users and administrators create,      *)
(* change, withdraw and delete, and the rule of one listing a month.       *)
(***************************************************************************)
EXTENDS Market

listingsOnly == <<scene, today, users, cache, paid, wishes>>

\* new Date(year, month - 1, day): a day that the month before does not have
\* runs over into this one, so that the length of that month is subtracted.
Cutoff == today - Calendar[MonthOf(today) - 1]

Recent == {l \in Listed : listings[l].pub >= Cutoff}

\* The listings of an aggregation: $match on the status and, unless the filter
\* says showExpired, on the publishDate.
Page(hidden, showExpired) ==
    {l \in Listed : /\ listings[l].status \notin hidden
                    /\ showExpired \/ l \in Recent}

\* Mutant of Hidden: the list for the owner's own page.
HiddenToOwner == {"deleted"}

Hidden == {"deleted", "draft"}

\* What getAllProducts lists without a filter, and getAllAdminProducts.
Visible == Page(Hidden, FALSE)
AdminVisible == Page({"deleted"}, TRUE)

\* Mutant of RecentOf: drafts and deleted listings do not count.
RecentVisibleOf(u) == AdsOf(u) \intersect Visible

\* findOne({'user._id', publishDate}), whatever the status.
RecentOf(u) == AdsOf(u) \intersect Recent

NewAd == [owner |-> Nobody, status |-> "draft", pub |-> 0, badge |-> FALSE,
          vip |-> 0, served |-> 0]

Creating == {c \in Clients :
               calls[c].pc \in {"readOwner", "saveAd", "saveClone", "insertAds"}}
Room == born + Cardinality(Creating) < MaxListings

SaveListing(ad) ==
    /\ born' = born + 1
    /\ listings' = [listings EXCEPT ![born + 1] = ad]

(***************************************************************************)
(* Creating                                                                *)
(***************************************************************************)
\* An administrator's listing belongs to no user, and has a publishDate only
\* if the form says so.
AddProduct(c, status, pub) ==
    /\ MayCall(c, "addProduct")
    /\ Room
    /\ SaveListing([NewAd EXCEPT !.status = status, !.pub = pub])
    /\ UNCHANGED <<listingsOnly, calls>>

\* Refused if the user has a recent listing.
AddProductByUser(c, u, status) ==
    /\ MayAsk(c, "addProductByUser", u)
    /\ u \in Live
    /\ Room
    /\ RecentOf(u) = {}
    /\ Goto(c, [Idle EXCEPT !.pc = "readOwner", !.user = u, !.status = status])
    /\ UNCHANGED <<listingsOnly, listings, born>>

\* userModel.findById(user._id), null for a user who is gone; the publishDate is
\* that of the day when the document is put together, not of its save.
ReadOwner(c) ==
    LET call == calls[c] IN
    /\ call.pc = "readOwner"
    /\ Goto(c, [call EXCEPT !.pc = "saveAd",
           !.ad = IF call.user \in Live
                    THEN [NewAd EXCEPT !.status = call.status, !.pub = today,
                                       !.owner = call.user,
                                       !.badge = users[call.user].verified]
                    ELSE [NewAd EXCEPT !.status = call.status, !.pub = today]])
    /\ UNCHANGED <<listingsOnly, listings, born>>

SaveAd(c) ==
    /\ calls[c].pc = "saveAd"
    /\ SaveListing(calls[c].ad)
    /\ Respond(c)
    /\ UNCHANGED listingsOnly

\* findById; the copy keeps the owner, the dates and the VIP status.
CloneSingleProduct(c, l) ==
    /\ MayCall(c, "cloneSingleProduct")
    /\ l \in Listed
    /\ Room
    /\ Goto(c, [Idle EXCEPT !.pc = "saveClone", !.ad = listings[l]])
    /\ UNCHANGED <<listingsOnly, listings, born>>

SaveClone(c) ==
    /\ calls[c].pc = "saveClone"
    /\ SaveListing([calls[c].ad EXCEPT !.served = 0])
    /\ Respond(c)
    /\ UNCHANGED listingsOnly

\* deleteMany({}) first, if the option says so.
InsertManyProduct(c, deleteMany) ==
    /\ MayCall(c, "insertManyProduct")
    /\ Room
    /\ listings' = IF deleteMany THEN [l \in ListingIds |-> NoListing]
                                 ELSE listings
    /\ Goto(c, [Idle EXCEPT !.pc = "insertAds"])
    /\ UNCHANGED <<listingsOnly, born>>

InsertAds(c) ==
    /\ calls[c].pc = "insertAds"
    /\ \E status \in Statuses, pub \in {0, today} :
          SaveListing([NewAd EXCEPT !.status = status, !.pub = pub])
    /\ Respond(c)
    /\ UNCHANGED listingsOnly

(***************************************************************************)
(* Changing: a look for the listing, and an update of what is still there. *)
(***************************************************************************)
\* The owner who publishes a listing does so today.
PublishDay(pc, status) ==
    IF pc = "setOwnAd" /\ status = "publish" THEN today ELSE 0

Look(c, l, pc, status) ==
    /\ Goto(c, [Idle EXCEPT !.pc = pc, !.listing = l, !.status = status,
                            !.date = PublishDay(pc, status)])
    /\ UNCHANGED <<listingsOnly, listings, born>>

UpdateProductById(c, l, status) ==
    /\ MayCall(c, "updateProductById")
    /\ l \in Listed
    /\ Look(c, l, "setAd", status)

DeleteProductById(c, l) ==
    /\ MayCall(c, "deleteProductById")
    /\ l \in Listed
    /\ Look(c, l, "setAd", "deleted")

\* findOne({_id, 'user._id'})
UpdateUserProductById(c, u, l, status) ==
    /\ MayAsk(c, "updateUserProductById", u)
    /\ l \in AdsOf(u)
    /\ Look(c, l, "setOwnAd", status)

DeleteUserProductById(c, u, l) ==
    /\ MayAsk(c, "deleteUserProductById", u)
    /\ l \in AdsOf(u)
    /\ Look(c, l, "removeAd", "deleted")

SetStatus(S, status) ==
    listings' = [l \in ListingIds |->
                   IF l \in S \intersect Listed
                     THEN [listings[l] EXCEPT !.status = status]
                     ELSE listings[l]]

SetAd(c) ==
    /\ calls[c].pc = "setAd"
    /\ SetStatus({calls[c].listing}, calls[c].status)
    /\ Respond(c)
    /\ UNCHANGED <<listingsOnly, born>>

SetOwnAd(c) ==
    LET call == calls[c] IN
    /\ call.pc = "setOwnAd"
    /\ listings' = [l \in ListingIds |->
                      IF l = call.listing /\ l \in Listed
                        THEN [listings[l] EXCEPT
                                !.status = call.status,
                                !.pub = IF call.status = "publish"
                                          THEN call.date ELSE @]
                        ELSE listings[l]]
    /\ Respond(c)
    /\ UNCHANGED <<listingsOnly, born>>

\* findByIdAndDelete: the document goes, for the owner.
RemoveAd(c) ==
    /\ calls[c].pc = "removeAd"
    /\ listings' = [listings EXCEPT ![calls[c].listing] = NoListing]
    /\ Respond(c)
    /\ UNCHANGED <<listingsOnly, born>>

UpdateMultipleProductById(c, S, status) ==
    /\ MayCall(c, "updateMultipleProductById")
    /\ SetStatus(S, status)
    /\ UNCHANGED <<listingsOnly, born, calls>>

DeleteMultipleProductById(c, S) ==
    /\ MayCall(c, "deleteMultipleProductById")
    /\ SetStatus(S, "deleted")
    /\ UNCHANGED <<listingsOnly, born, calls>>

ContinueListing(c) ==
    \/ ReadOwner(c)
    \/ SaveAd(c)
    \/ SaveClone(c)
    \/ InsertAds(c)
    \/ SetAd(c)
    \/ SetOwnAd(c)
    \/ RemoveAd(c)

ListingsNext ==
    \E c \in Clients :
       \/ ContinueListing(c)
       \/ \E status \in Statuses \ {"deleted"} :
             \/ \E pub \in {0, today} : AddProduct(c, status, pub)
             \/ \E u \in UserIds :
                   \/ AddProductByUser(c, u, status)
                   \/ \E l \in Listed : UpdateUserProductById(c, u, l, status)
             \/ \E l \in Listed : UpdateProductById(c, l, status)
             \/ \E S \in SUBSET Listed : UpdateMultipleProductById(c, S, status)
       \/ \E deleteMany \in BOOLEAN : InsertManyProduct(c, deleteMany)
       \/ \E S \in SUBSET Listed : DeleteMultipleProductById(c, S)
       \/ \E l \in Listed :
             \/ CloneSingleProduct(c, l)
             \/ DeleteProductById(c, l)
             \/ \E u \in UserIds : DeleteUserProductById(c, u, l)
=============================================================================
