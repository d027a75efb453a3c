----------------------------- MODULE MCMarketplace -----------------------------
(* Marketplace in eleven scenes, each with the handlers whose order matters    *)
(* to one part: together they would not fit into one state space.             *)
EXTENDS Marketplace, TLC

CONSTANTS u1, u2, e0, e1, n1, n2

MCCalendar == <<31, 28, 31, 30>>
MCEmailOf == [u \in UserIds |-> IF u = u1 THEN e0 ELSE e1]

Both == [u \in UserIds |-> [name |-> IF u = u1 THEN n1 ELSE n2,
                            verified |-> FALSE]]
Alone(user) == [u \in UserIds |-> IF u = u1 THEN user ELSE Unborn]
Ada == [name |-> n1, verified |-> FALSE]
AdOf(u) == [NewAd EXCEPT !.owner = u, !.status = "publish", !.pub = FirstDay]

Base == [ops |-> {}, users |-> Alone(Ada), ads |-> <<>>, calls |-> 1,
         tabs |-> FALSE, fails |-> FALSE, night |-> FALSE, last |-> FirstDay]

\* A user posts listings from February 1 to April 6.
Monthly == [Base EXCEPT !.ops = {"addProductByUser", "deleteProductById"},
                          !.calls = 2, !.night = TRUE, !.last = LastDay]

\* Accounts and badges, one call at a time.
SignUps == {"userSignupAndLogin", "userSignupAndLoginSocial"}
Changes == {"updateLoggedInUserInfo", "updateUserById", "deleteUserById",
            "deleteMultipleUserById"}
Listing1 == {"addProductByUser", "cloneSingleProduct"}

Cached == [Base EXCEPT !.ops = SignUps \union Changes \union
                               {"getAllUsers", "cacheExpires"}]
Badges == [Base EXCEPT !.ops = SignUps \union Changes \union Listing1,
                       !.fails = TRUE, !.ads = <<AdOf(u1)>>]

\* Everything else that users and administrators may do, two at a time.
RoughUsers == [Base EXCEPT !.ops = {"userSignup", "searchUsers",
                                    "getAllUsers", "deleteUserById"},
                           !.calls = 2, !.tabs = TRUE]
RoughAds == [Base EXCEPT !.ops = {"addProduct", "insertManyProduct",
                                  "updateProductById", "deleteProductById",
                                  "updateMultipleProductById",
                                  "cloneSingleProduct"},
                         !.calls = 2, !.fails = TRUE, !.ads = <<AdOf(u1)>>]
Owners == [Base EXCEPT !.ops = {"addProductByUser", "updateUserProductById",
                                "deleteUserProductById", "deleteUserById",
                                "deleteMultipleProductById",
                                "verifyOneself", "verifyUserOnly"},
                       !.calls = 2, !.fails = TRUE, !.night = TRUE,
                       !.ads = <<AdOf(u1)>>, !.last = FirstDay + 1]

\* Payments, one at a time and not.
Vip == [Base EXCEPT !.ops = Lossless, !.ads = <<AdOf(u1)>>,
                    !.last = FirstDay + 4]
VipRough == [Vip EXCEPT !.ops = @ \union {"deleteUserProductById"},
                        !.calls = 2, !.tabs = TRUE, !.fails = TRUE,
                        !.night = TRUE]

Wishing == [Base EXCEPT !.ops = {"addToWishList", "addToWishListMultiple",
                                 "deleteWishListById"},
                        !.users = Both, !.calls = 2]
WishingTabs == [Wishing EXCEPT !.ops = @ \union {"updateWishListById"},
                               !.tabs = TRUE, !.fails = TRUE]

Coding == [Base EXCEPT !.ops = {"checkUserAndSentOtp", "codeTick",
                                "checkNewEmailAndSentOtp",
                                "generateOtpWithEmail"}]

MCScenes == {Monthly, Cached, Badges, RoughUsers, RoughAds, Owners, Vip,
             VipRough, Wishing, WishingTabs, Coding}

Symmetry == Permutations(Clients) \union Permutations(Requests)
=============================================================================
