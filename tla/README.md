# A formal model of the MyEscort API

The repository is a NestJS server over MongoDB: a listings site with a shop (cart,
coupons, orders), promotional offers that end by themselves, a user account with a
paid VIP status, and a large catalog kept by administrators. This directory holds
TLA+ modules translated from its code, TLC configurations that check them on small
instances, and proofs about them that TLAPS checks.

All paths below are relative to `src/src/`.

## Contents

| file | what it is |
|---|---|
| `PromoOfferScheduler.tla` | promo offers, the jobs that end them, recovery |
| `PromoOfferLifecycle.tla` | what the promo-offer collection promises (abstract) |
| `MCPromoOfferScheduler.tla`, `Promo*.cfg` | instances for TLC |
| `PromoOfferScheduler_proofs.tla` | type correctness, the refinement; on a prompt server, recovery arms what is persisted, jobs match offers, none ends early |
| `Checkout.tla` | carts, coupons, orders, stock |
| `MCCheckout.tla`, `Checkout*.cfg` | instances for TLC |
| `Checkout_proofs.tla` | type correctness, coherence of order statuses, nothing undone by one administrator |
| `CheckoutStock_proofs.tla` | units sold, deducted and returned, over all sessions |
| `CheckoutCustomers_proofs.tla` | coupons used once, carts that agree with `users.carts` |
| `SumTheorems.tla` | sums over finite sets, the fold that adds up, and induction by counting |
| `Collections.tla` | the protocols all administration services share |
| `CatalogServices.tla`, `ContentServices.tla` | which handler of 27 services follows which protocol |
| `Backoffice.tla`, `MCBackoffice.tla`, `Backoffice*.cfg` | the services, their products and a reader together; instances |
| `Backoffice_proofs.tla` | its type correctness; read-only defaults are kept; slugs follow names; looked-up slugs are free; references with a default are live; pages miss nothing |
| `Market.tla` | what users, listings and wish lists share: documents, cache, calls, days |
| `Accounts.tla`, `Listings.tla`, `WishLists.tla` | `UserService`, `ProductService`, `WishListService` |
| `OneTimeCode.tla` | `OtpService` |
| `CodePromise.tla` | what one-time codes promise (abstract) |
| `Marketplace.tla`, `MCMarketplace.tla`, `Marketplace.cfg` | the four composed; instance |
| `OneTimeCode_proofs.tla`, `Marketplace_proofs.tla` | codes alone, and among the other handlers; types, unique usernames, the cached list, badges, VIP days, spacing and visibility of listings, one wish per product |
| `PROJECT.json` | components, runs, mutants, map to the source, findings, hazards, theorems |

## The system

One Node process serves all requests. Its handlers are `async` functions; every
`await` of a database call is a point where other handlers, timers and callbacks run.
Only a single MongoDB operation on one document is atomic: no handler opens a
transaction or takes a lock. What the process keeps in memory (the node-schedule
registry, armed timers, calls in flight, the cache) is lost when it stops; the
database survives.

So the state of every model has two parts, the collections and the process, and
every action is the code from one awaited database call, at the moment the database
executes it, to the next one.

### Inventory

| component | state | operations | hard behaviour | what must hold |
|---|---|---|---|---|
| Promo offers `pages/offers/promo-offer` | `promooffers` | add, insertMany, update, updateMultiple, delete, deleteMultiple | check-then-save; an update races with the expiry; scheduling is not awaited | one document; an offer ends when a submitted end has come, not before, and never comes back |
| Job scheduler `shared/job-scheduler` | `jobschedulers`, node-schedule registry, timers | addOfferScheduleOnStart/End, cancelOfferJobScheduler, reAddScheduler, daily backup, listing-expiry notice | shared job names; crash between save and arm; time passing while the process is down | a persisted end job is armed after recovery; the armed jobs match the offers |
| Orders `pages/sales/order` | `orders`, `uniqueids`, `products.quantity/totalSold` | addOrder, addOrderByUser, insertManyOrder, changeOrderStatus, deletes, contact updates | eight dependent writes without a transaction; read-modify-write of the status | stock accounts for orders and cancels; an order's fields agree |
| Cart `pages/cart` | `carts`, `users.carts` | addToCart, addToCartMultiple, deleteCartById, updateCartById, updateCartQty | one fact in two collections; limits checked on a stale read | both collections agree; limits respected |
| Coupons `pages/offers/coupon` | `coupons`, `users.usedCoupons` | CRUD, checkCouponAvailability | the check is one call, the use another | one use per user |
| Multi promo offers `pages/offers/multi-promo-offer` | `multipromooffers`, the promo jobs' registry | as promo offers | shares job names and collection name with promo offers | the two do not disturb each other |
| Listings `pages/product` | `products` | add, clone, insertMany, updates, publish, bump, deletes | one-ad check then save, over midnight; "the month before" of a date; two kinds of delete | listings of a user a month apart; each listed for a month |
| Users and VIP `pages/user`, `pages/subscriptions` | `users`, `usersubscriptions`, cached list of users, copies in the listings | signup, login, updates, deletes, activateVipAndCreatePayment | check-then-save; cache dropped before or after the write; read-modify-write of the expiry | unique names; fresh list; badge shown; VIP days as paid |
| One-time codes `pages/otp` | `otps` | generate, validate | find, delete, save, mail; five-minute validity, rounded | one good code per address, mailed; an expired one is refused |
| Catalog `pages/catalog`, `pages/discount-percent`, `pages/address` | one collection each, references from products | CRUD, changeStatus, deletes that reset references | delete first, reset references later, or reset nothing | what has a default to be handed to does not dangle |
| Wish list `pages/wish-list` | `wishlists` | as the cart, without limits | look, then save | a product is on the list once |
| Listing-expiry notice `shared/job-scheduler` | a cron job | find expiring listings, send mail | fires every second of each fifth minute | one notice per listing |
| Administrators, guards `pages/admin`, `guards` | `admins` | CRUD, login, role checks | none: a check that keeps no state per request | |
| Content `pages/blog`, `customization`, `profile`, `review`, `report`, `verified`, `gallery`, `file-folder`, `additional-page` | one collection each | CRUD | slugs looked up and saved later, or not looked up; pages read while documents come and go | slugs free when saved and made from the name; no document missed |
| Upload, backup, e-mail, dashboard | files, processes | | none that a model of this state would show | |

The components meet in five places: the promo services and the job scheduler share
the node-schedule registry and the `jobschedulers` collection; cart, coupon and order
share the `users` document; order and product share the stock fields; catalog and
users share the products' references; an account's badge and its payments are copied
into its listings. `PROJECT.json` lists the hazards, each at its
line.

## PromoOfferScheduler

### State and actions

`offer` and `jobDocs` are the two collections. `registry` and `timers` are
node-schedule: for each of the two job names (`config/configuration.ts` 14-16) the
job `cancelJob(name)` would find, and the invocations that are armed. They differ:
scheduling a second job under a name replaces the registry entry and leaves the first
timer armed, and a timer that fires removes the entry of its name whichever job that
now means. `saving` and `saved` are the `addOfferScheduleOn*` calls, which the
services do not await, before and after their `save()`. `running` holds job callbacks
in flight, `req` the administrators' calls, `boot` the recovery. `fate`, `requested`
and `abandoned` are history variables for the properties: what became of each id,
which ends administrators submitted for it, and whose jobs a
`deleteMultiplePromoOfferById` of other ids cancelled, until an update schedules
them again.

| actions | code |
|---|---|
| `AddPromoOfferCheck`, `AddPromoOfferSave`, `SchedulePromoOffer` | `addPromoOffer` |
| `UpdatePromoOfferFind`, `CancelJob`, `CancelDropDoc` (for each name), `SchedulePromoOffer`, `UpdatePromoOfferSet` | `updatePromoOfferById` |
| `InsertManyPromoOfferStart`, `InsertManyPromoOffer` | `insertManyPromoOffer` |
| `UpdateMultiplePromoOffer` | `updateMultiplePromoOfferById` |
| `DeletePromoOffer` | `deletePromoOfferById` (its reads change nothing) |
| `DeleteMultiplePromoOffer`, `CancelJob`, `CancelDropDoc` | `deleteMultiplePromoOfferById` |
| `SaveJob`, `AddOfferSchedule` | `addOfferScheduleOnStart/End` |
| `FireJob`, `CallbackDropJob`, `CallbackDropOffer` | their callbacks |
| `BootFind`, `BootNext`, `BootArm`, `BootOverdue`, `BootDropOffer`, `BootDropJob`, `BootEnd` | `reAddScheduler` |
| `StartProcess`, `Crash`, `Tick` | start (`app.service.ts` 8-13), stop, the clock |
| `RequestFails` | a rejected database call: the handler's `catch` |

`updateProductsOnOfferStart/End` have their bodies commented out, so a start job does
nothing but remove its document. The clock counts seconds, as `getDateDifference`
does with the unit the services pass. Titles, slugs and product lists are left out.

### Properties and runs

The abstract specification `PromoOfferLifecycle` says that an offer is born once, that
its window is one somebody submitted for it, that the scheduler ends it only when some
submitted end has come, and that nothing brings it back. `ImplementsLifecycle` is the
refinement (the mapping is the identity on `offer`, `fate`, `requested`, `now`).

| run | shows | environment |
|---|---|---|
| `PromoConcurrent` | `TypeOK`, `SubmittedEnds`, `ImplementsLifecycle` | 2 overlapping calls of any kind that may fail, windows of any shape, a crash anywhere, 3 seconds |
| `PromoSerial` | `EndJobsMatchOffers`, `NeverEndedEarly`, `EveryOfferEnds` | one administrator, prompt server, 2 clean restarts, fairness |
| `PromoRecovery` | `PersistedEndIsArmed` | one administrator who adds, updates and deletes several, up to 2 stops at any point |
| `PromoSingleDocument` | `SingleDocument` is violated | two racing adds |
| `PromoCancelExisting` | `ExistingScheduleCancelled` is violated | add, delete, add, update |

Bounds. Two offers are enough for one offer's jobs to meet another's under the shared
names; three or four job ids let a window's two jobs meet those of the window before;
three seconds separate a start, an end and a later end; each restart is one crash.
Job ids are reused once nothing mentions them, as fresh ObjectIds would behave.

The environment is chosen by constants. `Serial` means that a call arrives when
nothing is in flight and that the clock waits for work in progress: an administrator
who waits, and a server that answers within the second. `EndJobsMatchOffers`,
`NeverEndedEarly` and `EveryOfferEnds` need it, and clean stops, and windows that end
in the future. Where those assumptions fail, the code does not keep these properties:

- an update whose end has passed cancels both jobs and returns, and the offer stays
  in the collection without a job (`promo-offer.service.ts` 333-338); an add with a
  past end stores the offer without one (77-82);
- `deleteMultiplePromoOfferById` cancels both jobs whatever its ids match
  (`promo-offer.service.ts` 440-468): an administrator whose list is stale deletes
  nothing and leaves the present offer without an end. The properties exempt the
  offers such a call abandons (`Kept`) and show that it harms no others;
- `insertManyPromoOffer` and `updateMultiplePromoOfferById` schedule nothing;
- `deletePromoOfferById` cancels nothing, and an update of one offer cancels the jobs
  of another, because names are shared;
- a stop between the two deletes of the end callback (`job-scheduler.service.ts`
  106-109) leaves an offer with no job;
- `deleteOne` by name removes one document: a stop in the middle may leave an end
  document that every later start arms again beside the current one;
- a date that passes between the decision to schedule and `scheduleJob` is accepted
  by node-schedule and never armed.

Fairness (`FairSpec`). Time passes whatever the administrators do (strong fairness of
`Tick`, since with `Serial` it is enabled again and again, and a steady stream of
calls must not hold the clock); a stopped process is started again (the container's
restart policy); the event loop reaches every answered database call and every due
timer (weak fairness of the steps of requests, saves, jobs and recovery). Nobody is
assumed to send a request.

## Checkout

### State and actions

`lines` is the `carts` collection, `carts` and `usedCoupons` are the fields of the
user document, `orders` is indexed by the order number, `orderSeq` is the counter of
`uniqueids` (assumed to exist, as after the first order), `quantity` and `totalSold`
are the product fields. A session is a browser tab: it has one call in flight at a
time; a user may have several. `Owner[s] = NoUser` is a guest or an administrator.
`granted[s]` is what the client remembers of `checkCouponAvailability`. `placed`,
`cancelled`, `failed` and `readdressed` are history variables; the last has the users
whose lines an `updateCartById` form gave another product or another user.

| actions | code |
|---|---|
| `AddToCart`, `FindLine`, `IncLine` or `SaveLine`, `PushLine` | `addToCart`, `addToCartMultiple` |
| `DeleteCart`, `PullLine` | `deleteCartById` |
| `UpdateCart` | `updateCartById` |
| `UpdateCartQty`, `IncQty` | `updateCartQty` |
| `CheckCoupon` | `checkCouponAvailability` |
| `AddOrder`, `SaveOrder`, `ClearLines`, `EmptyCart`, `UseCoupon`, `CountSold`, `DeductStock` | `addOrder`, `addOrderByUser` |
| `InsertManyOrderStart`, `InsertManyOrder` | `insertManyOrder` |
| `ReadOrder`, `SetStatus`, `Restock` | `changeOrderStatus` |
| `DeleteOrders` | `deleteOrderById`, `deleteMultipleOrderById` |
| `CallFails` | a rejected database call or a stop: what was written stays |

Prices, names, addresses and dates are left out; of the timeline the model keeps which
entries have `success`, of the payment status whether it is `paid`, of the delivery
date whether it is set. Clients submit orders that are PENDING, and with a coupon they
were granted.

### Properties and runs

| run | shows | environment |
|---|---|---|
| `CheckoutCustomers` | `CartConsistent`, `CouponOncePerUser` | two users with one tab each, two products, a coupon; one user changes quantities, the other sends `updateCartById` forms |
| `CheckoutStock` | `StockSettled`, `StockBounds`, `NothingUndone` | two customers and an administrator, failing calls |
| `CheckoutStatus` | `TypeOK`, `StatusCoherent` | two administrators, imports, failing calls |
| `CheckoutTwoTabs` | `CouponOncePerUser` is violated | one user with two tabs |

Bounds. Two sessions that meet on one document show every two-party interleaving of
it; three sessions add an administrator to two customers. Two products show a loop
that stopped half-way, quantities up to two tell a unit from a count, two line ids
let a user have two lines, or each user one. What is done at each session (`Ops`) is
chosen by the run: in `CheckoutCustomers` only one user sends the forms, since the
other is the one whose cart they must leave alone. `MaxCancelled` bounds how often an
order is cancelled again. Bounds stop actions that would exceed them; `Stock` may go
negative, as in the code, which never compares it when an order is placed.

What the code does not promise, and the runs therefore leave out: two tabs of one user
break `CartConsistent` and `CouponOncePerUser`; `updateCartById` writes the product and
the user of its form (`cart.service.ts` 170-175, `cart.dto.ts` 52-64) with no look at
the other lines, so a user may get two lines of a product, or a line that the user's
`carts` does not name (`CartConsistent` exempts the users such a form touched);
a line goes over its `cartLimit` without any race, since `addToCart` increments it
without a look (`cart.service.ts` 45) and `updateCartQty` compares the limit with a
quantity it read before, and not with the sum, so no property is about it; a failure between the save of an order
and the push of its coupon leaves the coupon usable; two administrators lose each
other's timeline entries and payments (`NothingUndone` is for one); cancelling an order
twice puts its units back twice, and deleting or refunding puts back nothing, which is
why the stock properties count cancels written, not orders cancelled. `updateDate`,
edits of `products.quantity` by an administrator and the contact-field updates of
orders are not modelled.

## Backoffice

### State and actions

Twenty-seven services (catalog, discount percents, content pages, coupons, addresses)
are written after one another, and differ in which steps each handler takes.
`Collections` has one action per step, from one database call to the next;
`CatalogServices` and `ContentServices` define each handler, under its own name, by
the protocol it follows. A difference between two services is a difference between
two of these definitions.

`docs` holds the documents of the collections that are `live` in a behaviour: the
category and sub-category collections together, every other one alone: what an area
or a zone refers to is not followed. `refs` is what products refer to, in fourteen
collections (`RefKinds`, `product.schema.ts` 282-487). `calls` are the
administrators' handlers in progress, `reader` a client that pages through a list.

| protocol | steps | services |
|---|---|---|
| add | look for the slug, save (`AddCheckingSlug`, `SaveDocument`); or save at once (`AddAtOnce`) | the first: catalog; the second: brands, discounts, content, addresses |
| import | clear if asked, `InsertBatch` up to the first document the index refuses | all but reviews, reports, verified, pages |
| update | look for a new slug (`UpdateCheckingSlug`), make one from a new name (`UpdateRenaming`), or neither | catalog; brands, discounts, galleries, folders; the rest |
| delete | read, refuse a read-only one, delete, find the default, move sub-categories, reset products | categories, sub-categories, brands, discounts |
| delete | read or not, delete, `$pull` from the products or not | the rest; only the `$pull` of tags names a field that products have |
| list | sort by creation, newest first, skip, limit | all but additional pages |

A database failure may end a call between any two steps (`CallFails`). The unique
index on the slug answers where the schema declares one (`UniqueSlugKinds`); the
other schemas have no slug, and what a handler makes is not stored (`Stored`). A form
carries the fields its DTO declares: that of a brand, a discount, an image or a folder
may have a slug, which is written as it is unless the name is new (`SlugAfterRename`).

### Properties and runs

| property | claims, of administrators who |
|---|---|
| `ReferencesLive` | call one at a time, ask for `checkUsage`, import without clearing, meet no failure: no product refers to a category, sub-category or brand that is gone, no sub-category to such a category |
| `DefaultKept` | do anything: a read-only default goes only in an import that clears |
| `RefusedByChanceOnly` | call one at a time: the index refuses only a slug with a random number, brands and folders aside |
| `SlugFollowsName` | call one at a time, rename one by one and send no slug: that of a brand or a folder is made from its present name |
| `PagingMissesNothing` | do anything but delete while a client pages, nor import several documents with one time |

The run `Backoffice` has four scenarios over every collection: `Careful` (four
documents), `Naming` (two names), `Rough` (two overlapping calls that fail, imports
that clear), `Paging` (pages of one document). Four documents are a default with its
sub-category and one of each beside them; two names are a slug and a collision; one
random number makes it collide again; a batch of two is the smallest that stops
half-way. The run `BackofficeUsage` asks a careful administrator for `UsageReset`, what
five services say of their deletes, and finds it violated: they `$pull` from
`hairColors`, `types` and so on, where a product has one `hairColor` and one `type`.

What the code does not promise: a delete without `checkUsage`, a failure after the
delete, an overlapping save, or a clearing import leave references to what is gone;
so does every delete of a hair colour, type, orientation, intimate hair, body type, author, publisher,
division, area or zone, and that of a tag if the driver does not take an id for the
element of the list that has it; a form's own slug is looked up by no update of a brand
or a folder, so the index may refuse it, or it has nothing to do with the name;
`updateMultipleBrandById` renames and keeps the slug; a page shifts by one when a
document above it is deleted; without a read-only default the handler throws after
the delete. The read-only documents are taken to be installed with the database.

## Marketplace

### State and actions

`users`, `listings`, `wishes` and `otps` are collections, `paid` the days bought in
`usersubscriptions`, `cache` the two entries `getAllUsers` keeps. `today` is a day of
a calendar of four months; `clock` counts half seconds for the codes, which live for
minutes. `served` counts the days a listing has been VIP, a history variable for
`VipMatchesPayments`. A user that was deleted is `Gone` and its id is not used again.

| actions | code |
|---|---|
| `UserSignup`, `UserSignupAndLogin`, `UserSignupAndLoginSocial`, `SignupAndLogin`, `Uncache`, `Uncount` | the sign-ups |
| `GetAllUsers`, `ListCount`, `AggregateUsers`, `KeepList`, `KeepCount`, `CacheExpires` | `getAllUsers` and its cache |
| `UpdateLoggedInUserInfo`, `UpdateUserById`, `CheckName`, `SetBadge`, `SetUser` | the updates |
| `DeleteUserById`, `DeleteUser`, `DeleteMultipleUserById` | the deletes |
| `ActivateVip`, `Pay`, `FindLatestAd`, `ExtendVip` | `activateVipAndCreatePayment` |
| `AddProduct`; `AddProductByUser`, `ReadOwner`, `SaveAd`; `CloneSingleProduct`, `SaveClone`; `InsertManyProduct`, `InsertAds` | creating listings |
| `UpdateProductById`, `DeleteProductById`, `SetAd`; `UpdateUserProductById`, `SetOwnAd`; `DeleteUserProductById`, `RemoveAd`; the bulk forms | changing and deleting them |
| `AddToWishList`, `FindWish`, `SaveWish`, `DeleteWishListById`, `UpdateWishListById` | wish lists |
| `GenerateOtp`, `DeleteOld`, `SaveCode`, `SendCode`, `GenerateFails`; `ValidateOtp` is a predicate | `OtpService` |
| `CheckUserAndSentOtp`, `CheckNewEmailAndSentOtp`, `GenerateOtpWithEmail` | who asks for a code |
| `CallFails`, `NextDay`, `CodeTick` | a rejected call or a stop; time |

`Cutoff` is `new Date(year, month - 1, day)`: a day that the month before does not
have runs over, so that the date goes back by the length of that month. A listing is
recent if its `publishDate` is not before it. `addProductByUser` asks for a recent
listing of any status, the pages of users for recent published ones (`Page`).

### Properties and run

| property | claims |
|---|---|
| `CodeReachesUser` | when the requests for an address have answered and none failed, the stored code was mailed |
| `CodeLasts` | a code is good for its life less two seconds, and never after it, counted from the moment its expiry is computed |
| `ImplementsPromise` | one good code per address, withdrawn before the next, none mailed that was not saved: refinement of `CodePromise` |
| `UsernamesUnique` | one call at a time and no `userSignup`, names differ |
| `UsersListFresh` | one call at a time, no failure, no search: a cached list is the list |
| `BadgeShown` | one call at a time, failing or not, and marks sent by an administrator with the status Verified: every listing of a verified user has the badge |
| `VipMatchesPayments` | never more VIP days than paid, however calls overlap and fail; exactly as many when calls come one at a time, none fails and none runs over midnight |
| `SpacedAds` | a user who waits for each answer posts listings a month apart, over midnight too |
| `LiveAMonth` | a published listing is listed for the shortest month and not longer than 31 days |
| `OneWishPerProduct` | a user who waits for each answer and sends no `updateWishListById` has a product on the list once |

The run `Marketplace` has eleven scenes (`MCMarketplace`), each with the handlers
whose order matters to one part, since all of them together have no state space that
can be searched. A scene also says how the environment behaves: how many calls at
once, whether a user calls again before the answer (`tabs`), whether calls fail,
whether they run over midnight (`night`), and until which day. `Monthly` runs from
February 1 to April 6 in a calendar of 31, 28, 31 and 30 days, so that the cutoff
crosses a shorter month and a longer one; the others need a few days.

Bounds. Two users have or collide on two names. Two listings of one user are a
listing and the next. Three wish-list ids hold two lines of a user and one too many.
Terms of one and two days and three paid days let a term end, run out and be
extended. A code lives for six half seconds here and a request takes any number of
them; three codes are one, its successor and one more for a racing request. `Room`
keeps an id for every call about to save a listing. A second payment waits while one
is about to be stored, so that the bound on paid days holds.

What the code does, and the properties therefore leave out:

- overlapping sign-ups, and `userSignup`, which does not look, give one name twice;
- `getAllUsers` puts the result of a search, or a list read before a racing update,
  under the key of the whole list (`user.service.ts` 577-583);
  `updateLoggedInUserInfo` drops the cache before it writes (652);
- `updateLoggedInUserInfo` writes whatever `isVerfied` its form has (667,
  `user.dto.ts` 179-182), and `updateUserById` copies the badge to the listings only if
  `verifiedStatus` is Verified too (983) but writes `isVerfied` in any case: either may
  leave a verified user with listings that do not show it;
- the form that changes a password returns before the listings get the badge;
- the key of the cached list ignores the `select` of the request, which is not modelled;
- `isVipStatusActive` is set by a payment and by nothing reset: the model reads the
  VIP status from the expiry;
- a code's expiry is computed before the delete and the save are awaited
  (`otp.service.ts` 41 and 139), so what they take is gone from its life;
- the second argument of `findOne({...}, {status: 'publish'})` is a projection
  (1089), so a payment extends the newest listing of any status; without a listing it
  has no effect, and a copy of a listing (`cloneSingleProduct`) copies the VIP days;
- a payment that runs over midnight computed the new end the day before
  (1096-1103), and the listing is VIP for a day less;
- `deleteUserById` leaves the user's listings;
- an owner who publishes an old listing again, or deletes one, gets round the rule of
  one listing a month, and may publish one that an administrator has deleted; one that
  an administrator deleted still keeps the owner from posting;
- the cutoff is not monotone: a listing of March 1 is hidden on March 30 and 31
  (cutoff March 2 and 3) and back on April 1, beside one posted in between;
- two tabs of a user post two listings, and put a product on the wish list twice;
- `updateWishListById` writes the product and the user of its form
  (`wish-list.service.ts` 170-175) with no look at the other lines;
- `users.wishLists` is pushed to and is not in the schema, so it is never stored.

## What is proved

For every value of the constants that satisfies the modules' assumptions, with no
bound on offers, requests, users, sessions, products, orders or addresses:

- `PromoOfferScheduler_proofs!TypeCorrect`, `SubmittedEndsInvariant`, `Refinement`.
  `NeverEndedEarly`-like claims are not inductive, since the scheduler acts on dates
  captured long before. `SubmittedEnds` therefore follows an end through everything
  that may carry it: the stored window, a call's arguments, a job being saved, an armed
  timer, a callback, the document recovery holds. Each of its parts is kept by every
  action given the others, and `TypeOK`; the deletion steps then find that an end
  submitted for that very offer has come, which is the guard of `Expire` in the
  abstract specification, and every other step maps to one of its actions or stutters.
- `PromoOfferScheduler_proofs!PersistedEndIsArmedAlways`. The assumptions are those of
  the runs, as hypotheses: `Prompt` (`Serial`, valid windows, no failing call) and the
  operations used. `PromptInv` says what that buys: a call in flight is alone, its window
  is still to come, nothing fires while it or its background saves are on their way, and
  the window recovery has read is the stored one. `PersistedCovered` then names, for
  every end document of a stored offer, who answers for it: the recovery, which has yet
  to come to it or has it in hand; a call that will arm another end; a job that aims at
  the stored end or the one about to be stored; or a callback about to take the offer
  away. An offer that a delete of other ids has abandoned is nobody's, until an update.
  Each step passes an offer from one to the next, wherever the process stops.
- `PromoOfferScheduler_proofs!EndJobsMatchOffersAlways`, `NeverEndedEarlyAlways`, with
  clean stops in addition. `MatchInv` counts as well: one end document at most, one end
  job or callback, each with the other except in the steps between their two database
  calls, the name of the end job in the registry meaning the armed timer (so that a
  cancel by name hits it), and ids that tell documents apart (so that a delete by id
  hits one). What fires is due at the stored end, which is `NeverEndedEarly`. After a
  dirty stop a document may be left behind, and both are false.
- `Checkout_proofs!TypeCorrect`, `StatusCoherentAlways`. The order a status change will
  write is computed when it reads. The inductive invariant adds that every call which
  is about to write carries a coherent order with the same `hasTimeline` as the stored
  one of that number (which no update changes, and a deleted order's number is
  detached from the calls that read it), so a stale write still leaves a coherent order.
- `Checkout_proofs!NothingUndoneAlways`. What a change will write extends the order it
  read. With one administrator session (`OneAdmin`) nobody writes the order in between,
  so by `UndoneInv` what is about to be written still extends what is stored: it only
  adds to the timeline and never goes back from paid. With two it is false.
- `CheckoutStock_proofs!StockBoundsAlways`, `StockSettledAlways`. Each loop of `$inc` calls
  has done some of its items. `StockInv` says exactly how far the counts are behind:
  by the sums over all sessions of the units a session has still to count as sold, to
  deduct or to return, up to what failed calls have dropped. A step of a session changes
  its own share and the count by the same amount (`SessionStep`); with no call in
  flight the shares are 0. `SumTheorems` proves what sums over a finite set do when one
  share changes. Assumed: finitely many sessions.
- `CheckoutCustomers_proofs!CouponOncePerUserAlways`, `CartConsistentAlways`. Both assume
  one tab per user (`OneTabPerUser`) and speak of states where no call has failed
  half-way: two tabs use a coupon twice and leave lines nobody refers to. `CouponInv`
  follows a coupon from the grant to the draft, the order and the push on
  `usedCoupons`: what is granted is unused, and what is ordered is used or about to be.
  `CartInv` says at each place of the cart handlers and of `addOrder` how the
  lines and `users.carts` differ (`CartFits`), and that a product has one line, for
  the users that no `updateCartById` form has touched.
- `OneTimeCode_proofs!CodeTypeCorrect`, `CodeReachesUserAlways`, `CodeLastsAlways`,
  `PromiseKept`. `CodeReachesUser` speaks of moments when no request is in progress,
  and is not inductive. `CodeInv` adds what holds in between: a code
  about to be mailed was saved for its address (`AsksCoherent`), so was every mailed
  one (`MailsSaved`), and where a code was taken away, or is stored and not mailed,
  some request has still to save or to mail it, or has failed (`CodeUnderWay`). The
  save then finds a free address, which is the guard of `Issue` in `CodePromise`.
- `Marketplace_proofs!MarketKeepsPromise`, `MarketCodeReachesUser`, `MarketCodeLasts`:
  a step of the marketplace is a step of the codes or leaves them alone, so the
  theorems hold of the composition.
- `Marketplace_proofs!OneWishAlways`. The look for a line and its save are two calls of
  the database. `WishInv` adds that each user has one wish-list call in progress
  and that there is no line yet for one about to be saved; every step of users,
  listings and codes leaves the lines and those calls alone (`OtherStep`).
- `Marketplace_proofs!UsernamesUniqueAlways`. A name is looked for, and saved after the
  cache and the count were read. `NameInv` adds that one call is in progress and that a
  name about to be saved is nobody's or its own user's (`Held`).
- `Marketplace_proofs!MarketTypeCorrect`. `MarketTypes` says at every place of every
  handler what its call carries, and keeps two promises the types rest on: an id for
  each call that is about to save a listing, and days below the bound for a payment
  that is about to be stored.
- `Marketplace_proofs!LiveAMonthAlways`. About the calendar alone: the days of its months
  follow each other without a gap, and `Cutoff` lies the shortest month to 31 days
  before its day. The months are counted by a recursive function; that its facts hold
  for every month is an induction, stated as one on a set (`CountingInduction`).
- `Marketplace_proofs!SpacedAdsAlways`. The check for a recent listing and the save are
  two calls. `SpaceRules` adds that the user of a call past the check has no other
  call that posts, and no listing younger than the shortest month.
- `Marketplace_proofs!UsersListFreshAlways`, `BadgeShownAlways`. Between two writes of a
  handler the cache is not the list, and listings lack the badge. `FreshRules` and
  `BadgeRules` say at each place of each handler what may still differ, and that this
  call is the one that will put it right; with one call in progress (`Solo`), no other
  comes between.
- `Marketplace_proofs!VipMatchesPaymentsAlways`. Two payments that overlap both read an
  expiry and the second write wins; a failed one adds nothing. So what listings show
  does not determine what they were given. `VipInv` has for each listing the latest
  end that any payment computed for it, and claims that the days served, the days to
  that end, and the days calls in progress have still to add never exceed the
  days paid; they are equal while nothing overlapped, failed or met midnight. Each step
  changes one listing's or one call's part of that sum.
- The theorems of the marketplace assume what `MarketAssumption`, `SceneAssumption` and
  `CalendarAssumption` say: finitely many users and clients, scenes whose users
  start with different names, months of 28 to 31 days. `SceneStays`, `AccountSteps`,
  `ListingMoves` and `WishMoves` say once what the handlers of a part leave alone.
- `Backoffice_proofs!TypeCorrect`, `DefaultKeptAlways`. The look at `readOnly` comes
  one call before the delete. `BackInv` therefore keeps of every call about to delete
  that its documents have existed and that none still there is a default (`CallsFit`).
  This stays true because no update writes `readOnly` or the collection, and because
  ids are not given again (`Fresh`): a document the call missed cannot become one it
  deletes. `RoomLeft`, that each call about to save has an id left, bounds the ids.
  One lemma for each protocol of `Collections`; `CatalogHandled` and `ContentHandled`
  say which services follow which.
- `Backoffice_proofs!SlugFollowsNameAlways`, `RefusedByChanceOnlyAlways`. Both are about a
  read that is acted on one call later, and hold for administrators who call one at a
  time (`Solo`, and `StepAlone`: all other calls are idle). `FollowInv` keeps of a call
  about to set a renamed document that its form has a slug made from the new name, or
  no slug and the name the document has. `RenamingForm` says once what such a call
  goes on with; with forms that have a slug of their own both theorems are false for
  brands and folders. `ChanceInv` keeps that slugs are distinct
  where the schema has a unique index, and that a slug a call has found free and is
  about to save or set still is, unless a random number is in it. For an import it
  needs that the accepted part of a batch clashes neither with the collection nor with
  itself (`AcceptedClean`).

- `Backoffice_proofs!ReferencesLiveAlways`. Between the delete of a category and the last
  of the calls that hand over what referred to it, references dangle. `RefInv` keeps of
  the call in progress what it carries (`RefFits`: the default it found is there, the
  documents it is about to delete are in its list and not read-only), and that every
  reference is to a document or to one this call will still hand over (`MayDangle`,
  `MayBeOrphan`). All other steps keep what may be referred to (`Keeps`). It needs that
  categories are installed with their sub-categories (`FamilyAssumption`), and one call
  at a time, no failure, no import that clears: without these it is false.
- `Backoffice_proofs!PagingMissesNothingAlways`, for calls that overlap and fail in any
  way. A list is sorted, so a document stands behind as many as are younger
  (`Standing`); additions make it stand further down, where the client still has to
  come, and only a removal moves it up. `PageInv` says of what the client has not seen
  that at least as many are younger as the client has passed (`Awaited`). A
  sub-category falls out of its list when its category is gone; `PageFits` follows a
  call that hands sub-categories over far enough to know that it moves those in the list
  from the default to itself only.

Only model-checked: liveness (`EveryOfferEnds`), which the prover does not do under
fairness. Every invariant and action property of a passing run is stated by a theorem.

## Not modelled

- Multi promo offers: the handlers of the promo offers on a collection that its own
  jobs do not reach. The end callback deletes its id from `promooffers`
  (`job-scheduler.service.ts` 109) and the cancel asks the configuration for names it
  does not have (`multi-Promo-offer.service.ts` 322-325), so nothing here ends or
  cancels one. Its timers share the promo offers' names in node-schedule: the runs
  about jobs are for a server where it is not used.
- The listing-expiry notice: it reads listings and sends mail to `user.email`, which
  the schema of a listing does not store (`product.schema.ts` 542-560).
- Status fields and `changeMultipleStatus`, the `check...Availability` reads,
  `getAllDivisionsByAll`; quantities of wish lists; passwords, tokens and logins; the
  wording of mails; the list of subscriptions on sale; the bump date, groups, sorting
  and search of listings, and the one-off migrations (`updateDate`, image and quantity
  updates).
- Administrators and guards, uploads, the daily backup and the dashboard: input and
  output, or checks that keep no state.

## What is left

1. The multi-promo service composed with the scheduler on one registry.
2. Quantities of wish lists; the status fields of the catalog.
