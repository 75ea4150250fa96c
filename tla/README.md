# book-store-backend: verification project

TLA+ modules, TLC runs and TLAPS proofs about the NestJS book store in `src/`
(MySQL through Prisma, Redis, BullMQ workers, SePay payment webhooks). This file says
what the system is, which module models which part of it, what each run and each theorem
shows, and what is left out.

## 1. The system

| Component | State it keeps | Operations that change it | Talks to |
|---|---|---|---|
| Checkout, HTTP side (`order.service.ts`) | `orders`, Redis `available:<variant>` | `createCheckout` | `book_variants` (read, and reserve in the fallback), payment intents, queue `order` |
| Checkout worker (`checkout.processor.ts`) | `order_items`, `order_address`, snapshots, `book_variants.reserved` | `processCheckout` | the job the HTTP side queued; deletes the order on failure |
| Order cleanup (`OrderCleanupJob`, `cleanOrder`) | `orders`, `book_variants` | cron: give back and cancel | the rows checkout, worker and webhook write |
| Payment webhook (`hooks.service.ts`) | `webhook_inbox`, `payment_transactions`, `payment_intents`, `orders`, `book_variants` | `handleSepayWebhook`, `getPaymentStatus` | SePay (at-least-once delivery), the polling client |
| Payment intents | `payment_intents` | create, set status | checkout creates, webhook settles |
| Admin order decisions | `orders.status` | `updateOrderStatus` | races payment and cleanup |
| Suppliers, purchase orders, stock imports | `suppliers`, `purchase_orders`, `stock_imports` and their items, `book_variants.stock`, `.price` | create, approve or reject, toggle, import, price | each other, and the shop through the stock |
| Catalogue, admin side | `books`, translations, variants, `authors`, `publishers`, `categories`, `audit_logs` | create, translate, update, delete, price | bumps cache versions |
| Catalogue, public side, cache versions | Redis versions and pages | lists, home, detail, search, tree; `withCache`, `bumpVersion` | the rows the admin side writes |
| Authentication, sessions, devices | `user_sessions`, `user_devices`, `revoked_tokens` | register, login, refresh, logout, password changes | guards read sessions and later act on them |
| Verification codes, e-mail outbox, e-mail worker | `verification_codes`, `email_outbox`, queue `email` | register, resend, forgot, verify, reset; the worker | BullMQ retries, SMTP |
| Cart, wishlist, guest sessions, addresses | `carts`, `wishlists`, their items, `guest_sessions`, `user_addresses` | add, change, remove, clear, merge on login, default address, cleanup cron | a registration converts a guest session |
| Roles, permissions, `PermissionsGuard` | `role_permissions`, `user_roles`, Redis | grant; the guard reads and fills the cache | every admin endpoint |
| Database seed (`prisma/seed.ts`) | all catalogue, access and purchasing tables | one long script of upserts and deletes | starts over after a kill, on a database in use |
| Search, recommendations, uploads, health | vectors, files | reads | external services |

### What is hard about it

* Several processes (HTTP, checkout worker, e-mail worker) work on the same rows, and
  every `await` is a place where any other request, job, cron run or webhook may come
  in between. Few operations are transactions; most are a `Promise.all` or a chain of
  independent statements.
* Stock lives twice: in MySQL (`stock`, `reserved`) and in Redis counters that are
  seeded from it, and the reservation moves from one to the other through a queue.
* SePay repeats deliveries, also concurrently, and a transfer may arrive before the
  worker has finished the order, or after the cleanup has cancelled it.
* Failures: Redis may fail before or after the Lua script ran, the HTTP process may die
  between the order and the queue, BullMQ runs a stalled job again, each call of a
  `Promise.all` may fail by itself, the compensation may run while the other call is
  still in flight, the other members run on when the request has already been answered with
  an error, and the seed may be killed in front of any of its statements.
* Find-or-create without a unique key (carts, wishlists, slugs, default addresses), and
  decisions on values read earlier (purchase orders, devices, quotas, books).
* Caches: pages live under a version that is read, initialised and bumped by different
  requests; permissions are cached per role and nothing invalidates them.

### What makes each part correct

* Inventory: no interleaving reserves more copies than the stock column says; copies are
  held only from what is free, given back as they were held, and never appear except by an
  import; a checkout reserves in one process, never in both. The code breaks the middle
  part in two places, which section 7 names.
* Orders: items add up to the total the customer was asked to pay; queued jobs end; an
  order nobody pays for does not stay pending.
* Payments: paid means covered by a transfer on record; a settled webhook has its
  transfer on record; an exact transfer in time ends in a paid order.
* Purchasing: stock is what imports delivered, an order is imported once and for what it
  cost up to the rounding of prices, a decision stands, and lists show every row.
* Catalogue: readers are not shown a book as it was before an announced update, nor a
  deleted one for longer than a page lives; the slug on a card opens its book; the audit
  log tells one story of a book's columns and texts; totals, tree and recommendations are
  what the rows say.
* Accounts: a session that ended is not used again; devices, codes and mails keep to their
  limits; a link does what its code says, once, for the address it was sent to; a queued
  mail does not wait forever.
* Shopper: one cart, one wishlist, one default address; a merge neither invents nor loses
  copies; nobody takes another shopper's wishes; the cleanup spares converted sessions.
* Access and seed: decisions rest on grants at most a cache lifetime old; a seed that gets
  to its end leaves what it means to, whatever was there; what is for sale is backed by
  orders and imports at every moment.

## 2. The modules

| Module | Models | Role |
|---|---|---|
| `Store` | the shared tables of orders and payments and the repository calls that write several of them | state and helpers, extended by the three below |
| `Checkout` | `createCheckout`, `CheckoutProcessor`, `cleanOrder`, the Redis counters | component |
| `AdminDesk` | `updatePriceVariant`, the stock part of `createStockImport`, `updateOrderStatus` | component |
| `Hooks` | `handleSepayWebhook`, `getPaymentStatus` | component |
| `BookStore` | all of them over one database: `Next`, `Spec`, fairness, properties | composition |
| `StockLedger` | what the inventory promises, nothing else | abstract specification |
| `Claims` | statements of documents and comments that the code contradicts | properties of the violation runs |
| `Purchasing` | suppliers, purchase orders, stock imports, the price of a variant, lists page by page | component |
| `BackOffice` | its specification and properties | composition |
| `Catalogue` | the tables of the catalogue and the queries and mappers over them, as operators | state and algorithms |
| `CatalogueVisits` | `withCache` and the public endpoints behind it | component |
| `CatalogueDesk` | `AdminBookService`, `AdminCategoryService`, find-or-create of names, audit, bumps | component |
| `Bookshelf` | readers and admins over one database and one Redis: properties | composition |
| `Accounts` | `users`, `user_sessions`, `user_devices`, `revoked_tokens`, `verification_codes` with `email_outbox`, and the requests to `AuthController` | state and helpers, extended by the two below |
| `Sessions` | login with devices, `RefreshGuard` and `refreshToken`, `logout`, `changePassword` | component |
| `Verification` | register, verify, resend, forgot, validate, reset, `EmailProcessor` | component |
| `Identity` | both over one database: `Next`, `Spec`, `FairSpec`, properties | composition |
| `GuestSessions` | `guest_sessions`, `carts`, `ShopperSessionGuard`, conversion, the cleanup job | state and component |
| `Carts`, `Wishlists`, `Addresses` | `CartService`, `WishlistService`, `UserAddressRepository` | components |
| `Shopping` | all of them over one database: `Next`, `Spec`, properties | composition |
| `Access` | `PermissionsGuard`, `PermissionService` with its cache, grants over the API | component |
| `SeedData`, `SeedPlan` | the tables of the seed and what it computes from them | data and algorithms |
| `SeedRun`, `SeedProcurement` | the statements of the seed, kills and reruns | component |
| `Seed` | the seed next to guards and grants: properties | composition |
| `MCBookStore`, `MCBackOffice`, `MCBookshelf`, `MCIdentity`, `MCShopping`, `MCSeed` | definitions the `.cfg` files use for constants, symmetry | model checking |
| `BookStoreProofs`, `OrderProofs` | theorems about `BookStore`, the second on the first | proofs |
| `IdentityProofs` | theorems about `Identity` | proofs |
| `ShoppingProofs` | theorems about `Shopping` | proofs |
| `SeedProofs` | theorems about `Seed` | proofs |
| `SumFacts` | what the folds of the community modules add up to | lemmas about sums and sequences |
| `BackOfficeProofs` | theorems about `BackOffice` | proofs |
| `ShelfProofs` | theorems about `Bookshelf` | proofs |

### How state and actions correspond to the code

* One action is one awaited call (a statement, a transaction, a Redis pipeline or
  script, a queue operation), with the computation up to the next `await`. The place in
  the code is the field `pc` of a request or handler; what it read and still uses is
  kept in its other fields (`req[o].free`, `unitPrice`, `remaining`, `hook[d].verdict`,
  `quantity`).
* An order is identified with the checkout request that creates it, its payment intent
  with the order (`content` is unique and built from it), and a payment transaction
  with the delivery that saves it. An absent row has status `"NONE"`.
* A cart of a checkout is a function from variants to quantities, 0 outside the cart.
  `order_items` is a sequence of batches, one per `createMany`, because a job that runs
  twice writes its items twice. A batch records quantity and unit price; names, images and
  snapshots are left out.
* `updateReservedByIds` is one UPDATE with a condition per row: it reserves what still
  fits and silently skips the rest, and the callers do not look at the count. That is
  `UpdateReservedByIds`.
* `Fault` is a call that throws or a process that dies; the action that contains it
  follows the `catch` the code has, or none. Each action lists which calls may fail.
* The members of a `Promise.all` (`hook[d].todo`) complete in any order and fail one by
  one; when one fails the caller continues at once in the code, while the others still
  run. In `updateOrderDone` the compensation therefore becomes available while the
  other call is in flight (`FailDone`).
* Time is a counter; `expiredAt < now` comparisons are the code's. `OrderTTL` (2 hours)
  and `IntentTTL` (1 hour) keep their order in every instance, so that the window in
  which the cleanup cancels too early exists.
* Accounts: `Calls` is a pool of HTTP requests; each takes one endpoint of `Kinds` when it
  starts. `AbortCall` ends a request whose call threw; the other members of its
  `Promise.all` stay in `todo` and run on. A resend finds its user (`StartResend`) before it
  reads the quota (`CheckQuota`). A session, a token pair, a code and its mail are identified with the request
  that made them. `code_hash` is abstracted to how many tokens the worker has made for
  the code, so a link, which names a code and one of its tokens, matches or does not.
  `mailbox` is what has been delivered; requests open links from it, used or not, and in
  any order. `overlapped` is a history variable that marks requests which ran together
  with one of the same family for the same user.
* Shopper: a request carries the guest cookie of its browser and perhaps a user, as in the
  guard; a cart, a wishlist, an address and an item are identified with the request that
  inserted them, so that a write by id misses an item that was deleted and added again.
  The stock a request reads is any member of `Available`, because other components change
  it at any time; `CheckStock` refuses an addition that is more, as `CartItemService` does.
  The cleanup, and every transaction on addresses, is two steps: the
  snapshot it reads, and its writes by id. A request that dies is one that takes no
  further step.
* Purchasing and catalogue: a table is a sequence in the order of creation and a position
  is an id, so that `orderBy id` and paging are what they are in the code. A title is a
  sequence of tokens with and without marks; `BuildUniqueSlug` does to them what the slug
  function does. Totals of purchase orders and amounts paid are computed as the code does,
  discount and quantity in its places. A request may name prices with more digits than a
  `Decimal(18, 2)` column keeps: amounts are counted in `Grain`ths of a cent, and `Rounded`
  is what the column makes of them, where the code stores them and not before.
* A `Snapshot` is what an audit row keeps of a book, with all but its variants: they are
  changed by price updates, imports and requests about other books, none of which writes a
  row about the book, so that the rows tell no story of them.
* Cache: a page is stored under the version its reader saw, with the time at which it
  ends. `due`, `floor`, `rewound` and `lag` are history variables: the last revision
  that was announced, the one announced when the reader asked, the keys whose version was
  set back by a second initialisation, and how long the factory of a page took.
* Seed: `seed.todo` is the script of the statements that `main` still has to await, in
  their order, and one action per kind of statement takes its head. `KillSeed` drops the rest;
  a new run begins with the whole script. What is computed without the database (formats,
  prices, ISBNs, plans, deliveries) are operators over the same indices as in the code.
* Permissions: `heldSince` and `heldUntil` are history variables that say since when a
  role has had a permission, or until when it had it.

Simplifications that a reader should know:

* The `SET NX` pipeline of all items is one step, and so is the rollback of one counter.
* Quantities are positive. The DTO declares an integer without `@Min`, so the program
  would accept others; the properties are stated for quantities a shop sells.
* `orders` keeps one order per request. Order codes and transfer contents are unique by
  construction and not modelled as strings.
* A client logs out with the pair of tokens it got together. Two access tokens of one
  user signed in the same second are equal in the program and distinct in the model.
* `login_attempts` and `user_roles` are written by register and login and read by none of
  the operations of `Identity`; they are left out there. A failed login changes nothing
  else, so `StartLogin` starts where the password has matched.
* The branch `if (!order)` after `findByContent` is dead (the order is a required
  relation of the intent, deleted with it) and is left out.
* The five deletes of `removeSeedVariantsForBook` in front of the snapshots are one step.
* Parts that share only the database tables they read are composed separately: the stock
  that imports change is the same column in `BackOffice` and in `BookStore`, where
  `AdminDesk` adds any amount at any time.

## 3. Properties

Each is commented at its definition; one `TypeOK` per composition says what rows may be
and which keys hold.

* Orders and payments (`BookStore`): `NoOverReservation`; `LedgerSpec` (every step of the
  system is a step of `StockLedger`, with `stock - reserved` as the free copies and
  `reserved` as those held, except the two statements `Restocks` and `Compensates`);
  `ItemsAddUp`; `ReservesOnce`; `PaidIsBacked`; `SettledIsRecorded`; liveness under
  `Fairness`: `JobSettles`, `DueIsCancelled`, `ExactPaymentPays`. `ReservesOnce` only
  counts checkouts whose worker never died (a second run of the job of a signed-in user
  reserves again), and `SettledIsRecorded` exempts orders that a failed job deleted
  (payment transactions go with them by `ON DELETE CASCADE`). The ledger is exact: a hold
  takes all or nothing of a variant and only what is free, a shipment leaves the free copies
  alone, a release returns what it no longer holds, an import alone adds copies. The two
  exceptions are statements that do add copies otherwise, see section 7; everything else in
  the system is held to the ledger.
* Purchasing (`BackOffice`): `StockIsImported`, `FullDeliveryCostsTheOrder`,
  `PagesShowAll`, `DecisionStands`. A decision may be replaced by a request that read the
  order before it was taken; the amount of a short delivery has no property, because the
  code takes a missing copy off twice. For a complete one `FullDeliveryCostsTheOrder` bounds
  how far the amount paid may be from the amount agreed: half a cent for each copy and half
  a cent for the total, which is what rounding each price of a line to a cent can do.
* Catalogue (`Bookshelf`): `ReadersAreCurrent`, `CardLeadsToBook`, `AuditChain`,
  `DeletedIsFinal`, and for the algorithms `QueriesAreRight`, which compares the category
  tree, the recommendations and the pages of every list with what they should be, in every
  reachable state. The exemptions are the windows that the code leaves open: two first
  readers of a page who both initialise its version, a slug chosen while another request
  chooses one, an audit row or an update of a request that had read the book before.
  `AuditChain` and `DeletedIsFinal` are about the columns and texts of a book, not about its
  variants. `QueriesAreRight` states of a keyword page what is shown, the books
  `findBooksByIds` returns, and that they add up to the total as long as no page has more
  ids than its limit (`ByIdsLimit`); of the admin lists it states which books they go through
  and what their totals count, which is not the same.
* Accounts (`Identity`): `LinksOfOwner`, `LimitsHold`, `DeadStaysDead`, `SpentLinks`,
  `LinksMatchCodes`; liveness under `FairSpec`: `MailSettles`. `LimitsHold` allows one
  more per request that overlapped another one: reading the count and writing the row are
  separate statements, and TLC finds a violation without the allowance. `DeadStaysDead`
  exempts the session of a refresh that has passed the guard: its write revives it.
* Shopper (`Shopping`): `OneOfEach`, `NothingInvented`, `MergeAddsUp`, `ConvertedStays`,
  `WishesAreOwn`. `OneOfEach` has the same allowance for overlapping requests;
  `NothingInvented` exempts two merges that overlap: one may read the guest's cart before
  and the user's after the other. `MergeAddsUp` is about a merge that ran alone, from one
  cart that is only the guest's into one that is only the user's. A cart that an earlier
  merge assigned to the user keeps its guest session, so it belongs to two shoppers: merged
  with itself it is deleted, and a request of the guest changes what is the user's. TLC
  finds these when the exemptions are taken out (with four requests).
* Access and seed (`Seed`): `DecidedOnRecentGrants`, `AccessConverges`,
  `RowsAreFoundAgain`, `SellableIsBacked`. `DecidedOnRecentGrants` is about the roles a
  guard has read; that the user himself ever had the permission does not follow, because
  roles and permissions are read at two times. `ASSUME CatalogueIsSound` is what the data
  of the seed must be (two hundred books: distinct ISBNs with correct check digits, shelves
  that exist, parents before children); TLC evaluates it in the run `seed`.

## 4. The runs

| Run | Configuration | Checks | Shows |
|---|---|---|---|
| `prices` | `MCPrices.cfg` | `TypeOK`, `ItemsAddUp` | Prices change and stock arrives while an order of two variants, of every kind of customer and payment, moves from the HTTP process to the worker: its items still add up to its total. |
| `payment` | `MCPayment.cfg` | `PaidIsBacked`, `SettledIsRecorded`, `LedgerSpec` | Two concurrent or repeated deliveries of one transfer (short, exact or too much) race the worker, the polling endpoint, an admin and one failure: an order is paid only by a transfer that covers it, a settled webhook has its transfer on record, and apart from the credit of a compensation every statement moves copies as the ledger allows. |
| `late_payment` | `MCLatePayment.cfg` | `PaidIsBacked`, `ExactPaymentPays` | A transfer (short, exact or too much) over the clock, with an intent that expires, an order that the cleanup cancels or an admin decides while it is handled: an order is paid only by a transfer that covers it, and an exact transfer in time ends in a paid order. |
| `checkout` | `MCCheckout.cfg` | `ReservesOnce`, `NoOverReservation`, `JobSettles`, `DueIsCancelled` | Two concurrent checkouts of one copy, their jobs and the cleanup cron over the clock, with one failure, dying process or stalled job: no interleaving reserves more than the stock row has, no checkout reserves in both processes, and with a fair worker and cron queued jobs end and orders that are due are cancelled. |
| `claim_out_of_stock` (violation) | `ClaimOutOfStock.cfg` | `OutOfStockIsRejected` | A checkout that Redis answered with fewer than zero copies still becomes an order. |
| `claim_expiry` (violation) | `ClaimExpiry.cfg` | `ExpiryLeavesStock` | The cleanup of an order that was never paid leaves more copies on record than there were. |
| `back_office` | `MCBackOffice.cfg` | `TypeOK`, `StockIsImported`, `FullDeliveryCostsTheOrder`, `PagesShowAll`, `DecisionStands` | Three requests of the back office that buy, decide, import and price, interleaved at every awaited statement, and an admin who turns the pages of a list: what the stock, the orders and the imports say of each other, with prices that the columns round. |
| `catalogue` | `MCBookshelf.cfg` | `TypeOK`, `ReadersAreCurrent`, `CardLeadsToBook`, `AuditChain`, `QueriesAreRight`, `DeletedIsFinal` | Readers behind the versioned cache and admins who create, translate, price, change and delete books: what readers are shown, what the lists of shop and admin count, and what the catalogue and its audit log say, in every order of their awaited steps. |
| `accounts` | `MCAccounts.cfg` | `TypeOK`, `LinksOfOwner`, `LimitsHold`, `DeadStaysDead`, `SpentLinks` | Three requests of every kind (register, login from two devices, refresh, logout, verify, resend, forgot, validate, reset, change of password) of two users, interleaved at every awaited statement with the e-mail worker over the clock: what a delivered link can do and for whom, the limits on devices, codes and mails, and that a session that ended does not come back. |
| `mail` | `MCMail.cfg` | `LinksMatchCodes`, `MailSettles` | Two requests of one user with two failing calls, retries and stalled jobs: that the link that was delivered is the one of its code, and that a queued mail does not wait forever. |
| `seed` | `MCSeed.cfg` | `TypeOK`, `AccessConverges`, `RowsAreFoundAgain`, `SellableIsBacked`, `DecidedOnRecentGrants` | The database seed statement by statement, killed in front of any of them and started again, while guards ask for permissions and an admin grants one: what a run that gets to its end leaves behind, what is for sale at any moment, and whom the cached permissions let through. |
| `shopping` | `MCShopping.cfg` | `TypeOK`, `OneOfEach`, `NothingInvented`, `MergeAddsUp`, `ConvertedStays`, `WishesAreOwn` | Three requests about carts, wishlists or addresses of a browser and its user, interleaved at every awaited statement, with a conversion and the nightly cleanup: how many carts and wishlists there are, what a merge does to the quantities, whose wishes a request takes, which sessions the cleanup takes, and which address is the default one. |

The runs `prices` to `claim_expiry` are of `MCBookStore`. Each run takes at most about two
minutes on two workers.

### Bounds and why they are enough

* Variants: one, and two in `prices`, where a cart may hold either or both. The
  properties about stock are per variant; `TypeOK` and `ItemsAddUp` are the ones that
  relate several.
* Orders: two in `checkout`, where they compete for one copy and one worker slot: that is
  the run of `NoOverReservation`. One in the payment runs, where the competition is between
  deliveries, polls and the admin; `LedgerSpec` is checked there because debits and
  compensations are where copies could go wrong. The theorems cover both together.
* Deliveries: two in `payment`, of one event, so that they are the same transfer delivered
  twice, concurrently or one after the other, with the clock standing still; one in
  `late_payment`, with the clock. Two deliveries together with expiry are beyond a small
  run; the theorem `PaidOrdersAreBacked` covers them. Amounts 1, 2, 3 around a total of 2
  give shortfall, exact and overage.
* Clock: `OrderTTL = 3`, `IntentTTL = 2`, `MaxClock` 2 or 3. The cleanup cancels from
  time 2 on, an intent created at time 0 is expired at time 3, so each happens with and
  without the other. `claim_expiry` has `IntentTTL = 0`: an order is cancelled when it has
  really expired, so that what it shows does not depend on the early cut-off.
* `MaxFaults = 1`: each failing call alone, at every point; a second failure is needed
  by no branch of the code except a failing compensation, which is the same call
  failing after an interleaved delivery. `MaxStalls = 1` is BullMQ's default
  `maxStalledCount`.
* `Concurrency` is 1 in `checkout` so that jobs wait for each other, 2 elsewhere.
* Back office: three requests, of which two race and a third sees what they left, on a
  database with or without an old order; deliveries that are complete, short, empty, name
  an item twice, one of another order or one that does not exist. The admin who pages
  reads one list. `Grain = 2`, with an odd price: three copies at 99.5 cents less 12, which
  the columns keep as 88 each, and one of another variant at 5 are agreed at 268 and paid with 269.
* Catalogue: two admins, or one admin and two readers, and the readers of one behaviour ask
  for one page (`WithinBound` and the guards of `CatalogueVisits`). A page needs one reader to store it
  and one to be served, an update one admin to race either; two admins race for a slug, a
  key or an audit row. Three books, two categories, two languages, a page size of 2, so
  that lists have several pages; `ByIdsLimit` is 1, so that a keyword search which finds one
  book is shown whole and one which finds two is cut; titles that differ by their marks only.
* Accounts: `accounts` has three requests of any kind (a mail, the request that opens its
  link, and one in between; two logins and what comes after) and two addresses, one of
  them registered, two fingerprints and `MaxDevices = 1`. `mail` has two requests, two
  failures, `MaxAttempts` and stalls so that a job fails, is retried and stalls. Quotas
  are small enough to be reached. All mails of an instance are of one day, as the code's
  window of 24 hours is longer than any of its deadlines.
* Shopper: three requests of one browser and one user, one variant, additions of 1, changes
  by 1 either way, 0 to 2 copies available. Three suffice for a guest's item, a user's item
  and their merge, or a cart, its assignment and what the user does next. The requests of a
  behaviour are all about carts, all about wishlists or all about addresses (`Alike`), which
  have only the guest session in common. The clock has two values, so a session is inactive
  one unit after it was seen.
* Seed: two runs, the first of which may be killed anywhere; two categories (parent and
  child), books 0 (not for sale) and 7 (two formats), one role, one guard, one grant, a
  cache that lives one unit of a clock of three values. With `busy` false the seed is alone
  and what it leaves is compared exactly.
* `CHECK_DEADLOCK FALSE`: requests, deliveries and runs of an instance are finite.

Symmetry is used for deliveries in `payment` and for requests in `accounts`, `shopping` and
`back_office`, never with liveness.

## 5. Fairness

`Fairness` is weak fairness of the steps of a request that has started (Node runs a
handler to its end), of the worker's steps (BullMQ takes waiting jobs while the process
is up), of the cleanup cron, and of the steps of a webhook handler. There is none for
customers, admins, SePay, polling clients, the clock or failures. Each member of a
`Promise.all` is enabled until it is done, so weak fairness of their disjunction ends
them all; a job may be delayed by others but every running job ends, so weak fairness
of taking a job suffices with the finitely many orders of an instance.

In `Identity` only the e-mail worker is fair (`FairSpec`), step by step and per job. The
other compositions state safety only.

## 6. Proofs

| Theorem | Module | Says |
|---|---|---|
| `TypeInvariant` | `BookStoreProofs` | `Spec => []TypeOK` |
| `ImplementsLedger` | `BookStoreProofs` | `Spec => LedgerSpec` |
| `NeverOverReserved` | `BookStoreProofs` | `Spec => []NoOverReservation` |
| `PaidOrdersAreBacked` | `OrderProofs` | `Spec => []PaidIsBacked` |
| `CheckoutReservesOnce` | `OrderProofs` | `Spec => []ReservesOnce` |
| `ItemsAlwaysAddUp` | `OrderProofs` | `Spec => []ItemsAddUp` |
| `SettledEventsAreRecorded` | `OrderProofs` | `Spec => []SettledIsRecorded` |
| `IdentityTyped` | `IdentityProofs` | `Spec => []TypeOK` of `Identity` |
| `SessionsStayDead` | `IdentityProofs` | `Spec => DeadStaysDead` |
| `DeliveredLinksMatch` | `IdentityProofs` | `Spec => []LinksMatchCodes` |
| `OnlyOwnersUseLinks` | `IdentityProofs` | `Spec => []LinksOfOwner` |
| `SpentLinksStaySpent` | `IdentityProofs` | `Spec => SpentLinks` |
| `LimitsAreKept` | `IdentityProofs` | `Spec => []LimitsHold` |
| `ShoppingTyped` | `ShoppingProofs` | `Spec => []TypeOK` of `Shopping` |
| `ConvertedSessionsStay` | `ShoppingProofs` | `Spec => ConvertedStays` |
| `OnlyShoppersUnwish` | `ShoppingProofs` | `Spec => WishesAreOwn` |
| `OneOfEachKept` | `ShoppingProofs` | `Spec => []OneOfEach` |
| `MergesAddUp` | `ShoppingProofs` | `Spec => MergeAddsUp` |
| `GuardsDecideOnRecentGrants` | `SeedProofs` | `Spec => DecidedOnRecentGrants` |
| `RunsConverge` | `SeedProofs` | `Spec => []AccessConverges` |
| `BackOfficeTyped` | `BackOfficeProofs` | `Spec => []TypeOK` of `BackOffice` |
| `StockOnlyImported` | `BackOfficeProofs` | `Spec => []StockIsImported` |
| `FullDeliveriesCostTheOrder` | `BackOfficeProofs` | `Spec => []FullDeliveryCostsTheOrder` |
| `PagesMissNothing` | `BackOfficeProofs` | `Spec => []PagesShowAll` |
| `DecisionsStand` | `BackOfficeProofs` | `Spec => DecisionStands` |
| `ShelfTyped` | `ShelfProofs` | `Spec => []TypeOK` of `Bookshelf` |
| `CardsLeadToBooks` | `ShelfProofs` | `Spec => []CardLeadsToBook` |
| `QueriesComeOutRight` | `ShelfProofs` | `Spec => []QueriesAreRight` |
| `ReadersStayCurrent` | `ShelfProofs` | `Spec => []ReadersAreCurrent` |
| `AuditsTellTheStory` | `ShelfProofs` | `Spec => []AuditChain` |
| `DeletedStays` | `ShelfProofs` | `Spec => DeletedIsFinal` |

They hold for every value of the constants under the named assumptions of the modules
(`ConstantTypes`, `CheckoutConstants`, `DeskConstants`, `HooksConstants`,
`AccountConstants`, `SessionConstants`, `VerificationConstants`, `ShopConstants`,
`CartConstants`, `PurchasingConstants`, `CatalogueConstants`, `VisitConstants`,
`AccessConstants`, `SeedConstants`, `BodyTypes`: types and
inclusions, finitely many requests, variants and device fingerprints, at least one code; `InitialTables`: the
catalogue begins with books that nobody has deleted or revised, as the seed leaves them;
`InitialKeys`: these books keep the keys of their tables, and every category follows its parent;
`SlugKeys`: their slugs are there and differ, and so do the decimal digits of the suffixes that
may be needed; numbers are turned into digits by a built-in of which the prover knows nothing). TLC evaluates each of them in every run of its module.

* *Sums.* An order total, the stock of a variant and the amount of a purchase order are
  folds. The induction theorems of the library take an operator as a parameter, which no
  installed prover instantiates; `SumFacts` does without them. `AllNumbers` and
  `AllSubsets` state induction for a *set* instead of a predicate, from the least element
  of a set of numbers (`WFMin`). `FoldExists` and `FoldUnique` show that the function a
  fold chooses exists and is the only one, `FoldIsSum` that the order in which it takes
  the elements does not matter. From these: sums are integers, grow with their terms,
  grow by the term that is added, and agree when their terms match one to one.
* *Types.* `TypeOK` alone is not inductive: a handler that goes on to mark an order or
  to debit stock uses `Target(d)`, which must not be `NULL`. `HandlerInv` adds that
  handlers beyond the lookup that need an order have one. `TypeInv` is their
  conjunction; the proof has one lemma per component and one step per action.
* *Stock.* `StockStatements` shows that each step of the system does one of five things
  to `book_variants`: nothing, the reserving UPDATE, a debit or credit of both columns
  alike, giving back in the cleanup, or an import. `LedgerStep` maps each to a step of
  the ledger, a stutter or one of its two named exceptions. `NoOverReservation` is inductive relative to `TypeInv`, and
  needs no more: it is what the condition in the UPDATE is for.
* *Payments.* `PaidIsBacked` is not inductive: a handler acts on a verdict it reached
  earlier, the polling endpoint on an intent it read earlier. `PaymentInv` adds that an
  order's request has neither intent nor deliveries that found it before it is created
  (`FreshInv`), intents belong to orders (`IntentInv`), a poll under way saw a backed
  order (`PollInv`), deliveries save once (`UnsavedInv`), which verdicts reach which
  calls (`VerdictInv`), and that whoever is about to mark something as paid has a
  covering transfer on record (`CoverInv`). `MarkOrderAndPaymentSuccess` sets *all*
  transactions of the order to SUCCESS, also those that were short, which is why the
  property is about amounts and not about transaction statuses.

* *Reservations.* `ReservesOnce` counts how often a request has reserved (`grants`), and
  is inductive only with what each step says about it. `Granted` adds: nothing before the
  fallback; from the order row on, `isError` and one reservation go together, as long as
  the job has not been run again; the job's step `reserve` is reached without `isError`.
  `RequestMove` lists how any step of the system changes a request, so that the proof has
  one case per way and not one per action of the other components.
* *Items.* `ItemsInv`: what an order adds up to is computed from its request, which keeps
  quantities and prices from the moment they were read, and a job that
  runs again adds the same batch again. No property of sums is needed but that both sides
  are the same sum.
* *Events.* `RecordInv`: a handler past its save has its transfer on record or its order
  deleted (`Kept`), nothing is saved before the save, a transfer belongs to the order its
  event names, and *every settled event has a handler that kept its transfer*. The witness
  matters: another delivery of the event may have saved, crashed and been repeated.
* *Accounts.* `TypeOK` of `Identity` needs `TokenInv`: a logout whose revocation is still
  to come has a token. `KindInv` says which endpoint may be at which step and which calls
  of a `Promise.all` are open there. `CallMove` lists how any step changes a request.
* *Sessions.* `SessionInv`: before its insert the row of a request does not exist, and a
  request about to write a session by id found one that does. With it `SessionMove`
  shows that only a refresh at `rotate` writes ACTIVE over a dead session.
* *Mails.* `MailInv`: no job while the request is still making the code, no link out while
  the row is PENDING or the job is before its send. So when a job writes a hash, no link
  of this code is out, which is what `LinksMatchCodes` needs of retries and stalled jobs.
* *Owners.* `OpenInv` keeps what a request knows of the link it opened until it is done.
  `OwnerInv` names for each verified user, and each password, the request it is due to.
  `SpentLinks` follows from `OpenInv`: whoever finished has marked the code as used.
* *Limits.* Counting the devices of a user and saving a new one are separate statements, so
  `LimitsHold` gives credit for overlapping requests. To be inductive the credit must be
  given when it is used: `LimitInv` counts only overlapped requests that are past the
  statement (`PastDevice`, `PastCode`, `PastOutbox`), and adds that a request on its way
  there which has met nobody still finds what it counted, so that there is room for one row
  more (`DeviceInv`, `CodeInv`, `QuotaInv`). `PeersInv` says that rivals know of each other:
  when a request moves while another of its user is under way, both are overlapped, and the
  write of one pays for what the other counted. `RowInv` ties the rows of `mails` to the
  requests that write them. The counting itself is the lemma `Credit` of `SumFacts`.
* *Shopping.* `RequestInv` ties the step of a request to its endpoint and arguments;
  `RequestMove` lists how any step changes a request, and `Takes` from which rows it can
  take the one it works on. `ConvertedStays` needs only that what is converted exists
  (`GuestInv`), and that the cleanup adds nothing converted to what it will delete.
* *Wishlists.* `WishInv`: before its insert the list of a request is `Blank`; a request
  that has found its list works on a list of its shopper or on one that went with its
  guest session; and the request that inserts a list is past its insert as soon as
  another has found it, so a list that is gone is never inserted a second time under the
  same id. Without the last part a request that sleeps between finding and deleting could
  wake up on somebody else's list.
* *One of each.* Finding no cart and creating one are separate statements, so `OneOfEach`
  gives credit for overlapping requests, as `LimitsHold` does, and is made inductive in the
  same way: the credit counts only requests past their own insert. `CartInv` and `ListInv`
  say that a request which has met nobody and has found nothing would still find nothing,
  so that its insert is the first. Addresses are harder, because a request decides from what it
  has read who is the default, and its one transaction may delete that row and appoint
  another: `AddressInv` says that the rows a request has picked are its user's (`Placed`), and,
  as long as it has met nobody, that what it read still is so (`Knows`). `PeersInv` says that
  requests of one shopper which are under way together know of each other.
* *Merges.* `WorkInv`: the carts a request has found are its shopper's until it is done.
  `Writers` shows of every step that who changes what is in a cart has found that cart; so
  for a merge that met nobody, and carts that are nobody else's, `MergeInv` can say that
  what it read is what is there, until its one transaction puts the sum in place.

* *Grants.* `AccessInv`: a cache entry expires a lifetime after a moment `t` at which it was
  read, and since `t` the role has had what the entry says and nothing else for all of the
  time (`RightSince`); it holds as long as no guard let time pass between its read and its
  set (`slow`). `Gathered` says the same of what a guard has collected so far, and of the
  roles it has still to ask about, so a grant or a prune between its queries does no harm.
* *Seed.* A run is a position in a script. `AccessScripts` and `TheScript` show of the
  script, for any users, roles, topics and shelf, that it mentions everything, that roles and
  permissions come before what needs them (`PreparedAt`), and which statements directly
  follow which (`After`); lists are flattened with the lemmas on sequences of `SumFacts`.
  `ProgressInv` says how many statements are done and, of each kind that is, what it has left
  behind (`AccessDone`, `UsersDone`, `AddressesDone`). `SeedSteps` reduces the forty-eight
  actions of the seed to four ways, of which one executes the next statement.

* *Purchasing.* `BackInv` adds to the properties what a request has found out before it
  writes (`Informed`), that orders were added up from their items (`AddedUp`), and that
  the lines of an import are priced from items which nobody changes (`Lines`, `Paid`).
  `Moves` lists how a step changes each table. An import extends the sum of what was
  imported by one term (`SumExtended`), and the unique key lets no order be paid twice. For
  `FullDeliveryCostsTheOrder` the lines of a full delivery, each of which must name an item,
  are matched with the items (`FullMatch`, by counting), so the sum over the lines is one over
  the items (`SumMatched`). Each rounded price is at most half a cent from the exact one, so
  the sum over quantities is at most half a cent per copy from the exact sum (`SumScaled`,
  `SumNear`). The sum of the unit prices, which `RealPayPrice` compares with, is
  not larger (`SumMonotone`), because every item has at least one copy. `DecisionStands`
  rests on the part of `Informed` about decisions.

* *Catalogue.* `ShelfInv` has a part for each thing a request relies on after an `await`.
  `FreshInv` is the heart of the cache: a page of a book, stored or about to be, is at least
  as new as every reader under way with the same key expects, and, if its version is still
  the current one, as new as what was announced; except where the version was taken back.
  So a page that is computed before an update and stored after the bump is harmless, for it
  goes under a version that no later reader asks for. `VersionInv` says that nothing is
  announced that is not committed.
* *Keys.* `TypeOK` of `Bookshelf` is about references, unique ISBNs and the tree of categories.
  `createBook` makes sure of publisher, authors and categories in statements of their own and
  inserts the book later, so `KeysInv` has to say what a request on its way to the insert has
  already seen to (`PreparedInv`), and that no other request takes it away. A revision keeps the
  ISBNs it finds, and variants are created under ISBNs that are free and differ from each
  other (`FreeIsbns`).
* *Slugs.* `createBook` and `createBookTranslation` look for a free slug in a snapshot and insert
  later, and no key guards the slug. `ChosenInv` says that what a request has chosen is still free,
  or that a translation has been committed since, which the count of translations shows; so two
  books share a slug only where `fresh` says so (`UniqueInv`). That a free slug is always found
  among one more candidates than there are books is the pigeonhole lemma `OneIsFree`; there are
  never more books than were there at first and requests that created one (`CreatedInv`), which
  bounds the suffixes. `TextsInv` adds that an update replaces titles, never slugs.
* *Pages.* `WalkInv`: a row that was due and has not been seen is at a position beyond the pages
  that were turned. Inserts come first and only move it further back (`TablesGrow`); a page of
  one row shows the first position that is left (`OneRow`).
* *Queries.* `QueriesAreRight` compares what algorithms compute from the tables with what they
  should compute, so it needs of the states only that rows and titles are finite and a category
  is younger than its parent. A list is `Nth(S, R)` for an order `R` of its set, and
  `NthHasAll` says that it has every row, at the place its rank gives; `RowsOfPage` and
  `PageOfPlace` find each row on one of the pages that the total promises. The recommendations
  are ordered by fractions compared crosswise (`SharesAreOrdered`), and what the limit cuts off
  has a higher rank (`FirstAreBefore`). `RecursionExists`, from `AllNumbers`, makes sense of the two
  recursive functions, `Ancestors` and the levels of the tree; `TreeHasAll` finds a category that
  may be shown at the level that the number of its ancestors gives.
* *Deleted books.* `DeletedInv`: what a page shows was not deleted when its request began to
  query, whichever of its several queries found it, and a stored page lives only a lifetime
  longer. It has to speak of the result of each query between the awaits of one page.
* *Audit rows.* `SeenInv`: what `updateBook` and `deleteBook` read is what the book still is,
  unless the book has got a newer row. With it `HistoryInv` (`AuditChain` and that rows are
  about books there are) is inductive; `RowsAppended` shows that a new row comes last among
  those of its book and changes none of another. `BooksMove`, `AdminMove` and `Goes` list how
  a step changes the books, an admin's request and a reader's.

`ShelfInv` was checked on the run `catalogue`, `BackInv` and `Moves` on the run `back_office`,
and `WishInv` and `ListMove`, on which `OnlyShoppersUnwish` rests, on the run `shopping`, `TablesInv`
and `ProgressInv` on the run `seed`, and the invariants of `OneOfEachKept` and `MergesAddUp` on
instances of `shopping` with up to four requests: TLC was asked about them before the proofs
were begun. It refuted two earlier statements of `MergeAddsUp`, which did not exempt carts
that two shoppers share.

Only model-checked, and why:

* liveness (`MailSettles` and the three of `BookStore`): outside the prover's reach;
* `NothingInvented`: it compares the sum over all carts with what all requests asked for, while
  two requests hold quantities they read before the other wrote. `MergeAddsUp` covers the
  step at which copies could most easily be lost or doubled;
* `TypeOK` of `Seed`, `RowsAreFoundAgain`, `SellableIsBacked`: not proved yet; no other theorem
  rests on them, the invariants above carry the types they need.

## 7. Where documents and code disagree

Each has a run that must find the violation, and an entry under `findings`:

1. A checkout that Redis refuses still becomes an order: the error is thrown inside the
   `try` whose `catch` continues (`OutOfStockIsRejected`).
2. The expiry of an order returns its copies to `stock` as well as taking them from
   `reserved` (`order.repository.ts:212`), although a reservation never took them from `stock`:
   each expired order leaves as many copies too many as it held (`ExpiryLeavesStock`).
   `issue-inventory-integrity.html` describes the same.

Observed while modelling and visible in the models, without a run of their own:

* Cleanup: it compares `expiredAt` with an hour from now (`PAYMENT_INTENT_EXPIRES_IN_MS` is
  added, `order.repository.ts:187`), so an order is cancelled up to an hour before it has
  expired, while its payment intent is still valid. `order.service.ts:351` logs "order đã hết
  hạn" (orders that have expired) and `13-flowchart-diagram.html:381` says that the cron
  sweeps orders still pending past their time.
* Payments: when `updateOrderDone` fails, the compensation credits the copies, also when it
  was the debit that failed, and then there are more copies than before;
  every delivery of an event is processed again, because the upsert resets the
  status that the next line tests; a webhook that overtakes the worker marks the order
  paid and debits nothing; a late second delivery sets the intent of a paid order to
  EXPIRED; an admin's decision may overwrite a payment that arrived after its check; the
  order of a guest who pays by transfer never reserves copies; an overpaid transfer leaves
  the order pending until somebody polls; a counter that expires between `SET NX` and
  `DECRBY` comes back without a TTL and is never synchronised again.
* Shopper: a cart that a merge assigned to a user keeps its guest session: the next merge
  merges it with itself and deletes it, another user of the same browser who merges takes it
  over, and the cleanup of the session deletes it. An item that is new to a cart and a change of a quantity
  are compared with the stock, a merged sum is not; between the look and the write the stock
  may have gone. The successor of a deleted default
  address is updated by its id, also when it has been deleted meanwhile.
* Accounts: a password change leaves sessions alone; a failed mail is never sent again,
  because its retry finds a row that is not PENDING; a reset link may be used by requests
  that began before the first one marks it.
* Purchasing: a lacking copy is taken off the amount twice; a delivery may name items of
  another order, or an item twice, and its order may be pending or rejected. The total of an order is added up
  from prices as they were sent, the amount paid from prices as the columns round them: a
  hundred copies at 999 less 12.5 per cent are agreed at 87412.50 and paid with 87413.00.
* Catalogue: `deleteBook` bumps no version, and pages by slug, lists and the home page are
  never bumped; `updateVariantById` updates variants of any book but bumps the one in the
  path; a second initialisation of a version takes a bump back. A keyword page shows at most 20
  books, the default limit of `findBooksByIds`, while the request may ask for 100 and the
  total counts them all. The admin's list of books shows deleted ones and has a total of
  other rows, without an order by which its pages are cut
  (`production-readiness-review.html:338`: soft delete is enforced by hand on every query);
  his list of variants is paged by books and has a total of variants. Prices and variants of
  a deleted book may still change, through `updatePriceVariant` and updates of other books.
* Audit log: what changes variants without a row about their book is `updatePriceVariant`,
  stock imports, and an update that names variants of another book. The row of a deletion
  that was overtaken tells texts of an old snapshot.
* Access: no grant or prune invalidates the cached permissions of a role.
* Seed: a row that was created but not translated when the seed died is never found again;
  a variant that is in somebody else's purchase order ends the run in the middle.

## 8. Not modelled

`PROJECT.json` lists every component with its status. Left out for good:

* search and recommendations: calls to external vector and language models on which no
  state depends. `getRecommend` scores `user_events`, but nothing in the repository writes
  that table (`createViewBookEvent` and its siblings have no caller), so its answer is
  always empty;
* uploads (presigned URLs), the legacy payments module, health, configuration, guards and
  wrappers without state, mail templates;
* lists of orders, purchase details and snapshots that only read and have no cache, updates of a single row
  (languages, users, descriptions), the append-only audit log beyond its rows about books;
* the 60-second caches of `RoleService`, which are read by no guard, and the permission scan,
  which only logs;
* assets and specifications of books, and columns of answers that no property tells apart.

## 9. What is to be proved next

`TypeOK` of `Seed` and `SellableIsBacked`, which the positions in the script
(`ProgressInv`) bring within reach, with `RowsAreFoundAgain`; and `NothingInvented`, for
which the quantities that requests hold have to be counted with the carts.
