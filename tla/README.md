# RUOStack in TLA+

RUOStack is a platform on which brands sell products of one shared catalog. A
brand prepays into a wallet, its orders (typed in, or imported from its
WooCommerce store) reserve money from the wallet, the warehouse ships them
through ShipStation, and the wallet is debited when they ship. Stripe collects
top-ups and memberships. This directory models the API (`src/apps/api`) where
requests, webhooks and timers meet, and the screens of the two web front ends
and the store plugin where an answer can meet a state that has moved on.

The API is one Node process on one Postgres database (READ COMMITTED, Prisma).
Handlers and timers interleave wherever one of them awaits: a query, a
transaction, a call to Stripe, Supabase, a store or the mail server. A
transaction is atomic, but a handler usually reads outside of its transaction,
and the only locks are the advisory lock on a brand's wallet
(`lockBrandWallet`) and a few unique indexes and conditional updates. A screen
is cut at its requests: what it shows when a button is pressed, what the server
does, and what the answer changes. That is where the interesting behaviours
come from, and the models are cut there.

Contents: [inventory](#inventory), [modules](#modules-and-the-code),
[runs](#runs-bounds-and-fairness), [proofs](#proofs),
[divergences](#where-the-code-departs-from-its-own-comments),
[gaps](#known-gaps), [limits](#what-is-left-out), [plan](#plan).

## Inventory

| Part | State | Operations | Who acts on it | What makes it correct |
|---|---|---|---|---|
| Wallet ledger (`services/wallet.ts`) | `wallet_ledger`: append-only rows with a running balance and a unique external id; the brand's advisory lock | append (deposit, capture, claim credit, adjustment), balance, held sum | every part below that moves money | running balances add up, no overdraft, no external id twice |
| Orders and holds (`brand-orders.ts`, `order-edit.ts`, `admin-fulfillment.ts`, `shipstation-custom-store.ts`) | `order`: status, blocker, charge. A hold is implicit: an open order without a blocker | create, edit, cancel, ship by hand, shipnotify, deliver, heal | brand, administrators, ShipStation | debited once and only if shipped; reservations have money behind them; no status goes back; the `awaiting_funds` flag of a shipped order tells the truth |
| Store intake and No-Match (`store-intake.ts`, `store-remap.ts`) | orders with the SKUs that did not match | import, re-map | WooCommerce receiver, reconciliation worker, administrators | one order per store order; the right blocker |
| Shipping prices (`rate-quote.ts`, `rate-cache.ts`, `services/rates`, `Orders.tsx`, the plugin) | the cache of carrier rates; a quote per cart and service, with an expiry | quote, look up, sweep | order drawer, checkouts in stores, import, timer | an order is charged what was shown, for this very parcel |
| Claims (`claims.ts`) | `claim`, a second shipment is a copied order | open, triage, resolve (credit, reship, deny) | brand, administrators | one remedy per claim, credited or shipped once |
| Stripe and WooCommerce receivers (`webhook.ts`, `woo-webhook.ts`) | `webhook_event` | take in, dispatch, mark | senders, which redeliver | each event has its effect once, none is lost; a disabled store imports nothing |
| Reconciliation worker (`reconciliation.ts`) | attempts on events | list stuck events, dispatch again; archive old Stripe prices; scan for drift | timer | what got stuck is finished or dead-lettered; archived in time |
| Membership (`subscription.ts`, `dunning.ts`, `admin-brands.ts`) | `subscription_state`, its mirror on the brand | upsert, lapse sweep, dunning, grant | Stripe events, administrators, two timers | sweeps end only what is over, and do end it; mirror and row agree |
| Plan price (`plan-price.ts`, `admin-plans.ts`, `Plans.tsx`, `Account.tsx`) | `plan_price`: at most one active row per tier; prices and checkout sessions at Stripe | reprice: pending row, Stripe price, switch; deferred archive; checkout | administrators, worker, brand | the price shown is payable and is the one charged; open checkouts survive a switch |
| Plan registry (`plan-registry.ts`) | a cache, one query in flight, an epoch | read, invalidate | every request | no read from before an edit outlives it |
| Members and signup (`brand.ts`, `brand-members.ts`, `Team.tsx`) | members with role and status; accounts at Supabase | sign up, invite, change role, remove, restore | owners, visitor | no orphan accounts; who lost a role acts no more; a brand keeps an owner |
| Administrators (`admin-auth.ts`, `admin-users.ts`, `guards.ts`, `lib/api.ts`) | sessions with refresh tokens; role and status | log in, refresh, suspend, demote | administrators | suspension ends sessions; expiry is invisible |
| Store connection (`brand-store.ts`, `order-shipped.ts`, `woo.ts`, `Store.tsx`) | keys, webhook ids, status | connect, test, disconnect, tracking write-back | brand, ship path | both webhooks stand where the screen says so |
| Provisioning (`store-preflight.ts`, `ProvisioningWizard.tsx`) | records and aliases that tie the catalog to store products | preflight, commit | brand, who also edits the store | no duplicate products, nothing overwritten, recorded SKUs resolve |
| Catalog and stock push (`catalog-lifecycle.ts`, `admin-catalog.ts`, `catalog-stock.ts`, `Catalog.tsx`) | products; stock in every store | create, edit, publish, stock, archive, delete, in bulk; push | administrators | nothing unsellable stays on sale; history keeps its product |
| Catalog import and export (`catalog-import.ts`, `CatalogImport.tsx`) | the digest of what was previewed | preview, commit in chunks, retry, export | administrators | what was approved is what happens, and what the page says happened |
| Announcements (`admin-announcements.ts`, `notifications.ts`, `Announcements.tsx`) | broadcasts with audience and window | draft, publish, archive, delete, feed | administrators, brands | one rule of visibility; the last save stands |
| Inbox (`notifications.ts`, `NotificationBell.tsx`, `Notifications.tsx`) | receipts; the badge in the browser | poll, read, clear, mark all | brand | first time of reading is kept; the badge is right in the end |
| Onboarding (`onboarding.ts`, `onboarding.tsx`) | when a user finished the tour | show, advance, finish | brand | the tour is for the user who is signed in |
| ShipStation feed (`shipstation-custom-store.ts`) | `exportedAt` | paged export by `updatedAt` | ShipStation | every order to ship is exported |

Records that are edited one at a time (addresses, branding, customers),
read-only screens, reporting and the audit log, deployment and tooling complete
the system; `PROJECT.json` lists them with the reason why they are not modelled.

How the parts meet:

- **Through the ledger.** Everything that moves money calls `appendEntry`,
  which serialises the appends of one brand; two brands only meet in the unique
  index on the external id.
- **Through orders.** Every decision about money is "balance minus what open
  orders hold". Some callers decide under the wallet lock (create, import, the
  last step of an edit), others without it (ship, claims).
- **Through `webhook_event`.** Receivers and the worker share rows that nothing
  locks; what they dispatch has to be safe to repeat.
- **Through `subscription_state`.** Stripe events, administrators, the lapse
  sweep and dunning all end in one upsert that reads the status first.
- **Through two systems at once.** A signup writes Supabase and Postgres, a
  price change Stripe and Postgres, a connection, a provisioning or a stock push
  a WooCommerce store and Postgres. None of these pairs has a transaction; each
  has an order of writes, a compensation or a retry.
- **Through what a screen showed.** A digest, a version, a quoted price or a
  `seenAt` travels back with a request, and the server compares, or does not.

The hard behaviours are listed as hazards in `PROJECT.json`, each at its line,
with the properties that answer for it.

## Modules and the code

`Account` is an abstract specification; the others translate code. `map` in
`PROJECT.json` gives the lines of every definition.

### Account and LedgerAppend: the append protocol

`Account` says what prepaid wallets promise: keyed bookings that happen at most
once in the platform, adjustments, and no overdraft. It knows no locks and no
rows.

`LedgerAppend` is `appendEntry` statement by statement: take the advisory lock,
look the external id up, read the last balance (and throw if it does not
suffice), insert. `procs[p].pc` is the statement that comes next; `bal` is what
the process has read. Commit and rollback end the transaction and free the
lock; `Crash` does so at any point. The unique index is the condition in
`Insert`: a second brand, which holds another lock, can get in between the
look-up and the insert. `Promise == INSTANCE Account WITH ...` maps the running
balance of the last row to `balance`, and the external ids to `booked`.

### Wallet

The ledger of one brand as the other modules see it: `AppendEntry` is the whole
transaction, which is what `LedgerAppend` justifies. Idempotency keys are pairs
such as `<<"capture", o>>`.

### OrderFunds: orders and what they hold

Variables: `orders` (the table), `lock` (the advisory lock, held across awaits
only by an edit), `procs` (a request: its handler, its next await, and the
order *as it read it*), `funds` (balance and held sum as read outside the
lock).

- `Create` and `Import` decide and insert under the lock, in one transaction;
  each is one action (what they read before does not enter the decision). The
  address and the SKUs of an import are chosen freely.
- An edit is `EditRead` (status check, own reservation), `EditDecide` (takes the
  lock, computes the blocker with what was read) and `EditWrite` (unconditional
  update, commit). A re-map goes through the same two steps and then reads the
  blocker back (`RemapDecide`) and writes it (`RemapWrite`).
- A ship is `ShipRead`, `ReadBalance` and `ReadHeld` in either order,
  `ShipGate` (the conditional update; an administrator without funds is
  refused instead, `ShipRefused`), `Capture` or `CaptureThrows`, and for a
  shipnotify `FlagCapture`.
- A cancel, a delivery and a heal are a read and a write.
- `Fail` loses a request at any await; what it committed stays.

`ShipRead` guards on an open order: the other path of `handleShipnotify` only
refreshes the tracking number.

### Claims

`claims`, `reships` (the copied orders, which hold money like any order) and
`clerks` (the requests). A resolution reads the claim (`ResolveRead`), then appends the credit
in a transaction of its own (`Credit`) or looks the money of a charged second
shipment up without the lock (`Price`), then runs the resolving transaction
(`Gate`), which flips the claim conditionally and creates the second shipment.
`getWalletSummary` is read in one step here; OrderFunds reads it in two. Triage
(`TriageRead`, `TriageWrite`) updates the status unconditionally.
`LoseRequest` ends a request at an await, and the administrator may try again with another remedy or amount.

### Webhooks

`rows` is `webhook_event` by event, `arrived` its order by `createdAt`, `aged`
the events older than the worker's grace of two minutes, `answer` whether the
sender got its 2xx. A sender delivers until it does: redeliveries, lost answers
and overlapping deliveries are behaviours of `Deliver` and `MarkDelivery`. A
handler persists the event, or finds it (`Lookup`) and acknowledges it if it was
processed; `Dispatch` has the effect of its kind (a top-up is booked in
`Wallet`, a subscription event overwrites `sub`, an order is imported), `Audit`
is the await after it, `Throw` fails either, and `MarkDelivery` or `MarkRetry`
counts the attempt unconditionally. The worker lists stuck events once (`Tick`)
and takes them one by one (`Take`). `Restart` forgets every handler and run.
`Disable` stands for an administrator who sets the status in the database: no
code under `src/` does, though four places read it.

`attempts` saturates at `MaxAttempts`, beyond which nothing tells it apart.

### Subscription

`today` is a day, `row` the `subscription_state` of one brand, `mirror` the
status on the brand. An upsert is `UpsertRead` (the status, for the dunning
dates) and `UpsertWrite` (row and mirror in one transaction). `Event` and
`Grant` start one; so does each sweep for the membership it listed
(`LapseList`, `DunningList`), when its turn comes. `Notify` stamps the notice;
the e-mail itself leaves no state. Tiers are reduced to a free and a paid one.
A day passes when nothing is in flight: the sweeps run every hour, and no
request lasts a day.

### PlanRegistry and PlanPrice

`PlanRegistry`: `table` is a version of the tables, which a committed edit
increases; `cache`, `inFlight` and `epoch` are the module variables of
`plan-registry.ts`. A call hits the cache, reads with the client of a
transaction, joins the query in flight, or starts one. `Load` is the moment
the database reads, `Deliver` the continuation: it caches the answer unless
the epoch has moved. `CommitEdit` and `Invalidate` are two steps, with anything
in between. `settled` remembers the version of the last invalidation.

`PlanPrice`: `rows` is `plan_price` of one tier, `stripe` the prices at Stripe,
with what each was keyed by, so that a repeated create finds its first answer.
An administrator goes from the dialog to the response: `Guard`, `FindPending`
or `InsertPending`, `CreatePrice`, `SwitchRead` and `SwitchWrite` (the
transaction, at READ COMMITTED), `InvalidateRegistry`; any await may fail. A
brand loads the page, chooses what it shows, gets a checkout session or
`PRICE_CHANGED`, pays within the life of a session, and is activated. The
worker lists what is due for archiving and goes through it.

### Team, AdminAccess, Onboarding

`Team` writes two systems: `account` is Supabase, `member` Postgres. A request
carries what it has read in `seen`; `Admit` is the guard that reads the live
row, `UndoAccount` the compensation, `Die` and `UndoFails` what it cannot
undo. `AdminAccess` has the sessions of one administrator in the order they
were issued, the tokens of his browser, and the requests of his screens with
their one retry after a refresh (`lib/api.ts`). `Onboarding` is one browser tab
where users change: the reads of `/me` and the completions are in flight when
they do.

### StoreConnection, StoreProvision

`StoreConnection`: `connection` is the row, `hooks` what is registered at the
store; connect registers two webhooks and then saves, disconnect deletes them
and then the row; a screen follows its request. `StoreProvision`: `shop` is the
store with its owner at work, `record` and `alias` what the database keeps. A
wizard preflights (`Classify` each product), chooses, and commits in three
passes, each of which writes to the store first and to the database afterwards.

### CatalogLifecycle, CatalogScreen, CatalogImport

`CatalogLifecycle` serves one administrator request at a time per
administrator: single and bulk actions read an item, write it, then push its
availability to every store that records it. `missed` remembers the pushes a
store did not get. `CatalogScreen` adds the list that is shown, what is ticked
on it, the drawer, and loads on their way. `CatalogImport` adds the page of the
importer: what is previewed (rows and digest), confirmed, and committed in
chunks that fall back to row by row.

### Announcements, Inbox

`Announcements`: the table with audience, window and status, the screens of its
authors, their requests cut at read and write. Who sees a row is asked of
three definitions, as the code has three: `IsAnnouncementVisible` (shared
package), the filter of the feed, the policy of the database. `Inbox` adds the
receipts, the badge and the panel, the page, and all that is in flight between
them; what the user presses is answered in the browser before the server is.

### ShippingQuotes

Offers are functions from services to cents. `request` is a set of four kinds of
request. `Carrier` reads the cache or asks the carriers (who may not answer: the
flat estimate), and later steps price the result with the fee and rules as they
are then. Without a choice the first offer counts, which is the cheapest, as
`getRates` sorts them; an order of services that the rules may give instead is
not modelled. The drawer takes no answer but the last one it asked for; a
checkout deletes the earlier rows of its cart and keeps its own, one for each
service, in two steps; an import looks for the newest row of the service, and
computes anew if there is none. `kept` holds the rows by cart as `Hash` tells
carts apart, `Key` is what the cache goes by.

### MC modules

`MCLedgerAppend`, `MCOrderFunds`, `MCAccounts` (claims, events, memberships,
shipping prices), `MCLive` (what must happen in the end), `MCPlatform` (plans,
broadcasts, people, sessions) and `MCShop` (catalog, provisioning, connection)
give values to the constants. A behaviour also follows a *scenario* chosen at
its start, which says which of the components moves and how its requests meet:
in any way, one at a time, or only of some kinds. That is how one run checks a
property where the code gives it (what holds when requests do not overlap) and
another where it should (what holds always), and how components that share no
state share a run.

## Runs, bounds and fairness

Passing runs:

| Run | Scenarios | Shows |
|---|---|---|
| `ledger_append` | 2 brands, 3 processes; one key that both brands claim, a capture, an adjustment | `LedgerSound`; `ImplementsAccount` (refinement); `AppendsFinish` |
| `order_funds` | `any`: 1 order, 2 requests of any kind that overlap and die anywhere; `queue`: 2 orders that compete for a top-up, one request after the other; `shipnotify`: shipnotifies that race | `CaptureOnce`, `CaptureImpliesShipped`, `StatusOnlyForward`; `QueueIsBacked`; `FlagIsTrue`, `KeepsReservation` |
| `accounts` | `resolutions`, `queue`: 2 claims, 2 requests, 2 amounts; `events`: a top-up and an order, 2 deliveries and the worker, a restart; `membership`: 2 upserts, sweeps or grants at once; `drawer`, `checkout`: 2 requests, 3 carts, changing rates, fees and rules | `PaidOnce`, `RemedyGiven`, `ResolvedIsFinal`, `QueueIsBacked`; `NothingLost`; `MembershipAgrees`; `PriceIsHonoured` |
| `live` | `events`: 2 events, a batch of 1; `membership`: 6 days, graces of 1 and 2 days; `bell`, `page`: 2 broadcasts, a browser | `EventuallySettled`; `RowCatchesUp`, `GraceEnds`; `InboxSettles` |
| `platform` | `registry`: 3 callers, 2 editors, 2 edits; `race`, `days`: 2 administrators, 1 brand, 3 price rows, 5 days; `desks`: 2 authors, 2 broadcasts; `team`, `owners`: 4 people, 4 requests; `clerk`, `suspension`: 3 sessions, 2 requests; `tour`: 2 users in one tab | `ReadsAreFresh`; `OfferIsHonoured`, `ArchivedInTime`; `OneRule`, `BroadcastStands`; `NoOrphanAccount`, `AccessIsCurrent`; `TourForTheRightUser` |
| `shop` | `requests`, `clicks`: 2 products, 1 store, single and bulk actions, from the API or the screen; `import`: files of 1 or 2 lines beside another administrator; `shop`, `tabs`: 1 or 2 wizards, 2 products, a brand that edits its store; `screens`, `screen`: 2 store screens, 2 connections, 2 faults | `NoUnsellableOnSale`, `HistoryStands`, `BulkReaches`; `ImportIsTrue`; `ShopIsRespected`, `RecordedSkuResolves`; `HooksAreTrue` |

Each but `live` also checks its type invariants. Six more runs
(`order_edit_race`, `claims_triage`, `webhooks_replay`, `subscription_sweep`,
`plan_price_race`, `team_owners`) check a statement that a comment makes and
that the code does not keep; TLC finds a counterexample, see below.

What a property says is conditional where the code only promises it so, and the
condition is in its name or its comment: `QueueIsBacked` and `KeepsReservation`
speak of requests that do not overlap (the overlapping ones are known gaps),
`NoneStray` in `HooksAreTrue` of one screen at a time, `RenewalIsInvisible` of
one request at a time.

Why the bounds are enough. Two requests make every check-then-act race, and a
third slot in the ledger lets two brands race for a key while one of them waits
for its own lock. One order suffices for what is said of an order by itself;
reservations need two, which is also what it takes to reserve the same money
twice. Prices 1 and 2 with top-ups of 2 or 3 give every outcome of a comparison:
enough for one, for both, for none, and for one only after an edit. Claims need
a second amount for a retry that changes its mind. Two events are what it takes
to overtake, and a batch of one is a full batch. In `live` the two graces
differ, as 3 and 7 days do, and the days go on until both have run out after the
last event. Of the registry's callers one queries, one joins, and one begins
after the invalidation; two editors overlap. Three price rows are the current
one, one that replaces it and one that reverts it. Of the 4 people one founds
the brand, two are invited, and one belongs to another brand. Two products are
what a bulk action and a SKU clash take; a file of two lines has a chunk that
fails in part and a SKU that occurs twice. Bounds in the configurations that
count (`MaxVisits`, `MaxCalls`, `MaxPresses`, `MaxEdits`, `MaxFaults` and the
like) end behaviours, not single operations; each is commented where it is
declared.

Deadlock checking is off where the bounded system has nothing left to do: every
claim resolved, every event answered, the last day over, the last request spent.

Fairness, where liveness is checked:

- `LedgerAppend`: a transaction that holds the lock goes on (weak fairness),
  and Postgres grants a contended advisory lock in turn (strong fairness on
  `TakeLock`): waiters of one lock queue up.
- Events: only time (`Age`) and the worker, whose timer goes on firing, are
  fair. Nothing is assumed of senders or of handlers, which may hang for ever.
  `Throw` is one of the worker's steps: an event whose attempts all fail is
  settled by running out of them.
- Memberships: days go by, the timers fire again and again, and what began goes
  on. A sweep is strongly fair because `Writers` is a bound of the model: in the
  program a timer never waits for a free slot. Failures are off here.
- The bell: the browser's timer polls, and what was sent is served and answered,
  possibly with an error. Nothing is assumed of the user or of the operator.

## Proofs

Eight modules hold the theorems. TLAPS checks them for all values of the
constants that meet the assumptions below.

| Module | Theorem | States |
|---|---|---|
| `LedgerAppendProofs` | `LedgerIsSound` | running balances add up and are never negative |
| | `NoDoubleBooking` | no external id is booked twice, across brands |
| | `Refinement` | `LedgerAppend` implements `Account` |
| | `AppendTypes` | rows, processes and locks keep their types |
| `OrderFundsProofs` | `CapturedAtMostOnce`, `OnlyShippedIsCaptured` | an order is debited at most once, and only once it shipped |
| | `OneShips` | one request gets past the ship gate of an order |
| | `NeverBack` | no request takes an order back to an earlier status |
| | `ReservationsAreBacked` | one request after the other: the balance covers what open orders hold |
| | `FlagTells` | a shipped order says whether it was paid |
| | `ReservationStays` | an order loses its reservation only when it becomes dearer |
| | `FundsTyped` | orders, requests and what they read keep their types |
| `ClaimsProofs` | `CreditsAreSafe` | a claim is credited at most once, and if it says so |
| | `OneRemedy` | without triage in between: no orphan shipment, a resolved claim is final |
| | `ReshipsAreBacked` | one request at a time: the balance covers second shipments |
| `AccountsProofs` | `DepositedOnce`, `NoEventLost`, `WebhooksTyped` | of the event table by itself |
| | `AccountPaidOnce`, `AccountNothingLost`, `AccountRemedyGiven`, `AccountResolvedIsFinal`, `AccountQueueIsBacked` | of claims and events that book in one ledger |
| | `AccountMembershipAgrees` | mirror, dates and status of the membership agree |
| | `AccountPriceIsHonoured` | what was shown for shipping is what it costs |
| | `AccountTyped` | all parts of the account keep their types |
| `PlatformProofs` | `RegistryIsFresh` | a read of the plan registry is not older than the invalidation before it |
| | `PlatformOfferIsHonoured`, `PlatformArchivesInTime` | an offered price is payable and the one charged; it outlives its sessions and is archived in time |
| | `PlatformOneRule`, `PlatformBroadcastStands` | three rules of visibility agree; the last save of a broadcast stands |
| | `PlatformNoOrphanAccount`, `PlatformAccessIsCurrent` | no orphan accounts; who was demoted or suspended acts no more |
| | `PlatformTourForTheRightUser` | the tour is for the user who is signed in |
| | `PlatformTyped` | all parts of the platform keep their types and bounds |
| `ShopProofs` | `NothingUnsellable` | no store sells what is not to be sold, unless a push to it failed |
| | `HistoryHeld`, `BulkDone` | SKUs and rows that history refers to stay; a bulk request reaches all it names |
| | `ImportHonest` | an import starts on what was approved, and its result is true |
| | `HooksTrue` | saved webhooks are at the store; none is left of a connection that is gone |
| | `Respected`, `Resolving` | a commit writes only what is the program's, nothing twice; a recorded SKU resolves |
| | `ShopTyped`, `LinkTyped`, `ProvisionTyped`, `ShopIsTyped` | catalog, connection and provisioning keep their types |

`WalletProofs` and `PriceProofs` hold what these rest on. With them every
invariant and action property of the runs `order_funds`, `accounts`, `platform`
and `shop`, and the safety of `ledger_append`, hold for every instance, and not
only for the one TLC explores.

### Assumptions

They are stated where the constants are declared, and TLC evaluates them in every
run. They say what a constant *is*: charges and bookable amounts are naturals
(`ChargesAssumption`, `ClaimAmountsAssumption`, `LimitsAssumption`), days and
bounds are naturals, `Never`, `Unread`, `NoKey`, `NoProc`, `Nobody`, `Missing`,
`Nothing`, `None` and the like are not what they stand in for
(`CatalogAssumption`, `ConnectionAssumption`, `RowAssumption`,
`NoRecordAssumption`), the operator of the screens is an administrator
(`OperatorAssumption`), the files are lists of lines (`FilesAssumption`), and the
catalog is finite and names none of the SKUs the brand makes itself
(`ProvisionAssumption`: a canonical SKU is unique). Four say more. `PriceAssumption`: a session
lives less long than the archive is deferred (24 and 48 hours in the code), and
the table has room for the row that is seeded. `DaysAssumption`: the days end
after the last event. `QuotesAssumption`: the carriers have some answer for
every parcel and destination a cart can have. `RequestsAssumption`: requests of
the ledger are what their type says.

Four hypotheses are in the theorems themselves: `"triage" \notin Scenarios` for
what a triage is known to break (run `claims_triage`);
`Deferral + MaxFailures <= Lookback` for archiving, because the worker gives up on
a price once it failed to archive it on all the days between the deferral (two days
in the code) and the end of the lookback (thirty); `TopUpAmount \in Nat`, where reservations are
concerned, because no deposit takes money out; and `Admins = {Operator}` for
`NothingUnsellable`, `HistoryHeld` and `BulkDone`, which the code promises only of
administrators whose requests do not overlap. The operator of that theorem still
has any number of requests, from the API or from any screens, while brands stock
and order and stores fail; `ImportHonest` and the types hold for any number of
administrators.

### Arguments

*The ledger.* `LedgerSound` is not inductive: an insert computes from `bal`,
which was read two steps before. `IInv` adds `HoldsLock` (a process past the
lock holds it, so it is alone in its brand) and `ReadIsCurrent` (what it read is
still the balance, and suffices). With these `Insert` extends the ledger by a
sound row, and the other steps do not touch it. `BookedOnce` only needs the
index check in `Insert`. For the refinement an insert maps to `Book` or
`Adjust`, and everything else stutters: `IInv` gives that the balance it adds to
is the abstract one.

*The wallet and its sums.* `WalletProofs` says what an append leaves (a new row,
or nothing for a replay, or for a throw), and that the held sum, a fold over the
open orders, moves with the one order that changed. That a sum over a finite set
is what it should be is proved without an induction rule: were it false for some
set, it would be for a smallest one, which is well-founded because strict subsets
of a finite set are.

*The orders.* `CaptureImpliesShipped` is not inductive either: a request at
`capture` shipped its order some steps ago. `StaysShipped` says that it still
is; that follows because cancel and ship are conditional on an open order, and
nothing else writes the status except a delivery, which also starts from
`StaysShipped`. `CaptureOnce` needs that a capture is only appended under a key
that is not booked. The lemmas `StatusMoves`, `RequestMoves` and `LedgerMoves`
say once what a step can do to the three parts of the state. `NeverBack` is
read off the same invariant.

*Reservations.* That the balance covers what is held fails between the gate of a
ship, which releases the reservation, and its capture; and whether it holds
afterwards depends on what a request read earlier. `QueueInv` says what a request
that is alone relies on: that its order is still open, that its own reservation is
what it subtracts, that balance and held sum, once read, are current, and that an
edit decided its blocker with these. `Backed` is the property where nobody is at
`capture`. `FlagInv` says of a shipped order that its flag is right or that a
request past the gate will see to it; it needs `WaysInv`, that no heal and no
other ship path is about. These invariants were model-checked on `order_funds`
before they were proved, which is how the clauses of `Relies` were found.

*Claims.* A credit is appended in a transaction of its own, before the claim is
flipped. `BookedAtGate` says that whoever got to the gate with a credit has it in the
ledger, so `CreditedIsBooked` survives the flip. The key is the claim, so two
credits of one claim are one row. `NoOrphanReship` needs `TriageIsFresh`: a
triage that is about to write has read the claim as it is. A resolution in
between breaks that, which is the finding of `claims_triage`; hence `SerialInv`
is about triages that are alone. `CoveredAtGate` carries the look at the money to
the transaction that creates the shipment.

*Events.* `WorksOnRows` (past the insert there is a row, so `MarkRetry` and the
worker work on something) and `AppliedAtEnd` (who is to record a success has
applied the event) make `NothingLost` inductive.

*The account.* `AccountInv` puts these and the membership side by side. Claims
and events write to one ledger, so the invariants of the one must survive
appends of the other: a scenario moves one of them, and for the other
`NoClaims` or `NoEvents` says that it is as it was at the start. Of the
membership, `SubscriptionTypeOK`, `MirrorAgrees` and `RecoveryClears` are
inductive together, as row and mirror are written in one transaction.

*Shipping prices.* The drawer shows what its form holds because the one answer it
waits for was asked for that cart (`DrawerInv`). `ChargedAsQuoted` speaks of
checkouts that no other checkout of the cart crosses. `OfferInv` says that what is
kept of a cart is what its last checkout showed, and of a checkout that is past
its delete that nothing is kept: if none crossed it, its own rows are then the
only ones. `RatesInv` says that an entry of the cache is an answer for the very
parcel and destination its key stands for.

*The registry.* `ReadsAreFresh` needs `CacheIsFresh` (a query of the current
epoch has read something at least as new as the last invalidation, whether it
is still to be cached or was cached; the query that others may join is of the
current epoch) and `WaitersAreServed` (who waits, waits for a query that will
not return anything older than what was settled when the wait began). An
invalidation starts an epoch that no query in flight belongs to, which is what
makes the first part hold; it also clears `inFlight`, which is what lets the
second part survive a call that begins afterwards.

*The plan price.* `PriceInv` says that one row is on offer (`OneOffer`), that the
price it names is at Stripe, has its cents and was made for it (`Keyed`), and
that what the worker has archived or is about to was retired long enough ago
(`OnlyRetired`), so no open session is on it, and a brand pays what it was shown.
`TimelyInv` counts for archiving: a price that is still alive has failed once for
every day the worker had. It rests on one administrator at a time where days pass
(`SoloInv`): of two who switch at once, one can bring back a row that the other
retired. The bound
on the rows is a pigeonhole: every price at Stripe was made for a row of its own.

*Members and sessions.* `TeamInv` says of every person what the request in
progress has read and written so far (`Fits`); that nobody acts without a live
role is then the guard that reads the row again. `AccessInv` says that what was
issued before the last suspension is revoked. `ClerkInv` adds, where requests do
not overlap, that the session of the browser lives or is being exchanged, and so
an expiry is never shown.

*Broadcasts and the tour.* `KeptInv` holds where requests do not overlap
(`StillAsRead`: what is about to be written was read from the row as it is).
`TourInv` says whom each read of `/me` on its way was asked for.

`PlatformInv` conjoins these with the conditions of their scenarios, and each
component's step leaves the others alone.

*The catalog.* A store may sell what is not to be sold only for as long as the
request that took it off is under way. `Known` says of the request what it has
read and written so far, so that what it still has to push is what the row says;
`Carried` says of every product that a store sells that it may be sold, or that
the store missed a push, or that the request is on its way to that store. A request that is to delete a product, or to change its SKU, has found that nobody
holds it, and nobody can come to while it is not published: that is what
`HistoryHeld` needs of `Known`. Where imports run nothing is for sale (`Unsold`),
so the scenario adds nothing to these three. `Reached` says which products of a
bulk request have an outcome already. The proof found a guard that the model
lacked: a create that had named nothing could check a product.

*The import.* What a commit writes is read off the rows it was given; the digest
says these are the previewed ones, and the preview says what the catalog held.
Of the result, `ImportShape` says that a line no longer to be written has an
outcome, and that the outcome is "created" or "updated" exactly if the line was
written (`Reported`).

*The connection.* `LinkInv` says of a screen that registers that what it has got
is at the store and not in the row yet, that no other screen registers the same
connection (`Apart`), and that the ids of the row are of its own connection. Where
one screen at a time is at work, every webhook at the store is in the row or
about to be (`AllTidy`); a disconnect therefore takes back all.

*Provisioning.* Between the classification of a commit and its writes the brand
may rename, delete and create, and another wizard may commit. What makes that
harmless is said of each operation still to be made: `Sane` (it writes only ids
that are claimed and exist), `Neat` (two wizards, of products that keep their
SKUs: it records under the canonical SKU a product made for it or by the brand)
and `Lone` (one wizard and one product at a time, while the brand edits: the
product it records is the only one made and recorded, and its SKU resolves). These
survive every step of the others, since ids are not given out again and a product
stays made for whom it was made (`SaneGrows`, `NeatGrows`). That a product is not
made twice by two wizards is the store's: it refuses a SKU that is taken.
`StoreInv`, `TabsInv` and `OneInv` were model-checked on `shop` first.

### Only model-checked

- Liveness: `AppendsFinish` and the run `live`. The prover has no rules for
  fairness of these steps (`ENABLED`).
- The six violation runs, which have nothing to prove.
- That `Wallet`'s one-step append is what `LedgerAppend` amounts to for one
  brand: argued above from `LedgerSound` and `NoDoubleBooking`, not proved.

## Where the code departs from its own comments

Checked by a run with a counterexample (`findings` in `PROJECT.json` quotes the
comments):

- `order_edit_race`: an edit checks the status before its transaction and
  updates without a condition, so an order that ships meanwhile is rewritten.
- `claims_triage`: a triage that read a claim before it was resolved reopens it,
  and it can be shipped a second time.
- `webhooks_replay`: a subscription event that got stuck is dispatched again
  after a newer one and overwrites it.
- `subscription_sweep`: a membership renewed after the lapse sweep listed it is
  expired all the same.
- `plan_price_race`: the count of subscribers inside of the switch takes no
  lock, so a membership activated after it and before the commit is on the price
  that the commit retires.
- `team_owners`: two owners who demote or remove each other at once both count
  two owners, and the brand has none.

## Known gaps

Behaviours of the code that the models show or that were met while writing
them, and that no property of a passing run rules out. Where a property is
named, it is violated when checked without the condition it has in the runs.

Money and orders:

- Two edits of one order that both read it as reserved both subtract its
  reservation (`order-edit.ts:102`): `ReservedBacked` with overlapping edits.
- Between the ship gate and the capture the money of an order is neither held
  nor debited (`shipstation-custom-store.ts:175`): `ReservedBacked` with a
  create in that window. A charged second shipment looks its money up without
  the lock (`claims.ts:48`): `ReshipBacked` with two resolutions.
- An administrator's shipment decides on availability it read before others were
  at it (`admin-fulfillment.ts:143`).
- The orders of a month are counted outside of the transaction that inserts the
  next one (`brand-orders.ts:50`), so that two reach a cap of one.
- After a re-map that resolves the last SKU the order keeps `needs_mapping`,
  because the edit inside saw the SKUs as they were (`store-remap.ts:51`). The
  loop over blocked orders stops at the first re-map that throws
  (`admin-aliases.ts:82`).
- A heal leaves the `awaiting_funds` flag of its order (`admin-ledger.ts:161`).
- A credit that was booked stays booked if its request dies, whatever remedy is
  chosen then (`claims.ts:32`). A brand may open several claims for one shipment
  (`brand-claims.ts:29`).
- The paged feed to ShipStation is ordered by `updatedAt`, so that an order that
  changes between two pages moves to another one
  (`shipstation-custom-store.ts:88`).

Events and memberships:

- The audit row of a deposit is lost if the process stops after the append: a
  retry finds a duplicate and skips the audit (`webhook.ts:142`). A top-up
  without a brand id is acknowledged without being booked (`webhook.ts:134`).
- The cancellation of an old Stripe subscription ends the one the brand has now
  (`webhook.ts:159`); the models have one subscription per brand.
- The worker overlaps a handler that is slow (`reconciliation.ts:107`), counts a
  late failed attempt on a settled event (`reconciliation.ts:119`), and imports
  a stuck order for a store that was disabled meanwhile
  (`reconciliation.ts:92`).
- Dunning has the race of the lapse sweep (`dunning.ts:63`), and a crash between
  a notice and its stamp repeats the notice (`dunning.ts:56`). A repeated
  failure that read `past_due` before a recovery leaves a past due row without a
  date, which dunning skips (`subscription.ts:58`).
- The lapse grace of 3 days also applies to past due rows, so it ends a
  membership before the dunning grace of 7 days if the paid-through date did
  not move (`subscription.ts:150`).
- Two first checkouts of a brand create two Stripe customers
  (`brand-billing.ts:80`).

Plans:

- A switch strands a checkout that is open on the old price: it is completed at
  that price (`plan-price.ts:200`; archiving is deferred for this reason).
- Two requests that switch to the same pending row leave it active with an
  `archivedAt`; two may also insert a pending row each for one price
  (`plan-price.ts:209`).
- The confirmation of a large change is about the price the dialog was opened
  with, and stays given after Back; the drawer sends the whole form, so it
  restores what another administrator changed meanwhile (`Plans.tsx`).
- The end of an old read of the registry clears the promise of a newer one
  (`plan-registry.ts:180`): the next call queries again.

Stores, provisioning, catalog:

- A disconnect while a connect registers its webhooks leaves them at the store,
  as does a crash between deleting the webhooks and the row
  (`brand-store.ts:340`): `NoStrayHooks` with two screens.
- A tracking write-back, or a test of the keys, makes a connection active that
  an administrator disabled (`order-shipped.ts:28`, `brand-store.ts:169`).
- A product that the brand renames between classification and update is
  overwritten; two commits with a rename between them make a second product; an
  alias outlives its product (`store-preflight.ts:131`).
- A product unarchived after a `set_stock` to in stock comes back in stock.
  Publishing again, and a status changed in the drawer, push nothing; an older
  push may arrive last; stores whose connection is in error get no second push
  (`catalog-stock.ts`).
- On the catalog screen overtaken loads may differ from the tab that is shown,
  and with them the export; a selection survives a reload, so that a bulk action
  reaches rows that are not visible (`Catalog.tsx:129`); the drawer saves the
  whole form.
- An import overwrites what changed between its digest check and its write; SKUs
  that differ in case pass the check for duplicates (`catalog-import.ts:117`).

Broadcasts, inbox, people:

- Two edits that overlap may leave the audience of the first beside the text of
  the second; a delete that races a publish removes a published row; a published
  row may be taken back to draft and deleted; publishing from an old list
  publishes edits that were not seen; a retry in the compose form leaves a
  second draft (`admin-announcements.ts`).
- Rows without a publication date come first in a feed that is "newest first"
  (`notifications.ts:52`); the badge under-counts until the next poll.
- Two owners demote or remove each other (`team_owners`); demoting a suspended
  owner counts as demoting one. The compensating delete of an account may fail,
  and a crash between account and rows blocks that address for good
  (`brand-members.ts:119`).
- Two requests that find the access token expired refresh with one token, and
  the second one is refused (`lib/api.ts:71`): `ExpiryIsTransparent` with two
  requests. A logout while a refresh is in flight restores the tokens; a refresh
  that overlaps a suspension issues a session that works again after
  reactivation; nothing keeps the last super_admin.
- An identity that changes from another tab while `/me` is in flight gives one
  user's answer to the other; overlapping completions of the tour overwrite the
  first time (`services/onboarding.ts:8`).

Shipping prices:

- Place may be pressed while new rates are fetched, so that an order is placed
  from a price that was shown for another destination; the order is priced
  anew by the server. A form that can no longer be quoted keeps the hint that
  rates are on their way.
- When a checkout falls back to the flat rate the earlier rows of its cart stay,
  and an import may charge them (`rate-quote.ts:39`); two checkouts of a cart
  that overlap keep both sets of rows, of which the import takes the newest; an
  import between the delete and the insert computes anew; of two misses of the
  rate cache the later answer stays.

## What is left out

- A commit whose outcome the client does not learn: a request either sees its
  transaction commit or it dies.
- In `queue` and `shipnotify` of `order_funds`, adjustments and heals (an
  administrator may take money that is reserved, by design) and lost requests (a
  shipment then stays unflagged, which the heal screen is for).
- Order contents: a charge and two Booleans in `OrderFunds`, a cart with a
  destination in `ShippingQuotes`; the markup a customer pays and the choice of
  boxes.
- Signatures, passwords, one-time codes, cryptography, rate limits and
  validation of input: the models start behind them. A refresh token does not
  expire in `AdminAccess`, and a login reads and issues in one step.
- The mapping of Stripe's event types, beyond the kinds that have an effect, and
  more than one Stripe subscription per brand.
- Product texts, images, e-mail texts, wording and layout of the screens; row
  security of the database, except the policy on announcements.

Not modelled at all: the ShipStation feed (pages over a moving order, described
above), addresses, branding and customers (records that nothing else depends
on), reporting and the audit log (read-only), deployment and tooling.

## Plan

Written so far, in this order: `Account`, `LedgerAppend`, `Wallet`,
`OrderFunds`, `Claims`, `Webhooks`, `Subscription`; then `PlanRegistry`,
`PlanPrice`, `StoreProvision`, `StoreConnection`, `CatalogLifecycle`,
`CatalogScreen`, `CatalogImport`, `Announcements`, `Inbox`, `Team`,
`AdminAccess`, `Onboarding`, `ShippingQuotes`. `OrderFunds`, `Claims` and
`Webhooks` are built on `Wallet`, which `LedgerAppend` justifies; `Inbox` on
`Announcements`; `CatalogScreen` and `CatalogImport` on `CatalogLifecycle`.

Left, in order of importance:

1. A proof that `Wallet`'s one-step append is what one brand of `LedgerAppend`
   does, as a refinement.
2. `ShipStationFeed`: the paged export against orders that change, with the
   shipnotify of `OrderFunds`.
3. `NoMatch`: the aliases an administrator adds and the loop that releases
   blocked orders, with `OrderFunds` as its orders.
4. The creation of the Stripe customer in `PlanPrice`; boxes and markup in
   `ShippingQuotes`.
