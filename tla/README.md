# Verification of flower-erp

flower-erp is an ERP for flower retail: a NestJS modular monolith (`src/apps/api`)
over PostgreSQL, with a Next.js back office (`src/apps/backoffice`). This directory
holds TLA+ models of the parts that keep state by rules of their own and of the pages
that work on them, configurations with which TLC checks them on small instances, and
proofs that TLAPS checks for every value of the constants.

Paths below are relative to `src/apps/api/src/modules` unless they say otherwise;
*use-cases* is the module's `application/*.use-cases.ts`, *pages* are below
`src/apps/backoffice`.

1. [The system](#the-system)
2. [Modules](#modules)
3. [How each module corresponds to the code](#how-each-module-corresponds-to-the-code)
4. [Runs: what is checked, bounds, fairness](#runs)
5. [Proofs](#proofs)
6. [Where code and documents disagree](#where-code-and-documents-disagree)
7. [What the code does that a reader may not expect](#what-the-code-does-that-a-reader-may-not-expect)
8. [What is not modelled](#what-is-not-modelled)
9. [Plan](#plan)

## The system

Every operation is an HTTP handler. It runs its use case in
`uow.runInTransaction` (`infrastructure/persistence/prisma-unit-of-work.ts`): one
interactive PostgreSQL transaction at READ COMMITTED. The adapters find the
active transaction in an `AsyncLocalStorage` and join it; a second
`runInTransaction` inside the first throws `NestedTransactionError`. Modules call each
other through ports, in the caller's transaction. There are no queues, timers or
background jobs, and no process keeps state between requests. What interleaves is
therefore the statements of transactions, and the only locks the code takes on purpose
are `SELECT ... FOR UPDATE` on rows of `inventory_balances` (and
`FOR UPDATE SKIP LOCKED` in the florists' queue). Everything else relies on unique
indexes, CHECK constraints and idempotency keys claimed by an INSERT. Deletions and
retail prices write through the root client: each of their statements commits alone.

The back office keeps what a page loaded, decides by it which calls to send, and
sends several in a row for one press of a button. Each call is a transaction of its own,
so a press may be half done, and what decided on it may be old.

### Components

| Component | State | Operations | What is hard about it | What makes it correct |
|---|---|---|---|---|
| inventory | batches, movements, balances, reservations, write-offs, posting keys | post, correct, reverse a receipt; reserve, release a composition; issue for a sale or an order, reverse; write off, reverse | FIFO over shared batches; balances and ledger kept by deltas; unlocked reads of reservations and batches; lock order | balance = batches, reserved = reservations, ledger explains stock, reservations are backed, documents account for what they took |
| orders | order, planned and actual composition, florist's assignment | create, edit, reserve, assign, prepare, record the actual composition, mark ready, assemble, complete, cancel | three places change the status; checks are made before the transaction; composition lines are replaced, reservations point at them without a foreign key | the bouquet leaves the stock once, nothing is promised twice, the lines of a composition hold no more than they order |
| sales | sale, its lines, prices, discount, annulment | quote, create from an order or directly, complete, annul | completion and annulment cross three modules; prices are computed in three places | at most one open sale of an order, completed exactly when it issued, charged as shown |
| payments | payment, allocations, refunds | create, complete, annul, refund | limits are sums of rows read without a lock; amounts are rounded after the checks; summaries compute what is due otherwise | no target overpaid, no payment over-refunded, annulled means annulled |
| supply | supply, lines, goods receipts and their items | edit, submit, receive, draft and post receipts, reverse, correct, annul, mark paid | the status is recalculated from sums after each step; stock comes in by three ways, from requests that overlap | the status tells what came in, no more than ordered comes in, a document moves its stock once |
| delivery | delivery job, courier assignment, problems, courier profiles | create, plan, assign, release, dispatch, hand over, deliver, cancel, report and resolve problems | the order and the job change independently; calls between the modules nest transactions; pages send up to five calls at once | one active job, courier and assignment agree, final states are final, nothing leaves unassembled |
| deletions | deletion requests | request, approve, reject | approval deletes through a client outside the transaction | a record is deleted exactly when its request is approved |
| master data | categories, units, policies, items, recipes, suppliers, retail prices | create, change, archive; set a recipe, prices of a week | checks and writes of overlapping requests; a save that sends a whole page | items are made of parts in use, recipes are whole, a price is the one typed |
| organization | organization, stores, warehouses, map settings | create, change, archive; save settings | a secret that a form does not show is written back | what was typed is kept |
| identity | users, roles, stores, courier profiles | create, assign roles, stores, block, archive | rules that tie tables together, checked before the transaction | a director remains, florists have stores, couriers have profiles |
| auth | sessions, passwords, authenticator keys, a cookie per browser | sign in, refresh, sign out, change and reset a password, set up an authenticator | rotation from several tabs at once, lost answers | an ended session stays ended, whoever is signed in stays so |
| back office | what its pages loaded, chains of calls under way | calendar, delivery page, forms of an order, new sale, supply, payment, staff, catalogue, prices | old snapshots, broken chains, rules repeated from the server | what is offered is taken, what is shown is true, a chain ends in order |
| workspace queries | none | lists, queues, attention, board, suggested action | the phase of an order is spelt out anew in each | they agree with each other and the server |
| unit of work | the active transaction | run | nesting | one transaction per use case |
| document numbers | a number per document | allocate | maximum plus one under concurrency | unique index |
| audit, contracts, client, UI, deployment | append-only log; types; HTTP; widgets; scripts | | | |

How they interact: **orders → inventory** (reserve, release, issue), **sales →
inventory** (issue, reverse) and **sales → orders** (mark completed, back to READY),
**supply → inventory** (post, reverse, correct), **orders → delivery** (cancel or
create a job, sync readiness), **delivery → orders** (is it ready), **payments →
orders/sales** (what is due, is the target open), **identity → delivery** (courier
profiles), **deletions → master data/identity** (what refers to a record). All are
synchronous calls; all but orders → delivery and identity → delivery stay in one
transaction. The **back office** calls each of them.

`PROJECT.json` lists the hazards of this code at their lines, and the properties
aimed at each.

## Modules

```
Quantities ── totals, FIFO walk           QuantitiesProofs ── laws of totals, the walk
   │
StockPromise ── what inventory promises     (abstract)
   ├── StockLedger ── the inventory adapters, one transaction a step
   │      └── StockLedgerProofs
   ├── ReservationRace ── reserve/release/issue statement by statement
   │      └── ReservationRaceProofs
   └── OrderFulfilment ── orders and sales over the promised stock    OrderFulfilmentProofs
          └── FulfilmentRace ── the same use cases with requests that overlap
PostingRace ── receipts and write-offs, posted and reversed by requests that overlap    SupplyProofs
Supply ── supplies and goods receipts     SupplyProofs
   └── SupplyPages ── the pages over it
Payments ── payments and refunds, requests that overlap    PaymentsProofs
   └── MoneyPages ── the pages of payments and sales, the summaries
CounterSale ── the new-sale page and the calls it chains    PaymentsProofs
Delivery ── jobs, couriers, the order     AdministrationProofs
OrderDesk ── one order on the calendar and the delivery page    OrderDeskProofs
   └── OrderViews ── lists, queues, board, attention ┐
OrderForm ── the forms of an order                   ┴─ OrderScreens
Deletions ── deletion requests
   ├── Staff ── people, roles, stores      ┐
   ├── Catalog ── items and recipes        ├─ Administration     AdministrationProofs
   └── Contacts ── suppliers, customers    │     └── AdminPages
Premises ── organization, stores, settings ┘
RetailPrices ── prices by week, and their page              ┐
Sessions ── one person's sessions, in tabs and browsers     ├─ BackOffice     AdministrationProofs
AdminPages                                                  ┘
MC*.tla, *.cfg ── instances for TLC
```

`StockPromise` is the interface the rest is built on. `StockLedger` (sequential
transactions over batches) and `ReservationRace` (overlapping statements over
balances) are both shown to implement it by a refinement mapping, each checking what
the other leaves out; `OrderFulfilment` then uses an instance of it as its stock, so
orders and sales need no batches.

Conventions. An action is one use case (or one statement, or one call, where requests overlap); its
guards are the code's checks, an exception is a step not taken because the
transaction rolls back. Quantities are natural numbers: the code's decimals have
three digits and are only added, subtracted and compared (`Quantities`); money is
rounded as the code does it (`Payments`, `CounterSale`). A total, `TotalOn(f, S)`, counts pairs
instead of recursing, so that its laws can be proved. An operator named a *mutant* is
a plausible bug of the definition that follows it; substituting it makes the property
it is listed with fail. Where a page is compared with what a use case decides, the guard of the use case is an
operator of its own (`CanReserve`, `AcceptsRefund`, `CanCorrect`) that the action and the page's property both use.

Modules that share no row run in one instance of TLC, a behaviour being about one of
them (`part` in `MCSupply`, `MCOrderDesk`, `MCAdministration`): their states add up and do not
multiply.

## How each module corresponds to the code

**StockLedger** — `inventory/infrastructure/prisma-inventory-{posting,write-off,reservation,issue}.adapter.ts`.
`receipt`, `status`, `initial`, `remaining` are the receipt documents and the batch rows;
`active[l, b]` the ACTIVE reservations of a composition line on a batch; `onHand`,
`reserved` the balance row; `doc` and `took` what a sale, order or write-off issued,
as its movements say; `moved` the sums of the movements by type. Each action is an
adapter call, including its balance delta, its movements and its batch status.
The FIFO loops become `Walk`, a closed form of the loop; `WalkTakesOldestFirst` proves
it takes the oldest first. The warehouse is one.
`CorrectReceiptLine` and `ReverseReceipt` are allowed for receipts in `Revisable` only, so
that runs and theorems can speak of stock whose receipts are left alone.

**ReservationRace** — the same adapters' `reserveOrderComposition`,
`releaseOrderReservations` and `issueStock`, a step per statement. `row`, `balance` are
the committed reservations and balances, `tx[t]` a transaction: what it found, wrote
and locked, and where it is. A write locks a row until the end, a statement waits for a
locked row, a statement sees what is committed and what its own transaction wrote;
`Deadlock` is PostgreSQL's abort of a circular wait. One batch per item.

**PostingRace** — `postGoodsReceiptUseCase`, `reverseGoodsReceiptUseCase`,
`receiveFromSupply` and the adding of items in supply *use-cases*; post, reverse and add in
`inventory/application/write-off.use-cases.ts`; the adapters they call. A request reads the
document, looks up its key, works through its items each under the lock of its balance
(`EnterLine`, `ReverseLine`, `TakeLine`, `RestoreLine`), counts what came in and commits; it
may fail anywhere. `paper` are the documents, `left` the batches, `moved` the movements
by their unique source, `keyed` the posting keys. Which batch is the oldest is chosen anew, because
`receivedAt` is a date entered by hand. `overtaken`, `astray` and `apart` are histories that
name the exceptions below.

**OrderFulfilment** — orders *use-cases* and *repository*, sales *use-cases* and the
ports between them. `line` is a composition row (replaced, never reused), `actual`,
`frozen`, `version` the actual composition, `issued[d]` what movements say a document
took and has not given back. Each use case takes the view of the order it read, so
that `FulfilmentRace` can let it be stale.

**FulfilmentRace** — the use cases of `OrderFulfilment` split where the code reads before it
writes: a request reads the order (completeSale and annulSale first the sale, then the
order or the movements), and later writes and commits in one step, or fails.
`keyed` is the unique posting key, `reversed` the unique reversal movement.
That the second half is one step is justified by the locks: nothing it does depends on
a row others can still change, except stock, whose statements `ReservationRace` covers.

**Payments**, **MoneyPages** — payments *use-cases* and *repository*. A request that completes or annuls is
`Begin` (read the document, claim the key), `Check`s in any order, and `Write`. Amounts
arrive in mills and are stored in cents; each check uses the form the code uses. `MoneyPages` adds
`buildSummary` and what the pages of a payment and a sale offer by it; it has no step of its own:
its properties compare, in every state of `Payments`, what is offered with what the use case would do.

**Supply**, **SupplyPages** — supply *use-cases*. `items[l]` are the receipt items of a line; an item's
`accepted` is the initial quantity of its batch and `used` what left it. `Issue` and
`GiveBack` stand for the sales and orders that use the goods, which `StockLedger` models.
`SupplyPages` are the buttons of the list, the supply and the receipt with their conditions and what they send.

**CounterSale** — `sales/new/page.tsx`, with the quote and the creation and completion of a sale and its payments.
The page keeps a quote of the cart, perhaps of an earlier one (`form.fresh`), its answers come
in any order; `Submit` fixes what is sent, and every call of the chain may be refused or lost
(`CallFails`). What a discount makes of a price is computed twice, as the page does it and as
`createDirectSale` does it, with their roundings.

**Delivery** — delivery *use-cases* and *repository*, with the order's `type` and readiness.
`nested` records a use case of orders that fails because delivery began a second
transaction, `revived` a cancelled job that resolving a problem brought back.

**OrderDesk**, **OrderViews** — `order-calendar-move.ts`, the delivery page, `order-journey.ts`; `tab[u]` is the chain
of calls a user has under way: the call that is next, the job as the page believes it with its version, and the
version the server found when it read the job for that call. The server's side are the use cases of orders and delivery as far as the
screens look at them. A call about the job is two steps, as `updateJob` is two statements: it is read with the version the
caller expects (`BeginJob`) and written by its id (`AnswerJob`), whatever it has become in between. A call may also go on
at the server after its sender has given up on it (`adrift`), which is how an answer gets lost. History: `torn`, the
versions overlapping calls gave the job again, and `origin`, how the active assignment came about. `OrderViews` are the
conditions of `prisma-workspace-read.repository.ts`, of the lists of orders, and of the actions suggested by
`enrichWorkspaceCard`, which the page of an order tells of its sale and the queues do not.

**OrderForm** — the pages of a new order and of an order that is there. Saving is two calls; `form` is one tab,
`taken` the orders, `recipe` the catalogue's. What other users save are single steps. **OrderScreens** is about
either the desk or the forms (`part`) and states `ScreensAreTrue` of both; the behaviours of the run `desk` are among
those of its `ScreensSpec`.

**Deletions**, **Staff**, **Catalog**, **Contacts**, **Premises**, **Administration**, **AdminPages** — deletions, identity, master data and organization
*use-cases*. A request is one to four steps: what it reads and checks, what it commits, and for those whose
statements commit alone each of them; `job[p]` is a request and what it has read. Foreign keys
(Restrict) refuse at the commit. Each part names the statements of its own requests (`StaffStatements` and so on;
those of a deletion are `Reviews`), and a step that cuts a request off is a step of the part it belongs to.
`AdminNext` lets requests of all parts overlap. `AdminPages` are the conditions of the pages and what the server makes
of each offer; like `SupplyPages` it adds no step. Some of the requests may be answered before a behaviour begins.
`Referenced` of Catalog is what the schema's foreign keys refuse to delete, `Counted` what the use cases count first: the lines of
sales too, which have no key (schema.prisma:1068). A direct sale reads its items and stores its lines later (`AskSale`,
`InsertSale`); `loose` (history) are the items sold and deleted at once.

**RetailPrices** — the use cases and the page of the prices: answers to loads come in any order, a save sends
every row that is not blank, a row a commit. `typed` of a row is the week the page was turned to when it was typed, which need not be the
week it is saved for; `said` remembers what was typed for an item and a week and saved for that week, `blurred` the
prices that came from a row loaded or typed for another week, or from an untyped one behind what is stored.

**Sessions** — auth and user-management *use-cases*, `auth-provider` and the client's refresh. `stored` are the rows
of `sessions`, `cookie` what a browser holds, `tab` what a tab believes, `call` the request it waits for.
Reading, writing and answering are separate steps; an answer may be lost.

**BackOffice** — the last three side by side (`app.module.ts`): a step is of one of them and leaves the rows of the
others alone. The behaviours of the run `administration`, about one part each, are among those of `BackOfficeSpec` (TLC checked
that once, as a property of the run).

## Runs

Twelve runs. The ten that pass explore all reachable states of their instance, the
longest in about four minutes with two workers.

| Run (cfg) | Question | Bounds |
|---|---|---|
| `stock` (StockLedger) | Do balances, ledger, batch status, documents and reservations agree, and is each transaction a step of `StockPromise`? | 2 items, 3 batches of 2 receipts, one of them revisable, 2 lines of 2 orders, a sale, a write-off, quantities ≤ 2, corrections ≤ 1 |
| `race` (ReservationRace) | Are overlapping requests atomic, is nothing reserved beyond the stock, and does each request end? | 2 requests for 1 or 2 orders, 2 items listed in opposite order, quantities ≤ 1, stock ≤ 2 |
| `orders` (OrderFulfilment) | Does a bouquet leave the stock once, and is nothing promised twice? | 2 orders, a sale of one, a direct sale, 2 items, 1 unit each, 1 edit |
| `handover_race` (FulfilmentRace) | With two overlapping requests of any kind, do sales match issues? | 1 order, 2 lines, 2 sales, 2 requests, 2 units, 1 edit |
| `handover_race_keys` (FulfilmentRaceKeys) | *violation*: two completions of a sale issue once, also under different keys | 1 order, 1 sale, 2 requests |
| `payments` (Payments) | How far can overlapping requests exceed the limits, does what an annulment takes away stay away, and do the pages show what decides? | 3 payments, one of them of 2 targets and pressed for under 2 keys, 4 refunds, 2 requests, one price, one target that changes |
| `supply` (Supply) | Does the status tell what came in, and no more than ordered? Do the pages offer what is taken? And: does overlapping posting keep documents, stock and status in step? | 2 lines, 2 receipts, quantities ≤ 2; 2 requests, 2 items, 2 receipts or a receipt and a write-off, one key or two |
| `delivery` (Delivery) | One active job, board and assignments agree, final is final | 2 jobs, 2 couriers |
| `delivery_ready` (DeliveryReady) | *violation*: the calls from orders to delivery work | 2 jobs, 2 couriers |
| `desk` (OrderDesk) | Do chains of calls from old cards and pages leave the order in order, and do the screens agree? And: is what a form says it saved stored? | 2 users, 1 order, 1 job of at most 4 versions, 1 call adrift; 1 tab, 1 order taken, 1 bouquet, 2 stems |
| `counter` (CounterSale) | Is what is sold charged as shown, sold once, paid as typed? | 2 parts, 1 bouquet, prices of 2 to 5 cents, 3 discounts, 3 splits, 2 submissions |
| `administration` (Administration) | Do rules over two tables survive overlapping and broken requests? Do sessions end and last as they should? Is a price the one typed? | 2 requests at once, up to 5 in all, a part at a time; 2 tabs, 2 browsers, 2 sessions; 2 goods, 2 weeks, 2 amounts, 2 pages with 4 and 2 moves, 5 together |

Why these bounds suffice for the cases that matter. FIFO needs two batches of an item
and a want that spans both; competition needs two lines over the same item; a balance
of another item must stay alone, hence a second item. A deadlock needs two
transactions with two locks each; the over-reservation race needs two requests for one item.
In `orders` a unit that is
promised twice needs two lines and one unit; a second hand-over needs an order and a
sale. A line of `supply` received partially, fully and beyond needs quantities up to
two and two receipts. A successor job needs two jobs. The price in `payments` lies at
the rounding boundary: 0.024 is stored as 0.02, so a payment of 0.024 fits a price of 0.02 only
once rounded, and a refund of 0.004 vanishes. In `counter` 15 % of a few cents is half a cent and more,
so page and server round at every step; two submissions suffice, as a third meets nothing a second does not.
In PostingRace every quantity is one unit (what quantities do is the subject of `Supply`); two
items in opposite order deadlock, two keys with the receipts together did not fit the
time and are looked at with the write-off only. Two requests at once show every crossing
of a check with a write; three to five in all let a third build on the result of two. The director and the user of
`administration` are the least among whom the last director can be lost. Its tabs are in two browsers where
passwords change, with one refresh of a session, in one otherwise, with two; the theorem about `Sessions` covers all of it in any
layout and for any numbers. Four moves of one page are: turn, type, turn again with a load that fails, save, which stores a price under
a week it was not typed for; beside them the other page turns to a week and finds it.

Symmetry is used where ids are interchangeable and no liveness property is checked.
`CHECK_DEADLOCK FALSE` is set where the instance really stops: all stock is spent, all
orders are closed, all requests have ended.

**Fairness.** `EveryRequestEnds` of `ReservationRace` assumes weak fairness of the steps of a transaction that has begun (a
handler runs on by itself, and a lock is granted when it becomes free) and of the
abort of a circular wait (`deadlock_timeout` of PostgreSQL). `MovesEnd` of `OrderDesk` and `SubmissionEnds` of
`CounterSale` assume that a call that was sent is answered or fails (the browser gives up
on a connection, the server's handlers have no loop that waits). Nothing is assumed of users:
no request need ever be sent, no button pressed. No other module assumes fairness.

**What the properties say.**

- `StockLedger`: `BooksAddUp` (no operation recomputes a balance or a sum of
  movements, each adds its delta), `BatchesAddUp` (a receipt is reversed on the sole evidence
  that remaining = initial, and no document may still return units to it),
  `ReservationsAreBacked` for batches of receipts that are not revised, `KeepsPromise` (refinement).
- `ReservationRace`: `ReservationsFit` (a balance is its ACTIVE reservations as long as requests for one order do not
  overlap; no more is reserved than there is, however they overlap),
  `CommitsKeepThePromise` (each commit is one step of `StockPromise`, also when two requests for one order overlap), `EveryRequestEnds`.
- `OrderFulfilment`, `FulfilmentRace`: `HandedOverOnce`, `PromisesHold`, `OverlapsKeepTheStock`.
- `Payments`: `LimitsHold`: `n` requests in flight exceed a limit
  at most `n`-fold, which with one request at a time is the limit itself;
  `AnnulledForGood` (what an annulment takes away never counts again; a status written over it takes two completions
  under two keys); `MoneyPagesServe`.
- `Supply`: `StatusTellsTruth`, `StockIsOrdered`; `PagesServe`; `PostingsKeepStep` (a document moves its stock once and back once,
  balances are what batches hold, a key belongs to one document, the status follows).
- `Delivery`: `JobsAgree`; its type invariant
  includes that at most one job of the order is not cancelled.
- `OrderDesk`: `NothingLeavesUnassembled` (only the screens see to it, the server does not ask),
  `ActsOnWhatItSees` (a page that has the version of the job knows the job, except in a version two overlapping calls gave),
  `NoStrayAssignment` (an assignment is left behind only by a claim whose answer is lost, a taking back that fails, or a page that
  is left), `MovesEnd`, and `ScreensAreTrue`: the journey leads on, the views agree, the forms are true.
- `CounterSale`: `ChargedAsShown`, `SoldOnceAndPaid`, `SubmissionEnds`.
- `Administration`: `RequestsTellTheTruth`, `StaffIsInOrder`, `RecordsAreSound`, `WhatIsTypedIsKept`,
  `SessionsAreSound`, `AdminPagesServe`. Where the code cannot keep a rule because its check and its write were crossed
  by another request, a history variable names exactly those cases and the property holds for all others. `RecordsAreSound` is of
  keys and of what has none: `SoldItemsRemain`, an item in the line of a sale can be deleted only by a request that crosses the sale.

## Proofs

All proofs are for any finite sets of items, batches, lines, receipts, orders, requests, users and so on.
They rest on the named `ASSUME`s of the modules only, which the runs evaluate for their
instances: that the sets that are summed over are finite, that the parameters are functions of the
right kind, and that a composition has at most one line of an item. A theorem that needs more says so
in its statement: `OneRequestKeepsTheLimits` that requests do not overlap, `OverlapsAlwaysKeepTheStock` that a client
completes a sale with one key.

| Module | Theorem | Establishes |
|---|---|---|
| `QuantitiesProofs` | `WalkTakesOldestFirst` | the FIFO walk takes exactly the want or all there is, and touches a batch only after emptying every older one |
| `StockLedgerProofs` | `TypeCorrect` | columns and CHECK constraints are respected: no quantity becomes negative |
| | `BooksAlwaysAddUp` | the balance is the batches, reserved is the reservations, the ledger adds up |
| | `Backed` | each reservation is backed by its batch, for batches whose own receipt is not revised |
| | `BatchesAlwaysAddUp` | ACTIVE means stock; what a batch misses is what posted documents took of it |
| | `PromiseIsKept` | `StockLedger` implements `StockPromise` (the refinement `KeepsPromise`) |
| `ReservationRaceProofs` | `ReservationsAlwaysFit` | the invariant of the run `race`, for any number of overlapping transactions |
| | `CommitsAlwaysKeepThePromise` | every commit is one step of `StockPromise` (the property `CommitsKeepThePromise`) |
| `OrderFulfilmentProofs` | `TypeCorrect`, `HandedOverAlwaysOnce`, `PromisesAlwaysHold` | the properties of the run `orders` |
| | `SalesAlwaysMatchIssues` | a sale is COMPLETED exactly while it has something out; one sale per order that is not ANNULLED |
| | `OverlapsNeverOversell` | `FulfilmentRace`, any requests and keys: nothing goes below zero, no unit is promised twice |
| | `OverlapsAlwaysKeepTheStock` | the invariant of the run `handover_race`, when each client completes a sale with one key |
| `PaymentsProofs` | `TypeCorrect`, `LimitsAlwaysHold` | the limits, once for each request that can overlap |
| | `OneRequestKeepsTheLimits` | the limits of ADR-021 and ADR-022 themselves, when requests do not overlap |
| | `AnnulledStaysAnnulled` | what an annulment takes from a payment never counts again, with any keys; the status alone can be written over, by a second completion under another key |
| | `MoneyPagesAlwaysServe` | what the summaries call due is what `completePayment` accepts, and the page of a payment offers what will be accepted |
| | `CounterTypeCorrect`, `CounterSoldOnceAndPaid`, `AlwaysChargedAsShown` | the safety properties of the run `counter`: a sale costs what was shown, is paid as typed, and made once |
| `SupplyProofs` | `TypeCorrect`, `StatusAlwaysTellsTruth`, `AlwaysOrdered` | properties of `Supply` in the run `supply` |
| | `PagesAlwaysServe` | what the pages over supplies and receipts offer is what the server takes |
| | `PostingsAlwaysKeepStep` | `PostingRace`, any documents, items, keys and requests at once: what is moved, kept, keyed and counted keeps step |
| `AdministrationProofs` | `RequestsAlwaysTellTheTruth`, `StaffStaysInOrder`, `RecordsStaySound` | properties of the run `administration`, for requests of all parts at once |
| | `AdminTypeCorrect`, `KeyStaysTheOneTyped` | the rows' types and ties; the key of the settings is the one typed |
| | `AdminPagesAlwaysServe` | `AdminPages`, in every state that requests bring about: what a loaded page offers is what the server takes |
| | `PricesTypeCorrect`, `PricesStayTheOnesTyped` | `RetailPrices`, any pages, goods and weeks: a price is the one last typed for its item and week |
| | `SessionsTypeCorrect`, `SessionsStaySound` | `Sessions`, any tabs, browsers, sessions and keys: the invariant `SessionsAreSound` of the run `administration` |
| | `BackOfficeTypesCorrect`, `WhatWasTypedStays` | `BackOffice`, its components side by side: `TypesOK` and `WhatIsTypedIsKept` of that run |
| | `TypeCorrect`, `JobsAlwaysAgree`, `FinalAlwaysStays` | of `Delivery`: the properties of the run `delivery`, and that what is over comes back through a reported problem only |
| `OrderDeskProofs` | `DeskTypeCorrect`, `NothingEverLeavesUnassembled`, `ChainsActOnWhatTheySee`, `NoAssignmentStrays` | the safety properties of the run `desk` about `OrderDesk`, for any number of users |
| | `JourneyAlwaysLeadsOn`, `ViewsAlwaysAgree` | the journey leads on, and lists, board and journey agree with each other and with what the server decides |
| | `FormTypeCorrect`, `FormsAreAlwaysTrue` | what a form says it saved is stored |
| | `BothTypesCorrect`, `ScreensAreAlwaysTrue` | the properties of the run `desk` about both parts |

*Totals.* `QuantitiesProofs` derives the laws of `TotalOn` from the library's theorems
on cardinalities: a total over a disjoint union, over pointwise sums, over one key,
monotonicity, the change of one key, and that the totals of disjoint parts add up to the total of
the whole. Everything else about sums cites these.

*StockLedger.* The inductive invariant is `TypeOK` with `Books`, the three equations of the
balances and the ledger together with `FreshBatches`: a batch of an unposted receipt is empty and
no document took from it. Without it, posting a receipt could overwrite units that
are already counted. Each action has a lemma on what it adds to a total of the
batches of an item, and another on what it adds to a total of the reservations;
the invariant follows because the code applies the same delta to the balance.
`Backed` is inductive on top of `TypeOK` and `Books`: a reserve
is granted out of what is free of a batch (no two lines of a composition order the same item, so
the lines together get no more), a write-off takes only what is free, and an issue
removes each reservation it consumes with its units.
`BatchesAddUp` is inductive on top of `TypeOK` and `FreshBatches`: what posted documents took
of a batch changes with one document at a time, by what the batch loses or gets back
(`OutstandingChanges`); a receipt is reversed only while its batches miss nothing, so that no document
has units of them. The refinement `PromiseIsKept` needs two more facts, that a line never holds
another item than its own and that no balance is overdrawn (`Sound`): then the holds of the lines of an
item add up to its `reserved` (a total over Line × Batch by rows and by columns), which is
at most `onHand`. Receipts, corrections, write-offs and reversals map to `Restock`, reserving and
releasing to `Hold`, an issue to `Issue`.

*ReservationRace.* A transaction that has locked the balance of an item sees the reservations of that
item as they will be when it commits: nobody else can commit a change to them, because everybody locks the balances of
all the rows written before committing. So the invariant is about what a transaction *sees*, its own
rows over the committed ones: of each item it has locked, that sum fits the balance it is
going to write (`Fits`), and equals its reserved quantity while no two requests for one order overlap
(`Reckoned`). What it has found under a lock is still there; rows not yet under a lock are of its own
order only. At a commit what it sees becomes what is committed, and at a rollback nothing does. There is
a lemma for each statement, about one record of a transaction, and one for the others when
somebody commits.
For the refinement, `WInv` adds what a transaction has done so far, whoever else is under way (`Work`): a reserve and a
release leave `onHand` alone and write rows of their own order only; an issue has, of each line it has left behind, taken
the want from the balance and set the rows of its order to zero. The rows of an item divide among the lines that list it
(`HeldAddsUp`, by `TotalParts`), so a commit is `Hold` or `Issue` of the lines of one order, and no other step changes
anything. None of this needs balances to equal their reservations, so it holds for overlaps for one order, too.

*OrderFulfilment.* `HandedOverOnce` follows from `Issues`: of a COMPLETED order the actual composition,
which is not empty, is out under exactly one document, of any other order under none. That it is inductive needs that a sale is
COMPLETED exactly while it has something out (`SalesIssue`), and that an order has at most one sale that is not
ANNULLED (`OneActiveSale`). What is promised stays there (`Fits`) because a composition has one line of an item
(`OneItemEach`), so that a reserve grants what the other lines leave, and no line holds more than it orders
(`HoldsAreOrdered`).

*FulfilmentRace.* A request that acts on an old view can leave an order COMPLETED with nothing issued, so of the
invariant of `OrderFulfilment` only what the rows' own keys enforce stays (`Rows`): the phase of a sale can be told from
its posting key and its reversal (`PhaseFits`), and an order has one active sale. To this comes what each request in
flight knows for certain although others change the rows (`Knows`): the lines it saw are of different items, so that
what it reserves fits even when they have left the composition, and what `annulSale` found to give back is
still out or has been given back by another request, whose reversal then makes this one fail. It lasts because no sale
returns to an earlier phase (`Onward`). `PhaseFits` needs that a second completion finds the key posted, hence the
hypothesis `OneKey`; the rest of the invariant, and with it `OverlapsNeverOversell`, does not.

*Payments.* A limit is checked by one request and written later, so the limit itself is not invariant. What is: the
sum of what counts already and of what each request past its check is about to add is at
most the limit times the number of requests (`Within`). A check admits at most the limit
for the request that makes it, a write moves its share from one summand to the other, and a request that fails
leaves the sum. `AnnulledForGood` rests on the posted keys: a payment that was completed has a key posted, so
a completion that still writes has another one (`KeysTell`), and on the allocations: none is made active again.
The pages compare a summary with what a request would find. A draft keeps all its allocations, with whatever keys, because
only an annulment removes them and an annulment under way is of a payment that is no draft any more (`DraftsAreWhole`); and what
a summary calls net paid is what was paid as long as nothing was given back.

*CounterSale.* The invariant has two halves. The cart's says that a quote prices the parts of the cart it was asked for
(`QuoteOK`), so that the lines add up to what is shown while that cart is on the screen, and that a rise, rounded on
each unit price, is kept up to half a cent for each piece (`RiseIsKept`, by multiplying out with the base); every form sent
therefore promises its price (`Promised`). The chain's says how far a submission is (`ChainOK`): the sale a form names is a
draft until it is completed, then its payments are the first ones typed (`PaidUp`); and that errors told and
submissions made count the sales (`OnceOK`). The proof takes the percentage of a discount to be a whole number.

*Supply.* That no more comes in than was ordered is not inductive alone. An open supply may be edited freely, so it must
have received nothing, hence the truth of the status is part of the invariant. The
recalculation looks at ordered lines only, so a line without an order must have no items
(`OrderedFirst`). Posting adds one checked item per line, so a receipt has one item
per line (`OnePerReceipt`); creating a receipt must not count items that exist already,
so items belong to receipts that exist (`ReceiptsFirst`). `IInv` is the conjunction,
and there is a lemma per action. That the pages serve needs three more facts (`PageInv`): an item brings something, so a
correction finds a batch; a supply with receipts is past its draft; and an open supply has received nothing, so that
what its page sends, all that is missing, is the whole order.

*PostingRace.* None of the parts of `PostingsKeepStep` is inductive, because a request writes what it has read or
counted long before. `PostingInv` says what is committed, what each request knows of it although others commit meanwhile, and
what two requests know of each other; TLC checked it on the instance of the run `supply`, and on random behaviours with
three requests and two write-offs, before it was proved. A document that a post has
read may be posted before this post moves anything: then an item of both is moved already, since of two posts
of a document one has read all items of the other (`Pair`), and the later can no longer get through
(`Began`, `ThroughFirst`). A movement is made under the lock of its balance, so the batch and the balance that a request is going
to write are still what it saw (`Moves`). The received unit of an item is in its batch or in the one write-off
of it that is not reversed (`Kept`): this makes a reversal find it whole or fail, and puts back the unit that was taken. A
key has one keeper among the receipts under way; a write-off inserts it last, where the unique key stops a second one. A status
that was counted counts what will be there when it is committed (`Counted`): a receipt that commits before had
an item in common, and both would have moved it. The flags `astray`, `overtaken` and `apart` except what
the code does not keep, and the proof uses no more than they say.

*Delivery.* `TypeOK` with its one-active-job clause is inductive. That a pickup order has no delivery
and that what is final stays so need that a cancelled or delivered job comes back only through a reported
problem, and that a problem was reported only of a job that was created
(`ReportedWereCreated`).

*Administration.* The invariant is a conjunct for each part (`RequestsInv`, `StaffInv`, `CatalogInv`, `ContactsInv`,
`PremisesInv`, with `SalesInv` for the lines of sales) and the types of the requests under way. A step is of one part; what it may do to what all share is said
once (`Only`, `Grows` and the lemmas on effects): one request moves, by a statement of that part, and records of that
part are stored, or one of them is deleted. Hence a lemma per action for its own part, and one per part for the steps of
all others. What makes it inductive is what a request knows between its read and its write while others commit.
*Staff:* of requests about to take a director's role at most one is under way and another director stays (`OneLeaves`), or
the run is marked `blind`; roles and stores wished for still fit each other (`WishesFit`), or `mixed`; who was never
created has nothing (`UnbornHaveNothing`). *Catalog:* an item is being created of parts in use (`CreatesOfLiveParts`), a
part is being archived that no active item is made of (`ArchivesUnusedParts`), or `crossed`; a recipe is
replaced by one request that has seen all its lines (`ReplacesWhatItSees`), or `overlapped`; what is being sold is stored and what
is about to be deleted is in no sale (`SalesInv`), or `loose`. *Premises:* a save under way without
a key will write the key that is stored (`SavesWhatWasTyped`), or `refilled`. *Deletions:* a review is of the record its ticket names and the only one of that ticket (`ReviewsAgree`), or `muddled`, and a
record is deleted for a ticket that names it (`DeletedFor`). TLC checked the invariant part by part and, to a depth of nine
steps, with requests of different parts together. The proof found an error of the model: the
first version let the `CutOff` of another part stop a staff request without marking it, which `Reviews` now rules out.

*AdminPages.* What a page offers is compared with what the server decides in every state of Administration. Most of it follows from
the two conditions alone, with the fact that a director who is not to spare is the only one (`OnlyDirector`), and one lemma per
kind of record on which pages show it. The editor of recipes needs the invariant: a line kept from the stored recipe
names an item that is stored and no bouquet, so that nothing but its archiving can refuse it.

*RetailPrices.* That a price is the one typed is not inductive, because a save sends rows that were read long before. The invariant says it of
every copy of a week's rows, on the page, in an answer, in a save: a row nobody typed is what is stored for the week it
was read from, unless it has been stored anew since (`UpToDate`). So the save of an untyped row changes nothing, except
for the cells in `blurred`. And a page waits for its save or for the one answer that comes after it (`WaitsForOne`).

*Sessions.* The invariant has three parts. `ShapesOK` says what each request under way carries; a code that is about to be
confirmed is of a key in the app. *Passwords:* every session is of the present password, or the
last change of it is still under way, holds a session of the present password and will revoke the others (`ChangeIsPending`);
whoever is on the way to the application need not change the password (`WelcomeAhead`); a suspended person
has no session but one whose login had begun (`NoneWhileSuspended`). *Cookies:* a session is of one browser (`OneBrowser`);
the session of an unanswered login is in no cookie and no other request (`EntriesAreNew`); of a browser that is not `unsettled`, the
cookie, or its only refresh while there is one, has the present token (`SettledIsCurrent`). The requests are split as in the code, so each
of these says what is true between the read of a refresh, its rotation and its answer.

*BackOffice.* A behaviour of it is one of each component (`EachGoesItsWay`), since the others' steps are stuttering for it.

*OrderDesk.* A tab is in the middle of a chain of calls while others act. The invariant says of each tab at which
call of its move it can be, that a chain which ends at the courier began with an assembled order, and that what a tab
with the current version believes of the job is so (`Sees`). No tab and no call adrift expects a version above `newest`, so
a write either gives the job a version nobody holds, which makes every other tab stale, or one that two calls gave it
(`torn`), for which nothing is claimed; and what a call adrift will write was decided when the order was assembled, or comes
with a problem (`Harmless`). The views are compared in all states that satisfy it. Of a form it
says that what it has sent was filled in, that the first call's half of a new order is stored before the second is
sent, and that stems nobody touched are those of the order unless somebody else saved it since.

Every safety property that a passing run checks is also proved. Model-checked only: liveness (`EveryRequestEnds`,
`MovesEnd`, `SubmissionEnds`). The prover can treat neither liveness under fairness nor
induction over data, which is why totals and the walk are defined without recursion, and no property uses ENABLED.
No module uses RECURSIVE.

## Where code and documents disagree

Two disagreements are runs of their own:

- `handover_race_keys`: the stage C report l.126 says a double completion of a sale does
  not issue twice. It does when the two requests overlap and bring different
  idempotency keys: the DRAFT check is made without a lock and the count of the
  guarded update is ignored.
- `delivery_ready`: `onOrderMarkedReady` and the switches of an order's type begin a transaction
  within the caller's. Marking READY an order whose job is PLANNED or ASSIGNED, and
  every change of type in `updateDraft` that has a job to cancel or to create, fail with `NestedTransactionError`.

Others were met while modelling. The models contain the behaviour, and the properties
are stated with the exception where one is needed:

*Inventory.* Reversing or correcting a receipt whose batch carries reservations leaves them
without stock, where docs/architecture/module-map.md l.137 says a cancellation releases them; `ReservationsAreBacked` is hence
stated for receipts that are left alone. Two overlapping requests for one order, one
releasing and one issuing, both reduce `reserved` by the same reservation
and break the equation that docs/archive/cleanup-2026/cleanup-stage-c-report.md l.114-117 calls preserved:
`ReservedIsActive` is checked for requests of different orders and fails for these.
`reverseGoodsReceipt` and `adjustGoodsReceiptItem` read batches before they lock the balance: units
issued or written off in between are subtracted twice, and the balance is no longer the "live
projection" of ADR-012 l.13 (`overtaken` in PostingRace); a later reversal of that write-off returns units to a dead batch.

*Orders and sales.* An order stays RESERVED after its composition is edited (ADR-015
l.30). ADR-014 l.26 says a cancelled order's active reservations are released: `setPlannedComposition` and
`removeCompositionItem` delete lines without releasing theirs, `cancelOrder` releases those of present
lines, and an issue those of the items it issues, so the reservation of a line edited out stays ACTIVE for ever.
Annulling a sale does not reserve again (ADR-016 l.22, ADR-018 l.18).
An order without lines is assembled to READY and can then be neither completed nor
sold. A DRAFT sale of an order that is completed or cancelled otherwise can be neither completed nor annulled.
`completeOrder` issues stock itself, where ADR-015 l.41 and ADR-016 l.28 leave the issue
to sales. With requests in flight together: completeOrder and completeSale issue
twice; cancelOrder overwrites COMPLETED; updateActual changes the composition
that markReady just froze (ADR-015). `HandedOverOnce` is hence checked
for use cases that do not overlap, `OverlapsKeepTheStock` for those that do.

*Payments.* The allocations of one payment are checked one by one, so two to one target
overpay it (ADR-021); what an order was prepaid is not counted when its sale is paid, so both can be paid in full.
A DRAFT refund may be completed after its payment was annulled
(ADR-022). Overlapping completions overpay or over-refund. Stored allocations need not add up
to the stored amount. completeRefund overlapping annulRefund revives a refund. The payment page makes a key for each press
(payments/[paymentId]/page.tsx:85), so of two overlapping completions the second can be written after the payment
was annulled: it reads COMPLETED, covers nothing, and offers the refund form again; the run reaches this, and
`AnnulledForGood` says it is all that happens. A refunded order cannot be
paid again although its balance is due and the page fills it in.

*Supply.* A correction of a line with several posted receipts, even of the cost alone, gives
the newest the whole quantity (ADR-013); `StockIsOrdered` excepts these lines.
Corrections contradict "Posted receipts are immutable" (ADR-013 l.20). A supply is stored as SUBMITTED_TO_SUPPLIER
(prisma-supply.repository.ts:160), where docs/domain/supply-flow.md l.47 says DRAFT; only rows stored before, by the
column's default, can be drafts, and `Init` has one. Accepted and not received
quantities are summed; a line with defective goods cannot be corrected (CHECK); a
receipt of defective goods only leaves the supply open, so that it may be annulled and
then revived by reversing that receipt. With overlapping requests: two posts without an item in common leave a
stale status, and so do a post and the repeat of one that was done before and moves nothing (`apart`); two `receiveFromSupply` of a SUBMITTED supply without a key in common post the order
twice (from DRAFT the lock of the supply's row and the check against over-receipt refuse the second); an item added
while a post has already read the document stays in the POSTED document and never moves, and a repeated
post that read DRAFT early and looked up its key late calls a REVERSED document POSTED again (`astray`).

*Delivery.* `startTransit` does not ask whether the order is READY; cancelling an order leaves its
job active; `resolveProblem` asks neither the status of the job nor of the problem, and so revives
delivered and cancelled jobs, also of orders that became PICKUP; `releaseCourier`
works in any status. `updateJob` looks for the expected version and then updates by id, so that of two
overlapping calls with one expected version both succeed, the later undoes what the earlier wrote, and both senders hold
the same version: `ActsOnWhatItSees` is violated without its exception for `torn` versions. Creating an order, its job and its plan are
three transactions.

*Sessions.* docs/development/session-management.md l.18 says `logoutAll` ends all sessions: it spares the
caller's own, whose cookie it clears. `revokeFamily` does nothing.

## What the code does that a reader may not expect

Facts the models rest on, or that their properties except by name.

*Calendar and delivery page.* The drop on the last column always fails: `order-calendar-move.ts` l.213 sends no
Idempotency-Key, which `delivery.use-cases.ts` l.97 requires. A move to READY fails for a DELIVERY order whose
job is planned (`delivery_ready`). `rollbackClaim` releases whoever holds the assignment by then, and
`releaseAssignment` of an old card whoever holds it now. "Reserve before claim so a failed reservation does not leave a stray
assignment" (order-calendar-move.ts:63) helps against a failed reservation only: a claim that is carried out and whose answer is
lost, a taking back that fails, and a page left in between strand one. `toCourier` with a job in PROBLEM does nothing.

*Forms of an order.* The form of a new order sent again after its second call failed creates a second order. Every
save replaces all composition lines and orphans their reservations, while the status stays RESERVED; comments of lines are
lost. Edits of the address of an order whose job exists are ignored. A DELIVERY order whose job was not created cannot be
saved (nested transaction). With an archived item in the composition the header is saved and the composition refused.

*Lists and board.* `displayPhase` of the lists ignores the delivery; the bucket "ready" of the workspace includes
delivered orders; a cancelled order that was delivered is in HANDED_OFF. The workspace list always passes
`hasActiveSale = false` (workspace-query.use-cases.ts:56) and so suggests CREATE_SALE although a draft sale exists, which the use
case refuses; `SuggestionsAreTaken` excepts it.

*New sale.* Shortages and the preview of a recipe are advice only. A submission after an error makes a new sale. A
seller without the right to a discount charges the price of the cart before, while the quote of the new one is not yet there.

*Payments.* A refund of a payment that covers several targets counts in full at each. DRAFT payments have no annul
and stay. A split payment that is retried after a failed line pays the first lines again, up to the limit. No page creates a
prepayment or annuls a refund. An order without a price shows a balance of 0.00.

*Supply and write-off pages.* No page creates a goods receipt, so a PARTIALLY_RECEIVED supply has no button to receive
the rest. A stale page corrects posted stock unasked. The write-off page makes a new key for each press, takes an item
as a typed UUID and offers to post an empty draft.

*Staff and catalogue pages.* A member with access to all stores who is neither director nor florist becomes a florist
only by way of DIRECTOR. Blocking and archiving do not look at the last director. Archived records have no delete button, archived bouquets and units are on
no page, no page archives anything. The delete button does not know of a pending request. Whoever ever signed in can never be
deleted, though it is offered. A store toggle sends the whole snapshot. A failed load of a recipe shows an empty editor, whose save
would empty the recipe. Deleting a component silently drops its lines from other bouquets' recipes. Deleting a courier (`DeleteCourier`)
leaves the role without a profile, as archiving one leaves it with an archived one: `CouriersFollowRoles` excepts both (`strayed`).
"The item was used in sales, it cannot be deleted" (entity-hard-delete.service.ts:79) is only a count: no foreign key holds the
item of a sale's line, so a direct sale that has read the item (sale.use-cases.ts:254) while it is counted and deleted keeps a line
that names nothing.

*Prices.* An answer that comes late, or a load that fails (retail-prices/page.tsx:65), shows another week's rows, typed ones included, and a
save writes them to the week now chosen: prices get to a week they were not typed for. A stale page takes back another's prices. A save that fails half way has stored the rows before. A blank never erases.

*Sessions.* Nothing in an open tab renews an access token that has run out (15 minutes). A logout that fails leaves cookie and
session. A logout clears the browser's cookie, whosever it is by then. No page calls `logoutAll`, `revokeSession` or `listSessions`.

## What is not modelled

| Part | Why |
|---|---|
| DRAFT orders | no code creates one any more |
| two lines of one item in a composition | the planned composition has a unique index; the actual composition is kept as units per item |
| `claimNextOrder` among several orders | which order is taken is a matter of sorting by date; that an order has one assignment is in `OrderDesk` |
| comments, photographs, texts, dates | no rule relates them to another part of the state |
| change of warehouse in `updateDraft`, stores without a warehouse | one warehouse is modelled; a store is created with its own |
| how a discount is spread over lines, consumption rows | presentation of a total that is modelled |
| addresses, geocoding, windows, fees, urgency, external couriers | no rule relates them to another part of the state |
| a second delivery, a change of type in `OrderDesk` | `Delivery` has them |
| edit, submit, correct and annul of a supply by overlapping requests | `Supply` has them one at a time |
| document numbers | maximum plus one, guarded by a unique index; nothing depends on a number |
| failed-login counter, rate limits, table of permissions | every call may be refused in every model, for any reason |
| stock and cost projections, figures of a shift | read-only sums |
| audit, contracts, configuration, widgets, deployment scripts | written or read only, or outside the application |

## Plan

Done, in this order: Quantities, StockPromise, StockLedger with its proofs,
ReservationRace, OrderFulfilment, FulfilmentRace, Payments, Supply with its proofs,
Delivery with its proofs; then Deletions with Staff, Catalog, Contacts and Premises, Sessions,
RetailPrices, CounterSale, OrderDesk with OrderViews and OrderForm, the pages over Supply, Payments and
Administration, PostingRace; then the proofs about StockLedger's batches and its refinement, ReservationRace, OrderFulfilment, FulfilmentRace, Payments, PostingRace,
OrderDesk with OrderViews and OrderForm, the pages over Payments and Supply, CounterSale, Administration with its pages,
RetailPrices and Sessions.

What is left:

1. **Supply, overlapping edits** — annul against post, correct against reverse, as `PostingRace` does for posts.
2. **Delivery, overlapping** — a courier assigned twice, which `OrderDesk` has only as columns of the job.
3. **FloristQueue** — `claimNextOrder` with SKIP LOCKED against `claimOrder`, `assign` and
   `reassign` over several orders.

A theorem for each safety property of theirs goes with these.
