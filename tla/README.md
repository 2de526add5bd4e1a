# PRODX-POS in TLA+

PRODX-POS is a point-of-sale system: a React client, a Node/Express server over
PostgreSQL that runs the store's transactions, and an edge tier (a Cloudflare Worker, a
Durable Object per terminal, queues and a PostgreSQL ledger) that takes the sales of
terminals that were offline. This directory holds TLA+ models of its transactional core,
TLC configurations that check them on small instances, and TLAPS proofs, for instances of any
size, of every safety property that those configurations find to hold.

Contents: 1 the system; 2 the modules; 3 abstractions; 4 runs and bounds; 5 fairness;
6 proofs; 7 where code and documents disagree; 8 what is not modelled; 9 plan.

Commands, in this directory:

    tlc -workers 2 -config MCPosOrigin.cfg MCPosOrigin     # a run (see section 4)
    tlapm PosOriginProofs.tla                              # the proofs of a module

## 1. The system

Paths are relative to the repository's root.

### 1.1 Edge tier (`prodx-pos-edge-sync/`)

A terminal numbers its sales 1, 2, 3, ... and stamps each with a hybrid logical clock, an
idempotency key and a sale id. It posts batches of 10 to 50.

| part | state | operations | talks to |
|---|---|---|---|
| Worker, `src/index.ts` handleSync | none | verify the terminal's certificate (which reads the origin checkpoint), check each sale's shape and hash, pass the batch on | origin (read), the terminal's Durable Object |
| Durable Object, `src/idempotency-do.ts` | receipts and outbox (`idempotency`), prefix and clock (`terminal_sequence_state`), numbers seen ahead of the prefix, gaps, one alarm | submitBatch, alarm, flushPending, markQueued, markCommitted, markFailed, status, diagnostics, pruneStorage | ingest queue (`sendBatch`, awaited) |
| Queue consumer, `src/index.ts` queue() | none | commit the sale at the origin, finalize its receipt, retry or dead-letter | origin, Durable Object, dead-letter queue |
| Dead-letter consumer | none | mark the receipt failed | Durable Object |
| Origin, `src/postgres.ts`, `migrations/001_pos_ledger.sql` | `pos_idempotency`, `sales`, `sale_lines`, `inventory_ledger`, `inventory_balances`, `terminal_sync_state` | commitSale: one statement (a chain of CTEs) and the classification of its answer | - |
| Catalog pages, `src/index.ts:132-235`, `src/catalog-crypto.ts`, the version trigger of `migrations/001_pos_ledger.sql` | products, catalog version, edge cache, Hyperdrive's query cache | publish (any transaction that writes products), one signed page per request, verify the prices of a sale | catalog database, terminals |

Hard behaviour. Two statements for one terminal race, and the first two have no checkpoint
row to lock. A statement decides on a row it locked late and on a snapshot it took early.
The Durable Object lets other calls in while it awaits the queue. The queue delivers at
least once, in any order, to several consumers. A process dies between two effects; the
answer of a commit is lost; an object comes back with an empty storage. Attempts are
limited (90 in the code, 100 on the platform). A catalog page is read through two caches
while prices change, and a terminal needs several pages to have a catalog.

What makes it correct. The committed numbers of a terminal are 1..checkpoint, each sale
is committed once, balances are the sum of the ledger (the queries of
`scripts/reconcile.sql`); a receipt that says COMMITTED is about a committed sale; the
receipts, prefix and gaps of the object agree with each other and with the origin; every
accepted sale is finalized; a downloaded catalog, and the prices of a verified sale, are
those of one published catalog.

### 1.2 Store server (`server/`, `db/migrations/`)

Every route runs its service inside one transaction (`server/db/transaction.ts`, READ
COMMITTED); a throw rolls it back, and deferred constraint triggers may fail the COMMIT.

| part | state | operations |
|---|---|---|
| Shifts, `server/shift/shift-service.ts` | shifts, cash movements, shift operations (the replay table) | open, close with a count, record a cash movement; replay by key |
| Checkout, `server/transactions/checkout-service.ts` | orders with items and payments, stock, inventory ledger, drawer | look up the key, lock shift and products, insert, post |
| Refund, `refund-service.ts` and the triggers of migrations 0013, 0014, 0016 | refunds with items | look up the key, lock the order, consume the token, check amount, items and their value, restock, post |
| Void, `void-service.ts` | voids | lock the order, consume the token, reverse everything |
| Adjustment, `inventory-adjustment-service.ts` | adjustments | look up the key, lock the products, add the delta |
| Catalog import, `server/http/catalog-import-route.ts` | import operations, stock, ledger | claim the key, set or add stock in one of four modes |
| Supervisor authorization, `server/auth/` | authorizations | grant for requester, action and order; expire; consume once |
| Timeclock, `server/shift/timeclock-service.ts`, migrations 0024-0027 | credentials, clock records, operations, PIN attempt counters | authenticate a PIN, clock in and out, provision a PIN |
| Sessions, passwords, login limits, `server/auth/` | sessions, counters | log in and out, lock-out |
| Outbox route, `server/http/sync-route.ts` | - | checks of an offline order, then checkout |
| Payment lifecycle, catalog pricing, order/audit/task reads | payments, products, tasks | single-row updates and reads |

They share the shifts, the stock, the orders and the authorizations, all through
PostgreSQL rows; nothing is shared in memory. Hard behaviour: copies of a call that miss
each other's key; two carts for the last unit; a shift that closes under a checkout; a
refund, its copy and a void of one order; an authorization consumed, expired or given
back by a rollback; rounding of partial restocks; a constraint that fails at COMMIT; a PIN that is
authenticated in one transaction for an operation that runs in another.

What makes it correct: one effect per key; the stock, and the cash a shift expects, are
what the committed documents say; no order gives back more than it took; each reversal
consumed an authorization; a closed shift, a refunded and a voided order are final;
nobody is clocked in twice, and a locked actor's PINs are not tried.

### 1.3 Client (`src/`)

The React application keeps a cart (`context/CartContext.tsx`, `domain/order.ts`), an
offline outbox in IndexedDB with a mirror in React state (`context/OfflineContext.tsx`,
`adapters/offlineOutboxStore.ts`, `domain/sync-recovery.ts`), and many screens. The outbox
is the hard part: pages of one browser share the store and each has a copy of its own; a
run of triggerSync works through the copy that was rendered when it was called; `isSyncing`
is a React state that a second run may not see; a reload between the mark "syncing" and the
answer leaves an item that only the next page can take back. What makes it correct: an item
marked synced has its order on the server, no sale that was reported as saved is lost, and
no item waits for ever in a page that stays open.

### 1.4 The rest

`server/ai` (calls to model providers), `api/` (a proxy for staging), `server/entrypoint.js`
(a generated bundle), `infra/`, `scripts/`, CI. None of it decides anything about the
store's records. `PROJECT.json` lists every component with its status.

## 2. The modules

    SaleJournal        what the edge ledger promises: one journal per terminal
      ^ refines
    PosOrigin          the origin's statement, run by any number of sessions
      + PosOriginProofs
    IdempotencyGate    the Durable Object of one terminal
      + IdempotencyGateProofs
    EdgeSync           Worker + gate + ingest queue + consumers + DLQ + origin (INSTANCEs both)
      + EdgeSyncProofs
    EdgeCatalog        products, catalog version, signed pages, two caches, terminals
      + EdgeCatalogProofs
    ShiftDrawer        shifts and the cash drawer
      ^ EXTENDS
    StoreLedger        checkout, refund, void, adjustment, import, authorizations
      + StoreLedgerProofs (of both)
    Timeclock          PINs, their lock, clock records and operations
      + TimeclockProofs
    ClientOutbox       pages, payment surfaces, the outbox, triggerSync, the sync route
      + ClientOutboxProofs
    Sums               lemmas about sums over finite sets, for the proofs
    MC...              an instance of each, with its .cfg files

**PosOrigin.** `idem`, `sales`, `ledger`, `balance`, `checkpoint` are the tables.
`Begin` takes the snapshot (what `prior_idempotency`, `prior_sequence_sale` and
`checkpoint_lock` see), `Commit` and `Refuse` run with the checkpoint row as it is after
the wait for its lock. `Refusal` is commitSale's classification, in its order of tests.
`CommitAnswerLost` is a commit whose caller sees an error. `RollBack` is any abort, the
one by a unique index included; `Commit` requires that no unique index objects.

**SaleJournal.** A sale enters its terminal's journal once, at the end, at the position
it is numbered with, under an unused key and sale id, with a clock that is not behind.
`PosOrigin!ImplementsJournal` maps the journal to the committed sales read by number.

**IdempotencyGate.** `rows` is the table of receipts; a row's `failed` is `failed_at`.
`SubmitAccepted` and `SubmitRefused` are submitBatch up to its first await, in the code's
order: reconcile with the checkpoint, known keys, reused keys and numbers, window, gaps,
prefix, clock, rows, alarm, flush. `Send`, `Mark`, `SendFails` are one chunk of
`flushPending`. `Alarm` is the alarm handler with pruning and the retry of due rows.
`MarkCommitted`, `MarkFailed` are the consumers' calls. `Evict` loses the calls under way
and keeps the storage; `Recreate` loses the storage too.

**EdgeSync.** `ReceiveBatch` reads the origin checkpoint, `SubmitBatch` passes it with the
batch to the gate later, so it may be stale. `Deliver`, `RunStatement`, `ReadVerdict`,
`FinalizeCommitted`, `MarkCommittedThrows`, `DeadLetter`, `FinalizeFailed` are queue() on
one message, an await to an await; `DlqFinalize` is the dead-letter consumer.

**ShiftDrawer.** Open, close and cash movement, each one transaction that first claims its
key in the operation table; the replay changes nothing. `Expected` is the cash the close
compares with the count.

**StoreLedger.** Extends ShiftDrawer with the orders, stock, reversals and
authorizations. Checkout, refund and adjustment are two steps: the look-up of the key,
which takes no lock, and the rest of the transaction at its commit. One step is enough for
the rest because every row it decides on is locked when it reads it and stays locked to
the commit; the exception is the key, which the unique index decides at the INSERT, and
that is a conjunct of the commit. A void locks its order before it reads anything and an
import inserts its key before anything else, so each is one step. A void asks for an order that
has a payment and was paid in cash alone (`void-service.ts:57-67`), so an order of nothing cannot
be voided. The amounts of requests are as the services let them through (`StoreAssumption`).

**EdgeCatalog.** `offers` and `version` are the tables; `Publish` is one transaction with
the trigger that counts each row it writes. `Ask` takes the REPEATABLE READ snapshot and the
version; `ServeFromEdge`, `ServeFromHyperdrive` and `ServeDirect` are the three ways of
handleCatalog to a page, later, when the catalog may have changed. The edge cache may
answer with any page signed before, or miss; the query cache with the result of any
earlier time, or fail: both are wider than max-age and need no clock. `Receive` is the
terminal that `prodx-pos-edge-sync/README.md:28,147` describes (its code is not in the
repository): it appends pages of one version and starts again at another. `Verified` is
verifySalePrices.

**Timeclock.** A call authenticates its PIN in a transaction of its own (`CheckLock`, then
`Accept` or `Fail`) and runs its operation in another (`ClaimKey`, `Replay`, `LookForOpen`,
`ClockIn`, `ClockOut`, `RollBack`); a step ends where it may wait for a row or another call
may commit. `ProvisionPin`, `Disable` and `LockExpires` happen in between.

**ClientOutbox.** `idb` is IndexedDB, `mirror` each page's copy. `Pay` to `NextSale` are the
payment dialog and drawer, `Trigger`, `Start`, `Send`, `Confirm`, `SyncFails`, `Finish` a
run of triggerSync from await to await, `Load` and `Recovered` the start of a page, `KeepLocal`
and `KeepCloud` the conflict dialog, `ClearSynced` and `ClearOutbox` the cashier's purges. The
server is the guard of `sync-route.ts` and checkout by key: that a key has one order is
`KeyOnce` of StoreLedger.

In front of some definitions stands a mutant: the same operator with a plausible mistake
(a dropped guard, a missing reset, an index that is not there). No model uses it. Replacing
the definition by its mutant must make TLC refute the property that `PROJECT.json` pairs
it with; this shows that the property depends on that line of the code.

## 3. Abstractions

Common: one tenant and one store, every table being keyed by them. A payload, its hash and
its canonical JSON are one value. Ids that a database generates are positions in a
sequence. Time is a choice: which rows are due, whether an authorization has expired.

Edge. A clock pair is one number (the code only compares it). Certificates and signatures
always verify: they are cryptography. `EdgeHash` says which bytes the Worker hashes. The
code's value is "bare"; the origin hashes the envelope, so with "bare" every sale is
refused (section 7). The runs `edge` and `edge_live` set "envelope": they check the rest of
the pipeline as it is meant to work, once the two agree. A sale that the Worker would
refuse by its form is not sent.

In EdgeSync a mark goes to the receipt of its key, so that it falls on the right sale
relies on a terminal never using one key for two sales (`KeysAreOwn` in the proofs).

Catalog. An HMAC is that nobody but the Worker makes a proof. The 24 hours a signature lasts
are left out: the Worker and commitSale compare it with the same instant, `edge_received_at`
(`index.ts:64,87`, `postgres.ts:192`), so expiry cannot divide them. Names, codes and tax
rates are in the price. Tenants start with version 1 when they have products.

Store. Totals are line totals; a checkout's guard is cash + card = total. Prices, tax,
currency, reasons and notes are left out: they gate a request without deciding an order
of steps. The session of an authorization is merged with its requester. `RollBack` stands
for a deadlock, a lost connection, an inactive member or product, and a price that differs.
An import's items are products that exist; the creation of products and categories is left
out. Line locks in different orders can deadlock in PostgreSQL: the abort is `RollBack`.

Time clock. A PIN's HMAC is unique in a store, so a PIN that is found verifies: the
credential's own failure counter (`timeclock-service.ts:61-81`) never moves and is left out.
Reading records changes nothing. Time is the choice to expire a lock.

Client. A step ends where the code awaits IndexedDB or the network. Latency and activity
logs and the contents of a cart are left out; a press of the button makes a new key. Left out too is
the migration of a snapshot of the old format (`OfflineContext.tsx:239-251`): it clears the store
before it writes (`offlineOutboxStore.ts:90`) and could drop an item that another page has just
queued, so `QueuedSaleIsKept` says nothing of it. `givenUp` marks the keys for which the cashier chose the cloud's
version or purged the queue.

## 4. Runs and bounds

"States" are distinct states; times are with two workers.

| run | cfg | states | time | question |
|---|---|---|---|---|
| origin | MCPosOrigin.cfg | 10 thousand | 4 s | do racing statements keep the ledger? |
| gate | MCIdempotencyGate.cfg | 307 thousand | 95 s | do receipts, prefix, gaps and alarm agree, in any order of arrival? |
| edge | MCEdgeSync.cfg | 1.3 million | 140 s | do edge and origin agree over a failure anywhere? |
| edge_live | MCEdgeSyncLive.cfg | 130 thousand | 100 s | two gate calls, two copies of a message: is every receipt settled? |
| catalog | MCEdgeCatalog.cfg | 50 thousand | 17 s | does a terminal get one whole catalog through stale caches? |
| sales | MCStoreLedgerSales.cfg | 623 thousand | 95 s | carts, adjustments and imports that contend for key, stock and shift |
| reversals | MCStoreLedger.cfg | 266 thousand | 40 s | refunds, copies of refunds and a void of one order |
| outbox | MCClientOutbox.cfg | 178 thousand | 85 s | two pages and two runs over one outbox |
| staff | MCTimeclock.cfg | 434 thousand | 36 s | two clock calls at a time, PINs and users changing |
| edge_hash, void_after_refund, supervised_refund | | | seconds | each ends in a counterexample (section 7) |

Five more configurations are run by hand: `MCIdempotencyGateGap.cfg`, `MCIdempotencyGateWindow.cfg`,
`MCPosOriginRace.cfg` and `MCClientOutboxCart.cfg` end in a counterexample (section 7),
`MCEdgeCatalogShared.cfg` passes (below).

What each shows, and why its bounds are enough:

- **origin.** Seven sales: three honest ones of two terminals and one rival for each thing
  that can collide (number, sale id, key at another terminal, clock), two sessions. Every
  verdict is reached, and two sessions on an empty terminal. Two is the least number of
  sessions that race; the proofs of section 6 remove the bound. `CommittedPrefix` and
  `BalanceIsLedgerSum` are the reconcile queries, `ClockFollowsSequence` is what the
  checkpoint guard is for, `AnswerIsTrue` is what a caller may conclude, `ImplementsJournal`
  the refinement; that a sale is committed once is part of it, and proved (`NoSaleTwice`).
- **gate.** Four sales, one a rival for a number with a clock behind; batches of up to two
  in any order, so a number arrives early, leaves a gap, and fills it in part or whole.
  Checkpoints 0 and 2 are a fresh and a stale read. The window of two numbers out of order
  (1000 in the code) and three ahead (10000) is reached. One fault: a failing queue or a
  lost object. `NumbersHaveOneOwner` quotes the comment in the code; `AlarmCoversOutbox` is an
  invariant of the code's `setAlarm` calls. `GapsFollowArrivals`: what
  is reported after a step is what was reported before and what is missing now, less what the
  prefix has passed, however a gap is cut; so each number that is missing is in an open gap. That
  the open gaps are disjoint and ahead of the prefix is proved only (`GapsCoverMissing`).
  Gaps may also name numbers that have arrived, because only the prefix closes or cuts one
  (section 7). `PrefixAdvances` says of every batch that is accepted where the prefix starts (the
  checkpoint that came with it, if that is ahead), where it stops and which clock it keeps. The
  prefix is moved by the numbers of a batch, by those that wait, and by a checkpoint ahead of an
  object that is new, was lost, or has numbers waiting.
- **edge.** Two sales of one terminal, one request, one consumer, one fault of any service
  or process; the gate does not lose its storage. `EdgeCoversOrigin` and
  `ReceiptOutlivesDelivery` relate the two ends.
- **edge_live.** One sale, two gate calls that interleave at sendBatch, two copies of its
  message, an object that may lose its storage. What is at stake is one receipt, so one sale
  is enough. Attempts end at 2 (90 and 100 in the code): they are reached before and after
  the commit. `MinBatch` is 1 (10): the minimum decides only which requests are refused.
- **catalog.** Three products, pages of two rows: a full page with more to come, a full page
  with nothing after it, a short one, an empty one. Two prices and a product taken off the
  list; versions 1 to 3, so two changes one row at a time or one of two rows; tenants with
  two, three and no products, the last without a version row. One lost request. One terminal:
  what another one could put into the caches the first can put there itself, with an earlier
  download. `MCEdgeCatalogShared.cfg` has two terminals (one price, no fault; 186 thousand
  states, 1 min).
- **sales.** Stock of three and one, carts of two: the second cart does not fit. Two carts
  under one key; adjustments that would go below zero; an import that adds to one product
  and counts the other; a shift that opens, closes and opens again, with copies of each call.
- **reversals.** One order of two units for 5, worth 3 and 2 by the rounding rule; refunds
  in parts, in full, without items, copies with another token, a refund of another
  supervisor, a void, expiry. `RefundsWithinPayment`, `ReversalsAuthorized` and
  `ReversalIsFinal` are about these; `DrawerIsExplained` follows the cash to the shift of
  the sale.
- **outbox.** One sale, two pages with a run of triggerSync each, or two runs in one page
  after the other is closed; a reload, a lost answer or a failing write anywhere. What is at
  stake is one item under several runs. Items do not touch one another: the proofs of
  section 6 are for any number.
- **staff.** Two calls, two users, two PINs, two keys, one signed-in clerk, a lock after two
  failures (5 in the code). Two records: in, out, in again. The lock is per clerk, so one
  is enough; the proofs remove the bounds. The instance is symmetric in calls, PINs, users
  and keys.

Runs of StoreLedger, Timeclock and ClientOutbox set CHECK_DEADLOCK FALSE: when each call is
made and answered, or the keys are used up, nothing more happens. Sequences grow by one per
key, so their length is bounded by the requests.

## 5. Fairness

Safety runs assume none. `ReceiptsSettle` is checked under:

- *the runtime resumes a call* whose await is answered: weak fairness of Send and Mark
  (gate), of Enqueue, RunStatement, ReadVerdict, FinalizeCommitted, DeadLetter and
  FinalizeFailed (edge);
- *an alarm that is set fires*, which the Durable Object runtime guarantees, with retries;
- *queues deliver what they hold*: strong fairness of Deliver, since a consumer is free
  again and again, and weak fairness of the dead-letter consumer;
- *faults end*: at most `MaxFaults` happen. A queue that fails for ever drains nothing.

The terminal is under no obligation to send anything, and nothing is assumed of eviction,
recreation or the loss of a consumer.

`QueuedIsSettled` (outbox): a page that stays open loads, its effect starts a run when it is
rendered with queued items (`OfflineContext.tsx:590-595`), the runs go on and the server
answers them. Nobody has to press a button: an item that failed waits for the cashier, and
counts as settled. It is claimed for a browser that is on-line from some time on.

`CatalogArrives` (catalog): a terminal keeps asking, and its requests are handled; failures
are at most `MaxFaults` and changes of the catalog at most `MaxVersion`. No cache has to
expire: weak fairness is of the handler as a whole, whichever way it takes to a page.

## 6. Proofs

Every invariant and action property of the passing runs is a theorem, for constants of any
size that satisfy the assumptions named in the modules; only liveness is left to TLC.

| module | theorem | property |
|---|---|---|
| PosOriginProofs | TypeCorrect | TypeOK |
| | PrefixCommitted | CommittedPrefix |
| | EverySaleOnce | NoSaleTwice |
| | ClocksInOrder | ClockFollowsSequence |
| | AnswersAreTrue | AnswerIsTrue |
| | HistoryIsAppendOnly | HistoryOnlyGrows |
| | BalancesAreSums | BalanceIsLedgerSum |
| | OriginImplementsJournal | ImplementsJournal (refinement of SaleJournal) |
| IdempotencyGateProofs | GateTypes | TypeOK |
| | NoReceiptForgotten | AlarmCoversOutbox |
| | OneOwnerPerNumber | NumbersHaveOneOwner |
| | NoMarkIsUndone | FinalizedStays |
| | PrefixIsInOrder | PrefixAdvances |
| | MissingNumbersAreReported | GapsCoverMissing |
| | ReportsFollowArrivals | GapsFollowArrivals |
| EdgeSyncProofs | EdgeTypes | TypeOK |
| | ReceiptsAreTrue | CommittedReceiptIsTrue, if KeysAreOwn |
| | ReceiptsAreKept | ReceiptOutlivesDelivery, if KeysAreOwn |
| | EdgeIsAhead | EdgeCoversOrigin |
| | ConsumersUseOrigin | Origin!Spec (the composition refines PosOrigin) |
| | WorkersUseGate | the steps of the gate's tables are Gate!Next |
| EdgeCatalogProofs | CatalogTypes, HeldCatalogs, VerifiedSales | TypeOK, HeldCatalogIsWhole, VerifiedSaleIsListed |
| StoreLedgerProofs | DrawerTypeCorrect, OneDrawer, EffectsOnce, CountIsFinal | DrawerTypeOK, OneOpenShift, OperationsOnce, ClosedIsFinal of DrawerSpec |
| | StoreTypeCorrect | TypeOK |
| | StoreOneDrawer, StoreEffectsOnce, StoreCountIsFinal | OneOpenShift, OperationsOnce, ClosedIsFinal |
| | KeysOnce | KeyOnce |
| | AnswersAreTrue | AnswerIsTrue |
| | ReversalsAreFinal | ReversalIsFinal |
| | ReversalsAreAuthorized | ReversalsAuthorized |
| | RefundsStayWithinPayment | RefundsWithinPayment |
| | DrawersAreExplained | DrawerIsExplained |
| | StocksAreExplained | StockIsExplained, if ImportsOnlyAdd |
| TimeclockProofs | TimeclockTypes, OneRecordOpen, RecordsAndOperations, LockObeyed | TypeOK, OneOpenRecord, RecordsExplained, LockIsObeyed |
| ClientOutboxProofs | OutboxTypes, OutboxIsTruthful, QueuedSalesAreKept | TypeOK, SyncedIsCommitted, QueuedSaleIsKept |

**Sums.** Balances, stocks, drawers and refunds are sums over tables. The models take them with
the folds of the community modules, which are recursive functions over a set, and the induction
theorems of the library cannot be used here. `Sums` therefore goes by well-foundedness: strict
inclusion between the subsets of a finite set has no infinite descent, so among the sets at which
a claim fails there is a least one. That gives the equation of the fold, that its order does
not matter, and what the proofs cite: a sum grows by one term when a row joins, the sum of sums is
the sum, and a sum of naturals is one. The same argument gives a finite set of numbers its least and greatest
element (`Extremes`), which the catalog's pages and the gate's gaps need.

**PosOrigin.** The constants satisfy `SaleAssumption` (what assertSaleShape lets through).
`CommittedPrefix` is not inductive alone: a statement decides on what its
snapshot showed, and the tables have moved since. `IInv` joins to it the type invariant,
`NoSaleTwice`, the clock's order and bounds, `LedgerIsSales`, that a checkpoint of zero
means that no sale is committed, and `StmtSound`: what a running statement
remembers of `prior` and `priorSeq` is still in the tables (they only grow), and a
checkpoint row it saw is still there.

If the statement saw a checkpoint row, it holds the row's lock at `Commit`,
so the guard (number = checkpoint + 1, clock not behind) is about the current prefix. If
it saw none, the guard only says that the number is 1 - and another session may have
committed number 1 since. Then the unique index on (tenant, terminal, sequence) rejects
the insert, because by `CommittedPrefix` a checkpoint above zero means that number 1 is
among the sales. So the row lock is not what orders the first sales of a terminal; the
index is. Dropping either index gives TLC a counterexample (the mutants
`UniqueSaleIdOnly`, `UniqueSeqOnly`).

`BalancesAreSums`: the rows a commit inserts are of a sale that has none yet, at most one for a
product, so the sum over the product's rows changes by what the upsert subtracts.

`OriginImplementsJournal` is proved from the same `IInv`. `Numbered` says that the committed
sales fill 1 to the checkpoint, one each; from it `HoldsAll` says that the journal read from the
tables holds each sale at its number, although JournalOf picks rows with CHOOSE. A commit
extends the journal by its own sale, because the number it commits is the next one and the
older rows stay; every other step leaves the two tables alone.

**IdempotencyGate.** `TypeOK /\ AlarmCoversOutbox /\ NumbersHaveOneOwner` is inductive, under
`GateAssumption`. The alarm's handler counts as an alarm while it runs, because it sets the alarm
again before it ends while a receipt is live; the numbers need that pruning drops only what the
prefix covers.

`GapsCoverMissing` has an invariant of its own, `GapInv`. Alone it is not inductive, because the
table is keyed by a gap's two ends and the INSERT is ignored when the key is taken: a closed row
that still lies ahead would swallow a new open one. So the invariant adds that a closed gap ends
inside the prefix (`ClosedBehind`), and that each open gap ends below a number that has been seen
(`OpenBelowSeen`), so that what a new number leaves behind is ahead of all of them. A
lemma for each part of submitBatch takes the table through it: reconciliation cuts it, the new
numbers add to it, the prefix moves, trimResolvedGaps cuts it again; pruning takes only closed rows.

`ReportsFollowArrivals` goes through the same parts once more and says of each what it does to the
set of reported numbers: reconciliation and trimResolvedGaps take out what the prefix passes and
nothing else (`AdvanceReports`), the new numbers of a batch add those that become missing with them
(`NewGapsReport`), and pruning leaves the set alone (`PruneReports`). `PrefixIsInOrder` needs of the
invariant only that numbers have one owner. The start is the checkpoint of the request if that is
ahead (`ReconciledStart`); the advance takes the longest run of numbers from there
(`AcceptTakes`), and the clock check, made before, covers all of that run.

**EdgeSync.** The invariant follows a sale through the pipeline: everything on its way to the
origin has arrived at the gate (`PrefixCovers`), so that the origin cannot overtake the prefix; a
verdict that a consumer acts on is about a committed sale (`OriginSound`, `Consumers`). A receipt
is found by its key, so what a receipt says is proved for terminals that use a key for one sale
(`KeysAreOwn`). `ConsumersUseOrigin` shows that the composition is a behaviour of PosOrigin,
and `WorkersUseGate` that whatever it does to the object's tables is an action of IdempotencyGate, with
batches and checkpoints that module allows for: so the two modules, each checked and proved on its
own, are the ones that are composed. It is no refinement of Gate!Spec as a whole, because the
bound on failures counts those of all processes.

**EdgeCatalog.** Two facts carry the proofs. `PageCuts`: a page holds what lies up to the cursor
it hands out, or all that is left when it hands out none. It is about counting, since rows are
chosen by LIMIT. And the invariant: each version names one catalog (`Versions`, from the
trigger), and every snapshot, page and partial catalog is a part of the one its version names.

**StoreLedger.** `DrawerInv`, the types of the two sequences with
`DrawerTypeOK /\ OneOpenShift /\ OperationsOnce`, is inductive in the drawer alone: a new shift or
movement has a number that no operation names, and a shift that is still open is not the result
of a close. `Types` extends it to all tables: rows have their types and refer to rows that exist.
`Steps` reduces Next to seven kinds of step (a sale, a refund, an adjustment, a void, an import, a
step of the drawer, and those that only move transactions and tokens), and every property is an
invariant proved under `Types` with one lemma per kind:

- `KeysOnce` is the unique indexes, `UniqueTables`; `AnswersAreTrue` follows an answer to its row
  (`AllTruthful`): rows stay where they are, and the key of a replayed answer is compared.
- `ReversalsAreAuthorized` counts: the refunds of an order by one requester are no more than the
  spent tokens for that requester and order. Each refund spends a token that was not spent, so both
  counts grow together, and a spent token stays spent.
- `RefundsStayWithinPayment` holds for any prices because the property says what becomes of the
  rounding: the value of the units returned so far, share by share (`ReturnedValue`), is at most the
  money refunded. A refund adds the difference of two rounded shares per line; the differences
  telescope, so rounding cannot add up. An order is marked refunded exactly when its refunds are
  its total.
- `DrawersAreExplained` and `StocksAreExplained`: each step adds to one sum on the right what it
  adds to the drawer or the stock on the left. That the stock's ledger leads to it row by row
  (`Continues`) is an invariant with it.
- `StocksAreExplained` assumes `ImportsOnlyAdd`: imports ask to add units, or to set a count. For
  an import that asks to take units away the property does not hold (section 7).

**Timeclock.** The four properties are inductive together with `ClaimsHeld`: a call that has
claimed its key is the only one with that claim until it commits, which is the unique index on
operations.

**ClientOutbox.** The one fact the properties need besides themselves is that an answer "ok" is
about a committed key: a run marks an item after an answer, whatever became of the item in between.

Model-checked only: liveness (`ReceiptsSettle`, `CatalogArrives`, `QueuedIsSettled`), which is out
of the prover's reach.

## 7. Where code and documents disagree

Three runs end in a counterexample, each checking one sentence of the repository:

- **edge_hash** (`index.ts:54`). The Worker hashes the bare sale, commitSale the envelope
  (`postgres.ts:195-203`): no honest sale passes both. The run accepts a sale while every service is
  up and ends with its message in the dead-letter queue. The scripts that build honest sales hash
  the envelope (`scripts/chaos-load-test.ts:102-105` and `234-235`,
  `scripts/postgres-price-integration.ts:75-76`); only handleSync hashes the bare sale.
- **void_after_refund** (`void-service.ts:36`, `refund-service.ts:141`). A partly refunded
  order keeps the status that a void asks for, and the void reverses all of it.
- **supervised_refund** (`refund-service.ts:246`, migration 0014:148-156). The audit event is
  written under the requester, the deferred trigger counts the supervisor's: a refund that
  another person authorized fails at COMMIT.

Four more configurations, run by hand, do the same:

- `MCIdempotencyGateGap.cfg` (`idempotency-do.ts:177`, `GapsCloseOnArrival`). A late number closes no
  gap by itself: trimResolvedGaps compares gaps with the prefix only, and submitBatch records an
  arrival (276-288) without looking at the gap it falls in. After 2, 4 and 3 the gap 3..3 stays
  open, and the terminal is asked for a number that is here, until number 1 arrives. The comment at
  `idempotency-do.ts:291-292` has "a missing earlier sequence from arriving and closing a gap"; the
  test of it (`test/edge-sync.test.ts:160`) has one gap, right after the prefix.
- `MCIdempotencyGateWindow.cfg` (`idempotency-do.ts:250`, `NextNumberIsTaken`). The limit on numbers
  out of order also counts the next number in order. Once the limit's worth of numbers wait, the
  missing one that would free them all is refused, alone or with others, each time it is sent, and
  no checkpoint passes it either. `prodx-pos-edge-sync/README.md:148` limits "out-of-order sequences".
- `MCPosOriginRace.cfg` (`postgres.ts:282`). The comment at `postgres.ts:47-50` promises a
  retryable answer to a statement that lost a race. When two sales were committed since its
  snapshot, the answer is the permanent ORIGIN_HLC_REGRESSION about a committed sale.
- `MCClientOutboxCart.cfg` (`PaymentConfirmationModal.tsx:295-298`). Escape closes the payment
  dialog while its checkout is under way and the cart is still rung up; another payment surface
  of the page has an `isProcessing` of its own and pays the cart again, under a new key.
  `docs/overview/production-principles.md:22` says "Retryable writes must not create duplicate
  financial or inventory effects." With a single surface `CartPaidOnce` holds (two keys, two
  runs; 526 thousand states).

Met while reading, without a configuration of their own:

- Choosing the cloud's version in the conflict dialog marks an item synced that the server
  refused, against "Never pretend an offline transaction is server-committed"
  (`domain/sync.ts:4`). `givenUp` sets such items apart.
- A failed item is not sent again by itself, although its message says so
  (`OfflineContext.tsx:545`); a failure to open the store is kept for the life of the page.
- The sync route attributes a sale to the cashier who is logged in when it is sent, and the
  tender ids the client makes (`tnd-...`) are no UUIDs, as `prodx_payments.id` asks
  (migration 0007:141).
- An order discount is never sent by the client, so the server refuses a cart that has one.
- `CartContext.tsx:245-320` reads items through a ref that a render updates: two scans within
  one render lose one.
- Timeclock: failures are not reset when a lock expires; a PIN may be given to another user
  between authentication and operation; the actor's row and the credential's row can be
  locked in both orders, which PostgreSQL ends with an abort.
- `prodx_payments.status` is `captured` by default (migration 0014:11) and no code writes
  another value, so of the transitions of `payment-lifecycle-route.ts` only captured to
  captured can happen.

- queue() has one try block (`index.ts:277-300`): a lost commit answer or a failing
  markCommitted at attempt 90 marks a committed sale failed. So no property says that a
  failed receipt is about a sale that is not committed.
- An import's negative delta is cut off at zero in the stock and recorded whole in the
  ledger (`catalog-import-route.ts:160-190`), against the rule of a ledger that explains the
  stock. `StockIsExplained` is checked of imports that stay above zero.
- A checkout with a known key and another cart is answered with the stored order
  (`checkout-service.ts:23`); refunds and adjustments compare the payload. `AnswerIsTrue`
  asks no more of a checkout than an order under its key.
- The edge README (line 148) keeps committed and failed receipts 30 days; pruneStorage
  (`idempotency-do.ts:131-133`) prunes only committed ones.
- `supervisor-authorization-route.ts:50` counts a wrong password inside the transaction that
  the error rolls back.
- A shift cannot open with a float of zero: the movement's CHECK refuses it, after the
  service has accepted it. The model has the guard.
- The payment screen makes a key per press (`PaymentConfirmationModal.tsx:418`), so a retry
  of a lost answer is another sale for the server.

## 8. Not modelled

Certificates, signatures, password hashing (cryptography); HTTP shape checks, logging,
metrics, the Worker's read-only end points; retention of aged origin rows; row-level
security (one tenant); the prices and taxes of a checkout; the cart and the client's
arithmetic; sessions and login limits (credential checks and counters of one row);
the payment lifecycle (one possible transition); single-row updates and reads; UI, devices,
localisation, AI providers; generated code, deployment, CI.

Most of the repository's lines are these: screens and dashboards, mock adapters, translations
and a generated bundle hold no decision about the store's records, and a model of them would
say nothing. What is modelled is the part that decides: the edge tier, the store's
transactions, the time clock and the outbox.

## 9. Plan

Done: the edge (SaleJournal, PosOrigin, IdempotencyGate, EdgeSync, EdgeCatalog), the store
(ShiftDrawer, StoreLedger, Timeclock) and the outbox, with proofs of all their safety properties.

1. **An abstract store**: orders with what is left of them, and the balance of goods and cash, as
   the specification that StoreLedger implements; the refinement proved from `Types`.
2. **Prices of a checkout**: the client's totals (`domain/order.ts`) against the server's
   (`checkout-service.ts:28-30`), and the refund's rounding against the trigger's, over
   bounded amounts.
3. **Cart**: held carts, the items ref and staged tenders, composed with ClientOutbox.
4. **Sessions**: expiry, revocation and the login limit.
