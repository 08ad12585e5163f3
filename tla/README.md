# MushroomChain: specifications, model checks and proofs

MushroomChain is a Go server over one SQLite file. Cooperatives register substrate batches,
inspectors release them, dispatchers create and allocate orders, delivery creates one settlement per
farm, finance approves and pays the settlements, and a worker publishes what happened from an outbox
table. This directory holds TLA+ models of that code, the TLC configurations that check them on
small instances, and TLAPS proofs of what matters most for every instance. Line numbers refer to the
files under `src/`; `PROJECT.json` maps each definition to the lines it stands for.

The interesting part of the program is small and sits in one place: many HTTP requests and a worker
run at once, each request does one transaction, and the correctness of stock and money rests on SQL
conditions, version columns, unique keys and leases instead of locks in Go.

## 1. Inventory

| component | source | state it keeps | operations |
|---|---|---|---|
| Store | `internal/storage/sqlite/store.go` | the database file, its WAL, the connections | `Open`, `Migrate`, `WithinTx`, `mapSQLError`, `formatTime` |
| Batches | `service/batches.go`, `sqlite/batches.go` | `substrate_batches`, `quality_inspections` | `Register`, `Inspect`; `Get`, `List`, `ListInspections` read |
| Orders | `service/orders.go`, `sqlite/orders.go` | `orders`, `order_lines`, `inventory_allocations` | `Create`, `Allocate`; `Get`, `List` read |
| Delivery, settlements | `service/orders.go`, `service/settlements.go`, `sqlite/fulfillment.go` | `settlements`, events, audit rows | `MarkDelivered`, `Approve`, `MarkPaid` |
| Outbox worker | `worker/outbox.go`, `sqlite/events.go` | `outbox_events` (status, attempts, owner, lease) | create, claim, publish, complete, fail |
| Shipment queue | `sqlite/fulfillment.go` | `shipments` | `CreateShipment` (by `Allocate`), `ClaimShipment`, `CompleteShipment` (by nobody) |
| Sessions | `service/auth.go`, `sqlite/auth.go`, `middleware/auth.go` | `sessions`, `users` | `Login`, `Authenticate`, `Logout`, `DeleteExpiredSessions` |
| Lifecycle | `cmd/server/main.go` | the processes and goroutines | start, signal, `Shutdown`, cancel, `Wait` |
| HTTP API | `internal/httpapi`, `internal/middleware` | none | decode, call a service, map errors to answers |
| Money, pagination, digests | `internal/money`, `internal/pagination`, `internal/idempotency` | none | pure functions, mostly unused by the services |
| Roles, audit, configuration | `service/identity.go`, `internal/audit`, `internal/config`, `sqlite/bootstrap.go` | none | checks on inputs, one-time set-up |

**How they interact.** An HTTP handler calls one service operation. The operation checks the role of
its caller, takes the time from the clock, and runs a function inside `WithinTx`: a deferred
`BEGIN`, reads, writes, `COMMIT`; any error or the end of the request's context rolls back. Other
requests share only the database. Services that write a settlement also insert a row into
`outbox_events` in the same transaction, and that table is the only channel to the worker. The
worker makes single statements, each a transaction of its own, and the publisher runs between them.
Several servers may use one file.

**What is hard.** A deferred transaction reads a snapshot and fails with "database is locked" if, at
its first write, another one holds the write lock or has committed since. The time a service uses is
read before its transaction starts. Requests are retried by clients, cancelled, and die with the
process between two statements or between commit and answer. The worker's lease can run out during a
publish. Instants are compared as text. Amounts are `int64` products and sums. The rest of the
inventory, line by line, is the list of `hazards` in `PROJECT.json`.

**What makes each component correct.**

- Store: a transaction shows all of its writes or none; nobody waits for a lock for ever.
- Batches: one decision per batch, recorded once; only released stock leaves.
- Orders: no unit is given twice or lost; an order is served whole or not at all, in expiry order,
  from unexpired stock; a lack of stock is reported only when there is one; a create repeated under
  its key is one order, and every answer names it.
- Settlements: each farm is owed what it gave, once; each step has its event and audit row.
- Outbox: only the newest claim decides about an event, and the budget of attempts is kept, as far
  as the names of the workers tell claims apart; every event is delivered or given up in the end.
- Shipments: leases as above; only the newest claim reports, and what it reported as dispatched or
  delivered stays.
- Sessions: nothing is served that came after its session was closed, nobody is refused who has a
  live session, and the requests of a closed session end.
- Lifecycle: the store is open as long as anybody may still use it, and every stop comes to its end.
- Money and pagination: results are exact, and refused exactly where they do not fit.

## 2. Modules

```
Transactions  TextTime  Int64 --- Money, Pagination

Allocation    EXTENDS Transactions, TextTime     implements Ledger
Settlement    EXTENDS Transactions, Int64        implements Payout
OrderCreate   EXTENDS Transactions
Outbox        EXTENDS TextTime                   implements LeaseQueue
Shipment      EXTENDS TextTime                   implements LeaseQueue
Sessions      EXTENDS TextTime
Lifecycle

MC*           EXTENDS the module, values for TLC
*_proofs      EXTENDS the module and TLAPS
```

### Transactions
`WithinTx` over WAL mode, shared by the three modules of services. `db` is the committed contents,
`wk` the pages of the transaction that holds the write lock, `writer` the request that holds it.
`fresh` is the set of requests that have read and whose snapshot nobody has replaced. A replaced
snapshot is not stored here: SQLite refuses its first write, so nothing computed from it can reach
the database. What it does reach is an answer given without a write, and only `Allocate` gives one
that depends on statements after the first; Allocation therefore keeps what such a request still
reads (`snap`). (That replacing explicit snapshots by `fresh` loses nothing else is on the plan as a
refinement.) `Read`, `Write`, `WriteFirst`, `Commit`, `Rollback` and `LoseAll` are the operations;
SQLite itself is external code, modelled from how the store uses it.

### TextTime
`formatTime` writes RFC 3339 text without trailing zeros of the fraction, and SQL compares that
text. `TextLess` is this order on instants counted in ticks: "Z" is larger than "." and than every
digit, so within one second the order of the text is not the order of time. `FracBase` and
`FracDigits` are 10 and 9 in the program; runs use 2 and 1, half seconds, the smallest fraction that
shows the effect. The expiry order of `Allocate`, the leases of both queues and the cleanup of
sessions follow the text, which is why `FirstExpiredFirst`, `LeaseExclusive` and `RefusedRightly`
speak of seconds.

The queues run for ever, so their instants are relative to the current second (`Shift`), and
everything before it is one instant, `Past`: enough for every comparison the code makes, and finite
without a bound on time.

### Allocation, Ledger
`Register`, `Inspect`, the transaction of `Create` and the whole of `Allocate`. Actions follow the
code: `AllocateBegin` is the read of the order with its checks, `AllocateLine` one `ListBatches` for
the next line, `AllocateTake` one turn of the loop over candidates (`AllocateBatch` and
`CreateAllocation`), `OutOfStock` is `ErrCapacity`, `AllocateClose` the transition, the shipment and
the audit row. A request whose snapshot was replaced reads on from `snap` (`Seen`), until it either
wants to write and is refused, or finds nothing to take and answers `ErrCapacity` from a past that
may be wrong by now: `OutOfStock` asks for no fresh snapshot, as `orders.go:106-137` does not.
`CapacityTruthful` therefore compares a refusal with the contents the request has read (`Snapshot`).
`Busy` is an upgrade that fails (`WritesNext`: only a write can), `Cancel` any other error or a
cancelled context, `Crash` the end of the process. Rows are records; a batch is known by its code
and an order by its key, which are unique in the schema. The amounts of an order, names and regions
are left out, and so is the farm of a batch: no decision here depends on them.

`Ledger` says what the cooperative promises, with one indivisible step per business operation and no
requests, versions, pages or statements. `LedgerSpec` reads the committed rows as a ledger
(`StockView`, `PlacedView`), in which a batch that is used up is still "saleable" stock of 0. The
module also holds the three invariants the proofs use, `IInv`, `CommitInv` and `SnapInv`, beside the
properties they serve.

### OrderCreate
What a client of `POST /v1/orders` is told: the lookup by key, the transaction, the second lookup
after any `ErrConflict`, the read after the commit, and the answer. A call stands for the order
identifier it would make. `Others` are other requests that take the write lock in between and
allocate orders. `Duplicate` is the unique constraint, `Busy` the expiry of `busy_timeout`; both are
the same error for `Create`. Here a failed or lost answer is part of the state, which it is not in
Allocation.

### Settlement, Payout
`MarkDelivered`, `Approve`, `MarkPaid` over orders that Allocate has left at version 3, with `Taken`
the allocation rows. `Due` adds up `byFarm` in arithmetic that wraps at `Wide`, 2^63 in the program.
`Approve` compares the version itself and `MarkPaid` leaves it to the UPDATE, as the code does. A
settlement whose amount is not positive is refused (`DeliverRefused`) and undoes the whole delivery.
`Payout` is the promise: an order is delivered with all its dues at once, and each due is approved
and then paid, once. `Int64` is Go's integer arithmetic, shared with Money and Pagination.

### LeaseQueue
What both queues promise: an item waits, is in the hands of one holder, or is settled; only its
holder gives it back or settles it; settled is final. It knows no rows, clocks, leases or faults.

### Outbox
The rows of `outbox_events` and the workers of several servers, each with the owner name it was
built with: `NewOutbox` takes the name as a parameter, and `main.go:58` gives every server's worker
the same one, "server-worker". Nothing assumes that names differ. Steps are single statements:
`Claim`, `Complete`, `Fail`, and between them `PublishSucceeds`, `PublishFails`; `LeaseLost` is
`requireAffected`, `StatementFails` a busy database, `Stop` and `Start` the process.

Where two workers have one name, a worker that is late finds the newer claim under its own name and
ends it. This cannot happen before an event is claimed while a namesake is at work on it, which
`contested` remembers: it is a history variable that no guard reads. What the lease promises of an
event (`Fencing`, `LeaseExclusive`, `BudgetKept`) is stated until then; what holds afterwards as
well is `Outcome`, `EventSettled` and that delivered and dead are final. With names of their own
(`NamedApart`), in a single server, or when every worker is done in time (`PromptApart`), no event
is ever contested. Under `QueueSpec` the holder of an event is the worker whose claim is the newest
and that still works on it; a contested event is in the hands of the worker that contested it until
it is settled, that is, the queue promises only that settled is final.

### Shipment
The shipments that `Allocate` puts into the queue, `ClaimShipment` and `CompleteShipment`. Nothing
in the program calls the last two; the workers are those of the store's tests, which report a
shipment as dispatched, delivered or failed. A failed shipment is claimed again at once: no budget,
no backoff, only `ORDER BY updated_at`. That order counts however old a row is, so a row of an
earlier second keeps its place among the others as a negative number.

### Sessions
`Login`, the `Authenticate` of the service and of the middleware, `Logout` and
`DeleteExpiredSessions`. None of them uses a transaction, so each statement is a step: the account
may be closed between its read and the INSERT of the session, the session may end, be revoked or be
deleted between the SELECT and the check of its row, and a request goes on under a session that is
closed while it runs. A token is random and stands for its session; `late` is no state of the
program but remembers whether the session was closed when the request came.

### Lifecycle
One process: `run` with its `select`, `Shutdown`, `cancel`, `Wait` and `Close`; `outbox.Run`, which
calls `wg.Add` in its own goroutine; `ListenAndServe`; the handlers; and a restart. Statements are
steps of which only the place in this order matters. `failed` collects who met a closed store.

### Money, Pagination
Pure functions. `Money` has `Cents`, `Add`, `Multiply`, `Parse` and `String`; a text is what `Parse`
looks at of it (a leading "-", the number of dots, the value of the part before the first dot, the
characters behind it). `Pagination` has the pages `New` accepts, `Offset`, the number of pages
`Build` reports, and the rows `LIMIT ? OFFSET ?` selects. They are not run by TLC: their theorems
compare them with exact arithmetic for words of any width.

## 3. Runs

Each module with state has a run, and there is one for each disagreement between the code and what
the repository says of it.

| run | instance | checks and shows |
|---|---|---|
| `allocation` | 2 requests, 2 batches, 2 orders, 3 lines, 2 species | stock conserved, all or nothing, only released stock, the trail, no lost update, expiry order by the second, nothing expired, capacity errors true of what was read, every request ends; implements `Ledger` |
| `allocation_page` | page of 1, 2 batches | violation: finding 1 |
| `order_create` | 4 calls, 3 with one key, one other writer | one whole order per key, equal answers, duplicates are found, every call is answered |
| `order_create_busy` | the same | violation: finding 2 |
| `settlement` | 2 requests, 3 orders, 2 farms, 3 batches | paid in full, matching history, no lost update, every request ends; implements `Payout` |
| `settlement_overflow` | amounts from -4 to 3 | violation: finding 3 |
| `outbox` | 3 workers, 2 of them of one name, 1 event | exclusive leases, fencing, budget, outcome, every event is settled; implements `LeaseQueue` |
| `outbox_lease` | 1 event, 2 workers of one name | violation: finding 4 |
| `outbox_namesakes` | 1 event, 2 workers of one name, whole seconds | violation: finding 5 |
| `shipment` | 2 workers, 2 shipments | exclusive leases; implements `LeaseQueue` |
| `sessions` | 2 requests, 2 tokens, 1 account | no late entry, no wrong refusal, closed sessions drain |
| `lifecycle` | 2 handlers, restarts | the worker never meets a closed store, a handler only after a timeout or a lost listener, every stop ends |

**Bounds, and why they are enough.**

- *Two requests.* A request meets the rest of the system only as "someone holds the lock" and
  "someone has committed since", and one other request can be both. The proofs remove this bound for
  what they cover. `order_create` has three calls with one key so that a duplicate can meet a
  duplicate.
- *Two batches, three lines.* One order has two lines, of one species that compete for the same
  batch or of two that do not, and the other order competes with both; batches can be too small,
  exactly enough, exhausted and expired.
- *`Versions` 1..4 and 1..5* are the expected versions a client sends: every version at which an
  operation that compares versions can succeed, and wrong ones for each.
- *`Horizon`* is the last instant a request of Allocation takes from its clock. Requests take theirs
  before their transactions, so instants come in any order and there is no clock of the whole: the
  batch that expires at 1 is met before and after its expiry, the one that expires at 3 is always
  good. `PageSize` stands for 100: at 2 it never cuts anything in these instances, at 1 it does. In
  Sessions a session lasts two ticks and the clock three, so that a session ends while another one
  begins.
- *One event* in `outbox`: events meet only in the order in which claims take them, on which no
  property depends, and the proofs have any number of them. Three workers are two servers as
  `main.go` builds them and one of another name, so that an event is overtaken both with and without
  a contest, and a third claim comes while two late workers are still at it.
- *`ClaimBound`* stops looking at an event after four claims with a budget of two, so claims beyond
  the budget happen; `EventSettled` counts an event that reaches the bound as out of sight.
  *`MaxFaults`* allows that many stops and failed statements, and a fault at every place is tried;
  the lapsed leases of late workers are no faults and come without a bound. `outbox_namesakes` has
  whole seconds only, in which the text order is the order of time, so that nothing but the names is
  at fault. `MaxDelay` is one second instead of 60. Leases are three ticks, a second and a half, so
  that they end in the middle of a second and can be outlived by a publish.
- *`Wide`* is 100 in `settlement`, with one order whose due wraps to a negative amount and is
  refused.
- *One call stands for one order* in OrderCreate: a repeated call is another call with the same key.

- *One account, two tokens, two requests* in Sessions: a login beside a request under an older
  session, and two requests under one session, one of which logs out.
- *Lifecycle* has no bound besides its two handlers.

No configuration uses symmetry, and none switches the check for deadlock off.

**Fairness.** `FairSpec` of Allocation, Settlement and OrderCreate is weak fairness of each
request's own next step: Go schedules every goroutine, and SQLite answers every statement, if need
be with an error after `busy_timeout`. Nothing is assumed of requests that have not begun, of
cancellations or of crashes, and in OrderCreate nothing is assumed of the other writer, which may
keep the lock for ever. In Sessions, a request that has begun goes on; nobody has to log in, log out
or clean up. In Outbox, each worker that can claim or finish does so, stopped servers are started
again, and time passes. `EventSettled` assumes in addition that from some time on workers are
`Prompt`, done with their event before the second in which its lease lapses; before that they may be
as late as they like. Without it no event need ever be settled, since each publish may outlive its
lease; the configuration gives a lease of seconds to a publisher that writes one log line. Nothing
fair is assumed of Shipment, since the program has no worker that claims shipments. In Lifecycle,
`run` and the worker go on and the timer of `Shutdown` fires, while handlers may hang for ever;
strong fairness of `WorkerReturns` is what Go's `select` provides, which chooses at random between
the ticker and `ctx.Done` when both are ready.

## 4. Proofs

Each `*_proofs` module proves `Inductive == Spec => []IInv` for an invariant `IInv` that TLC had
confirmed before, one lemma per action, and derives the properties from it. They hold for every
number of requests, batches, orders, lines, farms, workers, events, shipments, tokens, users and
handlers, under the assumptions stated in the modules, which say no more than types, finiteness,
distinct owners in Shipment, that `None` is no member of anything, and, in `TextTime`, that powers
and ticks are positive numbers, which is arithmetic the provers lack. A few theorems have a
condition of their own, without which they would be false: `TruthfulCapacity` and
`FarmersPaidInFull`, as findings 1 and 3 show, and `NamedApart`, `PromptApart` with the two about
the budget that follow from them, as finding 5 shows. Every invariant and every action property of
the runs that pass, and every refinement, is proved.

- **Allocation** proves `TypeCorrect`, `StockIsConserved`, `AllocatedInFull`. Conservation of the
  committed rows is not inductive, since a commit replaces them by pages that were written earlier.
  `IInv` therefore says the same of `wk`, and of the order being allocated that what its lines were
  given plus what the request still owes (`Owed`) is what they asked for; that a batch in its page
  of candidates is released and gives to this line for the first time; and that an inspection which
  can still commit sees an undecided batch. Quantities are sets of units and sums are cardinalities,
  which the library's theorems handle without induction (`UnitsAdded`).
- **Allocation, second part**: `ReleasedStockOnly`, `TrailsMatch`, `NoUpdateIsLost`,
  `ExpiredStockStays`, `ExpiryOrderKept` and `ImplementsLedger`. These speak of what a commit
  replaces, so they need to know how the pages of the lock holder came to be. That is `CommitInv`, a
  second invariant, which is inductive next to `IInv` (`CommitsInOrder`); TLC checked it first. It
  has four parts:
    - `RecordsIn`, of `db` and of `wk`: trails, inspections and the origin of what was allocated.
    - `VersionInv`: a version a request was given is the one its snapshot has. It is kept since a
      commit by another ends the snapshot (`Live`), and it gives `NoUpdateIsLost`.
    - `PageInv`: what the loop of `Allocate` has still to look at. Usable stock outside the page
      expires in no earlier second than anything in it, and there is none if the species fits on
      one page (`OnOnePage`).
    - `WriterInv`: `wk` is one whole operation done on `db`, whose conditions `db` meets. For an
      allocation, written over many steps, this is `Drawn`: only batches that may be used have
      given, nothing was given twice, and what had to go first is gone (`GoesFirst`). A commit of
      `wk` is therefore one step of the ledger, and all other steps stutter.

- **Allocation, third part**: `TruthfulPage` and `TruthfulCapacity`. A refusal is true by counting.
  When a request meets `OutOfStock` with `OnOnePage`, the species of its line has no usable unit
  left in what it reads, so each unit that was usable in its snapshot has gone to a line of this
  order and species. The units that were there are thus mapped one to one into those that are
  wanted, with at least one to spare (`OutOfUsable`, `FewerUnits`). A request whose snapshot was
  replaced has written nothing, so nothing has gone to any line; that it has looked at all it could
  use is the third inductive invariant, `SnapInv` (`SnapshotsKept`). `TruthfulPage` says this of
  every refusal of a request that saw all of the species; `TruthfulCapacity` of every refusal, if
  there are no more batches than a page has rows. Neither says that the stock is still missing when
  the answer is given: another request may have had a batch released in between, and `Allocate` does
  not look again.
- **OrderCreate** proves `TypeCorrect`, `OneWholeOrder`, `RetriesAgree`, `DuplicatesAreFound`.
  `IInv` says how far the pages of the lock holder are from the committed contents at each point of
  a call, and that nobody else has its key; of another writer, that it has at most allocated one
  confirmed order.
- **Settlement** proves `TypeCorrect`, `HistoriesMatch`, `LostUpdatesRefused` and
  `ImplementsPayout`, the refinement. `IInv` says that the pages of the lock holder are the
  committed contents with exactly one operation done whose conditions those contents meet; so a
  commit is one step of `Payout` and every other step stutters. In all this a due is a value like
  any other. `FarmersPaidInFull` looks into it: `AmountInv` says that what is stored is what
  `MarkDelivered` computed and is positive, and `DueWrapsWorth` that what it computed is the true
  worth, wrapped. For the latter the cents an order owes are a set, and both folds are shown to
  count it, the wrapping one up to `Wrap`: a smallest set of batches for which a fold went wrong
  would have a smaller one (`WFMin`, as induction is not at hand). Up to a worth of twice `Wide`,
  2^64 cents, wrapping yields the worth itself or an amount that is not positive, which
  `CHECK (amount_cents > 0)` refuses; one cent more and it yields 1. So the condition of the theorem
  cannot be relaxed, and orders beyond it are finding 3.
- **Outbox** proves `TypeCorrect`, `LeasesExclude`, `BudgetIsKept`, `OutcomeIsEarned`,
  `ClaimsAreFenced` and `ImplementsQueue` whatever the workers are called. `IInv` says that workers
  at one uncontested event differ in their names, that a worker that holds such an event knows the
  row as it is, and that any other was overtaken after its lease had lapsed; of contested events it
  keeps what `Outcome` needs, that no worker knows a later attempt than the row. `NamedApart` and
  `PromptApart` then say when no event is contested: if names are distinct, which covers the one
  worker of a single server with its stops and restarts, or if workers of any names are prompt under
  a lease of at least a second. `BudgetOfNamedServers` and `BudgetOfPromptServers` draw the
  conclusion for the sentence of the repository's README that `outbox_namesakes` refutes in general.
  The proofs need no bound on time and nothing of the text order beyond "an earlier second is
  earlier text". For the refinement, `HolderRight` first replaces the CHOOSE in the definition of
  the holder by the one worker it can name; then each action is a step of the queue or a stutter.
- **Shipment** proves `TypeCorrect`, `LeasesExclude` and `ImplementsQueue` in the same way: `IInv`
  says that a worker that holds its shipment knows its lease, and that one that lost it outlived it.
- **Sessions** proves `TypeCorrect`, `NobodyEntersLate` and `RefusalsAreRight`. `IInv` says of every
  request what its row is worth: it is the row of its token, out of date only in that the session
  has been closed since, and only sessions that are spent are deleted.
- **Lifecycle** proves `TypeCorrect`, `StoreOutlivesWorker` and `StoreOutlivesHandlers`. A worker
  that registers after `Wait` has returned is no danger, because `IInv` has `ctx` cancelled before
  `Wait` on both ways out of the `select`: it looks at `ctx` before its first statement.
- **Numbers** (`Numbers_proofs`, about Money and Pagination) proves, for every word of at least a
  thousand values, that `Add` and `Multiply` are exact and refuse exactly what does not fit
  (`AddExact`, `MultiplyExact`), that `Parse` yields no negative amount and reads back every text
  `String` writes (`ParseSound`, `RoundTrip`), and that the pages of a list tile it (`PagesTile`).
  `FarPageIsFirst` says what `New` lets through, see below. The key is `FitsTimes`: a quotient is at
  least q exactly if the divisor fits q times.

**Model-checked only.** Liveness, that is `EveryRequestEnds` of Allocation and of Settlement,
`EveryCallAnswered`, `EventSettled`, `Drained` and `Stops`: it rests on fairness and on `ENABLED`,
which the prover does not handle. What the five runs that end in a violation check is false of the
code on their instances; the theorems say where it holds (`TruthfulPage`, `FarmersPaidInFull`,
`BudgetOfNamedServers`, `BudgetOfPromptServers`) or what holds instead (`LeasesExclude`,
`DuplicatesAreFound`).

## 5. Where the code and what is said of it disagree

1. `allocation_page`: `Allocate` looks at one page of 100 released batches
   (`service/orders.go:107`). Expired batches stay released and sort first, so with enough of them
   an order is refused with "released inventory cannot satisfy the order" (`response.go:47`)
   although the stock is there.
2. `order_create_busy`: a locked database is an `ErrConflict` ("database busy"), which `Create`
   takes for a duplicate key; it finds no order and answers 404 "resource was not found".
3. `settlement_overflow`: quantity times price wraps in `int64`; if the result is positive it is
   stored and paid. The checked arithmetic of `internal/money` is not used.
4. `outbox_lease`: a lease that ends at `12:00:01.5Z` looks lapsed at `12:00:01Z`, because the text
   continues with "." in one and "Z" in the other. The order of batches by `expires_at` and the
   cleanup of sessions have the same limit within a second. The invariant that does hold, and is
   proved, is the one to the second (`LeaseExclusive`).
5. `outbox_namesakes`: every server's worker is called "server-worker" (`main.go:58`), and a
   completion or failure is matched to its claim by that name. If a publish outlives its lease and
   another server has claimed the event, the late worker ends that claim. In the run it reports the
   failure of the first attempt while the last one is being made: the event goes back to the queue
   with its budget spent, where the README (line 20) has it fail for good. One server per database
   is safe, and so are several whose publishes end in time.

Besides, these are worth knowing, though nothing in the repository says otherwise:

- Without an `Idempotency-Key` header the key is the empty string (`httpapi/orders.go:25`), a key
  like any other: the second such order of a tenant is answered with the first one.
- An event whose worker stops during its last attempt is claimed once more, since the budget is
  compared only when a failure is reported (`worker/outbox.go:76`). What holds, and is proved, is
  that nothing beyond the budget is queued again (`BudgetKept`).
- The offset of a page wraps around for page numbers near 2^63 and SQLite takes a negative offset
  for none, so such a page shows the rows of the first one (`FarPageIsFirst`).
- `money.Parse` lets `ParseInt` read the digits behind the dot, signs included: "5.+5" is 5.05, and
  "5.-0" and "5.-" are 5.00. A fraction really below zero, as in "5.-5", is refused only because the
  test for an overflow overflows itself (`NoRoomBelowZero`).
- A failed lookup of a session, be it a busy database, is answered like a missing session
  (`service/auth.go:67`), and `MarkDelivered` leaves the shipment of its order pending.

## 6. What is not modelled

- Roles, password hashes, tokens, HTTP decoding, configuration, logging: they change no state that
  another operation relies on, or are opaque (`bcrypt`, SHA-256).
- Tenants: the statements of the services are restricted to the caller's tenant, so a model is one
  tenant; the worker takes the events of all tenants alike.
- Farms of batches and the check in `Register` that a farmer owns the farm: a test of the caller.
- Versions of orders in OrderCreate, and amounts of orders: no step there depends on them.
- The queries of `Get` and `List`, whose COUNT and SELECT are two statements, and
  `pagination.Parse`; `restoreBatch`, which nobody calls; the digests of `internal/idempotency`,
  which no service uses.
- What `bootstrap` writes before the server listens.
- Failures of the disk and of SQLite itself.

## 7. Plan

The order follows what the business would lose first: stock, money, messages, double orders, then
shipments, sessions and the end of the process. These are modelled, and their safety is proved.
Next:

1. `SnapshotStore`: transactions with explicit snapshots implement `Transactions`, which turns the
   argument about `fresh` into a proof.
2. Compositions: every committed settlement step is published at least once (Settlement with
   Outbox); an allocated order has one shipment in the queue (Allocation with Shipment).
3. The safety half of the liveness properties: that a request which has begun always has a next
   step of its own, short of `ENABLED`, by naming the step for each `pc`.
4. `restoreBatch`, once something calls it.
