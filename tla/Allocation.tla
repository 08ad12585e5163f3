---- MODULE Allocation ----
(***************************************************************************)
(* From substrate batch to allocated order: the services Register and      *)
(* Inspect (service/batches.go), the write transaction of Create and the   *)
(* whole of Allocate (service/orders.go), each as a transaction of the     *)
(* store that runs concurrently with the others.  A batch is known by its  *)
(* code and an order by its idempotency key, both unique in the schema.    *)
(***************************************************************************)
EXTENDS Transactions, TextTime, Integers, Sequences, FiniteSets

CONSTANTS Batches,      \* the codes batches are registered under
          Orders,       \* the idempotency keys orders are created under
          Lines,        \* the order lines
          OrderOf,      \* the order a line belongs to
          Species,
          Offered,      \* Offered[b]: the inputs Register may get for b
          Wanted,       \* Wanted[o]: the inputs Create may get for o
          Rank,         \* produced_at and id, that order equal expiries
          PageSize,     \* the page Allocate asks ListBatches for: 100
          Horizon       \* bound: the last instant a request takes from its clock

BatchInput == [species : Species, quantity : Nat \ {0}, expires : Nat]
LineInput  == [species : Species, quantity : Nat \ {0}]
LinesOf(o) == {l \in Lines : OrderOf[l] = o}

ASSUME AllocationAssumption ==
    /\ None \notin Requests \union Batches \union Orders \union Lines \union Species
    /\ IsFiniteSet(Lines) /\ IsFiniteSet(Batches)
    /\ Batches \intersect Orders = {}
    /\ OrderOf \in [Lines -> Orders]
    /\ \A b \in Batches : Offered[b] \subseteq BatchInput
    /\ \A o \in Orders : \A input \in Wanted[o] :
          /\ DOMAIN input # {} /\ DOMAIN input \subseteq LinesOf(o)
          /\ \A l \in DOMAIN input : input[l] \in LineInput
    /\ Rank \in [Batches -> Nat]
    /\ \A b, c \in Batches : Rank[b] = Rank[c] => b = c
    /\ PageSize \in Nat
    /\ Horizon \in Nat

VARIABLES req,          \* what each request is doing
          snap          \* snap[r]: what an allocation that is not fresh reads

vars == <<db, wk, writer, fresh, req, snap>>

Times == 0..Horizon
Versions == 1..4        \* bound: the expected versions a client may send

-----------------------------------------------------------------------------
\* The rows.  A row that is not in its table has the status "absent"; an order
\* line or an allocation that is not in its table has quantity 0.

BatchStatus == {"registered", "sampling", "released", "rejected", "exhausted"}
OrderStatus == {"draft", "confirmed", "allocated"}

NoBatch == [status |-> "absent", species |-> None, produced |-> 0,
            available |-> 0, expires |-> 0, version |-> 0]
NoOrder == [status |-> "absent", version |-> 0]
NoLine  == [species |-> None, quantity |-> 0]

EmptyDatabase ==
    [batch      |-> [b \in Batches |-> NoBatch],
     inspected  |-> [b \in Batches |-> <<>>],
     order      |-> [o \in Orders |-> NoOrder],
     line       |-> [l \in Lines |-> NoLine],
     alloc      |-> [l \in Lines |-> [b \in Batches |-> 0]],
     shipments  |-> {},
     batchAudit |-> [b \in Batches |-> <<>>],
     orderAudit |-> [o \in Orders |-> <<>>]]

\* OrderStatus.CanTransition, for the transitions some service asks for here.
OrderCanTransition(from, to) ==
    <<from, to>> \in {<<"draft", "confirmed">>, <<"confirmed", "allocated">>}

\* UPDATE ... SET status=?, version=version+1.
Transition(row, to) == [row EXCEPT !.status = to, !.version = @ + 1]

-----------------------------------------------------------------------------
\* What the statements of the store compute from the contents d they see.

\* Mutant: the query forgets the status.
ListedAnyStatus(d, species) ==
    {b \in Batches : d.batch[b].species = species}

\* ListBatches with a species and the status released, in the order of the
\* query: expires_at as text, then produced_at and id.
Listed(d, species) ==
    {b \in Batches : /\ d.batch[b].status = "released"
                     /\ d.batch[b].species = species}

\* Mutant: ORDER BY id.
PrecedesById(d, b, c) == Rank[b] < Rank[c]

Precedes(d, b, c) ==
    \/ TextLess(d.batch[b].expires, d.batch[c].expires)
    \/ d.batch[b].expires = d.batch[c].expires /\ Rank[b] < Rank[c]

\* Mutant: the page ends one row early.
FirstPageShort(d, species) ==
    {b \in Listed(d, species) :
        Cardinality({c \in Listed(d, species) : Precedes(d, c, b)}) < PageSize - 1}

FirstPage(d, species) ==
    {b \in Listed(d, species) :
        Cardinality({c \in Listed(d, species) : Precedes(d, c, b)}) < PageSize}

\* Mutant: the loop does not look at the expiry.
UsableExpired(d, b, at) == d.batch[b].available > 0

\* A candidate the loop of Allocate does not skip.
Usable(d, b, at) == d.batch[b].expires > at /\ d.batch[b].available > 0

\* Mutant: the smaller of the two is not taken.
PortionUnbounded(available, left) == left

\* What one candidate gives to a line that still needs left.
Portion(available, left) == IF available < left THEN available ELSE left

\* Mutant: an exhausting UPDATE sets the status and forgets the quantity.
AllocateBatchKeeps(row, n) ==
    [row EXCEPT !.available = IF row.available = n THEN @ ELSE @ - n,
                !.version = @ + 1,
                !.status = IF row.available = n THEN "exhausted" ELSE @]

\* The conditional UPDATE of allocateBatch.
AllocateBatch(row, n) ==
    [row EXCEPT !.available = @ - n,
                !.version = @ + 1,
                !.status = IF row.available = n THEN "exhausted" ELSE @]

\* createBatch with the row Register builds, and its audit event.
RegisterBatch(d, b, input) ==
    [d EXCEPT !.batch[b] = [status |-> "registered", species |-> input.species,
                            produced |-> input.quantity, available |-> input.quantity,
                            expires |-> input.expires, version |-> 1],
              !.batchAudit[b] = Append(@, "batch.register")]

\* The writes of Inspect: a registered batch passes through sampling.
InspectBatch(d, b, decision) ==
    LET row == d.batch[b]
        sampling == IF row.status = "registered" THEN Transition(row, "sampling") ELSE row
        target == IF decision = "rejected" THEN "rejected" ELSE "released"
    IN  [d EXCEPT !.batch[b] = Transition(sampling, target),
                  !.inspected[b] = Append(@, decision),
                  !.batchAudit[b] = Append(@, "batch.inspect")]

\* createOrder (draft, version 1), its lines, the transition to confirmed.
CreateOrder(d, o, input) ==
    [d EXCEPT !.order[o] = Transition([status |-> "draft", version |-> 1], "confirmed"),
              !.line = [l \in Lines |-> IF l \in DOMAIN input THEN input[l] ELSE @[l]],
              !.orderAudit[o] = Append(@, "order.create")]

\* AllocateBatch and CreateAllocation for one candidate of one line.
TakeFrom(d, l, b, n) ==
    [d EXCEPT !.batch[b] = AllocateBatch(@, n),
              !.alloc[l][b] = n]

\* What Allocate writes after its last line.
CloseAllocation(d, o) ==
    [d EXCEPT !.order[o] = Transition(@, "allocated"),
              !.shipments = @ \union {o},
              !.orderAudit[o] = Append(@, "order.allocate")]

-----------------------------------------------------------------------------
\* The requests.  pc says what the request does next; at is the instant the
\* service took from its clock, ver the expected version of the client.  For
\* Allocate: line is the order line in work, left what it still needs, todo
\* the candidates not visited yet, lines the lines not started.

Idle == [pc |-> "idle", on |-> None, ver |-> 0, at |-> 0,
         lines |-> {}, line |-> None, left |-> 0, todo |-> {}]

Become(r, state) == req' = [req EXCEPT ![r] = state]

\* What a statement of an allocation reads.  An allocation whose snapshot was
\* replaced can write no more, but what it still reads decides what it answers.
Seen(r) == IF Live(r) THEN View(r) ELSE snap[r]

\* What had been committed when the transaction of an allocation began.
Snapshot(r) == IF Live(r) THEN db ELSE snap[r]

\* What an allocation of order o reads of the contents d: the lines of the order
\* and released batches.
Readable(d, o) ==
    [EmptyDatabase EXCEPT
        !.line  = [l \in Lines |-> IF OrderOf[l] = o THEN d.line[l] ELSE NoLine],
        !.batch = [b \in Batches |-> IF d.batch[b].status = "released" THEN d.batch[b]
                                                                     ELSE NoBatch]]

\* A commit of r leaves the other allocations with the contents it replaced.
KeepSnapshots(r) ==
    snap' = [p \in Requests |-> IF p \in fresh \ {r} /\ req[p].pc = "allocating"
                                THEN Readable(db, req[p].on) ELSE snap[p]]

\* The transaction of r is over, and its snapshot with it.
DropSnapshot(r) == snap' = [snap EXCEPT ![r] = EmptyDatabase]

\* Register: GetFarm is the read that fixes the snapshot.
RegisterBegin(r) ==
    /\ req[r].pc = "idle"
    /\ Read(r)
    /\ Become(r, [Idle EXCEPT !.pc = "registering"])
    /\ UNCHANGED snap

RegisterWrite(r, b, input) ==
    /\ req[r].pc = "registering"
    /\ View(r).batch[b].status = "absent"
    /\ Write(r, RegisterBatch(View(r), b, input))
    /\ Become(r, [req[r] EXCEPT !.pc = "committing", !.on = b])
    /\ UNCHANGED snap

\* UNIQUE (tenant_id, code).
RegisterDuplicate(r, b) ==
    /\ req[r].pc = "registering"
    /\ CanWrite(r)
    /\ View(r).batch[b].status # "absent"
    /\ Rollback(r)
    /\ Become(r, Idle)
    /\ DropSnapshot(r)

\* Mutant: the status check is missing.
InspectBeginAgain(r, b, ver) ==
    /\ req[r].pc = "idle"
    /\ db.batch[b].version = ver
    /\ Read(r)
    /\ Become(r, [Idle EXCEPT !.pc = "inspecting", !.on = b, !.ver = ver])
    /\ UNCHANGED snap

\* Inspect: GetBatch, the version check and the status check.
InspectBegin(r, b, ver) ==
    /\ req[r].pc = "idle"
    /\ db.batch[b].version = ver
    /\ db.batch[b].status \in {"registered", "sampling"}
    /\ Read(r)
    /\ Become(r, [Idle EXCEPT !.pc = "inspecting", !.on = b, !.ver = ver])
    /\ UNCHANGED snap

InspectWrite(r, decision) ==
    /\ req[r].pc = "inspecting"
    /\ Write(r, InspectBatch(View(r), req[r].on, decision))
    /\ Become(r, [req[r] EXCEPT !.pc = "committing"])
    /\ UNCHANGED snap

\* The transaction of Create, whose first statement is the INSERT.  An existing
\* key is refused by UNIQUE (tenant_id, idempotency_key) and changes nothing.
Create(r, o, input) ==
    /\ req[r].pc = "idle"
    /\ db.order[o].status = "absent"
    /\ WriteFirst(r, CreateOrder(db, o, input))
    /\ Become(r, [Idle EXCEPT !.pc = "committing", !.on = o])
    /\ UNCHANGED snap

\* Mutant: the expected version is not compared.
AllocateBeginUnchecked(r, o, ver, at) ==
    /\ req[r].pc = "idle"
    /\ db.order[o].status = "confirmed"
    /\ Read(r)
    /\ Become(r, [Idle EXCEPT !.pc = "allocating", !.on = o, !.ver = ver, !.at = at,
                              !.lines = {l \in LinesOf(o) : db.line[l].quantity > 0}])
    /\ UNCHANGED snap

\* Allocate: now is read before the transaction starts, GetOrder after.  Whatever
\* began or committed in between, so the instants of requests come in any order.
AllocateBegin(r, o, ver, at) ==
    /\ req[r].pc = "idle"
    /\ db.order[o].version = ver
    /\ db.order[o].status = "confirmed"
    /\ Read(r)
    /\ Become(r, [Idle EXCEPT !.pc = "allocating", !.on = o, !.ver = ver, !.at = at,
                              !.lines = {l \in LinesOf(o) : db.line[l].quantity > 0}])
    /\ UNCHANGED snap

\* The next line of the order (GetOrder lists them by a random id): one page
\* of candidates is read for it.
AllocateLine(r, l) ==
    /\ req[r].pc = "allocating"
    /\ req[r].left = 0
    /\ l \in req[r].lines
    /\ LET want == Seen(r).line[l]
       IN  Become(r, [req[r] EXCEPT !.lines = @ \ {l},
                                    !.line = l,
                                    !.left = want.quantity,
                                    !.todo = FirstPage(Seen(r), want.species)])
    /\ UNCHANGED <<tx, snap>>

\* The candidate the loop takes next: the first usable one of the page.
NextCandidate(r, b) ==
    /\ b \in req[r].todo
    /\ Usable(View(r), b, req[r].at)
    /\ \A c \in req[r].todo : Usable(View(r), c, req[r].at) => ~Precedes(View(r), c, b)

AllocateTake(r, b) ==
    /\ req[r].pc = "allocating"
    /\ req[r].left > 0
    /\ NextCandidate(r, b)
    /\ LET n == Portion(View(r).batch[b].available, req[r].left)
       IN  /\ Write(r, TakeFrom(View(r), req[r].line, b, n))
           /\ Become(r, [req[r] EXCEPT !.left = @ - n, !.todo = @ \ {b}])
    /\ UNCHANGED snap

\* Mutant: what was taken so far is committed.
OutOfStockKeeps(r) ==
    /\ req[r].pc = "allocating"
    /\ writer = r
    /\ req[r].left > 0
    /\ \A b \in req[r].todo : ~Usable(View(r), b, req[r].at)
    /\ Become(r, [req[r] EXCEPT !.pc = "committing"])
    /\ UNCHANGED <<tx, snap>>

\* ErrCapacity: the page is used up and the line still needs something.
OutOfStock(r) ==
    /\ req[r].pc = "allocating"
    /\ req[r].left > 0
    /\ \A b \in req[r].todo : ~Usable(Seen(r), b, req[r].at)
    /\ Rollback(r)
    /\ Become(r, Idle)
    /\ DropSnapshot(r)

\* Mutant: the check that nothing remains is missing.
AllocateCloseShort(r) ==
    /\ req[r].pc = "allocating"
    /\ req[r].lines = {}
    /\ OrderCanTransition(View(r).order[req[r].on].status, "allocated")
    /\ req[r].on \notin View(r).shipments
    /\ Write(r, CloseAllocation(View(r), req[r].on))
    /\ Become(r, [req[r] EXCEPT !.pc = "committing"])
    /\ UNCHANGED snap

\* After the last line: the order, the shipment (UNIQUE order_id), the audit.
AllocateClose(r) ==
    /\ req[r].pc = "allocating"
    /\ req[r].left = 0 /\ req[r].lines = {}
    /\ OrderCanTransition(View(r).order[req[r].on].status, "allocated")
    /\ req[r].on \notin View(r).shipments
    /\ Write(r, CloseAllocation(View(r), req[r].on))
    /\ Become(r, [req[r] EXCEPT !.pc = "committing"])
    /\ UNCHANGED snap

CommitRequest(r) ==
    /\ req[r].pc = "committing"
    /\ Commit(r)
    /\ KeepSnapshots(r)
    /\ Become(r, Idle)

\* The next statement of r is a write.
WritesNext(r) ==
    \/ req[r].pc \in {"registering", "inspecting"}
    \/ /\ req[r].pc = "allocating"
       /\ \/ req[r].left = 0 /\ req[r].lines = {}
          \/ req[r].left > 0 /\ \E b \in req[r].todo : Usable(Seen(r), b, req[r].at)

\* Mutant: a stale snapshot is waited for instead of refused.
BusyLocked(r) ==
    /\ WritesNext(r)
    /\ writer \notin {None, r}
    /\ Rollback(r)
    /\ Become(r, Idle)
    /\ DropSnapshot(r)

\* A write that needs the lock fails: another request holds it, or the
\* snapshot is stale.  WithinTx rolls back and the client gets a conflict.
Busy(r) ==
    /\ WritesNext(r)
    /\ ~CanWrite(r)
    /\ Rollback(r)
    /\ Become(r, Idle)
    /\ DropSnapshot(r)

\* The context of the request ends, or a statement fails: ROLLBACK.
Cancel(r) ==
    /\ req[r].pc # "idle"
    /\ Rollback(r)
    /\ Become(r, Idle)
    /\ DropSnapshot(r)

Crash == /\ LoseAll
         /\ req' = [r \in Requests |-> Idle]
         /\ snap' = [r \in Requests |-> EmptyDatabase]

-----------------------------------------------------------------------------
Init == /\ StartStore(EmptyDatabase)
        /\ req = [r \in Requests |-> Idle]
        /\ snap = [r \in Requests |-> EmptyDatabase]

\* What a request does once it has begun, and what begins one.
Progress(r) ==
    \/ \E b \in Batches : \/ \E input \in Offered[b] : RegisterWrite(r, b, input)
                          \/ RegisterDuplicate(r, b)
                          \/ AllocateTake(r, b)
    \/ \E decision \in {"approved", "rejected"} : InspectWrite(r, decision)
    \/ \E l \in Lines : AllocateLine(r, l)
    \/ OutOfStock(r)
    \/ AllocateClose(r)
    \/ CommitRequest(r)
    \/ Busy(r)

Begin(r) ==
    \/ RegisterBegin(r)
    \/ \E b \in Batches, ver \in Versions : InspectBegin(r, b, ver)
    \/ \E o \in Orders : \/ \E input \in Wanted[o] : Create(r, o, input)
                         \/ \E ver \in Versions, at \in Times : AllocateBegin(r, o, ver, at)

Next == \/ Crash
        \/ \E r \in Requests : Begin(r) \/ Progress(r) \/ Cancel(r)

Spec == Init /\ [][Next]_vars

\* Go schedules every request that can go on, and SQLite answers every
\* statement: nothing waits for another request.
FairSpec == Spec /\ \A r \in Requests : WF_vars(Progress(r))

-----------------------------------------------------------------------------
\* Types.
BatchRow == [status : BatchStatus \union {"absent"}, species : Species \union {None},
             produced : Nat, available : Nat, expires : Nat, version : Nat]
OrderRow == [status : OrderStatus \union {"absent"}, version : Nat]
LineRow  == [species : Species \union {None}, quantity : Nat]

Contents ==
    [batch      : [Batches -> BatchRow],
     inspected  : [Batches -> Seq({"approved", "rejected"})],
     order      : [Orders -> OrderRow],
     line       : [Lines -> LineRow],
     alloc      : [Lines -> [Batches -> Nat]],
     shipments  : SUBSET Orders,
     batchAudit : [Batches -> Seq({"batch.register", "batch.inspect"})],
     orderAudit : [Orders -> Seq({"order.create", "order.allocate"})]]

RequestState ==
    [pc    : {"idle", "registering", "inspecting", "allocating", "committing"},
     on    : Batches \union Orders \union {None},
     ver   : Nat, at : Nat,
     lines : SUBSET Lines, line : Lines \union {None},
     left  : Nat, todo : SUBSET Batches]

\* Every variable has its type, and the lock holder is a request.
TypeOK == /\ db \in Contents
          /\ wk \in Contents
          /\ writer \in Requests \union {None}
          /\ fresh \in SUBSET Requests
          /\ req \in [Requests -> RequestState]
          /\ snap \in [Requests -> Contents]

-----------------------------------------------------------------------------
\* Safety.  Quantities are added up by counting units: Units(f) has f[x] units
\* for every x.  TakenUnits are those allocation rows took from a batch and
\* GivenUnits those an order line was given.
Units(f) == UNION {{x} \X (1..f[x]) : x \in DOMAIN f}
TakenUnits(d, b) == Units([l \in Lines |-> d.alloc[l][b]])
GivenUnits(d, l) == Units(d.alloc[l])

\* What every batch row says is available is what was produced minus what the
\* allocation rows of all orders took: concurrent dispatchers never consume
\* the same quantity and no quantity is lost (README.md:11).
ConservedIn(d) ==
    \A b \in Batches :
        d.batch[b].available + Cardinality(TakenUnits(d, b)) = d.batch[b].produced
StockConserved == ConservedIn(db)

\* An allocated order has every line covered exactly, by as many units as the
\* line asks for; any other order holds no unit at all (README.md:12).
CoveredIn(d) ==
    \A l \in Lines :
        Cardinality(GivenUnits(d, l)) =
            IF d.order[OrderOf[l]].status = "allocated" THEN d.line[l].quantity ELSE 0
AllOrNothing == CoveredIn(db)

\* A line is served only from batches of its species that one inspection
\* approved, and such a batch is exhausted exactly when nothing is left of it.
ReleasedIn(d) ==
    \A l \in Lines, b \in Batches :
        d.alloc[l][b] > 0 =>
            /\ d.inspected[b] = <<"approved">>
            /\ d.batch[b].species = d.line[l].species
            /\ d.batch[b].status = IF d.batch[b].available = 0 THEN "exhausted" ELSE "released"
OnlyReleasedStock == ReleasedIn(db)

\* The audit trail, the inspections and the shipments tell the history of each
\* row once and in order, whatever was retried, refused or lost on the way.
TrailIn(d) ==
    /\ \A o \in Orders :
          /\ d.orderAudit[o] = CASE d.order[o].status = "absent"    -> <<>>
                                 [] d.order[o].status = "confirmed" -> <<"order.create">>
                                 [] d.order[o].status = "allocated" -> <<"order.create", "order.allocate">>
                                 [] OTHER -> <<"unexpected">>
          /\ (o \in d.shipments) = (d.order[o].status = "allocated")
    /\ \A b \in Batches :
          LET seen == d.inspected[b] IN
          /\ d.batchAudit[b] = CASE d.batch[b].status = "absent"     -> <<>>
                                 [] d.batch[b].status = "registered" -> <<"batch.register">>
                                 [] OTHER -> <<"batch.register", "batch.inspect">>
          /\ seen = CASE d.batch[b].status \in {"absent", "registered"} -> <<>>
                      [] d.batch[b].status = "rejected" -> <<"rejected">>
                      [] OTHER -> <<"approved">>
TrailMatches == TrailIn(db)

-----------------------------------------------------------------------------
\* The inductive invariant behind StockConserved and AllOrNothing: the same
\* facts about the uncommitted contents, where the order being allocated is
\* covered up to what its request still owes.

\* What the allocation r performs still has to find for line l.
Owed(r, l) == IF l \in req[r].lines THEN View(r).line[l].quantity
              ELSE IF l = req[r].line THEN req[r].left ELSE 0

\* The order whose allocation is being written, if any.
InAllocation(o) == writer # None /\ req[writer].pc = "allocating" /\ req[writer].on = o

LockInv ==
    /\ writer = None => wk = db
    /\ \A r \in Requests : /\ writer = r => req[r].pc \in {"allocating", "committing"}
                           /\ req[r].pc = "committing" => writer = r

\* Only batches that were released have units in allocation rows.
TakenReleased(d) ==
    \A l \in Lines, b \in Batches :
        d.alloc[l][b] > 0 => d.batch[b].status \in {"released", "exhausted"}

Coverage ==
    /\ CoveredIn(db)
    /\ \A l \in Lines : ~InAllocation(OrderOf[l]) =>
          Cardinality(GivenUnits(wk, l)) =
              IF wk.order[OrderOf[l]].status = "allocated" THEN wk.line[l].quantity ELSE 0

\* What an allocation that can still commit knows of the contents it sees.
AllocationInv(r) ==
    (req[r].pc = "allocating" /\ Live(r)) =>
        /\ req[r].on \in Orders
        /\ req[r].lines \subseteq LinesOf(req[r].on)
        /\ req[r].left > 0 => req[r].line \in LinesOf(req[r].on) \ req[r].lines
        /\ \A l \in req[r].lines, b \in Batches : View(r).alloc[l][b] = 0
        /\ req[r].left > 0 => \A b \in req[r].todo :
              View(r).batch[b].status = "released" /\ View(r).alloc[req[r].line][b] = 0
        /\ \A l \in LinesOf(req[r].on) :
              Cardinality(GivenUnits(View(r), l)) + Owed(r, l) = View(r).line[l].quantity

\* An inspection that can still commit sees a batch nobody decided on.
InspectionInv(r) ==
    (req[r].pc = "inspecting" /\ Live(r)) =>
        /\ req[r].on \in Batches
        /\ View(r).batch[req[r].on].status \in {"registered", "sampling"}

FiniteUnits(d) == /\ \A b \in Batches : IsFiniteSet(TakenUnits(d, b))
                  /\ \A l \in Lines : IsFiniteSet(GivenUnits(d, l))

\* What every operation keeps in the contents it works on.
SoundIn(d) == FiniteUnits(d) /\ TakenReleased(d) /\ ConservedIn(d)

IInv == /\ TypeOK
        /\ LockInv
        /\ SoundIn(db) /\ SoundIn(wk)
        /\ Coverage
        /\ \A r \in Requests : AllocationInv(r) /\ InspectionInv(r)

-----------------------------------------------------------------------------
\* The second inductive invariant, on top of IInv: what the contents record of
\* every row, what a request that can still commit relies on, and what exactly
\* the uncommitted pages add to the committed ones.

\* No row contradicts its history; Inspect never leaves a batch in sampling, and
\* a row that is not in its table is blank.
RecordsIn(d) ==
    /\ TrailIn(d)
    /\ ReleasedIn(d)
    /\ \A b \in Batches : /\ d.batch[b].status # "sampling"
                          /\ d.batch[b].status = "absent" => d.batch[b] = NoBatch
    /\ \A l \in Lines : d.line[l].quantity > 0 => d.line[l].species \in Species

\* The version a request was given is the one its snapshot has.
VersionInv(r) ==
    /\ (Live(r) /\ req[r].ver > 0) =>
          IF req[r].on \in Orders THEN db.order[req[r].on].version = req[r].ver
                                 ELSE db.batch[req[r].on].version = req[r].ver
    /\ req[r].pc = "registering" => req[r].ver = 0

\* Stock that the allocation r performs could use for its line, now.
UsableForLine(r) ==
    {b \in Listed(View(r), View(r).line[req[r].line].species) : Usable(View(r), b, req[r].at)}

\* ListBatches returned all released batches of the line's species.
OnOnePage(r) ==
    Cardinality(Listed(Snapshot(r), Seen(r).line[req[r].line].species)) <= PageSize

\* The candidates left are of the line's species.  Usable stock that is not among
\* them was cut off by the page: it expires in no earlier second, and there is
\* none if all were on one page.
PageInv(r) ==
    (req[r].pc = "allocating" /\ Live(r)) =>
        /\ db.order[req[r].on].status = "confirmed"
        /\ req[r].left > 0 =>
              /\ \A b \in req[r].todo :
                    /\ View(r).batch[b].species = View(r).line[req[r].line].species
                    /\ \A c \in UsableForLine(r) \ req[r].todo :
                          Second(View(r).batch[b].expires) <= Second(View(r).batch[c].expires)
              /\ OnOnePage(r) => UsableForLine(r) \subseteq req[r].todo

\* c is stock that had to be used up before b is touched.
GoesFirst(d, c, b, at) ==
    /\ d.batch[c].status = "released"
    /\ d.batch[c].species = d.batch[b].species
    /\ d.batch[c].expires > at
    /\ Second(d.batch[c].expires) < Second(d.batch[b].expires)

\* From contents d, units of released stock that has not expired at the instant
\* at were moved to the lines of o, which had none, and nothing else was.
Drawn(d, e, o, at) ==
    /\ e.line = d.line
    /\ \A b \in Batches :
          /\ e.batch[b].species = d.batch[b].species
          /\ e.batch[b].produced = d.batch[b].produced
          /\ e.batch[b].expires = d.batch[b].expires
          /\ \/ e.batch[b].status = d.batch[b].status
             \/ /\ d.batch[b].status = "released" /\ e.batch[b].status = "exhausted"
                /\ e.batch[b].available = 0
    /\ \A l \in Lines \ LinesOf(o) : e.alloc[l] = d.alloc[l]
    /\ \A l \in LinesOf(o), b \in Batches :
          /\ d.alloc[l][b] = 0
          /\ e.alloc[l][b] > 0 =>
                /\ d.batch[b].status = "released"
                /\ d.batch[b].species = d.line[l].species
                /\ d.batch[b].expires > at
                /\ \A c \in Batches : GoesFirst(d, c, b, at) => e.batch[c].available = 0

\* e is what one call s may have written on top of d: a registration, an
\* inspection, a creation, or an allocation under way or closed.
WrittenBy(s, d, e) ==
    \/ /\ s.pc = "committing" /\ s.on \in Batches
       /\ d.batch[s.on].status = "absent"
       /\ \E input \in Offered[s.on] : e = RegisterBatch(d, s.on, input)
    \/ /\ s.pc = "committing" /\ s.on \in Batches
       /\ d.batch[s.on].status = "registered"
       /\ \E decision \in {"approved", "rejected"} : e = InspectBatch(d, s.on, decision)
    \/ /\ s.pc = "committing" /\ s.on \in Orders
       /\ d.order[s.on].status = "absent"
       /\ \E input \in Wanted[s.on] : e = CreateOrder(d, s.on, input)
    \/ /\ s.on \in Orders
       /\ d.order[s.on].status = "confirmed"
       /\ Drawn(d, e, s.on, s.at)
       /\ e.order = IF s.pc = "committing" THEN CloseAllocation(d, s.on).order ELSE d.order

WriterInv == writer # None => WrittenBy(req[writer], db, wk)

CommitInv == /\ RecordsIn(db) /\ RecordsIn(wk)
             /\ WriterInv
             /\ \A r \in Requests : VersionInv(r) /\ PageInv(r)

\* The third one, about allocations whose snapshot was replaced.  They have written
\* nothing, so their line still needs all it asks for, and what they could use
\* is among the candidates, if one page holds them.
SnapshotInv(r) ==
    (req[r].pc = "allocating" /\ ~Live(r)) =>
        /\ \A l \in Lines : snap[r].line[l].quantity > 0 => snap[r].line[l].species \in Species
        /\ req[r].lines \subseteq LinesOf(req[r].on)
        /\ req[r].left > 0 =>
              /\ req[r].line \in LinesOf(req[r].on)
              /\ snap[r].line[req[r].line].quantity = req[r].left
              /\ OnOnePage(r) =>
                    \A b \in Listed(snap[r], snap[r].line[req[r].line].species) :
                        Usable(snap[r], b, req[r].at) => b \in req[r].todo
SnapInv == \A r \in Requests : SnapshotInv(r)

-----------------------------------------------------------------------------
\* Action properties.

\* A commit that used an expected version finds the row at that version: the
\* decision was taken on what the client saw and on no later state.
NoLostUpdate ==
    [][\A r \in Requests :
         (writer = r /\ db' # db /\ req[r].ver > 0) =>
            IF req[r].on \in Orders
            THEN db.order[req[r].on].version = req[r].ver
            ELSE db.batch[req[r].on].version = req[r].ver]_vars

\* No allocation takes from a batch while one of the same species that expires
\* in an earlier second, and has not expired for that request, keeps stock
\* ("allocates released batches in expiry order", README.md:16).  Within one
\* second the order is that of the text.
FirstExpiredFirst ==
    [][\A l \in Lines, b \in Batches, c \in Batches :
         (/\ db'.alloc[l][b] > db.alloc[l][b]
          /\ db.batch[c].status = "released"
          /\ db.batch[c].species = db.batch[b].species
          /\ db.batch[c].expires > req[writer].at
          /\ Second(db.batch[c].expires) < Second(db.batch[b].expires))
         => db'.batch[c].available = 0]_vars

\* No unit comes from a batch that had expired when the request took the time.
NothingExpired ==
    [][\A l \in Lines, b \in Batches :
         db'.alloc[l][b] > db.alloc[l][b] => db.batch[b].expires > req[writer].at]_vars

\* "released inventory cannot satisfy the order" (response.go:47) is said only
\* when, for some species, the usable stock is less than the order wants: in the
\* newest contents, or in those the request has read if they were replaced since.
\* In between stock may have been released; the request does not look again.
UsableUnits(d, s, at) ==
    Units([b \in {c \in Listed(d, s) : Usable(d, c, at)} |-> d.batch[b].available])
WantedUnits(d, o, s) ==
    Units([l \in {k \in LinesOf(o) : d.line[k].species = s} |-> d.line[l].quantity])
ShortOf(d, o, at) ==
    \E s \in Species :
        Cardinality(UsableUnits(d, s, at)) < Cardinality(WantedUnits(d, o, s))
CapacityTruthful ==
    [][\A r \in Requests :
         OutOfStock(r) => ShortOf(Snapshot(r), req[r].on, req[r].at)]_vars

\* Liveness: every request that began ends, by a commit or by an error, however
\* requests collide; so no lock and no snapshot is held for ever.
EveryRequestEnds == \A r \in Requests : req[r].pc # "idle" ~> req[r].pc = "idle"

-----------------------------------------------------------------------------
\* Refinement.  The committed rows, read as the abstract ledger: versions, the
\* audit trail and the split of "saleable" into released and exhausted go.
PhaseOf(row) == CASE row.status = "absent" -> "none"
                  [] row.status \in {"registered", "sampling"} -> "quarantine"
                  [] row.status \in {"released", "exhausted"} -> "saleable"
                  [] row.status = "rejected" -> "condemned"

StockView == [b \in Batches |-> [phase |-> PhaseOf(db.batch[b]),
                                 species |-> db.batch[b].species,
                                 left |-> db.batch[b].available]]
PlacedView == [o \in Orders |-> CASE db.order[o].status = "absent" -> "none"
                                  [] db.order[o].status = "allocated" -> "served"
                                  [] OTHER -> "open"]

L == INSTANCE Ledger WITH
        Quantities <- UNION {{input.quantity : input \in Offered[b]} : b \in Batches},
        stock <- StockView, placed <- PlacedView, wants <- db.line, given <- db.alloc

\* Concurrent transactions, refusals, retries and crashes show nothing but the
\* indivisible operations of the ledger.
LedgerSpec == L!Spec
====
