---- MODULE Settlement ----
(***************************************************************************)
(* From allocated order to paid farmer: MarkDelivered (service/orders.go), *)
(* Approve and MarkPaid (service/settlements.go), each a transaction of    *)
(* the store that runs concurrently with the others.  A settlement is      *)
(* known by its order and farm, UNIQUE (farm_id, order_id).                *)
(***************************************************************************)
EXTENDS Transactions, Int64, Sequences, FiniteSets, Folds

CONSTANTS Orders,       \* orders that Allocate has allocated
          Farms, Batches,
          FarmOf,       \* the farm of a batch
          Price,        \* unit_price_cents of a batch
          Taken         \* Taken[o][b]: what the allocation rows of o took of b

ASSUME SettlementAssumption ==
    /\ None \notin Requests \union Orders \union Farms
    /\ IsFiniteSet(Batches)
    /\ FarmOf \in [Batches -> Farms]
    /\ Price \in [Batches -> Nat \ {0}]
    /\ Taken \in [Orders -> [Batches -> Nat]]
    /\ Wide \in Nat \ {0}

VARIABLE req            \* what each request is doing

vars == <<db, wk, writer, fresh, req>>

Versions == 1..5        \* bound: the expected versions a client may send

-----------------------------------------------------------------------------
NoSettlement == [status |-> "absent", amount |-> 0, version |-> 0]

\* Orders come from Create and Allocate, which leave them at version 3.
AllocatedOrders ==
    [order      |-> [o \in Orders |-> [status |-> "allocated", version |-> 3]],
     settlement |-> [o \in Orders |-> [f \in Farms |-> NoSettlement]],
     outbox     |-> [o \in Orders |-> [f \in Farms |-> <<>>]],
     audit      |-> [o \in Orders |-> [f \in Farms |-> <<>>]],
     orderAudit |-> [o \in Orders |-> <<>>]]

\* OrderStatus.CanTransition, for the transitions asked for here.
OrderCanTransition(from, to) ==
    <<from, to>> \in {<<"allocated", "in_transit">>, <<"in_transit", "delivered">>}

Transition(row, to) == [row EXCEPT !.status = to, !.version = @ + 1]

\* Mutant: every allocation overwrites the amount of its farm.
DueLast(o, f) ==
    MapThenFoldSet(LAMBDA x, sum : x, 0, LAMBDA b : Wrap(Taken[o][b] * Price[b]),
                   LAMBDA bs : CHOOSE b \in bs : TRUE,
                   {b \in Batches : Taken[o][b] > 0 /\ FarmOf[b] = f})

\* byFarm[f], added up over the allocations of o.
Due(o, f) ==
    MapThenFoldSet(LAMBDA x, sum : Wrap(x + sum), 0, LAMBDA b : Wrap(Taken[o][b] * Price[b]),
                   LAMBDA bs : CHOOSE b \in bs : TRUE,
                   {b \in Batches : Taken[o][b] > 0 /\ FarmOf[b] = f})

\* The keys of byFarm.
FarmsOf(o) == {FarmOf[b] : b \in {b \in Batches : Taken[o][b] > 0}}

\* The writes of MarkDelivered.
DeliverOrder(d, o) ==
    [d EXCEPT
        !.order[o] = Transition(IF @.status = "allocated" THEN Transition(@, "in_transit") ELSE @,
                                "delivered"),
        !.settlement[o] = [f \in Farms |->
            IF f \in FarmsOf(o)
            THEN [status |-> "pending", amount |-> Due(o, f), version |-> 1]
            ELSE @[f]],
        !.outbox[o] = [f \in Farms |->
            IF f \in FarmsOf(o) THEN Append(@[f], "settlement.created") ELSE @[f]],
        !.orderAudit[o] = Append(@, "order.deliver")]

\* Mutant: a payment leaves a status the schema keeps for failures.
PaySettlementFailed(d, o, f) ==
    [d EXCEPT !.settlement[o][f] = Transition(@, "failed"),
              !.outbox[o][f] = Append(@, "settlement.paid"),
              !.audit[o][f] = Append(@, "settlement.pay")]

\* Mutant: the event of a payment is not written with it.
PaySettlementQuietly(d, o, f) ==
    [d EXCEPT !.settlement[o][f] = Transition(@, "paid"),
              !.audit[o][f] = Append(@, "settlement.pay")]

\* The writes of Approve and of MarkPaid.
ApproveSettlement(d, o, f) ==
    [d EXCEPT !.settlement[o][f] = Transition(@, "approved"),
              !.outbox[o][f] = Append(@, "settlement.approved"),
              !.audit[o][f] = Append(@, "settlement.approve")]

PaySettlement(d, o, f) ==
    [d EXCEPT !.settlement[o][f] = Transition(@, "paid"),
              !.outbox[o][f] = Append(@, "settlement.paid"),
              !.audit[o][f] = Append(@, "settlement.pay")]

-----------------------------------------------------------------------------
\* The requests.  on and farm say which order or settlement the request is
\* about, ver the expected version of the client.

Idle == [pc |-> "idle", on |-> None, farm |-> None, ver |-> 0]

Become(r, state) == req' = [req EXCEPT ![r] = state]

\* MarkDelivered: GetOrder and the version check.
DeliverBegin(r, o, ver) ==
    /\ req[r].pc = "idle"
    /\ db.order[o].version = ver
    /\ Read(r)
    /\ Become(r, [pc |-> "delivering", on |-> o, farm |-> None, ver |-> ver])

\* What TransitionOrder accepts: the order stands where its chain can start.
Deliverable(row) == OrderCanTransition(row.status, "in_transit")
                    \/ OrderCanTransition(row.status, "delivered")

DeliverWrite(r) ==
    /\ req[r].pc = "delivering"
    /\ LET o == req[r].on IN
          /\ Deliverable(View(r).order[o])
          /\ \A f \in FarmsOf(o) : Due(o, f) > 0 /\ View(r).settlement[o][f].status = "absent"
          /\ Write(r, DeliverOrder(View(r), o))
    /\ Become(r, [req[r] EXCEPT !.pc = "committing"])

\* No transition leads to delivered; or CHECK (amount_cents > 0) or
\* UNIQUE (farm_id, order_id) refuses a settlement.
DeliverRefused(r) ==
    /\ req[r].pc = "delivering"
    /\ LET o == req[r].on IN
          \/ Live(r) /\ ~Deliverable(View(r).order[o])
          \/ /\ CanWrite(r)
             /\ \E f \in FarmsOf(o) : Due(o, f) <= 0 \/ View(r).settlement[o][f].status # "absent"
    /\ Rollback(r)
    /\ Become(r, Idle)

\* Mutant: the status check is missing.
ApproveBeginAgain(r, o, f, ver) ==
    /\ req[r].pc = "idle"
    /\ db.settlement[o][f].status # "absent"
    /\ db.settlement[o][f].version = ver
    /\ Read(r)
    /\ Become(r, [pc |-> "approving", on |-> o, farm |-> f, ver |-> ver])

\* Mutant: the expected version is not compared.
ApproveBeginUnchecked(r, o, f, ver) ==
    /\ req[r].pc = "idle"
    /\ db.settlement[o][f].status = "pending"
    /\ Read(r)
    /\ Become(r, [pc |-> "approving", on |-> o, farm |-> f, ver |-> ver])

\* Approve: GetSettlement, the status check and the version check.
ApproveBegin(r, o, f, ver) ==
    /\ req[r].pc = "idle"
    /\ db.settlement[o][f].status = "pending"
    /\ db.settlement[o][f].version = ver
    /\ Read(r)
    /\ Become(r, [pc |-> "approving", on |-> o, farm |-> f, ver |-> ver])

ApproveWrite(r) ==
    /\ req[r].pc = "approving"
    /\ Write(r, ApproveSettlement(View(r), req[r].on, req[r].farm))
    /\ Become(r, [req[r] EXCEPT !.pc = "committing"])

\* MarkPaid: GetSettlement and the status check; the version is left to the
\* UPDATE.
PayBegin(r, o, f, ver) ==
    /\ req[r].pc = "idle"
    /\ db.settlement[o][f].status = "approved"
    /\ Read(r)
    /\ Become(r, [pc |-> "paying", on |-> o, farm |-> f, ver |-> ver])

PayWrite(r) ==
    /\ req[r].pc = "paying"
    /\ View(r).settlement[req[r].on][req[r].farm].version = req[r].ver
    /\ Write(r, PaySettlement(View(r), req[r].on, req[r].farm))
    /\ Become(r, [req[r] EXCEPT !.pc = "committing"])

\* The UPDATE matches no row: ErrVersionConflict.
PayRefused(r) ==
    /\ req[r].pc = "paying"
    /\ CanWrite(r)
    /\ View(r).settlement[req[r].on][req[r].farm].version # req[r].ver
    /\ Rollback(r)
    /\ Become(r, Idle)

CommitRequest(r) ==
    /\ req[r].pc = "committing"
    /\ Commit(r)
    /\ Become(r, Idle)

\* Mutant: a stale snapshot is waited for instead of refused.
BusyLocked(r) ==
    /\ req[r].pc \in {"delivering", "approving", "paying"}
    /\ writer \notin {None, r}
    /\ Rollback(r)
    /\ Become(r, Idle)

\* A write that needs the lock fails: another request holds it, or the
\* snapshot is stale.
Busy(r) ==
    /\ req[r].pc \in {"delivering", "approving", "paying"}
    /\ ~CanWrite(r)
    /\ Rollback(r)
    /\ Become(r, Idle)

\* The context of the request ends, or a statement fails: ROLLBACK.
Cancel(r) ==
    /\ req[r].pc # "idle"
    /\ Rollback(r)
    /\ Become(r, Idle)

Crash == LoseAll /\ req' = [r \in Requests |-> Idle]

-----------------------------------------------------------------------------
Init == /\ StartStore(AllocatedOrders)
        /\ req = [r \in Requests |-> Idle]

Progress(r) == \/ DeliverWrite(r) \/ DeliverRefused(r)
               \/ ApproveWrite(r)
               \/ PayWrite(r) \/ PayRefused(r)
               \/ CommitRequest(r) \/ Busy(r)

Begin(r) ==
    \E o \in Orders, ver \in Versions :
        \/ DeliverBegin(r, o, ver)
        \/ \E f \in Farms : ApproveBegin(r, o, f, ver) \/ PayBegin(r, o, f, ver)

Next == \/ Crash
        \/ \E r \in Requests : Begin(r) \/ Progress(r) \/ Cancel(r)

Spec == Init /\ [][Next]_vars

\* Nothing a request waits for is held by another one.
FairSpec == Spec /\ \A r \in Requests : WF_vars(Progress(r))

-----------------------------------------------------------------------------
Amounts == {0} \union {Due(o, f) : o \in Orders, f \in Farms}

Contents ==
    [order      : [Orders -> [status : {"allocated", "in_transit", "delivered"}, version : Nat]],
     settlement : [Orders -> [Farms -> [status : {"absent", "pending", "approved", "paid"},
                                        amount : Amounts, version : Nat]]],
     outbox     : [Orders -> [Farms -> Seq({"settlement.created", "settlement.approved",
                                            "settlement.paid"})]],
     audit      : [Orders -> [Farms -> Seq({"settlement.approve", "settlement.pay"})]],
     orderAudit : [Orders -> Seq({"order.deliver"})]]

RequestState == [pc   : {"idle", "delivering", "approving", "paying", "committing"},
                 on   : Orders \union {None}, farm : Farms \union {None}, ver : Nat]

\* Every variable has its type, and the lock holder is a request.
TypeOK == /\ db \in Contents
          /\ wk \in Contents
          /\ writer \in Requests \union {None}
          /\ fresh \in SUBSET Requests
          /\ req \in [Requests -> RequestState]

-----------------------------------------------------------------------------
\* What the allocation rows of o are worth to farm f, in exact arithmetic.
Worth(o, f) ==
    MapThenFoldSet(LAMBDA x, sum : x + sum, 0, LAMBDA b : Taken[o][b] * Price[b],
                   LAMBDA bs : CHOOSE b \in bs : TRUE, {b \in Batches : FarmOf[b] = f})

\* A delivered order has one settlement for each farm it took from and for no
\* other, worth exactly what the farm gave; an order that is not delivered has
\* none (README.md:17, README.md:18).
PaidInFull ==
    \A o \in Orders, f \in Farms :
        db.settlement[o][f].amount = IF db.order[o].status = "delivered" THEN Worth(o, f) ELSE 0

\* The events and the audit rows a settlement has earned in its status.
OutboxFor(status) ==
    CASE status = "absent"   -> <<>>
      [] status = "pending"  -> <<"settlement.created">>
      [] status = "approved" -> <<"settlement.created", "settlement.approved">>
      [] status = "paid"     -> <<"settlement.created", "settlement.approved", "settlement.paid">>

AuditFor(status) ==
    CASE status \in {"absent", "pending"} -> <<>>
      [] status = "approved" -> <<"settlement.approve">>
      [] status = "paid"     -> <<"settlement.approve", "settlement.pay">>

\* The outbox and the audit trail of a settlement tell its history once and in
\* order: no transition is committed without its event, no event without its
\* transition, whatever was retried, refused or lost.
HistoryIn(d) ==
    \A o \in Orders :
        /\ d.orderAudit[o] = IF d.order[o].status = "delivered" THEN <<"order.deliver">> ELSE <<>>
        /\ \A f \in Farms :
              /\ d.outbox[o][f] = OutboxFor(d.settlement[o][f].status)
              /\ d.audit[o][f] = AuditFor(d.settlement[o][f].status)
HistoryMatches == HistoryIn(db)

\* The inductive invariant.  An order that is not delivered has no settlement.
DataInv(d) ==
    /\ HistoryIn(d)
    /\ \A o \in Orders, f \in Farms :
          d.order[o].status # "delivered" => d.settlement[o][f] = NoSettlement

\* What the checks of a request established still holds while its snapshot is
\* the newest.
SnapshotInv(r) ==
    LET o == req[r].on
        f == req[r].farm
    IN  /\ req[r].pc = "committing" => writer = r
        /\ req[r].pc = "delivering" =>
              /\ o \in Orders /\ f = None
              /\ r \in fresh => db.order[o].version = req[r].ver
        /\ req[r].pc \in {"approving", "paying"} => o \in Orders /\ f \in Farms
        /\ (req[r].pc = "approving" /\ r \in fresh) =>
              db.settlement[o][f].status = "pending" /\ db.settlement[o][f].version = req[r].ver
        /\ (req[r].pc = "paying" /\ r \in fresh) => db.settlement[o][f].status = "approved"

\* The pages of the lock holder are the newest contents with one operation
\* done, whose conditions these contents meet.
WriterInv(r) ==
    LET o == req[r].on
        f == req[r].farm
    IN  writer = r =>
          /\ req[r].pc = "committing"
          /\ o \in Orders
          /\ \/ /\ f = None
                /\ Deliverable(db.order[o])
                /\ db.order[o].version = req[r].ver
                /\ \A g \in FarmsOf(o) : Due(o, g) > 0
                /\ wk = DeliverOrder(db, o)
             \/ /\ f \in Farms
                /\ db.settlement[o][f].status = "pending"
                /\ db.settlement[o][f].version = req[r].ver
                /\ wk = ApproveSettlement(db, o, f)
             \/ /\ f \in Farms
                /\ db.settlement[o][f].status = "approved"
                /\ db.settlement[o][f].version = req[r].ver
                /\ wk = PaySettlement(db, o, f)

IInv == /\ TypeOK
        /\ DataInv(db)
        /\ \A r \in Requests : SnapshotInv(r) /\ WriterInv(r)

\* The inductive invariant of the amounts: a delivered order owes what Due made
\* of its allocations, and the database has found that to be positive.
AmountInv ==
    \A o \in Orders, f \in Farms :
        LET owes == db.order[o].status = "delivered" /\ f \in FarmsOf(o) IN
        /\ db.settlement[o][f].amount = IF owes THEN Due(o, f) ELSE 0
        /\ owes => Due(o, f) > 0

\* A commit finds the row at the version its client expected: two clients that
\* decide on the same settlement or order never both succeed (README.md:19).
NoLostUpdate ==
    [][\A r \in Requests :
         (writer = r /\ db' # db) =>
            req[r].ver = IF req[r].farm = None THEN db.order[req[r].on].version
                         ELSE db.settlement[req[r].on][req[r].farm].version]_vars

\* Liveness: every request that began ends.
EveryRequestEnds == \A r \in Requests : req[r].pc # "idle" ~> req[r].pc = "idle"

-----------------------------------------------------------------------------
\* Refinement: the committed rows, read as dues.
DebtOf(row) == [phase |-> CASE row.status = "absent" -> "none"
                            [] row.status = "pending" -> "due"
                            [] OTHER -> row.status,
                amount |-> row.amount]

P == INSTANCE Payout WITH
        Dues <- [o \in Orders |-> [f \in Farms |-> IF f \in FarmsOf(o) THEN Due(o, f) ELSE 0]],
        delivered <- {o \in Orders : db.order[o].status = "delivered"},
        debt <- [o \in Orders |-> [f \in Farms |-> DebtOf(db.settlement[o][f])]]

\* Concurrent transactions, refusals and crashes show nothing but deliveries,
\* approvals and payments, each once and indivisible.
PayoutSpec == P!Spec
====
