---- MODULE Settlement_proofs ----
(***************************************************************************)
(* Proofs about Settlement, for any number of requests, orders, farms and  *)
(* batches, whatever was taken from them and whatever the width of an      *)
(* amount.  Only the last part, about the amounts themselves, looks into   *)
(* the folds Due and Worth; before, a due is one value for each order and  *)
(* farm.                                                                   *)
(***************************************************************************)
EXTENDS Settlement, FiniteSetTheorems, SequenceTheorems, WellFoundedInduction, TLAPS

OrderRow == [status : {"allocated", "in_transit", "delivered"}, version : Nat]
SettlementRow == [status : {"absent", "pending", "approved", "paid"},
                  amount : Amounts, version : Nat]
Notices == {"settlement.created", "settlement.approved", "settlement.paid"}
Marks == {"settlement.approve", "settlement.pay"}

\* The same contents, table by table.
LEMMA ContentsFields ==
    ASSUME NEW d \in Contents
    PROVE  /\ d.order \in [Orders -> OrderRow]
           /\ d.settlement \in [Orders -> [Farms -> SettlementRow]]
           /\ d.outbox \in [Orders -> [Farms -> Seq(Notices)]]
           /\ d.audit \in [Orders -> [Farms -> Seq(Marks)]]
           /\ d.orderAudit \in [Orders -> Seq({"order.deliver"})]
  BY DEF Contents, OrderRow, SettlementRow, Notices, Marks

\* What Append makes of the short sequences the histories consist of.
LEMMA AppendToNone == ASSUME NEW x PROVE Append(<<>>, x) = <<x>>
  OBVIOUS

\* A sequence of one.
LEMMA AppendToOne ==
    ASSUME NEW S, NEW x \in S, NEW y \in S
    PROVE  Append(<<x>>, y) = <<x, y>>
  <1> DEFINE s == <<x>>
             t == Append(<<x>>, y)
             u == <<x, y>>
  <1>1. /\ s \in Seq(S) /\ Len(s) = 1 /\ s[1] = x
        /\ u \in Seq(S) /\ Len(u) = 2 /\ u[1] = x /\ u[2] = y
    OBVIOUS
  <1>2. t \in Seq(S) /\ Len(t) = 2 /\ t[1] = x /\ t[2] = y
    <2> HIDE DEF s
    <2>1. t = Append(s, y)
      BY DEF s
    <2> QED
      BY <1>1, <2>1
  <1> HIDE DEF s, t, u
  <1>3. t = u
    BY <1>1, <1>2, SeqEqual
  <1> QED
    BY <1>3 DEF t, u

\* A sequence of two.
LEMMA AppendToTwo ==
    ASSUME NEW S, NEW x \in S, NEW y \in S, NEW z \in S
    PROVE  Append(<<x, y>>, z) = <<x, y, z>>
  <1> DEFINE s == <<x, y>>
             t == Append(<<x, y>>, z)
             u == <<x, y, z>>
  <1>1. /\ s \in Seq(S) /\ Len(s) = 2 /\ s[1] = x /\ s[2] = y
        /\ u \in Seq(S) /\ Len(u) = 3 /\ u[1] = x /\ u[2] = y /\ u[3] = z
    OBVIOUS
  <1>2. t \in Seq(S) /\ Len(t) = 3 /\ t[1] = x /\ t[2] = y /\ t[3] = z
    <2> HIDE DEF s
    <2>1. t = Append(s, z)
      BY DEF s
    <2> QED
      BY <1>1, <2>1
  <1> HIDE DEF s, t, u
  <1>3. t = u
    BY <1>1, <1>2, SeqEqual
  <1> QED
    BY <1>3 DEF t, u

\* A transition sets the status and adds one to the version.
LEMMA OrderTransition ==
    ASSUME NEW row \in OrderRow, NEW to \in {"allocated", "in_transit", "delivered"}
    PROVE  /\ Transition(row, to) \in OrderRow
           /\ Transition(row, to).status = to
           /\ Transition(row, to).version = row.version + 1
  <1>1. row.version + 1 \in Nat
    BY DEF OrderRow
  <1>2. [row EXCEPT !.status = to, !.version = row.version + 1] \in OrderRow
    BY <1>1 DEF OrderRow
  <1>3. Transition(row, to).status = to /\ Transition(row, to).version = row.version + 1
    BY DEF Transition, OrderRow
  <1> QED
    BY <1>2, <1>3 DEF Transition

\* The same for a settlement, whose amount stays.
LEMMA SettlementTransition ==
    ASSUME NEW row \in SettlementRow, NEW to \in {"approved", "paid"}
    PROVE  /\ Transition(row, to) \in SettlementRow
           /\ Transition(row, to).status = to
           /\ Transition(row, to).amount = row.amount
           /\ Transition(row, to).version = row.version + 1
  <1>1. row.version + 1 \in Nat
    BY DEF SettlementRow
  <1>2. [row EXCEPT !.status = to, !.version = row.version + 1] \in SettlementRow
    BY <1>1 DEF SettlementRow
  <1>3. Transition(row, to).status = to
    BY DEF Transition, SettlementRow
  <1>4. Transition(row, to).amount = row.amount
    BY DEF Transition, SettlementRow
  <1>5. Transition(row, to).version = row.version + 1
    BY DEF Transition, SettlementRow
  <1> QED
    BY <1>2, <1>3, <1>4, <1>5 DEF Transition

\* The new row of an order that is delivered.
Delivered(row) == Transition(IF row.status = "allocated" THEN Transition(row, "in_transit") ELSE row,
                             "delivered")

\* Both transitions of a delivery end in delivered.
LEMMA DeliveredRow ==
    ASSUME NEW row \in OrderRow
    PROVE  Delivered(row) \in OrderRow /\ Delivered(row).status = "delivered"
  <1> DEFINE first == IF row.status = "allocated" THEN Transition(row, "in_transit") ELSE row
  <1>1. first \in OrderRow
    BY OrderTransition
  <1>2. Delivered(row) = Transition(first, "delivered")
    BY DEF Delivered
  <1> HIDE DEF first
  <1> QED
    BY <1>1, <1>2, OrderTransition

\* The new settlements of an order that is delivered.
Created(o, row, f) == IF f \in FarmsOf(o)
                      THEN [status |-> "pending", amount |-> Due(o, f), version |-> 1]
                      ELSE row

-----------------------------------------------------------------------------
\* A delivery keeps the contents typed and the histories true.
LEMMA DeliverEffect ==
    ASSUME NEW d \in Contents, DataInv(d), NEW o \in Orders, Deliverable(d.order[o])
    PROVE  DeliverOrder(d, o) \in Contents /\ DataInv(DeliverOrder(d, o))
  <1> DEFINE e == DeliverOrder(d, o)
             orders == [d.order EXCEPT ![o] = Delivered(d.order[o])]
             dues == [d.settlement EXCEPT
                        ![o] = [f \in Farms |-> Created(o, d.settlement[o][f], f)]]
             notices == [d.outbox EXCEPT ![o] = [f \in Farms |->
                           IF f \in FarmsOf(o) THEN Append(d.outbox[o][f], "settlement.created")
                           ELSE d.outbox[o][f]]]
             marks == [d.orderAudit EXCEPT ![o] = Append(d.orderAudit[o], "order.deliver")]
  <1>1. e = [d EXCEPT !.order = orders, !.settlement = dues, !.outbox = notices,
                      !.orderAudit = marks]
    BY DEF DeliverOrder, Delivered, Created
  <1> HIDE DEF e
  <1>2. d.order[o] \in OrderRow
    BY ContentsFields
  <1>3. Delivered(d.order[o]) \in OrderRow /\ Delivered(d.order[o]).status = "delivered"
    BY <1>2, DeliveredRow
  <1>4. d.order[o].status # "delivered"
    BY DEF Deliverable, OrderCanTransition
  <1>5. ASSUME NEW f \in Farms
        PROVE  /\ Created(o, d.settlement[o][f], f) \in SettlementRow
               /\ Created(o, d.settlement[o][f], f).status =
                     IF f \in FarmsOf(o) THEN "pending" ELSE "absent"
               /\ d.outbox[o][f] = <<>> /\ d.audit[o][f] = <<>>
    <2>1. d.settlement[o][f] = NoSettlement /\ d.settlement[o][f] \in SettlementRow
      BY <1>4, ContentsFields DEF DataInv
    <2>2. d.outbox[o][f] = <<>> /\ d.audit[o][f] = <<>>
      BY <2>1 DEF DataInv, HistoryIn, OutboxFor, AuditFor, NoSettlement
    <2>3. [status |-> "pending", amount |-> Due(o, f), version |-> 1] \in SettlementRow
      BY DEF SettlementRow, Amounts
    <2> QED
      BY <2>1, <2>2, <2>3 DEF Created, NoSettlement
  <1>6. d.orderAudit[o] = <<>>
    BY <1>4 DEF DataInv, HistoryIn
  <1>7. /\ e \in Contents
        /\ e.order = orders /\ e.settlement = dues /\ e.outbox = notices
        /\ e.audit = d.audit /\ e.orderAudit = marks
    <2>1. orders \in [Orders -> OrderRow]
      BY <1>3, ContentsFields
    <2>2. dues \in [Orders -> [Farms -> SettlementRow]]
      BY <1>5, ContentsFields
    <2>3. notices \in [Orders -> [Farms -> Seq(Notices)]]
      <3>1. ASSUME NEW f \in Farms
            PROVE  (IF f \in FarmsOf(o) THEN Append(d.outbox[o][f], "settlement.created")
                    ELSE d.outbox[o][f]) \in Seq(Notices)
        <4>1. d.outbox[o][f] \in Seq(Notices) /\ "settlement.created" \in Notices
          BY ContentsFields DEF Notices
        <4> QED
          BY <4>1
      <3> QED
        BY <3>1, ContentsFields
    <2>4. marks \in [Orders -> Seq({"order.deliver"})]
      <3>1. Append(d.orderAudit[o], "order.deliver") \in Seq({"order.deliver"})
        BY ContentsFields
      <3> QED
        BY <3>1, ContentsFields
    <2> HIDE DEF orders, dues, notices, marks
    <2> QED
      BY <1>1, <2>1, <2>2, <2>3, <2>4 DEF Contents, OrderRow, SettlementRow, Notices
  <1>8. HistoryIn(e)
    <2> SUFFICES ASSUME NEW p \in Orders
                 PROVE  /\ e.orderAudit[p] = IF e.order[p].status = "delivered"
                                             THEN <<"order.deliver">> ELSE <<>>
                        /\ \A f \in Farms :
                              /\ e.outbox[p][f] = OutboxFor(e.settlement[p][f].status)
                              /\ e.audit[p][f] = AuditFor(e.settlement[p][f].status)
      BY DEF HistoryIn
    <2>1. CASE p = o
      <3>1. e.orderAudit[p] = <<"order.deliver">> /\ e.order[p].status = "delivered"
        BY <2>1, <1>7, <1>3, <1>6, AppendToNone, ContentsFields
      <3>2. ASSUME NEW f \in Farms
            PROVE  /\ e.outbox[p][f] = OutboxFor(e.settlement[p][f].status)
                   /\ e.audit[p][f] = AuditFor(e.settlement[p][f].status)
        <4>1. /\ e.settlement[p][f].status = IF f \in FarmsOf(o) THEN "pending" ELSE "absent"
              /\ e.audit[p][f] = <<>>
          BY <2>1, <1>7, <1>5, ContentsFields
        <4>2. e.outbox[p][f] = IF f \in FarmsOf(o) THEN Append(d.outbox[o][f], "settlement.created")
                               ELSE d.outbox[o][f]
          BY <2>1, <1>7, ContentsFields
        <4>3. d.outbox[o][f] = <<>> /\ Append(<<>>, "settlement.created") = <<"settlement.created">>
          BY <1>5, AppendToNone
        <4>4. CASE f \in FarmsOf(o)
          BY <4>1, <4>2, <4>3, <4>4 DEF OutboxFor, AuditFor
        <4>5. CASE f \notin FarmsOf(o)
          BY <4>1, <4>2, <4>3, <4>5 DEF OutboxFor, AuditFor
        <4> QED
          BY <4>4, <4>5
      <3> QED
        BY <3>1, <3>2
    <2>2. CASE p # o
      <3>1. /\ e.order[p] = d.order[p] /\ e.settlement[p] = d.settlement[p]
            /\ e.outbox[p] = d.outbox[p] /\ e.audit[p] = d.audit[p]
            /\ e.orderAudit[p] = d.orderAudit[p]
        BY <2>2, <1>7, ContentsFields
      <3> QED
        BY <3>1 DEF DataInv, HistoryIn
    <2> QED
      BY <2>1, <2>2
  <1>9. ASSUME NEW p \in Orders, NEW f \in Farms, e.order[p].status # "delivered"
        PROVE  e.settlement[p][f] = NoSettlement
    <2>1. p # o
      BY <1>7, <1>3, <1>9, ContentsFields
    <2>2. e.order[p] = d.order[p] /\ e.settlement[p] = d.settlement[p]
      BY <2>1, <1>7, ContentsFields
    <2> QED
      BY <1>9, <2>2 DEF DataInv
  <1> QED
    BY <1>7, <1>8, <1>9 DEF DataInv, e

-----------------------------------------------------------------------------
\* The common form of the writes of Approve and MarkPaid: one settlement goes
\* to a next status, with one event and one audit row.
Advance(d, o, f, to, notice, mark) ==
    [d EXCEPT !.settlement[o][f] = Transition(@, to),
              !.outbox[o][f] = Append(@, notice),
              !.audit[o][f] = Append(@, mark)]

\* Such a write keeps the contents typed and the histories true.
LEMMA AdvanceEffect ==
    ASSUME NEW d \in Contents, DataInv(d), NEW o \in Orders, NEW f \in Farms,
           NEW to \in {"approved", "paid"}, NEW notice \in Notices, NEW mark \in Marks,
           d.settlement[o][f].status # "absent",
           Append(OutboxFor(d.settlement[o][f].status), notice) = OutboxFor(to),
           Append(AuditFor(d.settlement[o][f].status), mark) = AuditFor(to)
    PROVE  /\ Advance(d, o, f, to, notice, mark) \in Contents
           /\ DataInv(Advance(d, o, f, to, notice, mark))
  <1> DEFINE e == Advance(d, o, f, to, notice, mark)
             dues == [d.settlement EXCEPT ![o] =
                        [d.settlement[o] EXCEPT ![f] = Transition(d.settlement[o][f], to)]]
             notices == [d.outbox EXCEPT ![o] =
                           [d.outbox[o] EXCEPT ![f] = Append(d.outbox[o][f], notice)]]
             marks == [d.audit EXCEPT ![o] =
                         [d.audit[o] EXCEPT ![f] = Append(d.audit[o][f], mark)]]
  <1>1. e = [d EXCEPT !.settlement = dues, !.outbox = notices, !.audit = marks]
    BY DEF Advance
  <1> HIDE DEF e
  <1>2. /\ d.settlement[o][f] \in SettlementRow
        /\ d.outbox[o][f] \in Seq(Notices) /\ d.audit[o][f] \in Seq(Marks)
    BY ContentsFields
  <1>3. /\ Transition(d.settlement[o][f], to) \in SettlementRow
        /\ Transition(d.settlement[o][f], to).status = to
    BY <1>2, SettlementTransition
  <1>4. /\ Append(d.outbox[o][f], notice) \in Seq(Notices)
        /\ Append(d.audit[o][f], mark) \in Seq(Marks)
    BY <1>2
  <1>5. d.order[o].status = "delivered"
    BY DEF DataInv, NoSettlement
  <1>6. /\ e \in Contents
        /\ e.order = d.order /\ e.orderAudit = d.orderAudit
        /\ e.settlement = dues /\ e.outbox = notices /\ e.audit = marks
    <2>1. dues \in [Orders -> [Farms -> SettlementRow]]
      BY <1>3, ContentsFields
    <2>2. notices \in [Orders -> [Farms -> Seq(Notices)]]
      BY <1>4, ContentsFields
    <2>3. marks \in [Orders -> [Farms -> Seq(Marks)]]
      BY <1>4, ContentsFields
    <2> HIDE DEF dues, notices, marks
    <2> QED
      BY <1>1, <2>1, <2>2, <2>3 DEF Contents, SettlementRow, Notices, Marks
  <1>7. ASSUME NEW p \in Orders, NEW g \in Farms
        PROVE  /\ e.outbox[p][g] = OutboxFor(e.settlement[p][g].status)
               /\ e.audit[p][g] = AuditFor(e.settlement[p][g].status)
    <2>1. CASE p = o /\ g = f
      <3>1. /\ e.settlement[p][g].status = to
            /\ e.outbox[p][g] = Append(d.outbox[o][f], notice)
            /\ e.audit[p][g] = Append(d.audit[o][f], mark)
        BY <2>1, <1>6, <1>3, ContentsFields
      <3>2. /\ d.outbox[o][f] = OutboxFor(d.settlement[o][f].status)
            /\ d.audit[o][f] = AuditFor(d.settlement[o][f].status)
        BY DEF DataInv, HistoryIn
      <3>3. /\ Append(d.outbox[o][f], notice) = OutboxFor(to)
            /\ Append(d.audit[o][f], mark) = AuditFor(to)
        BY <3>2
      <3> QED
        BY <3>1, <3>3
    <2>2. CASE ~(p = o /\ g = f)
      <3>1. /\ e.settlement[p][g] = d.settlement[p][g]
            /\ e.outbox[p][g] = d.outbox[p][g] /\ e.audit[p][g] = d.audit[p][g]
        <4>1. CASE p # o
          BY <4>1, <1>6, ContentsFields
        <4>2. CASE p = o /\ g # f
          <5>1. e.settlement[p][g] = d.settlement[p][g]
            BY <4>2, <1>6, ContentsFields
          <5>2. e.outbox[p][g] = d.outbox[p][g]
            BY <4>2, <1>6, ContentsFields
          <5>3. e.audit[p][g] = d.audit[p][g]
            BY <4>2, <1>6, ContentsFields
          <5> QED
            BY <5>1, <5>2, <5>3
        <4> QED
          BY <2>2, <4>1, <4>2
      <3> QED
        BY <3>1 DEF DataInv, HistoryIn
    <2> QED
      BY <2>1, <2>2
  <1>8. HistoryIn(e)
    BY <1>6, <1>7 DEF DataInv, HistoryIn
  <1>9. ASSUME NEW p \in Orders, NEW g \in Farms, e.order[p].status # "delivered"
        PROVE  e.settlement[p][g] = NoSettlement
    <2>1. p # o /\ d.order[p].status # "delivered"
      BY <1>6, <1>5, <1>9
    <2>2. e.settlement[p] = d.settlement[p]
      BY <2>1, <1>6, ContentsFields
    <2> QED
      BY <2>1, <2>2 DEF DataInv
  <1> QED
    BY <1>6, <1>8, <1>9 DEF DataInv, e

\* Approve and MarkPaid are such writes.
LEMMA ApproveEffect ==
    ASSUME NEW d \in Contents, DataInv(d), NEW o \in Orders, NEW f \in Farms,
           d.settlement[o][f].status = "pending"
    PROVE  ApproveSettlement(d, o, f) \in Contents /\ DataInv(ApproveSettlement(d, o, f))
  <1>1. ApproveSettlement(d, o, f)
            = Advance(d, o, f, "approved", "settlement.approved", "settlement.approve")
    BY DEF ApproveSettlement, Advance
  <1>2. /\ Append(OutboxFor("pending"), "settlement.approved") = OutboxFor("approved")
        /\ Append(AuditFor("pending"), "settlement.approve") = AuditFor("approved")
    <2>1. "settlement.created" \in Notices /\ "settlement.approved" \in Notices
      BY DEF Notices
    <2>2. Append(<<"settlement.created">>, "settlement.approved")
              = <<"settlement.created", "settlement.approved">>
      BY <2>1, AppendToOne
    <2> QED
      BY <2>2, AppendToNone DEF OutboxFor, AuditFor
  <1>3. "settlement.approved" \in Notices /\ "settlement.approve" \in Marks
    BY DEF Notices, Marks
  <1> QED
    BY <1>1, <1>2, <1>3, AdvanceEffect

\* MarkPaid, the second of them.
LEMMA PayEffect ==
    ASSUME NEW d \in Contents, DataInv(d), NEW o \in Orders, NEW f \in Farms,
           d.settlement[o][f].status = "approved"
    PROVE  PaySettlement(d, o, f) \in Contents /\ DataInv(PaySettlement(d, o, f))
  <1>1. PaySettlement(d, o, f)
            = Advance(d, o, f, "paid", "settlement.paid", "settlement.pay")
    BY DEF PaySettlement, Advance
  <1>2. /\ Append(OutboxFor("approved"), "settlement.paid") = OutboxFor("paid")
        /\ Append(AuditFor("approved"), "settlement.pay") = AuditFor("paid")
    <2>1. /\ "settlement.created" \in Notices /\ "settlement.approved" \in Notices
          /\ "settlement.paid" \in Notices
          /\ "settlement.approve" \in Marks /\ "settlement.pay" \in Marks
      BY DEF Notices, Marks
    <2>2. Append(<<"settlement.created", "settlement.approved">>, "settlement.paid")
              = <<"settlement.created", "settlement.approved", "settlement.paid">>
      BY <2>1, AppendToTwo
    <2>3. Append(<<"settlement.approve">>, "settlement.pay")
              = <<"settlement.approve", "settlement.pay">>
      BY <2>1, AppendToOne
    <2> QED
      BY <2>2, <2>3 DEF OutboxFor, AuditFor
  <1>3. "settlement.paid" \in Notices /\ "settlement.pay" \in Marks
    BY DEF Notices, Marks
  <1> QED
    BY <1>1, <1>2, <1>3, AdvanceEffect

\* The lock holder's pages are sound contents.
LEMMA WriterEffect ==
    ASSUME IInv, NEW r \in Requests, writer = r
    PROVE  wk \in Contents /\ DataInv(wk)
  <1>1. db \in Contents /\ DataInv(db) /\ WriterInv(r) /\ req[r].on \in Orders
    BY DEF IInv, TypeOK, WriterInv
  <1> QED
    BY <1>1, DeliverEffect, ApproveEffect, PayEffect DEF WriterInv

-----------------------------------------------------------------------------
\* The initial contents are typed and carry no history.
LEMMA InitInv == Init => IInv
  <1> SUFFICES ASSUME Init PROVE IInv
    OBVIOUS
  <1> USE SettlementAssumption
  <1>1. AllocatedOrders \in Contents
    <2>1. NoSettlement \in SettlementRow
      BY DEF NoSettlement, SettlementRow, Amounts
    <2>2. <<>> \in Seq(Notices) /\ <<>> \in Seq(Marks) /\ <<>> \in Seq({"order.deliver"})
      OBVIOUS
    <2> QED
      BY <2>1, <2>2 DEF AllocatedOrders, Contents, SettlementRow, Notices, Marks
  <1>2. DataInv(AllocatedOrders)
    BY DEF AllocatedOrders, DataInv, HistoryIn, OutboxFor, AuditFor, NoSettlement
  <1>3. db = AllocatedOrders /\ wk = AllocatedOrders /\ writer = None /\ fresh = {}
        /\ req = [r \in Requests |-> Idle]
    BY DEF Init, StartStore
  <1>4. TypeOK
    BY <1>1, <1>3 DEF TypeOK, RequestState, Idle
  <1>5. \A r \in Requests : SnapshotInv(r) /\ WriterInv(r)
    BY <1>3 DEF SnapshotInv, WriterInv, Idle
  <1> QED
    BY <1>2, <1>3, <1>4, <1>5 DEF IInv

\* A step that commits nothing and touches one request keeps the invariant
\* when that request keeps its part of it.
LEMMA QuietStep ==
    ASSUME IInv, NEW r \in Requests, NEW state \in RequestState,
           Become(r, state), UNCHANGED db, wk' \in Contents,
           writer' \in Requests \union {None},
           \A s \in Requests \ {r} : writer' = s => writer = s /\ wk' = wk,
           fresh' \in SUBSET Requests, fresh' \subseteq fresh \union {r},
           \A s \in Requests \ {r} : writer = s => writer' = s,
           SnapshotInv(r)', WriterInv(r)'
    PROVE  IInv'
  <1>1. TypeOK'
    BY DEF IInv, TypeOK, Become
  <1>2. DataInv(db)'
    BY DEF IInv
  <1>3. ASSUME NEW s \in Requests, s # r
        PROVE  SnapshotInv(s)' /\ WriterInv(s)'
    <2>1. req'[s] = req[s]
      BY <1>3 DEF Become, IInv, TypeOK
    <2>2. SnapshotInv(s) /\ WriterInv(s)
      BY DEF IInv
    <2>3. SnapshotInv(s)'
      BY <1>3, <2>1, <2>2 DEF SnapshotInv
    <2>4. WriterInv(s)'
      BY <1>3, <2>1, <2>2 DEF WriterInv
    <2> QED
      BY <2>3, <2>4
  <1> QED
    BY <1>1, <1>2, <1>3 DEF IInv

\* The reads that open a request.
LEMMA BeginInv ==
    ASSUME IInv, NEW r \in Requests, Begin(r)
    PROVE  IInv'
  <1> USE SettlementAssumption
  <1>1. PICK o \in Orders, ver \in Versions :
            \/ DeliverBegin(r, o, ver)
            \/ \E f \in Farms : ApproveBegin(r, o, f, ver) \/ PayBegin(r, o, f, ver)
    BY DEF Begin
  <1>2. ver \in Nat
    BY DEF Versions
  <1>3. req[r].pc = "idle" /\ Read(r) /\ writer # r
    BY <1>1 DEF DeliverBegin, ApproveBegin, PayBegin, IInv, WriterInv
  <1>4. /\ UNCHANGED <<db, wk, writer>>
        /\ fresh' = fresh \union {r}
    BY <1>3 DEF Read
  <1>5. /\ wk' \in Contents /\ writer' \in Requests \union {None}
        /\ fresh' \in SUBSET Requests /\ WriterInv(r)'
    BY <1>3, <1>4 DEF IInv, TypeOK, WriterInv
  <1>6. req \in [Requests -> RequestState]
    BY DEF IInv, TypeOK
  <1>7. CASE DeliverBegin(r, o, ver)
    <2> DEFINE state == [pc |-> "delivering", on |-> o, farm |-> None, ver |-> ver]
    <2>1. Become(r, state) /\ db.order[o].version = ver
      BY <1>7 DEF DeliverBegin
    <2>2. state \in RequestState
      BY <1>2 DEF RequestState
    <2>3. req'[r] = state
      BY <2>1, <1>6 DEF Become
    <2>4. SnapshotInv(r)'
      BY <2>1, <2>3, <1>4 DEF SnapshotInv
    <2> HIDE DEF state
    <2> QED
      BY <2>1, <2>2, <2>4, <1>4, <1>5, QuietStep
  <1>8. CASE \E f \in Farms : ApproveBegin(r, o, f, ver)
    <2>1. PICK f \in Farms : ApproveBegin(r, o, f, ver)
      BY <1>8
    <2> DEFINE state == [pc |-> "approving", on |-> o, farm |-> f, ver |-> ver]
    <2>2. /\ Become(r, state) /\ db.settlement[o][f].status = "pending"
          /\ db.settlement[o][f].version = ver
      BY <2>1 DEF ApproveBegin
    <2>3. state \in RequestState
      BY <1>2 DEF RequestState
    <2>4. req'[r] = state
      BY <2>2, <1>6 DEF Become
    <2>5. SnapshotInv(r)'
      BY <2>2, <2>4, <1>4 DEF SnapshotInv
    <2> HIDE DEF state
    <2> QED
      BY <2>2, <2>3, <2>5, <1>4, <1>5, QuietStep
  <1>9. CASE \E f \in Farms : PayBegin(r, o, f, ver)
    <2>1. PICK f \in Farms : PayBegin(r, o, f, ver)
      BY <1>9
    <2> DEFINE state == [pc |-> "paying", on |-> o, farm |-> f, ver |-> ver]
    <2>2. Become(r, state) /\ db.settlement[o][f].status = "approved"
      BY <2>1 DEF PayBegin
    <2>3. state \in RequestState
      BY <1>2 DEF RequestState
    <2>4. req'[r] = state
      BY <2>2, <1>6 DEF Become
    <2>5. SnapshotInv(r)'
      BY <2>2, <2>4, <1>4 DEF SnapshotInv
    <2> HIDE DEF state
    <2> QED
      BY <2>2, <2>3, <2>5, <1>4, <1>5, QuietStep
  <1> QED
    BY <1>1, <1>7, <1>8, <1>9

\* A request that ends without a commit gives back the lock and its pages.
LEMMA GiveUpInv ==
    ASSUME IInv, NEW r \in Requests, Rollback(r), Become(r, Idle)
    PROVE  IInv'
  <1> USE SettlementAssumption
  <1>1. Idle \in RequestState
    BY DEF Idle, RequestState
  <1>2. /\ UNCHANGED db /\ wk' \in Contents
        /\ writer' \in Requests \union {None} /\ writer' # r
        /\ fresh' \in SUBSET Requests /\ fresh' \subseteq fresh
    BY DEF Rollback, IInv, TypeOK
  <1>3. ASSUME NEW s \in Requests \ {r}
        PROVE  (writer' = s => writer = s /\ wk' = wk) /\ (writer = s => writer' = s)
    BY DEF Rollback
  <1>4. req'[r] = Idle
    BY DEF Become, IInv, TypeOK
  <1>5. SnapshotInv(r)' /\ WriterInv(r)'
    BY <1>2, <1>4 DEF SnapshotInv, WriterInv, Idle
  <1> QED
    BY <1>1, <1>2, <1>3, <1>5, QuietStep

\* The write of a request that found its conditions met.
LEMMA WriteInv ==
    ASSUME IInv, NEW r \in Requests, NEW pages \in Contents, Write(r, pages),
           req[r].pc # "committing", Become(r, [req[r] EXCEPT !.pc = "committing"]),
           (writer' = r /\ wk' = pages /\ req'[r] = [req[r] EXCEPT !.pc = "committing"])
              => WriterInv(r)'
    PROVE  IInv'
  <1> USE SettlementAssumption
  <1>1. writer = None /\ r \in fresh
    BY DEF Write, CanWrite, IInv, WriterInv
  <1>2. /\ writer' = r /\ wk' = pages /\ UNCHANGED <<db, fresh>>
    BY DEF Write
  <1>3. req[r] \in RequestState
    BY DEF IInv, TypeOK
  <1>4. [req[r] EXCEPT !.pc = "committing"] \in RequestState
    BY <1>3 DEF RequestState
  <1>5. req'[r] = [req[r] EXCEPT !.pc = "committing"]
    BY DEF Become, IInv, TypeOK
  <1>6. req'[r].pc = "committing"
    BY <1>3, <1>5 DEF RequestState
  <1>7. SnapshotInv(r)' /\ WriterInv(r)'
    BY <1>2, <1>5, <1>6 DEF SnapshotInv
  <1>8. fresh' \in SUBSET Requests
    BY <1>2 DEF IInv, TypeOK
  <1> QED
    BY <1>1, <1>2, <1>4, <1>7, <1>8, QuietStep

\* MarkDelivered writes on top of an order that is not delivered.
LEMMA DeliverWriteInv ==
    ASSUME IInv, NEW r \in Requests, DeliverWrite(r)
    PROVE  IInv'
  <1> USE SettlementAssumption
  <1> DEFINE o == req[r].on
             next == [req[r] EXCEPT !.pc = "committing"]
  <1>1. req[r].pc = "delivering" /\ o \in Orders /\ req[r].farm = None
    BY DEF DeliverWrite, IInv, SnapshotInv
  <1>2. writer # r
    BY <1>1 DEF IInv, WriterInv
  <1>3. /\ Deliverable(db.order[o]) /\ \A g \in FarmsOf(o) : Due(o, g) > 0
        /\ Write(r, DeliverOrder(db, o)) /\ r \in fresh
    BY <1>2 DEF DeliverWrite, View, Write, CanWrite
  <1>4. db.order[o].version = req[r].ver
    BY <1>1, <1>3 DEF IInv, SnapshotInv
  <1>5. DeliverOrder(db, o) \in Contents
    BY <1>1, <1>3, DeliverEffect DEF IInv, TypeOK
  <1>6. next.pc = "committing" /\ next.on = o /\ next.farm = None /\ next.ver = req[r].ver
    BY <1>1 DEF IInv, TypeOK, RequestState
  <1>7. ASSUME writer' = r, wk' = DeliverOrder(db, o), req'[r] = next
        PROVE  WriterInv(r)'
    <2>1. UNCHANGED db
      BY <1>3 DEF Write
    <2>2. /\ req'[r].pc = "committing" /\ req'[r].on = o
          /\ req'[r].farm = None /\ req'[r].ver = req[r].ver
      BY <1>6, <1>7
    <2> HIDE DEF o, next
    <2> QED
      BY <1>1, <1>3, <1>4, <1>7, <2>1, <2>2 DEF WriterInv
  <1>8. Become(r, next)
    BY DEF DeliverWrite
  <1> QED
    BY <1>1, <1>3, <1>5, <1>7, <1>8, WriteInv

\* Approve writes on top of the pending settlement it read.
LEMMA ApproveWriteInv ==
    ASSUME IInv, NEW r \in Requests, ApproveWrite(r)
    PROVE  IInv'
  <1> USE SettlementAssumption
  <1> DEFINE o == req[r].on
             f == req[r].farm
             next == [req[r] EXCEPT !.pc = "committing"]
  <1>1. req[r].pc = "approving" /\ o \in Orders /\ f \in Farms
    BY DEF ApproveWrite, IInv, SnapshotInv
  <1>2. writer # r
    BY <1>1 DEF IInv, WriterInv
  <1>3. Write(r, ApproveSettlement(db, o, f)) /\ r \in fresh
    BY <1>2 DEF ApproveWrite, View, Write, CanWrite
  <1>4. db.settlement[o][f].status = "pending" /\ db.settlement[o][f].version = req[r].ver
    BY <1>1, <1>3 DEF IInv, SnapshotInv
  <1>5. ApproveSettlement(db, o, f) \in Contents
    BY <1>1, <1>4, ApproveEffect DEF IInv, TypeOK
  <1>6. next.pc = "committing" /\ next.on = o /\ next.farm = f /\ next.ver = req[r].ver
    BY DEF IInv, TypeOK, RequestState
  <1>7. ASSUME writer' = r, wk' = ApproveSettlement(db, o, f), req'[r] = next
        PROVE  WriterInv(r)'
    <2>1. UNCHANGED db
      BY <1>3 DEF Write
    <2>2. /\ req'[r].pc = "committing" /\ req'[r].on = o
          /\ req'[r].farm = f /\ req'[r].ver = req[r].ver
      BY <1>6, <1>7
    <2> HIDE DEF o, f, next
    <2> QED
      BY <1>1, <1>4, <1>7, <2>1, <2>2 DEF WriterInv
  <1>8. Become(r, next)
    BY DEF ApproveWrite
  <1> QED
    BY <1>1, <1>3, <1>5, <1>7, <1>8, WriteInv

\* The UPDATE of MarkPaid compares the version, so the write knows it.
LEMMA PayWriteInv ==
    ASSUME IInv, NEW r \in Requests, PayWrite(r)
    PROVE  IInv'
  <1> USE SettlementAssumption
  <1> DEFINE o == req[r].on
             f == req[r].farm
             next == [req[r] EXCEPT !.pc = "committing"]
  <1>1. req[r].pc = "paying" /\ o \in Orders /\ f \in Farms
    BY DEF PayWrite, IInv, SnapshotInv
  <1>2. writer # r
    BY <1>1 DEF IInv, WriterInv
  <1>3. Write(r, PaySettlement(db, o, f)) /\ r \in fresh
        /\ db.settlement[o][f].version = req[r].ver
    BY <1>2 DEF PayWrite, View, Write, CanWrite
  <1>4. db.settlement[o][f].status = "approved"
    BY <1>1, <1>3 DEF IInv, SnapshotInv
  <1>5. PaySettlement(db, o, f) \in Contents
    BY <1>1, <1>4, PayEffect DEF IInv, TypeOK
  <1>6. next.pc = "committing" /\ next.on = o /\ next.farm = f /\ next.ver = req[r].ver
    BY DEF IInv, TypeOK, RequestState
  <1>7. ASSUME writer' = r, wk' = PaySettlement(db, o, f), req'[r] = next
        PROVE  WriterInv(r)'
    <2>1. UNCHANGED db
      BY <1>3 DEF Write
    <2>2. /\ req'[r].pc = "committing" /\ req'[r].on = o
          /\ req'[r].farm = f /\ req'[r].ver = req[r].ver
      BY <1>6, <1>7
    <2> HIDE DEF o, f, next
    <2> QED
      BY <1>1, <1>3, <1>4, <1>7, <2>1, <2>2 DEF WriterInv
  <1>8. Become(r, next)
    BY DEF PayWrite
  <1> QED
    BY <1>1, <1>3, <1>5, <1>7, <1>8, WriteInv

\* A commit publishes sound pages and leaves no snapshot current.
LEMMA CommitInv ==
    ASSUME IInv, NEW r \in Requests, CommitRequest(r)
    PROVE  IInv'
  <1> USE SettlementAssumption
  <1>1. writer = r /\ db' = wk /\ writer' = None /\ fresh' = {} /\ UNCHANGED wk
    BY DEF CommitRequest, Commit
  <1>2. wk \in Contents /\ DataInv(wk)
    BY <1>1, WriterEffect
  <1>3. Idle \in RequestState
    BY DEF Idle, RequestState
  <1>4. req \in [Requests -> RequestState] /\ req' = [req EXCEPT ![r] = Idle]
    BY DEF CommitRequest, Become, IInv, TypeOK
  <1>5. TypeOK'
    BY <1>1, <1>2, <1>3, <1>4 DEF TypeOK
  <1>6. DataInv(db)'
    BY <1>1, <1>2
  <1>7. ASSUME NEW s \in Requests
        PROVE  SnapshotInv(s)' /\ WriterInv(s)'
    <2>1. CASE s = r
      BY <1>1, <1>4, <2>1 DEF SnapshotInv, WriterInv, Idle
    <2>2. CASE s # r
      <3>1. req'[s] = req[s] /\ writer # s /\ SnapshotInv(s)
        BY <1>1, <1>4, <2>2 DEF IInv
      <3> QED
        BY <1>1, <3>1 DEF SnapshotInv, WriterInv
    <2> QED
      BY <2>1, <2>2
  <1> QED
    BY <1>5, <1>6, <1>7 DEF IInv

\* A crash leaves the committed contents and no request.
LEMMA CrashInv ==
    ASSUME IInv, Crash
    PROVE  IInv'
  <1> USE SettlementAssumption
  <1>1. /\ writer' = None /\ wk' = db /\ fresh' = {} /\ UNCHANGED db
        /\ req' = [r \in Requests |-> Idle]
    BY DEF Crash, LoseAll
  <1>2. TypeOK'
    BY <1>1 DEF IInv, TypeOK, Idle, RequestState
  <1>3. DataInv(db)'
    BY <1>1 DEF IInv
  <1>4. \A r \in Requests : SnapshotInv(r)' /\ WriterInv(r)'
    BY <1>1 DEF SnapshotInv, WriterInv, Idle
  <1> QED
    BY <1>2, <1>3, <1>4 DEF IInv

-----------------------------------------------------------------------------
\* Every step keeps the inductive invariant.
LEMMA StepInv == IInv /\ [Next]_vars => IInv'
  <1> SUFFICES ASSUME IInv, [Next]_vars PROVE IInv'
    OBVIOUS
  <1>1. CASE Crash
    BY <1>1, CrashInv
  <1>2. ASSUME NEW r \in Requests, Begin(r) PROVE IInv'
    BY <1>2, BeginInv
  <1>3. ASSUME NEW r \in Requests, Progress(r) PROVE IInv'
    <2>1. CASE DeliverWrite(r)
      BY <2>1, DeliverWriteInv
    <2>2. CASE ApproveWrite(r)
      BY <2>2, ApproveWriteInv
    <2>3. CASE PayWrite(r)
      BY <2>3, PayWriteInv
    <2>4. CASE CommitRequest(r)
      BY <2>4, CommitInv
    <2>5. CASE DeliverRefused(r) \/ PayRefused(r) \/ Busy(r)
      BY <2>5, GiveUpInv DEF DeliverRefused, PayRefused, Busy
    <2> QED
      BY <1>3, <2>1, <2>2, <2>3, <2>4, <2>5 DEF Progress
  <1>4. ASSUME NEW r \in Requests, Cancel(r) PROVE IInv'
    BY <1>4, GiveUpInv DEF Cancel
  <1>5. CASE UNCHANGED vars
    BY <1>5 DEF vars, IInv, TypeOK, SnapshotInv, WriterInv
  <1> QED
    BY <1>1, <1>2, <1>3, <1>4, <1>5 DEF Next

\* IInv holds in every reachable state: what is committed is always one
\* complete delivery, approval or payment away from what was committed before
\* it (MarkDelivered, Approve, MarkPaid inside Store.WithinTx).
THEOREM Inductive == Spec => []IInv
  BY InitInv, StepInv, PTL DEF Spec

\* Every variable keeps its type, and a payment only follows an approval.
THEOREM TypeCorrect == Spec => []TypeOK
  <1>1. IInv => TypeOK
    BY DEF IInv
  <1> QED
    BY <1>1, Inductive, PTL

\* The outbox and the audit trail of every settlement always tell its history
\* once and in order.
THEOREM HistoriesMatch == Spec => []HistoryMatches
  <1>1. IInv => HistoryMatches
    BY DEF IInv, DataInv, HistoryMatches
  <1> QED
    BY <1>1, Inductive, PTL

\* Only a commit changes the committed contents, and it is the lock holder's.
LEMMA OnlyCommitsChange ==
    ASSUME IInv, [Next]_vars, db' # db
    PROVE  \E r \in Requests : writer = r /\ db' = wk /\ WriterInv(r)
  <1>1. ASSUME NEW r \in Requests, Begin(r) PROVE FALSE
    BY <1>1 DEF Begin, DeliverBegin, ApproveBegin, PayBegin, Read
  <1>2. ASSUME NEW r \in Requests, Cancel(r) PROVE FALSE
    BY <1>2 DEF Cancel, Rollback
  <1>3. ASSUME NEW r \in Requests, Progress(r) PROVE CommitRequest(r)
    BY <1>3 DEF Progress, DeliverWrite, DeliverRefused, ApproveWrite, PayWrite, PayRefused,
                Busy, Write, Rollback
  <1>4. PICK r \in Requests : CommitRequest(r)
    BY <1>1, <1>2, <1>3 DEF Next, Crash, LoseAll, vars
  <1> QED
    BY <1>4 DEF CommitRequest, Commit, IInv

\* Two clients that decide on the same row at the same version never both
\* succeed: the version checks of MarkDelivered, Approve and MarkPaid still
\* hold when the transaction commits.
THEOREM LostUpdatesRefused == Spec => NoLostUpdate
  <1> DEFINE Kept ==
        \A r \in Requests :
          (writer = r /\ db' # db) =>
             req[r].ver = IF req[r].farm = None THEN db.order[req[r].on].version
                          ELSE db.settlement[req[r].on][req[r].farm].version
  <1>1. IInv /\ [Next]_vars => Kept
    BY SettlementAssumption DEF IInv, WriterInv
  <1>2. IInv /\ [Next]_vars => [Kept]_vars
    BY <1>1
  <1> HIDE DEF Kept
  <1>3. Spec => [][Kept]_vars
    BY <1>2, Inductive, PTL DEF Spec
  <1> QED
    BY <1>3 DEF NoLostUpdate, Kept

-----------------------------------------------------------------------------
\* The refinement.  Both abstract variables are functions of db.
DeliveredIn(d) == {o \in Orders : d.order[o].status = "delivered"}
DebtIn(d) == [o \in Orders |-> [f \in Farms |-> DebtOf(d.settlement[o][f])]]
DuesOf == [o \in Orders |-> [f \in Farms |-> IF f \in FarmsOf(o) THEN Due(o, f) ELSE 0]]

\* A committed delivery is the abstract delivery.
LEMMA DeliveryIsAbstract ==
    ASSUME NEW d \in Contents, DataInv(d), NEW o \in Orders, Deliverable(d.order[o]),
           \A g \in FarmsOf(o) : Due(o, g) > 0
    PROVE  /\ o \notin DeliveredIn(d)
           /\ DeliveredIn(DeliverOrder(d, o)) = DeliveredIn(d) \union {o}
           /\ DebtIn(DeliverOrder(d, o)) = [DebtIn(d) EXCEPT ![o] =
                 [f \in Farms |-> IF DuesOf[o][f] = 0 THEN [phase |-> "none", amount |-> 0]
                                  ELSE [phase |-> "due", amount |-> DuesOf[o][f]]]]
  <1> DEFINE e == DeliverOrder(d, o)
  <1>1. /\ d.order \in [Orders -> OrderRow]
        /\ d.settlement \in [Orders -> [Farms -> SettlementRow]]
    BY ContentsFields
  <1>2. d.order[o].status # "delivered"
    BY DEF Deliverable, OrderCanTransition
  <1>3. /\ e.order = [d.order EXCEPT ![o] = Delivered(d.order[o])]
        /\ e.settlement = [d.settlement EXCEPT
                             ![o] = [f \in Farms |-> Created(o, d.settlement[o][f], f)]]
    BY DEF DeliverOrder, Delivered, Created, Contents
  <1> HIDE DEF e
  <1>4. Delivered(d.order[o]).status = "delivered"
    BY <1>1, DeliveredRow
  <1>5. DeliveredIn(e) = DeliveredIn(d) \union {o}
    <2>1. ASSUME NEW p \in Orders
          PROVE  e.order[p] = IF p = o THEN Delivered(d.order[o]) ELSE d.order[p]
      BY <1>1, <1>3
    <2> QED
      BY <2>1, <1>4 DEF DeliveredIn
  <1>6. ASSUME NEW f \in Farms
        PROVE  DebtOf(e.settlement[o][f]) =
                 IF DuesOf[o][f] = 0 THEN [phase |-> "none", amount |-> 0]
                 ELSE [phase |-> "due", amount |-> DuesOf[o][f]]
    <2>1. d.settlement[o][f] = NoSettlement
      BY <1>2 DEF DataInv
    <2>2. e.settlement[o][f] = Created(o, NoSettlement, f)
      BY <1>1, <1>3, <2>1
    <2>3. CASE f \in FarmsOf(o)
      <3>1. DuesOf[o][f] = Due(o, f) /\ Due(o, f) # 0
        BY <2>3 DEF DuesOf
      <3>2. e.settlement[o][f] = [status |-> "pending", amount |-> Due(o, f), version |-> 1]
        BY <2>2, <2>3 DEF Created
      <3> QED
        BY <3>1, <3>2 DEF DebtOf
    <2>4. CASE f \notin FarmsOf(o)
      BY <2>2, <2>4 DEF Created, DuesOf, NoSettlement, DebtOf
    <2> QED
      BY <2>3, <2>4
  <1>7. ASSUME NEW p \in Orders, p # o
        PROVE  e.settlement[p] = d.settlement[p]
    BY <1>1, <1>3, <1>7
  <1>8. DebtIn(e) = [DebtIn(d) EXCEPT ![o] =
                 [f \in Farms |-> IF DuesOf[o][f] = 0 THEN [phase |-> "none", amount |-> 0]
                                  ELSE [phase |-> "due", amount |-> DuesOf[o][f]]]]
    BY <1>6, <1>7 DEF DebtIn
  <1> QED
    BY <1>2, <1>5, <1>8 DEF DeliveredIn, e

\* A committed approval or payment moves one debt one phase on.
LEMMA AdvanceIsAbstract ==
    ASSUME NEW d \in Contents, NEW o \in Orders, NEW f \in Farms,
           NEW to \in {"approved", "paid"}, NEW notice, NEW mark
    PROVE  /\ DeliveredIn(Advance(d, o, f, to, notice, mark)) = DeliveredIn(d)
           /\ DebtIn(Advance(d, o, f, to, notice, mark)) = [DebtIn(d) EXCEPT ![o][f].phase = to]
  <1> DEFINE e == Advance(d, o, f, to, notice, mark)
  <1>1. d.settlement \in [Orders -> [Farms -> SettlementRow]]
    BY ContentsFields
  <1>2. /\ e.order = d.order
        /\ e.settlement = [d.settlement EXCEPT ![o][f] = Transition(d.settlement[o][f], to)]
    BY DEF Advance, Contents
  <1> HIDE DEF e
  <1>3. /\ Transition(d.settlement[o][f], to).status = to
        /\ Transition(d.settlement[o][f], to).amount = d.settlement[o][f].amount
    BY <1>1, SettlementTransition
  <1>4. DebtOf(e.settlement[o][f]) = [DebtOf(d.settlement[o][f]) EXCEPT !.phase = to]
    <2>1. DebtOf(e.settlement[o][f]) = [phase |-> to, amount |-> d.settlement[o][f].amount]
      BY <1>1, <1>2, <1>3 DEF DebtOf
    <2> QED
      BY <2>1 DEF DebtOf
  <1>5. ASSUME NEW p \in Orders, NEW g \in Farms, ~(p = o /\ g = f)
        PROVE  e.settlement[p][g] = d.settlement[p][g]
    <2>1. CASE p # o
      BY <2>1, <1>1, <1>2
    <2>2. CASE p = o /\ g # f
      BY <2>2, <1>1, <1>2
    <2> QED
      BY <1>5, <2>1, <2>2
  <1>6. DebtIn(e) = [DebtIn(d) EXCEPT ![o][f].phase = to]
    <2> DEFINE new == [DebtOf(d.settlement[o][f]) EXCEPT !.phase = to]
               changed == [p \in Orders |-> [g \in Farms |->
                             IF p = o /\ g = f THEN new ELSE DebtOf(d.settlement[p][g])]]
    <2>1. DebtIn(e) = changed
      BY <1>4, <1>5 DEF DebtIn
    <2>2. [DebtIn(d) EXCEPT ![o][f].phase = to] = changed
      BY DEF DebtIn
    <2> QED
      BY <2>1, <2>2
  <1> QED
    BY <1>2, <1>6 DEF DeliveredIn, e

\* Settlement implements Payout: whatever the requests do concurrently, and
\* whenever the process dies, the committed rows only ever show a delivery with
\* all its dues, an approval of a due, or a payment of an approved one.
THEOREM ImplementsPayout == Spec => PayoutSpec
  <1> USE SettlementAssumption
  <1>1. Init => P!Init
    BY DEF Init, StartStore, AllocatedOrders, NoSettlement, DebtOf, P!Init, P!NoDebt
  <1>2. IInv /\ [Next]_vars => [P!Next]_P!payout
    <2> SUFFICES ASSUME IInv, [Next]_vars, db' # db PROVE P!Next
      BY DEF P!payout
    <2>1. PICK r \in Requests : writer = r /\ db' = wk /\ WriterInv(r)
      BY OnlyCommitsChange
    <2>2. db \in Contents /\ DataInv(db)
      BY DEF IInv, TypeOK
    <2> DEFINE o == req[r].on
               f == req[r].farm
    <2>3. o \in Orders
      BY <2>1 DEF WriterInv
    <2> HIDE DEF o, f
    <2>4. CASE /\ Deliverable(db.order[o])
               /\ \A g \in FarmsOf(o) : Due(o, g) > 0
               /\ wk = DeliverOrder(db, o)
      <3>1. /\ o \notin DeliveredIn(db)
            /\ DeliveredIn(db') = DeliveredIn(db) \union {o}
            /\ DebtIn(db') = [DebtIn(db) EXCEPT ![o] =
                 [g \in Farms |-> IF DuesOf[o][g] = 0 THEN [phase |-> "none", amount |-> 0]
                                  ELSE [phase |-> "due", amount |-> DuesOf[o][g]]]]
        BY <2>1, <2>2, <2>3, <2>4, DeliveryIsAbstract
      <3>2. P!Deliver(o)
        BY <3>1 DEF P!Deliver, P!NoDebt, DeliveredIn, DebtIn, DuesOf
      <3> QED
        BY <2>3, <3>2 DEF P!Next, P!Deliver
    <2>5. CASE /\ f \in Farms
               /\ db.settlement[o][f].status = "pending"
               /\ wk = ApproveSettlement(db, o, f)
      <3>1. db' = Advance(db, o, f, "approved", "settlement.approved", "settlement.approve")
        BY <2>1, <2>5 DEF ApproveSettlement, Advance
      <3>2. /\ DeliveredIn(db') = DeliveredIn(db)
            /\ DebtIn(db') = [DebtIn(db) EXCEPT ![o][f].phase = "approved"]
        BY <2>2, <2>3, <2>5, <3>1, AdvanceIsAbstract
      <3>3. DebtIn(db)[o][f].phase = "due"
        BY <2>3, <2>5 DEF DebtIn, DebtOf
      <3>4. P!Approve(o, f)
        BY <3>2, <3>3 DEF P!Approve, DeliveredIn, DebtIn
      <3> QED
        BY <2>3, <2>5, <3>4 DEF P!Next
    <2>6. CASE /\ f \in Farms
               /\ db.settlement[o][f].status = "approved"
               /\ wk = PaySettlement(db, o, f)
      <3>1. db' = Advance(db, o, f, "paid", "settlement.paid", "settlement.pay")
        BY <2>1, <2>6 DEF PaySettlement, Advance
      <3>2. /\ DeliveredIn(db') = DeliveredIn(db)
            /\ DebtIn(db') = [DebtIn(db) EXCEPT ![o][f].phase = "paid"]
        BY <2>2, <2>3, <2>6, <3>1, AdvanceIsAbstract
      <3>3. DebtIn(db)[o][f].phase = "approved"
        BY <2>3, <2>6 DEF DebtIn, DebtOf
      <3>4. P!Pay(o, f)
        BY <3>2, <3>3 DEF P!Pay, DeliveredIn, DebtIn
      <3> QED
        BY <2>3, <2>6, <3>4 DEF P!Next
    <2> QED
      BY <2>1, <2>4, <2>5, <2>6 DEF WriterInv, o, f
  <1> QED
    BY <1>1, <1>2, Inductive, PTL DEF Spec, PayoutSpec, P!Spec

-----------------------------------------------------------------------------
\* What the folds compute.  Amounts are counted as sets of cents, because a sum
\* over a set needs induction and the cardinality of a set does not.

\* Two functions on the subsets of a finite set are equal if they agree on every
\* subset as soon as they agree on what is smaller.
LEMMA AgreeBySize ==
    ASSUME NEW S, IsFiniteSet(S), NEW g, NEW h,
           \A s \in SUBSET S :
              (\A t \in SUBSET s : t # s => g[t] = h[t]) => g[s] = h[s]
    PROVE  g[S] = h[S]
  <1> DEFINE differ == {s \in SUBSET S : g[s] # h[s]}
  <1>1. IsWellFoundedOn(StrictSubsetOrdering(S), SUBSET S)
    BY FS_StrictSubsetOrderingWellFounded, FS_FiniteSubsetsOfFinite
  <1>2. ASSUME differ # {} PROVE FALSE
    <2>1. PICK s \in differ : \A t \in differ : <<t, s>> \notin StrictSubsetOrdering(S)
      <3>1. differ \subseteq SUBSET S
        OBVIOUS
      <3> HIDE DEF differ
      <3> QED
        BY <1>1, <1>2, <3>1, WFMin
    <2>2. ASSUME NEW t \in SUBSET s, t # s PROVE g[t] = h[t]
      <3>1. t \in SUBSET S /\ s \in SUBSET S
        OBVIOUS
      <3>2. <<t, s>> \in StrictSubsetOrdering(S)
        BY <2>2, <3>1 DEF StrictSubsetOrdering
      <3> QED
        BY <2>1, <3>1, <3>2
    <2> QED
      BY <2>2
  <1> QED
    BY <1>2

\* The cents an order owes for the batches in S.
CentsFor(o, S) == UNION {{b} \X (1..(Taken[o][b] * Price[b])) : b \in S}
TotalFor(o, S) == Cardinality(CentsFor(o, S))

\* Quantities and prices multiply to a number of cents.
LEMMA Products ==
    ASSUME NEW o \in Orders, NEW b \in Batches
    PROVE  /\ Taken[o][b] \in Nat
           /\ Taken[o][b] * Price[b] \in Nat
           /\ Taken[o][b] = 0 <=> Taken[o][b] * Price[b] = 0
  <1>1. Taken[o][b] \in Nat /\ Price[b] \in Nat \ {0}
    BY SettlementAssumption
  <1>2. ASSUME NEW q \in Nat, NEW p \in Nat \ {0}
        PROVE  q * p \in Nat /\ (q = 0 <=> q * p = 0)
    OBVIOUS
  <1> QED
    BY <1>1, <1>2

\* Nothing is owed for no batch.
LEMMA TotalOfNone == ASSUME NEW o PROVE TotalFor(o, {}) = 0
  <1>1. CentsFor(o, {}) = {}
    BY DEF CentsFor
  <1> QED
    BY <1>1, FS_EmptySet DEF TotalFor

\* A batch adds its own cents.
LEMMA TotalAdded ==
    ASSUME NEW o \in Orders, NEW S \in SUBSET Batches, NEW b \in S
    PROVE  /\ TotalFor(o, S \ {b}) \in Nat
           /\ TotalFor(o, S) = Taken[o][b] * Price[b] + TotalFor(o, S \ {b})
  <1> DEFINE n == Taken[o][b] * Price[b]
             own == {b} \X (1..n)
             rest == CentsFor(o, S \ {b})
  <1>1. n \in Nat
    BY Products
  <1>2. IsFiniteSet(own) /\ Cardinality(own) = n
    <2> HIDE DEF n
    <2>1. IsFiniteSet(1..n) /\ Cardinality(1..n) = n
      <3>1. /\ IsFiniteSet(1..n)
            /\ Cardinality(1..n) = IF 1 > n THEN 0 ELSE n - 1 + 1
        <4>1. 1 \in Int /\ n \in Int
          BY <1>1
        <4> QED
          BY ONLY <4>1, FS_Interval
      <3> QED
        BY ONLY <3>1, <1>1
    <2>2. IsFiniteSet({b}) /\ Cardinality({b}) = 1
      BY FS_Singleton
    <2>3. /\ IsFiniteSet(own)
          /\ Cardinality(own) = Cardinality({b}) * Cardinality(1..n)
      BY ONLY <2>1, <2>2, FS_Product
    <2> QED
      BY ONLY <1>1, <2>1, <2>2, <2>3
  <1>3. IsFiniteSet(rest)
    <2> DEFINE R == S \ {b}
               part == [c \in R |-> {c} \X (1..(Taken[o][c] * Price[c]))]
               parts == {{c} \X (1..(Taken[o][c] * Price[c])) : c \in R}
    <2>1. IsFiniteSet(R)
      <3>1. R \in SUBSET Batches /\ IsFiniteSet(Batches)
        BY SettlementAssumption
      <3> HIDE DEF R
      <3> QED
        BY <3>1, FS_Subset
    <2>2. part \in Surjection(R, parts)
      BY DEF Surjection
    <2>3. IsFiniteSet(parts)
      <3> HIDE DEF part, parts, R
      <3> QED
        BY <2>1, <2>2, FS_Surjection
    <2>4. ASSUME NEW T \in parts PROVE IsFiniteSet(T)
      <3>1. PICK c \in R : T = {c} \X (1..(Taken[o][c] * Price[c]))
        OBVIOUS
      <3> DEFINE m == Taken[o][c] * Price[c]
      <3>2. m \in Nat
        BY Products
      <3> HIDE DEF m
      <3>3. IsFiniteSet(1..m) /\ IsFiniteSet({c})
        <4>1. 1 \in Int /\ m \in Int
          BY <3>2
        <4> QED
          BY ONLY <4>1, FS_Interval, FS_Singleton
      <3>4. IsFiniteSet({c} \X (1..m))
        BY ONLY <3>3, FS_Product
      <3> QED
        BY <3>1, <3>4 DEF m
    <2>5. rest = UNION parts
      BY DEF CentsFor
    <2> HIDE DEF parts, rest
    <2> QED
      BY <2>3, <2>4, <2>5, FS_UNION
  <1>4. CentsFor(o, S) = rest \union own
    BY DEF CentsFor
  <1>5. rest \intersect own = {}
    <2> SUFFICES ASSUME NEW u \in rest, u \in own PROVE FALSE
      OBVIOUS
    <2>1. PICK c \in S \ {b} : u \in {c} \X (1..(Taken[o][c] * Price[c]))
      BY DEF CentsFor
    <2>2. u[1] = c /\ u[1] = b
      BY <2>1
    <2> QED
      BY <2>2
  <1> HIDE DEF own, rest, n
  <1>6. Cardinality(rest \intersect own) = 0 /\ Cardinality(rest) \in Nat
    BY <1>3, <1>5, FS_EmptySet, FS_CardinalityType
  <1>7. Cardinality(rest \union own)
           = Cardinality(rest) + Cardinality(own) - Cardinality(rest \intersect own)
    BY <1>2, <1>3, FS_Union
  <1>8. TotalFor(o, S) = n + Cardinality(rest)
    BY <1>1, <1>2, <1>4, <1>6, <1>7 DEF TotalFor
  <1> QED
    BY <1>6, <1>8 DEF rest, n, TotalFor

\* Only the batches something was taken from count.
LEMMA TotalOfTaken ==
    ASSUME NEW o \in Orders, NEW S \in SUBSET Batches
    PROVE  TotalFor(o, {b \in S : Taken[o][b] > 0}) = TotalFor(o, S)
  <1> DEFINE cents(b) == {b} \X (1..(Taken[o][b] * Price[b]))
  <1>1. ASSUME NEW b \in S, ~(Taken[o][b] > 0) PROVE cents(b) = {}
    <2>1. Taken[o][b] * Price[b] = 0
      BY <1>1, Products
    <2>2. 1..0 = {}
      OBVIOUS
    <2> QED
      BY <2>1, <2>2
  <1>2. CentsFor(o, {b \in S : Taken[o][b] > 0}) = UNION {cents(b) : b \in {b \in S : Taken[o][b] > 0}}
    BY DEF CentsFor
  <1>3. CentsFor(o, S) = UNION {cents(b) : b \in S}
    BY DEF CentsFor
  <1> HIDE DEF cents
  <1>4. CentsFor(o, {b \in S : Taken[o][b] > 0}) = CentsFor(o, S)
    BY <1>1, <1>2, <1>3
  <1> QED
    BY <1>4 DEF TotalFor

-----------------------------------------------------------------------------
\* The two folds, as the recursive functions on sets that they are.
Pick(S) == CHOOSE b \in S : TRUE

ExactSums(o, S) ==
    CHOOSE sum : sum = [s \in SUBSET S |->
        IF s = {} THEN 0 ELSE Taken[o][Pick(s)] * Price[Pick(s)] + sum[s \ {Pick(s)}]]

WrappedSums(o, S) ==
    CHOOSE sum : sum = [s \in SUBSET S |->
        IF s = {} THEN 0
        ELSE Wrap(Wrap(Taken[o][Pick(s)] * Price[Pick(s)]) + sum[s \ {Pick(s)}])]

LEMMA WorthIsSum ==
    ASSUME NEW o, NEW f
    PROVE  Worth(o, f) = ExactSums(o, {b \in Batches : FarmOf[b] = f})
                                  [{b \in Batches : FarmOf[b] = f}]
  BY DEF Worth, MapThenFoldSet, ExactSums, Pick

LEMMA DueIsSum ==
    ASSUME NEW o, NEW f
    PROVE  Due(o, f) = WrappedSums(o, {b \in Batches : Taken[o][b] > 0 /\ FarmOf[b] = f})
                                  [{b \in Batches : Taken[o][b] > 0 /\ FarmOf[b] = f}]
  BY DEF Due, MapThenFoldSet, WrappedSums, Pick

\* The exact sum counts the cents, in whatever order it adds them up.
LEMMA ExactSumCounts ==
    ASSUME NEW o \in Orders, NEW S \in SUBSET Batches
    PROVE  ExactSums(o, S)[S] = TotalFor(o, S)
  <1> DEFINE sums == ExactSums(o, S)
             totals == [s \in SUBSET S |-> TotalFor(o, s)]
  <1>1. ASSUME NEW s \in SUBSET S, s # {}
        PROVE  /\ Pick(s) \in s
               /\ TotalFor(o, s) = Taken[o][Pick(s)] * Price[Pick(s)] + TotalFor(o, s \ {Pick(s)})
    <2>1. Pick(s) \in s
      BY <1>1 DEF Pick
    <2> QED
      BY <2>1, TotalAdded
  <1>2. totals = [s \in SUBSET S |->
                    IF s = {} THEN 0
                    ELSE Taken[o][Pick(s)] * Price[Pick(s)] + totals[s \ {Pick(s)}]]
    <2>1. ASSUME NEW s \in SUBSET S
          PROVE  TotalFor(o, s) = IF s = {} THEN 0
                   ELSE Taken[o][Pick(s)] * Price[Pick(s)] + totals[s \ {Pick(s)}]
      BY <1>1, TotalOfNone
    <2> QED
      BY <2>1
  <1>3. sums = [s \in SUBSET S |->
                  IF s = {} THEN 0
                  ELSE Taken[o][Pick(s)] * Price[Pick(s)] + sums[s \ {Pick(s)}]]
    <2> HIDE DEF totals
    <2> QED
      BY <1>2 DEF ExactSums
  <1> HIDE DEF sums
  <1>4. ASSUME NEW s \in SUBSET S, \A t \in SUBSET s : t # s => sums[t] = totals[t]
        PROVE  sums[s] = totals[s]
    <2>1. CASE s = {}
      BY <2>1, <1>3, TotalOfNone
    <2>2. CASE s # {}
      <3>1. s \ {Pick(s)} \in SUBSET s /\ s \ {Pick(s)} # s /\ s \ {Pick(s)} \in SUBSET S
        BY <2>2, <1>1
      <3>2. sums[s \ {Pick(s)}] = TotalFor(o, s \ {Pick(s)})
        BY <3>1, <1>4
      <3> QED
        BY <2>2, <3>2, <1>1, <1>3
    <2> QED
      BY <2>1, <2>2
  <1>5. IsFiniteSet(S)
    BY SettlementAssumption, FS_Subset
  <1>6. sums[S] = totals[S]
    <2> HIDE DEF totals
    <2> QED
      BY <1>4, <1>5, AgreeBySize
  <1> QED
    BY <1>6 DEF sums

-----------------------------------------------------------------------------
\* The arithmetic of a word: wrapping in between does not change what a sum
\* wraps to.

\* No two multiples of M are less than M apart, save equal ones.
LEMMA MultiplesApart ==
    ASSUME NEW M \in Nat \ {0}, NEW j \in Int, NEW k \in Int,
           NEW u \in 0..(M - 1), NEW v \in 0..(M - 1), u + M * j = v + M * k
    PROVE  u = v
  <1>1. ASSUME NEW i \in Nat \ {0} PROVE M * i >= M
    OBVIOUS
  <1>2. CASE j > k
    <2>1. M * j - M * k = M * (j - k) /\ M * (j - k) >= M
      <3>1. j - k \in Nat \ {0}
        BY <1>2
      <3>2. M * j - M * k = M * (j - k)
        OBVIOUS
      <3> QED
        BY <1>1, <3>1, <3>2
    <2>2. M * j \in Int /\ M * k \in Int
      OBVIOUS
    <2> QED
      BY <2>1, <2>2
  <1>3. CASE k > j
    <2>1. M * k - M * j = M * (k - j) /\ M * (k - j) >= M
      <3>1. k - j \in Nat \ {0}
        BY <1>3
      <3>2. M * k - M * j = M * (k - j)
        OBVIOUS
      <3> QED
        BY <1>1, <3>1, <3>2
    <2>2. M * j \in Int /\ M * k \in Int
      OBVIOUS
    <2> QED
      BY <2>1, <2>2
  <1>4. CASE j = k
    BY <1>4
  <1> QED
    BY <1>2, <1>3, <1>4

\* A wrapped number is in the range of the word and a multiple of its size away.
LEMMA WrapDistance ==
    ASSUME NEW n \in Int
    PROVE  /\ Wrap(n) \in (-Wide)..(Wide - 1)
           /\ \E k \in Int : n = Wrap(n) + (2 * Wide) * k
  <1> DEFINE M == 2 * Wide
             m == n + Wide
  <1>1. M \in Nat \ {0} /\ Wide \in Nat \ {0} /\ m \in Int
    BY SettlementAssumption
  <1>2. ASSUME NEW a \in Int, NEW d \in Nat \ {0}
        PROVE  /\ a % d \in 0..(d - 1) /\ a \div d \in Int
               /\ a = (a % d) + d * (a \div d)
    OBVIOUS
  <1>3. Wrap(n) = (m % M) - Wide
    BY DEF Wrap
  <1> HIDE DEF M, m
  <1>4. m % M \in 0..(M - 1) /\ m \div M \in Int /\ m = (m % M) + M * (m \div M)
    BY <1>1, <1>2
  <1>5. Wrap(n) \in (-Wide)..(Wide - 1)
    BY <1>1, <1>3, <1>4 DEF M
  <1>6. n = Wrap(n) + M * (m \div M)
    <2>1. M * (m \div M) \in Int
      BY <1>1, <1>4
    <2> QED
      BY <1>1, <1>3, <1>4, <2>1 DEF m
  <1> QED
    BY <1>4, <1>5, <1>6 DEF M

\* And the only such number.
LEMMA WrapOnly ==
    ASSUME NEW n \in Int, NEW v \in (-Wide)..(Wide - 1), NEW k \in Int,
           n = v + (2 * Wide) * k
    PROVE  Wrap(n) = v
  <1> DEFINE M == 2 * Wide
             w == Wrap(n)
  <1>1. Wide \in Nat \ {0} /\ M \in Nat \ {0}
    BY SettlementAssumption
  <1>2. w \in (-Wide)..(Wide - 1)
    BY WrapDistance
  <1>3. PICK j \in Int : n = w + M * j
    BY WrapDistance
  <1> HIDE DEF w
  <1>4. w + Wide \in 0..(M - 1) /\ v + Wide \in 0..(M - 1)
    BY <1>1, <1>2
  <1>5. (w + Wide) + M * j = (v + Wide) + M * k
    <2> HIDE DEF M
    <2>1. M * j \in Int /\ M * k \in Int
      BY <1>1
    <2>2. n = v + M * k
      BY DEF M
    <2> QED
      BY <1>1, <1>2, <1>3, <2>1, <2>2
  <1>6. w + Wide = v + Wide
    <2> HIDE DEF M
    <2> QED
      BY <1>1, <1>4, <1>5, MultiplesApart
  <1> QED
    BY <1>1, <1>2, <1>6 DEF w

\* Wrapping the terms of a sum first makes no difference.
LEMMA WrapOfSum ==
    ASSUME NEW x \in Int, NEW y \in Int
    PROVE  Wrap(Wrap(x) + Wrap(y)) = Wrap(x + y)
  <1> DEFINE M == 2 * Wide
  <1>1. M \in Int /\ Wrap(x) \in Int /\ Wrap(y) \in Int
    BY WrapDistance, SettlementAssumption
  <1>2. PICK i \in Int : x = Wrap(x) + M * i
    BY WrapDistance
  <1>3. PICK j \in Int : y = Wrap(y) + M * j
    BY WrapDistance
  <1>4. PICK k \in Int : x + y = Wrap(x + y) + M * k
    BY WrapDistance
  <1>5. Wrap(x + y) \in (-Wide)..(Wide - 1)
    BY WrapDistance
  <1> DEFINE z == Wrap(x) + Wrap(y)
  <1>6. z = Wrap(x + y) + M * (k - i - j)
    <2> DEFINE p == M * i
               q == M * j
               t == M * k
               w == Wrap(x + y)
    <2> HIDE DEF M
    <2>1. p \in Int /\ q \in Int /\ t \in Int /\ M * (k - i - j) = t - p - q
      BY <1>1
    <2>2. w \in Int
      BY <1>5, SettlementAssumption
    <2>3. x = Wrap(x) + p /\ y = Wrap(y) + q /\ x + y = w + t
      BY <1>2, <1>3, <1>4
    <2> HIDE DEF p, q, t, w
    <2>4. Wrap(x) + Wrap(y) = w + (t - p - q)
      BY <1>1, <2>1, <2>2, <2>3
    <2> QED
      BY <2>1, <2>4 DEF w
  <1>7. z \in Int /\ k - i - j \in Int
    BY <1>1
  <1> HIDE DEF z
  <1> QED
    BY <1>5, <1>6, <1>7, WrapOnly DEF z

\* What fits stays; what is beyond, up to twice the word, is not positive.
LEMMA WrapOfTotal ==
    ASSUME NEW n \in Nat, n <= 2 * Wide
    PROVE  IF n < Wide THEN Wrap(n) = n ELSE Wrap(n) <= 0
  <1>1. Wide \in Nat \ {0}
    BY SettlementAssumption
  <1>2. CASE n < Wide
    <2>1. n \in (-Wide)..(Wide - 1) /\ n = n + (2 * Wide) * 0
      BY <1>1, <1>2
    <2> QED
      BY <1>2, <2>1, WrapOnly
  <1>3. CASE ~(n < Wide)
    <2> DEFINE v == n - 2 * Wide
    <2>1. v \in (-Wide)..(Wide - 1) /\ v <= 0 /\ n = v + (2 * Wide) * 1
      BY <1>1, <1>3
    <2> HIDE DEF v
    <2>2. Wrap(n) = v
      BY <2>1, WrapOnly
    <2> QED
      BY <1>3, <2>1, <2>2
  <1> QED
    BY <1>2, <1>3

\* The wrapped sum is the exact one, wrapped.
LEMMA WrappedSumCounts ==
    ASSUME NEW o \in Orders, NEW S \in SUBSET Batches
    PROVE  WrappedSums(o, S)[S] = Wrap(TotalFor(o, S))
  <1> DEFINE sums == WrappedSums(o, S)
             totals == [s \in SUBSET S |-> Wrap(TotalFor(o, s))]
  <1>1. ASSUME NEW s \in SUBSET S, s # {}
        PROVE  /\ Pick(s) \in s
               /\ Wrap(TotalFor(o, s)) =
                    Wrap(Wrap(Taken[o][Pick(s)] * Price[Pick(s)])
                         + Wrap(TotalFor(o, s \ {Pick(s)})))
    <2> DEFINE b == Pick(s)
               n == Taken[o][b] * Price[b]
               rest == TotalFor(o, s \ {b})
    <2>1. b \in s
      BY <1>1 DEF Pick
    <2> HIDE DEF b
    <2>2. n \in Nat
      BY <2>1, Products
    <2>3. rest \in Nat /\ TotalFor(o, s) = n + rest
      BY <2>1, TotalAdded
    <2> HIDE DEF n, rest
    <2>4. Wrap(TotalFor(o, s)) = Wrap(Wrap(n) + Wrap(rest))
      BY <2>2, <2>3, WrapOfSum
    <2> QED
      BY <2>1, <2>4 DEF b, n, rest
  <1>2. Wrap(0) = 0
    BY WrapOfTotal, SettlementAssumption
  <1>3. totals = [s \in SUBSET S |->
                    IF s = {} THEN 0
                    ELSE Wrap(Wrap(Taken[o][Pick(s)] * Price[Pick(s)]) + totals[s \ {Pick(s)}])]
    <2>1. ASSUME NEW s \in SUBSET S
          PROVE  Wrap(TotalFor(o, s)) = IF s = {} THEN 0
                   ELSE Wrap(Wrap(Taken[o][Pick(s)] * Price[Pick(s)]) + totals[s \ {Pick(s)}])
      BY <1>1, <1>2, TotalOfNone
    <2> QED
      BY <2>1
  <1>4. sums = [s \in SUBSET S |->
                  IF s = {} THEN 0
                  ELSE Wrap(Wrap(Taken[o][Pick(s)] * Price[Pick(s)]) + sums[s \ {Pick(s)}])]
    <2> HIDE DEF totals
    <2> QED
      BY <1>3 DEF WrappedSums
  <1> HIDE DEF sums
  <1>5. ASSUME NEW s \in SUBSET S, \A t \in SUBSET s : t # s => sums[t] = totals[t]
        PROVE  sums[s] = totals[s]
    <2>1. CASE s = {}
      BY <2>1, <1>2, <1>4, TotalOfNone
    <2>2. CASE s # {}
      <3>1. s \ {Pick(s)} \in SUBSET s /\ s \ {Pick(s)} # s /\ s \ {Pick(s)} \in SUBSET S
        BY <2>2, <1>1
      <3>2. sums[s \ {Pick(s)}] = Wrap(TotalFor(o, s \ {Pick(s)}))
        BY <3>1, <1>5
      <3> QED
        BY <2>2, <3>2, <1>1, <1>4
    <2> QED
      BY <2>1, <2>2
  <1>6. IsFiniteSet(S)
    BY SettlementAssumption, FS_Subset
  <1>7. sums[S] = totals[S]
    <2> HIDE DEF totals
    <2> QED
      BY <1>5, <1>6, AgreeBySize
  <1> QED
    BY <1>7 DEF sums

\* Both folds count the same cents: a farm is due what its batches are worth,
\* wrapped, and nothing if nothing was taken from it.
LEMMA DueWrapsWorth ==
    ASSUME NEW o \in Orders, NEW f \in Farms
    PROVE  /\ Worth(o, f) \in Nat
           /\ Due(o, f) = Wrap(Worth(o, f))
           /\ f \notin FarmsOf(o) => Worth(o, f) = 0
  <1> DEFINE S == {b \in Batches : FarmOf[b] = f}
             T == {b \in Batches : Taken[o][b] > 0 /\ FarmOf[b] = f}
  <1>1. T = {b \in S : Taken[o][b] > 0} /\ S \in SUBSET Batches /\ T \in SUBSET Batches
    OBVIOUS
  <1>2. Worth(o, f) = ExactSums(o, S)[S] /\ Due(o, f) = WrappedSums(o, T)[T]
    BY WorthIsSum, DueIsSum
  <1>3. f \notin FarmsOf(o) => T = {}
    BY DEF FarmsOf
  <1> HIDE DEF S, T
  <1>4. Worth(o, f) = TotalFor(o, S) /\ Due(o, f) = Wrap(TotalFor(o, T))
    BY <1>1, <1>2, ExactSumCounts, WrappedSumCounts
  <1>5. TotalFor(o, T) = TotalFor(o, S)
    BY <1>1, TotalOfTaken
  <1>6. TotalFor(o, S) \in Nat
    <2>1. CASE S = {}
      BY <2>1, TotalOfNone
    <2>2. CASE S # {}
      <3>1. PICK b \in S : TRUE
        BY <2>2
      <3>2. Taken[o][b] * Price[b] \in Nat
        BY <1>1, Products
      <3>3. /\ TotalFor(o, S \ {b}) \in Nat
            /\ TotalFor(o, S) = Taken[o][b] * Price[b] + TotalFor(o, S \ {b})
        BY <1>1, TotalAdded
      <3> DEFINE n == Taken[o][b] * Price[b]
      <3> HIDE DEF n
      <3> QED
        BY <3>2, <3>3 DEF n
    <2> QED
      BY <2>1, <2>2
  <1>7. f \notin FarmsOf(o) => TotalFor(o, S) = 0
    BY <1>3, <1>5, TotalOfNone
  <1> QED
    BY <1>4, <1>5, <1>6, <1>7

\* A commit keeps the amounts what Due computed.
LEMMA AmountStep ==
    ASSUME IInv, AmountInv, [Next]_vars
    PROVE  AmountInv'
  <1> USE SettlementAssumption
  <1>1. CASE db' = db
    BY <1>1 DEF AmountInv
  <1>2. CASE db' # db
    <2>1. PICK r \in Requests : writer = r /\ db' = wk /\ WriterInv(r)
      BY <1>2, OnlyCommitsChange
    <2>2. db \in Contents /\ DataInv(db)
      BY DEF IInv, TypeOK
    <2>3. /\ db.order \in [Orders -> OrderRow]
          /\ db.settlement \in [Orders -> [Farms -> SettlementRow]]
      BY <2>2, ContentsFields
    <2> DEFINE o == req[r].on
               f == req[r].farm
    <2>4. o \in Orders
      BY <2>1 DEF WriterInv
    <2> HIDE DEF o, f
    <2>5. CASE /\ Deliverable(db.order[o])
               /\ \A g \in FarmsOf(o) : Due(o, g) > 0
               /\ wk = DeliverOrder(db, o)
      <3>1. /\ db'.order = [db.order EXCEPT ![o] = Delivered(db.order[o])]
            /\ db'.settlement = [db.settlement EXCEPT
                                   ![o] = [g \in Farms |-> Created(o, db.settlement[o][g], g)]]
        BY <2>1, <2>2, <2>5 DEF DeliverOrder, Delivered, Created, Contents
      <3>2. Delivered(db.order[o]).status = "delivered"
        BY <2>3, <2>4, DeliveredRow
      <3>3. \A g \in Farms : db.settlement[o][g] = NoSettlement
        BY <2>2, <2>4, <2>5 DEF DataInv, Deliverable, OrderCanTransition
      <3>4. \A g \in Farms :
               Created(o, db.settlement[o][g], g).amount = IF g \in FarmsOf(o) THEN Due(o, g) ELSE 0
        BY <3>3 DEF Created, NoSettlement
      <3>5. ASSUME NEW p \in Orders, NEW g \in Farms
            PROVE  LET owes == db'.order[p].status = "delivered" /\ g \in FarmsOf(p) IN
                   /\ db'.settlement[p][g].amount = IF owes THEN Due(p, g) ELSE 0
                   /\ owes => Due(p, g) > 0
        <4>1. CASE p = o
          <5>1. /\ db'.order[p].status = "delivered"
                /\ db'.settlement[p][g].amount = IF g \in FarmsOf(p) THEN Due(p, g) ELSE 0
            BY <2>3, <3>1, <3>2, <3>4, <4>1
          <5> QED
            BY <2>5, <4>1, <5>1
        <4>2. CASE p # o
          <5>1. db'.order[p] = db.order[p] /\ db'.settlement[p] = db.settlement[p]
            BY <2>3, <3>1, <4>2
          <5> QED
            BY <5>1 DEF AmountInv
        <4> QED
          BY <4>1, <4>2
      <3> QED
        BY <3>5 DEF AmountInv
    <2>6. ASSUME f \in Farms, NEW to \in {"approved", "paid"}, NEW notice, NEW mark,
                 db' = Advance(db, o, f, to, notice, mark)
          PROVE  AmountInv'
      <3>1. /\ db'.order = db.order
            /\ db'.settlement = [db.settlement EXCEPT
                                   ![o][f] = Transition(db.settlement[o][f], to)]
        BY <2>2, <2>6 DEF Advance, Contents
      <3>2. Transition(db.settlement[o][f], to).amount = db.settlement[o][f].amount
        BY <2>3, <2>4, <2>6, SettlementTransition
      <3>3. \A p \in Orders, g \in Farms : db'.settlement[p][g].amount = db.settlement[p][g].amount
        <4>1. TAKE p \in Orders, g \in Farms
        <4>2. CASE p = o /\ g = f
          BY <2>3, <3>1, <3>2, <4>2
        <4>3. CASE p # o
          BY <2>3, <3>1, <4>3
        <4>4. CASE p = o /\ g # f
          BY <2>3, <3>1, <4>4
        <4> QED
          BY <4>2, <4>3, <4>4
      <3> QED
        BY <3>1, <3>3 DEF AmountInv
    <2>7. CASE f \in Farms /\ wk = ApproveSettlement(db, o, f)
      <3>1. db' = Advance(db, o, f, "approved", "settlement.approved", "settlement.approve")
        BY <2>1, <2>7 DEF ApproveSettlement, Advance
      <3> QED
        BY <2>6, <2>7, <3>1
    <2>8. CASE f \in Farms /\ wk = PaySettlement(db, o, f)
      <3>1. db' = Advance(db, o, f, "paid", "settlement.paid", "settlement.pay")
        BY <2>1, <2>8 DEF PaySettlement, Advance
      <3> QED
        BY <2>6, <2>8, <3>1
    <2> QED
      BY <2>1, <2>5, <2>7, <2>8 DEF WriterInv, o, f
  <1> QED
    BY <1>1, <1>2

\* A delivered order has one settlement for each farm it took from and for no
\* other, worth exactly what the farm gave, as long as no farm is owed more than
\* twice what an amount can hold: the sum in MarkDelivered is not checked for
\* overflow, but up to there a sum that does not fit turns into an amount that
\* CHECK (amount_cents > 0) refuses.  Beyond, the run settlement_overflow shows
\* a settlement of too little.
THEOREM FarmersPaidInFull ==
    ASSUME \A o \in Orders, f \in Farms : Worth(o, f) <= 2 * Wide
    PROVE  Spec => []PaidInFull
  <1>1. Init => AmountInv
    BY DEF Init, StartStore, AllocatedOrders, NoSettlement, AmountInv
  <1>2. IInv /\ AmountInv /\ [Next]_vars => AmountInv'
    BY AmountStep
  <1>3. AmountInv => PaidInFull
    <2> SUFFICES ASSUME AmountInv, NEW o \in Orders, NEW f \in Farms
                 PROVE  db.settlement[o][f].amount =
                          IF db.order[o].status = "delivered" THEN Worth(o, f) ELSE 0
      BY DEF PaidInFull
    <2>1. /\ Worth(o, f) \in Nat /\ Worth(o, f) <= 2 * Wide
          /\ Due(o, f) = Wrap(Worth(o, f))
          /\ f \notin FarmsOf(o) => Worth(o, f) = 0
      BY DueWrapsWorth
    <2>2. IF Worth(o, f) < Wide THEN Due(o, f) = Worth(o, f) ELSE Due(o, f) <= 0
      BY <2>1, WrapOfTotal
    <2>3. db.order[o].status = "delivered" /\ f \in FarmsOf(o) =>
             db.settlement[o][f].amount = Due(o, f) /\ Due(o, f) > 0
      BY DEF AmountInv
    <2>4. ~(db.order[o].status = "delivered" /\ f \in FarmsOf(o)) =>
             db.settlement[o][f].amount = 0
      BY DEF AmountInv
    <2>5. Due(o, f) > 0 => Due(o, f) = Worth(o, f)
      <3>1. Due(o, f) \in Int
        BY <2>1, WrapDistance, SettlementAssumption
      <3> QED
        BY <2>2, <3>1
    <2> QED
      BY <2>1, <2>3, <2>4, <2>5
  <1> QED
    BY <1>1, <1>2, <1>3, Inductive, PTL DEF Spec
====
