---- MODULE Allocation_proofs ----
(***************************************************************************)
(* Proofs about Allocation for every number of requests, batches, orders,  *)
(* lines and every quantity: the stock of every batch is conserved, an     *)
(* order is allocated in full or not at all, the audit trails tell the     *)
(* states, commits lose no update and give the batches that expire first,  *)
(* an order is refused for want of stock only if the contents the request  *)
(* has read hold too little, all of it on one page, and all of it          *)
(* implements the ledger.                                                  *)
(***************************************************************************)
EXTENDS Allocation, FiniteSetTheorems, FunctionTheorems, SequenceTheorems,
        TLAPS

-----------------------------------------------------------------------------
\* Counting units.

\* A function that is zero everywhere has no unit.
LEMMA UnitsOfZero ==
  ASSUME NEW f, \A x \in DOMAIN f : f[x] = 0
  PROVE  Units(f) = {} /\ IsFiniteSet(Units(f)) /\ Cardinality(Units(f)) = 0
<1>1. \A x \in DOMAIN f : 1..f[x] = {}
  OBVIOUS
<1>2. Units(f) = {}
  BY <1>1 DEF Units
<1> QED
  BY <1>2, FS_EmptySet

\* No unit at all: zero everywhere.
LEMMA ZeroOfUnits ==
  ASSUME NEW S, NEW f \in [S -> Nat], IsFiniteSet(Units(f)), Cardinality(Units(f)) = 0
  PROVE  \A x \in S : f[x] = 0
<1>1. Units(f) = {}
  BY FS_EmptySet
<1> SUFFICES ASSUME NEW x \in S, f[x] # 0
             PROVE  FALSE
  OBVIOUS
<1>2. 1 \in 1..f[x]
  OBVIOUS
<1>3. <<x, 1>> \in Units(f)
  BY <1>2 DEF Units
<1> QED
  BY <1>1, <1>3

\* Raising one value from zero to n adds n units.
LEMMA UnitsAdded ==
  ASSUME NEW S, NEW f \in [S -> Nat], NEW x \in S, NEW n \in Nat,
         f[x] = 0, IsFiniteSet(Units(f))
  PROVE  /\ IsFiniteSet(Units([f EXCEPT ![x] = n]))
         /\ Cardinality(Units([f EXCEPT ![x] = n])) = Cardinality(Units(f)) + n
<1> DEFINE g == [f EXCEPT ![x] = n]
           added == {x} \X (1..n)
<1>1. IsFiniteSet(added) /\ Cardinality(added) = n
  <2>1. IsFiniteSet(1..n) /\ Cardinality(1..n) = n
    <3>1. /\ IsFiniteSet(1..n)
          /\ Cardinality(1..n) = IF 1 > n THEN 0 ELSE n - 1 + 1
      <4>1. 1 \in Int /\ n \in Int
        OBVIOUS
      <4> QED
        BY ONLY <4>1, FS_Interval
    <3> QED
      BY ONLY <3>1, n \in Nat
  <2>2. IsFiniteSet({x}) /\ Cardinality({x}) = 1
    BY FS_Singleton
  <2>3. /\ IsFiniteSet(added)
        /\ Cardinality(added) = Cardinality({x}) * Cardinality(1..n)
    BY ONLY <2>1, <2>2, FS_Product
  <2> QED
    BY ONLY <2>1, <2>2, <2>3, n \in Nat
<1>2. Units(g) = Units(f) \union added
  <2>1. DOMAIN f = S /\ DOMAIN g = S /\ g[x] = n /\ \A y \in S \ {x} : g[y] = f[y]
    OBVIOUS
  <2>2. 1..f[x] = {}
    OBVIOUS
  <2>3. \A u : u \in Units(g) <=> \E y \in S : u \in {y} \X (1..g[y])
    BY <2>1 DEF Units
  <2>4. \A u : u \in Units(f) <=> \E y \in S : u \in {y} \X (1..f[y])
    BY <2>1 DEF Units
  <2>5. \A y \in S \ {x} : {y} \X (1..g[y]) = {y} \X (1..f[y])
    BY <2>1
  <2>6. {x} \X (1..g[x]) = added /\ {x} \X (1..f[x]) = {}
    BY <2>1, <2>2
  <2>7. \A u : u \in Units(g) <=> u \in Units(f) \/ u \in added
    BY <2>3, <2>4, <2>5, <2>6
  <2> QED
    BY <2>7
<1>3. Units(f) \intersect added = {}
  <2> SUFFICES ASSUME NEW u \in Units(f), u \in added
               PROVE  FALSE
    OBVIOUS
  <2>1. PICK y \in S : u \in {y} \X (1..f[y])
    BY DEF Units
  <2>2. u[1] = y /\ u[1] = x /\ u[2] \in 1..f[y]
    BY <2>1
  <2> QED
    BY <2>2
<1>4. Cardinality(Units(f)) \in Nat
  BY FS_CardinalityType
<1>5. Cardinality(Units(f) \intersect added) = 0
  BY <1>3, FS_EmptySet
<1>6. IsFiniteSet(Units(g)) /\ Cardinality(Units(g)) = Cardinality(Units(f)) + n
  <2> HIDE DEF g, added
  <2>1. /\ IsFiniteSet(Units(f) \union added)
        /\ Cardinality(Units(f) \union added)
              = Cardinality(Units(f)) + Cardinality(added) - Cardinality(Units(f) \intersect added)
    BY <1>1, FS_Union
  <2> QED
    BY <1>1, <1>2, <1>4, <1>5, <2>1
<1> QED
  BY <1>6

-----------------------------------------------------------------------------
\* What each operation does to the contents it sees.

\* Register fills in one absent batch and touches nothing else.
LEMMA RegisterBatchEffect ==
  ASSUME NEW d \in Contents, NEW b \in Batches, NEW input \in BatchInput
  PROVE  LET e == RegisterBatch(d, b, input) IN
         /\ e \in Contents
         /\ e.alloc = d.alloc /\ e.order = d.order /\ e.line = d.line
         /\ \A c \in Batches \ {b} : e.batch[c] = d.batch[c]
         /\ e.batch[b].available = input.quantity /\ e.batch[b].produced = input.quantity
         /\ e.batch[b].status = "registered"
<1> DEFINE e == RegisterBatch(d, b, input)
           row == [status |-> "registered", species |-> input.species,
                   produced |-> input.quantity, available |-> input.quantity,
                   expires |-> input.expires, version |-> 1]
           rows == [d.batch EXCEPT ![b] = row]
           trail == [d.batchAudit EXCEPT ![b] = Append(d.batchAudit[b], "batch.register")]
<1>1. e = [d EXCEPT !.batch = rows, !.batchAudit = trail]
  BY DEF RegisterBatch
<1>2. /\ d.batch \in [Batches -> BatchRow]
      /\ d.batchAudit \in [Batches -> Seq({"batch.register", "batch.inspect"})]
  BY DEF Contents
<1>3. row \in BatchRow
  BY DEF BatchRow, BatchInput, BatchStatus
<1>4. rows \in [Batches -> BatchRow] /\ rows[b] = row /\ \A c \in Batches \ {b} : rows[c] = d.batch[c]
  BY <1>2, <1>3
<1>5. trail \in [Batches -> Seq({"batch.register", "batch.inspect"})]
  BY <1>2
<1>6. /\ e \in Contents
      /\ e.alloc = d.alloc /\ e.order = d.order /\ e.line = d.line /\ e.batch = rows
  <2> HIDE DEF e, rows, trail
  <2> QED BY <1>1, <1>4, <1>5 DEF Contents
<1> QED
  BY <1>4, <1>6

\* A transition of a batch changes its status and version only.
LEMMA TransitionType ==
  ASSUME NEW row \in BatchRow, NEW to \in BatchStatus
  PROVE  /\ Transition(row, to) \in BatchRow
         /\ Transition(row, to).available = row.available
         /\ Transition(row, to).produced = row.produced
         /\ Transition(row, to).status = to
<1>1. row.version + 1 \in Nat
  BY DEF BatchRow
<1>2. [row EXCEPT !.status = to, !.version = row.version + 1] \in BatchRow
  BY <1>1 DEF BatchRow
<1>3. Transition(row, to).available = row.available /\ Transition(row, to).produced = row.produced
  BY DEF Transition, BatchRow
<1>4. Transition(row, to).status = to
  BY DEF Transition, BatchRow
<1> QED
  BY <1>2, <1>3, <1>4 DEF Transition

\* A transition of an order changes its status and version only.
LEMMA OrderTransitionType ==
  ASSUME NEW row \in OrderRow, NEW to \in OrderStatus
  PROVE  Transition(row, to) \in OrderRow /\ Transition(row, to).status = to
<1>1. row.version + 1 \in Nat
  BY DEF OrderRow
<1>2. [row EXCEPT !.status = to, !.version = row.version + 1] \in OrderRow
  BY <1>1 DEF OrderRow
<1>3. Transition(row, to).status = to
  BY DEF Transition, OrderRow
<1> QED
  BY <1>2, <1>3 DEF Transition

\* The conditional UPDATE never takes a batch below zero.
LEMMA AllocateBatchType ==
  ASSUME NEW row \in BatchRow, NEW n \in Nat, n <= row.available, row.status = "released"
  PROVE  /\ AllocateBatch(row, n) \in BatchRow
         /\ AllocateBatch(row, n).available = row.available - n
         /\ AllocateBatch(row, n).produced = row.produced
         /\ AllocateBatch(row, n).status \in {"released", "exhausted"}
<1> DEFINE status == IF row.available = n THEN "exhausted" ELSE row.status
<1>1. row.version + 1 \in Nat /\ row.available - n \in Nat
  BY DEF BatchRow
<1>2. status \in {"released", "exhausted"} /\ status \in BatchStatus
  BY DEF BatchStatus
<1>3. AllocateBatch(row, n) =
        [row EXCEPT !.available = row.available - n, !.version = row.version + 1, !.status = status]
  BY DEF AllocateBatch
<1> HIDE DEF status
<1>4. [row EXCEPT !.available = row.available - n, !.version = row.version + 1, !.status = status]
        \in BatchRow
  BY <1>1, <1>2 DEF BatchRow
<1>5. /\ AllocateBatch(row, n).available = row.available - n
      /\ AllocateBatch(row, n).produced = row.produced
  BY <1>3 DEF BatchRow
<1>6. AllocateBatch(row, n).status = status
  BY <1>3 DEF BatchRow
<1> QED
  BY <1>2, <1>3, <1>4, <1>5, <1>6

\* Inspect decides on one batch and leaves every quantity as it is.
LEMMA InspectBatchEffect ==
  ASSUME NEW d \in Contents, NEW b \in Batches, NEW decision \in {"approved", "rejected"}
  PROVE  LET e == InspectBatch(d, b, decision) IN
         /\ e \in Contents
         /\ e.alloc = d.alloc /\ e.order = d.order /\ e.line = d.line
         /\ \A c \in Batches \ {b} : e.batch[c] = d.batch[c]
         /\ e.batch[b].available = d.batch[b].available
         /\ e.batch[b].produced = d.batch[b].produced
<1> DEFINE e == InspectBatch(d, b, decision)
           sampling == IF d.batch[b].status = "registered"
                       THEN Transition(d.batch[b], "sampling") ELSE d.batch[b]
           row == Transition(sampling, IF decision = "rejected" THEN "rejected" ELSE "released")
           rows == [d.batch EXCEPT ![b] = row]
           seen == [d.inspected EXCEPT ![b] = Append(d.inspected[b], decision)]
           trail == [d.batchAudit EXCEPT ![b] = Append(d.batchAudit[b], "batch.inspect")]
<1>1. e = [d EXCEPT !.batch = rows, !.inspected = seen, !.batchAudit = trail]
  BY DEF InspectBatch
<1>2. /\ d.batch \in [Batches -> BatchRow]
      /\ d.inspected \in [Batches -> Seq({"approved", "rejected"})]
      /\ d.batchAudit \in [Batches -> Seq({"batch.register", "batch.inspect"})]
  BY DEF Contents
<1>3. /\ sampling \in BatchRow
      /\ sampling.available = d.batch[b].available
      /\ sampling.produced = d.batch[b].produced
  BY <1>2, TransitionType DEF BatchStatus
<1>4. /\ row \in BatchRow
      /\ row.available = d.batch[b].available
      /\ row.produced = d.batch[b].produced
  <2> HIDE DEF sampling
  <2> QED BY <1>3, TransitionType DEF BatchStatus
<1>5. rows \in [Batches -> BatchRow] /\ rows[b] = row /\ \A c \in Batches \ {b} : rows[c] = d.batch[c]
  <2> HIDE DEF row
  <2> QED BY <1>2, <1>4
<1>6. /\ trail \in [Batches -> Seq({"batch.register", "batch.inspect"})]
      /\ seen \in [Batches -> Seq({"approved", "rejected"})]
  BY <1>2
<1>7. /\ e \in Contents
      /\ e.alloc = d.alloc /\ e.order = d.order /\ e.line = d.line /\ e.batch = rows
  <2> HIDE DEF e, rows, seen, trail
  <2> QED BY <1>1, <1>5, <1>6 DEF Contents
<1> QED
  <2> HIDE DEF row
  <2> QED BY <1>4, <1>5, <1>7

\* Create confirms one order and writes its lines.
LEMMA CreateOrderEffect ==
  ASSUME NEW d \in Contents, NEW o \in Orders, NEW input \in Wanted[o]
  PROVE  LET e == CreateOrder(d, o, input) IN
         /\ e \in Contents
         /\ e.alloc = d.alloc /\ e.batch = d.batch
         /\ \A p \in Orders \ {o} : e.order[p] = d.order[p]
         /\ \A l \in Lines : OrderOf[l] # o => e.line[l] = d.line[l]
         /\ e.order[o].status = "confirmed"
<1> DEFINE e == CreateOrder(d, o, input)
           row == Transition([status |-> "draft", version |-> 1], "confirmed")
           rows == [d.order EXCEPT ![o] = row]
           lines == [l \in Lines |-> IF l \in DOMAIN input THEN input[l] ELSE d.line[l]]
           trail == [d.orderAudit EXCEPT ![o] = Append(d.orderAudit[o], "order.create")]
<1>1. e = [d EXCEPT !.order = rows, !.line = lines, !.orderAudit = trail]
  BY DEF CreateOrder
<1>2. /\ d.order \in [Orders -> OrderRow]
      /\ d.line \in [Lines -> LineRow]
      /\ d.orderAudit \in [Orders -> Seq({"order.create", "order.allocate"})]
  BY DEF Contents
<1>3. row \in OrderRow /\ row.status = "confirmed"
  <2>1. [status |-> "draft", version |-> 1] \in OrderRow
    BY DEF OrderRow, OrderStatus
  <2> QED
    BY <2>1, OrderTransitionType DEF OrderStatus
<1>4. /\ rows \in [Orders -> OrderRow] /\ rows[o] = row
      /\ \A p \in Orders \ {o} : rows[p] = d.order[p]
  <2> HIDE DEF row
  <2> QED BY <1>2, <1>3
<1>5. /\ \A l \in DOMAIN input : input[l] \in LineRow
      /\ \A l \in DOMAIN input : OrderOf[l] = o
  BY AllocationAssumption DEF LineInput, LineRow, LinesOf
<1>6. /\ lines \in [Lines -> LineRow]
      /\ \A l \in Lines : OrderOf[l] # o => lines[l] = d.line[l]
  BY <1>2, <1>5
<1>7. trail \in [Orders -> Seq({"order.create", "order.allocate"})]
  BY <1>2
<1>8. /\ e \in Contents
      /\ e.alloc = d.alloc /\ e.batch = d.batch /\ e.order = rows /\ e.line = lines
  <2> HIDE DEF e, rows, lines, trail
  <2> QED BY <1>1, <1>4, <1>6, <1>7 DEF Contents
<1> QED
  <2> HIDE DEF row, lines
  <2> QED BY <1>3, <1>4, <1>6, <1>8

\* A take moves n units of one batch into one allocation row.
LEMMA TakeFromEffect ==
  ASSUME NEW d \in Contents, NEW l \in Lines, NEW b \in Batches, NEW n \in Nat,
         n <= d.batch[b].available, d.batch[b].status = "released"
  PROVE  LET e == TakeFrom(d, l, b, n) IN
         /\ e \in Contents
         /\ e.order = d.order /\ e.line = d.line
         /\ e.alloc = [d.alloc EXCEPT ![l] = [d.alloc[l] EXCEPT ![b] = n]]
         /\ \A c \in Batches \ {b} : e.batch[c] = d.batch[c]
         /\ e.batch[b].available = d.batch[b].available - n
         /\ e.batch[b].produced = d.batch[b].produced
         /\ e.batch[b].status \in {"released", "exhausted"}
<1> DEFINE e == TakeFrom(d, l, b, n)
           row == AllocateBatch(d.batch[b], n)
           rows == [d.batch EXCEPT ![b] = row]
           units == [d.alloc EXCEPT ![l] = [d.alloc[l] EXCEPT ![b] = n]]
<1>1. e = [d EXCEPT !.batch = rows, !.alloc = units]
  BY DEF TakeFrom
<1>2. d.batch \in [Batches -> BatchRow] /\ d.alloc \in [Lines -> [Batches -> Nat]]
  BY DEF Contents
<1>3. /\ row \in BatchRow
      /\ row.available = d.batch[b].available - n
      /\ row.produced = d.batch[b].produced
      /\ row.status \in {"released", "exhausted"}
  <2>1. d.batch[b] \in BatchRow
    BY <1>2
  <2> QED
    BY <2>1, AllocateBatchType
<1>4. rows \in [Batches -> BatchRow] /\ rows[b] = row /\ \A c \in Batches \ {b} : rows[c] = d.batch[c]
  <2> HIDE DEF row
  <2> QED BY <1>2, <1>3
<1>5. units \in [Lines -> [Batches -> Nat]]
  BY <1>2
<1>6. /\ e \in Contents
      /\ e.order = d.order /\ e.line = d.line /\ e.batch = rows /\ e.alloc = units
  <2> HIDE DEF e, rows, units
  <2> QED BY <1>1, <1>4, <1>5 DEF Contents
<1> QED
  <2> HIDE DEF row
  <2> QED BY <1>3, <1>4, <1>6

\* Closing an allocation moves no units.
LEMMA CloseAllocationEffect ==
  ASSUME NEW d \in Contents, NEW o \in Orders
  PROVE  LET e == CloseAllocation(d, o) IN
         /\ e \in Contents
         /\ e.alloc = d.alloc /\ e.batch = d.batch /\ e.line = d.line
         /\ \A p \in Orders \ {o} : e.order[p] = d.order[p]
         /\ e.order[o].status = "allocated"
<1> DEFINE e == CloseAllocation(d, o)
           row == Transition(d.order[o], "allocated")
           rows == [d.order EXCEPT ![o] = row]
           sent == d.shipments \union {o}
           trail == [d.orderAudit EXCEPT ![o] = Append(d.orderAudit[o], "order.allocate")]
<1>1. e = [d EXCEPT !.order = rows, !.shipments = sent, !.orderAudit = trail]
  BY DEF CloseAllocation
<1>2. /\ d.order \in [Orders -> OrderRow]
      /\ d.shipments \in SUBSET Orders
      /\ d.orderAudit \in [Orders -> Seq({"order.create", "order.allocate"})]
  BY DEF Contents
<1>3. row \in OrderRow /\ row.status = "allocated"
  <2>1. d.order[o] \in OrderRow
    BY <1>2
  <2> QED
    BY <2>1, OrderTransitionType DEF OrderStatus
<1>4. /\ rows \in [Orders -> OrderRow] /\ rows[o] = row
      /\ \A p \in Orders \ {o} : rows[p] = d.order[p]
  <2> HIDE DEF row
  <2> QED BY <1>2, <1>3
<1>5. /\ sent \in SUBSET Orders
      /\ trail \in [Orders -> Seq({"order.create", "order.allocate"})]
  BY <1>2
<1>6. /\ e \in Contents
      /\ e.alloc = d.alloc /\ e.batch = d.batch /\ e.line = d.line /\ e.order = rows
  <2> HIDE DEF e, rows, sent, trail
  <2> QED BY <1>1, <1>4, <1>5 DEF Contents
<1> QED
  <2> HIDE DEF row
  <2> QED BY <1>3, <1>4, <1>6

-----------------------------------------------------------------------------
\* Every operation keeps contents sound.

\* Contents with the same allocation rows have the same units.
LEMMA SameUnits ==
  ASSUME NEW d, NEW e, e.alloc = d.alloc
  PROVE  /\ \A b \in Batches : TakenUnits(e, b) = TakenUnits(d, b)
         /\ \A l \in Lines : GivenUnits(e, l) = GivenUnits(d, l)
         /\ FiniteUnits(d) => FiniteUnits(e)
  BY DEF TakenUnits, GivenUnits, FiniteUnits

\* A new batch has nothing taken from it.
LEMMA RegisterBatchSound ==
  ASSUME NEW d \in Contents, NEW b \in Batches, NEW input \in BatchInput,
         SoundIn(d), d.batch[b].status = "absent"
  PROVE  SoundIn(RegisterBatch(d, b, input))
<1> DEFINE e == RegisterBatch(d, b, input)
<1>1. /\ e.alloc = d.alloc
      /\ \A c \in Batches \ {b} : e.batch[c] = d.batch[c]
      /\ e.batch[b].available = input.quantity /\ e.batch[b].produced = input.quantity
      /\ e.batch[b].status = "registered"
  BY RegisterBatchEffect
<1> HIDE DEF e
<1>2. \A l \in Lines : d.alloc[l][b] = 0
  <2>1. \A l \in Lines : d.alloc[l][b] \in Nat
    BY DEF Contents
  <2> QED
    BY <2>1 DEF SoundIn, TakenReleased
<1>3. TakenReleased(e)
  BY <1>1, <1>2 DEF SoundIn, TakenReleased
<1>4. ConservedIn(e)
  <2>1. Cardinality(TakenUnits(d, b)) = 0
    BY <1>2, UnitsOfZero DEF TakenUnits
  <2>2. input.quantity \in Nat
    BY DEF BatchInput
  <2> QED
    BY <1>1, <2>1, <2>2, SameUnits DEF SoundIn, ConservedIn
<1> QED
  BY <1>1, <1>3, <1>4, SameUnits DEF SoundIn, e

\* A decision is only taken on a batch nothing was taken from.
LEMMA InspectBatchSound ==
  ASSUME NEW d \in Contents, NEW b \in Batches, NEW decision \in {"approved", "rejected"},
         SoundIn(d), d.batch[b].status \in {"registered", "sampling"}
  PROVE  SoundIn(InspectBatch(d, b, decision))
<1> DEFINE e == InspectBatch(d, b, decision)
<1>1. /\ e.alloc = d.alloc
      /\ \A c \in Batches \ {b} : e.batch[c] = d.batch[c]
      /\ e.batch[b].available = d.batch[b].available
      /\ e.batch[b].produced = d.batch[b].produced
  BY InspectBatchEffect
<1> HIDE DEF e
<1>2. \A l \in Lines : ~(d.alloc[l][b] > 0)
  BY DEF SoundIn, TakenReleased
<1>3. TakenReleased(e)
  BY <1>1, <1>2 DEF SoundIn, TakenReleased
<1>4. ConservedIn(e)
  <2>1. \A c \in Batches : /\ e.batch[c].available = d.batch[c].available
                           /\ e.batch[c].produced = d.batch[c].produced
    BY <1>1
  <2> QED
    BY <1>1, <2>1, SameUnits DEF SoundIn, ConservedIn
<1> QED
  BY <1>1, <1>3, <1>4, SameUnits DEF SoundIn, e

\* An operation that leaves batches and allocation rows alone.
LEMMA SameStockSound ==
  ASSUME NEW d, NEW e, SoundIn(d), e.alloc = d.alloc, e.batch = d.batch
  PROVE  SoundIn(e)
  BY SameUnits DEF SoundIn, TakenReleased, ConservedIn

\* A take adds exactly n units to what a batch gave and a line got.
LEMMA TakeFromUnits ==
  ASSUME NEW d \in Contents, NEW l \in Lines, NEW b \in Batches, NEW n \in Nat,
         n <= d.batch[b].available, d.batch[b].status = "released",
         d.alloc[l][b] = 0, FiniteUnits(d)
  PROVE  LET e == TakeFrom(d, l, b, n) IN
         /\ FiniteUnits(e)
         /\ Cardinality(TakenUnits(e, b)) = Cardinality(TakenUnits(d, b)) + n
         /\ \A c \in Batches \ {b} : TakenUnits(e, c) = TakenUnits(d, c)
         /\ Cardinality(GivenUnits(e, l)) = Cardinality(GivenUnits(d, l)) + n
         /\ \A k \in Lines \ {l} : GivenUnits(e, k) = GivenUnits(d, k)
<1> DEFINE e == TakeFrom(d, l, b, n)
           column == [k \in Lines |-> d.alloc[k][b]]
<1>1. e.alloc = [d.alloc EXCEPT ![l] = [d.alloc[l] EXCEPT ![b] = n]]
  BY TakeFromEffect
<1> HIDE DEF e
<1>2. d.alloc \in [Lines -> [Batches -> Nat]]
  BY DEF Contents
<1>3. /\ \A k \in Lines, c \in Batches : (k # l \/ c # b) => e.alloc[k][c] = d.alloc[k][c]
      /\ e.alloc[l][b] = n
      /\ e.alloc[l] = [d.alloc[l] EXCEPT ![b] = n]
      /\ \A k \in Lines \ {l} : e.alloc[k] = d.alloc[k]
  BY <1>1, <1>2
<1>4. /\ IsFiniteSet(TakenUnits(e, b))
      /\ Cardinality(TakenUnits(e, b)) = Cardinality(TakenUnits(d, b)) + n
  <2>1. [k \in Lines |-> e.alloc[k][b]] = [column EXCEPT ![l] = n]
    BY <1>3
  <2>2. column \in [Lines -> Nat] /\ column[l] = 0
    BY <1>2
  <2>3. TakenUnits(d, b) = Units(column) /\ TakenUnits(e, b) = Units([column EXCEPT ![l] = n])
    BY <2>1 DEF TakenUnits
  <2>4. IsFiniteSet(Units(column))
    BY <2>3 DEF FiniteUnits
  <2> HIDE DEF column
  <2>5. /\ IsFiniteSet(Units([column EXCEPT ![l] = n]))
        /\ Cardinality(Units([column EXCEPT ![l] = n])) = Cardinality(Units(column)) + n
    BY <2>2, <2>4, UnitsAdded
  <2> QED
    BY <2>3, <2>5
<1>5. \A c \in Batches \ {b} : TakenUnits(e, c) = TakenUnits(d, c)
  <2> SUFFICES ASSUME NEW c \in Batches \ {b}
               PROVE  [k \in Lines |-> e.alloc[k][c]] = [k \in Lines |-> d.alloc[k][c]]
    BY DEF TakenUnits
  <2> QED
    BY <1>3
<1>6. /\ IsFiniteSet(GivenUnits(e, l))
      /\ Cardinality(GivenUnits(e, l)) = Cardinality(GivenUnits(d, l)) + n
  <2>1. d.alloc[l] \in [Batches -> Nat] /\ IsFiniteSet(Units(d.alloc[l]))
    BY <1>2 DEF FiniteUnits, GivenUnits
  <2> QED
    BY <1>3, <2>1, UnitsAdded DEF GivenUnits
<1>7. \A k \in Lines \ {l} : GivenUnits(e, k) = GivenUnits(d, k)
  BY <1>3 DEF GivenUnits
<1>8. FiniteUnits(e)
  BY <1>4, <1>5, <1>6, <1>7 DEF FiniteUnits
<1> QED
  BY <1>4, <1>5, <1>6, <1>7, <1>8 DEF e

\* What a take adds to the rows it removes from the batch.
LEMMA TakeFromSound ==
  ASSUME NEW d \in Contents, NEW l \in Lines, NEW b \in Batches, NEW n \in Nat,
         n <= d.batch[b].available, d.batch[b].status = "released",
         d.alloc[l][b] = 0, SoundIn(d)
  PROVE  SoundIn(TakeFrom(d, l, b, n))
<1> DEFINE e == TakeFrom(d, l, b, n)
<1>1. /\ e.alloc = [d.alloc EXCEPT ![l] = [d.alloc[l] EXCEPT ![b] = n]]
      /\ \A c \in Batches \ {b} : e.batch[c] = d.batch[c]
      /\ e.batch[b].available = d.batch[b].available - n
      /\ e.batch[b].produced = d.batch[b].produced
      /\ e.batch[b].status \in {"released", "exhausted"}
  BY TakeFromEffect
<1>2. /\ FiniteUnits(e)
      /\ Cardinality(TakenUnits(e, b)) = Cardinality(TakenUnits(d, b)) + n
      /\ \A c \in Batches \ {b} : TakenUnits(e, c) = TakenUnits(d, c)
  BY TakeFromUnits DEF SoundIn
<1> HIDE DEF e
<1>3. TakenReleased(e)
  <2> SUFFICES ASSUME NEW k \in Lines, NEW c \in Batches, e.alloc[k][c] > 0
               PROVE  e.batch[c].status \in {"released", "exhausted"}
    BY DEF TakenReleased
  <2>1. CASE c = b
    BY <1>1, <2>1
  <2>2. CASE c # b
    <3>1. e.alloc[k][c] = d.alloc[k][c]
      BY <1>1, <2>2 DEF Contents
    <3> QED
      BY <1>1, <2>2, <3>1 DEF SoundIn, TakenReleased
  <2> QED
    BY <2>1, <2>2
<1>4. ConservedIn(e)
  <2> SUFFICES ASSUME NEW c \in Batches
               PROVE  e.batch[c].available + Cardinality(TakenUnits(e, c)) = e.batch[c].produced
    BY DEF ConservedIn
  <2>1. d.batch[c].available + Cardinality(TakenUnits(d, c)) = d.batch[c].produced
    BY DEF SoundIn, ConservedIn
  <2>2. d.batch[c].available \in Nat /\ Cardinality(TakenUnits(d, c)) \in Nat
    BY FS_CardinalityType DEF SoundIn, FiniteUnits, Contents, BatchRow
  <2>3. CASE c = b
    BY <1>1, <1>2, <2>1, <2>2, <2>3
  <2>4. CASE c # b
    BY <1>1, <1>2, <2>1, <2>4
  <2> QED
    BY <2>3, <2>4
<1> QED
  BY <1>2, <1>3, <1>4 DEF SoundIn, e

-----------------------------------------------------------------------------
\* The steps of a transaction and the inductive invariant.

\* What a request that may write sees: sound contents, covered but for the
\* order it is allocating itself.
CoveredView(r) ==
    \A l \in Lines :
        ~(writer = r /\ req[r].pc = "allocating" /\ req[r].on = OrderOf[l]) =>
            Cardinality(GivenUnits(View(r), l)) =
                IF View(r).order[OrderOf[l]].status = "allocated"
                THEN View(r).line[l].quantity ELSE 0

\* What a request sees is sound, whether it holds the lock or not.
LEMMA ViewFacts ==
  ASSUME IInv, NEW r \in Requests
  PROVE  /\ View(r) \in Contents
         /\ SoundIn(View(r))
         /\ CoveredView(r)
<1>1. r # None
  BY AllocationAssumption
<1>2. CASE writer = r
  BY <1>1, <1>2 DEF IInv, TypeOK, View, Coverage, CoveredView, InAllocation
<1>3. CASE writer # r
  BY <1>3 DEF IInv, TypeOK, View, Coverage, CoveredView, CoveredIn
<1> QED
  BY <1>2, <1>3

\* A request that does nothing and sees the same keeps what it knows.
LEMMA Kept ==
  ASSUME NEW p, AllocationInv(p), InspectionInv(p),
         req'[p] = req[p],
         Live(p)' => (Live(p) /\ View(p)' = View(p))
  PROVE  AllocationInv(p)' /\ InspectionInv(p)'
  BY DEF AllocationInv, InspectionInv, Owed, Live, View

\* A request that neither allocates nor inspects knows nothing.
LEMMA Ignorant ==
  ASSUME NEW p, req'[p].pc \notin {"allocating", "inspecting"}
  PROVE  AllocationInv(p)' /\ InspectionInv(p)'
  BY DEF AllocationInv, InspectionInv

\* The empty database is contents, and so is what an allocation reads of some.
LEMMA EmptyType == EmptyDatabase \in Contents
<1>1. NoBatch \in BatchRow /\ NoOrder \in OrderRow /\ NoLine \in LineRow
  BY DEF NoBatch, BatchRow, NoOrder, OrderRow, NoLine, LineRow
<1> QED
  BY <1>1 DEF EmptyDatabase, Contents

LEMMA ReadableType ==
  ASSUME NEW d \in Contents, NEW o \in Batches \union Orders \union {None}
  PROVE  /\ Readable(d, o) \in Contents
         /\ \A l \in Lines : Readable(d, o).line[l] =
                                IF OrderOf[l] = o THEN d.line[l] ELSE NoLine
         /\ Readable(d, o).batch = [b \in Batches |-> IF d.batch[b].status = "released"
                                                      THEN d.batch[b] ELSE NoBatch]
<1> DEFINE lines == [l \in Lines |-> IF OrderOf[l] = o THEN d.line[l] ELSE NoLine]
           rows == [b \in Batches |-> IF d.batch[b].status = "released" THEN d.batch[b]
                                                                       ELSE NoBatch]
<1>1. Readable(d, o) = [EmptyDatabase EXCEPT !.line = lines, !.batch = rows]
  BY DEF Readable
<1>2. d.line \in [Lines -> LineRow] /\ d.batch \in [Batches -> BatchRow]
  BY DEF Contents
<1>3. NoBatch \in BatchRow /\ NoLine \in LineRow
  BY DEF NoBatch, BatchRow, NoLine, LineRow
<1>4. lines \in [Lines -> LineRow] /\ rows \in [Batches -> BatchRow]
  BY <1>2, <1>3
<1> HIDE DEF lines, rows
<1>5. [EmptyDatabase EXCEPT !.line = lines, !.batch = rows] \in Contents
  <2> HIDE DEF EmptyDatabase
  <2> QED BY <1>4, EmptyType DEF Contents
<1>6. /\ [EmptyDatabase EXCEPT !.line = lines, !.batch = rows].line = lines
      /\ [EmptyDatabase EXCEPT !.line = lines, !.batch = rows].batch = rows
  BY DEF EmptyDatabase
<1> QED
  BY <1>1, <1>5, <1>6 DEF lines, rows

\* The state of a request that is not there.
LEMMA IdleType == Idle \in RequestState /\ Idle.pc = "idle"
  BY DEF Idle, RequestState

\* A transaction that ends without a commit.
LEMMA EndStep ==
  ASSUME IInv, NEW r \in Requests, Rollback(r), Become(r, Idle), DropSnapshot(r)
  PROVE  IInv'
<1>1. r # None
  BY AllocationAssumption
<1>2. /\ req' = [req EXCEPT ![r] = Idle]
      /\ req \in [Requests -> RequestState]
      /\ req'[r] = Idle
      /\ \A p \in Requests \ {r} : req'[p] = req[p]
  BY DEF Become, IInv, TypeOK
<1>3. TypeOK'
  <2>1. snap' \in [Requests -> Contents]
    <3> HIDE DEF EmptyDatabase
    <3> QED BY EmptyType DEF DropSnapshot, IInv, TypeOK
  <2> QED
    BY <1>1, <1>2, <2>1, IdleType DEF IInv, TypeOK, Rollback
<1>4. LockInv'
  <2>1. writer' = None => wk' = db'
    BY DEF IInv, LockInv, Rollback
  <2>2. ASSUME NEW p \in Requests
        PROVE  /\ writer' = p => req'[p].pc \in {"allocating", "committing"}
               /\ req'[p].pc = "committing" => writer' = p
    <3>1. CASE p = r
      BY <1>1, <1>2, <3>1, IdleType DEF Rollback
    <3>2. CASE p # r
      <4>1. writer' = p <=> writer = p
        BY <3>2, AllocationAssumption DEF Rollback
      <4> QED
        BY <1>2, <3>2, <4>1 DEF IInv, LockInv
    <3> QED
      BY <3>1, <3>2
  <2> QED
    BY <2>1, <2>2 DEF LockInv
<1>5. SoundIn(db)' /\ SoundIn(wk)'
  <2>1. db' = db /\ wk' \in {db, wk}
    BY DEF Rollback
  <2>2. SoundIn(db') /\ SoundIn(wk')
    BY <2>1 DEF IInv
  <2> QED
    BY <2>2
<1>6. Coverage'
  <2>1. CASE writer = r
    BY <2>1 DEF IInv, Coverage, CoveredIn, Rollback
  <2>2. CASE writer # r
    <3>1. /\ wk' = wk /\ db' = db /\ writer' = writer
          /\ writer # None => req'[writer] = req[writer]
      BY <1>2, <2>2 DEF Rollback, IInv, TypeOK
    <3> QED
      BY <3>1 DEF IInv, Coverage, CoveredIn, InAllocation
  <2> QED
    BY <2>1, <2>2
<1>7. \A p \in Requests : AllocationInv(p)' /\ InspectionInv(p)'
  <2> TAKE p \in Requests
  <2>1. CASE p = r
    BY <1>2, <2>1, IdleType, Ignorant
  <2>2. CASE p # r
    <3>1. Live(p)' => (Live(p) /\ View(p)' = View(p))
      BY <1>1, <2>2, AllocationAssumption DEF Live, View, Rollback
    <3> QED
      BY <1>2, <2>2, <3>1, Kept DEF IInv
  <2> QED
    BY <2>1, <2>2
<1> QED
  BY <1>3, <1>4, <1>5, <1>6, <1>7 DEF IInv

\* A transaction whose first read fixes its snapshot.
LEMMA ReadStep ==
  ASSUME IInv, NEW r \in Requests, NEW s \in RequestState,
         req[r].pc = "idle", Read(r), Become(r, s), snap' = snap,
         s.pc \in {"registering", "inspecting", "allocating"},
         AllocationInv(r)' /\ InspectionInv(r)'
  PROVE  IInv'
<1>1. r # None /\ writer # r
  BY AllocationAssumption DEF IInv, LockInv
<1>2. /\ req \in [Requests -> RequestState]
      /\ req' \in [Requests -> RequestState]
      /\ req'[r] = s
      /\ \A p \in Requests \ {r} : req'[p] = req[p]
  BY DEF Become, IInv, TypeOK
<1>3. db' = db /\ wk' = wk /\ writer' = writer /\ fresh' = fresh \union {r}
  BY DEF Read
<1>4. TypeOK'
  BY <1>2, <1>3 DEF IInv, TypeOK
<1>5. LockInv'
  <2>1. ASSUME NEW p \in Requests
        PROVE  /\ writer' = p => req'[p].pc \in {"allocating", "committing"}
               /\ req'[p].pc = "committing" => writer' = p
    BY <1>1, <1>2, <1>3 DEF IInv, LockInv
  <2> QED
    BY <1>3, <2>1 DEF IInv, LockInv
<1>6. SoundIn(db)' /\ SoundIn(wk)'
  BY <1>3 DEF IInv
<1>7. Coverage'
  <2>1. writer # None => req'[writer] = req[writer]
    BY <1>1, <1>2 DEF IInv, TypeOK
  <2> QED
    BY <1>3, <2>1 DEF IInv, Coverage, CoveredIn, InAllocation
<1>8. \A p \in Requests : AllocationInv(p)' /\ InspectionInv(p)'
  <2> TAKE p \in Requests
  <2>1. CASE p = r
    BY <2>1
  <2>2. CASE p # r
    <3>1. Live(p)' => (Live(p) /\ View(p)' = View(p))
      BY <1>3, <2>2 DEF Live, View
    <3> QED
      BY <1>2, <2>2, <3>1, Kept DEF IInv
  <2> QED
    BY <2>1, <2>2
<1> QED
  BY <1>4, <1>5, <1>6, <1>7, <1>8 DEF IInv

\* A transaction that writes contents c.
LEMMA WriteStep ==
  ASSUME IInv, NEW r \in Requests, NEW s \in RequestState, NEW c \in Contents,
         writer \in {None, r}, writer' = r, wk' = c, db' = db, fresh' = fresh, snap' = snap,
         Become(r, s), s.pc \in {"allocating", "committing"},
         SoundIn(c), AllocationInv(r)',
         \A l \in Lines : ~(s.pc = "allocating" /\ s.on = OrderOf[l]) =>
            Cardinality(GivenUnits(c, l)) =
                IF c.order[OrderOf[l]].status = "allocated" THEN c.line[l].quantity ELSE 0
  PROVE  IInv'
<1>1. r # None
  BY AllocationAssumption
<1>2. /\ req \in [Requests -> RequestState]
      /\ req' \in [Requests -> RequestState]
      /\ req'[r] = s
      /\ \A p \in Requests \ {r} : req'[p] = req[p]
  BY DEF Become, IInv, TypeOK
<1>3. TypeOK'
  BY <1>2 DEF IInv, TypeOK
<1>4. LockInv'
  <2>1. ASSUME NEW p \in Requests
        PROVE  /\ writer' = p => req'[p].pc \in {"allocating", "committing"}
               /\ req'[p].pc = "committing" => writer' = p
    <3>1. p # None
      BY AllocationAssumption
    <3> QED
      BY <1>2, <3>1 DEF IInv, LockInv
  <2> QED
    BY <1>1, <2>1 DEF LockInv
<1>5. SoundIn(db)' /\ SoundIn(wk)'
  <2>1. SoundIn(db') /\ SoundIn(wk')
    BY DEF IInv
  <2> QED
    BY <2>1
<1>6. Coverage'
  <2>1. CoveredIn(db')
    BY DEF IInv, Coverage
  <2>2. \A o : InAllocation(o)' <=> (s.pc = "allocating" /\ s.on = o)
    BY <1>1, <1>2 DEF InAllocation
  <2> QED
    BY <2>1, <2>2 DEF Coverage
<1>7. \A p \in Requests : AllocationInv(p)' /\ InspectionInv(p)'
  <2> TAKE p \in Requests
  <2>1. CASE p = r
    BY <1>2, <2>1 DEF InspectionInv
  <2>2. CASE p # r
    <3>1. p # None
      BY AllocationAssumption
    <3>2. Live(p)' => (Live(p) /\ View(p)' = View(p))
      BY <2>2, <3>1 DEF Live, View
    <3> QED
      BY <1>2, <2>2, <3>2, Kept DEF IInv
  <2> QED
    BY <2>1, <2>2
<1> QED
  BY <1>3, <1>4, <1>5, <1>6, <1>7 DEF IInv

\* A commit publishes the pages of the lock holder.
LEMMA CommitStep ==
  ASSUME IInv, NEW r \in Requests, CommitRequest(r)
  PROVE  IInv'
<1>1. /\ r # None /\ writer = r /\ req[r].pc = "committing"
      /\ db' = wk /\ wk' = wk /\ writer' = None /\ fresh' = {}
  BY AllocationAssumption DEF CommitRequest, Commit
<1>2. /\ req \in [Requests -> RequestState]
      /\ req' \in [Requests -> RequestState]
      /\ req'[r] = Idle
      /\ \A p \in Requests \ {r} : req'[p] = req[p]
  BY IdleType DEF CommitRequest, Become, IInv, TypeOK
<1>3. TypeOK'
  <2>1. snap' \in [Requests -> Contents]
    <3>1. \A p \in Requests : Readable(db, req[p].on) \in Contents
      BY ReadableType DEF IInv, TypeOK, RequestState
    <3> QED
      BY <3>1 DEF CommitRequest, KeepSnapshots, IInv, TypeOK
  <2> QED
    BY <1>1, <1>2, <2>1 DEF IInv, TypeOK
<1>4. LockInv'
  <2>1. ASSUME NEW p \in Requests
        PROVE  /\ writer' = p => req'[p].pc \in {"allocating", "committing"}
               /\ req'[p].pc = "committing" => writer' = p
    <3>1. p # None
      BY AllocationAssumption
    <3> QED
      BY <1>1, <1>2, <3>1, IdleType DEF IInv, LockInv
  <2> QED
    BY <1>1, <2>1 DEF LockInv
<1>5. SoundIn(db)' /\ SoundIn(wk)'
  <2>1. SoundIn(db') /\ SoundIn(wk')
    BY <1>1 DEF IInv
  <2> QED
    BY <2>1
<1>6. Coverage'
  <2>1. \A o : ~InAllocation(o)
    BY <1>1 DEF InAllocation
  <2>2. CoveredIn(wk)
    BY <2>1 DEF IInv, Coverage, CoveredIn
  <2> QED
    BY <1>1, <2>2 DEF Coverage, CoveredIn
<1>7. \A p \in Requests : AllocationInv(p)' /\ InspectionInv(p)'
  <2> TAKE p \in Requests
  <2>1. ~Live(p)'
    BY <1>1, AllocationAssumption DEF Live
  <2> QED
    BY <2>1 DEF AllocationInv, InspectionInv
<1> QED
  BY <1>3, <1>4, <1>5, <1>6, <1>7 DEF IInv

-----------------------------------------------------------------------------
\* One lemma per action that does more than end a transaction.

\* The empty database is sound.
LEMMA InitStep ==
  ASSUME Init
  PROVE  IInv
<1>1. EmptyDatabase \in Contents
  BY EmptyType
<1>2. /\ \A l \in Lines, b \in Batches : EmptyDatabase.alloc[l][b] = 0
      /\ \A b \in Batches : /\ EmptyDatabase.batch[b].available = 0
                            /\ EmptyDatabase.batch[b].produced = 0
      /\ \A o \in Orders : EmptyDatabase.order[o].status = "absent"
      /\ \A l \in Lines : DOMAIN EmptyDatabase.alloc[l] = Batches
  BY DEF EmptyDatabase, NoBatch, NoOrder
<1>3. \A b \in Batches : /\ IsFiniteSet(TakenUnits(EmptyDatabase, b))
                         /\ Cardinality(TakenUnits(EmptyDatabase, b)) = 0
  <2> HIDE DEF EmptyDatabase
  <2> QED BY <1>2, UnitsOfZero DEF TakenUnits
<1>4. \A l \in Lines : /\ IsFiniteSet(GivenUnits(EmptyDatabase, l))
                       /\ Cardinality(GivenUnits(EmptyDatabase, l)) = 0
  <2> HIDE DEF EmptyDatabase
  <2> QED BY <1>2, UnitsOfZero DEF GivenUnits
<1>5. SoundIn(EmptyDatabase)
  BY <1>2, <1>3, <1>4 DEF SoundIn, FiniteUnits, TakenReleased, ConservedIn
<1>6. CoveredIn(EmptyDatabase)
  BY <1>2, <1>4, AllocationAssumption DEF CoveredIn
<1>7. /\ db = EmptyDatabase /\ wk = EmptyDatabase /\ writer = None /\ fresh = {}
      /\ req = [r \in Requests |-> Idle] /\ snap = [r \in Requests |-> EmptyDatabase]
  BY DEF Init, StartStore
<1>8. TypeOK
  <2> HIDE DEF EmptyDatabase
  <2> QED BY <1>1, <1>7, IdleType, AllocationAssumption DEF TypeOK
<1>9. LockInv
  BY <1>7, IdleType, AllocationAssumption DEF LockInv
<1>10. Coverage
  BY <1>6, <1>7 DEF Coverage, CoveredIn
<1>11. \A r \in Requests : AllocationInv(r) /\ InspectionInv(r)
  BY <1>7, IdleType DEF AllocationInv, InspectionInv
<1> QED
  BY <1>5, <1>7, <1>8, <1>9, <1>10, <1>11 DEF IInv

\* Register, first read.
LEMMA RegisterBeginStep ==
  ASSUME IInv, NEW r \in Requests, RegisterBegin(r)
  PROVE  IInv'
<1> DEFINE s == [Idle EXCEPT !.pc = "registering"]
<1>1. s \in RequestState /\ s.pc = "registering"
  BY DEF Idle, RequestState
<1>2. req'[r] = s
  BY DEF RegisterBegin, Become, IInv, TypeOK
<1>3. AllocationInv(r)' /\ InspectionInv(r)'
  BY <1>1, <1>2, Ignorant
<1> QED
  <2> HIDE DEF s
  <2> QED BY <1>1, <1>3, ReadStep DEF RegisterBegin, s

\* Register, the writes.
LEMMA RegisterWriteStep ==
  ASSUME IInv, NEW r \in Requests, NEW b \in Batches, NEW input \in Offered[b],
         RegisterWrite(r, b, input)
  PROVE  IInv'
<1> DEFINE s == [req[r] EXCEPT !.pc = "committing", !.on = b]
           c == RegisterBatch(View(r), b, input)
<1>1. s \in RequestState /\ s.pc = "committing" /\ req'[r] = s
  BY DEF RegisterWrite, Become, IInv, TypeOK, RequestState
<1>2. input \in BatchInput
  BY AllocationAssumption
<1>3. /\ View(r) \in Contents /\ SoundIn(View(r)) /\ CoveredView(r)
      /\ View(r).batch[b].status = "absent"
  BY ViewFacts DEF RegisterWrite
<1>4. /\ c \in Contents /\ SoundIn(c)
      /\ c.alloc = View(r).alloc /\ c.order = View(r).order /\ c.line = View(r).line
  BY <1>2, <1>3, RegisterBatchEffect, RegisterBatchSound
<1>5. \A l \in Lines : Cardinality(GivenUnits(c, l)) =
          IF c.order[OrderOf[l]].status = "allocated" THEN c.line[l].quantity ELSE 0
  <2>1. req[r].pc # "allocating"
    BY DEF RegisterWrite
  <2> HIDE DEF c
  <2> QED BY <1>3, <1>4, <2>1, SameUnits DEF CoveredView
<1>6. AllocationInv(r)'
  BY <1>1, Ignorant
<1>7. /\ writer \in {None, r} /\ writer' = r /\ wk' = c /\ db' = db /\ fresh' = fresh
      /\ snap' = snap /\ Become(r, s)
  BY DEF RegisterWrite, Write, CanWrite
<1> QED
  <2> HIDE DEF c, s
  <2> QED BY <1>1, <1>4, <1>5, <1>6, <1>7, WriteStep

\* Inspect, the read and its checks.
LEMMA InspectBeginStep ==
  ASSUME IInv, NEW r \in Requests, NEW b \in Batches, NEW ver \in Versions,
         InspectBegin(r, b, ver)
  PROVE  IInv'
<1> DEFINE s == [Idle EXCEPT !.pc = "inspecting", !.on = b, !.ver = ver]
<1>1. s \in RequestState /\ s.pc = "inspecting" /\ s.on = b
  <2>1. ver \in Nat
    BY DEF Versions
  <2>2. s \in RequestState
    BY <2>1, IdleType DEF RequestState
  <2> QED
    BY <2>2, IdleType DEF RequestState
<1>2. req'[r] = s
  BY DEF InspectBegin, Become, IInv, TypeOK
<1>3. AllocationInv(r)'
  BY <1>1, <1>2 DEF AllocationInv
<1>4. View(r)' = db
  <2>1. r # None /\ writer # r /\ writer' = writer /\ db' = db
    BY AllocationAssumption DEF InspectBegin, Read, IInv, LockInv
  <2> QED
    BY <2>1 DEF View
<1>5. InspectionInv(r)'
  BY <1>1, <1>2, <1>4 DEF InspectionInv, InspectBegin
<1> QED
  <2> HIDE DEF s
  <2> QED BY <1>1, <1>3, <1>5, ReadStep DEF InspectBegin, s

\* Inspect, the writes.
LEMMA InspectWriteStep ==
  ASSUME IInv, NEW r \in Requests, NEW decision \in {"approved", "rejected"},
         InspectWrite(r, decision)
  PROVE  IInv'
<1> DEFINE s == [req[r] EXCEPT !.pc = "committing"]
           b == req[r].on
           c == InspectBatch(View(r), b, decision)
<1>1. s \in RequestState /\ s.pc = "committing" /\ req'[r] = s
  BY DEF InspectWrite, Become, IInv, TypeOK, RequestState
<1>2. Live(r) /\ req[r].pc = "inspecting"
  BY DEF InspectWrite, Write, CanWrite, Live
<1>3. /\ View(r) \in Contents /\ SoundIn(View(r)) /\ CoveredView(r)
      /\ b \in Batches /\ View(r).batch[b].status \in {"registered", "sampling"}
  BY <1>2, ViewFacts DEF IInv, InspectionInv
<1>4. /\ c \in Contents /\ SoundIn(c)
      /\ c.alloc = View(r).alloc /\ c.order = View(r).order /\ c.line = View(r).line
  <2> HIDE DEF b
  <2> QED BY <1>3, InspectBatchEffect, InspectBatchSound
<1>5. \A l \in Lines : Cardinality(GivenUnits(c, l)) =
          IF c.order[OrderOf[l]].status = "allocated" THEN c.line[l].quantity ELSE 0
  <2> HIDE DEF c
  <2> QED BY <1>2, <1>3, <1>4, SameUnits DEF CoveredView
<1>6. AllocationInv(r)'
  BY <1>1, Ignorant
<1>7. /\ writer \in {None, r} /\ writer' = r /\ wk' = c /\ db' = db /\ fresh' = fresh
      /\ snap' = snap /\ Become(r, s)
  BY DEF InspectWrite, Write, CanWrite
<1> QED
  <2> HIDE DEF c, s
  <2> QED BY <1>1, <1>4, <1>5, <1>6, <1>7, WriteStep

\* Create, whose first statement is a write.
LEMMA CreateStep ==
  ASSUME IInv, NEW r \in Requests, NEW o \in Orders, NEW input \in Wanted[o],
         Create(r, o, input)
  PROVE  IInv'
<1> DEFINE s == [Idle EXCEPT !.pc = "committing", !.on = o]
           c == CreateOrder(db, o, input)
<1>1. s \in RequestState /\ s.pc = "committing" /\ req'[r] = s
  BY DEF Create, Become, IInv, TypeOK, Idle, RequestState
<1>2. /\ c \in Contents
      /\ c.alloc = db.alloc /\ c.batch = db.batch
      /\ \A p \in Orders \ {o} : c.order[p] = db.order[p]
      /\ \A l \in Lines : OrderOf[l] # o => c.line[l] = db.line[l]
      /\ c.order[o].status = "confirmed"
  BY CreateOrderEffect DEF IInv, TypeOK
<1>3. SoundIn(c)
  BY <1>2, SameStockSound DEF IInv
<1>4. ASSUME NEW l \in Lines
      PROVE  Cardinality(GivenUnits(c, l)) =
                IF c.order[OrderOf[l]].status = "allocated" THEN c.line[l].quantity ELSE 0
  <2> HIDE DEF c
  <2>1. GivenUnits(c, l) = GivenUnits(db, l)
    BY <1>2, SameUnits
  <2>2. Cardinality(GivenUnits(db, l)) =
           IF db.order[OrderOf[l]].status = "allocated" THEN db.line[l].quantity ELSE 0
    BY DEF IInv, Coverage, CoveredIn
  <2>3. CASE OrderOf[l] = o
    <3>1. db.order[o].status = "absent"
      BY DEF Create
    <3> QED
      BY <1>2, <2>1, <2>2, <2>3, <3>1
  <2>4. CASE OrderOf[l] # o
    <3>1. c.order[OrderOf[l]] = db.order[OrderOf[l]]
      BY <1>2, <2>4, AllocationAssumption
    <3> QED
      BY <1>2, <2>1, <2>2, <2>4, <3>1
  <2> QED
    BY <2>3, <2>4
<1>5. AllocationInv(r)'
  BY <1>1, Ignorant
<1>6. /\ writer \in {None, r} /\ writer' = r /\ wk' = c /\ db' = db /\ fresh' = fresh
      /\ snap' = snap /\ Become(r, s)
  BY DEF Create, WriteFirst
<1> QED
  <2> HIDE DEF c, s
  <2> QED BY <1>1, <1>2, <1>3, <1>4, <1>5, <1>6, WriteStep

\* Allocate, the read of the order: every line is owed in full.
LEMMA AllocateBeginStep ==
  ASSUME IInv, NEW r \in Requests, NEW o \in Orders, NEW ver \in Versions, NEW at \in Times,
         AllocateBegin(r, o, ver, at)
  PROVE  IInv'
<1> DEFINE wanted == {l \in LinesOf(o) : db.line[l].quantity > 0}
           s == [Idle EXCEPT !.pc = "allocating", !.on = o, !.ver = ver, !.at = at,
                             !.lines = wanted]
<1>1. /\ s \in RequestState
      /\ s.pc = "allocating" /\ s.on = o /\ s.lines = wanted /\ s.left = 0 /\ s.line = None
  <2>1. ver \in Nat /\ at \in Nat
    BY AllocationAssumption DEF Versions, Times
  <2>2. wanted \in SUBSET Lines
    BY DEF LinesOf
  <2> HIDE DEF wanted
  <2>3. s \in RequestState
    BY <2>1, <2>2, IdleType DEF RequestState
  <2>4. s.pc = "allocating" /\ s.on = o /\ s.lines = wanted /\ s.left = 0 /\ s.line = None
    BY DEF Idle
  <2> QED
    BY <2>3, <2>4
<1> HIDE DEF s
<1>2. req'[r] = s
  BY DEF AllocateBegin, Become, IInv, TypeOK, s
<1>3. db' = db /\ db.order[o].status = "confirmed" /\ View(r)' = db
  <2>1. r # None /\ writer # r /\ writer' = writer /\ db' = db
    BY AllocationAssumption DEF AllocateBegin, Read, IInv, LockInv
  <2> QED
    BY <2>1 DEF View, AllocateBegin
<1>4. ASSUME NEW l \in LinesOf(o)
      PROVE  /\ l \in Lines /\ Cardinality(GivenUnits(db, l)) = 0
             /\ \A b \in Batches : db.alloc[l][b] = 0
  <2>1. l \in Lines /\ OrderOf[l] = o
    BY DEF LinesOf
  <2>2. Cardinality(GivenUnits(db, l)) = 0
    BY <1>3, <2>1 DEF IInv, Coverage, CoveredIn
  <2>3. IsFiniteSet(GivenUnits(db, l)) /\ db.alloc[l] \in [Batches -> Nat]
    BY <2>1 DEF IInv, SoundIn, FiniteUnits, TypeOK, Contents
  <2> QED
    BY <2>1, <2>2, <2>3, ZeroOfUnits DEF GivenUnits
<1>5. AllocationInv(r)'
  <2>1. \A l \in LinesOf(o) : Owed(r, l)' = IF l \in wanted THEN db.line[l].quantity ELSE 0
    <3>1. \A l \in LinesOf(o) : l # None
      BY AllocationAssumption DEF LinesOf
    <3> QED
      BY <1>1, <1>2, <1>3, <3>1 DEF Owed
  <2>2. \A l \in LinesOf(o) : Cardinality(GivenUnits(db, l)) + Owed(r, l)' = db.line[l].quantity
    <3> SUFFICES ASSUME NEW l \in LinesOf(o)
                 PROVE  0 + Owed(r, l)' = db.line[l].quantity
      BY <1>4
    <3>1. db.line[l].quantity \in Nat
      BY <1>4 DEF IInv, TypeOK, Contents, LineRow
    <3> QED
      BY <2>1, <3>1
  <2> QED
    BY <1>1, <1>2, <1>3, <1>4, <2>2 DEF AllocationInv
<1>6. InspectionInv(r)'
  BY <1>1, <1>2 DEF InspectionInv
<1> QED
  BY <1>1, <1>5, <1>6, ReadStep DEF AllocateBegin, s

\* Allocate, one line started: what it is owed moves to left.
LEMMA AllocateLineStep ==
  ASSUME IInv, NEW r \in Requests, NEW l \in Lines, AllocateLine(r, l)
  PROVE  IInv'
<1> DEFINE d == Seen(r)
           want == d.line[l]
           page == FirstPage(d, want.species)
           s == [req[r] EXCEPT !.lines = @ \ {l}, !.line = l, !.left = want.quantity, !.todo = page]
<1>1. /\ req[r].pc = "allocating" /\ req[r].left = 0 /\ l \in req[r].lines
      /\ db' = db /\ wk' = wk /\ writer' = writer /\ fresh' = fresh /\ snap' = snap
      /\ req' = [req EXCEPT ![r] = s]
      /\ req \in [Requests -> RequestState]
  BY DEF AllocateLine, Become, tx, IInv, TypeOK
<1>2. d \in Contents /\ (Live(r) => d = View(r))
  BY ViewFacts DEF Seen, IInv, TypeOK
<1> HIDE DEF d
<1>3. /\ page \subseteq Batches
      /\ \A b \in page : d.batch[b].status = "released"
  BY DEF FirstPage, Listed
<1>4. want.quantity \in Nat
  BY <1>2 DEF Contents, LineRow
<1>5. /\ s \in RequestState
      /\ s.pc = "allocating" /\ s.on = req[r].on /\ s.lines = req[r].lines \ {l}
      /\ s.line = l /\ s.left = want.quantity /\ s.todo = page
  <2> HIDE DEF want, page
  <2>1. s \in RequestState
    BY <1>1, <1>3, <1>4 DEF RequestState
  <2>2. req[r] \in RequestState
    BY <1>1
  <2> QED
    BY <1>1, <2>1, <2>2 DEF RequestState
<1> HIDE DEF s, want, page
<1>6. req' \in [Requests -> RequestState] /\ req'[r] = s
      /\ \A p \in Requests \ {r} : req'[p] = req[p]
  BY <1>1, <1>5
<1>7. View(r)' = View(r) /\ (Live(r)' <=> Live(r))
  BY <1>1 DEF View, Live
<1>8. ASSUME Live(r)
      PROVE  /\ req[r].on \in Orders
             /\ req[r].lines \subseteq LinesOf(req[r].on)
             /\ \A k \in req[r].lines, b \in Batches : d.alloc[k][b] = 0
             /\ \A k \in LinesOf(req[r].on) :
                   Cardinality(GivenUnits(d, k)) + Owed(r, k) = d.line[k].quantity
  BY <1>1, <1>2, <1>8 DEF IInv, AllocationInv
<1>9. AllocationInv(r)'
  <2> SUFFICES ASSUME Live(r)
               PROVE  AllocationInv(r)'
    BY <1>7 DEF AllocationInv
  <2>1. \A k : Owed(r, k)' = Owed(r, k)
    BY <1>1, <1>2, <1>5, <1>6, <1>7 DEF Owed, want
  <2>2. View(r)' = d
    BY <1>2, <1>7
  <2> QED
    BY <1>1, <1>3, <1>5, <1>6, <1>7, <1>8, <2>1, <2>2 DEF AllocationInv
<1>10. TypeOK' /\ LockInv'
  BY <1>1, <1>5, <1>6 DEF IInv, TypeOK, LockInv
<1>11. SoundIn(db)' /\ SoundIn(wk)'
  BY <1>1 DEF IInv
<1>12. Coverage'
  <2>1. \A o : InAllocation(o)' <=> InAllocation(o)
    BY <1>1, <1>5, <1>6 DEF InAllocation, IInv, TypeOK
  <2> QED
    BY <1>1, <2>1 DEF IInv, Coverage, CoveredIn
<1>13. \A p \in Requests : AllocationInv(p)' /\ InspectionInv(p)'
  <2> TAKE p \in Requests
  <2>1. CASE p = r
    BY <1>5, <1>6, <1>9, <2>1 DEF InspectionInv
  <2>2. CASE p # r
    <3>1. Live(p)' => (Live(p) /\ View(p)' = View(p))
      BY <1>1 DEF Live, View
    <3> QED
      BY <1>6, <2>2, <3>1, Kept DEF IInv
  <2> QED
    BY <2>1, <2>2
<1> QED
  BY <1>10, <1>11, <1>12, <1>13 DEF IInv

\* Allocate, one candidate taken: what is owed falls by what is given.
LEMMA AllocateTakeStep ==
  ASSUME IInv, NEW r \in Requests, NEW b \in Batches, AllocateTake(r, b)
  PROVE  IInv'
<1> DEFINE d == View(r)
           o == req[r].on
           k == req[r].line
           n == Portion(d.batch[b].available, req[r].left)
           c == TakeFrom(d, k, b, n)
           s == [req[r] EXCEPT !.left = @ - n, !.todo = @ \ {b}]
<1>1. /\ req[r].pc = "allocating" /\ req[r].left > 0
      /\ b \in req[r].todo /\ d.batch[b].available > 0
      /\ Live(r) /\ writer \in {None, r}
      /\ writer' = r /\ wk' = c /\ db' = db /\ fresh' = fresh /\ snap' = snap /\ Become(r, s)
  BY DEF AllocateTake, NextCandidate, Usable, Write, CanWrite, Live
<1>2. /\ req \in [Requests -> RequestState] /\ req[r] \in RequestState
      /\ req[r].left \in Nat
  BY DEF IInv, TypeOK, RequestState
<1>3. /\ d \in Contents /\ SoundIn(d) /\ CoveredView(r)
      /\ d.batch[b].available \in Nat /\ d.alloc \in [Lines -> [Batches -> Nat]]
  BY ViewFacts DEF Contents, BatchRow
<1>4. /\ o \in Orders
      /\ req[r].lines \subseteq LinesOf(o)
      /\ k \in LinesOf(o) \ req[r].lines
      /\ \A l \in req[r].lines, e \in Batches : d.alloc[l][e] = 0
      /\ \A e \in req[r].todo : d.batch[e].status = "released" /\ d.alloc[k][e] = 0
      /\ \A l \in LinesOf(o) :
            Cardinality(GivenUnits(d, l)) + Owed(r, l) = d.line[l].quantity
  BY <1>1 DEF IInv, AllocationInv
<1>5. k \in Lines /\ req[r].todo \subseteq Batches
  BY <1>2, <1>4 DEF LinesOf, RequestState
<1>6. n \in Nat /\ n <= d.batch[b].available /\ n <= req[r].left
  <2> HIDE DEF d
  <2> QED BY <1>2, <1>3 DEF Portion
<1>7. d.batch[b].status = "released" /\ d.alloc[k][b] = 0
  BY <1>1, <1>4
<1> HIDE DEF n, d, k, o
<1>8. /\ c \in Contents
      /\ c.order = d.order /\ c.line = d.line
      /\ c.alloc = [d.alloc EXCEPT ![k] = [d.alloc[k] EXCEPT ![b] = n]]
      /\ \A e \in Batches \ {b} : c.batch[e] = d.batch[e]
  BY <1>3, <1>5, <1>6, <1>7, TakeFromEffect
<1>9. SoundIn(c)
  BY <1>3, <1>5, <1>6, <1>7, TakeFromSound
<1>10. /\ Cardinality(GivenUnits(c, k)) = Cardinality(GivenUnits(d, k)) + n
       /\ \A l \in Lines \ {k} : GivenUnits(c, l) = GivenUnits(d, l)
  BY <1>3, <1>5, <1>6, <1>7, TakeFromUnits DEF SoundIn
<1> HIDE DEF c
<1>11. /\ s \in RequestState /\ s.pc = "allocating" /\ s.on = o /\ s.lines = req[r].lines
       /\ s.line = k /\ s.left = req[r].left - n /\ s.todo = req[r].todo \ {b}
  <2>1. req[r].left - n \in Nat
    BY <1>2, <1>6
  <2>2. s \in RequestState
    BY <1>2, <2>1 DEF RequestState
  <2> QED
    BY <1>1, <1>2, <2>2 DEF RequestState, k, o
<1> HIDE DEF s
<1>12. req'[r] = s
  BY <1>1, <1>2 DEF Become
<1>13. View(r)' = c
  BY <1>1 DEF View
<1>14. ASSUME NEW l \in LinesOf(o)
       PROVE  Cardinality(GivenUnits(c, l)) + Owed(r, l)' = c.line[l].quantity
  <2>1. l \in Lines
    BY DEF LinesOf
  <2>2. Cardinality(GivenUnits(d, l)) \in Nat
    BY <1>3, <2>1, FS_CardinalityType DEF SoundIn, FiniteUnits
  <2>3. Cardinality(GivenUnits(d, l)) + Owed(r, l) = d.line[l].quantity
    BY <1>4
  <2>4. CASE l = k
    <3>1. Owed(r, l) = req[r].left /\ Owed(r, l)' = req[r].left - n
      BY <1>4, <1>11, <1>12, <2>4 DEF Owed, k
    <3> QED
      BY <1>2, <1>6, <1>8, <1>10, <2>2, <2>3, <2>4, <3>1
  <2>5. CASE l # k
    <3>1. Owed(r, l)' = Owed(r, l)
      BY <1>8, <1>11, <1>12, <1>13, <2>5 DEF Owed, k, d
    <3> QED
      BY <1>8, <1>10, <2>1, <2>3, <2>5, <3>1
  <2> QED
    BY <2>4, <2>5
<1>15. AllocationInv(r)'
  <2>1. \A l \in req[r].lines, e \in Batches : c.alloc[l][e] = 0
    BY <1>3, <1>4, <1>8
  <2>2. \A e \in req[r].todo \ {b} : c.batch[e].status = "released" /\ c.alloc[k][e] = 0
    BY <1>3, <1>4, <1>5, <1>8
  <2> QED
    BY <1>4, <1>11, <1>12, <1>13, <1>14, <2>1, <2>2 DEF AllocationInv
<1>16. ASSUME NEW l \in Lines, ~(s.pc = "allocating" /\ s.on = OrderOf[l])
       PROVE  Cardinality(GivenUnits(c, l)) =
                 IF c.order[OrderOf[l]].status = "allocated" THEN c.line[l].quantity ELSE 0
  <2>1. OrderOf[l] # o /\ l # k
    BY <1>4, <1>11, <1>16 DEF LinesOf
  <2>2. Cardinality(GivenUnits(d, l)) =
           IF d.order[OrderOf[l]].status = "allocated" THEN d.line[l].quantity ELSE 0
    BY <1>3, <2>1 DEF CoveredView, d, o
  <2> QED
    BY <1>8, <1>10, <2>1, <2>2
<1> QED
  BY <1>1, <1>8, <1>9, <1>11, <1>15, <1>16, WriteStep

\* Allocate, the end: nothing is owed any more.
LEMMA AllocateCloseStep ==
  ASSUME IInv, NEW r \in Requests, AllocateClose(r)
  PROVE  IInv'
<1> DEFINE d == View(r)
           o == req[r].on
           c == CloseAllocation(d, o)
           s == [req[r] EXCEPT !.pc = "committing"]
<1>1. /\ req[r].pc = "allocating" /\ req[r].left = 0 /\ req[r].lines = {}
      /\ Live(r) /\ writer \in {None, r}
      /\ writer' = r /\ wk' = c /\ db' = db /\ fresh' = fresh /\ snap' = snap /\ Become(r, s)
  BY DEF AllocateClose, Write, CanWrite, Live
<1>2. /\ s \in RequestState /\ s.pc = "committing" /\ req'[r] = s
  BY DEF AllocateClose, Become, IInv, TypeOK, RequestState
<1>3. d \in Contents /\ SoundIn(d) /\ CoveredView(r)
  BY ViewFacts
<1>4. /\ o \in Orders
      /\ \A l \in LinesOf(o) :
            Cardinality(GivenUnits(d, l)) + Owed(r, l) = d.line[l].quantity
  BY <1>1 DEF IInv, AllocationInv
<1>5. \A l : Owed(r, l) = 0
  BY <1>1 DEF Owed
<1> HIDE DEF d, s
<1>6. /\ c \in Contents
      /\ c.alloc = d.alloc /\ c.batch = d.batch /\ c.line = d.line
      /\ \A p \in Orders \ {o} : c.order[p] = d.order[p]
      /\ c.order[o].status = "allocated"
  <2> HIDE DEF o
  <2> QED BY <1>3, <1>4, CloseAllocationEffect
<1> HIDE DEF c
<1>7. SoundIn(c)
  BY <1>3, <1>6, SameStockSound
<1>8. ASSUME NEW l \in Lines
      PROVE  Cardinality(GivenUnits(c, l)) =
                IF c.order[OrderOf[l]].status = "allocated" THEN c.line[l].quantity ELSE 0
  <2>1. GivenUnits(c, l) = GivenUnits(d, l)
    BY <1>6, SameUnits
  <2>2. CASE OrderOf[l] = o
    <3>1. Cardinality(GivenUnits(d, l)) + 0 = d.line[l].quantity
      BY <1>4, <1>5, <2>2 DEF LinesOf
    <3>2. Cardinality(GivenUnits(d, l)) \in Nat
      BY <1>3, FS_CardinalityType DEF SoundIn, FiniteUnits
    <3> QED
      BY <1>6, <2>1, <2>2, <3>1, <3>2
  <2>3. CASE OrderOf[l] # o
    <3>1. OrderOf[l] \in Orders
      BY AllocationAssumption
    <3>2. Cardinality(GivenUnits(d, l)) =
             IF d.order[OrderOf[l]].status = "allocated" THEN d.line[l].quantity ELSE 0
      BY <1>3, <2>3 DEF CoveredView, d
    <3> QED
      BY <1>6, <2>1, <2>3, <3>1, <3>2
  <2> QED
    BY <2>2, <2>3
<1>9. AllocationInv(r)'
  BY <1>2, Ignorant
<1> QED
  BY <1>1, <1>2, <1>6, <1>7, <1>8, <1>9, WriteStep

\* A crash loses the uncommitted pages.
LEMMA CrashStep ==
  ASSUME IInv, Crash
  PROVE  IInv'
<1>1. /\ db' = db /\ wk' = db /\ writer' = None /\ fresh' = {}
      /\ req' = [r \in Requests |-> Idle]
      /\ snap' = [r \in Requests |-> EmptyDatabase]
  BY DEF Crash, LoseAll
<1>2. TypeOK'
  <2> HIDE DEF EmptyDatabase
  <2> QED BY <1>1, IdleType, EmptyType DEF IInv, TypeOK
<1>3. LockInv'
  BY <1>1, IdleType, AllocationAssumption DEF LockInv
<1>4. SoundIn(db)' /\ SoundIn(wk)'
  <2>1. SoundIn(db') /\ SoundIn(wk')
    BY <1>1 DEF IInv
  <2> QED
    BY <2>1
<1>5. Coverage'
  BY <1>1 DEF IInv, Coverage, CoveredIn
<1>6. \A p \in Requests : AllocationInv(p)' /\ InspectionInv(p)'
  BY <1>1, IdleType, Ignorant
<1> QED
  BY <1>2, <1>3, <1>4, <1>5, <1>6 DEF IInv

\* Nothing happens.
LEMMA QuietStep ==
  ASSUME IInv, UNCHANGED vars
  PROVE  IInv'
<1>1. /\ db' = db /\ wk' = wk /\ writer' = writer /\ fresh' = fresh /\ req' = req
      /\ snap' = snap
  BY DEF vars
<1>2. TypeOK' /\ LockInv' /\ SoundIn(db)' /\ SoundIn(wk)'
  BY <1>1 DEF IInv, TypeOK, LockInv
<1>3. Coverage'
  BY <1>1 DEF IInv, Coverage, CoveredIn, InAllocation
<1>4. \A p \in Requests : AllocationInv(p)' /\ InspectionInv(p)'
  <2> TAKE p \in Requests
  <2>1. View(p)' = View(p) /\ (Live(p)' <=> Live(p))
    BY <1>1 DEF View, Live
  <2> QED
    BY <1>1, <2>1, Kept DEF IInv
<1> QED
  BY <1>2, <1>3, <1>4 DEF IInv

-----------------------------------------------------------------------------
\* IInv is an inductive invariant of Allocation.
THEOREM Inductive == Spec => []IInv
<1>1. Init => IInv
  BY InitStep
<1>2. IInv /\ [Next]_vars => IInv'
  <2> SUFFICES ASSUME IInv, [Next]_vars
               PROVE  IInv'
    OBVIOUS
  <2>1. ASSUME NEW r \in Requests, Begin(r)
        PROVE  IInv'
    <3>1. CASE RegisterBegin(r)
      BY <3>1, RegisterBeginStep
    <3>2. ASSUME NEW b \in Batches, NEW ver \in Versions, InspectBegin(r, b, ver)
          PROVE  IInv'
      BY <3>2, InspectBeginStep
    <3>3. ASSUME NEW o \in Orders, NEW input \in Wanted[o], Create(r, o, input)
          PROVE  IInv'
      BY <3>3, CreateStep
    <3>4. ASSUME NEW o \in Orders, NEW ver \in Versions, NEW at \in Times,
                 AllocateBegin(r, o, ver, at)
          PROVE  IInv'
      BY <3>4, AllocateBeginStep
    <3> QED
      BY <2>1, <3>1, <3>2, <3>3, <3>4 DEF Begin
  <2>2. ASSUME NEW r \in Requests, Progress(r)
        PROVE  IInv'
    <3>1. ASSUME NEW b \in Batches, NEW input \in Offered[b], RegisterWrite(r, b, input)
          PROVE  IInv'
      BY <3>1, RegisterWriteStep
    <3>2. ASSUME NEW b \in Batches, RegisterDuplicate(r, b)
          PROVE  IInv'
      BY <3>2, EndStep DEF RegisterDuplicate
    <3>3. ASSUME NEW b \in Batches, AllocateTake(r, b)
          PROVE  IInv'
      BY <3>3, AllocateTakeStep
    <3>4. ASSUME NEW decision \in {"approved", "rejected"}, InspectWrite(r, decision)
          PROVE  IInv'
      BY <3>4, InspectWriteStep
    <3>5. ASSUME NEW l \in Lines, AllocateLine(r, l)
          PROVE  IInv'
      BY <3>5, AllocateLineStep
    <3>6. CASE OutOfStock(r)
      BY <3>6, EndStep DEF OutOfStock
    <3>7. CASE AllocateClose(r)
      BY <3>7, AllocateCloseStep
    <3>8. CASE CommitRequest(r)
      BY <3>8, CommitStep
    <3>9. CASE Busy(r)
      BY <3>9, EndStep DEF Busy
    <3> QED
      BY <2>2, <3>1, <3>2, <3>3, <3>4, <3>5, <3>6, <3>7, <3>8, <3>9 DEF Progress
  <2>3. ASSUME NEW r \in Requests, Cancel(r)
        PROVE  IInv'
    BY <2>3, EndStep DEF Cancel
  <2>4. CASE Crash
    BY <2>4, CrashStep
  <2>5. CASE UNCHANGED vars
    BY <2>5, QuietStep
  <2> QED
    BY <2>1, <2>2, <2>3, <2>4, <2>5 DEF Next
<1> QED
  BY <1>1, <1>2, PTL DEF Spec

\* Every variable keeps its type.
THEOREM TypeCorrect == Spec => []TypeOK
<1>1. IInv => TypeOK
  BY DEF IInv
<1> QED
  BY <1>1, Inductive, PTL

\* The available quantity of a batch and the allocation rows that took from it
\* always add up to what was produced (sqlite/batches.go, allocateBatch).
THEOREM StockIsConserved == Spec => []StockConserved
<1>1. IInv => StockConserved
  BY DEF IInv, SoundIn, StockConserved
<1> QED
  BY <1>1, Inductive, PTL

\* An allocated order is covered exactly, any other order holds nothing
\* (service/orders.go, Allocate).
THEOREM AllocatedInFull == Spec => []AllOrNothing
<1>1. IInv => AllOrNothing
  BY DEF IInv, Coverage, AllOrNothing
<1> QED
  BY <1>1, Inductive, PTL

-----------------------------------------------------------------------------
\* The records.  First, field by field, what each operation writes.

\* A registration fills the row of b and starts its trail.
Registered(d, e, b, input) ==
    /\ e.batch = [d.batch EXCEPT ![b] =
                    [status |-> "registered", species |-> input.species,
                     produced |-> input.quantity, available |-> input.quantity,
                     expires |-> input.expires, version |-> 1]]
    /\ e.batchAudit = [d.batchAudit EXCEPT ![b] = Append(d.batchAudit[b], "batch.register")]
    /\ e.inspected = d.inspected /\ e.order = d.order /\ e.line = d.line
    /\ e.alloc = d.alloc /\ e.shipments = d.shipments /\ e.orderAudit = d.orderAudit

LEMMA RegisterBatchFields ==
  ASSUME NEW d \in Contents, NEW b \in Batches, NEW input \in BatchInput
  PROVE  Registered(d, RegisterBatch(d, b, input), b, input)
  BY DEF RegisterBatch, Registered, Contents

\* An inspection decides on b and keeps what b is, and every other batch.
Inspected(d, e, b, decision) ==
    /\ \A c \in Batches : /\ e.batch[c].species = d.batch[c].species
                          /\ e.batch[c].expires = d.batch[c].expires
                          /\ e.batch[c].available = d.batch[c].available
    /\ \A c \in Batches \ {b} : e.batch[c] = d.batch[c]
    /\ e.batch[b].status = IF decision = "rejected" THEN "rejected" ELSE "released"
    /\ e.inspected = [d.inspected EXCEPT ![b] = Append(d.inspected[b], decision)]
    /\ e.batchAudit = [d.batchAudit EXCEPT ![b] = Append(d.batchAudit[b], "batch.inspect")]
    /\ e.order = d.order /\ e.line = d.line
    /\ e.alloc = d.alloc /\ e.shipments = d.shipments /\ e.orderAudit = d.orderAudit

LEMMA InspectBatchFields ==
  ASSUME NEW d \in Contents, NEW b \in Batches, NEW decision \in {"approved", "rejected"}
  PROVE  Inspected(d, InspectBatch(d, b, decision), b, decision)
<1> DEFINE e == InspectBatch(d, b, decision)
           sampling == IF d.batch[b].status = "registered"
                       THEN Transition(d.batch[b], "sampling") ELSE d.batch[b]
           to == IF decision = "rejected" THEN "rejected" ELSE "released"
           row == Transition(sampling, to)
           rows == [d.batch EXCEPT ![b] = row]
           seen == [d.inspected EXCEPT ![b] = Append(d.inspected[b], decision)]
           trail == [d.batchAudit EXCEPT ![b] = Append(d.batchAudit[b], "batch.inspect")]
<1>1. e = [d EXCEPT !.batch = rows, !.inspected = seen, !.batchAudit = trail]
  BY DEF InspectBatch
<1>2. d.batch \in [Batches -> BatchRow] /\ d.batch[b] \in BatchRow
  BY DEF Contents
<1>3. /\ sampling \in BatchRow
      /\ sampling.species = d.batch[b].species
      /\ sampling.expires = d.batch[b].expires
      /\ sampling.available = d.batch[b].available
  BY <1>2, TransitionType DEF BatchStatus, Transition, BatchRow
<1>4. /\ row.species = d.batch[b].species
      /\ row.expires = d.batch[b].expires
      /\ row.available = d.batch[b].available
      /\ row.status = to
  <2> HIDE DEF sampling, to
  <2> QED BY <1>3 DEF Transition, BatchRow
<1> HIDE DEF row
<1>5. rows[b] = row /\ \A c \in Batches \ {b} : rows[c] = d.batch[c]
  BY <1>2
<1>6. /\ e.batch = rows /\ e.inspected = seen /\ e.batchAudit = trail
      /\ e.order = d.order /\ e.line = d.line
      /\ e.alloc = d.alloc /\ e.shipments = d.shipments /\ e.orderAudit = d.orderAudit
  <2> HIDE DEF e, rows, seen, trail
  <2> QED BY <1>1 DEF Contents
<1> HIDE DEF rows, e
<1>7. Inspected(d, e, b, decision)
  BY <1>4, <1>5, <1>6 DEF Inspected
<1> QED
  BY <1>7 DEF e

\* A creation confirms o, writes its lines and starts its trail.
Created(d, e, o, input) ==
    /\ e.order[o].status = "confirmed"
    /\ \A p \in Orders \ {o} : e.order[p] = d.order[p]
    /\ e.line = [l \in Lines |-> IF l \in DOMAIN input THEN input[l] ELSE d.line[l]]
    /\ e.orderAudit = [d.orderAudit EXCEPT ![o] = Append(d.orderAudit[o], "order.create")]
    /\ e.batch = d.batch /\ e.inspected = d.inspected /\ e.batchAudit = d.batchAudit
    /\ e.alloc = d.alloc /\ e.shipments = d.shipments

LEMMA CreateOrderFields ==
  ASSUME NEW d \in Contents, NEW o \in Orders, NEW input \in Wanted[o]
  PROVE  Created(d, CreateOrder(d, o, input), o, input)
<1> DEFINE e == CreateOrder(d, o, input)
           row == Transition([status |-> "draft", version |-> 1], "confirmed")
           rows == [d.order EXCEPT ![o] = row]
           lines == [l \in Lines |-> IF l \in DOMAIN input THEN input[l] ELSE d.line[l]]
           trail == [d.orderAudit EXCEPT ![o] = Append(d.orderAudit[o], "order.create")]
<1>1. e = [d EXCEPT !.order = rows, !.line = lines, !.orderAudit = trail]
  BY DEF CreateOrder
<1>2. row.status = "confirmed"
  BY DEF Transition
<1> HIDE DEF row
<1>3. rows[o].status = "confirmed" /\ \A p \in Orders \ {o} : rows[p] = d.order[p]
  BY <1>2 DEF Contents
<1> HIDE DEF rows
<1>4. /\ e.order = rows /\ e.line = lines /\ e.orderAudit = trail
      /\ e.batch = d.batch /\ e.inspected = d.inspected /\ e.batchAudit = d.batchAudit
      /\ e.alloc = d.alloc /\ e.shipments = d.shipments
  <2> HIDE DEF e, lines, trail
  <2> QED BY <1>1 DEF Contents
<1> HIDE DEF e
<1>5. Created(d, e, o, input)
  BY <1>3, <1>4 DEF Created
<1> QED
  BY <1>5 DEF e

\* A take moves n units of b to line l and keeps what b is, and all the rest.
Moved(d, e, l, b, n) ==
    /\ \A c \in Batches : /\ e.batch[c].species = d.batch[c].species
                          /\ e.batch[c].expires = d.batch[c].expires
                          /\ e.batch[c].produced = d.batch[c].produced
    /\ \A c \in Batches \ {b} : e.batch[c] = d.batch[c]
    /\ e.batch[b].available = d.batch[b].available - n
    /\ e.batch[b].status = IF d.batch[b].available = n THEN "exhausted"
                           ELSE d.batch[b].status
    /\ e.alloc = [d.alloc EXCEPT ![l] = [d.alloc[l] EXCEPT ![b] = n]]
    /\ e.inspected = d.inspected /\ e.batchAudit = d.batchAudit
    /\ e.order = d.order /\ e.line = d.line
    /\ e.shipments = d.shipments /\ e.orderAudit = d.orderAudit

LEMMA TakeFromFields ==
  ASSUME NEW d \in Contents, NEW l \in Lines, NEW b \in Batches, NEW n \in Nat
  PROVE  Moved(d, TakeFrom(d, l, b, n), l, b, n)
<1> DEFINE e == TakeFrom(d, l, b, n)
           row == AllocateBatch(d.batch[b], n)
           rows == [d.batch EXCEPT ![b] = row]
           units == [d.alloc EXCEPT ![l] = [d.alloc[l] EXCEPT ![b] = n]]
<1>1. e = [d EXCEPT !.batch = rows, !.alloc = units]
  BY DEF TakeFrom
<1>2. d.batch \in [Batches -> BatchRow] /\ d.batch[b] \in BatchRow
  BY DEF Contents
<1>3. /\ row.species = d.batch[b].species
      /\ row.expires = d.batch[b].expires
      /\ row.produced = d.batch[b].produced
      /\ row.available = d.batch[b].available - n
      /\ row.status = IF d.batch[b].available = n THEN "exhausted" ELSE d.batch[b].status
  BY <1>2 DEF AllocateBatch, BatchRow
<1> HIDE DEF row
<1>4. rows[b] = row /\ \A c \in Batches \ {b} : rows[c] = d.batch[c]
  BY <1>2
<1>5. /\ e.batch = rows /\ e.alloc = units
      /\ e.inspected = d.inspected /\ e.batchAudit = d.batchAudit
      /\ e.order = d.order /\ e.line = d.line
      /\ e.shipments = d.shipments /\ e.orderAudit = d.orderAudit
  <2> HIDE DEF e, rows, units
  <2> QED BY <1>1 DEF Contents
<1> HIDE DEF rows, e
<1>6. Moved(d, e, l, b, n)
  BY <1>3, <1>4, <1>5 DEF Moved
<1> QED
  BY <1>6 DEF e

LEMMA CloseAllocationFields ==
  ASSUME NEW d \in Contents, NEW o \in Orders
  PROVE  LET e == CloseAllocation(d, o) IN
         /\ e.order = [d.order EXCEPT ![o] = Transition(d.order[o], "allocated")]
         /\ e.shipments = d.shipments \union {o}
         /\ e.orderAudit = [d.orderAudit EXCEPT ![o] = Append(d.orderAudit[o], "order.allocate")]
         /\ e.batch = d.batch /\ e.inspected = d.inspected /\ e.batchAudit = d.batchAudit
         /\ e.alloc = d.alloc /\ e.line = d.line
  BY DEF CloseAllocation, Contents

-----------------------------------------------------------------------------
\* Then, that each operation keeps the records in order.

\* Trails of one and of two entries.
LEMMA ShortTrails ==
  ASSUME NEW x, NEW y
  PROVE  /\ Append(<<>>, x) = <<x>>
         /\ Append(<<x>>, y) = <<x, y>>
         /\ <<x>> # <<>>
<1>1. Append(<<>>, x) = <<x>> /\ <<x>> # <<>>
  OBVIOUS
<1>2. Append(<<x>>, y) = <<x, y>>
  <2> DEFINE S == {x, y}
             s == <<x>>
             t == Append(<<x>>, y)
             u == <<x, y>>
  <2>1. /\ x \in S /\ y \in S
        /\ s \in Seq(S) /\ Len(s) = 1 /\ s[1] = x
        /\ u \in Seq(S) /\ Len(u) = 2 /\ u[1] = x /\ u[2] = y
    OBVIOUS
  <2> HIDE DEF S
  <2>2. t \in Seq(S) /\ Len(t) = 2 /\ t[1] = x /\ t[2] = y
    <3> HIDE DEF s
    <3>1. t = Append(s, y)
      BY DEF s
    <3> QED
      BY <2>1, <3>1
  <2> HIDE DEF s, t, u
  <2>3. t = u
    BY <2>1, <2>2, SeqEqual
  <2> QED
    BY <2>3 DEF t, u
<1> QED
  BY <1>1, <1>2

\* A new batch starts its trail.
LEMMA RegisterBatchRecords ==
  ASSUME NEW d \in Contents, NEW b \in Batches, NEW input \in BatchInput,
         RecordsIn(d), d.batch[b].status = "absent"
  PROVE  RecordsIn(RegisterBatch(d, b, input))
<1> DEFINE e == RegisterBatch(d, b, input)
           row == [status |-> "registered", species |-> input.species,
                   produced |-> input.quantity, available |-> input.quantity,
                   expires |-> input.expires, version |-> 1]
<1>1. Registered(d, e, b, input)
  BY RegisterBatchFields
<1> HIDE DEF e
<1> USE DEF Registered
<1>2. /\ e.batch[b].status = "registered"
      /\ \A c \in Batches \ {b} : e.batch[c] = d.batch[c]
      /\ e.batchAudit[b] = <<"batch.register">>
      /\ \A c \in Batches \ {b} : e.batchAudit[c] = d.batchAudit[c]
  <2>1. d.batchAudit[b] = <<>>
    BY DEF RecordsIn, TrailIn
  <2>2. Append(<<>>, "batch.register") = <<"batch.register">>
    OBVIOUS
  <2> QED
    BY <1>1, <2>1, <2>2 DEF Contents
<1>3. d.inspected[b] = <<>>
  BY DEF RecordsIn, TrailIn
<1>4. TrailIn(e)
  <2>1. \A o \in Orders :
          /\ e.orderAudit[o] = CASE e.order[o].status = "absent"    -> <<>>
                                 [] e.order[o].status = "confirmed" -> <<"order.create">>
                                 [] e.order[o].status = "allocated" -> <<"order.create", "order.allocate">>
                                 [] OTHER -> <<"unexpected">>
          /\ (o \in e.shipments) = (e.order[o].status = "allocated")
    BY <1>1 DEF RecordsIn, TrailIn
  <2>2. ASSUME NEW c \in Batches
        PROVE  /\ e.batchAudit[c] = CASE e.batch[c].status = "absent"     -> <<>>
                                      [] e.batch[c].status = "registered" -> <<"batch.register">>
                                      [] OTHER -> <<"batch.register", "batch.inspect">>
               /\ e.inspected[c] = CASE e.batch[c].status \in {"absent", "registered"} -> <<>>
                                     [] e.batch[c].status = "rejected" -> <<"rejected">>
                                     [] OTHER -> <<"approved">>
    <3>1. CASE c = b
      BY <1>1, <1>2, <1>3, <3>1
    <3>2. CASE c # b
      BY <1>1, <1>2, <3>2 DEF RecordsIn, TrailIn
    <3> QED
      BY <3>1, <3>2
  <2> QED
    BY <2>1, <2>2 DEF TrailIn
<1>5. ReleasedIn(e)
  <2> SUFFICES ASSUME NEW l \in Lines, NEW c \in Batches, e.alloc[l][c] > 0
               PROVE  /\ e.inspected[c] = <<"approved">>
                      /\ e.batch[c].species = e.line[l].species
                      /\ e.batch[c].status =
                            IF e.batch[c].available = 0 THEN "exhausted" ELSE "released"
    BY DEF ReleasedIn
  <2>1. d.inspected[c] = <<"approved">>
    BY <1>1 DEF RecordsIn, ReleasedIn
  <2>2. c # b
    BY <1>3, <2>1, ShortTrails
  <2> QED
    BY <1>1, <1>2, <2>2 DEF RecordsIn, ReleasedIn
<1>6. \A c \in Batches : /\ e.batch[c].status # "sampling"
                         /\ e.batch[c].status = "absent" => e.batch[c] = NoBatch
  BY <1>2 DEF RecordsIn
<1>7. \A l \in Lines : e.line[l].quantity > 0 => e.line[l].species \in Species
  BY <1>1 DEF RecordsIn
<1>8. RecordsIn(e)
  BY <1>4, <1>5, <1>6, <1>7 DEF RecordsIn
<1> QED
  BY <1>8 DEF e

\* The one inspection of a batch is told once.
LEMMA InspectBatchRecords ==
  ASSUME NEW d \in Contents, NEW b \in Batches, NEW decision \in {"approved", "rejected"},
         RecordsIn(d), d.batch[b].status = "registered"
  PROVE  RecordsIn(InspectBatch(d, b, decision))
<1> DEFINE e == InspectBatch(d, b, decision)
<1>1. /\ e.batch[b].status = IF decision = "rejected" THEN "rejected" ELSE "released"
      /\ \A c \in Batches \ {b} : e.batch[c] = d.batch[c]
      /\ e.inspected = [d.inspected EXCEPT ![b] = Append(d.inspected[b], decision)]
      /\ e.batchAudit = [d.batchAudit EXCEPT ![b] = Append(d.batchAudit[b], "batch.inspect")]
      /\ e.order = d.order /\ e.line = d.line
      /\ e.alloc = d.alloc /\ e.shipments = d.shipments /\ e.orderAudit = d.orderAudit
  <2>1. Inspected(d, e, b, decision)
    BY InspectBatchFields
  <2> QED
    BY <2>1 DEF Inspected
<1> HIDE DEF e
<1>2. d.batchAudit[b] = <<"batch.register">> /\ d.inspected[b] = <<>>
  BY DEF RecordsIn, TrailIn
<1>3. /\ e.batchAudit[b] = <<"batch.register", "batch.inspect">>
      /\ e.inspected[b] = <<decision>>
      /\ \A c \in Batches \ {b} : /\ e.batchAudit[c] = d.batchAudit[c]
                                  /\ e.inspected[c] = d.inspected[c]
  <2>1. /\ Append(<<"batch.register">>, "batch.inspect") = <<"batch.register", "batch.inspect">>
        /\ Append(<<>>, decision) = <<decision>>
    BY ShortTrails
  <2> QED
    BY <1>1, <1>2, <2>1 DEF Contents
<1>4. TrailIn(e)
  <2>1. \A o \in Orders :
          /\ e.orderAudit[o] = CASE e.order[o].status = "absent"    -> <<>>
                                 [] e.order[o].status = "confirmed" -> <<"order.create">>
                                 [] e.order[o].status = "allocated" -> <<"order.create", "order.allocate">>
                                 [] OTHER -> <<"unexpected">>
          /\ (o \in e.shipments) = (e.order[o].status = "allocated")
    BY <1>1 DEF RecordsIn, TrailIn
  <2>2. ASSUME NEW c \in Batches
        PROVE  /\ e.batchAudit[c] = CASE e.batch[c].status = "absent"     -> <<>>
                                      [] e.batch[c].status = "registered" -> <<"batch.register">>
                                      [] OTHER -> <<"batch.register", "batch.inspect">>
               /\ e.inspected[c] = CASE e.batch[c].status \in {"absent", "registered"} -> <<>>
                                     [] e.batch[c].status = "rejected" -> <<"rejected">>
                                     [] OTHER -> <<"approved">>
    <3>1. CASE c = b
      BY <1>1, <1>3, <3>1
    <3>2. CASE c # b
      BY <1>1, <1>3, <3>2 DEF RecordsIn, TrailIn
    <3> QED
      BY <3>1, <3>2
  <2> QED
    BY <2>1, <2>2 DEF TrailIn
<1>5. ReleasedIn(e)
  <2> SUFFICES ASSUME NEW l \in Lines, NEW c \in Batches, e.alloc[l][c] > 0
               PROVE  /\ e.inspected[c] = <<"approved">>
                      /\ e.batch[c].species = e.line[l].species
                      /\ e.batch[c].status =
                            IF e.batch[c].available = 0 THEN "exhausted" ELSE "released"
    BY DEF ReleasedIn
  <2>1. d.inspected[c] = <<"approved">>
    BY <1>1 DEF RecordsIn, ReleasedIn
  <2>2. c # b
    BY <1>2, <2>1, ShortTrails
  <2> QED
    BY <1>1, <1>3, <2>2 DEF RecordsIn, ReleasedIn
<1>6. \A c \in Batches : /\ e.batch[c].status # "sampling"
                         /\ e.batch[c].status = "absent" => e.batch[c] = NoBatch
  BY <1>1 DEF RecordsIn
<1>7. \A l \in Lines : e.line[l].quantity > 0 => e.line[l].species \in Species
  BY <1>1 DEF RecordsIn
<1>8. RecordsIn(e)
  BY <1>4, <1>5, <1>6, <1>7 DEF RecordsIn
<1> QED
  BY <1>8 DEF e

\* A new order starts its trail, and no unit was given to its lines before.
LEMMA CreateOrderRecords ==
  ASSUME NEW d \in Contents, NEW o \in Orders, NEW input \in Wanted[o],
         RecordsIn(d), d.order[o].status = "absent",
         \A l \in LinesOf(o), b \in Batches : d.alloc[l][b] = 0
  PROVE  RecordsIn(CreateOrder(d, o, input))
<1> DEFINE e == CreateOrder(d, o, input)
<1>1. Created(d, e, o, input)
  BY CreateOrderFields
<1> HIDE DEF e
<1> USE DEF Created
<1>2. d.orderAudit[o] = <<>> /\ o \notin d.shipments
  BY DEF RecordsIn, TrailIn
<1>3. /\ e.orderAudit[o] = <<"order.create">>
      /\ \A p \in Orders \ {o} : e.orderAudit[p] = d.orderAudit[p]
  <2>1. Append(<<>>, "order.create") = <<"order.create">>
    OBVIOUS
  <2> QED
    BY <1>1, <1>2, <2>1 DEF Contents
<1>4. TrailIn(e)
  <2>1. ASSUME NEW p \in Orders
        PROVE  /\ e.orderAudit[p] =
                     CASE e.order[p].status = "absent"    -> <<>>
                       [] e.order[p].status = "confirmed" -> <<"order.create">>
                       [] e.order[p].status = "allocated" -> <<"order.create", "order.allocate">>
                       [] OTHER -> <<"unexpected">>
               /\ (p \in e.shipments) = (e.order[p].status = "allocated")
    <3>1. CASE p = o
      BY <1>1, <1>2, <1>3, <3>1
    <3>2. CASE p # o
      BY <1>1, <1>3, <3>2 DEF RecordsIn, TrailIn
    <3> QED
      BY <3>1, <3>2
  <2> QED
    BY <1>1, <2>1 DEF RecordsIn, TrailIn
<1>5. /\ DOMAIN input \subseteq LinesOf(o)
      /\ \A l \in DOMAIN input : input[l] \in LineInput
  BY AllocationAssumption
<1>6. ReleasedIn(e)
  <2> SUFFICES ASSUME NEW l \in Lines, NEW b \in Batches, e.alloc[l][b] > 0
               PROVE  /\ e.inspected[b] = <<"approved">>
                      /\ e.batch[b].species = e.line[l].species
                      /\ e.batch[b].status =
                            IF e.batch[b].available = 0 THEN "exhausted" ELSE "released"
    BY DEF ReleasedIn
  <2>1. l \notin DOMAIN input
    BY <1>1, <1>5
  <2>2. e.line[l] = d.line[l]
    BY <1>1, <2>1
  <2> QED
    BY <1>1, <2>2 DEF RecordsIn, ReleasedIn
<1>7. \A l \in Lines : e.line[l].quantity > 0 => e.line[l].species \in Species
  <2> TAKE l \in Lines
  <2>1. CASE l \in DOMAIN input
    BY <1>1, <1>5, <2>1 DEF LineInput
  <2>2. CASE l \notin DOMAIN input
    BY <1>1, <2>2 DEF RecordsIn
  <2> QED
    BY <2>1, <2>2
<1> QED
  BY <1>1, <1>4, <1>6, <1>7 DEF RecordsIn, e

\* A take from a released batch of the line's species.
LEMMA TakeFromRecords ==
  ASSUME NEW d \in Contents, NEW l \in Lines, NEW b \in Batches, NEW n \in Nat,
         RecordsIn(d), n <= d.batch[b].available, n > 0,
         d.batch[b].status = "released", d.batch[b].species = d.line[l].species
  PROVE  RecordsIn(TakeFrom(d, l, b, n))
<1> DEFINE e == TakeFrom(d, l, b, n)
<1>1. Moved(d, e, l, b, n)
  BY TakeFromFields
<1> HIDE DEF e
<1> USE DEF Moved
<1>2. d.batch[b].available \in Nat
  BY DEF Contents, BatchRow
<1>3. /\ d.inspected[b] = <<"approved">>
      /\ d.batchAudit[b] = <<"batch.register", "batch.inspect">>
  BY DEF RecordsIn, TrailIn
<1>4. TrailIn(e)
  <2>1. ASSUME NEW c \in Batches
        PROVE  /\ e.batchAudit[c] = CASE e.batch[c].status = "absent"     -> <<>>
                                      [] e.batch[c].status = "registered" -> <<"batch.register">>
                                      [] OTHER -> <<"batch.register", "batch.inspect">>
               /\ e.inspected[c] = CASE e.batch[c].status \in {"absent", "registered"} -> <<>>
                                     [] e.batch[c].status = "rejected" -> <<"rejected">>
                                     [] OTHER -> <<"approved">>
    <3>1. CASE c = b
      BY <1>1, <1>3, <3>1
    <3>2. CASE c # b
      BY <1>1, <3>2 DEF RecordsIn, TrailIn
    <3> QED
      BY <3>1, <3>2
  <2>2. \A o \in Orders :
          /\ e.orderAudit[o] = CASE e.order[o].status = "absent"    -> <<>>
                                 [] e.order[o].status = "confirmed" -> <<"order.create">>
                                 [] e.order[o].status = "allocated" -> <<"order.create", "order.allocate">>
                                 [] OTHER -> <<"unexpected">>
          /\ (o \in e.shipments) = (e.order[o].status = "allocated")
    BY <1>1 DEF RecordsIn, TrailIn
  <2> QED
    BY <2>1, <2>2 DEF TrailIn
<1>5. ReleasedIn(e)
  <2> SUFFICES ASSUME NEW k \in Lines, NEW c \in Batches, e.alloc[k][c] > 0
               PROVE  /\ e.inspected[c] = <<"approved">>
                      /\ e.batch[c].species = e.line[k].species
                      /\ e.batch[c].status =
                            IF e.batch[c].available = 0 THEN "exhausted" ELSE "released"
    BY DEF ReleasedIn
  <2>1. e.batch[b].status = IF e.batch[b].available = 0 THEN "exhausted" ELSE "released"
    BY <1>1, <1>2
  <2>2. CASE k = l /\ c = b
    BY <1>1, <1>3, <2>1, <2>2
  <2>3. CASE ~(k = l /\ c = b)
    <3>1. e.alloc[k][c] = d.alloc[k][c]
      BY <1>1, <2>3 DEF Contents
    <3>2. /\ d.inspected[c] = <<"approved">>
          /\ d.batch[c].species = d.line[k].species
          /\ d.batch[c].status = IF d.batch[c].available = 0 THEN "exhausted" ELSE "released"
      BY <3>1 DEF RecordsIn, ReleasedIn
    <3> QED
      BY <1>1, <2>1, <3>2
  <2> QED
    BY <2>2, <2>3
<1>6. \A c \in Batches : /\ e.batch[c].status # "sampling"
                         /\ e.batch[c].status = "absent" => e.batch[c] = NoBatch
  BY <1>1 DEF RecordsIn
<1>7. \A k \in Lines : e.line[k].quantity > 0 => e.line[k].species \in Species
  BY <1>1 DEF RecordsIn
<1>8. RecordsIn(e)
  BY <1>4, <1>5, <1>6, <1>7 DEF RecordsIn
<1> QED
  BY <1>8 DEF e

\* A confirmed order is closed once.
LEMMA CloseAllocationRecords ==
  ASSUME NEW d \in Contents, NEW o \in Orders,
         RecordsIn(d), d.order[o].status = "confirmed"
  PROVE  RecordsIn(CloseAllocation(d, o))
<1> DEFINE e == CloseAllocation(d, o)
<1>1. /\ e.order = [d.order EXCEPT ![o] = Transition(d.order[o], "allocated")]
      /\ e.shipments = d.shipments \union {o}
      /\ e.orderAudit = [d.orderAudit EXCEPT ![o] = Append(d.orderAudit[o], "order.allocate")]
      /\ e.batch = d.batch /\ e.inspected = d.inspected /\ e.batchAudit = d.batchAudit
      /\ e.alloc = d.alloc /\ e.line = d.line
  BY CloseAllocationFields
<1> HIDE DEF e
<1>2. d.order \in [Orders -> OrderRow] /\ d.order[o] \in OrderRow
  BY DEF Contents
<1>3. Transition(d.order[o], "allocated").status = "allocated"
  BY <1>2, OrderTransitionType DEF OrderStatus
<1>4. e.order[o].status = "allocated" /\ \A p \in Orders \ {o} : e.order[p] = d.order[p]
  BY <1>1, <1>2, <1>3
<1>5. d.orderAudit[o] = <<"order.create">>
  BY DEF RecordsIn, TrailIn
<1>6. /\ e.orderAudit[o] = <<"order.create", "order.allocate">>
      /\ \A p \in Orders \ {o} : e.orderAudit[p] = d.orderAudit[p]
  <2>1. Append(<<"order.create">>, "order.allocate") = <<"order.create", "order.allocate">>
    BY ShortTrails
  <2> QED
    BY <1>1, <1>5, <2>1 DEF Contents
<1>7. TrailIn(e)
  <2>1. ASSUME NEW p \in Orders
        PROVE  /\ e.orderAudit[p] =
                     CASE e.order[p].status = "absent"    -> <<>>
                       [] e.order[p].status = "confirmed" -> <<"order.create">>
                       [] e.order[p].status = "allocated" -> <<"order.create", "order.allocate">>
                       [] OTHER -> <<"unexpected">>
               /\ (p \in e.shipments) = (e.order[p].status = "allocated")
    <3>1. CASE p = o
      BY <1>1, <1>4, <1>6, <3>1
    <3>2. CASE p # o
      BY <1>1, <1>4, <1>6, <3>2 DEF RecordsIn, TrailIn
    <3> QED
      BY <3>1, <3>2
  <2> QED
    BY <1>1, <2>1 DEF RecordsIn, TrailIn
<1>8. ReleasedIn(e)
  BY <1>1 DEF RecordsIn, ReleasedIn
<1> QED
  BY <1>1, <1>7, <1>8 DEF RecordsIn, e

-----------------------------------------------------------------------------
\* The second invariant, step by step.

\* What a request sees is in order.
LEMMA RecordsView ==
  ASSUME CommitInv, NEW r
  PROVE  RecordsIn(View(r))
  BY DEF CommitInv, View

\* A request that may begin a write now works on the committed contents.
LEMMA FreshView ==
  ASSUME IInv, NEW r \in Requests, CanWrite(r), req[r].pc \in {"registering", "inspecting"}
  PROVE  writer = None /\ View(r) = db /\ Live(r)
  BY AllocationAssumption DEF CanWrite, View, Live, IInv, LockInv

\* No unit was given to the lines of an order that is not allocated.
LEMMA NothingGiven ==
  ASSUME IInv, NEW o \in Orders, db.order[o].status # "allocated"
  PROVE  \A l \in LinesOf(o), b \in Batches : db.alloc[l][b] = 0
<1> SUFFICES ASSUME NEW l \in LinesOf(o)
             PROVE  \A b \in Batches : db.alloc[l][b] = 0
  OBVIOUS
<1>1. l \in Lines /\ OrderOf[l] = o
  BY DEF LinesOf
<1>2. Cardinality(GivenUnits(db, l)) = 0
  BY <1>1 DEF IInv, Coverage, CoveredIn
<1>3. IsFiniteSet(Units(db.alloc[l])) /\ db.alloc[l] \in [Batches -> Nat]
  BY <1>1 DEF IInv, SoundIn, FiniteUnits, TypeOK, Contents, GivenUnits
<1> QED
  BY <1>2, <1>3, ZeroOfUnits DEF GivenUnits

\* A step that leaves p alone and replaces nothing p reads keeps what p knows.
LEMMA KeptVersion ==
  ASSUME NEW p, VersionInv(p), PageInv(p), req'[p] = req[p], db' = db,
         Live(p)' => (Live(p) /\ View(p)' = View(p))
  PROVE  VersionInv(p)' /\ PageInv(p)'
<1>1. VersionInv(p)'
  BY DEF VersionInv
<1>2. CASE ~(req[p].pc = "allocating" /\ Live(p))
  BY <1>1, <1>2 DEF PageInv
<1>3. CASE Live(p)' /\ Live(p) /\ req[p].pc = "allocating"
  <2>1. UsableForLine(p)' = UsableForLine(p) /\ (OnOnePage(p)' <=> OnOnePage(p))
    BY <1>3 DEF UsableForLine, OnOnePage, Snapshot, Seen
  <2> QED
    BY <1>1, <1>3, <2>1 DEF PageInv
<1>4. CASE ~Live(p)'
  BY <1>1, <1>4 DEF PageInv
<1> QED
  BY <1>2, <1>3, <1>4

\* A request that is not live, or idle, knows nothing.
LEMMA KnowsNothing ==
  ASSUME NEW p, req'[p] = Idle \/ (~Live(p)' /\ req'[p].pc # "registering")
  PROVE  VersionInv(p)' /\ PageInv(p)'
  BY DEF VersionInv, PageInv, Idle

\* A step of r that leaves the committed contents alone.
LEMMA StepOfOne ==
  ASSUME IInv, CommitInv, NEW r \in Requests, NEW s, Become(r, s), db' = db,
         \A p \in Requests \ {r} : Live(p)' => (Live(p) /\ View(p)' = View(p)),
         VersionInv(r)' /\ PageInv(r)',
         RecordsIn(wk'), WriterInv'
  PROVE  CommitInv'
<1>1. \A p \in Requests \ {r} : req'[p] = req[p]
  BY DEF Become, IInv, TypeOK
<1>2. \A p \in Requests : VersionInv(p)' /\ PageInv(p)'
  <2> TAKE p \in Requests
  <2>1. CASE p = r
    BY <2>1
  <2>2. CASE p # r
    BY <1>1, <2>2, KeptVersion DEF CommitInv
  <2> QED
    BY <2>1, <2>2
<1>3. RecordsIn(db') /\ RecordsIn(wk')
  BY DEF CommitInv
<1> QED
  BY <1>2, <1>3 DEF CommitInv

\* A transaction that ends without a commit.
LEMMA EndCommitStep ==
  ASSUME IInv, CommitInv, NEW r \in Requests, Rollback(r), Become(r, Idle)
  PROVE  CommitInv'
<1>1. r # None /\ db' = db /\ req'[r] = Idle /\ \A p \in Requests \ {r} : req'[p] = req[p]
  BY AllocationAssumption DEF Rollback, Become, IInv, TypeOK
<1>2. \A p \in Requests \ {r} : Live(p)' => (Live(p) /\ View(p)' = View(p))
  BY <1>1, AllocationAssumption DEF Live, View, Rollback
<1>3. VersionInv(r)' /\ PageInv(r)'
  BY <1>1, KnowsNothing
<1>4. RecordsIn(wk')
  BY DEF CommitInv, Rollback
<1>5. WriterInv'
  <2>1. CASE writer = r
    BY <2>1 DEF Rollback, WriterInv
  <2>2. CASE writer # r
    <3>1. writer' = writer /\ wk' = wk /\ (writer # None => req'[writer] = req[writer])
      BY <1>1, <2>2 DEF Rollback, IInv, TypeOK
    <3> QED
      BY <1>1, <3>1 DEF CommitInv, WriterInv
  <2> QED
    BY <2>1, <2>2
<1> QED
  BY <1>1, <1>2, <1>3, <1>4, <1>5, StepOfOne

\* A transaction whose first read fixes its snapshot.
LEMMA ReadCommitStep ==
  ASSUME IInv, CommitInv, NEW r \in Requests, NEW s, req[r].pc = "idle",
         Read(r), Become(r, s), VersionInv(r)' /\ PageInv(r)'
  PROVE  CommitInv'
<1>1. r # None /\ writer # r
  BY AllocationAssumption DEF IInv, LockInv
<1>2. db' = db /\ wk' = wk /\ writer' = writer /\ fresh' = fresh \union {r}
  BY DEF Read
<1>3. \A p \in Requests \ {r} : req'[p] = req[p]
  BY DEF Become, IInv, TypeOK
<1>4. \A p \in Requests \ {r} : Live(p)' => (Live(p) /\ View(p)' = View(p))
  BY <1>2 DEF Live, View
<1>5. RecordsIn(wk')
  BY <1>2 DEF CommitInv
<1>6. WriterInv'
  <2>1. writer # None => req'[writer] = req[writer]
    BY <1>1, <1>3 DEF IInv, TypeOK
  <2> QED
    BY <1>2, <2>1 DEF CommitInv, WriterInv
<1> QED
  BY <1>2, <1>4, <1>5, <1>6, StepOfOne

\* A transaction that writes contents c.
LEMMA WriteCommitStep ==
  ASSUME IInv, CommitInv, NEW r \in Requests, NEW s, NEW c,
         writer \in {None, r}, writer' = r, wk' = c, db' = db, fresh' = fresh,
         Become(r, s), RecordsIn(c), WrittenBy(s, db, c), VersionInv(r)' /\ PageInv(r)'
  PROVE  CommitInv'
<1>1. req'[r] = s
  BY DEF Become, IInv, TypeOK
<1>2. \A p \in Requests \ {r} : Live(p)' => (Live(p) /\ View(p)' = View(p))
  BY AllocationAssumption DEF Live, View
<1>3. WriterInv'
  BY <1>1 DEF WriterInv
<1> QED
  BY <1>2, <1>3, StepOfOne

\* A commit: the pages that were in order are the contents now, and whatever
\* another request read has become stale.
LEMMA CommitCommitStep ==
  ASSUME IInv, CommitInv, NEW r \in Requests, CommitRequest(r)
  PROVE  CommitInv'
<1>1. /\ db' = wk /\ wk' = wk /\ writer' = None /\ fresh' = {}
      /\ req'[r] = Idle /\ \A p \in Requests \ {r} : req'[p] = req[p]
  BY DEF CommitRequest, Commit, Become, IInv, TypeOK
<1>2. RecordsIn(db') /\ RecordsIn(wk')
  BY <1>1 DEF CommitInv
<1>3. WriterInv'
  BY <1>1 DEF WriterInv
<1>4. \A p \in Requests : VersionInv(p)' /\ PageInv(p)'
  <2> TAKE p \in Requests
  <2>1. ~Live(p)'
    BY <1>1, AllocationAssumption DEF Live
  <2>2. req'[p].pc = "registering" => req'[p].ver = 0
    <3>1. CASE p = r
      BY <1>1, <3>1 DEF Idle
    <3>2. CASE p # r
      BY <1>1, <3>2 DEF CommitInv, VersionInv
    <3> QED
      BY <3>1, <3>2
  <2> QED
    BY <2>1, <2>2 DEF VersionInv, PageInv
<1> QED
  BY <1>2, <1>3, <1>4 DEF CommitInv

\* The empty database has nothing to contradict.
LEMMA InitCommitStep ==
  ASSUME Init
  PROVE  CommitInv
<1>1. /\ db = EmptyDatabase /\ wk = EmptyDatabase /\ writer = None /\ fresh = {}
      /\ req = [r \in Requests |-> Idle]
  BY DEF Init, StartStore
<1>2. /\ \A o \in Orders : /\ EmptyDatabase.order[o].status = "absent"
                           /\ EmptyDatabase.orderAudit[o] = <<>>
      /\ EmptyDatabase.shipments = {}
      /\ \A b \in Batches : /\ EmptyDatabase.batch[b] = NoBatch
                            /\ EmptyDatabase.batch[b].status = "absent"
                            /\ EmptyDatabase.batchAudit[b] = <<>>
                            /\ EmptyDatabase.inspected[b] = <<>>
      /\ \A l \in Lines : /\ EmptyDatabase.line[l].quantity = 0
                          /\ \A b \in Batches : EmptyDatabase.alloc[l][b] = 0
  BY DEF EmptyDatabase, NoOrder, NoBatch, NoLine
<1>3. RecordsIn(EmptyDatabase)
  <2> HIDE DEF EmptyDatabase
  <2>1. TrailIn(EmptyDatabase)
    BY <1>2 DEF TrailIn
  <2>2. ReleasedIn(EmptyDatabase)
    BY <1>2 DEF ReleasedIn
  <2> QED
    BY <1>2, <2>1, <2>2 DEF RecordsIn
<1>4. WriterInv
  BY <1>1 DEF WriterInv
<1>5. \A r \in Requests : VersionInv(r) /\ PageInv(r)
  <2> TAKE r \in Requests
  <2>1. req[r].ver = 0 /\ req[r].pc = "idle"
    BY <1>1 DEF Idle
  <2> QED
    BY <2>1 DEF VersionInv, PageInv
<1> QED
  BY <1>1, <1>3, <1>4, <1>5 DEF CommitInv

-----------------------------------------------------------------------------
\* What an allocation draws.

\* The seconds of two rows can be compared.
LEMMA SecondType ==
  ASSUME NEW t \in Nat
  PROVE  Second(t) \in Nat
<1>1. TicksPerSecond \in Nat \ {0}
  BY FracAssumption
<1> HIDE DEF TicksPerSecond
<1> QED
  BY <1>1 DEF Second

\* No text is before itself.
LEMMA TextIrreflexive ==
  ASSUME NEW t \in Nat
  PROVE  ~TextLess(t, t)
<1>1. ASSUME NEW i \in 1..FracDigits
      PROVE  Char(t, i) \in Nat
  <2> DEFINE k == FracDigits - i
             power == FracBase ^ k
             rest == t % TicksPerSecond
  <2>1. FracBase \in Nat \ {0} /\ TicksPerSecond \in Nat \ {0} /\ k \in 0..FracDigits
    BY FracAssumption
  <2>2. power \in Nat \ {0}
    <3> HIDE DEF k
    <3> QED
      BY <2>1, FracAssumption
  <2>3. rest \in Nat
    <3> HIDE DEF TicksPerSecond
    <3> QED
      BY <2>1
  <2>4. Digit(t, i) = (rest \div power) % FracBase
    BY DEF Digit
  <2> HIDE DEF power, rest
  <2>5. rest \div power \in Nat
    BY <2>2, <2>3
  <2>6. Digit(t, i) \in Nat
    BY <2>1, <2>4, <2>5
  <2> QED
    BY <2>1, <2>6 DEF Char
<1>2. Second(t) \in Nat
  BY SecondType
<1> QED
  BY <1>1, <1>2 DEF TextLess

\* A page cuts off only what expires in no earlier second than anything on it.
LEMMA FirstPageFirst ==
  ASSUME NEW d \in Contents, NEW species,
         NEW b \in FirstPage(d, species), NEW c \in Listed(d, species) \ FirstPage(d, species)
  PROVE  Second(d.batch[b].expires) <= Second(d.batch[c].expires)
<1> SUFFICES ASSUME ~(Second(d.batch[b].expires) <= Second(d.batch[c].expires))
             PROVE  FALSE
  OBVIOUS
<1> DEFINE sec(x) == Second(d.batch[x].expires)
           before(x) == {y \in Listed(d, species) : Precedes(d, y, x)}
<1>1. \A x \in Batches : sec(x) \in Nat
  BY SecondType DEF Contents, BatchRow
<1>2. b \in Batches /\ c \in Batches
  BY DEF FirstPage, Listed
<1>3. sec(c) < sec(b)
  BY <1>1, <1>2
<1>4. before(c) \subseteq before(b)
  <2> SUFFICES ASSUME NEW y \in Listed(d, species), Precedes(d, y, c)
               PROVE  Precedes(d, y, b)
    OBVIOUS
  <2>1. y \in Batches
    BY DEF Listed
  <2>2. sec(y) <= sec(c)
    BY <1>1, <1>2, <2>1 DEF Precedes, TextLess
  <2>3. sec(y) < sec(b)
    BY <1>1, <1>2, <1>3, <2>1, <2>2
  <2> QED
    BY <2>3 DEF Precedes, TextLess
<1>5. IsFiniteSet(before(b))
  BY AllocationAssumption, FS_Subset DEF Listed
<1>6. /\ Cardinality(before(c)) <= Cardinality(before(b))
      /\ Cardinality(before(b)) \in Nat /\ Cardinality(before(c)) \in Nat
  BY <1>4, <1>5, FS_Subset, FS_CardinalityType
<1>7. Cardinality(before(b)) < PageSize /\ ~(Cardinality(before(c)) < PageSize)
  BY DEF FirstPage
<1> QED
  <2> HIDE DEF before
  <2> QED BY <1>6, <1>7, AllocationAssumption

\* Before its first take an allocation has drawn nothing.
LEMMA DrawnNothing ==
  ASSUME IInv, NEW o \in Orders, NEW at, db.order[o].status = "confirmed"
  PROVE  Drawn(db, db, o, at)
<1>1. \A l \in LinesOf(o), b \in Batches : db.alloc[l][b] = 0
  BY NothingGiven
<1> QED
  BY <1>1 DEF Drawn

\* What an allocation whose snapshot is the newest has drawn so far.
LEMMA DrawnSoFar ==
  ASSUME IInv, CommitInv, NEW r \in Requests, req[r].pc = "allocating", Live(r)
  PROVE  /\ req[r].on \in Orders
         /\ db.order[req[r].on].status = "confirmed"
         /\ Drawn(db, View(r), req[r].on, req[r].at)
         /\ View(r).order = db.order
<1>1. req[r].on \in Orders
  BY DEF IInv, AllocationInv
<1>2. db.order[req[r].on].status = "confirmed"
  BY <1>1 DEF CommitInv, PageInv
<1>3. CASE writer = r
  <2>1. WrittenBy(req[r], db, wk) /\ View(r) = wk
    BY <1>3, AllocationAssumption DEF CommitInv, WriterInv, View
  <2> QED
    BY <1>1, <1>2, <2>1 DEF WrittenBy
<1>4. CASE writer # r
  <2>1. View(r) = db
    BY <1>4 DEF View
  <2> QED
    BY <1>1, <1>2, <2>1, DrawnNothing
<1> QED
  BY <1>3, <1>4

\* One take from the stock that goes first.
LEMMA TakeDrawn ==
  ASSUME NEW d, NEW v \in Contents, NEW o, NEW at, NEW k \in LinesOf(o), NEW b \in Batches,
         NEW n \in Nat, n > 0, n <= v.batch[b].available,
         Drawn(d, v, o, at), v.batch[b].status = "released",
         v.batch[b].species = v.line[k].species, v.batch[b].expires > at,
         \A c \in Batches : GoesFirst(d, c, b, at) => v.batch[c].available = 0
  PROVE  Drawn(d, TakeFrom(v, k, b, n), o, at)
<1> DEFINE e == TakeFrom(v, k, b, n)
<1>1. k \in Lines
  BY DEF LinesOf
<1>2. v.batch[b].available \in Nat /\ v.alloc \in [Lines -> [Batches -> Nat]]
  BY DEF Contents, BatchRow
<1>3. Moved(v, e, k, b, n)
  BY <1>1, TakeFromFields
<1> HIDE DEF e
<1> USE DEF Moved
<1>4. d.batch[b].status = "released"
  BY DEF Drawn
<1>5. /\ e.line = d.line
      /\ \A l \in Lines \ LinesOf(o) : e.alloc[l] = d.alloc[l]
      /\ \A l \in LinesOf(o), c \in Batches : d.alloc[l][c] = 0
  BY <1>2, <1>3 DEF Drawn
<1>6. ASSUME NEW c \in Batches
      PROVE  /\ e.batch[c].species = d.batch[c].species
             /\ e.batch[c].produced = d.batch[c].produced
             /\ e.batch[c].expires = d.batch[c].expires
             /\ \/ e.batch[c].status = d.batch[c].status
                \/ /\ d.batch[c].status = "released" /\ e.batch[c].status = "exhausted"
                   /\ e.batch[c].available = 0
  <2>1. CASE c = b
    BY <1>2, <1>3, <1>4, <2>1 DEF Drawn
  <2>2. CASE c # b
    BY <1>3, <2>2 DEF Drawn
  <2> QED
    BY <2>1, <2>2
<1>7. ASSUME NEW l \in LinesOf(o), NEW c \in Batches, e.alloc[l][c] > 0
      PROVE  /\ d.batch[c].status = "released"
             /\ d.batch[c].species = d.line[l].species
             /\ d.batch[c].expires > at
             /\ \A f \in Batches : GoesFirst(d, f, c, at) => e.batch[f].available = 0
  <2>1. \A f \in Batches : v.batch[f].available = 0 => e.batch[f].available = 0
    BY <1>2, <1>3
  <2>2. CASE l = k /\ c = b
    BY <1>4, <2>1, <2>2 DEF Drawn
  <2>3. CASE ~(l = k /\ c = b)
    <3>1. l \in Lines
      BY DEF LinesOf
    <3>2. e.alloc[l][c] = v.alloc[l][c]
      BY <1>1, <1>2, <1>3, <2>3, <3>1
    <3> QED
      BY <1>7, <2>1, <3>2 DEF Drawn
  <2> QED
    BY <2>2, <2>3
<1>8. Drawn(d, e, o, at)
  BY <1>5, <1>6, <1>7 DEF Drawn
<1> QED
  BY <1>8 DEF e

-----------------------------------------------------------------------------
\* One lemma per action for the second invariant.

\* Register, first read.
LEMMA RegisterBeginCommitStep ==
  ASSUME IInv, CommitInv, NEW r \in Requests, RegisterBegin(r)
  PROVE  CommitInv'
<1> DEFINE s == [Idle EXCEPT !.pc = "registering"]
<1>1. s.pc = "registering" /\ s.ver = 0
  BY DEF Idle
<1>2. req'[r] = s
  BY DEF RegisterBegin, Become, IInv, TypeOK
<1>3. VersionInv(r)' /\ PageInv(r)'
  BY <1>1, <1>2 DEF VersionInv, PageInv
<1> QED
  <2> HIDE DEF s
  <2> QED BY <1>3, ReadCommitStep DEF RegisterBegin, s

\* Register, the writes: the pages are those of a registration.
LEMMA RegisterWriteCommitStep ==
  ASSUME IInv, CommitInv, NEW r \in Requests, NEW b \in Batches, NEW input \in Offered[b],
         RegisterWrite(r, b, input)
  PROVE  CommitInv'
<1> DEFINE s == [req[r] EXCEPT !.pc = "committing", !.on = b]
           c == RegisterBatch(View(r), b, input)
<1>1. req[r].pc = "registering" /\ req[r] \in RequestState /\ req'[r] = s
  BY DEF RegisterWrite, Become, IInv, TypeOK
<1>2. s.pc = "committing" /\ s.on = b /\ s.ver = 0
  BY <1>1 DEF CommitInv, VersionInv, RequestState
<1>3. /\ writer \in {None, r} /\ writer' = r /\ wk' = c /\ db' = db /\ fresh' = fresh
      /\ Become(r, s) /\ CanWrite(r)
      /\ View(r).batch[b].status = "absent"
  BY DEF RegisterWrite, Write, CanWrite
<1>4. View(r) = db /\ db \in Contents
  BY <1>1, <1>3, FreshView DEF IInv, TypeOK
<1>5. RecordsIn(c)
  BY <1>3, <1>4, AllocationAssumption, RegisterBatchRecords DEF CommitInv
<1>6. WrittenBy(s, db, c)
  <2> HIDE DEF s
  <2> QED BY <1>2, <1>3, <1>4 DEF WrittenBy
<1>7. VersionInv(r)' /\ PageInv(r)'
  BY <1>1, <1>2 DEF VersionInv, PageInv
<1> QED
  <2> HIDE DEF c, s
  <2> QED BY <1>3, <1>5, <1>6, <1>7, WriteCommitStep

\* Inspect, the read: the version the client sent is the row's.
LEMMA InspectBeginCommitStep ==
  ASSUME IInv, CommitInv, NEW r \in Requests, NEW b \in Batches, NEW ver \in Versions,
         InspectBegin(r, b, ver)
  PROVE  CommitInv'
<1> DEFINE s == [Idle EXCEPT !.pc = "inspecting", !.on = b, !.ver = ver]
<1>1. s.pc = "inspecting" /\ s.ver = ver /\ s.on = b
  BY DEF Idle
<1>2. req'[r] = s /\ db' = db /\ db.batch[b].version = ver
  BY DEF InspectBegin, Become, Read, IInv, TypeOK
<1>3. b \notin Orders
  BY AllocationAssumption
<1> HIDE DEF s
<1>4. VersionInv(r)' /\ PageInv(r)'
  BY <1>1, <1>2, <1>3 DEF VersionInv, PageInv
<1> QED
  BY <1>4, ReadCommitStep DEF InspectBegin, s

\* Inspect, the writes: the version is still the row's.
LEMMA InspectWriteCommitStep ==
  ASSUME IInv, CommitInv, NEW r \in Requests, NEW decision \in {"approved", "rejected"},
         InspectWrite(r, decision)
  PROVE  CommitInv'
<1> DEFINE s == [req[r] EXCEPT !.pc = "committing"]
           b == req[r].on
           c == InspectBatch(View(r), b, decision)
<1>1. req[r].pc = "inspecting" /\ req[r] \in RequestState /\ req'[r] = s
  BY DEF InspectWrite, Become, IInv, TypeOK
<1>2. s.pc = "committing" /\ s.on = b /\ s.ver = req[r].ver
  BY <1>1 DEF RequestState
<1>3. /\ writer \in {None, r} /\ writer' = r /\ wk' = c /\ db' = db /\ fresh' = fresh
      /\ Become(r, s) /\ CanWrite(r)
  BY DEF InspectWrite, Write, CanWrite
<1>4. View(r) = db /\ Live(r) /\ db \in Contents
  BY <1>1, <1>3, FreshView DEF IInv, TypeOK
<1>5. b \in Batches /\ db.batch[b].status = "registered"
  BY <1>1, <1>4 DEF IInv, InspectionInv, CommitInv, RecordsIn
<1>6. RecordsIn(c)
  <2> HIDE DEF b
  <2> QED BY <1>4, <1>5, InspectBatchRecords DEF CommitInv
<1>7. WrittenBy(s, db, c)
  <2> HIDE DEF s, b
  <2> QED BY <1>2, <1>4, <1>5 DEF WrittenBy
<1>8. VersionInv(r)' /\ PageInv(r)'
  BY <1>1, <1>2, <1>3, <1>4 DEF CommitInv, VersionInv, PageInv
<1> QED
  <2> HIDE DEF c, s
  <2> QED BY <1>3, <1>6, <1>7, <1>8, WriteCommitStep

\* Create, whose first statement is a write.
LEMMA CreateCommitStep ==
  ASSUME IInv, CommitInv, NEW r \in Requests, NEW o \in Orders, NEW input \in Wanted[o],
         Create(r, o, input)
  PROVE  CommitInv'
<1> DEFINE s == [Idle EXCEPT !.pc = "committing", !.on = o]
           c == CreateOrder(db, o, input)
<1>1. req'[r] = s
  BY DEF Create, Become, IInv, TypeOK
<1>2. s.pc = "committing" /\ s.on = o /\ s.ver = 0
  BY DEF Idle
<1>3. /\ writer \in {None, r} /\ writer' = r /\ wk' = c /\ db' = db /\ fresh' = fresh
      /\ Become(r, s) /\ db.order[o].status = "absent"
  BY DEF Create, WriteFirst
<1>4. \A l \in LinesOf(o), b \in Batches : db.alloc[l][b] = 0
  BY <1>3, NothingGiven
<1>5. RecordsIn(c)
  BY <1>3, <1>4, CreateOrderRecords DEF CommitInv, IInv, TypeOK
<1>6. WrittenBy(s, db, c)
  <2> HIDE DEF s
  <2> QED BY <1>2, <1>3 DEF WrittenBy
<1>7. VersionInv(r)' /\ PageInv(r)'
  BY <1>1, <1>2 DEF VersionInv, PageInv
<1> QED
  <2> HIDE DEF c, s
  <2> QED BY <1>3, <1>5, <1>6, <1>7, WriteCommitStep

\* Allocate, the read of the order.
LEMMA AllocateBeginCommitStep ==
  ASSUME IInv, CommitInv, NEW r \in Requests, NEW o \in Orders,
         NEW ver \in Versions, NEW at \in Times, AllocateBegin(r, o, ver, at)
  PROVE  CommitInv'
<1> DEFINE s == [Idle EXCEPT !.pc = "allocating", !.on = o, !.ver = ver, !.at = at,
                             !.lines = {l \in LinesOf(o) : db.line[l].quantity > 0}]
<1>1. s.pc = "allocating" /\ s.on = o /\ s.ver = ver /\ s.left = 0
  BY DEF Idle
<1>2. /\ req'[r] = s /\ db' = db
      /\ db.order[o].version = ver /\ db.order[o].status = "confirmed"
  BY DEF AllocateBegin, Become, Read, IInv, TypeOK
<1> HIDE DEF s
<1>3. VersionInv(r)' /\ PageInv(r)'
  BY <1>1, <1>2 DEF VersionInv, PageInv
<1> QED
  BY <1>3, ReadCommitStep DEF AllocateBegin, s

\* If the released batches of a species fit on a page, the page has them all.
LEMMA AllListed ==
  ASSUME NEW v \in Contents, NEW species, Cardinality(Listed(v, species)) <= PageSize
  PROVE  FirstPage(v, species) = Listed(v, species)
<1> DEFINE all == Listed(v, species)
           before(x) == {y \in all : Precedes(v, y, x)}
<1>1. IsFiniteSet(all)
  BY AllocationAssumption, FS_Subset DEF Listed
<1>2. Cardinality(all) \in Nat
  BY <1>1, FS_CardinalityType
<1>3. ASSUME NEW b \in all
      PROVE  Cardinality(before(b)) < PageSize
  <2>1. b \in Batches /\ Rank[b] \in Nat /\ v.batch[b].expires \in Nat
    BY AllocationAssumption DEF Listed, Contents, BatchRow
  <2>2. ~Precedes(v, b, b)
    BY <2>1, TextIrreflexive DEF Precedes
  <2>3. before(b) \subseteq all /\ before(b) # all
    BY <2>2
  <2> HIDE DEF all, before
  <2>4. Cardinality(before(b)) <= Cardinality(all) /\ Cardinality(before(b)) # Cardinality(all)
    BY <1>1, <2>3, FS_Subset
  <2>5. Cardinality(before(b)) \in Nat
    BY <1>1, <2>3, FS_Subset, FS_CardinalityType
  <2>6. Cardinality(all) <= PageSize
    BY DEF all
  <2> QED
    BY <1>2, <2>4, <2>5, <2>6, AllocationAssumption
<1> QED
  BY <1>3 DEF FirstPage

\* What an allocation has drawn releases no batch, so they still fit.
LEMMA WholePage ==
  ASSUME NEW d, NEW v \in Contents, NEW o, NEW at, Drawn(d, v, o, at), NEW species,
         Cardinality(Listed(d, species)) <= PageSize
  PROVE  FirstPage(v, species) = Listed(v, species)
<1>1. IsFiniteSet(Listed(d, species)) /\ IsFiniteSet(Listed(v, species))
  BY AllocationAssumption, FS_Subset DEF Listed
<1>2. Listed(v, species) \subseteq Listed(d, species)
  BY DEF Listed, Drawn
<1>3. /\ Cardinality(Listed(v, species)) \in Nat /\ Cardinality(Listed(d, species)) \in Nat
      /\ Cardinality(Listed(v, species)) <= Cardinality(Listed(d, species))
  BY <1>1, <1>2, FS_Subset, FS_CardinalityType
<1>4. Cardinality(Listed(v, species)) <= PageSize
  BY <1>3, AllocationAssumption
<1> QED
  BY <1>4, AllListed

\* Allocate, one line started: the page is a prefix of the usable stock.
LEMMA AllocateLineCommitStep ==
  ASSUME IInv, CommitInv, NEW r \in Requests, NEW l \in Lines, AllocateLine(r, l)
  PROVE  CommitInv'
<1> DEFINE want == Seen(r).line[l]
           page == FirstPage(Seen(r), want.species)
           s == [req[r] EXCEPT !.lines = @ \ {l}, !.line = l, !.left = want.quantity, !.todo = page]
<1>1. /\ req[r].pc = "allocating"
      /\ db' = db /\ wk' = wk /\ writer' = writer /\ fresh' = fresh
      /\ Become(r, s) /\ req[r] \in RequestState /\ req'[r] = s
  BY DEF AllocateLine, Become, tx, IInv, TypeOK
<1>2. /\ s.pc = "allocating" /\ s.on = req[r].on /\ s.ver = req[r].ver /\ s.at = req[r].at
      /\ s.line = l /\ s.todo = page
  <2> HIDE DEF want, page
  <2> QED BY <1>1 DEF RequestState
<1> HIDE DEF s
<1>3. View(r)' = View(r) /\ (Live(r)' <=> Live(r))
  BY <1>1 DEF View, Live
<1>4. View(r) \in Contents
  BY ViewFacts
<1>5. VersionInv(r)'
  BY <1>1, <1>2, <1>3 DEF CommitInv, VersionInv
<1>6. PageInv(r)'
  <2> SUFFICES ASSUME Live(r)
               PROVE  PageInv(r)'
    BY <1>3 DEF PageInv
  <2>0. want = View(r).line[l] /\ page = FirstPage(View(r), want.species)
    BY DEF Seen
  <2> HIDE DEF want, page
  <2>1. \A b \in page : View(r).batch[b].species = want.species
    BY <2>0 DEF FirstPage, Listed
  <2>2. UsableForLine(r)' \subseteq Listed(View(r), want.species)
    BY <1>1, <1>2, <1>3, <2>0 DEF UsableForLine
  <2>3. \A b \in page, c \in Listed(View(r), want.species) \ page :
           Second(View(r).batch[b].expires) <= Second(View(r).batch[c].expires)
    BY <1>4, <2>0, FirstPageFirst
  <2>4. db.order[req[r].on].status = "confirmed"
    BY <1>1 DEF CommitInv, PageInv
  <2>5. OnOnePage(r)' => page = Listed(View(r), want.species)
    <3>1. OnOnePage(r)' => Cardinality(Listed(db, want.species)) <= PageSize
      BY <1>1, <1>2, <1>3, <2>0 DEF OnOnePage, Snapshot, Seen
    <3>2. Drawn(db, View(r), req[r].on, req[r].at)
      BY <1>1, DrawnSoFar
    <3> QED
      BY <1>4, <2>0, <3>1, <3>2, WholePage
  <2> QED
    BY <1>1, <1>2, <1>3, <2>0, <2>1, <2>2, <2>3, <2>4, <2>5 DEF PageInv
<1>7. WriterInv'
  <2>1. CASE writer = r
    <3>1. WrittenBy(req[r], db, wk)
      BY <2>1, AllocationAssumption DEF CommitInv, WriterInv
    <3>2. WrittenBy(s, db, wk)
      BY <1>1, <1>2, <3>1 DEF WrittenBy
    <3> QED
      BY <1>1, <2>1, <3>2 DEF WriterInv
  <2>2. CASE writer # r
    <3>1. writer # None => req'[writer] = req[writer]
      BY <1>1, <2>2 DEF Become, IInv, TypeOK
    <3> QED
      BY <1>1, <3>1 DEF CommitInv, WriterInv
  <2> QED
    BY <2>1, <2>2
<1>8. \A p \in Requests \ {r} : Live(p)' => (Live(p) /\ View(p)' = View(p))
  BY <1>1 DEF Live, View
<1>9. RecordsIn(wk')
  BY <1>1 DEF CommitInv
<1> QED
  BY <1>1, <1>5, <1>6, <1>7, <1>8, <1>9, StepOfOne

\* Stock that goes before the next candidate is used up.
LEMMA NextCandidateFirst ==
  ASSUME IInv, CommitInv, NEW r \in Requests, NEW b \in Batches,
         req[r].pc = "allocating", CanWrite(r), req[r].left > 0, NextCandidate(r, b)
  PROVE  \A c \in Batches : GoesFirst(db, c, b, req[r].at) => View(r).batch[c].available = 0
<1> DEFINE v == View(r)
           at == req[r].at
<1> SUFFICES ASSUME NEW c \in Batches, GoesFirst(db, c, b, at), v.batch[c].available # 0
             PROVE  FALSE
  OBVIOUS
<1>1. Live(r) /\ Drawn(db, v, req[r].on, at) /\ v \in Contents
  BY DrawnSoFar, ViewFacts DEF CanWrite, Live
<1>2. v.batch[c].available \in Nat /\ v.batch[c].available > 0
  BY <1>1 DEF Contents, BatchRow
<1>3. /\ v.batch[c].status = "released"
      /\ v.batch[c].species = v.batch[b].species
      /\ v.batch[c].expires > at
      /\ Second(v.batch[c].expires) < Second(v.batch[b].expires)
  BY <1>1 DEF Drawn, GoesFirst
<1>4. b \in req[r].todo
  BY DEF NextCandidate
<1>5. /\ v.batch[b].species = v.line[req[r].line].species
      /\ \A f \in UsableForLine(r) \ req[r].todo :
            Second(v.batch[b].expires) <= Second(v.batch[f].expires)
  BY <1>1, <1>4 DEF CommitInv, PageInv
<1>6. Usable(v, c, at)
  BY <1>2, <1>3 DEF Usable
<1>7. c \in UsableForLine(r)
  BY <1>3, <1>5, <1>6 DEF UsableForLine, Listed
<1>8. CASE c \in req[r].todo
  <2>1. ~Precedes(v, c, b)
    BY <1>6, <1>8 DEF NextCandidate
  <2> QED
    BY <1>3, <2>1 DEF Precedes, TextLess
<1>9. CASE c \notin req[r].todo
  <2>1. Second(v.batch[b].expires) <= Second(v.batch[c].expires)
    BY <1>5, <1>7, <1>9
  <2>2. Second(v.batch[b].expires) \in Nat /\ Second(v.batch[c].expires) \in Nat
    BY <1>1, SecondType DEF Contents, BatchRow
  <2> QED
    BY <1>3, <2>1, <2>2
<1> QED
  BY <1>8, <1>9

\* Allocate, one candidate taken: drawn from the stock that goes first.
LEMMA AllocateTakeCommitStep ==
  ASSUME IInv, CommitInv, NEW r \in Requests, NEW b \in Batches, AllocateTake(r, b)
  PROVE  CommitInv'
<1> DEFINE v == View(r)
           o == req[r].on
           at == req[r].at
           k == req[r].line
           n == Portion(v.batch[b].available, req[r].left)
           c == TakeFrom(v, k, b, n)
           s == [req[r] EXCEPT !.left = @ - n, !.todo = @ \ {b}]
<1>1. /\ req[r].pc = "allocating" /\ req[r].left > 0 /\ NextCandidate(r, b)
      /\ CanWrite(r) /\ writer \in {None, r}
      /\ writer' = r /\ wk' = c /\ db' = db /\ fresh' = fresh /\ Become(r, s)
  BY DEF AllocateTake, Write, CanWrite
<1>2. /\ req \in [Requests -> RequestState] /\ req[r] \in RequestState
      /\ req[r].left \in Nat /\ req[r].todo \subseteq Batches
  BY DEF IInv, TypeOK, RequestState
<1>3. /\ Live(r) /\ o \in Orders /\ db.order[o].status = "confirmed"
      /\ Drawn(db, v, o, at) /\ v.order = db.order
  BY <1>1, DrawnSoFar DEF CanWrite, Live
<1>4. v \in Contents /\ RecordsIn(v)
  BY ViewFacts, RecordsView
<1>5. b \in req[r].todo /\ v.batch[b].expires > at /\ v.batch[b].available > 0
  BY <1>1 DEF NextCandidate, Usable
<1>6. v.batch[b].status = "released" /\ k \in LinesOf(o)
  BY <1>1, <1>3, <1>5 DEF IInv, AllocationInv
<1>7. /\ v.batch[b].species = v.line[k].species
      /\ \A e \in req[r].todo, f \in UsableForLine(r) \ req[r].todo :
            Second(v.batch[e].expires) <= Second(v.batch[f].expires)
      /\ \A e \in req[r].todo : v.batch[e].species = v.line[k].species
      /\ Cardinality(Listed(db, v.line[k].species)) <= PageSize =>
            UsableForLine(r) \subseteq req[r].todo
  BY <1>1, <1>3, <1>5 DEF CommitInv, PageInv, OnOnePage, Snapshot, Seen
<1>8. v.batch[b].available \in Nat
  BY <1>4 DEF Contents, BatchRow
<1>9. n \in Nat /\ n > 0 /\ n <= v.batch[b].available
      /\ (req[r].left - n > 0 => n = v.batch[b].available)
  <2> HIDE DEF v
  <2> QED BY <1>1, <1>2, <1>5, <1>8 DEF Portion
<1>10. \A e \in Batches : GoesFirst(db, e, b, at) => v.batch[e].available = 0
  BY <1>1, NextCandidateFirst
<1> HIDE DEF n, v, o, at, k
<1>11. k \in Lines
  BY <1>6 DEF LinesOf
<1>12. RecordsIn(c)
  BY <1>4, <1>6, <1>7, <1>9, <1>11, TakeFromRecords
<1>13. Drawn(db, c, o, at)
  BY <1>3, <1>4, <1>5, <1>6, <1>7, <1>9, <1>10, TakeDrawn
<1>14. /\ \A e \in Batches : /\ c.batch[e].species = v.batch[e].species
                             /\ c.batch[e].expires = v.batch[e].expires
       /\ \A e \in Batches \ {b} : c.batch[e] = v.batch[e]
       /\ c.batch[b].available = v.batch[b].available - n
       /\ c.order = v.order /\ c.line = v.line
  <2>1. Moved(v, c, k, b, n)
    BY <1>4, <1>9, <1>11, TakeFromFields
  <2> HIDE DEF c
  <2> QED
    BY <2>1 DEF Moved
<1> HIDE DEF c
<1>15. /\ s.pc = "allocating" /\ s.on = o /\ s.ver = req[r].ver /\ s.at = at
       /\ s.line = k /\ s.left = req[r].left - n /\ s.todo = req[r].todo \ {b}
  BY <1>1, <1>2 DEF RequestState, o, at, k
<1> HIDE DEF s
<1>16. req'[r] = s /\ View(r)' = c
  BY <1>1, <1>2 DEF Become, View
<1>17. WrittenBy(s, db, c)
  BY <1>3, <1>13, <1>14, <1>15 DEF WrittenBy
<1>18. VersionInv(r)'
  BY <1>1, <1>3, <1>15, <1>16 DEF CommitInv, VersionInv, o
<1>19. PageInv(r)'
  <2>1. ASSUME s.left > 0
        PROVE  \A f \in UsableForLine(r)' \ s.todo : f \in UsableForLine(r) \ req[r].todo
    <3> TAKE f \in UsableForLine(r)' \ s.todo
    <3>1. c.batch[b].available = 0
      BY <1>8, <1>9, <1>14, <1>15, <2>1
    <3>2. /\ f \in Listed(c, c.line[k].species)
          /\ Usable(c, f, at)
      BY <1>15, <1>16 DEF UsableForLine
    <3>3. f \in Batches /\ f # b
      BY <3>1, <3>2 DEF Listed, Usable
    <3>4. f \in Listed(v, v.line[k].species) /\ Usable(v, f, at)
      BY <1>14, <3>2, <3>3 DEF Listed, Usable
    <3>5. f \notin req[r].todo
      BY <1>15, <3>3
    <3> QED
      BY <3>4, <3>5 DEF UsableForLine, v, k, at
  <2>2. ASSUME s.left > 0, NEW e \in s.todo
        PROVE  /\ c.batch[e].species = c.line[k].species
               /\ \A f \in UsableForLine(r)' \ s.todo :
                     Second(c.batch[e].expires) <= Second(c.batch[f].expires)
    <3>1. e \in req[r].todo /\ e \in Batches
      BY <1>2, <1>15, <2>2
    <3>2. \A f \in UsableForLine(r)' \ s.todo : f \in Batches
      BY <2>1, <2>2 DEF UsableForLine, Listed
    <3> QED
      BY <1>7, <1>14, <2>1, <2>2, <3>1, <3>2
  <2>3. ASSUME s.left > 0, OnOnePage(r)'
        PROVE  UsableForLine(r)' \subseteq s.todo
    <3>1. Cardinality(Listed(db, v.line[k].species)) <= PageSize
      <4>1. Live(r)'
        BY <1>1 DEF Live
      <4> QED
        BY <1>1, <1>14, <1>15, <1>16, <2>3, <4>1 DEF OnOnePage, Snapshot, Seen
    <3> QED
      BY <1>7, <2>1, <2>3, <3>1
  <2> QED
    BY <1>1, <1>3, <1>15, <1>16, <2>2, <2>3 DEF PageInv
<1> QED
  BY <1>1, <1>12, <1>17, <1>18, <1>19, WriteCommitStep

\* Allocate, the end: the pages are those of a closed allocation.
LEMMA AllocateCloseCommitStep ==
  ASSUME IInv, CommitInv, NEW r \in Requests, AllocateClose(r)
  PROVE  CommitInv'
<1> DEFINE v == View(r)
           o == req[r].on
           c == CloseAllocation(v, o)
           s == [req[r] EXCEPT !.pc = "committing"]
<1>1. /\ req[r].pc = "allocating" /\ CanWrite(r) /\ writer \in {None, r}
      /\ writer' = r /\ wk' = c /\ db' = db /\ fresh' = fresh /\ Become(r, s)
  BY DEF AllocateClose, Write, CanWrite
<1>2. req[r] \in RequestState /\ req'[r] = s
  BY <1>1 DEF IInv, TypeOK, Become
<1>3. s.pc = "committing" /\ s.on = o /\ s.ver = req[r].ver /\ s.at = req[r].at
  BY <1>2 DEF RequestState
<1>4. /\ Live(r) /\ o \in Orders /\ db.order[o].status = "confirmed"
      /\ Drawn(db, v, o, req[r].at) /\ v.order = db.order
  BY <1>1, DrawnSoFar DEF CanWrite, Live
<1>5. v \in Contents /\ RecordsIn(v) /\ db \in Contents
  BY ViewFacts, RecordsView DEF IInv, TypeOK
<1> HIDE DEF v, o
<1>6. RecordsIn(c)
  BY <1>4, <1>5, CloseAllocationRecords
<1>7. /\ c.batch = v.batch /\ c.alloc = v.alloc /\ c.line = v.line
      /\ c.order = [v.order EXCEPT ![o] = Transition(v.order[o], "allocated")]
  BY <1>4, <1>5, CloseAllocationFields
<1>8. CloseAllocation(db, o).order = [db.order EXCEPT ![o] = Transition(db.order[o], "allocated")]
  BY <1>4, <1>5, CloseAllocationFields
<1>9. Drawn(db, c, o, req[r].at)
  BY <1>4, <1>7 DEF Drawn
<1> HIDE DEF c, s
<1>10. WrittenBy(s, db, c)
  BY <1>3, <1>4, <1>7, <1>8, <1>9 DEF WrittenBy
<1>11. VersionInv(r)' /\ PageInv(r)'
  BY <1>1, <1>2, <1>3, <1>4 DEF CommitInv, VersionInv, PageInv, o
<1> QED
  BY <1>1, <1>6, <1>10, <1>11, WriteCommitStep

\* A crash leaves the committed contents, which were in order.
LEMMA CrashCommitStep ==
  ASSUME IInv, CommitInv, Crash
  PROVE  CommitInv'
<1>1. db' = db /\ wk' = db /\ writer' = None /\ req' = [r \in Requests |-> Idle]
  BY DEF Crash, LoseAll
<1>2. \A p \in Requests : VersionInv(p)' /\ PageInv(p)'
  BY <1>1, KnowsNothing
<1> QED
  BY <1>1, <1>2 DEF CommitInv, WriterInv

\* Nothing happens.
LEMMA QuietCommitStep ==
  ASSUME IInv, CommitInv, UNCHANGED vars
  PROVE  CommitInv'
<1>1. db' = db /\ wk' = wk /\ writer' = writer /\ fresh' = fresh /\ req' = req
  BY DEF vars
<1>2. \A p \in Requests : VersionInv(p)' /\ PageInv(p)'
  <2> TAKE p \in Requests
  <2>1. View(p)' = View(p) /\ (Live(p)' <=> Live(p))
    BY <1>1 DEF View, Live
  <2> QED
    BY <1>1, <2>1, KeptVersion DEF CommitInv
<1> QED
  BY <1>1, <1>2 DEF CommitInv, WriterInv

\* IInv and CommitInv together are inductive: one step.
LEMMA CommitInvStep ==
  ASSUME IInv, CommitInv, [Next]_vars
  PROVE  CommitInv'
<1>1. ASSUME NEW r \in Requests, Begin(r)
      PROVE  CommitInv'
  <2>1. CASE RegisterBegin(r)
    BY <2>1, RegisterBeginCommitStep
  <2>2. ASSUME NEW b \in Batches, NEW ver \in Versions, InspectBegin(r, b, ver)
        PROVE  CommitInv'
    BY <2>2, InspectBeginCommitStep
  <2>3. ASSUME NEW o \in Orders, NEW input \in Wanted[o], Create(r, o, input)
        PROVE  CommitInv'
    BY <2>3, CreateCommitStep
  <2>4. ASSUME NEW o \in Orders, NEW ver \in Versions, NEW at \in Times,
               AllocateBegin(r, o, ver, at)
        PROVE  CommitInv'
    BY <2>4, AllocateBeginCommitStep
  <2> QED
    BY <1>1, <2>1, <2>2, <2>3, <2>4 DEF Begin
<1>2. ASSUME NEW r \in Requests, Progress(r)
      PROVE  CommitInv'
  <2>1. ASSUME NEW b \in Batches, NEW input \in Offered[b], RegisterWrite(r, b, input)
        PROVE  CommitInv'
    BY <2>1, RegisterWriteCommitStep
  <2>2. ASSUME NEW b \in Batches, RegisterDuplicate(r, b)
        PROVE  CommitInv'
    BY <2>2, EndCommitStep DEF RegisterDuplicate
  <2>3. ASSUME NEW b \in Batches, AllocateTake(r, b)
        PROVE  CommitInv'
    BY <2>3, AllocateTakeCommitStep
  <2>4. ASSUME NEW decision \in {"approved", "rejected"}, InspectWrite(r, decision)
        PROVE  CommitInv'
    BY <2>4, InspectWriteCommitStep
  <2>5. ASSUME NEW l \in Lines, AllocateLine(r, l)
        PROVE  CommitInv'
    BY <2>5, AllocateLineCommitStep
  <2>6. CASE OutOfStock(r)
    BY <2>6, EndCommitStep DEF OutOfStock
  <2>7. CASE AllocateClose(r)
    BY <2>7, AllocateCloseCommitStep
  <2>8. CASE CommitRequest(r)
    BY <2>8, CommitCommitStep
  <2>9. CASE Busy(r)
    BY <2>9, EndCommitStep DEF Busy
  <2> QED
    BY <1>2, <2>1, <2>2, <2>3, <2>4, <2>5, <2>6, <2>7, <2>8, <2>9 DEF Progress
<1>3. ASSUME NEW r \in Requests, Cancel(r)
      PROVE  CommitInv'
  BY <1>3, EndCommitStep DEF Cancel
<1>4. CASE Crash
  BY <1>4, CrashCommitStep
<1>5. CASE UNCHANGED vars
  BY <1>5, QuietCommitStep
<1> QED
  BY <1>1, <1>2, <1>3, <1>4, <1>5 DEF Next

\* What the contents record, what a request relies on and what the uncommitted
\* pages add to the committed ones (Store.WithinTx with service/batches.go and
\* service/orders.go).
THEOREM CommitsInOrder == Spec => []CommitInv
<1>1. Init => CommitInv
  BY InitCommitStep
<1>2. IInv /\ CommitInv /\ [Next]_vars => CommitInv'
  BY CommitInvStep
<1> QED
  BY <1>1, <1>2, Inductive, PTL DEF Spec

-----------------------------------------------------------------------------
\* The third invariant, about the snapshots that were replaced.

\* An allocation that is left alone, and does not become stale, keeps what it knows.
LEMMA KeptSnapshot ==
  ASSUME NEW p, SnapshotInv(p), req'[p] = req[p], snap'[p] = snap[p], Live(p) => Live(p)'
  PROVE  SnapshotInv(p)'
<1> SUFFICES ASSUME ~Live(p)', ~Live(p)
             PROVE  SnapshotInv(p)'
  BY DEF SnapshotInv
<1>1. OnOnePage(p)' <=> OnOnePage(p)
  BY DEF OnOnePage, Snapshot, Seen
<1> QED
  BY <1>1 DEF SnapshotInv

\* A step of r that leaves the snapshots of the others alone.
LEMMA SnapshotsOfOthers ==
  ASSUME IInv, SnapInv, NEW r \in Requests, NEW s, Become(r, s),
         \A p \in Requests \ {r} : snap'[p] = snap[p] /\ (Live(p) => Live(p)'),
         SnapshotInv(r)'
  PROVE  SnapInv'
<1>1. \A p \in Requests \ {r} : req'[p] = req[p]
  BY DEF Become, IInv, TypeOK
<1>2. \A p \in Requests : SnapshotInv(p)'
  <2> TAKE p \in Requests
  <2>1. CASE p = r
    BY <2>1
  <2>2. CASE p # r
    BY <1>1, <2>2, KeptSnapshot DEF SnapInv
  <2> QED
    BY <2>1, <2>2
<1> QED
  BY <1>2 DEF SnapInv

\* A transaction that ends without a commit.
LEMMA EndSnapStep ==
  ASSUME IInv, SnapInv, NEW r \in Requests, Rollback(r), Become(r, Idle), DropSnapshot(r)
  PROVE  SnapInv'
<1>1. req'[r].pc = "idle"
  BY IdleType DEF Become, IInv, TypeOK
<1>2. SnapshotInv(r)'
  BY <1>1 DEF SnapshotInv
<1>3. ASSUME NEW p \in Requests \ {r}
      PROVE  snap'[p] = snap[p] /\ (Live(p) => Live(p)')
  <2> HIDE DEF EmptyDatabase
  <2>1. snap'[p] = snap[p]
    BY <1>3 DEF DropSnapshot, IInv, TypeOK
  <2>2. Live(p) => Live(p)'
    BY <1>3, AllocationAssumption DEF Live, Rollback
  <2> QED
    BY <2>1, <2>2
<1> QED
  BY <1>2, <1>3, SnapshotsOfOthers

\* A transaction whose first read fixes its snapshot, which is the newest.
LEMMA ReadSnapStep ==
  ASSUME IInv, SnapInv, NEW r \in Requests, NEW s, Read(r), Become(r, s), snap' = snap
  PROVE  SnapInv'
<1>1. \A p \in Requests : Live(p) \/ p = r => Live(p)'
  BY DEF Live, Read
<1>2. SnapshotInv(r)'
  BY <1>1 DEF SnapshotInv
<1> QED
  BY <1>1, <1>2, SnapshotsOfOthers

\* A transaction that writes had the newest contents before it.
LEMMA WriteSnapStep ==
  ASSUME IInv, SnapInv, NEW r \in Requests, NEW s, writer \in {None, r}, writer' = r,
         fresh' = fresh, Become(r, s), snap' = snap
  PROVE  SnapInv'
<1>1. \A p \in Requests : Live(p) \/ p = r => Live(p)'
  BY AllocationAssumption DEF Live
<1>2. SnapshotInv(r)'
  BY <1>1 DEF SnapshotInv
<1> QED
  BY <1>1, <1>2, SnapshotsOfOthers

\* Batches that are not released are read by no allocation.
LEMMA ReadableListed ==
  ASSUME NEW d \in Contents, NEW o \in Batches \union Orders \union {None},
         NEW species, NEW at
  PROVE  /\ Listed(Readable(d, o), species) = Listed(d, species)
         /\ \A b \in Listed(d, species) : Usable(Readable(d, o), b, at) <=> Usable(d, b, at)
<1> DEFINE e == Readable(d, o)
<1>1. e.batch = [b \in Batches |-> IF d.batch[b].status = "released" THEN d.batch[b] ELSE NoBatch]
  BY ReadableType
<1>2. NoBatch.status = "absent"
  BY DEF NoBatch
<1> HIDE DEF e
<1>3. \A b \in Batches : /\ d.batch[b].status = "released" => e.batch[b] = d.batch[b]
                         /\ d.batch[b].status # "released" => e.batch[b].status = "absent"
  BY <1>1, <1>2
<1>4. Listed(e, species) = Listed(d, species)
  BY <1>3 DEF Listed
<1>5. \A b \in Listed(d, species) : Usable(e, b, at) <=> Usable(d, b, at)
  BY <1>3 DEF Listed, Usable
<1> QED
  BY <1>4, <1>5 DEF e

\* A commit of another request: an allocation that only read so far owes its line
\* in full, and its candidates are those of the contents that were replaced.
LEMMA BecomesStale ==
  ASSUME IInv, CommitInv, NEW w \in Requests, CommitRequest(w), NEW p \in Requests \ {w},
         Live(p)
  PROVE  SnapshotInv(p)'
<1> DEFINE o == req[p].on
           k == req[p].line
           e == Readable(db, o)
<1>1. /\ writer = w /\ p \in fresh /\ ~Live(p)' /\ req'[p] = req[p] /\ View(p) = db
  BY AllocationAssumption DEF CommitRequest, Commit, Live, View, Become, IInv, TypeOK
<1> SUFFICES ASSUME req[p].pc = "allocating"
             PROVE  SnapshotInv(p)'
  BY <1>1 DEF SnapshotInv
<1>2. snap'[p] = e
  BY <1>1 DEF CommitRequest, KeepSnapshots
<1>3. /\ db \in Contents /\ RecordsIn(db)
      /\ \A l \in Lines : e.line[l] = IF OrderOf[l] = o THEN db.line[l] ELSE NoLine
  <2>1. /\ db \in Contents /\ RecordsIn(db)
        /\ o \in Batches \union Orders \union {None}
    BY DEF IInv, TypeOK, CommitInv, RequestState
  <2> HIDE DEF o
  <2> QED
    BY <2>1, ReadableType
<1>4. NoLine.quantity = 0
  BY DEF NoLine
<1> HIDE DEF e
<1>5. \A l \in Lines : e.line[l].quantity > 0 => e.line[l].species \in Species
  BY <1>3, <1>4 DEF RecordsIn
<1>6. /\ o \in Orders /\ req[p].lines \subseteq LinesOf(o)
      /\ req[p].left > 0 => k \in LinesOf(o) \ req[p].lines
      /\ \A l \in LinesOf(o) :
            Cardinality(GivenUnits(db, l)) + Owed(p, l) = db.line[l].quantity
  BY <1>1 DEF IInv, AllocationInv
<1>7. ASSUME req[p].left > 0
      PROVE  /\ k \in LinesOf(o)
             /\ e.line[k] = db.line[k]
             /\ e.line[k].quantity = req[p].left
  <2>1. k \in Lines /\ OrderOf[k] = o
    BY <1>6, <1>7 DEF LinesOf
  <2>2. db.order[o].status = "confirmed"
    BY <1>1 DEF CommitInv, PageInv
  <2>3. Cardinality(GivenUnits(db, k)) = 0
    BY <2>1, <2>2 DEF IInv, Coverage, CoveredIn
  <2>4. Owed(p, k) = req[p].left /\ req[p].left \in Nat
    BY <1>6, <1>7 DEF Owed, IInv, TypeOK, RequestState
  <2>5. db.line[k].quantity = req[p].left
    BY <1>6, <1>7, <2>3, <2>4
  <2> QED
    BY <1>3, <1>6, <1>7, <2>1, <2>5
<1>8. ASSUME req[p].left > 0, OnOnePage(p)'
      PROVE  \A b \in Listed(e, e.line[k].species) :
                Usable(e, b, req[p].at) => b \in req[p].todo
  <2>1. Listed(e, e.line[k].species) = Listed(db, db.line[k].species)
    BY <1>3, <1>6, <1>7, <1>8, ReadableListed DEF e
  <2>2. Cardinality(Listed(db, db.line[k].species)) <= PageSize
    BY <1>1, <1>2, <1>8, <2>1 DEF OnOnePage, Snapshot, Seen
  <2>3. OnOnePage(p)
    BY <1>1, <2>2 DEF OnOnePage, Snapshot, Seen
  <2>4. UsableForLine(p) \subseteq req[p].todo
    BY <1>1, <1>8, <2>3 DEF CommitInv, PageInv
  <2>5. \A b \in Listed(db, db.line[k].species) :
           Usable(e, b, req[p].at) <=> Usable(db, b, req[p].at)
    BY <1>3, <1>6, ReadableListed DEF e
  <2> QED
    BY <1>1, <2>1, <2>4, <2>5 DEF UsableForLine
<1> QED
  BY <1>1, <1>2, <1>5, <1>6, <1>7, <1>8 DEF SnapshotInv

\* A commit.
LEMMA CommitSnapStep ==
  ASSUME IInv, CommitInv, SnapInv, NEW w \in Requests, CommitRequest(w)
  PROVE  SnapInv'
<1> SUFFICES ASSUME NEW p \in Requests
             PROVE  SnapshotInv(p)'
  BY DEF SnapInv
<1>1. CASE p = w
  <2>1. req'[p].pc = "idle"
    BY <1>1, IdleType DEF CommitRequest, Become, IInv, TypeOK
  <2> QED
    BY <2>1 DEF SnapshotInv
<1>2. CASE p # w /\ Live(p)
  BY <1>2, BecomesStale
<1>3. CASE p # w /\ ~Live(p)
  <2>1. req'[p] = req[p] /\ snap'[p] = snap[p]
    BY <1>3 DEF CommitRequest, KeepSnapshots, Become, Live, IInv, TypeOK
  <2> QED
    BY <1>3, <2>1, KeptSnapshot DEF SnapInv
<1> QED
  BY <1>1, <1>2, <1>3

\* A line started: what a stale allocation reads is its snapshot.
LEMMA AllocateLineSnapStep ==
  ASSUME IInv, SnapInv, NEW r \in Requests, NEW l \in Lines, AllocateLine(r, l)
  PROVE  SnapInv'
<1> DEFINE want == Seen(r).line[l]
           page == FirstPage(Seen(r), want.species)
           s == [req[r] EXCEPT !.lines = @ \ {l}, !.line = l, !.left = want.quantity, !.todo = page]
<1>1. /\ req[r].pc = "allocating" /\ l \in req[r].lines
      /\ db' = db /\ writer' = writer /\ fresh' = fresh /\ snap' = snap
      /\ Become(r, s) /\ req[r] \in RequestState /\ req'[r] = s
  BY DEF AllocateLine, Become, tx, IInv, TypeOK
<1>2. /\ s.on = req[r].on /\ s.at = req[r].at /\ s.lines = req[r].lines \ {l}
      /\ s.line = l /\ s.left = want.quantity /\ s.todo = page
  <2> HIDE DEF want, page
  <2> QED BY <1>1 DEF RequestState
<1> HIDE DEF s
<1>3. \A p \in Requests : Live(p)' <=> Live(p)
  BY <1>1 DEF Live
<1>4. SnapshotInv(r)'
  <2> SUFFICES ASSUME ~Live(r)
               PROVE  SnapshotInv(r)'
    BY <1>3 DEF SnapshotInv
  <2>1. want = snap[r].line[l] /\ page = FirstPage(snap[r], want.species)
    BY DEF Seen
  <2>2. snap[r] \in Contents
    BY DEF IInv, TypeOK
  <2>3. /\ \A k \in Lines : snap[r].line[k].quantity > 0 => snap[r].line[k].species \in Species
        /\ req[r].lines \subseteq LinesOf(req[r].on)
    BY <1>1 DEF SnapInv, SnapshotInv
  <2> HIDE DEF want, page
  <2>4. OnOnePage(r)' => page = Listed(snap[r], want.species)
    <3>1. OnOnePage(r)' => Cardinality(Listed(snap[r], want.species)) <= PageSize
      BY <1>1, <1>2, <1>3, <2>1 DEF OnOnePage, Snapshot, Seen
    <3> QED
      BY <2>1, <2>2, <3>1, AllListed
  <2> QED
    BY <1>1, <1>2, <1>3, <2>1, <2>3, <2>4 DEF SnapshotInv
<1> QED
  BY <1>1, <1>3, <1>4, SnapshotsOfOthers

\* One step, on top of the other two invariants.
LEMMA SnapInvStep ==
  ASSUME IInv, CommitInv, SnapInv, [Next]_vars
  PROVE  SnapInv'
<1>1. ASSUME NEW r \in Requests, Begin(r)
      PROVE  SnapInv'
  <2>1. CASE RegisterBegin(r)
    BY <2>1, ReadSnapStep DEF RegisterBegin
  <2>2. ASSUME NEW b \in Batches, NEW ver \in Versions, InspectBegin(r, b, ver)
        PROVE  SnapInv'
    BY <2>2, ReadSnapStep DEF InspectBegin
  <2>3. ASSUME NEW o \in Orders, NEW input \in Wanted[o], Create(r, o, input)
        PROVE  SnapInv'
    BY <2>3, WriteSnapStep DEF Create, WriteFirst
  <2>4. ASSUME NEW o \in Orders, NEW ver \in Versions, NEW at \in Times,
               AllocateBegin(r, o, ver, at)
        PROVE  SnapInv'
    BY <2>4, ReadSnapStep DEF AllocateBegin
  <2> QED
    BY <1>1, <2>1, <2>2, <2>3, <2>4 DEF Begin
<1>2. ASSUME NEW r \in Requests, Progress(r)
      PROVE  SnapInv'
  <2>1. ASSUME NEW b \in Batches, NEW input \in Offered[b], RegisterWrite(r, b, input)
        PROVE  SnapInv'
    BY <2>1, WriteSnapStep DEF RegisterWrite, Write, CanWrite
  <2>2. ASSUME NEW b \in Batches, RegisterDuplicate(r, b)
        PROVE  SnapInv'
    BY <2>2, EndSnapStep DEF RegisterDuplicate
  <2>3. ASSUME NEW b \in Batches, AllocateTake(r, b)
        PROVE  SnapInv'
    BY <2>3, WriteSnapStep DEF AllocateTake, Write, CanWrite
  <2>4. ASSUME NEW decision \in {"approved", "rejected"}, InspectWrite(r, decision)
        PROVE  SnapInv'
    BY <2>4, WriteSnapStep DEF InspectWrite, Write, CanWrite
  <2>5. ASSUME NEW l \in Lines, AllocateLine(r, l)
        PROVE  SnapInv'
    BY <2>5, AllocateLineSnapStep
  <2>6. CASE OutOfStock(r)
    BY <2>6, EndSnapStep DEF OutOfStock
  <2>7. CASE AllocateClose(r)
    BY <2>7, WriteSnapStep DEF AllocateClose, Write, CanWrite
  <2>8. CASE CommitRequest(r)
    BY <2>8, CommitSnapStep
  <2>9. CASE Busy(r)
    BY <2>9, EndSnapStep DEF Busy
  <2> QED
    BY <1>2, <2>1, <2>2, <2>3, <2>4, <2>5, <2>6, <2>7, <2>8, <2>9 DEF Progress
<1>3. ASSUME NEW r \in Requests, Cancel(r)
      PROVE  SnapInv'
  BY <1>3, EndSnapStep DEF Cancel
<1>4. CASE Crash
  <2>1. \A p \in Requests : req'[p].pc = "idle"
    BY <1>4, IdleType DEF Crash
  <2> QED
    BY <2>1 DEF SnapInv, SnapshotInv
<1>5. CASE UNCHANGED vars
  <2>1. \A p \in Requests : /\ req'[p] = req[p] /\ snap'[p] = snap[p]
                            /\ Live(p)' <=> Live(p)
    BY <1>5 DEF vars, Live
  <2> QED
    BY <2>1, KeptSnapshot DEF SnapInv
<1> QED
  BY <1>1, <1>2, <1>3, <1>4, <1>5 DEF Next

\* An allocation whose snapshot was replaced still owes its line in full and has
\* all it could use of that snapshot before it (service/orders.go, Allocate, up
\* to its first write).
THEOREM SnapshotsKept == Spec => []SnapInv
<1>1. Init => SnapInv
  <2> SUFFICES ASSUME Init
               PROVE  SnapInv
    OBVIOUS
  <2>1. \A p \in Requests : req[p].pc = "idle"
    BY IdleType DEF Init
  <2> QED
    BY <2>1 DEF SnapInv, SnapshotInv
<1>2. IInv /\ CommitInv /\ SnapInv /\ [Next]_vars => SnapInv'
  BY SnapInvStep
<1> QED
  BY <1>1, <1>2, Inductive, CommitsInOrder, PTL DEF Spec

-----------------------------------------------------------------------------
\* No unit leaves a batch that one inspection did not approve, or that is not of
\* the line's species, or whose status disagrees with what is left of it
\* (sqlite/batches.go, allocateBatch; service/batches.go, Inspect).
THEOREM ReleasedStockOnly == Spec => []OnlyReleasedStock
<1>1. CommitInv => OnlyReleasedStock
  BY DEF CommitInv, RecordsIn, OnlyReleasedStock
<1> QED
  BY <1>1, CommitsInOrder, PTL

\* Audit rows, inspections and shipments tell the history of every row once and
\* in order, whatever was retried, refused or lost (appendAudit, CreateShipment).
THEOREM TrailsMatch == Spec => []TrailMatches
<1>1. CommitInv => TrailMatches
  BY DEF CommitInv, RecordsIn, TrailMatches
<1> QED
  BY <1>1, CommitsInOrder, PTL

-----------------------------------------------------------------------------
\* What a commit publishes.

\* Only a commit changes the committed contents, and it publishes the pages of
\* one call, which are sound, covered and in order.
LEMMA OnlyCommits ==
  ASSUME IInv, CommitInv, [Next]_vars, db' # db
  PROVE  /\ writer \in Requests /\ req[writer].pc = "committing"
         /\ db' = wk /\ wk \in Contents /\ db \in Contents
         /\ WrittenBy(req[writer], db, wk)
         /\ SoundIn(wk) /\ CoveredIn(wk)
<1>1. ASSUME NEW r \in Requests, Begin(r)
      PROVE  db' = db
  BY <1>1 DEF Begin, RegisterBegin, InspectBegin, Create, AllocateBegin, Read, WriteFirst
<1>2. ASSUME NEW r \in Requests, Progress(r), ~CommitRequest(r)
      PROVE  db' = db
  BY <1>2 DEF Progress, RegisterWrite, RegisterDuplicate, AllocateTake, InspectWrite,
              AllocateLine, OutOfStock, AllocateClose, Busy, Write, Rollback, tx
<1>3. ASSUME NEW r \in Requests, Cancel(r)
      PROVE  db' = db
  BY <1>3 DEF Cancel, Rollback
<1>4. Crash \/ UNCHANGED vars => db' = db
  BY DEF Crash, LoseAll, vars
<1>5. PICK r \in Requests : CommitRequest(r)
  BY <1>1, <1>2, <1>3, <1>4 DEF Next
<1>6. writer = r /\ req[r].pc = "committing" /\ db' = wk /\ r # None
  BY <1>5, AllocationAssumption DEF CommitRequest, Commit
<1>7. WrittenBy(req[writer], db, wk)
  BY <1>6 DEF CommitInv, WriterInv
<1>8. CoveredIn(wk)
  <2>1. \A o : ~InAllocation(o)
    BY <1>6 DEF InAllocation
  <2> QED
    BY <2>1 DEF IInv, Coverage, CoveredIn
<1> QED
  BY <1>6, <1>7, <1>8 DEF IInv, TypeOK

\* Units are given only by a commit that closes an allocation.
LEMMA OnlyAllocationsGive ==
  ASSUME IInv, CommitInv, [Next]_vars, NEW l \in Lines, NEW b \in Batches,
         db'.alloc[l][b] > db.alloc[l][b]
  PROVE  /\ db' = wk
         /\ wk.alloc[l][b] > 0
         /\ l \in LinesOf(req[writer].on)
         /\ Drawn(db, wk, req[writer].on, req[writer].at)
<1>1. db.alloc[l][b] \in Nat
  BY DEF IInv, TypeOK, Contents
<1>2. db' # db
  BY <1>1
<1>3. db' = wk /\ db \in Contents /\ wk \in Contents /\ WrittenBy(req[writer], db, wk)
  BY <1>2, OnlyCommits
<1>4. wk.alloc[l][b] \in Nat
  BY <1>3 DEF Contents
<1>5. wk.alloc # db.alloc /\ wk.alloc[l] # db.alloc[l] /\ wk.alloc[l][b] > 0
  BY <1>1, <1>3, <1>4
<1> DEFINE s == req[writer]
<1>6. Drawn(db, wk, s.on, s.at)
  <2>1. ASSUME s.on \in Batches, NEW input \in Offered[s.on], wk = RegisterBatch(db, s.on, input)
        PROVE  FALSE
    BY <1>3, <1>5, <2>1, AllocationAssumption, RegisterBatchEffect
  <2>2. ASSUME s.on \in Batches, NEW decision \in {"approved", "rejected"},
               wk = InspectBatch(db, s.on, decision)
        PROVE  FALSE
    BY <1>3, <1>5, <2>2, InspectBatchEffect
  <2>3. ASSUME s.on \in Orders, NEW input \in Wanted[s.on], wk = CreateOrder(db, s.on, input)
        PROVE  FALSE
    BY <1>3, <1>5, <2>3, CreateOrderEffect
  <2> QED
    BY <1>3, <2>1, <2>2, <2>3 DEF WrittenBy
<1> QED
  BY <1>3, <1>5, <1>6 DEF Drawn

\* A commit that used an expected version finds the row at that version
\* (sqlite/orders.go, UpdateOrderStatus; service/orders.go, Allocate;
\* service/batches.go, Inspect).
THEOREM NoUpdateIsLost == Spec => NoLostUpdate
<1>1. CommitInv => [\A r \in Requests :
                      (writer = r /\ db' # db /\ req[r].ver > 0) =>
                         IF req[r].on \in Orders
                         THEN db.order[req[r].on].version = req[r].ver
                         ELSE db.batch[req[r].on].version = req[r].ver]_vars
  BY DEF CommitInv, VersionInv, Live
<1> QED
  BY <1>1, CommitsInOrder, PTL DEF NoLostUpdate

\* No unit comes from a batch that had expired when the call took the time
\* (service/orders.go, Allocate: the loop skips what ExpiresAt is not After now).
THEOREM ExpiredStockStays == Spec => NothingExpired
<1>1. IInv /\ CommitInv /\ [Next]_vars =>
         [\A l \in Lines, b \in Batches :
            db'.alloc[l][b] > db.alloc[l][b] => db.batch[b].expires > req[writer].at]_vars
  BY OnlyAllocationsGive DEF Drawn
<1> QED
  BY <1>1, Inductive, CommitsInOrder, PTL DEF Spec, NothingExpired

\* No allocation takes from a batch while one of its species that expires in an
\* earlier second keeps stock: however the pages were read and whoever else
\* allocated meanwhile (service/orders.go, Allocate; sqlite/batches.go, ListBatches).
THEOREM ExpiryOrderKept == Spec => FirstExpiredFirst
<1>1. ASSUME IInv, CommitInv, [Next]_vars,
             NEW l \in Lines, NEW b \in Batches, NEW c \in Batches,
             db'.alloc[l][b] > db.alloc[l][b],
             db.batch[c].status = "released",
             db.batch[c].species = db.batch[b].species,
             db.batch[c].expires > req[writer].at,
             Second(db.batch[c].expires) < Second(db.batch[b].expires)
      PROVE  db'.batch[c].available = 0
  <2>1. GoesFirst(db, c, b, req[writer].at)
    BY <1>1 DEF GoesFirst
  <2>2. /\ db' = wk /\ wk.alloc[l][b] > 0
        /\ l \in LinesOf(req[writer].on)
        /\ Drawn(db, wk, req[writer].on, req[writer].at)
    BY <1>1, OnlyAllocationsGive
  <2> QED
    BY <2>1, <2>2 DEF Drawn
<1>2. IInv /\ CommitInv /\ [Next]_vars =>
         [\A l \in Lines, b \in Batches, c \in Batches :
            (/\ db'.alloc[l][b] > db.alloc[l][b]
             /\ db.batch[c].status = "released"
             /\ db.batch[c].species = db.batch[b].species
             /\ db.batch[c].expires > req[writer].at
             /\ Second(db.batch[c].expires) < Second(db.batch[b].expires))
            => db'.batch[c].available = 0]_vars
  BY <1>1
<1> QED
  BY <1>2, Inductive, CommitsInOrder, PTL DEF Spec, FirstExpiredFirst

-----------------------------------------------------------------------------
\* Allocation implements the ledger.

\* What a closed allocation took from a batch is what it was given less than
\* before: the units the ledger sees leave are the units the row lost.
LEMMA OutOfBatch ==
  ASSUME NEW d \in Contents, NEW e \in Contents, NEW o \in Orders, NEW at, NEW b \in Batches,
         SoundIn(d), SoundIn(e), Drawn(d, e, o, at)
  PROVE  /\ IsFiniteSet(L!Out(e.alloc, o, b))
         /\ Cardinality(L!Out(e.alloc, o, b)) \in Nat
         /\ e.batch[b].available = d.batch[b].available - Cardinality(L!Out(e.alloc, o, b))
<1> DEFINE out == L!Out(e.alloc, o, b)
           before == TakenUnits(d, b)
           after == TakenUnits(e, b)
<1>1. \A l \in Lines \ LinesOf(o) : e.alloc[l][b] = d.alloc[l][b]
  BY DEF Drawn
<1>2. \A l \in LinesOf(o) : d.alloc[l][b] = 0
  BY DEF Drawn
<1>3. \A u : u \in before <=> \E l \in Lines : u \in {l} \X (1..d.alloc[l][b])
  BY DEF TakenUnits, Units
<1>4. \A u : u \in after <=> \E l \in Lines : u \in {l} \X (1..e.alloc[l][b])
  BY DEF TakenUnits, Units
<1>5. \A u : u \in out <=> \E l \in LinesOf(o) : u \in {l} \X (1..e.alloc[l][b])
  BY DEF L!Out, L!LinesOf, LinesOf
<1>6. LinesOf(o) \subseteq Lines
  BY DEF LinesOf
<1> HIDE DEF out, before, after
<1>7. after = before \union out
  <2>1. ASSUME NEW u \in after
        PROVE  u \in before \/ u \in out
    <3>1. PICK l \in Lines : u \in {l} \X (1..e.alloc[l][b])
      BY <1>4
    <3>2. CASE l \in LinesOf(o)
      BY <1>5, <3>1, <3>2
    <3>3. CASE l \notin LinesOf(o)
      BY <1>1, <1>3, <3>1, <3>3
    <3> QED
      BY <3>2, <3>3
  <2>2. ASSUME NEW u \in before
        PROVE  u \in after
    <3>1. PICK l \in Lines : u \in {l} \X (1..d.alloc[l][b])
      BY <1>3
    <3>2. l \notin LinesOf(o)
      BY <1>2, <3>1
    <3> QED
      BY <1>1, <1>4, <3>1, <3>2
  <2>3. ASSUME NEW u \in out
        PROVE  u \in after
    BY <1>4, <1>5, <1>6, <2>3
  <2> QED
    BY <2>1, <2>2, <2>3
<1>8. before \intersect out = {}
  <2> SUFFICES ASSUME NEW u \in before, u \in out
               PROVE  FALSE
    OBVIOUS
  <2>1. PICK l \in Lines : u \in {l} \X (1..d.alloc[l][b])
    BY <1>3
  <2>2. PICK k \in LinesOf(o) : u \in {k} \X (1..e.alloc[k][b])
    BY <1>5
  <2>3. l = k
    BY <2>1, <2>2
  <2> QED
    BY <1>2, <2>1, <2>2, <2>3
<1>9. /\ IsFiniteSet(before) /\ IsFiniteSet(after)
      /\ d.batch[b].available + Cardinality(before) = d.batch[b].produced
      /\ e.batch[b].available + Cardinality(after) = e.batch[b].produced
  BY DEF SoundIn, FiniteUnits, ConservedIn, before, after
<1>10. IsFiniteSet(out)
  BY <1>7, <1>9, FS_Subset
<1>11. Cardinality(after) = Cardinality(before) + Cardinality(out)
  <2>1. Cardinality(before \intersect out) = 0
    BY <1>8, FS_EmptySet
  <2>2. Cardinality(before) \in Nat /\ Cardinality(out) \in Nat
    BY <1>9, <1>10, FS_CardinalityType
  <2>3. Cardinality(after) = Cardinality(before) + Cardinality(out) - Cardinality(before \intersect out)
    BY <1>7, <1>9, <1>10, FS_Union
  <2> QED
    BY <2>1, <2>2, <2>3
<1>12. /\ Cardinality(before) \in Nat /\ Cardinality(out) \in Nat
       /\ d.batch[b].available \in Nat /\ e.batch[b].available \in Nat
  BY <1>9, <1>10, FS_CardinalityType DEF Contents, BatchRow
<1>13. e.batch[b].produced = d.batch[b].produced
  BY DEF Drawn
<1>14. e.batch[b].available = d.batch[b].available - Cardinality(out)
  BY <1>9, <1>11, <1>12, <1>13
<1> QED
  BY <1>10, <1>12, <1>14 DEF out

\* A registration is a batch that enters the ledger.
LEMMA RegistrationEnters ==
  ASSUME IInv, CommitInv, NEW b \in Batches, NEW input \in Offered[b],
         db.batch[b].status = "absent", db' = RegisterBatch(db, b, input)
  PROVE  L!Enter(b)
<1> DEFINE row == [status |-> "registered", species |-> input.species,
                   produced |-> input.quantity, available |-> input.quantity,
                   expires |-> input.expires, version |-> 1]
           s == input.species
           n == input.quantity
<1>1. input \in BatchInput /\ db \in Contents
  BY AllocationAssumption DEF IInv, TypeOK
<1>2. /\ db'.batch = [db.batch EXCEPT ![b] = row]
      /\ db'.order = db.order /\ db'.line = db.line /\ db'.alloc = db.alloc
  <2>1. Registered(db, db', b, input)
    BY <1>1, RegisterBatchFields
  <2> QED
    BY <2>1 DEF Registered
<1>3. db.batch[b] = NoBatch
  BY DEF CommitInv, RecordsIn
<1>4. StockView[b] = L!NoStock
  BY <1>3 DEF StockView, PhaseOf, NoBatch, L!NoStock
<1>5. s \in Species /\ n \in UNION {{i.quantity : i \in Offered[c]} : c \in Batches}
  BY <1>1 DEF BatchInput
<1>6. db'.batch[b] = row /\ \A c \in Batches \ {b} : db'.batch[c] = db.batch[c]
  BY <1>1, <1>2 DEF Contents
<1>7. StockView' = [StockView EXCEPT ![b] = [phase |-> "quarantine", species |-> s, left |-> n]]
  <2>1. PhaseOf(row) = "quarantine" /\ row.species = s /\ row.available = n
    BY DEF PhaseOf
  <2> HIDE DEF row, s, n
  <2> QED
    BY <1>6, <2>1 DEF StockView
<1>8. PlacedView' = PlacedView
  BY <1>2 DEF PlacedView
<1> QED
  <2> HIDE DEF s, n
  <2> QED BY <1>2, <1>4, <1>5, <1>7, <1>8 DEF L!Enter

\* An inspection is the one decision about a batch.
LEMMA InspectionDecides ==
  ASSUME IInv, CommitInv, NEW b \in Batches, NEW decision \in {"approved", "rejected"},
         db.batch[b].status = "registered", db' = InspectBatch(db, b, decision)
  PROVE  L!Decide(b)
<1> DEFINE phase == IF decision = "rejected" THEN "condemned" ELSE "saleable"
<1>1. db \in Contents
  BY DEF IInv, TypeOK
<1>2. Inspected(db, db', b, decision)
  BY <1>1, InspectBatchFields
<1>3. StockView[b].phase = "quarantine"
  BY DEF StockView, PhaseOf
<1>4. PhaseOf(db'.batch[b]) = phase
  BY <1>2 DEF PhaseOf, Inspected
<1>5. StockView' = [StockView EXCEPT ![b].phase = phase]
  <2> HIDE DEF phase
  <2>1. StockView'[b] = [StockView[b] EXCEPT !.phase = phase]
    <3>1. /\ StockView'[b] = [phase |-> PhaseOf(db'.batch[b]), species |-> db'.batch[b].species,
                              left |-> db'.batch[b].available]
          /\ StockView[b] = [phase |-> PhaseOf(db.batch[b]), species |-> db.batch[b].species,
                             left |-> db.batch[b].available]
      BY DEF StockView
    <3>2. /\ db'.batch[b].species = db.batch[b].species
          /\ db'.batch[b].available = db.batch[b].available
      BY <1>2 DEF Inspected
    <3> QED
      BY <1>4, <3>1, <3>2
  <2>2. \A c \in Batches \ {b} : StockView'[c] = StockView[c]
    <3>1. \A c \in Batches \ {b} : db'.batch[c] = db.batch[c]
      BY <1>2 DEF Inspected
    <3> QED
      BY <3>1 DEF StockView
  <2>3. /\ DOMAIN StockView = Batches
        /\ StockView = [c \in Batches |-> StockView[c]]
        /\ StockView' = [c \in Batches |-> StockView'[c]]
    BY DEF StockView
  <2> QED
    BY <2>1, <2>2, <2>3
<1>6. UNCHANGED <<PlacedView, db.line, db.alloc>>
  BY <1>2 DEF PlacedView, Inspected
<1>7. phase \in {"saleable", "condemned"}
  OBVIOUS
<1> QED
  <2> HIDE DEF phase
  <2> QED BY <1>3, <1>5, <1>6, <1>7 DEF L!Decide

\* A creation places an order with at least one line.
LEMMA CreationPlaces ==
  ASSUME IInv, CommitInv, NEW o \in Orders, NEW input \in Wanted[o],
         db.order[o].status = "absent", db' = CreateOrder(db, o, input), db' \in Contents
  PROVE  L!Place(o)
<1>1. db \in Contents
  BY DEF IInv, TypeOK
<1>2. /\ db'.order[o].status = "confirmed"
      /\ \A p \in Orders \ {o} : db'.order[p] = db.order[p]
      /\ db'.line = [l \in Lines |-> IF l \in DOMAIN input THEN input[l] ELSE db.line[l]]
      /\ db'.batch = db.batch /\ db'.alloc = db.alloc
  <2>1. Created(db, db', o, input)
    BY <1>1, CreateOrderFields
  <2> QED
    BY <2>1 DEF Created
<1>3. /\ DOMAIN input # {} /\ DOMAIN input \subseteq LinesOf(o)
      /\ \A l \in DOMAIN input : input[l] \in LineInput
  BY AllocationAssumption
<1>4. PlacedView[o] = "none" /\ PlacedView' = [PlacedView EXCEPT ![o] = "open"]
  BY <1>2 DEF PlacedView
<1>5. db'.line \in [Lines -> [species : Species \union {None}, quantity : Nat]]
  BY DEF Contents, LineRow
<1>6. LinesOf(o) \subseteq Lines
  BY DEF LinesOf
<1>7. \A l \in Lines \ LinesOf(o) : db'.line[l] = db.line[l]
  BY <1>2, <1>3
<1>8. \E l \in LinesOf(o) : db'.line[l].species \in Species /\ db'.line[l].quantity > 0
  <2>1. PICK l \in DOMAIN input : TRUE
    BY <1>3
  <2>2. l \in LinesOf(o) /\ db'.line[l] = input[l]
    BY <1>2, <1>3, <1>6
  <2> QED
    BY <1>3, <2>2 DEF LineInput
<1>9. UNCHANGED <<StockView, db.alloc>>
  BY <1>2 DEF StockView
<1> QED
  BY <1>4, <1>5, <1>7, <1>8, <1>9 DEF L!Place, L!LinesOf, LinesOf

\* A closed allocation serves its order in full, at once.
LEMMA AllocationServes ==
  ASSUME IInv, CommitInv, NEW o \in Orders, NEW at,
         db.order[o].status = "confirmed", Drawn(db, db', o, at),
         db'.order = CloseAllocation(db, o).order,
         db' \in Contents, SoundIn(db'), CoveredIn(db')
  PROVE  L!Serve(o)
<1>1. db \in Contents /\ SoundIn(db)
  BY DEF IInv, TypeOK
<1>2. /\ \A p \in Orders \ {o} : db'.order[p] = db.order[p]
      /\ db'.order[o].status = "allocated"
  BY <1>1, CloseAllocationEffect
<1>3. PlacedView[o] = "open" /\ PlacedView' = [PlacedView EXCEPT ![o] = "served"]
  BY <1>2 DEF PlacedView
<1>4. db'.alloc \in [Lines -> [Batches -> Nat]] /\ db'.line = db.line
  BY DEF Contents, Drawn
<1>5. LinesOf(o) \subseteq Lines /\ \A l \in LinesOf(o) : OrderOf[l] = o
  BY DEF LinesOf
<1>6. ASSUME NEW l \in LinesOf(o)
      PROVE  /\ Cardinality(L!In(db'.alloc, l)) = db.line[l].quantity
             /\ \A b \in Batches : db'.alloc[l][b] > 0 =>
                   StockView[b].phase = "saleable" /\ StockView[b].species = db.line[l].species
  <2>1. L!In(db'.alloc, l) = GivenUnits(db', l)
    BY <1>4, <1>5 DEF L!In, GivenUnits, Units
  <2>2. Cardinality(GivenUnits(db', l)) = db'.line[l].quantity
    BY <1>2, <1>5 DEF CoveredIn
  <2>3. ASSUME NEW b \in Batches, db'.alloc[l][b] > 0
        PROVE  StockView[b].phase = "saleable" /\ StockView[b].species = db.line[l].species
    BY <2>3 DEF Drawn, StockView, PhaseOf
  <2> QED
    BY <1>4, <2>1, <2>2, <2>3
<1>7. \A l \in Lines \ LinesOf(o) : db'.alloc[l] = db.alloc[l]
  BY DEF Drawn
<1>8. ASSUME NEW b \in Batches
      PROVE  /\ Cardinality(L!Out(db'.alloc, o, b)) <= StockView[b].left
             /\ StockView'[b] =
                  [StockView[b] EXCEPT !.left = @ - Cardinality(L!Out(db'.alloc, o, b))]
  <2> DEFINE out == Cardinality(L!Out(db'.alloc, o, b))
  <2>1. out \in Nat /\ db'.batch[b].available = db.batch[b].available - out
    BY <1>1, OutOfBatch
  <2>2. db'.batch[b].available \in Nat /\ db.batch[b].available \in Nat
    BY <1>1 DEF Contents, BatchRow
  <2>3. /\ PhaseOf(db'.batch[b]) = PhaseOf(db.batch[b])
        /\ db'.batch[b].species = db.batch[b].species
    BY DEF Drawn, PhaseOf
  <2>4. /\ StockView'[b] = [phase |-> PhaseOf(db'.batch[b]), species |-> db'.batch[b].species,
                            left |-> db'.batch[b].available]
        /\ StockView[b] = [phase |-> PhaseOf(db.batch[b]), species |-> db.batch[b].species,
                           left |-> db.batch[b].available]
    BY DEF StockView
  <2> HIDE DEF out
  <2>5. out <= StockView[b].left
    BY <2>1, <2>2, <2>4
  <2>6. StockView'[b] = [StockView[b] EXCEPT !.left = @ - out]
    BY <2>1, <2>3, <2>4
  <2> QED
    BY <2>5, <2>6 DEF out
<1>9. StockView' = [b \in Batches |->
                      [StockView[b] EXCEPT !.left = @ - Cardinality(L!Out(db'.alloc, o, b))]]
  <2>1. StockView' = [b \in Batches |-> StockView'[b]]
    BY DEF StockView
  <2> QED
    BY <1>8, <2>1
<1>10. L!LinesOf(o) = LinesOf(o)
  BY DEF L!LinesOf, LinesOf
<1> HIDE DEF StockView, PlacedView
<1>11. \A l \in LinesOf(o) :
          /\ Cardinality(L!In(db'.alloc, l)) = db.line[l].quantity
          /\ \A b \in Batches : db'.alloc[l][b] > 0 =>
                StockView[b].phase = "saleable" /\ StockView[b].species = db.line[l].species
  BY <1>6
<1>12. \A b \in Batches : Cardinality(L!Out(db'.alloc, o, b)) <= StockView[b].left
  BY <1>8
<1>13. \A S : L!Cardinality(S) = Cardinality(S)
  BY DEF L!Cardinality, Cardinality, L!IsFiniteSet, IsFiniteSet
<1> QED
  BY ONLY <1>3, <1>4, <1>7, <1>9, <1>10, <1>11, <1>12, <1>13 DEF L!Serve

\* Concurrent transactions, refusals, retries and crashes show nothing but the
\* indivisible operations of the ledger (Store.WithinTx; service/batches.go,
\* service/orders.go).
THEOREM ImplementsLedger == Spec => LedgerSpec
<1>1. Init => L!Init
  BY DEF Init, StartStore, EmptyDatabase, NoBatch, NoOrder, NoLine, StockView, PlacedView, PhaseOf,
         L!Init, L!NoStock, L!NoWant
<1>2. IInv /\ CommitInv /\ [Next]_vars => [L!Next]_L!ledger
  <2> SUFFICES ASSUME IInv, CommitInv, [Next]_vars
               PROVE  [L!Next]_L!ledger
    OBVIOUS
  <2>1. CASE db' = db
    <3>1. UNCHANGED <<StockView, PlacedView, db.line, db.alloc>>
      BY <2>1 DEF StockView, PlacedView
    <3> QED
      BY <3>1 DEF L!ledger
  <2>2. CASE db' # db
    <3> DEFINE s == req[writer]
    <3>1. /\ req[writer].pc = "committing" /\ db' = wk /\ db' \in Contents
          /\ WrittenBy(s, db, wk) /\ SoundIn(wk) /\ CoveredIn(wk)
      BY <2>2, OnlyCommits
    <3> HIDE DEF s
    <3>2. ASSUME s.on \in Batches, db.batch[s.on].status = "absent",
                 NEW input \in Offered[s.on], wk = RegisterBatch(db, s.on, input)
          PROVE  L!Next
      BY <3>1, <3>2, RegistrationEnters DEF L!Next
    <3>3. ASSUME s.on \in Batches, db.batch[s.on].status = "registered",
                 NEW decision \in {"approved", "rejected"}, wk = InspectBatch(db, s.on, decision)
          PROVE  L!Next
      BY <3>1, <3>3, InspectionDecides DEF L!Next
    <3>4. ASSUME s.on \in Orders, db.order[s.on].status = "absent",
                 NEW input \in Wanted[s.on], wk = CreateOrder(db, s.on, input)
          PROVE  L!Next
      BY <3>1, <3>4, CreationPlaces DEF L!Next
    <3>5. ASSUME s.on \in Orders, db.order[s.on].status = "confirmed",
                 Drawn(db, wk, s.on, s.at), wk.order = CloseAllocation(db, s.on).order
          PROVE  L!Next
      <4>1. SoundIn(db') /\ CoveredIn(db')
        BY <3>1
      <4> QED
        BY <3>1, <3>5, <4>1, AllocationServes DEF L!Next
    <3> QED
      BY <3>1, <3>2, <3>3, <3>4, <3>5 DEF WrittenBy, s
  <2> QED
    BY <2>1, <2>2
<1> QED
  BY <1>1, <1>2, Inductive, CommitsInOrder, PTL DEF Spec, LedgerSpec, L!Spec


-----------------------------------------------------------------------------
\* Too little stock.  That the units which are there are fewer than the units
\* which are wanted is shown by mapping them one to one to the units the order
\* was given, and those to the units it wants, with one left over.

\* Elements are numbered one to one.
OneToOne(S, T) == {h \in [S -> T] : \A x, y \in S : h[x] = h[y] => x = y}

LEMMA Numbered ==
  ASSUME NEW S, IsFiniteSet(S), NEW n \in Nat, n = Cardinality(S)
  PROVE  OneToOne(1..n, S) # {} /\ OneToOne(S, 1..n) # {}
<1>1. ExistsBijection(1..n, S)
  BY FS_CardinalityType
<1>2. ExistsBijection(S, 1..n)
  BY <1>1, Fun_ExistsBijSymmetric
<1>3. PICK g \in Bijection(1..n, S) : TRUE
  BY <1>1 DEF ExistsBijection
<1>4. PICK h \in Bijection(S, 1..n) : TRUE
  BY <1>2 DEF ExistsBijection
<1>5. g \in OneToOne(1..n, S)
  BY <1>3 DEF Bijection, Injection, IsInjective, OneToOne
<1>6. h \in OneToOne(S, 1..n)
  BY <1>4 DEF Bijection, Injection, IsInjective, OneToOne
<1> QED
  BY <1>5, <1>6

\* What is counted over a finite set is finite.
LEMMA UnitsFinite ==
  ASSUME NEW S, IsFiniteSet(S), NEW f \in [S -> Nat]
  PROVE  IsFiniteSet(Units(f))
<1> DEFINE part == [x \in S |-> {x} \X (1..f[x])]
           parts == {{x} \X (1..f[x]) : x \in S}
<1>1. IsFiniteSet(parts)
  <2>1. part \in Surjection(S, parts)
    BY DEF Surjection
  <2> HIDE DEF part, parts
  <2> QED
    BY <2>1, FS_Surjection
<1>2. ASSUME NEW T \in parts
      PROVE  IsFiniteSet(T)
  <2>1. PICK x \in S : T = {x} \X (1..f[x])
    OBVIOUS
  <2> DEFINE n == f[x]
  <2>2. 1 \in Int /\ n \in Int
    OBVIOUS
  <2> HIDE DEF n
  <2>3. IsFiniteSet(1..n) /\ IsFiniteSet({x})
    BY ONLY <2>2, FS_Interval, FS_Singleton
  <2>4. IsFiniteSet({x} \X (1..n))
    BY ONLY <2>3, FS_Product
  <2> QED
    BY <2>1, <2>4 DEF n
<1>3. Units(f) = UNION parts
  BY DEF Units
<1> HIDE DEF parts
<1> QED
  BY <1>1, <1>2, <1>3, FS_UNION

\* The units of b that g gives to the lines in K.
UnitsOut(g, K, b) == UNION {{l} \X (1..g[l][b]) : l \in K}

\* If everything the batches in B have was given to the lines in K, no line more
\* than it wants and one line less, then they have less than the lines want.
LEMMA FewerUnits ==
  ASSUME NEW B \in SUBSET Batches, NEW K \in SUBSET Lines, NEW k \in K,
         NEW g \in [Lines -> [Batches -> Nat]], NEW has \in [B -> Nat], NEW wants \in [K -> Nat],
         \A b \in B : IsFiniteSet(UnitsOut(g, K, b)) /\ has[b] = Cardinality(UnitsOut(g, K, b)),
         \A l \in K : /\ IsFiniteSet(Units(g[l])) /\ Cardinality(Units(g[l])) \in Nat
                      /\ Cardinality(Units(g[l])) <= wants[l],
         Cardinality(Units(g[k])) < wants[k]
  PROVE  Cardinality(Units(has)) < Cardinality(Units(wants))
<1> DEFINE size(l) == Cardinality(Units(g[l]))
           taken == [b \in B |-> CHOOSE h : h \in OneToOne(1..has[b], UnitsOut(g, K, b))]
           place == [l \in K |-> CHOOSE h : h \in OneToOne(Units(g[l]), 1..size(l))]
           short == <<k, wants[k]>>
           target == Units(wants) \ {short}
           line(u) == taken[u[1]][u[2]][1]
           given(u) == <<u[1], taken[u[1]][u[2]][2]>>
           match == [u \in Units(has) |-> <<line(u), place[line(u)][given(u)]>>]
<1>1. ASSUME NEW b \in B
      PROVE  taken[b] \in OneToOne(1..has[b], UnitsOut(g, K, b))
  <2>1. OneToOne(1..has[b], UnitsOut(g, K, b)) # {}
    BY Numbered
  <2> QED
    BY <2>1
<1>2. ASSUME NEW l \in K
      PROVE  place[l] \in OneToOne(Units(g[l]), 1..size(l))
  <2>1. OneToOne(Units(g[l]), 1..size(l)) # {}
    BY Numbered
  <2> QED
    BY <2>1
<1> HIDE DEF taken, place
<1>3. ASSUME NEW u \in Units(has)
      PROVE  /\ u = <<u[1], u[2]>> /\ u[1] \in B /\ u[2] \in 1..has[u[1]]
             /\ taken[u[1]][u[2]] = <<line(u), given(u)[2]>>
             /\ line(u) \in K
             /\ given(u) \in Units(g[line(u)])
  <2>1. PICK b \in B : u \in {b} \X (1..has[b])
    BY DEF Units
  <2>2. u = <<u[1], u[2]>> /\ u[1] = b /\ u[2] \in 1..has[b]
    BY <2>1
  <2> DEFINE w == taken[b][u[2]]
  <2>3. w \in UnitsOut(g, K, b)
    BY <1>1, <2>2 DEF OneToOne
  <2>4. PICK l \in K : w \in {l} \X (1..g[l][b])
    BY <2>3 DEF UnitsOut
  <2> HIDE DEF w
  <2>5. w = <<w[1], w[2]>> /\ w[1] = l /\ w[2] \in 1..g[l][b]
    BY <2>4
  <2>6. <<b, w[2]>> \in Units(g[l])
    <3>1. b \in DOMAIN g[l]
      OBVIOUS
    <3> QED
      BY <2>5, <3>1 DEF Units
  <2> QED
    BY <2>2, <2>5, <2>6 DEF w
<1>4. ASSUME NEW u \in Units(has)
      PROVE  match[u] \in target
  <2> DEFINE l == line(u)
             n == place[l][given(u)]
  <2>1. l \in K /\ given(u) \in Units(g[l])
    BY <1>3
  <2> HIDE DEF l
  <2>2. n \in 1..size(l)
    BY <1>2, <2>1 DEF OneToOne
  <2>3. size(l) \in Nat /\ size(l) <= wants[l] /\ wants[l] \in Nat
    BY <2>1
  <2> HIDE DEF n, size
  <2>4. n \in 1..wants[l] /\ (l = k => n # wants[k])
    <3>1. size(k) < wants[k]
      BY DEF size
    <3> QED
      BY <2>2, <2>3, <3>1
  <2>5. <<l, n>> \in Units(wants)
    <3>1. l \in DOMAIN wants
      BY <2>1
    <3> QED
      BY <2>4, <3>1 DEF Units
  <2>6. match[u] = <<l, n>>
    BY DEF n, l
  <2> QED
    BY <2>4, <2>5, <2>6
<1>5. ASSUME NEW u \in Units(has), NEW v \in Units(has), match[u] = match[v]
      PROVE  u = v
  <2>1. line(u) = line(v) /\ place[line(u)][given(u)] = place[line(v)][given(v)]
    BY <1>5
  <2>2. given(u) = given(v)
    <3>1. given(u) \in Units(g[line(u)]) /\ given(v) \in Units(g[line(u)]) /\ line(u) \in K
      BY <1>3, <2>1
    <3> HIDE DEF line, given
    <3> QED
      BY <1>2, <2>1, <3>1 DEF OneToOne
  <2>3. u[1] = v[1] /\ given(u)[2] = given(v)[2]
    BY <2>2
  <2>4. taken[u[1]][u[2]] = taken[v[1]][v[2]]
    <3>1. /\ taken[u[1]][u[2]] = <<line(u), given(u)[2]>>
          /\ taken[v[1]][v[2]] = <<line(v), given(v)[2]>>
      BY <1>3
    <3> HIDE DEF line, given
    <3> QED
      BY <2>1, <2>3, <3>1
  <2>5. /\ u = <<u[1], u[2]>> /\ u[1] \in B /\ u[2] \in 1..has[u[1]]
        /\ v = <<v[1], v[2]>> /\ v[2] \in 1..has[v[1]]
    BY <1>3
  <2>6. u[2] = v[2]
    BY <1>1, <2>3, <2>4, <2>5 DEF OneToOne
  <2> QED
    BY <2>3, <2>5, <2>6
<1>6. match \in Injection(Units(has), target)
  <2>1. match \in [Units(has) -> target]
    <3> HIDE DEF target, line, given
    <3> QED
      BY <1>4
  <2>2. DOMAIN match = Units(has)
    OBVIOUS
  <2> HIDE DEF match, target
  <2> QED
    BY <1>5, <2>1, <2>2 DEF Injection, IsInjective
<1>7. IsFiniteSet(Units(wants))
  <2>1. IsFiniteSet(K)
    BY AllocationAssumption, FS_Subset
  <2> QED
    BY <2>1, UnitsFinite
<1>8. short \in Units(wants)
  <2>1. k \in DOMAIN wants /\ wants[k] \in 1..wants[k]
    <3>1. Cardinality(Units(g[k])) \in Nat /\ wants[k] \in Nat
      OBVIOUS
    <3> QED
      BY <3>1
  <2> QED
    BY <2>1 DEF Units
<1>9. /\ IsFiniteSet(target)
      /\ Cardinality(target) = Cardinality(Units(wants)) - 1
  <2> DEFINE all == Units(wants)
  <2> HIDE DEF all, short
  <2>1. /\ IsFiniteSet(all \ {short})
        /\ Cardinality(all \ {short}) = Cardinality(all) - 1
    BY <1>7, <1>8, FS_RemoveElement DEF all
  <2> QED
    BY <2>1 DEF all
<1>10. /\ IsFiniteSet(Units(has))
       /\ Cardinality(Units(has)) <= Cardinality(target)
  <2> HIDE DEF match, target
  <2> QED
    BY <1>6, <1>9, FS_Injection
<1>11. Cardinality(Units(has)) \in Nat /\ Cardinality(Units(wants)) \in Nat
  BY <1>7, <1>10, FS_CardinalityType
<1> QED
  BY <1>9, <1>10, <1>11

\* What a drawing gives to the lines of an order is all it took out of a batch
\* of species s, if only the lines in K want that species.
LEMMA OutOfUsable ==
  ASSUME IInv, NEW v \in Contents, SoundIn(v), NEW o \in Orders, NEW at, Drawn(db, v, o, at),
         NEW s, NEW b \in Batches, db.batch[b].species = s, v.batch[b].available = 0
  PROVE  LET K == {l \in LinesOf(o) : db.line[l].species = s} IN
         /\ IsFiniteSet(UnitsOut(v.alloc, K, b))
         /\ db.batch[b].available = Cardinality(UnitsOut(v.alloc, K, b))
<1> DEFINE K == {l \in LinesOf(o) : db.line[l].species = s}
           out == L!Out(v.alloc, o, b)
<1>1. /\ IsFiniteSet(out) /\ Cardinality(out) \in Nat
      /\ v.batch[b].available = db.batch[b].available - Cardinality(out)
  BY OutOfBatch DEF IInv, TypeOK
<1>2. db.batch[b].available \in Nat
  BY DEF IInv, TypeOK, Contents, BatchRow
<1>3. out = UnitsOut(v.alloc, K, b)
  <2>1. ASSUME NEW l \in LinesOf(o), l \notin K
        PROVE  1..v.alloc[l][b] = {}
    <3>1. v.alloc[l][b] \in Nat
      BY DEF Contents, LinesOf
    <3>2. ~(v.alloc[l][b] > 0)
      BY <2>1 DEF Drawn
    <3> QED
      BY <3>1, <3>2
  <2>2. K \subseteq LinesOf(o)
    OBVIOUS
  <2>3. \A u : u \in out <=> \E l \in LinesOf(o) : u \in {l} \X (1..v.alloc[l][b])
    BY DEF L!Out, L!LinesOf, LinesOf
  <2>4. \A u : u \in UnitsOut(v.alloc, K, b) <=> \E l \in K : u \in {l} \X (1..v.alloc[l][b])
    BY DEF UnitsOut
  <2> HIDE DEF K, out
  <2> QED
    BY <2>1, <2>2, <2>3, <2>4
<1> HIDE DEF out
<1>4. db.batch[b].available = Cardinality(out)
  BY <1>1, <1>2
<1> QED
  BY <1>1, <1>3, <1>4

\* An allocation that gives up with all released batches of the species before it
\* has found less than the order wants.
LEMMA ShortOfStock ==
  ASSUME IInv, CommitInv, NEW r \in Requests, Live(r), OutOfStock(r), OnOnePage(r)
  PROVE  ShortOf(db, req[r].on, req[r].at)
<1> DEFINE v == View(r)
           o == req[r].on
           at == req[r].at
           k == req[r].line
           s == db.line[k].species
           B == {c \in Listed(db, s) : Usable(db, c, at)}
           K == {l \in LinesOf(o) : db.line[l].species = s}
           has == [b \in B |-> db.batch[b].available]
           wants == [l \in K |-> db.line[l].quantity]
<1>1. /\ req[r].pc = "allocating" /\ Live(r) /\ req[r].left > 0
      /\ \A b \in req[r].todo : ~Usable(v, b, at)
  BY DEF OutOfStock, Seen
<1>2. o \in Orders /\ Drawn(db, v, o, at)
  BY <1>1, DrawnSoFar
<1>3. v \in Contents /\ SoundIn(v) /\ db \in Contents /\ RecordsIn(db)
  BY ViewFacts DEF IInv, TypeOK, CommitInv
<1>4. /\ k \in LinesOf(o) \ req[r].lines
      /\ \A l \in LinesOf(o) : Cardinality(GivenUnits(v, l)) + Owed(r, l) = v.line[l].quantity
  BY <1>1 DEF IInv, AllocationInv
<1>5. UsableForLine(r) \subseteq req[r].todo
  BY <1>1 DEF CommitInv, PageInv
<1>6. v.line = db.line /\ LinesOf(o) \subseteq Lines
  BY <1>2 DEF Drawn, LinesOf
<1>7. req[r] \in RequestState /\ req[r].left \in Nat /\ req[r].lines \subseteq Lines
  BY DEF IInv, TypeOK, RequestState
<1>8. ASSUME NEW l \in LinesOf(o)
      PROVE  /\ IsFiniteSet(Units(v.alloc[l])) /\ Cardinality(Units(v.alloc[l])) \in Nat
             /\ db.line[l].quantity \in Nat
             /\ Cardinality(Units(v.alloc[l])) <= db.line[l].quantity
             /\ l = k => Cardinality(Units(v.alloc[l])) < db.line[l].quantity
  <2> DEFINE n == Cardinality(GivenUnits(v, l))
  <2>1. IsFiniteSet(GivenUnits(v, l)) /\ n \in Nat
    BY <1>3, <1>6, FS_CardinalityType DEF SoundIn, FiniteUnits
  <2>2. n + Owed(r, l) = db.line[l].quantity /\ db.line[l].quantity \in Nat
    BY <1>3, <1>4, <1>6 DEF Contents, LineRow
  <2>3. Owed(r, l) \in Nat /\ (l = k => Owed(r, l) > 0)
    BY <1>1, <1>3, <1>4, <1>6, <1>7 DEF Owed, Contents, LineRow
  <2>4. GivenUnits(v, l) = Units(v.alloc[l])
    BY DEF GivenUnits
  <2> HIDE DEF n
  <2>5. n <= db.line[l].quantity /\ (l = k => n < db.line[l].quantity)
    BY <2>1, <2>2, <2>3
  <2> QED
    BY <2>1, <2>2, <2>4, <2>5 DEF n
<1>9. s \in Species
  <2>1. k \in Lines /\ db.line[k].quantity > 0
    <3>1. /\ Cardinality(Units(v.alloc[k])) \in Nat /\ db.line[k].quantity \in Nat
          /\ Cardinality(Units(v.alloc[k])) < db.line[k].quantity
      BY <1>4, <1>8
    <3> QED
      BY <1>4, <1>6, <3>1
  <2> QED
    BY <1>3, <2>1 DEF RecordsIn
<1>10. ASSUME NEW b \in B
       PROVE  v.batch[b].available = 0
  <2>1. /\ b \in Batches /\ db.batch[b].status = "released" /\ db.batch[b].species = s
        /\ db.batch[b].expires > at
    BY DEF Listed, Usable
  <2>2. /\ v.batch[b].species = s /\ v.batch[b].expires > at
        /\ v.batch[b].status = "released" \/ v.batch[b].available = 0
    BY <1>2, <2>1 DEF Drawn
  <2>3. v.batch[b].available \in Nat
    BY <1>3, <2>1 DEF Contents, BatchRow
  <2>4. v.batch[b].status = "released" => ~Usable(v, b, at)
    <3>1. v.batch[b].status = "released" /\ Usable(v, b, at) => b \in UsableForLine(r)
      BY <1>6, <2>1, <2>2 DEF UsableForLine, Listed
    <3> QED
      BY <1>1, <1>5, <3>1
  <2> QED
    BY <2>2, <2>3, <2>4 DEF Usable
<1>11. ASSUME NEW b \in B
       PROVE  /\ IsFiniteSet(UnitsOut(v.alloc, K, b))
              /\ db.batch[b].available = Cardinality(UnitsOut(v.alloc, K, b))
  <2>1. b \in Batches /\ db.batch[b].species = s /\ v.batch[b].available = 0
    BY <1>10 DEF Listed
  <2> HIDE DEF v, o, at, s
  <2> QED
    BY <1>2, <1>3, <2>1, OutOfUsable
<1>12. B \in SUBSET Batches /\ K \in SUBSET Lines /\ k \in K
  BY <1>4, <1>6 DEF Listed
<1>13. v.alloc \in [Lines -> [Batches -> Nat]] /\ has \in [B -> Nat] /\ wants \in [K -> Nat]
  BY <1>3, <1>8, <1>12 DEF Contents, BatchRow
<1>14. Cardinality(Units(has)) < Cardinality(Units(wants))
  <2> DEFINE g == v.alloc
  <2>1. \A b \in B : IsFiniteSet(UnitsOut(g, K, b)) /\ has[b] = Cardinality(UnitsOut(g, K, b))
    BY <1>11
  <2>2. \A l \in K : /\ IsFiniteSet(Units(g[l])) /\ Cardinality(Units(g[l])) \in Nat
                     /\ Cardinality(Units(g[l])) <= wants[l]
    BY <1>8
  <2>3. Cardinality(Units(g[k])) < wants[k]
    BY <1>4, <1>8, <1>12
  <2>4. g \in [Lines -> [Batches -> Nat]] /\ has \in [B -> Nat] /\ wants \in [K -> Nat]
    BY <1>13
  <2> HIDE DEF g, has, wants, B, K, k
  <2> QED
    BY ONLY <1>12, <2>1, <2>2, <2>3, <2>4, FewerUnits
<1>15. UsableUnits(db, s, at) = Units(has) /\ WantedUnits(db, o, s) = Units(wants)
  BY DEF UsableUnits, WantedUnits
<1> HIDE DEF has, wants, s
<1> QED
  BY <1>9, <1>14, <1>15 DEF ShortOf

\* One that gives up on a snapshot that was replaced has found nothing at all in it
\* for a line that still needs something.
LEMMA ShortOfStaleStock ==
  ASSUME IInv, SnapInv, NEW r \in Requests, ~Live(r), OutOfStock(r), OnOnePage(r)
  PROVE  ShortOf(snap[r], req[r].on, req[r].at)
<1> DEFINE v == snap[r]
           o == req[r].on
           at == req[r].at
           k == req[r].line
           s == v.line[k].species
           B == {c \in Listed(v, s) : Usable(v, c, at)}
           K == {l \in LinesOf(o) : v.line[l].species = s}
           has == [b \in B |-> v.batch[b].available]
           wants == [l \in K |-> v.line[l].quantity]
<1>1. /\ req[r].pc = "allocating" /\ req[r].left > 0
      /\ \A b \in req[r].todo : ~Usable(v, b, at)
  BY DEF OutOfStock, Seen
<1>2. /\ k \in LinesOf(o) /\ v.line[k].quantity = req[r].left
      /\ \A b \in Listed(v, s) : Usable(v, b, at) => b \in req[r].todo
      /\ \A l \in Lines : v.line[l].quantity > 0 => v.line[l].species \in Species
  BY <1>1 DEF SnapInv, SnapshotInv
<1>3. v \in Contents /\ LinesOf(o) \subseteq Lines
  BY DEF IInv, TypeOK, LinesOf
<1>4. s \in Species
  BY <1>1, <1>2, <1>3
<1>5. B = {}
  BY <1>1, <1>2
<1>6. Cardinality(Units(has)) = 0
  <2>1. \A x \in DOMAIN has : has[x] = 0
    BY <1>5
  <2> HIDE DEF has
  <2> QED
    BY <2>1, UnitsOfZero
<1>7. k \in K /\ IsFiniteSet(K) /\ wants \in [K -> Nat]
  <2>1. wants \in [K -> Nat]
    BY <1>3 DEF Contents, LineRow
  <2>2. K \subseteq Lines
    BY <1>3
  <2> HIDE DEF K, wants
  <2>3. IsFiniteSet(K)
    BY <2>2, AllocationAssumption, FS_Subset
  <2> QED
    BY <1>2, <2>1, <2>3 DEF K
<1>8. <<k, 1>> \in Units(wants)
  <2>1. wants[k] = req[r].left /\ wants[k] \in Nat /\ wants[k] > 0
    BY <1>1, <1>2, <1>7
  <2>2. 1 \in 1..wants[k]
    BY <2>1
  <2>3. DOMAIN wants = K
    OBVIOUS
  <2> HIDE DEF wants, K, k
  <2> QED
    BY <1>7, <2>2, <2>3 DEF Units
<1> HIDE DEF wants, K
<1>9. IsFiniteSet(Units(wants))
  BY <1>7, UnitsFinite
<1>10. Cardinality(Units(wants)) \in Nat /\ Cardinality(Units(wants)) # 0
  BY <1>8, <1>9, FS_CardinalityType, FS_EmptySet
<1>11. UsableUnits(v, s, at) = Units(has) /\ WantedUnits(v, o, s) = Units(wants)
  BY DEF UsableUnits, WantedUnits, wants, K
<1> HIDE DEF has, s, v, o, at
<1>12. ShortOf(v, o, at)
  BY <1>4, <1>6, <1>10, <1>11 DEF ShortOf
<1> QED
  BY <1>12 DEF v, o, at

\* Both: what is said of the stock is true of the contents the request has read.
LEMMA ShortOfSnapshot ==
  ASSUME IInv, CommitInv, SnapInv, NEW r \in Requests, OutOfStock(r), OnOnePage(r)
  PROVE  ShortOf(Snapshot(r), req[r].on, req[r].at)
  BY ShortOfStock, ShortOfStaleStock DEF Snapshot

\* "released inventory cannot satisfy the order" is said only when it is true of the
\* contents the request has read, as long as their released batches of the line's
\* species fit on the one page that Allocate reads (service/orders.go; ListBatches).
TruthfulOnOnePage ==
    [][\A r \in Requests :
         OutOfStock(r) /\ OnOnePage(r) =>
            ShortOf(Snapshot(r), req[r].on, req[r].at)]_vars

THEOREM TruthfulPage == Spec => TruthfulOnOnePage
<1>1. IInv /\ CommitInv /\ SnapInv =>
         [\A r \in Requests :
            OutOfStock(r) /\ OnOnePage(r) =>
               ShortOf(Snapshot(r), req[r].on, req[r].at)]_vars
  BY ShortOfSnapshot
<1> QED
  BY <1>1, Inductive, CommitsInOrder, SnapshotsKept, PTL DEF TruthfulOnOnePage

\* So ErrCapacity is always true of what was read in a cooperative with no more
\* batches than a page has rows; with more, the run allocation_page shows it is not.
THEOREM TruthfulCapacity ==
  ASSUME Cardinality(Batches) <= PageSize
  PROVE  Spec => CapacityTruthful
<1>1. ASSUME NEW r \in Requests
      PROVE  OnOnePage(r)
  <2> DEFINE all == Listed(Snapshot(r), Seen(r).line[req[r].line].species)
  <2>1. all \in SUBSET Batches /\ IsFiniteSet(Batches)
    BY AllocationAssumption DEF Listed
  <2> HIDE DEF all
  <2>2. /\ Cardinality(all) <= Cardinality(Batches) /\ Cardinality(all) \in Nat
        /\ Cardinality(Batches) \in Nat
    BY <2>1, FS_Subset, FS_CardinalityType
  <2>3. Cardinality(all) <= PageSize
    BY <2>2, AllocationAssumption
  <2> QED
    BY <2>3 DEF OnOnePage, all
<1>2. IInv /\ CommitInv /\ SnapInv =>
         [\A r \in Requests :
            OutOfStock(r) => ShortOf(Snapshot(r), req[r].on, req[r].at)]_vars
  BY <1>1, ShortOfSnapshot
<1> QED
  BY <1>2, Inductive, CommitsInOrder, SnapshotsKept, PTL DEF CapacityTruthful
=============================================================================
