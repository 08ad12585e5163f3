---- MODULE OrderCreate ----
(***************************************************************************)
(* What a client of POST /v1/orders is told.  Create (service/orders.go)   *)
(* looks its idempotency key up, inserts and confirms an order in one      *)
(* transaction, and on a conflict looks the key up again; clients repeat   *)
(* calls whose answer was late or lost, also while the first still runs.   *)
(*                                                                         *)
(* A call makes at most one order, under an identifier of its own, so the  *)
(* call itself stands for that identifier.  Other transactions of the      *)
(* server take the write lock in between and allocate orders.              *)
(***************************************************************************)
EXTENDS Transactions, Naturals, Sequences, FiniteSets

CONSTANTS Keys,         \* the idempotency keys clients send; no header is the key ""
          KeyOf,        \* the key of a call
          Valid,        \* the calls whose input Validate accepts
          Others        \* other writers of the database

ASSUME OrderCreateAssumption ==
    /\ None \notin Requests \union Others
    /\ Requests \intersect Others = {}
    /\ KeyOf \in [Requests -> Keys]
    /\ Valid \subseteq Requests

VARIABLE call           \* what each call is doing, and its answer

vars == <<db, wk, writer, fresh, call>>

-----------------------------------------------------------------------------
\* The order a call made, and the audit rows about it.
NoOrder == [status |-> "absent", audit |-> <<>>]

NoOrders == [id \in Requests |-> NoOrder]

\* The orders stored under the key of c: FindOrderByIdempotency.
Found(d, c) == {id \in Requests : d[id].status # "absent" /\ KeyOf[id] = KeyOf[c]}

\* OrderStatus.CanTransition, for the transitions asked for here.
OrderCanTransition(from, to) ==
    <<from, to>> \in {<<"draft", "confirmed">>, <<"confirmed", "allocated">>}

NoAnswer == [kind |-> "none", id |-> None, status |-> "absent"]

OrderAnswer(d, id) == [kind |-> "order", id |-> id, status |-> d[id].status]

Refusal(kind) == [NoAnswer EXCEPT !.kind = kind]

Enter(c, pc) == call' = [call EXCEPT ![c].pc = pc]

Answer(c, answer) == call' = [call EXCEPT ![c] = [pc |-> "done", answer |-> answer]]

-----------------------------------------------------------------------------
\* The first lookup.  A known key is answered whatever the rest of the input.
LookupFinds(c) ==
    /\ call[c].pc = "new"
    /\ \E id \in Found(db, c) : Answer(c, OrderAnswer(db, id))
    /\ UNCHANGED tx

LookupMisses(c) ==
    /\ call[c].pc = "new"
    /\ Found(db, c) = {}
    /\ IF c \in Valid THEN Enter(c, "inserting") ELSE Answer(c, Refusal("invalid"))
    /\ UNCHANGED tx

\* Mutant: the schema does not say UNIQUE (tenant_id, idempotency_key).
InsertAgain(c) ==
    /\ call[c].pc = "inserting"
    /\ WriteFirst(c, [db EXCEPT ![c].status = "draft"])
    /\ Enter(c, "confirming")

\* createOrder: the order and its lines, in a transaction that begins here.
Insert(c) ==
    /\ call[c].pc = "inserting"
    /\ Found(db, c) = {}
    /\ WriteFirst(c, [db EXCEPT ![c].status = "draft"])
    /\ Enter(c, "confirming")

\* Mutant: an order that is not committed yet counts as a duplicate.
DuplicateUncommitted(c) ==
    /\ call[c].pc = "inserting"
    /\ Found(wk, c) # {}
    /\ Enter(c, "duplicate")
    /\ UNCHANGED tx

\* UNIQUE (tenant_id, idempotency_key): ErrConflict, and ROLLBACK.
Duplicate(c) ==
    /\ call[c].pc = "inserting"
    /\ writer = None
    /\ Found(db, c) # {}
    /\ Enter(c, "duplicate")
    /\ UNCHANGED tx

\* Mutant: no busy_timeout, so that nobody but the holder of the lock fails.
BusyNever(c) ==
    /\ call[c].pc = "inserting"
    /\ writer = c
    /\ Enter(c, "busy")
    /\ UNCHANGED tx

\* busy_timeout is over and the lock is still held: "database is locked", which
\* is ErrConflict too.
Busy(c) ==
    /\ call[c].pc = "inserting"
    /\ writer # None
    /\ Enter(c, "busy")
    /\ UNCHANGED tx

\* Mutant: the audit event is left out.
ConfirmOnly(c) ==
    /\ call[c].pc = "confirming"
    /\ OrderCanTransition(View(c)[c].status, "confirmed")
    /\ Write(c, [View(c) EXCEPT ![c].status = "confirmed"])
    /\ Enter(c, "committing")

\* Mutant: the order is taken for open instead of confirmed.
ConfirmOpen(c) ==
    /\ call[c].pc = "confirming"
    /\ Write(c, [View(c) EXCEPT ![c].status = "open"])
    /\ Enter(c, "auditing")

\* TransitionOrder from draft to confirmed.
Confirm(c) ==
    /\ call[c].pc = "confirming"
    /\ OrderCanTransition(View(c)[c].status, "confirmed")
    /\ Write(c, [View(c) EXCEPT ![c].status = "confirmed"])
    /\ Enter(c, "auditing")

\* CreateAudit.
Audit(c) ==
    /\ call[c].pc = "auditing"
    /\ Write(c, [View(c) EXCEPT ![c].audit = Append(@, "order.create")])
    /\ Enter(c, "committing")

CommitCall(c) ==
    /\ call[c].pc = "committing"
    /\ Commit(c)
    /\ Enter(c, "committed")

\* GetOrder after the commit.
Reload(c) ==
    /\ call[c].pc = "committed"
    /\ Answer(c, OrderAnswer(db, c))
    /\ UNCHANGED tx

\* The second lookup, after any ErrConflict.
ConflictFinds(c) ==
    /\ call[c].pc \in {"duplicate", "busy"}
    /\ \E id \in Found(db, c) : Answer(c, OrderAnswer(db, id))
    /\ UNCHANGED tx

ConflictMisses(c) ==
    /\ call[c].pc \in {"duplicate", "busy"}
    /\ Found(db, c) = {}
    /\ Answer(c, Refusal("not_found"))
    /\ UNCHANGED tx

\* The context of the call ends or a statement fails: an error, whatever was
\* committed before.
Fail(c) ==
    /\ call[c].pc # "done"
    /\ Rollback(c)
    /\ Answer(c, Refusal("failed"))

-----------------------------------------------------------------------------
\* Another transaction of the server: it writes, perhaps allocates an order,
\* and commits or rolls back.
OtherWrites(x) ==
    \/ WriteFirst(x, db)
    \/ \E id \in Requests :
          /\ OrderCanTransition(db[id].status, "allocated")
          /\ WriteFirst(x, [db EXCEPT ![id].status = "allocated"])

OtherBegins(x) == OtherWrites(x) /\ UNCHANGED call

OtherEnds(x) ==
    /\ writer = x
    /\ Commit(x) \/ Rollback(x)
    /\ UNCHANGED call

\* Calls in progress get no answer; the client may repeat them.
Crash ==
    /\ LoseAll
    /\ call' = [c \in Requests |->
          IF call[c].pc \in {"new", "done"} THEN call[c]
          ELSE [pc |-> "done", answer |-> Refusal("lost")]]

-----------------------------------------------------------------------------
Init == /\ StartStore(NoOrders)
        /\ call = [c \in Requests |-> [pc |-> "new", answer |-> NoAnswer]]

Start(c) == LookupFinds(c) \/ LookupMisses(c)

Progress(c) ==
    \/ Insert(c) \/ Duplicate(c) \/ Busy(c)
    \/ Confirm(c) \/ Audit(c) \/ CommitCall(c) \/ Reload(c)
    \/ ConflictFinds(c) \/ ConflictMisses(c)

Next == \/ \E c \in Requests : Start(c) \/ Progress(c) \/ Fail(c)
        \/ \E x \in Others : OtherBegins(x) \/ OtherEnds(x)
        \/ Crash

Spec == Init /\ [][Next]_vars

\* Go schedules every call, and SQLite answers every statement within
\* busy_timeout: a call waits for no other transaction.
FairSpec == Spec /\ \A c \in Requests : WF_vars(Progress(c))

-----------------------------------------------------------------------------
Contents == [Requests -> [status : {"absent", "draft", "confirmed", "allocated"},
                          audit  : Seq({"order.create"})]]

Answers == [kind   : {"none", "order", "invalid", "not_found", "failed", "lost"},
            id     : Requests \union {None},
            status : {"absent", "draft", "confirmed", "allocated"}]

\* Every variable has its type, and the lock holder is a call or another writer.
TypeOK ==
    /\ db \in Contents
    /\ wk \in Contents
    /\ writer \in Requests \union Others \union {None}
    /\ fresh = {}
    /\ call \in [Requests ->
          [pc : {"new", "inserting", "confirming", "auditing", "committing", "committed",
                 "duplicate", "busy", "done"},
           answer : Answers]]

\* Every committed order is past its draft and has one audit row; a key has at
\* most one order, however many calls with it run at once (README.md:16).
WholeIn(d) ==
    /\ \A id \in Requests :
          d[id].audit = IF d[id].status = "absent" THEN <<>> ELSE <<"order.create">>
    /\ \A id \in Requests : d[id].status # "draft"
    /\ \A c, id \in Requests :
          (KeyOf[c] = KeyOf[id] /\ d[c].status # "absent" /\ d[id].status # "absent") => c = id
CommittedWhole == WholeIn(db)

\* Calls with one key that are answered with an order are answered with the
\* same order, one that is committed, confirmed at least, and stays: no retry,
\* lost answer or crash makes a client see two orders or one that is gone.
AnswersAgree ==
    \A c \in Requests : call[c].answer.kind = "order" =>
        /\ Found(db, c) = {call[c].answer.id}
        /\ call[c].answer.status \in {"confirmed", "allocated"}

\* A call that met a duplicate key is never told that there is no such order:
\* the second lookup finds what the constraint had seen (orders.go:76).
DuplicateIsFound ==
    [][\A c \in Requests :
         (call[c].pc = "duplicate" /\ call'[c].pc = "done")
         => call'[c].answer.kind # "not_found"]_vars

\* No create is answered with "resource was not found" (response.go:39): it
\* asks for nothing that could be missing.
NeverNotFound == \A c \in Requests : call[c].answer.kind # "not_found"

\* Liveness: every call that began is answered, though the lock may be held by
\* others again and again, or by one of them for ever.
EveryCallAnswered ==
    \A c \in Requests : call[c].pc \notin {"new", "done"} ~> call[c].pc = "done"

-----------------------------------------------------------------------------
\* The inductive invariant: what a call knows of the contents at each point,
\* and how far the pages of the lock holder are from the committed contents.

\* The contents d and one order of c, in a state of its transaction.
With(d, c, status, audit) == [d EXCEPT ![c] = [status |-> status, audit |-> audit]]

CallInv(c) ==
    /\ call[c].pc \in {"confirming", "auditing", "committing"} => writer = c
    /\ writer = c =>
          /\ Found(db, c) = {}
          /\ \/ call[c].pc = "confirming" /\ wk = With(db, c, "draft", <<>>)
             \/ call[c].pc = "auditing" /\ wk = With(db, c, "confirmed", <<>>)
             \/ call[c].pc = "committing" /\ wk = With(db, c, "confirmed", <<"order.create">>)
    /\ call[c].pc \in {"new", "inserting"} => db[c] = NoOrder
    /\ call[c].pc = "duplicate" => Found(db, c) # {}
    /\ call[c].pc = "committed" => db[c].status # "absent"
    /\ call[c].pc # "done" => call[c].answer = NoAnswer

\* What another writer has done is an allocation at most.
OtherInv ==
    writer \in Others =>
        \/ wk = db
        \/ \E id \in Requests : /\ db[id].status = "confirmed"
                                /\ wk = [db EXCEPT ![id].status = "allocated"]

IInv == /\ TypeOK
        /\ CommittedWhole
        /\ AnswersAgree
        /\ \A c \in Requests : CallInv(c)
        /\ OtherInv
====
