---- MODULE OrderCreate_proofs ----
(***************************************************************************)
(* Proofs about OrderCreate, for any number of calls, keys and other       *)
(* writers.                                                                *)
(***************************************************************************)
EXTENDS OrderCreate, TLAPS

\* Which orders are found under a key depends on which orders there are.
LEMMA FoundSame ==
    ASSUME NEW d, NEW e, \A id \in Requests : d[id].status = "absent" <=> e[id].status = "absent",
           NEW c \in Requests
    PROVE  Found(d, c) = Found(e, c)
  BY DEF Found

\* In contents that are whole a key finds one order, past its draft.
LEMMA FoundOne ==
    ASSUME NEW d \in Contents, WholeIn(d), NEW c \in Requests, NEW id \in Found(d, c)
    PROVE  /\ Found(d, c) = {id}
           /\ id \in Requests
           /\ d[id].status \in {"confirmed", "allocated"}
  BY DEF Found, WholeIn, Contents

\* The contents with the order of one call in a state of its transaction.
LEMMA WithType ==
    ASSUME NEW d \in Contents, NEW c \in Requests,
           NEW s \in {"absent", "draft", "confirmed", "allocated"},
           NEW a \in Seq({"order.create"})
    PROVE  /\ With(d, c, s, a) \in Contents
           /\ With(d, c, s, a)[c] = [status |-> s, audit |-> a]
           /\ \A id \in Requests \ {c} : With(d, c, s, a)[id] = d[id]
  BY DEF With, Contents

\* The audit rows a transaction of Create may see are sequences.
LEMMA AuditTypes ==
    /\ <<>> \in Seq({"order.create"})
    /\ <<"order.create">> \in Seq({"order.create"})
    /\ Append(<<>>, "order.create") = <<"order.create">>
  OBVIOUS

-----------------------------------------------------------------------------
\* Initially there is no order and no call.
LEMMA InitIInv == Init => IInv
  <1> SUFFICES ASSUME Init PROVE IInv
    OBVIOUS
  <1> USE OrderCreateAssumption DEF Init, StartStore
  <1>1. db \in Contents /\ \A id \in Requests : db[id] = NoOrder
    BY AuditTypes DEF NoOrders, NoOrder, Contents
  <1>2. \A c \in Requests : call[c] = [pc |-> "new", answer |-> NoAnswer]
    OBVIOUS
  <1>3. NoAnswer \in Answers
    BY DEF NoAnswer, Answers
  <1>4. TypeOK
    BY <1>1, <1>3 DEF TypeOK
  <1>5. CommittedWhole
    BY <1>1 DEF CommittedWhole, WholeIn, NoOrder
  <1>6. AnswersAgree
    BY <1>2 DEF AnswersAgree, NoAnswer
  <1>7. \A c \in Requests : CallInv(c)
    BY <1>1, <1>2 DEF CallInv
  <1>8. OtherInv
    BY DEF OtherInv
  <1> QED
    BY <1>4, <1>5, <1>6, <1>7, <1>8 DEF IInv

-----------------------------------------------------------------------------
\* A step of a call that touches no page: it enters a point at which it holds
\* no lock and has made nothing, for a reason that holds now.
LEMMA StepBetween ==
    ASSUME IInv, NEW c \in Requests, UNCHANGED tx, writer # c,
           NEW pc \in {"inserting", "duplicate", "busy"}, Enter(c, pc),
           call[c].pc # "done",
           pc = "inserting" => db[c] = NoOrder,
           pc = "duplicate" => Found(db, c) # {}
    PROVE  IInv'
  <1>1. /\ call' = [call EXCEPT ![c].pc = pc]
        /\ db' = db /\ wk' = wk /\ writer' = writer /\ fresh' = fresh
    BY DEF Enter, tx
  <1>2. /\ call'[c].pc = pc /\ call'[c].answer = call[c].answer
        /\ \A d \in Requests \ {c} : call'[d] = call[d]
    BY <1>1 DEF IInv, TypeOK
  <1>3. TypeOK'
    BY <1>1 DEF IInv, TypeOK
  <1>4. CommittedWhole' /\ OtherInv'
    BY <1>1 DEF IInv, CommittedWhole, OtherInv
  <1>5. AnswersAgree'
    BY <1>1, <1>2 DEF IInv, AnswersAgree, Found
  <1>6. ASSUME NEW d \in Requests PROVE CallInv(d)'
    BY <1>1, <1>2 DEF IInv, CallInv, Found, With
  <1> QED
    BY <1>3, <1>4, <1>5, <1>6 DEF IInv

\* A step of a call that touches no page and gives the answer.
LEMMA StepAnswer ==
    ASSUME IInv, NEW c \in Requests, UNCHANGED tx, writer # c,
           NEW a \in Answers, Answer(c, a),
           a.kind = "order" =>
              Found(db, c) = {a.id} /\ a.status \in {"confirmed", "allocated"}
    PROVE  IInv'
  <1>1. /\ call' = [call EXCEPT ![c] = [pc |-> "done", answer |-> a]]
        /\ db' = db /\ wk' = wk /\ writer' = writer /\ fresh' = fresh
    BY DEF Answer, tx
  <1>2. /\ call'[c].pc = "done" /\ call'[c].answer = a
        /\ \A d \in Requests \ {c} : call'[d] = call[d]
    BY <1>1 DEF IInv, TypeOK
  <1>3. TypeOK'
    BY <1>1 DEF IInv, TypeOK
  <1>4. CommittedWhole' /\ OtherInv'
    BY <1>1 DEF IInv, CommittedWhole, OtherInv
  <1>5. AnswersAgree'
    BY <1>1, <1>2 DEF IInv, AnswersAgree, Found
  <1>6. ASSUME NEW d \in Requests PROVE CallInv(d)'
    BY <1>1, <1>2 DEF IInv, CallInv, Found, With
  <1> QED
    BY <1>3, <1>4, <1>5, <1>6 DEF IInv

\* What a lookup finds is an answer.
LEMMA FoundAnswer ==
    ASSUME IInv, NEW c \in Requests, NEW id \in Found(db, c)
    PROVE  /\ OrderAnswer(db, id) \in Answers
           /\ Found(db, c) = {OrderAnswer(db, id).id}
           /\ OrderAnswer(db, id).status \in {"confirmed", "allocated"}
  BY FoundOne DEF IInv, TypeOK, CommittedWhole, OrderAnswer, Answers

\* A refusal is an answer, and no order.
LEMMA RefusalAnswer ==
    ASSUME NEW kind \in {"invalid", "not_found", "failed", "lost"}
    PROVE  Refusal(kind) \in Answers /\ Refusal(kind).kind = kind
  BY DEF Refusal, NoAnswer, Answers

-----------------------------------------------------------------------------
\* A write of the transaction of a call: the committed contents stay, and its
\* own pages move on by one statement.
LEMMA StepWrite ==
    ASSUME IInv, NEW c \in Requests, call[c].pc # "done",
           db' = db, fresh' = fresh, writer' = c, writer \in {None, c},
           NEW pc, Enter(c, pc), Found(db, c) = {},
           \/ pc = "confirming" /\ wk' = With(db, c, "draft", <<>>)
           \/ pc = "auditing" /\ wk' = With(db, c, "confirmed", <<>>)
           \/ pc = "committing" /\ wk' = With(db, c, "confirmed", <<"order.create">>)
    PROVE  IInv'
  <1>1. /\ call'[c].pc = pc /\ call'[c].answer = call[c].answer
        /\ \A d \in Requests \ {c} : call'[d] = call[d]
    BY DEF IInv, TypeOK, Enter
  <1>2. wk' \in Contents
    <2>1. db \in Contents
      BY DEF IInv, TypeOK
    <2>2. /\ With(db, c, "draft", <<>>) \in Contents
          /\ With(db, c, "confirmed", <<>>) \in Contents
          /\ With(db, c, "confirmed", <<"order.create">>) \in Contents
      BY ONLY <2>1, WithType, AuditTypes, c \in Requests
    <2> QED
      BY <2>2
  <1>3. call' \in [Requests ->
          [pc : {"new", "inserting", "confirming", "auditing", "committing", "committed",
                 "duplicate", "busy", "done"},
           answer : Answers]]
    BY DEF IInv, TypeOK, Enter
  <1>4. TypeOK'
    BY <1>2, <1>3 DEF IInv, TypeOK
  <1>5. CommittedWhole'
    BY DEF IInv, CommittedWhole
  <1>6. AnswersAgree'
    BY <1>1 DEF IInv, AnswersAgree, Found
  <1>7. OtherInv'
    BY OrderCreateAssumption DEF OtherInv
  <1>8. CallInv(c)'
    BY <1>1 DEF IInv, CallInv, Found, With
  <1>9. ASSUME NEW d \in Requests \ {c} PROVE CallInv(d)'
    <2>1. call'[d] = call[d] /\ writer # d /\ writer' # d
      BY <1>1, OrderCreateAssumption
    <2> QED
      BY <2>1 DEF IInv, CallInv, Found
  <1> QED
    BY <1>4, <1>5, <1>6, <1>7, <1>8, <1>9 DEF IInv

\* The commit of a call makes its order appear, whole, where none was found.
LEMMA StepCommit ==
    ASSUME IInv, NEW c \in Requests, CommitCall(c)
    PROVE  IInv'
  <1>1. /\ writer = c /\ call[c].pc = "committing" /\ Found(db, c) = {}
        /\ db' = With(db, c, "confirmed", <<"order.create">>)
        /\ wk' = wk /\ writer' = None /\ fresh' = {}
    BY DEF CommitCall, Commit, IInv, CallInv
  <1>2. /\ db' \in Contents
        /\ db'[c] = [status |-> "confirmed", audit |-> <<"order.create">>]
        /\ \A d \in Requests \ {c} : db'[d] = db[d]
    <2>1. db \in Contents
      BY DEF IInv, TypeOK
    <2>2. <<"order.create">> \in Seq({"order.create"})
      BY AuditTypes
    <2>3. /\ With(db, c, "confirmed", <<"order.create">>) \in Contents
          /\ With(db, c, "confirmed", <<"order.create">>)[c]
                = [status |-> "confirmed", audit |-> <<"order.create">>]
          /\ \A d \in Requests \ {c} : With(db, c, "confirmed", <<"order.create">>)[d] = db[d]
      BY <2>1, <2>2 DEF With, Contents
    <2> QED
      BY <1>1, <2>3
  <1>3. /\ call'[c].pc = "committed" /\ call'[c].answer = call[c].answer
        /\ \A d \in Requests \ {c} : call'[d] = call[d]
    BY DEF IInv, TypeOK, CommitCall, Enter
  <1>4. TypeOK'
    BY <1>1, <1>2 DEF IInv, TypeOK, CommitCall, Enter
  <1>5. CommittedWhole'
    BY <1>1, <1>2 DEF IInv, CommittedWhole, WholeIn, Found
  <1>6. ASSUME NEW d \in Requests
        PROVE  Found(db, d) \subseteq Found(db, d)' /\ (KeyOf[d] # KeyOf[c] => Found(db, d)' = Found(db, d))
    BY <1>1, <1>2 DEF Found
  <1>7. ASSUME NEW d \in Requests, KeyOf[d] = KeyOf[c] PROVE Found(db, d) = {}
    BY <1>1, <1>7 DEF Found
  <1>8. AnswersAgree'
    BY <1>3, <1>6, <1>7 DEF IInv, AnswersAgree
  <1>9. OtherInv'
    BY <1>1, OrderCreateAssumption DEF OtherInv
  <1>10. CallInv(c)'
    BY <1>1, <1>2, <1>3, OrderCreateAssumption DEF IInv, CallInv
  <1>11. ASSUME NEW d \in Requests \ {c} PROVE CallInv(d)'
    BY <1>1, <1>2, <1>3, <1>6, OrderCreateAssumption DEF IInv, CallInv
  <1> QED
    BY <1>4, <1>5, <1>8, <1>9, <1>10, <1>11 DEF IInv

\* The lock comes free with nothing committed, and the calls given up by it are
\* answered with a refusal.
LEMMA StepGiveUp ==
    ASSUME IInv, db' = db, fresh' = {}, wk' \in Contents,
           writer' # None => writer' = writer /\ wk' = wk,
           call' \in [Requests ->
              [pc : {"new", "inserting", "confirming", "auditing", "committing", "committed",
                     "duplicate", "busy", "done"},
               answer : Answers]],
           \A c \in Requests : \/ call'[c] = call[c] /\ (writer = c => writer' = c)
                               \/ /\ call'[c].pc = "done" /\ call'[c].answer.kind # "order"
                                  /\ writer' # c
    PROVE  IInv'
  <1>1. writer' \in Requests \union Others \union {None}
    BY DEF IInv, TypeOK
  <1>2. TypeOK'
    BY <1>1 DEF IInv, TypeOK
  <1>3. CommittedWhole'
    BY DEF IInv, CommittedWhole
  <1>4. AnswersAgree'
    BY DEF IInv, AnswersAgree, Found
  <1>5. OtherInv'
    BY OrderCreateAssumption DEF IInv, OtherInv
  <1>6. ASSUME NEW c \in Requests PROVE CallInv(c)'
    <2>1. CASE call'[c] = call[c] /\ (writer = c => writer' = c)
      BY <2>1, OrderCreateAssumption DEF IInv, CallInv, Found, With
    <2>2. CASE call'[c].pc = "done" /\ call'[c].answer.kind # "order" /\ writer' # c
      BY <2>2 DEF CallInv
    <2> QED
      BY <2>1, <2>2
  <1> QED
    BY <1>2, <1>3, <1>4, <1>5, <1>6 DEF IInv

-----------------------------------------------------------------------------
\* The first lookup of a call.
LEMMA StartKeepsIInv ==
    ASSUME IInv, NEW c \in Requests, Start(c)
    PROVE  IInv'
  <1>1. call[c].pc = "new" /\ UNCHANGED tx
    BY DEF Start, LookupFinds, LookupMisses
  <1>2. writer # c /\ db[c] = NoOrder
    BY <1>1 DEF IInv, CallInv
  <1>3. CASE LookupFinds(c)
    <2>1. PICK id \in Found(db, c) : Answer(c, OrderAnswer(db, id))
      BY <1>3 DEF LookupFinds
    <2> QED
      BY <1>1, <1>2, <2>1, FoundAnswer, StepAnswer
  <1>4. CASE LookupMisses(c) /\ c \in Valid
    <2>1. Enter(c, "inserting")
      BY <1>4 DEF LookupMisses
    <2> QED
      BY <1>1, <1>2, <2>1, StepBetween
  <1>5. CASE LookupMisses(c) /\ c \notin Valid
    <2>1. Answer(c, Refusal("invalid"))
      BY <1>5 DEF LookupMisses
    <2>2. Refusal("invalid") \in Answers /\ Refusal("invalid").kind # "order"
      BY RefusalAnswer
    <2> QED
      BY <1>1, <1>2, <2>1, <2>2, StepAnswer
  <1> QED
    BY <1>3, <1>4, <1>5 DEF Start

\* The second lookup after a conflict.
LEMMA ConflictKeepsIInv ==
    ASSUME IInv, NEW c \in Requests, ConflictFinds(c) \/ ConflictMisses(c)
    PROVE  IInv'
  <1>1. call[c].pc \in {"duplicate", "busy"} /\ UNCHANGED tx
    BY DEF ConflictFinds, ConflictMisses
  <1>2. writer # c
    BY <1>1 DEF IInv, CallInv
  <1>3. CASE ConflictFinds(c)
    <2>1. PICK id \in Found(db, c) : Answer(c, OrderAnswer(db, id))
      BY <1>3 DEF ConflictFinds
    <2> QED
      BY <1>1, <1>2, <2>1, FoundAnswer, StepAnswer
  <1>4. CASE ConflictMisses(c)
    <2>1. Answer(c, Refusal("not_found"))
      BY <1>4 DEF ConflictMisses
    <2>2. Refusal("not_found") \in Answers /\ Refusal("not_found").kind # "order"
      BY RefusalAnswer
    <2> QED
      BY <1>1, <1>2, <2>1, <2>2, StepAnswer
  <1> QED
    BY <1>3, <1>4

\* The first statement of the transaction, or its refusal.
LEMMA InsertingKeepsIInv ==
    ASSUME IInv, NEW c \in Requests, Insert(c) \/ Duplicate(c) \/ Busy(c)
    PROVE  IInv'
  <1>1. call[c].pc = "inserting"
    BY DEF Insert, Duplicate, Busy
  <1>2. writer # c /\ db[c] = NoOrder
    BY <1>1 DEF IInv, CallInv
  <1>3. CASE Insert(c)
    <2>1. /\ db' = db /\ fresh' = fresh /\ writer' = c /\ writer = None
          /\ wk' = [db EXCEPT ![c].status = "draft"]
          /\ Enter(c, "confirming") /\ Found(db, c) = {}
      BY <1>3 DEF Insert, WriteFirst
    <2>2. db \in Contents
      BY DEF IInv, TypeOK
    <2>3. [db EXCEPT ![c].status = "draft"] = With(db, c, "draft", <<>>)
      <3>1. db[c] = [status |-> "absent", audit |-> <<>>]
        BY <1>2 DEF NoOrder
      <3>2. [db[c] EXCEPT !.status = "draft"] = [status |-> "draft", audit |-> <<>>]
        BY <3>1
      <3>3. [db EXCEPT ![c].status = "draft"] = [db EXCEPT ![c] = [db[c] EXCEPT !.status = "draft"]]
        OBVIOUS
      <3> QED
        BY <3>2, <3>3 DEF With
    <2> QED
      BY <1>1, <2>1, <2>3, StepWrite
  <1>4. CASE Duplicate(c)
    <2>1. UNCHANGED tx /\ Enter(c, "duplicate") /\ Found(db, c) # {}
      BY <1>4 DEF Duplicate
    <2> QED
      BY <1>1, <1>2, <2>1, StepBetween
  <1>5. CASE Busy(c)
    <2>1. UNCHANGED tx /\ Enter(c, "busy")
      BY <1>5 DEF Busy
    <2> QED
      BY <1>1, <1>2, <2>1, StepBetween
  <1> QED
    BY <1>3, <1>4, <1>5

\* The transition from draft to confirmed.
LEMMA ConfirmKeepsIInv ==
    ASSUME IInv, NEW c \in Requests, Confirm(c)
    PROVE  IInv'
  <1>1. /\ writer = c /\ Found(db, c) = {} /\ call[c].pc = "confirming"
        /\ wk = With(db, c, "draft", <<>>) /\ db \in Contents
    BY DEF Confirm, IInv, CallInv, TypeOK
  <1>2. /\ db' = db /\ fresh' = fresh /\ writer' = c
        /\ wk' = [wk EXCEPT ![c].status = "confirmed"]
        /\ Enter(c, "auditing")
    BY <1>1 DEF Confirm, Write, View
  <1>3. [wk EXCEPT ![c].status = "confirmed"] = With(db, c, "confirmed", <<>>)
    BY <1>1 DEF With, Contents
  <1> QED
    BY <1>1, <1>2, <1>3, StepWrite

\* The audit row, the last write.
LEMMA AuditKeepsIInv ==
    ASSUME IInv, NEW c \in Requests, Audit(c)
    PROVE  IInv'
  <1>1. /\ writer = c /\ Found(db, c) = {} /\ call[c].pc = "auditing"
        /\ wk = With(db, c, "confirmed", <<>>) /\ db \in Contents
    BY DEF Audit, IInv, CallInv, TypeOK
  <1>2. /\ db' = db /\ fresh' = fresh /\ writer' = c
        /\ wk' = [wk EXCEPT ![c].audit = Append(@, "order.create")]
        /\ Enter(c, "committing")
    BY <1>1 DEF Audit, Write, View
  <1>3. wk[c].audit = <<>>
    BY <1>1 DEF With, Contents
  <1>4. wk' = [wk EXCEPT ![c].audit = <<"order.create">>]
    BY <1>2, <1>3, AuditTypes
  <1>5. [wk EXCEPT ![c].audit = <<"order.create">>]
          = With(db, c, "confirmed", <<"order.create">>)
    <2>1. wk[c] = [status |-> "confirmed", audit |-> <<>>]
      BY <1>1 DEF With, Contents
    <2>2. [wk[c] EXCEPT !.audit = <<"order.create">>]
            = [status |-> "confirmed", audit |-> <<"order.create">>]
      BY <2>1
    <2>3. [wk EXCEPT ![c].audit = <<"order.create">>]
            = [wk EXCEPT ![c] = [wk[c] EXCEPT !.audit = <<"order.create">>]]
      OBVIOUS
    <2>4. wk = [db EXCEPT ![c] = [status |-> "confirmed", audit |-> <<>>]]
      BY <1>1 DEF With
    <2>5. [wk EXCEPT ![c] = [status |-> "confirmed", audit |-> <<"order.create">>]]
            = [db EXCEPT ![c] = [status |-> "confirmed", audit |-> <<"order.create">>]]
      BY <1>1, <2>4 DEF Contents
    <2> QED
      BY <2>2, <2>3, <2>5 DEF With
  <1> QED
    BY <1>1, <1>2, <1>4, <1>5, StepWrite

\* The read after the commit.
LEMMA ReloadKeepsIInv ==
    ASSUME IInv, NEW c \in Requests, Reload(c)
    PROVE  IInv'
  <1>1. /\ call[c].pc = "committed" /\ UNCHANGED tx
        /\ Answer(c, OrderAnswer(db, c))
    BY DEF Reload
  <1>2. writer # c /\ c \in Found(db, c)
    BY <1>1 DEF IInv, CallInv, Found
  <1> QED
    BY <1>1, <1>2, FoundAnswer, StepAnswer

\* An error at any point.
LEMMA FailKeepsIInv ==
    ASSUME IInv, NEW c \in Requests, Fail(c)
    PROVE  IInv'
  <1>1. /\ db' = db /\ fresh' = fresh \ {c}
        /\ writer' = IF writer = c THEN None ELSE writer
        /\ wk' = IF writer = c THEN db ELSE wk
        /\ call' = [call EXCEPT ![c] = [pc |-> "done", answer |-> Refusal("failed")]]
    BY DEF Fail, Rollback, Answer
  <1>2. Refusal("failed") \in Answers /\ Refusal("failed").kind # "order"
    BY RefusalAnswer
  <1>3. wk' \in Contents /\ fresh' = {}
    BY <1>1 DEF IInv, TypeOK
  <1>4. writer' # None => writer' = writer /\ wk' = wk
    BY <1>1
  <1>5. call' \in [Requests ->
              [pc : {"new", "inserting", "confirming", "auditing", "committing", "committed",
                     "duplicate", "busy", "done"},
               answer : Answers]]
    BY <1>1, <1>2 DEF IInv, TypeOK
  <1>6. ASSUME NEW d \in Requests
        PROVE  \/ call'[d] = call[d] /\ (writer = d => writer' = d)
               \/ call'[d].pc = "done" /\ call'[d].answer.kind # "order" /\ writer' # d
    <2>1. CASE d = c
      BY <1>1, <1>2, <2>1, OrderCreateAssumption DEF IInv, TypeOK
    <2>2. CASE d # c
      BY <1>1, <2>2 DEF IInv, TypeOK
    <2> QED
      BY <2>1, <2>2
  <1> QED
    BY <1>1, <1>3, <1>4, <1>5, <1>6, StepGiveUp

\* A crash takes the lock and every call in progress.
LEMMA CrashKeepsIInv ==
    ASSUME IInv, Crash
    PROVE  IInv'
  <1>1. /\ db' = db /\ fresh' = {} /\ writer' = None /\ wk' = db
        /\ call' = [c \in Requests |->
              IF call[c].pc \in {"new", "done"} THEN call[c]
              ELSE [pc |-> "done", answer |-> Refusal("lost")]]
    BY DEF Crash, LoseAll
  <1>2. Refusal("lost") \in Answers /\ Refusal("lost").kind # "order"
    BY RefusalAnswer
  <1>3. wk' \in Contents
    BY <1>1 DEF IInv, TypeOK
  <1>4. call' \in [Requests ->
              [pc : {"new", "inserting", "confirming", "auditing", "committing", "committed",
                     "duplicate", "busy", "done"},
               answer : Answers]]
    BY <1>1, <1>2 DEF IInv, TypeOK
  <1>5. ASSUME NEW c \in Requests
        PROVE  \/ call'[c] = call[c] /\ (writer = c => writer' = c)
               \/ call'[c].pc = "done" /\ call'[c].answer.kind # "order" /\ writer' # c
    BY <1>1, <1>2, OrderCreateAssumption DEF IInv, CallInv
  <1> QED
    BY <1>1, <1>3, <1>4, <1>5, StepGiveUp

-----------------------------------------------------------------------------
\* The contents e are as whole as d, and the same orders are found in them.
AsWhole(d, e) ==
    /\ WholeIn(e)
    /\ \A c \in Requests : Found(e, c) = Found(d, c)
    /\ \A c \in Requests : e[c].status = "absent" <=> d[c].status = "absent"
    /\ \A c \in Requests : d[c] = NoOrder => e[c] = NoOrder

\* Contents in which one confirmed order became allocated are as whole, and the
\* same orders are found.
LEMMA Advanced ==
    ASSUME NEW d \in Contents, WholeIn(d), NEW id \in Requests, d[id].status = "confirmed",
           NEW e, e = [d EXCEPT ![id].status = "allocated"]
    PROVE  e \in Contents /\ AsWhole(d, e)
  <1>1. /\ \A c \in Requests : e[c].audit = d[c].audit
        /\ \A c \in Requests \ {id} : e[c] = d[c]
        /\ e[id].status = "allocated"
    BY DEF Contents
  <1>2. \A c \in Requests : e[c].status = "absent" <=> d[c].status = "absent"
    BY <1>1
  <1>3. \A c \in Requests : Found(e, c) = Found(d, c)
    BY <1>2, FoundSame
  <1>4. WholeIn(e)
    BY <1>1, <1>2 DEF WholeIn
  <1>5. \A c \in Requests : d[c] = NoOrder => e[c] = NoOrder
    BY <1>1 DEF NoOrder
  <1>6. e \in Contents
    BY DEF Contents
  <1> QED
    BY <1>2, <1>3, <1>4, <1>5, <1>6 DEF AsWhole

\* The steps of other writers.  What they may commit is the contents as they
\* were, or with one confirmed order allocated.
LEMMA OtherBeginsKeepsIInv ==
    ASSUME IInv, NEW x \in Others, OtherBegins(x)
    PROVE  IInv'
  <1>1. /\ writer = None /\ writer' = x /\ db' = db /\ fresh' = fresh /\ call' = call
        /\ \/ wk' = db
           \/ \E id \in Requests : /\ db[id].status = "confirmed"
                                   /\ wk' = [db EXCEPT ![id].status = "allocated"]
    BY DEF OtherBegins, OtherWrites, WriteFirst, OrderCanTransition
  <1>2. x \notin Requests /\ x # None
    BY OrderCreateAssumption
  <1>3. wk' \in Contents
    <2>1. db \in Contents /\ WholeIn(db)
      BY DEF IInv, TypeOK, CommittedWhole
    <2>2. ASSUME NEW id \in Requests, db[id].status = "confirmed"
          PROVE  [db EXCEPT ![id].status = "allocated"] \in Contents
      BY <2>1, <2>2, Advanced
    <2> QED
      BY <1>1, <2>1, <2>2
  <1>4. TypeOK'
    BY <1>1, <1>3 DEF IInv, TypeOK
  <1>5. CommittedWhole' /\ AnswersAgree'
    BY <1>1 DEF IInv, CommittedWhole, AnswersAgree, Found
  <1>6. OtherInv'
    BY <1>1 DEF OtherInv
  <1>7. ASSUME NEW c \in Requests PROVE CallInv(c)'
    BY <1>1, <1>2, OrderCreateAssumption DEF IInv, CallInv, Found
  <1> QED
    BY <1>4, <1>5, <1>6, <1>7 DEF IInv

\* A commit or a rollback of another writer.
LEMMA OtherEndsKeepsIInv ==
    ASSUME IInv, NEW x \in Others, OtherEnds(x)
    PROVE  IInv'
  <1>1. writer = x /\ call' = call /\ x \notin Requests /\ x # None
    BY OrderCreateAssumption DEF OtherEnds
  <1>2. writer' = None /\ fresh' = {}
    BY <1>1 DEF OtherEnds, Commit, Rollback, IInv, TypeOK
  <1>3. wk' \in Contents
    BY <1>1 DEF OtherEnds, Commit, Rollback, IInv, TypeOK
  <1>4. db \in Contents /\ WholeIn(db)
    BY DEF IInv, TypeOK, CommittedWhole
  <1>5. db' \in Contents
    BY <1>1, <1>3 DEF OtherEnds, Commit, Rollback, IInv, TypeOK
  <1>6. AsWhole(db, db')
    <2>1. CASE db' = db
      BY <1>4, <2>1 DEF AsWhole
    <2>2. CASE \E id \in Requests : /\ db[id].status = "confirmed"
                                    /\ db' = [db EXCEPT ![id].status = "allocated"]
      BY <1>4, <2>2, Advanced
    <2>3. db' = db \/ db' = wk
      BY DEF OtherEnds, Commit, Rollback
    <2> QED
      BY <1>1, <2>1, <2>2, <2>3 DEF IInv, OtherInv
  <1>7. TypeOK'
    BY <1>1, <1>2, <1>3, <1>5 DEF IInv, TypeOK
  <1>8. CommittedWhole'
    BY <1>6 DEF CommittedWhole, AsWhole
  <1>9. AnswersAgree'
    BY <1>1, <1>6 DEF IInv, AnswersAgree, AsWhole
  <1>10. OtherInv'
    BY <1>2, OrderCreateAssumption DEF OtherInv
  <1>11. ASSUME NEW c \in Requests PROVE CallInv(c)'
    BY <1>1, <1>2, <1>6, OrderCreateAssumption DEF IInv, CallInv, AsWhole
  <1> QED
    BY <1>7, <1>8, <1>9, <1>10, <1>11 DEF IInv

-----------------------------------------------------------------------------
\* A step that changes nothing.
LEMMA Stutter == IInv /\ UNCHANGED vars => IInv'
  <1> SUFFICES ASSUME IInv, UNCHANGED vars PROVE IInv'
    OBVIOUS
  <1>1. /\ db' = db /\ wk' = wk /\ writer' = writer /\ fresh' = fresh /\ call' = call
    BY DEF vars
  <1>2. TypeOK' /\ CommittedWhole' /\ AnswersAgree' /\ OtherInv'
    BY <1>1 DEF IInv, TypeOK, CommittedWhole, AnswersAgree, OtherInv, Found
  <1>3. ASSUME NEW c \in Requests PROVE CallInv(c)'
    BY <1>1 DEF IInv, CallInv, Found
  <1> QED
    BY <1>2, <1>3 DEF IInv

\* Every step keeps the invariant.
LEMMA NextIInv == IInv /\ [Next]_vars => IInv'
  <1> SUFFICES ASSUME IInv, [Next]_vars PROVE IInv'
    OBVIOUS
  <1>1. CASE \E c \in Requests : Start(c)
    BY <1>1, StartKeepsIInv
  <1>2. CASE \E c \in Requests : Insert(c) \/ Duplicate(c) \/ Busy(c)
    BY <1>2, InsertingKeepsIInv
  <1>3. CASE \E c \in Requests : Confirm(c) \/ Audit(c) \/ CommitCall(c) \/ Reload(c)
    BY <1>3, ConfirmKeepsIInv, AuditKeepsIInv, StepCommit, ReloadKeepsIInv
  <1>4. CASE \E c \in Requests : ConflictFinds(c) \/ ConflictMisses(c)
    BY <1>4, ConflictKeepsIInv
  <1>5. CASE \E c \in Requests : Fail(c)
    BY <1>5, FailKeepsIInv
  <1>6. CASE \E x \in Others : OtherBegins(x) \/ OtherEnds(x)
    BY <1>6, OtherBeginsKeepsIInv, OtherEndsKeepsIInv
  <1>7. CASE Crash
    BY <1>7, CrashKeepsIInv
  <1>8. CASE UNCHANGED vars
    BY <1>8, Stutter
  <1> QED
    BY <1>1, <1>2, <1>3, <1>4, <1>5, <1>6, <1>7, <1>8 DEF Next, Progress

\* IInv holds in every reachable state.
THEOREM Inductive == Spec => []IInv
  BY InitIInv, NextIInv, PTL DEF Spec

\* Every variable of OrderCreate keeps its type.
THEOREM TypeCorrect == Spec => []TypeOK
  <1>1. IInv => TypeOK
    BY DEF IInv
  <1> QED
    BY <1>1, Inductive, PTL

\* A key has at most one order, and no committed order is half made.
THEOREM OneWholeOrder == Spec => []CommittedWhole
  <1>1. IInv => CommittedWhole
    BY DEF IInv
  <1> QED
    BY <1>1, Inductive, PTL

\* Calls with one key are told of one order, which is there to stay.
THEOREM RetriesAgree == Spec => []AnswersAgree
  <1>1. IInv => AnswersAgree
    BY DEF IInv
  <1> QED
    BY <1>1, Inductive, PTL

\* A step of a call leaves the other calls alone.
LEMMA OwnStep ==
    ASSUME TypeOK, NEW c \in Requests, NEW d \in Requests \ {c},
           Start(d) \/ Progress(d) \/ Fail(d)
    PROVE  call'[c] = call[c]
  <1>1. \/ \E pc : call' = [call EXCEPT ![d].pc = pc]
        \/ \E a : call' = [call EXCEPT ![d] = a]
    BY DEF Start, LookupFinds, LookupMisses, Progress, Insert, Duplicate, Busy, Confirm, Audit,
           CommitCall, Reload, ConflictFinds, ConflictMisses, Fail, Enter, Answer
  <1> QED
    BY <1>1 DEF TypeOK

\* What the UNIQUE constraint saw, the second lookup finds.
THEOREM DuplicatesAreFound == Spec => DuplicateIsFound
  <1> DEFINE Told(c) == (call[c].pc = "duplicate" /\ call'[c].pc = "done")
                         => call'[c].answer.kind # "not_found"
  <1>1. ASSUME IInv, [Next]_vars, NEW c \in Requests PROVE Told(c)
    <2> SUFFICES ASSUME call[c].pc = "duplicate", call'[c].pc = "done"
                 PROVE  call'[c].answer.kind # "not_found"
      OBVIOUS
    <2>1. TypeOK /\ Found(db, c) # {}
      BY <1>1 DEF IInv, CallInv
    <2>2. call'[c] # call[c]
      OBVIOUS
    <2>3. CASE \E d \in Requests : Start(d) \/ Progress(d) \/ Fail(d)
      <3>1. Start(c) \/ Progress(c) \/ Fail(c)
        BY <2>1, <2>2, <2>3, OwnStep
      <3>2. ConflictFinds(c) \/ Fail(c)
        BY <2>1, <3>1 DEF Start, LookupFinds, LookupMisses, Progress, Insert, Duplicate, Busy,
              Confirm, Audit, CommitCall, Reload, ConflictMisses
      <3>3. CASE ConflictFinds(c)
        BY <2>1, <3>3 DEF ConflictFinds, Answer, OrderAnswer, TypeOK
      <3>4. CASE Fail(c)
        BY <2>1, <3>4, RefusalAnswer DEF Fail, Answer, TypeOK
      <3> QED
        BY <3>2, <3>3, <3>4
    <2>4. CASE Crash
      BY <2>4, RefusalAnswer DEF Crash
    <2>5. CASE call' = call
      BY <2>2, <2>5
    <2> QED
      BY <1>1, <2>3, <2>4, <2>5 DEF Next, OtherBegins, OtherEnds, vars
  <1>2. IInv /\ [Next]_vars => [\A c \in Requests : Told(c)]_vars
    BY <1>1
  <1> QED
    BY <1>2, Inductive, PTL DEF Spec, DuplicateIsFound
====
