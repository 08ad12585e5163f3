---- MODULE Sessions_proofs ----
(***************************************************************************)
(* Proofs about Sessions, for any number of users, tokens and requests,    *)
(* any lifetime of a session, resolution of the clock and number of faults.*)
(***************************************************************************)
EXTENDS Sessions, TLAPS

(***************************************************************************)
(* The inductive invariant, with the rows, the accounts and the clock as   *)
(* parameters: what is said of one request, and of one row.                *)
(***************************************************************************)
ClosedRow(row, users, t) ==
    \/ row.status = "deleted"
    \/ row.status = "stored" /\ (row.revoked \/ row.expires <= t \/ row.user \notin users)

SpentRow(row, users, t) ==
    \/ row.revoked \/ row.expires <= t \/ row.user \notin users
    \/ row.status = "deleted" /\ Second(row.expires) <= Second(t)

RowFine(row, users, t) ==
    /\ row \in SessionRow
    /\ row.status # "unused" => row.user \in Users
    /\ row.status = "deleted" => SpentRow(row, users, t)

Fine(q, rows, users, t) ==
    /\ q \in RequestState
    /\ q.pc \in {"login", "serving"} => q.user \in Users
    /\ q.pc = "serving" => ~q.late
    /\ q.pc \in {"arrived", "checking", "serving"} =>
          /\ q.token \in Tokens
          /\ rows[q.token].status # "unused"
          /\ q.late => ClosedRow(rows[q.token], users, t)
    /\ q.pc = "checking" =>
          /\ q.row.user = rows[q.token].user /\ q.row.expires = rows[q.token].expires
          /\ q.row.revoked => rows[q.token].revoked
          /\ ~q.active => rows[q.token].user \notin users
          /\ q.late => ~(ActiveAt(q.row, t) /\ q.active)

Parts == /\ active \in SUBSET Users /\ now \in Nat /\ faults \in Nat
         /\ session \in [Tokens -> SessionRow] /\ req \in [Requests -> RequestState]
         /\ \A s \in Tokens : RowFine(session[s], active, now)
         /\ \A r \in Requests : Fine(req[r], session, active, now)

\* The parts make up the invariant.
LEMMA Split == IInv <=> Parts
  <1>1. IInv => Parts
    <2> SUFFICES ASSUME IInv PROVE Parts
      OBVIOUS
    <2>1. ASSUME NEW s \in Tokens PROVE RowFine(session[s], active, now)
      BY DEF IInv, TypeOK, RowFine, SpentRow, Spent
    <2>2. ASSUME NEW r \in Requests PROVE Fine(req[r], session, active, now)
      BY DEF IInv, TypeOK, ReadInv, NoLateEntry, InHandler, Closed, ClosedRow, Fine
    <2> QED
      BY <2>1, <2>2 DEF IInv, TypeOK, Parts
  <1>2. Parts => IInv
    <2> SUFFICES ASSUME Parts PROVE IInv
      OBVIOUS
    <2>1. ASSUME NEW r \in Requests
          PROVE  /\ ReadInv(r) /\ (req[r].pc = "serving" => ~req[r].late)
                 /\ InHandler(r) => /\ req[r].token \in Tokens
                                    /\ session[req[r].token].status # "unused"
                 /\ req[r].pc \in {"login", "serving"} => req[r].user \in Users
      BY DEF Parts, Fine, ReadInv, InHandler, Closed, ClosedRow
    <2>2. ASSUME NEW s \in Tokens
          PROVE  /\ session[s].status # "unused" => session[s].user \in Users
                 /\ session[s].status = "deleted" => Spent(s)
      BY DEF Parts, RowFine, SpentRow, Spent
    <2> QED
      BY <2>1, <2>2 DEF IInv, TypeOK, NoLateEntry, Parts
  <1> QED
    BY <1>1, <1>2

-----------------------------------------------------------------------------
\* Seconds follow the instants.
LEMMA SecondMonotone ==
    ASSUME NEW s \in Nat, NEW t \in Nat, s <= t
    PROVE  Second(s) <= Second(t)
  <1>1. TicksPerSecond \in Nat \ {0}
    BY FracAssumption
  <1> QED
    BY <1>1, SMT DEF Second

\* A row of this shape is a row, and a request at rest is fine.
LEMMA RowType ==
    /\ NoSession \in SessionRow /\ NoSession.status = "unused"
    /\ \A u \in Users, e \in Nat : /\ Stored(u, e) \in SessionRow
                                   /\ Stored(u, e).status = "stored" /\ Stored(u, e).user = u
  BY DEF NoSession, Stored, SessionRow

LEMMA IdleFine ==
    ASSUME NEW rows, NEW users, NEW t
    PROVE  Fine(Idle, rows, users, t) /\ Idle \in RequestState /\ Idle.pc = "idle"
  BY RowType DEF Fine, Idle, RequestState

\* What a request knows stays right while sessions are only closed, accounts
\* only deactivated and the clock only goes on.
Grows(rows, rows2, users, users2, t, t2) ==
    /\ users2 \subseteq users /\ t <= t2
    /\ \A s \in Tokens : rows[s].status # "unused" =>
          /\ rows2[s].user = rows[s].user /\ rows2[s].expires = rows[s].expires
          /\ rows[s].revoked => rows2[s].revoked
          /\ rows2[s].status \in {"stored", "deleted"}
          /\ rows[s].status = "deleted" => rows2[s].status = "deleted"

LEMMA FineGrows ==
    ASSUME NEW q, NEW rows \in [Tokens -> SessionRow], NEW rows2 \in [Tokens -> SessionRow],
           NEW users, NEW users2, NEW t \in Nat, NEW t2 \in Nat,
           Grows(rows, rows2, users, users2, t, t2), Fine(q, rows, users, t)
    PROVE  Fine(q, rows2, users2, t2)
  <1>1. CASE q.pc \notin {"arrived", "checking", "serving"}
    BY <1>1 DEF Fine
  <1>2. CASE q.pc \in {"arrived", "checking", "serving"}
    <2> DEFINE row == rows[q.token]
               row2 == rows2[q.token]
    <2>1. /\ q.token \in Tokens /\ row \in SessionRow /\ row.status # "unused"
          /\ row2.user = row.user /\ row2.expires = row.expires
          /\ row.revoked => row2.revoked
          /\ row2.status \in {"stored", "deleted"}
          /\ row.status = "deleted" => row2.status = "deleted"
          /\ users2 \subseteq users /\ t <= t2
      BY <1>2 DEF Fine, Grows
    <2>2. row.expires \in Nat
      BY <2>1 DEF SessionRow
    <2> HIDE DEF row, row2
    <2>3. ClosedRow(row, users, t) => ClosedRow(row2, users2, t2)
      BY <2>1, <2>2 DEF ClosedRow
    <2>4. ActiveAt(q.row, t2) /\ q.pc = "checking" => ActiveAt(q.row, t)
      <3>1. q.pc = "checking" => q.row.expires = row.expires
        BY DEF Fine, row
      <3> QED
        BY <3>1, <2>1, <2>2 DEF ActiveAt
    <2>5. q.pc = "checking" =>
          /\ q.row.user = row2.user /\ q.row.expires = row2.expires
          /\ q.row.revoked => row2.revoked
          /\ ~q.active => row2.user \notin users2
          /\ q.late => ~(ActiveAt(q.row, t2) /\ q.active)
      <3>1. q.pc = "checking" =>
            /\ q.row.user = row.user /\ q.row.expires = row.expires
            /\ q.row.revoked => row.revoked
            /\ ~q.active => row.user \notin users
            /\ q.late => ~(ActiveAt(q.row, t) /\ q.active)
        BY DEF Fine, row
      <3> QED
        BY <3>1, <2>1, <2>4
    <2>6. q.late => ClosedRow(row2, users2, t2)
      BY <1>2, <2>3 DEF Fine, row
    <2> QED
      BY <1>2, <2>1, <2>5, <2>6 DEF Fine, row2
  <1> QED
    BY <1>1, <1>2

\* A deleted row stays spent.
LEMMA RowGrows ==
    ASSUME NEW row, NEW users, NEW users2, NEW t \in Nat, NEW t2 \in Nat,
           users2 \subseteq users, t <= t2, RowFine(row, users, t)
    PROVE  RowFine(row, users2, t2)
  <1>1. row.expires \in Nat /\ Second(row.expires) \in Nat /\ Second(t) \in Nat /\ Second(t2) \in Nat
    BY FracAssumption DEF RowFine, SessionRow, Second
  <1>2. Second(t) <= Second(t2)
    BY SecondMonotone
  <1> QED
    BY <1>1, <1>2 DEF RowFine, SpentRow

-----------------------------------------------------------------------------
\* A step of a request that leaves rows, accounts and the clock alone.
LEMMA RequestStep ==
    ASSUME Parts, NEW r \in Requests, NEW q, Fine(q, session, active, now),
           req' = [req EXCEPT ![r] = q],
           active' = active, session' = session, now' = now, faults' \in Nat
    PROVE  Parts'
  <1>1. q \in RequestState
    BY DEF Fine
  <1>2. /\ req' \in [Requests -> RequestState] /\ req'[r] = q
        /\ \A p \in Requests : p # r => req'[p] = req[p]
    BY <1>1 DEF Parts
  <1>3. \A p \in Requests : Fine(req'[p], session, active, now)
    BY <1>2 DEF Parts
  <1> QED
    BY <1>2, <1>3 DEF Parts

\* Initially there are no sessions and no requests.
LEMMA InitParts == Init => Parts
  <1> SUFFICES ASSUME Init PROVE Parts
    OBVIOUS
  <1>1. RowFine(NoSession, active, now)
    BY RowType DEF RowFine
  <1> QED
    BY <1>1, RowType, IdleFine DEF Init, Parts

\* Login, read part: the user was found.
LEMMA LoginReadStep ==
    ASSUME Parts, NEW r \in Requests, NEW u \in Users, LoginRead(r, u)
    PROVE  Parts'
  <1> DEFINE q == [Idle EXCEPT !.pc = "login", !.user = u, !.at = now]
  <1>1. Fine(q, session, active, now)
    BY IdleFine DEF Fine, RequestState, Parts
  <1>2. req' = [req EXCEPT ![r] = q] /\ faults' \in Nat
    BY DEF LoginRead, Become, Parts
  <1> HIDE DEF q
  <1> QED
    BY <1>1, <1>2, RequestStep DEF LoginRead

\* A request with a token begins.
LEMMA ArriveStep ==
    ASSUME Parts, NEW r \in Requests, NEW s \in Tokens, Arrive(r, s)
    PROVE  Parts'
  <1> PICK late \in BOOLEAN : late = Closed(s)
    BY DEF Closed, Parts, SessionRow
  <1> DEFINE q == [Idle EXCEPT !.pc = "arrived", !.token = s, !.late = late]
  <1>1. q \in RequestState /\ q.pc = "arrived" /\ q.token = s /\ q.late = late
    BY IdleFine DEF RequestState
  <1>2. req' = [req EXCEPT ![r] = q] /\ faults' \in Nat
    BY DEF Arrive, Become, Parts
  <1> HIDE DEF q
  <1>3. Fine(q, session, active, now)
    BY <1>1 DEF Fine, Arrive, Closed, ClosedRow
  <1> QED
    BY <1>2, <1>3, RequestStep DEF Arrive

\* findSession: what is read is the row as it is.
LEMMA AuthReadStep ==
    ASSUME Parts, NEW r \in Requests, AuthRead(r)
    PROVE  Parts'
  <1> PICK row \in SessionRow : row = session[req[r].token]
    BY DEF AuthRead, Parts, Fine
  <1> PICK old \in RequestState : old = req[r]
    BY DEF Parts
  <1> DEFINE ok == row.user \in active
             q == [old EXCEPT !.pc = "checking", !.row = row, !.active = ok]
  <1>1. /\ old.pc = "arrived" /\ row.status = "stored" /\ req' = [req EXCEPT ![r] = q]
    BY DEF AuthRead, Become
  <1> ok \in BOOLEAN
    OBVIOUS
  <1> HIDE DEF ok
  <1>2. /\ q \in RequestState /\ q.pc = "checking" /\ q.row = row /\ q.active = ok
        /\ q.token = old.token /\ q.late = old.late
    BY DEF RequestState
  <1> HIDE DEF q
  <1>3. /\ old.token \in Tokens /\ session[old.token] = row
        /\ old.late => ClosedRow(row, active, now)
    BY <1>1 DEF Parts, Fine
  <1>4. row.expires \in Nat /\ now \in Nat
    BY DEF Parts, SessionRow
  <1>5. old.late => ~(ActiveAt(row, now) /\ ok)
    BY <1>1, <1>3, <1>4 DEF ClosedRow, ActiveAt, ok
  <1>6. Fine(q, session, active, now)
    BY <1>1, <1>2, <1>3, <1>5 DEF Fine, ok
  <1> QED
    BY <1>1, <1>6, RequestStep DEF AuthRead, Parts

\* The middleware admits a request: the one it read about was not closed before.
LEMMA AuthAdmitStep ==
    ASSUME Parts, NEW r \in Requests, AuthAdmit(r)
    PROVE  Parts'
  <1> PICK old \in RequestState : old = req[r]
    BY DEF Parts
  <1> DEFINE q == [old EXCEPT !.pc = "serving", !.user = old.row.user, !.row = NoSession]
  <1>1. /\ old.pc = "checking" /\ req' = [req EXCEPT ![r] = q]
        /\ ActiveAt(old.row, now) /\ old.active
    BY DEF AuthAdmit, Become
  <1>2. Fine(old, session, active, now)
    BY DEF Parts
  <1>3. /\ old.token \in Tokens /\ session[old.token].status # "unused" /\ ~old.late
        /\ old.row.user = session[old.token].user
    BY <1>1, <1>2 DEF Fine
  <1>4. old.row.user \in Users
    BY <1>3 DEF Parts, RowFine
  <1>5. /\ q \in RequestState /\ q.pc = "serving" /\ q.user = old.row.user
        /\ q.token = old.token /\ q.late = old.late
    BY <1>4, RowType DEF RequestState
  <1> HIDE DEF q
  <1>6. Fine(q, session, active, now)
    BY <1>3, <1>4, <1>5 DEF Fine
  <1> QED
    BY <1>1, <1>6, RequestStep DEF AuthAdmit, Parts

\* A request ends and changes nothing else.
LEMMA EndStep ==
    ASSUME Parts, NEW r \in Requests,
           \/ AuthNotFound(r) \/ AuthRefuse(r) \/ Work(r) \/ LogoutNotFound(r) \/ Fails(r)
    PROVE  Parts'
  <1>1. /\ req' = [req EXCEPT ![r] = Idle] /\ active' = active /\ session' = session
        /\ now' = now /\ faults' \in Nat
    BY DEF AuthNotFound, AuthRefuse, Work, LogoutNotFound, Fails, Become, Parts
  <1> QED
    BY <1>1, IdleFine, RequestStep

-----------------------------------------------------------------------------
\* A step that changes one row, and ends the request that did.
LEMMA OneRowStep ==
    ASSUME Parts, NEW r \in Requests, NEW s \in Tokens, NEW row,
           RowFine(row, active, now), row.status = "stored",
           session[s].status # "unused" =>
              /\ row.user = session[s].user /\ row.expires = session[s].expires
              /\ session[s].revoked => row.revoked
              /\ session[s].status # "deleted",
           session' = [session EXCEPT ![s] = row], req' = [req EXCEPT ![r] = Idle],
           active' = active, now' = now, faults' = faults
    PROVE  Parts'
  <1>1. row \in SessionRow
    BY DEF RowFine
  <1>2. /\ session' \in [Tokens -> SessionRow] /\ session'[s] = row
        /\ \A t \in Tokens : t # s => session'[t] = session[t]
    BY <1>1 DEF Parts
  <1>3. /\ req' \in [Requests -> RequestState] /\ req'[r] = Idle
        /\ \A p \in Requests : p # r => req'[p] = req[p]
    BY IdleFine DEF Parts
  <1>4. Grows(session, session', active, active, now, now)
    <2>1. ASSUME NEW t \in Tokens, session[t].status # "unused"
          PROVE  /\ session'[t].user = session[t].user /\ session'[t].expires = session[t].expires
                 /\ session[t].revoked => session'[t].revoked
                 /\ session'[t].status \in {"stored", "deleted"}
                 /\ session[t].status = "deleted" => session'[t].status = "deleted"
      BY <2>1, <1>2 DEF Parts, SessionRow
    <2> QED
      BY <2>1 DEF Grows, Parts
  <1>5. \A p \in Requests : Fine(req[p], session', active, now)
    BY <1>2, <1>4, FineGrows DEF Parts
  <1>6. \A p \in Requests : Fine(req'[p], session', active, now)
    BY <1>3, <1>5, IdleFine
  <1>7. \A t \in Tokens : RowFine(session'[t], active, now)
    BY <1>2 DEF Parts
  <1> QED
    BY <1>2, <1>3, <1>6, <1>7 DEF Parts

\* createSession.
LEMMA LoginInsertStep ==
    ASSUME Parts, NEW r \in Requests, NEW s \in Tokens, NEW at \in 0..Horizon,
           LoginInsert(r, s, at)
    PROVE  Parts'
  <1> PICK u \in Users : u = req[r].user
    BY DEF LoginInsert, Parts, Fine
  <1> PICK e \in Nat : e = at + TTL
    BY SessionsAssumption
  <1>1. RowFine(Stored(u, e), active, now) /\ Stored(u, e).status = "stored"
    BY RowType DEF RowFine
  <1> QED
    BY <1>1, OneRowStep DEF LoginInsert, Become

\* revokeSession.
LEMMA LogoutStep ==
    ASSUME Parts, NEW r \in Requests, Logout(r)
    PROVE  Parts'
  <1> PICK s \in Tokens : s = req[r].token
    BY DEF Logout, Parts, Fine
  <1> DEFINE row == [session[s] EXCEPT !.revoked = TRUE]
  <1>1. session[s] \in SessionRow /\ RowFine(session[s], active, now)
        /\ session[s].status = "stored"
    BY DEF Logout, Revocable, Parts
  <1>2. /\ row \in SessionRow /\ row.status = "stored" /\ row.user = session[s].user
        /\ row.expires = session[s].expires /\ row.revoked
    BY <1>1 DEF SessionRow
  <1>3. session' = [session EXCEPT ![s] = row] /\ req' = [req EXCEPT ![r] = Idle]
    BY DEF Logout, Become
  <1> HIDE DEF row
  <1>4. RowFine(row, active, now)
    BY <1>1, <1>2 DEF RowFine
  <1> QED
    BY <1>1, <1>2, <1>3, <1>4, OneRowStep DEF Logout

-----------------------------------------------------------------------------
\* The clock and the administrator.
LEMMA WorldStep ==
    ASSUME Parts, Tick \/ \E u \in Users : Deactivate(u)
    PROVE  Parts'
  <1>1. /\ session' = session /\ req' = req /\ faults' = faults
        /\ active' \subseteq active /\ now' \in Nat /\ now <= now'
    BY DEF Tick, Deactivate, Parts
  <1>2. \A s \in Tokens : RowFine(session[s], active', now')
    BY <1>1, RowGrows DEF Parts
  <1>3. Grows(session, session, active, active', now, now')
    BY <1>1 DEF Grows, Parts, SessionRow
  <1>4. \A r \in Requests : Fine(req[r], session, active', now')
    BY <1>1, <1>3, FineGrows DEF Parts
  <1> QED
    BY <1>1, <1>2, <1>4 DEF Parts

\* DeleteExpiredSessions: what it removes is spent.
LEMMA DeleteStep ==
    ASSUME Parts, NEW at \in 0..Horizon, DeleteExpired(at)
    PROVE  Parts'
  <1>1. /\ at \in Nat /\ at <= now /\ now \in Nat
        /\ session' = [s \in Tokens |-> IF Removable(session[s], at)
                                        THEN [session[s] EXCEPT !.status = "deleted"]
                                        ELSE session[s]]
        /\ active' = active /\ req' = req /\ now' = now /\ faults' = faults
    BY SessionsAssumption DEF DeleteExpired, Parts
  <1>2. ASSUME NEW s \in Tokens
        PROVE  /\ session'[s] \in SessionRow /\ RowFine(session'[s], active, now)
               /\ session[s].status # "unused" =>
                  /\ session'[s].user = session[s].user
                  /\ session'[s].expires = session[s].expires
                  /\ session[s].revoked => session'[s].revoked
                  /\ session'[s].status \in {"stored", "deleted"}
                  /\ session[s].status = "deleted" => session'[s].status = "deleted"
    <2>1. session[s] \in SessionRow /\ RowFine(session[s], active, now)
      BY DEF Parts
    <2>2. CASE ~Removable(session[s], at)
      BY <2>1, <2>2, <1>1 DEF SessionRow
    <2>3. CASE Removable(session[s], at)
      <3>1. session'[s] = [session[s] EXCEPT !.status = "deleted"]
        BY <2>3, <1>1
      <3>2. /\ session'[s] \in SessionRow /\ session'[s].status = "deleted"
            /\ session'[s].user = session[s].user /\ session'[s].expires = session[s].expires
            /\ session'[s].revoked = session[s].revoked /\ session[s].status = "stored"
        BY <2>1, <2>3, <3>1 DEF SessionRow, Removable
      <3>3. session[s].revoked \/ Second(session[s].expires) <= Second(now)
        <4>1. CASE session[s].revoked
          BY <4>1
        <4>2. CASE TextLeq(session[s].expires, at)
          <5>1. session[s].expires \in Nat
            BY <2>1 DEF SessionRow
          <5>2. /\ Second(session[s].expires) \in Nat /\ Second(at) \in Nat
                /\ Second(now) \in Nat
            BY <5>1, <1>1, FracAssumption DEF Second
          <5>3. Second(session[s].expires) <= Second(at)
            BY <4>2, <5>2 DEF TextLeq, TextLess
          <5>4. Second(at) <= Second(now)
            BY <1>1, SecondMonotone
          <5> QED
            BY <5>2, <5>3, <5>4
        <4> QED
          BY <2>3, <4>1, <4>2 DEF Removable
      <3> QED
        BY <2>1, <3>2, <3>3 DEF RowFine, SpentRow
    <2> QED
      BY <2>2, <2>3
  <1>3. session' \in [Tokens -> SessionRow]
    BY <1>1, <1>2
  <1>4. Grows(session, session', active, active, now, now)
    <2>1. active \subseteq active /\ now <= now
      BY DEF Parts
    <2> QED
      BY <2>1, <1>2 DEF Grows
  <1>5. \A r \in Requests : Fine(req[r], session', active, now)
    BY <1>1, <1>3, <1>4, FineGrows DEF Parts
  <1> QED
    BY <1>1, <1>2, <1>3, <1>5 DEF Parts

\* A crash ends all requests.
LEMMA CrashStep == ASSUME Parts, Crash PROVE Parts'
  BY IdleFine DEF Crash, Parts

-----------------------------------------------------------------------------
\* What a request has read is out of date only in that its session has been
\* closed since: the inductive invariant of every behaviour.
THEOREM Inductive == Spec => []IInv
  <1>1. Parts /\ [Next]_vars => Parts'
    <2> SUFFICES ASSUME Parts, [Next]_vars PROVE Parts'
      OBVIOUS
    <2>1. ASSUME NEW r \in Requests, Progress(r) \/ Fails(r) PROVE Parts'
      BY <2>1, AuthReadStep, AuthAdmitStep, EndStep, LogoutStep DEF Progress
    <2>2. CASE UNCHANGED vars
      BY <2>2 DEF vars, Parts
    <2> QED
      BY <2>1, <2>2, WorldStep, DeleteStep, CrashStep, LoginReadStep, ArriveStep, LoginInsertStep
      DEF Next
  <1> QED
    BY <1>1, InitParts, Split, PTL DEF Spec

\* Rows, requests and clock keep their types.
THEOREM TypeCorrect == Spec => []TypeOK
  <1>1. IInv => TypeOK
    BY DEF IInv
  <1> QED
    BY <1>1, Inductive, PTL

\* A request that came after its session was closed is never served, however
\* the steps of the middleware, logouts, the administrator, the cleanup and the
\* clock interleave.
THEOREM NobodyEntersLate == Spec => []NoLateEntry
  <1>1. IInv => NoLateEntry
    BY DEF IInv
  <1> QED
    BY <1>1, Inductive, PTL

\* Nobody with a live session is refused, save in the last second of it.
THEOREM RefusalsAreRight == Spec => RefusedRightly
  <1> DEFINE Step == \A r \in Requests :
         (/\ req[r].pc \in {"arrived", "checking"} /\ req'[r].pc = "idle"
          /\ faults' = faults) => Spent(req[r].token)
  <1>1. IInv /\ [Next]_vars => [Step]_vars
    <2> SUFFICES ASSUME IInv, Parts, Next, NEW r \in Requests,
                        req[r].pc \in {"arrived", "checking"}, req'[r].pc = "idle",
                        faults' = faults
                 PROVE  Spent(req[r].token)
      BY Split
    <2>1. /\ req \in [Requests -> RequestState] /\ faults \in Nat /\ now \in Nat
          /\ req[r].token \in Tokens /\ Fine(req[r], session, active, now)
          /\ session[req[r].token] \in SessionRow
      BY DEF Parts, Fine
    <2>2. /\ ~Tick /\ ~Crash /\ \A at \in 0..Horizon : ~DeleteExpired(at)
          /\ \A u \in Users : ~Deactivate(u)
          /\ \A p \in Requests : ~Fails(p)
      BY <2>1 DEF Tick, Crash, DeleteExpired, Deactivate, Fails
    <2>3. PICK p \in Requests :
             \/ Progress(p)
             \/ \E u \in Users : LoginRead(p, u)
             \/ \E s \in Tokens : Arrive(p, s) \/ \E at \in 0..Horizon : LoginInsert(p, s, at)
      BY <2>2 DEF Next
    <2>4. p = r
      <3>1. \E state : req' = [req EXCEPT ![p] = state]
        BY <2>3, Zenon DEF Progress, LoginRead, Arrive, LoginInsert, AuthRead, AuthNotFound,
                           AuthAdmit, AuthRefuse, Work, Logout, LogoutNotFound, Become
      <3>2. p # r => req'[r] = req[r]
        BY <2>1, <3>1
      <3> QED
        BY <3>2
    <2>5. AuthRead(r) \/ AuthNotFound(r) \/ AuthAdmit(r) \/ AuthRefuse(r)
      BY <2>3, <2>4 DEF Progress, LoginRead, Arrive, LoginInsert, Work, Logout, LogoutNotFound
    <2>6. CASE AuthNotFound(r)
      <3>1. session[req[r].token].status = "deleted"
        BY <2>1, <2>6 DEF AuthNotFound, Fine, SessionRow
      <3> QED
        BY <2>1, <3>1 DEF IInv
    <2>7. CASE AuthRefuse(r)
      <3>1. session[req[r].token].expires \in Nat
        BY <2>1 DEF SessionRow
      <3> QED
        BY <2>1, <2>7, <3>1 DEF AuthRefuse, Fine, ActiveAt, Spent
    <2>8. ~AuthRead(r) /\ ~AuthAdmit(r)
      <3>1. AuthRead(r) => req'[r].pc = "checking"
        BY <2>1 DEF AuthRead, Become, RequestState
      <3>2. AuthAdmit(r) => req'[r].pc = "serving"
        BY <2>1 DEF AuthAdmit, Become, RequestState
      <3> QED
        BY <3>1, <3>2
    <2> QED
      BY <2>5, <2>6, <2>7, <2>8
  <1> QED
    BY <1>1, Inductive, PTL DEF Spec, RefusedRightly
====
