---- MODULE Sessions ----
(***************************************************************************)
(* Sessions (service/auth.go, middleware/auth.go, storage/sqlite/auth.go): *)
(* Login stores a session for a token, the middleware looks the token up   *)
(* once at the start of a request, Logout revokes the session of the       *)
(* request it came with, DeleteExpiredSessions removes old rows.  None of  *)
(* them runs in a transaction: each statement stands alone, and what a     *)
(* request has read may be out of date at its next step.                   *)
(*                                                                         *)
(* A token is random, so it stands for its session.  Passwords, digests    *)
(* and roles are left out.                                                 *)
(***************************************************************************)
EXTENDS TextTime, Naturals

CONSTANTS Users,
          Tokens,
          Requests,     \* the requests a server may have in progress at once
          None,         \* no user, no token
          TTL,          \* SESSION_TTL, in ticks
          Horizon,      \* bound: the clock stops here
          MaxFaults     \* bound: failed statements, cancellations and crashes

ASSUME SessionsAssumption ==
    /\ None \notin Users /\ None \notin Tokens
    /\ TTL \in Nat \ {0} /\ Horizon \in Nat /\ MaxFaults \in Nat

VARIABLES active,       \* the users whose account is active
          session,      \* session[s]: the row of token s
          req,          \* req[r]: what request r is doing
          now,          \* the clock
          faults        \* faults so far

vars == <<active, session, req, now, faults>>

-----------------------------------------------------------------------------
NoSession == [status |-> "unused", user |-> None, expires |-> 0, revoked |-> FALSE]

\* late is not in the program: the session was closed when the request came.
Idle == [pc |-> "idle", user |-> None, token |-> None, at |-> 0,
         row |-> NoSession, active |-> FALSE, late |-> FALSE]

Become(r, state) == req' = [req EXCEPT ![r] = state]

\* Mutant: a revoked session still counts.
ActiveAtUnrevoked(row, at) == at < row.expires

\* Mutant: a session never expires.
ActiveAtEver(row, at) == ~row.revoked

ActiveAt(row, at) == ~row.revoked /\ at < row.expires

\* Mutant: the comparison with the end of the session is turned around.
RemovableFresh(row, at) ==
    row.status = "stored" /\ (TextLess(at, row.expires) \/ row.revoked)

\* The condition of DeleteExpiredSessions.
Removable(row, at) ==
    row.status = "stored" /\ (TextLeq(row.expires, at) \/ row.revoked)

\* The condition of the UPDATE of revokeSession, for the row of the token.
Revocable(row, user) == row.status = "stored" /\ row.user = user /\ ~row.revoked

\* The row createSession writes.
Stored(user, expires) ==
    [status |-> "stored", user |-> user, expires |-> expires, revoked |-> FALSE]

\* The token of s is good for nothing any more.
Closed(s) == \/ session[s].status = "deleted"
             \/ /\ session[s].status = "stored"
                /\ \/ session[s].revoked \/ session[s].expires <= now
                   \/ session[s].user \notin active

-----------------------------------------------------------------------------
\* Login finds an active user with that password.
LoginRead(r, u) ==
    /\ req[r].pc = "idle"
    /\ u \in active
    /\ Become(r, [Idle EXCEPT !.pc = "login", !.user = u, !.at = now])
    /\ UNCHANGED <<active, session, now, faults>>

\* Login takes the time and stores the session under a new token, whatever
\* became of the user meanwhile.
LoginInsert(r, s, at) ==
    /\ req[r].pc = "login"
    /\ session[s].status = "unused"
    /\ at \in req[r].at .. now
    /\ session' = [session EXCEPT ![s] = Stored(req[r].user, at + TTL)]
    /\ Become(r, Idle)
    /\ UNCHANGED <<active, now, faults>>

\* A request comes with a token some login has handed out.
Arrive(r, s) ==
    /\ req[r].pc = "idle"
    /\ session[s].status # "unused"
    /\ Become(r, [Idle EXCEPT !.pc = "arrived", !.token = s, !.late = Closed(s)])
    /\ UNCHANGED <<active, session, now, faults>>

\* findSession: the rows of the session and of its user, in one statement.
AuthRead(r) ==
    LET row == session[req[r].token] IN
    /\ req[r].pc = "arrived"
    /\ row.status = "stored"
    /\ Become(r, [req[r] EXCEPT !.pc = "checking", !.row = row, !.active = row.user \in active])
    /\ UNCHANGED <<active, session, now, faults>>

\* ErrUnauthorized.
AuthNotFound(r) ==
    /\ req[r].pc = "arrived"
    /\ session[req[r].token].status # "stored"
    /\ Become(r, Idle)
    /\ UNCHANGED <<active, session, now, faults>>

\* Mutant: the identity does not get the user of the session.
AuthAdmitNobody(r) ==
    /\ req[r].pc = "checking"
    /\ ActiveAt(req[r].row, now) /\ req[r].active
    /\ Become(r, [req[r] EXCEPT !.pc = "serving", !.row = NoSession])
    /\ UNCHANGED <<active, session, now, faults>>

\* The rest of Authenticate, on what was read; then the handler runs.
AuthAdmit(r) ==
    /\ req[r].pc = "checking"
    /\ ActiveAt(req[r].row, now) /\ req[r].active
    /\ Become(r, [req[r] EXCEPT !.pc = "serving", !.user = req[r].row.user, !.row = NoSession])
    /\ UNCHANGED <<active, session, now, faults>>

\* ErrExpired.
AuthRefuse(r) ==
    /\ req[r].pc = "checking"
    /\ ~(ActiveAt(req[r].row, now) /\ req[r].active)
    /\ Become(r, Idle)
    /\ UNCHANGED <<active, session, now, faults>>

\* A handler other than that of logout is through.
Work(r) ==
    /\ req[r].pc = "serving"
    /\ Become(r, Idle)
    /\ UNCHANGED <<active, session, now, faults>>

\* Logout of the identity the middleware found: 204, or 404 for the second.
Logout(r) ==
    /\ req[r].pc = "serving"
    /\ Revocable(session[req[r].token], req[r].user)
    /\ session' = [session EXCEPT ![req[r].token].revoked = TRUE]
    /\ Become(r, Idle)
    /\ UNCHANGED <<active, now, faults>>

LogoutNotFound(r) ==
    /\ req[r].pc = "serving"
    /\ ~Revocable(session[req[r].token], req[r].user)
    /\ Become(r, Idle)
    /\ UNCHANGED <<active, session, now, faults>>

\* A statement fails or the client goes away: the request changes nothing.  A
\* lookup that fails is answered like an unknown token.
Fails(r) ==
    /\ req[r].pc # "idle"
    /\ faults < MaxFaults
    /\ faults' = faults + 1
    /\ Become(r, Idle)
    /\ UNCHANGED <<active, session, now>>

Crash ==
    /\ faults < MaxFaults
    /\ faults' = faults + 1
    /\ req' = [r \in Requests |-> Idle]
    /\ UNCHANGED <<active, session, now>>

\* An administrator closes an account; the program never writes users.active.
Deactivate(u) ==
    /\ active' = active \ {u}
    /\ UNCHANGED <<session, req, now, faults>>

\* DeleteExpiredSessions, exported by the store for a caller of its own.  What
\* the row said is kept, for the properties; nothing reads it any more.
DeleteExpired(at) ==
    /\ at <= now
    /\ session' = [s \in Tokens |-> IF Removable(session[s], at)
                                    THEN [session[s] EXCEPT !.status = "deleted"]
                                    ELSE session[s]]
    /\ UNCHANGED <<active, req, now, faults>>

Tick ==
    /\ now < Horizon
    /\ now' = now + 1
    /\ UNCHANGED <<active, session, req, faults>>

-----------------------------------------------------------------------------
Init == /\ active = Users
        /\ session = [s \in Tokens |-> NoSession]
        /\ req = [r \in Requests |-> Idle]
        /\ now = 0
        /\ faults = 0

Progress(r) == \/ AuthRead(r) \/ AuthNotFound(r) \/ AuthAdmit(r) \/ AuthRefuse(r)
               \/ Work(r) \/ Logout(r) \/ LogoutNotFound(r)

Next == \/ Tick \/ Crash
        \/ \E at \in 0..Horizon : DeleteExpired(at)
        \/ \E u \in Users : Deactivate(u)
        \/ \E r \in Requests :
              \/ Progress(r) \/ Fails(r)
              \/ \E u \in Users : LoginRead(r, u)
              \/ \E s \in Tokens : Arrive(r, s) \/ \E at \in 0..Horizon : LoginInsert(r, s, at)

Spec == Init /\ [][Next]_vars

\* A request that has begun goes on: Go schedules it, statements are answered.
FairSpec == Spec /\ \A r \in Requests : WF_vars(Progress(r))

-----------------------------------------------------------------------------
SessionRow == [status : {"unused", "stored", "deleted"}, user : Users \union {None},
               expires : Nat, revoked : BOOLEAN]
RequestState == [pc : {"idle", "login", "arrived", "checking", "serving"},
                 user : Users \union {None}, token : Tokens \union {None}, at : Nat,
                 row : SessionRow, active : BOOLEAN, late : BOOLEAN]

InHandler(r) == req[r].pc \in {"arrived", "checking", "serving"}

\* Every variable has its type; a request past login has a token, a served one
\* and a stored session have a user.
TypeOK == /\ active \in SUBSET Users
          /\ session \in [Tokens -> SessionRow]
          /\ req \in [Requests -> RequestState]
          /\ \A r \in Requests : InHandler(r) => /\ req[r].token \in Tokens
                                                 /\ session[req[r].token].status # "unused"
          /\ \A r \in Requests : req[r].pc \in {"login", "serving"} => req[r].user \in Users
          /\ \A s \in Tokens : session[s].status # "unused" => session[s].user \in Users
          /\ now \in Nat
          /\ faults \in Nat

\* No request is served that came when its session was already revoked,
\* expired or deleted, or its user's account closed, whatever was read when
\* ("checked against the current active user on every authenticated request",
\* README.md:32).
NoLateEntry == \A r \in Requests : req[r].pc = "serving" => ~req[r].late

\* A client is refused only if its session was revoked or is over, or its
\* account is closed: neither a row that was read too soon nor the cleanup takes
\* a live session away, except that the cleanup, which compares expires_at as
\* text, may do so within the last second.
Spent(s) == \/ session[s].revoked
            \/ session[s].expires <= now
            \/ session[s].status = "deleted" /\ Second(session[s].expires) <= Second(now)
            \/ session[s].user \notin active
RefusedRightly ==
    [][\A r \in Requests :
         (/\ req[r].pc \in {"arrived", "checking"} /\ req'[r].pc = "idle"
          /\ faults' = faults) => Spent(req[r].token)]_vars

\* The inductive invariant: what a request has read is out of date only in
\* that the session has been closed since, and only spent sessions are deleted.
ReadInv(r) ==
    /\ InHandler(r) /\ req[r].late => Closed(req[r].token)
    /\ req[r].pc = "checking" =>
          LET row == session[req[r].token] IN
          /\ req[r].row.user = row.user /\ req[r].row.expires = row.expires
          /\ req[r].row.revoked => row.revoked
          /\ ~req[r].active => row.user \notin active
          /\ req[r].late => ~(ActiveAt(req[r].row, now) /\ req[r].active)

IInv == /\ TypeOK
        /\ \A r \in Requests : ReadInv(r)
        /\ NoLateEntry
        /\ \A s \in Tokens : session[s].status = "deleted" => Spent(s)

\* Liveness: once a session is closed, the requests that still run under it end,
\* and from then on none does.
Drained == \A s \in Tokens :
    Closed(s) ~> [](\A r \in Requests : ~(req[r].pc = "serving" /\ req[r].token = s))
====
