---- MODULE Transactions ----
(***************************************************************************)
(* The transactions of the SQLite store, as the services use them through  *)
(* Store.WithinTx: a deferred BEGIN, reads of one snapshot, an upgrade to  *)
(* the single write lock at the first write, then COMMIT or ROLLBACK.      *)
(*                                                                         *)
(* db is the committed contents and wk the pages of the transaction that   *)
(* holds the write lock.  A request whose snapshot is still the newest     *)
(* committed contents is in fresh.  One whose snapshot has become stale    *)
(* can only be rolled back: SQLite refuses its first write, so nothing it  *)
(* computes is ever stored.  What it read is kept only where the answer it *)
(* gives without a write depends on it (see Allocation).                   *)
(***************************************************************************)
CONSTANTS Requests,     \* the calls a server may have in progress at once
          None          \* no request, no row, no line

VARIABLES db,           \* committed contents of the database
          wk,           \* contents seen by the holder of the write lock
          writer,       \* the request that holds the write lock, or None
          fresh         \* requests reading a snapshot nobody has replaced

tx == <<db, wk, writer, fresh>>

\* What a statement of r reads as long as r is live: its own writes, else its
\* snapshot.
View(r) == IF writer = r THEN wk ELSE db

\* r may still turn what it read into writes.
Live(r) == writer = r \/ r \in fresh

\* An upgrade succeeds only for a fresh snapshot while nobody holds the lock;
\* otherwise the statement fails at once with "database is locked".
CanWrite(r) == writer = r \/ (writer = None /\ r \in fresh)

\* The first read of a deferred transaction fixes its snapshot.
Read(r) == /\ fresh' = fresh \union {r}
           /\ UNCHANGED <<db, wk, writer>>

\* Writes of r, on top of what r sees.
Write(r, contents) == /\ CanWrite(r)
                      /\ writer' = r
                      /\ wk' = contents
                      /\ UNCHANGED <<db, fresh>>

\* The writes of a transaction whose first statement is a write: it waits for
\* the lock (busy_timeout) and then works on the newest contents.
WriteFirst(r, contents) == /\ writer = None
                           /\ writer' = r
                           /\ wk' = contents
                           /\ UNCHANGED <<db, fresh>>

\* COMMIT: every other snapshot is stale from now on.
Commit(r) == /\ writer = r
             /\ db' = wk
             /\ writer' = None
             /\ fresh' = {}
             /\ UNCHANGED wk

\* ROLLBACK, asked for by WithinTx or done by SQLite for a lost connection.
Rollback(r) == /\ writer' = IF writer = r THEN None ELSE writer
               /\ wk' = IF writer = r THEN db ELSE wk
               /\ fresh' = fresh \ {r}
               /\ UNCHANGED db

\* The process dies: the next Open finds the committed contents only.
LoseAll == /\ writer' = None
           /\ wk' = db
           /\ fresh' = {}
           /\ UNCHANGED db

StartStore(contents) == /\ db = contents
                        /\ wk = contents
                        /\ writer = None
                        /\ fresh = {}
====
