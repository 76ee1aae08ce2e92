----------------------------- MODULE RequestPools -----------------------------
(***************************************************************************)
(* What a request holds while it waits.  FastAPI runs the synchronous      *)
(* parts of a request - the dependency get_current_user, the endpoint, the *)
(* serialisation of what it returns - one after the other, each as a job   *)
(* of a thread pool.  The session of the request lives across them: its    *)
(* database connection, and on SQLite the write lock that BEGIN IMMEDIATE  *)
(* took, stay with it while it waits for the next thread.  A commit or a   *)
(* rollback gives both back, the refresh that follows a commit takes them  *)
(* again, and get_db's close, which needs no thread of the pool, ends it.  *)
(* BookingService has the same handlers statement by statement; here only  *)
(* the statements that wait are left, and of these not the INSERT's wait   *)
(* in a unique index for a pending duplicate: who is waited for there is   *)
(* at its commit and waits for nothing (NoDeadlock of BookingService and   *)
(* of Accounts), so such a wait is never part of a stall.                  *)
(***************************************************************************)
EXTENDS Naturals, FiniteSets

CONSTANTS
  Requests,      \* requests the server can be working on at one time
  Threads,       \* size of the thread pool, 40
  Connections,   \* pool_size + max_overflow, 15
  Serves,        \* bound: the kinds of request each of them may be
  Nobody         \* the holder of a lock that is free

\* booking: the user is loaded by the dependency, then the endpoint runs.
\* signup:  no user; the endpoint is the first job (register).
\* read:    no user; the endpoint only reads (GET /events, login).
Kinds == {"booking", "signup", "read"}

ASSUME RequestsAssumption == IsFiniteSet(Requests) /\ Nobody \notin Requests
ASSUME PoolsAssumption    == /\ Threads \in Nat \ {0}
                             /\ Connections \in Nat \ {0}
ASSUME ServesAssumption   == Serves \in [Requests -> SUBSET Kinds]

VARIABLES
  database,   \* which engine DATABASE_URL names
  kind,       \* what each request is
  pc,         \* where it is
  threads,    \* the requests that have a thread
  conns,      \* those whose session has a connection
  writer,     \* SQLite: the request that holds the write lock
  row         \* Postgres: the request that holds the event's row

vars == <<database, kind, pc, threads, conns, writer, row>>

Queues  == {"queue_first", "queue_handler", "queue_reply"}
Labels  == Queues \cup {"idle", "connect", "begin", "handle", "lock",
                        "write", "reconnect", "rebegin", "reload", "reopen",
                        "reply", "close"}

InFlight == {r \in Requests : pc[r] # "idle"}

Goto(r, label) == pc' = [pc EXCEPT ![r] = label]

\* A mutant: a job never waits for a thread.
AnyThread == TRUE

\* The limiter of the thread pool has a token.
FreeThread == Cardinality(threads) < Threads

\* QueuePool has a connection, or may open one more.
FreeConnection == Cardinality(conns) < Connections

\* A mutant: the event's row outlives the transaction.
DisconnectKeepsRow(r) ==
  /\ conns' = conns \ {r}
  /\ writer' = IF writer = r THEN Nobody ELSE writer
  /\ UNCHANGED row

\* The connection goes back to the pool; its transaction is over.
Disconnect(r) ==
  /\ conns' = conns \ {r}
  /\ writer' = IF writer = r THEN Nobody ELSE writer
  /\ row' = IF row = r THEN Nobody ELSE row

\* BEGIN; on SQLite BEGIN IMMEDIATE, which waits for the write lock.
TakeWriteLock(r) ==
  IF database = "sqlite" THEN writer = Nobody /\ writer' = r ELSE UNCHANGED writer

-----------------------------------------------------------------------------
(* The steps *)

Init ==
  /\ database \in {"postgres", "sqlite"}
  /\ kind = [r \in Requests |-> "none"]
  /\ pc = [r \in Requests |-> "idle"]
  /\ threads = {}
  /\ conns = {}
  /\ writer = Nobody
  /\ row = Nobody

Arrive(r, k) ==
  /\ pc[r] = "idle"
  /\ kind' = [kind EXCEPT ![r] = k]
  /\ Goto(r, "queue_first")
  /\ UNCHANGED <<database, threads, conns, writer, row>>

\* A job gets its thread.
Start(r) ==
  /\ pc[r] \in Queues
  /\ FreeThread
  /\ threads' = threads \cup {r}
  /\ Goto(r, IF pc[r] = "queue_first" THEN "connect"
             ELSE IF pc[r] = "queue_handler" THEN "handle"
             ELSE IF r \in conns THEN "reply" ELSE "reload")
  /\ UNCHANGED <<database, kind, conns, writer, row>>

\* The first statement of a transaction checks a connection out.
Connect(r) ==
  /\ pc[r] \in {"connect", "reconnect", "reload"}
  /\ FreeConnection
  /\ conns' = conns \cup {r}
  /\ Goto(r, IF pc[r] = "connect" THEN "begin"
             ELSE IF pc[r] = "reconnect" THEN "rebegin" ELSE "reopen")
  /\ UNCHANGED <<database, kind, threads, writer, row>>

\* A mutant: the dependency reads the event FOR UPDATE along with the user.
BeginLocksRow(r) ==
  /\ pc[r] = "begin"
  /\ TakeWriteLock(r)
  /\ kind[r] # "booking" \/ row = Nobody
  /\ row' = IF kind[r] = "booking" THEN r ELSE row
  /\ threads' = IF kind[r] = "signup" THEN threads ELSE threads \ {r}
  /\ Goto(r, IF kind[r] = "booking" THEN "queue_handler"
             ELSE IF kind[r] = "signup" THEN "write" ELSE "queue_reply")
  /\ UNCHANGED <<database, kind, conns>>

\* The transaction starts and the first SELECT runs.  get_current_user and a
\* handler that only reads are done with it, and leave the transaction open;
\* register goes on to its INSERT.
Begin(r) ==
  /\ pc[r] = "begin"
  /\ TakeWriteLock(r)
  /\ threads' = IF kind[r] = "signup" THEN threads ELSE threads \ {r}
  /\ Goto(r, IF kind[r] = "booking" THEN "queue_handler"
             ELSE IF kind[r] = "signup" THEN "write" ELSE "queue_reply")
  /\ UNCHANGED <<database, kind, conns, row>>

\* The handler wants a seat counter: it goes for the event's row.
WantRow(r) ==
  /\ pc[r] = "handle"
  /\ Goto(r, "lock")
  /\ UNCHANGED <<database, kind, threads, conns, writer, row>>

\* SELECT ... FOR UPDATE, which SQLite ignores.  Postgres waits without limit.
Lock(r) ==
  /\ pc[r] = "lock"
  /\ IF database = "postgres" THEN row = Nobody /\ row' = r ELSE UNCHANGED row
  /\ Goto(r, "write")
  /\ UNCHANGED <<database, kind, threads, conns, writer>>

\* A replay or a list: the handler returns without a write, its transaction
\* still open.
Return(r) ==
  /\ pc[r] = "handle"
  /\ threads' = threads \ {r}
  /\ Goto(r, "queue_reply")
  /\ UNCHANGED <<database, kind, conns, writer, row>>

\* A refusal or a failed statement: the booking handlers roll back first,
\* register leaves its transaction to get_db.  There is nothing to serialise.
Refuse(r) ==
  /\ pc[r] \in {"handle", "write"}
  /\ threads' = threads \ {r}
  /\ IF kind[r] = "booking" THEN Disconnect(r) ELSE UNCHANGED <<conns, writer, row>>
  /\ Goto(r, "close")
  /\ UNCHANGED <<database, kind>>

\* db.commit(); the next statement is db.refresh().
Commit(r) ==
  /\ pc[r] = "write"
  /\ Disconnect(r)
  /\ Goto(r, "reconnect")
  /\ UNCHANGED <<database, kind, threads>>

\* db.refresh() opens a transaction, and the handler returns with it open.
Rebegin(r) ==
  /\ pc[r] = "rebegin"
  /\ TakeWriteLock(r)
  /\ threads' = threads \ {r}
  /\ Goto(r, "queue_reply")
  /\ UNCHANGED <<database, kind, conns, row>>

\* modify_booking to the same number of seats: db.rollback() and return.  The
\* rollback expired the booking's columns ...
Unchanged(r) ==
  /\ pc[r] = "write"
  /\ kind[r] = "booking"
  /\ Disconnect(r)
  /\ threads' = threads \ {r}
  /\ Goto(r, "queue_reply")
  /\ UNCHANGED <<database, kind>>

\* ... so the job that serialises it loads them again.
Reopen(r) ==
  /\ pc[r] = "reopen"
  /\ TakeWriteLock(r)
  /\ Goto(r, "reply")
  /\ UNCHANGED <<database, kind, threads, conns, row>>

\* The response model is filled in.
Serialize(r) ==
  /\ pc[r] = "reply"
  /\ threads' = threads \ {r}
  /\ Goto(r, "close")
  /\ UNCHANGED <<database, kind, conns, writer, row>>

\* get_db closes the session, whatever happened; the response is sent.
Close(r) ==
  /\ pc[r] = "close"
  /\ Disconnect(r)
  /\ kind' = [kind EXCEPT ![r] = "none"]
  /\ Goto(r, "idle")
  /\ UNCHANGED <<database, threads>>

\* r waits for a connection that others hold, or for SQLite's write lock.
WaitsForDatabase(r) ==
  \/ pc[r] \in {"connect", "reconnect", "reload"} /\ ~FreeConnection
  \/ pc[r] \in {"begin", "rebegin", "reopen"} /\ database = "sqlite" /\ writer # Nobody

\* A mutant: the waits have no limit.
NoTimeout(r) == FALSE /\ UNCHANGED vars

\* A mutant: the thread of a job that raised is not given back.
TimeoutKeepsThread(r) ==
  /\ WaitsForDatabase(r)
  /\ Goto(r, "close")
  /\ UNCHANGED <<database, kind, threads, conns, writer, row>>

\* The wait is given up, after QueuePool's 30 s or SQLite's busy_timeout: the
\* exception ends the job, and the request is answered 500.
Timeout(r) ==
  /\ WaitsForDatabase(r)
  /\ threads' = threads \ {r}
  /\ Goto(r, "close")
  /\ UNCHANGED <<database, kind, conns, writer, row>>

Step(r) ==
  \/ Start(r) \/ Connect(r) \/ Begin(r) \/ WantRow(r) \/ Return(r) \/ Lock(r)
  \/ Refuse(r) \/ Commit(r) \/ Unchanged(r) \/ Rebegin(r) \/ Reopen(r) \/ Serialize(r)
  \/ Close(r) \/ Timeout(r)

Next == \E r \in Requests : Step(r) \/ \E k \in Serves[r] : Arrive(r, k)

Spec == Init /\ [][Next]_vars

\* The thread limiter and Postgres's row lock serve their waiters in turn, so
\* nobody is passed over for ever.  The waiters for a connection or for
\* SQLite's write lock are assumed to get it or to give up.
Fairness == \A r \in Requests : SF_vars(Step(r))

FairSpec == Spec /\ Fairness

-----------------------------------------------------------------------------
(* Properties *)

\* The type of every variable, and the size of the pools.
TypeOK ==
  /\ database \in {"postgres", "sqlite"}
  /\ kind \in [Requests -> Kinds \cup {"none"}]
  /\ pc \in [Requests -> Labels]
  /\ threads \subseteq Requests /\ Cardinality(threads) <= Threads
  /\ conns \subseteq Requests /\ Cardinality(conns) <= Connections
  /\ writer \in Requests \cup {Nobody}
  /\ row \in Requests \cup {Nobody}

\* r can take no step but to give up.
Blocked(r) ==
  \/ pc[r] \in Queues /\ ~FreeThread
  \/ WaitsForDatabase(r)
  \/ pc[r] = "lock" /\ database = "postgres" /\ row # Nobody

Stalled == InFlight # {} /\ \A r \in InFlight : Blocked(r)

\* Threads full of requests that wait for the database, and what they wait
\* for held by requests that wait for a thread: the whole server stands still
\* until somebody times out.  It takes at least a thread pool of waiters and,
\* behind them, a connection pool of holders on Postgres (40 + 15) or the one
\* writer on SQLite (40 + 1): below that load there is always a request that
\* goes on (database.py:23, 43 and 60).
StallNeedsCrowd ==
  Stalled =>
    Cardinality(InFlight) >= Threads + IF database = "sqlite" THEN 1 ELSE Connections

\* And it ends: in a stall every thread of the pool is held by a request whose
\* wait has a limit, QueuePool's 30 s or busy_timeout's 15 s.  None of them is at
\* the event's row, where Postgres would let it wait for ever (database.py:43).
StallTimesOut ==
  Stalled => ~FreeThread /\ \A r \in threads : WaitsForDatabase(r)

\* The event's row, for which others wait without limit, is only held by a
\* request with a thread and a connection: it never waits itself for either
\* pool, so no cycle goes through the row (booking.py:36).
RowHolderRuns ==
  row # Nobody =>
    /\ pc[row] = "write"
    /\ row \in threads /\ row \in conns
    /\ ~Blocked(row)

\* Whatever way a request ended, it has given back its thread, its connection
\* and its locks (database.py:66-72); and a request that waits for a thread
\* has none.
NothingLeaks ==
  /\ threads \subseteq {r \in InFlight : pc[r] \notin Queues \cup {"close"}}
  /\ conns \subseteq InFlight
  /\ {writer, row} \ {Nobody} \subseteq conns

\* Every request is answered in the end, a stall included: the pool's and
\* SQLite's timeouts break it.
EveryRequestAnswered ==
  \A r \in Requests : pc[r] # "idle" ~> pc[r] = "idle"

=============================================================================
