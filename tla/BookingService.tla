--------------------------- MODULE BookingService ---------------------------
(***************************************************************************)
(* services/booking.py as its threads run it.  A worker is one request     *)
(* handler: a thread with its own SQLAlchemy session, in one of the        *)
(* service's processes.  A request is a sequence of SQL statements, one    *)
(* step each, and the steps of different workers interleave as the engine  *)
(* allows:                                                                 *)
(*   - on Postgres a session reads what others committed before each of    *)
(*     its statements (READ COMMITTED), SELECT ... FOR UPDATE holds the    *)
(*     event row until the transaction ends, and an INSERT waits for an    *)
(*     uncommitted row that has the same unique key;                       *)
(*   - on SQLite BEGIN IMMEDIATE takes the one write lock of the database  *)
(*     when a transaction starts, and its end gives it back.               *)
(* A transaction's writes appear when it commits.                          *)
(***************************************************************************)
EXTENDS Seats, FiniteSets

CONSTANTS
  Workers,       \* request handlers that run at the same time
  Nobody,        \* the holder of a lock that is free
  Users,         \* the users that exist (accounts: see routers/auth.py)
  Admins,        \* those with is_admin
  Events,        \* the ids an event can have
  Keys,          \* the idempotency keys clients generate, all truthy
  Engine,        \* "postgres" or "sqlite"
  Requests,      \* the requests clients send
  MaxSeats,      \* the largest number of seats of one booking (schemas.py)
  MaxCapacity,   \* bound: the largest total_seats of an event
  MaxBookings    \* bound: rows the table can reach

HeaderValues == Keys \cup {NoKey, EmptyKey}

\* The bodies that pass validation, with the user the token names.
CreateReq == [op: {"create"}, user: Users, event: Events,
              seats: 1..MaxSeats, key: HeaderValues]
ModifyReq == [op: {"modify"}, user: Users, booking: 1..MaxBookings,
              seats: 1..MaxSeats]
CancelReq == [op: {"cancel"}, user: Users, booking: 1..MaxBookings]
NoReq     == [op |-> "none"]

Booking == [user: Users, event: Events, seats: 1..MaxSeats,
            status: Status, key: HeaderValues]
NoRow   == [status |-> "none"]

ASSUME WorkersAssumption  == Nobody \notin Workers
ASSUME AdminsAssumption   == Admins \subseteq Users
ASSUME KeysAssumption     == NoKey \notin Keys /\ EmptyKey \notin Keys
ASSUME EngineAssumption   == Engine \in {"postgres", "sqlite"}
ASSUME RequestsAssumption == Requests \subseteq CreateReq \cup ModifyReq \cup CancelReq
ASSUME BoundsAssumption   == /\ MaxSeats \in Nat \ {0}
                             /\ MaxCapacity \in Nat \ {0}
                             /\ MaxBookings \in Nat

VARIABLES
  total,      \* events.total_seats, 0 for an id that has no row
  available,  \* events.available_seats
  bookings,   \* the bookings table, as committed
  pc,         \* where the worker is in its handler
  req,        \* the request it serves
  row,        \* the Booking it loaded: the values of that moment
  booking,    \* the id of the Booking its handler holds, 0 for none
  seen,       \* event.available_seats as it read it under the lock
  reply,      \* what the handler answers
  rowLock,    \* Postgres: the transaction that holds the event row
  dbLock      \* SQLite: the transaction that holds the write lock

tables  == <<total, available, bookings>>
session == <<req, row, booking, seen>>
locks   == <<rowLock, dbLock>>
vars    == <<tables, session, pc, reply, locks>>

-----------------------------------------------------------------------------
(* Locks and transactions *)

\* A mutant: the event row stays locked after the end of the transaction.
ReleaseDbOnly(w) ==
  /\ dbLock' = IF dbLock = w THEN Nobody ELSE dbLock
  /\ UNCHANGED rowLock

\* Commit, rollback and close end the transaction and free what it holds.
Release(w) ==
  /\ rowLock' = [e \in Events |-> IF rowLock[e] = w THEN Nobody ELSE rowLock[e]]
  /\ dbLock' = IF dbLock = w THEN Nobody ELSE dbLock

\* A mutant: a plain BEGIN, SQLite's deferred transaction.
BeginDeferred(w) == dbLock = Nobody /\ UNCHANGED locks

\* The first statement of a transaction: BEGIN, on SQLite BEGIN IMMEDIATE.
Begin(w) ==
  /\ dbLock = Nobody
  /\ dbLock' = IF Engine = "sqlite" THEN w ELSE Nobody
  /\ UNCHANGED rowLock

Goto(w, label) == pc' = [pc EXCEPT ![w] = label]
Answer(w, a)   == reply' = [reply EXCEPT ![w] = a]

\* A mutant: the handler forgets db.rollback().
AbortWithoutRollback(w, a) ==
  /\ Answer(w, a)
  /\ Goto(w, "done")
  /\ UNCHANGED <<tables, session, locks>>

\* An exception leaves the handler: db.rollback(), then the error reply.
Abort(w, a) ==
  /\ Release(w)
  /\ Answer(w, a)
  /\ Goto(w, "done")
  /\ UNCHANGED <<tables, session>>

\* if idempotency_key: an empty string is falsy
HasKey(w) == req[w].op = "create" /\ req[w].key \in Keys

\* A mutant: the lookup forgets whose key it is.
KeyedByAnyone(w) == {i \in 1..Len(bookings) : bookings[i].key = req[w].key}

OwnKeyedRows(w) == KeyedRows(bookings, req[w].user, req[w].key)

\* _find_by_idempotency_key found a row: it is returned as a replay.
Replay(w) ==
  /\ \E i \in OwnKeyedRows(w) : booking' = [booking EXCEPT ![w] = i]
  /\ Answer(w, "replay")
  /\ Goto(w, "done")
  /\ UNCHANGED <<tables, req, row, seen>>

\* The event the handler locks.
TargetEvent(w) == IF req[w].op = "create" THEN req[w].event ELSE row[w].event

\* A mutant: a cancellation gives back one seat, not the booking's seats.
DeltaGivesOneBack(w) == IF req[w].op = "create" THEN req[w].seats
                        ELSE IF req[w].op = "modify" THEN req[w].seats - row[w].seats
                        ELSE 0 - 1

\* What the handler takes from available_seats (negative: gives back),
\* reckoned from the Booking it loaded.
Delta(w) == IF req[w].op = "create" THEN req[w].seats
            ELSE IF req[w].op = "modify" THEN req[w].seats - row[w].seats
            ELSE 0 - row[w].seats

NewAvailable(w) == seen[w] - Delta(w)

ChecksHold(w) == NewAvailable(w) \in 0..total[TargetEvent(w)]

\* A mutant: only a new booking asks for seats, a larger one does not.
EnoughForNewOnly(w) == req[w].op = "create" => available[TargetEvent(w)] >= Delta(w)

\* event.available_seats covers what the handler takes.
Enough(w) == available[TargetEvent(w)] >= Delta(w)

\* A mutant: SELECT without FOR UPDATE.
HoldEventUnlocked(w) == UNCHANGED rowLock

\* SELECT ... FOR UPDATE; SQLite's SELECT holds nothing more.
HoldEvent(w) ==
  rowLock' = IF Engine = "postgres"
             THEN [rowLock EXCEPT ![TargetEvent(w)] = w] ELSE rowLock

\* v inserted a row with the (user_id, idempotency_key) of w's and has not
\* ended its transaction.
PendingWith(w, v) ==
  /\ pc[v] = "commit"
  /\ req[v].op = "create" /\ req[w].op = "create"
  /\ req[v].user = req[w].user
  /\ req[v].key = req[w].key /\ req[w].key # NoKey

\* A mutant: no transaction waits for the row another one inserted.
NoDuplicatePending(w) == FALSE

\* On Postgres a second INSERT of the key waits for the outcome of the first.
DuplicatePending(w) == \E v \in Workers \ {w} : PendingWith(w, v)

\* A mutant: a duplicate that is not committed yet is refused, not waited for.
ViolatedAtOnce(w) ==
  \/ ~ChecksHold(w)
  \/ DuplicatePending(w)
  \/ req[w].op = "create" /\ ~UniqueAdmits(bookings, req[w].user, req[w].key)

\* The statements of the flush break a CHECK or the UNIQUE constraint.
Violated(w) ==
  \/ ~ChecksHold(w)
  \/ req[w].op = "create" /\ ~UniqueAdmits(bookings, req[w].user, req[w].key)

Authorized(w, b) == b.user = req[w].user \/ req[w].user \in Admins

\* A mutant: a cancelled booking is as good as any.
RefusalOfStrangers(w, i) ==
  IF i > Len(bookings) THEN "not_found"
  ELSE IF ~Authorized(w, bookings[i]) THEN "forbidden"
  ELSE "none"

\* Why the handler refuses to change booking i, as far as it can see now.
Refusal(w, i) ==
  IF i > Len(bookings) THEN "not_found"
  ELSE IF ~Authorized(w, bookings[i]) THEN "forbidden"
  ELSE IF Cancelled(bookings[i]) THEN "cancelled"
  ELSE "none"

-----------------------------------------------------------------------------
(* The steps *)

Init ==
  /\ total = [e \in Events |-> 0]
  /\ available = [e \in Events |-> 0]
  /\ bookings = <<>>
  /\ pc = [w \in Workers |-> "idle"]
  /\ req = [w \in Workers |-> NoReq]
  /\ row = [w \in Workers |-> NoRow]
  /\ booking = [w \in Workers |-> 0]
  /\ seen = [w \in Workers |-> 0]
  /\ reply = [w \in Workers |-> "none"]
  /\ rowLock = [e \in Events |-> Nobody]
  /\ dbLock = Nobody

\* POST /events by an admin: one INSERT in a transaction of its own.
CreateEvent(e, n) ==
  /\ Admins # {}
  /\ dbLock = Nobody
  /\ total[e] = 0
  /\ total' = [total EXCEPT ![e] = n]
  /\ available' = [available EXCEPT ![e] = n]
  /\ UNCHANGED <<bookings, session, pc, reply, locks>>

\* FastAPI hands a request to a thread, with a new session.
Receive(w, r) ==
  /\ pc[w] = "idle"
  /\ r.op = "create" =>
       Len(bookings) + Cardinality({v \in Workers : req[v].op = "create"})
         < MaxBookings
  /\ req' = [req EXCEPT ![w] = r]
  /\ Goto(w, "auth")
  /\ UNCHANGED <<tables, row, booking, seen, reply, locks>>

\* get_current_user loads the user: the session's transaction starts here.
Authenticate(w) ==
  /\ pc[w] = "auth"
  /\ Begin(w)
  /\ Goto(w, IF req[w].op # "create" THEN "load"
             ELSE IF HasKey(w) THEN "find" ELSE "lock")
  /\ UNCHANGED <<tables, session, reply>>

\* A mutant: no fast path, the key is left to the unique index.
FindNothing(w) ==
  /\ pc[w] = "find"
  /\ Goto(w, "lock")
  /\ UNCHANGED <<tables, session, reply, locks>>

\* create_booking's fast path, before the event row is touched.
FindReplay(w) ==
  /\ pc[w] = "find"
  /\ \/ Replay(w)
     \/ /\ OwnKeyedRows(w) = {}
        /\ Goto(w, "lock")
        /\ UNCHANGED <<tables, session, reply>>
  /\ UNCHANGED locks

\* modify_booking and cancel_booking read the booking, and judge it, before
\* they lock the event.  Neither looks at the row again.
LoadBooking(w) ==
  /\ pc[w] = "load"
  /\ LET i == req[w].booking
         refusal == Refusal(w, i)
     IN
     \/ refusal # "none" /\ Abort(w, refusal)
     \/ /\ refusal = "none"
        /\ row' = [row EXCEPT ![w] = bookings[i]]
        /\ booking' = [booking EXCEPT ![w] = i]
        /\ Goto(w, "lock")
        /\ UNCHANGED <<tables, req, seen, reply, locks>>

\* _lock_event, and the decision taken on the seats it read.
LockEvent(w) ==
  /\ pc[w] = "lock"
  /\ rowLock[TargetEvent(w)] = Nobody
  /\ \/ total[TargetEvent(w)] = 0 /\ Abort(w, "not_found")
     \/ /\ total[TargetEvent(w)] > 0
        /\ Delta(w) = 0          \* db.rollback(); return booking
        /\ Release(w)
        /\ Answer(w, "booking")
        /\ Goto(w, "refresh")
        /\ UNCHANGED <<tables, session>>
     \/ /\ total[TargetEvent(w)] > 0
        /\ ~Enough(w)
        /\ Abort(w, "insufficient_seats")
     \/ /\ total[TargetEvent(w)] > 0
        /\ Delta(w) # 0
        /\ Enough(w)
        /\ HoldEvent(w)
        /\ seen' = [seen EXCEPT ![w] = available[TargetEvent(w)]]
        /\ Goto(w, "flush")
        /\ UNCHANGED <<tables, req, row, booking, reply, dbLock>>

\* db.commit() first sends UPDATE events, then the booking's INSERT or
\* UPDATE.  A CHECK or the UNIQUE constraint raises IntegrityError, which
\* only create_booking, and only with a truthy key, tries to explain.
Flush(w) ==
  /\ pc[w] = "flush"
  /\ \/ Violated(w) /\ ~HasKey(w) /\ Abort(w, "error")
     \/ /\ Violated(w) /\ HasKey(w)
        /\ Release(w)
        /\ Goto(w, "refind")
        /\ UNCHANGED <<tables, session, reply>>
     \/ /\ ~Violated(w) /\ ~DuplicatePending(w)
        /\ Goto(w, "commit")
        /\ UNCHANGED <<tables, session, reply, locks>>

\* The commit of any of the three handlers: the counter becomes what was read
\* minus what is taken, the locks are freed with it.
Commit(w) ==
  /\ pc[w] = "commit"
  /\ available' = [available EXCEPT ![TargetEvent(w)] = NewAvailable(w)]
  /\ Release(w)
  /\ Answer(w, "booking")
  /\ Goto(w, "refresh")
  /\ UNCHANGED <<total, req, row, seen>>

CommitCreate(w) ==
  /\ req[w].op = "create"
  /\ Commit(w)
  /\ bookings' = Append(bookings,
                        [user |-> req[w].user, event |-> req[w].event,
                         seats |-> req[w].seats, status |-> "CONFIRMED",
                         key |-> req[w].key])
  /\ booking' = [booking EXCEPT ![w] = Len(bookings')]

\* A mutant: the row gets the difference instead of the new number.
CommitModifyDelta(w) ==
  /\ req[w].op = "modify"
  /\ Commit(w)
  /\ LET b == bookings[booking[w]]
     IN  bookings' = [bookings EXCEPT ![booking[w]] = Amended(b, Delta(w), "MODIFIED")]
  /\ UNCHANGED booking

\* UPDATE bookings sets the columns whose value differs from the one loaded:
\* the status is not written when the row loaded was MODIFIED already.
CommitModify(w) ==
  /\ req[w].op = "modify"
  /\ Commit(w)
  /\ LET b == bookings[booking[w]]
         s == IF row[w].status = "MODIFIED" THEN b.status ELSE "MODIFIED"
     IN  bookings' = [bookings EXCEPT ![booking[w]] = Amended(b, req[w].seats, s)]
  /\ UNCHANGED booking

CommitCancel(w) ==
  /\ req[w].op = "cancel"
  /\ Commit(w)
  /\ LET b == bookings[booking[w]]
     IN  bookings' = [bookings EXCEPT ![booking[w]] = Amended(b, b.seats, "CANCELLED")]
  /\ UNCHANGED booking

\* The unique index refused the row: the winner's booking is the answer, and
\* the IntegrityError is raised again when there is none.
Refind(w) ==
  /\ pc[w] = "refind"
  /\ Begin(w)
  /\ \/ Replay(w)
     \/ /\ OwnKeyedRows(w) = {}
        /\ Answer(w, "error")
        /\ Goto(w, "done")
        /\ UNCHANGED <<tables, session>>

\* db.refresh(booking), in a new transaction.
Refresh(w) ==
  /\ pc[w] = "refresh"
  /\ Begin(w)
  /\ Goto(w, "done")
  /\ UNCHANGED <<tables, session, reply>>

\* A statement fails: the connection is lost, SQLite's busy timeout ends, the
\* commit is refused.  The transaction is rolled back; what is committed stays.
Fail(w) ==
  /\ pc[w] \notin {"idle", "done"}
  /\ Abort(w, "error")

\* The reply is sent and get_db closes the session.
Respond(w) ==
  /\ pc[w] = "done"
  /\ Release(w)
  /\ Goto(w, "idle")
  /\ req' = [req EXCEPT ![w] = NoReq]
  /\ row' = [row EXCEPT ![w] = NoRow]
  /\ booking' = [booking EXCEPT ![w] = 0]
  /\ seen' = [seen EXCEPT ![w] = 0]
  /\ Answer(w, "none")
  /\ UNCHANGED tables

Step(w) ==
  \/ Authenticate(w) \/ FindReplay(w) \/ LoadBooking(w) \/ LockEvent(w)
  \/ Flush(w) \/ CommitCreate(w) \/ CommitModify(w) \/ CommitCancel(w)
  \/ Refind(w) \/ Refresh(w) \/ Respond(w)

Next ==
  \/ \E e \in Events, n \in 1..MaxCapacity : CreateEvent(e, n)
  \/ \E w \in Workers :
        \/ \E r \in Requests : Receive(w, r)
        \/ Step(w)
        \/ Fail(w)

\* A thread goes on as long as it can.  Postgres queues the waiters of a row
\* lock and of a unique key, so who waits is not passed over for ever.
Fairness ==
  \A w \in Workers : /\ WF_vars(Step(w))
                     /\ SF_vars(LockEvent(w))
                     /\ SF_vars(Flush(w))

Spec == Init /\ [][Next]_vars
FairSpec == Spec /\ Fairness

\* The clients' side of a contract the code relies on and does not enforce on
\* Postgres: two changes of one booking are never in flight together.
SerialChanges ==
  \A v, w \in Workers :
    /\ v # w
    /\ req[v].op \in {"modify", "cancel"}
    /\ req[w].op \in {"modify", "cancel"}
    => req[v].booking # req[w].booking

SerialNext == Next /\ (Engine = "postgres" => SerialChanges')
SerialSpec == Init /\ [][SerialNext]_vars

-----------------------------------------------------------------------------
(* Properties *)

Replies == {"none", "booking", "replay", "insufficient_seats", "not_found",
            "forbidden", "cancelled", "error"}
Labels  == {"idle", "auth", "find", "load", "lock", "flush", "commit",
            "refind", "refresh", "done"}

\* The type of every variable.
TypeOK ==
  /\ total \in [Events -> 0..MaxCapacity]
  /\ available \in [Events -> Nat]
  /\ bookings \in Seq(Booking)
  /\ pc \in [Workers -> Labels]
  /\ req \in [Workers -> Requests \cup {NoReq}]
  /\ row \in [Workers -> Booking \cup {NoRow}]
  /\ booking \in [Workers -> 0..Len(bookings)]
  /\ seen \in [Workers -> Nat]
  /\ reply \in [Workers -> Replies]
  /\ rowLock \in [Events -> Workers \cup {Nobody}]
  /\ dbLock \in Workers \cup {Nobody}

\* From the read under the lock to the commit, nobody changes the counter
\* the handler decided on (booking.py:74-75, "guaranteed current").
LockedReadIsCurrent ==
  \A w \in Workers :
    pc[w] \in {"flush", "commit"} => seen[w] = available[TargetEvent(w)]

\* The denormalised counter is what the live bookings leave (models.py:58-61).
CounterMatchesBookings ==
  \A e \in Events : available[e] = total[e] - Sold(bookings, e)

\* An event never has more seats booked than it has (README.md:4).
NoOversell ==
  \A e \in Events : Sold(bookings, e) <= total[e]

\* The CHECK constraints are a safety net nobody falls into: no transaction
\* ever asks for a counter outside 0..total_seats (models.py:66-71).
ChecksNeverFire ==
  \A w \in Workers : pc[w] = "flush" => ChecksHold(w)

\* A user's key names one booking, among the rows of concurrent inserts too
\* (models.py:97-100).
KeyNamesOneBooking ==
  \A i, j \in 1..Len(bookings) :
    /\ bookings[i].user = bookings[j].user
    /\ bookings[i].key = bookings[j].key
    /\ bookings[i].key # NoKey
    => i = j

\* The loser of a race between two requests with one key finds the winner's
\* booking: its IntegrityError never reaches the client (booking.py:94-101).
LoserFindsWinner ==
  \A w \in Workers : pc[w] = "refind" => OwnKeyedRows(w) # {}

\* A request whose key was already used is answered with the booking made
\* then, even if the first attempt never got its answer: not with a second
\* booking, and not with a refusal for lack of seats (booking.py:60-62).
RetryGetsReplay ==
  [][\A w \in Workers :
       /\ reply[w] = "none"
       /\ reply'[w] \notin {"none", "replay", "error"}
       /\ HasKey(w)
       => OwnKeyedRows(w) = {}]_vars

\* A cancellation is the last thing that happens to a booking.
CancelledIsFinal ==
  [][\A i \in 1..Len(bookings) :
       Cancelled(bookings[i]) => bookings'[i] = bookings[i]]_vars

\* An INSERT the unique index refuses is one whose winner create_booking looks
\* up and returns (booking.py:94-95): the key the client sent is honoured.
RefusedInsertIsExplained ==
  \A w \in Workers :
    /\ pc[w] = "flush"
    /\ req[w].op = "create"
    /\ ~UniqueAdmits(bookings, req[w].user, req[w].key)
    => HasKey(w)

\* An event row is locked only by a transaction that decided to write it.
LocksHaveOwners ==
  /\ \A e \in Events, w \in Workers :
       rowLock[e] = w => pc[w] \in {"flush", "commit"} /\ TargetEvent(w) = e
  /\ \A w \in Workers :
       dbLock = w => pc[w] \notin {"idle", "auth", "refind", "refresh"}

\* w cannot go on before v ends its transaction.
WaitsFor(w, v) ==
  \/ pc[w] \in {"auth", "refind", "refresh"} /\ dbLock = v
  \/ pc[w] = "lock" /\ rowLock[TargetEvent(w)] = v
  \/ pc[w] = "flush" /\ ~Violated(w) /\ v # w /\ PendingWith(w, v)

\* No deadlock among the handlers, although each takes an event row and then a
\* key in the unique index (or SQLite's lock, twice): of any set of them one
\* waits for nobody in the set, nor for a lock left behind (booking.py:72, 91).
NoDeadlock ==
  \A S \in (SUBSET Workers) \ {{}} :
    \E w \in S : \A v \in Workers :
       WaitsFor(w, v) => v \notin S /\ pc[v] # "idle"

\* The booking a client is answered with is the one it may see: made by the
\* same user under the same key for a creation, the very booking it named, and
\* may change, for a change (booking.py:44-47, 115-118, 153-156).
AnswerNamesOwnBooking ==
  \A w \in Workers :
    reply[w] \in {"booking", "replay"} =>
      /\ booking[w] \in 1..Len(bookings)
      /\ LET b == bookings[booking[w]] IN
         IF req[w].op = "create"
         THEN b.user = req[w].user /\ b.key = req[w].key
         ELSE booking[w] = req[w].booking /\ Authorized(w, b)

\* How far the counter is from what the live bookings leave.
Drift(e) == available[e] + Sold(bookings, e) - total[e]

\* w is about to commit a change it reckoned from a row that has changed since.
StaleChange(w) ==
  /\ pc[w] = "commit"
  /\ req[w].op \in {"modify", "cancel"}
  /\ row[w] # bookings[booking[w]]

\* Whatever clients send together, on either engine: counter and bookings of
\* an event come apart in the commit of a change of one of its own bookings
\* that was loaded before the lock and is stale (booking.py:115, 153), and in
\* no other step.
OnlyStaleChangesDrift ==
  [][\A e \in Events :
       Drift(e)' # Drift(e) =>
         \E w \in Workers : StaleChange(w) /\ TargetEvent(w) = e /\ pc'[w] # "commit"]_vars

\* Nor does any other step write a cancelled booking: what brings it back, or
\* changes its seats, was judged on the row as it was before (booking.py:119).
OnlyStaleChangesRevive ==
  [][\A i \in 1..Len(bookings) :
       Cancelled(bookings[i]) /\ bookings'[i] # bookings[i] =>
         \E w \in Workers : StaleChange(w) /\ booking[w] = i /\ pc'[w] # "commit"]_vars

\* A request whose key names a booking by now is never answered with another
\* one, on either engine.  It is replayed or fails; and the one refusal it may
\* get instead is the event's, which is judged before the key is tried
\* (booking.py:72-79).
OnlySeatTestRefusesRetries ==
  [][\A w \in Workers :
       /\ HasKey(w) /\ OwnKeyedRows(w) # {}
       /\ reply[w] = "none" /\ reply'[w] \notin {"none", "replay", "error"}
       => pc[w] = "lock" /\ reply'[w] \in {"insufficient_seats", "not_found"}]_vars

\* Every request gets its answer, however the others compete for the row.
EveryRequestAnswered ==
  \A w \in Workers : pc[w] # "idle" ~> pc[w] = "idle"

\* The handlers implement the promise of SeatLedger: each commit is one
\* atomic booking, change or cancellation, and the rest is invisible.
Ledger == INSTANCE SeatLedger WITH total <- total, bookings <- bookings
ImplementsLedger == Ledger!Spec

=============================================================================
