# A verification development of the Zeno ticketing service

TLA+ modules, TLC configurations and TLAPS proofs for the ticketing API in
`src/`. The service has one hard requirement, stated in the first lines of its
README: *an event must never sell more seats than it has*, however many
requests compete for them. Around it stand promises on retries
(`Idempotency-Key`), on cancellation, on accounts, on what every answer looks
like and on what a restart leaves behind. The project models the handlers
statement by statement, as the database engine interleaves them, and says which
of these promises hold, where, and why.

## The system

One FastAPI process per container runs synchronous handlers in a thread pool.
Each request has a SQLAlchemy session of its own; everything requests share is
in the database, Postgres in production and SQLite in development and tests,
except the rate limiter's counters, which are in the memory of the process.

| Component | State | Operations | What makes it correct |
|---|---|---|---|
| booking service (`app/services/booking.py`) | `events.available_seats`, `bookings` | create, modify, cancel | no oversell; the counter is what the live bookings leave; a key books once; a cancellation is final; no exit leaves a lock |
| booking routes (`app/routers/bookings.py`) | none | POST, PATCH, DELETE, reads | 201 for a new booking, 200 for a replay |
| tables (`app/models.py`) | `users`, `events`, `bookings` | CHECK, UNIQUE, foreign keys | a constraint is a safety net, never an answer to a customer |
| engine and sessions (`app/database.py`) | locks, transactions, pool | begin, commit, rollback, close | a decision is taken on values that are still true at the commit; what a request held is given back |
| authentication (`app/deps.py`) | none | user of a token, administrator check | runs first, so it opens the transaction |
| event catalogue (`app/routers/events.py`) | `events` | create, list, get | a new event has all its seats available |
| registration, login (`app/routers/auth.py`, `app/security.py`) | `users` | register, login | one account per email; a 201 and a token name the client's own account; the loser of a race gets the answer of a late-comer |
| startup (`seed.py`, lifespan in `app/main.py`) | `users`, `events` | create tables, seed | a restart at any point completes the seed and duplicates nothing |
| rate limiter (`app/ratelimit.py`) | counters per key, path and window, in memory | hit | at most N requests of a key per window and process; nobody pays for a stranger's requests |
| middleware and errors (`app/middleware.py`, `app/errors.py`, `app/main.py`) | the request's id | forward, answer, log | every failure in one envelope with its id, one log line per request |
| thread pool and connections | threads, connections, SQLite's write lock | wait, take, give back | the two pools never lock each other up for good |
| analytics (`app/routers/analytics.py`) | none | revenue, occupancy, trend | sums agree with the counter |
| logging, notifications, configuration, deployment, tools | none that a later request sees | | |

They meet in three places. Handlers meet in the database, through the row lock
of an event, the unique indexes and SQLite's one write lock. A request meets
the limiter and the middleware on its way in and out. And a request's jobs meet
other requests' jobs in the thread pool while the session keeps its connection.

What is hard: threads that interleave at every SQL statement; values read
before a lock and used after it; the unique indexes as meeting points of
transactions that share no lock; retries that race their first attempt;
failures between two statements or between a commit and the answer; containers
that die between two commits of the seed, or run it at the same time; two pools
that are taken in opposite orders; a window's edge; two engines with different
locking. `PROJECT.json` lists these hazards at the line where each bites, with
the properties that would notice.

## The modules

| Module | What it is |
|---|---|
| `Seats` | The `bookings` table and its arithmetic: `Sold` is the occupancy query's sum, `UniqueAdmits` the unique index. The table is a sequence whose n-th element is the row with id n; rows are never deleted. |
| `SeatLedger` | The abstract specification of the booking service: `Book`, `Change`, `Cancel` are indivisible, and the free seats are by definition what the live bookings leave. No counter, no threads, no locks. |
| `BookingService` | The booking service. `EXTENDS Seats`; `Ledger == INSTANCE SeatLedger WITH total <- total, bookings <- bookings`: counter, sessions and locks are hidden. |
| `AccountBook` | The abstract specification of registration and seed together: `Open` adds one account for an email that has none; nothing else ever happens to an account. |
| `Accounts` | `register`, `login` and `seed.py` in containers that crash and restart, over one users table. `Book == INSTANCE AccountBook WITH users <- users`. |
| `RequestPools` | What a request holds while it waits: threads, connections, SQLite's write lock, the event's row, and the timeouts. |
| `RequestFront` | Middleware stack, rate limiter, exception handlers, time, a restart of the process. |
| `MCBookingService`, `MCAccounts`, `MCRequestPools`, `MCRequestFront` | The instances for TLC: who there is and what clients send. |
| `SeatsProofs`, `BookingServiceProofs`, `BookingKeyProofs`, `SeatCounterProofs`, `LedgerProofs` | Proofs about the booking service: sums; types and locks; keys; the counter; the ledger. |
| `AccountsProofs`, `RequestPoolsProofs`, `RequestFrontProofs` | Proofs about the three other modules. |

`BookingService`, `RequestPools` and `RequestFront` look at the same requests
from three sides and share no variables: the first has every statement and no
pool, the second only the statements that wait, the third everything outside
the handler, which it takes as one step with any outcome.

### How `BookingService` corresponds to the code

A worker is a thread with its session; `pc` is where it is in its handler.
`Step(w)` is one SQL statement and the Python around it, up to the next one:

| Action | Code |
|---|---|
| `Receive` | a request enters one of the three writing routes |
| `Authenticate` | `get_current_user`: the first query, which begins the transaction (on SQLite it takes the write lock, `_sqlite_begin_immediate`) |
| `FindReplay` | the fast path of `create_booking` (64-68) |
| `LoadBooking` | `db.get(Booking, id)` and the checks on it in `modify_booking` (115-120) and `cancel_booking` (153-160); `row` keeps what was read |
| `LockEvent` | `_lock_event` and the decision on the seats (72-79, 124-133, 162): not found, nothing to change, not enough, or go on |
| `Flush` | the statements `db.commit()` sends first: CHECK and UNIQUE violations, and the wait for a pending duplicate key |
| `CommitCreate`, `CommitModify`, `CommitCancel` | COMMIT: the writes appear, the locks go |
| `Refind` | the second lookup after an IntegrityError (96-101) |
| `Refresh` | `db.refresh` after the commit, or the reload after the rollback of a change that changes nothing |
| `Fail` | any statement may fail: lost connection, busy timeout, refused commit; the handler rolls back and raises |
| `Respond` | the answer is sent and `get_db` closes the session |
| `CreateEvent` | `POST /events`, one INSERT |

Points that decide the outcome and are taken from the code as it is:

- `modify_booking` and `cancel_booking` load and judge the booking *before*
  they lock the event, and do not read it again. SQLAlchemy keeps the object
  in the session, so the number of seats and the status used after the lock
  are those of the load.
- The counter is read under the lock and written as an absolute value;
  `available_seats -= n` is a Python subtraction (`seen`, `NewAvailable`).
- An UPDATE of a booking writes only the columns whose value differs from the
  one loaded: a booking loaded as MODIFIED is not marked MODIFIED again, a
  cancellation writes the status and no seats.
- `if idempotency_key:` is a test for truth. An empty header is a value in
  the table and no key for the handler (`EmptyKey`, `HasKey`).
- `db.rollback()` and the session's close end the transaction (`Release`);
  what was committed before a failure stays, so a request may be answered
  with an error and yet have booked.

The engines are modelled from how the code uses them: on Postgres each
statement sees what is committed (READ COMMITTED, the default), FOR UPDATE
holds one row, an INSERT with a duplicate key waits for the transaction that
inserted the first; on SQLite BEGIN IMMEDIATE holds the database from the
transaction's first statement to its end. Uncommitted writes live in the
session and appear with the commit action. A wait is an action that is
disabled.

### How `Accounts` corresponds to the code

| Action | Code |
|---|---|
| `Boot`, `Skip`, `SkipAndClose`, `FindNothing`, `Insert`, `CommitSeed`, `RefreshSeed` | `seed.py`: `BootPlan` lists what it makes sure of, in its order (the tables; the administrator; the demo user; the events), and once more the tables, for the server's lifespan. Each is looked for first and committed on its own. |
| `Hash`, `FindTaken`, `FindNothing`, `Insert`, `InsertRefused`, `CommitRegister`, `RefreshRegister` | `register` (auth.py 18-32) |
| `LoadUser`, `Verify` | `_authenticate` behind `/auth/login` and `/auth/token` (35-54) |
| `InsertRefused` | the IntegrityError of the unique email: a handler answers 500; a seed ends, so `python seed.py && uvicorn` does not reach the server and the container restarts |
| `Fail`, `Respond` | `get_db` closes the session, which ends its transaction |
| `Crash` | a container dies with the seed or the handlers in it; the database rolls their transactions back |

A transaction goes on across items of the seed until it commits, as the code's
one session does: on SQLite an account that is found leaves the write lock with
the seed until it goes on. The seed hashes a password inside its transaction,
`register` before it.

### How `RequestPools` corresponds to the code

FastAPI runs each synchronous part of a request as a job of a thread pool: the
dependency `get_current_user`, the endpoint, the serialisation of its result.
The session lives across them. `Arrive` and the three queues are the jobs;
`Connect` is the first statement of a transaction, which checks a connection
out; `Begin`, `Rebegin` and `Reopen` are BEGIN (on SQLite BEGIN IMMEDIATE) of
the dependency's query, of `db.refresh` and of the reload while the answer is
serialised; `Lock` is `_lock_event`; `Commit`, `Refuse`, `Unchanged`, `Return`
are the endpoint's exits; `Close` is `get_db`'s `finally`, which runs without a
thread of the pool; `Timeout` is QueuePool's 30 seconds or SQLite's
busy_timeout. Three kinds of request are enough: one that is authenticated and
may write (`booking`), one that writes without a user (`signup`), one that only
reads (`read`). Left out is the INSERT's wait in a unique index for a pending
duplicate (booking.py:90-91, auth.py:30): it has no limit, but the one waited for
is at its commit and waits for nothing (`HandlersNeverDeadlock`,
`AccountsNeverDeadlock`), so no stall is made of it.

### How `RequestFront` corresponds to the code

`Stack` is the order in which Starlette nests the middleware of `main.py`, the
last one added outermost. `at` is how far a request is, inwards or outwards.
`EnterContext`/`LeaveContext` are `RequestContextMiddleware.dispatch`,
`LeaveSecurity` is `SecurityHeadersMiddleware`, `AnswerPreflight` is CORS, which
permits a preflight or refuses it with a plain-text 400 (`PlainText400`),
`CheckLimit` and `SkipLimiter` are slowapi's middleware with `rate_limit_key`,
which counts neither exempt routes nor what no route matches (404, 405),
`Handle` is router, handler and the exception handlers of the innermost layer,
`Deliver` is `handle_unexpected` in the outermost. A response is which status,
envelope, id and headers it has. `Tick` is the clock, `Restart` the loss of the
process's memory. `admitted` is a history variable that no action reads.

## The runs

The booking runs have users `ann`, `bob` and the administrator `root`, and the
table is full after `MaxBookings` = 2 rows, 3 in `pg_retries`. Workers are
symmetric, and symmetry is used in every run except the liveness runs and those
of `Accounts`, whose handlers belong to their containers.

| Run | Question | Instance | Result |
|---|---|---|---|
| `sqlite_atomic` | Does the SQLite service behave as the atomic ledger? | 2 workers, one event, capacities 1-2, bookings of 1-2 seats, all changes by owner, stranger and administrator | holds |
| `pg_retries` | Do the row lock and the unique index hold under retries on Postgres, what may refuse a retry, and do they never lock each other up? | 3 workers, 3 rows, one key on two events, a stranger's key of the same value, empty key, a cancellation, capacities 1-2 | they do; a retry of a booking that exists is refused for its event (unknown, or short of seats) or not at all |
| `pg_serial_changes` | Does the Postgres service behave as the ledger, and never oversell, if changes of one booking do not overlap? | as `sqlite_atomic`, capacities 1-3 | holds |
| `pg_answers` | Is every request answered, and what can make the counter wrong or bring a cancelled booking back, if clients may send anything at once? | 2 workers, two events, bookings and changes of 1-2 seats, a cancellation, with fairness | all are; only the commit of a change whose booking was rewritten since it was loaded |
| `accounts` | Do registrations and seeds open each account once, is nobody refused an email that has no account, and does every container come to serve a complete database, without a deadlock on the way? | 2 containers with a handler each, both engines, three crashes, one new email with two passwords and the administrator's | holds |
| `pools` | Can threads, connections and locks lock each other up? | 4 requests, 2 threads, 2 connections, both engines, with fairness | only under a crowd, in which whoever has a thread waits with a limit, and never for good |
| `front` | Which answers have the envelope, the id, the log line and the security headers, and does the limiter keep its limits? | 2 requests in flight, 2 clients behind one address, limit 2 in a window of 2 ticks, one restart | all but a refused preflight, which has no envelope, and a 500, which has no headers; it does |
| `pg_oversell` | Does an event on Postgres never sell more than it has? | as `sqlite_atomic` | **violated** |
| `pg_retry_refused` | Is a retry always answered with its booking on Postgres? | one seat, retries | **violated** |
| `empty_key` | Is every duplicate explained? | SQLite, retries | **violated** |
| `signup_race` | Is the loser of a registration race told that the email is taken? | 2 handlers, no crash | **violated** |
| `front_500` | Does every failure echo its id in `X-Request-ID`? | as `front` | **violated** |

Why the bounds are enough:

- *Bookings.* Two workers are enough for the interleavings of two handlers,
  which is what a row lock and a loaded row are exposed to. Three workers and
  three rows (`pg_retries`) have three creations in flight: a third can take the
  seats or the key between a loser and its winner, or wait for the event's row
  of one that waits in the index. There the SQLite half of `LocksHaveOwners` is
  idle; theorem `LocksOwned` has it. Elsewhere two rows are the least that show
  two keys meeting and two bookings sharing a counter; capacities around the sum of two bookings show
  the counter at both ends.
- *Accounts.* Two containers are what two overlapping seeds need, one handler
  in each what two registrations of one email need, beside the seeds. Three
  crashes kill one container in two different transactions of its seed and the
  other in between (`MaxCrashes`).
- *Pools.* Two threads and two connections are the smallest pools for which
  the two bounds of `StallNeedsCrowd` differ (3 requests on SQLite, 4 on
  Postgres), so four requests reach both stalls, and `StallTimesOut` is about
  something (`Threads`, `Connections`,
  `Serves`).
- *Front.* A limit of two is the least for which a burst across the edge is
  more than the limit (three requests); a window of two ticks and three
  instants (`MaxTime` = 2) put hits at the start, in the middle and at the end
  of one (`MaxRestarts` = 1 for the loss of the counters).

The proofs need none of these bounds.

### What the violations show

- **`pg_oversell`.** ann books the one seat of an event, and the counter is 0.
  Her cancellation loads the booking and locks the event; her change of the same
  booking to two seats loads it too, still confirmed with one seat. The
  cancellation commits and the counter is 1. The change then gets the lock, finds
  enough for the difference 2 - 1 and commits: the row is live with two seats and
  the counter is 0. Two seats of a one-seat event are sold; the counter stays
  inside the CHECK constraints, so the "three independent layers" do not see it.
  Two changes of one booking drift the counter in the same way. Cause:
  `booking.py:115` and `:153` read before `:124` and `:162` lock, and nothing is
  read again. The same commit rewrites a cancelled booking, which the check of
  the status at `booking.py:119` is there to refuse: on Postgres a cancellation
  is not final either. Only a stale change does this (`OnlyStaleChangesRevive`,
  run `pg_answers`).
- **`pg_retry_refused`.** A retry misses the fast path because the first
  attempt has not committed, waits for the event row, and finds no seats left:
  the first attempt took them. It is answered 409 `insufficient_seats`. No
  other refusal of a retry exists, but for one that names an event there is
  none of, and no second booking
  (`OnlySeatTestRefusesRetries`, run `pg_retries`).
- **`empty_key`.** Two bookings with an empty `Idempotency-Key`: the second is
  refused by the index and answered 500.
- **`signup_race`.** Two registrations of one email on Postgres both find
  nobody (`auth.py:25`). Both insert (`auth.py:30`); the second waits in the
  unique index for the first and is then refused. Nothing catches the
  IntegrityError, so the client gets a 500 where one that comes later gets 409
  `email_taken`. No account is harmed: `ImplementsAccountBook` and
  `AnswersNameOwnAccount` hold on both engines.
- **`front_500`.** A handler raises what no exception handler of the router
  answers. The exception passes `RequestContextMiddleware`, which logs it and
  raises it again (`middleware.py:33-43`), and `handle_unexpected` answers in the
  outermost layer (`main.py:127-137`): the 500 has the envelope and the id in it,
  and no `X-Request-ID`, where `src/README.md:136-145` promises both of every
  failure, without exception.

`pg_oversell`, `pg_retry_refused` and `signup_race` cannot happen on SQLite, the
engine of the test-suite: run `sqlite_atomic` checks `CancelledIsFinal` and
`RetryGetsReplay` there, run `accounts` `SqliteTellsTaken`, and that no event is oversold, no counter drifts and no CHECK is reached follows from the
theorems of `SerialSpec`, which on SQLite is `Spec` (`SqliteImplementsLedger`).

Some more things the models show, or that reading for them did, have no run of
their own and are worth knowing:

- `locustfile.py:80-101`, the load test's oversell check, computes the seats
  sold from the counter itself. The CHECK constraints keep the counter within
  its range, so the check cannot fail; `/analytics/occupancy` (`Sold`) would
  show what `pg_oversell` does.
- The server stands still with 55 requests in flight on Postgres (40 threads
  that wait for a connection, 15 connections held by requests that wait for a
  thread) and with 41 on SQLite, until a timeout ends one of them
  (`StallNeedsCrowd`, `EveryRequestAnswered`). No smaller number can stall it.
- Up to 2 * 100 - 1 requests of one user pass within a minute on one path
  (`BurstBound`), and each path has a counter of its own. The `Retry-After` of
  the 429 is a fixed 60 seconds.
- A preflight that CORS refuses (a method outside its list, an origin outside
  `CORS_ORIGINS`; `main.py:63-73`) is answered by the middleware itself with a
  plain-text 400: no envelope and no id in the body, against "every failure,
  without exception" of `src/README.md:136`. It is logged and has the header.
  `FailureHasEnvelope` states this exception, and only this one.
- The 500 has no security headers either, and no preflight's answer has them
  (`EveryReplyTraced`).
- Two seeds that start together on Postgres both insert the demo events; a
  seed that loses the race for the administrator's email ends with an
  IntegrityError, and the restart gets past it (`CatalogueBound`,
  `EveryInstanceServes`).
- `conftest.py:18` says that rate limiting is tested on its own; no test does.

### Fairness

`FairSpec` has weak fairness on each worker's `Step` (threads are scheduled
and the database answers) and strong fairness on `LockEvent` and `Flush`:
Postgres queues the waiters of a row lock and of a unique key in order, so one
of them is not passed over for ever. `Fail` and `Receive` have none. On SQLite
there is no such promise: its waiters poll, and may time out; the liveness run
is about Postgres only.

`Accounts` has weak fairness on each container's seed and on each handler, and
strong fairness on the `Insert` of a seed: Postgres tells each waiter of a
unique value what became of it. Crashes and requests have none.
`EveryInstanceServes` is stated of Postgres, for the reason above.

`RequestPools` has strong fairness on each request's `Step`. The thread limiter
serves its waiters in turn, and so does Postgres's row lock. A waiter for a
connection or for SQLite's lock is either served or timed out, and a timeout is
a `Step` too: this is what QueuePool's `pool_timeout` and SQLite's
`busy_timeout` give, and without them the liveness property fails.
`RequestFront` has no liveness property and no fairness.

## The proofs

TLAPS checks every theorem for all values of the constants: any number of
workers, users, events, keys, seats, containers, threads, connections, any
limit and any window. The assumptions are the named ASSUMEs of the modules: in
`BookingService` that `Nobody` is no worker, administrators are users, the two
special header values are no keys, there are two engines, requests are
well-formed, the bounds are numbers; in `Accounts` that containers and handlers
are different things, finitely many containers, and two different seeded
emails; in `RequestPools` finitely many requests and pools of at least one; in
`RequestFront` that the three kinds of path are disjoint, that a valid token
names its holder, and a limit and a window of at least one.

The booking service:

1. **Types** (`TypeCorrect`). `TypeInv` adds to `TypeOK` what each handler's
   session holds at each label (`SessionOK`): a worker past `load` has a row
   of the table that was not cancelled, one at `commit` has a counter within
   the CHECKs. That is what makes `available \in Nat` and `seats \in
   1..MaxSeats` inductive.
2. **Locks** (`LockedReads`, `LocksOwned`). `LockInv` says who holds what at
   which label; `Exclusion` follows: two workers between lock and commit have
   different events, or, on SQLite, there is only one.
   **Deadlock** (`HandlersNeverDeadlock`): among any workers there is one that
   waits for none of them and for nobody that has stopped. Who waits for
   SQLite's lock waits for its holder, who waits for nobody; who waits for an
   event's row waits for a worker past that lock; and who waits in the index
   for a key waits for one that has inserted, has only its commit left and
   waits for nothing. `WaitsFor` names these waits.
   **Progress** (`HandlersAdvance`) is what liveness rests on: whoever takes a
   step waits for nobody (`WaitersStay`), every statement leaves its handler
   fewer of them (`StatementsLeft`, at most seven: no handler loops), no step
   adds to another's, and while anyone is at work one of them waits for nobody.
   The converse, that who waits for nobody can take a step, speaks of ENABLED
   and is read off the guards, which `WaitsFor` repeats; the liveness runs depend
   on it.
3. **Keys** (`KeysUnique`, `LosersReplay`). `KeyInv` adds the rows that are
   inserted and not yet committed: they are admitted by the committed table
   and differ in key from each other. Both theorems hold on Postgres without
   any promise of the clients. **Retries** (`RetriesReplay`, on SQLite):
   `RetryInv` adds that a key the fast path did not find is still unused when
   the event row is read (`StillUnused`), since the transaction that looked
   holds the write lock and whoever commits does it alone (`CommitsAlone`). On
   Postgres the lookup holds nothing, and run `pg_retry_refused` shows the
   refusal. `RetriesRefusedBySeats` says of both engines that there is no other:
   past the event's row a used key is refused by the index, and then replayed
   (`KeyedAnswers`). **Answers** (`AnswersShowOwnBooking`): `AnswerInv` adds that the
   row a handler holds is, in user, key and event, which no statement ever
   writes again, the row of the booking it names; the loser of a race included.
4. **The counter** (`CounterIsExact`, `NothingOversold`, `ChecksIdle`,
   `CancelledStays`). Stated of `SerialSpec`: on SQLite this is `Spec` itself;
   on Postgres no two changes of one booking are in flight together, which
   the code does not enforce (see `pg_oversell`). The invariant needed is that
   a loaded row is still the row; the sum moves as the counter does by
   `SoldGrows` and `SoldMoves`, proved by induction over the table.
   **Without the condition** (`DriftIsStale`, `EventsAreIsolated`,
   `BookingsNeverOversell`). `Drift(e)` is how far the counter of `e` is from
   its bookings. `DriftInv` does not say that a loaded row is still the row,
   only that its event is: then a commit moves the counter by what the handler
   reckoned from the row it loaded, and the sum by what it writes over the row
   as it is now (`UpdateWrites`, `UpdateMovesSold`). If the two rows are the
   same, so are the two moves (`CommitKeepsDrift`); if they are not, the commit
   is a `StaleChange`. So the fault that `pg_oversell` shows is the only one
   there is in the counter's arithmetic, on any engine and with any clients. It
   does not spread: an event whose own bookings are not changed stale keeps an
   exact counter and is not oversold, whatever happens to others. `RevivalIsStale`
   says the same of a cancelled booking that comes back: any other commit writes
   over a row that is as it was loaded, and a cancelled one is not loaded. And
   clients that only book, which is what the load test does, cannot oversell, with
   retries, failures and any number of handlers, on either engine.
5. **The ledger** (`FreshImplementsLedger`). Each commit is one step of
   `SeatLedger`, every other step leaves its variables alone; this needs one
   condition, `FreshCommits`: no `StaleChange` commits. `ExactInv` adds to
   `DriftInv` that no counter has drifted, and `CommitFits` turns the counter
   read under the lock into the ledger's guard. So staleness is all that
   separates the service from the ledger, on either engine and whatever clients
   send. It cannot happen to a `SerialSpec` (`SerialChangesAreFresh`), whence
   `ServiceImplementsLedger`; nor, therefore, on SQLite, with no condition
   (`SqliteImplementsLedger`); nor to clients that only book, on either engine
   (`BookingsImplementLedger`). What it is worth is proved of the ledger alone:
   `LedgerIsRight` (no event oversold, no two bookings of one key; `LedgerInv`)
   and `LedgerCancelsOnce`.

Accounts (`AccountsProofs`):

6. **Types** (`AccountTypes`). `TypeInv` adds where a seed is in its plan at
   each label, and that a handler at a label of `register` serves one.
7. **The account book** (`AccountsImplementBook`). `UniqueInv`: an INSERT that
   waits for its commit is of an email that nobody has, and no other one of it
   waits. So each commit is a step of `AccountBook` and nothing else touches
   its variable, on either engine and with crashes anywhere. From the book
   follows what it is worth (`AccountsLast`): an email never has two accounts,
   and an account never changes or goes.
   **Deadlock** (`AccountsNeverDeadlock`): `HolderInv` says where a process
   that holds SQLite's lock can be, alive and not between two transactions, so
   it waits for nobody; on Postgres whoever is waited for is at its commit.
   **Progress** (`AccountsAdvance`): each statement takes a handler nearer to
   its answer (`HandlerLeft`) and a seed nearer to the server (`SeedLeft`),
   unless the unique index refuses the seed and its container starts again.
8. **SQLite** (`SqliteSignupsExplained`). `SqliteInv`: who is past the look
   holds the write lock and what it did not find is still not there.
9. **The seed** (`ServedIsSeeded`). `SeedInv`: what a container has behind it
   in its plan is there (`Reached`), whoever put it there; nothing is ever
   taken away; and no handler can open the seeded emails, since handlers only
   run in containers that serve.
10. **Answers** (`AnswersAreOwn`) and the **catalogue** (`CatalogueIsBounded`):
    on Postgres, the batches of events committed and the seeds that have found
    none (`Seeding`) together never exceed the containers. So the seed of a
    lone container is idempotent, wherever it dies (`LoneSeedIsIdempotent`).
    **Refusals** (`RefusalsAreTrue`): both the look and the index refuse for a
    committed row, since the index waits for one that is not, and accounts stay.

Pools (`RequestPoolsProofs`):

11. `PoolInv` says for each label whether the request has a thread
    (`ThreadsOK`) and a connection (`ConnsOK`), that the writer and the holder
    of the row have one, and that only a booking handler gets the row
    (`RowOK`). **`PoolTypes`**, **`NothingIsLeaked`** and **`RowHolders`**
    follow. **`StallNeeds`** counts: in a stall somebody waits for a thread,
    since the holders of all else are among those who wait (`StallWaits`); so
    all threads are taken, by requests that wait for the database; on SQLite
    these and the one who waits make `Threads` + 1; on Postgres they wait for
    connections, which are then all taken, by others than those, since who
    waits for a connection has none. So with no more requests than threads
    there is no stall (**`FewNeverStall`**), and in a stall every thread is
    with a request whose wait has a limit (**`StallsTimeOut`**).

Front (`RequestFrontProofs`):

12. `SlotInv` says what a request has at each place on its way in and out.
    **`FailuresEnveloped`** and **`RepliesTraced`** are its last place, with the
    exceptions named: a refused preflight has no envelope, a 500 no headers.
13. `WindowOK` ties a user's counter to the history: the last requests let
    through, as many as the counter says, are the current window's, the first
    of them started it, and whatever is a whole limit before that is a window's
    time older than the start. **`BurstsBounded`** and **`RefusalsAreEarned`**
    follow. They need that a user's bucket is hit by that user alone
    (`OwnBucket`).
14. `RateOK` says it of any number of windows: whatever is `k` limits before
    the current window's first request is `k` windows older than its start. The
    first hit of a new window finds one window more behind it (`RateOpens`).
    **`RateSustained`**: a period shorter than `k` windows sees fewer than
    `k + 1` limits. A client that returns at every edge gains less than one limit
    in all, where `BurstsBounded` alone would let it gain one at each. It
    speaks of every natural `k`, so no run checks it; for `k = 1` it is
    `BurstBound`.

Only model-checked: the liveness properties (`EveryRequestAnswered` of
`BookingService` and of `RequestPools`, `EveryInstanceServes`), since liveness
under fairness and ENABLED are out of the prover's reach. What of them needs
neither is proved: that who takes a step waits for nobody, that somebody always
waits for nobody, and that steps run out (`HandlersAdvance`, `AccountsAdvance`).
Every other invariant and action property of a passing run is a theorem.

## Not modelled, and why

- Reading routes, health and docs change no state another request sees; what
  they hold while they wait is the `read` of `RequestPools`. Revenue and trend
  are single SELECTs over the rows of `Seats`; the occupancy sum is `Sold`.
- Prices, names, dates, wording of errors and log lines carry no control.
  Input that validation refuses (422) and tokens that do not decode (401) end
  before any shared state is read; `RequestFront` has them as client errors.
- A counter written without its booking: the two statements go to the database
  in one transaction, and a commit is one action of the model. That they appear
  together is the database's promise, taken as it is.
- Notifications are log lines after the commit.
- A request's user is one that exists: nothing in the code deletes or demotes
  users. An event that is created has an id no request could have locked, so
  `CreateEvent` is one step.
- Postgres' deadlock detector is not needed: the waits-for relation among
  handlers has no cycle (`HandlersNeverDeadlock`), since a handler locks one
  event and inserts one key, last; nor has the one among seeds and sign-ups
  (`AccountsNeverDeadlock`); and no cycle through the pools contains the holder
  of a row (`RowHolders`).
- Several server processes: the start command fixes one (`--workers 1`), and
  the limiter's counters are per process by its own comment.
- Images, hosts, compose files beyond the start command and the restart policy;
  tests, load test and demo scripts, which were read for what they say.

## What could follow

A client that times out and retries under one key, composed with
`BookingService`; revenue over price snapshots as an operator on `Seats`.
