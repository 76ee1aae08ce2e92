------------------------------- MODULE Accounts -------------------------------
(***************************************************************************)
(* Where accounts come from: routers/auth.py, and the seed script that runs*)
(* before every start of the server.  Two kinds of process share the users *)
(* table and its unique email:                                             *)
(*   - an instance is one container: `python seed.py && uvicorn ...',      *)
(*     started again whenever it ends.  It creates the tables, the         *)
(*     administrator, the demo user and the events, each only if absent    *)
(*     and each in a transaction of its own, then serves;                  *)
(*   - a worker is a request handler of a serving instance, running        *)
(*     register or login.                                                  *)
(* All of them look first and insert afterwards.  On Postgres others act   *)
(* between the two statements and the unique index decides; on SQLite      *)
(* BEGIN IMMEDIATE lets one transaction run at a time.  The engine is      *)
(* chosen in the initial state.  Passwords are abstracted to secrets that  *)
(* are equal or not, a hash to the secret it was made of.                  *)
(***************************************************************************)
EXTENDS Naturals, Sequences, FiniteSets

CONSTANTS
  Instances,    \* containers that share one database
  Workers,      \* request handlers
  Host,         \* the instance each worker belongs to
  Nobody,       \* the holder of a lock that is free
  Emails,       \* emails that pass validation
  Secrets,      \* passwords
  AdminEmail,   \* ADMIN_EMAIL of seed.py
  DemoEmail,    \* DEMO_EMAIL
  SeedSecret,   \* ADMIN_PASSWORD and DEMO_PASSWORD
  Requests,     \* the requests clients send
  MaxCrashes    \* bound: how often an instance is killed

Procs == Instances \cup Workers

\* The bodies of POST /auth/register and of /auth/login and /auth/token.
RegisterReq == [op: {"register"}, email: Emails, secret: Secrets]
LoginReq    == [op: {"login"}, email: Emails, secret: Secrets]
NoReq       == [op |-> "none"]

Account == [email: Emails, secret: Secrets, admin: BOOLEAN]

\* seed.py's init_db, its two accounts and its events, then init_db again in
\* the server's lifespan.
BootPlan == <<"tables", AdminEmail, DemoEmail, "events", "tables">>

ASSUME ProcsAssumption   == /\ Instances \cap Workers = {}
                            /\ Nobody \notin Procs
                            /\ IsFiniteSet(Instances)
ASSUME HostAssumption    == Host \in [Workers -> Instances]
ASSUME EmailsAssumption  == /\ {AdminEmail, DemoEmail} \subseteq Emails
                            /\ AdminEmail # DemoEmail
                            /\ Emails \cap {"tables", "events"} = {}
ASSUME SecretsAssumption == SeedSecret \in [{AdminEmail, DemoEmail} -> Secrets]
ASSUME RequestsAssumption == Requests \subseteq RegisterReq \cup LoginReq
ASSUME BoundsAssumption  == MaxCrashes \in Nat

VARIABLES
  database,   \* which engine DATABASE_URL names
  tables,     \* whether the tables exist
  users,      \* the users table, as committed
  batches,    \* how often the four events of the seed were committed
  pc,         \* where each process is
  step,       \* where an instance is in BootPlan, 0 when it is not booting
  req,        \* the request a worker serves
  account,    \* the id of the User a worker's handler holds, 0 for none
  reply,      \* what the handler answers
  dbLock,     \* SQLite: the process whose transaction holds the write lock
  crashes     \* how often an instance was killed

stored  == <<tables, users, batches>>
session == <<req, account, reply>>
vars    == <<database, stored, pc, step, session, dbLock, crashes>>

-----------------------------------------------------------------------------
(* Rows and transactions *)

Ids == 1..Len(users)

\* What process p looks up and inserts now.
Item(p) == IF p \in Instances THEN BootPlan[step[p]] ELSE req[p].email

\* What the SELECT of an item finds among the committed rows.
Present(x) ==
  \/ x = "tables" /\ tables
  \/ x = "events" /\ batches > 0
  \/ \E i \in Ids : users[i].email = x

\* The User that p inserts.
Row(p) ==
  [email  |-> Item(p),
   secret |-> IF p \in Instances THEN SeedSecret[Item(p)] ELSE req[p].secret,
   admin  |-> p \in Instances /\ Item(p) = AdminEmail]

Goto(p, label) == pc' = [pc EXCEPT ![p] = label]
Answer(w, a)   == reply' = [reply EXCEPT ![w] = a]

\* A mutant: a plain BEGIN, SQLite's deferred transaction.
BeginDeferred(p) == dbLock = Nobody /\ UNCHANGED dbLock

\* The first statement of a transaction: BEGIN, on SQLite BEGIN IMMEDIATE.
\* A transaction that runs already goes on.
Begin(p) ==
  /\ dbLock \in {Nobody, p}
  /\ dbLock' = IF database = "sqlite" THEN p ELSE Nobody

\* Commit, rollback and close.
Release(p) == dbLock' = IF dbLock = p THEN Nobody ELSE dbLock

\* q inserted the unique value that p inserts too and has not ended its
\* transaction.  Events have no unique column.
PendingWith(p, q) ==
  pc[q] = "commit" /\ Item(q) = Item(p) /\ Item(p) # "events"

\* A mutant: no transaction waits for the row another one inserted.
NothingPending(p) == FALSE

\* On Postgres the second INSERT (or CREATE TABLE) waits for the outcome of
\* the first.
DuplicatePending(p) == \E q \in Procs \ {p} : PendingWith(p, q)

\* The unique index refuses the row: IntegrityError.
Refused(p) == Item(p) # "events" /\ Present(Item(p))

\* A mutant: the server starts when the seed has made the accounts.
AdvanceSkipsEvents(i) ==
  IF step[i] + 1 >= Len(BootPlan) - 1
  THEN Goto(i, "serving") /\ step' = [step EXCEPT ![i] = 0]
  ELSE Goto(i, "find") /\ step' = [step EXCEPT ![i] = @ + 1]

\* A mutant: one item too many.
AdvanceTooFar(i) ==
  IF step[i] > Len(BootPlan)
  THEN Goto(i, "serving") /\ step' = [step EXCEPT ![i] = 0]
  ELSE Goto(i, "find") /\ step' = [step EXCEPT ![i] = @ + 1]

\* The instance goes on with the next item of its plan.
Advance(i) ==
  IF step[i] = Len(BootPlan)
  THEN Goto(i, "serving") /\ step' = [step EXCEPT ![i] = 0]
  ELSE Goto(i, "find") /\ step' = [step EXCEPT ![i] = @ + 1]

-----------------------------------------------------------------------------
(* The steps *)

Init ==
  /\ database \in {"postgres", "sqlite"}
  /\ tables = FALSE
  /\ users = <<>>
  /\ batches = 0
  /\ pc = [p \in Procs |-> IF p \in Instances THEN "down" ELSE "idle"]
  /\ step = [i \in Instances |-> 0]
  /\ req = [w \in Workers |-> NoReq]
  /\ account = [w \in Workers |-> 0]
  /\ reply = [w \in Workers |-> "none"]
  /\ dbLock = Nobody
  /\ crashes = 0

\* The container starts: python seed.py.
Boot(i) ==
  /\ pc[i] = "down"
  /\ Goto(i, "find")
  /\ step' = [step EXCEPT ![i] = 1]
  /\ UNCHANGED <<database, stored, session, dbLock, crashes>>

\* The seed finds what it looks for.  create_all commits after its look and
\* the seed closes its session after the events; in between the transaction
\* goes on to the next item.
Skip(i) ==
  /\ pc[i] = "find"
  /\ Begin(i)
  /\ Present(Item(i))
  /\ Item(i) \in Emails
  /\ Advance(i)
  /\ UNCHANGED <<database, stored, session, crashes>>

\* A mutant: the seed does not close its session before the server starts.
SkipAndKeep(i) ==
  /\ pc[i] = "find"
  /\ Begin(i)
  /\ Present(Item(i))
  /\ Item(i) \notin Emails
  /\ Advance(i)
  /\ UNCHANGED <<database, stored, session, crashes>>

\* create_all's commit and db.close() end the transaction that looked.
SkipAndClose(i) ==
  /\ pc[i] = "find"
  /\ dbLock \in {Nobody, i}
  /\ Present(Item(i))
  /\ Item(i) \notin Emails
  /\ Advance(i)
  /\ Release(i)
  /\ UNCHANGED <<database, stored, session, crashes>>

\* A mutant: the seed inserts without looking.
FindNotAsked(p) ==
  /\ pc[p] = "find"
  /\ p \in Workers => req[p].op = "register"
  /\ Begin(p)
  /\ Goto(p, "insert")
  /\ UNCHANGED <<database, stored, step, session, crashes>>

\* Nothing there, so p goes on to insert it, in the same transaction.
FindNothing(p) ==
  /\ pc[p] = "find"
  /\ p \in Workers => req[p].op = "register"
  /\ Begin(p)
  /\ ~Present(Item(p))
  /\ Goto(p, "insert")
  /\ UNCHANGED <<database, stored, step, session, crashes>>

\* A request reaches a serving instance.
Receive(w, r) ==
  /\ pc[w] = "idle"
  /\ pc[Host[w]] = "serving"
  /\ req' = [req EXCEPT ![w] = r]
  /\ Goto(w, IF r.op = "register" THEN "hash" ELSE "find")
  /\ UNCHANGED <<database, stored, step, account, reply, dbLock, crashes>>

\* register hashes the password before its first query.
Hash(w) ==
  /\ pc[w] = "hash"
  /\ Goto(w, "find")
  /\ UNCHANGED <<database, stored, step, session, dbLock, crashes>>

\* register finds the email: raise Conflict("Email already registered").
FindTaken(w) ==
  /\ pc[w] = "find"
  /\ req[w].op = "register"
  /\ Begin(w)
  /\ Present(req[w].email)
  /\ Answer(w, "email_taken")
  /\ Goto(w, "done")
  /\ UNCHANGED <<database, stored, step, req, account, crashes>>

\* _authenticate loads the user, if there is one.
LoadUser(w) ==
  /\ pc[w] = "find"
  /\ req[w].op = "login"
  /\ Begin(w)
  /\ \/ \E i \in Ids : /\ users[i].email = req[w].email
                       /\ account' = [account EXCEPT ![w] = i]
     \/ ~Present(req[w].email) /\ UNCHANGED account
  /\ Goto(w, "verify")
  /\ UNCHANGED <<database, stored, step, req, reply, crashes>>

\* A mutant: a user without a matching password is let in.
VerifyUserOnly(w) ==
  /\ pc[w] = "verify"
  /\ Answer(w, IF account[w] # 0 THEN "token" ELSE "unauthorized")
  /\ Goto(w, "done")
  /\ UNCHANGED <<database, stored, step, req, account, dbLock, crashes>>

\* bcrypt compares; a token for the user's id, or 401 for either mistake.
Verify(w) ==
  /\ pc[w] = "verify"
  /\ LET known == /\ account[w] # 0
                  /\ users[account[w]].secret = req[w].secret
     IN  Answer(w, IF known THEN "token" ELSE "unauthorized")
  /\ Goto(w, "done")
  /\ UNCHANGED <<database, stored, step, req, account, dbLock, crashes>>

\* db.commit() sends the INSERT first, which waits for a pending duplicate.
Insert(p) ==
  /\ pc[p] = "insert"
  /\ ~DuplicatePending(p)
  /\ ~Refused(p)
  /\ Goto(p, "commit")
  /\ UNCHANGED <<database, stored, step, session, dbLock, crashes>>

\* A mutant: a duplicate that is not committed yet is refused, not waited for.
InsertRefusedAtOnce(p) ==
  /\ pc[p] = "insert"
  /\ DuplicatePending(p) \/ Refused(p)
  /\ Release(p)
  /\ \/ p \in Workers /\ Answer(p, "integrity_error") /\ Goto(p, "done") /\ UNCHANGED step
     \/ p \in Instances /\ Goto(p, "down") /\ step' = [step EXCEPT ![p] = 0] /\ UNCHANGED reply
  /\ UNCHANGED <<database, stored, req, account, crashes>>

\* IntegrityError.  Nothing catches it: register answers a plain 500, and
\* the seed ends, so the start command never reaches the server.
InsertRefused(p) ==
  /\ pc[p] = "insert"
  /\ ~DuplicatePending(p)
  /\ Refused(p)
  /\ Release(p)
  /\ \/ /\ p \in Workers
        /\ Answer(p, "integrity_error")
        /\ Goto(p, "done")
        /\ UNCHANGED step
     \/ /\ p \in Instances
        /\ Goto(p, "down")
        /\ step' = [step EXCEPT ![p] = 0]
        /\ UNCHANGED reply
  /\ UNCHANGED <<database, stored, req, account, crashes>>

\* The COMMIT makes the row visible and ends the transaction.
Store(p) ==
  /\ pc[p] = "commit"
  /\ tables' = (tables \/ Item(p) = "tables")
  /\ batches' = IF Item(p) = "events" THEN batches + 1 ELSE batches
  /\ users' = IF Item(p) \in Emails THEN Append(users, Row(p)) ELSE users
  /\ Release(p)
  /\ UNCHANGED <<database, req, reply, crashes>>

CommitRegister(w) ==
  /\ Store(w)
  /\ account' = [account EXCEPT ![w] = Len(users')]
  /\ Goto(w, "refresh")
  /\ UNCHANGED step

CommitSeed(i) ==
  /\ Store(i)
  /\ IF Item(i) \in Emails THEN Goto(i, "refresh") /\ UNCHANGED step ELSE Advance(i)
  /\ UNCHANGED account

\* db.refresh(user) starts a new transaction, which the seed keeps for its
\* next item.
RefreshRegister(w) ==
  /\ pc[w] = "refresh"
  /\ Begin(w)
  /\ Answer(w, "created")
  /\ Goto(w, "done")
  /\ UNCHANGED <<database, stored, step, req, account, crashes>>

RefreshSeed(i) ==
  /\ pc[i] = "refresh"
  /\ Begin(i)
  /\ Advance(i)
  /\ UNCHANGED <<database, stored, session, crashes>>

\* A statement of a handler fails; the session rolls back when it is closed.
Fail(w) ==
  /\ pc[w] \in {"find", "insert", "commit", "refresh"}
  /\ Release(w)
  /\ Answer(w, "error")
  /\ Goto(w, "done")
  /\ UNCHANGED <<database, stored, step, req, account, crashes>>

\* get_db closes the session and the reply is sent.
Respond(w) ==
  /\ pc[w] = "done"
  /\ Release(w)
  /\ Goto(w, "idle")
  /\ req' = [req EXCEPT ![w] = NoReq]
  /\ account' = [account EXCEPT ![w] = 0]
  /\ Answer(w, "none")
  /\ UNCHANGED <<database, stored, step, crashes>>

\* A container dies at any moment, its seed or its requests with it: the
\* database rolls their transactions back.
Killed(i) == {i} \cup {w \in Workers : Host[w] = i}

Crash(i) ==
  /\ crashes < MaxCrashes
  /\ crashes' = crashes + 1
  /\ pc[i] # "down"
  /\ pc' = [p \in Procs |-> IF p = i THEN "down"
                            ELSE IF p \in Killed(i) THEN "idle" ELSE pc[p]]
  /\ step' = [step EXCEPT ![i] = 0]
  /\ req' = [w \in Workers |-> IF w \in Killed(i) THEN NoReq ELSE req[w]]
  /\ account' = [w \in Workers |-> IF w \in Killed(i) THEN 0 ELSE account[w]]
  /\ reply' = [w \in Workers |-> IF w \in Killed(i) THEN "none" ELSE reply[w]]
  /\ dbLock' = IF dbLock \in Killed(i) THEN Nobody ELSE dbLock
  /\ UNCHANGED <<database, stored>>

SeedStep(i) ==
  \/ Boot(i) \/ Skip(i) \/ SkipAndClose(i) \/ FindNothing(i)
  \/ Insert(i) \/ InsertRefused(i) \/ CommitSeed(i) \/ RefreshSeed(i)

HandlerStep(w) ==
  \/ Hash(w) \/ FindTaken(w) \/ FindNothing(w) \/ LoadUser(w) \/ Verify(w)
  \/ Insert(w) \/ InsertRefused(w) \/ CommitRegister(w) \/ RefreshRegister(w)
  \/ Respond(w)

Next ==
  \/ \E i \in Instances : SeedStep(i) \/ Crash(i)
  \/ \E w \in Workers : \/ \E r \in Requests : Receive(w, r)
                        \/ HandlerStep(w)
                        \/ Fail(w)

Spec == Init /\ [][Next]_vars

\* Containers and threads go on as long as they can, and who waits for a
\* unique value in Postgres's queue gets to know its fate.
Fairness ==
  /\ \A i \in Instances : WF_vars(SeedStep(i)) /\ SF_vars(Insert(i) \/ InsertRefused(i))
  /\ \A w \in Workers : WF_vars(HandlerStep(w))

FairSpec == Spec /\ Fairness

-----------------------------------------------------------------------------
(* Properties *)

WorkerLabels   == {"idle", "hash", "find", "verify", "insert", "commit", "refresh", "done"}
InstanceLabels == {"down", "find", "insert", "commit", "refresh", "serving"}
Replies == {"none", "created", "email_taken", "token", "unauthorized",
            "integrity_error", "error"}

\* The type of every variable.  The rows are typed by ImplementsAccountBook.
TypeOK ==
  /\ database \in {"postgres", "sqlite"}
  /\ tables \in BOOLEAN
  /\ users \in Seq(Account)
  /\ batches \in Nat
  /\ pc \in [Procs -> WorkerLabels \cup InstanceLabels]
  /\ \A i \in Instances : pc[i] \in InstanceLabels
  /\ \A w \in Workers : pc[w] \in WorkerLabels
  /\ step \in [Instances -> 0..Len(BootPlan)]
  /\ req \in [Workers -> Requests \cup {NoReq}]
  /\ account \in [Workers -> 0..Len(users)]
  /\ reply \in [Workers -> Replies]
  /\ dbLock \in Procs \cup {Nobody}
  /\ crashes \in 0..MaxCrashes

\* Registrations and seeds in any number, dying at any moment, open every
\* account in one step and never a second one for an email (models.py:39).
Book == INSTANCE AccountBook WITH users <- users
ImplementsAccountBook == Book!Spec

\* A 201 or a token names the account that has the email and the password the
\* client sent, also when others registered that email meanwhile, and no
\* sign-up ever yields an administrator.
AnswersNameOwnAccount ==
  \A w \in Workers :
    reply[w] \in {"created", "token"} =>
      /\ account[w] \in Ids
      /\ users[account[w]].email = req[w].email
      /\ users[account[w]].secret = req[w].secret
      /\ reply[w] = "created" => ~users[account[w]].admin

HasUser(e, adm) ==
  \E i \in Ids : users[i] = [email |-> e, secret |-> SeedSecret[e], admin |-> adm]

\* "seed.py runs on every container start and is idempotent, so the demo always
\* has an admin and sample events" (README.md:413-414): an instance serves only
\* a database that is complete, whoever completed it and wherever earlier
\* starts died, and the administrator's account is the seed's own.
ServingMeansSeeded ==
  \A i \in Instances :
    pc[i] = "serving" =>
      /\ tables
      /\ HasUser(AdminEmail, TRUE)
      /\ HasUser(DemoEmail, FALSE)
      /\ batches > 0

\* Events have no unique column, so idempotence is a matter of timing: on
\* SQLite the catalogue is seeded once, on Postgres at most once by each of
\* the instances that start together, however often they are killed.
CatalogueBound ==
  batches <= IF database = "sqlite" THEN 1 ELSE Cardinality(Instances)

\* On SQLite no transaction finds out by an IntegrityError that it lost a race
\* (database.py:50-54): the second registration of an email is told so.
SqliteTellsTaken ==
  [][database = "sqlite" =>
       \A w \in Workers : reply'[w] # "integrity_error"]_vars

\* A registration that loses a race is told what one that comes later is
\* told: 409 email_taken (auth.py:27, tests/test_auth.py:48-52).
LoserIsToldTaken ==
  \A w \in Workers : reply[w] # "integrity_error"

\* Whichever way a registration is refused, by the look or by the index, the
\* email has an account: a client is never turned away for one that another
\* client tried to open, and did not (auth.py:25-36).
RefusedIsTaken ==
  \A w \in Workers :
    reply[w] \in {"email_taken", "integrity_error"} => Present(req[w].email)

\* p cannot go on before q ends its transaction.
WaitsFor(p, q) ==
  /\ q # p
  /\ \/ pc[p] \in {"find", "refresh"} /\ dbLock = q
     \/ pc[p] = "insert" /\ PendingWith(p, q)

\* No deadlock between seeds, registrations and logins, although the seed keeps
\* its transaction from one item to the next: of any set of processes one waits
\* for nobody in the set, nor for a transaction that a process left open when
\* it stopped working (seed.py:61-62, database.py:66-72).
NoDeadlock ==
  \A S \in (SUBSET Procs) \ {{}} :
    \E p \in S : \A q \in Procs :
       WaitsFor(p, q) => q \notin S /\ pc[q] \notin {"down", "idle", "serving"}

\* On Postgres an instance that is started, or killed and restarted, or that
\* lost a race against another one's seed, serves in the end.
EveryInstanceServes ==
  database = "postgres" =>
    \A i \in Instances : pc[i] = "down" ~> pc[i] = "serving"

=============================================================================
