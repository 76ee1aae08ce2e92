---------------------------- MODULE AccountsProofs ----------------------------
(***************************************************************************)
(* What holds of Accounts for any number of containers, handlers, emails,  *)
(* passwords and crashes, on either engine.                                *)
(***************************************************************************)
EXTENDS Accounts, SequenceTheorems, FiniteSetTheorems, TLAPS

\* The five items of the plan, one by one.
LEMMA Plan ==
  /\ Len(BootPlan) = 5
  /\ BootPlan[1] = "tables"   /\ BootPlan[2] = AdminEmail
  /\ BootPlan[3] = DemoEmail  /\ BootPlan[4] = "events"
  /\ BootPlan[5] = "tables"
BY DEF BootPlan

\* What a request's kind says of its fields.
LEMMA RequestFields ==
  ASSUME NEW r \in Requests \cup {NoReq}
  PROVE  /\ r.op \in {"register", "login", "none"}
         /\ r.op = "none" <=> r = NoReq
         /\ r # NoReq => r \in Requests /\ r.email \in Emails /\ r.secret \in Secrets
<1>1. CASE r = NoReq
  BY <1>1, RequestsAssumption DEF NoReq, RegisterReq, LoginReq
<1>2. CASE r \in RegisterReq
  BY <1>2, RequestsAssumption DEF NoReq, RegisterReq
<1>3. CASE r \in LoginReq
  BY <1>3, RequestsAssumption DEF NoReq, LoginReq
<1> QED
  BY <1>1, <1>2, <1>3, RequestsAssumption

\* Where each process is in its work: the strengthening that makes the type
\* invariant inductive.
SeederOK(i) ==
  /\ pc[i] \in {"find", "insert", "commit", "refresh"} => step[i] \in 1..5
  /\ pc[i] = "refresh" => step[i] \in {2, 3}

HandlerOK(w) ==
  /\ pc[w] = "idle" <=> req[w] = NoReq
  /\ pc[w] \in {"hash", "insert", "commit", "refresh"} => req[w].op = "register"

TypeInv ==
  /\ TypeOK
  /\ \A i \in Instances : SeederOK(i)
  /\ \A w \in Workers : HandlerOK(w)

\* What is looked up and inserted, by whom.
LEMMA Items ==
  ASSUME TypeInv, NEW p \in Procs,
         pc[p] \in {"find", "insert", "commit", "refresh"}
  PROVE  /\ Item(p) \in Emails \cup {"tables", "events"}
         /\ p \in Workers => Item(p) = req[p].email /\ Item(p) \in Emails
         /\ p \in Instances /\ Item(p) \in Emails =>
              Item(p) \in {AdminEmail, DemoEmail} /\ step[p] \in {2, 3}
         /\ p \in Instances => Item(p) = BootPlan[step[p]] /\ step[p] \in 1..5
<1>1. CASE p \in Instances
  <2>1. step[p] \in 1..5 /\ Item(p) = BootPlan[step[p]]
    BY <1>1 DEF TypeInv, SeederOK, Item
  <2>2. p \notin Workers
    BY <1>1, ProcsAssumption
  <2> QED
    BY <1>1, <2>1, <2>2, Plan, EmailsAssumption
<1>2. CASE p \in Workers
  <2>1. p \notin Instances /\ Item(p) = req[p].email
    BY <1>2, ProcsAssumption DEF Item
  <2>2. req[p] \in Requests \cup {NoReq} /\ req[p] # NoReq
    BY <1>2 DEF TypeInv, TypeOK, HandlerOK
  <2> QED
    BY <1>2, <2>1, <2>2, RequestFields
<1> QED
  BY <1>1, <1>2 DEF Procs

\* The row that is inserted is an account, and only the seed's first one is
\* an administrator's.
LEMMA Rows ==
  ASSUME TypeInv, NEW p \in Procs,
         pc[p] \in {"insert", "commit"}, Item(p) \in Emails
  PROVE  /\ Row(p) \in Account
         /\ Row(p).email = Item(p)
         /\ p \in Workers => Row(p).secret = req[p].secret /\ ~Row(p).admin
         /\ p \in Instances =>
              /\ Item(p) = AdminEmail =>
                   Row(p) = [email |-> AdminEmail, secret |-> SeedSecret[AdminEmail], admin |-> TRUE]
              /\ Item(p) = DemoEmail =>
                   Row(p) = [email |-> DemoEmail, secret |-> SeedSecret[DemoEmail], admin |-> FALSE]
<1>1. CASE p \in Instances
  <2>1. p \notin Workers /\ Item(p) \in {AdminEmail, DemoEmail}
    BY <1>1, Items, ProcsAssumption
  <2> QED
    BY <1>1, <2>1, EmailsAssumption, SecretsAssumption DEF Row, Account
<1>2. CASE p \in Workers
  <2>1. p \notin Instances
    BY <1>2, ProcsAssumption
  <2>2. req[p] \in Requests \cup {NoReq} /\ req[p] # NoReq
    BY <1>2 DEF TypeInv, TypeOK, HandlerOK
  <2> QED
    BY <1>2, <2>1, <2>2, RequestFields DEF Row, Account
<1> QED
  BY <1>1, <1>2 DEF Procs

-----------------------------------------------------------------------------
(* Types *)

LEMMA TypeInit == Init => TypeInv
<1> SUFFICES ASSUME Init PROVE TypeInv
  OBVIOUS
<1>1. users = <<>> /\ Len(users) = 0 /\ users \in Seq(Account)
  BY DEF Init
<1>2. TypeOK
  <2>1. /\ pc \in [Procs -> WorkerLabels \cup InstanceLabels]
        /\ \A i \in Instances : pc[i] \in InstanceLabels
        /\ \A w \in Workers : pc[w] \in WorkerLabels
    BY ProcsAssumption DEF Init, Procs, WorkerLabels, InstanceLabels
  <2>2. /\ step \in [Instances -> 0..Len(BootPlan)]
        /\ account \in [Workers -> 0..Len(users)]
        /\ crashes \in 0..MaxCrashes
    BY <1>1, Plan, BoundsAssumption DEF Init
  <2>3. /\ req \in [Workers -> Requests \cup {NoReq}]
        /\ reply \in [Workers -> Replies]
        /\ dbLock \in Procs \cup {Nobody}
    BY DEF Init, Replies
  <2> QED
    BY <1>1, <2>1, <2>2, <2>3 DEF Init, TypeOK
<1>3. ASSUME NEW i \in Instances PROVE SeederOK(i)
  BY <1>3 DEF Init, SeederOK, Procs
<1>4. ASSUME NEW w \in Workers PROVE HandlerOK(w)
  <2>1. pc[w] = "idle" /\ req[w] = NoReq
    BY <1>4, ProcsAssumption DEF Init, Procs
  <2> QED
    BY <2>1 DEF HandlerOK
<1> QED
  BY <1>2, <1>3, <1>4 DEF TypeInv

\* A step of an instance leaves the handlers and their replies alone.
LEMMA SeedKeepsHandlers ==
  ASSUME TypeInv, NEW i \in Instances, NEW l,
         pc' = [pc EXCEPT ![i] = l],
         step' \in [Instances -> 0..Len(BootPlan)],
         \A j \in Instances \ {i} : step'[j] = step[j],
         UNCHANGED req, TypeOK', SeederOK(i)'
  PROVE  TypeInv'
<1>1. ASSUME NEW j \in Instances \ {i} PROVE SeederOK(j)'
  BY <1>1 DEF TypeInv, TypeOK, Procs, SeederOK
<1>2. ASSUME NEW w \in Workers PROVE HandlerOK(w)'
  BY <1>2, ProcsAssumption DEF TypeInv, TypeOK, Procs, HandlerOK
<1> QED
  BY <1>1, <1>2 DEF TypeInv

\* A step of a handler leaves the instances and the other handlers alone.
LEMMA HandlerKeepsSeeds ==
  ASSUME TypeInv, NEW w \in Workers, NEW l,
         pc' = [pc EXCEPT ![w] = l],
         UNCHANGED step,
         \A v \in Workers \ {w} : req'[v] = req[v],
         TypeOK', HandlerOK(w)'
  PROVE  TypeInv'
<1>1. ASSUME NEW j \in Instances PROVE SeederOK(j)'
  BY <1>1, ProcsAssumption DEF TypeInv, TypeOK, Procs, SeederOK
<1>2. ASSUME NEW v \in Workers \ {w} PROVE HandlerOK(v)'
  BY <1>2 DEF TypeInv, TypeOK, Procs, HandlerOK
<1> QED
  BY <1>1, <1>2 DEF TypeInv

\* Going on with the plan keeps the place in it.
LEMMA AdvanceType ==
  ASSUME TypeInv, NEW i \in Instances, step[i] \in 1..5, Advance(i)
  PROVE  /\ step' \in [Instances -> 0..Len(BootPlan)]
         /\ \A j \in Instances \ {i} : step'[j] = step[j]
         /\ \E l \in {"find", "serving"} : pc' = [pc EXCEPT ![i] = l]
         /\ pc' \in [Procs -> WorkerLabels \cup InstanceLabels]
         /\ pc'[i] \in {"find", "serving"}
         /\ pc'[i] = "find" => step'[i] \in 1..5
         /\ \A p \in Procs \ {i} : pc'[p] = pc[p]
<1>1. /\ pc \in [Procs -> WorkerLabels \cup InstanceLabels]
      /\ step \in [Instances -> 0..5]
      /\ Len(BootPlan) = 5 /\ i \in Procs
  BY Plan DEF TypeInv, TypeOK, Procs
<1>2. PICK l \in {"find", "serving"}, k \in 0..5 :
        /\ pc' = [pc EXCEPT ![i] = l]
        /\ step' = [step EXCEPT ![i] = k]
        /\ l = "find" => k \in 1..5
  <2>1. CASE step[i] = 5
    BY <1>1, <2>1 DEF Advance, Goto
  <2>2. CASE step[i] # 5
    <3>1. pc' = [pc EXCEPT ![i] = "find"] /\ step' = [step EXCEPT ![i] = step[i] + 1]
      BY <1>1, <2>2 DEF Advance, Goto
    <3>2. step[i] + 1 \in 1..5
      BY <1>1, <2>2
    <3> WITNESS "find" \in {"find", "serving"}, step[i] + 1 \in 0..5
    <3> QED
      BY <3>1, <3>2
  <2> QED
    BY <2>1, <2>2
<1>3. l \in WorkerLabels \cup InstanceLabels
  BY DEF WorkerLabels, InstanceLabels
<1>4. pc' \in [Procs -> WorkerLabels \cup InstanceLabels]
  BY <1>1, <1>2, <1>3
<1>5. step' \in [Instances -> 0..Len(BootPlan)]
  BY <1>1, <1>2
<1>6. pc'[i] = l /\ step'[i] = k
  BY <1>1, <1>2
<1>7. /\ \A j \in Instances \ {i} : step'[j] = step[j]
      /\ \A p \in Procs \ {i} : pc'[p] = pc[p]
  BY <1>1, <1>2
<1> QED
  BY <1>2, <1>4, <1>5, <1>6, <1>7

\* Steps of an instance that leave the tables alone.
LEMMA SeedSteps ==
  ASSUME TypeInv, NEW i \in Instances,
         \/ Boot(i) \/ Skip(i) \/ SkipAndClose(i) \/ FindNothing(i)
         \/ Insert(i) \/ InsertRefused(i) \/ RefreshSeed(i)
  PROVE  TypeInv'
<1>1. TypeOK /\ SeederOK(i) /\ i \in Procs /\ i \notin Workers
  BY ProcsAssumption DEF TypeInv, Procs
<1>2. CASE Boot(i) \/ FindNothing(i) \/ Insert(i) \/ InsertRefused(i)
  <2>1. /\ \E l \in InstanceLabels : pc' = [pc EXCEPT ![i] = l]
        /\ UNCHANGED <<database, tables, users, batches, req, account, reply, crashes>>
    BY <1>1, <1>2 DEF Boot, FindNothing, Insert, InsertRefused, Goto,
       InstanceLabels, stored, session
  <2>a. dbLock' \in Procs \cup {Nobody}
    BY <1>1, <1>2 DEF Boot, FindNothing, Insert, InsertRefused, Begin,
       Release, TypeOK
  <2>b. /\ step' \in [Instances -> 0..Len(BootPlan)]
        /\ \A j \in Instances \ {i} : step'[j] = step[j]
    <3>1. step \in [Instances -> 0..5] /\ Len(BootPlan) = 5
      BY <1>1, Plan DEF TypeOK
    <3>2. step' = step \/ \E k \in 0..1 : step' = [step EXCEPT ![i] = k]
      BY <1>1, <1>2 DEF Boot, FindNothing, Insert, InsertRefused
    <3> QED
      BY <3>1, <3>2
  <2>2. TypeOK'
    BY <1>1, <2>1, <2>a, <2>b, ProcsAssumption DEF TypeOK, Procs
  <2>3. SeederOK(i)'
    BY <1>1, <1>2 DEF Boot, FindNothing, Insert, InsertRefused, Goto,
       TypeOK, SeederOK
  <2> QED
    BY <2>1, <2>b, <2>2, <2>3, SeedKeepsHandlers
<1>3. CASE Skip(i) \/ SkipAndClose(i) \/ RefreshSeed(i)
  <2>1. /\ step[i] \in 1..5 /\ Advance(i)
        /\ UNCHANGED <<database, tables, users, batches, req, account, reply, crashes>>
        /\ dbLock' \in Procs \cup {Nobody}
    BY <1>1, <1>3 DEF Skip, SkipAndClose, RefreshSeed, Begin, Release,
       TypeOK, SeederOK, stored, session
  <2>2. /\ pc' \in [Procs -> WorkerLabels \cup InstanceLabels]
        /\ step' \in [Instances -> 0..Len(BootPlan)]
        /\ pc'[i] \in {"find", "serving"}
        /\ \A p \in Procs \ {i} : pc'[p] = pc[p]
    BY <2>1, AdvanceType
  <2>3. TypeOK'
    BY <1>1, <2>1, <2>2, ProcsAssumption DEF TypeOK, Procs, InstanceLabels
  <2>4. SeederOK(i)'
    BY <2>1, AdvanceType DEF SeederOK
  <2> QED
    BY <2>1, <2>3, <2>4, AdvanceType, SeedKeepsHandlers
<1> QED
  BY <1>2, <1>3

\* A commit leaves a table of accounts, none of them gone.
LEMMA StoreType ==
  ASSUME TypeInv, NEW p \in Procs, Store(p)
  PROVE  /\ users' \in Seq(Account)
         /\ users' = users \/ users' = Append(users, Row(p))
         /\ Len(users') >= Len(users)
         /\ tables' \in BOOLEAN
         /\ batches' \in Nat
         /\ dbLock' \in Procs \cup {Nobody}
         /\ Item(p) \in Emails =>
              Len(users') = Len(users) + 1 /\ users'[Len(users')] = Row(p)
         /\ \A i \in Ids : users'[i] = users[i]
<1>1. TypeOK /\ pc[p] = "commit"
  BY DEF TypeInv, Store
<1>2. users \in Seq(Account) /\ Len(users) \in Nat
  BY <1>1 DEF TypeOK
<1>3. tables' \in BOOLEAN /\ batches' \in Nat /\ dbLock' \in Procs \cup {Nobody}
  BY <1>1 DEF TypeOK, Store, Release
<1>4. CASE Item(p) \in Emails
  <2>1. Row(p) \in Account
    BY <1>1, <1>4, Rows
  <2>2. users' = Append(users, Row(p))
    BY <1>4 DEF Store
  <2> QED
    BY <1>2, <1>3, <1>4, <2>1, <2>2, AppendProperties DEF Ids
<1>5. CASE Item(p) \notin Emails
  BY <1>2, <1>3, <1>5 DEF Store
<1> QED
  BY <1>4, <1>5

LEMMA CommitSeedType ==
  ASSUME TypeInv, NEW i \in Instances, CommitSeed(i)
  PROVE  TypeInv'
<1>1. TypeOK /\ SeederOK(i) /\ i \in Procs /\ i \notin Workers /\ pc[i] = "commit"
  BY ProcsAssumption DEF TypeInv, Procs, CommitSeed, Store
<1>2. /\ users' \in Seq(Account) /\ Len(users') >= Len(users)
      /\ Len(users') \in Nat /\ Len(users) \in Nat
      /\ tables' \in BOOLEAN /\ batches' \in Nat /\ dbLock' \in Procs \cup {Nobody}
      /\ UNCHANGED <<database, req, account, reply, crashes>>
  BY <1>1, StoreType DEF CommitSeed, Store, TypeOK
<1>3. account' \in [Workers -> 0..Len(users')]
  BY <1>1, <1>2 DEF TypeOK
<1>4. CASE Item(i) \in Emails
  <2>1. pc' = [pc EXCEPT ![i] = "refresh"] /\ step' = step
    BY <1>4 DEF CommitSeed, Goto
  <2>2. TypeOK'
    BY <1>1, <1>2, <1>3, <2>1, ProcsAssumption DEF TypeOK, Procs, InstanceLabels
  <2>3. step[i] \in {2, 3}
    BY <1>1, <1>4, Items
  <2>4. SeederOK(i)'
    BY <1>1, <2>1, <2>3 DEF SeederOK, TypeOK
  <2> QED
    BY <1>1, <1>2, <2>1, <2>2, <2>4, SeedKeepsHandlers DEF TypeOK
<1>5. CASE Item(i) \notin Emails
  <2>1. Advance(i) /\ step[i] \in 1..5
    BY <1>1, <1>5 DEF CommitSeed, SeederOK
  <2>2. /\ pc' \in [Procs -> WorkerLabels \cup InstanceLabels]
        /\ step' \in [Instances -> 0..Len(BootPlan)]
        /\ pc'[i] \in {"find", "serving"}
        /\ \A p \in Procs \ {i} : pc'[p] = pc[p]
    BY <2>1, AdvanceType
  <2>3. TypeOK'
    BY <1>1, <1>2, <1>3, <2>2, ProcsAssumption DEF TypeOK, Procs, InstanceLabels
  <2>4. SeederOK(i)'
    BY <2>1, AdvanceType DEF SeederOK
  <2> QED
    BY <1>2, <2>1, <2>3, <2>4, AdvanceType, SeedKeepsHandlers
<1> QED
  BY <1>4, <1>5

\* Steps of a handler that leave the tables alone.
LEMMA HandlerSteps ==
  ASSUME TypeInv, NEW w \in Workers,
         \/ Hash(w) \/ FindTaken(w) \/ FindNothing(w) \/ LoadUser(w)
         \/ Verify(w) \/ Insert(w) \/ InsertRefused(w) \/ RefreshRegister(w)
         \/ Fail(w)
  PROVE  TypeInv'
<1> USE DEF Hash, FindTaken, FindNothing, LoadUser, Verify, Insert,
            InsertRefused, RefreshRegister, Fail
<1>1. TypeOK /\ HandlerOK(w) /\ w \in Procs /\ w \notin Instances
  BY ProcsAssumption DEF TypeInv, Procs
<1>2. /\ \E l \in WorkerLabels : pc' = [pc EXCEPT ![w] = l]
      /\ UNCHANGED <<database, tables, users, batches, step, req, crashes>>
  BY <1>1 DEF Goto, WorkerLabels, stored, session
<1>3. dbLock' \in Procs \cup {Nobody}
  BY <1>1 DEF Begin, Release, TypeOK
<1>4. reply' \in [Workers -> Replies]
  BY <1>1 DEF Answer, Replies, TypeOK, session
<1>5. account' \in [Workers -> 0..Len(users)]
  BY <1>1 DEF TypeOK, session, Ids
<1>6. TypeOK'
  BY <1>1, <1>2, <1>3, <1>4, <1>5, ProcsAssumption DEF TypeOK, Procs
<1>7. /\ pc[w] # "idle" /\ pc'[w] # "idle" /\ req'[w] = req[w]
      /\ pc'[w] \in {"insert", "commit", "refresh"} => req[w].op = "register"
      /\ pc[w] = "hash" => req[w].op = "register"
      /\ pc'[w] # "hash"
  BY <1>1 DEF Goto, TypeOK, HandlerOK, session, stored
<1>8. HandlerOK(w)'
  BY <1>1, <1>7 DEF HandlerOK
<1> QED
  BY <1>2, <1>6, <1>8, HandlerKeepsSeeds

LEMMA ReceiveType ==
  ASSUME TypeInv, NEW w \in Workers, NEW r \in Requests, Receive(w, r)
  PROVE  TypeInv'
<1>1. TypeOK /\ w \in Procs /\ w \notin Instances
  BY ProcsAssumption DEF TypeInv, Procs
<1>2. r # NoReq /\ r.op \in {"register", "login"}
  BY RequestsAssumption DEF NoReq, RegisterReq, LoginReq
<1>3. \E l \in {"hash", "find"} :
        pc' = [pc EXCEPT ![w] = l] /\ (l = "hash" => r.op = "register")
  BY DEF Receive, Goto
<1>4. /\ UNCHANGED <<database, tables, users, batches, step, account, reply, dbLock, crashes>>
      /\ req' = [req EXCEPT ![w] = r]
  BY DEF Receive, stored
<1>5. TypeOK'
  BY <1>1, <1>3, <1>4, ProcsAssumption DEF TypeOK, Procs, WorkerLabels
<1>6. HandlerOK(w)'
  BY <1>1, <1>2, <1>3, <1>4 DEF TypeOK, HandlerOK
<1> QED
  BY <1>1, <1>3, <1>4, <1>5, <1>6, HandlerKeepsSeeds DEF TypeOK

LEMMA CommitRegisterType ==
  ASSUME TypeInv, NEW w \in Workers, CommitRegister(w)
  PROVE  TypeInv'
<1>1. TypeOK /\ HandlerOK(w) /\ w \in Procs /\ w \notin Instances /\ pc[w] = "commit"
  BY ProcsAssumption DEF TypeInv, Procs, CommitRegister, Store
<1>2. /\ users' \in Seq(Account) /\ Len(users') >= Len(users)
      /\ Len(users') \in Nat /\ Len(users) \in Nat
      /\ tables' \in BOOLEAN /\ batches' \in Nat /\ dbLock' \in Procs \cup {Nobody}
      /\ UNCHANGED <<database, req, reply, crashes, step>>
      /\ pc' = [pc EXCEPT ![w] = "refresh"]
      /\ account' = [account EXCEPT ![w] = Len(users')]
  BY <1>1, StoreType DEF CommitRegister, Store, TypeOK, Goto
<1>3. account' \in [Workers -> 0..Len(users')]
  BY <1>1, <1>2 DEF TypeOK
<1>4. TypeOK'
  BY <1>1, <1>2, <1>3, ProcsAssumption DEF TypeOK, Procs, WorkerLabels
<1>5. HandlerOK(w)'
  BY <1>1, <1>2 DEF HandlerOK, TypeOK
<1> QED
  BY <1>2, <1>4, <1>5, HandlerKeepsSeeds

LEMMA RespondType ==
  ASSUME TypeInv, NEW w \in Workers, Respond(w)
  PROVE  TypeInv'
<1>1. TypeOK /\ w \in Procs /\ w \notin Instances
  BY ProcsAssumption DEF TypeInv, Procs
<1>2. /\ UNCHANGED <<database, tables, users, batches, step, crashes>>
      /\ req' = [req EXCEPT ![w] = NoReq]
      /\ account' = [account EXCEPT ![w] = 0]
      /\ reply' = [reply EXCEPT ![w] = "none"]
      /\ pc' = [pc EXCEPT ![w] = "idle"]
      /\ dbLock' \in Procs \cup {Nobody}
  BY <1>1 DEF Respond, Goto, Answer, Release, stored, TypeOK
<1>3. /\ req' \in [Workers -> Requests \cup {NoReq}]
      /\ account' \in [Workers -> 0..Len(users)]
      /\ reply' \in [Workers -> Replies]
  BY <1>1, <1>2 DEF TypeOK, Replies
<1>4. TypeOK'
  BY <1>1, <1>2, <1>3, ProcsAssumption DEF TypeOK, Procs, WorkerLabels
<1>5. HandlerOK(w)'
  BY <1>1, <1>2 DEF HandlerOK, TypeOK
<1> QED
  BY <1>1, <1>2, <1>4, <1>5, HandlerKeepsSeeds DEF TypeOK

\* A container that dies takes its own processes with it and no others.
LEMMA CrashType ==
  ASSUME TypeInv, NEW i \in Instances, Crash(i)
  PROVE  TypeInv'
<1>1. TypeOK /\ i \in Procs
  BY DEF TypeInv, Procs
<1>2. UNCHANGED <<database, tables, users, batches>>
  BY DEF Crash, stored
<1>3. /\ pc' \in [Procs -> WorkerLabels \cup InstanceLabels]
      /\ \A j \in Instances : pc'[j] = IF j = i THEN "down" ELSE pc[j]
      /\ \A w \in Workers : pc'[w] = IF w \in Killed(i) THEN "idle" ELSE pc[w]
  BY <1>1, ProcsAssumption
     DEF Crash, TypeOK, Procs, Killed, WorkerLabels, InstanceLabels
<1>4. /\ step' \in [Instances -> 0..Len(BootPlan)]
      /\ \A j \in Instances : step'[j] = IF j = i THEN 0 ELSE step[j]
  BY <1>1, Plan DEF Crash, TypeOK
<1>5. /\ req' \in [Workers -> Requests \cup {NoReq}]
      /\ \A w \in Workers : req'[w] = IF w \in Killed(i) THEN NoReq ELSE req[w]
  BY <1>1 DEF Crash, TypeOK
<1>6. account' \in [Workers -> 0..Len(users)]
  <2>1. Len(users) \in Nat
    BY <1>1 DEF TypeOK
  <2> QED
    BY <1>1, <2>1 DEF Crash, TypeOK
<1>7. reply' \in [Workers -> Replies]
  BY <1>1 DEF Crash, TypeOK, Replies
<1>8. dbLock' \in Procs \cup {Nobody} /\ crashes' \in 0..MaxCrashes
  BY <1>1, BoundsAssumption DEF Crash, TypeOK
<1>9. TypeOK'
  BY <1>1, <1>2, <1>3, <1>4, <1>5, <1>6, <1>7, <1>8
     DEF TypeOK, WorkerLabels, InstanceLabels
<1>10. ASSUME NEW j \in Instances PROVE SeederOK(j)'
  BY <1>3, <1>4, <1>10 DEF TypeInv, SeederOK
<1>11. ASSUME NEW w \in Workers PROVE HandlerOK(w)'
  BY <1>3, <1>5, <1>11 DEF TypeInv, HandlerOK
<1> QED
  BY <1>9, <1>10, <1>11 DEF TypeInv

\* Every step keeps the types.
LEMMA TypeNext == TypeInv /\ [Next]_vars => TypeInv'
<1> SUFFICES ASSUME TypeInv, [Next]_vars PROVE TypeInv'
  OBVIOUS
<1>1. CASE UNCHANGED vars
  BY <1>1 DEF TypeInv, TypeOK, SeederOK, HandlerOK, vars, stored, session
<1> QED
  BY <1>1, SeedSteps, CommitSeedType, HandlerSteps, ReceiveType, CommitRegisterType,
     RespondType, CrashType DEF Next, SeedStep, HandlerStep

\* Every variable keeps its type, and with it every row of the users table is
\* one that a client or the seed may have asked for.
THEOREM AccountTypes == Spec => []TypeOK
<1>1. TypeInv => TypeOK
  BY DEF TypeInv
<1> QED
  BY <1>1, TypeInit, TypeNext, PTL DEF Spec

-----------------------------------------------------------------------------
(* Who moves *)

\* Process p is left where it was.
Kept(p) ==
  /\ pc'[p] = pc[p]
  /\ p \in Instances => step'[p] = step[p]
  /\ p \in Workers => /\ req'[p] = req[p]
                      /\ account'[p] = account[p]
                      /\ reply'[p] = reply[p]

\* A step of x that leaves the tables alone.
Quiet(x) ==
  \/ /\ x \in Instances
     /\ \/ Boot(x) \/ Skip(x) \/ SkipAndClose(x) \/ FindNothing(x)
        \/ Insert(x) \/ InsertRefused(x) \/ RefreshSeed(x)
  \/ /\ x \in Workers
     /\ \/ \E r \in Requests : Receive(x, r)
        \/ Hash(x) \/ FindTaken(x) \/ FindNothing(x) \/ LoadUser(x)
        \/ Verify(x) \/ Insert(x) \/ InsertRefused(x) \/ RefreshRegister(x)
        \/ Respond(x) \/ Fail(x)

\* A step of x that writes them.
Stores(x) == \/ x \in Instances /\ CommitSeed(x)
             \/ x \in Workers /\ CommitRegister(x)

\* Every step is one of these, or a crash.
LEMMA Steps ==
  ASSUME Next
  PROVE  \/ \E x \in Procs : Quiet(x) \/ Stores(x)
         \/ \E i \in Instances : Crash(i)
<1>1. ASSUME NEW i \in Instances, SeedStep(i)
      PROVE  Quiet(i) \/ Stores(i)
  BY <1>1 DEF SeedStep, Quiet, Stores
<1>2. ASSUME NEW w \in Workers,
             HandlerStep(w) \/ Fail(w) \/ \E r \in Requests : Receive(w, r)
      PROVE  Quiet(w) \/ Stores(w)
  BY <1>2 DEF HandlerStep, Quiet, Stores
<1> QED
  BY <1>1, <1>2 DEF Next, Procs

\* An item is the same as long as its process is where it was.
LEMMA KeptItem ==
  ASSUME TypeInv, NEW p \in Procs, Kept(p)
  PROVE  Item(p)' = Item(p)
BY ProcsAssumption DEF Kept, Item, Procs

LEMMA QuietMove ==
  ASSUME TypeInv, NEW x \in Procs, Quiet(x)
  PROVE  /\ UNCHANGED <<database, tables, users, batches>>
         /\ \A p \in Procs \ {x} : Kept(p)
         /\ pc'[x] = "commit" => Insert(x)
<1>1. TypeOK
  BY DEF TypeInv
<1>2. CASE x \in Instances /\ (Skip(x) \/ SkipAndClose(x) \/ RefreshSeed(x))
  <2>1. step[x] \in 1..5 /\ Advance(x)
    BY <1>2 DEF TypeInv, SeederOK, Skip, SkipAndClose, RefreshSeed
  <2>2. /\ pc'[x] # "commit"
        /\ \A p \in Procs \ {x} : pc'[p] = pc[p]
        /\ \A p \in Instances \ {x} : step'[p] = step[p]
    BY <1>2, <2>1, AdvanceType
  <2>3. UNCHANGED <<database, tables, users, batches, req, account, reply>>
    BY <1>2 DEF Skip, SkipAndClose, RefreshSeed, stored, session
  <2> QED
    BY <2>2, <2>3 DEF Kept
<1>3. CASE x \in Instances /\ (Boot(x) \/ FindNothing(x) \/ Insert(x) \/ InsertRefused(x))
  <2>1. x \notin Workers
    BY <1>3, ProcsAssumption
  <2>2. UNCHANGED <<database, tables, users, batches, req, account, reply>>
    BY <1>3, <2>1 DEF Boot, FindNothing, Insert, InsertRefused, stored, session
  <2>3. \A p \in Procs \ {x} : pc'[p] = pc[p] /\ (p \in Instances => step'[p] = step[p])
    BY <1>1, <1>3, <2>1 DEF Boot, FindNothing, Insert, InsertRefused, Goto, TypeOK
  <2>4. pc'[x] = "commit" => Insert(x)
    BY <1>1, <1>3, <2>1 DEF Boot, FindNothing, Insert, InsertRefused, Goto, TypeOK
  <2> QED
    BY <2>2, <2>3, <2>4 DEF Kept
<1>4. CASE x \in Workers
  <2>1. x \notin Instances
    BY <1>4, ProcsAssumption
  <2> USE DEF Receive, Hash, FindTaken, FindNothing, LoadUser, Verify, Insert,
              InsertRefused, RefreshRegister, Respond, Fail
  <2>2. UNCHANGED <<database, tables, users, batches, step>>
    BY <1>4, <2>1 DEF Quiet, stored, session
  <2>3. \E l \in WorkerLabels : pc' = [pc EXCEPT ![x] = l]
    BY <1>4, <2>1 DEF Quiet, Goto, WorkerLabels
  <2>4. \A p \in Workers \ {x} : req'[p] = req[p] /\ account'[p] = account[p]
    BY <1>1, <1>4, <2>1 DEF Quiet, session, TypeOK
  <2>5. \A p \in Workers \ {x} : reply'[p] = reply[p]
    BY <1>1, <1>4, <2>1 DEF Quiet, session, Answer, TypeOK
  <2>6. pc'[x] = "commit" => Insert(x)
    BY <1>1, <1>4, <2>1 DEF Quiet, Goto, TypeOK
  <2> QED
    BY <1>1, <2>2, <2>3, <2>4, <2>5, <2>6 DEF Kept, TypeOK
<1> QED
  BY <1>2, <1>3, <1>4 DEF Quiet

LEMMA StoresMove ==
  ASSUME TypeInv, NEW x \in Procs, Stores(x)
  PROVE  /\ Store(x)
         /\ pc[x] = "commit"
         /\ \A p \in Procs \ {x} : Kept(p)
         /\ pc'[x] \in {"refresh", "find", "serving"}
         /\ reply' = reply
<1>1. TypeOK
  BY DEF TypeInv
<1>2. CASE x \in Workers /\ CommitRegister(x)
  <2>1. /\ Store(x) /\ step' = step /\ pc' = [pc EXCEPT ![x] = "refresh"]
        /\ account' = [account EXCEPT ![x] = Len(users')]
    BY <1>2 DEF CommitRegister, Goto
  <2> QED
    BY <1>1, <1>2, <2>1 DEF Kept, Store, TypeOK
<1>3. CASE x \in Instances /\ CommitSeed(x)
  <2>1. Store(x) /\ account' = account /\ pc[x] = "commit"
    BY <1>3 DEF CommitSeed, Store
  <2>2. CASE Item(x) \in Emails
    BY <1>1, <1>3, <2>1, <2>2 DEF CommitSeed, Goto, Kept, Store, TypeOK
  <2>3. CASE Item(x) \notin Emails
    <3>1. Advance(x) /\ step[x] \in 1..5
      BY <1>3, <2>1, <2>3 DEF CommitSeed, TypeInv, SeederOK
    <3> QED
      BY <1>3, <2>1, <3>1, AdvanceType DEF Kept, Store
  <2> QED
    BY <2>2, <2>3
<1> QED
  BY <1>2, <1>3 DEF Stores

LEMMA CrashMove ==
  ASSUME TypeInv, NEW i \in Instances, Crash(i)
  PROVE  /\ UNCHANGED <<database, tables, users, batches>>
         /\ \A p \in Procs \ Killed(i) : Kept(p)
         /\ \A p \in Killed(i) : pc'[p] = IF p = i THEN "down" ELSE "idle"
         /\ \A w \in Workers \cap Killed(i) : reply'[w] = "none"
         /\ Killed(i) \subseteq Procs
<1>1. TypeOK /\ i \notin Workers /\ Killed(i) \subseteq Procs
  BY ProcsAssumption DEF TypeInv, Killed, Procs
<1> QED
  BY <1>1 DEF Crash, stored, Kept, Killed, TypeOK, Procs

-----------------------------------------------------------------------------
(* One account for an email *)

\* Whoever has inserted and not yet committed is alone with its email (or its
\* tables), which nobody has committed before.
UniqueInv ==
  /\ TypeInv
  /\ \A p \in Procs :
       pc[p] = "commit" /\ Item(p) # "events" => ~Present(Item(p))
  /\ \A p, q \in Procs :
       p # q /\ pc[p] = "commit" /\ pc[q] = "commit" /\ Item(p) = Item(q) =>
         Item(p) = "events"

\* Tables that are left alone show what they showed.
LEMMA SamePresent ==
  ASSUME UNCHANGED <<tables, users, batches>>, NEW x
  PROVE  Present(x)' <=> Present(x)
BY DEF Present, Ids

\* A commit makes its own item visible and no other.
LEMMA StorePresent ==
  ASSUME TypeInv, NEW p \in Procs, Store(p)
  PROVE  \A x \in Emails \cup {"tables", "events"} :
           Present(x)' <=> Present(x) \/ x = Item(p)
<1> SUFFICES ASSUME NEW x \in Emails \cup {"tables", "events"}
             PROVE  Present(x)' <=> Present(x) \/ x = Item(p)
  OBVIOUS
<1>1. TypeOK /\ pc[p] = "commit"
  BY DEF TypeInv, Store
<1>2. /\ Item(p) \in Emails \cup {"tables", "events"}
      /\ users \in Seq(Account) /\ Len(users) \in Nat /\ batches \in Nat
  BY <1>1, Items DEF TypeOK
<1>3. CASE Item(p) \in Emails
  <2>1. /\ users' = Append(users, Row(p)) /\ Row(p).email = Item(p) /\ Row(p) \in Account
        /\ tables' = tables /\ batches' = batches
    BY <1>1, <1>3, EmailsAssumption, Rows DEF Store, TypeOK
  <2>2. /\ Len(users') = Len(users) + 1 /\ users'[Len(users) + 1] = Row(p)
        /\ \A i \in 1..Len(users) : users'[i] = users[i]
    BY <1>2, <2>1, AppendProperties
  <2>3. (\E i \in 1..Len(users') : users'[i].email = x)
        <=> (\E i \in 1..Len(users) : users[i].email = x) \/ x = Item(p)
    BY <1>2, <2>1, <2>2
  <2> QED
    BY <2>1, <2>3 DEF Present, Ids
<1>4. CASE Item(p) \in {"tables", "events"}
  <2>1. /\ users' = users
        /\ tables' = (tables \/ Item(p) = "tables")
        /\ batches' = IF Item(p) = "events" THEN batches + 1 ELSE batches
    BY <1>4, EmailsAssumption DEF Store
  <2>2. batches' > 0 <=> batches > 0 \/ Item(p) = "events"
    BY <1>2, <2>1
  <2>3. (\E i \in Ids : users[i].email = x)' <=> (\E i \in Ids : users[i].email = x)
    BY <2>1 DEF Ids
  <2> QED
    BY <1>4, <2>1, <2>2, <2>3 DEF Present
<1> QED
  BY <1>2, <1>3, <1>4

LEMMA UniqueInit == Init => UniqueInv
<1> SUFFICES ASSUME Init PROVE UniqueInv
  OBVIOUS
<1>1. \A p \in Procs : pc[p] # "commit"
  BY DEF Init
<1> QED
  BY <1>1, TypeInit DEF UniqueInv

LEMMA UniqueQuiet ==
  ASSUME UniqueInv, NEW x \in Procs, Quiet(x), TypeInv'
  PROVE  UniqueInv'
<1>1. /\ TypeInv
      /\ UNCHANGED <<tables, users, batches>>
      /\ \A p \in Procs \ {x} : Kept(p) /\ pc'[p] = pc[p] /\ Item(p)' = Item(p)
      /\ pc'[x] = "commit" => Insert(x)
  BY QuietMove, KeptItem DEF UniqueInv, Kept
<1>2. CASE pc'[x] # "commit"
  <2>1. \A p \in Procs : pc'[p] = "commit" => pc[p] = "commit" /\ Item(p)' = Item(p)
    BY <1>1, <1>2
  <2> QED
    BY <1>1, <2>1, SamePresent DEF UniqueInv
<1>3. CASE Insert(x)
  <2>1. Item(x)' = Item(x)
    BY <1>3 DEF Insert, Item, session
  <2>2. /\ Item(x) # "events" => ~Present(Item(x))
        /\ Item(x) # "events" =>
             ~\E q \in Procs \ {x} : pc[q] = "commit" /\ Item(q) = Item(x)
    BY <1>3 DEF Insert, Refused, DuplicatePending, PendingWith
  <2>3. \A p \in Procs : pc'[p] = "commit" =>
          (p = x \/ pc[p] = "commit") /\ Item(p)' = Item(p)
    BY <1>1, <2>1
  <2>4. ASSUME NEW p \in Procs, pc'[p] = "commit", Item(p)' # "events"
        PROVE  ~Present(Item(p))'
    <3>1. Item(p)' = Item(p) /\ ~Present(Item(p))
      BY <2>2, <2>3, <2>4 DEF UniqueInv
    <3> QED
      BY <1>1, <3>1 DEF Present, Ids
  <2>5. ASSUME NEW p \in Procs, NEW q \in Procs, p # q,
               pc'[p] = "commit", pc'[q] = "commit", Item(p)' = Item(q)'
        PROVE  Item(p)' = "events"
    BY <2>2, <2>3, <2>5 DEF UniqueInv
  <2> QED
    BY <2>4, <2>5 DEF UniqueInv
<1> QED
  BY <1>1, <1>2, <1>3

LEMMA UniqueStores ==
  ASSUME UniqueInv, NEW x \in Procs, Stores(x), TypeInv'
  PROVE  UniqueInv'
<1>1. /\ TypeInv /\ Store(x) /\ pc[x] = "commit" /\ pc'[x] # "commit"
      /\ \A p \in Procs \ {x} : Kept(p) /\ pc'[p] = pc[p] /\ Item(p)' = Item(p)
  BY StoresMove, KeptItem DEF UniqueInv, Kept
<1>2. ASSUME NEW p \in Procs, pc'[p] = "commit", Item(p)' # "events"
      PROVE  ~Present(Item(p))'
  <2>1. p # x /\ Item(p)' = Item(p) /\ pc[p] = "commit" /\ ~Present(Item(p))
    BY <1>1, <1>2 DEF UniqueInv
  <2>2. Item(p) # Item(x)
    BY <1>1, <1>2, <2>1 DEF UniqueInv
  <2>3. PICK y \in Emails \cup {"tables", "events"} : y = Item(p)
    BY <1>1, <2>1, Items
  <2>4. ~Present(y)'
    BY <1>1, <2>1, <2>2, <2>3, StorePresent
  <2>5. y = Item(p)'
    BY <2>1, <2>3
  <2> QED
    BY <2>4, <2>5 DEF Present
<1>3. ASSUME NEW p \in Procs, NEW q \in Procs, p # q,
             pc'[p] = "commit", pc'[q] = "commit", Item(p)' = Item(q)'
      PROVE  Item(p)' = "events"
  BY <1>1, <1>3 DEF UniqueInv
<1> QED
  BY <1>2, <1>3 DEF UniqueInv

LEMMA UniqueCrash ==
  ASSUME UniqueInv, NEW i \in Instances, Crash(i), TypeInv'
  PROVE  UniqueInv'
<1>1. /\ TypeInv
      /\ UNCHANGED <<tables, users, batches>>
      /\ \A p \in Procs \ Killed(i) : Kept(p) /\ pc'[p] = pc[p] /\ Item(p)' = Item(p)
      /\ \A p \in Killed(i) : pc'[p] # "commit"
  BY CrashMove, KeptItem DEF UniqueInv, Kept
<1>2. \A p \in Procs : pc'[p] = "commit" => pc[p] = "commit" /\ Item(p)' = Item(p)
  BY <1>1
<1> QED
  BY <1>1, <1>2, SamePresent DEF UniqueInv

LEMMA UniqueNext == UniqueInv /\ [Next]_vars => UniqueInv'
<1> SUFFICES ASSUME UniqueInv, [Next]_vars PROVE UniqueInv'
  OBVIOUS
<1>1. TypeInv'
  BY TypeNext DEF UniqueInv
<1>2. CASE UNCHANGED vars
  BY <1>1, <1>2 DEF UniqueInv, Present, Ids, Item, vars, stored, session
<1> QED
  BY <1>1, <1>2, Steps, UniqueQuiet, UniqueStores, UniqueCrash

\* A commit of an account opens it in the book; no other step touches the book.
LEMMA BookStep == UniqueInv /\ [Next]_vars => [Book!Next]_users
<1> SUFFICES ASSUME UniqueInv, [Next]_vars, users' # users PROVE Book!Next
  OBVIOUS
<1>1. PICK x \in Procs : Stores(x)
  BY Steps, QuietMove, CrashMove DEF UniqueInv, vars, stored
<1>2. /\ TypeInv /\ Store(x) /\ pc[x] = "commit"
  BY <1>1, StoresMove DEF UniqueInv
<1>3. Item(x) \in Emails /\ users' = Append(users, Row(x))
  BY <1>2 DEF Store
<1>4. Row(x) \in Account /\ Row(x).email = Item(x)
  BY <1>2, <1>3, Rows
<1>5. ~\E i \in 1..Len(users) : users[i].email = Row(x).email
  BY <1>2, <1>3, <1>4, EmailsAssumption DEF UniqueInv, Present, Ids
<1>6. Book!Open(Row(x))
  BY <1>3, <1>5 DEF Book!Open, Book!HasAccount
<1> QED
  BY <1>4, <1>6 DEF Book!Next, Book!Account, Account

\* Registrations and seeds, with their looks, inserts and crashes, add up to
\* single steps that open an account for an email that has none.
THEOREM AccountsImplementBook == Spec => ImplementsAccountBook
<1>1. Spec => []UniqueInv
  BY UniqueInit, UniqueNext, PTL DEF Spec
<1>2. Init => Book!Init
  BY DEF Init, Book!Init
<1> QED
  BY <1>1, <1>2, BookStep, PTL DEF Spec, ImplementsAccountBook, Book!Spec

\* What the book says of emails.
OneAccountPerEmail ==
  \A i, j \in Ids : users[i].email = users[j].email => i = j

BookInv == users \in Seq(Account) /\ OneAccountPerEmail

\* An account is opened once, for an email that has none.
LEMMA BookNext ==
  ASSUME BookInv, [Book!Next]_users
  PROVE  /\ BookInv'
         /\ \A i \in Ids : i \in Ids' /\ users'[i] = users[i]
<1>1. CASE users' = users
  BY <1>1 DEF BookInv, OneAccountPerEmail, Ids
<1>2. ASSUME NEW a \in Account, Book!Open(a)
      PROVE  /\ BookInv'
             /\ \A i \in Ids : i \in Ids' /\ users'[i] = users[i]
  <2>1. /\ users \in Seq(Account) /\ Len(users) \in Nat
        /\ users' = Append(users, a)
        /\ \A i \in Ids : users[i].email # a.email
    BY <1>2 DEF BookInv, Book!Open, Book!HasAccount, Ids
  <2>2. /\ users' \in Seq(Account) /\ Len(users') = Len(users) + 1
        /\ users'[Len(users) + 1] = a
        /\ \A i \in Ids : users'[i] = users[i]
    BY <2>1, AppendProperties DEF Ids
  <2>3. OneAccountPerEmail'
    BY <2>1, <2>2 DEF BookInv, OneAccountPerEmail, Ids
  <2> QED
    BY <2>1, <2>2, <2>3 DEF BookInv, Ids
<1> QED
  BY <1>1, <1>2 DEF Book!Next, Book!Account, Account

\* An email names one account, which nothing ever changes or takes away: of the
\* book, and so of the users table that implements it (models.py:39).
THEOREM AccountsLast ==
  Spec => []OneAccountPerEmail /\ [][\A i \in Ids : i \in Ids' /\ users'[i] = users[i]]_users
<1>1. Book!Init => BookInv
  BY DEF Book!Init, BookInv, OneAccountPerEmail, Ids
<1>2. BookInv /\ [Book!Next]_users =>
        BookInv' /\ [\A i \in Ids : i \in Ids' /\ users'[i] = users[i]]_users
  BY BookNext
<1>3. BookInv => OneAccountPerEmail
  BY DEF BookInv
<1> QED
  BY <1>1, <1>2, <1>3, AccountsImplementBook, PTL DEF ImplementsAccountBook, Book!Spec

-----------------------------------------------------------------------------
(* SQLite: one transaction at a time *)

\* Whoever looked and found nothing has the write lock, so nothing came since.
SqliteInv ==
  /\ TypeInv
  /\ database = "sqlite" =>
       /\ \A p \in Procs : pc[p] \in {"insert", "commit"} =>
            dbLock = p /\ ~Present(Item(p))
       /\ batches <= 1
       /\ \A w \in Workers : reply[w] # "integrity_error"

LEMMA SqliteInit == Init => SqliteInv
<1> SUFFICES ASSUME Init PROVE SqliteInv
  OBVIOUS
<1>1. \A p \in Procs : pc[p] \notin {"insert", "commit"}
  BY DEF Init
<1> QED
  BY <1>1, TypeInit DEF SqliteInv, Init

LEMMA SqliteQuiet ==
  ASSUME SqliteInv, database = "sqlite", NEW x \in Procs, Quiet(x), TypeInv'
  PROVE  SqliteInv'
<1> DEFINE Busy(p) == pc[p] \in {"insert", "commit"}
<1>1. /\ TypeInv /\ TypeOK
      /\ UNCHANGED <<database, tables, users, batches>>
      /\ \A p \in Procs \ {x} : Kept(p) /\ pc'[p] = pc[p] /\ Item(p)' = Item(p)
  BY QuietMove, KeptItem DEF SqliteInv, Kept, TypeInv
<1>2. \A p \in Procs : Busy(p) => dbLock = p /\ ~Present(Item(p))
  BY DEF SqliteInv
\* The steps that take or give the lock, and those that have it.
<1>3. dbLock' # dbLock => dbLock \in {Nobody, x} /\ dbLock' \in {Nobody, x}
  <2>1. CASE x \in Instances
    BY <2>1, ProcsAssumption DEF Quiet, Boot, Skip, SkipAndClose, FindNothing, Insert,
       InsertRefused, RefreshSeed, Begin, Release, session
  <2>2. CASE x \in Workers
    BY <2>2, ProcsAssumption DEF Quiet, Receive, Hash, FindTaken, FindNothing, LoadUser,
       Verify, Insert, InsertRefused, RefreshRegister, Respond, Fail,
       Begin, Release, session
  <2> QED
    BY <2>1, <2>2 DEF Procs
<1>4. pc'[x] \in {"insert", "commit"} => FindNothing(x) \/ Insert(x)
  <2>1. CASE x \in Instances /\ (Skip(x) \/ SkipAndClose(x) \/ RefreshSeed(x))
    <3>1. step[x] \in 1..5 /\ Advance(x)
      BY <1>1, <2>1 DEF TypeInv, SeederOK, Skip, SkipAndClose, RefreshSeed
    <3> QED
      BY <1>1, <2>1, <3>1, AdvanceType
  <2>2. CASE x \in Instances /\ (Boot(x) \/ InsertRefused(x))
    BY <1>1, <2>2, ProcsAssumption DEF Boot, InsertRefused, Goto, TypeOK
  <2>3. CASE x \in Workers
    BY <1>1, <2>3, ProcsAssumption DEF Quiet, Receive, Hash, FindTaken, FindNothing,
       LoadUser, Verify, Insert, InsertRefused, RefreshRegister, Respond,
       Fail, Goto, TypeOK
  <2> QED
    BY <2>1, <2>2, <2>3 DEF Quiet
<1>5. ASSUME pc'[x] \in {"insert", "commit"}
      PROVE  dbLock' = x /\ Item(x)' = Item(x) /\ ~Present(Item(x))
  <2>1. CASE FindNothing(x)
    BY <1>1, <2>1 DEF FindNothing, Begin, Item, session
  <2>2. CASE Insert(x)
    BY <1>2, <2>2 DEF Insert, Item, session
  <2> QED
    BY <1>4, <1>5, <2>1, <2>2
<1>6. \A p \in Procs : Busy(p)' => dbLock' = p /\ Item(p)' = Item(p) /\ ~Present(Item(p))
  <2> TAKE p \in Procs
  <2> HAVE Busy(p)'
  <2>1. CASE p = x
    BY <1>5, <2>1
  <2>2. CASE p # x
    <3>1. Busy(p) /\ Item(p)' = Item(p)
      BY <1>1, <2>2
    <3>2. dbLock = p /\ p # Nobody
      BY <1>2, <3>1, ProcsAssumption
    <3> QED
      BY <1>2, <1>3, <2>2, <3>1, <3>2
  <2> QED
    BY <2>1, <2>2
<1>7. \A p \in Procs : Busy(p)' => ~Present(Item(p))'
  BY <1>1, <1>6 DEF Present, Ids
<1>8. \A w \in Workers : reply'[w] # "integrity_error"
  <2> TAKE w \in Workers
  <2>1. reply[w] # "integrity_error" /\ w \in Procs
    BY DEF SqliteInv, Procs
  <2>2. CASE w # x
    BY <1>1, <2>1, <2>2 DEF Kept
  <2>3. CASE w = x
    <3>1. ~InsertRefused(x)
      BY <1>2 DEF InsertRefused, Refused
    <3> QED
      BY <1>1, <2>1, <2>3, <3>1, ProcsAssumption DEF Quiet, Receive, Hash, FindTaken,
         FindNothing, LoadUser, Verify, Insert, RefreshRegister, Respond, Fail,
         Answer, TypeOK, session
  <2> QED
    BY <2>2, <2>3
<1> QED
  BY <1>1, <1>6, <1>7, <1>8 DEF SqliteInv

LEMMA SqliteStores ==
  ASSUME SqliteInv, database = "sqlite", NEW x \in Procs, Stores(x), TypeInv'
  PROVE  SqliteInv'
<1>1. /\ TypeInv /\ TypeOK /\ Store(x) /\ pc[x] = "commit"
      /\ pc'[x] \in {"refresh", "find", "serving"}
      /\ \A p \in Procs \ {x} : pc'[p] = pc[p]
      /\ reply' = reply /\ database' = database
  BY StoresMove DEF SqliteInv, Kept, TypeInv, Store
<1>2. \A p \in Procs \ {x} : pc[p] \notin {"insert", "commit"}
  BY <1>1 DEF SqliteInv
<1>3. \A p \in Procs : pc'[p] \notin {"insert", "commit"}
  BY <1>1, <1>2
<1>4. batches' <= 1
  <2>1. Item(x) = "events" => batches = 0
    BY <1>1 DEF SqliteInv, Present, TypeOK
  <2> QED
    BY <1>1, <2>1 DEF SqliteInv, Store, TypeOK
<1> QED
  BY <1>1, <1>3, <1>4 DEF SqliteInv

LEMMA SqliteCrash ==
  ASSUME SqliteInv, database = "sqlite", NEW i \in Instances, Crash(i), TypeInv'
  PROVE  SqliteInv'
<1>1. /\ TypeInv /\ TypeOK
      /\ UNCHANGED <<database, tables, users, batches>>
      /\ \A p \in Procs \ Killed(i) : Kept(p) /\ pc'[p] = pc[p] /\ Item(p)' = Item(p)
      /\ \A p \in Killed(i) : pc'[p] \notin {"insert", "commit"}
      /\ \A w \in Workers \cap Killed(i) : reply'[w] = "none"
  BY CrashMove, KeptItem DEF SqliteInv, Kept, TypeInv
<1>2. dbLock' = IF dbLock \in Killed(i) THEN Nobody ELSE dbLock
  BY DEF Crash
<1>3. ASSUME NEW p \in Procs, pc'[p] \in {"insert", "commit"}
      PROVE  dbLock' = p /\ ~Present(Item(p))'
  <2>1. /\ p \notin Killed(i) /\ Item(p)' = Item(p)
        /\ dbLock = p /\ ~Present(Item(p))
    BY <1>1, <1>3 DEF SqliteInv
  <2> QED
    BY <1>1, <1>2, <2>1 DEF Present, Ids
<1>4. \A w \in Workers : reply'[w] # "integrity_error"
  BY <1>1 DEF SqliteInv, Kept, Procs
<1> QED
  BY <1>1, <1>3, <1>4 DEF SqliteInv

LEMMA SqliteNext == SqliteInv /\ [Next]_vars => SqliteInv'
<1> SUFFICES ASSUME SqliteInv, [Next]_vars PROVE SqliteInv'
  OBVIOUS
<1>1. TypeInv /\ TypeInv'
  BY TypeNext DEF SqliteInv
<1>2. CASE UNCHANGED vars
  BY <1>1, <1>2 DEF SqliteInv, Present, Ids, Item, vars, stored, session
<1>3. CASE database = "sqlite"
  BY <1>1, <1>2, <1>3, Steps, SqliteQuiet, SqliteStores, SqliteCrash
<1>4. CASE database # "sqlite" /\ Next
  <2>1. database' = database
    BY <1>1, <1>4, Steps, QuietMove, CrashMove, StoresMove DEF Store
  <2> QED
    BY <1>1, <1>4, <2>1 DEF SqliteInv
<1> QED
  BY <1>2, <1>3, <1>4

\* On SQLite nobody ever learns by an IntegrityError that another one was
\* faster: who found no account under BEGIN IMMEDIATE can insert it.
THEOREM SqliteSignupsExplained == Spec => SqliteTellsTaken
<1>1. Spec => []SqliteInv
  BY SqliteInit, SqliteNext, PTL DEF Spec
<1>2. SqliteInv /\ SqliteInv' /\ [Next]_vars =>
        [database = "sqlite" => \A w \in Workers : reply'[w] # "integrity_error"]_vars
  <2> SUFFICES ASSUME SqliteInv, SqliteInv', Next, database = "sqlite"
               PROVE  \A w \in Workers : reply'[w] # "integrity_error"
    BY DEF vars
  <2>1. database' = database
    BY Steps, QuietMove, CrashMove, StoresMove DEF Store, SqliteInv
  <2> QED
    BY <2>1 DEF SqliteInv
<1> QED
  BY <1>1, <1>2, PTL DEF Spec, SqliteTellsTaken

-----------------------------------------------------------------------------
(* Deadlock *)

\* A handler or a seed that holds SQLite's write lock is at work in its
\* transaction, and who inserts on SQLite is the one that holds it.
HolderInv ==
  /\ SqliteInv
  /\ dbLock # Nobody => database = "sqlite"
  /\ \A p \in Procs :
       dbLock = p => pc[p] \notin {"down", "idle", "serving", "hash", "refresh"}

LEMMA HolderInit == Init => HolderInv
BY SqliteInit, ProcsAssumption DEF Init, HolderInv

\* Lock and label of a process that goes on in its transaction, or ends it.
LEMMA QuietHolder ==
  ASSUME HolderInv, NEW x \in Procs, Quiet(x)
  PROVE  /\ dbLock' # dbLock => /\ dbLock \in {Nobody, x}
                                /\ dbLock' \in {Nobody, x}
         /\ dbLock' # Nobody => database = "sqlite"
         /\ dbLock' = x =>
              pc'[x] \notin {"down", "idle", "serving", "hash", "refresh"}
<1>1. /\ TypeInv /\ TypeOK
      /\ dbLock # Nobody => database = "sqlite"
      /\ dbLock = x => pc[x] \notin {"down", "idle", "serving", "hash", "refresh"}
  BY DEF HolderInv, SqliteInv, TypeInv
<1>2. CASE x \in Instances /\ (Skip(x) \/ SkipAndClose(x) \/ RefreshSeed(x))
  <2>1. step[x] \in 1..5 /\ Advance(x) /\ SeederOK(x)
    BY <1>1, <1>2 DEF TypeInv, SeederOK, Skip, SkipAndClose, RefreshSeed
  <2>2. CASE SkipAndClose(x)
    BY <1>1, <2>2, ProcsAssumption DEF SkipAndClose, Release
  <2>3. CASE Skip(x) \/ RefreshSeed(x)
    <3>1. step[x] # 5
      BY <1>1, <1>2, <2>1, <2>3, Plan, EmailsAssumption DEF Skip, RefreshSeed, SeederOK, Item
    <3>2. pc'[x] = "find"
      BY <1>1, <1>2, <2>1, <3>1, Plan DEF Advance, Goto, TypeOK, Procs
    <3> QED
      BY <1>1, <2>3, <3>2, ProcsAssumption DEF Skip, RefreshSeed, Begin
  <2> QED
    BY <1>2, <2>2, <2>3
<1>3. CASE x \in Instances /\ (Boot(x) \/ FindNothing(x) \/ Insert(x) \/ InsertRefused(x))
  BY <1>1, <1>3, ProcsAssumption DEF Boot, FindNothing, Insert, InsertRefused, Begin,
     Release, Goto, TypeOK
<1>4. CASE x \in Workers
  BY <1>1, <1>4, ProcsAssumption DEF Quiet, Receive, Hash, FindTaken, FindNothing, LoadUser,
     Verify, Insert, InsertRefused, RefreshRegister, Respond, Fail,
     Begin, Release, Goto, TypeOK
<1> QED
  BY <1>2, <1>3, <1>4 DEF Quiet

\* Every step leaves the lock with somebody at work, or free.
LEMMA HolderNext == HolderInv /\ [Next]_vars => HolderInv'
<1> SUFFICES ASSUME HolderInv, [Next]_vars PROVE HolderInv'
  OBVIOUS
<1> DEFINE Resting == {"down", "idle", "serving", "hash", "refresh"}
<1>1. /\ TypeInv /\ TypeOK /\ SqliteInv'
      /\ dbLock # Nobody => database = "sqlite"
      /\ \A p \in Procs : dbLock = p => pc[p] \notin Resting
  BY SqliteNext DEF HolderInv, SqliteInv, TypeInv
<1>2. CASE UNCHANGED vars
  BY <1>1, <1>2 DEF HolderInv, vars
<1>3. ASSUME NEW x \in Procs, Quiet(x)
      PROVE  HolderInv'
  <2>1. database' = database /\ \A p \in Procs \ {x} : pc'[p] = pc[p]
    BY <1>1, <1>3, QuietMove DEF Kept
  <2>2. ASSUME NEW p \in Procs, dbLock' = p  PROVE pc'[p] \notin Resting
    <3>1. CASE p = x
      BY <1>3, <2>2, <3>1, QuietHolder
    <3>2. CASE p # x
      <4>1. dbLock = p
        BY <1>3, <2>2, <3>2, QuietHolder, ProcsAssumption
      <4> QED
        BY <1>1, <2>1, <3>2, <4>1
    <3> QED
      BY <3>1, <3>2
  <2> QED
    BY <1>1, <1>3, <2>1, <2>2, QuietHolder DEF HolderInv
<1>4. ASSUME NEW x \in Procs, Stores(x)
      PROVE  HolderInv'
  <2>1. /\ database' = database /\ \A p \in Procs \ {x} : pc'[p] = pc[p]
        /\ dbLock' = IF dbLock = x THEN Nobody ELSE dbLock
    BY <1>1, <1>4, StoresMove DEF Kept, Store, Release
  <2>2. \A p \in Procs : dbLock' = p => p # x /\ dbLock = p
    BY <2>1, ProcsAssumption
  <2> QED
    BY <1>1, <2>1, <2>2 DEF HolderInv
<1>5. ASSUME NEW i \in Instances, Crash(i)
      PROVE  HolderInv'
  <2>1. database' = database /\ \A p \in Procs \ Killed(i) : pc'[p] = pc[p]
    BY <1>1, <1>5, CrashMove DEF Kept
  <2>2. dbLock' = IF dbLock \in Killed(i) THEN Nobody ELSE dbLock
    BY <1>5 DEF Crash
  <2>3. \A p \in Procs : dbLock' = p => p \notin Killed(i) /\ dbLock = p
    BY <2>2, ProcsAssumption
  <2> QED
    BY <1>1, <2>1, <2>2, <2>3 DEF HolderInv
<1> QED
  BY <1>2, <1>3, <1>4, <1>5, Steps

\* Of any set of processes one can go on: the holder of the write lock, one
\* that waits for a holder outside the set, or one whose duplicate is about to
\* commit.
LEMMA HolderFree == HolderInv => NoDeadlock
<1> SUFFICES ASSUME HolderInv, NEW S \in (SUBSET Procs) \ {{}}
             PROVE  \E p \in S : \A q \in Procs :
                      WaitsFor(p, q) => q \notin S /\ pc[q] \notin {"down", "idle", "serving"}
  BY DEF NoDeadlock
<1>1. \A q \in Procs : dbLock = q => pc[q] \notin {"down", "idle", "serving", "refresh"}
  BY DEF HolderInv
<1>2. CASE \E h \in S : dbLock = h
  <2>1. PICK h \in S : dbLock = h
    BY <1>2
  <2>2. h \in Procs /\ database = "sqlite"
    BY <2>1, ProcsAssumption DEF HolderInv
  <2>3. \A q \in Procs : pc[q] = "commit" => q = h
    BY <2>1, <2>2 DEF HolderInv, SqliteInv
  <2>4. \A q \in Procs : ~WaitsFor(h, q)
    BY <2>1, <2>3 DEF WaitsFor, PendingWith
  <2> QED
    BY <2>4
<1>3. CASE ~(\E h \in S : dbLock = h) /\ \E p \in S : pc[p] # "insert"
  BY <1>1, <1>3 DEF WaitsFor
<1>4. CASE \A p \in S : pc[p] = "insert"
  <2>1. PICK p \in S : TRUE
    OBVIOUS
  <2>2. \A q \in Procs : WaitsFor(p, q) => pc[q] = "commit"
    BY <1>4, <2>1 DEF WaitsFor, PendingWith
  <2> QED
    BY <1>4, <2>1, <2>2
<1> QED
  BY <1>2, <1>3, <1>4

\* Seeds, registrations and logins never wait for each other in a circle, nor
\* for a transaction nobody is going to end, on either engine and whichever of
\* them are killed (seed.py:61-62, database.py:66-72).
THEOREM AccountsNeverDeadlock == Spec => []NoDeadlock
<1>1. Spec => []HolderInv
  BY HolderInit, HolderNext, PTL DEF Spec
<1> QED
  BY <1>1, HolderFree, PTL

-----------------------------------------------------------------------------
(* The seed *)

\* The seed's own accounts.
AdminRow == [email |-> AdminEmail, secret |-> SeedSecret[AdminEmail], admin |-> TRUE]
DemoRow  == [email |-> DemoEmail, secret |-> SeedSecret[DemoEmail], admin |-> FALSE]

\* How many items of the plan instance i has seen to.
Reached(i) ==
  IF pc[i] = "serving" THEN 5
  ELSE IF pc[i] = "refresh" THEN step[i]
  ELSE IF pc[i] \in {"find", "insert", "commit"} THEN step[i] - 1 ELSE 0

\* An instance has behind it what is in the tables; requests are served only
\* by an instance that has all of it, so they never insert the seed's emails.
SeedInv ==
  /\ TypeInv
  /\ \A k \in Ids : /\ users[k].email = AdminEmail => users[k] = AdminRow
                    /\ users[k].email = DemoEmail => users[k] = DemoRow
  /\ \A i \in Instances : \A k \in 1..5 :
       k <= Reached(i) => Present(BootPlan[k])
  /\ \A w \in Workers :
       /\ pc[w] # "idle" => pc[Host[w]] = "serving"
       /\ pc[w] \in {"insert", "commit"} => Item(w) \notin {AdminEmail, DemoEmail}

LEMMA SeedInit == Init => SeedInv
<1> SUFFICES ASSUME Init PROVE SeedInv
  OBVIOUS
<1>1. \A i \in Instances : Reached(i) = 0
  BY DEF Init, Reached, Procs
<1>2. \A w \in Workers : pc[w] = "idle"
  BY ProcsAssumption DEF Init, Procs
<1>3. Ids = {}
  BY DEF Init, Ids
<1> QED
  BY <1>1, <1>2, <1>3, TypeInit DEF SeedInv

\* Going on with the plan leaves the item behind.
LEMMA AdvanceReaches ==
  ASSUME TypeInv, NEW i \in Instances, step[i] \in 1..5, Advance(i)
  PROVE  Reached(i)' = step[i]
<1>1. /\ pc \in [Procs -> WorkerLabels \cup InstanceLabels]
      /\ step \in [Instances -> 0..5]
      /\ Len(BootPlan) = 5 /\ i \in Procs
  BY Plan DEF TypeInv, TypeOK, Procs
<1>2. CASE step[i] = 5
  BY <1>1, <1>2 DEF Advance, Goto, Reached
<1>3. CASE step[i] # 5
  BY <1>1, <1>3 DEF Advance, Goto, Reached
<1> QED
  BY <1>2, <1>3

\* An instance that serves does nothing else, and who waits for a request is
\* idle.
LEMMA WhoSteps ==
  ASSUME TypeInv, NEW x \in Procs, Quiet(x) \/ Stores(x)
  PROVE  /\ x \in Instances => pc[x] # "serving"
         /\ x \in Workers /\ pc[x] = "idle" => pc[Host[x]] = "serving"
<1>1. CASE x \in Instances
  BY <1>1, ProcsAssumption DEF Quiet, Stores, Boot, Skip, SkipAndClose,
     FindNothing, Insert, InsertRefused, RefreshSeed, CommitSeed, Store
<1>2. CASE x \in Workers
  BY <1>2, ProcsAssumption DEF Quiet, Stores, Receive, Hash, FindTaken,
     FindNothing, LoadUser, Verify, Insert, InsertRefused, RefreshRegister,
     Respond, Fail, CommitRegister, Store
<1> QED
  BY <1>1, <1>2 DEF Procs

\* Requests stay with an instance that serves.
LEMMA HostsServe ==
  ASSUME SeedInv, NEW x \in Procs, Quiet(x) \/ Stores(x)
  PROVE  \A w \in Workers : pc'[w] # "idle" => pc'[Host[w]] = "serving"
<1> SUFFICES ASSUME NEW w \in Workers, pc'[w] # "idle"
             PROVE  pc'[Host[w]] = "serving"
  OBVIOUS
<1>1. TypeInv /\ Host[w] \in Instances /\ Host[w] \in Procs /\ w \in Procs
      /\ w \notin Instances
  BY HostAssumption, ProcsAssumption DEF SeedInv, Procs
<1>2. \A p \in Procs \ {x} : pc'[p] = pc[p]
  BY <1>1, QuietMove, StoresMove DEF Kept
<1>3. pc[Host[w]] = "serving"
  BY <1>1, <1>2, WhoSteps DEF SeedInv
<1>4. Host[w] # x
  BY <1>1, <1>3, WhoSteps
<1> QED
  BY <1>1, <1>2, <1>3, <1>4

LEMMA SeedQuiet ==
  ASSUME SeedInv, NEW x \in Procs, Quiet(x), TypeInv'
  PROVE  SeedInv'
<1>1. /\ TypeInv /\ TypeOK
      /\ UNCHANGED <<tables, users, batches>>
      /\ \A p \in Procs \ {x} : Kept(p) /\ pc'[p] = pc[p] /\ Item(p)' = Item(p)
      /\ \A y : Present(y)' <=> Present(y)
  BY QuietMove, KeptItem, SamePresent DEF SeedInv, Kept, TypeInv
<1>2. ASSUME NEW i \in Instances, NEW k \in 1..5, k <= Reached(i)'
      PROVE  Present(BootPlan[k])
  <2>1. CASE i # x
    <3>1. Reached(i)' = Reached(i)
      BY <1>1, <2>1 DEF Reached, Kept, Procs
    <3> QED
      BY <1>2, <3>1 DEF SeedInv
  <2>2. CASE i = x /\ (Skip(x) \/ SkipAndClose(x))
    <3>1. /\ pc[i] = "find" /\ step[i] \in 1..5 /\ Advance(i)
          /\ Present(Item(i)) /\ Item(i) = BootPlan[step[i]]
      BY <1>1, <2>2 DEF Skip, SkipAndClose, TypeInv, SeederOK, Item
    <3>2. Reached(i)' = step[i] /\ Reached(i) = step[i] - 1
      BY <1>1, <3>1, AdvanceReaches DEF Reached
    <3>3. k <= step[i] - 1 \/ k = step[i]
      BY <1>2, <3>1, <3>2
    <3> QED
      BY <3>1, <3>2, <3>3 DEF SeedInv
  <2>3. CASE i = x /\ RefreshSeed(x)
    <3>1. pc[i] = "refresh" /\ step[i] \in 1..5 /\ Advance(i)
      BY <1>1, <2>3 DEF RefreshSeed, TypeInv, SeederOK
    <3>2. Reached(i)' = step[i] /\ Reached(i) = step[i]
      BY <1>1, <3>1, AdvanceReaches DEF Reached
    <3> QED
      BY <1>2, <3>2 DEF SeedInv
  <2>4. CASE i = x /\ (Boot(x) \/ InsertRefused(x))
    <3>1. Reached(i)' = 0
      BY <1>1, <2>4, ProcsAssumption DEF Boot, InsertRefused, Goto, Reached, TypeOK, Procs
    <3> QED
      BY <1>2, <3>1
  <2>5. CASE i = x /\ (FindNothing(x) \/ Insert(x))
    <3>1. Reached(i)' = Reached(i)
      BY <1>1, <2>5 DEF FindNothing, Insert, Goto, Reached, TypeOK
    <3> QED
      BY <1>2, <3>1 DEF SeedInv
  <2> QED
    BY <2>1, <2>2, <2>3, <2>4, <2>5, ProcsAssumption DEF Quiet
<1>3. ASSUME NEW w \in Workers, pc'[w] \in {"insert", "commit"}
      PROVE  Item(w)' \notin {AdminEmail, DemoEmail}
  <2>1. w \in Procs /\ w \notin Instances /\ Host[w] \in Instances
    BY ProcsAssumption, HostAssumption DEF Procs
  <2>2. CASE w # x
    BY <1>1, <1>3, <2>1, <2>2 DEF SeedInv
  <2>3. CASE w = x
    <3>1. FindNothing(w) \/ Insert(w)
      BY <1>1, <1>3, <2>1, <2>3 DEF Quiet, Receive, Hash, FindTaken, FindNothing,
         LoadUser, Verify, Insert, InsertRefused, RefreshRegister, Respond,
         Fail, Goto, TypeOK
    <3>2. Item(w)' = Item(w)
      BY <2>1, <3>1 DEF FindNothing, Insert, Item, session
    <3>3. CASE Insert(w)
      BY <3>2, <3>3 DEF Insert, SeedInv
    <3>4. CASE FindNothing(w)
      <4>1. pc[Host[w]] = "serving" /\ ~Present(Item(w))
        BY <3>4 DEF FindNothing, SeedInv
      <4>2. Reached(Host[w]) = 5
        BY <4>1 DEF Reached
      <4>3. Present(AdminEmail) /\ Present(DemoEmail)
        BY <2>1, <4>2, Plan DEF SeedInv
      <4> QED
        BY <3>2, <4>1, <4>3
    <3> QED
      BY <3>1, <3>3, <3>4
  <2> QED
    BY <2>2, <2>3
<1>4. \A i \in Instances : \A k \in 1..5 : k <= Reached(i)' => Present(BootPlan[k])'
  BY <1>1, <1>2
<1>5. (\A k \in Ids : /\ users[k].email = AdminEmail => users[k] = AdminRow
                      /\ users[k].email = DemoEmail => users[k] = DemoRow)'
  BY <1>1 DEF SeedInv, Ids, AdminRow, DemoRow
<1> QED
  BY <1>3, <1>4, <1>5, HostsServe DEF SeedInv

\* A row of one of the seed's emails is the seed's.
LEMMA StoreOwnRows ==
  ASSUME SeedInv, NEW x \in Procs, Stores(x), TypeInv'
  PROVE  (\A k \in Ids : /\ users[k].email = AdminEmail => users[k] = AdminRow
                         /\ users[k].email = DemoEmail => users[k] = DemoRow)'
<1>1. TypeInv /\ Store(x) /\ pc[x] = "commit" /\ users \in Seq(Account)
  BY StoresMove DEF SeedInv, TypeInv, TypeOK
<1>2. CASE users' = users
  BY <1>2 DEF SeedInv, Ids, AdminRow, DemoRow
<1>3. CASE users' # users
  <2>1. Item(x) \in Emails /\ users' = Append(users, Row(x))
    BY <1>1, <1>3 DEF Store
  <2>2. Row(x) \in Account /\ Row(x).email = Item(x)
    BY <1>1, <2>1, Rows
  <2>3. /\ Row(x).email = AdminEmail => Row(x) = AdminRow
        /\ Row(x).email = DemoEmail => Row(x) = DemoRow
    <3>1. CASE x \in Instances
      BY <1>1, <2>1, <2>2, <3>1, Rows DEF AdminRow, DemoRow
    <3>2. CASE x \in Workers
      BY <1>1, <2>2, <3>2 DEF SeedInv
    <3> QED
      BY <3>1, <3>2 DEF Procs
  <2>4. /\ Len(users') = Len(users) + 1 /\ Len(users) \in Nat
        /\ users'[Len(users) + 1] = Row(x)
        /\ \A k \in 1..Len(users) : users'[k] = users[k]
    BY <1>1, <2>1, <2>2, AppendProperties
  <2> QED
    BY <2>3, <2>4 DEF SeedInv, Ids, AdminRow, DemoRow
<1> QED
  BY <1>2, <1>3

LEMMA SeedStores ==
  ASSUME SeedInv, NEW x \in Procs, Stores(x), TypeInv'
  PROVE  SeedInv'
<1>1. /\ TypeInv /\ TypeOK /\ Store(x) /\ pc[x] = "commit"
      /\ pc'[x] \in {"refresh", "find", "serving"}
      /\ \A p \in Procs \ {x} : Kept(p) /\ pc'[p] = pc[p] /\ Item(p)' = Item(p)
  BY StoresMove, KeptItem DEF SeedInv, Kept, TypeInv
<1>2. \A k \in 1..5 : BootPlan[k] \in Emails \cup {"tables", "events"}
  BY Plan, EmailsAssumption
<1>3. \A k \in 1..5 : Present(BootPlan[k])' <=> Present(BootPlan[k]) \/ BootPlan[k] = Item(x)
  BY <1>1, <1>2, StorePresent
<1>4. ASSUME NEW i \in Instances, NEW k \in 1..5, k <= Reached(i)'
      PROVE  Present(BootPlan[k])'
  <2>1. CASE i # x
    <3>1. Reached(i)' = Reached(i)
      BY <1>1, <2>1 DEF Reached, Kept, Procs
    <3> QED
      BY <1>3, <1>4, <3>1 DEF SeedInv
  <2>2. CASE i = x
    <3>1. /\ CommitSeed(i) /\ step[i] \in 1..5 /\ Item(i) = BootPlan[step[i]]
          /\ Reached(i) = step[i] - 1
      BY <1>1, <2>2, ProcsAssumption DEF Stores, TypeInv, SeederOK, Item, Reached
    <3>2. Reached(i)' = step[i]
      <4>1. CASE Item(i) \in Emails
        BY <1>1, <2>2, <3>1, <4>1 DEF CommitSeed, Goto, Reached, TypeOK
      <4>2. CASE Item(i) \notin Emails
        BY <1>1, <3>1, <4>2, AdvanceReaches DEF CommitSeed
      <4> QED
        BY <4>1, <4>2
    <3>3. k <= step[i] - 1 \/ k = step[i]
      BY <1>4, <3>1, <3>2
    <3> QED
      BY <1>3, <2>2, <3>1, <3>3 DEF SeedInv
  <2> QED
    BY <2>1, <2>2
<1>5. ASSUME NEW w \in Workers, pc'[w] \in {"insert", "commit"}
      PROVE  Item(w)' \notin {AdminEmail, DemoEmail}
  BY <1>1, <1>5 DEF SeedInv, Procs
<1> QED
  BY <1>4, <1>5, StoreOwnRows, HostsServe DEF SeedInv

LEMMA SeedCrash ==
  ASSUME SeedInv, NEW i \in Instances, Crash(i), TypeInv'
  PROVE  SeedInv'
<1>1. /\ TypeInv /\ TypeOK
      /\ UNCHANGED <<tables, users, batches>>
      /\ \A p \in Procs \ Killed(i) : Kept(p) /\ pc'[p] = pc[p] /\ Item(p)' = Item(p)
      /\ \A p \in Killed(i) : pc'[p] = IF p = i THEN "down" ELSE "idle"
      /\ \A y : Present(y)' <=> Present(y)
  BY CrashMove, KeptItem, SamePresent DEF SeedInv, Kept, TypeInv
<1>2. Killed(i) \cap Instances = {i} /\ \A w \in Workers : w \in Killed(i) <=> Host[w] = i
  BY ProcsAssumption DEF Killed
<1>3. ASSUME NEW j \in Instances, NEW k \in 1..5, k <= Reached(j)'
      PROVE  Present(BootPlan[k])'
  <2>1. CASE j = i
    BY <1>1, <1>2, <1>3, <2>1 DEF Reached
  <2>2. CASE j # i
    <3>1. Reached(j)' = Reached(j)
      BY <1>1, <1>2, <2>2 DEF Reached, Kept, Procs
    <3> QED
      BY <1>1, <1>3, <3>1 DEF SeedInv
  <2> QED
    BY <2>1, <2>2
<1>4. ASSUME NEW w \in Workers
      PROVE  /\ pc'[w] # "idle" => pc'[Host[w]] = "serving"
             /\ pc'[w] \in {"insert", "commit"} => Item(w)' \notin {AdminEmail, DemoEmail}
  <2>1. w \in Procs /\ w # i /\ Host[w] \in Instances /\ Host[w] \in Procs
    BY ProcsAssumption, HostAssumption DEF Procs
  <2>2. CASE Host[w] = i
    BY <1>1, <1>2, <2>1, <2>2
  <2>3. CASE Host[w] # i
    BY <1>1, <1>2, <2>1, <2>3 DEF SeedInv
  <2> QED
    BY <2>2, <2>3
<1>5. (\A k \in Ids : /\ users[k].email = AdminEmail => users[k] = AdminRow
                      /\ users[k].email = DemoEmail => users[k] = DemoRow)'
  BY <1>1 DEF SeedInv, Ids, AdminRow, DemoRow
<1> QED
  BY <1>3, <1>4, <1>5 DEF SeedInv

LEMMA SeedNext == SeedInv /\ [Next]_vars => SeedInv'
<1> SUFFICES ASSUME SeedInv, [Next]_vars PROVE SeedInv'
  OBVIOUS
<1>1. TypeInv /\ TypeInv'
  BY TypeNext DEF SeedInv
<1>2. CASE UNCHANGED vars
  BY <1>1, <1>2 DEF SeedInv, Present, Ids, Item, Reached, AdminRow, DemoRow,
     vars, stored, session
<1> QED
  BY <1>1, <1>2, Steps, SeedQuiet, SeedStores, SeedCrash

\* What an instance that serves has behind it is the whole seed.
LEMMA SeedComplete == SeedInv => ServingMeansSeeded
<1> SUFFICES ASSUME SeedInv, NEW i \in Instances, pc[i] = "serving"
             PROVE  /\ tables
                    /\ HasUser(AdminEmail, TRUE)
                    /\ HasUser(DemoEmail, FALSE)
                    /\ batches > 0
  BY DEF ServingMeansSeeded
<1>1. Reached(i) = 5
  BY DEF Reached
<1>2. Present("tables") /\ Present(AdminEmail) /\ Present(DemoEmail) /\ Present("events")
  BY <1>1, Plan DEF SeedInv
<1>3. \A k \in Ids : users[k].email \in Emails
  <2>1. users \in Seq(Account)
    BY DEF SeedInv, TypeInv, TypeOK
  <2>2. \A k \in Ids : users[k] \in Account
    BY <2>1, ElementOfSeq DEF Ids
  <2> QED
    BY <2>2 DEF Account
<1>4. tables /\ batches > 0
  BY <1>2, <1>3, EmailsAssumption DEF Present
<1>5. HasUser(AdminEmail, TRUE)
  <2>1. AdminEmail # "tables" /\ AdminEmail # "events"
    BY EmailsAssumption
  <2>2. PICK k \in Ids : users[k].email = AdminEmail
    BY <1>2, <2>1 DEF Present
  <2>3. users[k] = AdminRow
    BY <2>2 DEF SeedInv
  <2> QED
    BY <2>2, <2>3 DEF AdminRow, HasUser
<1>6. HasUser(DemoEmail, FALSE)
  <2>1. DemoEmail # "tables" /\ DemoEmail # "events"
    BY EmailsAssumption
  <2>2. PICK k \in Ids : users[k].email = DemoEmail
    BY <1>2, <2>1 DEF Present
  <2>3. users[k] = DemoRow
    BY <2>2 DEF SeedInv
  <2> QED
    BY <2>2, <2>3 DEF DemoRow, HasUser
<1> QED
  BY <1>4, <1>5, <1>6

\* An instance serves only a complete database, wherever earlier starts died,
\* and nobody can register the administrator's email before the seed does.
THEOREM ServedIsSeeded == Spec => []ServingMeansSeeded
BY SeedInit, SeedNext, SeedComplete, PTL DEF Spec

-----------------------------------------------------------------------------
(* Answers *)

\* The account of w has the email, and the password, that w was sent.
NamesEmail(w)  == account[w] \in Ids /\ users[account[w]].email = req[w].email
NamesSecret(w) == NamesEmail(w) /\ users[account[w]].secret = req[w].secret

\* What a handler holds on its way to the answer.
AnswerOK(w) ==
  /\ pc[w] # "done" => reply[w] = "none"
  /\ pc[w] \in {"idle", "hash", "find"} => account[w] = 0
  /\ pc[w] = "verify" /\ account[w] # 0 => NamesEmail(w)
  /\ pc[w] = "refresh" \/ reply[w] = "created" =>
       NamesSecret(w) /\ ~users[account[w]].admin
  /\ reply[w] = "token" => NamesSecret(w)

AnswersInv == TypeInv /\ \A w \in Workers : AnswerOK(w)

LEMMA AnswersInit == Init => AnswersInv
<1> SUFFICES ASSUME Init, NEW w \in Workers PROVE AnswerOK(w)
  BY TypeInit DEF AnswersInv
<1>1. pc[w] = "idle" /\ reply[w] = "none" /\ account[w] = 0
  BY ProcsAssumption DEF Init, Procs
<1> QED
  BY <1>1 DEF AnswerOK

\* No step takes a row away or changes it.
LEMMA RowsStay ==
  ASSUME TypeInv, Next
  PROVE  \A k \in Ids : k \in Ids' /\ users'[k] = users[k]
<1>1. Len(users) \in Nat
  BY DEF TypeInv, TypeOK
<1>2. CASE UNCHANGED users
  BY <1>2 DEF Ids
<1>3. ASSUME NEW x \in Procs, Stores(x)
      PROVE  \A k \in Ids : k \in Ids' /\ users'[k] = users[k]
  <2>1. Store(x)
    BY <1>3, StoresMove
  <2>2. Len(users') >= Len(users) /\ \A k \in Ids : users'[k] = users[k]
    BY <2>1, StoreType
  <2>3. Len(users') \in Nat
    BY <2>1, StoreType
  <2> QED
    BY <1>1, <2>2, <2>3 DEF Ids
<1> QED
  BY <1>2, <1>3, Steps, QuietMove, CrashMove

\* Who is left where it was still has its answer.
LEMMA AnswerKept ==
  ASSUME TypeInv, NEW w \in Workers, AnswerOK(w), Kept(w),
         \A k \in Ids : k \in Ids' /\ users'[k] = users[k]
  PROVE  AnswerOK(w)'
BY DEF AnswerOK, NamesEmail, NamesSecret, Kept

\* The step of a handler itself.
LEMMA AnswerStep ==
  ASSUME AnswersInv, NEW w \in Workers, Quiet(w)
  PROVE  AnswerOK(w)'
<1>1. TypeOK /\ HandlerOK(w) /\ AnswerOK(w) /\ w \in Procs /\ w \notin Instances
      /\ users' = users
  BY QuietMove, ProcsAssumption DEF AnswersInv, TypeInv, Procs
<1> USE DEF AnswerOK, NamesEmail, NamesSecret, Ids, Goto, Answer, TypeOK, session, stored
<1>2. CASE \E r \in Requests : Receive(w, r)
  BY <1>1, <1>2 DEF Receive
<1>3. CASE Hash(w) \/ FindTaken(w) \/ FindNothing(w) \/ Insert(w)
  BY <1>1, <1>3 DEF Hash, FindTaken, FindNothing, Insert
<1>4. CASE LoadUser(w)
  BY <1>1, <1>4 DEF LoadUser
<1>5. CASE Verify(w)
  BY <1>1, <1>5 DEF Verify
<1>6. CASE InsertRefused(w) \/ Fail(w)
  BY <1>1, <1>6 DEF InsertRefused, Fail
<1>7. CASE RefreshRegister(w)
  BY <1>1, <1>7 DEF RefreshRegister
<1>8. CASE Respond(w)
  BY <1>1, <1>8 DEF Respond
<1> QED
  BY <1>1, <1>2, <1>3, <1>4, <1>5, <1>6, <1>7, <1>8 DEF Quiet

\* The commit of a registration.
LEMMA AnswerStore ==
  ASSUME AnswersInv, NEW w \in Workers, Stores(w)
  PROVE  AnswerOK(w)'
<1>1. /\ TypeInv /\ TypeOK /\ AnswerOK(w) /\ w \in Procs /\ w \notin Instances
      /\ CommitRegister(w) /\ Store(w) /\ pc[w] = "commit"
  BY ProcsAssumption DEF AnswersInv, TypeInv, Procs, Stores, CommitRegister, Store
<1>2. Item(w) = req[w].email /\ Item(w) \in Emails
  BY <1>1, Items
<1>3. Row(w).email = req[w].email /\ Row(w).secret = req[w].secret /\ ~Row(w).admin
  BY <1>1, <1>2, Rows
<1>4. Len(users') = Len(users) + 1 /\ users'[Len(users')] = Row(w) /\ Len(users) \in Nat
  BY <1>1, <1>2, StoreType DEF TypeOK
<1>5. /\ account'[w] = Len(users') /\ pc'[w] = "refresh"
      /\ reply'[w] = "none" /\ req'[w] = req[w]
  BY <1>1 DEF CommitRegister, Store, Goto, TypeOK, AnswerOK
<1> QED
  BY <1>3, <1>4, <1>5 DEF AnswerOK, NamesEmail, NamesSecret, Ids

\* A step finds a handler bystanding, stepping, or dying with its container.
LEMMA WhoMoves ==
  ASSUME TypeInv, Next, NEW w \in Workers
  PROVE  \/ Kept(w) \/ Quiet(w) \/ Stores(w)
         \/ \E i \in Instances : Crash(i) /\ w \in Killed(i)
<1>1. w \in Procs
  BY DEF Procs
<1>2. ASSUME NEW x \in Procs, Quiet(x) \/ Stores(x)  PROVE x = w \/ Kept(w)
  BY <1>1, <1>2, QuietMove, StoresMove
<1>3. ASSUME NEW i \in Instances, Crash(i), w \notin Killed(i)  PROVE Kept(w)
  BY <1>1, <1>3, CrashMove
<1> QED
  BY <1>2, <1>3, Steps

LEMMA AnswersNext == AnswersInv /\ [Next]_vars => AnswersInv'
<1> SUFFICES ASSUME AnswersInv, [Next]_vars PROVE AnswersInv'
  OBVIOUS
<1>1. TypeInv /\ TypeInv'
  BY TypeNext DEF AnswersInv
<1>2. CASE UNCHANGED vars
  BY <1>1, <1>2 DEF AnswersInv, AnswerOK, NamesEmail, NamesSecret, Ids,
     vars, stored, session
<1>3. ASSUME Next, NEW w \in Workers PROVE AnswerOK(w)'
  <2>1. AnswerOK(w) /\ w \in Procs /\ w \notin Instances
    BY ProcsAssumption DEF AnswersInv, Procs
  <2>2. CASE Kept(w)
    BY <1>1, <1>3, <2>1, <2>2, RowsStay, AnswerKept
  <2>3. CASE Quiet(w) \/ Stores(w)
    BY <2>3, AnswerStep, AnswerStore
  <2>4. ASSUME NEW i \in Instances, Crash(i), w \in Killed(i) PROVE AnswerOK(w)'
    <3>1. pc'[w] = "idle" /\ reply'[w] = "none" /\ account'[w] = 0
      BY <1>1, <2>1, <2>4 DEF Crash, TypeInv, TypeOK
    <3> QED
      BY <3>1 DEF AnswerOK
  <2>5. Kept(w) \/ Quiet(w) \/ Stores(w) \/ \E i \in Instances : Crash(i) /\ w \in Killed(i)
    BY <1>1, <1>3, WhoMoves
  <2> QED
    BY <2>2, <2>3, <2>4, <2>5
<1> QED
  BY <1>1, <1>2, <1>3 DEF AnswersInv

\* A 201 or a token is about the client's own account, whoever else signs up
\* or seeds at the same time, and a sign-up makes nobody an administrator.
THEOREM AnswersAreOwn == Spec => []AnswersNameOwnAccount
<1>1. AnswersInv => AnswersNameOwnAccount
  BY DEF AnswersInv, AnswerOK, NamesEmail, NamesSecret, AnswersNameOwnAccount
<1> QED
  BY <1>1, AnswersInit, AnswersNext, PTL DEF Spec

\* Without an account an email is not refused.
RefusalInv == AnswersInv /\ RefusedIsTaken

\* An email that has an account keeps it.
LEMMA TakenStays ==
  ASSUME TypeInv, Next, NEW x \in Emails, Present(x)
  PROVE  Present(x)'
<1>1. PICK k \in Ids : users[k].email = x
  BY EmailsAssumption DEF Present
<1>2. k \in Ids' /\ users'[k] = users[k]
  BY <1>1, RowsStay
<1> QED
  BY <1>1, <1>2 DEF Present

\* A handler refuses for what it sees, or for what the index has committed.
LEMMA RefusalStep ==
  ASSUME AnswersInv, NEW w \in Workers, Quiet(w),
         reply'[w] \in {"email_taken", "integrity_error"}
  PROVE  Present(req[w].email)'
<1>1. /\ TypeInv /\ TypeOK /\ AnswerOK(w) /\ w \notin Instances
      /\ UNCHANGED <<tables, users, batches>>
  BY QuietMove, ProcsAssumption DEF AnswersInv, TypeInv, Procs
<1>2. FindTaken(w) \/ InsertRefused(w)
  BY <1>1 DEF Quiet, Receive, Hash, FindNothing, LoadUser, Verify, Insert,
     RefreshRegister, Respond, Fail, Answer, AnswerOK, TypeOK, session
<1>3. Present(req[w].email) /\ req' = req
  BY <1>1, <1>2 DEF FindTaken, InsertRefused, Refused, Item
<1> QED
  BY <1>1, <1>3 DEF Present, Ids

LEMMA RefusalNext == RefusalInv /\ [Next]_vars => RefusalInv'
<1> SUFFICES ASSUME RefusalInv, [Next]_vars PROVE RefusalInv'
  OBVIOUS
<1>1. TypeInv /\ AnswersInv /\ AnswersInv'
  BY AnswersNext DEF RefusalInv, AnswersInv
<1>2. CASE UNCHANGED vars
  BY <1>1, <1>2 DEF RefusalInv, RefusedIsTaken, Present, Ids, vars, stored, session
<1>3. ASSUME Next, NEW w \in Workers, reply'[w] \in {"email_taken", "integrity_error"}
      PROVE  Present(req[w].email)'
  <2>1. AnswerOK(w) /\ w \in Procs /\ w \notin Instances
    BY <1>1, ProcsAssumption DEF AnswersInv, Procs
  <2>2. CASE Kept(w)
    <3>1. req'[w] = req[w] /\ pc[w] = "done" /\ Present(req[w].email)
      BY <1>3, <2>1, <2>2 DEF Kept, AnswerOK, RefusalInv, RefusedIsTaken
    <3>2. req[w] \in Requests \cup {NoReq} /\ req[w] # NoReq
      BY <1>1, <3>1 DEF TypeInv, TypeOK, HandlerOK
    <3>3. req[w].email \in Emails
      BY <3>2, RequestFields
    <3>4. \A x \in Emails : Present(x) => Present(x)'
      BY <1>1, <1>3, TakenStays
    <3> QED
      BY <3>1, <3>3, <3>4 DEF Present, Ids
  <2>3. CASE Quiet(w)
    BY <1>1, <1>3, <2>3, RefusalStep
  <2>4. ~Stores(w)
    BY <1>1, <1>3, <2>1, StoresMove DEF AnswerOK
  <2>5. ASSUME NEW i \in Instances, Crash(i), w \in Killed(i) PROVE FALSE
    BY <1>1, <1>3, <2>5, CrashMove
  <2>6. Kept(w) \/ Quiet(w) \/ Stores(w) \/ \E i \in Instances : Crash(i) /\ w \in Killed(i)
    BY <1>1, <1>3, WhoMoves
  <2> QED
    BY <2>2, <2>3, <2>4, <2>5, <2>6
<1> QED
  BY <1>1, <1>2, <1>3 DEF RefusalInv, RefusedIsTaken

\* Nobody is turned away for an email that has no account: also the plain 500
\* of the loser of a race names a conflict that there is (auth.py:25-36).
THEOREM RefusalsAreTrue == Spec => []RefusedIsTaken
<1>1. Init => RefusalInv
  BY AnswersInit DEF Init, RefusalInv, RefusedIsTaken
<1>2. RefusalInv => RefusedIsTaken
  BY DEF RefusalInv
<1> QED
  BY <1>1, <1>2, RefusalNext, PTL DEF Spec

-----------------------------------------------------------------------------
(* The catalogue *)

\* The instances that found no events and have not committed theirs.
Seeding == {i \in Instances : pc[i] \in {"insert", "commit"} /\ Item(i) = "events"}

CatalogueInv ==
  TypeInv /\ batches + Cardinality(Seeding) <= Cardinality(Instances)

\* Fewer that seed, and as many events.
LEMMA FewerSeed ==
  ASSUME CatalogueInv, TypeInv', batches' = batches, Seeding' \subseteq Seeding
  PROVE  CatalogueInv'
<1>1. IsFiniteSet(Seeding) /\ IsFiniteSet(Seeding')
  BY FS_Subset, ProcsAssumption DEF Seeding
<1>2. Cardinality(Seeding') <= Cardinality(Seeding)
  BY <1>1, FS_Subset
<1>3. /\ Cardinality(Seeding') \in Nat /\ Cardinality(Seeding) \in Nat
      /\ Cardinality(Instances) \in Nat /\ batches \in Nat
  BY <1>1, FS_CardinalityType, ProcsAssumption DEF CatalogueInv, TypeInv, TypeOK
<1> QED
  BY <1>2, <1>3 DEF CatalogueInv

LEMMA CatalogueQuiet ==
  ASSUME CatalogueInv, NEW x \in Procs, Quiet(x), TypeInv'
  PROVE  CatalogueInv'
<1>1. /\ TypeInv /\ TypeOK
      /\ batches' = batches
      /\ \A p \in Procs \ {x} : Kept(p) /\ pc'[p] = pc[p] /\ Item(p)' = Item(p)
  BY QuietMove, KeptItem DEF CatalogueInv, Kept, TypeInv
<1>2. CASE x \notin Seeding' \/ x \in Seeding
  BY <1>1, <1>2, FewerSeed DEF Seeding, Procs
<1>3. CASE x \in Seeding' /\ x \notin Seeding
  <2>1. x \in Instances /\ pc'[x] \in {"insert", "commit"} /\ Item(x)' = "events"
    BY <1>3 DEF Seeding
  <2>2. ~(Skip(x) \/ SkipAndClose(x) \/ RefreshSeed(x))
    <3> SUFFICES ASSUME Skip(x) \/ SkipAndClose(x) \/ RefreshSeed(x) PROVE FALSE
      OBVIOUS
    <3>1. step[x] \in 1..5 /\ Advance(x)
      BY <1>1, <2>1 DEF TypeInv, SeederOK, Skip, SkipAndClose, RefreshSeed
    <3> QED
      BY <1>1, <2>1, <3>1, AdvanceType
  <2>3. ~(Boot(x) \/ InsertRefused(x))
    BY <1>1, <2>1, ProcsAssumption DEF Boot, InsertRefused, Goto, TypeOK
  <2>4. FindNothing(x) \/ Insert(x)
    BY <2>1, <2>2, <2>3, ProcsAssumption DEF Quiet
  <2>5. Item(x)' = Item(x)
    BY <2>1, <2>4 DEF FindNothing, Insert, Item
  <2>6. FindNothing(x)
    BY <1>3, <2>1, <2>4, <2>5 DEF Insert, Seeding
  <2>7. batches = 0
    BY <1>1, <2>1, <2>5, <2>6 DEF FindNothing, Present, TypeOK
  <2>8. Cardinality(Seeding') <= Cardinality(Instances)
    BY FS_Subset, ProcsAssumption DEF Seeding
  <2>9. Cardinality(Seeding') \in Nat
    BY FS_Subset, FS_CardinalityType, ProcsAssumption DEF Seeding
  <2> QED
    BY <1>1, <2>7, <2>8, <2>9 DEF CatalogueInv
<1> QED
  BY <1>2, <1>3

LEMMA CatalogueStores ==
  ASSUME CatalogueInv, NEW x \in Procs, Stores(x), TypeInv'
  PROVE  CatalogueInv'
<1>1. /\ TypeInv /\ TypeOK /\ Store(x) /\ pc[x] = "commit"
      /\ pc'[x] \notin {"insert", "commit"}
      /\ \A p \in Procs \ {x} : Kept(p) /\ pc'[p] = pc[p] /\ Item(p)' = Item(p)
  BY StoresMove, KeptItem DEF CatalogueInv, Kept, TypeInv
<1>2. Seeding' = Seeding \ {x}
  BY <1>1 DEF Seeding, Procs
<1>3. CASE Item(x) # "events"
  BY <1>1, <1>2, <1>3, FewerSeed DEF Store
<1>4. CASE Item(x) = "events"
  <2>1. x \in Seeding
    <3>1. x \notin Workers
      BY <1>1, <1>4, Items, EmailsAssumption
    <3> QED
      BY <1>1, <1>4, <3>1 DEF Seeding, Procs
  <2>2. IsFiniteSet(Seeding) /\ Cardinality(Seeding) \in Nat
    BY FS_Subset, FS_CardinalityType, ProcsAssumption DEF Seeding
  <2>3. Cardinality(Seeding') = Cardinality(Seeding) - 1
    BY <1>2, <2>1, <2>2, FS_RemoveElement
  <2>4. batches' = batches + 1 /\ batches \in Nat
    BY <1>1, <1>4 DEF Store, TypeOK
  <2>5. Cardinality(Instances) \in Nat
    BY FS_CardinalityType, ProcsAssumption
  <2> QED
    BY <2>2, <2>3, <2>4, <2>5 DEF CatalogueInv
<1> QED
  BY <1>3, <1>4

LEMMA CatalogueCrash ==
  ASSUME CatalogueInv, NEW i \in Instances, Crash(i), TypeInv'
  PROVE  CatalogueInv'
<1>1. /\ TypeInv /\ batches' = batches
      /\ \A p \in Procs \ Killed(i) : Kept(p) /\ pc'[p] = pc[p] /\ Item(p)' = Item(p)
      /\ \A p \in Killed(i) : pc'[p] \notin {"insert", "commit"}
  BY CrashMove, KeptItem DEF CatalogueInv, Kept
<1>2. Seeding' \subseteq Seeding
  BY <1>1 DEF Seeding, Procs
<1> QED
  BY <1>1, <1>2, FewerSeed

LEMMA CatalogueInit == Init => CatalogueInv
<1> SUFFICES ASSUME Init PROVE CatalogueInv
  OBVIOUS
<1>1. Seeding = {} /\ batches = 0
  BY DEF Init, Seeding, Procs
<1>2. Cardinality(Seeding) = 0 /\ Cardinality(Instances) \in Nat
  BY <1>1, FS_EmptySet, FS_CardinalityType, ProcsAssumption
<1> QED
  BY <1>1, <1>2, TypeInit DEF CatalogueInv

LEMMA CatalogueNext == CatalogueInv /\ [Next]_vars => CatalogueInv'
<1> SUFFICES ASSUME CatalogueInv, [Next]_vars PROVE CatalogueInv'
  OBVIOUS
<1>1. TypeInv'
  BY TypeNext DEF CatalogueInv
<1>2. CASE UNCHANGED vars
  <2>1. batches' = batches /\ Seeding' = Seeding
    BY <1>2 DEF Seeding, Item, vars, stored, session
  <2> QED
    BY <1>1, <2>1, FewerSeed
<1> QED
  BY <1>1, <1>2, Steps, CatalogueQuiet, CatalogueStores, CatalogueCrash

\* The seed's events are committed once on SQLite, and on Postgres at most
\* once by each instance, however often the instances are killed.
THEOREM CatalogueIsBounded == Spec => []CatalogueBound
<1>1. CatalogueInv /\ SqliteInv => CatalogueBound
  <2> SUFFICES ASSUME CatalogueInv, SqliteInv PROVE CatalogueBound
    OBVIOUS
  <2>1. Cardinality(Seeding) \in Nat /\ Cardinality(Instances) \in Nat /\ batches \in Nat
    BY FS_Subset, FS_CardinalityType, ProcsAssumption
       DEF Seeding, CatalogueInv, TypeInv, TypeOK
  <2> QED
    BY <2>1 DEF CatalogueInv, SqliteInv, CatalogueBound
<1> QED
  BY <1>1, CatalogueInit, CatalogueNext, SqliteInit, SqliteNext, PTL DEF Spec

\* One container alone never publishes the sample events twice, on Postgres
\* either and however often it is killed between its look and its commit
\* (seed.py:45-59): what the second batch takes is a second container.
THEOREM LoneSeedIsIdempotent ==
  ASSUME NEW i, Instances = {i}
  PROVE  Spec => [](batches <= 1)
<1>1. Cardinality(Instances) = 1
  BY FS_Singleton
<1>2. CatalogueBound => batches <= 1
  BY <1>1 DEF CatalogueBound
<1> QED
  BY <1>2, CatalogueIsBounded, PTL

-----------------------------------------------------------------------------
(* Progress, as far as it can be said without fairness.                    *)

\* What a handler has before it at each place: at most so many statements.
HandlerLeft(w) ==
  [idle |-> 0, done |-> 1, verify |-> 2, refresh |-> 2, commit |-> 3,
   insert |-> 4, find |-> 5, hash |-> 6][pc[w]]

\* And a container until it serves: four for each item of its plan, and the
\* start itself.
SeedLeft(i) ==
  IF pc[i] = "down" THEN 21
  ELSE IF pc[i] = "serving" THEN 0
  ELSE 4 * (5 - step[i]) + [find |-> 4, insert |-> 3, commit |-> 2, refresh |-> 1][pc[i]]

\* Somebody is in the middle of its work, and then somebody of them waits for
\* nobody.
Working(p) == pc[p] \notin {"idle", "serving"}

SomebodyCanGoOn ==
  (\E p \in Procs : Working(p)) =>
     \E p \in Procs : Working(p) /\ \A q \in Procs : ~WaitsFor(p, q)

\* A statement that goes through is one that waited for nobody.
LEMMA WaitersStay ==
  ASSUME TypeOK, NEW p \in Procs, NEW q \in Procs,
         \/ p \in Instances /\ SeedStep(p)
         \/ p \in Workers /\ HandlerStep(p)
  PROVE  ~WaitsFor(p, q)
<1>1. q # Nobody
  BY ProcsAssumption
<1>2. CASE pc[p] \in {"find", "refresh"}
  <2>1. dbLock \in {Nobody, p}
    BY <1>2 DEF SeedStep, Boot, Skip, SkipAndClose, FindNothing, Insert,
       InsertRefused, CommitSeed, RefreshSeed, HandlerStep, Hash, FindTaken,
       LoadUser, Verify, CommitRegister, Store, RefreshRegister, Respond, Begin
  <2> QED
    BY <1>1, <1>2, <2>1 DEF WaitsFor
<1>3. CASE pc[p] = "insert"
  <2>1. Insert(p) \/ InsertRefused(p)
    BY <1>3 DEF SeedStep, Boot, Skip, SkipAndClose, FindNothing,
       CommitSeed, RefreshSeed, HandlerStep, Hash, FindTaken,
       LoadUser, Verify, CommitRegister, Store, RefreshRegister, Respond
  <2> QED
    BY <1>3, <2>1 DEF Insert, InsertRefused, DuplicatePending, WaitsFor
<1> QED
  BY <1>2, <1>3 DEF WaitsFor

\* Every statement of a handler, failed or not, brings its end nearer.
LEMMA HandlerAdvances ==
  ASSUME TypeInv, NEW w \in Workers, HandlerStep(w) \/ Fail(w)
  PROVE  HandlerLeft(w)' < HandlerLeft(w)
<1>1. TypeOK /\ w \in Procs /\ w \notin Instances
  BY ProcsAssumption DEF TypeInv, Procs
<1>2. \/ pc[w] = "hash" /\ pc'[w] = "find"
      \/ pc[w] = "find" /\ pc'[w] \in {"insert", "verify", "done"}
      \/ pc[w] = "insert" /\ pc'[w] \in {"commit", "done"}
      \/ pc[w] = "commit" /\ pc'[w] \in {"refresh", "done"}
      \/ pc[w] \in {"verify", "refresh"} /\ pc'[w] = "done"
      \/ pc[w] = "done" /\ pc'[w] = "idle"
  BY <1>1 DEF HandlerStep, Fail, Hash, FindTaken, FindNothing, LoadUser, Verify,
     Insert, InsertRefused, CommitRegister, Store, RefreshRegister, Respond, Goto, TypeOK
<1> QED
  BY <1>2 DEF HandlerLeft

\* Going on with the plan leaves one item less.
LEMMA AdvanceLeaves ==
  ASSUME TypeInv, NEW i \in Instances, step[i] \in 1..5, Advance(i)
  PROVE  SeedLeft(i)' = 4 * (5 - step[i])
<1>1. TypeOK /\ i \in Procs /\ Len(BootPlan) = 5
  BY Plan DEF TypeInv, Procs
<1>2. CASE step[i] = 5
  <2>1. pc'[i] = "serving"
    BY <1>1, <1>2 DEF Advance, Goto, TypeOK
  <2> QED
    BY <1>2, <2>1 DEF SeedLeft
<1>3. CASE step[i] # 5
  <2>1. pc'[i] = "find" /\ step'[i] = step[i] + 1
    BY <1>1, <1>3 DEF Advance, Goto, TypeOK
  <2> QED
    BY <1>3, <2>1 DEF SeedLeft
<1> QED
  BY <1>2, <1>3

\* Every statement of a seed brings the server nearer, unless the unique index
\* refuses it and ends the seed.
LEMMA SeedAdvances ==
  ASSUME TypeInv, NEW i \in Instances, SeedStep(i), pc'[i] # "down"
  PROVE  SeedLeft(i)' < SeedLeft(i)
<1>1. TypeOK /\ SeederOK(i) /\ i \in Procs /\ i \notin Workers
  BY ProcsAssumption DEF TypeInv, Procs
<1>2. CASE Boot(i)
  <2>1. pc[i] = "down" /\ pc'[i] = "find" /\ step'[i] = 1
    BY <1>1, <1>2 DEF Boot, Goto, TypeOK
  <2> QED
    BY <2>1 DEF SeedLeft
<1>3. CASE Skip(i) \/ SkipAndClose(i) \/ RefreshSeed(i)
  <2>1. pc[i] \in {"find", "refresh"} /\ step[i] \in 1..5 /\ Advance(i)
    BY <1>1, <1>3 DEF Skip, SkipAndClose, RefreshSeed, SeederOK
  <2>2. SeedLeft(i)' = 4 * (5 - step[i])
    BY <2>1, AdvanceLeaves
  <2> QED
    BY <2>1, <2>2 DEF SeedLeft
<1>4. CASE FindNothing(i) \/ Insert(i)
  <2>1. /\ \/ pc[i] = "find" /\ pc'[i] = "insert"
           \/ pc[i] = "insert" /\ pc'[i] = "commit"
        /\ step'[i] = step[i] /\ step[i] \in 1..5
    BY <1>1, <1>4 DEF FindNothing, Insert, Goto, TypeOK, SeederOK
  <2> QED
    BY <2>1 DEF SeedLeft
<1>5. ~InsertRefused(i)
  BY <1>1 DEF InsertRefused, Goto, TypeOK
<1>6. CASE CommitSeed(i)
  <2>1. pc[i] = "commit" /\ step[i] \in 1..5
    BY <1>1, <1>6 DEF CommitSeed, Store, SeederOK
  <2>2. CASE Item(i) \in Emails
    <3>1. pc'[i] = "refresh" /\ step'[i] = step[i]
      BY <1>1, <1>6, <2>2 DEF CommitSeed, Goto, TypeOK
    <3> QED
      BY <2>1, <3>1 DEF SeedLeft
  <2>3. CASE Item(i) \notin Emails
    <3>1. Advance(i)
      BY <1>6, <2>3 DEF CommitSeed
    <3>2. SeedLeft(i)' = 4 * (5 - step[i])
      BY <2>1, <3>1, AdvanceLeaves
    <3> QED
      BY <2>1, <3>2 DEF SeedLeft
  <2> QED
    BY <2>2, <2>3
<1> QED
  BY <1>2, <1>3, <1>4, <1>5, <1>6 DEF SeedStep

\* A step of anybody is a step towards its end.
Advances ==
  /\ \A w \in Workers :
       /\ HandlerStep(w) => \A q \in Procs : ~WaitsFor(w, q)
       /\ HandlerStep(w) \/ Fail(w) => HandlerLeft(w)' < HandlerLeft(w)
  /\ \A i \in Instances :
       /\ SeedStep(i) => \A q \in Procs : ~WaitsFor(i, q)
       /\ SeedStep(i) /\ pc'[i] # "down" => SeedLeft(i)' < SeedLeft(i)

\* What liveness rests on: while seeds and handlers are at work one of them
\* waits for nobody; a statement that goes through takes its process nearer to
\* its end, the answer or the server; and no process waits and goes on.  Only
\* a kill, or an insert the unique index refuses, sets a container back
\* (seed.py:31-61, auth.py:21-41).
THEOREM AccountsAdvance == Spec => []SomebodyCanGoOn /\ [][Advances]_vars
<1>1. NoDeadlock => SomebodyCanGoOn
  <2> SUFFICES ASSUME NoDeadlock, \E p \in Procs : Working(p)
               PROVE  \E p \in Procs : Working(p) /\ \A q \in Procs : ~WaitsFor(p, q)
    BY DEF SomebodyCanGoOn
  <2> DEFINE Busy == {p \in Procs : Working(p)}
  <2>1. Busy \in (SUBSET Procs) \ {{}}
    OBVIOUS
  <2>2. PICK p \in Busy : \A q \in Procs :
          WaitsFor(p, q) => q \notin Busy /\ pc[q] \notin {"down", "idle", "serving"}
    BY <2>1 DEF NoDeadlock
  <2> QED
    BY <2>2 DEF Working
<1>2. ASSUME TypeInv, [Next]_vars
      PROVE  [Advances]_vars
  <2>1. TypeOK
    BY <1>2 DEF TypeInv
  <2>2. \A w \in Workers :
          /\ HandlerStep(w) => \A q \in Procs : ~WaitsFor(w, q)
          /\ HandlerStep(w) \/ Fail(w) => HandlerLeft(w)' < HandlerLeft(w)
    BY <1>2, <2>1, WaitersStay, HandlerAdvances DEF Procs
  <2>3. \A i \in Instances :
          /\ SeedStep(i) => \A q \in Procs : ~WaitsFor(i, q)
          /\ SeedStep(i) /\ pc'[i] # "down" => SeedLeft(i)' < SeedLeft(i)
    BY <1>2, <2>1, WaitersStay, SeedAdvances DEF Procs
  <2> QED
    BY <2>2, <2>3 DEF Advances
<1> QED
  BY <1>1, <1>2, TypeInit, TypeNext, AccountsNeverDeadlock, PTL DEF Spec

=============================================================================
