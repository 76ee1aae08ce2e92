-------------------------- MODULE RequestPoolsProofs --------------------------
(***************************************************************************)
(* What holds of RequestPools for any number of requests and any sizes of  *)
(* the two pools, on either engine.                                        *)
(***************************************************************************)
EXTENDS RequestPools, FiniteSetTheorems, TLAPS

\* Where a request runs in a thread, where its session has a connection, and
\* where it has none.
Working  == {"connect", "begin", "handle", "lock", "write", "reconnect",
             "rebegin", "reload", "reopen", "reply"}
Connected == {"begin", "queue_handler", "handle", "lock", "write", "rebegin",
              "reopen", "reply"}
Unconnected == {"idle", "queue_first", "connect", "reconnect", "reload"}

ThreadsOK == threads = {r \in Requests : pc[r] \in Working}

ConnsOK == \A r \in Requests : /\ pc[r] \in Connected => r \in conns
                               /\ pc[r] \in Unconnected => r \notin conns

\* The writer is past the statement that took the lock, and has not ended the
\* transaction.
WriterOK == writer # Nobody =>
              writer \in conns /\ pc[writer] \notin {"begin", "rebegin", "reopen"}

\* Only a booking handler goes for the event's row, and writes with it.
RowOK == /\ \A r \in Requests : pc[r] \in {"queue_handler", "handle", "lock"} => kind[r] = "booking"
         /\ row # Nobody => pc[row] = "write" /\ kind[row] = "booking"

Kinded == /\ database \in {"postgres", "sqlite"}
          /\ kind \in [Requests -> Kinds \cup {"none"}]
          /\ pc \in [Requests -> Labels]

PoolInv == TypeOK /\ ThreadsOK /\ ConnsOK /\ WriterOK /\ RowOK

-----------------------------------------------------------------------------
(* The pools' sizes *)

\* A thread is given only to a request that waits for one, and only if free.
LEMMA ThreadTaken ==
  ASSUME threads \subseteq Requests, Cardinality(threads) <= Threads,
         NEW r \in Requests, FreeThread
  PROVE  /\ threads \cup {r} \subseteq Requests
         /\ Cardinality(threads \cup {r}) <= Threads
<1>1. IsFiniteSet(threads)
  BY FS_Subset, RequestsAssumption
<1>2. Cardinality(threads) \in Nat
  BY <1>1, FS_CardinalityType
<1>3. Cardinality(threads \cup {r}) \in {Cardinality(threads), Cardinality(threads) + 1}
  <2>1. CASE r \in threads
    <3>1. threads \cup {r} = threads
      BY <2>1
    <3> QED
      BY <3>1
  <2>2. CASE r \notin threads
    BY <1>1, <2>2, FS_AddElement
  <2> QED
    BY <2>1, <2>2
<1> QED
  BY <1>2, <1>3, PoolsAssumption DEF FreeThread

LEMMA ConnectionTaken ==
  ASSUME conns \subseteq Requests, Cardinality(conns) <= Connections,
         NEW r \in Requests, FreeConnection
  PROVE  /\ conns \cup {r} \subseteq Requests
         /\ Cardinality(conns \cup {r}) <= Connections
<1>1. IsFiniteSet(conns)
  BY FS_Subset, RequestsAssumption
<1>2. Cardinality(conns) \in Nat
  BY <1>1, FS_CardinalityType
<1>3. Cardinality(conns \cup {r}) \in {Cardinality(conns), Cardinality(conns) + 1}
  <2>1. CASE r \in conns
    <3>1. conns \cup {r} = conns
      BY <2>1
    <3> QED
      BY <3>1
  <2>2. CASE r \notin conns
    BY <1>1, <2>2, FS_AddElement
  <2> QED
    BY <2>1, <2>2
<1> QED
  BY <1>2, <1>3, PoolsAssumption DEF FreeConnection

\* What is given back leaves room.
LEMMA GivenBack ==
  ASSUME NEW S, S \subseteq Requests, NEW n \in Nat, Cardinality(S) <= n, NEW r
  PROVE  S \ {r} \subseteq Requests /\ Cardinality(S \ {r}) <= n
<1>1. IsFiniteSet(S) /\ IsFiniteSet(S \ {r})
  BY FS_Subset, RequestsAssumption
<1>2. Cardinality(S \ {r}) <= Cardinality(S)
  BY <1>1, FS_Subset
<1>3. Cardinality(S) \in Nat /\ Cardinality(S \ {r}) \in Nat
  BY <1>1, FS_CardinalityType
<1> QED
  BY <1>2, <1>3

-----------------------------------------------------------------------------
(* The steps *)

LEMMA PoolInit == Init => PoolInv
<1> SUFFICES ASSUME Init PROVE PoolInv
  OBVIOUS
<1>1. Cardinality({}) = 0
  BY FS_EmptySet
<1>2. TypeOK
  BY <1>1, PoolsAssumption DEF Init, TypeOK, Labels
<1>3. ThreadsOK /\ ConnsOK /\ WriterOK /\ RowOK
  BY DEF Init, ThreadsOK, ConnsOK, WriterOK, RowOK, Working, Connected
<1> QED
  BY <1>2, <1>3 DEF PoolInv

\* A step that takes nothing new keeps the pools within their sizes.
LEMMA SizesKept ==
  ASSUME TypeOK, NEW r \in Requests, Kinded',
         threads' \in {threads, threads \ {r}},
         conns' \in {conns, conns \ {r}},
         writer' \in {writer, r, Nobody}, row' \in {row, r, Nobody}
  PROVE  TypeOK'
<1>1. /\ threads \subseteq Requests /\ Cardinality(threads) <= Threads
      /\ conns \subseteq Requests /\ Cardinality(conns) <= Connections
      /\ Threads \in Nat /\ Connections \in Nat
  BY PoolsAssumption DEF TypeOK
<1>2. threads' \subseteq Requests /\ Cardinality(threads') <= Threads
  BY <1>1, GivenBack
<1>3. conns' \subseteq Requests /\ Cardinality(conns') <= Connections
  BY <1>1, GivenBack
<1>4. writer' \in Requests \cup {Nobody} /\ row' \in Requests \cup {Nobody}
  BY DEF TypeOK
<1> QED
  BY <1>2, <1>3, <1>4 DEF TypeOK, Kinded

LEMMA ArriveKeeps ==
  ASSUME PoolInv, NEW r \in Requests, NEW k \in Serves[r], Arrive(r, k)
  PROVE  PoolInv'
<1>1. TypeOK /\ k \in Kinds
  BY ServesAssumption DEF PoolInv
<1>2. Kinded'
  BY <1>1 DEF Arrive, Goto, Kinded, TypeOK, Labels, Queues
<1>3. TypeOK'
  BY <1>1, <1>2, SizesKept DEF Arrive
<1>4. ThreadsOK' /\ ConnsOK' /\ WriterOK' /\ RowOK'
  BY <1>1, RequestsAssumption DEF PoolInv, Arrive, Goto, TypeOK, ThreadsOK, ConnsOK, WriterOK, RowOK,
     Working, Connected, Unconnected
<1> QED
  BY <1>3, <1>4 DEF PoolInv

LEMMA StartKeeps ==
  ASSUME PoolInv, NEW r \in Requests, Start(r)
  PROVE  PoolInv'
<1>1. TypeOK
  BY DEF PoolInv
<1>2. threads' \subseteq Requests /\ Cardinality(threads') <= Threads
  BY <1>1, ThreadTaken DEF Start, TypeOK
<1>3. \E l \in {"connect", "handle", "reply", "reload"} :
        /\ pc' = [pc EXCEPT ![r] = l]
        /\ l = "connect" => pc[r] = "queue_first"
        /\ l = "handle" => pc[r] = "queue_handler"
        /\ l = "reply" => r \in conns
        /\ l = "reload" => r \notin conns
  BY <1>1 DEF Start, Goto, Queues
<1>4. TypeOK'
  BY <1>1, <1>2, <1>3 DEF Start, TypeOK, Labels
<1>5. ThreadsOK'
  BY <1>1, <1>3 DEF PoolInv, Start, TypeOK, ThreadsOK, Working, Queues
<1>6. ConnsOK'
  BY <1>1, <1>3 DEF PoolInv, Start, TypeOK, ConnsOK, Connected, Unconnected, Queues
<1>7. WriterOK' /\ RowOK'
  BY <1>1, <1>3 DEF PoolInv, Start, TypeOK, WriterOK, RowOK, Queues
<1> QED
  BY <1>4, <1>5, <1>6, <1>7 DEF PoolInv

LEMMA ConnectKeeps ==
  ASSUME PoolInv, NEW r \in Requests, Connect(r)
  PROVE  PoolInv'
<1>1. TypeOK
  BY DEF PoolInv
<1>2. conns' \subseteq Requests /\ Cardinality(conns') <= Connections
  BY <1>1, ConnectionTaken DEF Connect, TypeOK
<1>3. \E l \in {"begin", "rebegin", "reopen"} : pc' = [pc EXCEPT ![r] = l]
  BY DEF Connect, Goto
<1>4. TypeOK'
  BY <1>1, <1>2, <1>3 DEF Connect, TypeOK, Labels
<1>5. ThreadsOK'
  BY <1>1, <1>3 DEF PoolInv, Connect, TypeOK, ThreadsOK, Working
<1>6. ConnsOK'
  BY <1>1, <1>3 DEF PoolInv, Connect, TypeOK, ConnsOK, Connected, Unconnected
<1>7. r \notin conns
  BY DEF PoolInv, Connect, ConnsOK, Unconnected
<1>8. WriterOK' /\ RowOK'
  BY <1>1, <1>3, <1>7 DEF PoolInv, Connect, TypeOK, WriterOK, RowOK
<1> QED
  BY <1>4, <1>5, <1>6, <1>8 DEF PoolInv

\* The statements that open a transaction.
LEMMA BeginKeeps ==
  ASSUME PoolInv, NEW r \in Requests, Begin(r) \/ Rebegin(r) \/ Reopen(r)
  PROVE  PoolInv'
<1>1. TypeOK
  BY DEF PoolInv
<1>2. /\ UNCHANGED <<database, kind, conns, row>>
      /\ writer' = writer \/ (writer = Nobody /\ writer' = r)
      /\ pc[r] \in {"begin", "rebegin", "reopen"}
  BY DEF Begin, Rebegin, Reopen, TakeWriteLock
<1>3. \E l \in {"queue_handler", "write", "queue_reply", "reply"} :
        /\ pc' = [pc EXCEPT ![r] = l]
        /\ threads' = IF l \in {"write", "reply"} THEN threads ELSE threads \ {r}
        /\ l = "queue_handler" => kind[r] = "booking"
  BY DEF Begin, Rebegin, Reopen, Goto
<1>4. Kinded'
  BY <1>1, <1>2, <1>3 DEF Kinded, TypeOK, Labels, Queues
<1>5. TypeOK'
  BY <1>1, <1>2, <1>3, <1>4, SizesKept
<1>6. ThreadsOK'
  BY <1>1, <1>2, <1>3 DEF PoolInv, TypeOK, ThreadsOK, Working
<1>7. ConnsOK'
  BY <1>1, <1>2, <1>3 DEF PoolInv, TypeOK, ConnsOK, Connected, Unconnected
<1>8. r \in conns
  BY <1>2 DEF PoolInv, ConnsOK, Connected
<1>9. WriterOK' /\ RowOK'
  BY <1>1, <1>2, <1>3, <1>8 DEF PoolInv, TypeOK, WriterOK, RowOK
<1> QED
  BY <1>5, <1>6, <1>7, <1>9 DEF PoolInv

LEMMA LockKeeps ==
  ASSUME PoolInv, NEW r \in Requests, WantRow(r) \/ Lock(r)
  PROVE  PoolInv'
<1>1. TypeOK
  BY DEF PoolInv
<1>2. /\ UNCHANGED <<database, kind, threads, conns, writer>>
      /\ \/ pc[r] = "handle" /\ pc' = [pc EXCEPT ![r] = "lock"] /\ row' = row
         \/ pc[r] = "lock" /\ pc' = [pc EXCEPT ![r] = "write"] /\ row' \in {row, r}
  BY DEF WantRow, Lock, Goto
<1>3. Kinded'
  BY <1>1, <1>2 DEF Kinded, TypeOK, Labels
<1>4. TypeOK'
  BY <1>1, <1>2, <1>3, SizesKept
<1>5. ThreadsOK' /\ ConnsOK'
  BY <1>1, <1>2 DEF PoolInv, TypeOK, ThreadsOK, ConnsOK, Working, Connected, Unconnected
<1>6. WriterOK' /\ RowOK'
  BY <1>1, <1>2 DEF PoolInv, TypeOK, WriterOK, RowOK
<1> QED
  BY <1>4, <1>5, <1>6 DEF PoolInv

\* The end of a transaction.
LEMMA EndKeeps ==
  ASSUME PoolInv, NEW r \in Requests,
         \/ Commit(r) \/ Unchanged(r) \/ Close(r)
         \/ Refuse(r) /\ kind[r] = "booking"
  PROVE  PoolInv'
<1>1. TypeOK
  BY DEF PoolInv
<1>2. /\ Disconnect(r) /\ database' = database
      /\ kind' = kind \/ kind' = [kind EXCEPT ![r] = "none"]
  BY DEF Commit, Unchanged, Close, Refuse
<1>3. \/ pc' = [pc EXCEPT ![r] = "reconnect"] /\ threads' = threads /\ pc[r] = "write"
      \/ /\ \E l \in {"queue_reply", "close"} : pc' = [pc EXCEPT ![r] = l]
         /\ threads' = threads \ {r} /\ pc[r] \in {"handle", "write"}
      \/ pc' = [pc EXCEPT ![r] = "idle"] /\ threads' = threads /\ pc[r] = "close"
  BY DEF Commit, Unchanged, Close, Refuse, Goto
<1>4. Kinded'
  BY <1>1, <1>2, <1>3 DEF Kinded, TypeOK, Labels, Queues
<1>5. TypeOK'
  BY <1>1, <1>2, <1>3, <1>4, SizesKept DEF Disconnect
<1>6. ThreadsOK'
  BY <1>1, <1>3 DEF PoolInv, TypeOK, ThreadsOK, Working
<1>7. ConnsOK'
  BY <1>1, <1>2, <1>3 DEF PoolInv, Disconnect, TypeOK, ConnsOK, Connected, Unconnected
<1>8. WriterOK' /\ RowOK'
  BY <1>1, <1>2, <1>3, RequestsAssumption DEF PoolInv, Disconnect, TypeOK, WriterOK, RowOK
<1> QED
  BY <1>5, <1>6, <1>7, <1>8 DEF PoolInv

\* A job that ends with its transaction open, or that never had one.
LEMMA LeaveKeeps ==
  ASSUME PoolInv, NEW r \in Requests,
         \/ Return(r) \/ Serialize(r) \/ Timeout(r)
         \/ Refuse(r) /\ kind[r] # "booking"
  PROVE  PoolInv'
<1>1. TypeOK
  BY DEF PoolInv
<1>2. UNCHANGED <<database, kind, conns, writer, row>> /\ threads' = threads \ {r}
  BY DEF Return, Serialize, Timeout, Refuse
<1>3. /\ \E l \in {"queue_reply", "close"} : pc' = [pc EXCEPT ![r] = l]
      /\ pc[r] # "write" \/ row # r
  BY RequestsAssumption DEF PoolInv, RowOK, Return, Serialize, Timeout, Refuse, Goto, WaitsForDatabase
<1>4. Kinded'
  BY <1>1, <1>2, <1>3 DEF Kinded, TypeOK, Labels, Queues
<1>5. TypeOK'
  BY <1>1, <1>2, <1>4, SizesKept
<1>6. ThreadsOK'
  BY <1>1, <1>2, <1>3 DEF PoolInv, TypeOK, ThreadsOK, Working
<1>7. ConnsOK'
  BY <1>1, <1>2, <1>3 DEF PoolInv, TypeOK, ConnsOK, Connected, Unconnected
<1>8. WriterOK' /\ RowOK'
  BY <1>1, <1>2, <1>3, RequestsAssumption DEF PoolInv, TypeOK, WriterOK, RowOK
<1> QED
  BY <1>5, <1>6, <1>7, <1>8 DEF PoolInv

LEMMA PoolNext == PoolInv /\ [Next]_vars => PoolInv'
<1> SUFFICES ASSUME PoolInv, [Next]_vars PROVE PoolInv'
  OBVIOUS
<1>1. CASE UNCHANGED vars
  BY <1>1 DEF vars, PoolInv, TypeOK, ThreadsOK, ConnsOK, WriterOK, RowOK
<1>2. CASE Next
  <2>1. PICK r \in Requests : Step(r) \/ \E k \in Serves[r] : Arrive(r, k)
    BY <1>2 DEF Next
  <2>2. CASE \E k \in Serves[r] : Arrive(r, k)
    BY <2>2, ArriveKeeps
  <2>3. CASE Start(r) \/ Connect(r)
    BY <2>3, StartKeeps, ConnectKeeps
  <2>4. CASE Begin(r) \/ Rebegin(r) \/ Reopen(r)
    BY <2>4, BeginKeeps
  <2>5. CASE WantRow(r) \/ Lock(r)
    BY <2>5, LockKeeps
  <2>6. CASE Commit(r) \/ Unchanged(r) \/ Close(r)
    BY <2>6, EndKeeps
  <2>7. CASE Refuse(r)
    BY <2>7, EndKeeps, LeaveKeeps
  <2>8. CASE Return(r) \/ Serialize(r) \/ Timeout(r)
    BY <2>8, LeaveKeeps
  <2> QED
    BY <2>1, <2>2, <2>3, <2>4, <2>5, <2>6, <2>7, <2>8 DEF Step
<1> QED
  BY <1>1, <1>2

LEMMA PoolInvariant == Spec => []PoolInv
<1> QED
  BY PoolInit, PoolNext, PTL DEF Spec

-----------------------------------------------------------------------------
(* What the sizes and places mean *)

LEMMA Leaks == PoolInv => NothingLeaks
<1> SUFFICES ASSUME PoolInv PROVE NothingLeaks
  OBVIOUS
<1>1. threads \subseteq {r \in InFlight : pc[r] \notin Queues \cup {"close"}}
  BY DEF PoolInv, ThreadsOK, Working, InFlight, Queues
<1>2. conns \subseteq InFlight
  BY DEF PoolInv, TypeOK, ConnsOK, Unconnected, InFlight
<1>3. {writer, row} \ {Nobody} \subseteq conns
  BY DEF PoolInv, TypeOK, WriterOK, RowOK, ConnsOK, Connected
<1> QED
  BY <1>1, <1>2, <1>3 DEF NothingLeaks

LEMMA HolderRuns == PoolInv => RowHolderRuns
<1> SUFFICES ASSUME PoolInv, row # Nobody PROVE /\ pc[row] = "write"
                                                /\ row \in threads /\ row \in conns
                                                /\ ~Blocked(row)
  BY DEF RowHolderRuns
<1>1. row \in Requests /\ pc[row] = "write"
  BY DEF PoolInv, TypeOK, RowOK
<1>2. row \in threads /\ row \in conns
  BY <1>1 DEF PoolInv, ThreadsOK, ConnsOK, Working, Connected
<1>3. ~Blocked(row)
  BY <1>1 DEF Blocked, WaitsForDatabase, Queues
<1> QED
  BY <1>1, <1>2, <1>3

\* In a stall everybody waits for a thread, for a connection or for SQLite's
\* write lock; and somebody waits for a thread, since a holder of either of
\* the others is among those who wait.
LEMMA StallWaits ==
  ASSUME PoolInv, Stalled
  PROVE  /\ \A r \in InFlight : \/ pc[r] \in Queues /\ ~FreeThread
                                \/ WaitsForDatabase(r)
         /\ \E q \in InFlight : pc[q] \in Queues /\ ~FreeThread
<1>1. NothingLeaks /\ RowHolderRuns
  BY Leaks, HolderRuns
<1>2. row = Nobody
  BY <1>1 DEF NothingLeaks, RowHolderRuns, Stalled
<1>3. \A r \in InFlight : \/ pc[r] \in Queues /\ ~FreeThread
                          \/ WaitsForDatabase(r)
  BY <1>2 DEF Stalled, Blocked
<1>4. ASSUME writer # Nobody
      PROVE  \E q \in InFlight : pc[q] \in Queues /\ ~FreeThread
  <2>1. writer \in InFlight /\ writer \in Requests /\ writer \in conns
        /\ pc[writer] \notin {"begin", "rebegin", "reopen"}
    BY <1>1, <1>4 DEF NothingLeaks, PoolInv, TypeOK, WriterOK
  <2>2. ~WaitsForDatabase(writer)
    BY <2>1 DEF WaitsForDatabase, PoolInv, ConnsOK, Unconnected
  <2> QED
    BY <1>3, <2>1, <2>2
<1>5. ASSUME ~FreeConnection
      PROVE  \E q \in InFlight : pc[q] \in Queues /\ ~FreeThread
  <2>1. conns # {}
    BY <1>5, FS_EmptySet, PoolsAssumption DEF FreeConnection
  <2>2. PICK c \in conns : TRUE
    BY <2>1
  <2>3. c \in InFlight /\ c \in Requests
    BY <1>1, <2>2 DEF NothingLeaks, InFlight
  <2>4. pc[c] \notin {"connect", "reconnect", "reload"}
    BY <2>2, <2>3 DEF PoolInv, ConnsOK, Unconnected
  <2> QED
    BY <1>3, <1>4, <2>3, <2>4 DEF WaitsForDatabase
<1>6. PICK r \in InFlight : TRUE
  BY DEF Stalled
<1>7. \E q \in InFlight : pc[q] \in Queues /\ ~FreeThread
  BY <1>3, <1>4, <1>5, <1>6 DEF WaitsForDatabase
<1> QED
  BY <1>3, <1>7

LEMMA StallCrowd == PoolInv => StallNeedsCrowd
<1> SUFFICES ASSUME PoolInv, Stalled
             PROVE  Cardinality(InFlight) >= Threads + IF database = "sqlite" THEN 1 ELSE Connections
  BY DEF StallNeedsCrowd
<1>1. /\ threads \subseteq Requests /\ conns \subseteq Requests /\ InFlight \subseteq Requests
      /\ threads \subseteq InFlight /\ conns \subseteq InFlight
      /\ \A t \in threads : pc[t] \notin Queues
  BY Leaks DEF NothingLeaks, InFlight, PoolInv, TypeOK
<1>2. /\ IsFiniteSet(threads) /\ IsFiniteSet(conns) /\ IsFiniteSet(InFlight)
      /\ Cardinality(threads) \in Nat /\ Cardinality(conns) \in Nat /\ Cardinality(InFlight) \in Nat
  BY <1>1, FS_Subset, FS_CardinalityType, RequestsAssumption
<1>3. PICK q \in InFlight : pc[q] \in Queues /\ ~FreeThread
  BY StallWaits
<1>4. Cardinality(threads) >= Threads
  BY <1>2, <1>3, PoolsAssumption DEF FreeThread
<1>5. CASE database = "sqlite"
  <2>1. q \notin threads
    BY <1>1, <1>3
  <2>2. Cardinality(threads \cup {q}) = Cardinality(threads) + 1
    BY <1>2, <2>1, FS_AddElement
  <2>3. Cardinality(threads \cup {q}) <= Cardinality(InFlight)
    BY <1>1, <1>2, <1>3, FS_Subset
  <2> QED
    BY <1>2, <1>4, <1>5, <2>2, <2>3, PoolsAssumption
<1>6. CASE database # "sqlite"
  <2>1. \A t \in threads : pc[t] \in {"connect", "reconnect", "reload"} /\ ~FreeConnection
    BY <1>1, <1>6, StallWaits DEF WaitsForDatabase
  <2>2. threads # {}
    BY <1>4, FS_EmptySet, PoolsAssumption
  <2>3. Cardinality(conns) >= Connections
    BY <1>2, <2>1, <2>2, PoolsAssumption DEF FreeConnection
  <2>4. threads \cap conns = {}
    BY <1>1, <2>1 DEF PoolInv, ConnsOK, Unconnected
  <2>5. Cardinality(threads \cup conns) = Cardinality(threads) + Cardinality(conns) - 0
    BY <1>2, <2>4, FS_Union, FS_EmptySet
  <2>6. Cardinality(threads \cup conns) <= Cardinality(InFlight)
    BY <1>1, <1>2, FS_Subset
  <2> QED
    BY <1>2, <1>4, <1>6, <2>3, <2>5, <2>6, PoolsAssumption
<1> QED
  BY <1>5, <1>6

-----------------------------------------------------------------------------
(* The theorems *)

\* Every variable keeps its type; neither pool ever gives out more than it has.
THEOREM PoolTypes == Spec => []TypeOK
<1>1. PoolInv => TypeOK
  BY DEF PoolInv
<1> QED
  BY <1>1, PoolInvariant, PTL

\* A request that has ended, however it did, holds no thread, no connection
\* and no lock (database.py:66-72).
THEOREM NothingIsLeaked == Spec => []NothingLeaks
<1> QED
  BY Leaks, PoolInvariant, PTL

\* Whoever holds the event's row waits for neither pool (booking.py:36).
THEOREM RowHolders == Spec => []RowHolderRuns
<1> QED
  BY HolderRuns, PoolInvariant, PTL

\* The server can stand still only with Threads + Connections requests in
\* flight on Postgres, and Threads + 1 on SQLite (database.py:23 and 60).
THEOREM StallNeeds == Spec => []StallNeedsCrowd
<1> QED
  BY StallCrowd, PoolInvariant, PTL

\* So with no more requests in flight than threads it never stands still at all.
THEOREM FewNeverStall ==
  ASSUME Cardinality(Requests) <= Threads
  PROVE  Spec => []~Stalled
<1>1. ASSUME PoolInv  PROVE ~Stalled
  <2>1. InFlight \subseteq Requests
    BY DEF InFlight
  <2>2. Cardinality(InFlight) <= Cardinality(Requests)
        /\ Cardinality(InFlight) \in Nat /\ Cardinality(Requests) \in Nat
    BY <2>1, FS_Subset, FS_CardinalityType, RequestsAssumption
  <2> QED
    BY <1>1, <2>2, StallCrowd, PoolsAssumption DEF StallNeedsCrowd
<1> QED
  BY <1>1, PoolInvariant, PTL

\* And a stall of more than those is one that the timeouts end: nobody in it
\* has a thread and waits without limit (database.py:43).
THEOREM StallsTimeOut == Spec => []StallTimesOut
<1>1. ASSUME PoolInv, Stalled  PROVE ~FreeThread /\ \A r \in threads : WaitsForDatabase(r)
  <2>1. \A r \in threads : r \in InFlight /\ pc[r] \notin Queues
    BY <1>1, Leaks DEF NothingLeaks
  <2> QED
    BY <1>1, <2>1, StallWaits
<1>2. PoolInv => StallTimesOut
  BY <1>1 DEF StallTimesOut
<1> QED
  BY <1>2, PoolInvariant, PTL

=============================================================================
