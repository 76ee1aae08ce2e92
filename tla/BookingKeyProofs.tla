-------------------------- MODULE BookingKeyProofs --------------------------
(***************************************************************************)
(* Idempotency keys: one key of a user never buys twice, on either engine, *)
(* and a loser of the race for a key finds the winner's booking.           *)
(***************************************************************************)
EXTENDS BookingServiceProofs

\* The inserts that passed the unique index and are not committed yet.
Inserting(w) == pc[w] = "commit" /\ req[w].op = "create"

InsertsAdmitted ==
  \A w \in Workers : Inserting(w) => UniqueAdmits(bookings, req[w].user, req[w].key)

InsertsApart ==
  \A v, w \in Workers :
    /\ v # w /\ Inserting(v) /\ Inserting(w)
    /\ req[v].user = req[w].user
    /\ req[v].key = req[w].key
    => req[v].key = NoKey

WithinCapacity == \A e \in Events : available[e] <= total[e]

KeyInv ==
  /\ LockInv
  /\ KeyNamesOneBooking
  /\ InsertsAdmitted
  /\ InsertsApart
  /\ LoserFindsWinner
  /\ WithinCapacity

\* Rows stay, and keep the columns a key is looked up by.
KeysKept ==
  /\ Len(bookings) \in Nat
  /\ Len(bookings') = Len(bookings)
  /\ \A i \in 1..Len(bookings) :
       bookings'[i].user = bookings[i].user /\ bookings'[i].key = bookings[i].key

\* A lookup finds the same rows as long as the rows keep user and key.
LEMMA KeptLookups ==
  ASSUME KeysKept, NEW u, NEW k
  PROVE  /\ KeyedRows(bookings', u, k) = KeyedRows(bookings, u, k)
         /\ UniqueAdmits(bookings', u, k) <=> UniqueAdmits(bookings, u, k)
BY DEF KeysKept, KeyedRows, UniqueAdmits

\* Steps that insert nothing.  Who moves to "commit" is admitted, and apart
\* from those that are there; who moves to "refind" lost to a row.
LEMMA NoInsertKeepsKeys ==
  ASSUME KeyInv, LockInv', KeysKept, WithinCapacity',
         NEW w \in Workers, OthersKept(w),
         Inserting(w)' =>
           /\ UniqueAdmits(bookings', req'[w].user, req'[w].key)
           /\ \A v \in Workers \ {w} :
                /\ Inserting(v)
                /\ req[v].user = req'[w].user
                /\ req[v].key = req'[w].key
                => req[v].key = NoKey,
         pc'[w] = "refind" => OwnKeyedRows(w)' # {}
  PROVE  KeyInv'
<1>1. KeyNamesOneBooking'
  BY DEF KeyInv, KeyNamesOneBooking, KeysKept
<1>2. InsertsAdmitted'
  BY KeptLookups DEF KeyInv, InsertsAdmitted, Inserting, OthersKept
<1>3. InsertsApart'
  BY DEF KeyInv, InsertsApart, Inserting, OthersKept
<1>4. LoserFindsWinner'
  <2>1. ASSUME NEW v \in Workers \ {w}, pc[v] = "refind"
        PROVE  OwnKeyedRows(v)' # {}
    BY <2>1, KeptLookups DEF KeyInv, LoserFindsWinner, OwnKeyedRows, OthersKept
  <2> QED
    BY <2>1 DEF LoserFindsWinner, OthersKept
<1> QED
  BY <1>1, <1>2, <1>3, <1>4 DEF KeyInv

\* Steps that touch no table and reach neither label.
LEMMA QuietKeepsKeys ==
  ASSUME KeyInv, LockInv', NEW w \in Workers, OthersKept(w), UNCHANGED tables,
         pc'[w] \notin {"commit", "refind"}
  PROVE  KeyInv'
<1>1. KeysKept /\ WithinCapacity'
  BY DEF KeyInv, LockInv, TypeInv, TypeOK, KeysKept, WithinCapacity, tables
<1> QED
  BY <1>1, NoInsertKeepsKeys DEF Inserting

\* A flush sends an insert on only when no row and no other insert has its key.
LEMMA FlushKeepsKeys ==
  ASSUME KeyInv, LockInv', NEW w \in Workers, Flush(w)
  PROVE  KeyInv'
<1>1. /\ TypeOK /\ SessionOK(w) /\ LockOK(w) /\ pc[w] = "flush"
      /\ req[w] \in Requests \cup {NoReq}
  BY DEF KeyInv, LockInv, TypeInv, TypeOK, Flush
<1>2. OthersKept(w) /\ UNCHANGED tables /\ req' = req
  BY <1>1 DEF Flush, Abort, TypeOK, OthersKept, Goto, tables, session
<1>3. KeysKept /\ WithinCapacity'
  BY <1>1, <1>2 DEF KeyInv, TypeOK, KeysKept, WithinCapacity, tables
<1>4. CASE Abort(w, "error")
  <2>1. pc'[w] = "done"
    BY <1>1, <1>4 DEF Abort, Goto, TypeOK
  <2> QED
    BY <1>2, <2>1, QuietKeepsKeys
<1>5. CASE Violated(w) /\ HasKey(w) /\ Goto(w, "refind")
  <2>1. pc'[w] = "refind"
    BY <1>1, <1>5 DEF Goto, TypeOK
  <2>2. req[w].op = "create" /\ req[w].seats \in 1..MaxSeats /\ TargetEvent(w) \in Events
    BY <1>1, <1>5, RequestFields, Targets DEF HasKey, KeyInv, LockInv
  <2>3. ChecksHold(w)
    <3>1. Delta(w) = req[w].seats /\ Delta(w) <= seen[w] /\ Delta(w) \in Nat
      BY <1>1, <2>2, BoundsAssumption DEF Delta, SessionOK
    <3>2. /\ seen[w] <= total[TargetEvent(w)]
          /\ seen[w] \in Nat /\ total[TargetEvent(w)] \in Nat
      BY <1>1, <2>2, BoundsAssumption DEF KeyInv, WithinCapacity, LockOK, TypeOK
    <3> QED
      BY <3>1, <3>2 DEF ChecksHold, NewAvailable
  <2>4. OwnKeyedRows(w) # {}
    BY <1>5, <2>3 DEF Violated, UniqueAdmits, OwnKeyedRows
  <2>5. OwnKeyedRows(w)' # {}
    BY <1>2, <2>4 DEF OwnKeyedRows, tables
  <2> QED
    BY <1>2, <1>3, <2>1, <2>5, NoInsertKeepsKeys DEF Inserting
<1>6. CASE ~Violated(w) /\ ~DuplicatePending(w) /\ Goto(w, "commit")
  <2>1. pc'[w] = "commit"
    BY <1>1, <1>6 DEF Goto, TypeOK
  <2>2. ASSUME req[w].op = "create"
        PROVE  /\ UniqueAdmits(bookings', req'[w].user, req'[w].key)
               /\ \A v \in Workers \ {w} :
                    /\ Inserting(v)
                    /\ req[v].user = req'[w].user
                    /\ req[v].key = req'[w].key
                    => req[v].key = NoKey
    BY <1>2, <1>6, <2>2 DEF Violated, DuplicatePending, PendingWith, Inserting, tables
  <2> QED
    BY <1>2, <1>3, <2>1, <2>2, NoInsertKeepsKeys DEF Inserting
<1> QED
  BY <1>4, <1>5, <1>6 DEF Flush

\* A commit moves the counter of its own event, within its capacity.
LEMMA CommitWithinCapacity ==
  ASSUME KeyInv, NEW w \in Workers, Commit(w)
  PROVE  WithinCapacity'
<1>1. TypeOK /\ SessionOK(w) /\ pc[w] = "commit" /\ TargetEvent(w) \in Events
  BY Targets DEF KeyInv, LockInv, TypeInv, Commit
<1>2. NewAvailable(w) <= total[TargetEvent(w)]
  BY <1>1 DEF SessionOK, ChecksHold, TypeOK
<1> QED
  BY <1>1, <1>2 DEF KeyInv, WithinCapacity, Commit, TypeOK

\* A change of seats or status writes no key.
LEMMA CommitUpdateKeepsKeys ==
  ASSUME KeyInv, LockInv', NEW w \in Workers, CommitModify(w) \/ CommitCancel(w)
  PROVE  KeyInv'
<1>1. TypeInv /\ TypeOK
  BY DEF KeyInv, LockInv, TypeInv
<1>2. Commit(w) /\ OthersKept(w)
  BY <1>1, CommitTouchesOwn
<1>3. PICK b \in Booking :
        /\ bookings' = [bookings EXCEPT ![booking[w]] = b]
        /\ b.user = bookings[booking[w]].user
        /\ b.key = bookings[booking[w]].key
  BY <1>1, CommitUpdates
<1>4. booking[w] \in 1..Len(bookings)
  BY <1>1, CommitUpdates
<1>5. /\ Len(bookings') = Len(bookings) /\ Len(bookings) \in Nat
      /\ \A i \in 1..Len(bookings) :
           bookings'[i] = IF i = booking[w] THEN b ELSE bookings[i]
  BY <1>1, <1>3, <1>4, ExceptSeq DEF TypeOK
<1>6. KeysKept
  BY <1>3, <1>5 DEF KeysKept
<1>7. pc'[w] = "refresh"
  BY <1>1, <1>2 DEF Commit, Goto, TypeOK
<1> QED
  BY <1>2, <1>6, <1>7, CommitWithinCapacity, NoInsertKeepsKeys DEF Inserting

\* The one step that adds a row under a key: the index admitted it, and no
\* other insert of the key is under way.
LEMMA CommitCreateKeepsKeys ==
  ASSUME KeyInv, LockInv', NEW w \in Workers, CommitCreate(w)
  PROVE  KeyInv'
<1> DEFINE n == Len(bookings) + 1
           u == req[w].user
           k == req[w].key
<1>1. TypeInv /\ TypeOK
  BY DEF KeyInv, LockInv, TypeInv
<1>2. Commit(w) /\ OthersKept(w)
  BY <1>1, CommitTouchesOwn
<1>3. pc[w] = "commit" /\ pc'[w] = "refresh" /\ Inserting(w)
  BY <1>1, <1>2 DEF Commit, Goto, TypeOK, CommitCreate, Inserting
<1>4. /\ Len(bookings) \in Nat
      /\ Len(bookings') = Len(bookings) + 1
      /\ \A i \in 1..Len(bookings) : bookings'[i] = bookings[i]
      /\ bookings'[Len(bookings) + 1] =
           [user |-> req[w].user, event |-> req[w].event,
            seats |-> req[w].seats, status |-> "CONFIRMED", key |-> req[w].key]
  BY <1>1, CommitInserts
<1>5. bookings'[n].user = u /\ bookings'[n].key = k
  BY <1>4
<1>6. k = NoKey \/ \A i \in 1..Len(bookings) : ~(bookings[i].user = u /\ bookings[i].key = k)
  BY <1>3 DEF KeyInv, InsertsAdmitted, UniqueAdmits, KeyedRows
<1>7. KeyNamesOneBooking'
  <2> SUFFICES ASSUME NEW i \in 1..n, NEW j \in 1..n,
                      bookings'[i].user = bookings'[j].user,
                      bookings'[i].key = bookings'[j].key,
                      bookings'[i].key # NoKey
               PROVE  i = j
    BY <1>4 DEF KeyNamesOneBooking
  <2>1. CASE i # n /\ j # n
    BY <1>4, <2>1 DEF KeyInv, KeyNamesOneBooking
  <2>2. CASE i = n \/ j = n
    BY <1>4, <1>5, <1>6, <2>2
  <2> QED
    BY <2>1, <2>2
<1>8. InsertsAdmitted'
  <2> SUFFICES ASSUME NEW v \in Workers, Inserting(v)'
               PROVE  UniqueAdmits(bookings', req'[v].user, req'[v].key)
    BY DEF InsertsAdmitted
  <2>1. v # w /\ Inserting(v) /\ req'[v] = req[v]
    BY <1>2, <1>3 DEF Inserting, OthersKept
  <2>2. UniqueAdmits(bookings, req[v].user, req[v].key)
    BY <2>1 DEF KeyInv, InsertsAdmitted
  <2>3. req[v].key = NoKey \/ ~(req[v].user = u /\ req[v].key = k)
    BY <1>3, <2>1 DEF KeyInv, InsertsApart
  <2> QED
    BY <1>4, <1>5, <2>1, <2>2, <2>3 DEF UniqueAdmits, KeyedRows
<1>9. InsertsApart'
  BY <1>2, <1>3 DEF KeyInv, InsertsApart, Inserting, OthersKept
<1>10. LoserFindsWinner'
  <2> SUFFICES ASSUME NEW v \in Workers, pc'[v] = "refind"
               PROVE  OwnKeyedRows(v)' # {}
    BY DEF LoserFindsWinner
  <2>1. v # w /\ pc[v] = "refind" /\ req'[v] = req[v]
    BY <1>2, <1>3 DEF OthersKept
  <2>2. PICK i \in 1..Len(bookings) :
          bookings[i].user = req[v].user /\ bookings[i].key = req[v].key
    BY <2>1 DEF KeyInv, LoserFindsWinner, OwnKeyedRows, KeyedRows
  <2>3. /\ i \in 1..Len(bookings')
        /\ bookings'[i].user = req'[v].user /\ bookings'[i].key = req'[v].key
    BY <1>4, <2>1, <2>2
  <2> QED
    BY <2>3 DEF OwnKeyedRows, KeyedRows
<1> QED
  BY <1>2, <1>7, <1>8, <1>9, <1>10, CommitWithinCapacity DEF KeyInv

\* An empty table names nothing twice.
LEMMA KeyInit == Init => KeyInv
<1> SUFFICES ASSUME Init PROVE KeyInv
  OBVIOUS
<1>1. Len(bookings) = 0 /\ \A w \in Workers : pc[w] = "idle"
  BY DEF Init
<1>2. KeyNamesOneBooking /\ InsertsAdmitted /\ InsertsApart /\ LoserFindsWinner
  BY <1>1 DEF KeyNamesOneBooking, InsertsAdmitted, InsertsApart, Inserting,
              LoserFindsWinner
<1>3. WithinCapacity
  BY DEF Init, WithinCapacity
<1> QED
  BY <1>2, <1>3, LockInit DEF KeyInv

\* Every step keeps the keys apart: one step per action.
LEMMA KeyNext == KeyInv /\ [Next]_vars => KeyInv'
<1> SUFFICES ASSUME KeyInv, [Next]_vars PROVE KeyInv'
  OBVIOUS
<1>1. LockInv' /\ TypeInv /\ TypeOK
  BY LockNext DEF KeyInv, LockInv, TypeInv
<1>2. CASE UNCHANGED vars
  BY <1>1, <1>2 DEF KeyInv, KeyNamesOneBooking, InsertsAdmitted, InsertsApart,
       LoserFindsWinner, WithinCapacity, Inserting, OwnKeyedRows,
       vars, tables, session
<1>3. ASSUME NEW e \in Events, NEW n \in 1..MaxCapacity, CreateEvent(e, n)
      PROVE  KeyInv'
  <2>1. WithinCapacity'
    BY <1>1, <1>3, BoundsAssumption DEF KeyInv, WithinCapacity, CreateEvent, TypeOK
  <2> QED
    BY <1>1, <1>3, <2>1 DEF KeyInv, KeyNamesOneBooking, InsertsAdmitted, InsertsApart,
         LoserFindsWinner, Inserting, OwnKeyedRows, CreateEvent, session
<1>4. ASSUME NEW w \in Workers, NEW r \in Requests, Receive(w, r)
      PROVE  KeyInv'
  <2>1. OthersKept(w) /\ UNCHANGED tables /\ pc'[w] = "auth"
    BY <1>1, <1>4 DEF TypeOK, OthersKept, Receive, Goto, tables
  <2> QED
    BY <1>1, <2>1, QuietKeepsKeys
<1>5. ASSUME NEW w \in Workers, NEW a, Abort(w, a)
      PROVE  KeyInv'
  <2>1. OthersKept(w) /\ UNCHANGED tables /\ pc'[w] = "done"
    BY <1>1, <1>5 DEF TypeOK, OthersKept, Abort, Goto, tables, session
  <2> QED
    BY <1>1, <2>1, QuietKeepsKeys
<1>6. ASSUME NEW w \in Workers,
             \/ Authenticate(w) \/ FindReplay(w) \/ Refind(w) \/ Refresh(w)
             \/ Respond(w)
      PROVE  KeyInv'
  <2>1. /\ OthersKept(w) /\ UNCHANGED tables
        /\ pc'[w] \in {"find", "load", "lock", "done", "idle"}
    BY <1>1, <1>6 DEF TypeOK, OthersKept, Goto, tables, session,
         Authenticate, FindReplay, Refind, Refresh, Respond, Replay
  <2> QED
    BY <1>1, <2>1, QuietKeepsKeys
<1>7. ASSUME NEW w \in Workers, LoadBooking(w) \/ LockEvent(w),
             ~ \E a : Abort(w, a)
      PROVE  KeyInv'
  <2>1. /\ OthersKept(w) /\ UNCHANGED tables
        /\ pc'[w] \in {"lock", "flush", "refresh"}
    BY <1>1, <1>7 DEF TypeOK, OthersKept, Goto, tables, session,
         LoadBooking, LockEvent
  <2> QED
    BY <1>1, <2>1, QuietKeepsKeys
<1>8. ASSUME NEW w \in Workers,
             Flush(w) \/ CommitCreate(w) \/ CommitModify(w) \/ CommitCancel(w)
      PROVE  KeyInv'
  BY <1>1, <1>8, FlushKeepsKeys, CommitCreateKeepsKeys, CommitUpdateKeepsKeys
<1> QED
  BY <1>2, <1>3, <1>4, <1>5, <1>6, <1>7, <1>8 DEF Next, Step, Fail

\* A client that retries with its key is never charged twice: at most one row
\* of the table carries a key of a user, however the retries interleave
\* (models.py:97-100, README.md:290-296).
THEOREM KeysUnique == Spec => []KeyNamesOneBooking
<1>1. Spec => []KeyInv
  BY KeyInit, KeyNext, PTL DEF Spec
<1>2. KeyInv => KeyNamesOneBooking
  BY DEF KeyInv
<1> QED
  BY <1>1, <1>2, PTL

\* An IntegrityError of a keyed booking is always explained by a committed
\* booking: the handler never re-raises it (booking.py:93-101).
THEOREM LosersReplay == Spec => []LoserFindsWinner
<1>1. Spec => []KeyInv
  BY KeyInit, KeyNext, PTL DEF Spec
<1>2. KeyInv => LoserFindsWinner
  BY DEF KeyInv
<1> QED
  BY <1>1, <1>2, PTL

-----------------------------------------------------------------------------
(* Retries on SQLite: the lookup and the commit are under one lock.        *)

\* What the fast path did not find is still not there when the event row is
\* read: on SQLite the transaction that looked holds the write lock.
StillUnused ==
  \A w \in Workers :
    Engine = "sqlite" /\ pc[w] = "lock" /\ HasKey(w) => OwnKeyedRows(w) = {}

RetryInv == KeyInv /\ StillUnused

\* Whoever commits on SQLite does it alone: nobody else is at the event row.
LEMMA CommitsAlone ==
  ASSUME LockInv, NEW w \in Workers, NEW v \in Workers \ {w}, Commit(w),
         pc[v] = "lock"
  PROVE  Engine # "sqlite"
BY DEF LockInv, LockOK, Commit

\* Steps that leave the bookings alone, and bring to the event row only who
\* has no key or found it unused.
LEMMA QuietKeepsUnused ==
  ASSUME RetryInv, NEW w \in Workers, OthersKept(w), bookings' = bookings,
         pc'[w] = "lock" /\ HasKey(w)' => OwnKeyedRows(w)' = {}
  PROVE  StillUnused'
<1>1. ASSUME NEW v \in Workers \ {w}
      PROVE  /\ pc'[v] = pc[v] /\ HasKey(v)' = HasKey(v)
             /\ OwnKeyedRows(v)' = OwnKeyedRows(v)
  BY <1>1 DEF OthersKept, HasKey, OwnKeyedRows
<1> QED
  BY <1>1 DEF RetryInv, StillUnused

\* Every step keeps what was not found not there.
LEMMA RetryNext == RetryInv /\ [Next]_vars => RetryInv'
<1> SUFFICES ASSUME RetryInv, [Next]_vars PROVE StillUnused'
  BY KeyNext DEF RetryInv
<1>1. TypeInv /\ TypeOK /\ LockInv
  BY DEF RetryInv, KeyInv, LockInv, TypeInv
<1>2. CASE UNCHANGED <<bookings, pc, req>>
  BY <1>2 DEF RetryInv, StillUnused, HasKey, OwnKeyedRows
<1>3. ASSUME NEW w \in Workers, NEW r \in Requests, Receive(w, r)
      PROVE  StillUnused'
  <2>1. OthersKept(w) /\ bookings' = bookings /\ pc'[w] = "auth"
    BY <1>1, <1>3 DEF TypeOK, OthersKept, Receive, Goto, tables
  <2> QED
    BY <2>1, QuietKeepsUnused
<1>4. ASSUME NEW w \in Workers, NEW a, Abort(w, a)
      PROVE  StillUnused'
  <2>1. OthersKept(w) /\ bookings' = bookings /\ pc'[w] = "done"
    BY <1>1, <1>4 DEF TypeOK, OthersKept, Abort, Goto, tables, session
  <2> QED
    BY <2>1, QuietKeepsUnused
<1>5. ASSUME NEW w \in Workers, Authenticate(w)
      PROVE  StillUnused'
  <2>1. OthersKept(w) /\ bookings' = bookings /\ req' = req
    BY <1>1, <1>5 DEF TypeOK, OthersKept, Authenticate, Goto, tables, session
  <2>2. HasKey(w) => pc'[w] = "find"
    BY <1>1, <1>5 DEF TypeOK, Authenticate, Goto, HasKey
  <2>3. HasKey(w)' = HasKey(w)
    BY <2>1 DEF HasKey
  <2> QED
    BY <2>1, <2>2, <2>3, QuietKeepsUnused
<1>6. ASSUME NEW w \in Workers, FindReplay(w)
      PROVE  StillUnused'
  <2>1. OthersKept(w) /\ bookings' = bookings /\ req' = req
    BY <1>1, <1>6 DEF TypeOK, OthersKept, FindReplay, Replay, Goto, tables, session
  <2>2. pc'[w] = "done" \/ OwnKeyedRows(w) = {}
    BY <1>1, <1>6 DEF TypeOK, FindReplay, Replay, Goto
  <2>3. OwnKeyedRows(w)' = OwnKeyedRows(w)
    BY <2>1 DEF OwnKeyedRows
  <2> QED
    BY <2>1, <2>2, <2>3, QuietKeepsUnused
<1>7. ASSUME NEW w \in Workers, LoadBooking(w), ~ \E a : Abort(w, a)
      PROVE  StillUnused'
  <2>1. OthersKept(w) /\ bookings' = bookings /\ req' = req
    BY <1>1, <1>7 DEF TypeOK, OthersKept, LoadBooking, Goto, tables
  <2>2. ~HasKey(w)'
    BY <1>1, <1>7, <2>1 DEF TypeInv, SessionOK, LoadBooking, HasKey
  <2> QED
    BY <2>1, <2>2, QuietKeepsUnused
<1>8. ASSUME NEW w \in Workers,
             LockEvent(w) \/ Flush(w) \/ Refind(w) \/ Refresh(w) \/ Respond(w),
             ~ \E a : Abort(w, a)
      PROVE  StillUnused'
  <2>1. /\ OthersKept(w) /\ bookings' = bookings
        /\ pc'[w] \in {"flush", "commit", "refind", "refresh", "done", "idle"}
    BY <1>1, <1>8 DEF TypeOK, OthersKept, Goto, tables, session,
         LockEvent, Flush, Refind, Refresh, Respond, Replay
  <2> QED
    BY <2>1, QuietKeepsUnused
<1>9. ASSUME NEW w \in Workers, CommitCreate(w) \/ CommitModify(w) \/ CommitCancel(w)
      PROVE  StillUnused'
  <2>1. Commit(w) /\ OthersKept(w)
    BY <1>1, <1>9, CommitTouchesOwn
  <2>2. pc'[w] = "refresh"
    BY <1>1, <2>1 DEF Commit, Goto, TypeOK
  <2>3. \A v \in Workers : pc'[v] = "lock" => Engine # "sqlite"
    BY <1>1, <2>1, <2>2, CommitsAlone DEF OthersKept
  <2> QED
    BY <2>3 DEF StillUnused
<1> QED
  BY <1>2, <1>3, <1>4, <1>5, <1>6, <1>7, <1>8, <1>9
     DEF Next, Step, Fail, CreateEvent, session, vars, tables

\* What a step answers to a keyed request that finds its key used is the replay,
\* an error, or a refusal decided on the event row.
LEMMA KeyedAnswers ==
  ASSUME KeyInv, Next, NEW w \in Workers, HasKey(w), OwnKeyedRows(w) # {},
         reply[w] = "none", reply'[w] \notin {"none", "replay", "error"}
  PROVE  pc[w] = "lock" /\ reply'[w] \in {"insufficient_seats", "not_found"}
<1>1. TypeInv /\ TypeOK /\ SessionOK(w)
  BY DEF KeyInv, LockInv, TypeInv
<1>2. req[w].op = "create" /\ req[w].key # NoKey
  BY KeysAssumption DEF HasKey
<1>3. ASSUME NEW v \in Workers, Step(v) \/ Fail(v)  PROVE v = w
  BY <1>1, <1>3 DEF TypeOK, Step, Fail, Abort, Answer, Replay, Commit, Authenticate,
       FindReplay, LoadBooking, LockEvent, Flush, CommitCreate, CommitModify,
       CommitCancel, Refind, Refresh, Respond
<1>4. Step(w) \/ Fail(w)
  BY <1>3 DEF Next, CreateEvent, Receive
<1>5. ~CommitCreate(w) /\ ~CommitModify(w) /\ ~CommitCancel(w)
  BY <1>2 DEF KeyInv, InsertsAdmitted, Inserting, UniqueAdmits, OwnKeyedRows,
       CommitCreate, CommitModify, CommitCancel, Commit
<1>6. ~LoadBooking(w)
  BY <1>1, <1>2 DEF SessionOK, LoadBooking
<1>7. LockEvent(w)
  BY <1>1, <1>4, <1>5, <1>6 DEF TypeOK, Step, Fail, Abort, Answer, Replay,
       Authenticate, FindReplay, Flush, Refind, Refresh, Respond
<1>8. Delta(w) # 0
  <2>1. req[w] \in Requests \cup {NoReq}
    BY <1>1 DEF TypeOK
  <2>2. req[w].seats \in 1..MaxSeats
    BY <1>2, <2>1, RequestFields
  <2> QED
    BY <1>2, <2>2, BoundsAssumption DEF Delta
<1> QED
  BY <1>1, <1>7, <1>8 DEF LockEvent, Abort, Answer, TypeOK

\* A request whose key names a booking by now never gets another one, on either
\* engine and in any interleaving; and of the errors a handler decides on only
\* those of the event row, judged before the key is tried, can reach it
\* (booking.py:72-79).
THEOREM RetriesRefusedBySeats == Spec => OnlySeatTestRefusesRetries
<1>1. Spec => []KeyInv
  BY KeyInit, KeyNext, PTL DEF Spec
<1>2. ASSUME KeyInv, [Next]_vars
      PROVE  [\A w \in Workers :
                /\ HasKey(w) /\ OwnKeyedRows(w) # {}
                /\ reply[w] = "none" /\ reply'[w] \notin {"none", "replay", "error"}
                => pc[w] = "lock"
                   /\ reply'[w] \in {"insufficient_seats", "not_found"}]_vars
  BY <1>2, KeyedAnswers DEF vars
<1> QED
  BY <1>1, <1>2, PTL DEF Spec, OnlySeatTestRefusesRetries

\* On SQLite the event row is no way out: who reaches it found its key unused.
LEMMA AnswersFit ==
  ASSUME RetryInv, Next, Engine = "sqlite", NEW w \in Workers,
         reply[w] = "none", reply'[w] \notin {"none", "replay", "error"}, HasKey(w)
  PROVE  OwnKeyedRows(w) = {}
BY KeyedAnswers DEF RetryInv, StillUnused

\* On SQLite a retry under a used key is answered with the booking made then,
\* and never refused for the seats that booking took (booking.py:60-62).
THEOREM RetriesReplay == ASSUME Engine = "sqlite" PROVE Spec => RetryGetsReplay
<1>1. Init => RetryInv
  BY KeyInit DEF Init, RetryInv, StillUnused
<1>2. Spec => []RetryInv
  BY <1>1, RetryNext, PTL DEF Spec
<1>3. ASSUME RetryInv, [Next]_vars
      PROVE  [\A w \in Workers :
                /\ reply[w] = "none"
                /\ reply'[w] \notin {"none", "replay", "error"}
                /\ HasKey(w)
                => OwnKeyedRows(w) = {}]_vars
  BY <1>3, AnswersFit DEF vars
<1> QED
  BY <1>2, <1>3, PTL DEF Spec, RetryGetsReplay

-----------------------------------------------------------------------------
(* Whose booking an answer shows.                                          *)

\* A handler has no answer before its transaction is decided; one that changes
\* a booking may, and locks the booking's own event, however old the row it
\* loaded; and an answer names a row of the request's own.
AnswerOK(w) ==
  /\ pc[w] \notin {"refresh", "done"} => reply[w] = "none"
  /\ pc[w] \in {"lock", "flush", "commit"} /\ req[w].op # "create" =>
       /\ Authorized(w, bookings[booking[w]])
       /\ row[w].event = bookings[booking[w]].event
  /\ reply[w] \in {"booking", "replay"} =>
       /\ booking[w] \in 1..Len(bookings)
       /\ req[w].op = "create" => /\ bookings[booking[w]].user = req[w].user
                                  /\ bookings[booking[w]].key = req[w].key
       /\ req[w].op # "create" => /\ booking[w] = req[w].booking
                                  /\ Authorized(w, bookings[booking[w]])

AnswerInv == TypeInv /\ \A w \in Workers : AnswerOK(w)

\* The rows that are there keep their user, their event and their key.
RowsKept ==
  \A i \in 1..Len(bookings) :
    /\ i \in 1..Len(bookings')
    /\ bookings'[i].user = bookings[i].user
    /\ bookings'[i].event = bookings[i].event
    /\ bookings'[i].key = bookings[i].key

AnswersKept(w) == \A v \in Workers \ {w} : reply'[v] = reply[v]

\* If the others keep their answers, the stepping worker is what is left to show.
LEMMA AnswerStep ==
  ASSUME AnswerInv, TypeInv', NEW w \in Workers, OthersKept(w), AnswersKept(w),
         RowsKept, AnswerOK(w)'
  PROVE  AnswerInv'
<1>1. ASSUME NEW v \in Workers \ {w}  PROVE AnswerOK(v)'
  <2>1. AnswerOK(v) /\ SessionOK(v)
    BY DEF AnswerInv, TypeInv
  <2>2. /\ pc'[v] = pc[v] /\ req'[v] = req[v] /\ booking'[v] = booking[v]
        /\ reply'[v] = reply[v] /\ row'[v] = row[v]
    BY DEF OthersKept, AnswersKept
  <2>3. booking[v] \in 1..Len(bookings) =>
          /\ booking[v] \in 1..Len(bookings')
          /\ bookings'[booking[v]].user = bookings[booking[v]].user
          /\ bookings'[booking[v]].event = bookings[booking[v]].event
          /\ bookings'[booking[v]].key = bookings[booking[v]].key
    BY DEF RowsKept
  <2>4. booking[v] \in 1..Len(bookings) /\ Authorized(v, bookings[booking[v]]) =>
          Authorized(v, bookings[booking[v]])'
    BY <2>2, <2>3 DEF Authorized
  <2> QED
    BY <2>1, <2>2, <2>3, <2>4 DEF AnswerOK, SessionOK
<1> QED
  BY <1>1 DEF AnswerInv

\* Steps of w that touch no table.
LEMMA QuietAnswer ==
  ASSUME AnswerInv, TypeInv', NEW w \in Workers, OthersKept(w), AnswersKept(w),
         bookings' = bookings, AnswerOK(w)'
  PROVE  AnswerInv'
<1>1. RowsKept
  BY DEF RowsKept
<1> QED
  BY <1>1, AnswerStep

\* A replay is a row of the user's, under the request's key.
LEMMA ReplayAnswers ==
  ASSUME AnswerInv, TypeInv', NEW w \in Workers, Replay(w), pc[w] \in {"find", "refind"}
  PROVE  AnswerInv'
<1>1. TypeOK /\ SessionOK(w) /\ AnswerOK(w)
  BY DEF AnswerInv, TypeInv
<1>2. PICK i \in OwnKeyedRows(w) : booking' = [booking EXCEPT ![w] = i]
  BY DEF Replay
<1>3. /\ OthersKept(w) /\ AnswersKept(w) /\ bookings' = bookings /\ req' = req
      /\ booking'[w] = i /\ reply'[w] = "replay" /\ pc'[w] = "done"
  BY <1>1, <1>2 DEF Replay, Goto, Answer, TypeOK, OthersKept, AnswersKept, tables
<1>4. /\ i \in 1..Len(bookings)
      /\ bookings[i].user = req[w].user /\ bookings[i].key = req[w].key
  BY DEF OwnKeyedRows, KeyedRows
<1>5. req[w].op = "create"
  BY <1>1 DEF SessionOK, HasKey
<1>6. AnswerOK(w)'
  BY <1>3, <1>4, <1>5 DEF AnswerOK
<1> QED
  BY <1>3, <1>6, QuietAnswer

\* Who loads a booking and goes on was not refused: it may change it.
LEMMA LoadAnswers ==
  ASSUME AnswerInv, TypeInv', NEW w \in Workers, LoadBooking(w), ~ \E a : Abort(w, a)
  PROVE  AnswerInv'
<1>1. TypeOK /\ SessionOK(w) /\ AnswerOK(w) /\ pc[w] = "load"
  BY DEF AnswerInv, TypeInv, LoadBooking
<1>2. /\ Refusal(w, req[w].booking) = "none"
      /\ booking' = [booking EXCEPT ![w] = req[w].booking]
      /\ row' = [row EXCEPT ![w] = bookings[req[w].booking]]
      /\ OthersKept(w) /\ AnswersKept(w) /\ bookings' = bookings
      /\ req' = req /\ reply' = reply /\ pc'[w] = "lock"
  BY <1>1 DEF LoadBooking, Goto, TypeOK, OthersKept, AnswersKept, tables
<1>3. Authorized(w, bookings[req[w].booking])
  BY <1>2 DEF Refusal
<1>4. /\ Authorized(w, bookings[booking[w]])'
      /\ row'[w].event = bookings'[booking'[w]].event
  BY <1>1, <1>2, <1>3 DEF Authorized, TypeOK
<1>5. AnswerOK(w)'
  BY <1>1, <1>2, <1>4 DEF AnswerOK
<1> QED
  BY <1>2, <1>5, QuietAnswer

\* Under the lock a handler goes on, or answers with a booking it leaves alone.
LEMMA LockAnswers ==
  ASSUME AnswerInv, TypeInv', NEW w \in Workers, LockEvent(w), ~ \E a : Abort(w, a)
  PROVE  AnswerInv'
<1>1. TypeOK /\ SessionOK(w) /\ AnswerOK(w) /\ pc[w] = "lock"
      /\ req[w] \in Requests \cup {NoReq}
  BY DEF AnswerInv, TypeInv, TypeOK, LockEvent
<1>2. /\ OthersKept(w) /\ AnswersKept(w) /\ bookings' = bookings
      /\ req' = req /\ booking' = booking /\ row' = row
      /\ \/ Delta(w) = 0 /\ pc'[w] = "refresh" /\ reply'[w] = "booking"
         \/ pc'[w] = "flush" /\ reply' = reply
  BY <1>1 DEF LockEvent, Goto, Answer, TypeOK, OthersKept, AnswersKept, tables, session
<1>3. Authorized(w, bookings[booking[w]])' <=> Authorized(w, bookings[booking[w]])
  BY <1>2 DEF Authorized
<1>4. Delta(w) = 0 => req[w].op # "create"
  BY <1>1, RequestFields, BoundsAssumption DEF Delta
<1>5. AnswerOK(w)'
  BY <1>1, <1>2, <1>3, <1>4 DEF AnswerOK, SessionOK
<1> QED
  BY <1>2, <1>5, QuietAnswer

\* A new booking is answered with the row it became.
LEMMA CreateAnswers ==
  ASSUME AnswerInv, TypeInv', NEW w \in Workers, CommitCreate(w)
  PROVE  AnswerInv'
<1>1. TypeInv /\ TypeOK /\ req[w].op = "create"
  BY DEF AnswerInv, TypeInv, CommitCreate
<1>2. /\ Len(bookings) \in Nat
      /\ Len(bookings') = Len(bookings) + 1
      /\ \A i \in 1..Len(bookings) : bookings'[i] = bookings[i]
      /\ bookings'[Len(bookings) + 1] =
           [user |-> req[w].user, event |-> req[w].event,
            seats |-> req[w].seats, status |-> "CONFIRMED", key |-> req[w].key]
      /\ booking' = [booking EXCEPT ![w] = Len(bookings) + 1]
  BY <1>1, CommitInserts
<1>3. /\ OthersKept(w) /\ AnswersKept(w) /\ req' = req
      /\ reply'[w] = "booking" /\ pc'[w] = "refresh"
  BY <1>1, CommitTouchesOwn DEF CommitCreate, Commit, Goto, Answer, TypeOK, AnswersKept
<1>4. RowsKept
  BY <1>2 DEF RowsKept
<1>5. /\ booking'[w] = Len(bookings) + 1
      /\ booking'[w] \in 1..Len(bookings')
      /\ bookings'[booking'[w]].user = req'[w].user
      /\ bookings'[booking'[w]].key = req'[w].key
  BY <1>1, <1>2, <1>3 DEF TypeOK
<1>6. AnswerOK(w)'
  BY <1>1, <1>3, <1>5 DEF AnswerOK
<1> QED
  BY <1>3, <1>4, <1>6, AnswerStep

\* A change is answered with the row it changed.
LEMMA UpdateAnswers ==
  ASSUME AnswerInv, TypeInv', NEW w \in Workers, CommitModify(w) \/ CommitCancel(w)
  PROVE  AnswerInv'
<1>1. TypeInv /\ TypeOK /\ SessionOK(w) /\ AnswerOK(w)
  BY DEF AnswerInv, TypeInv
<1>2. PICK b \in Booking :
        /\ bookings' = [bookings EXCEPT ![booking[w]] = b]
        /\ b.user = bookings[booking[w]].user
        /\ b.event = bookings[booking[w]].event
        /\ b.key = bookings[booking[w]].key
  BY <1>1, CommitUpdates
<1>3. booking[w] \in 1..Len(bookings) /\ booking' = booking
      /\ req[w].op # "create" /\ pc[w] = "commit"
  BY <1>1, CommitUpdates DEF CommitModify, CommitCancel, Commit
<1>4. /\ Len(bookings') = Len(bookings) /\ Len(bookings) \in Nat
      /\ \A i \in 1..Len(bookings) :
           bookings'[i] = IF i = booking[w] THEN b ELSE bookings[i]
  BY <1>1, <1>2, <1>3, ExceptSeq DEF TypeOK
<1>5. /\ OthersKept(w) /\ AnswersKept(w) /\ req' = req
      /\ reply'[w] = "booking" /\ pc'[w] = "refresh"
  BY <1>1, CommitTouchesOwn
     DEF CommitModify, CommitCancel, Commit, Goto, Answer, TypeOK, AnswersKept
<1>6. RowsKept
  BY <1>2, <1>3, <1>4 DEF RowsKept
<1>7. Authorized(w, bookings[booking[w]])'
  BY <1>1, <1>2, <1>3, <1>4, <1>5 DEF AnswerOK, Authorized
<1>8. AnswerOK(w)'
  BY <1>1, <1>3, <1>4, <1>5, <1>7 DEF AnswerOK, SessionOK
<1> QED
  BY <1>5, <1>6, <1>8, AnswerStep

\* Every step answers its own request only, and as it should.
LEMMA AnswerNext == AnswerInv /\ [Next]_vars => AnswerInv'
<1> SUFFICES ASSUME AnswerInv, [Next]_vars PROVE AnswerInv'
  OBVIOUS
<1>1. TypeInv /\ TypeOK /\ TypeInv'
  BY TypeNext DEF AnswerInv, TypeInv
<1> USE DEF Goto, Answer
<1>2. CASE UNCHANGED vars
  BY <1>1, <1>2 DEF AnswerInv, AnswerOK, Authorized, vars, tables, session
<1>3. ASSUME NEW e \in Events, NEW n \in 1..MaxCapacity, CreateEvent(e, n)
      PROVE  AnswerInv'
  BY <1>1, <1>3 DEF AnswerInv, AnswerOK, Authorized, CreateEvent, session
<1>4. ASSUME NEW w \in Workers, NEW r \in Requests, Receive(w, r)
      PROVE  AnswerInv'
  <2>1. OthersKept(w) /\ AnswersKept(w) /\ bookings' = bookings
    BY <1>1, <1>4 DEF TypeOK, OthersKept, AnswersKept, Receive, tables
  <2>2. AnswerOK(w)'
    BY <1>1, <1>4 DEF AnswerInv, AnswerOK, TypeOK, Receive
  <2> QED
    BY <1>1, <2>1, <2>2, QuietAnswer
<1>5. ASSUME NEW w \in Workers, NEW a \in Replies \ {"booking", "replay"}, Abort(w, a)
      PROVE  AnswerInv'
  <2>1. OthersKept(w) /\ AnswersKept(w) /\ bookings' = bookings
    BY <1>1, <1>5 DEF TypeOK, OthersKept, AnswersKept, Abort, tables, session
  <2>2. pc'[w] = "done" /\ reply'[w] = a
    BY <1>1, <1>5 DEF TypeOK, Abort
  <2>3. AnswerOK(w)'
    BY <2>2 DEF AnswerOK
  <2> QED
    BY <1>1, <2>1, <2>3, QuietAnswer
<1>6. ASSUME NEW w \in Workers, Replay(w), pc[w] \in {"find", "refind"}
      PROVE  AnswerInv'
  BY <1>1, <1>6, ReplayAnswers
<1>7. ASSUME NEW w \in Workers,
             Authenticate(w) \/ ((FindReplay(w) \/ Refind(w)) /\ ~Replay(w))
      PROVE  AnswerInv'
  <2>1. OthersKept(w) /\ AnswersKept(w) /\ bookings' = bookings /\ req' = req
    BY <1>1, <1>7 DEF TypeOK, OthersKept, AnswersKept, tables, session,
         Authenticate, FindReplay, Refind
  <2>2. \/ /\ reply'[w] = reply[w]
           /\ \/ pc'[w] \in {"find", "load"}
              \/ req[w].op = "create" /\ pc'[w] = "lock"
        \/ reply'[w] = "error" /\ pc'[w] = "done"
    <3>1. SessionOK(w)
      BY <1>1 DEF TypeInv
    <3>2. CASE Authenticate(w)
      BY <1>1, <3>2 DEF TypeOK, Authenticate, HasKey, tables, session
    <3>3. CASE FindReplay(w)
      BY <1>1, <1>7, <3>1, <3>3 DEF TypeOK, SessionOK, HasKey, FindReplay, Authenticate
    <3>4. CASE Refind(w)
      BY <1>1, <1>7, <3>4 DEF TypeOK, Refind, Authenticate
    <3> QED
      BY <1>7, <3>2, <3>3, <3>4
  <2>3. reply[w] = "none"
    BY <1>7 DEF AnswerInv, AnswerOK, Authenticate, FindReplay, Refind
  <2>4. AnswerOK(w)'
    BY <2>1, <2>2, <2>3 DEF AnswerOK
  <2> QED
    BY <1>1, <2>1, <2>4, QuietAnswer
<1>8. ASSUME NEW w \in Workers, LoadBooking(w) \/ LockEvent(w), ~ \E a : Abort(w, a)
      PROVE  AnswerInv'
  BY <1>1, <1>8, LoadAnswers, LockAnswers
<1>9. ASSUME NEW w \in Workers,
             Refresh(w) \/ (Flush(w) /\ ~ \E a : Abort(w, a))
      PROVE  AnswerInv'
  <2>1. /\ OthersKept(w) /\ AnswersKept(w) /\ bookings' = bookings
        /\ req' = req /\ booking' = booking /\ row' = row /\ reply' = reply
        /\ \/ pc[w] = "flush" /\ pc'[w] \in {"refind", "commit"}
           \/ pc[w] = "refresh" /\ pc'[w] = "done"
    BY <1>1, <1>9 DEF TypeOK, OthersKept, AnswersKept, tables, session, Flush, Refresh
  <2>2. Authorized(w, bookings[booking[w]])' <=> Authorized(w, bookings[booking[w]])
    BY <2>1 DEF Authorized
  <2>3. AnswerOK(w)'
    BY <2>1, <2>2 DEF AnswerInv, AnswerOK
  <2> QED
    BY <1>1, <2>1, <2>3, QuietAnswer
<1>10. ASSUME NEW w \in Workers, Respond(w)
       PROVE  AnswerInv'
  <2>1. OthersKept(w) /\ AnswersKept(w) /\ bookings' = bookings
    BY <1>1, <1>10 DEF TypeOK, OthersKept, AnswersKept, tables, Respond
  <2>2. pc'[w] = "idle" /\ reply'[w] = "none"
    BY <1>1, <1>10 DEF TypeOK, Respond
  <2>3. AnswerOK(w)'
    BY <2>2 DEF AnswerOK
  <2> QED
    BY <1>1, <2>1, <2>3, QuietAnswer
<1>11. ASSUME NEW w \in Workers, CommitCreate(w) \/ CommitModify(w) \/ CommitCancel(w)
       PROVE  AnswerInv'
  BY <1>1, <1>11, CreateAnswers, UpdateAnswers
<1>12. ASSUME NEW w \in Workers, NEW a, Abort(w, a),
              LoadBooking(w) \/ LockEvent(w) \/ Flush(w) \/ Fail(w)
       PROVE  AnswerInv'
  <2>1. a = reply'[w] /\ pc'[w] = "done"
    BY <1>1, <1>12 DEF TypeOK, Abort
  <2>2. a \in Replies \ {"booking", "replay"}
    <3>1. CASE LoadBooking(w)
      BY <1>1, <2>1, <3>1 DEF TypeOK, Abort, LoadBooking, Refusal, Replies
    <3>2. CASE LockEvent(w)
      BY <1>1, <2>1, <3>2 DEF TypeOK, Abort, LockEvent, Replies
    <3>3. CASE Flush(w) \/ Fail(w)
      BY <1>1, <2>1, <3>3 DEF TypeOK, Abort, Flush, Fail, Replies
    <3> QED
      BY <1>12, <3>1, <3>2, <3>3
  <2> QED
    BY <1>5, <1>12, <2>2
<1>13. ASSUME NEW w \in Workers, FindReplay(w) \/ Refind(w)
       PROVE  AnswerInv'
  BY <1>6, <1>7, <1>13 DEF FindReplay, Refind
<1>14. ASSUME NEW w \in Workers, LoadBooking(w) \/ LockEvent(w) \/ Flush(w) \/ Fail(w)
       PROVE  AnswerInv'
  BY <1>8, <1>9, <1>12, <1>14 DEF Fail
<1> QED
  BY <1>2, <1>3, <1>4, <1>7, <1>9, <1>10, <1>11, <1>12, <1>13, <1>14
     DEF Next, Step

\* No client is ever shown, or allowed to change, a booking that is not its own
\* (or anybody's, for an administrator), also when two clients use one key and
\* when others book and change meanwhile (booking.py:44-47, 176-180).
THEOREM AnswersShowOwnBooking == Spec => []AnswerNamesOwnBooking
<1>1. Init => AnswerInv
  BY TypeInit DEF Init, AnswerInv, AnswerOK
<1>2. Spec => []AnswerInv
  BY <1>1, AnswerNext, PTL DEF Spec
<1>3. AnswerInv => AnswerNamesOwnBooking
  BY DEF AnswerInv, AnswerOK, AnswerNamesOwnBooking
<1> QED
  BY <1>2, <1>3, PTL

=============================================================================
