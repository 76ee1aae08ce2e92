---------------------------- MODULE LedgerProofs ----------------------------
(***************************************************************************)
(* The booking service implements SeatLedger: seen from the tables, every  *)
(* commit is one atomic booking, change or cancellation that the ledger    *)
(* allows, and every other statement of a handler changes nothing.  What   *)
(* this takes is that no change commits what it reckoned from a stale row. *)
(***************************************************************************)
EXTENDS SeatCounterProofs

\* The instance's copies of the operators of Seats are those operators.
LEMMA SameOperators ==
  /\ \A bs, e : Ledger!Sold(bs, e) = Sold(bs, e)
  /\ \A b : Ledger!Cancelled(b) <=> Cancelled(b)
  /\ \A b, n, s : Ledger!Amended(b, n, s) = Amended(b, n, s)
  /\ \A bs, u, k : Ledger!UniqueAdmits(bs, u, k) <=> UniqueAdmits(bs, u, k)
  /\ Ledger!NoKey = NoKey /\ Ledger!EmptyKey = EmptyKey
<1>1. \A bs, e : Ledger!Sold(bs, e) = Sold(bs, e)
  BY DEF Ledger!Sold, Sold, Ledger!SoldUpTo, SoldUpTo, Ledger!ActiveSeats,
         ActiveSeats, Ledger!Cancelled, Cancelled
<1>2. /\ \A b : Ledger!Cancelled(b) <=> Cancelled(b)
      /\ \A b, n, s : Ledger!Amended(b, n, s) = Amended(b, n, s)
      /\ Ledger!NoKey = NoKey /\ Ledger!EmptyKey = EmptyKey
  BY DEF Ledger!Cancelled, Cancelled, Ledger!Amended, Amended,
         Ledger!NoKey, NoKey, Ledger!EmptyKey, EmptyKey
<1>3. \A bs, u, k : Ledger!UniqueAdmits(bs, u, k) <=> UniqueAdmits(bs, u, k)
  BY DEF Ledger!UniqueAdmits, UniqueAdmits, Ledger!KeyedRows, KeyedRows,
         Ledger!NoKey, NoKey
<1> QED
  BY <1>1, <1>2, <1>3

\* No step commits a change that was reckoned from a row that has changed since.
FreshCommits == [][\A e \in Events : ~StaleCommit(e)]_vars

\* The counter of every event is exact, and the locks and keys are in order.
ExactInv ==
  /\ DriftInv
  /\ CounterMatchesBookings

\* Under its lock a handler knows the free seats, and takes no more.
LEMMA CommitFits ==
  ASSUME ExactInv, NEW w \in Workers, Commit(w)
  PROVE  /\ TargetEvent(w) \in Events
         /\ total[TargetEvent(w)] > 0
         /\ Delta(w) # 0
         /\ Delta(w) <= Ledger!Free(TargetEvent(w))
<1>1. TypeInv /\ TypeOK /\ SessionOK(w) /\ LockOK(w) /\ pc[w] = "commit"
  BY DEF ExactInv, DriftInv, KeyInv, LockInv, TypeInv, Commit
<1>2. TargetEvent(w) \in Events /\ Delta(w) \in Int
  BY <1>1, Targets
<1>3. seen[w] = available[TargetEvent(w)] /\ seen[w] \in Nat
  BY <1>1 DEF LockOK, TypeOK
<1>4. Delta(w) <= seen[w]
  BY <1>1, <1>2, <1>3 DEF SessionOK, ChecksHold, NewAvailable
<1>5. seen[w] = Ledger!Free(TargetEvent(w))
  BY <1>2, <1>3, SameOperators DEF ExactInv, CounterMatchesBookings, Ledger!Free
<1> QED
  BY <1>1, <1>2, <1>4, <1>5 DEF SessionOK

\* The commit of a new booking is the ledger's Book.
LEMMA CreateBooks ==
  ASSUME ExactInv, NEW w \in Workers, CommitCreate(w)
  PROVE  Ledger!Next
<1> DEFINE u == req[w].user
           e == req[w].event
           n == req[w].seats
           k == req[w].key
<1>1. /\ Commit(w) /\ pc[w] = "commit" /\ req[w].op = "create"
      /\ req[w] \in Requests \cup {NoReq} /\ total' = total
  BY DEF CommitCreate, Commit, ExactInv, DriftInv, KeyInv, LockInv, TypeInv, TypeOK
<1>2. /\ u \in Users /\ e \in Events /\ n \in 1..MaxSeats
      /\ k \in Keys \cup {NoKey, EmptyKey}
  BY <1>1, RequestFields DEF HeaderValues
<1>3. total[e] > 0 /\ n <= Ledger!Free(e)
  BY <1>1, CommitFits DEF TargetEvent, Delta
<1>4. UniqueAdmits(bookings, u, k)
  BY <1>1 DEF ExactInv, DriftInv, KeyInv, InsertsAdmitted, Inserting
<1>5. Ledger!Book(u, e, n, k)
  BY <1>1, <1>3, <1>4, SameOperators DEF Ledger!Book, CommitCreate
<1> HIDE DEF u, e, n, k
<1> QED
  BY <1>2, <1>5, SameOperators DEF Ledger!Next

\* The commit of a change is the ledger's Change or Cancel, if the row it was
\* reckoned from is still the row.
LEMMA UpdateChanges ==
  ASSUME ExactInv, NEW w \in Workers, CommitModify(w) \/ CommitCancel(w),
         row[w] = bookings[booking[w]]
  PROVE  Ledger!Next
<1> DEFINE i == booking[w]
           n == req[w].seats
<1>1. TypeInv /\ req[w] \in Requests \cup {NoReq}
  BY DEF ExactInv, DriftInv, KeyInv, LockInv, TypeInv, TypeOK
<1>2. /\ Commit(w) /\ i \in 1..Len(bookings) /\ total' = total
      /\ req[w].op \in {"modify", "cancel"}
  BY <1>1, CommitUpdates DEF Commit
<1>3. /\ ~Cancelled(bookings[i])
      /\ row[w] = bookings[i]
      /\ row[w] \in Booking
      /\ bookings' = [bookings EXCEPT ![i] =
           IF req[w].op = "modify" THEN Amended(bookings[i], n, "MODIFIED")
           ELSE Amended(bookings[i], bookings[i].seats, "CANCELLED")]
  BY <1>1, <1>2, UpdateWrites
<1>4. CASE req[w].op = "modify"
  <2>1. n \in 1..MaxSeats
    BY <1>1, <1>4, RequestFields
  <2>2. Delta(w) = n - bookings[i].seats /\ TargetEvent(w) = bookings[i].event
    BY <1>3, <1>4 DEF Delta, TargetEvent
  <2>3. n - bookings[i].seats # 0 /\ n - bookings[i].seats <= Ledger!Free(bookings[i].event)
    BY <1>2, <2>2, CommitFits
  <2>4. n # bookings[i].seats
    BY <1>3, <2>1, <2>3, BoundsAssumption DEF Booking
  <2>5. Ledger!Change(i, n)
    BY <1>2, <1>3, <1>4, <2>3, <2>4, SameOperators DEF Ledger!Change
  <2> HIDE DEF i, n
  <2> QED
    BY <1>2, <2>1, <2>5 DEF Ledger!Next
<1>5. CASE req[w].op = "cancel"
  <2>1. Ledger!Cancel(i)
    BY <1>2, <1>3, <1>5, SameOperators DEF Ledger!Cancel
  <2> HIDE DEF i, n
  <2> QED
    BY <1>2, <2>1 DEF Ledger!Next
<1> QED
  BY <1>2, <1>4, <1>5

\* Every step is a step of the ledger or invisible to it.
LEMMA LedgerStep ==
  ASSUME ExactInv, [Next]_vars, \A e \in Events : ~StaleCommit(e)
  PROVE  [Ledger!Next]_(Ledger!vars)
<1>1. CASE UNCHANGED tables
  BY <1>1 DEF tables, Ledger!vars
<1>2. ASSUME NEW e \in Events, NEW n \in 1..MaxCapacity, CreateEvent(e, n)
      PROVE  Ledger!Next
  <2>1. Ledger!Publish(e, n)
    BY <1>2 DEF CreateEvent, Ledger!Publish
  <2> QED
    BY <2>1 DEF Ledger!Next
<1>3. ASSUME NEW w \in Workers, CommitCreate(w)
      PROVE  Ledger!Next
  BY <1>3, CreateBooks
<1>4. ASSUME NEW w \in Workers, CommitModify(w) \/ CommitCancel(w)
      PROVE  Ledger!Next
  <2>1. TypeInv
    BY DEF ExactInv, DriftInv, KeyInv, LockInv
  <2>2. pc[w] = "commit" /\ req[w].op \in {"modify", "cancel"}
    BY <1>4, <2>1, CommitUpdates DEF CommitModify, CommitCancel, Commit
  <2>3. TargetEvent(w) \in Events
    BY <1>4, CommitFits DEF CommitModify, CommitCancel
  <2>4. row[w] = bookings[booking[w]]
    BY <1>4, <2>2, <2>3 DEF StaleCommit, StaleChange
  <2> QED
    BY <1>4, <2>4, UpdateChanges
<1> QED
  BY <1>1, <1>2, <1>3, <1>4 DEF Next, Step, Receive, Authenticate,
     FindReplay, LoadBooking, LockEvent, Flush, Refind, Refresh, Fail, Respond,
     Replay, Abort, vars

\* As long as no stale change commits, the counters stay exact.
LEMMA ExactHolds ==
  /\ Init => ExactInv
  /\ ExactInv /\ [Next]_vars /\ [\A e \in Events : ~StaleCommit(e)]_vars => ExactInv'
<1>1. Init => ExactInv
  BY DriftInvHolds, CounterInit DEF ExactInv, CounterInv
<1>2. ASSUME ExactInv, [Next]_vars, [\A e \in Events : ~StaleCommit(e)]_vars
      PROVE  ExactInv'
  <2>1. TypeOK /\ DriftInv /\ DriftInv'
    BY <1>2, DriftInvHolds DEF ExactInv, DriftInv, KeyInv, LockInv, TypeInv
  <2>2. CASE UNCHANGED vars
    BY <1>2, <2>1, <2>2 DEF ExactInv, CounterMatchesBookings, vars, tables
  <2>3. CASE \A e \in Events : ~StaleCommit(e)
    <3>1. \A e \in Events : Drift(e)' = 0
      BY <1>2, <2>1, <2>3, DriftStep, NoDriftIsMatch DEF ExactInv
    <3>2. TypeOK'
      BY <2>1 DEF DriftInv, KeyInv, LockInv, TypeInv
    <3>3. CounterMatchesBookings'
      <4>1. ASSUME NEW e \in Events
            PROVE  Sold(bookings', e) \in Nat /\ available'[e] \in Nat /\ total'[e] \in Nat
        BY <3>2, TypedTable, SoldIsNat, BoundsAssumption DEF TypeOK
      <4> QED
        BY <3>1, <4>1 DEF CounterMatchesBookings, Drift
    <3> QED
      BY <2>1, <3>3 DEF ExactInv
  <2> QED
    BY <1>2, <2>2, <2>3
<1> QED
  BY <1>1, <1>2

\* The row locks, sessions and copies of booking.py add up to atomic steps of
\* the ledger, on either engine and whatever is in flight together, for as long
\* as no change commits what it reckoned from a stale row (booking.py:115, 153):
\* that one read before the lock is all that keeps the handlers from being
\* atomic.
THEOREM FreshImplementsLedger == Spec /\ FreshCommits => ImplementsLedger
<1>1. Spec /\ FreshCommits => []ExactInv
  BY ExactHolds, PTL DEF Spec, FreshCommits
<1>2. Init => Ledger!Init
  BY DEF Init, Ledger!Init
<1>3. ExactInv /\ [Next]_vars /\ [\A e \in Events : ~StaleCommit(e)]_vars
        => [Ledger!Next]_(Ledger!vars)
  BY LedgerStep DEF vars, tables, Ledger!vars
<1> QED
  BY <1>1, <1>2, <1>3, PTL DEF Spec, FreshCommits, ImplementsLedger, Ledger!Spec

\* Clients that never send two changes of one booking at the same time make
\* every commit fresh, and so does SQLite whatever they send.
THEOREM SerialChangesAreFresh == SerialSpec => FreshCommits
<1>1. SerialSpec => []CounterInv
  BY CounterInit, CounterNext, PTL DEF SerialSpec
<1>2. CounterInv => \A e \in Events : ~StaleCommit(e)
  BY DEF CounterInv, RowsCurrent, Changing, StaleCommit, StaleChange
<1> QED
  BY <1>1, <1>2, PTL DEF SerialSpec, FreshCommits

\* So under one client promise on Postgres, and none on SQLite, the handlers
\* are atomic steps of the ledger.
THEOREM ServiceImplementsLedger == SerialSpec => ImplementsLedger
<1>1. [SerialNext]_vars => [Next]_vars
  BY DEF SerialNext
<1>2. SerialSpec => Spec
  BY <1>1, PTL DEF Spec, SerialSpec
<1> QED
  BY <1>2, SerialChangesAreFresh, FreshImplementsLedger, PTL

\* And so they are wherever clients only book, on either engine: the row lock
\* alone makes create_booking atomic (booking.py:50-57).
THEOREM BookingsImplementLedger ==
  ASSUME Requests \subseteq CreateReq
  PROVE  Spec => ImplementsLedger
<1>1. Spec => []DriftInv
  BY DriftInvHolds, PTL DEF Spec
<1>2. ASSUME DriftInv, NEW w \in Workers  PROVE ~StaleChange(w)
  BY <1>2, BookingsAreFresh DEF DriftInv, KeyInv, LockInv, TypeInv
<1>3. DriftInv => \A e \in Events : ~StaleCommit(e)
  BY <1>2 DEF StaleCommit
<1>4. Spec => FreshCommits
  BY <1>1, <1>3, PTL DEF Spec, FreshCommits
<1> QED
  BY <1>4, FreshImplementsLedger, PTL

\* SQLite needs no promise of the clients: BEGIN IMMEDIATE alone makes every
\* handler one atomic step of the ledger (database.py:48-60).
THEOREM SqliteImplementsLedger ==
  ASSUME Engine = "sqlite"
  PROVE  Spec => ImplementsLedger
<1>1. [Next]_vars => [SerialNext]_vars
  BY DEF SerialNext
<1>2. Spec => SerialSpec
  BY <1>1, PTL DEF Spec, SerialSpec
<1> QED
  BY <1>2, ServiceImplementsLedger, PTL

-----------------------------------------------------------------------------
(* What the ledger itself guarantees, whoever implements it.               *)

LedgerInv ==
  /\ total \in [Events -> 0..MaxCapacity]
  /\ bookings \in Seq(Booking)
  /\ NoOversell
  /\ KeyNamesOneBooking

\* The ledger starts empty.
LEMMA LedgerInit == Ledger!Init => LedgerInv
<1> SUFFICES ASSUME Ledger!Init PROVE LedgerInv
  OBVIOUS
<1>1. Len(bookings) = 0 /\ bookings \in Seq(Booking)
  BY DEF Ledger!Init
<1>2. \A e \in Events : Sold(bookings, e) = 0
  BY <1>1, SoldOfEmpty
<1> QED
  BY <1>1, <1>2, BoundsAssumption
     DEF Ledger!Init, LedgerInv, NoOversell, KeyNamesOneBooking

\* A booking takes seats that are free, under a key nobody used.
LEMMA BookKeepsLedger ==
  ASSUME LedgerInv, NEW u \in Users, NEW e \in Events, NEW n \in 1..MaxSeats,
         NEW k \in HeaderValues, Ledger!Book(u, e, n, k)
  PROVE  LedgerInv'
<1> DEFINE b == [user |-> u, event |-> e, seats |-> n, status |-> "CONFIRMED", key |-> k]
<1>1. /\ bookings \in Seq(Booking) /\ total \in [Events -> 0..MaxCapacity]
      /\ b \in Booking /\ n \in Nat
  BY BoundsAssumption DEF LedgerInv, Booking, Status
<1>2. /\ n <= total[e] - Sold(bookings, e) /\ UniqueAdmits(bookings, u, k)
      /\ bookings' = Append(bookings, b) /\ total' = total
  BY SameOperators DEF Ledger!Book, Ledger!Free
<1>3. b.user = u /\ b.key = k /\ \A x : ActiveSeats(b, x) = IF x = e THEN n ELSE 0
  BY DEF ActiveSeats, Cancelled
<1> HIDE DEF b
<1>4. /\ Len(bookings) \in Nat /\ Len(bookings') = Len(bookings) + 1
      /\ bookings' \in Seq(Booking)
      /\ \A i \in 1..Len(bookings) : bookings'[i] = bookings[i]
      /\ bookings'[Len(bookings) + 1] = b
  BY <1>1, <1>2
<1>5. NoOversell'
  <2> SUFFICES ASSUME NEW x \in Events PROVE Sold(bookings', x) <= total[x]
    BY <1>2 DEF NoOversell
  <2>1. Table(bookings, x) /\ Table(bookings', x)
    BY <1>1, <1>4, TypedTable
  <2>2. Sold(bookings', x) = Sold(bookings, x) + ActiveSeats(b, x)
    BY <1>4, <2>1, SoldGrows
  <2>3. Sold(bookings, x) \in Nat /\ Sold(bookings, x) <= total[x] /\ total[x] \in Nat
    BY <1>1, <2>1, SoldIsNat, BoundsAssumption DEF LedgerInv, NoOversell
  <2> QED
    BY <1>1, <1>2, <1>3, <2>2, <2>3
<1>6. KeyNamesOneBooking'
  <2>1. k = NoKey \/ \A i \in 1..Len(bookings) :
          ~(bookings[i].user = u /\ bookings[i].key = k)
    BY <1>2 DEF UniqueAdmits, KeyedRows
  <2> QED
    BY <1>3, <1>4, <2>1 DEF LedgerInv, KeyNamesOneBooking
<1> QED
  BY <1>1, <1>2, <1>4, <1>5, <1>6 DEF LedgerInv

\* A change or a cancellation writes a live row, and takes no more than is free.
LEMMA AmendKeepsLedger ==
  ASSUME LedgerInv, NEW i \in 1..Len(bookings), NEW b \in Booking,
         ~Cancelled(bookings[i]), total' = total,
         bookings' = [bookings EXCEPT ![i] = b],
         b.user = bookings[i].user, b.event = bookings[i].event,
         b.key = bookings[i].key,
         Cancelled(b) \/ b.seats - bookings[i].seats <=
                           total[b.event] - Sold(bookings, b.event)
  PROVE  LedgerInv'
<1>1. /\ bookings \in Seq(Booking) /\ total \in [Events -> 0..MaxCapacity]
      /\ bookings[i] \in Booking
  BY DEF LedgerInv
<1>2. /\ bookings' \in Seq(Booking) /\ Len(bookings') = Len(bookings)
      /\ \A n \in 1..Len(bookings) : bookings'[n] = IF n = i THEN b ELSE bookings[n]
  BY <1>1, ExceptSeq
<1>3. b.seats \in Nat /\ bookings[i].seats \in Nat /\ b.event \in Events
  BY <1>1, BoundsAssumption DEF Booking
<1>4. NoOversell'
  <2> SUFFICES ASSUME NEW x \in Events PROVE Sold(bookings', x) <= total[x]
    BY DEF NoOversell
  <2>1. Table(bookings, x) /\ Table(bookings', x)
    BY <1>1, <1>2, TypedTable
  <2>2. Sold(bookings', x) =
          Sold(bookings, x) + (ActiveSeats(b, x) - ActiveSeats(bookings[i], x))
    BY <1>1, RowMovesSold
  <2>3. Sold(bookings, x) \in Nat /\ Sold(bookings, x) <= total[x] /\ total[x] \in Nat
    BY <1>1, <2>1, SoldIsNat, BoundsAssumption DEF LedgerInv, NoOversell
  <2>4. CASE x # b.event
    BY <2>2, <2>3, <2>4 DEF ActiveSeats
  <2>5. CASE x = b.event /\ Cancelled(b)
    BY <1>3, <2>2, <2>3, <2>5 DEF ActiveSeats
  <2>6. CASE x = b.event /\ ~Cancelled(b)
    BY <1>3, <2>2, <2>3, <2>6 DEF ActiveSeats
  <2> QED
    BY <2>4, <2>5, <2>6
<1>5. KeyNamesOneBooking'
  BY <1>2 DEF LedgerInv, KeyNamesOneBooking
<1> QED
  BY <1>1, <1>2, <1>4, <1>5 DEF LedgerInv

\* What Change and Cancel write is a row again.
LEMMA LedgerAmends ==
  ASSUME LedgerInv, NEW i \in 1..Len(bookings),
         (\E n \in 1..MaxSeats : Ledger!Change(i, n)) \/ Ledger!Cancel(i)
  PROVE  \E b \in Booking :
           /\ ~Cancelled(bookings[i]) /\ total' = total
           /\ bookings' = [bookings EXCEPT ![i] = b]
           /\ b.user = bookings[i].user /\ b.event = bookings[i].event
           /\ b.key = bookings[i].key
           /\ Cancelled(b) \/ b.seats - bookings[i].seats <=
                                total[b.event] - Sold(bookings, b.event)
<1>1. bookings[i] \in Booking
  BY DEF LedgerInv
<1>2. ASSUME NEW n \in 1..MaxSeats, Ledger!Change(i, n)
      PROVE  /\ ~Cancelled(bookings[i]) /\ total' = total
             /\ bookings' = [bookings EXCEPT ![i] = Amended(bookings[i], n, "MODIFIED")]
             /\ n - bookings[i].seats <=
                  total[bookings[i].event] - Sold(bookings, bookings[i].event)
  BY <1>2, SameOperators DEF Ledger!Change, Ledger!Free
<1>3. CASE \E n \in 1..MaxSeats : Ledger!Change(i, n)
  <2>1. PICK n \in 1..MaxSeats : Ledger!Change(i, n)
    BY <1>3
  <2>2. Amended(bookings[i], n, "MODIFIED") \in Booking
    BY <1>1, RowUpdates DEF Status
  <2> QED
    BY <1>2, <2>1, <2>2 DEF Amended
<1>4. CASE Ledger!Cancel(i)
  <2>1. Amended(bookings[i], bookings[i].seats, "CANCELLED") \in Booking
    BY <1>1, RowUpdates, BoundsAssumption DEF Status, Booking
  <2> QED
    BY <1>4, <2>1, SameOperators DEF Ledger!Cancel, Amended, Cancelled
<1> QED
  BY <1>3, <1>4

\* Every step of the ledger keeps it right.
LEMMA LedgerNext == LedgerInv /\ [Ledger!Next]_(Ledger!vars) => LedgerInv'
<1> SUFFICES ASSUME LedgerInv, [Ledger!Next]_(Ledger!vars) PROVE LedgerInv'
  OBVIOUS
<1>1. CASE UNCHANGED Ledger!vars
  BY <1>1 DEF Ledger!vars, LedgerInv, NoOversell, KeyNamesOneBooking
<1>2. ASSUME NEW e \in Events, NEW n \in 1..MaxCapacity, Ledger!Publish(e, n)
      PROVE  LedgerInv'
  <2>1. /\ total[e] = 0 /\ total' = [total EXCEPT ![e] = n] /\ bookings' = bookings
        /\ total \in [Events -> 0..MaxCapacity] /\ bookings \in Seq(Booking)
    BY <1>2 DEF Ledger!Publish, LedgerInv
  <2>2. n \in Nat /\ \A x \in Events : Sold(bookings, x) \in Nat
    BY <2>1, TypedTable, SoldIsNat, BoundsAssumption
  <2>3. NoOversell'
    BY <2>1, <2>2, BoundsAssumption DEF LedgerInv, NoOversell
  <2> QED
    BY <2>1, <2>3 DEF LedgerInv, KeyNamesOneBooking
<1>3. ASSUME NEW u \in Users, NEW e \in Events, NEW n \in 1..MaxSeats,
             NEW k \in HeaderValues, Ledger!Book(u, e, n, k)
      PROVE  LedgerInv'
  BY <1>3, BookKeepsLedger
<1>4. ASSUME NEW i \in 1..Len(bookings),
             (\E n \in 1..MaxSeats : Ledger!Change(i, n)) \/ Ledger!Cancel(i)
      PROVE  LedgerInv'
  BY <1>4, LedgerAmends, AmendKeepsLedger
<1> QED
  BY <1>1, <1>2, <1>3, <1>4, SameOperators DEF Ledger!Next, HeaderValues

\* The specification the service implements is the one the README promises: no
\* event is oversold and no key of a user buys twice (README.md:4, 290-296).
THEOREM LedgerIsRight == Ledger!Spec => []NoOversell /\ []KeyNamesOneBooking
<1>1. Ledger!Spec => []LedgerInv
  BY LedgerInit, LedgerNext, PTL DEF Ledger!Spec
<1>2. LedgerInv => NoOversell /\ KeyNamesOneBooking
  BY DEF LedgerInv
<1> QED
  BY <1>1, <1>2, PTL

\* In the ledger nothing happens to a cancelled booking, and no later
\* cancellation gives its seats back again (booking.py:157-160).
THEOREM LedgerCancelsOnce == Ledger!Spec => CancelledIsFinal
<1>1. Ledger!Spec => []LedgerInv
  BY LedgerInit, LedgerNext, PTL DEF Ledger!Spec
<1>2. ASSUME LedgerInv, [Ledger!Next]_(Ledger!vars)
      PROVE  [\A i \in 1..Len(bookings) :
                Cancelled(bookings[i]) => bookings'[i] = bookings[i]]_vars
  <2> SUFFICES ASSUME NEW i \in 1..Len(bookings), Cancelled(bookings[i])
               PROVE  bookings'[i] = bookings[i]
    OBVIOUS
  <2>1. CASE bookings' = bookings
    BY <2>1
  <2>2. ASSUME NEW u, NEW e, NEW n, NEW k, Ledger!Book(u, e, n, k)
        PROVE  bookings'[i] = bookings[i]
    BY <1>2, <2>2 DEF LedgerInv, Ledger!Book
  <2>3. ASSUME NEW j \in 1..Len(bookings),
               (\E n \in 1..MaxSeats : Ledger!Change(j, n)) \/ Ledger!Cancel(j)
        PROVE  bookings'[i] = bookings[i]
    <3>1. PICK b \in Booking : ~Cancelled(bookings[j]) /\
                               bookings' = [bookings EXCEPT ![j] = b]
      BY <1>2, <2>3, LedgerAmends
    <3> QED
      BY <1>2, <3>1, ExceptSeq DEF LedgerInv
  <2> QED
    BY <1>2, <2>1, <2>2, <2>3 DEF Ledger!Next, Ledger!Publish, Ledger!vars
<1> QED
  BY <1>1, <1>2, PTL DEF Ledger!Spec, CancelledIsFinal

=============================================================================
