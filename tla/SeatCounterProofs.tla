------------------------- MODULE SeatCounterProofs -------------------------
(***************************************************************************)
(* The heart of the system: the counter events.available_seats is what the *)
(* live bookings leave, and nothing is oversold, on SQLite always and on   *)
(* Postgres as long as no two changes of one booking are in flight         *)
(* together (SerialSpec).                                                  *)
(* The last part drops that promise: what breaks then, and how far.        *)
(***************************************************************************)
EXTENDS BookingKeyProofs, SeatsProofs

Changing(w) == /\ pc[w] \in {"lock", "flush", "commit"}
               /\ req[w].op \in {"modify", "cancel"}

\* A change decides on the booking as the table has it.
RowsCurrent == \A w \in Workers : Changing(w) => row[w] = bookings[booking[w]]

Serial == Engine = "postgres" => SerialChanges

CounterInv ==
  /\ KeyInv
  /\ Serial
  /\ RowsCurrent
  /\ CounterMatchesBookings

\* The table is a sequence of bookings, before and after a step.
LEMMA TypedTable ==
  ASSUME NEW bs \in Seq(Booking), NEW e
  PROVE  Table(bs, e)
<1>1. Len(bs) \in Nat /\ \A n \in 1..Len(bs) : bs[n] \in Booking
  OBVIOUS
<1>2. \A b \in Booking : ActiveSeats(b, e) \in Nat
  BY BoundsAssumption DEF ActiveSeats, Booking
<1> QED
  BY <1>1, <1>2 DEF Table

\* A row written anew moves the seats sold by the difference of its seats.
LEMMA RowMovesSold ==
  ASSUME NEW bs \in Seq(Booking), NEW i \in 1..Len(bs), NEW b \in Booking, NEW e
  PROVE  Sold([bs EXCEPT ![i] = b], e) =
           Sold(bs, e) + (ActiveSeats(b, e) - ActiveSeats(bs[i], e))
<1> DEFINE cs == [bs EXCEPT ![i] = b]
<1>1. /\ cs \in Seq(Booking) /\ Len(cs) = Len(bs)
      /\ \A n \in 1..Len(bs) : cs[n] = IF n = i THEN b ELSE bs[n]
  BY ExceptSeq
<1> HIDE DEF cs
<1>2. Table(bs, e) /\ Table(cs, e)
  BY <1>1, TypedTable
<1>3. \A n \in 1..Len(bs) : n # i => ActiveSeats(cs[n], e) = ActiveSeats(bs[n], e)
  BY <1>1
<1>4. Sold(cs, e) = Sold(bs, e) + (ActiveSeats(cs[i], e) - ActiveSeats(bs[i], e))
  BY <1>1, <1>2, <1>3, SoldMoves
<1> QED
  BY <1>1, <1>4 DEF cs

\* A commit moves the seats sold of its event by what it takes, and those of
\* no other event.
SoldMovesWith(w) ==
  \A e \in Events : Sold(bookings', e) =
     Sold(bookings, e) + (IF e = TargetEvent(w) THEN Delta(w) ELSE 0)

\* A new booking moves the seats sold by what its handler takes.
LEMMA CreateMovesSold ==
  ASSUME TypeInv, NEW w \in Workers, CommitCreate(w)
  PROVE  SoldMovesWith(w)
<1>1. TypeOK /\ req[w].op = "create"
  BY DEF TypeInv, CommitCreate
<1>2. /\ Len(bookings) \in Nat
      /\ bookings' \in Seq(Booking)
      /\ Len(bookings') = Len(bookings) + 1
      /\ \A i \in 1..Len(bookings) : bookings'[i] = bookings[i]
      /\ bookings'[Len(bookings) + 1] =
           [user |-> req[w].user, event |-> req[w].event,
            seats |-> req[w].seats, status |-> "CONFIRMED", key |-> req[w].key]
  BY CommitInserts
<1> SUFFICES ASSUME NEW e \in Events
             PROVE  Sold(bookings', e) =
                      Sold(bookings, e) + (IF e = TargetEvent(w) THEN Delta(w) ELSE 0)
  BY DEF SoldMovesWith
<1>3. Table(bookings, e) /\ Table(bookings', e)
  BY <1>1, <1>2, TypedTable DEF TypeOK
<1>4. Sold(bookings', e) = Sold(bookings, e) + ActiveSeats(bookings'[Len(bookings')], e)
  BY <1>2, <1>3, SoldGrows
<1>5. ActiveSeats(bookings'[Len(bookings')], e) =
        IF e = TargetEvent(w) THEN Delta(w) ELSE 0
  BY <1>1, <1>2 DEF ActiveSeats, Cancelled, TargetEvent, Delta
<1> QED
  BY <1>4, <1>5

\* What a change writes, when the row it loaded is still the row.
LEMMA UpdateWrites ==
  ASSUME TypeInv, NEW w \in Workers, CommitModify(w) \/ CommitCancel(w),
         row[w] = bookings[booking[w]]
  PROVE  /\ row[w] \in Booking /\ ~Cancelled(row[w])
         /\ booking[w] = req[w].booking
         /\ bookings' = [bookings EXCEPT ![booking[w]] =
              IF req[w].op = "modify"
              THEN Amended(row[w], req[w].seats, "MODIFIED")
              ELSE Amended(row[w], row[w].seats, "CANCELLED")]
<1>1. SessionOK(w) /\ pc[w] = "commit" /\ req[w].op \in {"modify", "cancel"}
  BY DEF TypeInv, CommitModify, CommitCancel, Commit
<1>2. /\ row[w] \in Booking /\ ~Cancelled(row[w])
      /\ booking[w] = req[w].booking
  BY <1>1 DEF SessionOK
<1>3. CASE CommitModify(w)
  BY <1>2, <1>3 DEF CommitModify
<1>4. CASE CommitCancel(w)
  BY <1>2, <1>4 DEF CommitCancel
<1> QED
  BY <1>2, <1>3, <1>4

\* A change moves the seats sold by what its handler takes.
LEMMA UpdateMovesSold ==
  ASSUME TypeInv, NEW w \in Workers, CommitModify(w) \/ CommitCancel(w),
         row[w] = bookings[booking[w]]
  PROVE  SoldMovesWith(w)
<1> DEFINE i == booking[w]
           new == IF req[w].op = "modify"
                  THEN Amended(row[w], req[w].seats, "MODIFIED")
                  ELSE Amended(row[w], row[w].seats, "CANCELLED")
<1>1. TypeOK /\ req[w].op \in {"modify", "cancel"} /\ i \in 1..Len(bookings)
      /\ req[w] \in Requests \cup {NoReq}
  BY CommitUpdates DEF TypeInv, TypeOK
<1>2. /\ row[w] \in Booking /\ ~Cancelled(row[w])
      /\ row[w] = bookings[i]
      /\ bookings' = [bookings EXCEPT ![i] = new]
  BY UpdateWrites
<1>3. new \in Booking
  BY <1>1, <1>2, RowUpdates, RequestFields DEF Status, Booking
<1>4. new.event = row[w].event /\ (Cancelled(new) <=> req[w].op = "cancel")
      /\ (req[w].op = "modify" => new.seats = req[w].seats)
  BY <1>1 DEF Amended, Cancelled
<1> HIDE DEF new
<1> SUFFICES ASSUME NEW e \in Events
             PROVE  Sold(bookings', e) =
                      Sold(bookings, e) + (IF e = TargetEvent(w) THEN Delta(w) ELSE 0)
  BY DEF SoldMovesWith
<1>5. Sold(bookings', e) = Sold(bookings, e) +
        (ActiveSeats(new, e) - ActiveSeats(row[w], e))
  <2>1. bookings \in Seq(Booking) /\ i \in 1..Len(bookings)
    BY <1>1 DEF TypeOK
  <2>2. Sold([bookings EXCEPT ![i] = new], e) = Sold(bookings, e) +
          (ActiveSeats(new, e) - ActiveSeats(bookings[i], e))
    BY <1>3, <2>1, RowMovesSold
  <2> QED
    BY <1>2, <2>2
<1>6. row[w].seats \in Nat /\ (req[w].op = "modify" => req[w].seats \in Nat)
  BY <1>1, <1>2, RequestFields, BoundsAssumption DEF Booking
<1>7. ActiveSeats(new, e) - ActiveSeats(row[w], e) =
         IF e = TargetEvent(w) THEN Delta(w) ELSE 0
  BY <1>1, <1>2, <1>4, <1>6 DEF ActiveSeats, TargetEvent, Delta
<1> QED
  BY <1>5, <1>7

\* The seats sold and free are numbers.
LEMMA CounterTypes ==
  ASSUME TypeOK, NEW e \in Events
  PROVE  Sold(bookings, e) \in Nat /\ available[e] \in Nat /\ total[e] \in Nat
BY TypedTable, SoldIsNat, BoundsAssumption DEF TypeOK

\* The counter and the table agree when there is no drift.
LEMMA NoDriftIsMatch ==
  ASSUME TypeOK
  PROVE  CounterMatchesBookings <=> \A e \in Events : Drift(e) = 0
BY CounterTypes DEF CounterMatchesBookings, Drift

\* So the counter, which moves the other way, keeps its distance.
LEMMA CommitKeepsDrift ==
  ASSUME LockInv, NEW w \in Workers, Commit(w), bookings' \in Seq(Booking),
         NEW e \in Events,
         Sold(bookings', e) =
           Sold(bookings, e) + (IF e = TargetEvent(w) THEN Delta(w) ELSE 0)
  PROVE  Drift(e)' = Drift(e)
<1>1. /\ TypeOK /\ LockOK(w) /\ pc[w] = "commit"
      /\ TargetEvent(w) \in Events /\ Delta(w) \in Int
  BY Targets DEF LockInv, TypeInv, Commit
<1>2. seen[w] = available[TargetEvent(w)]
  BY <1>1 DEF LockOK
<1>3. available'[e] = available[e] - (IF e = TargetEvent(w) THEN Delta(w) ELSE 0)
  BY <1>1, <1>2 DEF Commit, NewAvailable, TypeOK
<1>4. total' = total
  BY DEF Commit
<1> QED
  BY <1>1, <1>3, <1>4, CounterTypes DEF Drift

\* A commit that moves what it takes leaves a matching counter matching.
LEMMA CommitKeepsCounter ==
  ASSUME LockInv, TypeOK', CounterMatchesBookings, NEW w \in Workers, Commit(w),
         SoldMovesWith(w)
  PROVE  CounterMatchesBookings'
<1>1. TypeOK
  BY DEF LockInv, TypeInv
<1>2. ASSUME NEW e \in Events  PROVE Drift(e)' = 0
  <2>1. Drift(e) = 0
    BY <1>1, NoDriftIsMatch
  <2>2. Drift(e)' = Drift(e)
    BY CommitKeepsDrift DEF SoldMovesWith, TypeOK
  <2> QED
    BY <2>1, <2>2
<1>3. ASSUME NEW e \in Events
      PROVE  Sold(bookings', e) \in Nat /\ available'[e] \in Nat /\ total'[e] \in Nat
  BY TypedTable, SoldIsNat, BoundsAssumption DEF TypeOK
<1> QED
  BY <1>2, <1>3 DEF CounterMatchesBookings, Drift

\* Two changes past the load work on different bookings: on Postgres because
\* clients send them one at a time, on SQLite because there is only one.
LEMMA ChangesApart ==
  ASSUME LockInv, Serial, NEW v \in Workers, NEW w \in Workers \ {v},
         Changing(v), Changing(w)
  PROVE  booking[v] # booking[w]
<1>1. LockOK(v) /\ LockOK(w) /\ SessionOK(v) /\ SessionOK(w)
  BY DEF LockInv, TypeInv
<1>2. Engine = "postgres"
  BY <1>1, EngineAssumption DEF LockOK, Changing
<1>3. req[v].booking # req[w].booking
  BY <1>2 DEF Serial, SerialChanges, Changing
<1> QED
  BY <1>1, <1>3 DEF SessionOK, Changing

\* Steps that leave the bookings, or add one.
LEMMA RowsStay ==
  ASSUME TypeInv, RowsCurrent, NEW w \in Workers, OthersKept(w),
         \A i \in 1..Len(bookings) : bookings'[i] = bookings[i],
         Changing(w)' => row'[w] = bookings'[booking'[w]]
  PROVE  RowsCurrent'
<1> SUFFICES ASSUME NEW v \in Workers \ {w}, Changing(v)'
             PROVE  row'[v] = bookings'[booking'[v]]
  BY DEF RowsCurrent
<1>1. Changing(v) /\ row'[v] = row[v] /\ booking'[v] = booking[v]
  BY DEF Changing, OthersKept
<1>2. booking[v] \in 1..Len(bookings)
  BY <1>1 DEF TypeInv, SessionOK, Changing
<1> QED
  BY <1>1, <1>2 DEF RowsCurrent

\* A change of one booking leaves the rows that others loaded.
LEMMA UpdateKeepsRows ==
  ASSUME LockInv, Serial, RowsCurrent, NEW w \in Workers,
         CommitModify(w) \/ CommitCancel(w)
  PROVE  RowsCurrent'
<1>1. TypeInv /\ TypeOK
  BY DEF LockInv, TypeInv
<1>2. Commit(w) /\ OthersKept(w) /\ booking[w] \in 1..Len(bookings)
      /\ req[w].op \in {"modify", "cancel"}
  BY <1>1, CommitTouchesOwn, CommitUpdates
<1>3. PICK b \in Booking : bookings' = [bookings EXCEPT ![booking[w]] = b]
  BY <1>1, CommitUpdates
<1>4. pc[w] = "commit" /\ pc'[w] = "refresh"
  BY <1>1, <1>2 DEF Commit, Goto, TypeOK
<1> SUFFICES ASSUME NEW v \in Workers, Changing(v)'
             PROVE  row'[v] = bookings'[booking'[v]]
  BY DEF RowsCurrent
<1>5. v # w
  BY <1>4 DEF Changing
<1>6. Changing(v) /\ row'[v] = row[v] /\ booking'[v] = booking[v]
  BY <1>2, <1>5 DEF Changing, OthersKept
<1>7. Changing(w)
  BY <1>2, <1>4 DEF Changing
<1>8. booking[v] # booking[w]
  BY <1>5, <1>6, <1>7, ChangesApart
<1>9. booking[v] \in 1..Len(bookings)
  BY <1>1, <1>6 DEF TypeInv, SessionOK, Changing
<1>10. bookings'[booking[v]] = bookings[booking[v]]
  BY <1>1, <1>2, <1>3, <1>8, <1>9, ExceptSeq DEF TypeOK
<1> QED
  BY <1>6, <1>10 DEF RowsCurrent

\* Steps that touch no table: the only new thing to see is a booking loaded.
LEMMA QuietKeepsCounter ==
  ASSUME CounterInv, KeyInv', Serial', NEW w \in Workers, OthersKept(w), UNCHANGED tables,
         Changing(w)' => row'[w] = bookings[booking'[w]]
  PROVE  CounterInv'
<1>1. CounterMatchesBookings'
  BY DEF CounterInv, CounterMatchesBookings, tables
<1>2. RowsCurrent'
  BY RowsStay DEF CounterInv, KeyInv, LockInv, tables
<1> QED
  BY <1>1, <1>2 DEF CounterInv

\* With no events and no bookings the counters agree.
LEMMA CounterInit == Init => CounterInv
<1> SUFFICES ASSUME Init PROVE CounterInv
  OBVIOUS
<1>1. \A e \in Events : Sold(bookings, e) = 0
  BY SoldOfEmpty DEF Init
<1>2. CounterMatchesBookings
  BY <1>1 DEF Init, CounterMatchesBookings
<1>3. RowsCurrent /\ Serial
  BY DEF Init, RowsCurrent, Changing, Serial, SerialChanges, NoReq
<1> QED
  BY <1>2, <1>3, KeyInit DEF CounterInv

\* Every step keeps counter and bookings in agreement: one step per action.
LEMMA CounterNext == CounterInv /\ [SerialNext]_vars => CounterInv'
<1> SUFFICES ASSUME CounterInv, [SerialNext]_vars PROVE CounterInv'
  OBVIOUS
<1>1. [Next]_vars
  BY DEF SerialNext
<1>2. KeyInv' /\ LockInv /\ TypeInv /\ TypeOK /\ TypeInv'
  BY <1>1, KeyNext DEF CounterInv, KeyInv, LockInv, TypeInv
<1>3. Serial'
  BY DEF CounterInv, SerialNext, Serial, SerialChanges, vars, session
<1>4. CASE UNCHANGED vars
  BY <1>2, <1>3, <1>4 DEF CounterInv, CounterMatchesBookings, RowsCurrent,
       Changing, vars, tables, session
<1>5. ASSUME NEW e \in Events, NEW n \in 1..MaxCapacity, CreateEvent(e, n)
      PROVE  CounterInv'
  <2>1. total[e] = 0 /\ Sold(bookings, e) = 0
    <3>1. available[e] = total[e] - Sold(bookings, e) /\ available[e] \in Nat
      BY <1>2 DEF CounterInv, CounterMatchesBookings, TypeOK
    <3>2. Sold(bookings, e) \in Nat
      BY <1>2, TypedTable, SoldIsNat DEF TypeOK
    <3> QED
      BY <1>5, <3>1, <3>2 DEF CreateEvent
  <2>2. CounterMatchesBookings'
    BY <1>2, <1>5, <2>1 DEF CounterInv, CounterMatchesBookings, CreateEvent, TypeOK
  <2>3. RowsCurrent'
    BY <1>5 DEF CounterInv, RowsCurrent, Changing, CreateEvent, session
  <2> QED
    BY <1>2, <1>3, <2>2, <2>3 DEF CounterInv
<1>6. ASSUME NEW w \in Workers, NEW r \in Requests, Receive(w, r)
      PROVE  CounterInv'
  <2>1. OthersKept(w) /\ UNCHANGED tables /\ pc'[w] = "auth"
    BY <1>2, <1>6 DEF TypeOK, OthersKept, Receive, Goto, tables
  <2> QED
    BY <1>2, <1>3, <2>1, QuietKeepsCounter DEF Changing
<1>7. ASSUME NEW w \in Workers, NEW a, Abort(w, a)
      PROVE  CounterInv'
  <2>1. OthersKept(w) /\ UNCHANGED tables /\ pc'[w] = "done"
    BY <1>2, <1>7 DEF TypeOK, OthersKept, Abort, Goto, tables, session
  <2> QED
    BY <1>2, <1>3, <2>1, QuietKeepsCounter DEF Changing
<1>8. ASSUME NEW w \in Workers,
             FindReplay(w) \/ Refind(w) \/ Refresh(w) \/ Respond(w)
      PROVE  CounterInv'
  <2>1. /\ OthersKept(w) /\ UNCHANGED tables
        /\ Changing(w)' => HasKey(w) /\ req' = req
    BY <1>2, <1>8 DEF TypeOK, TypeInv, SessionOK, OthersKept, Changing, Goto,
         tables, session, FindReplay, Refind, Refresh, Respond, Replay
  <2>2. ~Changing(w)'
    BY <2>1 DEF Changing, HasKey
  <2> QED
    BY <1>2, <1>3, <2>1, <2>2, QuietKeepsCounter
<1>9. ASSUME NEW w \in Workers, Authenticate(w)
      PROVE  CounterInv'
  <2>1. /\ OthersKept(w) /\ UNCHANGED tables /\ req' = req
        /\ req[w].op # "create" => pc'[w] = "load"
    BY <1>2, <1>9 DEF TypeOK, OthersKept, Authenticate, Goto, tables, session
  <2>2. ~Changing(w)'
    BY <2>1 DEF Changing
  <2> QED
    BY <1>2, <1>3, <2>1, <2>2, QuietKeepsCounter
<1>10. ASSUME NEW w \in Workers, LoadBooking(w), ~ \E a : Abort(w, a)
       PROVE  CounterInv'
  <2>1. /\ OthersKept(w) /\ UNCHANGED tables
        /\ row' = [row EXCEPT ![w] = bookings[req[w].booking]]
        /\ booking' = [booking EXCEPT ![w] = req[w].booking]
    BY <1>2, <1>10 DEF TypeOK, OthersKept, LoadBooking, Goto, tables
  <2>2. row'[w] = bookings[booking'[w]]
    BY <1>2, <2>1 DEF TypeOK
  <2> QED
    BY <1>2, <1>3, <2>1, <2>2, QuietKeepsCounter
<1>11. ASSUME NEW w \in Workers, LockEvent(w) \/ Flush(w), ~ \E a : Abort(w, a)
       PROVE  CounterInv'
  <2>1. /\ OthersKept(w) /\ UNCHANGED tables
        /\ row' = row /\ booking' = booking /\ req' = req
        /\ pc[w] \in {"lock", "flush"}
    BY <1>2, <1>11 DEF TypeOK, OthersKept, LockEvent, Flush, Goto, tables, session
  <2>2. Changing(w)' => row'[w] = bookings[booking'[w]]
    BY <2>1 DEF CounterInv, RowsCurrent, Changing
  <2> QED
    BY <1>2, <1>3, <2>1, <2>2, QuietKeepsCounter
<1>12. ASSUME NEW w \in Workers, CommitCreate(w)
       PROVE  CounterInv'
  <2>1. Commit(w) /\ OthersKept(w) /\ SoldMovesWith(w) /\ bookings' \in Seq(Booking)
        /\ \A i \in 1..Len(bookings) : bookings'[i] = bookings[i]
    BY <1>2, <1>12, CommitTouchesOwn, CreateMovesSold, CommitInserts
  <2>2. pc'[w] = "refresh"
    BY <1>2, <2>1 DEF Commit, Goto, TypeOK
  <2>3. CounterMatchesBookings'
    BY <1>2, <2>1, CommitKeepsCounter DEF CounterInv, TypeInv
  <2>4. RowsCurrent'
    BY <1>2, <2>1, <2>2, RowsStay DEF CounterInv, Changing
  <2> QED
    BY <1>2, <1>3, <2>3, <2>4 DEF CounterInv
<1>13. ASSUME NEW w \in Workers, CommitModify(w) \/ CommitCancel(w)
       PROVE  CounterInv'
  <2>1. row[w] = bookings[booking[w]]
    BY <1>2, <1>13, CommitUpdates DEF CounterInv, RowsCurrent, Changing, Commit
  <2>2. Commit(w) /\ SoldMovesWith(w)
    BY <1>2, <1>13, <2>1, CommitTouchesOwn, UpdateMovesSold
  <2>3. CounterMatchesBookings'
    BY <1>2, <2>2, CommitKeepsCounter DEF CounterInv, TypeInv
  <2>4. RowsCurrent'
    BY <1>2, <1>13, UpdateKeepsRows DEF CounterInv
  <2> QED
    BY <1>2, <1>3, <2>3, <2>4 DEF CounterInv
<1> QED
  BY <1>1, <1>4, <1>5, <1>6, <1>7, <1>8, <1>9, <1>10, <1>11, <1>12, <1>13
     DEF Next, Step, Fail

\* The denormalised counter is what the live bookings leave of the capacity
\* (models.py:58-61), whatever the number of requests in flight.
THEOREM CounterIsExact == SerialSpec => []CounterMatchesBookings
<1>1. SerialSpec => []CounterInv
  BY CounterInit, CounterNext, PTL DEF SerialSpec
<1>2. CounterInv => CounterMatchesBookings
  BY DEF CounterInv
<1> QED
  BY <1>1, <1>2, PTL

\* No event sells more seats than it has (README.md:4).
THEOREM NothingOversold == SerialSpec => []NoOversell
<1>1. SerialSpec => []CounterInv
  BY CounterInit, CounterNext, PTL DEF SerialSpec
<1>2. ASSUME CounterInv PROVE NoOversell
  <2> SUFFICES ASSUME NEW e \in Events PROVE Sold(bookings, e) <= total[e]
    BY DEF NoOversell
  <2>1. TypeOK
    BY <1>2 DEF CounterInv, KeyInv, LockInv, TypeInv
  <2>2. Sold(bookings, e) \in Nat /\ available[e] \in Nat /\ total[e] \in Int
    BY <2>1, TypedTable, SoldIsNat, BoundsAssumption DEF TypeOK
  <2>3. available[e] = total[e] - Sold(bookings, e)
    BY <1>2 DEF CounterInv, CounterMatchesBookings
  <2> QED
    BY <2>2, <2>3
<1> QED
  BY <1>1, <1>2, PTL

\* No handler ever asks the database for a counter outside 0..total_seats: the
\* CHECK constraints never refuse a flush (models.py:66-71).
THEOREM ChecksIdle == SerialSpec => []ChecksNeverFire
<1>1. SerialSpec => []CounterInv
  BY CounterInit, CounterNext, PTL DEF SerialSpec
<1>2. ASSUME CounterInv PROVE ChecksNeverFire
  <2> SUFFICES ASSUME NEW w \in Workers, pc[w] = "flush"
               PROVE  ChecksHold(w)
    BY DEF ChecksNeverFire
  <2> DEFINE e == TargetEvent(w)
  <2>1. TypeInv /\ TypeOK /\ SessionOK(w) /\ LockOK(w)
        /\ req[w] \in Requests \cup {NoReq}
    BY <1>2 DEF CounterInv, KeyInv, LockInv, TypeInv, TypeOK
  <2>2. e \in Events /\ Delta(w) \in Int /\ req[w].op \in {"create", "modify", "cancel"}
    BY <2>1, Targets
  <2>3. /\ seen[w] = available[e] /\ Delta(w) <= seen[w]
        /\ available[e] \in Nat /\ total[e] \in Nat
    BY <2>1, <2>2, BoundsAssumption DEF SessionOK, LockOK, TypeOK
  <2>4. available[e] = total[e] - Sold(bookings, e) /\ Sold(bookings, e) \in Nat
    BY <1>2, <2>1, <2>2, TypedTable, SoldIsNat DEF CounterInv, CounterMatchesBookings, TypeOK
  <2>5. Delta(w) + Sold(bookings, e) >= 0
    <3>1. CASE req[w].op = "create"
      BY <2>1, <2>4, <3>1, RequestFields, BoundsAssumption DEF Delta
    <3>2. CASE req[w].op \in {"modify", "cancel"}
      <4>1. /\ row[w] \in Booking /\ ~Cancelled(row[w])
            /\ booking[w] \in 1..Len(bookings) /\ row[w] = bookings[booking[w]]
        BY <1>2, <2>1, <3>2 DEF SessionOK, CounterInv, RowsCurrent, Changing
      <4>2. ActiveSeats(row[w], e) = row[w].seats
        BY <3>2, <4>1 DEF ActiveSeats, TargetEvent
      <4>3. row[w].seats <= Sold(bookings, e)
        <5>1. Table(bookings, e)
          BY <2>1, TypedTable DEF TypeOK
        <5>2. ActiveSeats(bookings[booking[w]], e) <= Sold(bookings, e)
          BY <4>1, <5>1, SoldCovers
        <5> QED
          BY <4>1, <4>2, <5>2
      <4>4. row[w].seats \in Nat /\ Delta(w) >= 0 - row[w].seats
        BY <2>1, <3>2, <4>1, RequestFields, BoundsAssumption DEF Delta, Booking
      <4> QED
        BY <2>2, <2>4, <4>3, <4>4
    <3> QED
      BY <2>2, <3>1, <3>2
  <2> QED
    BY <2>2, <2>3, <2>4, <2>5 DEF ChecksHold, NewAvailable
<1> QED
  BY <1>1, <1>2, PTL

\* A cancellation is the last thing that happens to a booking: no later commit
\* writes the row (booking.py:119-120, 157-160).
THEOREM CancelledStays == SerialSpec => CancelledIsFinal
<1>1. SerialSpec => []CounterInv
  BY CounterInit, CounterNext, PTL DEF SerialSpec
<1>2. ASSUME CounterInv, [SerialNext]_vars
      PROVE  [\A i \in 1..Len(bookings) :
                Cancelled(bookings[i]) => bookings'[i] = bookings[i]]_vars
  <2> SUFFICES ASSUME NEW i \in 1..Len(bookings), Cancelled(bookings[i])
               PROVE  bookings'[i] = bookings[i]
    OBVIOUS
  <2>1. TypeInv /\ TypeOK /\ RowsCurrent
    BY <1>2 DEF CounterInv, KeyInv, LockInv, TypeInv
  <2>2. CASE bookings' = bookings
    BY <2>2
  <2>3. ASSUME NEW w \in Workers, CommitCreate(w)
        PROVE  bookings'[i] = bookings[i]
    BY <2>1, <2>3, CommitInserts
  <2>4. ASSUME NEW w \in Workers, CommitModify(w) \/ CommitCancel(w)
        PROVE  bookings'[i] = bookings[i]
    <3>1. booking[w] # i
      BY <2>1, <2>4, CommitUpdates, UpdateWrites DEF RowsCurrent, Changing, Commit
    <3>2. PICK b \in Booking : bookings' = [bookings EXCEPT ![booking[w]] = b]
      BY <2>1, <2>4, CommitUpdates
    <3> QED
      BY <2>1, <2>4, <3>1, <3>2, CommitUpdates, ExceptSeq DEF TypeOK
  <2> QED
    BY <1>2, <2>2, <2>3, <2>4 DEF SerialNext, Next, Step, CreateEvent, Receive,
       Authenticate, FindReplay, LoadBooking, LockEvent, Flush, Refind, Refresh,
       Fail, Respond, Replay, Abort, tables, vars
<1> QED
  BY <1>1, <1>2, PTL DEF SerialSpec, CancelledIsFinal

-----------------------------------------------------------------------------
(* Without the client promise: whatever is in flight together.             *)

DriftInv == KeyInv /\ AnswerInv

\* Every worker that steps keeps the invariants of keys and answers.
LEMMA DriftInvHolds == (Init => DriftInv) /\ (DriftInv /\ [Next]_vars => DriftInv')
<1>1. Init => AnswerInv
  BY TypeInit DEF Init, AnswerInv, AnswerOK
<1> QED
  BY <1>1, KeyInit, KeyNext, AnswerNext DEF DriftInv

\* A change writes a row of its own event, so the seats sold of the other
\* events stay, however stale the row it decided on.
LEMMA UpdateKeepsOtherEvents ==
  ASSUME DriftInv, NEW w \in Workers, CommitModify(w) \/ CommitCancel(w),
         NEW e \in Events, e # TargetEvent(w)
  PROVE  /\ bookings' \in Seq(Booking)
         /\ Sold(bookings', e) = Sold(bookings, e)
<1> DEFINE i == booking[w]
<1>1. TypeInv /\ TypeOK /\ AnswerOK(w)
  BY DEF DriftInv, AnswerInv, TypeInv
<1>2. /\ req[w].op \in {"modify", "cancel"} /\ pc[w] = "commit"
      /\ i \in 1..Len(bookings)
  BY <1>1, CommitUpdates DEF Commit
<1>3. PICK b \in Booking : /\ bookings' = [bookings EXCEPT ![i] = b]
                           /\ b.event = bookings[i].event
  BY <1>1, CommitUpdates
<1>4. bookings[i].event = TargetEvent(w)
  BY <1>1, <1>2 DEF AnswerOK, TargetEvent
<1>5. /\ bookings' \in Seq(Booking)
      /\ Sold(bookings', e) =
           Sold(bookings, e) + (ActiveSeats(b, e) - ActiveSeats(bookings[i], e))
  <2>1. bookings \in Seq(Booking) /\ i \in 1..Len(bookings)
    BY <1>1, <1>2 DEF TypeOK
  <2>2. Sold([bookings EXCEPT ![i] = b], e) = Sold(bookings, e) +
          (ActiveSeats(b, e) - ActiveSeats(bookings[i], e))
    BY <2>1, RowMovesSold
  <2> QED
    BY <1>3, <2>1, <2>2, ExceptSeq
<1>6. ActiveSeats(b, e) = 0 /\ ActiveSeats(bookings[i], e) = 0
  BY <1>3, <1>4 DEF ActiveSeats
<1>7. Sold(bookings, e) \in Nat
  BY <1>1, CounterTypes
<1> QED
  BY <1>5, <1>6, <1>7

\* A change commits, of a booking of e that it decided on from a stale row.
StaleCommit(e) ==
  \E w \in Workers :
    StaleChange(w) /\ TargetEvent(w) = e /\ (CommitModify(w) \/ CommitCancel(w))

\* Every step but that one leaves the counter of e as far from the bookings of
\* e as it was: one step per action that writes a table.
LEMMA DriftStep ==
  ASSUME DriftInv, [Next]_vars, NEW e \in Events, ~StaleCommit(e)
  PROVE  Drift(e)' = Drift(e)
<1>1. TypeInv /\ TypeOK /\ KeyInv /\ LockInv /\ TypeOK'
  BY DriftInvHolds DEF DriftInv, KeyInv, LockInv, TypeInv
<1>2. CASE UNCHANGED tables
  BY <1>2 DEF tables, Drift
<1>3. ASSUME NEW x \in Events, NEW n \in 1..MaxCapacity, CreateEvent(x, n)
      PROVE  Drift(e)' = Drift(e)
  <2>1. CASE x # e
    BY <1>1, <1>3, <2>1 DEF CreateEvent, Drift, TypeOK
  <2>2. CASE x = e
    <3>1. total[e] = 0 /\ available[e] = 0
      BY <1>1, <1>3, <2>2, CounterTypes DEF CreateEvent, KeyInv, WithinCapacity
    <3>2. total'[e] = n /\ available'[e] = n /\ bookings' = bookings /\ n \in Nat
      BY <1>1, <1>3, <2>2, BoundsAssumption DEF CreateEvent, TypeOK
    <3> QED
      BY <1>1, <3>1, <3>2, CounterTypes DEF Drift
  <2> QED
    BY <2>1, <2>2
<1>4. ASSUME NEW w \in Workers, CommitCreate(w)
      PROVE  Drift(e)' = Drift(e)
  BY <1>1, <1>4, CommitInserts, CreateMovesSold, CommitKeepsDrift DEF SoldMovesWith
<1>5. ASSUME NEW w \in Workers, CommitModify(w) \/ CommitCancel(w)
      PROVE  Drift(e)' = Drift(e)
  <2>1. Commit(w) /\ pc[w] = "commit" /\ req[w].op \in {"modify", "cancel"}
    BY <1>1, <1>5, CommitUpdates DEF Commit
  <2>2. CASE e # TargetEvent(w)
    <3>1. bookings' \in Seq(Booking) /\ Sold(bookings', e) = Sold(bookings, e)
      BY <1>5, <2>2, UpdateKeepsOtherEvents
    <3>2. Sold(bookings', e) =
            Sold(bookings, e) + (IF e = TargetEvent(w) THEN Delta(w) ELSE 0)
      BY <1>1, <2>2, <3>1, CounterTypes
    <3> QED
      BY <1>1, <2>1, <3>1, <3>2, CommitKeepsDrift
  <2>3. CASE e = TargetEvent(w)
    <3>1. row[w] = bookings[booking[w]]
      BY <1>5, <2>1, <2>3 DEF StaleCommit, StaleChange
    <3>2. SoldMovesWith(w)
      BY <1>1, <1>5, <3>1, UpdateMovesSold
    <3> QED
      BY <1>1, <2>1, <3>2, CommitKeepsDrift DEF SoldMovesWith, TypeOK
  <2> QED
    BY <2>2, <2>3
<1> QED
  BY <1>2, <1>3, <1>4, <1>5 DEF Next, Step, Receive, Authenticate, FindReplay,
     LoadBooking, LockEvent, Flush, Refind, Refresh, Fail, Respond, Replay,
     Abort, vars, tables

\* Whatever clients send together, on either engine and whatever was broken
\* before: the counter and the bookings of an event come apart in no step but
\* the commit of a change of one of its own bookings that was loaded before the
\* lock and is stale by now (booking.py:115, 153).
THEOREM DriftIsStale == Spec => OnlyStaleChangesDrift
<1>1. Spec => []DriftInv
  BY DriftInvHolds, PTL DEF Spec
<1>2. ASSUME DriftInv, [Next]_vars
      PROVE  [\A e \in Events : Drift(e)' # Drift(e) =>
                \E w \in Workers : StaleChange(w) /\ TargetEvent(w) = e
                                   /\ pc'[w] # "commit"]_vars
  <2> SUFFICES ASSUME NEW e \in Events, Drift(e)' # Drift(e)
               PROVE  \E w \in Workers : StaleChange(w) /\ TargetEvent(w) = e
                                         /\ pc'[w] # "commit"
    OBVIOUS
  <2>1. PICK w \in Workers :
          StaleChange(w) /\ TargetEvent(w) = e /\ (CommitModify(w) \/ CommitCancel(w))
    BY <1>2, DriftStep DEF StaleCommit
  <2>2. pc'[w] = "refresh"
    BY <1>2, <2>1 DEF CommitModify, CommitCancel, Commit, Goto, DriftInv, KeyInv,
         LockInv, TypeInv, TypeOK
  <2> QED
    BY <2>1, <2>2
<1> QED
  BY <1>1, <1>2, PTL DEF Spec, OnlyStaleChangesDrift

\* So events do not disturb each other: as long as no stale change of one of
\* its own bookings commits, an event's counter is exact and it is not oversold,
\* whatever races and drifts happen at the other events (booking.py:50-57).
THEOREM EventsAreIsolated ==
  ASSUME NEW e \in Events
  PROVE  Spec /\ [][~StaleCommit(e)]_vars =>
           [](/\ available[e] = total[e] - Sold(bookings, e)
              /\ Sold(bookings, e) <= total[e])
<1> DEFINE Exact == Drift(e) = 0
<1>1. Init => Exact
  BY SoldOfEmpty DEF Init, Drift
<1>2. DriftInv /\ Exact /\ [Next]_vars /\ [~StaleCommit(e)]_vars => Exact'
  BY DriftStep DEF Drift, StaleCommit, vars, tables
<1>3. ASSUME DriftInv, Exact
      PROVE  /\ available[e] = total[e] - Sold(bookings, e)
             /\ Sold(bookings, e) <= total[e]
  BY <1>3, CounterTypes DEF DriftInv, KeyInv, LockInv, TypeInv, Drift
<1> QED
  BY <1>1, <1>2, <1>3, DriftInvHolds, PTL DEF Spec

\* Who only books has nothing stale to commit.
LEMMA BookingsAreFresh ==
  ASSUME Requests \subseteq CreateReq, TypeOK, NEW w \in Workers
  PROVE  ~StaleChange(w)
<1>1. req[w] \in CreateReq \cup {NoReq}
  BY DEF TypeOK
<1>2. req[w].op \in {"create", "none"}
  BY <1>1 DEF CreateReq, NoReq
<1> QED
  BY <1>2 DEF StaleChange

\* Where clients only book, no event is ever oversold, on either engine and
\* however many book at the same time (README.md:4): the row lock, or SQLite's,
\* is enough for that, and takes no promise of the clients.
THEOREM BookingsNeverOversell ==
  ASSUME Requests \subseteq CreateReq
  PROVE  Spec => []NoOversell
<1> DEFINE Exact == \A e \in Events : Drift(e) = 0
<1>1. Init => Exact
  BY SoldOfEmpty DEF Init, Drift
<1>2. ASSUME DriftInv, Exact, [Next]_vars  PROVE Exact'
  <2>1. ASSUME NEW w \in Workers  PROVE ~StaleChange(w)
    BY <1>2, BookingsAreFresh DEF DriftInv, KeyInv, LockInv, TypeInv
  <2> QED
    BY <1>2, <2>1, DriftStep DEF StaleCommit
<1>3. ASSUME DriftInv, Exact  PROVE NoOversell
  <2> SUFFICES ASSUME NEW e \in Events PROVE Sold(bookings, e) <= total[e]
    BY DEF NoOversell
  <2> QED
    BY <1>3, CounterTypes DEF DriftInv, KeyInv, LockInv, TypeInv, Drift
<1> QED
  BY <1>1, <1>2, <1>3, DriftInvHolds, PTL DEF Spec

\* A cancelled booking, too, is written by no step but a change of it that was
\* judged on the row as it was before the cancellation (booking.py:119, 157):
\* without one in flight a cancellation is final, on either engine and whatever
\* happened before.
THEOREM RevivalIsStale == Spec => OnlyStaleChangesRevive
<1>1. Spec => []DriftInv
  BY DriftInvHolds, PTL DEF Spec
<1>2. ASSUME DriftInv, [Next]_vars
      PROVE  [\A i \in 1..Len(bookings) :
                Cancelled(bookings[i]) /\ bookings'[i] # bookings[i] =>
                  \E w \in Workers : StaleChange(w) /\ booking[w] = i
                                     /\ pc'[w] # "commit"]_vars
  <2> SUFFICES ASSUME NEW i \in 1..Len(bookings), Cancelled(bookings[i]),
                      bookings'[i] # bookings[i]
               PROVE  \E w \in Workers : StaleChange(w) /\ booking[w] = i
                                         /\ pc'[w] # "commit"
    OBVIOUS
  <2>1. TypeInv /\ TypeOK
    BY <1>2 DEF DriftInv, KeyInv, LockInv, TypeInv
  <2>2. ASSUME NEW w \in Workers, CommitCreate(w)  PROVE FALSE
    BY <2>1, <2>2, CommitInserts
  <2>3. ASSUME NEW w \in Workers, CommitModify(w) \/ CommitCancel(w)
        PROVE  StaleChange(w) /\ booking[w] = i /\ pc'[w] # "commit"
    <3>1. /\ Commit(w) /\ pc[w] = "commit" /\ req[w].op \in {"modify", "cancel"}
          /\ booking[w] \in 1..Len(bookings)
      BY <2>1, <2>3, CommitUpdates DEF Commit
    <3>2. booking[w] = i
      <4>1. PICK b \in Booking : bookings' = [bookings EXCEPT ![booking[w]] = b]
        BY <2>1, <2>3, CommitUpdates
      <4> QED
        BY <2>1, <3>1, <4>1, ExceptSeq DEF TypeOK
    <3>3. ~Cancelled(row[w])
      BY <2>1, <3>1 DEF TypeInv, SessionOK
    <3>4. pc'[w] = "refresh"
      BY <2>1, <3>1 DEF Commit, Goto, TypeOK
    <3> QED
      BY <3>1, <3>2, <3>3, <3>4 DEF StaleChange
  <2>4. CASE bookings' = bookings
    BY <2>4
  <2> QED
    BY <1>2, <2>2, <2>3, <2>4 DEF Next, Step, CreateEvent, Receive,
       Authenticate, FindReplay, LoadBooking, LockEvent, Flush, Refind, Refresh,
       Fail, Respond, Replay, Abort, tables, vars
<1> QED
  BY <1>1, <1>2, PTL DEF Spec, OnlyStaleChangesRevive

=============================================================================
