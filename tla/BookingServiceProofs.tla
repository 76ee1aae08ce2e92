------------------------ MODULE BookingServiceProofs ------------------------
(***************************************************************************)
(* What holds of BookingService for any number of workers, users, events,  *)
(* keys and seats, on either engine.                                       *)
(***************************************************************************)
EXTENDS BookingService, SequenceTheorems, TLAPS

\* What a request's kind says of its fields.
LEMMA RequestFields ==
  ASSUME NEW r \in Requests \cup {NoReq}
  PROVE  /\ r.op \in {"create", "modify", "cancel", "none"}
         /\ r.op = "none" <=> r = NoReq
         /\ r.op # "none" => r \in Requests /\ r.user \in Users
         /\ r.op = "create" => r.event \in Events /\ r.key \in HeaderValues
         /\ r.op \in {"create", "modify"} => r.seats \in 1..MaxSeats
         /\ r.op \in {"modify", "cancel"} => r.booking \in 1..MaxBookings
<1>1. CASE r = NoReq
  BY <1>1, RequestsAssumption DEF NoReq, CreateReq, ModifyReq, CancelReq
<1>2. CASE r \in CreateReq
  BY <1>2, RequestsAssumption DEF NoReq, CreateReq
<1>3. CASE r \in ModifyReq
  BY <1>3, RequestsAssumption DEF NoReq, ModifyReq
<1>4. CASE r \in CancelReq
  BY <1>4, RequestsAssumption DEF NoReq, CancelReq
<1> QED
  BY <1>1, <1>2, <1>3, <1>4, RequestsAssumption

\* What a session holds at each place of its handler: the strengthening that
\* makes the type invariant inductive.
SessionOK(w) ==
  /\ pc[w] = "idle" <=> req[w] = NoReq
  /\ pc[w] = "load" => req[w].op \in {"modify", "cancel"}
  /\ pc[w] \in {"find", "refind"} => HasKey(w)
  /\ pc[w] \in {"lock", "flush", "commit"} /\ req[w].op # "create" =>
       /\ row[w] \in Booking
       /\ ~Cancelled(row[w])
       /\ booking[w] = req[w].booking
       /\ booking[w] \in 1..Len(bookings)
  /\ pc[w] \in {"flush", "commit"} =>
       total[TargetEvent(w)] > 0 /\ Delta(w) # 0
  /\ pc[w] = "flush" => Delta(w) <= seen[w]
  /\ pc[w] = "commit" => ChecksHold(w)

TypeInv == TypeOK /\ \A w \in Workers : SessionOK(w)

\* The event a handler locks exists as an id, and what it takes is a number.
LEMMA Targets ==
  ASSUME TypeInv, NEW w \in Workers, pc[w] \in {"lock", "flush", "commit"}
  PROVE  /\ TargetEvent(w) \in Events
         /\ Delta(w) \in Int
         /\ req[w].op \in {"create", "modify", "cancel"}
<1>1. req[w] \in Requests \cup {NoReq}
  BY DEF TypeInv, TypeOK
<1>2. req[w] # NoReq
  BY DEF TypeInv, SessionOK
<1>3. CASE req[w].op = "create"
  BY <1>1, <1>3, RequestFields, BoundsAssumption DEF TargetEvent, Delta
<1>4. CASE req[w].op \in {"modify", "cancel"}
  <2>1. row[w] \in Booking
    BY <1>4 DEF TypeInv, SessionOK
  <2>2. row[w].event \in Events /\ row[w].seats \in 1..MaxSeats
    BY <2>1 DEF Booking
  <2>3. req[w].op = "modify" => req[w].seats \in 1..MaxSeats
    BY <1>1, RequestFields
  <2> QED
    BY <1>4, <2>2, <2>3, BoundsAssumption DEF TargetEvent, Delta
<1> QED
  BY <1>1, <1>2, <1>3, <1>4, RequestFields

\* The loaded columns and the new ones make a row again.
LEMMA RowUpdates ==
  ASSUME NEW b \in Booking, NEW n \in 1..MaxSeats, NEW s \in Status
  PROVE  /\ Amended(b, n, s) \in Booking
         /\ Amended(b, b.seats, s) \in Booking
BY DEF Booking, Amended

\* A step of one worker leaves the session of another one as it was.
LEMMA Bystander ==
  ASSUME TypeInv, NEW v \in Workers,
         pc'[v] = pc[v], req'[v] = req[v], row'[v] = row[v],
         booking'[v] = booking[v], seen'[v] = seen[v],
         Len(bookings') \in Nat, Len(bookings') >= Len(bookings),
         \A e \in Events : total[e] > 0 => total'[e] = total[e]
  PROVE  SessionOK(v)'
<1>1. SessionOK(v) /\ Len(bookings) \in Nat
  BY DEF TypeInv, TypeOK
<1>2. TargetEvent(v)' = TargetEvent(v) /\ Delta(v)' = Delta(v) /\ HasKey(v)' = HasKey(v)
  BY DEF TargetEvent, Delta, HasKey
<1>3. pc[v] \in {"flush", "commit"} =>
        TargetEvent(v) \in Events /\ total'[TargetEvent(v)] = total[TargetEvent(v)]
  BY <1>1, Targets DEF SessionOK
<1>4. pc[v] = "commit" => ChecksHold(v)' = ChecksHold(v)
  BY <1>2, <1>3 DEF ChecksHold, NewAvailable
<1> QED
  BY <1>1, <1>2, <1>3, <1>4 DEF SessionOK

\* What a step of w may touch outside the tables, and how the tables move.
OthersKept(w) ==
  /\ \A v \in Workers \ {w} :
       /\ pc'[v] = pc[v] /\ req'[v] = req[v] /\ row'[v] = row[v]
       /\ booking'[v] = booking[v] /\ seen'[v] = seen[v]
  /\ \A e \in Events : total[e] > 0 => total'[e] = total[e]
  /\ Len(bookings') >= Len(bookings)

\* What is left to show of a worker's step: the types, and its own session.
LEMMA StepKeepsType ==
  ASSUME TypeInv, NEW w \in Workers, OthersKept(w), TypeOK', SessionOK(w)'
  PROVE  TypeInv'
<1>1. Len(bookings') \in Nat
  BY DEF TypeOK
<1>2. ASSUME NEW v \in Workers \ {w}  PROVE SessionOK(v)'
  BY <1>1, <1>2, Bystander DEF OthersKept
<1> QED
  BY <1>2 DEF TypeInv

\* Ending a transaction leaves every lock with a holder or with nobody.
LEMMA ReleaseType ==
  ASSUME TypeOK, NEW w \in Workers, Release(w)
  PROVE  /\ rowLock' \in [Events -> Workers \cup {Nobody}]
         /\ dbLock' \in Workers \cup {Nobody}
BY DEF TypeOK, Release

\* An exception changes the answer and the locks only.
LEMMA AbortKeepsType ==
  ASSUME TypeInv, NEW w \in Workers, pc[w] # "idle",
         NEW a \in Replies, Abort(w, a)
  PROVE  TypeInv'
<1>1. TypeOK /\ SessionOK(w)
  BY DEF TypeInv
<1> USE DEF Abort, Answer, Goto, tables, session
<1>2. TypeOK'
  BY <1>1, ReleaseType DEF TypeOK, Labels
<1>3. SessionOK(w)'
  BY <1>1 DEF SessionOK, TypeOK
<1>4. OthersKept(w)
  BY <1>1 DEF OthersKept, TypeOK
<1> QED
  BY <1>2, <1>3, <1>4, StepKeepsType

\* The service starts with empty tables and idle workers.
LEMMA TypeInit == Init => TypeInv
<1> SUFFICES ASSUME Init PROVE TypeInv
  OBVIOUS
<1>1. TypeOK
  BY BoundsAssumption DEF Init, TypeOK, Labels, Replies
<1>2. ASSUME NEW w \in Workers PROVE SessionOK(w)
  BY <1>2 DEF Init, SessionOK
<1> QED
  BY <1>1, <1>2 DEF TypeInv

\* One handler's statement, or the arrival of a request, keeps the invariant.
LEMMA ReceiveKeepsType ==
  ASSUME TypeInv, NEW w \in Workers, NEW r \in Requests, Receive(w, r)
  PROVE  TypeInv'
<1>1. TypeOK /\ SessionOK(w)
  BY DEF TypeInv
<1> USE DEF Receive, Goto, tables, locks
<1>2. r # NoReq
  BY RequestsAssumption DEF CreateReq, ModifyReq, CancelReq, NoReq
<1>3. TypeOK'
  BY <1>1 DEF TypeOK, Labels
<1>4. SessionOK(w)'
  BY <1>1, <1>2 DEF SessionOK, TypeOK
<1>5. OthersKept(w)
  BY <1>1 DEF OthersKept, TypeOK
<1> QED
  BY <1>3, <1>4, <1>5, StepKeepsType

\* The first statement moves the worker to a label its request allows.
LEMMA AuthenticateKeepsType ==
  ASSUME TypeInv, NEW w \in Workers, Authenticate(w)
  PROVE  TypeInv'
<1>1. TypeOK /\ SessionOK(w) /\ req[w] \in Requests \cup {NoReq}
  BY DEF TypeInv, TypeOK
<1> USE DEF Authenticate, Begin, Goto, tables, session
<1>2. req[w].op \in {"create", "modify", "cancel"}
  BY <1>1, RequestFields DEF SessionOK
<1>3. TypeOK'
  BY <1>1 DEF TypeOK, Labels
<1>4. SessionOK(w)'
  BY <1>1, <1>2 DEF SessionOK, TypeOK, HasKey
<1>5. OthersKept(w)
  BY <1>1 DEF OthersKept, TypeOK
<1> QED
  BY <1>3, <1>4, <1>5, StepKeepsType

\* A replay is a row of the table, found by a request that carries a key.
LEMMA ReplayKeepsType ==
  ASSUME TypeInv, NEW w \in Workers, pc[w] \in {"find", "refind"}, Replay(w),
         rowLock' = rowLock, dbLock' \in Workers \cup {Nobody}
  PROVE  TypeInv'
<1>1. TypeOK /\ SessionOK(w)
  BY DEF TypeInv
<1> USE DEF Replay, Answer, Goto, tables
<1>2. PICK i \in 1..Len(bookings) : booking' = [booking EXCEPT ![w] = i]
  BY DEF OwnKeyedRows, KeyedRows
<1>3. TypeOK'
  BY <1>1, <1>2 DEF TypeOK, Labels, Replies
<1>4. SessionOK(w)'
  BY <1>1 DEF SessionOK, TypeOK
<1>5. OthersKept(w)
  BY <1>1, <1>2 DEF OthersKept, TypeOK
<1> QED
  BY <1>3, <1>4, <1>5, StepKeepsType

\* The fast path ends with a row of the table or goes on without one.
LEMMA FindReplayKeepsType ==
  ASSUME TypeInv, NEW w \in Workers, FindReplay(w)
  PROVE  TypeInv'
<1>1. TypeOK /\ SessionOK(w)
  BY DEF TypeInv
<1> USE DEF FindReplay, locks
<1>2. CASE Replay(w)
  BY <1>1, <1>2, ReplayKeepsType DEF TypeOK
<1>3. CASE ~Replay(w)
  <2> USE <1>3 DEF Goto, tables, session
  <2>1. TypeOK'
    BY <1>1 DEF TypeOK, Labels
  <2>2. SessionOK(w)'
    BY <1>1 DEF SessionOK, TypeOK, HasKey
  <2>3. OthersKept(w)
    BY <1>1 DEF OthersKept, TypeOK
  <2> QED
    BY <2>1, <2>2, <2>3, StepKeepsType
<1> QED
  BY <1>2, <1>3

\* So does the second lookup.
LEMMA RefindKeepsType ==
  ASSUME TypeInv, NEW w \in Workers, Refind(w)
  PROVE  TypeInv'
<1>1. TypeOK /\ SessionOK(w)
  BY DEF TypeInv
<1>2. rowLock' = rowLock /\ dbLock' \in Workers \cup {Nobody}
  BY DEF Refind, Begin
<1> USE DEF Refind
<1>3. CASE Replay(w)
  BY <1>2, <1>3, ReplayKeepsType
<1>4. CASE ~Replay(w)
  <2> USE <1>4 DEF Goto, Answer, tables, session
  <2>1. TypeOK'
    BY <1>1, <1>2 DEF TypeOK, Labels, Replies
  <2>2. SessionOK(w)'
    BY <1>1 DEF SessionOK, TypeOK
  <2>3. OthersKept(w)
    BY <1>1 DEF OthersKept, TypeOK
  <2> QED
    BY <2>1, <2>2, <2>3, StepKeepsType
<1> QED
  BY <1>3, <1>4

\* The row loaded is one of the table, and it is not cancelled.
LEMMA LoadBookingKeepsType ==
  ASSUME TypeInv, NEW w \in Workers, LoadBooking(w)
  PROVE  TypeInv'
<1>1. TypeOK /\ SessionOK(w) /\ req[w] \in Requests \cup {NoReq}
  BY DEF TypeInv, TypeOK
<1> DEFINE i == req[w].booking
           refusal == Refusal(w, i)
<1>2. pc[w] = "load" /\ req[w].op \in {"modify", "cancel"}
  BY <1>1 DEF LoadBooking, SessionOK
<1>3. i \in 1..MaxBookings
  BY <1>1, <1>2, RequestFields
<1>4. CASE Abort(w, refusal)
  BY <1>2, <1>4, AbortKeepsType DEF Refusal, Replies
<1>5. CASE ~Abort(w, refusal)
  <2>1. /\ refusal = "none"
        /\ row' = [row EXCEPT ![w] = bookings[i]]
        /\ booking' = [booking EXCEPT ![w] = i]
        /\ Goto(w, "lock")
        /\ UNCHANGED <<tables, req, seen, reply, locks>>
    BY <1>5 DEF LoadBooking
  <2>2. i <= Len(bookings) /\ ~Cancelled(bookings[i])
    BY <1>3, <2>1 DEF Refusal, TypeOK
  <2>3. i \in 1..Len(bookings) /\ bookings[i] \in Booking /\ Len(bookings) \in Nat
    BY <1>1, <1>3, <2>2, BoundsAssumption DEF TypeOK
  <2> USE <2>1 DEF Goto, tables, locks
  <2>4. TypeOK'
    BY <1>1, <2>3 DEF TypeOK, Labels
  <2>5. SessionOK(w)'
    BY <1>1, <1>2, <2>2, <2>3 DEF SessionOK, TypeOK
  <2>6. OthersKept(w)
    BY <1>1, <2>3 DEF OthersKept, TypeOK
  <2> QED
    BY <2>4, <2>5, <2>6, StepKeepsType
<1> QED
  BY <1>4, <1>5

\* Under the lock the worker remembers a number of seats that covers its own.
LEMMA LockEventKeepsType ==
  ASSUME TypeInv, NEW w \in Workers, LockEvent(w)
  PROVE  TypeInv'
<1>1. TypeOK /\ SessionOK(w)
  BY DEF TypeInv
<1>2. pc[w] = "lock" /\ TargetEvent(w) \in Events /\ Delta(w) \in Int
  BY Targets DEF LockEvent
<1>3. CASE Abort(w, "not_found") \/ Abort(w, "insufficient_seats")
  BY <1>2, <1>3, AbortKeepsType DEF Replies
<1>4. CASE /\ Release(w) /\ Answer(w, "booking") /\ Goto(w, "refresh")
           /\ UNCHANGED <<tables, session>>
  <2> USE <1>4 DEF Answer, Goto, tables, session
  <2>1. TypeOK'
    BY <1>1, ReleaseType DEF TypeOK, Labels, Replies
  <2>2. SessionOK(w)'
    BY <1>1, <1>2 DEF SessionOK, TypeOK
  <2>3. OthersKept(w)
    BY <1>1 DEF OthersKept, TypeOK
  <2> QED
    BY <2>1, <2>2, <2>3, StepKeepsType
<1>5. CASE /\ total[TargetEvent(w)] > 0 /\ Delta(w) # 0
           /\ Enough(w) /\ HoldEvent(w)
           /\ seen' = [seen EXCEPT ![w] = available[TargetEvent(w)]]
           /\ Goto(w, "flush")
           /\ UNCHANGED <<tables, req, row, booking, reply, dbLock>>
  <2> USE <1>5 DEF Goto, tables
  <2>1. TypeOK'
    BY <1>1, <1>2 DEF TypeOK, Labels, HoldEvent
  <2>2. TargetEvent(w)' = TargetEvent(w) /\ Delta(w)' = Delta(w)
    BY DEF TargetEvent, Delta
  <2>3. SessionOK(w)'
    BY <1>1, <1>2, <2>2 DEF SessionOK, TypeOK, Enough
  <2>4. OthersKept(w)
    BY <1>1 DEF OthersKept, TypeOK
  <2> QED
    BY <2>1, <2>3, <2>4, StepKeepsType
<1> QED
  BY <1>3, <1>4, <1>5 DEF LockEvent

\* A flush that goes on has a counter within the CHECKs to write.
LEMMA FlushKeepsType ==
  ASSUME TypeInv, NEW w \in Workers, Flush(w)
  PROVE  TypeInv'
<1>1. TypeOK /\ SessionOK(w) /\ pc[w] = "flush"
  BY DEF TypeInv, Flush
<1>2. CASE Abort(w, "error")
  BY <1>1, <1>2, AbortKeepsType DEF Replies
<1>3. CASE /\ HasKey(w) /\ Release(w) /\ Goto(w, "refind")
           /\ UNCHANGED <<tables, session, reply>>
  <2> USE <1>3 DEF Goto, tables, session
  <2>1. TypeOK'
    BY <1>1, ReleaseType DEF TypeOK, Labels
  <2>2. SessionOK(w)'
    BY <1>1 DEF SessionOK, TypeOK, HasKey
  <2>3. OthersKept(w)
    BY <1>1 DEF OthersKept, TypeOK
  <2> QED
    BY <2>1, <2>2, <2>3, StepKeepsType
<1>4. CASE /\ ~Violated(w) /\ Goto(w, "commit")
           /\ UNCHANGED <<tables, session, reply, locks>>
  <2> USE <1>4 DEF Goto, tables, session, locks
  <2>1. TypeOK'
    BY <1>1 DEF TypeOK, Labels
  <2>2. /\ TargetEvent(w)' = TargetEvent(w)
        /\ Delta(w)' = Delta(w)
        /\ ChecksHold(w)' = ChecksHold(w)
    BY DEF TargetEvent, Delta, ChecksHold, NewAvailable
  <2>3. SessionOK(w)'
    BY <1>1, <2>2 DEF SessionOK, TypeOK, Violated
  <2>4. OthersKept(w)
    BY <1>1 DEF OthersKept, TypeOK
  <2> QED
    BY <2>1, <2>3, <2>4, StepKeepsType
<1> QED
  BY <1>2, <1>3, <1>4 DEF Flush

\* A commit, given that the table of bookings it leaves is one.
LEMMA CommitKeepsType ==
  ASSUME TypeInv, NEW w \in Workers, Commit(w),
         bookings' \in Seq(Booking), Len(bookings') >= Len(bookings),
         booking' \in [Workers -> 0..Len(bookings')],
         \A v \in Workers \ {w} : booking'[v] = booking[v]
  PROVE  TypeInv'
<1>1. TypeOK /\ SessionOK(w) /\ pc[w] = "commit"
  BY DEF TypeInv, Commit
<1>2. TargetEvent(w) \in Events
  BY <1>1, Targets
<1>3. NewAvailable(w) \in Nat
  BY <1>1, <1>2 DEF SessionOK, ChecksHold, TypeOK
<1> USE DEF Commit, Answer, Goto
<1>4. TypeOK'
  BY <1>1, <1>3, ReleaseType DEF TypeOK, Labels, Replies
<1>5. SessionOK(w)'
  BY <1>1 DEF SessionOK, TypeOK
<1>6. OthersKept(w)
  BY <1>1 DEF OthersKept, TypeOK
<1> QED
  BY <1>4, <1>5, <1>6, StepKeepsType

\* What the commit of a new booking does to the table: it gets one more row.
LEMMA CommitInserts ==
  ASSUME TypeInv, NEW w \in Workers, CommitCreate(w)
  PROVE  /\ Commit(w)
         /\ req[w].op = "create"
         /\ Len(bookings) \in Nat
         /\ bookings' \in Seq(Booking)
         /\ Len(bookings') = Len(bookings) + 1
         /\ \A i \in 1..Len(bookings) : bookings'[i] = bookings[i]
         /\ bookings'[Len(bookings) + 1] =
              [user |-> req[w].user, event |-> req[w].event,
               seats |-> req[w].seats, status |-> "CONFIRMED",
               key |-> req[w].key]
         /\ booking' = [booking EXCEPT ![w] = Len(bookings) + 1]
<1>1. TypeOK /\ req[w] \in Requests \cup {NoReq}
  BY DEF TypeInv, TypeOK
<1>2. Commit(w) /\ req[w].op = "create"
  BY DEF CommitCreate
<1> DEFINE b == [user |-> req[w].user, event |-> req[w].event,
                 seats |-> req[w].seats, status |-> "CONFIRMED",
                 key |-> req[w].key]
<1>3. b \in Booking
  BY <1>1, <1>2, RequestFields DEF Booking, Status
<1>4. bookings' = Append(bookings, b) /\ booking' = [booking EXCEPT ![w] = Len(bookings')]
  BY DEF CommitCreate
<1> HIDE DEF b
<1>5. /\ bookings' \in Seq(Booking)
      /\ Len(bookings') = Len(bookings) + 1
      /\ \A i \in 1..Len(bookings) : bookings'[i] = bookings[i]
      /\ bookings'[Len(bookings) + 1] = b
  BY <1>1, <1>3, <1>4, AppendProperties DEF TypeOK
<1>6. Len(bookings) \in Nat
  BY <1>1 DEF TypeOK
<1> QED
  BY <1>2, <1>4, <1>5, <1>6 DEF b

\* A commit of a new booking leaves tables of the right type.
LEMMA CommitCreateKeepsType ==
  ASSUME TypeInv, NEW w \in Workers, CommitCreate(w)
  PROVE  TypeInv'
<1>1. TypeOK /\ Len(bookings) \in Nat
  BY DEF TypeInv, TypeOK
<1>2. /\ Commit(w)
      /\ bookings' \in Seq(Booking)
      /\ Len(bookings') = Len(bookings) + 1
      /\ booking' = [booking EXCEPT ![w] = Len(bookings) + 1]
  BY CommitInserts
<1>3. /\ Len(bookings') >= Len(bookings)
      /\ booking' \in [Workers -> 0..Len(bookings')]
      /\ \A v \in Workers \ {w} : booking'[v] = booking[v]
  BY <1>1, <1>2 DEF TypeOK
<1> QED
  BY <1>2, <1>3, CommitKeepsType

\* What commits of changes and cancellations do to the table: they replace
\* the row the handler holds, and only its seats and status.
LEMMA CommitUpdates ==
  ASSUME TypeInv, NEW w \in Workers, CommitModify(w) \/ CommitCancel(w)
  PROVE  /\ Commit(w)
         /\ req[w].op \in {"modify", "cancel"}
         /\ booking[w] \in 1..Len(bookings)
         /\ booking' = booking
         /\ \E b \in Booking :
              /\ bookings' = [bookings EXCEPT ![booking[w]] = b]
              /\ b.user = bookings[booking[w]].user
              /\ b.event = bookings[booking[w]].event
              /\ b.key = bookings[booking[w]].key
<1>1. TypeOK /\ SessionOK(w) /\ req[w] \in Requests \cup {NoReq}
  BY DEF TypeInv, TypeOK
<1>2. Commit(w) /\ pc[w] = "commit" /\ req[w].op \in {"modify", "cancel"} /\ booking' = booking
  BY DEF CommitModify, CommitCancel, Commit
<1>3. booking[w] \in 1..Len(bookings) /\ bookings[booking[w]] \in Booking
  BY <1>1, <1>2 DEF SessionOK, TypeOK
<1> DEFINE c == bookings[booking[w]]
           m == IF row[w].status = "MODIFIED" THEN c.status ELSE "MODIFIED"
           d == Amended(c, req[w].seats, m)
           x == Amended(c, c.seats, "CANCELLED")
<1>4. CASE CommitModify(w)
  <2>1. req[w].seats \in 1..MaxSeats
    BY <1>1, <1>4, RequestFields DEF CommitModify
  <2>2. m \in Status
    BY <1>3 DEF Booking, Status
  <2>3. d \in Booking
    BY <1>3, <2>1, <2>2, RowUpdates
  <2>4. bookings' = [bookings EXCEPT ![booking[w]] = d]
    BY <1>4 DEF CommitModify
  <2>5. d.user = c.user /\ d.event = c.event /\ d.key = c.key
    BY DEF Amended
  <2> QED
    BY <1>2, <1>3, <2>3, <2>4, <2>5
<1>5. CASE CommitCancel(w)
  <2>1. x \in Booking
    BY <1>3, RowUpdates, BoundsAssumption DEF Status, Booking
  <2>2. bookings' = [bookings EXCEPT ![booking[w]] = x]
    BY <1>5 DEF CommitCancel
  <2>3. x.user = c.user /\ x.event = c.event /\ x.key = c.key
    BY DEF Amended
  <2> QED
    BY <1>2, <1>3, <2>1, <2>2, <2>3
<1> QED
  BY <1>4, <1>5

\* A commit of a change leaves tables of the right type.
LEMMA CommitUpdateKeepsType ==
  ASSUME TypeInv, NEW w \in Workers, CommitModify(w) \/ CommitCancel(w)
  PROVE  TypeInv'
<1>1. PICK b \in Booking : bookings' = [bookings EXCEPT ![booking[w]] = b]
  BY CommitUpdates
<1>2. TypeOK
  BY DEF TypeInv
<1>3. Commit(w) /\ booking[w] \in 1..Len(bookings) /\ booking' = booking
  BY CommitUpdates
<1>4. bookings' \in Seq(Booking) /\ Len(bookings') = Len(bookings)
  BY <1>1, <1>2, <1>3, ExceptSeq DEF TypeOK
<1>5. Len(bookings) \in Nat /\ booking' \in [Workers -> 0..Len(bookings')]
  BY <1>2, <1>3, <1>4 DEF TypeOK
<1> QED
  BY <1>3, <1>4, <1>5, CommitKeepsType

\* A refresh reads the row the handler holds.
LEMMA RefreshKeepsType ==
  ASSUME TypeInv, NEW w \in Workers, Refresh(w)
  PROVE  TypeInv'
<1>1. TypeOK /\ SessionOK(w)
  BY DEF TypeInv
<1> USE DEF Refresh, Begin, Goto, tables, session
<1>2. TypeOK'
  BY <1>1 DEF TypeOK, Labels
<1>3. SessionOK(w)'
  BY <1>1 DEF SessionOK, TypeOK
<1>4. OthersKept(w)
  BY <1>1 DEF OthersKept, TypeOK
<1> QED
  BY <1>2, <1>3, <1>4, StepKeepsType

\* A closed session is as good as new.
LEMMA RespondKeepsType ==
  ASSUME TypeInv, NEW w \in Workers, Respond(w)
  PROVE  TypeInv'
<1>1. TypeOK /\ SessionOK(w)
  BY DEF TypeInv
<1>2. Release(w)
  BY DEF Respond
<1> USE DEF Respond, Goto, Answer, tables
<1>3. TypeOK'
  BY <1>1, <1>2, ReleaseType DEF TypeOK, Labels, Replies
<1>4. SessionOK(w)'
  BY <1>1 DEF SessionOK, TypeOK
<1>5. OthersKept(w)
  BY <1>1 DEF OthersKept, TypeOK
<1> QED
  BY <1>3, <1>4, <1>5, StepKeepsType

\* A new event has all its seats available.
LEMMA CreateEventKeepsType ==
  ASSUME TypeInv, NEW e \in Events, NEW n \in 1..MaxCapacity, CreateEvent(e, n)
  PROVE  TypeInv'
<1>1. TypeOK
  BY DEF TypeInv
<1> USE DEF CreateEvent, session, locks
<1>2. TypeOK'
  BY <1>1, BoundsAssumption DEF TypeOK
<1>3. \A f \in Events : total[f] > 0 => total'[f] = total[f]
  BY <1>1 DEF TypeOK
<1>4. ASSUME NEW v \in Workers PROVE SessionOK(v)'
  BY <1>1, <1>3, <1>4, Bystander DEF TypeOK
<1> QED
  BY <1>2, <1>4 DEF TypeInv

\* Every step keeps the types: one step per action.
LEMMA TypeNext == TypeInv /\ [Next]_vars => TypeInv'
<1> SUFFICES ASSUME TypeInv, [Next]_vars PROVE TypeInv'
  OBVIOUS
<1>1. CASE UNCHANGED vars
  BY <1>1 DEF TypeInv, TypeOK, SessionOK, vars, tables, session, locks, HasKey,
              TargetEvent, Delta, ChecksHold, NewAvailable
<1>2. ASSUME NEW e \in Events, NEW n \in 1..MaxCapacity, CreateEvent(e, n)
      PROVE  TypeInv'
  BY <1>2, CreateEventKeepsType
<1>3. ASSUME NEW w \in Workers, NEW r \in Requests, Receive(w, r)
      PROVE  TypeInv'
  BY <1>3, ReceiveKeepsType
<1>4. ASSUME NEW w \in Workers, Step(w)
      PROVE  TypeInv'
  BY <1>4, AuthenticateKeepsType, FindReplayKeepsType, LoadBookingKeepsType,
     LockEventKeepsType, FlushKeepsType, CommitCreateKeepsType,
     CommitUpdateKeepsType, RefindKeepsType, RefreshKeepsType, RespondKeepsType
     DEF Step
<1>5. ASSUME NEW w \in Workers, Fail(w)
      PROVE  TypeInv'
  BY <1>5, AbortKeepsType DEF Fail, Replies
<1> QED
  BY <1>1, <1>2, <1>3, <1>4, <1>5 DEF Next

\* Every variable keeps its type, whatever the interleaving: a Booking row
\* has a valid status and 1..MaxSeats seats, and the counter of an event is
\* never negative (models.py:66-102), on both engines.
THEOREM TypeCorrect == Spec => []TypeOK
<1>1. Spec => []TypeInv
  BY TypeInit, TypeNext, PTL DEF Spec
<1>2. TypeInv => TypeOK
  BY DEF TypeInv
<1> QED
  BY <1>1, <1>2, PTL

-----------------------------------------------------------------------------
(* Mutual exclusion: who holds which lock, and that the counter a handler  *)
(* read under its lock is still the counter of the row.                    *)

LockOK(w) ==
  /\ pc[w] \in {"flush", "commit"} => seen[w] = available[TargetEvent(w)]
  /\ pc[w] \in {"flush", "commit"} /\ Engine = "postgres" =>
       rowLock[TargetEvent(w)] = w
  /\ pc[w] \in {"find", "load", "lock", "flush", "commit"} /\ Engine = "sqlite" =>
       dbLock = w
  /\ \A e \in Events :
       rowLock[e] = w => pc[w] \in {"flush", "commit"} /\ TargetEvent(w) = e
  /\ dbLock = w => /\ Engine = "sqlite"
                   /\ pc[w] \notin {"idle", "auth", "refind", "refresh"}

LockInv == TypeInv /\ \A w \in Workers : LockOK(w)

\* The locks of the other workers stay as they are.
LocksKept(w) ==
  \A v \in Workers \ {w} :
    /\ \A e \in Events : rowLock'[e] = v <=> rowLock[e] = v
    /\ dbLock' = v <=> dbLock = v

\* If the others keep their sessions and locks, the stepping worker is what is left to show.
LEMMA LockStep ==
  ASSUME LockInv, NEW w \in Workers, OthersKept(w), LocksKept(w),
         \A v \in Workers \ {w} : pc[v] \in {"flush", "commit"} =>
            available'[TargetEvent(v)] = available[TargetEvent(v)],
         TypeInv', LockOK(w)'
  PROVE  LockInv'
<1>1. ASSUME NEW v \in Workers \ {w}  PROVE LockOK(v)'
  <2>1. LockOK(v)
    BY DEF LockInv
  <2>2. TargetEvent(v)' = TargetEvent(v)
    BY DEF TargetEvent, OthersKept
  <2>3. pc[v] \in {"flush", "commit"} => TargetEvent(v) \in Events
    BY Targets DEF LockInv
  <2> QED
    BY <2>1, <2>2, <2>3 DEF LockOK, OthersKept, LocksKept
<1> QED
  BY <1>1 DEF LockInv

\* Ending a transaction frees the worker's locks and nobody else's.
LEMMA ReleaseLocks ==
  ASSUME TypeOK, NEW w \in Workers, Release(w)
  PROVE  /\ LocksKept(w)
         /\ \A e \in Events : rowLock'[e] # w
         /\ dbLock' # w
BY WorkersAssumption DEF TypeOK, Release, LocksKept

\* A new transaction takes SQLite's lock for itself or takes nothing.
LEMMA BeginLocks ==
  ASSUME TypeOK, NEW w \in Workers, Begin(w)
  PROVE  /\ LocksKept(w)
         /\ rowLock' = rowLock
         /\ Engine = "sqlite" <=> dbLock' = w
BY WorkersAssumption DEF Begin, LocksKept

\* A transaction that ends leaves nothing to say of its worker.
LEMMA ReleaseKeepsLocks ==
  ASSUME LockInv, NEW w \in Workers, OthersKept(w), Release(w),
         pc'[w] \in {"idle", "refind", "refresh", "done"},
         available' = available, TypeInv'
  PROVE  LockInv'
<1>1. LocksKept(w) /\ dbLock' # w /\ \A e \in Events : rowLock'[e] # w
  BY ReleaseLocks DEF LockInv, TypeInv
<1>2. LockOK(w)'
  BY <1>1 DEF LockOK
<1> QED
  BY <1>1, <1>2, LockStep

\* An exception frees what the handler held.
LEMMA AbortKeepsLocks ==
  ASSUME LockInv, NEW w \in Workers, NEW a, Abort(w, a), TypeInv'
  PROVE  LockInv'
<1>1. OthersKept(w)
  BY DEF LockInv, TypeInv, TypeOK, OthersKept, Abort, Goto, tables, session
<1>2. Release(w) /\ pc'[w] = "done" /\ available' = available
  BY DEF LockInv, TypeInv, TypeOK, Abort, Goto, tables
<1> QED
  BY <1>1, <1>2, ReleaseKeepsLocks

\* A new transaction: only SQLite's lock may change hands.
LEMMA BeginKeepsLocks ==
  ASSUME LockInv, NEW w \in Workers, OthersKept(w), Begin(w),
         pc[w] \in {"auth", "refind", "refresh"},
         pc'[w] \in {"find", "load", "lock", "done"},
         available' = available, TypeInv'
  PROVE  LockInv'
<1>1. LocksKept(w) /\ rowLock' = rowLock /\ (Engine = "sqlite" <=> dbLock' = w)
  BY BeginLocks DEF LockInv, TypeInv
<1>2. \A e \in Events : rowLock'[e] # w
  BY <1>1 DEF LockInv, LockOK
<1>3. LockOK(w)'
  BY <1>1, <1>2 DEF LockOK
<1> QED
  BY <1>1, <1>3, LockStep

\* A read: no lock changes hands.
LEMMA ReadKeepsLocks ==
  ASSUME LockInv, NEW w \in Workers, OthersKept(w), UNCHANGED locks,
         pc[w] \in {"idle", "find", "load"},
         pc'[w] \in {"auth", "lock", "done"},
         pc[w] = "idle" => pc'[w] = "auth",
         pc'[w] = "auth" => pc[w] = "idle",
         available' = available, TypeInv'
  PROVE  LockInv'
<1>1. LocksKept(w) /\ rowLock' = rowLock /\ dbLock' = dbLock
  BY DEF locks, LocksKept
<1>2. LockOK(w)
  BY DEF LockInv
<1>3. LockOK(w)'
  BY <1>1, <1>2 DEF LockOK
<1> QED
  BY <1>1, <1>3, LockStep

\* The lock is taken when free, by the transaction that then decides on the row.
LEMMA LockEventKeepsLocks ==
  ASSUME LockInv, NEW w \in Workers, LockEvent(w), TypeInv'
  PROVE  LockInv'
<1>1. TypeOK /\ LockOK(w)
  BY DEF LockInv, TypeInv
<1>2. pc[w] = "lock" /\ TargetEvent(w) \in Events /\ rowLock[TargetEvent(w)] = Nobody
  BY Targets DEF LockEvent, LockInv
<1>3. CASE Abort(w, "not_found") \/ Abort(w, "insufficient_seats")
  BY <1>3, AbortKeepsLocks
<1>4. CASE Release(w) /\ Goto(w, "refresh") /\ UNCHANGED <<tables, session>>
  <2>1. OthersKept(w) /\ pc'[w] = "refresh" /\ available' = available
    BY <1>1, <1>4 DEF TypeOK, OthersKept, Goto, tables, session
  <2> QED
    BY <1>4, <2>1, ReleaseKeepsLocks
<1>5. CASE /\ HoldEvent(w)
           /\ seen' = [seen EXCEPT ![w] = available[TargetEvent(w)]]
           /\ Goto(w, "flush")
           /\ UNCHANGED <<tables, req, row, booking, reply, dbLock>>
  <2> USE <1>5 DEF Goto, tables
  <2>1. OthersKept(w)
    BY <1>1 DEF TypeOK, OthersKept
  <2>2. LocksKept(w)
    BY <1>1, <1>2, WorkersAssumption DEF TypeOK, LocksKept, HoldEvent
  <2>3. TargetEvent(w)' = TargetEvent(w)
    BY DEF TargetEvent
  <2>4. LockOK(w)'
    BY <1>1, <1>2, <2>3 DEF TypeOK, LockOK, HoldEvent
  <2>5. available' = available
    OBVIOUS
  <2> QED
    BY <2>1, <2>2, <2>4, <2>5, LockStep
<1> QED
  BY <1>3, <1>4, <1>5 DEF LockEvent

\* A flush goes on with the locks it has or ends the transaction.
LEMMA FlushKeepsLocks ==
  ASSUME LockInv, NEW w \in Workers, Flush(w), TypeInv'
  PROVE  LockInv'
<1>1. TypeOK /\ LockOK(w) /\ pc[w] = "flush"
  BY DEF LockInv, TypeInv, Flush
<1>2. CASE Abort(w, "error")
  BY <1>2, AbortKeepsLocks
<1>3. CASE Release(w) /\ Goto(w, "refind") /\ UNCHANGED <<tables, session, reply>>
  <2>1. OthersKept(w) /\ pc'[w] = "refind" /\ available' = available
    BY <1>1, <1>3 DEF TypeOK, OthersKept, Goto, tables, session
  <2> QED
    BY <1>3, <2>1, ReleaseKeepsLocks
<1>4. CASE Goto(w, "commit") /\ UNCHANGED <<tables, session, reply, locks>>
  <2> USE <1>4 DEF Goto, tables, session, locks
  <2>1. OthersKept(w) /\ LocksKept(w) /\ available' = available
    BY <1>1 DEF TypeOK, OthersKept, LocksKept
  <2>2. TargetEvent(w)' = TargetEvent(w)
    BY DEF TargetEvent
  <2>3. LockOK(w)'
    BY <1>1, <2>2 DEF TypeOK, LockOK
  <2> QED
    BY <2>1, <2>3, LockStep
<1> QED
  BY <1>2, <1>3, <1>4 DEF Flush

\* Two handlers past the lock work on different events; on SQLite there is
\* only one of them.
LEMMA Exclusion ==
  ASSUME LockInv, NEW v \in Workers, NEW w \in Workers \ {v},
         pc[v] \in {"flush", "commit"}, pc[w] \in {"flush", "commit"}
  PROVE  Engine = "postgres" /\ TargetEvent(v) # TargetEvent(w)
BY EngineAssumption DEF LockInv, LockOK

\* A commit writes the counter of an event nobody else has read under a lock.
LEMMA CommitKeepsLocks ==
  ASSUME LockInv, NEW w \in Workers, OthersKept(w), Commit(w), TypeInv'
  PROVE  LockInv'
<1>1. TypeOK /\ pc[w] = "commit"
  BY DEF LockInv, TypeInv, Commit
<1>2. LocksKept(w) /\ dbLock' # w /\ \A e \in Events : rowLock'[e] # w
  BY <1>1, ReleaseLocks DEF Commit
<1>3. pc'[w] = "refresh"
  BY <1>1 DEF TypeOK, Commit, Goto
<1>4. ASSUME NEW v \in Workers \ {w}, pc[v] \in {"flush", "commit"}
      PROVE  available'[TargetEvent(v)] = available[TargetEvent(v)]
  <2>1. TargetEvent(v) # TargetEvent(w) /\ TargetEvent(v) \in Events
    BY <1>1, <1>4, Exclusion, Targets DEF LockInv
  <2> QED
    BY <1>1, <2>1 DEF Commit, TypeOK
<1>5. LockOK(w)'
  BY <1>2, <1>3 DEF LockOK
<1> QED
  BY <1>2, <1>4, <1>5, LockStep

\* What every step of a worker leaves alone, commits included.
LEMMA CommitTouchesOwn ==
  ASSUME TypeInv, NEW w \in Workers,
         CommitCreate(w) \/ CommitModify(w) \/ CommitCancel(w)
  PROVE  /\ Commit(w)
         /\ OthersKept(w)
<1>1. TypeOK
  BY DEF TypeInv
<1>2. Commit(w)
  BY DEF CommitCreate, CommitModify, CommitCancel
<1>3. CASE CommitCreate(w)
  <2>1. /\ Len(bookings') = Len(bookings) + 1
        /\ Len(bookings) \in Nat
        /\ booking' = [booking EXCEPT ![w] = Len(bookings) + 1]
    BY <1>3, CommitInserts
  <2> QED
    BY <1>1, <1>2, <2>1 DEF OthersKept, TypeOK, Commit, Goto
<1>4. CASE CommitModify(w) \/ CommitCancel(w)
  <2>1. PICK b \in Booking : bookings' = [bookings EXCEPT ![booking[w]] = b]
    BY <1>4, CommitUpdates
  <2>2. booking[w] \in 1..Len(bookings) /\ booking' = booking
    BY <1>4, CommitUpdates
  <2>3. Len(bookings') = Len(bookings) /\ Len(bookings) \in Nat
    BY <1>1, <2>1, <2>2, ExceptSeq DEF TypeOK
  <2> QED
    BY <1>1, <1>2, <2>2, <2>3 DEF OthersKept, TypeOK, Commit, Goto
<1> QED
  BY <1>2, <1>3, <1>4

\* A new event is one no transaction has locked.
LEMMA CreateEventKeepsLocks ==
  ASSUME LockInv, NEW e \in Events, NEW n \in 1..MaxCapacity, CreateEvent(e, n), TypeInv'
  PROVE  LockInv'
<1>1. ASSUME NEW v \in Workers  PROVE LockOK(v)'
  <2>1. TypeOK /\ LockOK(v) /\ SessionOK(v)
    BY DEF LockInv, TypeInv
  <2>2. pc[v] \in {"flush", "commit"} => TargetEvent(v) \in Events /\ TargetEvent(v) # e
    BY <2>1, Targets DEF LockInv, SessionOK, CreateEvent
  <2>3. TargetEvent(v)' = TargetEvent(v)
    BY DEF TargetEvent, CreateEvent, session
  <2> QED
    BY <2>1, <2>2, <2>3 DEF LockOK, TypeOK, CreateEvent, session, locks
<1> QED
  BY <1>1 DEF LockInv

\* No lock is held at the start.
LEMMA LockInit == Init => LockInv
<1> SUFFICES ASSUME Init PROVE LockInv
  OBVIOUS
<1>1. ASSUME NEW w \in Workers PROVE LockOK(w)
  BY <1>1, WorkersAssumption DEF Init, LockOK
<1> QED
  BY <1>1, TypeInit DEF LockInv

\* Every step keeps the locks and the reads under them: one step per action.
LEMMA LockNext == LockInv /\ [Next]_vars => LockInv'
<1> SUFFICES ASSUME LockInv, [Next]_vars PROVE LockInv'
  OBVIOUS
<1>1. TypeInv'
  BY TypeNext DEF LockInv
<1>2. TypeInv /\ TypeOK
  BY DEF LockInv, TypeInv
<1>3. CASE UNCHANGED vars
  <2>1. ASSUME NEW w \in Workers PROVE LockOK(w)'
    BY <1>3 DEF LockInv, LockOK, TargetEvent, vars, tables, session, locks
  <2> QED
    BY <1>1, <2>1 DEF LockInv
<1>4. ASSUME NEW e \in Events, NEW n \in 1..MaxCapacity, CreateEvent(e, n)
      PROVE  LockInv'
  BY <1>1, <1>4, CreateEventKeepsLocks
<1>5. ASSUME NEW w \in Workers, NEW r \in Requests, Receive(w, r)
      PROVE  LockInv'
  <2>1. OthersKept(w) /\ pc[w] = "idle" /\ pc'[w] = "auth" /\ available' = available
    BY <1>2, <1>5 DEF TypeOK, OthersKept, Receive, Goto, tables
  <2>2. UNCHANGED locks
    BY <1>5 DEF Receive
  <2> QED
    BY <1>1, <2>1, <2>2, ReadKeepsLocks
<1>6. ASSUME NEW w \in Workers, Step(w)
      PROVE  LockInv'
  <2>1. CASE Authenticate(w)
    <3>1. /\ OthersKept(w) /\ pc[w] = "auth" /\ available' = available
          /\ pc'[w] \in {"find", "load", "lock"}
      BY <1>2, <2>1 DEF TypeOK, OthersKept, Authenticate, Goto, tables, session
    <3> QED
      BY <1>1, <2>1, <3>1, BeginKeepsLocks DEF Authenticate
  <2>2. CASE FindReplay(w)
    <3>1. /\ OthersKept(w) /\ pc[w] = "find" /\ available' = available
          /\ pc'[w] \in {"lock", "done"} /\ UNCHANGED locks
      BY <1>2, <2>2 DEF TypeOK, OthersKept, FindReplay, Replay, Goto, tables, session
    <3> QED
      BY <1>1, <3>1, ReadKeepsLocks
  <2>3. CASE LoadBooking(w)
    <3>1. CASE \E a : Abort(w, a)
      BY <1>1, <3>1, AbortKeepsLocks
    <3>2. CASE ~ \E a : Abort(w, a)
      <4>1. /\ OthersKept(w) /\ pc[w] = "load" /\ available' = available
            /\ pc'[w] = "lock" /\ UNCHANGED locks
        BY <1>2, <2>3, <3>2 DEF TypeOK, OthersKept, LoadBooking, Goto, tables
      <4> QED
        BY <1>1, <4>1, ReadKeepsLocks
    <3> QED
      BY <3>1, <3>2
  <2>4. CASE LockEvent(w)
    BY <1>1, <2>4, LockEventKeepsLocks
  <2>5. CASE Flush(w)
    BY <1>1, <2>5, FlushKeepsLocks
  <2>6. CASE CommitCreate(w) \/ CommitModify(w) \/ CommitCancel(w)
    BY <1>1, <1>2, <2>6, CommitTouchesOwn, CommitKeepsLocks
  <2>7. CASE Refind(w)
    <3>1. /\ OthersKept(w) /\ pc[w] = "refind" /\ available' = available
          /\ pc'[w] = "done"
      BY <1>2, <2>7 DEF TypeOK, OthersKept, Refind, Replay, Goto, tables, session
    <3> QED
      BY <1>1, <2>7, <3>1, BeginKeepsLocks DEF Refind
  <2>8. CASE Refresh(w)
    <3>1. /\ OthersKept(w) /\ pc[w] = "refresh" /\ available' = available
          /\ pc'[w] = "done"
      BY <1>2, <2>8 DEF TypeOK, OthersKept, Refresh, Goto, tables, session
    <3> QED
      BY <1>1, <2>8, <3>1, BeginKeepsLocks DEF Refresh
  <2>9. CASE Respond(w)
    <3>1. /\ OthersKept(w) /\ available' = available
          /\ pc'[w] = "idle"
      BY <1>2, <2>9 DEF TypeOK, OthersKept, Respond, Goto, tables
    <3> QED
      BY <1>1, <2>9, <3>1, ReleaseKeepsLocks DEF Respond
  <2> QED
    BY <1>6, <2>1, <2>2, <2>3, <2>4, <2>5, <2>6, <2>7, <2>8, <2>9 DEF Step
<1>7. ASSUME NEW w \in Workers, Fail(w)
      PROVE  LockInv'
  BY <1>1, <1>7, AbortKeepsLocks DEF Fail
<1> QED
  BY <1>3, <1>4, <1>5, <1>6, <1>7 DEF Next

\* The counter a handler read under its lock is the counter of the row until
\* it commits (booking.py:74-75): the row lock on Postgres, BEGIN IMMEDIATE
\* on SQLite, exclude every other writer of that event.
THEOREM LockedReads == Spec => []LockedReadIsCurrent
<1>1. Spec => []LockInv
  BY LockInit, LockNext, PTL DEF Spec
<1>2. LockInv => LockedReadIsCurrent
  BY DEF LockInv, LockOK, LockedReadIsCurrent
<1> QED
  BY <1>1, <1>2, PTL

\* A lock never outlives the transaction that needs it: an aborted or failed
\* request leaves no event row locked (booking.py:102-104, 141-143, 166-168).
THEOREM LocksOwned == Spec => []LocksHaveOwners
<1>1. Spec => []LockInv
  BY LockInit, LockNext, PTL DEF Spec
<1>2. LockInv => LocksHaveOwners
  BY DEF LockInv, LockOK, LocksHaveOwners
<1> QED
  BY <1>1, <1>2, PTL

-----------------------------------------------------------------------------
(* Deadlock: who waits is behind somebody further on.                      *)

\* Who is about to commit waits for nobody.
LEMMA CommitWaitsForNobody ==
  ASSUME NEW w, NEW v, pc[w] = "commit"
  PROVE  ~WaitsFor(w, v)
BY DEF WaitsFor

\* Who inserts a key waits only for a transaction that is about to commit.
LEMMA FlushWaitsForCommit ==
  ASSUME NEW w, NEW v, pc[w] = "flush", WaitsFor(w, v)
  PROVE  pc[v] = "commit"
BY DEF WaitsFor, PendingWith

\* Who wants an event row waits only for one that has it and decided on it.
LEMMA LockWaitsForHolder ==
  ASSUME LockInv, NEW w \in Workers, NEW v \in Workers, pc[w] = "lock", WaitsFor(w, v)
  PROVE  pc[v] \in {"flush", "commit"}
BY Targets DEF WaitsFor, LockInv, LockOK

\* Who waits for SQLite's lock waits for a transaction that does not.
LEMMA BeginWaitsForHolder ==
  ASSUME LockInv, NEW w \in Workers, NEW v \in Workers,
         pc[w] \notin {"lock", "flush", "commit"}, WaitsFor(w, v)
  PROVE  /\ pc[w] \in {"auth", "refind", "refresh"}
         /\ pc[v] \notin {"idle", "auth", "refind", "refresh"}
BY DEF WaitsFor, LockInv, LockOK

\* No two handlers wait for each other, and no longer ring of them closes: the
\* order of the waits is begin, event row, key, commit (booking.py:72, 91).
THEOREM HandlersNeverDeadlock == Spec => []NoDeadlock
<1>1. Spec => []LockInv
  BY LockInit, LockNext, PTL DEF Spec
<1>2. ASSUME LockInv PROVE NoDeadlock
  <2> SUFFICES ASSUME NEW S \in SUBSET Workers, S # {}
               PROVE  \E w \in S : \A v \in Workers :
                         WaitsFor(w, v) => v \notin S /\ pc[v] # "idle"
    BY DEF NoDeadlock
  <2>1. CASE \E w \in S : pc[w] = "commit"
    BY <2>1, CommitWaitsForNobody
  <2>2. CASE /\ \A w \in S : pc[w] # "commit"
             /\ \E w \in S : pc[w] = "flush"
    BY <2>2, FlushWaitsForCommit
  <2>3. CASE /\ \A w \in S : pc[w] \notin {"flush", "commit"}
             /\ \E w \in S : pc[w] = "lock"
    <3>1. PICK w \in S : pc[w] = "lock"
      BY <2>3
    <3>2. ASSUME NEW v \in Workers, WaitsFor(w, v)
          PROVE  pc[v] \in {"flush", "commit"}
      BY <1>2, <3>1, <3>2, LockWaitsForHolder
    <3> QED
      BY <2>3, <3>1, <3>2
  <2>4. CASE \A w \in S : pc[w] \notin {"lock", "flush", "commit"}
    <3>1. CASE \E w \in S : pc[w] \notin {"auth", "refind", "refresh"}
      BY <1>2, <2>4, <3>1, BeginWaitsForHolder
    <3>2. CASE \A w \in S : pc[w] \in {"auth", "refind", "refresh"}
      <4>1. PICK w \in S : TRUE
        OBVIOUS
      <4>2. ASSUME NEW v \in Workers, WaitsFor(w, v)
            PROVE  pc[v] \notin {"idle", "auth", "refind", "refresh"}
        BY <1>2, <3>2, <4>2, BeginWaitsForHolder
      <4> QED
        BY <3>2, <4>1, <4>2
    <3> QED
      BY <3>1, <3>2
  <2> QED
    BY <2>1, <2>2, <2>3, <2>4
<1> QED
  BY <1>1, <1>2, PTL

-----------------------------------------------------------------------------
(* Progress, as far as it can be said without fairness.                    *)

\* What a handler has before it at each place: at most so many statements.
StatementsFrom ==
  [idle |-> 0, done |-> 1, refresh |-> 2, refind |-> 2, commit |-> 3, flush |-> 4,
   lock |-> 5, find |-> 6, load |-> 6, auth |-> 7]

StatementsLeft(w) == StatementsFrom[pc[w]]

\* Seven at most.
LEMMA FewStatements == \A l \in Labels : StatementsFrom[l] \in 0..7
BY DEF Labels, StatementsFrom

\* A statement that goes through is one that waited for nobody.
LEMMA WaitersStay ==
  ASSUME TypeOK, NEW w \in Workers, Step(w), NEW v \in Workers
  PROVE  ~WaitsFor(w, v)
<1>1. v # Nobody
  BY WorkersAssumption
<1>2. CASE pc[w] \in {"auth", "refind", "refresh"}
  <2>1. Authenticate(w) \/ Refind(w) \/ Refresh(w)
    BY <1>2 DEF Step, FindReplay, LoadBooking, LockEvent, Flush, CommitCreate,
         CommitModify, CommitCancel, Commit, Respond
  <2> QED
    BY <1>1, <1>2, <2>1 DEF Authenticate, Refind, Refresh, Begin, WaitsFor
<1>3. CASE pc[w] = "lock"
  <2>1. LockEvent(w)
    BY <1>3 DEF Step, Authenticate, FindReplay, LoadBooking, Flush, CommitCreate,
         CommitModify, CommitCancel, Commit, Refind, Refresh, Respond
  <2> QED
    BY <1>1, <1>3, <2>1 DEF LockEvent, WaitsFor
<1>4. CASE pc[w] = "flush"
  <2>1. Flush(w)
    BY <1>4 DEF Step, Authenticate, FindReplay, LoadBooking, LockEvent, CommitCreate,
         CommitModify, CommitCancel, Commit, Refind, Refresh, Respond
  <2> QED
    BY <1>4, <2>1 DEF Flush, WaitsFor, DuplicatePending
<1> QED
  BY <1>2, <1>3, <1>4 DEF WaitsFor

\* Every statement, failed or not, brings the handler's end nearer: none is
\* repeated and none leads back.  It moves no other handler.
LEMMA StepsAdvance ==
  ASSUME TypeInv, NEW w \in Workers, Step(w) \/ Fail(w)
  PROVE  /\ StatementsLeft(w)' < StatementsLeft(w)
         /\ \A v \in Workers \ {w} : pc'[v] = pc[v]
<1>1. TypeOK
  BY DEF TypeInv
<1>2. PICK l : pc' = [pc EXCEPT ![w] = l]
  BY DEF Step, Fail, Abort, Goto, Replay, Authenticate, FindReplay, LoadBooking,
     LockEvent, Flush, CommitCreate, CommitModify, CommitCancel, Commit, Refind,
     Refresh, Respond
<1>3. /\ pc'[w] = l
      /\ \A v \in Workers \ {w} : pc'[v] = pc[v]
  BY <1>1, <1>2 DEF TypeOK
<1>4. \/ pc[w] = "auth" /\ pc'[w] \in {"load", "find", "lock", "done"}
      \/ pc[w] \in {"find", "load"} /\ pc'[w] \in {"lock", "done"}
      \/ pc[w] = "lock" /\ pc'[w] \in {"flush", "refresh", "done"}
      \/ pc[w] = "flush" /\ pc'[w] \in {"commit", "refind", "done"}
      \/ pc[w] = "commit" /\ pc'[w] \in {"refresh", "done"}
      \/ pc[w] \in {"refind", "refresh"} /\ pc'[w] = "done"
      \/ pc[w] = "done" /\ pc'[w] = "idle"
  <2>1. CASE Fail(w)
    BY <1>1, <2>1 DEF Fail, Abort, Goto, TypeOK, Labels
  <2>2. CASE Authenticate(w) \/ FindReplay(w) \/ LoadBooking(w)
    BY <1>1, <2>2 DEF Authenticate, FindReplay, LoadBooking, Replay, Abort, Goto, TypeOK
  <2>3. CASE LockEvent(w) \/ Flush(w)
    BY <1>1, <2>3 DEF LockEvent, Flush, Abort, Goto, TypeOK
  <2>4. CASE CommitCreate(w) \/ CommitModify(w) \/ CommitCancel(w)
    BY <1>1, <2>4 DEF CommitCreate, CommitModify, CommitCancel, Commit, Goto, TypeOK
  <2>5. CASE Refind(w) \/ Refresh(w) \/ Respond(w)
    BY <1>1, <2>5 DEF Refind, Refresh, Respond, Replay, Goto, TypeOK
  <2> QED
    BY <2>1, <2>2, <2>3, <2>4, <2>5 DEF Step
<1> QED
  BY <1>3, <1>4 DEF StatementsLeft, StatementsFrom

\* Somebody is in the middle of a request, and then somebody of them waits for
\* nobody.
SomebodyCanGoOn ==
  (\E w \in Workers : pc[w] # "idle") =>
     \E w \in Workers : /\ pc[w] # "idle"
                        /\ \A v \in Workers : ~WaitsFor(w, v)

\* A statement of w goes through: w waited for nobody and is nearer its end.
\* And no step takes w away from it.
Advances(w) ==
  /\ Step(w) => \A v \in Workers : ~WaitsFor(w, v)
  /\ Step(w) \/ Fail(w) => StatementsLeft(w)' < StatementsLeft(w)
  /\ pc[w] # "idle" => StatementsLeft(w)' <= StatementsLeft(w)

\* What liveness rests on (booking.py:50-104): while requests are in flight one
\* of them waits for nobody; a statement that goes through takes its request
\* nearer to its answer, at most seven statements away, and no other request
\* further from its own; and no request waits and goes on.  What is left to
\* fairness is only that a thread which can go on does.
THEOREM HandlersAdvance ==
  Spec => /\ [](\A w \in Workers : StatementsLeft(w) \in 0..7)
          /\ []SomebodyCanGoOn
          /\ [][\A w \in Workers : Advances(w)]_vars
<1>1. Spec => []LockInv
  BY LockInit, LockNext, PTL DEF Spec
<1>2. LockInv => \A w \in Workers : StatementsLeft(w) \in 0..7
  BY FewStatements DEF LockInv, TypeInv, TypeOK, StatementsLeft
<1>3. ASSUME NoDeadlock  PROVE SomebodyCanGoOn
  <2> SUFFICES ASSUME \E w \in Workers : pc[w] # "idle"
               PROVE  \E w \in Workers : /\ pc[w] # "idle"
                                         /\ \A v \in Workers : ~WaitsFor(w, v)
    BY DEF SomebodyCanGoOn
  <2> DEFINE Busy == {w \in Workers : pc[w] # "idle"}
  <2>1. Busy \in (SUBSET Workers) \ {{}}
    OBVIOUS
  <2>2. PICK w \in Busy : \A v \in Workers :
                             WaitsFor(w, v) => v \notin Busy /\ pc[v] # "idle"
    BY <1>3, <2>1 DEF NoDeadlock
  <2> QED
    BY <2>2
<1>4. ASSUME LockInv, [Next]_vars
      PROVE  [\A w \in Workers : Advances(w)]_vars
  <2> SUFFICES ASSUME Next, NEW w \in Workers  PROVE Advances(w)
    BY <1>4
  <2>1. TypeInv /\ TypeOK /\ StatementsLeft(w) \in 0..7 /\ StatementsLeft(w)' \in 0..7
    <3>1. TypeOK /\ TypeOK'
      BY <1>4, LockNext DEF LockInv, TypeInv
    <3> QED
      BY <1>4, <3>1, FewStatements DEF LockInv, TypeInv, TypeOK, StatementsLeft
  <2>2. Step(w) => \A v \in Workers : ~WaitsFor(w, v)
    BY <2>1, WaitersStay
  <2>3. Step(w) \/ Fail(w) => StatementsLeft(w)' < StatementsLeft(w)
    BY <2>1, StepsAdvance
  <2>4. pc[w] # "idle" => StatementsLeft(w)' <= StatementsLeft(w)
    <3>1. CASE Step(w) \/ Fail(w)
      BY <2>1, <2>3, <3>1
    <3>2. CASE pc'[w] = pc[w]
      BY <2>1, <3>2 DEF StatementsLeft
    <3>3. ASSUME NEW v \in Workers \ {w}, Step(v) \/ Fail(v)  PROVE pc'[w] = pc[w]
      BY <2>1, <3>3, StepsAdvance
    <3>4. ASSUME NEW v \in Workers, NEW r \in Requests, Receive(v, r)
          PROVE  pc[w] = "idle" \/ pc'[w] = pc[w]
      BY <2>1, <3>4 DEF Receive, Goto, TypeOK
    <3> QED
      BY <3>1, <3>2, <3>3, <3>4 DEF Next, CreateEvent
  <2> QED
    BY <2>2, <2>3, <2>4 DEF Advances
<1> QED
  BY <1>1, <1>2, <1>3, <1>4, HandlersNeverDeadlock, PTL DEF Spec

=============================================================================
