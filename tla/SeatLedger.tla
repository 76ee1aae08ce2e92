---------------------------- MODULE SeatLedger ----------------------------
(***************************************************************************)
(* What the booking service promises, without threads, sessions, locks or  *)
(* the denormalised counter: every booking, change and cancellation is one *)
(* indivisible step on the table of bookings, taken only if the event has  *)
(* the seats.  The free seats of an event are by definition its capacity   *)
(* minus what its live bookings take.                                      *)
(***************************************************************************)
EXTENDS Seats

CONSTANTS Users, Events, Keys, MaxSeats, MaxCapacity

VARIABLES total,     \* event -> events.total_seats, 0 when there is no row
          bookings   \* the bookings table

vars == <<total, bookings>>

Free(e) == total[e] - Sold(bookings, e)

Init ==
  /\ total = [e \in Events |-> 0]
  /\ bookings = <<>>

\* POST /events
Publish(e, n) ==
  /\ total[e] = 0
  /\ total' = [total EXCEPT ![e] = n]
  /\ UNCHANGED bookings

\* POST /bookings that creates a row
Book(u, e, n, k) ==
  /\ total[e] > 0
  /\ n <= Free(e)
  /\ UniqueAdmits(bookings, u, k)
  /\ bookings' = Append(bookings, [user |-> u, event |-> e, seats |-> n,
                                   status |-> "CONFIRMED", key |-> k])
  /\ UNCHANGED total

\* PATCH /bookings/{id} that changes the row
Change(i, n) ==
  /\ ~Cancelled(bookings[i])
  /\ n # bookings[i].seats
  /\ n - bookings[i].seats <= Free(bookings[i].event)
  /\ bookings' = [bookings EXCEPT ![i] = Amended(bookings[i], n, "MODIFIED")]
  /\ UNCHANGED total

\* DELETE /bookings/{id} that cancels the row
Cancel(i) ==
  /\ ~Cancelled(bookings[i])
  /\ bookings' = [bookings EXCEPT ![i] = Amended(bookings[i], bookings[i].seats, "CANCELLED")]
  /\ UNCHANGED total

Next ==
  \/ \E e \in Events, n \in 1..MaxCapacity : Publish(e, n)
  \/ \E u \in Users, e \in Events, n \in 1..MaxSeats,
        k \in Keys \cup {NoKey, EmptyKey} : Book(u, e, n, k)
  \/ \E i \in 1..Len(bookings) :
        \/ \E n \in 1..MaxSeats : Change(i, n)
        \/ Cancel(i)

Spec == Init /\ [][Next]_vars

=============================================================================
