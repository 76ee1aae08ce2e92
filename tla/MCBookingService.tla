-------------------------- MODULE MCBookingService --------------------------
(***************************************************************************)
(* Instances of BookingService for TLC: who sends what.                    *)
(***************************************************************************)
EXTENDS BookingService, TLC

CONSTANTS ann, bob, root,  \* two customers and an administrator
          show, gig,       \* two events
          key              \* an idempotency key

MCUsers  == {ann, bob, root}
MCAdmins == {root}

Book(u, e, n, k) == [op |-> "create", user |-> u, event |-> e, seats |-> n, key |-> k]
Resize(u, i, n)  == [op |-> "modify", user |-> u, booking |-> i, seats |-> n]
Drop(u, i)       == [op |-> "cancel", user |-> u, booking |-> i]

\* Retries under one key on two events, so that two inserts of the key can
\* meet in the index without sharing an event lock; an empty key; a stranger
\* who competes for the seats under a key of the same value; and a cancellation
\* that gives them back.
Retries ==
  {Book(ann, show, n, key) : n \in 1..2}
    \cup {Book(ann, gig, 1, key), Book(ann, show, 1, EmptyKey)}
    \cup {Book(bob, show, 1, key), Drop(root, 1)}

\* The least of this that still competes for a row lock and a key, and two
\* changes of one booking that can overtake each other.
Contest ==
  {Book(ann, e, 1, key) : e \in {show, gig}}
    \cup {Book(bob, show, 1, NoKey), Resize(root, 1, 2), Drop(root, 1)}

\* On one event: bookings of both customers, and every change of them by the
\* owner, by a stranger who must be refused and by the administrator.
Changes ==
  {Book(ann, show, 1, key), Book(ann, show, 2, NoKey), Book(bob, show, 1, NoKey)}
    \cup {Resize(ann, i, n) : i \in 1..2, n \in 1..2}
    \cup {Drop(ann, i) : i \in 1..2}
    \cup {Drop(bob, 1), Drop(root, 2)}

Interchangeable == Permutations(Workers)
=============================================================================
