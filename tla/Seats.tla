------------------------------- MODULE Seats -------------------------------
(***************************************************************************)
(* The rows of the bookings table and the arithmetic on them that every    *)
(* part of the system shares: which bookings count, and how many seats of  *)
(* an event they take.  The table is a sequence: the n-th element is the   *)
(* row whose primary key is n.  Rows are never deleted (a cancellation is  *)
(* a status), so the sequence only grows.                                  *)
(***************************************************************************)
EXTENDS Integers, Sequences

\* The idempotency_key column is NULL when the client sent no header.  An
\* empty header is a value of its own: falsy in Python, not NULL in SQL.
NoKey == "null"
EmptyKey == ""

Status == {"CONFIRMED", "MODIFIED", "CANCELLED"}

Cancelled(b) == b.status = "CANCELLED"

\* UPDATE bookings SET seats = n, status = s on row b.
Amended(b, n, s) == [user |-> b.user, event |-> b.event, seats |-> n,
                     status |-> s, key |-> b.key]

\* The seats a booking row takes from event e.
ActiveSeats(b, e) ==
  IF b.event = e /\ ~Cancelled(b) THEN b.seats ELSE 0

\* The running total over the table, written as a recursive function.
SoldUpTo(bs, e) ==
  LET upTo[n \in 0..Len(bs)] ==
        IF n = 0 THEN 0 ELSE upTo[n - 1] + ActiveSeats(bs[n], e)
  IN  upTo

\* SUM(bookings.seats) over the live bookings of e: the source of truth that
\* the counter events.available_seats denormalises.
Sold(bs, e) == SoldUpTo(bs, e)[Len(bs)]

\* The rows a user stored under an idempotency key, by id.
KeyedRows(bs, user, key) ==
  {i \in 1..Len(bs) : bs[i].user = user /\ bs[i].key = key}

\* UNIQUE (user_id, idempotency_key) admits a new row.  NULLs never collide.
UniqueAdmits(bs, user, key) ==
  key = NoKey \/ KeyedRows(bs, user, key) = {}

=============================================================================
