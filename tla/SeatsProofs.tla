---------------------------- MODULE SeatsProofs ----------------------------
(***************************************************************************)
(* How the number of seats sold follows the table of bookings: what a new  *)
(* row adds to it and what a changed row moves it by.  The sum is a        *)
(* recursive function; that it exists, and every fact about it, is proved  *)
(* by the least-number principle, stated over sets of numbers.             *)
(***************************************************************************)
EXTENDS Seats, WellFoundedInduction, TLAPS

\* A set of natural numbers that is not empty has a least member.
LEMMA LeastNumber ==
  ASSUME NEW T, T \subseteq Nat, T # {}
  PROVE  \E x \in T : \A y \in T : x <= y
<1>1. PICK x \in T : \A y \in T : ~ (<<y, x>> \in OpToRel(<, Nat))
  BY WFMin, NatLessThanWellFounded
<1>2. \A y \in T : y < x => <<y, x>> \in OpToRel(<, Nat)
  BY DEF OpToRel
<1>3. \A y \in T : ~ (y < x)
  BY <1>1, <1>2, Zenon
<1> QED
  BY <1>3

\* Induction up to N, for a property given as the set of numbers that have it.
LEMMA UpTo ==
  ASSUME NEW N \in Nat, NEW T, 0 \in T,
         \A n \in 0..N : n \in T /\ n < N => n + 1 \in T
  PROVE  \A n \in 0..N : n \in T
<1> DEFINE bad == {n \in 0..N : n \notin T}
<1>1. SUFFICES ASSUME bad # {} PROVE FALSE
  OBVIOUS
<1>2. PICK x \in bad : \A y \in bad : x <= y
  <2>1. bad \subseteq Nat
    OBVIOUS
  <2> HIDE DEF bad
  <2> QED
    BY <1>1, <2>1, LeastNumber
<1>3. x \in 0..N /\ x # 0 /\ x - 1 \in 0..N /\ x - 1 < N
  OBVIOUS
<1>4. x - 1 \in T
  BY <1>2, <1>3
<1>5. x \in T
  <2>1. (x - 1) + 1 \in T
    BY <1>3, <1>4
  <2>2. (x - 1) + 1 = x
    BY <1>3
  <2> QED
    BY <2>1, <2>2
<1> QED
  BY <1>5

\* A table whose rows take a number of seats each.
Table(bs, e) ==
  /\ Len(bs) \in Nat
  /\ \A n \in 1..Len(bs) : ActiveSeats(bs[n], e) \in Nat

\* The running total exists.
LEMMA TallyExists ==
  ASSUME NEW bs, NEW e, Table(bs, e)
  PROVE  \E f \in [0..Len(bs) -> Nat] :
           f = [n \in 0..Len(bs) |->
                  IF n = 0 THEN 0 ELSE f[n - 1] + ActiveSeats(bs[n], e)]
<1> DEFINE N == Len(bs)
           Tallies(m, f) == \A n \in 0..m :
             f[n] = IF n = 0 THEN 0 ELSE f[n - 1] + ActiveSeats(bs[n], e)
           T == {m \in 0..N : \E f \in [0..m -> Nat] : Tallies(m, f)}
<1>1. N \in Nat /\ \A n \in 1..N : ActiveSeats(bs[n], e) \in Nat
  BY DEF Table
<1>2. 0 \in T
  <2> DEFINE f == [n \in 0..0 |-> 0]
  <2>1. f \in [0..0 -> Nat] /\ Tallies(0, f)
    OBVIOUS
  <2>2. \E h \in [0..0 -> Nat] : Tallies(0, h)
    <3> HIDE DEF f, Tallies
    <3> QED
      BY <2>1
  <2> QED
    BY <1>1, <2>2
<1>3. ASSUME NEW m \in 0..N, m \in T, m < N
      PROVE  m + 1 \in T
  <2>1. PICK f \in [0..m -> Nat] : Tallies(m, f)
    BY <1>3
  <2> DEFINE g == [n \in 0..m + 1 |->
                     IF n <= m THEN f[n] ELSE f[m] + ActiveSeats(bs[m + 1], e)]
  <2>2. m \in Nat /\ m + 1 \in 1..N /\ ActiveSeats(bs[m + 1], e) \in Nat
    BY <1>1, <1>3
  <2>3. g \in [0..m + 1 -> Nat]
    BY <2>1, <2>2
  <2>4. ASSUME NEW n \in 0..m + 1
        PROVE  g[n] = IF n = 0 THEN 0 ELSE g[n - 1] + ActiveSeats(bs[n], e)
    BY <2>1, <2>2
  <2>5. Tallies(m + 1, g)
    <3> HIDE DEF g
    <3> QED
      BY <2>4
  <2>6. \E h \in [0..m + 1 -> Nat] : Tallies(m + 1, h)
    <3> HIDE DEF g, Tallies
    <3> QED
      BY <2>3, <2>5
  <2>7. m + 1 \in 0..N
    BY <1>1, <2>2
  <2> QED
    <3> HIDE DEF Tallies
    <3> QED
      BY <2>6, <2>7
<1>4. N \in T
  <2> HIDE DEF T
  <2>1. \A n \in 0..N : n \in T
    BY <1>1, <1>2, <1>3, UpTo
  <2> QED
    BY <1>1, <2>1
<1>5. PICK f \in [0..N -> Nat] : Tallies(N, f)
  BY <1>4
<1>6. f = [n \in 0..N |-> IF n = 0 THEN 0 ELSE f[n - 1] + ActiveSeats(bs[n], e)]
  BY <1>5
<1> QED
  BY <1>6

\* The running total starts at nothing and grows by each row's seats.
LEMMA Tally ==
  ASSUME NEW bs, NEW e, Table(bs, e)
  PROVE  /\ SoldUpTo(bs, e) \in [0..Len(bs) -> Nat]
         /\ SoldUpTo(bs, e)[0] = 0
         /\ \A n \in 1..Len(bs) : SoldUpTo(bs, e)[n] =
              SoldUpTo(bs, e)[n - 1] + ActiveSeats(bs[n], e)
<1> DEFINE N == Len(bs)
           s == SoldUpTo(bs, e)
<1>1. N \in Nat /\ \A n \in 1..N : ActiveSeats(bs[n], e) \in Nat
  BY DEF Table
<1>2. s = [n \in 0..N |-> IF n = 0 THEN 0 ELSE s[n - 1] + ActiveSeats(bs[n], e)]
  BY TallyExists DEF SoldUpTo
<1> HIDE DEF s
<1>3. s[0] = 0 /\ \A n \in 1..N : s[n] = s[n - 1] + ActiveSeats(bs[n], e)
  BY <1>1, <1>2
<1> DEFINE T == {n \in 0..N : s[n] \in Nat}
<1>4. 0 \in T
  BY <1>1, <1>3
<1>5. \A n \in 0..N : n \in T /\ n < N => n + 1 \in T
  BY <1>1, <1>3
<1>6. \A n \in 0..N : n \in T
  <2> HIDE DEF T
  <2> QED
    BY <1>1, <1>4, <1>5, UpTo
<1>7. s \in [0..N -> Nat]
  BY <1>2, <1>6
<1> QED
  BY <1>3, <1>7 DEF s

\* A row added at the end adds its seats.
LEMMA SoldGrows ==
  ASSUME NEW bs, NEW cs, NEW e, Table(bs, e), Table(cs, e),
         Len(cs) = Len(bs) + 1,
         \A n \in 1..Len(bs) : ActiveSeats(cs[n], e) = ActiveSeats(bs[n], e)
  PROVE  Sold(cs, e) = Sold(bs, e) + ActiveSeats(cs[Len(cs)], e)
<1> DEFINE N == Len(bs)
           b == SoldUpTo(bs, e)
           c == SoldUpTo(cs, e)
           T == {n \in 0..N : c[n] = b[n]}
<1>1. N \in Nat
  BY DEF Table
<1>2. b[0] = 0 /\ \A n \in 1..N : b[n] = b[n - 1] + ActiveSeats(bs[n], e)
  BY Tally
<1>3. c[0] = 0 /\ \A n \in 1..N + 1 : c[n] = c[n - 1] + ActiveSeats(cs[n], e)
  BY Tally
<1> HIDE DEF b, c
<1>4. 0 \in T
  BY <1>1, <1>2, <1>3
<1>5. \A n \in 0..N : n \in T /\ n < N => n + 1 \in T
  BY <1>1, <1>2, <1>3
<1>6. \A n \in 0..N : n \in T
  <2> HIDE DEF T
  <2> QED
    BY <1>1, <1>4, <1>5, UpTo
<1>7. c[N + 1] = b[N] + ActiveSeats(cs[N + 1], e)
  BY <1>1, <1>3, <1>6
<1> QED
  BY <1>7 DEF Sold, b, c

\* One row that changes moves the total by the difference of its seats.
LEMMA SoldMoves ==
  ASSUME NEW bs, NEW cs, NEW e, Table(bs, e), Table(cs, e),
         Len(cs) = Len(bs), NEW i \in 1..Len(bs),
         \A n \in 1..Len(bs) : n # i =>
            ActiveSeats(cs[n], e) = ActiveSeats(bs[n], e)
  PROVE  Sold(cs, e) =
           Sold(bs, e) + (ActiveSeats(cs[i], e) - ActiveSeats(bs[i], e))
<1> DEFINE N == Len(bs)
           b == SoldUpTo(bs, e)
           c == SoldUpTo(cs, e)
           d == ActiveSeats(cs[i], e) - ActiveSeats(bs[i], e)
           T == {n \in 0..N : c[n] = IF n < i THEN b[n] ELSE b[n] + d}
<1>1. /\ N \in Nat
      /\ \A n \in 1..N : ActiveSeats(bs[n], e) \in Nat /\ ActiveSeats(cs[n], e) \in Nat
  BY DEF Table
<1>2. /\ b \in [0..N -> Nat]
      /\ b[0] = 0 /\ \A n \in 1..N : b[n] = b[n - 1] + ActiveSeats(bs[n], e)
  BY Tally
<1>3. /\ c \in [0..N -> Nat]
      /\ c[0] = 0 /\ \A n \in 1..N : c[n] = c[n - 1] + ActiveSeats(cs[n], e)
  BY Tally
<1> HIDE DEF b, c
<1>4. 0 \in T
  BY <1>1, <1>2, <1>3
<1>5. ASSUME NEW n \in 0..N, n \in T, n < N
      PROVE  n + 1 \in T
  <2>1. n + 1 \in 1..N /\ (n + 1) - 1 = n
    BY <1>1, <1>5
  <2>2. /\ b[n + 1] = b[n] + ActiveSeats(bs[n + 1], e)
        /\ c[n + 1] = c[n] + ActiveSeats(cs[n + 1], e)
    BY <1>2, <1>3, <2>1
  <2>3. b[n] \in Nat /\ c[n] \in Nat
    BY <1>2, <1>3
  <2> QED
    BY <1>1, <1>5, <2>1, <2>2, <2>3
<1>6. \A n \in 0..N : n \in T
  <2> HIDE DEF T
  <2> QED
    BY <1>1, <1>4, <1>5, UpTo
<1>7. c[N] = b[N] + d
  BY <1>1, <1>6
<1> QED
  BY <1>7 DEF Sold, b, c

\* An empty table has sold nothing.
LEMMA SoldOfEmpty ==
  ASSUME NEW bs, NEW e, Len(bs) = 0
  PROVE  Sold(bs, e) = 0
<1>1. Table(bs, e)
  BY DEF Table
<1> QED
  BY <1>1, Tally DEF Sold

\* The seats sold are a number.
LEMMA SoldIsNat ==
  ASSUME NEW bs, NEW e, Table(bs, e)
  PROVE  Sold(bs, e) \in Nat
<1>1. Len(bs) \in 0..Len(bs)
  BY DEF Table
<1> QED
  BY <1>1, Tally DEF Sold

\* No row takes more than all rows do.
LEMMA SoldCovers ==
  ASSUME NEW bs, NEW e, Table(bs, e), NEW i \in 1..Len(bs)
  PROVE  ActiveSeats(bs[i], e) <= Sold(bs, e)
<1> DEFINE N == Len(bs)
           b == SoldUpTo(bs, e)
           T == {n \in 0..N : n >= i => ActiveSeats(bs[i], e) <= b[n]}
<1>1. N \in Nat /\ \A n \in 1..N : ActiveSeats(bs[n], e) \in Nat
  BY DEF Table
<1>2. /\ b \in [0..N -> Nat]
      /\ \A n \in 1..N : b[n] = b[n - 1] + ActiveSeats(bs[n], e)
  BY Tally
<1> HIDE DEF b
<1>3. 0 \in T
  BY <1>1
<1>4. ASSUME NEW n \in 0..N, n \in T, n < N
      PROVE  n + 1 \in T
  <2>1. n + 1 \in 1..N /\ (n + 1) - 1 = n
    BY <1>1, <1>4
  <2>2. b[n + 1] = b[n] + ActiveSeats(bs[n + 1], e) /\ b[n] \in Nat
    BY <1>2, <2>1
  <2>3. CASE n + 1 = i
    BY <1>1, <2>1, <2>2, <2>3
  <2>4. CASE n + 1 # i
    BY <1>1, <1>4, <2>1, <2>2, <2>4
  <2> QED
    BY <2>3, <2>4
<1>5. \A n \in 0..N : n \in T
  <2> HIDE DEF T
  <2> QED
    BY <1>1, <1>3, <1>4, UpTo
<1>6. ActiveSeats(bs[i], e) <= b[N]
  BY <1>1, <1>5
<1> QED
  BY <1>6 DEF Sold, b

=============================================================================
