----------------------------- MODULE AccountBook -----------------------------
(***************************************************************************)
(* What registration and the seed promise together, without processes,     *)
(* sessions, locks or crashes: an account is opened in one step for an     *)
(* email that has none, and nothing ever changes it or takes it away.      *)
(***************************************************************************)
EXTENDS Naturals, Sequences

CONSTANTS Emails, Secrets

VARIABLE users   \* the users table

Account == [email: Emails, secret: Secrets, admin: BOOLEAN]

HasAccount(e) == \E i \in 1..Len(users) : users[i].email = e

Init == users = <<>>

\* POST /auth/register that answers 201, or a row the seed adds
Open(a) == ~HasAccount(a.email) /\ users' = Append(users, a)

Next == \E a \in Account : Open(a)

Spec == Init /\ [][Next]_users

=============================================================================
