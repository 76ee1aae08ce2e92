----------------------------- MODULE MCAccounts -----------------------------
(* Accounts with two containers, one request handler in each, and clients  *)
(* that register one new email with two passwords, try the administrator's *)
(* email, and log in with the right and with a wrong password.             *)
EXTENDS Accounts, TLC

CONSTANTS i1, i2, w1, w2, ann, root, demo, s1, s2, s0

MCHost == (w1 :> i1) @@ (w2 :> i2)

MCSeedSecret == (root :> s0) @@ (demo :> s0)

MCRequests ==
  {[op |-> "register", email |-> ann, secret |-> s] : s \in {s1, s2}}
  \cup {[op |-> "register", email |-> root, secret |-> s1]}
  \cup {[op |-> "login", email |-> ann, secret |-> s1],
        [op |-> "login", email |-> root, secret |-> s0]}

=============================================================================
