--------------------------- MODULE MCRequestFront ---------------------------
(* RequestFront with two clients behind one proxy and one NAT address: one *)
(* with a token, one without, and the same client before it has signed in. *)
EXTENDS RequestFront, TLC

CONSTANTS ann, bob, proxy, nat, list, health, nowhere, t1, t2

Ask(c, t, p, pre) == [client |-> c, token |-> t, fwd |-> nat, peer |-> proxy,
                      path |-> p, preflight |-> pre]

MCRequests ==
  {Ask(ann, ann, list, FALSE), Ask(bob, None, list, FALSE),
   Ask(ann, ann, health, FALSE), Ask(bob, None, nowhere, FALSE),
   Ask(ann, None, list, TRUE)}

Interchangeable == Permutations(Slots)

=============================================================================
