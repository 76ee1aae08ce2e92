--------------------------- MODULE MCRequestPools ---------------------------
(* RequestPools with two threads and two connections, the smallest pools   *)
(* that tell both bounds of StallNeedsCrowd apart, and as many requests as *)
(* it takes to stall either engine.                                        *)
EXTENDS RequestPools, TLC

CONSTANTS r1, r2, r3, r4

MCServes == (r1 :> {"booking"}) @@ (r2 :> {"booking"})
            @@ (r3 :> {"booking"}) @@ (r4 :> {"signup", "read"})

=============================================================================
