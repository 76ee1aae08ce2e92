-------------------------- MODULE RequestFrontProofs --------------------------
(***************************************************************************)
(* What holds of RequestFront for any number of requests in flight, any    *)
(* clients, addresses and paths, any limit and window.                     *)
(***************************************************************************)
EXTENDS RequestFront, SequenceTheorems, TLAPS

Answers == Response \cup {Exception}

Outside(s) == at[s].dir \in {"out", "sent"}

\* Where a request is, and what it has by then: an id from the first layer on,
\* a result once it turns back, its log line once it is out of that layer.
PlaceOK(s) ==
  /\ at[s].dir = "in" => at[s].pos \in 1..5
  /\ at[s].dir = "out" => at[s].pos \in 0..4
  /\ at[s].dir \in {"idle", "sent"} => at[s].pos = 0
  /\ at[s].dir # "idle" => req[s] \in Requests

TracedOK(s) ==
  /\ at[s].dir = "in" /\ at[s].pos >= 2 => tagged[s]
  /\ Outside(s) => tagged[s]
  /\ lines[s] = IF Outside(s) /\ at[s].pos = 0 THEN 1 ELSE 0

\* The result is an exception until the outermost layer answers it; until then
\* no response is a 500.
ResultOK(s) ==
  /\ ~Outside(s) <=> result[s] = NoResult
  /\ at[s].dir = "out" => result[s] \in Answers /\ (result[s] = Exception \/ result[s].status # "500")
  /\ at[s].dir = "sent" => result[s] \in Response
  /\ result[s] \in Response /\ result[s].status # "ok" /\ ~req[s].preflight =>
       result[s].envelope /\ result[s].id

\* The headers that are on a response by the time it is out of a layer.
HeadersOK(s) ==
  result[s] \in Response /\ result[s].status # "500" =>
    /\ at[s].pos = 0 => "request_id" \in result[s].headers
    /\ at[s].pos <= 2 /\ ~req[s].preflight => "security" \in result[s].headers

SlotOK(s) == PlaceOK(s) /\ TracedOK(s) /\ ResultOK(s) /\ HeadersOK(s)

Dirs == {"idle", "in", "out", "sent"}

SlotTypes ==
  /\ req \in [Slots -> Requests \cup {NoRequest}]
  /\ at \in [Slots -> [dir: Dirs, pos: 0..5]]
  /\ result \in [Slots -> Response \cup {NoResult, Exception}]
  /\ tagged \in [Slots -> BOOLEAN]
  /\ lines \in [Slots -> 0..1]

SlotInv == SlotTypes /\ \A s \in Slots : SlotOK(s)

-----------------------------------------------------------------------------
(* Layers and answers *)

LEMMA FourLayers ==
  /\ Len(Stack) = 4
  /\ Stack[1] = "context" /\ Stack[2] = "cors"
  /\ Stack[3] = "security" /\ Stack[4] = "limiter"
BY DEF Stack

LEMMA Layers ==
  ASSUME NEW s \in Slots, at[s].pos \in 0..5
  PROVE  /\ Layer(s) = "server" <=> at[s].pos = 0
         /\ Layer(s) = "context" <=> at[s].pos = 1
         /\ Layer(s) = "cors" <=> at[s].pos = 2
         /\ Layer(s) = "security" <=> at[s].pos = 3
         /\ Layer(s) = "limiter" <=> at[s].pos = 4
         /\ Layer(s) = "router" <=> at[s].pos = 5
<1>1. at[s].pos \in {0, 1, 2, 3, 4, 5}
  OBVIOUS
<1> QED
  BY <1>1, FourLayers DEF Layer

\* The results that layers and handlers make themselves.
LEMMA Made ==
  ASSUME SlotTypes, NEW s \in Slots, tagged[s], NEW st \in {"client_error", "429", "500"},
         NEW hs \in SUBSET Headers
  PROVE  /\ Failure(s, st, hs) \in Response /\ Success \in Response
         /\ PlainText400 \in Response /\ PlainText400.status = "client_error"
         /\ Failure(s, st, hs).status = st /\ Success.status = "ok"
         /\ Failure(s, st, hs).envelope /\ Failure(s, st, hs).id
         /\ Failure(s, st, hs).headers = hs
<1>1. tagged[s] \in BOOLEAN
  BY DEF SlotTypes
<1> QED
  BY <1>1 DEF Failure, Success, PlainText400, Response

LEMMA Different ==
  /\ NoResult \notin Response /\ Exception \notin Response /\ NoResult # Exception
  /\ \A x \in Response : x # NoResult /\ x # Exception
<1>1. NoResult.kind = "none" /\ Exception.kind = "exception"
  BY DEF NoResult, Exception
<1>2. \A x \in Response : x.kind = "response"
  BY DEF Response
<1> QED
  BY <1>1, <1>2

-----------------------------------------------------------------------------
(* A step of one slot *)

Same(t) == /\ req'[t] = req[t] /\ at'[t] = at[t] /\ result'[t] = result[t]
           /\ tagged'[t] = tagged[t] /\ lines'[t] = lines[t]

LEMMA Elsewhere ==
  ASSUME SlotInv, SlotTypes', NEW s \in Slots, \A t \in Slots : t # s => Same(t), SlotOK(s)'
  PROVE  SlotInv'
<1>1. ASSUME NEW t \in Slots, t # s PROVE SlotOK(t)'
  <2>1. SlotOK(t) /\ Same(t)
    BY <1>1 DEF SlotInv
  <2> QED
    BY <2>1 DEF Same, SlotOK, PlaceOK, TracedOK, ResultOK, HeadersOK, Outside
<1> QED
  BY <1>1 DEF SlotInv

LEMMA SlotInit == Init => SlotInv
<1> SUFFICES ASSUME Init PROVE SlotInv
  OBVIOUS
<1>1. SlotTypes
  BY DEF Init, SlotTypes, Dirs, Idle
<1>2. ASSUME NEW s \in Slots PROVE SlotOK(s)
  BY Different DEF Init, SlotOK, PlaceOK, TracedOK, ResultOK, HeadersOK, Outside, Idle
<1> QED
  BY <1>1, <1>2 DEF SlotInv

LEMMA ReceiveKeeps ==
  ASSUME SlotInv, NEW s \in Slots, NEW r \in Requests, Receive(s, r)
  PROVE  SlotInv'
<1>1. SlotTypes /\ SlotOK(s)
  BY DEF SlotInv
<1>2. SlotTypes'
  BY <1>1 DEF Receive, MoveTo, SlotTypes, Dirs
<1>3. \A t \in Slots : t # s => Same(t)
  BY <1>1 DEF Receive, MoveTo, Same, SlotTypes
<1>4. at'[s].dir = "in" /\ at'[s].pos = 1 /\ req'[s] = r /\ UNCHANGED <<result, tagged, lines>>
  BY <1>1 DEF Receive, MoveTo, SlotTypes
<1>5. result[s] = NoResult /\ lines[s] = 0
  BY <1>1 DEF Receive, SlotOK, TracedOK, ResultOK, Outside, Idle
<1>6. SlotOK(s)'
  BY <1>4, <1>5, Different DEF SlotOK, PlaceOK, TracedOK, ResultOK, HeadersOK, Outside
<1> QED
  BY <1>2, <1>3, <1>6, Elsewhere

\* Inwards, from one layer to the next.
LEMMA InwardKeeps ==
  ASSUME SlotInv, NEW s \in Slots,
         \/ EnterContext(s) \/ Forward(s) \/ SkipLimiter(s)
         \/ CheckLimit(s) /\ WithinLimit(Hit(Bucket(req[s])))
  PROVE  SlotInv'
<1>1. SlotTypes /\ SlotOK(s)
  BY DEF SlotInv
<1>2. /\ at[s].dir = "in" /\ at[s].pos \in 1..4
      /\ at' = [at EXCEPT ![s] = [dir |-> "in", pos |-> at[s].pos + 1]]
      /\ UNCHANGED <<req, result, lines>>
      /\ \/ at[s].pos = 1 /\ tagged' = [tagged EXCEPT ![s] = TRUE]
         \/ at[s].pos # 1 /\ tagged' = tagged
  <2>1. at[s].dir = "in" /\ at[s].pos \in 0..5
    BY <1>1 DEF EnterContext, Forward, SkipLimiter, CheckLimit, Inbound, SlotOK, PlaceOK
  <2> QED
    BY <2>1, Layers DEF EnterContext, Forward, SkipLimiter, CheckLimit, Inbound, MoveTo
<1>3. SlotTypes'
  <2>1. [dir |-> "in", pos |-> at[s].pos + 1] \in [dir: Dirs, pos: 0..5]
    BY <1>2 DEF Dirs
  <2>2. at' \in [Slots -> [dir: Dirs, pos: 0..5]]
    BY <1>1, <1>2, <2>1 DEF SlotTypes
  <2>3. tagged' \in [Slots -> BOOLEAN]
    BY <1>1, <1>2 DEF SlotTypes
  <2> QED
    BY <1>1, <1>2, <2>2, <2>3 DEF SlotTypes
<1>4. \A t \in Slots : t # s => Same(t)
  BY <1>1, <1>2 DEF Same, SlotTypes
<1>5. at'[s].dir = "in" /\ at'[s].pos = at[s].pos + 1 /\ tagged'[s]
  BY <1>1, <1>2 DEF SlotTypes, SlotOK, TracedOK
<1>6. SlotOK(s)'
  BY <1>1, <1>2, <1>5, Different DEF SlotOK, PlaceOK, TracedOK, ResultOK, HeadersOK, Outside
<1> QED
  BY <1>3, <1>4, <1>6, Elsewhere

\* A layer or a handler answers, and the request turns back.
LEMMA TurnKeeps ==
  ASSUME SlotInv, NEW s \in Slots,
         \/ AnswerPreflight(s) \/ Handle(s)
         \/ CheckLimit(s) /\ ~WithinLimit(Hit(Bucket(req[s])))
  PROVE  SlotInv'
<1>1. SlotTypes /\ SlotOK(s)
  BY DEF SlotInv
<1>2. at[s].dir = "in" /\ at[s].pos \in 0..5
  BY <1>1 DEF AnswerPreflight, Handle, CheckLimit, Inbound, SlotOK, PlaceOK
<1>3. /\ at[s].pos \in {2, 4, 5}
      /\ at' = [at EXCEPT ![s] = [dir |-> "out", pos |-> at[s].pos - 1]]
      /\ UNCHANGED <<req, tagged, lines>>
      /\ at[s].pos = 2 => req[s].preflight
  BY <1>2, Layers, FourLayers DEF AnswerPreflight, Handle, CheckLimit, MoveTo
<1>4. PICK x : /\ \/ x \in {Success, Failure(s, "client_error", {}), RateLimitReply(s), Exception}
                  \/ x = PlainText400 /\ req[s].preflight
               /\ result' = [result EXCEPT ![s] = x]
  BY DEF AnswerPreflight, Handle, CheckLimit
<1>5. tagged[s]
  BY <1>1, <1>2, <1>3 DEF SlotOK, TracedOK
<1>6. /\ x \in Answers
      /\ x # Exception => /\ x.status # "500"
                          /\ x.status # "ok" /\ ~req[s].preflight => x.envelope /\ x.id
  BY <1>1, <1>4, <1>5, Made DEF Answers, RateLimitReply, Headers
<1>7. SlotTypes'
  BY <1>1, <1>3, <1>4, <1>6 DEF SlotTypes, Dirs, Answers
<1>8. \A t \in Slots : t # s => Same(t)
  BY <1>1, <1>3, <1>4 DEF Same, SlotTypes
<1>9. at'[s].dir = "out" /\ at'[s].pos = at[s].pos - 1 /\ result'[s] = x
  BY <1>1, <1>3, <1>4 DEF SlotTypes
<1>10. PlaceOK(s)' /\ TracedOK(s)'
  BY <1>1, <1>2, <1>3, <1>5, <1>9 DEF SlotOK, PlaceOK, TracedOK, Outside
<1>11. ResultOK(s)' /\ HeadersOK(s)'
  BY <1>3, <1>6, <1>9, Different DEF ResultOK, HeadersOK, Outside, Answers
<1> QED
  BY <1>7, <1>8, <1>10, <1>11, Elsewhere DEF SlotOK

\* A header is added to a response, and nothing else about it changes.
LEMMA HeaderAdded ==
  ASSUME SlotTypes, NEW s \in Slots, result[s] \in Answers, NEW h \in Headers, AddHeader(s, h)
  PROVE  \E x \in Answers :
           /\ result' = [result EXCEPT ![s] = x]
           /\ x = Exception <=> result[s] = Exception
           /\ x # Exception => /\ x.status = result[s].status
                               /\ x.envelope = result[s].envelope /\ x.id = result[s].id
                               /\ x.headers = result[s].headers \cup {h}
<1>1. CASE result[s] = Exception
  <2>1. result' = [result EXCEPT ![s] = Exception]
    BY <1>1 DEF AddHeader, SlotTypes
  <2> QED
    BY <1>1, <2>1 DEF Answers
<1>2. CASE result[s] # Exception
  <2> DEFINE x == [result[s] EXCEPT !.headers = @ \cup {h}]
  <2>1. result[s] \in Response
    BY <1>2 DEF Answers
  <2>2. result' = [result EXCEPT ![s] = x]
    BY <1>2 DEF AddHeader
  <2>3. /\ x \in Response /\ x.status = result[s].status
        /\ x.envelope = result[s].envelope /\ x.id = result[s].id
        /\ x.headers = result[s].headers \cup {h}
    BY <2>1 DEF Response
  <2>4. x # Exception
    BY <2>3, Different
  <2> HIDE DEF x
  <2> QED
    BY <1>2, <2>2, <2>3, <2>4 DEF Answers
<1> QED
  BY <1>1, <1>2

\* Outwards through one layer.
LEMMA OutwardKeeps ==
  ASSUME SlotInv, NEW s \in Slots,
         LeaveContext(s) \/ LeaveSecurity(s) \/ LeaveOthers(s)
  PROVE  SlotInv'
<1>1. SlotTypes /\ SlotOK(s)
  BY DEF SlotInv
<1>2. /\ at[s].dir = "out" /\ at[s].pos \in 0..5
      /\ result[s] \in Answers /\ (result[s] = Exception \/ result[s].status # "500")
      /\ tagged[s] /\ lines[s] = IF at[s].pos = 0 THEN 1 ELSE 0
  BY <1>1 DEF LeaveContext, LeaveSecurity, LeaveOthers, Outbound, SlotOK, PlaceOK, TracedOK, ResultOK, Outside
<1>3. /\ at[s].pos \in 1..4
      /\ at' = [at EXCEPT ![s] = [dir |-> "out", pos |-> at[s].pos - 1]]
      /\ UNCHANGED <<req, tagged>>
      /\ \/ at[s].pos = 1 /\ lines' = [lines EXCEPT ![s] = @ + 1] /\ AddHeader(s, "request_id")
         \/ at[s].pos = 3 /\ lines' = lines /\ AddHeader(s, "security")
         \/ at[s].pos \in {2, 4} /\ lines' = lines /\ result' = result
  BY <1>2, Layers DEF LeaveContext, LeaveSecurity, LeaveOthers, MoveTo
<1>4. PICK x \in Answers :
        /\ result' = [result EXCEPT ![s] = x]
        /\ x = Exception <=> result[s] = Exception
        /\ x # Exception => /\ x.status = result[s].status
                            /\ x.envelope = result[s].envelope /\ x.id = result[s].id
                            /\ result[s].headers \subseteq x.headers
                            /\ at[s].pos = 1 => "request_id" \in x.headers
                            /\ at[s].pos = 3 => "security" \in x.headers
  <2>1. CASE at[s].pos \in {1, 3}
    <3>1. PICK h \in Headers : /\ AddHeader(s, h)
                               /\ at[s].pos = 1 => h = "request_id"
                               /\ at[s].pos = 3 => h = "security"
      BY <1>3, <2>1 DEF Headers
    <3> QED
      BY <1>1, <1>2, <3>1, HeaderAdded
  <2>2. CASE at[s].pos \in {2, 4}
    BY <1>1, <1>2, <1>3, <2>2 DEF SlotTypes
  <2> QED
    BY <1>3, <2>1, <2>2
<1>5. /\ at'[s].dir = "out" /\ at'[s].pos = at[s].pos - 1 /\ result'[s] = x
      /\ tagged'[s] = tagged[s] /\ req'[s] = req[s]
      /\ lines'[s] = IF at[s].pos = 1 THEN 1 ELSE 0
  BY <1>1, <1>2, <1>3, <1>4 DEF SlotTypes
<1>6. SlotTypes'
  <2>1. [dir |-> "out", pos |-> at[s].pos - 1] \in [dir: Dirs, pos: 0..5]
    BY <1>3 DEF Dirs
  <2>2. at' \in [Slots -> [dir: Dirs, pos: 0..5]]
    BY <1>1, <1>3, <2>1 DEF SlotTypes
  <2>3. lines' \in [Slots -> 0..1]
    BY <1>1, <1>2, <1>3 DEF SlotTypes
  <2>4. result' \in [Slots -> Response \cup {NoResult, Exception}]
    BY <1>1, <1>4 DEF SlotTypes, Answers
  <2> QED
    BY <1>1, <1>3, <2>2, <2>3, <2>4 DEF SlotTypes
<1>7. \A t \in Slots : t # s => Same(t)
  BY <1>1, <1>3, <1>4 DEF Same, SlotTypes
<1>8. PlaceOK(s)' /\ TracedOK(s)'
  BY <1>1, <1>2, <1>3, <1>5 DEF SlotOK, PlaceOK, TracedOK, Outside
<1>9. result[s] \in Response <=> x \in Response
  BY <1>2, <1>4, Different DEF Answers
<1>10. ResultOK(s)'
  BY <1>1, <1>2, <1>4, <1>5, <1>9, Different DEF SlotOK, ResultOK, Outside, Answers
<1>11. HeadersOK(s)'
  BY <1>1, <1>3, <1>4, <1>5, <1>9, Different DEF SlotOK, HeadersOK
<1> QED
  BY <1>6, <1>7, <1>8, <1>10, <1>11, Elsewhere DEF SlotOK

\* The outermost layer.
LEMMA DeliverKeeps ==
  ASSUME SlotInv, NEW s \in Slots, Deliver(s)
  PROVE  SlotInv'
<1>1. SlotTypes /\ SlotOK(s)
  BY DEF SlotInv
<1>2. /\ at[s].dir = "out" /\ at[s].pos = 0 /\ at' = [at EXCEPT ![s] = [dir |-> "sent", pos |-> 0]]
      /\ UNCHANGED <<req, tagged, lines>>
      /\ result' = [result EXCEPT ![s] = IF result[s] = Exception THEN Failure(s, "500", {}) ELSE result[s]]
  BY <1>1, Layers DEF Deliver, Outbound, MoveTo, SlotOK, PlaceOK
<1>3. result[s] \in Answers /\ tagged[s] /\ lines[s] = 1
  BY <1>1, <1>2 DEF SlotOK, TracedOK, ResultOK, Outside
<1>4. PICK x \in Response :
        /\ result' = [result EXCEPT ![s] = x]
        /\ \/ x.status = "500" /\ x.envelope /\ x.id
           \/ x = result[s]
  BY <1>1, <1>2, <1>3, Made DEF Answers
<1>5. SlotTypes'
  BY <1>1, <1>2, <1>4 DEF SlotTypes, Dirs
<1>6. \A t \in Slots : t # s => Same(t)
  BY <1>1, <1>2, <1>4 DEF Same, SlotTypes
<1>7. at'[s].dir = "sent" /\ at'[s].pos = 0 /\ result'[s] = x
  BY <1>1, <1>2, <1>4 DEF SlotTypes
<1>8. PlaceOK(s)' /\ TracedOK(s)'
  BY <1>1, <1>2, <1>3, <1>7 DEF SlotOK, PlaceOK, TracedOK, Outside
<1>9. ResultOK(s)' /\ HeadersOK(s)'
  BY <1>1, <1>2, <1>4, <1>7, Different DEF SlotOK, ResultOK, HeadersOK, Outside
<1> QED
  BY <1>5, <1>6, <1>8, <1>9, Elsewhere DEF SlotOK

LEMMA FinishKeeps ==
  ASSUME SlotInv, NEW s \in Slots, Finish(s)
  PROVE  SlotInv'
<1>1. SlotTypes
  BY DEF SlotInv
<1>2. SlotTypes'
  BY <1>1 DEF Finish, SlotTypes, Dirs, Idle
<1>3. \A t \in Slots : t # s => Same(t)
  BY <1>1 DEF Finish, Same, SlotTypes
<1>4. SlotOK(s)'
  BY <1>1, Different DEF Finish, Idle, SlotTypes, SlotOK, PlaceOK, TracedOK, ResultOK, HeadersOK, Outside
<1> QED
  BY <1>2, <1>3, <1>4, Elsewhere

LEMMA RestartKeeps ==
  ASSUME SlotInv, Restart
  PROVE  SlotInv'
<1>1. SlotTypes'
  BY DEF Restart, SlotTypes, Dirs, Idle
<1>2. ASSUME NEW s \in Slots PROVE SlotOK(s)'
  BY Different DEF Restart, Idle, SlotOK, PlaceOK, TracedOK, ResultOK, HeadersOK, Outside
<1> QED
  BY <1>1, <1>2 DEF SlotInv

LEMMA SlotNext == SlotInv /\ [Next]_vars => SlotInv'
<1> SUFFICES ASSUME SlotInv, [Next]_vars PROVE SlotInv'
  OBVIOUS
<1>1. CASE UNCHANGED slot
  BY <1>1 DEF slot, SlotInv, SlotTypes, SlotOK, PlaceOK, TracedOK, ResultOK, HeadersOK, Outside
<1>2. CASE \E s \in Slots : Step(s)
  <2>1. PICK s \in Slots : Step(s)
    BY <1>2
  <2>2. CASE EnterContext(s) \/ Forward(s) \/ SkipLimiter(s)
    BY <2>2, InwardKeeps
  <2>3. CASE CheckLimit(s)
    BY <2>3, InwardKeeps, TurnKeeps
  <2>4. CASE AnswerPreflight(s) \/ Handle(s)
    BY <2>4, TurnKeeps
  <2>5. CASE LeaveContext(s) \/ LeaveSecurity(s) \/ LeaveOthers(s)
    BY <2>5, OutwardKeeps
  <2>6. CASE Deliver(s) \/ Finish(s)
    BY <2>6, DeliverKeeps, FinishKeeps
  <2> QED
    BY <2>1, <2>2, <2>3, <2>4, <2>5, <2>6 DEF Step
<1>3. CASE \E s \in Slots : \E r \in Requests : Receive(s, r)
  BY <1>3, ReceiveKeeps
<1>4. CASE Tick
  BY <1>1, <1>4 DEF Tick
<1>5. CASE Restart
  BY <1>5, RestartKeeps
<1>6. CASE UNCHANGED vars
  BY <1>1, <1>6 DEF vars
<1> QED
  BY <1>2, <1>3, <1>4, <1>5, <1>6 DEF Next

LEMMA SlotInvariant == Spec => []SlotInv
<1> QED
  BY SlotInit, SlotNext, PTL DEF Spec

-----------------------------------------------------------------------------
(* The limiter's windows *)

\* The bucket of a signed-in client on a path, and how many of the requests it
\* let through are of the bucket's current window: the last ones.
UserBucket(o) == <<<<"user", o[1]>>, o[2]>>
InWindow(o) == IF WithinLimit(count[UserBucket(o)]) THEN count[UserBucket(o)] ELSE Limit
First(o) == Len(admitted[o]) - InWindow(o) + 1

\* The current window started with the first of them; whatever is a whole limit
\* before that was let through a window's time before it started.
WindowOK(o) ==
  LET ends == expiry[UserBucket(o)] IN
  /\ InWindow(o) <= Len(admitted[o])
  /\ ends <= now + Window
  /\ InWindow(o) = 0 => ends = 0
  /\ \A i \in 1..Len(admitted[o]) :
       LET t == admitted[o][i] IN
       /\ t <= now
       /\ i >= First(o) => t + Window >= ends
       /\ i <= First(o) => t + Window <= ends
       /\ i + Limit <= First(o) => t + Window + Window <= ends

BurstOK(o) ==
  \A i, j \in 1..Len(admitted[o]) :
    j >= i + 2 * Limit - 1 => admitted[o][j] >= admitted[o][i] + Window

Owners == Clients \X Paths

LimiterTypes ==
  /\ now \in 0..MaxTime
  /\ count \in [Buckets -> 0..(Limit + 1)]
  /\ expiry \in [Buckets -> 0..(MaxTime + Window)]
  /\ admitted \in [Owners -> Seq(0..MaxTime)]
  /\ restarts \in 0..MaxRestarts

LimitInv == LimiterTypes /\ \A o \in Owners : WindowOK(o) /\ BurstOK(o)

LEMMA RequestFields ==
  ASSUME NEW r \in Requests
  PROVE  /\ r.client \in Clients /\ r.path \in Paths /\ r.token \in {r.client, None}
         /\ r.token \in Clients \cup {None} /\ r.fwd \in Addresses \cup {None} /\ r.peer \in Addresses
         /\ <<r.client, r.path>> \in Owners
BY RequestsAssumption DEF Request, Owners

LEMMA BucketTypes ==
  /\ \A r \in Requests : Bucket(r) \in Buckets
  /\ \A o \in Owners : UserBucket(o) \in Buckets
<1>1. ASSUME NEW r \in Requests PROVE Bucket(r) \in Buckets
  <2>1. RateLimitKey(r) \in Keys
    <3>1. CASE r.token # None
      BY <3>1, RequestFields DEF RateLimitKey, Keys
    <3>2. CASE r.token = None
      BY <3>2, RequestFields DEF RateLimitKey, Keys
    <3> QED
      BY <3>1, <3>2
  <2> QED
    BY <2>1, RequestFields DEF Bucket, Buckets
<1>2. ASSUME NEW o \in Owners PROVE UserBucket(o) \in Buckets
  BY DEF Owners, UserBucket, Buckets, Keys
<1> QED
  BY <1>1, <1>2

\* A user's bucket is hit by that user's requests and by no others.
LEMMA OwnBucket ==
  ASSUME NEW r \in Requests, NEW o \in Owners
  PROVE  Bucket(r) = UserBucket(o) <=> r.token # None /\ o = <<r.client, r.path>>
<1>1. CASE r.token = None
  <2>1. Bucket(r)[1][1] = "ip"
    BY <1>1 DEF Bucket, RateLimitKey
  <2>2. UserBucket(o)[1][1] = "user"
    BY DEF UserBucket
  <2> QED
    BY <1>1, <2>1, <2>2
<1>2. CASE r.token # None
  <2>1. Bucket(r) = <<<<"user", r.client>>, r.path>>
    BY <1>2, RequestFields DEF Bucket, RateLimitKey
  <2>2. PICK c \in Clients, p \in Paths : o = <<c, p>>
    BY DEF Owners
  <2>3. UserBucket(o) = <<<<"user", c>>, p>>
    BY <2>2 DEF UserBucket
  <2> QED
    BY <1>2, <2>1, <2>2, <2>3
<1> QED
  BY <1>1, <1>2

LEMMA LimitInit == ASSUME count = [b \in Buckets |-> 0], expiry = [b \in Buckets |-> 0],
                          admitted = [x \in Clients \X Paths |-> <<>>],
                          now \in 0..MaxTime, restarts \in 0..MaxRestarts
                   PROVE  LimitInv
<1>1. LimiterTypes
  BY LimitAssumption, BoundsAssumption DEF LimiterTypes, Owners
<1>2. ASSUME NEW o \in Owners PROVE WindowOK(o) /\ BurstOK(o)
  <2>1. /\ admitted[o] = <<>> /\ count[UserBucket(o)] = 0 /\ expiry[UserBucket(o)] = 0
        /\ Len(admitted[o]) = 0
    BY BucketTypes DEF Owners
  <2>2. InWindow(o) = 0
    BY <2>1, LimitAssumption DEF InWindow, WithinLimit
  <2>3. 1..Len(admitted[o]) = {}
    BY <2>1
  <2>4. WindowOK(o)
    BY <2>1, <2>2, <2>3, LimitAssumption, BoundsAssumption DEF WindowOK
  <2>5. BurstOK(o)
    BY <2>3 DEF BurstOK
  <2> QED
    BY <2>4, <2>5
<1> QED
  BY <1>1, <1>2 DEF LimitInv

LEMMA TickKeeps == ASSUME LimitInv, Tick PROVE LimitInv'
<1>1. LimiterTypes /\ now' = now + 1 /\ UNCHANGED <<count, expiry, admitted, restarts>>
  BY DEF LimitInv, Tick, limiter
<1>2. LimiterTypes'
  BY <1>1, BoundsAssumption DEF LimiterTypes, Tick
<1>3. ASSUME NEW o \in Owners PROVE WindowOK(o)' /\ BurstOK(o)'
  <2>1. WindowOK(o) /\ BurstOK(o)
    BY DEF LimitInv
  <2>2. now \in Nat /\ expiry[UserBucket(o)] \in Nat /\ admitted[o] \in Seq(0..MaxTime)
    BY <1>1, BucketTypes, BoundsAssumption, LimitAssumption DEF LimiterTypes
  <2>3. /\ InWindow(o)' = InWindow(o) /\ First(o)' = First(o)
        /\ admitted'[o] = admitted[o] /\ expiry'[UserBucket(o)] = expiry[UserBucket(o)]
    BY <1>1 DEF InWindow, First
  <2>4. \A i \in 1..Len(admitted[o]) : admitted[o][i] \in Nat
    BY <2>2, BoundsAssumption
  <2>5. WindowOK(o)'
    <3> DEFINE m == admitted[o]
               ends == expiry[UserBucket(o)]
    <3>1. /\ InWindow(o) <= Len(m) /\ ends <= now + Window /\ (InWindow(o) = 0 => ends = 0)
          /\ \A i \in 1..Len(m) : /\ m[i] <= now
                                  /\ i >= First(o) => m[i] + Window >= ends
                                  /\ i <= First(o) => m[i] + Window <= ends
                                  /\ i + Limit <= First(o) => m[i] + Window + Window <= ends
      BY <2>1 DEF WindowOK
    <3>2. \A i \in 1..Len(m) : m[i] \in Nat
      BY <2>4
    <3> HIDE DEF m, ends
    <3>3. ends <= now + 1 + Window
      BY <2>2, <3>1, LimitAssumption DEF ends
    <3>4. \A i \in 1..Len(m) : m[i] <= now + 1
      BY <2>2, <3>1, <3>2
    <3> QED
      BY <1>1, <2>3, <3>1, <3>3, <3>4 DEF WindowOK, m, ends
  <2>6. BurstOK(o)'
    BY <2>1, <2>3 DEF BurstOK
  <2> QED
    BY <2>5, <2>6
<1> QED
  BY <1>2, <1>3 DEF LimitInv

\* What is known of an owner's window, in numbers.
LEMMA Numbers ==
  ASSUME LimiterTypes, NEW o \in Owners
  PROVE  /\ now \in Nat /\ now \in 0..MaxTime /\ expiry[UserBucket(o)] \in Nat
         /\ count[UserBucket(o)] \in Nat /\ count[UserBucket(o)] <= Limit + 1
         /\ admitted[o] \in Seq(0..MaxTime) /\ Len(admitted[o]) \in Nat
         /\ \A i \in 1..Len(admitted[o]) : admitted[o][i] \in Nat
         /\ InWindow(o) \in Nat /\ InWindow(o) <= Limit /\ First(o) \in Int
         /\ Limit \in Nat /\ Limit >= 1 /\ Window \in Nat /\ Window >= 1
<1>1. /\ now \in Nat /\ now \in 0..MaxTime /\ expiry[UserBucket(o)] \in Nat
      /\ count[UserBucket(o)] \in Nat /\ count[UserBucket(o)] <= Limit + 1
      /\ admitted[o] \in Seq(0..MaxTime)
      /\ Limit \in Nat /\ Limit >= 1 /\ Window \in Nat /\ Window >= 1
  BY BucketTypes, LimitAssumption, BoundsAssumption DEF LimiterTypes
<1>2. Len(admitted[o]) \in Nat /\ \A i \in 1..Len(admitted[o]) : admitted[o][i] \in Nat
  BY <1>1, BoundsAssumption
<1>3. InWindow(o) \in Nat /\ InWindow(o) <= Limit
  BY <1>1 DEF InWindow, WithinLimit
<1> QED
  BY <1>1, <1>2, <1>3 DEF First

\* One more request is let through, now.
Extended(o) == /\ Len(admitted'[o]) = Len(admitted[o]) + 1
               /\ admitted'[o][Len(admitted[o]) + 1] = now
               /\ \A i \in 1..Len(admitted[o]) : admitted'[o][i] = admitted[o][i]

LEMMA LetThrough ==
  ASSUME LimitInv, NEW o \in Owners, admitted'[o] = Append(admitted[o], now)
  PROVE  Extended(o)
<1>1. admitted[o] \in Seq(0..MaxTime) /\ now \in 0..MaxTime
  BY Numbers DEF LimitInv
<1> QED
  BY <1>1 DEF Extended

\* The first hit of a new window.
LEMMA WindowOpens ==
  ASSUME LimitInv, NEW o \in Owners, now' = now,
         expiry[UserBucket(o)] <= now,
         count'[UserBucket(o)] = 1, expiry'[UserBucket(o)] = now + Window,
         Extended(o)
  PROVE  WindowOK(o)' /\ BurstOK(o)'
<1> DEFINE m == admitted[o]
           n == Len(m)
           w == admitted'[o]
           ends == expiry[UserBucket(o)]
<1>1. /\ now \in Nat /\ ends \in Nat /\ n \in Nat /\ Limit \in Nat /\ Limit >= 1
      /\ Window \in Nat /\ Window >= 1 /\ InWindow(o) \in Nat /\ InWindow(o) <= Limit
      /\ \A i \in 1..n : m[i] \in Nat
      /\ First(o) = n - InWindow(o) + 1 /\ ends <= now
  BY Numbers DEF LimitInv, First
<1>2. /\ Len(w) = n + 1 /\ w[n + 1] = now
      /\ \A i \in 1..n : w[i] = m[i]
  BY DEF Extended
<1>3. InWindow(o)' = 1
  BY <1>1 DEF InWindow, WithinLimit
<1>4. First(o)' = n + 1
  BY <1>1, <1>2, <1>3 DEF First
<1>5. /\ \A i \in 1..n : m[i] <= now /\ (i <= First(o) => m[i] + Window <= ends)
      /\ \A i, j \in 1..n : j >= i + 2 * Limit - 1 => m[j] >= m[i] + Window
  BY DEF LimitInv, WindowOK, BurstOK
<1> HIDE DEF m, n, w, ends
<1>6. \A i \in 1..n : i + Limit <= n + 1 => m[i] + Window <= now
  <2>1. \A i \in 1..n : i + Limit <= n + 1 => i <= First(o)
    BY <1>1
  <2> QED
    BY <1>1, <1>5, <2>1
<1>7. \A i \in 1..n : i + 2 * Limit <= n + 2 => m[i] + Window <= now
  <2>1. \A i \in 1..n : i + 2 * Limit <= n + 2 => i + Limit <= n + 1
    BY <1>1
  <2> QED
    BY <1>6, <2>1
<1>8. \A i \in 1..(n + 1) : /\ w[i] <= now
                            /\ i >= n + 1 => w[i] + Window >= now + Window
                            /\ i <= n + 1 => w[i] + Window <= now + Window
                            /\ i + Limit <= n + 1 => w[i] + Window + Window <= now + Window
  <2>1. \A i \in 1..n : /\ m[i] \in Nat /\ m[i] <= now
                        /\ i >= n + 1 => m[i] + Window >= now + Window
                        /\ i <= n + 1 => m[i] + Window <= now + Window
                        /\ i + Limit <= n + 1 => m[i] + Window + Window <= now + Window
    BY <1>1, <1>5, <1>6
  <2>2. now + Window \in Nat /\ n + 1 \in Nat /\ n + 1 <= n + 1 /\ now + Window >= now + Window
    BY <1>1
  <2> QED
    <3> SUFFICES ASSUME NEW i \in 1..(n + 1)
                 PROVE  /\ w[i] <= now
                        /\ i >= n + 1 => w[i] + Window >= now + Window
                        /\ i <= n + 1 => w[i] + Window <= now + Window
                        /\ i + Limit <= n + 1 => w[i] + Window + Window <= now + Window
      OBVIOUS
    <3>1. CASE i \in 1..n
      BY <1>2, <2>1, <3>1
    <3>2. CASE i = n + 1
      BY <1>1, <1>2, <3>2
    <3> QED
      BY <1>1, <3>1, <3>2
<1>9. WindowOK(o)'
  <2>1. 1 <= n + 1 /\ now + Window <= now + Window
    BY <1>1
  <2> QED
    BY <1>2, <1>3, <1>4, <1>8, <2>1 DEF WindowOK, w
<1>10. BurstOK(o)'
  <2>1. \A i, j \in 1..(n + 1) : j >= i + 2 * Limit - 1 => w[j] >= w[i] + Window
    <3> SUFFICES ASSUME NEW i \in 1..(n + 1), NEW j \in 1..(n + 1), j >= i + 2 * Limit - 1
                 PROVE  w[j] >= w[i] + Window
      OBVIOUS
    <3>1. i \in 1..n /\ i \in Nat /\ (j = n + 1 => i + 2 * Limit <= n + 2)
      BY <1>1
    <3>2. CASE j \in 1..n
      BY <1>2, <1>5, <3>1, <3>2
    <3>3. CASE j = n + 1
      BY <1>1, <1>2, <1>7, <3>1, <3>3
    <3> QED
      BY <1>1, <3>2, <3>3
  <2> QED
    BY <1>2, <2>1 DEF BurstOK, w
<1> QED
  BY <1>9, <1>10

\* A further hit within the window, below the limit.
LEMMA WindowFills ==
  ASSUME LimitInv, NEW o \in Owners, now' = now,
         now < expiry[UserBucket(o)], count[UserBucket(o)] < Limit,
         count'[UserBucket(o)] = count[UserBucket(o)] + 1,
         expiry'[UserBucket(o)] = expiry[UserBucket(o)],
         Extended(o)
  PROVE  WindowOK(o)' /\ BurstOK(o)'
<1> DEFINE m == admitted[o]
           n == Len(m)
           w == admitted'[o]
           ends == expiry[UserBucket(o)]
           k == InWindow(o)
           first == First(o)
<1>1. /\ now \in Nat /\ ends \in Nat /\ n \in Nat /\ Limit \in Nat /\ Limit >= 1
      /\ Window \in Nat /\ Window >= 1 /\ k \in Nat
      /\ \A i \in 1..n : m[i] \in Nat
      /\ first = n - k + 1 /\ now < ends
  BY Numbers DEF LimitInv, First
<1>2. /\ Len(w) = n + 1 /\ w[n + 1] = now
      /\ \A i \in 1..n : w[i] = m[i]
  BY DEF Extended
<1>3. k < Limit /\ InWindow(o)' = k + 1
  BY <1>1, Numbers DEF LimitInv, InWindow, WithinLimit
<1>4. First(o)' = (n + 1) - (k + 1) + 1
  BY <1>2, <1>3 DEF First
<1>5. /\ k <= n /\ ends <= now + Window /\ (k = 0 => ends = 0)
      /\ \A i \in 1..n : /\ m[i] <= now
                         /\ i >= first => m[i] + Window >= ends
                         /\ i <= first => m[i] + Window <= ends
                         /\ i + Limit <= first => m[i] + Window + Window <= ends
      /\ \A i, j \in 1..n : j >= i + 2 * Limit - 1 => m[j] >= m[i] + Window
  BY DEF LimitInv, WindowOK, BurstOK
<1>6. expiry'[UserBucket(o)] = ends
  OBVIOUS
<1> HIDE DEF m, n, w, ends, k, first
<1>7. First(o)' = first
  BY <1>1, <1>4
<1>8. k >= 1 /\ first \in Nat /\ first <= n
  BY <1>1, <1>5
<1>9. \A i \in 1..n : i + 2 * Limit <= n + 2 => m[i] + Window <= now
  <2>1. \A i \in 1..n : i + 2 * Limit <= n + 2 => i + Limit <= first
    BY <1>1, <1>3
  <2>2. \A i \in 1..n : m[i] + Window + Window <= ends => m[i] + Window <= now
    BY <1>1, <1>5
  <2> QED
    BY <1>5, <2>1, <2>2
<1>10. \A i \in 1..(n + 1) : /\ w[i] <= now
                             /\ i >= first => w[i] + Window >= ends
                             /\ i <= first => w[i] + Window <= ends
                             /\ i + Limit <= first => w[i] + Window + Window <= ends
  <2>1. now + Window >= ends /\ ~(n + 1 <= first) /\ first <= n + 1
    BY <1>1, <1>5, <1>8
  <2> QED
    <3> SUFFICES ASSUME NEW i \in 1..(n + 1)
                 PROVE  /\ w[i] <= now
                        /\ i >= first => w[i] + Window >= ends
                        /\ i <= first => w[i] + Window <= ends
                        /\ i + Limit <= first => w[i] + Window + Window <= ends
      OBVIOUS
    <3>1. CASE i \in 1..n
      BY <1>2, <1>5, <3>1
    <3>2. CASE i = n + 1
      BY <1>1, <1>2, <1>8, <2>1, <3>2
    <3> QED
      BY <1>1, <3>1, <3>2
<1>11. WindowOK(o)'
  <2>1. InWindow(o)' <= n + 1 /\ InWindow(o)' # 0 /\ ends <= now' + Window
    BY <1>1, <1>3, <1>5
  <2>2. InWindow(o)' <= Len(admitted'[o]) /\ expiry'[UserBucket(o)] <= now' + Window
    BY <1>2, <1>6, <2>1 DEF w
  <2>3. \A i \in 1..Len(admitted'[o]) :
          /\ admitted'[o][i] <= now'
          /\ i >= First(o)' => admitted'[o][i] + Window >= expiry'[UserBucket(o)]
          /\ i <= First(o)' => admitted'[o][i] + Window <= expiry'[UserBucket(o)]
          /\ i + Limit <= First(o)' => admitted'[o][i] + Window + Window <= expiry'[UserBucket(o)]
    <3>1. Len(admitted'[o]) = n + 1 /\ admitted'[o] = w
      BY <1>2 DEF w
    <3>2. now' = now /\ expiry'[UserBucket(o)] = ends /\ First(o)' = first
      BY <1>6, <1>7
    <3> QED
      BY <1>10, <3>1, <3>2
  <2> QED
    BY <2>1, <2>2, <2>3 DEF WindowOK
<1>12. BurstOK(o)'
  <2>1. \A i, j \in 1..(n + 1) : j >= i + 2 * Limit - 1 => w[j] >= w[i] + Window
    <3> SUFFICES ASSUME NEW i \in 1..(n + 1), NEW j \in 1..(n + 1), j >= i + 2 * Limit - 1
                 PROVE  w[j] >= w[i] + Window
      OBVIOUS
    <3>1. i \in 1..n /\ i \in Nat /\ (j = n + 1 => i + 2 * Limit <= n + 2)
      BY <1>1
    <3>2. CASE j \in 1..n
      BY <1>2, <1>5, <3>1, <3>2
    <3>3. CASE j = n + 1
      BY <1>1, <1>2, <1>9, <3>1, <3>3
    <3> QED
      BY <1>1, <3>2, <3>3
  <2> QED
    BY <1>2, <2>1 DEF BurstOK, w
<1> QED
  BY <1>11, <1>12

\* A hit above the limit, or one of another bucket.
LEMMA WindowStays ==
  ASSUME LimitInv, NEW o \in Owners, now' = now,
         InWindow(o)' = InWindow(o),
         expiry'[UserBucket(o)] = expiry[UserBucket(o)], admitted'[o] = admitted[o]
  PROVE  WindowOK(o)' /\ BurstOK(o)'
<1>1. First(o)' = First(o)
  BY DEF First
<1> QED
  BY <1>1 DEF LimitInv, WindowOK, BurstOK

\* What a request counted does to an owner's window: its first hit, a further
\* one, or none that matters to it.
Opens(o) ==
  /\ expiry[UserBucket(o)] <= now
  /\ count'[UserBucket(o)] = 1
  /\ expiry'[UserBucket(o)] = now + Window
  /\ Extended(o)

Fills(o) ==
  /\ now < expiry[UserBucket(o)]
  /\ count[UserBucket(o)] < Limit
  /\ count'[UserBucket(o)] = count[UserBucket(o)] + 1
  /\ expiry'[UserBucket(o)] = expiry[UserBucket(o)]
  /\ Extended(o)

Stays(o) ==
  /\ InWindow(o)' = InWindow(o)
  /\ expiry'[UserBucket(o)] = expiry[UserBucket(o)]
  /\ admitted'[o] = admitted[o]

LEMMA Counted ==
  ASSUME SlotInv, LimitInv, NEW s \in Slots, CheckLimit(s)
  PROVE  /\ LimiterTypes'
         /\ now' = now
         /\ \A o \in Owners : Opens(o) \/ Fills(o) \/ Stays(o)
<1> DEFINE r == req[s]
           b == Bucket(r)
           x == <<r.client, r.path>>
<1>1. r \in Requests /\ b \in Buckets /\ x \in Owners
  BY BucketTypes, RequestFields DEF SlotInv, SlotOK, PlaceOK, CheckLimit, Inbound
<1>2. /\ now' = now /\ restarts' = restarts
      /\ count' = [count EXCEPT ![b] = Hit(b)]
      /\ expiry' = [expiry EXCEPT ![b] = IF WindowOver(b) THEN now + Window ELSE expiry[b]]
      /\ \/ /\ WithinLimit(Hit(b))
            /\ admitted' = IF r.token = None THEN admitted
                            ELSE [admitted EXCEPT ![x] = Append(admitted[x], now)]
         \/ ~WithinLimit(Hit(b)) /\ admitted' = admitted
  BY DEF CheckLimit
<1> HIDE DEF r, b, x
<1>3. /\ LimiterTypes /\ count[b] \in 0..(Limit + 1) /\ expiry[b] \in 0..(MaxTime + Window)
      /\ now \in 0..MaxTime /\ admitted[x] \in Seq(0..MaxTime)
      /\ Limit \in Nat /\ Limit >= 1 /\ Window \in Nat /\ MaxTime \in Nat
  BY <1>1, LimitAssumption, BoundsAssumption DEF LimitInv, LimiterTypes
<1>4. Hit(b) \in 0..(Limit + 1)
  BY <1>3 DEF Hit, WithinLimit
<1>5. LimiterTypes'
  <2>1. count' \in [Buckets -> 0..(Limit + 1)]
    BY <1>2, <1>3, <1>4 DEF LimiterTypes
  <2>2. expiry' \in [Buckets -> 0..(MaxTime + Window)]
    <3>1. now + Window \in 0..(MaxTime + Window)
      BY <1>3
    <3> QED
      BY <1>2, <1>3, <3>1 DEF LimiterTypes
  <2>3. Append(admitted[x], now) \in Seq(0..MaxTime)
    BY <1>3
  <2>4. admitted' \in [Owners -> Seq(0..MaxTime)]
    BY <1>2, <1>3, <2>3 DEF LimiterTypes
  <2> QED
    BY <1>2, <1>3, <2>1, <2>2, <2>4 DEF LimiterTypes
<1>6. ASSUME NEW o \in Owners PROVE Opens(o) \/ Fills(o) \/ Stays(o)
  <2> DEFINE u == UserBucket(o)
  <2>1. u \in Buckets
    BY BucketTypes
  <2>2. b = u <=> r.token # None /\ o = x
    BY <1>1, OwnBucket DEF b, x
  <2> HIDE DEF u
  <2>3. CASE b # u
    <3>1. count'[u] = count[u] /\ expiry'[u] = expiry[u] /\ admitted'[o] = admitted[o]
      BY <1>1, <1>2, <1>3, <2>1, <2>2, <2>3 DEF LimiterTypes
    <3>2. InWindow(o)' = InWindow(o)
      BY <3>1 DEF InWindow, u
    <3> QED
      BY <3>1, <3>2 DEF u, Stays
  <2>4. CASE b = u
    <3>1. /\ r.token # None /\ o = x /\ count'[u] = Hit(b)
          /\ expiry'[u] = IF WindowOver(b) THEN now + Window ELSE expiry[u]
      BY <1>1, <1>2, <1>3, <2>2, <2>4 DEF LimiterTypes
    <3>2. CASE WindowOver(b)
      <4>1. Hit(b) = 1 /\ WithinLimit(Hit(b))
        BY <1>3, <3>2 DEF Hit, WithinLimit
      <4>2. admitted'[o] = Append(admitted[o], now)
        BY <1>1, <1>2, <1>3, <3>1, <4>1 DEF LimiterTypes
      <4> QED
        BY <2>4, <3>1, <3>2, <4>1, <4>2, LetThrough DEF u, WindowOver, Opens
    <3>3. CASE ~WindowOver(b) /\ count[u] < Limit
      <4>1. Hit(b) = count[u] + 1 /\ WithinLimit(Hit(b))
        BY <1>3, <2>4, <3>3 DEF Hit, WithinLimit
      <4>2. admitted'[o] = Append(admitted[o], now)
        BY <1>1, <1>2, <1>3, <3>1, <4>1 DEF LimiterTypes
      <4>3. now < expiry[u]
        BY <1>3, <2>4, <3>3 DEF WindowOver
      <4> QED
        BY <2>4, <3>1, <3>3, <4>1, <4>2, <4>3, LetThrough DEF u, Fills
    <3>4. CASE ~WindowOver(b) /\ ~(count[u] < Limit)
      <4>1. ~WithinLimit(Hit(b)) /\ count'[u] = Hit(b) /\ expiry'[u] = expiry[u]
        BY <1>3, <2>4, <3>1, <3>4 DEF Hit, WithinLimit
      <4>2. InWindow(o)' = Limit /\ InWindow(o) = Limit
        BY <1>3, <2>4, <3>4, <4>1 DEF InWindow, WithinLimit, u
      <4>3. admitted'[o] = admitted[o]
        BY <1>2, <4>1
      <4> QED
        BY <4>1, <4>2, <4>3 DEF u, Stays
    <3> QED
      BY <3>2, <3>3, <3>4
  <2> QED
    BY <2>3, <2>4
<1> QED
  BY <1>2, <1>5, <1>6

LEMMA CountKeeps ==
  ASSUME SlotInv, LimitInv, NEW s \in Slots, CheckLimit(s)
  PROVE  LimitInv'
<1>1. LimiterTypes' /\ now' = now
  BY Counted
<1>2. ASSUME NEW o \in Owners PROVE WindowOK(o)' /\ BurstOK(o)'
  <2>1. CASE Opens(o)
    BY <1>1, <2>1, WindowOpens DEF Opens
  <2>2. CASE Fills(o)
    BY <1>1, <2>2, WindowFills DEF Fills
  <2>3. CASE Stays(o)
    BY <1>1, <2>3, WindowStays DEF Stays
  <2> QED
    BY <2>1, <2>2, <2>3, Counted
<1> QED
  BY <1>1, <1>2 DEF LimitInv

LEMMA LimitKept ==
  ASSUME LimitInv, UNCHANGED <<now, limiter, restarts>>
  PROVE  LimitInv'
<1>1. UNCHANGED <<now, count, expiry, admitted, restarts>>
  BY DEF limiter
<1>2. LimiterTypes'
  BY <1>1 DEF LimitInv, LimiterTypes
<1>3. ASSUME NEW o \in Owners PROVE WindowOK(o)' /\ BurstOK(o)'
  <2>1. InWindow(o)' = InWindow(o)
    BY <1>1 DEF InWindow
  <2> QED
    BY <1>1, <2>1, WindowStays
<1> QED
  BY <1>2, <1>3 DEF LimitInv

LEMMA LimitNext == SlotInv /\ LimitInv /\ [Next]_vars => LimitInv'
<1> SUFFICES ASSUME SlotInv, LimitInv, [Next]_vars PROVE LimitInv'
  OBVIOUS
<1>1. CASE \E s \in Slots : Step(s)
  <2>1. PICK s \in Slots : Step(s)
    BY <1>1
  <2>2. CASE CheckLimit(s)
    BY <2>2, CountKeeps
  <2>3. CASE ~CheckLimit(s)
    <3>1. UNCHANGED <<now, limiter, restarts>>
      BY <2>1, <2>3 DEF Step, EnterContext, AnswerPreflight, Forward, SkipLimiter, Handle,
         LeaveContext, LeaveSecurity, LeaveOthers, Deliver, Finish
    <3> QED
      BY <3>1, LimitKept
  <2> QED
    BY <2>2, <2>3
<1>2. CASE \E s \in Slots : \E r \in Requests : Receive(s, r)
  BY <1>2, LimitKept DEF Receive
<1>3. CASE Tick
  BY <1>3, TickKeeps
<1>4. CASE Restart
  <2>1. now \in 0..MaxTime /\ restarts \in 0..MaxRestarts
    BY DEF LimitInv, LimiterTypes
  <2>2. /\ now' \in 0..MaxTime /\ restarts' \in 0..MaxRestarts
        /\ count' = [b \in Buckets |-> 0] /\ expiry' = [b \in Buckets |-> 0]
        /\ admitted' = [x \in Clients \X Paths |-> <<>>]
    BY <1>4, <2>1, BoundsAssumption DEF Restart
  <2>3. LimiterTypes'
    BY <2>2, LimitAssumption, BoundsAssumption DEF LimiterTypes, Owners
  <2>4. ASSUME NEW o \in Owners PROVE WindowOK(o)' /\ BurstOK(o)'
    <3>1. /\ admitted'[o] = <<>> /\ count'[UserBucket(o)] = 0 /\ expiry'[UserBucket(o)] = 0
          /\ Len(admitted'[o]) = 0 /\ 1..Len(admitted'[o]) = {}
      BY <2>2, BucketTypes DEF Owners
    <3>2. InWindow(o)' = 0
      BY <3>1, LimitAssumption DEF InWindow, WithinLimit
    <3>3. WindowOK(o)'
      BY <2>2, <3>1, <3>2, LimitAssumption, BoundsAssumption DEF WindowOK
    <3>4. BurstOK(o)'
      BY <3>1 DEF BurstOK
    <3> QED
      BY <3>3, <3>4
  <2> QED
    BY <2>3, <2>4 DEF LimitInv
<1>5. CASE UNCHANGED vars
  BY <1>5, LimitKept DEF vars
<1> QED
  BY <1>1, <1>2, <1>3, <1>4, <1>5 DEF Next

LEMMA FrontInvariant == Spec => [](SlotInv /\ LimitInv)
<1>1. Init => LimitInv
  <2> SUFFICES ASSUME Init PROVE LimitInv
    OBVIOUS
  <2>1. now \in 0..MaxTime /\ restarts \in 0..MaxRestarts
    BY BoundsAssumption DEF Init
  <2> QED
    BY <2>1, LimitInit DEF Init
<1> QED
  BY <1>1, SlotInit, SlotNext, LimitNext, PTL DEF Spec

\* Nobody but the limiter, at its own layer, gives the limiter's answer.
LEMMA Refusing ==
  ASSUME SlotInv, [Next]_vars, NEW s \in Slots,
         result[s] = NoResult, result'[s] = RateLimitReply(s)
  PROVE  CheckLimit(s) /\ ~WithinLimit(Hit(Bucket(req[s])))
<1>1. /\ RateLimitReply(s) # NoResult /\ RateLimitReply(s) # Exception
      /\ RateLimitReply(s) # Success /\ RateLimitReply(s) # PlainText400
      /\ RateLimitReply(s) # Failure(s, "client_error", {})
  <2>1. RateLimitReply(s).kind = "response" /\ RateLimitReply(s).status = "429"
    BY DEF RateLimitReply, Failure
  <2>2. /\ NoResult.kind = "none" /\ Exception.kind = "exception"
        /\ Success.status = "ok" /\ PlainText400.status = "client_error"
        /\ Failure(s, "client_error", {}).status = "client_error"
    BY DEF NoResult, Exception, Success, PlainText400, Failure
  <2> QED
    BY <2>1, <2>2
<1>2. SlotTypes /\ result' # result /\ result'[s] # result[s]
  BY <1>1 DEF SlotInv
<1>3. ~Outbound(s)
  BY DEF SlotInv, SlotOK, ResultOK, Outside, Outbound
<1>4. PICK t \in Slots : Step(t)
  <2>1. ~Restart
    BY <1>1 DEF Restart
  <2> QED
    BY <1>2, <2>1 DEF Next, Receive, Tick, slot, vars
<1>5. t = s
  <2>1. CASE LeaveContext(t) \/ LeaveSecurity(t)
    BY <1>2, <2>1 DEF LeaveContext, LeaveSecurity, AddHeader, SlotTypes
  <2>2. CASE ~LeaveContext(t) /\ ~LeaveSecurity(t)
    BY <1>2, <1>4, <2>2 DEF Step, EnterContext, AnswerPreflight, Forward, SkipLimiter, CheckLimit,
       Handle, LeaveOthers, Deliver, Finish, SlotTypes
  <2> QED
    BY <2>1, <2>2
<1>6. AnswerPreflight(s) \/ CheckLimit(s) \/ Handle(s) \/ Finish(s)
  BY <1>2, <1>3, <1>4, <1>5 DEF Step, EnterContext, Forward, SkipLimiter, LeaveContext,
     LeaveSecurity, LeaveOthers, Deliver
<1>7. ~AnswerPreflight(s) /\ ~Finish(s)
  BY <1>1, <1>2 DEF AnswerPreflight, Finish, SlotTypes
<1>8. ~Handle(s)
  BY <1>1, <1>2 DEF Handle, SlotTypes
<1>9. CheckLimit(s)
  BY <1>6, <1>7, <1>8
<1> QED
  BY <1>2, <1>9 DEF CheckLimit

LEMMA RefusedAtLimit ==
  ASSUME SlotInv, LimitInv, NEW s \in Slots, CheckLimit(s),
         ~WithinLimit(Hit(Bucket(req[s]))), req[s].token # None
  PROVE  LET mine == admitted[<<req[s].client, req[s].path>>]
         IN  Len(mine) >= Limit /\ mine[Len(mine) - Limit + 1] > now - Window
<1> DEFINE o == <<req[s].client, req[s].path>>
           mine == admitted[o]
           n == Len(mine)
           ends == expiry[UserBucket(o)]
<1>1. req[s] \in Requests /\ o \in Owners /\ Bucket(req[s]) = UserBucket(o)
  BY RequestFields, OwnBucket DEF SlotInv, SlotOK, PlaceOK, CheckLimit, Inbound
<1> HIDE DEF o
<1>2. /\ now \in Nat /\ ends \in Nat /\ count[UserBucket(o)] \in Nat /\ n \in Nat
      /\ Limit \in Nat /\ Limit >= 1 /\ Window \in Nat
      /\ \A i \in 1..n : mine[i] \in Nat
  BY <1>1, Numbers DEF LimitInv
<1>3. ends > now /\ ~(count[UserBucket(o)] < Limit)
  BY <1>1, <1>2 DEF Hit, WindowOver, WithinLimit
<1>4. InWindow(o) = Limit
  BY <1>2, <1>3 DEF InWindow, WithinLimit
<1>5. Limit <= n /\ \A i \in 1..n : i >= n - Limit + 1 => mine[i] + Window >= ends
  BY <1>1, <1>4 DEF LimitInv, WindowOK, First
<1> DEFINE i == n - Limit + 1
<1>6. i \in 1..n /\ i >= n - Limit + 1
  BY <1>2, <1>5
<1>7. mine[i] \in Nat /\ mine[i] + Window >= ends
  BY <1>2, <1>5, <1>6
<1>8. mine[i] > now - Window
  BY <1>2, <1>3, <1>7
<1> QED
  BY <1>5, <1>8, <1>2 DEF o

-----------------------------------------------------------------------------
(* The rate over any number of windows *)

\* Whatever is k limits before the current window's first request was let
\* through k windows before that window started.
RateOK(o) ==
  \A i \in 1..Len(admitted[o]), k \in Nat :
    i + k * Limit <= First(o) =>
      admitted[o][i] + k * Window + Window <= expiry[UserBucket(o)]

SustainedOK(o) ==
  \A i, j \in 1..Len(admitted[o]), k \in Nat :
    j >= i + (k + 1) * Limit - 1 => admitted[o][j] >= admitted[o][i] + k * Window

RateInv == \A o \in Owners : RateOK(o) /\ SustainedOK(o)

\* k limits and k windows, for a k of one more.
LEMMA Multiples ==
  ASSUME NEW k \in Nat
  PROVE  /\ k * Limit \in Nat /\ k * Window \in Nat
         /\ (k + 1) * Limit = k * Limit + Limit
         /\ (k + 1) * Window = k * Window + Window
BY LimitAssumption

\* The first request of a new window: the last window's first one was let
\* through a whole window before.
LEMMA RateOpens ==
  ASSUME LimitInv, NEW o \in Owners, RateOK(o), now' = now,
         expiry[UserBucket(o)] <= now,
         count'[UserBucket(o)] = 1, expiry'[UserBucket(o)] = now + Window,
         Extended(o)
  PROVE  RateOK(o)'
<1> DEFINE m == admitted[o]
           n == Len(m)
           w == admitted'[o]
           ends == expiry[UserBucket(o)]
<1>1. /\ now \in Nat /\ ends \in Nat /\ n \in Nat /\ Limit \in Nat /\ Limit >= 1
      /\ Window \in Nat /\ InWindow(o) \in Nat /\ InWindow(o) <= Limit
      /\ \A i \in 1..n : m[i] \in Nat
      /\ First(o) = n - InWindow(o) + 1 /\ ends <= now
  BY Numbers DEF LimitInv, First
<1>2. /\ Len(w) = n + 1 /\ w[n + 1] = now
      /\ \A i \in 1..n : w[i] = m[i] /\ m[i] <= now
  BY DEF Extended, LimitInv, WindowOK
<1>3. First(o)' = n + 1
  <2>1. InWindow(o)' = 1
    BY <1>1 DEF InWindow, WithinLimit
  <2> QED
    BY <1>1, <1>2, <2>1 DEF First
<1>4. \A i \in 1..n, k \in Nat : i + k * Limit <= First(o) => m[i] + k * Window + Window <= ends
  BY DEF RateOK
<1> HIDE DEF m, n, w, ends
<1>5. ASSUME NEW i \in 1..(n + 1), NEW k \in Nat, i + k * Limit <= n + 1
      PROVE  w[i] + k * Window + Window <= now + Window
  <2>1. CASE k = 0
    <3>1. w[i] \in Nat /\ w[i] <= now
      BY <1>1, <1>2
    <3>2. k * Window = 0
      BY <1>1, <2>1
    <3> QED
      BY <1>1, <3>1, <3>2
  <2>2. CASE k # 0
    <3> DEFINE p == k - 1
               pL == p * Limit
               pW == p * Window
    <3>1. p \in Nat /\ k = p + 1
      BY <2>2
    <3>2. /\ pL \in Nat /\ pW \in Nat
          /\ k * Limit = pL + Limit /\ k * Window = pW + Window
      BY <3>1, Multiples
    <3>3. \A x \in 1..n : x + pL <= First(o) => m[x] + pW + Window <= ends
      BY <1>4, <3>1
    <3> HIDE DEF p, pL, pW
    <3>4. i \in 1..n /\ i + pL <= First(o)
      BY <1>1, <1>5, <3>2
    <3>5. m[i] + pW + Window <= ends /\ w[i] = m[i] /\ m[i] \in Nat
      BY <1>1, <1>2, <3>3, <3>4
    <3> QED
      BY <1>1, <3>2, <3>5
  <2> QED
    BY <2>1, <2>2
<1> QED
  BY <1>2, <1>3, <1>5 DEF RateOK, w

\* A further request of the current window: nothing is before the first.
LEMMA RateFills ==
  ASSUME LimitInv, NEW o \in Owners, RateOK(o),
         now < expiry[UserBucket(o)], count[UserBucket(o)] < Limit,
         count'[UserBucket(o)] = count[UserBucket(o)] + 1,
         expiry'[UserBucket(o)] = expiry[UserBucket(o)],
         Extended(o)
  PROVE  RateOK(o)'
<1> DEFINE m == admitted[o]
           n == Len(m)
           w == admitted'[o]
           ends == expiry[UserBucket(o)]
<1>1. /\ ends \in Nat /\ n \in Nat /\ Limit \in Nat /\ now \in Nat
      /\ InWindow(o) \in Nat /\ First(o) = n - InWindow(o) + 1
      /\ count[UserBucket(o)] \in Nat
  BY Numbers DEF LimitInv, First
<1>2. Len(w) = n + 1 /\ \A i \in 1..n : w[i] = m[i]
  BY DEF Extended
<1>3. First(o)' = First(o) /\ First(o) <= n
  <2>1. InWindow(o)' = InWindow(o) + 1
    BY <1>1 DEF InWindow, WithinLimit
  <2>2. InWindow(o) # 0
    BY <1>1 DEF LimitInv, WindowOK
  <2>3. First(o)' = (n + 1) - (InWindow(o) + 1) + 1
    BY <1>1, <1>2, <2>1 DEF First
  <2> HIDE DEF n
  <2> QED
    BY <1>1, <2>2, <2>3
<1>4. \A i \in 1..n, k \in Nat : i + k * Limit <= First(o) => m[i] + k * Window + Window <= ends
  BY DEF RateOK
<1> HIDE DEF m, n, w, ends
<1>5. ASSUME NEW i \in 1..(n + 1), NEW k \in Nat, i + k * Limit <= First(o)
      PROVE  w[i] + k * Window + Window <= ends
  <2>1. k * Limit \in Nat
    BY Multiples
  <2>2. i \in 1..n
    BY <1>1, <1>3, <1>5, <2>1
  <2> QED
    BY <1>2, <1>4, <1>5, <2>2
<1>6. expiry'[UserBucket(o)] = ends
  BY DEF ends
<1> QED
  BY <1>2, <1>3, <1>5, <1>6 DEF RateOK, w

\* What is let through now is k windows after whatever is k + 1 limits before.
LEMMA SustainedExtends ==
  ASSUME LimitInv, LimitInv', NEW o \in Owners, SustainedOK(o), RateOK(o)', now' = now, Extended(o)
  PROVE  SustainedOK(o)'
<1> DEFINE m == admitted[o]
           n == Len(m)
           w == admitted'[o]
           ends == expiry'[UserBucket(o)]
           first == First(o)'
<1>1. /\ now \in Nat /\ n \in Nat /\ Limit \in Nat /\ Limit >= 1 /\ Window \in Nat
      /\ \A i \in 1..n : m[i] \in Nat
  BY Numbers DEF LimitInv
<1>2. /\ Len(w) = n + 1 /\ w[n + 1] = now
      /\ \A i \in 1..n : w[i] = m[i]
  BY DEF Extended
<1>3. \A i, j \in 1..n, k \in Nat : j >= i + (k + 1) * Limit - 1 => m[j] >= m[i] + k * Window
  BY DEF SustainedOK
<1>4. ends \in Nat /\ ends <= now + Window
  <2>1. expiry' \in [Buckets -> 0..(MaxTime + Window)] /\ WindowOK(o)'
    BY DEF LimitInv, LimiterTypes
  <2>2. expiry'[UserBucket(o)] \in 0..(MaxTime + Window)
    BY <2>1, BucketTypes
  <2> QED
    BY <1>1, <2>1, <2>2, BoundsAssumption DEF WindowOK
<1>5. first \in Int /\ first >= n + 2 - Limit
  <2>1. count' \in [Buckets -> 0..(Limit + 1)]
    BY DEF LimitInv, LimiterTypes
  <2>2. count'[UserBucket(o)] \in 0..(Limit + 1)
    BY <2>1, BucketTypes
  <2>3. InWindow(o)' \in Nat /\ InWindow(o)' <= Limit
    BY <1>1, <2>2 DEF InWindow, WithinLimit
  <2>4. First(o)' = (n + 1) - InWindow(o)' + 1
    BY <1>1, <1>2, <2>3 DEF First
  <2> QED
    BY <1>1, <2>3, <2>4
<1>6. \A i \in 1..(n + 1), k \in Nat : i + k * Limit <= first => w[i] + k * Window + Window <= ends
  BY <1>2 DEF RateOK
<1> HIDE DEF m, n, w, ends, first
<1>7. \A i \in 1..(n + 1) : w[i] \in Nat
  BY <1>1, <1>2
<1>8. ASSUME NEW i \in 1..(n + 1), NEW j \in 1..(n + 1), NEW k \in Nat,
             j >= i + (k + 1) * Limit - 1
      PROVE  w[j] >= w[i] + k * Window
  <2>1. CASE j \in 1..n
    <3> DEFINE kL == (k + 1) * Limit
    <3>1. kL \in Nat /\ kL >= 1
      <4>1. kL = k * Limit + Limit /\ k * Limit \in Nat
        BY Multiples
      <4> HIDE DEF kL
      <4> QED
        BY <1>1, <4>1
    <3>2. j >= i + kL - 1
      BY <1>8
    <3> HIDE DEF kL
    <3>3. i \in 1..n
      BY <1>1, <2>1, <3>1, <3>2
    <3> QED
      BY <1>2, <1>3, <1>8, <2>1, <3>3
  <2>2. CASE j = n + 1
    <3> DEFINE kL == k * Limit
               kW == k * Window
    <3>1. kL \in Nat /\ kW \in Nat /\ (k + 1) * Limit = kL + Limit
      BY Multiples
    <3>2. n + 1 >= i + (kL + Limit) - 1
      BY <1>8, <2>2, <3>1
    <3>3. i + kL <= first => w[i] + kW + Window <= ends
      BY <1>6
    <3> HIDE DEF kL, kW
    <3>4. w[i] + kW + Window <= ends
      BY <1>1, <1>5, <3>1, <3>2, <3>3
    <3>5. w[j] >= w[i] + kW
      BY <1>1, <1>2, <1>4, <1>7, <2>2, <3>1, <3>4
    <3> QED
      BY <3>5 DEF kW
  <2> QED
    BY <1>1, <2>1, <2>2
<1> QED
  BY <1>2, <1>8 DEF SustainedOK, w

\* Nothing is let through, and the window stays what it is.
LEMMA RateStays ==
  ASSUME NEW o \in Owners, RateOK(o), SustainedOK(o), InWindow(o)' = InWindow(o),
         expiry'[UserBucket(o)] = expiry[UserBucket(o)], admitted'[o] = admitted[o]
  PROVE  RateOK(o)' /\ SustainedOK(o)'
<1>1. First(o)' = First(o)
  BY DEF First
<1> QED
  BY <1>1 DEF RateOK, SustainedOK

LEMMA CountKeepsRate ==
  ASSUME SlotInv, LimitInv, LimitInv', RateInv, NEW s \in Slots, CheckLimit(s)
  PROVE  RateInv'
<1>1. now' = now
  BY Counted
<1>2. ASSUME NEW o \in Owners PROVE RateOK(o)' /\ SustainedOK(o)'
  <2>1. RateOK(o) /\ SustainedOK(o)
    BY DEF RateInv
  <2>2. CASE Opens(o)
    <3>1. RateOK(o)'
      BY <1>1, <2>1, <2>2, RateOpens DEF Opens
    <3> QED
      BY <1>1, <2>1, <2>2, <3>1, SustainedExtends DEF Opens
  <2>3. CASE Fills(o)
    <3>1. RateOK(o)'
      BY <2>1, <2>3, RateFills DEF Fills
    <3> QED
      BY <1>1, <2>1, <2>3, <3>1, SustainedExtends DEF Fills
  <2>4. CASE Stays(o)
    BY <2>1, <2>4, RateStays DEF Stays
  <2> QED
    BY <2>2, <2>3, <2>4, Counted
<1> QED
  BY <1>2 DEF RateInv

LEMMA RateKept ==
  ASSUME RateInv, UNCHANGED limiter
  PROVE  RateInv'
<1>1. UNCHANGED <<count, expiry, admitted>>
  BY DEF limiter
<1>2. ASSUME NEW o \in Owners PROVE RateOK(o)' /\ SustainedOK(o)'
  <2>1. InWindow(o)' = InWindow(o)
    BY <1>1 DEF InWindow
  <2> QED
    BY <1>1, <2>1, RateStays DEF RateInv
<1> QED
  BY <1>2 DEF RateInv

\* With no request let through there is nothing to say.
LEMMA RateInit ==
  ASSUME admitted = [x \in Clients \X Paths |-> <<>>]
  PROVE  RateInv
<1>1. ASSUME NEW o \in Owners PROVE 1..Len(admitted[o]) = {}
  BY <1>1 DEF Owners
<1> QED
  BY <1>1 DEF RateInv, RateOK, SustainedOK

LEMMA RateNext == SlotInv /\ LimitInv /\ RateInv /\ [Next]_vars => RateInv'
<1> SUFFICES ASSUME SlotInv, LimitInv, RateInv, [Next]_vars PROVE RateInv'
  OBVIOUS
<1>1. LimitInv'
  BY LimitNext
<1>2. CASE \E s \in Slots : Step(s)
  <2>1. PICK s \in Slots : Step(s)
    BY <1>2
  <2>2. CASE CheckLimit(s)
    BY <1>1, <2>2, CountKeepsRate
  <2>3. CASE ~CheckLimit(s)
    <3>1. UNCHANGED limiter
      BY <2>1, <2>3 DEF Step, EnterContext, AnswerPreflight, Forward, SkipLimiter, Handle,
         LeaveContext, LeaveSecurity, LeaveOthers, Deliver, Finish
    <3> QED
      BY <3>1, RateKept
  <2> QED
    BY <2>2, <2>3
<1>3. CASE \E s \in Slots : \E r \in Requests : Receive(s, r)
  BY <1>3, RateKept DEF Receive
<1>4. CASE Tick
  BY <1>4, RateKept DEF Tick
<1>5. CASE Restart
  <2>1. ASSUME NEW o \in Owners PROVE 1..Len(admitted'[o]) = {}
    BY <1>5, <2>1 DEF Owners, Restart
  <2> QED
    BY <2>1 DEF RateInv, RateOK, SustainedOK
<1>6. CASE UNCHANGED vars
  BY <1>6, RateKept DEF vars
<1> QED
  BY <1>2, <1>3, <1>4, <1>5, <1>6 DEF Next

-----------------------------------------------------------------------------
(* The theorems *)

\* Every variable keeps its type, the counters stop right above the limit.
THEOREM FrontTypes == Spec => []TypeOK
<1>1. SlotInv /\ LimitInv => TypeOK
  BY FourLayers DEF SlotInv, LimitInv, SlotTypes, LimiterTypes, TypeOK, Dirs, Owners
<1> QED
  BY <1>1, FrontInvariant, PTL

\* Every failure that reaches a client has the envelope and its request's id,
\* but for CORS's refusal of a preflight (main.py:63-137).
THEOREM FailuresEnveloped == Spec => []FailureHasEnvelope
<1>1. SlotInv => FailureHasEnvelope
  <2> SUFFICES ASSUME SlotInv, NEW s \in Slots, Failed(s), ~req[s].preflight
               PROVE  result[s].envelope /\ result[s].id
    BY DEF FailureHasEnvelope
  <2> QED
    BY DEF SlotInv, SlotOK, ResultOK, Failed, Sent
<1> QED
  BY <1>1, FrontInvariant, PTL

\* One line in the access log for each request, and the id and the security
\* headers on each answer that passes the layers which add them
\* (middleware.py:24-80).
THEOREM RepliesTraced == Spec => []EveryReplyTraced
<1>1. SlotInv => EveryReplyTraced
  <2> SUFFICES ASSUME SlotInv, NEW s \in Slots, Sent(s)
               PROVE  /\ lines[s] = 1
                      /\ result[s].status # "500" => "request_id" \in result[s].headers
                      /\ result[s].status # "500" /\ ~req[s].preflight =>
                           "security" \in result[s].headers
    BY DEF EveryReplyTraced
  <2>1. SlotOK(s) /\ at[s].dir = "sent"
    BY DEF SlotInv, Sent
  <2>2. at[s].pos = 0 /\ result[s] \in Response
    BY <2>1 DEF SlotOK, PlaceOK, ResultOK
  <2>3. lines[s] = 1
    BY <2>1, <2>2 DEF SlotOK, TracedOK, Outside
  <2> QED
    BY <2>1, <2>2, <2>3 DEF SlotOK, HeadersOK
<1> QED
  BY <1>1, FrontInvariant, PTL

\* The burst across a window's edge is bounded, for any limit and any window
\* (ratelimit.py:31).
THEOREM BurstsBounded == Spec => []BurstBound
<1>1. LimitInv => BurstBound
  BY DEF LimitInv, BurstBound, BurstOK, Owners
<1> QED
  BY <1>1, FrontInvariant, PTL

\* A period shorter than k windows sees fewer than k + 1 limits of a signed-in
\* user's requests on a path, as long as the process lives: who comes back at
\* every edge gains less than one limit over RATE_LIMIT in all, not one at each
\* (ratelimit.py:31).  With k = 1 this is BurstBound.
SustainedRate ==
  \A o \in Clients \X Paths :
    \A i, j \in 1..Len(admitted[o]), k \in Nat :
      j >= i + (k + 1) * Limit - 1 => admitted[o][j] >= admitted[o][i] + k * Window

\* It holds for any limit, any window and however long the process lives.
THEOREM RateSustained == Spec => []SustainedRate
<1>1. Init => RateInv
  BY RateInit DEF Init
<1>2. RateInv => SustainedRate
  BY DEF RateInv, SustainedOK, SustainedRate, Owners
<1> QED
  BY <1>1, <1>2, RateNext, FrontInvariant, PTL DEF Spec

\* A signed-in user is refused only for that user's own requests
\* (ratelimit.py:14-15).
THEOREM RefusalsAreEarned == Spec => RefusedOnlyAfterOwnLimit
<1>1. SlotInv /\ LimitInv /\ [Next]_vars =>
        [\A s \in Slots :
           /\ result[s] = NoResult
           /\ result'[s] = RateLimitReply(s)
           /\ req[s].token # None
           => LET mine == admitted[<<req[s].client, req[s].path>>]
              IN  /\ Len(mine) >= Limit
                  /\ mine[Len(mine) - Limit + 1] > now - Window]_vars
  BY Refusing, RefusedAtLimit
<1> QED
  BY <1>1, FrontInvariant, PTL DEF Spec, RefusedOnlyAfterOwnLimit

=============================================================================
