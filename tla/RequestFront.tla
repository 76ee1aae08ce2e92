----------------------------- MODULE RequestFront -----------------------------
(***************************************************************************)
(* What every request passes on its way to a handler and back: the         *)
(* middleware of main.py, the rate limiter and the exception handlers.     *)
(* Starlette nests the middleware, the last one added outermost; each      *)
(* forwards the request to the next one inside and may touch the response  *)
(* that comes back.  An exception passes them all unless a handler of the  *)
(* innermost layer turns it into a response; what is left of it becomes    *)
(* the 500 of the outermost.  Requests are served concurrently by one      *)
(* process, whose memory holds the limiter's counters.  Time is counted in *)
(* ticks.  Contents of headers and bodies are abstracted to which of them  *)
(* a response has.                                                         *)
(***************************************************************************)
EXTENDS Naturals, Sequences, FiniteSets

CONSTANTS
  Slots,        \* requests being served at one time
  Clients,      \* who sends requests; the holder of an account is its client
  Addresses,    \* IP addresses
  Limited,      \* URL paths of ordinary routes
  Exempt,       \* those decorated with @limiter.exempt
  Unknown,      \* what no route matches: other paths, other methods on a path
  Requests,     \* the requests clients send
  Limit,        \* RATE_LIMIT's number of requests, 100
  Window,       \* ticks of its period, a minute
  MaxTime,      \* bound: the last tick
  MaxRestarts   \* bound: how often the process is restarted

Paths == Limited \cup Exempt \cup Unknown
None  == "none"

\* client: who really sends it.  token: the user a valid bearer token names,
\* None for a missing, invalid or expired one.  fwd: X-Forwarded-For's first
\* hop.  peer: the address of the connection, a proxy's in production.
\* preflight: a browser's OPTIONS request that asks CORS for permission.
Request == [client: Clients, token: Clients \cup {None},
            fwd: Addresses \cup {None}, peer: Addresses,
            path: Paths, preflight: BOOLEAN]

NoRequest == [client |-> None]

ASSUME PathsAssumption    == /\ Limited \cap Exempt = {}
                             /\ Limited \cap Unknown = {}
                             /\ Exempt \cap Unknown = {}
ASSUME NoneAssumption     == None \notin Clients \cup Addresses
ASSUME RequestsAssumption == /\ Requests \subseteq Request
                             /\ \A r \in Requests : r.token \in {r.client, None}
ASSUME LimitAssumption    == Limit \in Nat \ {0} /\ Window \in Nat \ {0}
ASSUME BoundsAssumption   == MaxTime \in Nat /\ MaxRestarts \in Nat

VARIABLES
  now,        \* the clock
  count,      \* the limiter's counter of each bucket
  expiry,     \* when the counter's window ends
  req,        \* the request of each slot
  at,         \* [dir, pos]: on its way in or out, and at which layer
  result,     \* the response or exception on its way out
  tagged,     \* whether request.state has a request_id
  lines,      \* access log lines written for the request
  admitted,   \* history: when it let requests of each signed-in client through
  restarts

limiter == <<count, expiry, admitted>>
slot    == <<req, at, result, tagged, lines>>
vars    == <<now, limiter, slot, restarts>>

-----------------------------------------------------------------------------
(* Layers and responses *)

\* A mutant: the middleware in the order in which it is added.
StackAsAdded == <<"limiter", "security", "cors", "context">>

\* From the outermost to the innermost.
Stack == <<"context", "cors", "security", "limiter">>

\* ServerErrorMiddleware is outside of them all, the router inside.
Layer(s) == IF at[s].pos = 0 THEN "server"
            ELSE IF at[s].pos > Len(Stack) THEN "router" ELSE Stack[at[s].pos]

Idle      == [dir |-> "idle", pos |-> 0]
Inbound(s)  == at[s].dir = "in"
Outbound(s) == at[s].dir = "out"
MoveTo(s, d, p) == at' = [at EXCEPT ![s] = [dir |-> d, pos |-> p]]

NoResult  == [kind |-> "none"]
Exception == [kind |-> "exception"]

Headers == {"request_id", "security", "retry_after"}

Response == [kind: {"response"}, status: {"ok", "client_error", "429", "500"},
             envelope: BOOLEAN, id: BOOLEAN, headers: SUBSET Headers]

Success == [kind |-> "response", status |-> "ok", envelope |-> FALSE,
            id |-> FALSE, headers |-> {}]

\* error_payload in a JSONResponse; the request_id is the one of the request's
\* state, None when no layer put it there.
Failure(s, st, hs) ==
  [kind |-> "response", status |-> st, envelope |-> TRUE,
   id |-> tagged[s], headers |-> hs]

\* slowapi's own answer, plain text.
PlainText429 == [kind |-> "response", status |-> "429", envelope |-> FALSE,
                 id |-> FALSE, headers |-> {}]

\* CORSMiddleware's refusal of a preflight that asks for a method outside its
\* list or comes from an origin outside CORS_ORIGINS: plain text as well.
PlainText400 == [kind |-> "response", status |-> "client_error", envelope |-> FALSE,
                 id |-> FALSE, headers |-> {}]

\* A mutant: handle_rate_limit is a coroutine, so slowapi does not call it.
RateLimitReplyAsync(s) == PlainText429

\* handle_rate_limit.
RateLimitReply(s) == Failure(s, "429", {"retry_after"})

\* A mutant: everyone is told apart by address.
AddressKey(r) == <<"ip", IF r.fwd # None THEN r.fwd ELSE r.peer>>

\* rate_limit_key.
RateLimitKey(r) ==
  IF r.token # None THEN <<"user", r.token>>
  ELSE <<"ip", IF r.fwd # None THEN r.fwd ELSE r.peer>>

\* slowapi counts a default limit for each key and URL path.
Bucket(r) == <<RateLimitKey(r), r.path>>
Keys      == ({"user"} \X Clients) \cup ({"ip"} \X Addresses)
Buckets   == Keys \X Paths

WindowOver(b) == expiry[b] <= now

\* A mutant: the request that reaches the limit is let through once more.
WithinLimitOrOneMore(n) == n <= Limit + 1

WithinLimit(n) == n <= Limit

\* The counter after one more hit; above the limit its value is the same to
\* everyone, so it stops there.
Hit(b) == IF WindowOver(b) THEN 1
          ELSE IF WithinLimit(count[b]) THEN count[b] + 1 ELSE count[b]

-----------------------------------------------------------------------------
(* The steps *)

Init ==
  /\ now = 0
  /\ count = [b \in Buckets |-> 0]
  /\ expiry = [b \in Buckets |-> 0]
  /\ req = [s \in Slots |-> NoRequest]
  /\ at = [s \in Slots |-> Idle]
  /\ result = [s \in Slots |-> NoResult]
  /\ tagged = [s \in Slots |-> FALSE]
  /\ lines = [s \in Slots |-> 0]
  /\ admitted = [x \in Clients \X Paths |-> <<>>]
  /\ restarts = 0

Receive(s, r) ==
  /\ at[s] = Idle
  /\ req' = [req EXCEPT ![s] = r]
  /\ MoveTo(s, "in", 1)
  /\ UNCHANGED <<now, limiter, result, tagged, lines, restarts>>

\* RequestContextMiddleware gives the request its id.
EnterContext(s) ==
  /\ Inbound(s)
  /\ Layer(s) = "context"
  /\ tagged' = [tagged EXCEPT ![s] = TRUE]
  /\ MoveTo(s, "in", at[s].pos + 1)
  /\ UNCHANGED <<now, limiter, req, result, lines, restarts>>

\* CORSMiddleware answers a preflight itself, with its permission or without.
AnswerPreflight(s) ==
  /\ Inbound(s)
  /\ Layer(s) = "cors"
  /\ req[s].preflight
  /\ \E x \in {Success, PlainText400} : result' = [result EXCEPT ![s] = x]
  /\ MoveTo(s, "out", at[s].pos - 1)
  /\ UNCHANGED <<now, limiter, req, tagged, lines, restarts>>

\* CORS otherwise, and SecurityHeadersMiddleware, only forward.
Forward(s) ==
  /\ Inbound(s)
  /\ \/ Layer(s) = "cors" /\ ~req[s].preflight
     \/ Layer(s) = "security"
  /\ MoveTo(s, "in", at[s].pos + 1)
  /\ UNCHANGED <<now, limiter, req, result, tagged, lines, restarts>>

\* SlowAPIMiddleware lets pass, uncounted, exempt routes and what no route
\* matches.
SkipLimiter(s) ==
  /\ Inbound(s)
  /\ Layer(s) = "limiter"
  /\ req[s].path \notin Limited
  /\ MoveTo(s, "in", at[s].pos + 1)
  /\ UNCHANGED <<now, limiter, req, result, tagged, lines, restarts>>

\* It counts any other request, in a window that starts with its first hit.
CheckLimit(s) ==
  /\ Inbound(s)
  /\ Layer(s) = "limiter"
  /\ req[s].path \in Limited
  /\ LET b == Bucket(req[s])
         o == <<req[s].client, req[s].path>>
     IN
     /\ count' = [count EXCEPT ![b] = Hit(b)]
     /\ expiry' = [expiry EXCEPT ![b] = IF WindowOver(b) THEN now + Window ELSE @]
     /\ \/ /\ WithinLimit(Hit(b))
           /\ admitted' = IF req[s].token = None THEN admitted
                           ELSE [admitted EXCEPT ![o] = Append(@, now)]
           /\ MoveTo(s, "in", at[s].pos + 1)
           /\ UNCHANGED result
        \/ /\ ~WithinLimit(Hit(b))
           /\ result' = [result EXCEPT ![s] = RateLimitReply(s)]
           /\ MoveTo(s, "out", at[s].pos - 1)
           /\ UNCHANGED admitted
  /\ UNCHANGED <<now, req, tagged, lines, restarts>>

\* The handler returns, or raises an exception that handle_app_error,
\* handle_validation_error or handle_http_exception answers (what no route
\* matches is a 404 or a 405 of that kind), or one that nobody there answers.
Handle(s) ==
  /\ Inbound(s)
  /\ Layer(s) = "router"
  /\ \E x \in {Success, Failure(s, "client_error", {}), Exception} :
       /\ req[s].path \in Unknown => x = Failure(s, "client_error", {})
       /\ result' = [result EXCEPT ![s] = x]
  /\ MoveTo(s, "out", Len(Stack))
  /\ UNCHANGED <<now, limiter, req, tagged, lines, restarts>>

AddHeader(s, h) ==
  IF result[s] = Exception THEN UNCHANGED result
  ELSE LET answer == result[s]
       IN  result' = [result EXCEPT ![s] = [answer EXCEPT !.headers = @ \cup {h}]]

\* RequestContextMiddleware logs "request", or "request_failed" and raises the
\* exception again.
LeaveContext(s) ==
  /\ Outbound(s)
  /\ Layer(s) = "context"
  /\ AddHeader(s, "request_id")
  /\ lines' = [lines EXCEPT ![s] = @ + 1]
  /\ MoveTo(s, "out", at[s].pos - 1)
  /\ UNCHANGED <<now, limiter, req, tagged, restarts>>

LeaveSecurity(s) ==
  /\ Outbound(s)
  /\ Layer(s) = "security"
  /\ AddHeader(s, "security")
  /\ MoveTo(s, "out", at[s].pos - 1)
  /\ UNCHANGED <<now, limiter, req, tagged, lines, restarts>>

LeaveOthers(s) ==
  /\ Outbound(s)
  /\ Layer(s) \in {"cors", "limiter"}
  /\ MoveTo(s, "out", at[s].pos - 1)
  /\ UNCHANGED <<now, limiter, req, result, tagged, lines, restarts>>

\* The server's outermost layer: handle_unexpected answers what is still an
\* exception, outside every middleware.
Deliver(s) ==
  /\ Outbound(s)
  /\ Layer(s) = "server"
  /\ result' = [result EXCEPT ![s] = IF @ = Exception THEN Failure(s, "500", {}) ELSE @]
  /\ MoveTo(s, "sent", 0)
  /\ UNCHANGED <<now, limiter, req, tagged, lines, restarts>>

Finish(s) ==
  /\ at[s].dir = "sent"
  /\ req' = [req EXCEPT ![s] = NoRequest]
  /\ at' = [at EXCEPT ![s] = Idle]
  /\ result' = [result EXCEPT ![s] = NoResult]
  /\ tagged' = [tagged EXCEPT ![s] = FALSE]
  /\ lines' = [lines EXCEPT ![s] = 0]
  /\ UNCHANGED <<now, limiter, restarts>>

Tick ==
  /\ now < MaxTime
  /\ now' = now + 1
  /\ UNCHANGED <<limiter, slot, restarts>>

\* The process dies with its requests and its counters.
Restart ==
  /\ restarts < MaxRestarts
  /\ restarts' = restarts + 1
  /\ count' = [b \in Buckets |-> 0]
  /\ expiry' = [b \in Buckets |-> 0]
  /\ admitted' = [x \in Clients \X Paths |-> <<>>]
  /\ req' = [s \in Slots |-> NoRequest]
  /\ at' = [s \in Slots |-> Idle]
  /\ result' = [s \in Slots |-> NoResult]
  /\ tagged' = [s \in Slots |-> FALSE]
  /\ lines' = [s \in Slots |-> 0]
  /\ UNCHANGED now

Step(s) ==
  \/ EnterContext(s) \/ AnswerPreflight(s) \/ Forward(s)
  \/ SkipLimiter(s) \/ CheckLimit(s) \/ Handle(s)
  \/ LeaveContext(s) \/ LeaveSecurity(s) \/ LeaveOthers(s)
  \/ Deliver(s) \/ Finish(s)

Next ==
  \/ \E s \in Slots : Step(s) \/ \E r \in Requests : Receive(s, r)
  \/ Tick
  \/ Restart

Spec == Init /\ [][Next]_vars

-----------------------------------------------------------------------------
(* Properties *)

\* The type of every variable.
TypeOK ==
  /\ now \in 0..MaxTime
  /\ count \in [Buckets -> 0..(Limit + 1)]
  /\ expiry \in [Buckets -> 0..(MaxTime + Window)]
  /\ req \in [Slots -> Requests \cup {NoRequest}]
  /\ at \in [Slots -> [dir: {"idle", "in", "out", "sent"}, pos: 0..(Len(Stack) + 1)]]
  /\ result \in [Slots -> Response \cup {NoResult, Exception}]
  /\ tagged \in [Slots -> BOOLEAN]
  /\ lines \in [Slots -> 0..1]
  /\ admitted \in [Clients \X Paths -> Seq(0..MaxTime)]
  /\ restarts \in 0..MaxRestarts

Sent(s) == at[s].dir = "sent"

Failed(s) == Sent(s) /\ result[s].status # "ok"

\* Every failure that arises behind CORS - in a handler, in the framework's
\* router, in the limiter or nowhere in particular - reaches the client in the
\* one envelope, with the request's id in it (main.py:78-79 and 105-107).  A
\* refused preflight does not: CORSMiddleware answers it in plain text, which
\* "every failure, without exception" of README.md:136 leaves out.
FailureHasEnvelope ==
  \A s \in Slots :
    Failed(s) /\ ~req[s].preflight => result[s].envelope /\ result[s].id

\* README.md:136-145 of every failure, without exception: its request_id is
\* echoed in the X-Request-ID header.  A 500 arises above the layer that does.
FailureEchoesId ==
  \A s \in Slots : Failed(s) => "request_id" \in result[s].headers

\* Every request leaves exactly one line in the access log, and every answer
\* carries the request id and the security headers, a refusal by the limiter
\* included (middleware.py:1-3, 18).  Two answers arise outside these layers:
\* the 500, above all of them, and the preflight's, above the security headers.
\* Of the 500 FailureEchoesId states what README.md:144 promises otherwise.
EveryReplyTraced ==
  \A s \in Slots :
    Sent(s) =>
      /\ lines[s] = 1
      /\ result[s].status # "500" => "request_id" \in result[s].headers
      /\ result[s].status # "500" /\ ~req[s].preflight =>
           "security" \in result[s].headers

\* A window starts with its first hit, so two of them may meet: any period as
\* long as a window sees at most 2 * Limit - 1 requests of a signed-in user on
\* one path, however they fall, as long as the process lives (ratelimit.py:31).
BurstBound ==
  \A o \in Clients \X Paths :
    \A i, j \in 1..Len(admitted[o]) :
      j >= i + 2 * Limit - 1 => admitted[o][j] >= admitted[o][i] + Window

\* Who has a valid token is refused only after Limit requests of that very
\* user were let through within a window's time, whatever traffic others send
\* from the same address (ratelimit.py:14-15).
RefusedOnlyAfterOwnLimit ==
  [][\A s \in Slots :
       /\ result[s] = NoResult
       /\ result'[s] = RateLimitReply(s)
       /\ req[s].token # None
       => LET mine == admitted[<<req[s].client, req[s].path>>]
          IN  /\ Len(mine) >= Limit
              /\ mine[Len(mine) - Limit + 1] > now - Window]_vars

=============================================================================
