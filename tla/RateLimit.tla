----------------------------- MODULE RateLimit -----------------------------
(***************************************************************************)
(* RateLimitMiddleware and, inside it, AuthMiddleware: each request counts *)
(* itself under ratelimit:<method>:<address> with INCR; the first one sets *)
(* the time to live with EXPIRE, a call of its own; a request that Redis   *)
(* fails goes through uncounted.                                           *)
(***************************************************************************)
EXTENDS Integers

CONSTANTS
    Address,    \* client addresses as the backend sees them
    Method,     \* HTTP methods in use
    Limits,     \* Limits[m]: requests per window (GET 200, POST 50, ...)
    Window,     \* of 60 s, in ticks
    Request,    \* requests in flight
    MaxCount,   \* bound, above every limit: counters from it on are not told apart
    MaxFaults   \* bound: failed calls, lost replies, crashes, losses of Redis

ASSUME MethodAssumption ==
    /\ Method \subseteq {"GET", "POST", "PUT", "DELETE"}
    /\ Limits \in [Method -> Nat \ {0}]
ASSUME BoundAssumption ==
    /\ Window \in Nat \ {0} /\ MaxFaults \in Nat
    /\ MaxCount \in Nat /\ \A m \in Method : Limits[m] < MaxCount

VARIABLES
    count,   \* the counter of a key; 0: there is no such key
    ttl,     \* its ticks to live; 0: it has no time to live
    req,     \* per request: its place and its key
    passed,  \* history: passed[k][a], requests of k let through in the last a ticks and this one
    faults   \* faults so far

keyVars == <<count, ttl>>
vars == <<keyVars, req, passed, faults>>

Key == Method \X Address
Limit(k) == Limits[k[1]]
Age == 0..Window - 1

Progress == [at : {"idle", "incr", "expire", "auth", "handler"}, key : Key]

----------------------------------------------------------------------------
At(r, place) == req[r].at = place
Goto(r, place) == req' = [req EXCEPT ![r] = [@ EXCEPT !.at = place]]

Fault == faults < MaxFaults /\ faults' = faults + 1

\* The key that a request counts under.
Arrive(r) ==
    /\ At(r, "idle")
    /\ \E k \in Key : req' = [req EXCEPT ![r] = [at |-> "incr", key |-> k]]
    /\ UNCHANGED <<keyVars, passed, faults>>

\* INCR has made the counter n.  Mutant: one request too many.
Exceeds_Late(k, n) == n > Limit(k) + 1
Exceeds(k, n) == n > Limit(k)

\* The first request of a window is the one that sets its end.  Mutants: the one that
\* reaches the limit; every request.
SetsExpiry_AtLimit(k, n) == n = Limit(k)
SetsExpiry_Always(k, n) == TRUE
SetsExpiry(k, n) == n = 1

Incremented(k) == IF count[k] < MaxCount THEN count[k] + 1 ELSE MaxCount

Pass(k) == passed' = [passed EXCEPT ![k] = [a \in Age |-> @[a] + 1]]

Incr(r) ==
    LET k == req[r].key
        n == Incremented(k)
    IN  /\ At(r, "incr")
        /\ count' = [count EXCEPT ![k] = n]
        /\ Goto(r, IF SetsExpiry(k, n) THEN "expire"
                   ELSE IF Exceeds(k, n) THEN "idle" ELSE "auth")
        /\ IF Exceeds(k, n) THEN UNCHANGED passed ELSE Pass(k)
        /\ UNCHANGED <<ttl, faults>>

\* EXPIRE; no effect on a key that is gone.  Mutant: it adds to the time left.
NewTtl_Adds(k) == IF count[k] > 0 THEN ttl[k] + Window ELSE 0
NewTtl(k) == IF count[k] > 0 THEN Window ELSE 0
Expire(r) ==
    LET k == req[r].key
    IN  /\ At(r, "expire")
        /\ ttl' = [ttl EXCEPT ![k] = NewTtl(k)]
        /\ Goto(r, "auth")
        /\ UNCHANGED <<count, passed, faults>>

\* "Redis down: skip rate limiting".  A call that fails may have been executed.
IncrFails(r) ==
    LET k == req[r].key
    IN  /\ At(r, "incr")
        /\ Fault
        /\ \/ UNCHANGED count
           \/ count' = [count EXCEPT ![k] = Incremented(k)]
        /\ Pass(k)
        /\ Goto(r, "auth")
        /\ UNCHANGED ttl

ExpireFails(r) ==
    /\ At(r, "expire")
    /\ Fault
    /\ Goto(r, "auth")
    /\ UNCHANGED <<keyVars, passed>>

\* 401 for a write that comes without the API key; the limiter has counted it.
Auth(r) ==
    /\ At(r, "auth")
    /\ \/ Goto(r, "handler")
       \/ req[r].key[1] \in {"POST", "PUT", "DELETE"} /\ Goto(r, "idle")
    /\ UNCHANGED <<keyVars, passed, faults>>

Handle(r) ==
    /\ At(r, "handler")
    /\ Goto(r, "idle")
    /\ UNCHANGED <<keyVars, passed, faults>>

----------------------------------------------------------------------------
\* Time.  A key whose time is over is gone.
Tick ==
    /\ count' = [k \in Key |-> IF ttl[k] = 1 THEN 0 ELSE count[k]]
    /\ ttl' = [k \in Key |-> IF ttl[k] = 0 THEN 0 ELSE ttl[k] - 1]
    /\ passed' = [k \in Key |-> [a \in Age |-> IF a = 0 THEN 0 ELSE passed[k][a - 1]]]
    /\ UNCHANGED <<req, faults>>

Idle(r) == [req[r] EXCEPT !.at = "idle"]

BackendCrash ==
    /\ Fault
    /\ req' = [r \in Request |-> Idle(r)]
    /\ UNCHANGED <<keyVars, passed>>

RedisLoss ==
    /\ Fault
    /\ count' = [k \in Key |-> 0]
    /\ ttl' = [k \in Key |-> 0]
    /\ UNCHANGED <<req, passed>>

----------------------------------------------------------------------------
Init ==
    /\ count = [k \in Key |-> 0]
    /\ ttl = [k \in Key |-> 0]
    /\ req \in [Request -> {p \in Progress : p.at = "idle"}]
    /\ passed = [k \in Key |-> [a \in Age |-> 0]]
    /\ faults = 0

Serve(r) == Incr(r) \/ Expire(r) \/ Auth(r) \/ Handle(r)

Next ==
    \/ \E r \in Request : Arrive(r) \/ Serve(r) \/ IncrFails(r) \/ ExpireFails(r)
    \/ Tick
    \/ BackendCrash
    \/ RedisLoss

\* The event loop resumes every request, and time passes.
Spec ==
    /\ Init
    /\ [][Next]_vars
    /\ \A r \in Request : WF_vars(Serve(r))
    /\ WF_vars(Tick)

----------------------------------------------------------------------------
TypeOK ==
    /\ count \in [Key -> 0..MaxCount]
    /\ ttl \in [Key -> 0..Window]
    /\ req \in [Request -> Progress]
    /\ passed \in [Key -> [Age -> Nat]]
    /\ faults \in 0..MaxFaults

\* In any Window ticks a key lets at most twice its limit through, the end of one window
\* and the start of the next; each fault gives away at most one limit more.
SlidingBound == \A k \in Key : passed[k][Window - 1] <= (2 + faults) * Limit(k)

\* A counter without an end needs a request that is about to set it, or a fault: no
\* schedule of requests alone locks a client out for good.
Ending(k) == \E r \in Request : At(r, "expire") /\ req[r].key = k
EndlessNeedsFault == \A k \in Key : count[k] > 0 /\ ttl[k] = 0 /\ faults = 0 => Ending(k)

\* A client over its limit is let through again, unless its counter was left without an
\* end: the window is not prolonged by requests that are turned away.
Torn(k) == count[k] > 0 /\ ttl[k] = 0 /\ ~Ending(k)
BlockedEnds == \A k \in Key : count[k] > Limit(k) ~> count[k] = 0 \/ Torn(k)

=============================================================================
