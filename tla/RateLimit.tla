----------------------------- MODULE RateLimit -----------------------------
(***************************************************************************)
(* The rate limit in front of the API: one Redis counter for a route and a *)
(* client, counted and expired by separate commands of any number of API   *)
(* processes.  Time is counted in the counter's time to live.              *)
(***************************************************************************)
EXTENDS Integers

CONSTANTS
  Requests,    \* requests being served at once
  MaxCount,    \* bound: where the counter stops
  WindowTtl,   \* RATE_LIMIT_TTL, at least 1
  MaxRequests, \* RATE_LIMIT_MAX, at least 1
  None

RateLimitAssumption ==
  /\ WindowTtl \in Nat \ {0} /\ MaxRequests \in Nat \ {0} /\ MaxCount \in Nat
  /\ None \notin Int \cup [count : 1..MaxCount, ttl : 1..WindowTtl \cup {None}]

VARIABLES
  counter,   \* the Redis key: its count and time to live, or None
  request,   \* where each request stands
  admitted,  \* history: requests of the running window that were admitted
  orphaned   \* history: the running window's first request never set its time to live

vars == <<counter, request, admitted, orphaned>>

Idle == [pc |-> "idle"]

\* "current": the window the request was counted in still runs.
RequestState ==
  [pc : {"expire", "ttl"}, count : 1..MaxCount, current : BOOLEAN]
    \cup [pc : {"refused"}, left : 0..WindowTtl, current : BOOLEAN, unset : BOOLEAN]

\* Every variable keeps its type.
TypeOK ==
  /\ counter \in [count : 1..MaxCount, ttl : 1..WindowTtl \cup {None}] \cup {None}
  /\ request \in [Requests -> RequestState \cup {Idle}]
  /\ admitted \in 0..MaxCount
  /\ orphaned \in BOOLEAN

Init ==
  /\ counter = None
  /\ request = [r \in Requests |-> Idle]
  /\ admitted = 0
  /\ orphaned = FALSE

\* Seeded regression: one request too many passes.
ExceedsByOne(n) == n > MaxRequests + 1
Exceeds(n) == n > MaxRequests

Count == IF counter = None THEN 1 ELSE counter.count + 1

\* INCR creates a counter without a time to live.
Incr(r) ==
  /\ request[r] = Idle
  /\ Count <= MaxCount
  /\ counter' = [count |-> Count, ttl |-> IF counter = None THEN None ELSE counter.ttl]
  /\ request' = [request EXCEPT
       ![r] = [pc |-> IF Count = 1 THEN "expire" ELSE "ttl", count |-> Count,
               current |-> TRUE]]
  /\ UNCHANGED <<admitted, orphaned>>

\* Seeded regression: the counter is given no time to live.
NoTtl(c) == c
WithTtl(c) == [c EXCEPT !.ttl = WindowTtl]

\* Only the request that created the counter gives it a time to live; until then the
\* counter cannot go.
Expire(r) ==
  /\ request[r].pc = "expire"
  /\ counter' = WithTtl(counter)
  /\ request' = [request EXCEPT ![r].pc = "ttl"]
  /\ UNCHANGED <<admitted, orphaned>>

ResetSeconds(c) == IF c = None \/ c.ttl = None THEN WindowTtl ELSE c.ttl

\* The time to live is read, and the count of INCR decides.
Decide(r) ==
  /\ request[r].pc = "ttl"
  /\ IF Exceeds(request[r].count)
       THEN /\ request' = [request EXCEPT
                 ![r] = [pc |-> "refused", left |-> ResetSeconds(counter),
                         current |-> @.current, unset |-> @.current /\ counter.ttl = None]]
            /\ UNCHANGED admitted
       ELSE /\ request' = [request EXCEPT ![r] = Idle]
            /\ admitted' = IF request[r].current THEN admitted + 1 ELSE admitted
  /\ UNCHANGED <<counter, orphaned>>

\* The client does not wait for the time it was told, or has waited.
ClientReturns(r) ==
  /\ request[r].pc = "refused"
  /\ request' = [request EXCEPT ![r] = Idle]
  /\ UNCHANGED <<counter, admitted, orphaned>>

\* A process dies, or Redis fails it, between two commands.
Crash(r) ==
  /\ request[r].pc \in {"expire", "ttl"}
  /\ request' = [request EXCEPT ![r] = Idle]
  /\ orphaned' = (orphaned \/ request[r].pc = "expire")
  /\ UNCHANGED <<counter, admitted>>

Waited(q, ended) ==
  IF q.pc = "idle" THEN q
  ELSE IF q.pc = "refused"
    THEN [q EXCEPT !.left = IF @ = 0 THEN 0 ELSE @ - 1, !.current = @ /\ ~ended]
  ELSE [q EXCEPT !.current = @ /\ ~ended]

\* A second goes by; a counter whose time is over is gone.
Tick ==
  LET ended == counter # None /\ counter.ttl = 1 IN
  /\ counter # None
  /\ counter.ttl # None \/ \E r \in Requests : request[r].pc = "refused" /\ request[r].left > 0
  /\ counter' = IF ended THEN None
                ELSE IF counter.ttl = None THEN counter
                ELSE [counter EXCEPT !.ttl = @ - 1]
  /\ request' = [r \in Requests |-> Waited(request[r], ended)]
  /\ admitted' = IF ended THEN 0 ELSE admitted
  /\ orphaned' = (orphaned /\ ~ended)

SomeExpire == \E r \in Requests : Expire(r)

Next ==
  \/ \E r \in Requests : Incr(r) \/ Decide(r) \/ ClientReturns(r) \/ Crash(r)
  \/ SomeExpire
  \/ Tick

\* Time passes, and a command that was sent is carried out.
Fairness == WF_vars(Tick) /\ WF_vars(SomeExpire)

Spec == Init /\ [][Next]_vars /\ Fairness

---------------------------------------------------------------------------

\* However the requests overlap, one window admits at most MaxRequests of those it counts,
\* and a client that waits as long as Retry-After says finds a new window, unless the window
\* had no time to live yet when he was refused (consumeRateLimitWindow,
\* RedisRateLimitMiddleware.use).
WindowsHold ==
  /\ admitted <= MaxRequests
  /\ \A r \in Requests :
       request[r].pc = "refused" /\ request[r].current /\ ~request[r].unset
         => counter.ttl <= request[r].left

\* A window ends and the client is counted afresh: a client is locked out for ever only
\* when the request that opened the window is lost between INCR and EXPIRE.
NobodyLockedOut == counter # None ~> counter = None \/ orphaned
=============================================================================
