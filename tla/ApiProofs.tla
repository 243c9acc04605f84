----------------------------- MODULE ApiProofs -----------------------------
(***************************************************************************)
(* Theorems about what the API keeps: the windows of the rate limit, the   *)
(* API keys, the workflow records, the stored secrets, and the windows its *)
(* settings give it.  They are theorems of ControlPlane, for every value   *)
(* of its constants: each rests on an inductive invariant of one component *)
(* and on the fact that a component's variables change by its own steps.   *)
(***************************************************************************)
EXTENDS ControlPlane, FiniteSetTheorems, TLAPS

---------------------------------------------------------------------------
(***************************************************************************)
(* The rate limit.                                                         *)
(***************************************************************************)

\* The requests of the running window that will be admitted.
Admissible ==
  {r \in ApiRequests : /\ limited[r].pc \in {"expire", "ttl"}
                       /\ limited[r].current /\ limited[r].count <= MaxRequests}

\* INCR numbers the requests of a window, so that those admitted and those that will be are
\* no more than it counted, and no more than the limit.
CountInv ==
  /\ IsFiniteSet(Admissible)
  /\ admitted + Cardinality(Admissible) <= MaxRequests
  /\ counter # None => admitted + Cardinality(Admissible) <= counter.count

\* There is no request of a window that has ended, only the request that opened the window
\* is to set its time to live, and until it does so there is none.
WindowInv ==
  /\ counter = None =>
       /\ admitted = 0
       /\ \A r \in ApiRequests : limited[r].pc # "idle" => ~limited[r].current
  /\ \A r \in ApiRequests :
       limited[r].pc = "expire" =>
         /\ limited[r].current /\ counter.ttl = None
         /\ \A s \in ApiRequests : limited[s].pc = "expire" => s = r
  /\ \A r \in ApiRequests :
       limited[r].pc = "refused" /\ limited[r].current /\ ~limited[r].unset =>
         counter.ttl # None /\ counter.ttl <= limited[r].left

LimiterInv == Limiter!TypeOK /\ CountInv /\ WindowInv

LEMMA LimiterConstants == Limiter!RateLimitAssumption
BY ControlPlaneAssumption

LEMMA LimiterInit == Limiter!Init => LimiterInv
<1>. SUFFICES ASSUME Limiter!Init PROVE LimiterInv OBVIOUS
<1>1. Admissible = {} BY DEF Limiter!Init, Limiter!Idle, Admissible
<1>2. Limiter!TypeOK
  <2>1. orphaned \in BOOLEAN BY DEF Limiter!Init
  <2>. QED
    BY <2>1, LimiterConstants DEF Limiter!Init, Limiter!TypeOK, Limiter!RateLimitAssumption
<1>3. CountInv
  BY <1>1, FS_EmptySet, LimiterConstants DEF Limiter!Init, CountInv, Limiter!RateLimitAssumption
<1>4. WindowInv BY DEF Limiter!Init, Limiter!Idle, WindowInv
<1>. QED BY <1>2, <1>3, <1>4 DEF LimiterInv

LEMMA IncrPreserves ==
  ASSUME LimiterInv, NEW r \in ApiRequests, Limiter!Incr(r)
  PROVE  LimiterInv'
<1>. USE LimiterConstants DEF Limiter!RateLimitAssumption
<1>. DEFINE n == Limiter!Count
<1>1. Limiter!TypeOK'
  BY DEF LimiterInv, Limiter!Incr, Limiter!Count, Limiter!TypeOK, Limiter!RequestState
<1>2. /\ counter' # None /\ counter'.count = n
      /\ counter'.ttl = IF counter = None THEN None ELSE counter.ttl
      /\ n \in Nat /\ n = IF counter = None THEN 1 ELSE counter.count + 1
      /\ counter # None => n # 1
      /\ admitted \in Nat /\ admitted' = admitted
  BY DEF LimiterInv, Limiter!Incr, Limiter!Count, Limiter!TypeOK
<1>3. /\ limited[r].pc = "idle"
      /\ limited'[r].pc = IF n = 1 THEN "expire" ELSE "ttl"
      /\ limited'[r].count = n /\ limited'[r].current
      /\ \A q \in ApiRequests : q # r => limited'[q] = limited[q]
  BY DEF LimiterInv, Limiter!Incr, Limiter!Idle, Limiter!TypeOK
<1>4. Admissible' = (IF n <= MaxRequests THEN Admissible \cup {r} ELSE Admissible)
      /\ r \notin Admissible
  BY <1>3 DEF Admissible
<1>5. /\ IsFiniteSet(Admissible') /\ Cardinality(Admissible) \in Nat
      /\ Cardinality(Admissible') =
           IF n <= MaxRequests THEN Cardinality(Admissible) + 1 ELSE Cardinality(Admissible)
  BY <1>4, FS_CardinalityType, FS_AddElement DEF LimiterInv, CountInv
<1>6. counter = None => Cardinality(Admissible) = 0 /\ admitted = 0
  <2>1. counter = None => Admissible = {} BY DEF LimiterInv, WindowInv, Admissible
  <2>. QED BY <2>1, FS_EmptySet DEF LimiterInv, WindowInv
<1>7. CountInv'
  <2>1. counter # None => counter.count \in Nat BY DEF LimiterInv, Limiter!TypeOK
  <2>. QED BY <1>2, <1>5, <1>6, <2>1 DEF LimiterInv, CountInv
<1>8. \A q \in ApiRequests : limited[q].pc \in {"expire", "refused"} /\ limited[q].current =>
        counter # None
  BY DEF LimiterInv, WindowInv
<1>9. WindowInv' BY <1>2, <1>3, <1>8 DEF LimiterInv, WindowInv
<1>. QED BY <1>1, <1>7, <1>9 DEF LimiterInv

\* What the requests other than r keep in a step of r.
Others(r) == \A q \in ApiRequests : q # r => limited'[q] = limited[q]

LEMMA ExpirePreserves ==
  ASSUME LimiterInv, NEW r \in ApiRequests, Limiter!Expire(r)
  PROVE  LimiterInv'
<1>. USE LimiterConstants DEF Limiter!RateLimitAssumption
<1>1. /\ limited[r].pc = "expire" /\ limited[r].current /\ counter.ttl = None
      /\ counter # None /\ counter' = [counter EXCEPT !.ttl = WindowTtl]
  BY DEF Limiter!Expire, Limiter!WithTtl, LimiterInv, WindowInv
<1>2. /\ Others(r) /\ limited'[r] = [limited[r] EXCEPT !.pc = "ttl"]
      /\ UNCHANGED <<admitted, orphaned>>
  BY DEF Limiter!Expire, Others, LimiterInv, Limiter!TypeOK
<1>3. limited[r] \in [pc : {"expire", "ttl"}, count : 1..MaxCount, current : BOOLEAN]
  BY <1>1 DEF LimiterInv, Limiter!TypeOK, Limiter!RequestState, Limiter!Idle
<1>4. /\ limited'[r] \in [pc : {"expire", "ttl"}, count : 1..MaxCount, current : BOOLEAN]
      /\ limited'[r].pc = "ttl" /\ limited'[r].current
      /\ limited'[r].count = limited[r].count
  BY <1>1, <1>2, <1>3
<1>5. counter' \in [count : 1..MaxCount, ttl : 1..WindowTtl] /\ counter'.count = counter.count
      /\ counter' # None /\ counter'.ttl = WindowTtl
  BY <1>1 DEF LimiterInv, Limiter!TypeOK
<1>6. Limiter!TypeOK'
  BY <1>2, <1>4, <1>5 DEF LimiterInv, Limiter!Expire, Limiter!TypeOK, Limiter!RequestState
<1>7. Admissible' = Admissible BY <1>1, <1>2, <1>4 DEF Others, Admissible
<1>8. CountInv' BY <1>1, <1>2, <1>5, <1>7 DEF LimiterInv, CountInv
<1>9. WindowInv' BY <1>1, <1>2, <1>4, <1>5 DEF Others, LimiterInv, WindowInv
<1>. QED BY <1>6, <1>8, <1>9 DEF LimiterInv

\* A request whose fate is sealed is not admissible any more; an admitted one moves to the
\* other side of the count.
LEMMA LeavesAdmissible ==
  ASSUME LimiterInv, NEW r \in ApiRequests, Others(r), limited'[r].pc \in {"idle", "refused"},
         UNCHANGED counter,
         admitted' = admitted \/ (r \in Admissible /\ admitted' = admitted + 1)
  PROVE  CountInv'
<1>1. Admissible' = Admissible \ {r} BY DEF Others, Admissible
<1>2. /\ IsFiniteSet(Admissible') /\ Cardinality(Admissible) \in Nat
      /\ Cardinality(Admissible') =
           IF r \in Admissible THEN Cardinality(Admissible) - 1 ELSE Cardinality(Admissible)
  BY <1>1, FS_CardinalityType, FS_RemoveElement DEF LimiterInv, CountInv
<1>3. admitted \in Nat /\ (counter # None => counter.count \in Nat) /\ MaxRequests \in Nat
  BY LimiterConstants DEF LimiterInv, Limiter!TypeOK, Limiter!RateLimitAssumption
<1>. QED BY <1>2, <1>3 DEF LimiterInv, CountInv

LEMMA DecidePreserves ==
  ASSUME LimiterInv, NEW r \in ApiRequests, Limiter!Decide(r)
  PROVE  LimiterInv'
<1>. USE LimiterConstants DEF Limiter!RateLimitAssumption
<1>. DEFINE refused == [pc |-> "refused", left |-> Limiter!ResetSeconds(counter),
                        current |-> limited[r].current,
                        unset |-> limited[r].current /\ counter.ttl = None]
<1>1. /\ limited[r].pc = "ttl" /\ UNCHANGED <<counter, orphaned>> /\ Others(r)
      /\ IF limited[r].count > MaxRequests THEN limited'[r] = refused /\ UNCHANGED admitted
         ELSE /\ limited'[r] = Limiter!Idle
              /\ admitted' = IF limited[r].current THEN admitted + 1 ELSE admitted
  BY DEF Limiter!Decide, Limiter!Exceeds, Others, LimiterInv, Limiter!TypeOK
<1>2. limited[r] \in [pc : {"expire", "ttl"}, count : 1..MaxCount, current : BOOLEAN]
  BY <1>1 DEF LimiterInv, Limiter!TypeOK, Limiter!RequestState, Limiter!Idle
<1>3. limited[r].count <= MaxRequests /\ limited[r].current => r \in Admissible
  BY <1>1 DEF Admissible
<1>4. /\ refused.pc = "refused" /\ refused.left = Limiter!ResetSeconds(counter)
      /\ refused.current = limited[r].current
      /\ limited[r].current /\ ~refused.unset => counter.ttl # None
  BY Zenon
<1>5. limited[r].current => counter # None BY <1>1 DEF LimiterInv, WindowInv
<1>6. Limiter!ResetSeconds(counter) \in 0..WindowTtl
  BY DEF Limiter!ResetSeconds, LimiterInv, Limiter!TypeOK
<1>7. refused \in Limiter!RequestState
  <2>1. (limited[r].current /\ counter.ttl = None) \in BOOLEAN OBVIOUS
  <2>. QED BY <1>2, <1>6, <2>1 DEF Limiter!RequestState
<1>. HIDE DEF refused
<1>8. CountInv'
  <2>1. limited'[r].pc \in {"idle", "refused"} BY <1>1, <1>4 DEF Limiter!Idle
  <2>2. admitted' = admitted \/ (r \in Admissible /\ admitted' = admitted + 1) BY <1>1, <1>2, <1>3
  <2>. QED BY <1>1, <2>1, <2>2, LeavesAdmissible
<1>9. admitted' \in 0..MaxCount
  <2>1. IsFiniteSet(Admissible') /\ Cardinality(Admissible') \in Nat
    BY <1>8, FS_CardinalityType DEF CountInv
  <2>2. admitted \in 0..MaxCount /\ (counter # None => counter.count \in 0..MaxCount)
    BY DEF LimiterInv, Limiter!TypeOK
  <2>. QED BY <1>1, <1>2, <1>5, <1>8, <2>1, <2>2 DEF CountInv
<1>10. limited' \in [ApiRequests -> Limiter!RequestState \cup {Limiter!Idle}]
  <2>1. limited' = [limited EXCEPT ![r] = limited'[r]]
    BY DEF Limiter!Decide, LimiterInv, Limiter!TypeOK
  <2>. QED BY <1>1, <1>7, <2>1 DEF LimiterInv, Limiter!TypeOK
<1>11. Limiter!TypeOK' BY <1>1, <1>9, <1>10 DEF LimiterInv, Limiter!TypeOK
<1>12. WindowInv'
  <2>1. counter # None /\ counter.ttl # None =>
          Limiter!ResetSeconds(counter) = counter.ttl /\ counter.ttl <= counter.ttl
    BY DEF Limiter!ResetSeconds, LimiterInv, Limiter!TypeOK
  <2>2. CASE limited[r].count > MaxRequests
    <3>1. /\ limited'[r].pc = "refused" /\ limited'[r].current = limited[r].current
          /\ limited'[r].left = Limiter!ResetSeconds(counter)
          /\ limited[r].current /\ ~limited'[r].unset => counter.ttl # None
      BY <1>1, <1>4, <2>2
    <3>. QED BY <1>1, <1>5, <2>1, <2>2, <3>1 DEF Others, LimiterInv, WindowInv
  <2>3. CASE ~(limited[r].count > MaxRequests)
    <3>1. limited'[r].pc = "idle" BY <1>1, <2>3 DEF Limiter!Idle
    <3>2. counter = None => admitted' = admitted BY <1>1, <1>5, <2>3
    <3>. QED BY <1>1, <3>1, <3>2 DEF Others, LimiterInv, WindowInv
  <2>. QED BY <2>2, <2>3
<1>. QED BY <1>11, <1>12, <1>8 DEF LimiterInv

\* ClientReturns and Crash: the request is over.
LEMMA OverPreserves ==
  ASSUME LimiterInv, NEW r \in ApiRequests, Limiter!ClientReturns(r) \/ Limiter!Crash(r)
  PROVE  LimiterInv'
<1>1. /\ Others(r) /\ limited' = [limited EXCEPT ![r] = Limiter!Idle]
      /\ limited'[r] = Limiter!Idle /\ UNCHANGED <<counter, admitted>>
  BY DEF Limiter!ClientReturns, Limiter!Crash, Others, LimiterInv, Limiter!TypeOK
<1>2. orphaned' \in BOOLEAN
  BY DEF Limiter!ClientReturns, Limiter!Crash, LimiterInv, Limiter!TypeOK
<1>3. Limiter!TypeOK' BY <1>1, <1>2 DEF LimiterInv, Limiter!TypeOK
<1>4. CountInv'
  <2>1. limited'[r].pc \in {"idle", "refused"} BY <1>1 DEF Limiter!Idle
  <2>. QED BY <1>1, <2>1, LeavesAdmissible
<1>5. WindowInv' BY <1>1 DEF Others, Limiter!Idle, LimiterInv, WindowInv
<1>. QED BY <1>3, <1>4, <1>5 DEF LimiterInv

\* A second that goes by moves no request on; at the end of the window it is none of its own.
LEMMA WaitedFacts ==
  ASSUME NEW q \in Limiter!RequestState \cup {Limiter!Idle}, NEW gone \in BOOLEAN
  PROVE  LET w == Limiter!Waited(q, gone) IN
         /\ w \in Limiter!RequestState \cup {Limiter!Idle} /\ w.pc = q.pc
         /\ q.pc # "idle" => (w.current <=> q.current /\ ~gone)
         /\ q.pc \in {"expire", "ttl"} => w.count = q.count
         /\ q.pc = "refused" => /\ w.left = IF q.left = 0 THEN 0 ELSE q.left - 1
                                /\ w.unset = q.unset /\ q.left \in Nat
<1>. USE LimiterConstants DEF Limiter!RateLimitAssumption
<1>1. CASE q = Limiter!Idle BY <1>1 DEF Limiter!Waited, Limiter!Idle
<1>2. CASE q \in [pc : {"expire", "ttl"}, count : 1..MaxCount, current : BOOLEAN]
  <2>1. (q.current /\ ~gone) \in BOOLEAN BY <1>2
  <2>2. Limiter!Waited(q, gone) = [q EXCEPT !.current = q.current /\ ~gone]
    BY <1>2 DEF Limiter!Waited
  <2>. QED BY <1>2, <2>1, <2>2 DEF Limiter!RequestState
<1>3. CASE q \in [pc : {"refused"}, left : 0..WindowTtl, current : BOOLEAN, unset : BOOLEAN]
  <2>. DEFINE l == IF q.left = 0 THEN 0 ELSE q.left - 1
              c == q.current /\ ~gone
  <2>1. c \in BOOLEAN BY <1>3
  <2>2. l \in 0..WindowTtl /\ q.left \in Nat BY <1>3
  <2>3. Limiter!Waited(q, gone) = [q EXCEPT !.left = l, !.current = c]
    BY <1>3 DEF Limiter!Waited
  <2>. HIDE DEF l, c
  <2>4. /\ [q EXCEPT !.left = l, !.current = c] \in Limiter!RequestState
        /\ [q EXCEPT !.left = l, !.current = c].left = l
        /\ [q EXCEPT !.left = l, !.current = c].current = c
        /\ [q EXCEPT !.left = l, !.current = c].unset = q.unset
        /\ [q EXCEPT !.left = l, !.current = c].pc = q.pc /\ q.pc = "refused"
    BY <1>3, <2>1, <2>2 DEF Limiter!RequestState
  <2>. QED BY <2>2, <2>3, <2>4 DEF l, c
<1>. QED BY <1>1, <1>2, <1>3 DEF Limiter!RequestState

LEMMA TickPreserves == ASSUME LimiterInv, Limiter!Tick PROVE LimiterInv'
<1>. USE LimiterConstants DEF Limiter!RateLimitAssumption
<1>. DEFINE gone == counter # None /\ counter.ttl = 1
<1>1. /\ counter # None
      /\ counter' = IF gone THEN None ELSE IF counter.ttl = None THEN counter
                    ELSE [counter EXCEPT !.ttl = @ - 1]
      /\ admitted' = IF gone THEN 0 ELSE admitted
      /\ limited' = [r \in ApiRequests |-> Limiter!Waited(limited[r], gone)]
  BY DEF Limiter!Tick
<1>2. \A r \in ApiRequests : limited[r] \in Limiter!RequestState \cup {Limiter!Idle}
  BY DEF LimiterInv, Limiter!TypeOK
<1>3. \A r \in ApiRequests :
        /\ limited'[r] \in Limiter!RequestState \cup {Limiter!Idle}
        /\ limited'[r].pc = limited[r].pc
        /\ limited[r].pc # "idle" => (limited'[r].current <=> limited[r].current /\ ~gone)
        /\ limited[r].pc \in {"expire", "ttl"} => limited'[r].count = limited[r].count
        /\ limited[r].pc = "refused" =>
             /\ limited'[r].left = IF limited[r].left = 0 THEN 0 ELSE limited[r].left - 1
             /\ limited'[r].unset = limited[r].unset /\ limited[r].left \in Nat
  BY <1>1, <1>2, WaitedFacts, Zenon
<1>4. ~gone => /\ counter' \in [count : 1..MaxCount, ttl : 1..WindowTtl \cup {None}]
               /\ counter' # None /\ counter'.count = counter.count
               /\ IF counter.ttl = None THEN counter'.ttl = None
                  ELSE counter.ttl \in Nat \ {0} /\ counter'.ttl = counter.ttl - 1
  BY <1>1 DEF LimiterInv, Limiter!TypeOK
<1>5. Limiter!TypeOK'
  <2>1. orphaned' \in BOOLEAN BY DEF Limiter!Tick
  <2>2. limited' \in [ApiRequests -> Limiter!RequestState \cup {Limiter!Idle}]
    BY <1>1, <1>3
  <2>3. admitted' \in 0..MaxCount BY <1>1 DEF LimiterInv, Limiter!TypeOK
  <2>. QED BY <1>1, <1>4, <2>1, <2>2, <2>3 DEF Limiter!TypeOK
<1>6. CASE gone
  <2>1. Admissible' = {} BY <1>3, <1>6 DEF Admissible
  <2>2. CountInv' BY <1>1, <1>6, <2>1, FS_EmptySet DEF CountInv
  <2>3. \A r \in ApiRequests : limited'[r].pc # "expire"
    <3>1. counter.ttl # None BY <1>6
    <3>. QED BY <1>3, <3>1 DEF LimiterInv, WindowInv
  <2>4. WindowInv' BY <1>1, <1>3, <1>6, <2>3 DEF WindowInv
  <2>. QED BY <1>5, <2>2, <2>4 DEF LimiterInv
<1>7. CASE ~gone
  <2>1. Admissible' = Admissible BY <1>3, <1>7 DEF Admissible
  <2>2. CountInv' BY <1>1, <1>4, <1>7, <2>1 DEF LimiterInv, CountInv
  <2>3. WindowInv' BY <1>1, <1>3, <1>4, <1>7 DEF LimiterInv, WindowInv
  <2>. QED BY <1>5, <2>2, <2>3 DEF LimiterInv
<1>. QED BY <1>6, <1>7

LEMMA LimiterStep == ASSUME LimiterInv, Limiter!Next PROVE LimiterInv'
BY IncrPreserves, DecidePreserves, OverPreserves, ExpirePreserves, TickPreserves
DEF Limiter!Next, Limiter!SomeExpire

LEMMA LimiterStutter == LimiterInv /\ UNCHANGED limiter => LimiterInv'
BY DEF limiter, LimiterInv, Limiter!TypeOK, CountInv, WindowInv, Admissible

\* For every number of requests, of processes and of crashes between two commands, one window
\* of the rate limit admits at most RATE_LIMIT_MAX requests, and Retry-After leads into a new
\* one (consumeRateLimitWindow, RedisRateLimitMiddleware.use).
THEOREM WindowsHoldAlways == Spec => []WindowsHold
<1>1. Init => LimiterInv BY LimiterInit DEF Init
<1>2. LimiterInv /\ [Next]_vars => LimiterInv'
  <2>. SUFFICES ASSUME LimiterInv, [Next]_vars PROVE LimiterInv' OBVIOUS
  <2>1. CASE Only("limiter") /\ Limiter!Next BY <2>1, LimiterStep
  <2>2. CASE UNCHANGED limiter BY <2>2, LimiterStutter
  <2>3. (Only("limiter") /\ Limiter!Next) \/ UNCHANGED limiter BY DEF Next, Only, vars
  <2>. QED BY <2>1, <2>2, <2>3
<1>3. LimiterInv => WindowsHold
  <2>. SUFFICES ASSUME LimiterInv PROVE Limiter!WindowsHold BY DEF WindowsHold
  <2>1. admitted <= MaxRequests
    <3>1. Cardinality(Admissible) \in Nat /\ admitted \in Nat /\ MaxRequests \in Nat
      BY LimiterConstants, FS_CardinalityType
      DEF LimiterInv, CountInv, Limiter!TypeOK, Limiter!RateLimitAssumption
    <3>. QED BY <3>1 DEF LimiterInv, CountInv
  <2>. QED BY <2>1 DEF LimiterInv, WindowInv, Limiter!WindowsHold
<1>. QED BY <1>1, <1>2, <1>3, PTL DEF Spec

---------------------------------------------------------------------------
(***************************************************************************)
(* The API keys.                                                           *)
(***************************************************************************)

\* A row is a token that was handed out under its id for its workspace, and so is what a
\* request found, whatever has been made of the row since.
GrantInv ==
  /\ \A i \in KeyRing!Ids :
       keys[i] # None =>
         <<<<keys[i].prefix, keys[i].secret>>, keys[i].workspace>> \in granted[i]
  /\ \A r \in KeyRequests :
       keyed[r].pc \in {"mark", "resolved"} =>
         <<keyed[r].token, keyed[r].workspace>> \in granted[keyed[r].id]

KeysInv == KeyRing!TypeOK /\ GrantInv

Presented == [pc : {"find"}, token : KeyRing!Tokens]
Resolving ==
  [pc : {"mark", "resolved"}, token : KeyRing!Tokens, id : KeyRing!Ids, workspace : Workspaces]

LEMMA KeyConstants ==
  /\ DemoWorkspace \in Workspaces /\ DemoPrefix \in Prefixes
  /\ KeyAttempts \in Nat \ {0} /\ MaxIds \in Nat
  /\ None \notin KeyRing!Row
BY ControlPlaneAssumption DEF KeyRing!ApiKeysAssumption

LEMMA KeysInit == KeyRing!Init => KeysInv
BY KeyConstants DEF KeyRing!Init, KeyRing!Idle, KeyRing!Ids, KeysInv, KeyRing!TypeOK, GrantInv

LEMMA WritePreserves ==
  ASSUME KeysInv, NEW i \in KeyRing!Ids, NEW w \in Workspaces, NEW p \in Prefixes,
         NEW c \in Secrets, KeyRing!Write(i, w, p, c), UNCHANGED keyed
  PROVE  /\ keys' \in [KeyRing!Ids -> KeyRing!Row \cup {None}]
         /\ granted' \in [KeyRing!Ids -> SUBSET (KeyRing!Tokens \X Workspaces)]
         /\ GrantInv'
<1>. DEFINE row == [workspace |-> w, prefix |-> p, secret |-> c, revoked |-> FALSE]
<1>1. row \in KeyRing!Row /\ <<<<p, c>>, w>> \in KeyRing!Tokens \X Workspaces
  BY DEF KeyRing!Row, KeyRing!Tokens
<1>2. /\ keys' = [keys EXCEPT ![i] = row]
      /\ granted' = [granted EXCEPT ![i] = @ \cup {<<<<p, c>>, w>>}]
  BY DEF KeyRing!Write
<1>3. /\ keys' \in [KeyRing!Ids -> KeyRing!Row \cup {None}]
      /\ granted' \in [KeyRing!Ids -> SUBSET (KeyRing!Tokens \X Workspaces)]
  BY <1>1, <1>2 DEF KeysInv, KeyRing!TypeOK
<1>4. \A j \in KeyRing!Ids : granted[j] \subseteq granted'[j]
  BY <1>2 DEF KeysInv, KeyRing!TypeOK
<1>5. \A j \in KeyRing!Ids :
        keys'[j] # None =>
          <<<<keys'[j].prefix, keys'[j].secret>>, keys'[j].workspace>> \in granted'[j]
  BY <1>2, <1>4 DEF KeysInv, KeyRing!TypeOK, GrantInv
<1>6. \A r \in KeyRequests :
        keyed[r].pc \in {"mark", "resolved"} => keyed[r].id \in KeyRing!Ids
  BY DEF KeysInv, KeyRing!TypeOK, KeyRing!Idle
<1>. QED BY <1>3, <1>4, <1>5, <1>6 DEF KeysInv, GrantInv

LEMMA RowActionsPreserve ==
  ASSUME KeysInv,
         \/ \E w \in Workspaces : KeyRing!BeginCreate(w) \/ KeyRing!DeleteWorkspace(w)
         \/ \E p \in Prefixes, c \in Secrets : KeyRing!Insert(p, c)
         \/ \E i \in KeyRing!Ids : KeyRing!RevokeApiKey(i)
         \/ \E c \in Secrets : KeyRing!UpsertDemoApiKey(c)
  PROVE  KeysInv'
<1>. USE KeyConstants
<1>1. ASSUME NEW w \in Workspaces, KeyRing!BeginCreate(w) PROVE KeysInv'
  <2>1. /\ UNCHANGED <<keys, keyed, granted, inserted>>
        /\ creation' = [attempt |-> 1, workspace |-> w]
    BY <1>1 DEF KeyRing!BeginCreate
  <2>2. creation' \in [attempt : 0..KeyAttempts, workspace : Workspaces] BY <2>1
  <2>. QED BY <2>1, <2>2 DEF KeysInv, KeyRing!TypeOK, GrantInv
<1>2. ASSUME NEW w \in Workspaces, KeyRing!DeleteWorkspace(w) PROVE KeysInv'
  <2>1. UNCHANGED <<creation, keyed, granted, inserted>> BY <1>2 DEF KeyRing!DeleteWorkspace
  <2>2. \A i \in KeyRing!Ids : keys'[i] \in {keys[i], None} BY <1>2 DEF KeyRing!DeleteWorkspace
  <2>3. keys' \in [KeyRing!Ids -> KeyRing!Row \cup {None}]
    BY <1>2 DEF KeyRing!DeleteWorkspace, KeysInv, KeyRing!TypeOK
  <2>. QED BY <2>1, <2>2, <2>3 DEF KeysInv, KeyRing!TypeOK, GrantInv
<1>3. ASSUME NEW p \in Prefixes, NEW c \in Secrets, KeyRing!Insert(p, c) PROVE KeysInv'
  <2>. USE <1>3 DEF KeyRing!Insert
  <2>1. CASE KeyRing!RowsWith(p) = {}
    <3>1. /\ inserted < MaxIds /\ inserted' = inserted + 1
          /\ inserted \in 0..MaxIds /\ creation.workspace \in Workspaces
          /\ KeyRing!Write(inserted + 1, creation.workspace, p, c)
          /\ creation' = [creation EXCEPT !.attempt = 0] /\ UNCHANGED keyed
      BY <2>1 DEF KeysInv, KeyRing!TypeOK
    <3>2. inserted + 1 \in KeyRing!Ids /\ inserted' \in 0..MaxIds BY <3>1 DEF KeyRing!Ids
    <3>3. creation' \in [attempt : 0..KeyAttempts, workspace : Workspaces]
      BY <3>1 DEF KeysInv, KeyRing!TypeOK
    <3>. QED BY <3>1, <3>2, <3>3, WritePreserves DEF KeysInv, KeyRing!TypeOK
  <2>2. CASE KeyRing!RowsWith(p) # {}
    <3>1. UNCHANGED <<keys, granted, inserted, keyed>> BY <2>2
    <3>2. creation' \in [attempt : 0..KeyAttempts, workspace : Workspaces]
      BY <2>2 DEF KeysInv, KeyRing!TypeOK
    <3>. QED BY <3>1, <3>2 DEF KeysInv, KeyRing!TypeOK, GrantInv
  <2>. QED BY <2>1, <2>2
<1>4. ASSUME NEW i \in KeyRing!Ids, KeyRing!RevokeApiKey(i) PROVE KeysInv'
  <2>1. UNCHANGED <<creation, keyed, granted, inserted>> /\ keys[i] \in KeyRing!Row
    BY <1>4 DEF KeyRing!RevokeApiKey, KeysInv, KeyRing!TypeOK
  <2>2. keys' = [keys EXCEPT ![i] = [keys[i] EXCEPT !.revoked = TRUE]]
    BY <1>4 DEF KeyRing!RevokeApiKey
  <2>3. LET row == [keys[i] EXCEPT !.revoked = TRUE] IN
        /\ row \in KeyRing!Row /\ row.prefix = keys[i].prefix
        /\ row.secret = keys[i].secret /\ row.workspace = keys[i].workspace
    BY <2>1 DEF KeyRing!Row
  <2>. QED BY <2>1, <2>2, <2>3 DEF KeysInv, KeyRing!TypeOK, GrantInv
<1>5. ASSUME NEW c \in Secrets, KeyRing!UpsertDemoApiKey(c) PROVE KeysInv'
  <2>1. UNCHANGED <<creation, keyed>> BY <1>5 DEF KeyRing!UpsertDemoApiKey
  <2>2. /\ inserted' \in 0..MaxIds
        /\ \E i \in KeyRing!Ids : KeyRing!Write(i, DemoWorkspace, DemoPrefix, c)
    BY <1>5 DEF KeyRing!UpsertDemoApiKey, KeyRing!RowsWith, KeysInv, KeyRing!TypeOK, KeyRing!Ids
  <2>. QED BY <2>1, <2>2, WritePreserves DEF KeysInv, KeyRing!TypeOK
<1>. QED BY <1>1, <1>2, <1>3, <1>4, <1>5

LEMMA KeyRequestsPreserve ==
  ASSUME KeysInv, NEW r \in KeyRequests,
         \/ \E t \in KeyRing!Tokens : KeyRing!PresentKey(r, t)
         \/ KeyRing!FindApiKey(r) \/ KeyRing!MarkLastUsed(r) \/ KeyRing!RequestEnds(r)
  PROVE  KeysInv' /\ \A q \in KeyRequests : q # r => keyed'[q] = keyed[q]
<1>1. /\ UNCHANGED <<keys, creation, granted, inserted>>
      /\ \/ keyed' = [keyed EXCEPT ![r] = KeyRing!Idle]
         \/ \E t \in KeyRing!Tokens : keyed' = [keyed EXCEPT ![r] = [pc |-> "find", token |-> t]]
         \/ /\ keyed[r].pc = "find"
            /\ \E i \in KeyRing!Ids :
                 /\ KeyRing!Matches(i, keyed[r].token)
                 /\ keyed' = [keyed EXCEPT
                      ![r] = [pc |-> "mark", token |-> keyed[r].token, id |-> i,
                              workspace |-> keys[i].workspace]]
         \/ /\ keyed[r].pc = "mark"
            /\ keyed' = [keyed EXCEPT ![r] = [keyed[r] EXCEPT !.pc = "resolved"]]
  BY DEF KeyRing!PresentKey, KeyRing!FindApiKey, KeyRing!MarkLastUsed, KeyRing!RequestEnds
<1>2. keyed \in [KeyRequests -> {KeyRing!Idle} \cup Presented \cup Resolving]
  BY DEF KeysInv, KeyRing!TypeOK, Presented, Resolving
<1>3. SUFFICES ASSUME NEW q, keyed' = [keyed EXCEPT ![r] = q],
                      q \in {KeyRing!Idle} \cup Presented \cup Resolving,
                      q.pc \in {"mark", "resolved"} =>
                        <<q.token, q.workspace>> \in granted[q.id]
               PROVE  KeysInv' /\ \A p \in KeyRequests : p # r => keyed'[p] = keyed[p]
  <2>1. CASE keyed' = [keyed EXCEPT ![r] = KeyRing!Idle]
    BY <1>3, <2>1 DEF KeyRing!Idle
  <2>2. ASSUME NEW t \in KeyRing!Tokens, keyed' = [keyed EXCEPT ![r] = [pc |-> "find", token |-> t]]
        PROVE  KeysInv' /\ \A p \in KeyRequests : p # r => keyed'[p] = keyed[p]
    BY <1>3, <2>2 DEF Presented
  <2>3. ASSUME NEW i \in KeyRing!Ids, keyed[r].pc = "find", KeyRing!Matches(i, keyed[r].token),
               keyed' = [keyed EXCEPT
                 ![r] = [pc |-> "mark", token |-> keyed[r].token, id |-> i,
                         workspace |-> keys[i].workspace]]
        PROVE  KeysInv' /\ \A p \in KeyRequests : p # r => keyed'[p] = keyed[p]
    <3>1. keyed[r].token \in Prefixes \X Secrets /\ keys[i] \in KeyRing!Row
      BY <1>2, <2>3
      DEF KeyRing!Idle, Presented, Resolving, KeyRing!Tokens, KeyRing!Matches, KeysInv,
          KeyRing!TypeOK
    <3>2. keyed[r].token = <<keys[i].prefix, keys[i].secret>>
      BY <2>3, <3>1 DEF KeyRing!Matches
    <3>3. <<keyed[r].token, keys[i].workspace>> \in granted[i]
      BY <2>3, <3>2 DEF KeysInv, GrantInv, KeyRing!Matches
    <3>4. keys[i].workspace \in Workspaces BY <3>1 DEF KeyRing!Row
    <3>. QED BY <1>3, <2>3, <3>1, <3>3, <3>4 DEF Resolving, KeyRing!Tokens
  <2>4. CASE keyed[r].pc = "mark" /\ keyed' = [keyed EXCEPT ![r] = [keyed[r] EXCEPT !.pc = "resolved"]]
    <3>1. keyed[r] \in Resolving BY <1>2, <2>4 DEF KeyRing!Idle, Presented
    <3>2. LET q == [keyed[r] EXCEPT !.pc = "resolved"] IN
          /\ q \in Resolving /\ q.token = keyed[r].token /\ q.id = keyed[r].id
          /\ q.workspace = keyed[r].workspace
      BY <3>1 DEF Resolving
    <3>3. <<keyed[r].token, keyed[r].workspace>> \in granted[keyed[r].id]
      BY <2>4 DEF KeysInv, GrantInv
    <3>. QED BY <1>3, <2>4, <3>2, <3>3
  <2>. QED BY <1>1, <2>1, <2>2, <2>3, <2>4
<1>4. /\ keyed' \in [KeyRequests -> {KeyRing!Idle} \cup Presented \cup Resolving]
      /\ \A p \in KeyRequests : keyed'[p] = IF p = r THEN q ELSE keyed[p]
  BY <1>2, <1>3
<1>5. KeyRing!TypeOK' BY <1>1, <1>4 DEF KeysInv, KeyRing!TypeOK, Presented, Resolving
<1>6. GrantInv' BY <1>1, <1>3, <1>4 DEF KeysInv, GrantInv
<1>. QED BY <1>4, <1>5, <1>6 DEF KeysInv

LEMMA KeysStep == ASSUME KeysInv, KeyRing!Next PROVE KeysInv'
BY RowActionsPreserve, KeyRequestsPreserve DEF KeyRing!Next

LEMMA KeysStutter == KeysInv /\ UNCHANGED apiKeys => KeysInv'
BY DEF apiKeys, KeysInv, KeyRing!TypeOK, GrantInv

\* A step that lets a request in is the update of a row that is there, valid and the request's.
KeyAdmitted(r) == keyed[r].pc = "mark" /\ keyed'[r].pc = "resolved"

LEMMA AdmittedByValidKey ==
  ASSUME KeysInv, KeyRing!Next, NEW r \in KeyRequests, KeyAdmitted(r)
  PROVE  /\ keys[keyed[r].id] # None /\ ~keys[keyed[r].id].revoked
         /\ <<keyed[r].token, keyed[r].workspace>> \in granted[keyed[r].id]
<1>1. KeyRing!MarkLastUsed(r)
  <2>1. ~UNCHANGED keyed BY DEF KeyAdmitted
  <2>2. PICK q \in KeyRequests :
          \/ \E t \in KeyRing!Tokens : KeyRing!PresentKey(q, t)
          \/ KeyRing!FindApiKey(q) \/ KeyRing!MarkLastUsed(q) \/ KeyRing!RequestEnds(q)
    BY <2>1 DEF KeyRing!Next, KeyRing!BeginCreate, KeyRing!DeleteWorkspace, KeyRing!Insert,
                KeyRing!RevokeApiKey, KeyRing!UpsertDemoApiKey
  <2>3. q = r BY <2>2, KeyRequestsPreserve DEF KeyAdmitted
  <2>. QED
    BY <2>2, <2>3 DEF KeyAdmitted, KeyRing!PresentKey, KeyRing!FindApiKey, KeyRing!RequestEnds,
                      KeyRing!Idle
<1>2. KeyRing!Markable(keyed[r])
  BY <1>1 DEF KeyAdmitted, KeyRing!MarkLastUsed, KeyRing!Idle, KeysInv, KeyRing!TypeOK
<1>. QED BY <1>2 DEF KeyRing!Markable, KeyAdmitted, KeysInv, GrantInv

\* A key that was revoked, or deleted with its workspace, admits no request from then on, and a
\* token opens only what it was handed out for, for every number of requests and of refreshes
\* of the demo in between (resolve-api-key, markLastUsed).
THEOREM RevokedKeysAreRefused == Spec => RevokedKeyRefused
<1>1. Init => KeysInv BY KeysInit DEF Init
<1>2. (Only("keys") /\ KeyRing!Next) \/ UNCHANGED apiKeys \/ ~[Next]_vars BY DEF Next, Only, vars
<1>3. KeysInv /\ [Next]_vars => KeysInv' BY <1>2, KeysStep, KeysStutter
<1>4. KeysInv /\ [Next]_vars =>
        [\A r \in KeyRequests :
           keyed[r].pc = "mark" /\ keyed'[r].pc = "resolved" =>
             /\ keys[keyed[r].id] # None
             /\ ~keys[keyed[r].id].revoked
             /\ <<keyed[r].token, keyed[r].workspace>> \in granted[keyed[r].id]]_(KeyRing!vars)
  BY <1>2, AdmittedByValidKey DEF KeyAdmitted, KeyRing!vars, apiKeys
<1>. QED BY <1>1, <1>3, <1>4, PTL DEF Spec, RevokedKeyRefused, KeyRing!RevokedKeyRefused

---------------------------------------------------------------------------
(***************************************************************************)
(* The workflow records.                                                   *)
(***************************************************************************)

\* What a request may write: both columns of the trigger, which agree, or neither of them.
Agreeing(c) ==
  /\ c.trigger = None <=> c.definition = None
  /\ c.definition # None => c.trigger = c.definition.trigger

Creating == [op : {"create"}, id : WorkflowIds, definition : Definitions!Definition]
Updating == [op : {"update"}, id : WorkflowIds, change : Definitions!Change]
Publishing == [op : {"publish"}, id : WorkflowIds]

\* The columns agree in every row and in every pending write, a pending write has its row, and
\* an update whose workflow is published by now had found the draft.
RowsInv ==
  \A w \in WorkflowIds :
    workflow[w] # None => workflow[w].trigger = workflow[w].definition.trigger
WritesInv ==
  \A r \in EditRequests :
    /\ edit[r].op \in {"update", "publish"} => workflow[edit[r].id] # None
    /\ edit[r].op = "update" =>
         /\ Agreeing(edit[r].change)
         /\ workflow[edit[r].id].status = "published" => r \in overlap
DefinitionsInv == Definitions!TypeOK /\ RowsInv /\ WritesInv

LEMMA DefinitionConstants ==
  /\ MaxVersion \in Nat \ {0}
  /\ None \notin Triggers /\ None \notin Definitions!Definition /\ None \notin Definitions!Row
BY ControlPlaneAssumption DEF Definitions!WorkflowDefinitionsAssumption

LEMMA DefinitionsInit == Definitions!Init => DefinitionsInv
BY DEF Definitions!Init, Definitions!Idle, DefinitionsInv, Definitions!TypeOK, RowsInv, WritesInv

LEMMA EditTypes ==
  ASSUME DefinitionsInv
  PROVE  /\ edit \in [EditRequests -> {Definitions!Idle} \cup Creating \cup Updating \cup Publishing]
         /\ workflow \in [WorkflowIds -> Definitions!Row \cup {None}]
         /\ overlap \subseteq EditRequests
BY DEF DefinitionsInv, Definitions!TypeOK, Creating, Updating, Publishing

\* A request that begins is one that has its row, and whose writes agree.
LEMMA BeginPreserves ==
  ASSUME DefinitionsInv, NEW r \in EditRequests, NEW q, UNCHANGED <<workflow, overlap>>,
         q \in Creating \cup Updating \cup Publishing, edit' = [edit EXCEPT ![r] = q],
         q.op \in {"update", "publish"} => workflow[q.id] # None,
         q.op = "update" => Agreeing(q.change) /\ workflow[q.id].status # "published"
  PROVE  DefinitionsInv'
<1>1. /\ edit' \in [EditRequests -> {Definitions!Idle} \cup Creating \cup Updating \cup Publishing]
      /\ \A p \in EditRequests : edit'[p] = IF p = r THEN q ELSE edit[p]
  BY EditTypes
<1>2. Definitions!TypeOK' BY <1>1, EditTypes DEF Definitions!TypeOK, Creating, Updating, Publishing
<1>3. RowsInv' BY DEF DefinitionsInv, RowsInv
<1>4. WritesInv' BY <1>1 DEF DefinitionsInv, WritesInv
<1>. QED BY <1>2, <1>3, <1>4 DEF DefinitionsInv

\* A request that ends leaves the rows of the others in place, and publishes none but for the
\* updates it counts among the overlapping ones.
LEMMA DonePreserves ==
  ASSUME DefinitionsInv, NEW r \in EditRequests,
         edit' = [edit EXCEPT ![r] = Definitions!Idle],
         workflow' \in [WorkflowIds -> Definitions!Row \cup {None}], overlap' \subseteq EditRequests,
         overlap \ {r} \subseteq overlap', RowsInv',
         \A w \in WorkflowIds : workflow[w] # None =>
           /\ workflow'[w] # None
           /\ workflow'[w].status = "published" =>
                \/ workflow[w].status = "published"
                \/ \A p \in EditRequests \ {r} :
                     edit[p].op = "update" /\ edit[p].id = w => p \in overlap'
  PROVE  DefinitionsInv'
<1>1. /\ edit' \in [EditRequests -> {Definitions!Idle} \cup Creating \cup Updating \cup Publishing]
      /\ \A p \in EditRequests : edit'[p] = IF p = r THEN Definitions!Idle ELSE edit[p]
  BY EditTypes
<1>2. Definitions!TypeOK' BY <1>1 DEF Definitions!TypeOK, Creating, Updating, Publishing
<1>3. \A p \in EditRequests :
        edit[p].op \in {"update", "publish"} => edit[p].id \in WorkflowIds
  BY EditTypes DEF Creating, Updating, Publishing, Definitions!Idle
<1>4. ASSUME NEW p \in EditRequests, edit'[p].op \in {"update", "publish"}
      PROVE  /\ workflow'[edit'[p].id] # None
             /\ edit'[p].op = "update" =>
                  /\ Agreeing(edit'[p].change)
                  /\ workflow'[edit'[p].id].status = "published" => p \in overlap'
  <2>1. p # r /\ edit'[p] = edit[p] BY <1>1, <1>4 DEF Definitions!Idle
  <2>2. edit[p].id \in WorkflowIds /\ workflow[edit[p].id] # None
    BY <1>3, <1>4, <2>1 DEF DefinitionsInv, WritesInv
  <2>. QED BY <1>4, <2>1, <2>2 DEF DefinitionsInv, WritesInv
<1>5. WritesInv' BY <1>4 DEF WritesInv
<1>. QED BY <1>2, <1>5 DEF DefinitionsInv

LEMMA BeginsPreserve ==
  ASSUME DefinitionsInv, NEW r \in EditRequests, NEW w \in WorkflowIds,
         \/ \E d \in Definitions!Definition : Definitions!BeginCreate(r, w, d)
         \/ Definitions!BeginUpdate(r, w) \/ Definitions!BeginPublish(r, w)
  PROVE  DefinitionsInv' /\ UNCHANGED workflow
<1>1. ASSUME NEW d \in Definitions!Definition, Definitions!BeginCreate(r, w, d)
      PROVE  DefinitionsInv' /\ UNCHANGED workflow
  <2>. DEFINE q == [op |-> "create", id |-> w, definition |-> d]
  <2>1. /\ UNCHANGED <<workflow, overlap>> /\ edit' = [edit EXCEPT ![r] = q]
    BY <1>1 DEF Definitions!BeginCreate
  <2>2. q \in Creating /\ q.op = "create" BY DEF Creating
  <2>. QED BY <2>1, <2>2, BeginPreserves
<1>2. ASSUME Definitions!BeginUpdate(r, w) PROVE DefinitionsInv' /\ UNCHANGED workflow
  <2>1. PICK c \in Definitions!ChangesOf(w) :
          edit' = [edit EXCEPT ![r] = [op |-> "update", id |-> w, change |-> c]]
    BY <1>2 DEF Definitions!BeginUpdate
  <2>2. /\ UNCHANGED <<workflow, overlap>> /\ workflow[w] # None
        /\ workflow[w].status = "draft"
    BY <1>2 DEF Definitions!BeginUpdate, Definitions!Existing, Definitions!CanBeUpdated
  <2>3. workflow[w].definition \in Definitions!Definition
    BY <2>2, EditTypes DEF Definitions!Row
  <2>4. c \in Definitions!Change /\ Agreeing(c)
    <3>1. CASE c = [trigger |-> None, definition |-> None]
      BY <3>1 DEF Definitions!Change, Agreeing
    <3>2. ASSUME NEW d \in Definitions!Definition, c = [trigger |-> d.trigger, definition |-> d]
          PROVE  c \in Definitions!Change /\ Agreeing(c)
      <4>1. d.trigger \in Triggers BY DEF Definitions!Definition
      <4>2. c.trigger = d.trigger /\ c.definition = d BY <3>2
      <4>3. c \in Definitions!Change BY <3>2, <4>1 DEF Definitions!Change
      <4>4. c.trigger # None /\ c.definition # None BY <4>1, <4>2, DefinitionConstants
      <4>. QED BY <4>2, <4>3, <4>4 DEF Agreeing
    <3>3. ASSUME NEW t \in Triggers, c = Definitions!Retargeted(workflow[w].definition, t)
          PROVE  c \in Definitions!Change /\ Agreeing(c)
      <4>. DEFINE d == [workflow[w].definition EXCEPT !.trigger = t]
      <4>1. d \in Definitions!Definition /\ d.trigger = t BY <2>3 DEF Definitions!Definition
      <4>2. c = [trigger |-> t, definition |-> d] BY <3>3 DEF Definitions!Retargeted
      <4>3. c.trigger = t /\ c.definition = d BY <4>2
      <4>4. c \in Definitions!Change BY <4>1, <4>2 DEF Definitions!Change
      <4>5. c.trigger # None /\ c.definition # None BY <4>1, <4>3, DefinitionConstants
      <4>. QED BY <4>1, <4>3, <4>4, <4>5 DEF Agreeing
    <3>. QED BY <3>1, <3>2, <3>3 DEF Definitions!ChangesOf
  <2>. DEFINE q == [op |-> "update", id |-> w, change |-> c]
  <2>5. /\ q \in Updating /\ q.id = w /\ q.change = c BY <2>4 DEF Updating
  <2>. QED BY <2>1, <2>2, <2>4, <2>5, BeginPreserves
<1>3. ASSUME Definitions!BeginPublish(r, w) PROVE DefinitionsInv' /\ UNCHANGED workflow
  <2>. DEFINE q == [op |-> "publish", id |-> w]
  <2>1. /\ UNCHANGED <<workflow, overlap>> /\ workflow[w] # None
        /\ edit' = [edit EXCEPT ![r] = q]
    BY <1>3 DEF Definitions!BeginPublish, Definitions!Existing
  <2>2. q \in Publishing /\ q.op = "publish" /\ q.id = w BY DEF Publishing
  <2>. QED BY <2>1, <2>2, BeginPreserves
<1>. QED BY <1>1, <1>2, <1>3

LEMMA CreatePreserves ==
  ASSUME DefinitionsInv, NEW r \in EditRequests, Definitions!Create(r)
  PROVE  /\ DefinitionsInv'
         /\ \A w \in Definitions!Existing : workflow'[w] = workflow[w]
<1>. DEFINE q == edit[r]
            row == [status |-> "draft", version |-> 1, trigger |-> q.definition.trigger,
                    definition |-> q.definition]
<1>1. /\ q.op = "create" /\ workflow[q.id] = None
      /\ workflow' = [workflow EXCEPT ![q.id] = row]
      /\ edit' = [edit EXCEPT ![r] = Definitions!Idle] /\ overlap' = overlap \ {r}
  BY DEF Definitions!Create, Definitions!Done
<1>2. q \in Creating
  BY <1>1, EditTypes DEF Creating, Updating, Publishing, Definitions!Idle
<1>3. q.id \in WorkflowIds /\ q.definition \in Definitions!Definition BY <1>2 DEF Creating
<1>4. q.definition.trigger \in Triggers BY <1>3 DEF Definitions!Definition
<1>5. row \in Definitions!Row BY <1>3, <1>4, DefinitionConstants DEF Definitions!Row
<1>. HIDE DEF q
<1>6. /\ workflow' \in [WorkflowIds -> Definitions!Row \cup {None}]
      /\ \A w \in WorkflowIds : workflow'[w] = IF w = q.id THEN row ELSE workflow[w]
  BY <1>1, <1>3, <1>5, EditTypes
<1>7. \A w \in Definitions!Existing : workflow'[w] = workflow[w]
  BY <1>1, <1>6 DEF Definitions!Existing
<1>8. RowsInv' BY <1>6 DEF DefinitionsInv, RowsInv
<1>9. DefinitionsInv'
  BY <1>1, <1>6, <1>7, <1>8, DonePreserves, EditTypes DEF Definitions!Existing
<1>. QED BY <1>7, <1>9

LEMMA UpdatePreserves ==
  ASSUME DefinitionsInv, NEW r \in EditRequests, Definitions!Update(r)
  PROVE  /\ DefinitionsInv'
         /\ \A w \in Definitions!Existing :
              workflow[w].status = "published" /\ workflow'[w] # workflow[w] =>
                r \in overlap /\ edit[r].id = w /\ edit'[r] = Definitions!Idle
<1>. DEFINE w == edit[r].id
            c == edit[r].change
            old == workflow[w]
            row == [status |-> old.status, version |-> old.version + 1,
                    trigger |-> IF c.trigger = None THEN old.trigger ELSE c.trigger,
                    definition |-> IF c.definition = None THEN old.definition ELSE c.definition]
<1>1. /\ edit[r].op = "update" /\ old.version < MaxVersion
      /\ workflow' = [workflow EXCEPT ![w] = row]
      /\ edit' = [edit EXCEPT ![r] = Definitions!Idle] /\ overlap' = overlap \ {r}
  BY DEF Definitions!Update, Definitions!Done
<1>2. w \in WorkflowIds /\ c \in Definitions!Change
  BY <1>1, EditTypes DEF Creating, Updating, Publishing, Definitions!Idle
<1>3. /\ old # None /\ Agreeing(c)
      /\ old.status = "published" => r \in overlap
  BY <1>1, <1>2 DEF DefinitionsInv, WritesInv
<1>4. old \in Definitions!Row /\ old.trigger = old.definition.trigger
  BY <1>2, <1>3, EditTypes DEF DefinitionsInv, RowsInv
<1>. HIDE DEF w, c
<1>5. /\ old.version + 1 \in 1..MaxVersion /\ old.status \in {"draft", "published"}
      /\ old.trigger \in Triggers /\ old.definition \in Definitions!Definition
  BY <1>1, <1>4, DefinitionConstants DEF Definitions!Row
<1>6. /\ c.trigger \in Triggers \cup {None} /\ c.definition \in Definitions!Definition \cup {None}
  BY <1>2 DEF Definitions!Change
<1>7. row \in Definitions!Row BY <1>5, <1>6 DEF Definitions!Row
<1>8. row.trigger = row.definition.trigger /\ row.status = old.status
  BY <1>3, <1>4 DEF Agreeing
<1>. HIDE DEF row
<1>9. /\ workflow' \in [WorkflowIds -> Definitions!Row \cup {None}]
      /\ \A v \in WorkflowIds : workflow'[v] = IF v = w THEN row ELSE workflow[v]
  BY <1>1, <1>2, <1>7, EditTypes
<1>10. RowsInv' BY <1>8, <1>9 DEF DefinitionsInv, RowsInv
<1>11. row # None BY <1>7, DefinitionConstants
<1>12. \A v \in WorkflowIds : workflow[v] # None =>
         workflow'[v] # None /\ workflow'[v].status = workflow[v].status
  BY <1>8, <1>9, <1>11
<1>13. DefinitionsInv' BY <1>1, <1>9, <1>10, <1>12, DonePreserves, EditTypes
<1>14. edit'[r] = Definitions!Idle BY <1>1, EditTypes
<1>. QED BY <1>3, <1>9, <1>13, <1>14 DEF w, Definitions!Existing

LEMMA PublishPreserves ==
  ASSUME DefinitionsInv, NEW r \in EditRequests, Definitions!Publish(r)
  PROVE  /\ DefinitionsInv'
         /\ \A w \in Definitions!Existing :
              workflow[w].status = "published" => workflow'[w] = workflow[w]
<1>. DEFINE w == edit[r].id
            old == workflow[w]
            row == [workflow[w] EXCEPT !.status = "published"]
<1>1. /\ edit[r].op = "publish" /\ workflow' = [workflow EXCEPT ![w] = row]
      /\ edit' = [edit EXCEPT ![r] = Definitions!Idle]
      /\ overlap' = (overlap \cup {p \in EditRequests : edit[p].op = "update" /\ edit[p].id = w})
                      \ {r}
  BY DEF Definitions!Publish
<1>2. w \in WorkflowIds
  BY <1>1, EditTypes DEF Creating, Updating, Publishing, Definitions!Idle
<1>3. old # None BY <1>1, <1>2 DEF DefinitionsInv, WritesInv
<1>4. old \in Definitions!Row /\ old.trigger = old.definition.trigger
  BY <1>2, <1>3, EditTypes DEF DefinitionsInv, RowsInv
<1>. HIDE DEF w
<1>5. /\ row \in Definitions!Row /\ row.trigger = old.trigger
      /\ row.definition = old.definition /\ row.status = "published"
      /\ old.status = "published" => row = old
  BY <1>4 DEF Definitions!Row
<1>. HIDE DEF row
<1>6. /\ workflow' \in [WorkflowIds -> Definitions!Row \cup {None}]
      /\ \A v \in WorkflowIds : workflow'[v] = IF v = w THEN row ELSE workflow[v]
  BY <1>1, <1>2, <1>5, EditTypes
<1>7. RowsInv' BY <1>4, <1>5, <1>6 DEF DefinitionsInv, RowsInv
<1>8. row # None BY <1>5, DefinitionConstants
<1>9. overlap \ {r} \subseteq overlap' /\ overlap' \subseteq EditRequests BY <1>1, EditTypes
<1>10. \A p \in EditRequests \ {r} : edit[p].op = "update" /\ edit[p].id = w => p \in overlap'
  BY <1>1
<1>11. ASSUME NEW v \in WorkflowIds, workflow[v] # None
       PROVE  /\ workflow'[v] # None
              /\ workflow'[v].status = "published" =>
                   \/ workflow[v].status = "published"
                   \/ \A p \in EditRequests \ {r} :
                        edit[p].op = "update" /\ edit[p].id = v => p \in overlap'
  BY <1>6, <1>8, <1>10, <1>11
<1>12. DefinitionsInv' BY <1>1, <1>6, <1>7, <1>9, <1>11, DonePreserves
<1>. QED BY <1>5, <1>6, <1>12 DEF Definitions!Existing

LEMMA AbortPreserves ==
  ASSUME DefinitionsInv, NEW r \in EditRequests, Definitions!Abort(r)
  PROVE  DefinitionsInv' /\ UNCHANGED workflow
<1>1. /\ UNCHANGED workflow /\ edit' = [edit EXCEPT ![r] = Definitions!Idle]
      /\ overlap' = overlap \ {r}
  BY DEF Definitions!Abort, Definitions!Done
<1>2. RowsInv' BY <1>1 DEF DefinitionsInv, RowsInv
<1>. QED BY <1>1, <1>2, DonePreserves, EditTypes

\* Every step keeps the invariant, and a published row is only written by an update that had
\* found the draft.
LEMMA DefinitionsStep ==
  ASSUME DefinitionsInv, Definitions!Next
  PROVE  /\ DefinitionsInv'
         /\ \A w \in Definitions!Existing :
              workflow[w].status = "published" /\ workflow'[w] # workflow[w] =>
                \E r \in overlap : edit[r].id = w /\ edit'[r] = Definitions!Idle
<1>1. PICK r \in EditRequests :
        \/ \E w \in WorkflowIds :
             \/ \E d \in Definitions!Definition : Definitions!BeginCreate(r, w, d)
             \/ Definitions!BeginUpdate(r, w)
             \/ Definitions!BeginPublish(r, w)
        \/ Definitions!Create(r) \/ Definitions!Update(r) \/ Definitions!Publish(r)
        \/ Definitions!Abort(r)
  BY DEF Definitions!Next
<1>2. CASE \E w \in WorkflowIds :
             \/ \E d \in Definitions!Definition : Definitions!BeginCreate(r, w, d)
             \/ Definitions!BeginUpdate(r, w)
             \/ Definitions!BeginPublish(r, w)
  BY <1>2, BeginsPreserve
<1>3. CASE Definitions!Create(r) BY <1>3, CreatePreserves
<1>4. CASE Definitions!Update(r) BY <1>4, UpdatePreserves
<1>5. CASE Definitions!Publish(r) BY <1>5, PublishPreserves
<1>6. CASE Definitions!Abort(r) BY <1>6, AbortPreserves
<1>. QED BY <1>1, <1>2, <1>3, <1>4, <1>5, <1>6

LEMMA DefinitionsStutter == DefinitionsInv /\ UNCHANGED definitions => DefinitionsInv'
BY DEF definitions, DefinitionsInv, Definitions!TypeOK, RowsInv, WritesInv

LEMMA DefinitionsHold == Init /\ [][Next]_vars => []DefinitionsInv
<1>1. Init => DefinitionsInv BY DefinitionsInit DEF Init
<1>2. (Only("definitions") /\ Definitions!Next) \/ UNCHANGED definitions \/ ~[Next]_vars
  BY DEF Next, Only, vars
<1>3. DefinitionsInv /\ [Next]_vars => DefinitionsInv'
  BY <1>2, DefinitionsStep, DefinitionsStutter
<1>. QED BY <1>1, <1>3, PTL

\* The trigger a workflow is found by is the one its definition was written for, for any number
\* of updates that overlap: none of them writes one of the two columns alone.
THEOREM TriggersAgreeAlways == Spec => []TriggersAgree
<1>1. DefinitionsInv => TriggersAgree
  BY DEF DefinitionsInv, RowsInv, TriggersAgree, Definitions!TriggersAgree, Definitions!Existing
<1>. QED BY <1>1, DefinitionsHold, PTL DEF Spec

\* A published workflow keeps its row for ever, but for the writes of updates that had found the
\* draft before it was published: what ensureWorkflowCanBeUpdated refuses, nothing else writes.
THEOREM PublishedStaysFrozen == Spec => PublishedIsFrozen
<1>1. (Only("definitions") /\ Definitions!Next) \/ UNCHANGED definitions \/ ~[Next]_vars
  BY DEF Next, Only, vars
<1>2. DefinitionsInv /\ [Next]_vars =>
        [\A w \in Definitions!Existing :
           workflow[w].status = "published" /\ workflow'[w] # workflow[w] =>
             \E r \in overlap : edit[r].id = w /\ edit'[r] = Definitions!Idle]_(Definitions!vars)
  BY <1>1, DefinitionsStep DEF Definitions!vars, definitions
<1>. QED
  BY <1>2, DefinitionsHold, PTL DEF Spec, PublishedIsFrozen, Definitions!PublishedIsFrozen

---------------------------------------------------------------------------
(***************************************************************************)
(* The stored secrets.                                                     *)
(***************************************************************************)

RowKeys == SecretStore!Tables \X SecretStore!Owners \X Nat \X Names

\* A row that was stored opens with its own name and type, and reads as the value last stored;
\* a row that was copied from the seed's does not open.
Opens(k) ==
  /\ secretRows[k].cipher.data = SecretStore!AssociatedData(k, secretRows[k].type)
  /\ stored[k] = secretRows[k].cipher.value
Copied(k) ==
  /\ k[2] = "copy" /\ stored[k] = None
  /\ secretRows[k].cipher.data[1][2] = "seed"

\* Every row is of the workflow its workspace has now, and was stored or copied; a request that
\* is to store a row has encrypted for that row.
SecretsInv ==
  /\ DOMAIN stored = DOMAIN secretRows
  /\ \A k \in DOMAIN secretRows : k \in RowKeys /\ k[3] = workflowOf[k[2]] /\ (Opens(k) \/ Copied(k))
  /\ workflowOf \in [SecretStore!Owners -> Nat] /\ workflows \in Nat
  /\ storing = [q \in SecretRequests |-> storing[q]]
  /\ \A q \in SecretRequests :
       storing[q].op = "store" =>
         /\ storing[q].row \in RowKeys
         /\ storing[q].cipher.data = SecretStore!AssociatedData(storing[q].row, storing[q].type)

LEMMA SecretsInit == SecretStore!Init => SecretsInv
BY DEF SecretStore!Init, SecretStore!NoRows, SecretStore!Owners, SecretsInv

\* A request changes what it is doing, and no row.
LEMMA BeginSecretPreserves ==
  ASSUME SecretsInv, NEW q \in SecretRequests, NEW s,
         UNCHANGED <<workflowOf, workflows, secretRows, stored>>,
         storing' = [storing EXCEPT ![q] = s],
         s.op = "store" =>
           s.row \in RowKeys /\ s.cipher.data = SecretStore!AssociatedData(s.row, s.type)
  PROVE  SecretsInv'
<1>1. \A p \in SecretRequests : storing'[p] = IF p = q THEN s ELSE storing[p]
  BY DEF SecretsInv
<1>2. storing' = [p \in SecretRequests |-> storing'[p]] BY DEF SecretsInv
<1>. QED BY <1>1, <1>2 DEF SecretsInv, Opens, Copied, SecretStore!AssociatedData

\* Rows that are left as they were, or are new and stored or copied, keep the invariant.
LEMMA RowsPreserve ==
  ASSUME SecretsInv,
         DOMAIN stored' = DOMAIN secretRows',
         \A k \in DOMAIN secretRows' :
           /\ k \in RowKeys /\ k[3] = workflowOf'[k[2]]
           /\ \/ k \in DOMAIN secretRows /\ secretRows'[k] = secretRows[k] /\ stored'[k] = stored[k]
              \/ Opens(k)'
              \/ Copied(k)',
         workflowOf' \in [SecretStore!Owners -> Nat], workflows' \in Nat,
         \/ UNCHANGED storing
         \/ \E q \in SecretRequests : SecretStore!Idle(q)
  PROVE  SecretsInv'
<1>1. /\ storing' = [q \in SecretRequests |-> storing'[q]]
      /\ \A q \in SecretRequests : storing'[q].op = "store" => storing'[q] = storing[q]
  BY DEF SecretStore!Idle, SecretsInv
<1>2. \A k \in DOMAIN secretRows' : Opens(k)' \/ Copied(k)'
  BY DEF SecretsInv, Opens, Copied
<1>. QED BY <1>1, <1>2 DEF SecretsInv, SecretStore!AssociatedData

LEMMA StoresPreserve ==
  ASSUME SecretsInv, NEW q \in SecretRequests,
         \/ \E o \in SecretStore!Owners, table \in SecretStore!Tables, name \in Names,
               type \in CredentialTypes \cup {None}, value \in SecretValues :
              SecretStore!BeginStore(q, o, table, name, type, value)
         \/ SecretStore!Store(q)
  PROVE  SecretsInv'
<1>1. ASSUME NEW o \in SecretStore!Owners, NEW table \in SecretStore!Tables, NEW name \in Names,
             NEW type, NEW value, SecretStore!BeginStore(q, o, table, name, type, value)
      PROVE  SecretsInv'
  <2>. DEFINE k == <<table, o, workflowOf[o], name>>
              s == [op |-> "store", row |-> k, type |-> type,
                    cipher |-> SecretStore!Encrypt(value, SecretStore!AssociatedData(k, type))]
  <2>1. k \in RowKeys BY DEF RowKeys, SecretsInv
  <2>2. UNCHANGED <<workflowOf, workflows, secretRows, stored>> /\ storing' = [storing EXCEPT ![q] = s]
    BY <1>1 DEF SecretStore!BeginStore
  <2>3. s.row = k /\ s.cipher.data = SecretStore!AssociatedData(s.row, s.type)
    BY DEF SecretStore!Encrypt
  <2>. QED BY <2>1, <2>2, <2>3, BeginSecretPreserves
<1>2. ASSUME SecretStore!Store(q) PROVE SecretsInv'
  <2>1. storing[q].op = "store" /\ SecretStore!Idle(q) /\ UNCHANGED <<workflowOf, workflows>>
    BY <1>2 DEF SecretStore!Store
  <2>2. PICK k \in RowKeys : k = storing[q].row BY <2>1 DEF SecretsInv
  <2>3. PICK written :
          written = [type |-> SecretStore!WrittenType(k, storing[q].type),
                     cipher |-> storing[q].cipher]
    OBVIOUS
  <2>4. /\ written.cipher = storing[q].cipher
        /\ written.cipher.data = SecretStore!AssociatedData(k, written.type)
    BY <2>1, <2>2, <2>3 DEF SecretsInv, SecretStore!WrittenType
  <2>5. CASE SecretStore!WorkflowGone(q)
    <3>1. UNCHANGED <<secretRows, stored>> BY <1>2, <2>5 DEF SecretStore!Store
    <3>. QED BY <2>1, <3>1, RowsPreserve DEF SecretsInv
  <2>6. CASE ~SecretStore!WorkflowGone(q)
    <3>1. /\ secretRows' = SecretStore!Over([j \in {k} |-> written], secretRows)
          /\ stored' = SecretStore!Over([j \in {k} |-> written.cipher.value], stored)
      BY <1>2, <2>2, <2>3, <2>4, <2>6 DEF SecretStore!Store
    <3>2. k[3] = workflowOf[k[2]] BY <2>2, <2>6 DEF SecretStore!WorkflowGone
    <3>3. /\ DOMAIN secretRows' = DOMAIN secretRows \cup {k} /\ DOMAIN stored' = DOMAIN secretRows'
          /\ secretRows'[k] = written /\ stored'[k] = written.cipher.value
          /\ \A j \in DOMAIN secretRows \ {k} :
               secretRows'[j] = secretRows[j] /\ stored'[j] = stored[j]
      BY <3>1 DEF SecretStore!Over, SecretsInv
    <3>4. Opens(k)' BY <2>4, <3>3 DEF Opens, SecretStore!AssociatedData
    <3>5. \A j \in DOMAIN secretRows' :
            /\ j \in RowKeys /\ j[3] = workflowOf'[j[2]]
            /\ \/ j \in DOMAIN secretRows /\ secretRows'[j] = secretRows[j] /\ stored'[j] = stored[j]
               \/ Opens(j)'
      BY <2>1, <3>2, <3>3, <3>4 DEF SecretsInv
    <3>. QED BY <2>1, <3>3, <3>5, RowsPreserve DEF SecretsInv
  <2>. QED BY <2>5, <2>6
<1>. QED BY <1>1, <1>2

LEMMA DeletesPreserve ==
  ASSUME SecretsInv, NEW q \in SecretRequests,
         \/ \E k \in DOMAIN secretRows : SecretStore!BeginDelete(q, k)
         \/ SecretStore!Delete(q)
  PROVE  SecretsInv'
<1>1. ASSUME NEW k \in DOMAIN secretRows, SecretStore!BeginDelete(q, k) PROVE SecretsInv'
  BY <1>1, BeginSecretPreserves DEF SecretStore!BeginDelete
<1>2. ASSUME SecretStore!Delete(q) PROVE SecretsInv'
  <2>. DEFINE left == DOMAIN secretRows \ {storing[q].row}
  <2>1. /\ secretRows' = [k \in left |-> secretRows[k]] /\ stored' = [k \in left |-> stored[k]]
        /\ SecretStore!Idle(q) /\ UNCHANGED <<workflowOf, workflows>>
    BY <1>2 DEF SecretStore!Delete, SecretStore!Restrict
  <2>. QED BY <2>1, RowsPreserve DEF SecretsInv
<1>. QED BY <1>1, <1>2

LEMMA ResetPreserves == ASSUME SecretsInv, SecretStore!ResetSeed PROVE SecretsInv'
<1>. DEFINE left == SecretStore!RowsOutside("seed")
<1>1. /\ workflowOf' = [workflowOf EXCEPT !["seed"] = workflows + 1] /\ workflows' = workflows + 1
      /\ secretRows' = [k \in left |-> secretRows[k]] /\ stored' = [k \in left |-> stored[k]]
      /\ UNCHANGED storing
  BY DEF SecretStore!ResetSeed, SecretStore!Restrict
<1>2. \A k \in left : k \in DOMAIN secretRows /\ k[2] # "seed" BY DEF SecretStore!RowsOutside
<1>3. \A k \in left : k \in RowKeys /\ k[3] = workflowOf'[k[2]]
  BY <1>1, <1>2 DEF SecretsInv, RowKeys
<1>. HIDE DEF left
<1>4. DOMAIN stored' = DOMAIN secretRows' /\ DOMAIN secretRows' = left BY <1>1
<1>5. \A k \in left : secretRows'[k] = secretRows[k] /\ stored'[k] = stored[k] BY <1>1
<1>6. workflows + 1 \in Nat BY DEF SecretsInv
<1>7. workflowOf' \in [SecretStore!Owners -> Nat] /\ workflows' \in Nat
  BY <1>1, <1>6 DEF SecretsInv
<1>. QED BY <1>1, <1>2, <1>3, <1>4, <1>5, <1>7, RowsPreserve

LEMMA CopyPreserves == ASSUME SecretsInv, SecretStore!CopySeed PROVE SecretsInv'
<1>. DEFINE left == SecretStore!RowsOutside("copy")
            id == workflows + 1
            copy == SecretStore!CopiedTo(id)
            sources == {r \in DOMAIN secretRows : r[2] = "seed" /\ r[3] = workflowOf["seed"]}
<1>1. /\ workflowOf' = [workflowOf EXCEPT !["copy"] = id] /\ workflows' = id
      /\ secretRows' = SecretStore!Over(copy, [k \in left |-> secretRows[k]])
      /\ stored' = SecretStore!Over([k \in DOMAIN copy |-> None], [k \in left |-> stored[k]])
      /\ UNCHANGED storing
  BY DEF SecretStore!CopySeed, SecretStore!Restrict
<1>2. \A k \in left : k \in DOMAIN secretRows /\ k \in RowKeys /\ k[2] = "seed"
  BY DEF SecretStore!RowsOutside, SecretsInv, RowKeys, SecretStore!Owners
<1>3. ASSUME NEW k \in DOMAIN copy
      PROVE  /\ k \in RowKeys /\ k[2] = "copy" /\ k[3] = id
             /\ copy[k].cipher.data[1][2] = "seed"
  <2>1. PICK c \in sources : k = <<c[1], "copy", id, c[4]>> BY DEF SecretStore!CopiedTo
  <2>2. c \in RowKeys BY DEF SecretsInv
  <2>3. c = <<c[1], "seed", workflowOf["seed"], c[4]>> BY <2>1, <2>2 DEF RowKeys
  <2>4. copy[k] = secretRows[c] BY <2>1, <2>3 DEF SecretStore!CopiedTo
  <2>5. Opens(c) BY DEF SecretsInv, Copied
  <2>6. copy[k].cipher.data[1][2] = "seed"
    BY <2>1, <2>4, <2>5 DEF Opens, SecretStore!AssociatedData
  <2>7. k \in RowKeys BY <2>1, <2>2 DEF RowKeys, SecretsInv, SecretStore!Owners
  <2>. QED BY <2>1, <2>6, <2>7
<1>. HIDE DEF left, copy, id
<1>4. /\ DOMAIN secretRows' = DOMAIN copy \cup left /\ DOMAIN stored' = DOMAIN secretRows'
      /\ \A k \in DOMAIN copy : secretRows'[k] = copy[k] /\ stored'[k] = None
      /\ \A k \in left \ DOMAIN copy : secretRows'[k] = secretRows[k] /\ stored'[k] = stored[k]
  BY <1>1 DEF SecretStore!Over
<1>5. id \in Nat BY DEF id, SecretsInv
<1>6. /\ workflowOf' \in [SecretStore!Owners -> Nat]
      /\ workflowOf'["copy"] = id /\ workflowOf'["seed"] = workflowOf["seed"]
  BY <1>1, <1>5 DEF SecretsInv, SecretStore!Owners
<1>7. \A k \in DOMAIN copy : k \in RowKeys /\ k[3] = workflowOf'[k[2]] /\ Copied(k)'
  BY <1>3, <1>4, <1>6 DEF Copied
<1>8. \A k \in left \ DOMAIN copy : k \in RowKeys /\ k[3] = workflowOf'[k[2]]
  BY <1>2, <1>6 DEF SecretsInv
<1>. QED BY <1>1, <1>2, <1>4, <1>5, <1>6, <1>7, <1>8, RowsPreserve

\* A run reads the value last stored under a name with the type it was stored with, whatever
\* requests and resets overlap and however many rows and workflows there are; what it cannot
\* read are the rows a session's workspace got with the copy of the seed's, until they are
\* stored again (secret-aad, copySeedStateToWorkspace).
THEOREM SecretsReadBackAlways == Spec => []SecretsReadBack
<1>1. Init => SecretsInv BY SecretsInit DEF Init
<1>2. (Only("secrets") /\ SecretStore!Next) \/ UNCHANGED secrets \/ ~[Next]_vars
  BY DEF Next, Only, vars
<1>3. SecretsInv /\ SecretStore!Next => SecretsInv'
  BY StoresPreserve, DeletesPreserve, ResetPreserves, CopyPreserves DEF SecretStore!Next
<1>4. SecretsInv /\ UNCHANGED secrets => SecretsInv'
  BY DEF secrets, SecretsInv, Opens, Copied, SecretStore!AssociatedData
<1>5. SecretsInv /\ [Next]_vars => SecretsInv' BY <1>2, <1>3, <1>4
<1>6. SecretsInv => SecretsReadBack
  <2>1. ASSUME SecretsInv, NEW k \in DOMAIN secretRows
        PROVE  k[3] = workflowOf[k[2]] /\ SecretStore!ReadBy(k) = stored[k]
    <3>1. CASE Opens(k)
      BY <2>1, <3>1 DEF Opens, SecretsInv, SecretStore!ReadBy, SecretStore!Decrypt
    <3>2. CASE Copied(k)
      <4>1. secretRows[k].cipher.data # SecretStore!AssociatedData(k, secretRows[k].type)
        BY <3>2 DEF Copied, SecretStore!AssociatedData
      <4>. QED BY <2>1, <3>2, <4>1 DEF Copied, SecretsInv, SecretStore!ReadBy, SecretStore!Decrypt
    <3>. QED BY <2>1, <3>1, <3>2 DEF SecretsInv
  <2>. QED BY <2>1 DEF SecretsReadBack, SecretStore!SecretsReadBack
<1>. QED BY <1>1, <1>5, <1>6, PTL DEF Spec

---------------------------------------------------------------------------
(***************************************************************************)
(* The windows the settings give.                                          *)
(***************************************************************************)

LEMMA ConfiguredRanges ==
  /\ Windows!Ranges["WEBHOOK_SIGNATURE_TOLERANCE_SECONDS"] = <<30, 3600>>
  /\ Windows!Ranges["WEBHOOK_REPLAY_TTL_SECONDS"] = <<60, 86400>>
  /\ Windows!Ranges["WORKER_HEARTBEAT_INTERVAL_MS"] = <<1000, 60000>>
  /\ Windows!Ranges["WORKER_HEARTBEAT_TTL_SECONDS"] = <<5, 300>>
<1>. DEFINE signed == {"WEBHOOK_SIGNATURE_TOLERANCE_SECONDS", "WEBHOOK_REPLAY_TTL_SECONDS"}
            beats == {"WORKER_HEARTBEAT_INTERVAL_MS", "WORKER_HEARTBEAT_TTL_SECONDS"}
<1>1. /\ beats \subseteq DOMAIN Windows!ServiceRanges
      /\ signed \cap DOMAIN Windows!ServiceRanges = {}
      /\ Windows!ServiceRanges["WORKER_HEARTBEAT_INTERVAL_MS"] = <<1000, 60000>>
      /\ Windows!ServiceRanges["WORKER_HEARTBEAT_TTL_SECONDS"] = <<5, 300>>
  BY DEF Windows!ServiceRanges
<1>2. (beats \cup signed) \cap DOMAIN Windows!AccountRanges = {} BY DEF Windows!AccountRanges
<1>3. /\ signed \subseteq DOMAIN Windows!LimitRanges /\ beats \cap DOMAIN Windows!LimitRanges = {}
      /\ Windows!LimitRanges["WEBHOOK_SIGNATURE_TOLERANCE_SECONDS"] = <<30, 3600>>
      /\ Windows!LimitRanges["WEBHOOK_REPLAY_TTL_SECONDS"] = <<60, 86400>>
  BY DEF Windows!LimitRanges
<1>4. (beats \cup signed) \cap DOMAIN Windows!RuntimeRanges = {} BY DEF Windows!RuntimeRanges
<1>5. \A n \in beats : Windows!Ranges[n] = Windows!ServiceRanges[n]
  <2>. HIDE DEF beats
  <2>. QED BY <1>1, <1>2, <1>3, <1>4 DEF Windows!Ranges
<1>6. \A n \in signed : Windows!Ranges[n] = Windows!LimitRanges[n]
  <2>. HIDE DEF signed
  <2>. QED BY <1>1, <1>2, <1>3, <1>4 DEF Windows!Ranges
<1>. QED BY <1>1, <1>3, <1>5, <1>6

\* What the readers return for a number is one, whatever the source gives.
LEMMA SettingsAreNumbers ==
  /\ Windows!Tolerance \in Nat /\ Windows!ReplayTtl \in Nat \ {0}
  /\ Windows!Interval \in Nat /\ Windows!HeartbeatTtl \in Nat
<1>1. /\ Windows!IntegerDefaults["WEBHOOK_SIGNATURE_TOLERANCE_SECONDS"] = 300
      /\ Windows!IntegerDefaults["WEBHOOK_REPLAY_TTL_SECONDS"] = 600
      /\ Windows!IntegerDefaults["WORKER_HEARTBEAT_INTERVAL_MS"] = 10000
      /\ Windows!IntegerDefaults["WORKER_HEARTBEAT_TTL_SECONDS"] = 45
  BY DEF Windows!IntegerDefaults
<1>2. Windows!Setting(source, "WEBHOOK_SIGNATURE_TOLERANCE_SECONDS") \in Nat
  BY <1>1, ConfiguredRanges DEF Windows!Setting, Windows!InRange
<1>3. Windows!Setting(source, "WEBHOOK_REPLAY_TTL_SECONDS") \in Nat \ {0}
  BY <1>1, ConfiguredRanges DEF Windows!Setting, Windows!InRange
<1>4. Windows!Setting(source, "WORKER_HEARTBEAT_INTERVAL_MS") \in Nat
  BY <1>1, ConfiguredRanges DEF Windows!Setting, Windows!InRange
<1>5. Windows!Setting(source, "WORKER_HEARTBEAT_TTL_SECONDS") \in Nat
  BY <1>1, ConfiguredRanges DEF Windows!Setting, Windows!InRange
<1>. QED
  BY <1>2, <1>3, <1>4, <1>5
  DEF Windows!Tolerance, Windows!ReplayTtl, Windows!Interval, Windows!HeartbeatTtl, Windows!Value

\* The source is one the service may have, and one it accepted if it runs.
SourceInv ==
  /\ source \in Sources /\ status \in {"starting", "refused", "running"}
  /\ status = "running" => Windows!Accepted(source)
\* A heartbeat that was written is as old as the beats that were lost since.
BeatInv ==
  /\ misses \in Nat
  /\ status # "running" => age = None
  /\ age = None => misses = 0
  /\ age # None => age \in Nat
  /\ age # None /\ misses = 0 => age = 0
  /\ age # None /\ misses = 1 => age = Windows!Interval
\* The marker is there until as many of its lives have passed since the signature was first
\* taken as it was taken times, and the last time was within the tolerance.
MarkerInv ==
  /\ clock \in Int /\ taken \in Nat
  /\ marker # None => marker \in Int
  /\ taken = 0 => marker = None /\ first = None
  /\ taken > 0 =>
       /\ first \in Int
       /\ (taken - 1) * Windows!ReplayTtl <= Windows!Tolerance - first
       /\ first + taken * Windows!ReplayTtl <= IF marker = None THEN clock ELSE marker
WindowsInv == SourceInv /\ BeatInv /\ MarkerInv

LEMMA WindowsInit == Init => WindowsInv
<1>. SUFFICES ASSUME Init PROVE WindowsInv OBVIOUS
<1>1. source \in Sources BY DEF Init, Windows!Init
<1>2. /\ status = "starting" /\ age = None /\ misses = 0 /\ clock = 0 - Windows!Tolerance
      /\ marker = None /\ first = None /\ taken = 0
  BY DEF Init, Windows!Init
<1>3. clock \in Int BY <1>2, SettingsAreNumbers
<1>. QED BY <1>1, <1>2, <1>3 DEF WindowsInv, SourceInv, BeatInv, MarkerInv

\* The settings are as they were if the source is.
LEMMA SameSettings ==
  ASSUME UNCHANGED source
  PROVE  /\ Windows!Tolerance' = Windows!Tolerance /\ Windows!ReplayTtl' = Windows!ReplayTtl
         /\ Windows!Interval' = Windows!Interval
BY DEF Windows!Tolerance, Windows!ReplayTtl, Windows!Interval, Windows!Value, Windows!Setting,
       Windows!Chosen, Windows!Form

\* One more life of a marker.
LEMMA NextLife ==
  ASSUME NEW n \in Nat, NEW life \in Nat PROVE (n + 1) * life = n * life + life
OBVIOUS

LEMMA WindowsStep == ASSUME WindowsInv, Windows!Next PROVE WindowsInv'
<1>1. UNCHANGED source
  BY DEF Windows!Next, Windows!Start, Windows!BeatWritten, Windows!BeatLost, Windows!TimePasses,
         Windows!Receive
<1>2. /\ Windows!Tolerance' = Windows!Tolerance /\ Windows!ReplayTtl' = Windows!ReplayTtl
      /\ Windows!Interval' = Windows!Interval
  BY <1>1, SameSettings
<1>3. Windows!Accepted(source)' <=> Windows!Accepted(source)
  BY <1>1 DEF Windows!Accepted, Windows!ReaderErrors, Windows!CrossChecks, Windows!Form,
              Windows!Chosen, Windows!Text, Windows!On, Windows!Setting, Windows!Deployed
<1>4. SourceInv'
  BY <1>1, <1>3 DEF WindowsInv, SourceInv, Windows!Next, Windows!Start, Windows!BeatWritten,
                    Windows!BeatLost, Windows!TimePasses, Windows!Receive
<1>5. None \notin Int /\ ClockTick \in Nat
  BY ControlPlaneAssumption DEF Windows!ConfiguredWindowsAssumption
<1>6. BeatInv'
  <2>1. CASE Windows!Start BY <1>2, <1>5, <2>1 DEF WindowsInv, SourceInv, BeatInv, Windows!Start
  <2>2. CASE Windows!BeatWritten BY <1>2, <2>2 DEF BeatInv, Windows!BeatWritten
  <2>3. CASE Windows!BeatLost
    <3>1. /\ age # None /\ age' = age + Windows!Interval /\ misses' = misses + 1
          /\ status' = "running"
      BY <2>3 DEF Windows!BeatLost
    <3>2. age \in Nat /\ misses \in Nat /\ (misses = 0 => age = 0)
      BY <3>1 DEF WindowsInv, BeatInv
    <3>. QED BY <1>2, <1>5, <3>1, <3>2, SettingsAreNumbers DEF BeatInv
  <2>4. CASE Windows!TimePasses \/ Windows!Receive
    BY <1>2, <2>4 DEF WindowsInv, BeatInv, Windows!TimePasses, Windows!Receive
  <2>. QED BY <2>1, <2>2, <2>3, <2>4 DEF Windows!Next
<1>7. MarkerInv'
  <2>1. CASE Windows!Start \/ Windows!BeatWritten \/ Windows!BeatLost
    BY <1>2, <2>1 DEF WindowsInv, MarkerInv, Windows!Start, Windows!BeatWritten, Windows!BeatLost
  <2>2. CASE Windows!TimePasses
    BY <1>2, <1>5, <2>2, SettingsAreNumbers DEF WindowsInv, MarkerInv, Windows!TimePasses
  <2>3. CASE Windows!Receive
    <3>1. /\ clock >= 0 - Windows!Tolerance /\ clock <= Windows!Tolerance /\ marker = None
          /\ marker' = clock + Windows!ReplayTtl /\ UNCHANGED clock
          /\ first' = (IF taken = 0 THEN clock ELSE first) /\ taken' = taken + 1
      BY <2>3, SettingsAreNumbers DEF Windows!Receive, Windows!WithinTolerance
    <3>2. clock \in Int /\ taken \in Nat /\ marker' \in Int /\ taken' > 0
      BY <3>1, SettingsAreNumbers DEF WindowsInv, MarkerInv
    <3>3. CASE taken = 0
      <4>1. first' = clock /\ taken' = 1 BY <3>1, <3>3
      <4>2. (taken' - 1) * Windows!ReplayTtl' = 0
        <5>1. taken' - 1 = 0 BY <4>1
        <5>. QED BY <1>2, <5>1, SettingsAreNumbers
      <4>3. taken' * Windows!ReplayTtl' = Windows!ReplayTtl
        BY <1>2, <4>1, SettingsAreNumbers
      <4>4. first' + taken' * Windows!ReplayTtl' <= marker'
        BY <3>1, <3>2, <4>1, <4>3, SettingsAreNumbers
      <4>5. (taken' - 1) * Windows!ReplayTtl' <= Windows!Tolerance' - first'
        BY <1>2, <3>1, <3>2, <4>1, <4>2, SettingsAreNumbers
      <4>. QED BY <1>5, <3>1, <3>2, <4>1, <4>4, <4>5 DEF MarkerInv
    <3>4. CASE taken > 0
      <4>. DEFINE lives == taken * Windows!ReplayTtl
      <4>1. first \in Int /\ first + lives <= clock
        BY <3>1, <3>4 DEF WindowsInv, MarkerInv
      <4>2. first' = first /\ lives \in Int BY <3>1, <3>2, <3>4, SettingsAreNumbers
      <4>3. (taken' - 1) * Windows!ReplayTtl' = lives
        <5>1. taken' - 1 = taken BY <3>1, <3>2
        <5>. QED BY <1>2, <5>1
      <4>4. taken' * Windows!ReplayTtl' = lives + Windows!ReplayTtl
        BY <1>2, <3>1, <3>2, NextLife, SettingsAreNumbers
      <4>. HIDE DEF lives
      <4>5. (taken' - 1) * Windows!ReplayTtl' <= Windows!Tolerance' - first'
        BY <1>2, <3>1, <3>2, <4>1, <4>2, <4>3, SettingsAreNumbers
      <4>6. first' + taken' * Windows!ReplayTtl' <= marker'
        BY <3>1, <3>2, <4>1, <4>2, <4>4, SettingsAreNumbers
      <4>. QED BY <1>5, <3>1, <3>2, <4>1, <4>2, <4>5, <4>6 DEF MarkerInv
    <3>. QED BY <3>2, <3>3, <3>4
  <2>. QED BY <2>1, <2>2, <2>3 DEF Windows!Next
<1>. QED BY <1>4, <1>6, <1>7 DEF WindowsInv

\* A running service has accepted a time to live of two intervals.
LEMMA AcceptedSettings ==
  ASSUME WindowsInv, status = "running"
  PROVE  2 * Windows!Interval <= Windows!HeartbeatTtl
<1>1. Windows!CrossChecks(source) BY DEF WindowsInv, SourceInv, Windows!Accepted
<1>2. Windows!Interval \in Nat /\ Windows!HeartbeatTtl \in Nat BY SettingsAreNumbers
<1>3. Windows!HeartbeatTtl >= Windows!Interval * 2
  BY <1>1 DEF Windows!CrossChecks, Windows!TtlCovers, Windows!Interval, Windows!HeartbeatTtl,
              Windows!Value
<1>. QED BY <1>2, <1>3

\* With every environment a service accepts, a worker's heartbeat outlives one that is lost, and
\* the takings of one signature lie the life of its marker apart and end with the tolerance
\* (validateEnvironment, writeHeartbeat, verifyWebhookSignature, reserveReplay).
THEOREM AcceptedSettingsAlwaysHold == Spec => []AcceptedSettingsHold
<1>1. Init => WindowsInv BY WindowsInit
<1>2. (Only("windows") /\ Windows!Next) \/ UNCHANGED windows \/ ~[Next]_vars
  BY DEF Next, Only, vars
<1>3. WindowsInv /\ UNCHANGED windows => WindowsInv'
  <2>1. ASSUME WindowsInv, UNCHANGED windows PROVE WindowsInv'
    <3>1. UNCHANGED <<source, status, age, misses, clock, marker, first, taken>>
      BY <2>1 DEF windows
    <3>2. Windows!Accepted(source)' <=> Windows!Accepted(source)
      BY <3>1 DEF Windows!Accepted, Windows!ReaderErrors, Windows!CrossChecks, Windows!Form,
                  Windows!Chosen, Windows!Text, Windows!On, Windows!Setting, Windows!Deployed
    <3>. QED BY <2>1, <3>1, <3>2, SameSettings DEF WindowsInv, SourceInv, BeatInv, MarkerInv
  <2>. QED BY <2>1
<1>4. WindowsInv /\ [Next]_vars => WindowsInv' BY <1>2, <1>3, WindowsStep
<1>5. WindowsInv => AcceptedSettingsHold
  <2>1. ASSUME WindowsInv, status = "running" PROVE Windows!HeartbeatLasts
    BY <2>1, AcceptedSettings, SettingsAreNumbers DEF WindowsInv, BeatInv, Windows!HeartbeatLasts
  <2>2. ASSUME WindowsInv PROVE Windows!TakingsSpaced
    BY <2>2 DEF WindowsInv, MarkerInv, Windows!TakingsSpaced
  <2>. QED BY <2>1, <2>2 DEF AcceptedSettingsHold, Windows!AcceptedSettingsHold
<1>. QED BY <1>1, <1>4, <1>5, PTL DEF Spec
=============================================================================
