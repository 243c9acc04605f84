------------------------- MODULE ConfiguredWindows -------------------------
(***************************************************************************)
(* Two things whose correctness hangs on windows of time that are set in   *)
(* the environment: the key a worker keeps alive in Redis with its         *)
(* heartbeats, and the marker that keeps one signed webhook from being     *)
(* taken twice.  A service is started with some source, which it accepts   *)
(* or refuses; then its beats come at their interval, each of them         *)
(* written or lost, and one signature is received again and again while    *)
(* the service's clock moves from before the signature's timestamp to      *)
(* after it.                                                               *)
(***************************************************************************)
EXTENDS Configuration

CONSTANTS
  Sources,   \* environments
  Tick,      \* bound: seconds the clock moves at once
  MaxMisses, \* bound: heartbeats lost in a row
  MaxTaken   \* bound: times the signature is taken

ConfiguredWindowsAssumption ==
  /\ {Tick, MaxMisses, MaxTaken} \subseteq Nat \ {0}
  /\ None \notin Int
  /\ \A s \in Sources : \A n \in DOMAIN s : s[n].form \in {"blank", "malformed", "given"}

VARIABLES
  source, \* process.env
  status, \* "starting", "refused" or "running"
  age,    \* milliseconds from the last heartbeat that was written to the last one due, or None
  misses, \* heartbeats lost since
  clock,  \* seconds from the signature's timestamp to now, on the service's clock
  marker, \* when the signature's marker expires, None if there is none
  first,  \* history: when the signature was first taken, None if it was not
  taken   \* history: how often the signature was taken

vars == <<source, status, age, misses, clock, marker, first, taken>>

Value(n) == Setting(source, n)
Tolerance == Value("WEBHOOK_SIGNATURE_TOLERANCE_SECONDS")
ReplayTtl == Value("WEBHOOK_REPLAY_TTL_SECONDS")
Interval == Value("WORKER_HEARTBEAT_INTERVAL_MS")
HeartbeatTtl == Value("WORKER_HEARTBEAT_TTL_SECONDS") * 1000

Init ==
  /\ source \in Sources
  /\ status = "starting"
  /\ age = None /\ misses = 0
  /\ clock = 0 - Tolerance
  /\ marker = None /\ first = None /\ taken = 0

\* The environment is validated, and a worker's first heartbeat is written or lost.
Start ==
  /\ status = "starting"
  /\ IF Accepted(source)
     THEN /\ status' = "running"
          /\ \/ age' = 0 /\ UNCHANGED misses
             \/ UNCHANGED <<age, misses>>
     ELSE status' = "refused" /\ UNCHANGED <<age, misses>>
  /\ UNCHANGED <<source, clock, marker, first, taken>>

\* writeHeartbeat, at the interval; an error is logged and nothing else.
BeatWritten ==
  /\ status = "running"
  /\ age' = 0 /\ misses' = 0
  /\ UNCHANGED <<source, status, clock, marker, first, taken>>

BeatLost ==
  /\ status = "running" /\ age # None /\ misses < MaxMisses
  /\ age' = age + Interval /\ misses' = misses + 1
  /\ UNCHANGED <<source, status, clock, marker, first, taken>>

\* A key expires as its time comes.
TimePasses ==
  /\ status = "running"
  /\ clock < Tolerance
  /\ clock' = clock + Tick
  /\ marker' = IF marker # None /\ marker <= clock' THEN None ELSE marker
  /\ UNCHANGED <<source, status, age, misses, first, taken>>

\* verifyWebhookSignature: the age of the timestamp, either way.
WithinTolerance == clock \in (0 - Tolerance)..Tolerance

\* reserveReplay, after the signature was verified.
Receive ==
  /\ status = "running" /\ taken < MaxTaken
  /\ WithinTolerance /\ marker = None
  /\ marker' = clock + ReplayTtl
  /\ first' = IF taken = 0 THEN clock ELSE first
  /\ taken' = taken + 1
  /\ UNCHANGED <<source, status, age, misses, clock>>

Next == Start \/ BeatWritten \/ BeatLost \/ TimePasses \/ Receive

Spec == Init /\ [][Next]_vars

---------------------------------------------------------------------------
\* Unless two heartbeats in a row are lost, the key is there until the next one is due.
HeartbeatLasts == age # None /\ misses <= 1 => age + Interval <= HeartbeatTtl

\* The times a signature is taken lie a whole life of its marker apart, and the last of them
\* is still within the tolerance.  That is once if the marker outlives what is left of the
\* tolerance when the signature is first taken, and else as often as the settings allow: with
\* the defaults, 600 s for the marker and 300 s either way, it can be a second time, when the
\* sender's clock is the whole tolerance ahead of the service's.
TakingsSpaced == taken > 0 => (taken - 1) * ReplayTtl <= Tolerance - first

\* In an environment that is accepted the windows fit each other: one lost heartbeat does not
\* make the worker look dead, and a signature is never taken again before its marker's time.
\* The schema does not ask for a marker that lives as long as a signature is good, twice the
\* tolerance, but only for half of that.
AcceptedSettingsHold == status = "running" => HeartbeatLasts /\ TakingsSpaced
=============================================================================
