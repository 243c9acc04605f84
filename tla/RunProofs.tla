----------------------------- MODULE RunProofs -----------------------------
(***************************************************************************)
(* What runs, proved for every limit: the connectors' calls fail as the    *)
(* retry rules judge them, a process that says it ended well did, a run    *)
(* follows the lines that are drawn of its workflow, and a document comes  *)
(* out of the template resolver as it is written.                          *)
(***************************************************************************)
EXTENDS ControlPlane, TLAPS, SequenceTheorems, WellFoundedInduction

---------------------------------------------------------------------------
(***************************************************************************)
(* The connectors: the engine's mapping and the retry rules find again     *)
(* what the connector thought of a failure.                                *)
(***************************************************************************)

\* The failure of a credential that cannot be decrypted, under the code of a failed delivery.
Undeciphered == Connector!Failure("NOTIFICATION_DELIVERY_FAILED", "unknown", FALSE)
Agrees(f) == Connector!Verdict(f) = f.retryable \/ f = Undeciphered

LEMMA ListedAgree ==
  ASSUME NEW code, NEW category, NEW b \in BOOLEAN,
         b => code \in Connector!RetryableCodes,
         ~b => code \in Connector!NonRetryableCodes
  PROVE  Agrees(Connector!Failure(code, category, b))
<1>1. Connector!RetryableCodes \cap Connector!NonRetryableCodes = {}
  BY DEF Connector!RetryableCodes, Connector!NonRetryableCodes
<1>. DEFINE f == Connector!Failure(code, category, b)
<1>2. f.code = code /\ f.retryable = b BY DEF Connector!Failure
<1>. HIDE DEF f
<1>3. Connector!Verdict(f) <=> b
  BY <1>1, <1>2 DEF Connector!Verdict, Connector!IsRetryableExecutionError
<1>4. Connector!Verdict(f) \in BOOLEAN
  BY DEF Connector!Verdict, Connector!IsRetryableExecutionError
<1>. QED BY <1>2, <1>3, <1>4 DEF Agrees, f

\* A code on neither list is judged by its category, and that follows the connector's mind.
LEMMA UnlistedAgree ==
  ASSUME NEW code, NEW category, NEW b \in BOOLEAN,
         code \notin Connector!RetryableCodes \cup Connector!NonRetryableCodes,
         category \notin {"authentication", "authorization", "rate_limit"}
  PROVE  Agrees(Connector!Failure(code, category, b))
<1>. DEFINE f == Connector!Failure(code, category, b)
<1>1. f.code = code /\ f.category = category /\ f.retryable = b BY DEF Connector!Failure
<1>. HIDE DEF f
<1>2. Connector!MappedCategory(f) = IF b THEN "business_rule" ELSE "validation"
  BY <1>1 DEF Connector!MappedCategory
<1>3. Connector!Verdict(f) <=> b
  BY <1>1, <1>2 DEF Connector!Verdict, Connector!IsRetryableExecutionError
<1>4. Connector!Verdict(f) \in BOOLEAN
  BY DEF Connector!Verdict, Connector!IsRetryableExecutionError
<1>. QED BY <1>1, <1>3, <1>4 DEF Agrees, f

\* Whatever goes wrong before anything is sent.
LEMMA PrepareFaultsAgree ==
  ASSUME NEW k \in Connector!Kinds, NEW f \in Connector!PrepareFaults[k] PROVE Agrees(f)
<1>1. CASE f \in Connector!HttpPrepareFaults
  <2>1. Agrees(Connector!HttpConfigInvalid) /\ Agrees(Connector!SecretUnresolved)
        /\ Agrees(Connector!BodyTooLarge)
    BY ListedAgree, UnlistedAgree
    DEF Connector!HttpConfigInvalid, Connector!SecretUnresolved, Connector!BodyTooLarge,
        Connector!RetryableCodes, Connector!NonRetryableCodes
  <2>. QED BY <2>1, <1>1, ListedAgree DEF Connector!HttpPrepareFaults, Connector!CredentialFaults,
    Connector!NetworkError, Connector!RetryableCodes, Connector!NonRetryableCodes
<1>2. CASE f \in Connector!AiPrepareFaults
  BY <1>2, ListedAgree DEF Connector!AiPrepareFaults, Connector!AiConfigInvalid,
    Connector!RetryableCodes, Connector!NonRetryableCodes
<1>3. CASE f \in Connector!NotificationPrepareFaults
  <2>1. \A g \in Connector!WebhookFaults : Agrees(g)
    <3>1. Agrees(Undeciphered) BY DEF Agrees
    <3>2. Agrees(Connector!Failure("P1001", "unknown", FALSE))
      BY UnlistedAgree DEF Connector!RetryableCodes, Connector!NonRetryableCodes
    <3>. QED BY <3>1, <3>2 DEF Connector!WebhookFaults, Undeciphered
  <2>. QED BY <2>1, <1>3, ListedAgree DEF Connector!NotificationPrepareFaults,
    Connector!NotificationConfigInvalid, Connector!WebhookMissing, Connector!WebhookInvalid,
    Connector!RetryableCodes, Connector!NonRetryableCodes
<1>. QED BY <1>1, <1>2, <1>3 DEF Connector!Kinds, Connector!PrepareFaults

\* Whatever goes wrong with an address or a connection.
LEMMA ConnectFaultsAgree ==
  /\ \A f \in Connector!UrlFaults : Agrees(f)
  /\ \A k \in Connector!Kinds : \A f \in Connector!ConnectFaults[k] : Agrees(f)
<1>1. Agrees(Connector!NetworkError)
  BY ListedAgree DEF Connector!NetworkError, Connector!RetryableCodes
<1>2. \A f \in Connector!AddressFaults : Agrees(f)
  BY ListedAgree, UnlistedAgree
  DEF Connector!AddressFaults, Connector!RetryableCodes, Connector!NonRetryableCodes
<1>3. \A f \in Connector!UrlFaults : Agrees(f) BY <1>1, <1>2 DEF Connector!UrlFaults
<1>4. \A f \in Connector!ProxyInvalid \cup Connector!TunnelFaults : Agrees(f)
  BY UnlistedAgree
  DEF Connector!ProxyInvalid, Connector!TunnelFaults, Connector!RetryableCodes,
      Connector!NonRetryableCodes
<1>5. \A f \in Connector!AiConnectFaults : Agrees(f)
  BY ListedAgree
  DEF Connector!AiConnectFaults, Connector!RetryableCodes, Connector!NonRetryableCodes
<1>6. \A f \in Connector!ConnectFaults["notification"] : Agrees(f)
  BY ListedAgree DEF Connector!ConnectFaults, Connector!RetryableCodes
<1>7. \A f \in Connector!HttpConnectFaults : Agrees(f)
  BY <1>3, <1>4 DEF Connector!HttpConnectFaults
<1>8. /\ Connector!ConnectFaults["http"] = Connector!HttpConnectFaults
      /\ Connector!ConnectFaults["ai"] = Connector!AiConnectFaults
  BY DEF Connector!ConnectFaults
<1>. QED BY <1>3, <1>5, <1>6, <1>7, <1>8 DEF Connector!Kinds

\* Whatever a response tells, and a response that does not come.
LEMMA ResponseFaultsAgree ==
  ASSUME NEW k \in Connector!Kinds
  PROVE  /\ \A f \in Connector!Unreadable[k] : Agrees(f)
         /\ \A f \in Connector!Refused[k].retry \cup Connector!Refused[k].other : Agrees(f)
         /\ Agrees(Connector!Broken[k]) /\ Agrees(Connector!TimedOut[k])
<1>1. CASE k = "http"
  <2>1. Agrees(Connector!Broken.http) /\ Agrees(Connector!TimedOut.http)
    BY ListedAgree
    DEF Connector!Broken, Connector!TimedOut, Connector!NetworkError, Connector!RetryableCodes
  <2>2. \A f \in Connector!HttpUnreadable : Agrees(f)
    BY UnlistedAgree
    DEF Connector!HttpUnreadable, Connector!RetryableCodes, Connector!NonRetryableCodes
  <2>3. \A f \in Connector!HttpRefused.retry : Agrees(f)
    BY ListedAgree DEF Connector!HttpRefused, Connector!RetryableCodes
  <2>4. \A f \in Connector!HttpRefused.other : Agrees(f)
    BY ListedAgree DEF Connector!HttpRefused, Connector!NonRetryableCodes
  <2>. QED
    BY <1>1, <2>1, <2>2, <2>3, <2>4 DEF Connector!Unreadable, Connector!Refused
<1>2. CASE k = "ai"
  <2>1. Agrees(Connector!Broken.ai) /\ Agrees(Connector!TimedOut.ai)
    BY ListedAgree DEF Connector!Broken, Connector!TimedOut, Connector!RetryableCodes
  <2>2. \A f \in Connector!AiUnreadable : Agrees(f)
    BY ListedAgree DEF Connector!AiUnreadable, Connector!NonRetryableCodes
  <2>3. \A f \in Connector!AiRefused.retry : Agrees(f)
    BY ListedAgree DEF Connector!AiRefused, Connector!RetryableCodes
  <2>4. \A f \in Connector!AiRefused.other : Agrees(f)
    <3>1. Agrees(Connector!Failure("AI_PROVIDER_HTTP_404", "validation", FALSE))
      BY UnlistedAgree DEF Connector!RetryableCodes, Connector!NonRetryableCodes
    <3>. QED BY <3>1, ListedAgree DEF Connector!AiRefused, Connector!NonRetryableCodes
  <2>. QED
    BY <1>2, <2>1, <2>2, <2>3, <2>4 DEF Connector!Unreadable, Connector!Refused
<1>3. CASE k = "notification"
  <2>1. Agrees(Connector!Broken.notification) /\ Agrees(Connector!TimedOut.notification)
    BY ListedAgree DEF Connector!Broken, Connector!TimedOut, Connector!RetryableCodes
  <2>2. \A f \in Connector!NotificationRefused.retry : Agrees(f)
    BY ListedAgree DEF Connector!NotificationRefused, Connector!RetryableCodes
  <2>3. \A f \in Connector!NotificationRefused.other : Agrees(f)
    BY ListedAgree DEF Connector!NotificationRefused, Connector!NonRetryableCodes
  <2>. QED
    BY <1>3, <2>1, <2>2, <2>3 DEF Connector!Unreadable, Connector!Refused
<1>. QED BY <1>1, <1>2, <1>3 DEF Connector!Kinds

\* A response that is too large, and a redirect too many.
LEMMA LimitFaultsAgree ==
  /\ Agrees(Connector!TooLarge.http) /\ Agrees(Connector!TooLarge.ai)
  /\ Agrees(Connector!RedirectLimitExceeded)
BY ListedAgree
DEF Connector!TooLarge, Connector!RedirectLimitExceeded, Connector!NonRetryableCodes

\* The engine and the retry rules judge every failure as its connector does.
LEMMA FailuresAgree == \A f \in Connector!Failures : Agrees(f)
<1>1. ASSUME NEW k \in Connector!Kinds,
             NEW f \in Connector!PrepareFaults[k] \cup Connector!ConnectFaults[k]
                         \cup Connector!Unreadable[k] \cup Connector!Refused[k].retry
                         \cup Connector!Refused[k].other
                         \cup {Connector!Broken[k], Connector!TimedOut[k]}
      PROVE  Agrees(f)
  BY PrepareFaultsAgree, ConnectFaultsAgree, ResponseFaultsAgree
<1>. QED BY <1>1, ConnectFaultsAgree, LimitFaultsAgree DEF Connector!Failures

\* How a call stands: it has a failure only when it has settled, a status that is to be
\* retried only since its last response, and then the failure that the response gave it.
CallInv(c) ==
  /\ c.failure \in Connector!Failures \cup {Connector!NoFailure}
  /\ c.phase # "settled" => c.failure = Connector!NoFailure
  /\ c.phase \in {"check", "prepare", "connect"} => c.status # "retry"
  /\ c.phase = "body" => c.status # "none"
  /\ c.phase = "settled" /\ c.status = "retry" /\ c.failure # Connector!NoFailure =>
       c.failure \in Connector!Unreadable[kind] \cup Connector!Refused[kind].retry
                       \cup {Connector!TooLarge.http, Connector!TooLarge.ai,
                             Connector!Broken[kind], Connector!TimedOut[kind]}
ConnectorInv == Connector!TypeOK /\ \A a \in Connector!Attempts : CallInv(calls[a])

\* A failure of any part is one of the failures.
LEMMA EveryFailureIsOne ==
  ASSUME NEW k \in Connector!Kinds
  PROVE  /\ Connector!UrlFaults \subseteq Connector!Failures
         /\ Connector!PrepareFaults[k] \subseteq Connector!Failures
         /\ Connector!ConnectFaults[k] \subseteq Connector!Failures
         /\ Connector!Unreadable[k] \subseteq Connector!Failures
         /\ Connector!Refused[k].retry \subseteq Connector!Failures
         /\ Connector!Refused[k].other \subseteq Connector!Failures
         /\ {Connector!Broken[k], Connector!TimedOut[k]} \subseteq Connector!Failures
         /\ {Connector!TooLarge.http, Connector!TooLarge.ai, Connector!RedirectLimitExceeded}
              \subseteq Connector!Failures
BY DEF Connector!Failures

\* A failed call is settled with a failure that agrees with how far it had come.
LEMMA FailsKeeps ==
  ASSUME ConnectorInv, NEW a \in Connector!Attempts, NEW f \in Connector!Failures,
         Connector!Fails(a, f),
         calls[a].status = "retry" =>
           f \in Connector!Unreadable[kind] \cup Connector!Refused[kind].retry
                   \cup {Connector!TooLarge.http, Connector!TooLarge.ai,
                         Connector!Broken[kind], Connector!TimedOut[kind]}
  PROVE  ConnectorInv'
<1>1. /\ calls' = [calls EXCEPT ![a] = [calls[a] EXCEPT !.phase = "settled", !.failure = f]]
      /\ UNCHANGED <<kind, attempt, step>>
  BY DEF Connector!Fails, Connector!Moves
<1>2. calls \in [Connector!Attempts -> Connector!Call] BY DEF ConnectorInv, Connector!TypeOK
<1>3. PICK c : c = [calls[a] EXCEPT !.phase = "settled", !.failure = f] OBVIOUS
<1>4. /\ c \in Connector!Call /\ c.phase = "settled" /\ c.failure = f
      /\ c.status = calls[a].status
  BY <1>2, <1>3 DEF Connector!Call
<1>5. calls' = [calls EXCEPT ![a] = c] BY <1>1, <1>3
<1>6. Connector!TypeOK' BY <1>1, <1>2, <1>4, <1>5 DEF ConnectorInv, Connector!TypeOK
<1>7. ASSUME NEW b \in Connector!Attempts PROVE CallInv(calls[b])'
  BY <1>1, <1>2, <1>4, <1>5, <1>7 DEF ConnectorInv, CallInv
<1>. QED BY <1>6, <1>7 DEF ConnectorInv

\* So does a call that moves on to where it may stand.
LEMMA MovesKeeps ==
  ASSUME ConnectorInv, NEW a \in Connector!Attempts, NEW c \in Connector!Call, CallInv(c),
         Connector!Moves(a, c)
  PROVE  ConnectorInv'
<1>1. calls' = [calls EXCEPT ![a] = c] /\ UNCHANGED <<kind, attempt, step>>
  BY DEF Connector!Moves
<1>2. calls \in [Connector!Attempts -> Connector!Call] BY DEF ConnectorInv, Connector!TypeOK
<1>3. Connector!TypeOK' BY <1>1, <1>2 DEF ConnectorInv, Connector!TypeOK
<1>4. ASSUME NEW b \in Connector!Attempts PROVE CallInv(calls[b])'
  BY <1>1, <1>2, <1>4 DEF ConnectorInv, CallInv
<1>. QED BY <1>3, <1>4 DEF ConnectorInv

\* The phase alone changes, to one where the status does not count any more or not yet.
LEMMA EntersKeeps ==
  ASSUME ConnectorInv, NEW a \in Connector!Attempts,
         NEW phase_ \in {"check", "prepare", "connect", "truncated", "settled"},
         Connector!Enters(a, phase_), calls[a].phase # "settled",
         phase_ \in {"check", "prepare", "connect"} => calls[a].status # "retry"
  PROVE  ConnectorInv'
<1>1. calls[a] \in Connector!Call /\ CallInv(calls[a]) BY DEF ConnectorInv, Connector!TypeOK
<1>2. PICK c : c = [calls[a] EXCEPT !.phase = phase_] OBVIOUS
<1>3. /\ c \in Connector!Call /\ c.phase = phase_ /\ c.failure = Connector!NoFailure
      /\ c.status = calls[a].status
  BY <1>1, <1>2 DEF Connector!Call, CallInv
<1>4. CallInv(c) BY <1>3 DEF CallInv
<1>. QED BY <1>2, <1>3, <1>4, MovesKeeps DEF Connector!Enters

LEMMA CallStepKeeps ==
  ASSUME ConnectorInv, NEW a \in Connector!Attempts, Connector!CallStep(a) PROVE ConnectorInv'
<1>1. /\ calls[a] \in Connector!Call /\ CallInv(calls[a]) /\ kind \in Connector!Kinds
  BY DEF ConnectorInv, Connector!TypeOK
<1>2. MaxBody \in Nat /\ RedirectLimit \in Nat
  BY ControlPlaneAssumption DEF Connector!ConnectorCallsAssumption
<1>3. CASE Connector!CheckUrl(a)
  <2>1. calls[a].phase = "check" /\ calls[a].status # "retry"
    BY <1>1, <1>3 DEF Connector!CheckUrl, CallInv
  <2>2. ASSUME NEW f \in Connector!UrlFaults, Connector!Fails(a, f) PROVE ConnectorInv'
    BY <1>1, <2>1, <2>2, EveryFailureIsOne, FailsKeeps
  <2>. QED BY <1>3, <2>1, <2>2, EntersKeeps DEF Connector!CheckUrl
<1>4. CASE Connector!PrepareRequest(a)
  <2>1. calls[a].phase = "prepare" /\ calls[a].status # "retry"
    BY <1>1, <1>4 DEF Connector!PrepareRequest, CallInv
  <2>2. ASSUME NEW f \in Connector!PrepareFaults[kind], Connector!Fails(a, f)
        PROVE  ConnectorInv'
    BY <1>1, <2>1, <2>2, EveryFailureIsOne, FailsKeeps
  <2>. QED BY <1>4, <2>1, <2>2, EntersKeeps DEF Connector!PrepareRequest
<1>5. CASE Connector!Connect(a)
  <2>1. calls[a].phase = "connect" /\ calls[a].status # "retry"
        /\ calls[a].failure = Connector!NoFailure
    BY <1>1, <1>5 DEF Connector!Connect, CallInv
  <2>2. ASSUME NEW f \in Connector!ConnectFaults[kind], Connector!Fails(a, f)
        PROVE  ConnectorInv'
    BY <1>1, <2>1, <2>2, EveryFailureIsOne, FailsKeeps
  <2>3. ASSUME NEW s \in {"ok", "retry", "other", "redirect"},
               Connector!Moves(a, [calls[a] EXCEPT !.phase = "body", !.body = 0, !.status = s])
        PROVE  ConnectorInv'
    <3>1. PICK c : c = [calls[a] EXCEPT !.phase = "body", !.body = 0, !.status = s] OBVIOUS
    <3>2. /\ c.phase = "body" /\ c.failure = Connector!NoFailure /\ c.status = s /\ c.body = 0
          /\ c.redirects = calls[a].redirects
          /\ c = [phase |-> "body", redirects |-> c.redirects, body |-> 0, status |-> s,
                  failure |-> Connector!NoFailure]
      BY <1>1, <2>1, <3>1 DEF Connector!Call
    <3>3. c \in Connector!Call BY <1>1, <1>2, <3>2 DEF Connector!Call
    <3>4. CallInv(c) BY <3>2 DEF CallInv
    <3>. QED BY <2>3, <3>1, <3>3, <3>4, MovesKeeps
  <2>. QED BY <1>5, <2>2, <2>3 DEF Connector!Connect
<1>6. CASE Connector!ReceiveChunk(a)
  <2>1. /\ calls[a].phase = "body" /\ calls[a].failure = Connector!NoFailure
        /\ calls[a].status # "none"
    BY <1>1, <1>6 DEF Connector!ReceiveChunk, CallInv
  <2>2. ASSUME calls[a].body < MaxBody, Connector!Moves(a, [calls[a] EXCEPT !.body = @ + 1])
        PROVE  ConnectorInv'
    <3>1. PICK c : c = [calls[a] EXCEPT !.body = calls[a].body + 1] OBVIOUS
    <3>2. /\ c \in Connector!Call /\ c.phase = "body" /\ c.failure = Connector!NoFailure
          /\ c.status # "none"
      BY <1>1, <1>2, <2>1, <2>2, <3>1 DEF Connector!Call
    <3>3. CallInv(c) BY <3>2 DEF CallInv
    <3>. QED BY <2>2, <3>1, <3>2, <3>3, MovesKeeps
  <2>3. ASSUME kind # "notification", Connector!Fails(a, Connector!TooLarge[kind])
        PROVE  ConnectorInv'
    BY <1>1, <2>1, <2>3, EveryFailureIsOne, FailsKeeps DEF Connector!Kinds
  <2>. QED BY <1>6, <2>2, <2>3 DEF Connector!ReceiveChunk
<1>7. CASE Connector!FollowRedirect(a)
  <2>1. /\ calls[a].phase = "body" /\ calls[a].failure = Connector!NoFailure
        /\ calls[a].status = "redirect"
    BY <1>1, <1>7 DEF Connector!FollowRedirect, CallInv
  <2>2. ASSUME calls[a].redirects < RedirectLimit,
               Connector!Moves(a, [calls[a] EXCEPT !.phase = "check",
                                                   !.redirects = Connector!Counted(@)])
        PROVE  ConnectorInv'
    <3>1. PICK c : c = [calls[a] EXCEPT !.phase = "check",
                                        !.redirects = calls[a].redirects + 1] OBVIOUS
    <3>2. /\ c.phase = "check" /\ c.failure = Connector!NoFailure /\ c.status = "redirect"
          /\ c = [phase |-> "check", redirects |-> calls[a].redirects + 1,
                  body |-> calls[a].body, status |-> "redirect",
                  failure |-> Connector!NoFailure]
      BY <1>1, <2>1, <3>1 DEF Connector!Call
    <3>3. calls[a].redirects + 1 \in 0..RedirectLimit BY <1>1, <1>2, <2>2 DEF Connector!Call
    <3>4. c \in Connector!Call BY <1>1, <3>2, <3>3 DEF Connector!Call
    <3>5. CallInv(c) BY <3>2 DEF CallInv
    <3>6. Connector!Moves(a, c) BY <2>2, <3>1 DEF Connector!Counted
    <3>. QED BY <3>4, <3>5, <3>6, MovesKeeps
  <2>3. ASSUME Connector!Fails(a, Connector!RedirectLimitExceeded) PROVE ConnectorInv'
    BY <1>1, <2>1, <2>3, EveryFailureIsOne, FailsKeeps
  <2>. QED BY <1>7, <2>2, <2>3 DEF Connector!FollowRedirect
<1>8. CASE Connector!ReadResponse(a)
  <2>1. calls[a].phase = "body" /\ calls[a].status \in {"ok", "redirect", "retry", "other"}
    BY <1>1, <1>8 DEF Connector!ReadResponse, CallInv, Connector!Call
  <2>2. ASSUME NEW f \in Connector!Unreadable[kind], Connector!Fails(a, f) PROVE ConnectorInv'
    BY <1>1, <2>1, <2>2, EveryFailureIsOne, FailsKeeps
  <2>3. CASE Connector!Enters(a, "settled") BY <2>1, <2>3, EntersKeeps
  <2>4. ASSUME NEW s \in {"retry", "other"}, s = calls[a].status \/ calls[a].status = "redirect",
               calls[a].status = "redirect" => s = "other",
               NEW f \in Connector!Refused[kind][s], Connector!Fails(a, f)
        PROVE  ConnectorInv'
    <3>1. f \in Connector!Failures BY <1>1, <2>4, EveryFailureIsOne
    <3>2. calls[a].status = "retry" => f \in Connector!Refused[kind].retry BY <2>4
    <3>. QED BY <2>4, <3>1, <3>2, FailsKeeps
  <2>5. PICK s : s = IF calls[a].status = "redirect" THEN "other" ELSE calls[a].status OBVIOUS
  <2>6. ASSUME s # "ok", NEW f \in Connector!Refused[kind][s], Connector!Fails(a, f)
        PROVE  ConnectorInv'
    BY <2>1, <2>4, <2>5, <2>6
  <2>. QED BY <1>8, <2>2, <2>3, <2>5, <2>6 DEF Connector!ReadResponse
<1>9. CASE Connector!ConnectionBreaks(a)
  BY <1>1, <1>9, EveryFailureIsOne, FailsKeeps DEF Connector!ConnectionBreaks
<1>10. CASE Connector!PeerCloses(a)
  BY <1>1, <1>10, EveryFailureIsOne, FailsKeeps, EntersKeeps DEF Connector!PeerCloses
<1>11. CASE Connector!ConnectorTimesOut(a)
  BY <1>1, <1>11, EveryFailureIsOne, FailsKeeps DEF Connector!ConnectorTimesOut
<1>. QED
  BY <1>3, <1>4, <1>5, <1>6, <1>7, <1>8, <1>9, <1>10, <1>11 DEF Connector!CallStep

\* A call that has not begun, or has begun, or is over.
LEMMA NewCalls ==
  ASSUME NEW p \in {"none", "check", "prepare", "returned"}
  PROVE  /\ [Connector!NoCall EXCEPT !.phase = p] \in Connector!Call
         /\ CallInv([Connector!NoCall EXCEPT !.phase = p])
<1>1. 0 \in 0..MaxBody /\ 0 \in 0..RedirectLimit
  BY ControlPlaneAssumption DEF Connector!ConnectorCallsAssumption
<1>2. PICK c : c = [Connector!NoCall EXCEPT !.phase = p] OBVIOUS
<1>3. c = [phase |-> p, redirects |-> 0, body |-> 0, status |-> "none",
           failure |-> Connector!NoFailure]
  BY <1>2 DEF Connector!NoCall
<1>4. c \in Connector!Call BY <1>1, <1>3 DEF Connector!Call
<1>5. CallInv(c) BY <1>3 DEF CallInv
<1>. QED BY <1>2, <1>4, <1>5

LEMMA ConnectorInit == Init => ConnectorInv
<1>. SUFFICES ASSUME Init PROVE ConnectorInv OBVIOUS
<1>1. kind \in Connector!Kinds BY DEF Init, Connector!Init
<1>2. /\ attempt = 0 /\ step = [state |-> "waiting", failure |-> Connector!NoFailure]
      /\ calls = [a \in Connector!Attempts |-> Connector!NoCall]
  BY DEF Init, Connector!Init
<1>3. Connector!NoCall \in Connector!Call /\ CallInv(Connector!NoCall)
  <2>1. [Connector!NoCall EXCEPT !.phase = "none"] = Connector!NoCall BY DEF Connector!NoCall
  <2>. QED BY <2>1, NewCalls
<1>4. attempt \in 0..JobAttempts BY <1>2, ControlPlaneAssumption
<1>. QED BY <1>1, <1>2, <1>3, <1>4 DEF ConnectorInv, Connector!TypeOK

LEMMA ConnectorStep == ASSUME ConnectorInv, Connector!Next PROVE ConnectorInv'
<1>1. /\ kind \in Connector!Kinds /\ attempt \in 0..JobAttempts
      /\ calls \in [Connector!Attempts -> Connector!Call]
      /\ \A a \in Connector!Attempts : CallInv(calls[a])
  BY DEF ConnectorInv, Connector!TypeOK
<1>2. ASSUME NEW a \in Connector!Attempts, Connector!CallReturns(a) PROVE ConnectorInv'
  <2>1. PICK c : c = [Connector!NoCall EXCEPT !.phase = "returned"] OBVIOUS
  <2>2. c \in Connector!Call /\ CallInv(c) BY <2>1, NewCalls
  <2>3. calls' = [calls EXCEPT ![a] = c] /\ UNCHANGED <<kind, attempt>>
    BY <1>2, <2>1 DEF Connector!CallReturns
  <2>4. calls[a].failure \in Connector!Failures \cup {Connector!NoFailure}
    BY <1>1 DEF CallInv
  <2>5. Connector!TypeOK'
    BY <1>1, <1>2, <2>2, <2>3, <2>4 DEF ConnectorInv, Connector!TypeOK, Connector!CallReturns
  <2>6. ASSUME NEW b \in Connector!Attempts PROVE CallInv(calls[b])'
    BY <1>1, <2>2, <2>3, <2>6 DEF CallInv
  <2>. QED BY <2>5, <2>6 DEF ConnectorInv
<1>3. CASE Connector!StepTimesOut
  <2>1. UNCHANGED <<kind, attempt, calls>> BY <1>3 DEF Connector!StepTimesOut
  <2>2. step' = [state |-> "timed_out", failure |-> Connector!NoFailure]
    BY <1>3 DEF Connector!StepTimesOut, Connector!Racing
  <2>. QED BY <2>1, <2>2 DEF ConnectorInv, Connector!TypeOK, CallInv
<1>4. CASE Connector!NextAttempt
  <2>1. PICK c : c = Connector!Opening(kind) OBVIOUS
  <2>2. c \in Connector!Call /\ CallInv(c) BY <2>1, NewCalls DEF Connector!Opening
  <2>3. /\ calls' = [calls EXCEPT ![attempt + 1] = c] /\ attempt' = attempt + 1
        /\ UNCHANGED kind /\ step' = Connector!Racing /\ attempt + 1 \in Connector!Attempts
    BY <1>1, <1>4, <2>1, ControlPlaneAssumption DEF Connector!NextAttempt, Connector!Attempts
  <2>4. attempt' \in 0..JobAttempts
    BY <1>1, <2>3, ControlPlaneAssumption DEF Connector!Attempts
  <2>5. Connector!TypeOK'
    BY <1>1, <2>2, <2>3, <2>4 DEF Connector!TypeOK, Connector!Racing
  <2>6. ASSUME NEW b \in Connector!Attempts PROVE CallInv(calls[b])'
    BY <1>1, <2>2, <2>3, <2>6 DEF CallInv
  <2>. QED BY <2>5, <2>6 DEF ConnectorInv
<1>. QED
  BY <1>2, <1>3, <1>4, CallStepKeeps DEF Connector!Next, Connector!CallProgress

LEMMA ConnectorImplies == ConnectorInv => Connector!VerdictAgrees
<1>1. ASSUME ConnectorInv, NEW a \in Connector!Attempts, calls[a].phase = "settled",
             calls[a].failure # Connector!NoFailure
      PROVE  /\ Agrees(calls[a].failure)
             /\ calls[a].status = "retry" =>
                  \/ Connector!Verdict(calls[a].failure)
                  \/ calls[a].failure \in Connector!Unreadable[kind]
                  \/ calls[a].failure \in {Connector!TooLarge.http, Connector!TooLarge.ai}
  <2>1. PICK f : f = calls[a].failure OBVIOUS
  <2>2. CallInv(calls[a]) /\ kind \in Connector!Kinds
    BY <1>1 DEF ConnectorInv, Connector!TypeOK
  <2>3. f \in Connector!Failures BY <1>1, <2>1, <2>2 DEF CallInv
  <2>4. Agrees(f) BY <2>3, FailuresAgree
  <2>5. ASSUME f \in Connector!Refused[kind].retry
                       \cup {Connector!Broken[kind], Connector!TimedOut[kind]}
        PROVE  f.retryable = TRUE /\ f # Undeciphered
    <3>1. f.retryable = TRUE
      <4>1. CASE kind = "http"
        BY <2>5, <4>1 DEF Connector!Refused, Connector!HttpRefused, Connector!Broken,
          Connector!TimedOut, Connector!NetworkError, Connector!Failure
      <4>2. CASE kind = "ai"
        BY <2>5, <4>2 DEF Connector!Refused, Connector!AiRefused, Connector!Broken,
          Connector!TimedOut, Connector!Failure
      <4>3. CASE kind = "notification"
        BY <2>5, <4>3 DEF Connector!Refused, Connector!NotificationRefused, Connector!Broken,
          Connector!TimedOut, Connector!Failure
      <4>. QED BY <2>2, <4>1, <4>2, <4>3 DEF Connector!Kinds
    <3>. QED BY <3>1 DEF Undeciphered, Connector!Failure
  <2>6. calls[a].status = "retry" =>
          \/ Connector!Verdict(f)
          \/ f \in Connector!Unreadable[kind]
          \/ f \in {Connector!TooLarge.http, Connector!TooLarge.ai}
    BY <1>1, <2>1, <2>2, <2>4, <2>5 DEF CallInv, Agrees
  <2>. QED BY <2>1, <2>4, <2>6
<1>. QED BY <1>1 DEF Connector!VerdictAgrees, Agrees, Undeciphered

\* However many attempts a step has and wherever a call fails, the engine's mapping and the
\* retry rules judge the failure as its connector does, and a status that is to be retried is,
\* but for a body that cannot be read (mapConnectorErrorCategory, mapAiProviderErrorCategory,
\* classifyExecutionRetryError).
THEOREM VerdictsAgreeAlways == Spec => []VerdictAgrees
<1>1. Init => ConnectorInv BY ConnectorInit
<1>2. (Only("connector") /\ Connector!Next) \/ UNCHANGED connector \/ ~[Next]_vars
  BY DEF Next, Only, vars
<1>3. ConnectorInv /\ UNCHANGED connector => ConnectorInv'
  BY DEF ConnectorInv, Connector!TypeOK, CallInv, connector
<1>4. ConnectorInv /\ [Next]_vars => ConnectorInv' BY <1>2, <1>3, ConnectorStep
<1>5. ConnectorInv => VerdictAgrees BY ConnectorImplies DEF VerdictAgrees
<1>. QED BY <1>1, <1>4, <1>5, PTL DEF Spec

---------------------------------------------------------------------------
(***************************************************************************)
(* The process: what it reports when it ends.                              *)
(***************************************************************************)

\* A process that is closed has nothing open, and its exit code tells what began the shutdown.
ProcessInv ==
  /\ phase = "closed" => open = {} /\ (exitCode = 0 => reason \in Process!Signals)
  /\ phase = "failed" => exitCode = 1
  /\ Process!EndsWell

LEMMA ProcessInit == Init => ProcessInv
<1>1. None # 0 BY ControlPlaneAssumption DEF Windows!ConfiguredWindowsAssumption
<1>. QED BY <1>1 DEF Init, Process!Init, ProcessInv, Process!EndsWell

LEMMA ProcessStep == ASSUME ProcessInv, Process!Next PROVE ProcessInv'
<1>1. CASE Process!Create \/ Process!Listen \/ Process!ListenFails
  BY <1>1 DEF ProcessInv, Process!EndsWell, Process!Create, Process!Listen,
    Process!ListenFails, Process!Alive
<1>2. ASSUME NEW event \in Process!Signals \cup Process!Faults, Process!Event(event)
      PROVE  ProcessInv'
  <2>1. Process!Killed # 0 /\ 1 # 0 BY DEF Process!Killed
  <2>2. UNCHANGED <<open, exitCode>> BY <1>2 DEF Process!Event
  <2>3. CASE Process!Shutdown(Process!Handler(event)) /\ UNCHANGED ended
    BY <2>2, <2>3, <1>2 DEF ProcessInv, Process!EndsWell, Process!Shutdown, Process!Event,
      Process!Alive
  <2>4. CASE /\ ended' = IF event \in Process!Signals THEN Process!Killed ELSE 1
             /\ UNCHANGED <<handlers, phase, reason, deadline>>
    BY <2>1, <2>2, <2>4 DEF ProcessInv, Process!EndsWell
  <2>. QED BY <1>2, <2>3, <2>4 DEF Process!Event
<1>3. CASE Process!CloseHook \/ Process!CloseFails \/ Process!Closed
  BY <1>3 DEF ProcessInv, Process!EndsWell, Process!CloseHook, Process!CloseFails,
    Process!Closed, Process!Alive
<1>4. CASE Process!TimerFires \/ Process!RunsDry
  BY <1>4 DEF ProcessInv, Process!EndsWell, Process!TimerFires, Process!RunsDry,
    Process!Alive
<1>. QED BY <1>1, <1>2, <1>3, <1>4 DEF Process!Next

\* A service that reports success when it ends was stopped by a signal and had closed
\* everything, whatever its parts are and however errors, signals and the deadline overlap:
\* the half of ShutdownEnds that is no liveness (closeApplication, process.exitCode).
THEOREM SuccessMeansClosed == Spec => []Process!EndsWell
<1>1. Init => ProcessInv BY ProcessInit
<1>2. (Only("process") /\ Process!Next) \/ UNCHANGED process \/ ~[Next]_vars
  BY DEF Next, Only, vars
<1>3. ProcessInv /\ UNCHANGED process => ProcessInv' BY DEF ProcessInv, Process!EndsWell, process
<1>4. ProcessInv /\ [Next]_vars => ProcessInv' BY <1>2, <1>3, ProcessStep
<1>5. ProcessInv => Process!EndsWell BY DEF ProcessInv
<1>. QED BY <1>1, <1>4, <1>5, PTL DEF Spec

---------------------------------------------------------------------------
(***************************************************************************)
(* The drawing: for any definition whose keys are unique and whose routes  *)
(* lead to its steps, a run follows the lines the canvas draws.            *)
(***************************************************************************)

Formed(d) ==
  /\ Len(d.steps) \in Nat /\ DOMAIN d.steps = 1..Len(d.steps)
  /\ \A i, j \in 1..Len(d.steps) : d.steps[i].key = d.steps[j].key => i = j
  /\ \E i \in 1..Len(d.steps) : d.steps[i].key = d.entry
  /\ \A i \in 1..Len(d.steps) :
       /\ d.steps[i].key # None
       /\ d.steps[i].type \in {"condition", "ai_decision", "http"}
       /\ d.steps[i].branch # "onFailure"
       /\ \A x \in DOMAIN d.steps[i].routes :
            /\ x # None /\ x # "next"
            /\ \/ d.steps[i].routes[x] = None
               \/ \E j \in 1..Len(d.steps) : d.steps[j].key = d.steps[i].routes[x]

\* A line a success may follow.
Line(from, to) == \E e \in Drawing!Edges : e[1] = from /\ e[2] = to /\ e[3] # "onFailure"
EndsHere(from, b) ==
  \A e \in Drawing!Edges : e[1] = from => e[3] \notin {"onSuccess", "next", b}

PathInv ==
  /\ \A n \in 1..Len(ran) : \E i \in 1..Len(definition.steps) : definition.steps[i].key = ran[n]
  /\ ran = [n \in 1..Len(ran) |-> ran[n]] /\ Len(ran) \in Nat
  /\ \A n \in 1..(Len(ran) - 1) : Line(ran[n], ran[n + 1])
CurrentInv ==
  /\ \/ current = None
     \/ \E i \in 1..Len(definition.steps) : definition.steps[i].key = current
  /\ current # None /\ Len(ran) > 0 => Line(ran[Len(ran)], current)
  /\ current = None /\ ~cycle => Len(ran) > 0 /\ EndsHere(ran[Len(ran)], branch)
DrawingInv == Formed(definition) /\ PathInv /\ CurrentInv

LEMMA LinesAre ==
  ASSUME Formed(definition), NEW i \in 1..Len(definition.steps), NEW s, s = definition.steps[i]
  PROVE  /\ \A x \in DOMAIN s.routes :
              s.routes[x] # None => <<s.key, s.routes[x], x>> \in Drawing!Edges
         /\ i < Len(definition.steps) /\ Drawing!Route(s, "onSuccess") = None
              /\ ~Drawing!IsTransitionTarget(s.key)
              => <<s.key, definition.steps[i + 1].key, "next">> \in Drawing!Edges
         /\ \A e \in Drawing!Edges : e[1] = s.key =>
              \/ \E x \in DOMAIN s.routes : e[3] = x /\ e[2] = s.routes[x] /\ e[2] # None
              \/ /\ e[3] = "next" /\ i < Len(definition.steps)
                 /\ Drawing!Route(s, "onSuccess") = None
                 /\ ~Drawing!IsTransitionTarget(s.key)
<1>. DEFINE S == definition.steps
<1>0. Len(S) \in Nat /\ DOMAIN S = 1..Len(S) /\ Drawing!Steps = S
  BY DEF Formed, Drawing!Steps
<1>1. \A e : e \in Drawing!RouteLines <=>
        \E j \in 1..Len(S) : \E x \in DOMAIN S[j].routes : e = <<S[j].key, S[j].routes[x], x>>
  BY <1>0 DEF Drawing!RouteLines
<1>2. \A k : k \in Drawing!ExplicitTargets <=>
        /\ k # None
        /\ \E j \in 1..Len(S) : \E x \in DOMAIN S[j].routes :
             x # "onFailure" /\ S[j].routes[x] = k
  <2>1. \A k : k \in Drawing!ExplicitTargets <=>
          k # None /\ \E e \in Drawing!RouteLines : e[3] # "onFailure" /\ e[2] = k
    BY DEF Drawing!ExplicitTargets
  <2>2. ASSUME NEW k, NEW e \in Drawing!RouteLines, e[3] # "onFailure", e[2] = k
        PROVE  \E j \in 1..Len(S) : \E x \in DOMAIN S[j].routes :
                 x # "onFailure" /\ S[j].routes[x] = k
    <3>1. PICK j \in 1..Len(S) : \E x \in DOMAIN S[j].routes : e = <<S[j].key, S[j].routes[x], x>>
      BY <1>1
    <3>2. PICK x \in DOMAIN S[j].routes : e = <<S[j].key, S[j].routes[x], x>> BY <3>1
    <3>. QED BY <2>2, <3>2
  <2>3. ASSUME NEW j \in 1..Len(S), NEW x \in DOMAIN S[j].routes, x # "onFailure"
        PROVE  \E e \in Drawing!RouteLines : e[3] # "onFailure" /\ e[2] = S[j].routes[x]
    <3>1. PICK e : e = <<S[j].key, S[j].routes[x], x>> OBVIOUS
    <3>2. e \in Drawing!RouteLines BY <1>1, <3>1
    <3>. QED BY <2>3, <3>1, <3>2
  <2>. QED BY <2>1, <2>2, <2>3
<1>3. \A k : k # None => (k \in Drawing!ExplicitTargets <=> Drawing!IsTransitionTarget(k))
  BY <1>0, <1>2 DEF Drawing!IsTransitionTarget
<1>4. \A e : e \in Drawing!Edges <=>
        \/ e \in Drawing!RouteLines /\ e[2] # None
        \/ \E j \in 1..(Len(S) - 1) :
             /\ Drawing!Route(S[j], "onSuccess") = None
             /\ S[j].key \notin Drawing!ExplicitTargets
             /\ e = <<S[j].key, S[j + 1].key, "next">>
  BY <1>0 DEF Drawing!Edges
<1>5. \A x \in DOMAIN s.routes : s.routes[x] # None => <<s.key, s.routes[x], x>> \in Drawing!Edges
  BY <1>1, <1>4
<1>6. s.key # None BY DEF Formed
<1>7. ASSUME i < Len(S), Drawing!Route(s, "onSuccess") = None,
             ~Drawing!IsTransitionTarget(s.key)
      PROVE  <<s.key, S[i + 1].key, "next">> \in Drawing!Edges
  <2>1. i \in 1..(Len(S) - 1) BY <1>0, <1>7
  <2>2. s.key \notin Drawing!ExplicitTargets BY <1>3, <1>6, <1>7
  <2>. QED BY <1>4, <1>7, <2>1, <2>2
<1>8. ASSUME NEW e \in Drawing!Edges, e[1] = s.key
      PROVE  \/ \E x \in DOMAIN s.routes : e[3] = x /\ e[2] = s.routes[x] /\ e[2] # None
             \/ /\ e[3] = "next" /\ i < Len(S)
                /\ Drawing!Route(s, "onSuccess") = None
                /\ ~Drawing!IsTransitionTarget(s.key)
  <2>1. CASE e \in Drawing!RouteLines /\ e[2] # None
    <3>1. PICK j \in 1..Len(S) : \E x \in DOMAIN S[j].routes : e = <<S[j].key, S[j].routes[x], x>>
      BY <1>1, <2>1
    <3>2. j = i BY <1>8, <3>1 DEF Formed
    <3>. QED BY <2>1, <3>1, <3>2
  <2>2. CASE \E j \in 1..(Len(S) - 1) :
               /\ Drawing!Route(S[j], "onSuccess") = None
               /\ S[j].key \notin Drawing!ExplicitTargets
               /\ e = <<S[j].key, S[j + 1].key, "next">>
    <3>1. PICK j \in 1..(Len(S) - 1) :
               /\ Drawing!Route(S[j], "onSuccess") = None
               /\ S[j].key \notin Drawing!ExplicitTargets
               /\ e = <<S[j].key, S[j + 1].key, "next">>
      BY <2>2
    <3>2. j \in 1..Len(S) /\ j < Len(S) BY <1>0, <3>1
    <3>3. j = i BY <1>8, <3>1, <3>2 DEF Formed
    <3>. QED BY <1>3, <1>6, <3>1, <3>2, <3>3
  <2>. QED BY <1>4, <2>1, <2>2
<1>. QED BY <1>5, <1>7, <1>8

\* The step that resolveNextStep finds is at the end of a line, and there is no line to
\* follow where it finds none.
LEMMA NextIsDrawn ==
  ASSUME Formed(definition), NEW i \in 1..Len(definition.steps), NEW s, s = definition.steps[i],
         NEW b \in Drawing!BranchesOf(s), NEW k, k = Drawing!NextStepKey(s, b)
  PROVE  /\ k = None => EndsHere(s.key, b)
         /\ k # None => Line(s.key, k)
                          /\ \E j \in 1..Len(definition.steps) : definition.steps[j].key = k
<1>. DEFINE S == definition.steps
<1>1. /\ Len(S) \in Nat /\ DOMAIN S = 1..Len(S) /\ Drawing!Steps = S
      /\ s.key # None /\ s.branch # "onFailure"
      /\ \A j \in 1..Len(S) : S[j].key # None
      /\ \A x \in DOMAIN s.routes : x # None /\ x # "next"
      /\ \A x \in DOMAIN s.routes : s.routes[x] = None
                                      \/ \E j \in 1..Len(S) : S[j].key = s.routes[x]
  BY DEF Formed, Drawing!Steps
<1>2. Drawing!IndexOf(s.key) = i
  <2>1. \A j \in 1..Len(S) : S[j].key = s.key <=> j = i BY DEF Formed
  <2>. QED BY <1>1, <2>1 DEF Drawing!IndexOf
<1>4. b # "onFailure"
  <2>1. None # "onFailure" /\ Branch # "onFailure"
    BY ControlPlaneAssumption DEF Drawing!DefinitionRunsAssumption
  <2>. QED BY <1>1, <2>1 DEF Drawing!BranchesOf
<1>5. /\ \A x \in DOMAIN s.routes : s.routes[x] # None => <<s.key, s.routes[x], x>> \in Drawing!Edges
      /\ i < Len(S) /\ Drawing!Route(s, "onSuccess") = None
           /\ ~Drawing!IsTransitionTarget(s.key)
           => <<s.key, S[i + 1].key, "next">> \in Drawing!Edges
      /\ \A e \in Drawing!Edges : e[1] = s.key =>
              \/ \E x \in DOMAIN s.routes : e[3] = x /\ e[2] = s.routes[x] /\ e[2] # None
              \/ /\ e[3] = "next" /\ i < Len(S)
                 /\ Drawing!Route(s, "onSuccess") = None
                 /\ ~Drawing!IsTransitionTarget(s.key)
  BY LinesAre
<1>6. ASSUME NEW x, x # "onFailure", Drawing!Route(s, x) # None, k = Drawing!Route(s, x)
      PROVE  k # None /\ Line(s.key, k) /\ \E j \in 1..Len(S) : S[j].key = k
  <2>1. x \in DOMAIN s.routes /\ k = s.routes[x] BY <1>6 DEF Drawing!Route
  <2>2. <<s.key, k, x>> \in Drawing!Edges BY <1>5, <1>6, <2>1
  <2>. QED BY <1>1, <1>6, <2>1, <2>2 DEF Line
<1>7. CASE b # None /\ Drawing!Route(s, b) # None
  <2>1. k = Drawing!Route(s, b) BY <1>7 DEF Drawing!NextStepKey
  <2>. QED BY <1>4, <1>6, <1>7, <2>1
<1>8. CASE ~(b # None /\ Drawing!Route(s, b) # None) /\ Drawing!Route(s, "onSuccess") # None
  <2>1. k = Drawing!Route(s, "onSuccess") BY <1>8 DEF Drawing!NextStepKey
  <2>. QED BY <1>6, <1>8, <2>1
<1>9. CASE /\ ~(b # None /\ Drawing!Route(s, b) # None) /\ Drawing!Route(s, "onSuccess") = None
           /\ ~Drawing!IsTransitionTarget(s.key) /\ i < Len(S)
  <2>1. k = S[i + 1].key BY <1>1, <1>2, <1>9 DEF Drawing!NextStepKey
  <2>2. i + 1 \in 1..Len(S) BY <1>1, <1>9
  <2>3. <<s.key, k, "next">> \in Drawing!Edges BY <1>5, <1>9, <2>1
  <2>4. k # None BY <1>1, <2>1, <2>2
  <2>. QED BY <2>1, <2>2, <2>3, <2>4 DEF Line
<1>10. CASE /\ ~(b # None /\ Drawing!Route(s, b) # None) /\ Drawing!Route(s, "onSuccess") = None
            /\ ~(~Drawing!IsTransitionTarget(s.key) /\ i < Len(S))
  <2>1. k = None BY <1>1, <1>2, <1>10 DEF Drawing!NextStepKey
  <2>2. ASSUME NEW e \in Drawing!Edges, e[1] = s.key, e[3] \in {"onSuccess", "next", b}
        PROVE  FALSE
    <3>1. PICK x \in DOMAIN s.routes : e[3] = x /\ e[2] = s.routes[x] /\ e[2] # None
      BY <1>5, <1>10, <2>2
    <3>2. Drawing!Route(s, x) # None /\ x # None /\ x # "next" BY <1>1, <3>1 DEF Drawing!Route
    <3>. QED BY <1>10, <2>2, <3>1, <3>2
  <2>. QED BY <2>1, <2>2 DEF EndsHere
<1>. QED BY <1>7, <1>8, <1>9, <1>10

LEMMA DrawingStep == ASSUME DrawingInv, Drawing!Next PROVE DrawingInv'
<1>. DEFINE S == definition.steps
<1>1. CASE Drawing!RunStep
  <2>1. current # None /\ definition' = definition /\ cycle' = cycle /\ ran' = Append(ran, current)
    BY <1>1 DEF Drawing!RunStep
  <2>2. PICK i \in 1..Len(S) : S[i].key = current BY <2>1 DEF DrawingInv, CurrentInv
  <2>3. PICK s : s = S[i] OBVIOUS
  <2>4. Drawing!Steps[Drawing!IndexOf(current)] = s
    <3>1. \A j \in 1..Len(S) : S[j].key = current <=> j = i BY <2>2 DEF DrawingInv, Formed
    <3>2. DOMAIN S = 1..Len(S) /\ Drawing!Steps = S BY DEF DrawingInv, Formed, Drawing!Steps
    <3>. QED BY <2>3, <3>1, <3>2 DEF Drawing!IndexOf
  <2>5. PICK b \in Drawing!BranchesOf(s) : branch' = b /\ current' = Drawing!NextStepKey(s, b)
    BY <1>1, <2>4 DEF Drawing!RunStep
  <2>6. /\ current' = None => EndsHere(current, b)
        /\ current' # None => Line(current, current')
                                /\ \E j \in 1..Len(S) : S[j].key = current'
    <3>1. PICK k : k = Drawing!NextStepKey(s, b) OBVIOUS
    <3>2. /\ k = None => EndsHere(s.key, b)
          /\ k # None => Line(s.key, k) /\ \E j \in 1..Len(S) : S[j].key = k
      BY <2>3, <3>1, NextIsDrawn DEF DrawingInv
    <3>. QED BY <2>2, <2>3, <2>5, <3>1, <3>2
  <2>7. PICK m \in Nat : m = Len(ran) BY DEF DrawingInv, PathInv
  <2>8. /\ Len(ran') = m + 1 /\ ran'[m + 1] = current /\ \A n \in 1..m : ran'[n] = ran[n]
        /\ ran' = [n \in 1..(m + 1) |-> ran'[n]]
    <3>1. ran = [n \in 1..m |-> ran[n]] BY <2>7 DEF DrawingInv, PathInv
    <3>2. PICK T : T = {ran[n] : n \in 1..m} \cup {current} OBVIOUS
    <3>3. ran \in Seq(T) BY <2>7, <3>1, <3>2
    <3>4. current \in T BY <3>2
    <3>5. PICK r : r = Append(ran, current) OBVIOUS
    <3>6. r \in Seq(T) /\ Len(r) = m + 1 BY <2>7, <3>3, <3>4, <3>5
    <3>7. r[m + 1] = current /\ \A n \in 1..m : r[n] = ran[n] BY <2>7, <3>3, <3>4, <3>5
    <3>8. r = [n \in 1..(m + 1) |-> r[n]] BY <3>6
    <3>. QED BY <2>1, <3>5, <3>6, <3>7, <3>8
  <2>9. /\ \A from, to : Line(from, to)' = Line(from, to)
        /\ \A from, x : EndsHere(from, x)' = EndsHere(from, x)
    BY <2>1 DEF Line, EndsHere, Drawing!Edges, Drawing!RouteLines, Drawing!ExplicitTargets,
       Drawing!Steps
  <2>10. PathInv'
    <3>1. ASSUME NEW n \in 1..m PROVE Line(ran'[n], ran'[n + 1])
      <4>1. CASE n = m
        BY <2>1, <2>7, <2>8, <4>1 DEF DrawingInv, CurrentInv
      <4>2. CASE n < m
        <5>1. n \in 1..(m - 1) /\ n + 1 \in 1..m BY <4>2
        <5>. QED BY <2>7, <2>8, <5>1 DEF DrawingInv, PathInv
      <4>. QED BY <4>1, <4>2
    <3>2. ASSUME NEW n \in 1..(m + 1) PROVE \E j \in 1..Len(S) : S[j].key = ran'[n]
      <4>1. CASE n = m + 1 BY <2>2, <2>8, <4>1
      <4>2. CASE n \in 1..m BY <2>7, <2>8, <4>2 DEF DrawingInv, PathInv
      <4>. QED BY <4>1, <4>2
    <3>. QED BY <2>1, <2>8, <2>9, <3>1, <3>2 DEF PathInv
  <2>11. CurrentInv' BY <2>1, <2>5, <2>6, <2>8, <2>9 DEF CurrentInv
  <2>. QED BY <2>1, <2>10, <2>11 DEF DrawingInv
<1>2. CASE Drawing!DetectCycle
  <2>1. UNCHANGED <<definition, ran>> /\ current' = None /\ cycle'
    BY <1>2 DEF Drawing!DetectCycle
  <2>2. \A from, to : Line(from, to)' = Line(from, to)
    BY <2>1 DEF Line, Drawing!Edges, Drawing!RouteLines, Drawing!ExplicitTargets, Drawing!Steps
  <2>. QED BY <2>1, <2>2 DEF DrawingInv, PathInv, CurrentInv
<1>. QED BY <1>1, <1>2 DEF Drawing!Next

\* The definitions of two steps are formed well: both keys are there to lead to.
LEMMA SmallIsFormed == ASSUME NEW d \in Drawing!SmallDefinitions PROVE Formed(d)
<1>1. PICK k \in {"first", "second"}, s1 \in Drawing!StepsKeyed("first"),
           s2 \in Drawing!StepsKeyed("second") :
        d = [entry |-> k, steps |-> <<s1, s2>>, payload |-> {}]
  BY DEF Drawing!SmallDefinitions, Drawing!Keys
<1>2. /\ Branch \notin {"onSuccess", "onFailure", "next"} /\ None # "onFailure"
      /\ \A e \in Drawing!Definitions : \A i \in DOMAIN e.steps :
           e.steps[i].key # None /\ None \notin DOMAIN e.steps[i].routes
  BY ControlPlaneAssumption DEF Drawing!DefinitionRunsAssumption
<1>3. d \in Drawing!Definitions BY DEF Drawing!Definitions
<1>4. ASSUME NEW h, NEW s \in Drawing!StepsKeyed(h)
      PROVE  /\ s.key = h /\ s.type \in {"condition", "ai_decision", "http"}
             /\ s.branch \in {None, Branch}
             /\ DOMAIN s.routes \subseteq {"onSuccess", "onFailure", Branch}
             /\ \A x \in DOMAIN s.routes : s.routes[x] \in {"first", "second"}
  <2>1. \E t \in {"http", "ai_decision", "condition"}, own \in {None, Branch} :
          \E r \in Drawing!RoutesOver({"onSuccess", "onFailure", Branch})
                     \cup Drawing!RoutesOver({"onSuccess", Branch}) :
            s = Drawing!Step(h, t, own, r)
    BY DEF Drawing!StepsKeyed
  <2>2. PICK t \in {"http", "ai_decision", "condition"}, own \in {None, Branch} :
          \E r \in Drawing!RoutesOver({"onSuccess", "onFailure", Branch})
                     \cup Drawing!RoutesOver({"onSuccess", Branch}) :
            s = Drawing!Step(h, t, own, r)
    BY <2>1
  <2>3. PICK r \in Drawing!RoutesOver({"onSuccess", "onFailure", Branch})
                     \cup Drawing!RoutesOver({"onSuccess", Branch}) :
            s = Drawing!Step(h, t, own, r)
    BY <2>2
  <2>4. s.key = h /\ s.type = t /\ s.branch = own /\ s.routes = r
    BY <2>3 DEF Drawing!Step
  <2>5. \E D \in SUBSET {"onSuccess", "onFailure", Branch} : r \in [D -> {"first", "second"}]
    <3>1. \E D \in (SUBSET {"onSuccess", "onFailure", Branch})
                     \cup (SUBSET {"onSuccess", Branch}) : r \in [D -> {"first", "second"}]
      BY DEF Drawing!RoutesOver, Drawing!Keys
    <3>2. PICK D \in (SUBSET {"onSuccess", "onFailure", Branch})
                     \cup (SUBSET {"onSuccess", Branch}) : r \in [D -> {"first", "second"}]
      BY <3>1
    <3>3. D \subseteq {"onSuccess", "onFailure", Branch} BY <3>2
    <3>. QED BY <3>2, <3>3
  <2>6. PICK D \in SUBSET {"onSuccess", "onFailure", Branch} : r \in [D -> {"first", "second"}]
    BY <2>5
  <2>. QED BY <2>4, <2>6
<1>5. /\ d.steps = <<s1, s2>> /\ Len(d.steps) = 2 /\ DOMAIN d.steps = 1..2
      /\ d.steps[1] = s1 /\ d.steps[2] = s2 /\ d.entry = k
  BY <1>1
<1>6. s1.key = "first" /\ s2.key = "second" BY <1>4
<1>7. \A h \in {"first", "second"} : \E j \in 1..2 : d.steps[j].key = h BY <1>5, <1>6
<1>8. ASSUME NEW i \in 1..2
      PROVE  /\ d.steps[i].key # None /\ None \notin DOMAIN d.steps[i].routes
             /\ d.steps[i].type \in {"condition", "ai_decision", "http"}
             /\ d.steps[i].branch # "onFailure"
             /\ "next" \notin DOMAIN d.steps[i].routes
             /\ \A x \in DOMAIN d.steps[i].routes : d.steps[i].routes[x] \in {"first", "second"}
  <2>1. d.steps[i].key # None /\ None \notin DOMAIN d.steps[i].routes BY <1>2, <1>3, <1>5
  <2>2. PICK s : s = d.steps[i] /\ \E h \in {"first", "second"} : s \in Drawing!StepsKeyed(h)
    BY <1>5
  <2>3. /\ s.type \in {"condition", "ai_decision", "http"} /\ s.branch \in {None, Branch}
        /\ DOMAIN s.routes \subseteq {"onSuccess", "onFailure", Branch}
        /\ \A x \in DOMAIN s.routes : s.routes[x] \in {"first", "second"}
    BY <1>4, <2>2
  <2>. QED BY <1>2, <2>1, <2>2, <2>3
<1>9. \A i, j \in 1..2 : d.steps[i].key = d.steps[j].key => i = j BY <1>5, <1>6
<1>10. \E i \in 1..2 : d.steps[i].key = d.entry BY <1>5, <1>7
<1>11. ASSUME NEW i \in 1..2
       PROVE  \A x \in DOMAIN d.steps[i].routes :
                 /\ x # None /\ x # "next"
                 /\ d.steps[i].routes[x] = None
                      \/ \E j \in 1..2 : d.steps[j].key = d.steps[i].routes[x]
  BY <1>7, <1>8
<1>. QED BY <1>5, <1>8, <1>9, <1>10, <1>11 DEF Formed

---------------------------------------------------------------------------
(***************************************************************************)
(* The demo workspace's workflows: each has one way through it.            *)
(***************************************************************************)

\* A step leads to k whatever its result.
Leads(s, k) ==
  /\ k # None
  /\ \/ /\ s.type = "condition" /\ s.branch # None
        /\ s.branch \in DOMAIN s.routes /\ s.routes[s.branch] = k
     \/ s.type = "http" /\ "onSuccess" \in DOMAIN s.routes /\ s.routes["onSuccess"] = k
\* The i-th step of d leads nowhere: it is the last, or another leads to it.
Stops(d, i) ==
  /\ d.steps[i].type = "http" /\ "onSuccess" \in DOMAIN d.steps[i].routes
  /\ d.steps[i].routes["onSuccess"] = None
  /\ \/ i = Len(d.steps)
     \/ \E j \in 1..Len(d.steps) : \E x \in DOMAIN d.steps[j].routes \ {"onFailure"} :
          d.steps[j].routes[x] = d.steps[i].key
\* What the i-th step on the way w reads is there.
Supplied(d, w, i) ==
  /\ d.steps[w[i]].payload \subseteq d.payload \cup {"payload"}
  /\ d.steps[w[i]].outputs \subseteq {d.steps[w[j]].key : j \in 1..(i - 1)}
\* w, the numbers of n steps of d, is the way through it.
Way(d, w, n) ==
  /\ n \in Nat \ {0} /\ w \in [1..n -> 1..Len(d.steps)]
  /\ \A i, j \in 1..n : w[i] = w[j] => i = j
  /\ d.steps[w[1]].key = d.entry
  /\ \A i \in 1..(n - 1) : Leads(d.steps[w[i]], d.steps[w[i + 1]].key)
  /\ Stops(d, w[n])
  /\ \A i \in 1..n : Supplied(d, w, i)
Good(d) == Formed(d) /\ Len(d.steps) \in 1..6 /\ \E w, n : Way(d, w, n)

\* The i-th step of d: its key, type and branch, the steps whose output it reads, its routes.
HasStep(d, i, h, t, b, o, r) ==
  LET s == d.steps[i] IN
  /\ s.key = h /\ s.type = t /\ s.branch = b /\ s.outputs = o /\ s.routes = r
  /\ s.payload \subseteq d.payload \cup {"payload"}

Plain(s) ==
  /\ s.type \in {"condition", "http"} /\ "next" \notin DOMAIN s.routes
  /\ s.branch = None \/ s.branch # "onFailure"
Directed(d, i) ==
  \A x \in DOMAIN d.steps[i].routes :
    d.steps[i].routes[x] = None
      \/ \E j \in 1..Len(d.steps) : d.steps[j].key = d.steps[i].routes[x]
StepsFit(d) ==
  /\ Len(d.steps) \in Nat /\ DOMAIN d.steps = 1..Len(d.steps)
  /\ \A i, j \in 1..Len(d.steps) : d.steps[i].key = d.steps[j].key => i = j
  /\ \A i \in 1..Len(d.steps) : Plain(d.steps[i]) /\ Directed(d, i)
  /\ \E i \in 1..Len(d.steps) : d.steps[i].key = d.entry

LEMMA FormedIf == ASSUME NEW d \in Drawing!Definitions, StepsFit(d) PROVE Formed(d)
<1>1. ASSUME NEW i \in 1..Len(d.steps)
      PROVE  /\ d.steps[i].key # None /\ d.steps[i].branch # "onFailure"
             /\ \A x \in DOMAIN d.steps[i].routes : x # None /\ x # "next"
  BY ControlPlaneAssumption DEF Drawing!DefinitionRunsAssumption, StepsFit, Plain
<1>. QED BY <1>1 DEF Formed, StepsFit, Plain, Directed

LEMMA LeadRoutingGood == Good(Drawing!LeadRouting)
<1>1. PICK d : d = Drawing!LeadRouting OBVIOUS
<1>2. /\ Len(d.steps) = 6 /\ DOMAIN d.steps = 1..6 /\ d.entry = "validate_lead_payload"
      /\ \A i \in 1..6 : i = 1 \/ i = 2 \/ i = 3 \/ i = 4 \/ i = 5 \/ i = 6
  BY <1>1 DEF Drawing!LeadRouting
<1>3. HasStep(d, 1, "validate_lead_payload", "condition", "valid", {},
              [valid |-> "classify_source"])
  BY <1>1 DEF HasStep, Drawing!LeadRouting, Drawing!LeadRoutingPayload,
     Drawing!Condition
<1>4. HasStep(d, 2, "classify_source", "condition", "qualified", {},
              [qualified |-> "create_lead_snapshot", nurture |-> "create_nurture_snapshot"])
  BY <1>1 DEF HasStep, Drawing!LeadRouting, Drawing!LeadRoutingPayload,
     Drawing!Condition
<1>5. HasStep(d, 3, "create_lead_snapshot", "http", None, {},
              [onSuccess |-> "route_to_owner_queue"])
  BY <1>1 DEF HasStep, Drawing!LeadRouting, Drawing!LeadRoutingPayload,
     Drawing!Http, Drawing!To, Drawing!Last
<1>6. HasStep(d, 4, "create_nurture_snapshot", "http", None, {},
              [onSuccess |-> "write_routing_audit"])
  BY <1>1 DEF HasStep, Drawing!LeadRouting, Drawing!LeadRoutingPayload,
     Drawing!Http, Drawing!To, Drawing!Last
<1>7. HasStep(d, 5, "route_to_owner_queue", "http", None, {"create_lead_snapshot"},
              [onSuccess |-> "write_routing_audit"])
  BY <1>1 DEF HasStep, Drawing!LeadRouting, Drawing!LeadRoutingPayload,
     Drawing!Http, Drawing!To, Drawing!Last
<1>8. HasStep(d, 6, "write_routing_audit", "http", None, {},
              [onSuccess |-> None])
  BY <1>1 DEF HasStep, Drawing!LeadRouting, Drawing!LeadRoutingPayload,
     Drawing!Http, Drawing!To, Drawing!Last
<1>9. Formed(d)
  <2>1. d \in Drawing!Definitions BY <1>1 DEF Drawing!Definitions, Drawing!Seeds
  <2>2. \A i, j \in 1..6 : d.steps[i].key = d.steps[j].key => i = j
    BY <1>2, <1>3, <1>4, <1>5, <1>6, <1>7, <1>8 DEF HasStep
  <2>3. \A i \in 1..6 : Plain(d.steps[i])
    BY <1>2, <1>3, <1>4, <1>5, <1>6, <1>7, <1>8 DEF HasStep, Plain
  <2>4. \A i \in 1..6 : Directed(d, i)
    <3>1. Directed(d, 1) BY <1>2, <1>3, <1>4 DEF HasStep, Directed
    <3>2. Directed(d, 2) BY <1>2, <1>4, <1>5, <1>6 DEF HasStep, Directed
    <3>3. Directed(d, 3) BY <1>2, <1>5, <1>7 DEF HasStep, Directed
    <3>4. Directed(d, 4) BY <1>2, <1>6, <1>8 DEF HasStep, Directed
    <3>5. Directed(d, 5) BY <1>2, <1>7, <1>8 DEF HasStep, Directed
    <3>6. Directed(d, 6) BY <1>2, <1>8 DEF HasStep, Directed
    <3>. QED BY <1>2, <3>1, <3>2, <3>3, <3>4, <3>5, <3>6
  <2>5. \E i \in 1..6 : d.steps[i].key = d.entry BY <1>2, <1>3 DEF HasStep
  <2>6. StepsFit(d) BY <1>2, <2>2, <2>3, <2>4, <2>5 DEF StepsFit
  <2>. QED BY <2>1, <2>6, FormedIf
<1>10. PICK w : w = <<1, 2, 3, 5, 6>> OBVIOUS
<1>11. Way(d, w, 5)
  <2>1. /\ w \in [1..5 -> 1..6]
        /\ w[1] = 1 /\ w[2] = 2 /\ w[3] = 3 /\ w[4] = 5 /\ w[5] = 6
        /\ \A i \in 1..5 : i = 1 \/ i = 2 \/ i = 3 \/ i = 4 \/ i = 5
    BY <1>10
  <2>2. Leads(d.steps[1], d.steps[2].key)
    BY <1>3, <1>4, <1>2, <1>9 DEF HasStep, Leads, Formed
  <2>3. Leads(d.steps[2], d.steps[3].key)
    BY <1>4, <1>5, <1>2, <1>9 DEF HasStep, Leads, Formed
  <2>4. Leads(d.steps[3], d.steps[5].key)
    BY <1>5, <1>7, <1>2, <1>9 DEF HasStep, Leads, Formed
  <2>5. Leads(d.steps[5], d.steps[6].key)
    BY <1>7, <1>8, <1>2, <1>9 DEF HasStep, Leads, Formed
  <2>6. \A i \in 1..(5 - 1) : Leads(d.steps[w[i]], d.steps[w[i + 1]].key)
    BY <2>1, <2>2, <2>3, <2>4, <2>5
  <2>7. Stops(d, 6) BY <1>2, <1>8 DEF HasStep, Stops
  <2>8. \A i \in 1..5 : Supplied(d, w, i)
    BY <1>3, <1>4, <1>5, <1>7, <1>8, <2>1 DEF HasStep, Supplied
  <2>. QED BY <1>2, <1>3, <2>1, <2>6, <2>7, <2>8 DEF HasStep, Way
<1>. QED BY <1>1, <1>2, <1>9, <1>11 DEF Good

LEMMA WebhookQueueWorkerGood == Good(Drawing!WebhookQueueWorker)
<1>1. PICK d : d = Drawing!WebhookQueueWorker OBVIOUS
<1>2. /\ Len(d.steps) = 5 /\ DOMAIN d.steps = 1..5 /\ d.entry = "accept_signed_webhook"
      /\ \A i \in 1..5 : i = 1 \/ i = 2 \/ i = 3 \/ i = 4 \/ i = 5
  BY <1>1 DEF Drawing!WebhookQueueWorker
<1>3. HasStep(d, 1, "accept_signed_webhook", "condition", "accepted", {},
              [accepted |-> "normalize_event_payload"])
  BY <1>1 DEF HasStep, Drawing!WebhookQueueWorker, Drawing!WebhookQueueWorkerPayload,
     Drawing!Condition
<1>4. HasStep(d, 2, "normalize_event_payload", "condition", "normalized", {},
              [normalized |-> "persist_idempotency_window"])
  BY <1>1 DEF HasStep, Drawing!WebhookQueueWorker, Drawing!WebhookQueueWorkerPayload,
     Drawing!Condition
<1>5. HasStep(d, 3, "persist_idempotency_window", "http", None, {},
              [onSuccess |-> "deliver_to_downstream_api"])
  BY <1>1 DEF HasStep, Drawing!WebhookQueueWorker, Drawing!WebhookQueueWorkerPayload,
     Drawing!Http, Drawing!To, Drawing!Last
<1>6. HasStep(d, 4, "deliver_to_downstream_api", "http", None, {},
              [onSuccess |-> "archive_delivery_snapshot"])
  BY <1>1 DEF HasStep, Drawing!WebhookQueueWorker, Drawing!WebhookQueueWorkerPayload,
     Drawing!Http, Drawing!To, Drawing!Last
<1>7. HasStep(d, 5, "archive_delivery_snapshot", "http", None, {"deliver_to_downstream_api"},
              [onSuccess |-> None])
  BY <1>1 DEF HasStep, Drawing!WebhookQueueWorker, Drawing!WebhookQueueWorkerPayload,
     Drawing!Http, Drawing!To, Drawing!Last
<1>8. Formed(d)
  <2>1. d \in Drawing!Definitions BY <1>1 DEF Drawing!Definitions, Drawing!Seeds
  <2>2. \A i, j \in 1..5 : d.steps[i].key = d.steps[j].key => i = j
    BY <1>2, <1>3, <1>4, <1>5, <1>6, <1>7 DEF HasStep
  <2>3. \A i \in 1..5 : Plain(d.steps[i])
    BY <1>2, <1>3, <1>4, <1>5, <1>6, <1>7 DEF HasStep, Plain
  <2>4. \A i \in 1..5 : Directed(d, i)
    <3>1. Directed(d, 1) BY <1>2, <1>3, <1>4 DEF HasStep, Directed
    <3>2. Directed(d, 2) BY <1>2, <1>4, <1>5 DEF HasStep, Directed
    <3>3. Directed(d, 3) BY <1>2, <1>5, <1>6 DEF HasStep, Directed
    <3>4. Directed(d, 4) BY <1>2, <1>6, <1>7 DEF HasStep, Directed
    <3>5. Directed(d, 5) BY <1>2, <1>7 DEF HasStep, Directed
    <3>. QED BY <1>2, <3>1, <3>2, <3>3, <3>4, <3>5
  <2>5. \E i \in 1..5 : d.steps[i].key = d.entry BY <1>2, <1>3 DEF HasStep
  <2>6. StepsFit(d) BY <1>2, <2>2, <2>3, <2>4, <2>5 DEF StepsFit
  <2>. QED BY <2>1, <2>6, FormedIf
<1>9. PICK w : w = <<1, 2, 3, 4, 5>> OBVIOUS
<1>10. Way(d, w, 5)
  <2>1. /\ w \in [1..5 -> 1..5]
        /\ w[1] = 1 /\ w[2] = 2 /\ w[3] = 3 /\ w[4] = 4 /\ w[5] = 5
        /\ \A i \in 1..5 : i = 1 \/ i = 2 \/ i = 3 \/ i = 4 \/ i = 5
    BY <1>9
  <2>2. Leads(d.steps[1], d.steps[2].key)
    BY <1>3, <1>4, <1>2, <1>8 DEF HasStep, Leads, Formed
  <2>3. Leads(d.steps[2], d.steps[3].key)
    BY <1>4, <1>5, <1>2, <1>8 DEF HasStep, Leads, Formed
  <2>4. Leads(d.steps[3], d.steps[4].key)
    BY <1>5, <1>6, <1>2, <1>8 DEF HasStep, Leads, Formed
  <2>5. Leads(d.steps[4], d.steps[5].key)
    BY <1>6, <1>7, <1>2, <1>8 DEF HasStep, Leads, Formed
  <2>6. \A i \in 1..(5 - 1) : Leads(d.steps[w[i]], d.steps[w[i + 1]].key)
    BY <2>1, <2>2, <2>3, <2>4, <2>5
  <2>7. Stops(d, 5) BY <1>2, <1>7 DEF HasStep, Stops
  <2>8. \A i \in 1..5 : Supplied(d, w, i)
    BY <1>3, <1>4, <1>5, <1>6, <1>7, <2>1 DEF HasStep, Supplied
  <2>. QED BY <1>2, <1>3, <2>1, <2>6, <2>7, <2>8 DEF HasStep, Way
<1>. QED BY <1>1, <1>2, <1>8, <1>10 DEF Good

LEMMA ApiEnrichmentGood == Good(Drawing!ApiEnrichment)
<1>1. PICK d : d = Drawing!ApiEnrichment OBVIOUS
<1>2. /\ Len(d.steps) = 6 /\ DOMAIN d.steps = 1..6 /\ d.entry = "prepare_enrichment_request"
      /\ \A i \in 1..6 : i = 1 \/ i = 2 \/ i = 3 \/ i = 4 \/ i = 5 \/ i = 6
  BY <1>1 DEF Drawing!ApiEnrichment
<1>3. HasStep(d, 1, "prepare_enrichment_request", "condition", "ready", {},
              [ready |-> "fetch_company_profile"])
  BY <1>1 DEF HasStep, Drawing!ApiEnrichment, Drawing!ApiEnrichmentPayload,
     Drawing!Condition
<1>4. HasStep(d, 2, "fetch_company_profile", "http", None, {},
              [onSuccess |-> "fetch_contact_profile"])
  BY <1>1 DEF HasStep, Drawing!ApiEnrichment, Drawing!ApiEnrichmentPayload,
     Drawing!Http, Drawing!To, Drawing!Last
<1>5. HasStep(d, 3, "fetch_contact_profile", "http", None, {},
              [onSuccess |-> "evaluate_enrichment_quality"])
  BY <1>1 DEF HasStep, Drawing!ApiEnrichment, Drawing!ApiEnrichmentPayload,
     Drawing!Http, Drawing!To, Drawing!Last
<1>6. HasStep(d, 4, "evaluate_enrichment_quality", "condition", "accepted", {},
              [accepted |-> "push_to_business_system", rejected |-> "write_review_event"])
  BY <1>1 DEF HasStep, Drawing!ApiEnrichment, Drawing!ApiEnrichmentPayload,
     Drawing!Condition
<1>7. HasStep(d, 5, "push_to_business_system", "http", None, {"fetch_company_profile", "fetch_contact_profile"},
              [onSuccess |-> None])
  BY <1>1 DEF HasStep, Drawing!ApiEnrichment, Drawing!ApiEnrichmentPayload,
     Drawing!Http, Drawing!To, Drawing!Last
<1>8. HasStep(d, 6, "write_review_event", "http", None, {},
              [onSuccess |-> None])
  BY <1>1 DEF HasStep, Drawing!ApiEnrichment, Drawing!ApiEnrichmentPayload,
     Drawing!Http, Drawing!To, Drawing!Last
<1>9. Formed(d)
  <2>1. d \in Drawing!Definitions BY <1>1 DEF Drawing!Definitions, Drawing!Seeds
  <2>2. \A i, j \in 1..6 : d.steps[i].key = d.steps[j].key => i = j
    BY <1>2, <1>3, <1>4, <1>5, <1>6, <1>7, <1>8 DEF HasStep
  <2>3. \A i \in 1..6 : Plain(d.steps[i])
    BY <1>2, <1>3, <1>4, <1>5, <1>6, <1>7, <1>8 DEF HasStep, Plain
  <2>4. \A i \in 1..6 : Directed(d, i)
    <3>1. Directed(d, 1) BY <1>2, <1>3, <1>4 DEF HasStep, Directed
    <3>2. Directed(d, 2) BY <1>2, <1>4, <1>5 DEF HasStep, Directed
    <3>3. Directed(d, 3) BY <1>2, <1>5, <1>6 DEF HasStep, Directed
    <3>4. Directed(d, 4) BY <1>2, <1>6, <1>7, <1>8 DEF HasStep, Directed
    <3>5. Directed(d, 5) BY <1>2, <1>7 DEF HasStep, Directed
    <3>6. Directed(d, 6) BY <1>2, <1>8 DEF HasStep, Directed
    <3>. QED BY <1>2, <3>1, <3>2, <3>3, <3>4, <3>5, <3>6
  <2>5. \E i \in 1..6 : d.steps[i].key = d.entry BY <1>2, <1>3 DEF HasStep
  <2>6. StepsFit(d) BY <1>2, <2>2, <2>3, <2>4, <2>5 DEF StepsFit
  <2>. QED BY <2>1, <2>6, FormedIf
<1>10. PICK w : w = <<1, 2, 3, 4, 5>> OBVIOUS
<1>11. Way(d, w, 5)
  <2>1. /\ w \in [1..5 -> 1..6]
        /\ w[1] = 1 /\ w[2] = 2 /\ w[3] = 3 /\ w[4] = 4 /\ w[5] = 5
        /\ \A i \in 1..5 : i = 1 \/ i = 2 \/ i = 3 \/ i = 4 \/ i = 5
    BY <1>10
  <2>2. Leads(d.steps[1], d.steps[2].key)
    BY <1>3, <1>4, <1>2, <1>9 DEF HasStep, Leads, Formed
  <2>3. Leads(d.steps[2], d.steps[3].key)
    BY <1>4, <1>5, <1>2, <1>9 DEF HasStep, Leads, Formed
  <2>4. Leads(d.steps[3], d.steps[4].key)
    BY <1>5, <1>6, <1>2, <1>9 DEF HasStep, Leads, Formed
  <2>5. Leads(d.steps[4], d.steps[5].key)
    BY <1>6, <1>7, <1>2, <1>9 DEF HasStep, Leads, Formed
  <2>6. \A i \in 1..(5 - 1) : Leads(d.steps[w[i]], d.steps[w[i + 1]].key)
    BY <2>1, <2>2, <2>3, <2>4, <2>5
  <2>7. Stops(d, 5) BY <1>2, <1>7, <1>6 DEF HasStep, Stops
  <2>8. \A i \in 1..5 : Supplied(d, w, i)
    BY <1>3, <1>4, <1>5, <1>6, <1>7, <2>1 DEF HasStep, Supplied
  <2>. QED BY <1>2, <1>3, <2>1, <2>6, <2>7, <2>8 DEF HasStep, Way
<1>. QED BY <1>1, <1>2, <1>9, <1>11 DEF Good

LEMMA RetryFailureDrillGood == Good(Drawing!RetryFailureDrill)
<1>1. PICK d : d = Drawing!RetryFailureDrill OBVIOUS
<1>2. /\ Len(d.steps) = 4 /\ DOMAIN d.steps = 1..4 /\ d.entry = "prepare_retry_probe"
      /\ \A i \in 1..4 : i = 1 \/ i = 2 \/ i = 3 \/ i = 4
  BY <1>1 DEF Drawing!RetryFailureDrill
<1>3. HasStep(d, 1, "prepare_retry_probe", "condition", "probe_ready", {},
              [probe_ready |-> "write_retry_context"])
  BY <1>1 DEF HasStep, Drawing!RetryFailureDrill, Drawing!RetryFailureDrillPayload,
     Drawing!Condition
<1>4. HasStep(d, 2, "write_retry_context", "http", None, {},
              [onSuccess |-> "classify_retry_probe"])
  BY <1>1 DEF HasStep, Drawing!RetryFailureDrill, Drawing!RetryFailureDrillPayload,
     Drawing!Http, Drawing!To, Drawing!Last
<1>5. HasStep(d, 3, "classify_retry_probe", "condition", "retryable", {},
              [retryable |-> "call_unstable_downstream"])
  BY <1>1 DEF HasStep, Drawing!RetryFailureDrill, Drawing!RetryFailureDrillPayload,
     Drawing!Condition
<1>6. HasStep(d, 4, "call_unstable_downstream", "http", None, {},
              [onSuccess |-> None])
  BY <1>1 DEF HasStep, Drawing!RetryFailureDrill, Drawing!RetryFailureDrillPayload,
     Drawing!Http, Drawing!To, Drawing!Last
<1>7. Formed(d)
  <2>1. d \in Drawing!Definitions BY <1>1 DEF Drawing!Definitions, Drawing!Seeds
  <2>2. \A i, j \in 1..4 : d.steps[i].key = d.steps[j].key => i = j
    BY <1>2, <1>3, <1>4, <1>5, <1>6 DEF HasStep
  <2>3. \A i \in 1..4 : Plain(d.steps[i])
    BY <1>2, <1>3, <1>4, <1>5, <1>6 DEF HasStep, Plain
  <2>4. \A i \in 1..4 : Directed(d, i)
    <3>1. Directed(d, 1) BY <1>2, <1>3, <1>4 DEF HasStep, Directed
    <3>2. Directed(d, 2) BY <1>2, <1>4, <1>5 DEF HasStep, Directed
    <3>3. Directed(d, 3) BY <1>2, <1>5, <1>6 DEF HasStep, Directed
    <3>4. Directed(d, 4) BY <1>2, <1>6 DEF HasStep, Directed
    <3>. QED BY <1>2, <3>1, <3>2, <3>3, <3>4
  <2>5. \E i \in 1..4 : d.steps[i].key = d.entry BY <1>2, <1>3 DEF HasStep
  <2>6. StepsFit(d) BY <1>2, <2>2, <2>3, <2>4, <2>5 DEF StepsFit
  <2>. QED BY <2>1, <2>6, FormedIf
<1>8. PICK w : w = <<1, 2, 3, 4>> OBVIOUS
<1>9. Way(d, w, 4)
  <2>1. /\ w \in [1..4 -> 1..4]
        /\ w[1] = 1 /\ w[2] = 2 /\ w[3] = 3 /\ w[4] = 4
        /\ \A i \in 1..4 : i = 1 \/ i = 2 \/ i = 3 \/ i = 4
    BY <1>8
  <2>2. Leads(d.steps[1], d.steps[2].key)
    BY <1>3, <1>4, <1>2, <1>7 DEF HasStep, Leads, Formed
  <2>3. Leads(d.steps[2], d.steps[3].key)
    BY <1>4, <1>5, <1>2, <1>7 DEF HasStep, Leads, Formed
  <2>4. Leads(d.steps[3], d.steps[4].key)
    BY <1>5, <1>6, <1>2, <1>7 DEF HasStep, Leads, Formed
  <2>5. \A i \in 1..(4 - 1) : Leads(d.steps[w[i]], d.steps[w[i + 1]].key)
    BY <2>1, <2>2, <2>3, <2>4
  <2>6. Stops(d, 4) BY <1>2, <1>6 DEF HasStep, Stops
  <2>7. \A i \in 1..4 : Supplied(d, w, i)
    BY <1>3, <1>4, <1>5, <1>6, <2>1 DEF HasStep, Supplied
  <2>. QED BY <1>2, <1>3, <2>1, <2>5, <2>6, <2>7 DEF HasStep, Way
<1>. QED BY <1>1, <1>2, <1>7, <1>9 DEF Good

LEMMA SubscriptionSyncGood == Good(Drawing!SubscriptionSync)
<1>1. PICK d : d = Drawing!SubscriptionSync OBVIOUS
<1>2. /\ Len(d.steps) = 4 /\ DOMAIN d.steps = 1..4 /\ d.entry = "classify_billing_event"
      /\ \A i \in 1..4 : i = 1 \/ i = 2 \/ i = 3 \/ i = 4
  BY <1>1 DEF Drawing!SubscriptionSync
<1>3. HasStep(d, 1, "classify_billing_event", "condition", "subscription_event", {},
              [subscription_event |-> "persist_billing_event"])
  BY <1>1 DEF HasStep, Drawing!SubscriptionSync, Drawing!SubscriptionSyncPayload,
     Drawing!Condition
<1>4. HasStep(d, 2, "persist_billing_event", "http", None, {},
              [onSuccess |-> "sync_subscription_state"])
  BY <1>1 DEF HasStep, Drawing!SubscriptionSync, Drawing!SubscriptionSyncPayload,
     Drawing!Http, Drawing!To, Drawing!Last
<1>5. HasStep(d, 3, "sync_subscription_state", "http", None, {},
              [onSuccess |-> "write_plan_audit"])
  BY <1>1 DEF HasStep, Drawing!SubscriptionSync, Drawing!SubscriptionSyncPayload,
     Drawing!Http, Drawing!To, Drawing!Last
<1>6. HasStep(d, 4, "write_plan_audit", "http", None, {},
              [onSuccess |-> None])
  BY <1>1 DEF HasStep, Drawing!SubscriptionSync, Drawing!SubscriptionSyncPayload,
     Drawing!Http, Drawing!To, Drawing!Last
<1>7. Formed(d)
  <2>1. d \in Drawing!Definitions BY <1>1 DEF Drawing!Definitions, Drawing!Seeds
  <2>2. \A i, j \in 1..4 : d.steps[i].key = d.steps[j].key => i = j
    BY <1>2, <1>3, <1>4, <1>5, <1>6 DEF HasStep
  <2>3. \A i \in 1..4 : Plain(d.steps[i])
    BY <1>2, <1>3, <1>4, <1>5, <1>6 DEF HasStep, Plain
  <2>4. \A i \in 1..4 : Directed(d, i)
    <3>1. Directed(d, 1) BY <1>2, <1>3, <1>4 DEF HasStep, Directed
    <3>2. Directed(d, 2) BY <1>2, <1>4, <1>5 DEF HasStep, Directed
    <3>3. Directed(d, 3) BY <1>2, <1>5, <1>6 DEF HasStep, Directed
    <3>4. Directed(d, 4) BY <1>2, <1>6 DEF HasStep, Directed
    <3>. QED BY <1>2, <3>1, <3>2, <3>3, <3>4
  <2>5. \E i \in 1..4 : d.steps[i].key = d.entry BY <1>2, <1>3 DEF HasStep
  <2>6. StepsFit(d) BY <1>2, <2>2, <2>3, <2>4, <2>5 DEF StepsFit
  <2>. QED BY <2>1, <2>6, FormedIf
<1>8. PICK w : w = <<1, 2, 3, 4>> OBVIOUS
<1>9. Way(d, w, 4)
  <2>1. /\ w \in [1..4 -> 1..4]
        /\ w[1] = 1 /\ w[2] = 2 /\ w[3] = 3 /\ w[4] = 4
        /\ \A i \in 1..4 : i = 1 \/ i = 2 \/ i = 3 \/ i = 4
    BY <1>8
  <2>2. Leads(d.steps[1], d.steps[2].key)
    BY <1>3, <1>4, <1>2, <1>7 DEF HasStep, Leads, Formed
  <2>3. Leads(d.steps[2], d.steps[3].key)
    BY <1>4, <1>5, <1>2, <1>7 DEF HasStep, Leads, Formed
  <2>4. Leads(d.steps[3], d.steps[4].key)
    BY <1>5, <1>6, <1>2, <1>7 DEF HasStep, Leads, Formed
  <2>5. \A i \in 1..(4 - 1) : Leads(d.steps[w[i]], d.steps[w[i + 1]].key)
    BY <2>1, <2>2, <2>3, <2>4
  <2>6. Stops(d, 4) BY <1>2, <1>6 DEF HasStep, Stops
  <2>7. \A i \in 1..4 : Supplied(d, w, i)
    BY <1>3, <1>4, <1>5, <1>6, <2>1 DEF HasStep, Supplied
  <2>. QED BY <1>2, <1>3, <2>1, <2>5, <2>6, <2>7 DEF HasStep, Way
<1>. QED BY <1>1, <1>2, <1>7, <1>9 DEF Good

LEMMA AiDecisionRoutingGood == Good(Drawing!AiDecisionRouting)
<1>1. PICK d : d = Drawing!AiDecisionRouting OBVIOUS
<1>2. /\ Len(d.steps) = 5 /\ DOMAIN d.steps = 1..5 /\ d.entry = "prepare_ai_contract"
      /\ \A i \in 1..5 : i = 1 \/ i = 2 \/ i = 3 \/ i = 4 \/ i = 5
  BY <1>1 DEF Drawing!AiDecisionRouting
<1>3. HasStep(d, 1, "prepare_ai_contract", "condition", "contract_ready", {},
              [contract_ready |-> "record_ai_request_contract"])
  BY <1>1 DEF HasStep, Drawing!AiDecisionRouting, Drawing!AiDecisionRoutingPayload,
     Drawing!Condition
<1>4. HasStep(d, 2, "record_ai_request_contract", "http", None, {},
              [onSuccess |-> "classify_ai_result"])
  BY <1>1 DEF HasStep, Drawing!AiDecisionRouting, Drawing!AiDecisionRoutingPayload,
     Drawing!Http, Drawing!To, Drawing!Last
<1>5. HasStep(d, 3, "classify_ai_result", "condition", "priority", {},
              [priority |-> "route_priority_request", standard |-> "route_standard_request"])
  BY <1>1 DEF HasStep, Drawing!AiDecisionRouting, Drawing!AiDecisionRoutingPayload,
     Drawing!Condition
<1>6. HasStep(d, 4, "route_priority_request", "http", None, {},
              [onSuccess |-> None])
  BY <1>1 DEF HasStep, Drawing!AiDecisionRouting, Drawing!AiDecisionRoutingPayload,
     Drawing!Http, Drawing!To, Drawing!Last
<1>7. HasStep(d, 5, "route_standard_request", "http", None, {},
              [onSuccess |-> None])
  BY <1>1 DEF HasStep, Drawing!AiDecisionRouting, Drawing!AiDecisionRoutingPayload,
     Drawing!Http, Drawing!To, Drawing!Last
<1>8. Formed(d)
  <2>1. d \in Drawing!Definitions BY <1>1 DEF Drawing!Definitions, Drawing!Seeds
  <2>2. \A i, j \in 1..5 : d.steps[i].key = d.steps[j].key => i = j
    BY <1>2, <1>3, <1>4, <1>5, <1>6, <1>7 DEF HasStep
  <2>3. \A i \in 1..5 : Plain(d.steps[i])
    BY <1>2, <1>3, <1>4, <1>5, <1>6, <1>7 DEF HasStep, Plain
  <2>4. \A i \in 1..5 : Directed(d, i)
    <3>1. Directed(d, 1) BY <1>2, <1>3, <1>4 DEF HasStep, Directed
    <3>2. Directed(d, 2) BY <1>2, <1>4, <1>5 DEF HasStep, Directed
    <3>3. Directed(d, 3) BY <1>2, <1>5, <1>6, <1>7 DEF HasStep, Directed
    <3>4. Directed(d, 4) BY <1>2, <1>6 DEF HasStep, Directed
    <3>5. Directed(d, 5) BY <1>2, <1>7 DEF HasStep, Directed
    <3>. QED BY <1>2, <3>1, <3>2, <3>3, <3>4, <3>5
  <2>5. \E i \in 1..5 : d.steps[i].key = d.entry BY <1>2, <1>3 DEF HasStep
  <2>6. StepsFit(d) BY <1>2, <2>2, <2>3, <2>4, <2>5 DEF StepsFit
  <2>. QED BY <2>1, <2>6, FormedIf
<1>9. PICK w : w = <<1, 2, 3, 4>> OBVIOUS
<1>10. Way(d, w, 4)
  <2>1. /\ w \in [1..4 -> 1..5]
        /\ w[1] = 1 /\ w[2] = 2 /\ w[3] = 3 /\ w[4] = 4
        /\ \A i \in 1..4 : i = 1 \/ i = 2 \/ i = 3 \/ i = 4
    BY <1>9
  <2>2. Leads(d.steps[1], d.steps[2].key)
    BY <1>3, <1>4, <1>2, <1>8 DEF HasStep, Leads, Formed
  <2>3. Leads(d.steps[2], d.steps[3].key)
    BY <1>4, <1>5, <1>2, <1>8 DEF HasStep, Leads, Formed
  <2>4. Leads(d.steps[3], d.steps[4].key)
    BY <1>5, <1>6, <1>2, <1>8 DEF HasStep, Leads, Formed
  <2>5. \A i \in 1..(4 - 1) : Leads(d.steps[w[i]], d.steps[w[i + 1]].key)
    BY <2>1, <2>2, <2>3, <2>4
  <2>6. Stops(d, 4) BY <1>2, <1>6, <1>5 DEF HasStep, Stops
  <2>7. \A i \in 1..4 : Supplied(d, w, i)
    BY <1>3, <1>4, <1>5, <1>6, <2>1 DEF HasStep, Supplied
  <2>. QED BY <1>2, <1>3, <2>1, <2>5, <2>6, <2>7 DEF HasStep, Way
<1>. QED BY <1>1, <1>2, <1>8, <1>10 DEF Good

LEMMA SeedsAreGood == ASSUME NEW d \in Drawing!Seeds PROVE Good(d)
BY LeadRoutingGood, WebhookQueueWorkerGood, ApiEnrichmentGood, RetryFailureDrillGood,
   SubscriptionSyncGood, AiDecisionRoutingGood DEF Drawing!Seeds

LEMMA IndexIs ==
  ASSUME Formed(definition), NEW i \in 1..Len(definition.steps)
  PROVE  /\ Drawing!Steps = definition.steps
         /\ Drawing!IndexOf(definition.steps[i].key) = i
<1>1. \A j \in 1..Len(definition.steps) :
        definition.steps[j].key = definition.steps[i].key <=> j = i
  BY DEF Formed
<1>2. DOMAIN definition.steps = 1..Len(definition.steps) BY DEF Formed
<1>. QED BY <1>1, <1>2 DEF Drawing!IndexOf, Drawing!Steps

\* On the way through a definition, resolveNextStep has no choice.
LEMMA NextOnWay ==
  ASSUME Formed(definition), NEW i \in 1..Len(definition.steps), NEW s, s = definition.steps[i],
         NEW b \in Drawing!BranchesOf(s)
  PROVE  /\ \A k : Leads(s, k) => Drawing!NextStepKey(s, b) = k
         /\ Stops(definition, i) => Drawing!NextStepKey(s, b) = None
<1>1. Drawing!Steps = definition.steps /\ Drawing!IndexOf(s.key) = i BY IndexIs
<1>2. ASSUME NEW k, Leads(s, k) PROVE Drawing!NextStepKey(s, b) = k
  <2>1. CASE s.type = "condition" /\ s.branch # None /\ s.branch \in DOMAIN s.routes
               /\ s.routes[s.branch] = k
    <3>1. b = s.branch BY <2>1 DEF Drawing!BranchesOf
    <3>. QED BY <1>2, <2>1, <3>1 DEF Drawing!NextStepKey, Drawing!Route, Leads
  <2>2. CASE s.type = "http" /\ "onSuccess" \in DOMAIN s.routes /\ s.routes["onSuccess"] = k
    <3>1. b = None BY <2>2 DEF Drawing!BranchesOf
    <3>. QED BY <1>2, <2>2, <3>1 DEF Drawing!NextStepKey, Drawing!Route, Leads
  <2>. QED BY <1>2, <2>1, <2>2 DEF Leads
<1>3. ASSUME Stops(definition, i) PROVE Drawing!NextStepKey(s, b) = None
  <2>1. b = None BY <1>3 DEF Drawing!BranchesOf, Stops
  <2>2. Drawing!Route(s, "onSuccess") = None BY <1>3 DEF Drawing!Route, Stops
  <2>3. i = Len(Drawing!Steps) \/ Drawing!IsTransitionTarget(s.key)
    BY <1>1, <1>3 DEF Stops, Drawing!IsTransitionTarget, Formed
  <2>. QED BY <1>1, <2>1, <2>2, <2>3 DEF Drawing!NextStepKey, Formed
<1>. QED BY <1>2, <1>3

\* The run has come some way through the definition, and is at the step that is next.
OnTheWay(w, n) ==
  /\ Way(definition, w, n) /\ Len(ran) \in 0..n /\ ~cycle
  /\ \A i \in 1..Len(ran) : ran[i] = definition.steps[w[i]].key
  /\ current = IF Len(ran) < n THEN definition.steps[w[Len(ran) + 1]].key ELSE None
SeedInv == definition \in Drawing!Seeds => \E w, n : OnTheWay(w, n)

LEMMA WayStep ==
  ASSUME DrawingInv, Drawing!Next, NEW w, NEW n, OnTheWay(w, n) PROVE OnTheWay(w, n)'
<1>. DEFINE S == definition.steps
            m == Len(ran)
<1>1. /\ m \in 0..n /\ n \in Nat \ {0} /\ Formed(definition)
      /\ \A i \in 1..n : w[i] \in 1..Len(S) /\ S[w[i]].key # None
  BY DEF OnTheWay, Way, DrawingInv, Formed
<1>2. DOMAIN ran = 1..m BY DEF DrawingInv, PathInv
<1>3. CASE Drawing!RunStep
  <2>1. current # None /\ definition' = definition /\ cycle' = cycle /\ ran' = Append(ran, current)
    BY <1>3 DEF Drawing!RunStep
  <2>2. m < n /\ current = S[w[m + 1]].key BY <2>1 DEF OnTheWay
  <2>3. m + 1 \in 1..n BY <1>1, <2>2
  <2>4. PICK i \in 1..Len(S) : i = w[m + 1] BY <1>1, <2>3
  <2>5. PICK s : s = S[i] OBVIOUS
  <2>6. Drawing!Steps[Drawing!IndexOf(current)] = s BY <1>1, <2>2, <2>4, <2>5, IndexIs
  <2>7. PICK b \in Drawing!BranchesOf(s) : branch' = b /\ current' = Drawing!NextStepKey(s, b)
    BY <1>3, <2>6 DEF Drawing!RunStep
  <2>8. /\ \A k : Leads(s, k) => current' = k
        /\ Stops(definition, i) => current' = None
    BY <1>1, <2>5, <2>7, NextOnWay
  <2>9. PICK r : r = Append(ran, current) OBVIOUS
  <2>10. Len(r) = m + 1 /\ r[m + 1] = current /\ \A j \in 1..m : r[j] = ran[j]
    <3>1. PICK T : T = {ran[j] : j \in 1..m} \cup {current} OBVIOUS
    <3>2. ran \in Seq(T) /\ current \in T
      <4>1. ran = [j \in 1..m |-> ran[j]] /\ m \in Nat BY DEF DrawingInv, PathInv
      <4>. QED BY <3>1, <4>1
    <3>. QED BY <2>9, <3>2
  <2>11. current' = IF m + 1 < n THEN S[w[m + 2]].key ELSE None
    <3>1. CASE m + 1 < n
      <4>1. m + 1 \in 1..(n - 1) /\ (m + 1) + 1 = m + 2 BY <1>1, <3>1
      <4>2. Leads(s, S[w[m + 2]].key) BY <2>4, <2>5, <4>1 DEF OnTheWay, Way
      <4>. QED BY <2>8, <3>1, <4>2
    <3>2. CASE ~(m + 1 < n)
      <4>1. m + 1 = n BY <1>1, <2>2, <3>2
      <4>2. Stops(definition, i) BY <2>4, <4>1 DEF OnTheWay, Way
      <4>. QED BY <2>8, <3>2, <4>2
    <3>. QED BY <3>1, <3>2
  <2>12. \A j \in 1..(m + 1) : r[j] = S[w[j]].key
    <3>1. \A j \in 1..m : r[j] = S[w[j]].key BY <2>10 DEF OnTheWay
    <3>. QED BY <1>1, <2>2, <2>10, <3>1
  <2>13. ran' = r BY <2>1, <2>9
  <2>14. (m + 1) + 1 = m + 2 /\ m + 1 \in 0..n BY <1>1, <2>3
  <2>15. Way(definition', w, n) /\ ~cycle' BY <2>1 DEF OnTheWay
  <2>16. current' = IF Len(r) < n THEN S[w[Len(r) + 1]].key ELSE None BY <2>10, <2>11, <2>14
  <2>17. Len(r) \in 0..n /\ \A j \in 1..Len(r) : r[j] = S[w[j]].key BY <2>10, <2>12, <2>14
  <2>. QED BY <2>1, <2>13, <2>15, <2>16, <2>17 DEF OnTheWay
<1>4. ~Drawing!DetectCycle
  <2>1. SUFFICES ASSUME Drawing!DetectCycle PROVE FALSE OBVIOUS
  <2>2. PICK j \in 1..m : ran[j] = current
    BY <1>2, <2>1 DEF Drawing!DetectCycle, Drawing!Range
  <2>3. j \in 1..n /\ current = S[w[j]].key BY <1>1, <2>2 DEF OnTheWay
  <2>4. current # None BY <1>1, <2>3
  <2>5. m + 1 \in 1..n /\ current = S[w[m + 1]].key BY <1>1, <2>4 DEF OnTheWay
  <2>6. w[j] = w[m + 1]
    <3>1. \A p, q \in 1..Len(S) : S[p].key = S[q].key => p = q BY <1>1 DEF Formed
    <3>. QED BY <1>1, <2>3, <2>5, <3>1
  <2>7. j = m + 1 BY <2>3, <2>5, <2>6 DEF OnTheWay, Way
  <2>. QED BY <1>1, <2>2, <2>7
<1>. QED BY <1>3, <1>4 DEF Drawing!Next

LEMMA WayIsSafe ==
  ASSUME DrawingInv, SeedInv, definition \in Drawing!Seeds
  PROVE  /\ Drawing!Acceptable(Drawing!Steps, definition.entry)
         /\ ~cycle
         /\ \A n \in DOMAIN ran :
              LET s == Drawing!Steps[Drawing!IndexOf(ran[n])] IN
              /\ s.payload \subseteq definition.payload \cup {"payload"}
              /\ s.outputs \subseteq {ran[m] : m \in 1..(n - 1)}
<1>. DEFINE S == definition.steps
<1>1. /\ Formed(definition) /\ Len(S) \in 1..6
      /\ Drawing!Steps = S /\ DOMAIN S = 1..Len(S)
  BY SeedsAreGood DEF Good, Drawing!Steps, Formed
<1>2. Drawing!Acceptable(S, definition.entry)
  <2>1. Len(S) \in 1..EngineStepLimit
    <3>1. EngineStepLimit \in Nat /\ EngineStepLimit >= 6
      BY ControlPlaneAssumption DEF Drawing!DefinitionRunsAssumption
    <3>2. \A l \in 1..6 : l \in 1..EngineStepLimit BY <3>1
    <3>. QED BY <1>1, <3>2
  <2>2. Drawing!KeysOf(S) = {S[i].key : i \in 1..Len(S)} BY <1>1 DEF Drawing!KeysOf
  <2>3. Drawing!TargetsKnown(S)
    <3>1. ASSUME NEW i \in 1..Len(S), NEW k \in Drawing!Range(S[i].routes), k # None
          PROVE  k \in Drawing!KeysOf(S)
      <4>1. PICK x \in DOMAIN S[i].routes : S[i].routes[x] = k BY DEF Drawing!Range
      <4>. QED BY <1>1, <2>2, <3>1, <4>1 DEF Formed
    <3>. QED BY <1>1, <3>1 DEF Drawing!TargetsKnown, Drawing!TargetsOf
  <2>. QED BY <1>1, <2>1, <2>2, <2>3 DEF Formed, Drawing!Acceptable
<1>3. PICK w, n : OnTheWay(w, n) BY DEF SeedInv
<1>4. DOMAIN ran = 1..Len(ran) /\ Len(ran) \in 0..n /\ n \in Nat
  BY <1>3 DEF DrawingInv, PathInv, OnTheWay, Way
<1>5. ASSUME NEW i \in DOMAIN ran
      PROVE  /\ S[Drawing!IndexOf(ran[i])].payload \subseteq definition.payload \cup {"payload"}
             /\ S[Drawing!IndexOf(ran[i])].outputs \subseteq {ran[m] : m \in 1..(i - 1)}
  <2>1. i \in 1..n /\ i \in 1..Len(ran) BY <1>4
  <2>2. ran[i] = S[w[i]].key /\ w[i] \in 1..Len(S) BY <1>3, <2>1 DEF OnTheWay, Way
  <2>3. Drawing!IndexOf(ran[i]) = w[i] BY <1>1, <2>2, IndexIs
  <2>4. Supplied(definition, w, i) BY <1>3, <2>1 DEF OnTheWay, Way
  <2>5. \A m \in 1..(i - 1) : ran[m] = S[w[m]].key
    <3>1. \A m \in 1..(i - 1) : m \in 1..Len(ran) BY <1>4, <2>1
    <3>. QED BY <1>3, <3>1 DEF OnTheWay
  <2>. QED BY <2>3, <2>4, <2>5 DEF Supplied
<1>. QED BY <1>1, <1>2, <1>3, <1>5 DEF OnTheWay

LEMMA DrawingInit == Init => DrawingInv /\ SeedInv
<1>. SUFFICES ASSUME Init PROVE DrawingInv /\ SeedInv OBVIOUS
<1>1. definition \in Drawing!Definitions /\ Drawing!StartsWith(definition)
  BY DEF Init, Drawing!Init, Drawing!StartsWith, Drawing!Definitions, Drawing!Seeds
<1>2. Formed(definition) BY <1>1, SmallIsFormed, SeedsAreGood DEF Drawing!Definitions, Good
<1>3. ran = <<>> /\ Len(ran) = 0 /\ cycle = FALSE /\ current = definition.entry
  BY <1>1 DEF Drawing!StartsWith
<1>4. PathInv BY <1>3 DEF PathInv
<1>5. CurrentInv BY <1>2, <1>3 DEF CurrentInv, Formed
<1>6. ASSUME definition \in Drawing!Seeds PROVE \E w, n : OnTheWay(w, n)
  <2>1. PICK w, n : Way(definition, w, n) BY <1>6, SeedsAreGood DEF Good
  <2>2. /\ n \in Nat \ {0} /\ definition.steps[w[1]].key = definition.entry
        /\ Len(ran) = 0 /\ 0 < n /\ 0 + 1 = 1 /\ 0 \in 0..n
    BY <1>3, <2>1 DEF Way
  <2>3. OnTheWay(w, n) BY <1>3, <2>1, <2>2 DEF OnTheWay
  <2>. QED BY <2>3
<1>. QED BY <1>2, <1>4, <1>5, <1>6 DEF DrawingInv, SeedInv

\* A run goes from step to step along lines the canvas draws for success, and ends only where
\* it draws none; a demo workflow never comes back to a step and reads only what is there.
THEOREM RunsFollowTheLines == Spec => []RunsFollowTheDrawing
<1>. DEFINE Inv == DrawingInv /\ SeedInv
<1>1. Init => Inv BY DrawingInit
<1>2. (Only("drawing") /\ Drawing!Next) \/ UNCHANGED drawing \/ ~[Next]_vars
  BY DEF Next, Only, vars
<1>3. Inv /\ UNCHANGED drawing => Inv'
  <2>1. SUFFICES ASSUME Inv, UNCHANGED drawing PROVE Inv' OBVIOUS
  <2>2. UNCHANGED <<definition, current, ran, branch, cycle>> BY <2>1 DEF drawing
  <2>3. /\ \A from, to : Line(from, to)' = Line(from, to)
        /\ \A from, x : EndsHere(from, x)' = EndsHere(from, x)
    BY <2>2 DEF Line, EndsHere, Drawing!Edges, Drawing!RouteLines, Drawing!ExplicitTargets,
       Drawing!Steps
  <2>4. \A w, n : OnTheWay(w, n)' = OnTheWay(w, n) BY <2>2 DEF OnTheWay
  <2>5. PathInv' BY <2>1, <2>2, <2>3 DEF DrawingInv, PathInv
  <2>6. CurrentInv' BY <2>1, <2>2, <2>3 DEF DrawingInv, CurrentInv
  <2>. QED BY <2>1, <2>2, <2>4, <2>5, <2>6 DEF DrawingInv, SeedInv
<1>4. Inv /\ Drawing!Next => Inv'
  <2>1. SUFFICES ASSUME Inv, Drawing!Next PROVE Inv' OBVIOUS
  <2>2. DrawingInv' BY <2>1, DrawingStep
  <2>3. definition' = definition
    BY <2>1 DEF Drawing!Next, Drawing!RunStep, Drawing!DetectCycle
  <2>4. ASSUME definition \in Drawing!Seeds PROVE SeedInv'
    <3>1. PICK w, n : OnTheWay(w, n) BY <2>1, <2>4 DEF SeedInv
    <3>2. OnTheWay(w, n)' BY <2>1, <3>1, WayStep
    <3>. QED BY <3>2 DEF SeedInv
  <2>. QED BY <2>2, <2>3, <2>4 DEF SeedInv
<1>5. Inv /\ [Next]_vars => Inv' BY <1>2, <1>3, <1>4
<1>6. Inv => RunsFollowTheDrawing
  <2>1. SUFFICES ASSUME Inv PROVE Drawing!RunsFollowTheDrawing
    BY DEF RunsFollowTheDrawing
  <2>2. \A n \in 1..(Len(ran) - 1) :
          \E e \in Drawing!Edges : e[1] = ran[n] /\ e[2] = ran[n + 1] /\ e[3] # "onFailure"
    BY <2>1 DEF DrawingInv, PathInv, Line
  <2>3. current = None /\ ~cycle =>
          \A e \in Drawing!Edges :
            e[1] = ran[Len(ran)] => e[3] \notin {"onSuccess", "next", branch}
    BY <2>1 DEF DrawingInv, CurrentInv, EndsHere
  <2>. QED BY <2>1, <2>2, <2>3, WayIsSafe DEF Drawing!RunsFollowTheDrawing
<1>. QED BY <1>1, <1>5, <1>6, PTL DEF Spec

---------------------------------------------------------------------------
(***************************************************************************)
(* The templates.  A text is put together from pieces (FlattenSeq), and    *)
(* what that gives is shown along its length: a set of numbers that has 0, *)
(* and with a number the next one, has them all, since < is well-founded   *)
(* on the naturals.                                                        *)
(***************************************************************************)

Before == {ss \in Nat \X Nat : ss[1] < ss[2]}
\* A set of numbers that has 0, and with a number the next, has them all.
LEMMA NatByStep ==
  ASSUME NEW M, 0 \in M, \A n \in Nat : n \in M => n + 1 \in M
  PROVE  \A n \in Nat : n \in M
<1>. DEFINE T == Nat \ M
<1>. SUFFICES ASSUME T # {} PROVE FALSE OBVIOUS
<1>1. T \subseteq Nat OBVIOUS
<1>0. IsWellFoundedOn(Before, Nat) BY NatLessThanWellFounded DEF OpToRel, Before
<1>2. PICK x \in T : \A y \in T : ~(<<y, x>> \in Before)
  <2>. HIDE DEF T
  <2>. QED BY <1>0, <1>1, WFMin
<1>3. x # 0 /\ x \in Nat /\ x - 1 \in Nat /\ x - 1 < x OBVIOUS
<1>4. x - 1 \notin T
  <2>. HIDE DEF T
  <2>1. x - 1 \in T => <<x - 1, x>> \notin Before BY <1>2
  <2>2. <<x - 1, x>> \in Before BY <1>3 DEF Before
  <2>. QED BY <2>1, <2>2
<1>. QED BY <1>3, <1>4

LEMMA FlattenEmpty == ASSUME NEW q, Len(q) = 0 PROVE Resolver!FlattenSeq(q) = q
BY DEF Resolver!FlattenSeq

\* The function that Resolver!FlattenSeq defines, on the first n of the sequences.
Unfolds(g, q, n) ==
  /\ g = [i \in 1..n |-> g[i]]
  /\ n > 0 => g[1] = q[1]
  /\ \A i \in 1..n - 1 : g[i + 1] = g[i] \o q[i + 1]

LEMMA UnfoldsNext ==
  ASSUME NEW q, NEW n \in Nat, NEW g, Unfolds(g, q, n)
  PROVE  \E h : Unfolds(h, q, n + 1)
<1>. DEFINE h == [i \in 1..n + 1 |-> IF n = 0 THEN q[i]
                                     ELSE IF i = n + 1 THEN g[n] \o q[i] ELSE g[i]]
<1>1. h = [i \in 1..n + 1 |-> h[i]] OBVIOUS
<1>2. CASE n = 0
  <2>1. h[1] = q[1] BY <1>2
  <2>. HIDE DEF h
  <2>. QED BY <1>1, <1>2, <2>1 DEF Unfolds
<1>3. CASE n # 0
  <2>1. ASSUME NEW i \in 1..n PROVE h[i] = g[i] /\ i \in 1..n + 1 BY <1>3
  <2>2. h[n + 1] = g[n] \o q[n + 1]
    <3>1. n + 1 \in 1..n + 1 OBVIOUS
    <3>. QED BY <1>3, <3>1
  <2>. HIDE DEF h
  <2>3. h[1] = q[1] BY <1>3, <2>1 DEF Unfolds
  <2>4. ASSUME NEW i \in 1..n PROVE h[i + 1] = h[i] \o q[i + 1]
    <3>1. CASE i = n BY <2>1, <2>2, <3>1
    <3>2. CASE i # n
      <4>1. i \in 1..n - 1 /\ i + 1 \in 1..n BY <3>2
      <4>2. g[i + 1] = g[i] \o q[i + 1] BY <4>1 DEF Unfolds
      <4>. QED BY <2>1, <4>1, <4>2
    <3>. QED BY <3>1, <3>2
  <2>5. (n + 1) - 1 = n OBVIOUS
  <2>6. Unfolds(h, q, n + 1) BY <1>1, <2>3, <2>4, <2>5 DEF Unfolds
  <2>. QED BY <2>6
<1>. QED BY <1>2, <1>3

\* The function that FlattenSeq chooses is there, and unfolds.
LEMMA FlattenIs ==
  ASSUME NEW q, Len(q) \in Nat, Len(q) # 0
  PROVE \E g : Unfolds(g, q, Len(q)) /\ Resolver!FlattenSeq(q) = g[Len(q)]
<1>. DEFINE f == CHOOSE g : g = [i \in 1..Len(q) |-> IF i = 1 THEN q[i] ELSE g[i - 1] \o q[i]]
            M == {n \in Nat : \E g : Unfolds(g, q, n)}
<1>1. Resolver!FlattenSeq(q) = f[Len(q)] BY DEF Resolver!FlattenSeq
<1>2. 0 \in M
  <2>1. Unfolds([i \in 1..0 |-> 0], q, 0) BY DEF Unfolds
  <2>. QED BY <2>1
<1>3. \A n \in Nat : n \in M => n + 1 \in M BY UnfoldsNext
<1>4. \A n \in Nat : n \in M
  <2>. HIDE DEF M
  <2>. QED BY <1>2, <1>3, NatByStep
<1>5. PICK g : Unfolds(g, q, Len(q)) BY <1>4
<1>6. g = [i \in 1..Len(q) |-> IF i = 1 THEN q[i] ELSE g[i - 1] \o q[i]]
  <2>. DEFINE e == [i \in 1..Len(q) |-> IF i = 1 THEN q[i] ELSE g[i - 1] \o q[i]]
  <2>1. ASSUME NEW i \in 1..Len(q) PROVE g[i] = e[i]
    <3>1. CASE i = 1 BY <1>5, <3>1 DEF Unfolds
    <3>2. CASE i # 1
      <4>1. i - 1 \in 1..Len(q) - 1 /\ (i - 1) + 1 = i BY <3>2
      <4>2. g[(i - 1) + 1] = g[i - 1] \o q[(i - 1) + 1] BY <1>5, <4>1 DEF Unfolds
      <4>. QED BY <3>2, <4>1, <4>2
    <3>. QED BY <3>1, <3>2
  <2>2. g = [i \in 1..Len(q) |-> g[i]] BY <1>5 DEF Unfolds
  <2>. QED BY <2>1, <2>2
<1>7. f = [i \in 1..Len(q) |-> IF i = 1 THEN q[i] ELSE f[i - 1] \o q[i]]
  BY <1>6
<1>8. Unfolds(f, q, Len(q))
  <2>. HIDE DEF f
  <2>1. f = [i \in 1..Len(q) |-> f[i]] BY <1>7
  <2>2. f[1] = q[1] BY <1>7
  <2>3. ASSUME NEW i \in 1..Len(q) - 1 PROVE f[i + 1] = f[i] \o q[i + 1]
    <3>1. i + 1 \in 1..Len(q) /\ i + 1 # 1 /\ (i + 1) - 1 = i OBVIOUS
    <3>2. f[i + 1] = IF i + 1 = 1 THEN q[i + 1] ELSE f[(i + 1) - 1] \o q[i + 1] BY <1>7, <3>1
    <3>. QED BY <3>1, <3>2
  <2>. QED BY <2>1, <2>2, <2>3 DEF Unfolds
<1>. QED BY <1>1, <1>8

Upto(q, n) == [i \in 1..n |-> q[i]]

\* The last sequence is what is put on last.
LEMMA FlattenNext ==
  ASSUME NEW S, NEW q \in Seq(Seq(S)), NEW n \in Nat, Len(q) = n + 1
  PROVE  Resolver!FlattenSeq(q) = Resolver!FlattenSeq(Upto(q, n)) \o q[n + 1]
<1>1. PICK g : Unfolds(g, q, n + 1) /\ Resolver!FlattenSeq(q) = g[n + 1] BY FlattenIs
<1>2. Upto(q, n) \in Seq(Seq(S)) /\ Len(Upto(q, n)) = n BY DEF Upto
<1>3. q[n + 1] \in Seq(S) OBVIOUS
<1>4. CASE n = 0
  <2>1. Upto(q, n) = <<>> BY <1>2, <1>4
  <2>2. Resolver!FlattenSeq(Upto(q, n)) = <<>> BY <2>1, FlattenEmpty
  <2>3. g[n + 1] = q[n + 1] BY <1>1, <1>4 DEF Unfolds
  <2>. QED BY <1>1, <1>3, <2>2, <2>3
<1>5. CASE n # 0
  <2>. DEFINE p == Upto(q, n)
  <2>0. Len(p) = n /\ \A i \in 1..n : p[i] = q[i] BY <1>2 DEF Upto
  <2>. HIDE DEF p
  <2>1. PICK h : Unfolds(h, p, n) /\ Resolver!FlattenSeq(p) = h[n]
    BY <2>0, <1>5, FlattenIs
  <2>2. \A i \in 1..n : h[i] = g[i]
    <3>. DEFINE M == {k \in Nat : k \in 1..n => h[k] = g[k]}
    <3>1. 0 \in M OBVIOUS
    <3>2. ASSUME NEW k \in Nat, k \in M PROVE k + 1 \in M
      <4>. SUFFICES ASSUME k + 1 \in 1..n PROVE h[k + 1] = g[k + 1] OBVIOUS
      <4>1. p[k + 1] = q[k + 1] BY <2>0
      <4>2. CASE k = 0
        <5>1. h[1] = p[1] /\ g[1] = q[1] BY <1>1, <1>5, <2>1 DEF Unfolds
        <5>. QED BY <4>1, <4>2, <5>1
      <4>3. CASE k # 0
        <5>1. k \in 1..n - 1 /\ k \in 1..(n + 1) - 1 /\ h[k] = g[k] BY <3>2, <4>3
        <5>2. h[k + 1] = h[k] \o p[k + 1] BY <2>1, <5>1 DEF Unfolds
        <5>3. g[k + 1] = g[k] \o q[k + 1] BY <1>1, <5>1 DEF Unfolds
        <5>. QED BY <4>1, <5>1, <5>2, <5>3
      <4>. QED BY <4>2, <4>3
    <3>3. \A k \in Nat : k \in M
      <4>. HIDE DEF M
      <4>. QED BY <3>1, <3>2, NatByStep
    <3>. QED BY <3>3
  <2>3. g[n + 1] = g[n] \o q[n + 1]
    <3>1. n \in 1..(n + 1) - 1 BY <1>5
    <3>. QED BY <1>1, <3>1 DEF Unfolds
  <2>4. h[n] = g[n] BY <1>5, <2>2
  <2>. QED BY <1>1, <2>1, <2>3, <2>4 DEF p
<1>. QED BY <1>4, <1>5

LEMMA UptoIsSeq ==
  ASSUME NEW S, NEW s \in Seq(S), NEW n \in Nat, Len(s) = n + 1
  PROVE  /\ Upto(s, n) \in Seq(S) /\ Len(Upto(s, n)) = n /\ DOMAIN Upto(s, n) = 1..n
         /\ \A i \in 1..n : Upto(s, n)[i] = s[i]
         /\ s[n + 1] \in S
BY DEF Upto

\* Sequences of the same pieces make one of them.
LEMMA FlattenType ==
  ASSUME NEW S PROVE \A q \in Seq(Seq(S)) : Resolver!FlattenSeq(q) \in Seq(S)
<1>. DEFINE M == {n \in Nat : \A q \in Seq(Seq(S)) :
                    Len(q) = n => Resolver!FlattenSeq(q) \in Seq(S)}
<1>1. 0 \in M
  <2>1. ASSUME NEW q \in Seq(Seq(S)), Len(q) = 0 PROVE Resolver!FlattenSeq(q) \in Seq(S)
    <3>1. Resolver!FlattenSeq(q) = q /\ q = <<>> BY <2>1, FlattenEmpty
    <3>. QED BY <3>1
  <2>. QED BY <2>1
<1>2. ASSUME NEW n \in Nat, n \in M PROVE n + 1 \in M
  <2>. SUFFICES ASSUME NEW q \in Seq(Seq(S)), Len(q) = n + 1 PROVE Resolver!FlattenSeq(q) \in Seq(S)
    OBVIOUS
  <2>1. Resolver!FlattenSeq(Upto(q, n)) \in Seq(S) BY <1>2, UptoIsSeq
  <2>2. q[n + 1] \in Seq(S) BY UptoIsSeq
  <2>3. Resolver!FlattenSeq(q) = Resolver!FlattenSeq(Upto(q, n)) \o q[n + 1] BY FlattenNext
  <2>. QED BY <2>1, <2>2, <2>3
<1>3. \A n \in Nat : n \in M
  <2>. HIDE DEF M
  <2>. QED BY <1>1, <1>2, NatByStep
<1>. QED BY <1>3

\* What a flattened sequence consists of.
Has(s, x) == \E j \in DOMAIN s : s[j] = x

LEMMA FlattenHas ==
  ASSUME NEW S, NEW x
  PROVE  \A q \in Seq(Seq(S)) : Has(Resolver!FlattenSeq(q), x) <=> \E i \in DOMAIN q : Has(q[i], x)
<1>. DEFINE Holds(q) == Has(Resolver!FlattenSeq(q), x) <=> \E i \in DOMAIN q : Has(q[i], x)
            M == {n \in Nat : \A q \in Seq(Seq(S)) : Len(q) = n => Holds(q)}
<1>1. 0 \in M
  <2>1. ASSUME NEW q \in Seq(Seq(S)), Len(q) = 0 PROVE Holds(q)
    <3>1. Resolver!FlattenSeq(q) = q /\ q = <<>> BY <2>1, FlattenEmpty
    <3>2. DOMAIN q = {} BY <3>1
    <3>. QED BY <3>1, <3>2 DEF Has
  <2>. HIDE DEF Holds
  <2>. QED BY <2>1
<1>2. ASSUME NEW n \in Nat, n \in M PROVE n + 1 \in M
  <2>. SUFFICES ASSUME NEW q \in Seq(Seq(S)), Len(q) = n + 1 PROVE Holds(q)
    <3>. HIDE DEF Holds
    <3>. QED OBVIOUS
  <2>. DEFINE p == Upto(q, n)
              f == Resolver!FlattenSeq(p)
  <2>1. /\ p \in Seq(Seq(S)) /\ Len(p) = n /\ DOMAIN p = 1..n
        /\ \A i \in 1..n : p[i] = q[i]
        /\ q[n + 1] \in Seq(S) /\ DOMAIN q = 1..n + 1
    BY UptoIsSeq
  <2>2. Holds(p) BY <1>2, <2>1
  <2>3. f \in Seq(S) BY <2>1, FlattenType
  <2>4. Resolver!FlattenSeq(q) = f \o q[n + 1] BY FlattenNext
  <2>. HIDE DEF p, f
  <2>5. Has(f \o q[n + 1], x) <=> Has(f, x) \/ Has(q[n + 1], x)
    <3>1. ASSUME NEW j \in DOMAIN (f \o q[n + 1]), (f \o q[n + 1])[j] = x
          PROVE  (\E k \in DOMAIN f : f[k] = x) \/ \E k \in DOMAIN q[n + 1] : q[n + 1][k] = x
      <4>1. CASE j <= Len(f) BY <2>1, <2>3, <3>1, <4>1
      <4>2. CASE j > Len(f)
        <5>1. j - Len(f) \in DOMAIN q[n + 1] BY <2>1, <2>3, <3>1, <4>2
        <5>2. q[n + 1][j - Len(f)] = x BY <2>1, <2>3, <3>1, <4>2
        <5>. QED BY <5>1, <5>2
      <4>. QED BY <2>1, <2>3, <4>1, <4>2
    <3>2. ASSUME NEW k \in DOMAIN f, f[k] = x
          PROVE  k \in DOMAIN (f \o q[n + 1]) /\ (f \o q[n + 1])[k] = x
      BY <2>1, <2>3, <3>2
    <3>3. ASSUME NEW k \in DOMAIN q[n + 1], q[n + 1][k] = x
          PROVE  k + Len(f) \in DOMAIN (f \o q[n + 1]) /\ (f \o q[n + 1])[k + Len(f)] = x
      BY <2>1, <2>3, <3>3
    <3>. QED BY <3>1, <3>2, <3>3 DEF Has
  <2>6. (\E i \in DOMAIN q : Has(q[i], x))
          <=> (\E i \in DOMAIN p : Has(p[i], x)) \/ Has(q[n + 1], x)
    <3>1. \A i \in DOMAIN q : i = n + 1 \/ i \in DOMAIN p BY <2>1
    <3>2. n + 1 \in DOMAIN q /\ DOMAIN p \subseteq DOMAIN q BY <2>1
    <3>. QED BY <2>1, <3>1, <3>2
  <2>7. Has(f, x) <=> \E i \in DOMAIN p : Has(p[i], x)
    BY <2>2 DEF f
  <2>. QED BY <2>4, <2>5, <2>6, <2>7
<1>3. \A n \in Nat : n \in M
  <2>. HIDE DEF M
  <2>. QED BY <1>1, <1>2, NatByStep
<1>. QED BY <1>3

\* The text that is put together from the given pieces.
InPlaceOf(x, t, v) == IF x = t THEN v ELSE <<x>>
Put(s, t, v) == [i \in DOMAIN s |-> InPlaceOf(s[i], t, v)]

LEMMA PutIsSeq ==
  ASSUME NEW P, NEW s \in Seq(P), NEW t, NEW v \in Seq(P)
  PROVE  /\ Put(s, t, v) \in Seq(Seq(P)) /\ Len(Put(s, t, v)) = Len(s)
         /\ DOMAIN Put(s, t, v) = DOMAIN s
         /\ \A i \in DOMAIN s : Put(s, t, v)[i] = InPlaceOf(s[i], t, v)
         /\ Resolver!ReplaceText(s, t, v) \in Seq(P)
<1>1. Put(s, t, v) \in Seq(Seq(P)) /\ Len(Put(s, t, v)) = Len(s)
  <2>1. DOMAIN s = 1..Len(s) /\ Len(s) \in Nat /\ \A i \in DOMAIN s : s[i] \in P OBVIOUS
  <2>2. \A i \in DOMAIN s : InPlaceOf(s[i], t, v) \in Seq(P) BY <2>1 DEF InPlaceOf
  <2>. QED BY <2>1, <2>2 DEF Put
<1>2. Resolver!ReplaceText(s, t, v) = Resolver!FlattenSeq(Put(s, t, v))
  BY DEF Put, Resolver!ReplaceText, InPlaceOf
<1>3. Resolver!ReplaceText(s, t, v) \in Seq(P) BY <1>1, <1>2, FlattenType
<1>. QED BY <1>1, <1>3 DEF Put

\* A text is replaced piece by piece.
LEMMA ReplaceNext ==
  ASSUME NEW P, NEW s \in Seq(P), NEW t, NEW v \in Seq(P), NEW n \in Nat, Len(s) = n + 1
  PROVE  Resolver!ReplaceText(s, t, v)
           = Resolver!ReplaceText(Upto(s, n), t, v) \o InPlaceOf(s[n + 1], t, v)
<1>. DEFINE q == Put(s, t, v)
<1>1. q \in Seq(Seq(P)) /\ Len(q) = n + 1 BY PutIsSeq
<1>2. Resolver!FlattenSeq(q) = Resolver!FlattenSeq(Upto(q, n)) \o q[n + 1]
  <2>. HIDE DEF q
  <2>. QED BY <1>1, FlattenNext
<1>3. Upto(q, n) = Put(Upto(s, n), t, v) BY DEF Upto, Put
<1>4. q[n + 1] = InPlaceOf(s[n + 1], t, v) BY DEF Put
<1>5. Resolver!FlattenSeq(q) = Resolver!ReplaceText(s, t, v)
  BY DEF Put, Resolver!ReplaceText, InPlaceOf
<1>6. Resolver!FlattenSeq(Put(Upto(s, n), t, v)) = Resolver!ReplaceText(Upto(s, n), t, v)
  BY DEF Put, Resolver!ReplaceText, InPlaceOf
<1>. HIDE DEF q
<1>. QED BY <1>2, <1>3, <1>4, <1>5, <1>6

LEMMA ReplaceEmpty ==
  ASSUME NEW s, NEW t, NEW v, DOMAIN s = {} PROVE Resolver!ReplaceText(s, t, v) = <<>>
<1>1. Put(s, t, v) = <<>> BY DEF Put
<1>2. Resolver!FlattenSeq(<<>>) = <<>> BY FlattenEmpty
<1>. QED BY <1>1, <1>2 DEF Resolver!ReplaceText, Put, InPlaceOf

LEMMA UptoConcat ==
  ASSUME NEW P, NEW a \in Seq(P), NEW b \in Seq(P), NEW n \in Nat, NEW m \in Nat,
         Len(b) = n + 1, m = Len(a) + n
  PROVE  /\ a \o b \in Seq(P) /\ Len(a \o b) = m + 1 /\ (a \o b)[m + 1] = b[n + 1]
         /\ Upto(a \o b, m) = a \o Upto(b, n)
<1>1. a \o b \in Seq(P) /\ Len(a \o b) = m + 1 OBVIOUS
<1>2. (a \o b)[m + 1] = b[n + 1]
  <2>1. m + 1 \in 1..Len(a) + Len(b) /\ ~(m + 1 <= Len(a)) /\ (m + 1) - Len(a) = n + 1 OBVIOUS
  <2>. QED BY <2>1, ConcatProperties
<1>3. PICK c : c = Upto(b, n) OBVIOUS
<1>4. c \in Seq(P) /\ Len(c) = n /\ \A i \in 1..n : c[i] = b[i] BY <1>3, UptoIsSeq
<1>5. a \o c \in Seq(P) /\ Len(a \o c) = m BY <1>4
<1>6. PICK d : d = Upto(a \o b, m) OBVIOUS
<1>7. d \in Seq(P) /\ Len(d) = m /\ \A i \in 1..m : d[i] = (a \o b)[i]
  BY <1>1, <1>6, UptoIsSeq
<1>8. ASSUME NEW i \in 1..m PROVE (a \o b)[i] = (a \o c)[i]
  <2>1. CASE i <= Len(a)
    <3>1. (a \o b)[i] = a[i] BY <2>1
    <3>2. (a \o c)[i] = a[i] BY <1>4, <2>1
    <3>. QED BY <3>1, <3>2
  <2>2. CASE i > Len(a)
    <3>1. i - Len(a) \in 1..n BY <2>2
    <3>2. (a \o b)[i] = b[i - Len(a)] BY <2>2
    <3>3. (a \o c)[i] = c[i - Len(a)] BY <1>4, <2>2
    <3>4. c[i - Len(a)] = b[i - Len(a)] BY <1>4, <3>1
    <3>. QED BY <3>2, <3>3, <3>4
  <2>3. i <= Len(a) \/ i > Len(a) OBVIOUS
  <2>. QED BY <2>1, <2>2, <2>3, Zenon
<1>9. d = a \o c
  <2>1. Len(d) = Len(a \o c) /\ \A i \in 1..Len(d) : d[i] = (a \o c)[i] BY <1>5, <1>7, <1>8
  <2>. QED BY <1>5, <1>7, <2>1, SeqEqual
<1>. QED BY <1>1, <1>2, <1>3, <1>6, <1>9

\* Which of three texts are put together first does not matter.
Join(x, y) == x \o y

LEMMA Regroup ==
  ASSUME NEW P, NEW x \in Seq(P), NEW y \in Seq(P), NEW z \in Seq(P)
  PROVE  Join(Join(x, y), z) = Join(x, Join(y, z))
BY ConcatAssociative DEF Join

\* To replace in two texts put together is to replace in each.
LEMMA ReplaceConcat ==
  ASSUME NEW P, NEW a \in Seq(P), NEW t, NEW v \in Seq(P)
  PROVE  \A b \in Seq(P) :
           Resolver!ReplaceText(a \o b, t, v)
             = Resolver!ReplaceText(a, t, v) \o Resolver!ReplaceText(b, t, v)
<1>. DEFINE R(s) == Resolver!ReplaceText(s, t, v)
            M == {n \in Nat : \A b \in Seq(P) : Len(b) = n => R(a \o b) = R(a) \o R(b)}
<1>0. \A s \in Seq(P) : R(s) \in Seq(P) BY PutIsSeq
<1>5. \A s \in Seq(P), n \in Nat :
        Len(s) = n + 1 => R(s) = R(Upto(s, n)) \o InPlaceOf(s[n + 1], t, v)
  BY ReplaceNext
<1>6. \A c, w \in Seq(P) : (R(a) \o R(c)) \o w = R(a) \o (R(c) \o w)
  <2>. HIDE DEF R, M
  <2>. SUFFICES ASSUME NEW c \in Seq(P), NEW w \in Seq(P)
                PROVE  (R(a) \o R(c)) \o w = R(a) \o (R(c) \o w)
    OBVIOUS
  <2>1. R(a) \in Seq(P) /\ R(c) \in Seq(P) BY <1>0
  <2>2. Join(Join(R(a), R(c)), w) = Join(R(a), Join(R(c), w)) BY <2>1, Regroup
  <2>. QED BY <2>2, Zenon DEF Join
<1>1. 0 \in M
  <2>. SUFFICES ASSUME NEW b \in Seq(P), Len(b) = 0 PROVE R(a \o b) = R(a) \o R(b)
    <3>. HIDE DEF R
    <3>. QED OBVIOUS
  <2>1. b = <<>> /\ a \o b = a OBVIOUS
  <2>2. R(b) = <<>> BY <2>1, ReplaceEmpty
  <2>. HIDE DEF R
  <2>. QED BY <1>0, <2>1, <2>2
<1>2. ASSUME NEW n \in Nat, n \in M PROVE n + 1 \in M
  <2>. SUFFICES ASSUME NEW b \in Seq(P), Len(b) = n + 1 PROVE R(a \o b) = R(a) \o R(b)
    <3>. HIDE DEF R
    <3>. QED OBVIOUS
  <2>. DEFINE c == Upto(b, n)
              w == InPlaceOf(b[n + 1], t, v)
  <2>1. c \in Seq(P) /\ Len(c) = n /\ w \in Seq(P)
    <3>1. c \in Seq(P) /\ Len(c) = n /\ b[n + 1] \in P BY UptoIsSeq
    <3>. QED BY <3>1 DEF InPlaceOf
  <2>2. R(b) = R(c) \o w
    <3>. HIDE DEF R
    <3>. QED BY <1>5
  <2>3. R(a \o b) = R(a \o c) \o w
    <3>1. PICK m \in Nat : m = Len(a) + n OBVIOUS
    <3>2. /\ a \o b \in Seq(P) /\ Len(a \o b) = m + 1 /\ (a \o b)[m + 1] = b[n + 1]
          /\ Upto(a \o b, m) = a \o c
      BY <3>1, UptoConcat, SMTT(20)
    <3>. HIDE DEF R
    <3>3. R(a \o b) = R(Upto(a \o b, m)) \o InPlaceOf((a \o b)[m + 1], t, v) BY <1>5, <3>2
    <3>. HIDE DEF c
    <3>. QED BY <3>2, <3>3
  <2>4. R(a \o c) = R(a) \o R(c)
    <3>. HIDE DEF R, c
    <3>. QED BY <1>2, <2>1
  <2>5. R(a) \in Seq(P) /\ R(c) \in Seq(P)
    <3>. HIDE DEF R, c
    <3>. QED BY <1>0, <2>1
  <2>. HIDE DEF R, c, w
  <2>6. (R(a) \o R(c)) \o w = R(a) \o (R(c) \o w) BY <1>6, <2>1, Zenon
  <2>. QED BY <2>2, <2>3, <2>4, <2>6
<1>3. \A n \in Nat : n \in M
  <2>. HIDE DEF M
  <2>. QED BY <1>1, <1>2, NatByStep
<1>. HIDE DEF R
<1>4. \A b \in Seq(P) : R(a \o b) = R(a) \o R(b) BY <1>3
<1>. QED BY <1>4 DEF R

\* A text that does not occur is not replaced.
LEMMA ReplaceNothing ==
  ASSUME NEW P, NEW t, NEW v \in Seq(P)
  PROVE  \A s \in Seq(P) : (\A i \in DOMAIN s : s[i] # t) => Resolver!ReplaceText(s, t, v) = s
<1>. DEFINE R(s) == Resolver!ReplaceText(s, t, v)
            M == {n \in Nat : \A s \in Seq(P) :
                    Len(s) = n /\ (\A i \in DOMAIN s : s[i] # t) => R(s) = s}
<1>5. \A s \in Seq(P), n \in Nat :
        Len(s) = n + 1 => R(s) = R(Upto(s, n)) \o InPlaceOf(s[n + 1], t, v)
  BY ReplaceNext
<1>1. 0 \in M
  <2>. SUFFICES ASSUME NEW s \in Seq(P), Len(s) = 0 PROVE R(s) = s
    <3>. HIDE DEF R
    <3>. QED OBVIOUS
  <2>. QED BY ReplaceEmpty
<1>2. ASSUME NEW n \in Nat, n \in M PROVE n + 1 \in M
  <2>. SUFFICES ASSUME NEW s \in Seq(P), Len(s) = n + 1, \A i \in DOMAIN s : s[i] # t
                PROVE  R(s) = s
    <3>. HIDE DEF R
    <3>. QED OBVIOUS
  <2>. DEFINE c == Upto(s, n)
  <2>. HIDE DEF R
  <2>1. /\ c \in Seq(P) /\ Len(c) = n /\ DOMAIN c = 1..n /\ \A i \in 1..n : c[i] = s[i]
        /\ s[n + 1] \in P
    BY UptoIsSeq
  <2>2. R(s) = R(c) \o InPlaceOf(s[n + 1], t, v) BY <1>5
  <2>. HIDE DEF c
  <2>3. DOMAIN s = 1..n + 1 /\ n + 1 \in DOMAIN s OBVIOUS
  <2>4. InPlaceOf(s[n + 1], t, v) = <<s[n + 1]>> BY <2>3 DEF InPlaceOf
  <2>5. R(c) = c BY <1>2, <2>1, <2>3
  <2>6. c \o <<s[n + 1]>> = s
    <3>1. PICK d : d = c \o <<s[n + 1]>> OBVIOUS
    <3>2. d \in Seq(P) /\ Len(d) = n + 1 BY <2>1, <3>1
    <3>3. ASSUME NEW i \in 1..n + 1 PROVE d[i] = s[i]
      <4>1. CASE i = n + 1 BY <2>1, <3>1, <4>1
      <4>2. CASE i \in 1..n BY <2>1, <3>1, <4>2
      <4>3. i = n + 1 \/ i \in 1..n OBVIOUS
      <4>. QED BY <4>1, <4>2, <4>3, Zenon
    <3>. QED BY <3>1, <3>2, <3>3, SeqEqual
  <2>. QED BY <2>2, <2>4, <2>5, <2>6
<1>3. \A n \in Nat : n \in M
  <2>. HIDE DEF M
  <2>. QED BY <1>1, <1>2, NatByStep
<1>. HIDE DEF R
<1>4. \A s \in Seq(P) : (\A i \in DOMAIN s : s[i] # t) => R(s) = s BY <1>3
<1>. QED BY <1>4 DEF R

\* To replace in a text is to replace in each of its parts.
LEMMA ReplaceFlatten ==
  ASSUME NEW P, NEW t, NEW v \in Seq(P)
  PROVE  \A q \in Seq(Seq(P)) :
           Resolver!ReplaceText(Resolver!FlattenSeq(q), t, v)
             = Resolver!FlattenSeq([i \in DOMAIN q |-> Resolver!ReplaceText(q[i], t, v)])
<1>. DEFINE R(s) == Resolver!ReplaceText(s, t, v)
            Each(q) == [i \in DOMAIN q |-> R(q[i])]
            M == {n \in Nat : \A q \in Seq(Seq(P)) :
                    Len(q) = n => R(Resolver!FlattenSeq(q)) = Resolver!FlattenSeq(Each(q))}
<1>0. \A s \in Seq(P) : R(s) \in Seq(P) BY PutIsSeq
<1>5. \A x, y \in Seq(P) : R(x \o y) = R(x) \o R(y) BY ReplaceConcat
<1>1. 0 \in M
  <2>. SUFFICES ASSUME NEW q \in Seq(Seq(P)), Len(q) = 0
                PROVE  R(Resolver!FlattenSeq(q)) = Resolver!FlattenSeq(Each(q))
    <3>. HIDE DEF R, Each
    <3>. QED OBVIOUS
  <2>1. q = <<>> /\ DOMAIN q = {} OBVIOUS
  <2>2. Resolver!FlattenSeq(q) = <<>> BY <2>1, FlattenEmpty
  <2>3. R(<<>>) = <<>> BY ReplaceEmpty
  <2>4. Each(q) = <<>> BY <2>1
  <2>5. Resolver!FlattenSeq(Each(q)) = <<>>
    <3>. HIDE DEF Each
    <3>. QED BY <2>4, FlattenEmpty
  <2>. HIDE DEF R, Each
  <2>. QED BY <2>2, <2>3, <2>5
<1>2. ASSUME NEW n \in Nat, n \in M PROVE n + 1 \in M
  <2>. SUFFICES ASSUME NEW q \in Seq(Seq(P)), Len(q) = n + 1
                PROVE  R(Resolver!FlattenSeq(q)) = Resolver!FlattenSeq(Each(q))
    <3>. HIDE DEF R, Each
    <3>. QED OBVIOUS
  <2>. HIDE DEF R
  <2>. DEFINE p == Upto(q, n)
  <2>1. /\ p \in Seq(Seq(P)) /\ Len(p) = n /\ DOMAIN p = 1..n /\ \A i \in 1..n : p[i] = q[i]
        /\ q[n + 1] \in Seq(P) /\ DOMAIN q = 1..n + 1
    BY UptoIsSeq
  <2>2. Resolver!FlattenSeq(q) = Resolver!FlattenSeq(p) \o q[n + 1] BY FlattenNext
  <2>3. R(Resolver!FlattenSeq(p)) = Resolver!FlattenSeq(Each(p))
    <3>. HIDE DEF Each, p
    <3>. QED BY <1>2, <2>1
  <2>4. /\ Each(q) \in Seq(Seq(P)) /\ Len(Each(q)) = n + 1
        /\ Each(q)[n + 1] = R(q[n + 1])
    <3>1. \A i \in DOMAIN q : R(q[i]) \in Seq(P) BY <1>0
    <3>2. DOMAIN q = 1..Len(q) /\ Len(q) \in Nat /\ n + 1 \in DOMAIN q BY <2>1
    <3>3. Each(q)[n + 1] = R(q[n + 1]) BY <3>2
    <3>4. Each(q) \in [1..Len(q) -> Seq(P)] BY <3>1, <3>2
    <3>5. Each(q) \in Seq(Seq(P)) /\ Len(Each(q)) = Len(q)
      <4>. HIDE DEF Each
      <4>. QED BY <3>2, <3>4
    <3>. QED BY <3>3, <3>5
  <2>5. Upto(Each(q), n) = Each(p)
    <3>. HIDE DEF p
    <3>1. \A i \in 1..n : Each(q)[i] = R(p[i]) BY <2>1
    <3>. QED BY <2>1, <3>1 DEF Upto
  <2>6. Resolver!FlattenSeq(Each(q)) = Resolver!FlattenSeq(Upto(Each(q), n)) \o Each(q)[n + 1]
    <3>. HIDE DEF Each
    <3>. QED BY <2>4, FlattenNext
  <2>7. R(Resolver!FlattenSeq(p) \o q[n + 1]) = R(Resolver!FlattenSeq(p)) \o R(q[n + 1])
    <3>1. Resolver!FlattenSeq(p) \in Seq(P)
      <4>. HIDE DEF p
      <4>. QED BY <2>1, FlattenType
    <3>. HIDE DEF p
    <3>. QED BY <1>5, <2>1, <3>1
  <2>. HIDE DEF Each, p
  <2>. QED BY <2>2, <2>3, <2>4, <2>5, <2>6, <2>7
<1>3. \A n \in Nat : n \in M
  <2>. HIDE DEF M
  <2>. QED BY <1>1, <1>2, NatByStep
<1>. HIDE DEF R, Each
<1>4. \A q \in Seq(Seq(P)) : R(Resolver!FlattenSeq(q)) = Resolver!FlattenSeq(Each(q)) BY <1>3
<1>. QED BY <1>4 DEF R, Each

\* A text of single pieces is put together again.
LEMMA FlattenSingletons ==
  ASSUME NEW P, NEW s \in Seq(P) PROVE Resolver!FlattenSeq([i \in DOMAIN s |-> <<s[i]>>]) = s
<1>1. PICK t : t \notin P
  <2>. DEFINE r == {x \in P : x \notin x}
  <2>1. \A x : x \in r <=> x \in P /\ x \notin x OBVIOUS
  <2>. HIDE DEF r
  <2>2. r \notin P BY <2>1, Zenon
  <2>. QED BY <2>2
<1>2. \A i \in DOMAIN s : s[i] # t BY <1>1
<1>3. Resolver!ReplaceText(s, t, <<>>) = s
  <2>1. <<>> \in Seq(P) OBVIOUS
  <2>. QED BY <1>2, <2>1, ReplaceNothing
<1>4. [i \in DOMAIN s |-> IF s[i] = t THEN <<>> ELSE <<s[i]>>] = [i \in DOMAIN s |-> <<s[i]>>]
  BY <1>2
<1>. QED BY <1>3, <1>4 DEF Resolver!ReplaceText
LEMMA FlattenOne == ASSUME NEW S, NEW a \in Seq(S) PROVE Resolver!FlattenSeq(<<a>>) = a
<1>. DEFINE q == [i \in 1..1 |-> a]
<1>1. q = <<a>> OBVIOUS
<1>2. q \in Seq(Seq(S)) /\ Len(q) = 0 + 1 /\ q[0 + 1] = a OBVIOUS
<1>. HIDE DEF q
<1>3. Resolver!FlattenSeq(q) = Resolver!FlattenSeq(Upto(q, 0)) \o q[0 + 1] BY <1>2, FlattenNext
<1>4. Upto(q, 0) = <<>> BY DEF Upto
<1>5. Resolver!FlattenSeq(<<>>) = <<>> BY FlattenEmpty
<1>6. <<>> \o a = a BY ConcatEmptySeq
<1>7. Resolver!FlattenSeq(q) = <<>> \o a BY <1>2, <1>3, <1>4, <1>5
<1>. QED BY <1>1, <1>6, <1>7

(***************************************************************************)
(* The resolver's invariant: the strings before the one at hand are        *)
(* resolved, those after it untouched, and the one at hand is its text     *)
(* with the tokens matched so far replaced.                                *)
(***************************************************************************)

TextPieces == Resolver!Tokens \cup {PlainText, Object}

\* The string with the given of its tokens replaced.
Partly(s, replaced) ==
  Resolver!FlattenSeq([i \in DOMAIN s |-> IF s[i] \in replaced THEN values[s[i]] ELSE <<s[i]>>])

\* The string at hand: the tokens matched so far can be interpolated, and have given way to
\* their values.
StringInv ==
  LET s == document[at]
      m == Resolver!Matches(s) IN
  /\ at <= Len(document)
  /\ matched \in 0..Len(m)
  /\ matched > 0 => ~Resolver!IsExact(s) /\ Len(m) <= TokenLimit
  /\ \A j \in 1..matched : m[j] \in Fields /\ Resolver!IsScalar(values[m[j]])
  /\ Resolver!ReadAgain(s) \/ output[at] = Partly(s, {m[j] : j \in 1..matched})

\* The strings before it are resolved, those after it untouched.
ResolverInv ==
  /\ document \in Seq(Seq(Resolver!Tokens \cup {PlainText})) /\ document # <<>>
  /\ values \in [Fields -> Resolver!Values]
  /\ at \in 1..Len(document) + 1
  /\ DOMAIN output = DOMAIN document
  /\ \A i \in DOMAIN document :
       i > at \/ (i = at /\ outcome = "running" /\ matched = 0) => output[i] = document[i]
  /\ \A i \in 1..at - 1 :
       /\ Resolver!CanBeResolved(document[i])
       /\ Resolver!ReadAgain(document[i]) \/ output[i] = Resolver!Meaning(document[i])
  /\ refs = Resolver!SecretsUpTo(at - 1)
  /\ outcome = "running" => StringInv
  /\ outcome = "done" => at = Len(document) + 1
  /\ outcome \notin {"done", "running"} =>
       \E i \in DOMAIN document : ~Resolver!CanBeResolved(document[i])

ResolverTypes ==
  /\ document \in Seq(Seq(Resolver!Tokens \cup {PlainText})) /\ document # <<>>
  /\ values \in [Fields -> Resolver!Values]

LEMMA StringsAreTexts ==
  ASSUME ResolverTypes, NEW i \in DOMAIN document
  PROVE  /\ document[i] \in Seq(TextPieces)
         /\ \A j \in DOMAIN document[i] : document[i][j] \in Resolver!Tokens \cup {PlainText}
<1>1. document[i] \in Seq(Resolver!Tokens \cup {PlainText}) BY DEF ResolverTypes
<1>2. Resolver!Tokens \cup {PlainText} \subseteq TextPieces BY DEF TextPieces
<1>. QED BY <1>1, <1>2, SeqMonotonic

\* A value that is interpolated is a text.
LEMMA ScalarsAreTexts ==
  ASSUME ResolverTypes, NEW f \in Fields, Resolver!IsScalar(values[f])
  PROVE  values[f] \in Seq(TextPieces)
<1>1. values[f] \in Resolver!Values \ {None} BY DEF ResolverTypes, Resolver!IsScalar
<1>2. PlainText \in TextPieces /\ Fields \subseteq TextPieces /\ Object \in TextPieces
  BY DEF TextPieces, Resolver!Tokens
<1>3. values[f] \in {<<>>, <<PlainText>>} \cup {<<PlainText, t>> : t \in Fields}
        \cup {<<Object>>}
  BY <1>1 DEF Resolver!Values
<1>4. \A t \in Fields : <<PlainText, t>> \in Seq(TextPieces) BY <1>2
<1>5. <<>> \in Seq(TextPieces) /\ <<PlainText>> \in Seq(TextPieces)
      /\ <<Object>> \in Seq(TextPieces)
  BY <1>2
<1>. QED BY <1>3, <1>4, <1>5, Zenon

\* The matches are the tokens that the string has.
LEMMA MatchesAre ==
  ASSUME NEW s \in Seq(TextPieces)
  PROVE  /\ Resolver!Matches(s) \in Seq(Resolver!Tokens)
         /\ \A x : (\E j \in DOMAIN Resolver!Matches(s) : Resolver!Matches(s)[j] = x)
                     <=> x \in Resolver!Tokens /\ \E i \in DOMAIN s : s[i] = x
<1>. DEFINE q == [i \in DOMAIN s |-> IF s[i] \in Resolver!Tokens THEN <<s[i]>> ELSE <<>>]
<1>1. Resolver!Matches(s) = Resolver!FlattenSeq(q) BY DEF Resolver!Matches
<1>2. q \in Seq(Seq(Resolver!Tokens))
  <2>1. DOMAIN s = 1..Len(s) /\ Len(s) \in Nat OBVIOUS
  <2>2. \A i \in DOMAIN s : (IF s[i] \in Resolver!Tokens THEN <<s[i]>> ELSE <<>>)
                              \in Seq(Resolver!Tokens)
    OBVIOUS
  <2>. QED BY <2>1, <2>2
<1>3. ASSUME NEW x
      PROVE  (\E i \in DOMAIN q : \E j \in DOMAIN q[i] : q[i][j] = x)
               <=> x \in Resolver!Tokens /\ \E i \in DOMAIN s : s[i] = x
  <2>1. ASSUME NEW i \in DOMAIN q, NEW j \in DOMAIN q[i], q[i][j] = x
        PROVE  x \in Resolver!Tokens /\ s[i] = x /\ i \in DOMAIN s
    BY <2>1
  <2>2. ASSUME NEW i \in DOMAIN s, s[i] = x, x \in Resolver!Tokens
        PROVE  i \in DOMAIN q /\ 1 \in DOMAIN q[i] /\ q[i][1] = x
    BY <2>2
  <2>. HIDE DEF q
  <2>. QED BY <2>1, <2>2
<1>. HIDE DEF q
<1>4. Resolver!FlattenSeq(q) \in Seq(Resolver!Tokens) BY <1>2, FlattenType
<1>5. ASSUME NEW x
      PROVE  (\E j \in DOMAIN Resolver!FlattenSeq(q) : Resolver!FlattenSeq(q)[j] = x)
               <=> \E i \in DOMAIN q : \E j \in DOMAIN q[i] : q[i][j] = x
  <2>1. Has(Resolver!FlattenSeq(q), x) <=> \E i \in DOMAIN q : Has(q[i], x)
    BY <1>2, FlattenHas
  <2>. QED BY <2>1 DEF Has
<1>. QED BY <1>1, <1>3, <1>4, <1>5

\* One turn of the loop: the next token gives way everywhere, and what the values of those
\* before it brought in stays.
LEMMA PartlyNext ==
  ASSUME NEW s \in Seq(TextPieces), NEW done \in SUBSET Fields, NEW t \in Fields,
         \A f \in done \cup {t} : values[f] \in Seq(TextPieces),
         \A f \in done : \A j \in DOMAIN values[f] : values[f][j] # t
  PROVE  Resolver!ReplaceText(Partly(s, done), t, values[t]) = Partly(s, done \cup {t})
<1>. DEFINE v == values[t]
            q == [i \in DOMAIN s |-> IF s[i] \in done THEN values[s[i]] ELSE <<s[i]>>]
            r == [i \in DOMAIN s |-> IF s[i] \in done \cup {t} THEN values[s[i]] ELSE <<s[i]>>]
<1>1. v \in Seq(TextPieces) OBVIOUS
<1>2. q \in Seq(Seq(TextPieces)) /\ DOMAIN q = DOMAIN s
  <2>1. DOMAIN s = 1..Len(s) /\ Len(s) \in Nat OBVIOUS
  <2>2. \A i \in DOMAIN s : (IF s[i] \in done THEN values[s[i]] ELSE <<s[i]>>) \in Seq(TextPieces)
    OBVIOUS
  <2>. QED BY <2>1, <2>2
<1>3. ASSUME NEW i \in DOMAIN s PROVE Resolver!ReplaceText(q[i], t, v) = r[i]
  <2>. HIDE DEF v
  <2>1. CASE s[i] \in done
    <3>1. q[i] = values[s[i]] /\ r[i] = values[s[i]] /\ q[i] \in Seq(TextPieces)
          /\ \A j \in DOMAIN q[i] : q[i][j] # t
      BY <2>1
    <3>. HIDE DEF q, r
    <3>. QED BY <1>1, <3>1, ReplaceNothing
  <2>2. CASE s[i] \notin done /\ s[i] = t
    <3>1. q[i] = <<t>> /\ r[i] = v BY <2>2 DEF v
    <3>2. Resolver!ReplaceText(<<t>>, t, v) = v
      <4>1. [j \in DOMAIN <<t>> |-> IF <<t>>[j] = t THEN v ELSE <<<<t>>[j]>>] = <<v>> OBVIOUS
      <4>2. Resolver!FlattenSeq(<<v>>) = v BY <1>1, FlattenOne
      <4>. QED BY <4>1, <4>2 DEF Resolver!ReplaceText
    <3>. QED BY <3>1, <3>2
  <2>3. CASE s[i] \notin done /\ s[i] # t
    <3>1. q[i] = <<s[i]>> /\ r[i] = <<s[i]>> BY <2>3
    <3>2. <<s[i]>> \in Seq(TextPieces) /\ \A j \in DOMAIN <<s[i]>> : <<s[i]>>[j] # t BY <2>3
    <3>3. Resolver!ReplaceText(<<s[i]>>, t, v) = <<s[i]>> BY <1>1, <3>2, ReplaceNothing
    <3>. QED BY <3>1, <3>3
  <2>. QED BY <2>1, <2>2, <2>3
<1>4. [i \in DOMAIN q |-> Resolver!ReplaceText(q[i], t, v)] = r
  <2>. HIDE DEF v
  <2>1. DOMAIN r = DOMAIN s /\ r = [i \in DOMAIN s |-> r[i]] OBVIOUS
  <2>. HIDE DEF q, r
  <2>. QED BY <1>2, <1>3, <2>1
<1>5. Resolver!ReplaceText(Resolver!FlattenSeq(q), t, v)
        = Resolver!FlattenSeq([i \in DOMAIN q |-> Resolver!ReplaceText(q[i], t, v)])
  <2>. HIDE DEF q, v
  <2>. QED BY <1>1, <1>2, ReplaceFlatten
<1>6. Partly(s, done) = Resolver!FlattenSeq(q) /\ Partly(s, done \cup {t}) = Resolver!FlattenSeq(r)
  BY DEF Partly
<1>7. v = values[t] OBVIOUS
<1>. HIDE DEF q, r, v
<1>. QED BY <1>4, <1>5, <1>6, <1>7

\* Whether a string can be resolved, and to what, is decided by the values alone.
LEMMA SameMeaning ==
  ASSUME UNCHANGED <<document, values>>
  PROVE  /\ \A i : /\ Resolver!CanBeResolved(document[i])' = Resolver!CanBeResolved(document[i])
                   /\ Resolver!ReadAgain(document[i])' = Resolver!ReadAgain(document[i])
                   /\ Resolver!Meaning(document[i])' = Resolver!Meaning(document[i])
         /\ \A n : Resolver!SecretsUpTo(n)' = Resolver!SecretsUpTo(n)
         /\ \A s, done : Partly(s, done)' = Partly(s, done)
BY DEF Resolver!CanBeResolved, Resolver!ReadAgain, Resolver!Meaning, Resolver!SecretsUpTo, Partly,
  Resolver!Resolved

\* The secret references grow with the strings.
LEMMA SecretsNext ==
  ASSUME NEW n \in Nat
  PROVE  /\ Resolver!SecretsUpTo(n) \in Seq(Nat)
         /\ Resolver!SecretsUpTo(n + 1)
              = Resolver!SecretsUpTo(n)
                  \o (IF document[n + 1] = <<SecretToken>> THEN <<n + 1>> ELSE <<>>)
<1>. DEFINE q(k) == [i \in 1..k |-> IF document[i] = <<SecretToken>> THEN <<i>> ELSE <<>>]
<1>1. ASSUME NEW k \in Nat PROVE q(k) \in Seq(Seq(Nat)) /\ Len(q(k)) = k
  <2>1. \A i \in 1..k : (IF document[i] = <<SecretToken>> THEN <<i>> ELSE <<>>) \in Seq(Nat)
    OBVIOUS
  <2>2. q(k) \in [1..k -> Seq(Nat)] BY <2>1
  <2>. HIDE DEF q
  <2>. QED BY <2>2
<1>2. q(n + 1)[n + 1] = IF document[n + 1] = <<SecretToken>> THEN <<n + 1>> ELSE <<>> OBVIOUS
<1>3. Upto(q(n + 1), n) = q(n) BY DEF Upto
<1>4. \A k : Resolver!SecretsUpTo(k) = Resolver!FlattenSeq(q(k)) BY DEF Resolver!SecretsUpTo
<1>. HIDE DEF q
<1>5. Resolver!FlattenSeq(q(n + 1)) = Resolver!FlattenSeq(Upto(q(n + 1), n)) \o q(n + 1)[n + 1]
  <2>1. PICK p : p = q(n + 1) OBVIOUS
  <2>2. p \in Seq(Seq(Nat)) /\ Len(p) = n + 1 BY <1>1, <2>1
  <2>3. Resolver!FlattenSeq(p) = Resolver!FlattenSeq(Upto(p, n)) \o p[n + 1]
    BY <2>2, FlattenNext
  <2>. QED BY <2>1, <2>3
<1>6. Resolver!FlattenSeq(q(n)) \in Seq(Nat) BY <1>1, FlattenType
<1>. QED BY <1>2, <1>3, <1>4, <1>5, <1>6

\* A string is one token, or none of the definitions that ask takes it for one.
LEMMA ExactIsToken ==
  ASSUME NEW s \in Seq(TextPieces)
  PROVE  Resolver!IsExact(s) <=> Resolver!IsToken(s)
<1>1. ASSUME Resolver!IsExact(s) PROVE Resolver!IsToken(s)
  <2>1. s = <<s[1]>> BY <1>1 DEF Resolver!IsExact
  <2>. QED BY <1>1, <2>1 DEF Resolver!IsExact, Resolver!IsToken
<1>2. ASSUME Resolver!IsToken(s) PROVE Resolver!IsExact(s)
  BY <1>2 DEF Resolver!IsExact, Resolver!IsToken
<1>. QED BY <1>1, <1>2 DEF Resolver!IsExact, Resolver!IsToken

\* With all its tokens replaced, a string says what it means.
LEMMA MeaningIs ==
  ASSUME NEW s \in Seq(TextPieces), ~Resolver!IsToken(s), NEW done \in SUBSET Fields,
         \A i \in DOMAIN s : s[i] \in Resolver!Tokens => s[i] \in done
  PROVE  Resolver!Meaning(s) = Partly(s, done)
<1>1. ASSUME NEW i \in DOMAIN s
      PROVE  (IF s[i] \in Resolver!Tokens THEN Resolver!Resolved(s[i]) ELSE <<s[i]>>)
               = (IF s[i] \in done THEN values[s[i]] ELSE <<s[i]>>)
  <2>1. s[i] \in done => s[i] \in Resolver!Tokens /\ s[i] # SecretToken
    BY ControlPlaneAssumption DEF Resolver!TemplatesAssumption, Resolver!Tokens
  <2>. QED BY <2>1 DEF Resolver!Resolved
<1>2. [i \in DOMAIN s |-> IF s[i] \in Resolver!Tokens THEN Resolver!Resolved(s[i]) ELSE <<s[i]>>]
        = [i \in DOMAIN s |-> IF s[i] \in done THEN values[s[i]] ELSE <<s[i]>>]
  BY <1>1
<1>. QED BY <1>2 DEF Resolver!Meaning, Partly

\* Nothing of a string is replaced before its first token is.
LEMMA PartlyNone == ASSUME NEW s \in Seq(TextPieces) PROVE Partly(s, {}) = s
<1>1. [i \in DOMAIN s |-> IF s[i] \in {} THEN values[s[i]] ELSE <<s[i]>>]
        = [i \in DOMAIN s |-> <<s[i]>>]
  OBVIOUS
<1>. QED BY <1>1, FlattenSingletons DEF Partly

\* A string that cannot be resolved fails the document.
LEMMA ResolverFails ==
  ASSUME ResolverInv, outcome = "running", NEW code, code \notin {"running", "done"},
         Resolver!Fail(code), ~Resolver!CanBeResolved(document[at])
  PROVE  ResolverInv'
<1>1. outcome' = code /\ UNCHANGED <<document, values, at, matched, output, refs>>
  BY DEF Resolver!Fail
<1>2. at \in DOMAIN document BY DEF ResolverInv, StringInv
<1>3. (\E i \in DOMAIN document : ~Resolver!CanBeResolved(document[i]))'
  BY <1>1, <1>2, SameMeaning
<1>. QED BY <1>1, <1>3, SameMeaning DEF ResolverInv

\* A string that is resolved gives way to the next.
LEMMA StringResolved ==
  ASSUME ResolverInv, outcome = "running", Resolver!NextString,
         Resolver!CanBeResolved(document[at]),
         Resolver!ReadAgain(document[at]) \/ output'[at] = Resolver!Meaning(document[at]),
         DOMAIN output' = DOMAIN output,
         \A i \in DOMAIN document : i # at => output'[i] = output[i],
         refs' = Resolver!SecretsUpTo(at)
  PROVE  ResolverInv'
<1>1. at' = at + 1 /\ matched' = 0 /\ UNCHANGED <<document, values>>
      /\ outcome' = (IF at = Len(document) THEN "done" ELSE "running")
  BY DEF Resolver!NextString
<1>2. at \in 1..Len(document) /\ DOMAIN document = 1..Len(document) /\ Len(document) \in Nat
  BY DEF ResolverInv, StringInv
<1>3. at' \in 1..Len(document) + 1 /\ at' - 1 = at
  <2>1. PICK N \in Nat : N = Len(document) BY <1>2
  <2>2. PICK k \in 1..N : k = at BY <1>2, <2>1
  <2>3. k + 1 \in 1..N + 1 /\ (k + 1) - 1 = k OBVIOUS
  <2>4. at' = k + 1 BY <1>1, <2>2
  <2>. QED BY <2>1, <2>2, <2>3, <2>4, Zenon
<1>4. ASSUME NEW i \in DOMAIN document, i > at \/ i = at + 1 PROVE output'[i] = document[i]
  BY <1>2, <1>4 DEF ResolverInv
<1>5. ASSUME NEW i \in 1..at
      PROVE  /\ Resolver!CanBeResolved(document[i])
             /\ Resolver!ReadAgain(document[i]) \/ output'[i] = Resolver!Meaning(document[i])
  <2>1. CASE i = at BY <2>1
  <2>2. CASE i # at
    <3>1. i \in 1..at - 1 /\ i \in DOMAIN document BY <1>2, <2>2
    <3>. QED BY <2>2, <3>1 DEF ResolverInv
  <2>. QED BY <2>1, <2>2
<1>6. outcome' = "running" => StringInv'
  <2>. SUFFICES ASSUME outcome' = "running" PROVE StringInv' OBVIOUS
  <2>1. at + 1 \in 1..Len(document) /\ at + 1 \in DOMAIN document
    <3>1. at # Len(document) BY <1>1
    <3>2. at + 1 \in 1..Len(document) BY <1>2, <3>1
    <3>. QED BY <1>2, <3>2
  <2>2. PICK s : s = document[at + 1] OBVIOUS
  <2>3. s \in Seq(TextPieces) BY <2>1, <2>2, StringsAreTexts DEF ResolverInv, ResolverTypes
  <2>4. Len(Resolver!Matches(s)) \in Nat BY <2>3, MatchesAre
  <2>5. output'[at + 1] = s BY <1>4, <2>1, <2>2
  <2>6. Partly(s, {})' = s BY <1>1, <2>3, SameMeaning, PartlyNone
  <2>7. {Resolver!Matches(s)[j] : j \in 1..matched'} = {} /\ 1..matched' = {} BY <1>1
  <2>8. document[at]' = s BY <1>1, <2>2
  <2>9. PICK m : m = Resolver!Matches(s) OBVIOUS
  <2>10. (Resolver!Matches(document[at]))' = m BY <2>8, <2>9 DEF Resolver!Matches
  <2>11. output[at]' = Partly(document[at], {Resolver!Matches(document[at])[j] : j \in 1..matched})'
    <3>1. output[at]' = s BY <1>1, <2>5
    <3>2. Partly(document[at], {})' = s BY <1>1, <2>3, <2>8, PartlyNone, SameMeaning
    <3>3. {Resolver!Matches(document[at])[j] : j \in 1..matched}' = {} BY <2>7
    <3>. QED BY <3>1, <3>2, <3>3
  <2>12. matched' \in 0..Len(m) /\ ~(matched' > 0) BY <1>1, <2>4, <2>9
  <2>13. (at <= Len(document))' BY <1>1, <2>1
  <2>. QED BY <2>7, <2>10, <2>11, <2>12, <2>13 DEF StringInv
<1>7. /\ (\A i \in 1..at - 1 :
             /\ Resolver!CanBeResolved(document[i])
             /\ Resolver!ReadAgain(document[i]) \/ output[i] = Resolver!Meaning(document[i]))'
      /\ (refs = Resolver!SecretsUpTo(at - 1))'
  <2>1. PICK a \in 1..Len(document) : a = at /\ a = at' - 1 BY <1>2, <1>3
  <2>2. refs' = Resolver!SecretsUpTo(a)' BY <1>1, <2>1, SameMeaning
  <2>3. ASSUME NEW i \in 1..a
        PROVE  (/\ Resolver!CanBeResolved(document[i])
                /\ Resolver!ReadAgain(document[i]) \/ output[i] = Resolver!Meaning(document[i]))'
    BY <1>1, <1>5, <2>1, SameMeaning
  <2>4. (at - 1 = a)' BY <2>1
  <2>5. (refs = Resolver!SecretsUpTo(at - 1))' BY <2>2, <2>4
  <2>. QED BY <2>3, <2>4, <2>5
<1>8. (/\ document \in Seq(Seq(Resolver!Tokens \cup {PlainText})) /\ document # <<>>
       /\ values \in [Fields -> Resolver!Values] /\ DOMAIN output = DOMAIN document)'
  BY <1>1 DEF ResolverInv
<1>9. (\A i \in DOMAIN document :
         i > at \/ (i = at /\ outcome = "running" /\ matched = 0) => output[i] = document[i])'
  BY <1>1, <1>2, <1>4
<1>10. (outcome = "done" => at = Len(document) + 1)' BY <1>1
<1>11. (at \in 1..Len(document) + 1)' BY <1>1, <1>3
<1>12. outcome' \in {"done", "running"} BY <1>1
<1>. QED BY <1>6, <1>7, <1>8, <1>9, <1>10, <1>11, <1>12 DEF ResolverInv

LEMMA StringAtHand ==
  ASSUME ResolverInv, outcome = "running"
  PROVE  /\ at \in DOMAIN document /\ at - 1 \in Nat /\ (at - 1) + 1 = at /\ at \in Nat
         /\ document[at] \in Seq(TextPieces) /\ ResolverTypes
         /\ DOMAIN output = DOMAIN document
         /\ StringInv
<1>1. at \in 1..Len(document) /\ DOMAIN document = 1..Len(document)
  BY DEF ResolverInv, StringInv
<1>2. ResolverTypes BY DEF ResolverInv, ResolverTypes
<1>3. document[at] \in Seq(TextPieces) BY <1>1, <1>2, StringsAreTexts
<1>. QED BY <1>1, <1>2, <1>3 DEF ResolverInv

LEMMA ResolveExactKeeps == ASSUME ResolverInv, Resolver!ResolveExact PROVE ResolverInv'
<1>1. outcome = "running" /\ Resolver!IsExact(document[at]) BY DEF Resolver!ResolveExact
<1>2. PICK s : s = document[at] OBVIOUS
<1>3. PICK t : t = s[1] OBVIOUS
<1>4. Resolver!IsToken(s) /\ s = <<t>> /\ t \in Resolver!Tokens
  <2>1. s \in Seq(TextPieces) BY <1>1, <1>2, StringAtHand
  <2>2. Len(s) = 1 BY <1>1, <1>2 DEF Resolver!IsExact
  <2>3. s = <<t>> BY <1>3, <2>1, <2>2
  <2>. QED BY <1>1, <1>2, <1>3, <2>1, <2>3, ExactIsToken DEF Resolver!IsExact
<1>5. CASE Resolver!Resolved(t) = None
  <2>1. Resolver!Fail("TEMPLATE_VALUE_MISSING")
    BY <1>2, <1>3, <1>5 DEF Resolver!ResolveExact
  <2>2. ~Resolver!CanBeResolved(s) BY <1>3, <1>4, <1>5 DEF Resolver!CanBeResolved
  <2>3. "TEMPLATE_VALUE_MISSING" \notin {"running", "done"} OBVIOUS
  <2>. QED BY <1>1, <1>2, <2>1, <2>2, <2>3, ResolverFails
<1>6. CASE Resolver!Resolved(t) # None
  <2>1. /\ output' = [output EXCEPT ![at] = Resolver!Resolved(t)]
        /\ refs' = IF t = SecretToken THEN Append(refs, at) ELSE refs
        /\ Resolver!NextString
    BY <1>2, <1>3, <1>6 DEF Resolver!ResolveExact
  <2>2. Resolver!CanBeResolved(s) BY <1>3, <1>4, <1>6 DEF Resolver!CanBeResolved
  <2>3. Resolver!Meaning(s) = Resolver!Resolved(t) BY <1>3, <1>4 DEF Resolver!Meaning
  <2>4. /\ output'[at] = Resolver!Meaning(s) /\ DOMAIN output' = DOMAIN output
        /\ \A i \in DOMAIN document : i # at => output'[i] = output[i]
    BY <1>1, <2>1, <2>3, StringAtHand
  <2>5. refs' = Resolver!SecretsUpTo(at)
    <3>1. PICK n \in Nat : n + 1 = at BY <1>1, StringAtHand
    <3>2. refs = Resolver!SecretsUpTo(n)
      <4>1. n = at - 1 BY <3>1
      <4>. QED BY <4>1 DEF ResolverInv
    <3>3. refs \in Seq(Nat) /\ at \in Nat
      <4>1. at \in Nat BY <3>1
      <4>2. Resolver!SecretsUpTo(n) \in Seq(Nat) BY SecretsNext
      <4>. QED BY <3>2, <4>1, <4>2
    <3>4. Resolver!SecretsUpTo(at) = refs \o (IF s = <<SecretToken>> THEN <<at>> ELSE <<>>)
      BY <1>2, <3>1, <3>2, SecretsNext
    <3>5. s = <<SecretToken>> <=> t = SecretToken BY <1>4
    <3>6. Append(refs, at) = refs \o <<at>> /\ refs \o <<>> = refs BY <3>3
    <3>. QED BY <2>1, <3>4, <3>5, <3>6
  <2>. QED BY <1>1, <1>2, <2>1, <2>2, <2>4, <2>5, StringResolved
<1>. QED BY <1>5, <1>6

LEMMA ExceedTokensKeeps == ASSUME ResolverInv, Resolver!ExceedTokens PROVE ResolverInv'
<1>1. /\ outcome = "running" /\ ~Resolver!IsExact(document[at])
      /\ Len(Resolver!Matches(document[at])) > TokenLimit
      /\ Resolver!Fail("TEMPLATE_TOKEN_LIMIT_EXCEEDED")
  BY DEF Resolver!ExceedTokens
<1>2. PICK s \in Seq(TextPieces) : s = document[at] BY <1>1, StringAtHand
<1>3. PICK m \in Seq(Resolver!Tokens) : m = Resolver!Matches(s) BY MatchesAre
<1>4. ~(Len(m) <= TokenLimit)
  BY <1>1, <1>2, <1>3, ControlPlaneAssumption DEF Resolver!TemplatesAssumption
<1>5. ~Resolver!IsToken(s) BY <1>1, <1>2, ExactIsToken
<1>6. ~Resolver!CanBeResolved(s) BY <1>3, <1>4, <1>5 DEF Resolver!CanBeResolved
<1>7. "TEMPLATE_TOKEN_LIMIT_EXCEEDED" \notin {"running", "done"} OBVIOUS
<1>. QED BY <1>1, <1>2, <1>6, <1>7, ResolverFails

LEMMA FinishStringKeeps == ASSUME ResolverInv, Resolver!FinishString PROVE ResolverInv'
<1>1. /\ outcome = "running" /\ ~Resolver!IsExact(document[at])
      /\ matched = Len(Resolver!Matches(document[at])) /\ matched <= TokenLimit
      /\ UNCHANGED <<output, refs>> /\ Resolver!NextString
  BY DEF Resolver!FinishString
<1>2. PICK s \in Seq(TextPieces) : s = document[at] BY <1>1, StringAtHand
<1>3. PICK m \in Seq(Resolver!Tokens) : m = Resolver!Matches(s) BY MatchesAre
<1>4. ~Resolver!IsToken(s) BY <1>1, <1>2, ExactIsToken
<1>5. PICK done : done = {m[j] : j \in 1..matched} OBVIOUS
<1>6. /\ \A j \in 1..matched : m[j] \in Fields /\ Resolver!IsScalar(values[m[j]])
      /\ Resolver!ReadAgain(s) \/ output[at] = Partly(s, done)
  <2>1. StringInv BY <1>1, StringAtHand
  <2>. QED BY <1>2, <1>3, <1>5, <2>1 DEF StringInv
<1>7. matched = Len(m) /\ DOMAIN m = 1..matched /\ Len(m) <= TokenLimit BY <1>1, <1>2, <1>3
<1>8. ASSUME NEW i \in DOMAIN s, s[i] \in Resolver!Tokens
      PROVE  s[i] \in done /\ s[i] \in Fields /\ Resolver!IsScalar(values[s[i]])
  <2>1. PICK j \in DOMAIN m : m[j] = s[i] BY <1>3, <1>8, MatchesAre
  <2>. QED BY <1>5, <1>6, <1>7, <2>1
<1>9. done \in SUBSET Fields BY <1>5, <1>6
<1>10. Resolver!CanBeResolved(s)
  <2>1. SecretToken \notin Fields
    BY ControlPlaneAssumption DEF Resolver!TemplatesAssumption
  <2>2. \A i \in DOMAIN s :
          s[i] \in Resolver!Tokens => s[i] # SecretToken /\ values[s[i]] \notin {None, <<Object>>}
    BY <1>8, <2>1 DEF Resolver!IsScalar
  <2>. QED BY <1>3, <1>4, <1>7, <2>2 DEF Resolver!CanBeResolved
<1>11. Resolver!Meaning(s) = Partly(s, done) BY <1>4, <1>8, <1>9, MeaningIs
<1>12. refs' = Resolver!SecretsUpTo(at)
  <2>1. PICK n \in Nat : n + 1 = at BY <1>1, StringAtHand
  <2>2. refs = Resolver!SecretsUpTo(n)
    <3>1. n = at - 1 BY <2>1
    <3>. QED BY <3>1 DEF ResolverInv
  <2>3. refs \in Seq(Nat) BY <2>2, SecretsNext
  <2>4. s # <<SecretToken>> BY <1>4 DEF Resolver!IsToken, Resolver!Tokens
  <2>5. Resolver!SecretsUpTo(at) = refs \o <<>> BY <1>2, <2>1, <2>2, <2>4, SecretsNext
  <2>. QED BY <1>1, <2>3, <2>5
<1>13. /\ Resolver!ReadAgain(s) \/ output'[at] = Resolver!Meaning(s)
       /\ DOMAIN output' = DOMAIN output
       /\ \A i \in DOMAIN document : i # at => output'[i] = output[i]
  BY <1>1, <1>6, <1>11
<1>. QED BY <1>1, <1>2, <1>10, <1>12, <1>13, StringResolved

LEMMA ReplaceMatchKeeps == ASSUME ResolverInv, Resolver!ReplaceMatch PROVE ResolverInv'
<1>1. outcome = "running" /\ ~Resolver!IsExact(document[at]) BY DEF Resolver!ReplaceMatch
<1>2. PICK s \in Seq(TextPieces) : s = document[at] BY <1>1, StringAtHand
<1>3. PICK m \in Seq(Resolver!Tokens) : m = Resolver!Matches(s) BY MatchesAre
<1>4. PICK t : t = m[matched + 1] OBVIOUS
<1>5. /\ Len(m) <= TokenLimit /\ matched < Len(m)
      /\ \/ t = SecretToken /\ Resolver!Fail("TEMPLATE_SECRET_INTERPOLATION_UNSAFE")
         \/ /\ t # SecretToken /\ values[t] = None /\ Resolver!Fail("TEMPLATE_VALUE_MISSING")
         \/ /\ t # SecretToken /\ values[t] # None /\ ~Resolver!IsScalar(values[t])
            /\ Resolver!Fail("TEMPLATE_INTERPOLATION_VALUE_INVALID")
         \/ /\ t # SecretToken /\ Resolver!IsScalar(values[t])
            /\ output' = [output EXCEPT ![at] = Resolver!ReplaceText(@, t, values[t])]
            /\ matched' = matched + 1
            /\ UNCHANGED <<document, values, at, refs, outcome>>
  BY <1>2, <1>3, <1>4 DEF Resolver!ReplaceMatch
<1>6. ~Resolver!IsToken(s) BY <1>1, <1>2, ExactIsToken
<1>7. /\ matched \in 0..Len(m)
      /\ \A j \in 1..matched : m[j] \in Fields /\ Resolver!IsScalar(values[m[j]])
      /\ Resolver!ReadAgain(s) \/ output[at] = Partly(s, {m[j] : j \in 1..matched})
  <2>1. StringInv BY <1>1, StringAtHand
  <2>. QED BY <1>2, <1>3, <2>1 DEF StringInv
<1>8. matched + 1 \in DOMAIN m BY <1>5, <1>7
<1>9. t \in Resolver!Tokens /\ \E i \in DOMAIN s : s[i] = t BY <1>3, <1>4, <1>8, MatchesAre
<1>10. ASSUME t = SecretToken \/ values[t] = None \/ ~Resolver!IsScalar(values[t])
       PROVE  ~Resolver!CanBeResolved(s)
  BY <1>6, <1>9, <1>10 DEF Resolver!CanBeResolved, Resolver!IsScalar
<1>11. ASSUME NEW code \in {"TEMPLATE_SECRET_INTERPOLATION_UNSAFE", "TEMPLATE_VALUE_MISSING",
                            "TEMPLATE_INTERPOLATION_VALUE_INVALID"},
              Resolver!Fail(code), ~Resolver!CanBeResolved(s)
       PROVE  ResolverInv'
  <2>1. code \notin {"running", "done"} OBVIOUS
  <2>. QED BY <1>1, <1>2, <1>11, <2>1, ResolverFails
<1>12. CASE /\ t # SecretToken /\ Resolver!IsScalar(values[t])
            /\ output' = [output EXCEPT ![at] = Resolver!ReplaceText(@, t, values[t])]
            /\ matched' = matched + 1
            /\ UNCHANGED <<document, values, at, refs, outcome>>
  <2>1. t \in Fields BY <1>9, <1>12 DEF Resolver!Tokens
  <2>2. PICK done : done = {m[j] : j \in 1..matched} OBVIOUS
  <2>3. done \in SUBSET Fields /\ \A f \in done : Resolver!IsScalar(values[f]) BY <1>7, <2>2
  <2>4. \A j \in 1..matched + 1 : j = matched + 1 \/ j \in 1..matched BY <1>7
  <2>5. {m[j] : j \in 1..matched + 1} = done \cup {t}
    <3>1. \A j \in 1..matched : j \in 1..matched + 1 BY <1>7
    <3>2. matched + 1 \in 1..matched + 1 BY <1>7
    <3>. QED BY <1>4, <2>2, <2>4, <3>1, <3>2
  <2>6. ASSUME ~Resolver!ReadAgain(s)
        PROVE  Resolver!ReplaceText(output[at], t, values[t]) = Partly(s, done \cup {t})
    <3>1. ASSUME NEW f \in done, NEW i \in DOMAIN values[f] PROVE values[f][i] # t
      <4>1. PICK j \in 1..matched : m[j] = f BY <2>2
      <4>2. j \in DOMAIN m /\ j < matched + 1 BY <1>7, <4>1
      <4>3. f \in Fields /\ Resolver!IsScalar(values[f]) BY <2>3
      <4>4. t \notin Resolver!Range(values[f])
        BY <1>3, <1>4, <1>6, <1>8, <2>6, <4>1, <4>2, <4>3 DEF Resolver!ReadAgain
      <4>. QED BY <4>4 DEF Resolver!Range
    <3>2. \A f \in done \cup {t} : values[f] \in Seq(TextPieces)
      BY <1>1, <1>12, <2>1, <2>3, StringAtHand, ScalarsAreTexts
    <3>3. Resolver!ReplaceText(Partly(s, done), t, values[t]) = Partly(s, done \cup {t})
      BY <2>1, <2>3, <3>1, <3>2, PartlyNext
    <3>. QED BY <1>7, <2>2, <2>6, <3>3
  <2>7. at \in DOMAIN document /\ DOMAIN output = DOMAIN document BY <1>1, StringAtHand
  <2>8. /\ DOMAIN output' = DOMAIN document
        /\ output'[at] = Resolver!ReplaceText(output[at], t, values[t])
        /\ \A i \in DOMAIN document : i # at => output'[i] = output[i]
    BY <1>12, <2>7
  <2>9. (Resolver!Matches(document[at]))' = m /\ (document[at])' = s
    BY <1>2, <1>3, <1>12 DEF Resolver!Matches
  <2>10. StringInv'
    <3>1. (at <= Len(document))' /\ matched' \in 0..Len(m)
      <4>1. at <= Len(document) BY <1>1, StringAtHand DEF StringInv
      <4>. QED BY <1>5, <1>7, <1>12, <4>1
    <3>2. ~Resolver!IsExact(s) /\ Len(m) <= TokenLimit BY <1>1, <1>2, <1>5
    <3>3. \A j \in 1..matched' : m[j] \in Fields /\ Resolver!IsScalar(values'[m[j]])
      BY <1>4, <1>7, <1>12, <2>1, <2>4
    <3>4. (Resolver!ReadAgain(document[at]))' \/ output[at]' = Partly(document[at], done \cup {t})'
      <4>1. (Resolver!ReadAgain(document[at]))' = Resolver!ReadAgain(s)
        BY <1>2, <1>12, SameMeaning
      <4>2. Partly(document[at], done \cup {t})' = Partly(s, done \cup {t})
        BY <1>2, <1>12, SameMeaning
      <4>3. output[at]' = output'[at] BY <1>12
      <4>. QED BY <2>6, <2>8, <4>1, <4>2, <4>3
    <3>5. {m[j] : j \in 1..matched'} = done \cup {t} BY <1>12, <2>5
    <3>6. (Resolver!IsExact(document[at]))' = Resolver!IsExact(s)
      BY <2>9 DEF Resolver!IsExact
    <3>. QED BY <2>9, <3>1, <3>2, <3>3, <3>4, <3>5, <3>6 DEF StringInv, Resolver!IsScalar
  <2>11. (\A i \in DOMAIN document :
            i > at \/ (i = at /\ outcome = "running" /\ matched = 0) => output[i] = document[i])'
    <3>1. matched' # 0 BY <1>7, <1>12
    <3>2. \A i \in DOMAIN document : i > at => i # at /\ output[i] = document[i]
      <4>1. at \in Nat /\ DOMAIN document = 1..Len(document) BY <1>1, StringAtHand DEF ResolverInv
      <4>. QED BY <4>1 DEF ResolverInv
    <3>. QED BY <1>12, <2>8, <3>1, <3>2
  <2>12. (\A i \in 1..at - 1 :
            /\ Resolver!CanBeResolved(document[i])
            /\ Resolver!ReadAgain(document[i]) \/ output[i] = Resolver!Meaning(document[i]))'
    <3>1. ASSUME NEW i \in 1..at - 1
          PROVE  /\ Resolver!CanBeResolved(document[i])
                 /\ Resolver!ReadAgain(document[i]) \/ output'[i] = Resolver!Meaning(document[i])
      <4>1. i # at /\ i \in DOMAIN document
        <5>1. at \in 1..Len(document) /\ DOMAIN document = 1..Len(document) /\ Len(document) \in Nat
          BY <1>1, StringAtHand DEF ResolverInv, StringInv
        <5>. QED BY <5>1
      <4>2. output'[i] = output[i] BY <2>8, <4>1
      <4>. QED BY <4>2 DEF ResolverInv
    <3>. QED BY <1>12, <3>1, SameMeaning
  <2>13. (refs = Resolver!SecretsUpTo(at - 1))' BY <1>12, SameMeaning DEF ResolverInv
  <2>14. (/\ document \in Seq(Seq(Resolver!Tokens \cup {PlainText})) /\ document # <<>>
          /\ values \in [Fields -> Resolver!Values] /\ at \in 1..Len(document) + 1
          /\ DOMAIN output = DOMAIN document)'
    BY <1>12, <2>8 DEF ResolverInv
  <2>15. outcome' = "running" BY <1>1, <1>12
  <2>. QED BY <2>10, <2>11, <2>12, <2>13, <2>14, <2>15 DEF ResolverInv
<1>13. CASE \E code \in {"TEMPLATE_SECRET_INTERPOLATION_UNSAFE", "TEMPLATE_VALUE_MISSING",
                            "TEMPLATE_INTERPOLATION_VALUE_INVALID"} :
              /\ t = SecretToken \/ values[t] = None \/ ~Resolver!IsScalar(values[t])
              /\ Resolver!Fail(code)
  BY <1>10, <1>11, <1>13
<1>. QED BY <1>5, <1>12, <1>13

LEMMA ResolverStep == ASSUME ResolverInv, Resolver!Next PROVE ResolverInv'
BY ResolveExactKeeps, ExceedTokensKeeps, ReplaceMatchKeeps, FinishStringKeeps DEF Resolver!Next

LEMMA ResolverSame == ASSUME ResolverInv, UNCHANGED templates PROVE ResolverInv'
<1>1. UNCHANGED <<document, values, at, matched, output, refs, outcome>> BY Zenon DEF templates
<1>2. (outcome = "running" => StringInv)'
  <2>1. outcome = "running" => StringInv BY DEF ResolverInv
  <2>. QED BY <1>1, <2>1 DEF StringInv, Resolver!Matches, Resolver!IsExact, Resolver!IsScalar,
    Resolver!ReadAgain, Partly
<1>. QED BY <1>1, <1>2, SameMeaning DEF ResolverInv

LEMMA ResolverInit ==
  ASSUME NEW d \in Seq(Seq(Resolver!Tokens \cup {PlainText})), d # <<>>,
         NEW v \in [Fields -> Resolver!Values], Resolver!StartsWith(d, v)
  PROVE  ResolverInv
<1>1. /\ document = d /\ values = v /\ at = 1 /\ matched = 0 /\ output = document /\ refs = <<>>
      /\ outcome = "running"
  BY DEF Resolver!StartsWith
<1>2. Len(d) \in Nat \ {0} OBVIOUS
<1>3. ResolverTypes BY <1>1 DEF ResolverTypes
<1>4. 1 \in DOMAIN document BY <1>1, <1>2
<1>5. PICK s \in Seq(TextPieces) : s = document[1] BY <1>3, <1>4, StringsAreTexts
<1>6. Resolver!Matches(s) \in Seq(Resolver!Tokens) BY MatchesAre
<1>7. StringInv
  <2>1. Partly(s, {}) = s BY PartlyNone
  <2>2. 1..matched = {} BY <1>1
  <2>3. {Resolver!Matches(s)[j] : j \in 1..matched} = {} BY <2>2
  <2>4. output[at] = s /\ document[at] = s BY <1>1, <1>5
  <2>5. at <= Len(document) /\ matched \in 0..Len(Resolver!Matches(s)) /\ ~(matched > 0)
    BY <1>1, <1>2, <1>6
  <2>. QED BY <2>1, <2>2, <2>3, <2>4, <2>5 DEF StringInv
<1>8. Resolver!SecretsUpTo(0) = <<>>
  <2>1. [i \in 1..0 |-> IF document[i] = <<SecretToken>> THEN <<i>> ELSE <<>>] = <<>> OBVIOUS
  <2>. QED BY <2>1, FlattenEmpty DEF Resolver!SecretsUpTo
<1>9. at \in 1..Len(document) + 1 /\ 1..at - 1 = {} /\ at - 1 = 0 BY <1>1, <1>2
<1>. QED BY <1>1, <1>7, <1>8, <1>9 DEF ResolverInv

LEMMA ResolverBegins == Init => ResolverInv
<1>. SUFFICES ASSUME Init PROVE ResolverInv OBVIOUS
<1>1. \A n : Resolver!Strings(n) \subseteq Seq(Resolver!Tokens \cup {PlainText})
  BY DEF Resolver!Strings, Resolver!BoundedSeq, Resolver!SeqOf
<1>2. ASSUME NEW d \in Resolver!Documents
      PROVE  d \in Seq(Seq(Resolver!Tokens \cup {PlainText})) /\ d # <<>>
  <2>1. CASE \E s \in Resolver!Strings(MaxPieces) : d = <<s>> BY <1>1, <2>1
  <2>2. CASE \E a, b \in Resolver!Strings(MaxPieces - 1) : d = <<a, b>> BY <1>1, <2>2
  <2>. QED BY <1>2, <2>1, <2>2 DEF Resolver!Documents
<1>3. CASE focus = "templates"
  BY <1>2, <1>3, ResolverInit DEF Init, Resolver!Init
<1>4. CASE focus # "templates"
  <2>1. Resolver!StartsWith(<<<<PlainText>>>>, [f \in Fields |-> None]) BY <1>4 DEF Init
  <2>2. <<<<PlainText>>>> \in Seq(Seq(Resolver!Tokens \cup {PlainText})) OBVIOUS
  <2>3. [f \in Fields |-> None] \in [Fields -> Resolver!Values] BY DEF Resolver!Values
  <2>. QED BY <2>1, <2>2, <2>3, ResolverInit
<1>. QED BY <1>3, <1>4

\* A document comes out as it is written, whatever its strings and their values are.
LEMMA ResolverInvResolves == ResolverInv => Resolver!ResolvedAsWritten
<1>. SUFFICES ASSUME ResolverInv PROVE Resolver!ResolvedAsWritten OBVIOUS
<1>1. ASSUME outcome = "done"
      PROVE  /\ \A i \in DOMAIN document :
                  /\ Resolver!CanBeResolved(document[i])
                  /\ Resolver!ReadAgain(document[i]) \/ output[i] = Resolver!Meaning(document[i])
             /\ refs = Resolver!SecretsUpTo(Len(document))
  <2>1. at - 1 = Len(document) /\ DOMAIN document = 1..Len(document)
    BY <1>1 DEF ResolverInv
  <2>. QED BY <2>1 DEF ResolverInv
<1>2. outcome \notin {"done", "running"} =>
        \E i \in DOMAIN document : ~Resolver!CanBeResolved(document[i])
  BY DEF ResolverInv
<1>. QED BY <1>1, <1>2 DEF Resolver!ResolvedAsWritten

\* What a document says is what comes out of it: the resolver replaces the text of one token
\* after the other in a string that already holds values, and still each string ends as its
\* meaning, the secret references are just the strings that are one, and a document fails only
\* for a string that has no meaning; a value that holds the text of a token matched after it
\* is the one exception (SafeTemplateResolver: resolveString, resolveInterpolatedString).
THEOREM DocumentsComeOutAsWritten == Spec => []ResolvedAsWritten
<1>1. Init => ResolverInv BY ResolverBegins
<1>2. (Only("templates") /\ Resolver!Next) \/ UNCHANGED templates \/ ~[Next]_vars
  BY DEF Next, Only, vars
<1>3. ResolverInv /\ [Next]_vars => ResolverInv' BY <1>2, ResolverStep, ResolverSame
<1>4. ResolverInv => ResolvedAsWritten BY ResolverInvResolves DEF ResolvedAsWritten
<1>. QED BY <1>1, <1>3, <1>4, PTL DEF Spec
=============================================================================
