----------------------- MODULE WebhookIngestionProofs -----------------------
(***************************************************************************)
(* Proofs about WebhookIngestion, for every number of calls, keys and      *)
(* workflows, any limits and any number of failures.                       *)
(***************************************************************************)
EXTENDS WebhookIngestion, FiniteSetTheorems, TLAPS

Contends(c) == Input(c).trigger = "webhook" /\ Input(c).key # Nothing

\* Which calls stand where, and what the handler knows there.
PcInv ==
  \A c \in Calls :
    /\ c \in committed => call[c].pc \in {"enqueue", "accepted", "failed"}
    /\ call[c].pc = "replay" => Input(c).trigger = "webhook"
    /\ call[c].pc \in {"lookup", "reserve", "relookup"} => Contends(c)
    /\ call[c].pc = "enqueue" => c \in committed /\ call[c].answer = c

\* A key has one marker at a time, and until the transaction that set it ends, whatever else is
\* open overlaps it.
MarkerInv ==
  /\ \A m \in markers : call[m[2]].pc # "new"
  /\ \A m, n \in markers : m[1] = n[1] => m = n
  /\ \A m \in markers : m[2] \in Open => \A c \in Open : <<m[1], c>> \in overlaps

\* The marker is held until the commit, and outlives the transactions that looked a key up
\* before the commit and try to reserve it after: they find it reserved.
ExclusionInv ==
  /\ \A c \in Calls : call[c].pc = "commit" /\ Contends(c) => <<Input(c).key, c>> \in markers
  /\ \A c \in Calls, x \in committed :
       call[c].pc = "reserve" /\ SameKey(c, x) =>
         <<Input(c).key, x>> \in markers /\ <<Input(c).key, c>> \in overlaps
  /\ \A c \in Calls, x \in committed : call[c].pc = "commit" => ~SameKey(c, x)
  /\ OneExecutionPerKey

IngestionInv == IngestionTypeOK /\ PcInv /\ MarkerInv /\ ExclusionInv

USE IngestionAssumption

---------------------------------------------------------------------------
(***************************************************************************)
(* What the actions do to call.                                            *)
(***************************************************************************)

LEMMA GotoFacts ==
  ASSUME IngestionTypeOK, NEW c \in Calls, NEW pc, Advance(c, pc)
  PROVE  /\ call'[c].pc = pc
         /\ call'[c].input = call[c].input
         /\ call'[c].answer = call[c].answer
         /\ \A d \in Calls : d # c => call'[d] = call[d]
         /\ (pc \in {"enqueue"} \cup InTransaction \cup Finished => call' \in [Calls -> CallState])
BY DEF IngestionTypeOK, Advance, CallState, InTransaction, Finished

LEMMA AnswerFacts ==
  ASSUME IngestionTypeOK, NEW c \in Calls, NEW r \in Calls, AnswerWith(c, r)
  PROVE  /\ call'[c].pc \in {"accepted", "rejected"}
         /\ call'[c].input = call[c].input
         /\ call'[c].pc = "accepted" => /\ call'[c].answer = r
                                        /\ Input(r).payload = Input(c).payload
         /\ \A d \in Calls : d # c => call'[d] = call[d]
         /\ call' \in [Calls -> CallState]
BY DEF IngestionTypeOK, AnswerWith, Input, CallState, InTransaction, Finished

\* A step of call c that takes no marker and commits nothing.
Quiet(c) ==
  /\ UNCHANGED <<committed, markers, overlaps>>
  /\ \A d \in Calls : d # c => call'[d] = call[d]
  /\ call'[c].input = call[c].input
  /\ call[c].pc # "new" /\ call'[c].pc \notin {"new", "enqueue"}
  /\ call'[c].pc \in InTransaction => call[c].pc \in InTransaction
  /\ c \in committed => call'[c].pc \in {"accepted", "failed"}
  /\ call'[c].pc = "commit" => ~Contends(c)
  /\ call'[c].pc = "reserve" => Matching(c) = {}
  /\ call'[c].pc = "replay" => Input(c).trigger = "webhook"
  /\ call'[c].pc \in {"lookup", "reserve", "relookup"} => Contends(c)

QuietStep(c) ==
  \/ EnforceWebhookRequest(c) \/ EnforceExecutionCreation(c) \/ ReserveReplay(c)
  \/ LookUp(c) \/ (ReserveIdempotencyKey(c) /\ Reserved(c)) \/ LookUpAgain(c) \/ Enqueue(c)
  \/ RollBack(c) \/ EnqueueRefused(c) \/ EnqueueUnrecorded(c)

LEMMA InputFacts ==
  ASSUME IngestionTypeOK, NEW c \in Calls, call[c].pc # "new"
  PROVE  /\ Input(c) \in Inputs
         /\ Input(c).trigger \in {"webhook", "automation"}
         /\ Input(c).key \in Keys \cup {Nothing}
         /\ (Input(c).trigger = "webhook" => Input(c).signature \in Signatures)
BY DEF IngestionTypeOK, Input, InputShape

\* A quiet step keeps every variable's type, and is quiet.
LEMMA QuietSteps ==
  ASSUME IngestionTypeOK, PcInv, NEW c \in Calls, QuietStep(c)
  PROVE  IngestionTypeOK' /\ Quiet(c)
<1>. USE InputFacts, GotoFacts DEF Quiet, PcInv, InTransaction, Finished, Contends, Input
<1>1. CASE EnforceWebhookRequest(c)
  <2>1. \/ Advance(c, "rejected")
        \/ Advance(c, "execution_limit")
    BY <1>1 DEF EnforceWebhookRequest
  <2>. QED BY <1>1, <2>1 DEF EnforceWebhookRequest, IngestionTypeOK
<1>2. CASE EnforceExecutionCreation(c)
  <2>1. \/ Advance(c, "rejected")
        \/ Advance(c, "replay") /\ Input(c).trigger = "webhook"
        \/ Advance(c, "commit") /\ Input(c).trigger # "webhook"
    BY <1>2 DEF EnforceExecutionCreation
  <2>. QED BY <1>2, <2>1 DEF EnforceExecutionCreation, IngestionTypeOK
<1>3. CASE ReserveReplay(c)
  <2>1. \/ Advance(c, "rejected")
        \/ Advance(c, "lookup") /\ Keyed(c)
        \/ Advance(c, "commit") /\ ~Keyed(c)
    BY <1>3 DEF ReserveReplay
  <2>2. Input(c).trigger = "webhook"
    BY <1>3 DEF ReserveReplay
  <2>3. replays' \subseteq Signatures
    BY <1>3, <2>2, InputFacts DEF ReserveReplay, IngestionTypeOK
  <2>. QED BY <1>3, <2>1, <2>2, <2>3 DEF ReserveReplay, IngestionTypeOK, Keyed
<1>4. CASE LookUp(c)
  <2>1. CASE Matching(c) = {} /\ Advance(c, "reserve")
    BY <1>4, <2>1 DEF LookUp, IngestionTypeOK
  <2>2. CASE \E r \in Matching(c) : AnswerWith(c, r)
    <3>1. PICK r \in Calls : AnswerWith(c, r)
      BY <2>2 DEF Matching, WebhookRows, IngestionTypeOK
    <3>. QED BY <1>4, <3>1, AnswerFacts DEF LookUp, IngestionTypeOK
  <2>. QED BY <1>4, <2>1, <2>2 DEF LookUp
<1>5. CASE ReserveIdempotencyKey(c) /\ Reserved(c)
  BY <1>5 DEF ReserveIdempotencyKey, IngestionTypeOK
<1>6. CASE LookUpAgain(c)
  <2>1. CASE Matching(c) = {} /\ Advance(c, "rejected")
    BY <1>6, <2>1 DEF LookUpAgain, IngestionTypeOK
  <2>2. CASE \E r \in Matching(c) : AnswerWith(c, r)
    <3>1. PICK r \in Calls : AnswerWith(c, r)
      BY <2>2 DEF Matching, WebhookRows, IngestionTypeOK
    <3>. QED BY <1>6, <3>1, AnswerFacts DEF LookUpAgain, IngestionTypeOK
  <2>. QED BY <1>6, <2>1, <2>2 DEF LookUpAgain
<1>7. CASE Enqueue(c) BY <1>7 DEF Enqueue, IngestionTypeOK
<1>8. CASE RollBack(c) BY <1>8 DEF RollBack, Open, CallFault, IngestionTypeOK
<1>9. CASE EnqueueRefused(c) BY <1>9 DEF EnqueueRefused, CallFault, IngestionTypeOK
<1>10. CASE EnqueueUnrecorded(c) BY <1>10 DEF EnqueueUnrecorded, CallFault, IngestionTypeOK
<1>. QED BY <1>1, <1>2, <1>3, <1>4, <1>5, <1>6, <1>7, <1>8, <1>9, <1>10 DEF QuietStep

\* A quiet step keeps the invariant: it opens nothing, commits nothing, and starts to hold no key.
LEMMA QuietPreserves ==
  ASSUME IngestionInv, NEW c \in Calls, IngestionTypeOK', Quiet(c)
  PROVE  IngestionInv'
<1>. USE DEF IngestionInv
<1>1. Open' \subseteq Open BY DEF Quiet, Open
<1>2. \A d \in Calls : call'[d].input = call[d].input BY DEF Quiet
<1>3. \A d, e \in Calls : SameKey(d, e)' <=> SameKey(d, e) BY <1>2 DEF SameKey, Input
<1>4. committed \subseteq Calls /\ markers \subseteq Keys \X Calls BY DEF IngestionTypeOK
<1>5. PcInv'
  BY <1>2 DEF PcInv, Quiet, Contends, Input
<1>6. MarkerInv'
  BY <1>1, <1>4 DEF MarkerInv, Quiet
<1>7. \A x \in committed : call'[c].pc = "reserve" => ~SameKey(c, x)
  BY <1>4 DEF Quiet, Matching, WebhookRows, SameKey
<1>8. \A x \in Calls : SameKey(c, x) => Contends(c) BY DEF SameKey, Contends
<1>9. ExclusionInv'
  <2>2. \A d \in Calls : call'[d].pc = "commit" /\ Contends(d)' => <<Input(d).key', d>> \in markers'
    BY <1>2 DEF Input, Contends, ExclusionInv, Quiet
  <2>3. \A d \in Calls, x \in committed' :
          call'[d].pc = "reserve" /\ SameKey(d, x)' =>
            <<Input(d).key', x>> \in markers' /\ <<Input(d).key', d>> \in overlaps'
    BY <1>2, <1>3, <1>4, <1>7 DEF Input, ExclusionInv, Quiet
  <2>4. \A d \in Calls, x \in committed' : call'[d].pc = "commit" => ~SameKey(d, x)'
    BY <1>3, <1>4, <1>8 DEF ExclusionInv, Quiet
  <2>5. OneExecutionPerKey'
    BY <1>3, <1>4 DEF ExclusionInv, OneExecutionPerKey, Quiet
  <2>. QED BY <2>2, <2>3, <2>4, <2>5 DEF ExclusionInv
<1>. QED BY <1>5, <1>6, <1>9

---------------------------------------------------------------------------
(***************************************************************************)
(* The steps that open a transaction, take or drop a marker, or commit.    *)
(***************************************************************************)

LEMMA ArrivePreserves ==
  ASSUME IngestionInv, NEW c \in Calls, Arrive(c)
  PROVE  IngestionInv'
<1>. USE DEF IngestionInv
<1>1. PICK i \in Inputs, pc \in {"webhook_limit", "execution_limit"} :
        call' = [call EXCEPT ![c] = [pc |-> pc, input |-> i, answer |-> Nothing]]
  BY DEF Arrive
<1>2. /\ call'[c] = [pc |-> pc, input |-> i, answer |-> Nothing]
      /\ \A d \in Calls : d # c => call'[d] = call[d]
  BY <1>1 DEF IngestionTypeOK
<1>3. /\ call[c].pc = "new"
      /\ UNCHANGED <<committed, replays, markers, queued, callFaults>>
      /\ overlaps' = overlaps \cup {<<m[1], c>> : m \in {m \in markers : m[2] \in Open}}
  BY DEF Arrive
<1>4. IngestionTypeOK'
  <2>1. call' \in [Calls -> CallState] BY <1>1 DEF IngestionTypeOK, CallState, InTransaction
  <2>2. overlaps' \subseteq Keys \X Calls BY <1>3 DEF IngestionTypeOK
  <2>. QED BY <1>2, <1>3, <2>1, <2>2 DEF IngestionTypeOK
<1>5. c \notin committed BY <1>3 DEF PcInv
<1>6. PcInv' BY <1>2, <1>3, <1>5 DEF PcInv, Contends, Input
<1>7. Open' = Open \cup {c} BY <1>2 DEF Open, InTransaction
<1>8. MarkerInv'
  <2>1. \A m \in markers : m[2] \in Calls /\ m[2] # c BY <1>3 DEF MarkerInv, IngestionTypeOK
  <2>2. \A m \in markers' : m[2] \in Open' => \A d \in Open' : <<m[1], d>> \in overlaps'
    BY <1>3, <1>7, <2>1 DEF MarkerInv
  <2>. QED BY <1>2, <1>3, <2>1, <2>2 DEF MarkerInv
<1>9. \A d, x \in Calls : d # c /\ x # c => (SameKey(d, x)' <=> SameKey(d, x))
  BY <1>2 DEF SameKey, Input
<1>10. \A d \in Calls : d # c => Contends(d)' = Contends(d) /\ Input(d)' = Input(d)
  BY <1>2 DEF Contends, Input
<1>11. ExclusionInv'
  <2>1. committed' = committed /\ committed \subseteq Calls /\ overlaps \subseteq overlaps'
    BY <1>3 DEF IngestionTypeOK
  <2>2. call'[c].pc \notin {"commit", "reserve"} BY <1>2
  <2>3. \A d \in Calls : call'[d].pc = "commit" /\ Contends(d)' => <<Input(d).key', d>> \in markers'
    BY <1>2, <1>3, <1>10, <2>2 DEF ExclusionInv
  <2>4. \A d \in Calls, x \in committed' :
          call'[d].pc = "reserve" /\ SameKey(d, x)' =>
            <<Input(d).key', x>> \in markers' /\ <<Input(d).key', d>> \in overlaps'
    BY <1>2, <1>3, <1>5, <1>9, <1>10, <2>1, <2>2 DEF ExclusionInv
  <2>5. \A d \in Calls, x \in committed' : call'[d].pc = "commit" => ~SameKey(d, x)'
    BY <1>2, <1>5, <1>9, <2>1, <2>2 DEF ExclusionInv
  <2>6. OneExecutionPerKey'
    BY <1>5, <1>9, <2>1 DEF ExclusionInv, OneExecutionPerKey
  <2>. QED BY <2>3, <2>4, <2>5, <2>6 DEF ExclusionInv
<1>. QED BY <1>4, <1>6, <1>8, <1>11

\* A free key is reserved: no execution has the key, for a call that looked it up before the
\* execution was committed would still find the key reserved.
LEMMA ReservePreserves ==
  ASSUME IngestionInv, NEW c \in Calls, ReserveIdempotencyKey(c), ~Reserved(c)
  PROVE  IngestionInv'
<1>. USE DEF IngestionInv
<1>. DEFINE k == Input(c).key
<1>1. /\ call[c].pc = "reserve" /\ Advance(c, "commit")
      /\ markers' = markers \cup {<<k, c>>}
      /\ overlaps' = overlaps \cup ({k} \X Open)
      /\ UNCHANGED <<committed, replays, queued, callFaults>>
  BY DEF ReserveIdempotencyKey
<1>2. /\ call'[c].pc = "commit" /\ call'[c].input = call[c].input
      /\ \A d \in Calls : d # c => call'[d] = call[d]
      /\ call' \in [Calls -> CallState]
  BY <1>1, GotoFacts DEF InTransaction
<1>3. Contends(c) /\ k \in Keys
  BY <1>1, InputFacts DEF PcInv, Contends
<1>4. Open' = Open /\ Open \subseteq Calls /\ c \in Open
  BY <1>1, <1>2 DEF Open, InTransaction
<1>5. IngestionTypeOK'
  <2>1. markers' \subseteq Keys \X Calls /\ overlaps' \subseteq Keys \X Calls
    BY <1>1, <1>3, <1>4 DEF IngestionTypeOK
  <2>. QED BY <1>1, <1>2, <2>1 DEF IngestionTypeOK
<1>6. c \notin committed BY <1>1 DEF PcInv
<1>7. PcInv' BY <1>1, <1>2, <1>6 DEF PcInv, Contends, Input
<1>8. \A m \in markers : m[1] # k BY DEF Reserved
<1>9. MarkerInv'
  <2>1. \A m \in markers' : call'[m[2]].pc # "new"
    BY <1>1, <1>2 DEF MarkerInv, IngestionTypeOK
  <2>2. \A m, n \in markers' : m[1] = n[1] => m = n
    BY <1>1, <1>8 DEF MarkerInv
  <2>3. \A m \in markers' : m[2] \in Open' => \A d \in Open' : <<m[1], d>> \in overlaps'
    BY <1>1, <1>4 DEF MarkerInv
  <2>. QED BY <2>1, <2>2, <2>3 DEF MarkerInv
<1>10. \A d, x \in Calls : SameKey(d, x)' <=> SameKey(d, x) BY <1>2 DEF SameKey, Input
<1>11. \A d \in Calls : Contends(d)' = Contends(d) /\ Input(d)' = Input(d)
  BY <1>2 DEF Contends, Input
<1>12. \A x \in committed : ~SameKey(c, x)
  BY <1>1, <1>8 DEF ExclusionInv
<1>13. committed' = committed /\ committed \subseteq Calls /\ overlaps \subseteq overlaps'
       /\ markers \subseteq markers'
  BY <1>1 DEF IngestionTypeOK
<1>14. ExclusionInv'
  <2>1. \A d \in Calls : call'[d].pc = "commit" /\ Contends(d)' => <<Input(d).key', d>> \in markers'
    BY <1>1, <1>2, <1>11, <1>13 DEF ExclusionInv
  <2>2. \A d \in Calls, x \in committed' :
          call'[d].pc = "reserve" /\ SameKey(d, x)' =>
            <<Input(d).key', x>> \in markers' /\ <<Input(d).key', d>> \in overlaps'
    BY <1>2, <1>10, <1>11, <1>13 DEF ExclusionInv
  <2>3. \A d \in Calls, x \in committed' : call'[d].pc = "commit" => ~SameKey(d, x)'
    BY <1>2, <1>10, <1>12, <1>13 DEF ExclusionInv
  <2>4. OneExecutionPerKey' BY <1>10, <1>13 DEF ExclusionInv, OneExecutionPerKey
  <2>. QED BY <2>1, <2>2, <2>3, <2>4 DEF ExclusionInv
<1>. QED BY <1>5, <1>7, <1>9, <1>14

\* Whether or not its acknowledgement arrives, a commit adds the only execution of its key, and
\* every other open transaction overlapped it.
LEMMA CommitPreserves ==
  ASSUME IngestionInv, NEW c \in Calls, Commit(c) \/ AcknowledgementLost(c)
  PROVE  IngestionInv'
<1>. USE DEF IngestionInv
<1>1. /\ call[c].pc = "commit"
      /\ committed' = committed \cup {c}
      /\ UNCHANGED <<replays, markers, overlaps, queued>>
      /\ callFaults' \in 0..MaxFaults
  BY DEF Commit, AcknowledgementLost, CallFault, IngestionTypeOK
<1>2. /\ call'[c].pc \in {"enqueue", "failed"}
      /\ call'[c].pc = "enqueue" => call'[c].answer = c
      /\ call'[c].input = call[c].input
      /\ \A d \in Calls : d # c => call'[d] = call[d]
      /\ call' \in [Calls -> CallState]
  <2>1. CASE Commit(c)
    BY <2>1 DEF Commit, IngestionTypeOK, CallState, Input
  <2>2. CASE AcknowledgementLost(c)
    BY <2>2, GotoFacts DEF AcknowledgementLost, Finished
  <2>. QED BY <2>1, <2>2
<1>3. IngestionTypeOK' BY <1>1, <1>2 DEF IngestionTypeOK
<1>4. c \in Open /\ Open' = Open \ {c} /\ Open \subseteq Calls
  BY <1>1, <1>2 DEF Open, InTransaction
<1>5. PcInv' BY <1>1, <1>2 DEF PcInv, Contends, Input
<1>6. MarkerInv' BY <1>1, <1>2, <1>4 DEF MarkerInv, IngestionTypeOK
<1>7. \A d, x \in Calls : SameKey(d, x)' <=> SameKey(d, x) BY <1>2 DEF SameKey, Input
<1>8. \A d \in Calls : Contends(d)' = Contends(d) /\ Input(d)' = Input(d)
  BY <1>2 DEF Contends, Input
<1>9. committed \subseteq Calls BY DEF IngestionTypeOK
<1>10. \A d \in Calls : SameKey(d, c) =>
         /\ Contends(d) /\ Contends(c) /\ SameKey(c, d) /\ Input(d).key = Input(c).key
  BY DEF SameKey, Contends
<1>11. Contends(c) => <<Input(c).key, c>> \in markers
  BY <1>1 DEF ExclusionInv
<1>12. ExclusionInv'
  <2>1. \A d \in Calls : call'[d].pc = "commit" /\ Contends(d)' => <<Input(d).key', d>> \in markers'
    BY <1>1, <1>2, <1>8 DEF ExclusionInv
  <2>2. ASSUME NEW d \in Calls, NEW x \in committed', call'[d].pc = "reserve", SameKey(d, x)'
        PROVE  <<Input(d).key', x>> \in markers' /\ <<Input(d).key', d>> \in overlaps'
    <3>1. d # c /\ call[d].pc = "reserve" /\ d \in Open
      BY <1>2, <2>2 DEF Open, InTransaction
    <3>2. CASE x = c
      <4>1. <<Input(c).key, c>> \in markers /\ Input(d).key = Input(c).key
        BY <3>2, <2>2, <1>7, <1>10, <1>11
      <4>2. <<Input(c).key, d>> \in overlaps
        BY <4>1, <3>1, <1>4 DEF MarkerInv
      <4>. QED BY <4>1, <4>2, <3>2, <1>1, <1>8
    <3>3. CASE x \in committed
      BY <3>1, <3>3, <2>2, <1>1, <1>7, <1>8, <1>9 DEF ExclusionInv
    <3>. QED BY <3>2, <3>3, <1>1
  <2>3. ASSUME NEW d \in Calls, NEW x \in committed', call'[d].pc = "commit"
        PROVE  ~SameKey(d, x)'
    <3>1. d # c /\ call[d].pc = "commit" BY <1>2, <2>3
    <3>2. CASE x = c
      <4>1. SUFFICES ASSUME SameKey(d, c) PROVE FALSE BY <3>2, <1>7
      <4>2. <<Input(c).key, d>> \in markers /\ <<Input(c).key, c>> \in markers
        BY <4>1, <3>1, <1>10, <1>11 DEF ExclusionInv
      <4>. QED BY <4>2, <3>1 DEF MarkerInv
    <3>3. CASE x \in committed BY <3>1, <3>3, <1>7, <1>9 DEF ExclusionInv
    <3>. QED BY <3>2, <3>3, <1>1
  <2>4. OneExecutionPerKey'
    BY <1>1, <1>7, <1>9, <1>10 DEF ExclusionInv, OneExecutionPerKey
  <2>. QED BY <2>1, <2>2, <2>3, <2>4 DEF ExclusionInv
<1>. QED BY <1>3, <1>5, <1>6, <1>12

LEMMA ExpirePreserves ==
  ASSUME IngestionInv, NEW k \in Keys, ExpireKey(k)
  PROVE  IngestionInv'
<1>. USE DEF IngestionInv
<1>1. /\ \A c \in Open : <<k, c>> \notin overlaps
      /\ markers' = {m \in markers : m[1] # k}
      /\ overlaps' = {o \in overlaps : o[1] # k}
      /\ UNCHANGED <<call, committed, replays, queued, callFaults>>
  BY DEF ExpireKey
<1>2. IngestionTypeOK' BY <1>1 DEF IngestionTypeOK
<1>3. PcInv' BY <1>1 DEF PcInv, Contends, Input
<1>4. Open' = Open BY <1>1 DEF Open
<1>5. MarkerInv' BY <1>1, <1>4 DEF MarkerInv, IngestionTypeOK
<1>6. \A c \in Calls : call[c].pc \in {"reserve", "commit"} => c \in Open
  BY DEF Open, InTransaction
<1>7. ExclusionInv'
  <2>1. \A d \in Calls : call[d].pc = "commit" /\ Contends(d) => <<Input(d).key, d>> \in markers'
    BY <1>1, <1>6 DEF ExclusionInv, MarkerInv
  <2>2. \A d \in Calls, x \in committed :
          call[d].pc = "reserve" /\ SameKey(d, x) =>
            <<Input(d).key, x>> \in markers' /\ <<Input(d).key, d>> \in overlaps'
    BY <1>1, <1>6 DEF ExclusionInv
  <2>. QED
    BY <1>1, <2>1, <2>2 DEF ExclusionInv, OneExecutionPerKey, SameKey, Input, Contends
<1>. QED BY <1>2, <1>3, <1>5, <1>7

LEMMA CallStepCases ==
  ASSUME NEW c \in Calls, CallStep(c)
  PROVE  \/ QuietStep(c)
         \/ Arrive(c)
         \/ ReserveIdempotencyKey(c) /\ ~Reserved(c)
         \/ Commit(c) \/ AcknowledgementLost(c)
BY DEF CallStep, QuietStep

LEMMA InitIngestion == IngestionInit => IngestionInv
BY DEF IngestionInit, IngestionInv, IngestionTypeOK, CallState, PcInv, MarkerInv, ExclusionInv,
    OneExecutionPerKey

LEMMA NextIngestion == IngestionInv /\ [IngestionNext]_ingestionVars => IngestionInv'
<1>. SUFFICES ASSUME IngestionInv, [IngestionNext]_ingestionVars PROVE IngestionInv' OBVIOUS
<1>1. ASSUME NEW c \in Calls, CallStep(c) PROVE IngestionInv'
  <2>1. QuietStep(c) => IngestionTypeOK' /\ Quiet(c) BY QuietSteps DEF IngestionInv
  <2>. QED
    BY <1>1, <2>1, CallStepCases, QuietPreserves, ArrivePreserves, ReservePreserves,
       CommitPreserves
<1>2. ASSUME NEW k \in Keys, ExpireKey(k) PROVE IngestionInv' BY <1>2, ExpirePreserves
<1>3. CASE UNCHANGED ingestionVars
  BY <1>3 DEF ingestionVars, IngestionInv, IngestionTypeOK, PcInv, MarkerInv, ExclusionInv,
      OneExecutionPerKey,
              Contends, SameKey, Input, Open
<1>. QED BY <1>1, <1>2, <1>3 DEF IngestionNext

THEOREM IngestionInvariant == IngestionSpec => []IngestionInv
BY InitIngestion, NextIngestion, PTL DEF IngestionSpec

THEOREM IngestionTypeCorrect == IngestionSpec => []IngestionTypeOK
<1>1. IngestionInv => IngestionTypeOK BY DEF IngestionInv
<1>. QED BY <1>1, IngestionInvariant, PTL

\* For every number of concurrent calls and of failures, a key of a workflow creates at most one
\* execution: receive-public-webhook.use-case.ts needs no unique constraint for it.
THEOREM KeysAreIdempotent == IngestionSpec => []OneExecutionPerKey
<1>1. IngestionInv => OneExecutionPerKey BY DEF IngestionInv, ExclusionInv
<1>. QED BY <1>1, IngestionInvariant, PTL

---------------------------------------------------------------------------
(***************************************************************************)
(* Answers.                                                                *)
(***************************************************************************)

Answers(c, r) ==
  /\ r \in committed
  /\ Input(r).workflow = Input(c).workflow /\ Input(r).payload = Input(c).payload
  /\ Contends(c) => SameKey(c, r)

AnswersInv == \A c \in Calls : call[c].pc = "accepted" => Answers(c, call[c].answer)

\* The input of a call that has begun never changes, and commits are not undone.
LEMMA StepsKeepInputs ==
  ASSUME IngestionInv, NEW c \in Calls, CallStep(c)
  PROVE  /\ \A d \in Calls : d # c => call'[d] = call[d]
         /\ call[c].pc # "new" => call'[c].input = call[c].input
         /\ committed \subseteq committed'
<1>. USE DEF IngestionInv
<1>1. CASE QuietStep(c) BY <1>1, QuietSteps DEF Quiet
<1>2. CASE Arrive(c) BY <1>2 DEF Arrive, IngestionTypeOK
<1>3. CASE ReserveIdempotencyKey(c) /\ ~Reserved(c)
  BY <1>3, GotoFacts DEF ReserveIdempotencyKey
<1>4. CASE Commit(c) BY <1>4 DEF Commit, IngestionTypeOK, Input
<1>5. CASE AcknowledgementLost(c) BY <1>5, GotoFacts DEF AcknowledgementLost
<1>. QED BY <1>1, <1>2, <1>3, <1>4, <1>5, CallStepCases

(***************************************************************************)
(* What a system built around the calls sees of them: nothing before the   *)
(* commit, then the row, then the job or its absence.                      *)
(***************************************************************************)
BeforeCommit(c) ==
  \/ Arrive(c) \/ EnforceWebhookRequest(c) \/ EnforceExecutionCreation(c) \/ ReserveReplay(c)
  \/ LookUp(c) \/ ReserveIdempotencyKey(c) \/ LookUpAgain(c) \/ RollBack(c)

LEMMA NothingSeenBeforeCommit ==
  ASSUME IngestionInv, NEW c \in Calls, BeforeCommit(c)
  PROVE  /\ UNCHANGED <<committed, queued>>
         /\ call[c].pc \in {"new"} \cup InTransaction /\ call'[c].pc # "enqueue"
         /\ \A d \in Calls : d # c => call'[d] = call[d]
<1>1. CallStep(c) BY DEF BeforeCommit, CallStep
<1>2. UNCHANGED <<committed, queued>> /\ call[c].pc \in {"new"} \cup InTransaction
  BY DEF BeforeCommit, Arrive, EnforceWebhookRequest, EnforceExecutionCreation, ReserveReplay,
         LookUp, ReserveIdempotencyKey, LookUpAgain, RollBack, Open, InTransaction
<1>3. call'[c].pc # "enqueue"
  <2>1. CASE Arrive(c) BY <2>1 DEF Arrive, IngestionInv, IngestionTypeOK
  <2>2. CASE ReserveIdempotencyKey(c) /\ ~Reserved(c)
    BY <2>2, GotoFacts DEF ReserveIdempotencyKey, IngestionInv
  <2>3. CASE QuietStep(c) BY <2>3, QuietSteps DEF Quiet, IngestionInv
  <2>. QED BY <2>1, <2>2, <2>3 DEF BeforeCommit, QuietStep
<1>. QED BY <1>1, <1>2, <1>3, StepsKeepInputs

LEMMA RowSeenAtCommit ==
  ASSUME IngestionInv, NEW c \in Calls, Commit(c) \/ AcknowledgementLost(c)
  PROVE  /\ call[c].pc = "commit" /\ c \notin committed
         /\ committed' = committed \cup {c} /\ UNCHANGED queued
         /\ Commit(c) => call'[c].pc = "enqueue"
         /\ AcknowledgementLost(c) => call'[c].pc = "failed"
         /\ \A d \in Calls : d # c => call'[d] = call[d]
<1>1. CallStep(c) BY DEF CallStep
<1>2. call[c].pc = "commit" /\ committed' = committed \cup {c} /\ UNCHANGED queued
  BY DEF Commit, AcknowledgementLost
<1>3. c \notin committed BY <1>2 DEF IngestionInv, PcInv
<1>4. Commit(c) => call'[c].pc = "enqueue" BY DEF Commit, IngestionInv, IngestionTypeOK
<1>5. AcknowledgementLost(c) => call'[c].pc = "failed"
  BY GotoFacts DEF AcknowledgementLost, IngestionInv
<1>. QED BY <1>1, <1>2, <1>3, <1>4, <1>5, StepsKeepInputs

LEMMA JobSeenAfterCommit ==
  ASSUME IngestionInv, NEW c \in Calls, Enqueue(c) \/ EnqueueUnrecorded(c) \/ EnqueueRefused(c)
  PROVE  /\ call[c].pc = "enqueue" /\ call'[c].pc \in {"accepted", "failed"}
         /\ c \in committed /\ UNCHANGED committed
         /\ queued' \in {queued, queued \cup {c}}
         /\ \A d \in Calls : d # c => call'[d] = call[d]
<1>1. CallStep(c) BY DEF CallStep
<1>2. call'[c].pc \in {"accepted", "failed"}
  BY GotoFacts DEF Enqueue, EnqueueUnrecorded, EnqueueRefused, IngestionInv
<1>3. c \in committed
  BY DEF Enqueue, EnqueueUnrecorded, EnqueueRefused, IngestionInv, PcInv
<1>. QED
  BY <1>1, <1>2, <1>3, StepsKeepInputs DEF Enqueue, EnqueueUnrecorded, EnqueueRefused

LEMMA AnswersPreserved ==
  ASSUME IngestionInv, AnswersInv, NEW c \in Calls, CallStep(c)
  PROVE  AnswersInv'
<1>. USE DEF IngestionInv
<1>1. committed \subseteq Calls /\ \A r \in committed : call[r].pc # "new"
  BY DEF IngestionTypeOK, PcInv
<1>2. ASSUME NEW d \in Calls, NEW r, call[d].pc # "new", Answers(d, r) PROVE Answers(d, r)'
  <2>1. r \in Calls /\ call[r].pc # "new" /\ r \in committed'
    BY <1>1, <1>2, StepsKeepInputs DEF Answers
  <2>2. Input(d)' = Input(d) /\ Input(r)' = Input(r)
    BY <1>2, <2>1, StepsKeepInputs DEF Input
  <2>. QED BY <1>2, <2>1, <2>2 DEF Answers, Contends, SameKey
<1>3. ASSUME NEW d \in Calls, d # c, call'[d].pc = "accepted" PROVE Answers(d, call[d].answer)'
  BY <1>2, <1>3, StepsKeepInputs DEF AnswersInv
<1>4. ASSUME call'[c].pc = "accepted" PROVE Answers(c, call[c].answer)'
  <2>1. CASE \E r \in Matching(c) : AnswerWith(c, r) /\ call[c].pc \in {"lookup", "relookup"}
    <3>1. PICK r \in Matching(c) : AnswerWith(c, r) /\ call[c].pc \in {"lookup", "relookup"}
      BY <2>1
    <3>2. r \in committed /\ r \in Calls BY <1>1 DEF Matching, WebhookRows
    <3>3. call'[c].answer = r /\ Input(r).payload = Input(c).payload
      BY <1>4, <3>1, <3>2, AnswerFacts
    <3>4. Contends(c) BY <3>1 DEF PcInv
    <3>5. Answers(c, r) BY <3>2, <3>3, <3>4 DEF Answers, Matching, WebhookRows, SameKey, Contends
    <3>. QED BY <1>2, <3>1, <3>3, <3>5
  <2>2. CASE Enqueue(c)
    <3>1. call[c].pc = "enqueue" /\ call'[c].answer = call[c].answer
      BY <2>2, GotoFacts DEF Enqueue
    <3>2. Answers(c, c) /\ call[c].answer = c
      BY <3>1 DEF PcInv, Answers, Contends, SameKey
    <3>. QED BY <1>2, <3>1, <3>2
  <2>3. CASE ~Enqueue(c) /\ ~\E r \in Matching(c) :
               AnswerWith(c, r) /\ call[c].pc \in {"lookup", "relookup"}
    <3>1. \A pc : Advance(c, pc) /\ pc # "accepted" => call'[c].pc # "accepted" BY GotoFacts
    <3>2. Arrive(c) \/ Commit(c) => call'[c].pc # "accepted" BY DEF Arrive, Commit, IngestionTypeOK
    <3>3. EnforceWebhookRequest(c) \/ EnforceExecutionCreation(c) => call'[c].pc # "accepted"
      BY <3>1 DEF EnforceWebhookRequest, EnforceExecutionCreation
    <3>4. ReserveReplay(c) \/ ReserveIdempotencyKey(c) => call'[c].pc # "accepted"
      BY <3>1 DEF ReserveReplay, ReserveIdempotencyKey
    <3>5. LookUp(c) \/ LookUpAgain(c) => call'[c].pc # "accepted"
      BY <2>3, <3>1 DEF LookUp, LookUpAgain
    <3>6. RollBack(c) \/ AcknowledgementLost(c) \/ EnqueueRefused(c) \/ EnqueueUnrecorded(c)
            => call'[c].pc # "accepted"
      BY <3>1 DEF RollBack, AcknowledgementLost, EnqueueRefused, EnqueueUnrecorded
    <3>. QED BY <1>4, <2>3, <3>2, <3>3, <3>4, <3>5, <3>6 DEF CallStep
  <2>. QED BY <2>1, <2>2, <2>3
<1>. QED BY <1>3, <1>4, StepsKeepInputs DEF AnswersInv

LEMMA NextAnswers == IngestionInv /\ AnswersInv /\ [IngestionNext]_ingestionVars => AnswersInv'
<1>. SUFFICES ASSUME IngestionInv, AnswersInv, [IngestionNext]_ingestionVars PROVE AnswersInv' OBVIOUS
<1>1. CASE \E c \in Calls : CallStep(c) BY <1>1, AnswersPreserved
<1>2. CASE UNCHANGED <<call, committed>>
  BY <1>2 DEF AnswersInv, Answers, Contends, SameKey, Input
<1>. QED BY <1>1, <1>2 DEF IngestionNext, ExpireKey, ingestionVars

\* However a key is resent, each accepted call is told of the one execution of its key, and of
\* an execution that exists.
THEOREM ResendsAreAnsweredAlike == IngestionSpec => []AnswersAgree
<1>1. IngestionInit => AnswersInv BY DEF IngestionInit, AnswersInv
<1>2. IngestionInv /\ AnswersInv /\ [IngestionNext]_ingestionVars => AnswersInv' BY NextAnswers
<1>3. IngestionInv /\ AnswersInv => AnswersAgree
  <2>. SUFFICES ASSUME IngestionInv, AnswersInv PROVE AnswersAgree OBVIOUS
  <2>1. ASSUME NEW c \in Calls, NEW d \in Calls,
               call[c].pc = "accepted", call[d].pc = "accepted", SameKey(c, d)
        PROVE  call[c].answer = call[d].answer
    <3>1. SameKey(c, call[c].answer) /\ SameKey(d, call[d].answer)
      BY <2>1 DEF AnswersInv, Answers, SameKey, Contends
    <3>2. SameKey(call[c].answer, call[d].answer) BY <2>1, <3>1 DEF SameKey
    <3>. QED BY <2>1, <3>2 DEF AnswersInv, Answers, IngestionInv, ExclusionInv, OneExecutionPerKey
  <2>. QED BY <2>1 DEF AnswersAgree, AnswersInv, Answers
<1>. QED BY <1>1, <1>2, <1>3, IngestionInvariant, PTL DEF IngestionSpec

---------------------------------------------------------------------------
(***************************************************************************)
(* Plan limits: the calls that a limit has admitted, committed or not yet, *)
(* are never more than the limit and the transactions that can be open.    *)
(***************************************************************************)

PastLimits == {"replay", "lookup", "reserve", "relookup", "commit"}
Admitted == committed \cup {c \in Calls : call[c].pc \in PastLimits}
AdmittedWebhooks ==
  WebhookRows \cup
    {c \in Calls : /\ call[c].pc \in PastLimits \cup {"execution_limit"}
                  /\ Input(c).trigger = "webhook"}

OvershootInv ==
  /\ Cardinality(Open) <= MaxOpen
  /\ Cardinality(Admitted) <= ExecutionLimit + MaxOpen - 1
  /\ Cardinality(AdmittedWebhooks) <= WebhookLimit + MaxOpen - 1

\* Only arriving opens a transaction, and only the two limits admit a call.
LEMMA WhoIsAdmitted ==
  ASSUME IngestionInv, NEW c \in Calls, CallStep(c)
  PROVE  /\ \/ Open' \subseteq Open
            \/ Open' \subseteq Open \cup {c} /\ Cardinality(Open) < MaxOpen
         /\ \/ Admitted' \subseteq Admitted
            \/ /\ Admitted' \subseteq committed \cup Open
               /\ ~LimitReached(Cardinality(committed), ExecutionLimit)
         /\ \/ AdmittedWebhooks' \subseteq AdmittedWebhooks
            \/ /\ AdmittedWebhooks' \subseteq WebhookRows \cup Open
               /\ ~LimitReached(Cardinality(WebhookRows), WebhookLimit)
<1>. USE DEF IngestionInv
<1>1. \A d \in committed : d \in Calls /\ call[d].pc # "new" BY DEF IngestionTypeOK, PcInv
<1>2. \A d \in Calls : call[d].pc # "new" => call'[d].input = call[d].input
  BY StepsKeepInputs
<1>3. \A d \in Calls : d # c => call'[d] = call[d] BY StepsKeepInputs
<1>4. ASSUME committed' = committed, call[c].pc # "new",
             call'[c].pc \in PastLimits => call[c].pc \in PastLimits,
             call'[c].pc = "execution_limit" => call[c].pc = "execution_limit",
             call'[c].pc \in InTransaction => call[c].pc \in InTransaction
      PROVE  Open' \subseteq Open /\ Admitted' \subseteq Admitted
             /\ AdmittedWebhooks' \subseteq AdmittedWebhooks
  BY <1>1, <1>2, <1>3, <1>4
     DEF Open, Admitted, AdmittedWebhooks, WebhookRows, Input, PastLimits
<1>5. CASE Arrive(c)
  <2>1. call[c].pc = "new" /\ committed' = committed /\ Cardinality(Open) < MaxOpen
    BY <1>5 DEF Arrive
  <2>2. PICK i \in Inputs :
          call'[c] = [pc |-> IF i.trigger = "webhook" THEN "webhook_limit" ELSE "execution_limit",
                      input |-> i, answer |-> Nothing]
    BY <1>5 DEF Arrive, IngestionTypeOK
  <2>3. Open' \subseteq Open \cup {c} BY <1>3 DEF Open
  <2>4. Admitted' \subseteq Admitted
    BY <1>3, <2>1, <2>2 DEF Admitted, PastLimits
  <2>5. AdmittedWebhooks' \subseteq AdmittedWebhooks
    BY <1>1, <1>3, <2>1, <2>2 DEF AdmittedWebhooks, WebhookRows, Input, PastLimits
  <2>. QED BY <2>1, <2>3, <2>4, <2>5
<1>6. CASE EnforceWebhookRequest(c)
  <2>1. call[c].pc = "webhook_limit" /\ committed' = committed
    BY <1>6 DEF EnforceWebhookRequest
  <2>2. CASE LimitReached(Cardinality(WebhookRows), WebhookLimit)
    <3>1. call'[c].pc = "rejected" BY <1>6, <2>2, GotoFacts DEF EnforceWebhookRequest
    <3>. QED BY <1>4, <2>1, <3>1 DEF PastLimits, InTransaction
  <2>3. CASE ~LimitReached(Cardinality(WebhookRows), WebhookLimit)
    <3>1. call'[c].pc = "execution_limit" BY <1>6, <2>3, GotoFacts DEF EnforceWebhookRequest
    <3>2. Open' \subseteq Open /\ Admitted' \subseteq Admitted
      BY <1>3, <2>1, <3>1 DEF Open, Admitted, PastLimits, InTransaction
    <3>3. AdmittedWebhooks' \subseteq WebhookRows \cup Open
      BY <1>1, <1>2, <1>3, <2>1, <3>1
         DEF AdmittedWebhooks, WebhookRows, Input, Open, PastLimits, InTransaction
    <3>. QED BY <2>3, <3>2, <3>3
  <2>. QED BY <2>2, <2>3
<1>7. CASE EnforceExecutionCreation(c)
  <2>1. call[c].pc = "execution_limit" /\ committed' = committed
    BY <1>7 DEF EnforceExecutionCreation
  <2>2. CASE LimitReached(Cardinality(committed), ExecutionLimit)
    <3>1. call'[c].pc = "rejected" BY <1>7, <2>2, GotoFacts DEF EnforceExecutionCreation
    <3>. QED BY <1>4, <2>1, <3>1 DEF PastLimits, InTransaction
  <2>3. CASE ~LimitReached(Cardinality(committed), ExecutionLimit)
    <3>1. call'[c].pc \in {"replay", "commit"}
      BY <1>7, <2>3, GotoFacts DEF EnforceExecutionCreation
    <3>2. Open' \subseteq Open /\ Admitted' \subseteq committed \cup Open
      BY <1>3, <2>1, <3>1 DEF Open, Admitted, PastLimits, InTransaction
    <3>3. AdmittedWebhooks' \subseteq AdmittedWebhooks
      BY <1>1, <1>2, <1>3, <2>1, <3>1 DEF AdmittedWebhooks, WebhookRows, Input, PastLimits
    <3>. QED BY <2>3, <3>2, <3>3
  <2>. QED BY <2>2, <2>3
<1>8. CASE ReserveReplay(c) \/ ReserveIdempotencyKey(c)
  BY <1>4, <1>8, GotoFacts DEF ReserveReplay, ReserveIdempotencyKey, PastLimits, InTransaction
<1>9. CASE LookUp(c) \/ LookUpAgain(c)
  <2>1. call'[c].pc \in {"reserve", "rejected", "accepted"}
    <3>1. \A r \in Matching(c) : r \in Calls BY <1>1 DEF Matching, WebhookRows
    <3>. QED BY <1>9, <3>1, GotoFacts, AnswerFacts DEF LookUp, LookUpAgain
  <2>. QED BY <1>4, <1>9, <2>1 DEF LookUp, LookUpAgain, PastLimits, InTransaction
<1>10. CASE Commit(c) \/ AcknowledgementLost(c)
  <2>1. call[c].pc = "commit" /\ committed' = committed \cup {c}
    BY <1>10 DEF Commit, AcknowledgementLost
  <2>2. call'[c].pc \in {"enqueue", "failed"}
    BY <1>10, GotoFacts DEF Commit, AcknowledgementLost, IngestionTypeOK
  <2>. QED
    BY <1>1, <1>2, <1>3, <2>1, <2>2
       DEF Open, Admitted, AdmittedWebhooks, WebhookRows, Input, PastLimits, InTransaction
<1>11. CASE Enqueue(c) \/ RollBack(c) \/ EnqueueRefused(c) \/ EnqueueUnrecorded(c)
  BY <1>4, <1>11, GotoFacts
     DEF Enqueue, RollBack, EnqueueRefused, EnqueueUnrecorded, Open, PastLimits, InTransaction
<1>. QED BY <1>5, <1>6, <1>7, <1>8, <1>9, <1>10, <1>11 DEF CallStep

LEMMA AdmissionBound ==
  ASSUME NEW S \in SUBSET Calls, NEW T \in SUBSET Calls, NEW U, U \subseteq S \cup T,
         NEW limit \in Nat, ~LimitReached(Cardinality(S), limit), Cardinality(T) <= MaxOpen
  PROVE  Cardinality(U) <= limit + MaxOpen - 1
<1>1. IsFiniteSet(S) /\ IsFiniteSet(T) /\ IsFiniteSet(S \cap T)
  BY FS_Subset
<1>2. /\ IsFiniteSet(S \cup T)
      /\ Cardinality(S \cup T) = Cardinality(S) + Cardinality(T) - Cardinality(S \cap T)
  BY <1>1, FS_Union
<1>3. Cardinality(U) <= Cardinality(S \cup T) /\ IsFiniteSet(U) BY <1>2, FS_Subset
<1>4. /\ Cardinality(S) \in Nat /\ Cardinality(T) \in Nat /\ Cardinality(S \cap T) \in Nat
      /\ Cardinality(U) \in Nat
  BY <1>1, <1>3, FS_CardinalityType
<1>. QED BY <1>2, <1>3, <1>4 DEF LimitReached

\* A plan limit is overshot by at most the transactions that were open when it was reached.
THEOREM LimitsOvershootLittle == IngestionSpec => []OvershootBounded
<1>1. IngestionInit => OvershootInv
  <2>. SUFFICES ASSUME IngestionInit PROVE OvershootInv OBVIOUS
  <2>1. Open = {} /\ Admitted = {} /\ AdmittedWebhooks = {}
    BY DEF IngestionInit, Open, Admitted, AdmittedWebhooks, WebhookRows, InTransaction, PastLimits
  <2>. QED BY <2>1, FS_EmptySet DEF OvershootInv
<1>2. IngestionInv /\ OvershootInv /\ [IngestionNext]_ingestionVars => OvershootInv'
  <2>. SUFFICES ASSUME IngestionInv, OvershootInv, [IngestionNext]_ingestionVars PROVE OvershootInv' OBVIOUS
  <2>1. Open \subseteq Calls /\ committed \subseteq Calls /\ WebhookRows \subseteq Calls
        /\ Admitted \subseteq Calls /\ AdmittedWebhooks \subseteq Calls
    BY DEF Open, Admitted, AdmittedWebhooks, WebhookRows, IngestionInv, IngestionTypeOK
  <2>2. \A S, T \in SUBSET Calls : S \subseteq T =>
          Cardinality(S) <= Cardinality(T) /\ Cardinality(S) \in Nat /\ Cardinality(T) \in Nat
    BY FS_Subset, FS_CardinalityType
  <2>3. ASSUME NEW c \in Calls, CallStep(c) PROVE OvershootInv'
    <3>1. Cardinality(Open') <= MaxOpen
      <4>1. CASE Open' \subseteq Open BY <4>1, <2>1, <2>2 DEF OvershootInv
      <4>2. CASE Open' \subseteq Open \cup {c} /\ Cardinality(Open) < MaxOpen
        <5>1. IsFiniteSet(Open) BY <2>1, FS_Subset
        <5>2. Cardinality(Open \cup {c}) <= Cardinality(Open) + 1 /\ Cardinality(Open) \in Nat
          <6>1. Cardinality(Open) \in Nat BY <5>1, FS_CardinalityType
          <6>2. Cardinality(Open \cup {c})
                  = IF c \in Open THEN Cardinality(Open) ELSE Cardinality(Open) + 1
            BY <5>1, FS_AddElement
          <6>. QED BY <6>1, <6>2
        <5>3. Cardinality(Open') <= Cardinality(Open \cup {c})
              /\ Cardinality(Open') \in Nat /\ Cardinality(Open \cup {c}) \in Nat
          <6>1. IsFiniteSet(Open \cup {c}) BY <5>1, FS_AddElement
          <6>2. IsFiniteSet(Open') /\ Cardinality(Open') <= Cardinality(Open \cup {c})
            BY <6>1, <4>2, FS_Subset
          <6>. QED BY <6>1, <6>2, FS_CardinalityType
        <5>. QED BY <4>2, <5>2, <5>3
      <4>. QED BY <4>1, <4>2, <2>3, WhoIsAdmitted
    <3>2. Cardinality(Admitted') <= ExecutionLimit + MaxOpen - 1
      <4>1. CASE Admitted' \subseteq Admitted BY <4>1, <2>1, <2>2 DEF OvershootInv
      <4>2. CASE /\ Admitted' \subseteq committed \cup Open
                 /\ ~LimitReached(Cardinality(committed), ExecutionLimit)
        BY <4>2, <2>1, AdmissionBound DEF OvershootInv
      <4>. QED BY <4>1, <4>2, <2>3, WhoIsAdmitted
    <3>3. Cardinality(AdmittedWebhooks') <= WebhookLimit + MaxOpen - 1
      <4>1. CASE AdmittedWebhooks' \subseteq AdmittedWebhooks
        BY <4>1, <2>1, <2>2 DEF OvershootInv
      <4>2. CASE /\ AdmittedWebhooks' \subseteq WebhookRows \cup Open
                 /\ ~LimitReached(Cardinality(WebhookRows), WebhookLimit)
        BY <4>2, <2>1, AdmissionBound DEF OvershootInv
      <4>. QED BY <4>1, <4>2, <2>3, WhoIsAdmitted
    <3>. QED BY <3>1, <3>2, <3>3 DEF OvershootInv
  <2>4. CASE UNCHANGED <<call, committed>>
    BY <2>4 DEF OvershootInv, Open, Admitted, AdmittedWebhooks, WebhookRows, Input
  <2>. QED BY <2>3, <2>4 DEF IngestionNext, ExpireKey, ingestionVars
<1>3. IngestionInv /\ OvershootInv => OvershootBounded
  <2>. SUFFICES ASSUME IngestionInv, OvershootInv PROVE OvershootBounded OBVIOUS
  <2>1. /\ committed \subseteq Admitted /\ WebhookRows \subseteq AdmittedWebhooks
        /\ Admitted \subseteq Calls /\ AdmittedWebhooks \subseteq Calls
    BY DEF Admitted, AdmittedWebhooks, WebhookRows, IngestionInv, IngestionTypeOK
  <2>2. /\ Cardinality(committed) <= Cardinality(Admitted)
        /\ Cardinality(WebhookRows) <= Cardinality(AdmittedWebhooks)
        /\ Cardinality(committed) \in Nat /\ Cardinality(Admitted) \in Nat
        /\ Cardinality(WebhookRows) \in Nat /\ Cardinality(AdmittedWebhooks) \in Nat
    BY <2>1, FS_Subset, FS_CardinalityType
  <2>. QED BY <2>2 DEF OvershootInv, OvershootBounded
<1>. QED BY <1>1, <1>2, <1>3, IngestionInvariant, PTL DEF IngestionSpec
=============================================================================
