-------------------------- MODULE LlmGatewayProofs --------------------------
(***************************************************************************)
(* Proofs about LlmGateway for every number of retries and calls; nothing  *)
(* depends on what an adapter adds to a payload.                           *)
(*                                                                         *)
(*   RefusalsKept    RefusalSticks                                         *)
(*   RetriesBounded  PostsAreBounded                                       *)
(***************************************************************************)
EXTENDS LlmGateway, TLAPS

(* The call is a payload with a mode and a retry counter. *)
Shape ==
  /\ call = [mode |-> call.mode, tools |-> call.tools, key |-> call.key,
             fields |-> call.fields, attempt |-> call.attempt]
  /\ call.mode \in {"idle", "complete", "stream"}
  /\ call.tools \in BOOLEAN /\ call.fields \in BOOLEAN
  /\ call.attempt \in 0 .. MaxRetries
  /\ call.mode = "idle" => call = Idle

(* A refusal is remembered: no success that comes later can overwrite it,  *)
(* because nothing that was refused is in a payload.                       *)
Remembered == \A k \in refused : KnownRefused(k)

(* Every request of a call is a retry, a refusal or the last of a round. *)
Accounted ==
  /\ posts \in 0 .. 3 * (MaxRetries + 1)
  /\ call.mode = "stream" =>
       posts <= call.attempt + (IF call.key \in refused THEN 1 ELSE 0)
  /\ call.mode = "complete" =>
       posts <= call.attempt + (IF call.fields THEN 1 ELSE 2) * (MaxRetries + 1)

IInv == Shape /\ Remembered /\ RefusalSticks /\ Accounted
-----------------------------------------------------------------------------
LEMMA IdleFacts ==
  /\ Idle.mode = "idle" /\ ~Idle.tools /\ ~Idle.fields /\ Idle.attempt = 0
  /\ Idle.tools \in BOOLEAN /\ Idle.fields \in BOOLEAN
  /\ Idle = [mode |-> Idle.mode, tools |-> Idle.tools, key |-> Idle.key,
             fields |-> Idle.fields, attempt |-> Idle.attempt]
BY DEF Idle

LEMMA InitInv == Init => IInv
<1> SUFFICES ASSUME Init PROVE IInv
  OBVIOUS
<1>1. call = Idle /\ refused = {} /\ posts = 0
  BY DEF Init
<1>2. Shape
  <2>1. Idle.attempt \in 0 .. MaxRetries /\ Idle.mode \in {"idle", "complete", "stream"}
    BY IdleFacts, GatewayAssumption
  <2>2. QED
    BY <1>1, <2>1, IdleFacts, Zenon DEF Shape
<1>3. Remembered /\ RefusalSticks
  BY <1>1, IdleFacts DEF Remembered, RefusalSticks
<1>4. Accounted
  BY <1>1, IdleFacts, GatewayAssumption DEF Accounted
<1>5. QED
  BY <1>2, <1>3, <1>4 DEF IInv

(* Nothing that is refused is selected. *)
LEMMA PayloadFacts ==
  ASSUME NEW mode, NEW tools \in BOOLEAN, NEW key
  PROVE  LET p == Payload(mode, tools, key)
         IN /\ p.mode = mode /\ p.tools = tools /\ p.key = key /\ p.attempt = 0
            /\ p.fields \in BOOLEAN
            /\ p.fields => ~KnownRefused(key)
            /\ p = [mode |-> p.mode, tools |-> p.tools, key |-> p.key,
                    fields |-> p.fields, attempt |-> p.attempt]
BY DEF Payload, WithFields

(* The end of a call. *)
LEMMA ReturnStep ==
  ASSUME IInv, NEW r, Return(r), Remembered', posts' \in 0 .. 3 * (MaxRetries + 1)
  PROVE  IInv'
<1>1. call' = Idle
  BY DEF Return
<1>2. Shape'
  <2>1. Idle.attempt \in 0 .. MaxRetries /\ Idle.mode \in {"idle", "complete", "stream"}
    BY IdleFacts, GatewayAssumption
  <2>2. QED
    BY <1>1, <2>1, IdleFacts, Zenon DEF Shape
<1>3. RefusalSticks' /\ Accounted'
  BY <1>1, IdleFacts DEF RefusalSticks, Accounted
<1>4. QED
  BY <1>2, <1>3 DEF IInv

(* A round of requests begins, in a mode of its own. *)
LEMMA RoundStep ==
  ASSUME IInv, NEW mode \in {"complete", "stream"}, NEW tools \in BOOLEAN, NEW key,
         call' = Payload(mode, tools, key), UNCHANGED <<known, refused>>,
         mode = "complete" /\ tools => tool_capable # FALSE,
         posts' \in Nat, mode = "stream" => posts' = 0,
         mode = "complete" => posts' <= MaxRetries + 1 + (IF key \in refused THEN 1 ELSE 0)
  PROVE  IInv'
<1>1. /\ call'.mode = mode /\ call'.tools = tools /\ call'.key = key /\ call'.attempt = 0
      /\ call'.fields \in BOOLEAN /\ (call'.fields => ~KnownRefused(key))
      /\ call' = [mode |-> call'.mode, tools |-> call'.tools, key |-> call'.key,
                  fields |-> call'.fields, attempt |-> call'.attempt]
  BY PayloadFacts
<1>2. Shape'
  BY <1>1, GatewayAssumption DEF Shape
<1>3. Remembered'
  BY DEF IInv, Remembered, KnownRefused, known
<1>4. call'.fields => key \notin refused
  BY <1>1 DEF IInv, Remembered
<1>5. RefusalSticks'
  BY <1>1, <1>4 DEF RefusalSticks, known
<1>6. Accounted'
  BY <1>1, <1>4, GatewayAssumption DEF Accounted
<1>7. QED
  BY <1>2, <1>3, <1>5, <1>6 DEF IInv

(* A request in flight: one more fits. *)
LEMMA OneMore ==
  ASSUME IInv, call # Idle, Sent
  PROVE  /\ posts' \in 0 .. 3 * (MaxRetries + 1) /\ posts' = posts + 1
         /\ call.mode \in {"complete", "stream"}
<1>1. call.mode \in {"complete", "stream"} /\ call.attempt \in 0 .. MaxRetries
  BY DEF IInv, Shape
<1>2. QED
  BY <1>1, GatewayAssumption DEF IInv, Accounted, Sent

LEMMA AskStep ==
  ASSUME IInv, NEW tools \in BOOLEAN, NEW key, NEW streaming \in BOOLEAN,
         Ask(tools, key, streaming)
  PROVE  IInv'
<1>1. posts' = 0 /\ UNCHANGED <<known, refused>>
  BY DEF Ask
<1>2. CASE streaming
  BY <1>1, <1>2, RoundStep, GatewayAssumption DEF Ask
<1>3. CASE ~streaming /\ ~(tools /\ tool_capable = FALSE)
  <2>1. call' = Payload("complete", tools, key)
    BY <1>3 DEF Ask, StartComplete
  <2>2. posts' \in Nat /\ posts' <= MaxRetries + 1 + (IF key \in refused THEN 1 ELSE 0)
    BY <1>1, GatewayAssumption
  <2>3. tools => tool_capable # FALSE
    BY <1>3
  <2>4. QED
    BY <1>1, <2>1, <2>2, <2>3, RoundStep
<1>4. CASE ~streaming /\ tools /\ tool_capable = FALSE
  <2>1. Remembered'
    BY <1>1 DEF IInv, Remembered, KnownRefused, known
  <2>2. QED
    BY <1>1, <1>4, <2>1, ReturnStep, GatewayAssumption DEF Ask, StartComplete
<1>5. QED
  BY <1>2, <1>3, <1>4

LEMMA RefuseReasoningStep == ASSUME IInv, RefuseReasoning PROVE IInv'
<1>1. call.fields /\ call # Idle /\ Sent /\ call.key \notin refused
  BY IdleFacts DEF RefuseReasoning, IInv, RefusalSticks
<1>2. /\ posts' \in 0 .. 3 * (MaxRetries + 1) /\ posts' = posts + 1
      /\ call.mode \in {"complete", "stream"}
  BY <1>1, OneMore
<1>3. /\ call'.mode = call.mode /\ call'.tools = call.tools /\ call'.key = call.key
      /\ ~call'.fields /\ call'.fields \in BOOLEAN
      /\ call'.attempt = IF call.mode = "complete" THEN 0 ELSE call.attempt
      /\ call' = [mode |-> call'.mode, tools |-> call'.tools, key |-> call'.key,
                  fields |-> call'.fields, attempt |-> call'.attempt]
  BY DEF RefuseReasoning, IInv, Shape
<1>4. Shape'
  BY <1>2, <1>3, GatewayAssumption DEF IInv, Shape
<1>5. Remembered'
  BY DEF RefuseReasoning, RememberRefusal, Noted, IInv, Remembered, KnownRefused
<1>6. RefusalSticks'
  BY <1>3 DEF RefuseReasoning, IInv, RefusalSticks
<1>7. Accounted'
  BY <1>1, <1>2, <1>3, GatewayAssumption DEF RefuseReasoning, IInv, Accounted, Shape
<1>8. QED
  BY <1>4, <1>5, <1>6, <1>7 DEF IInv

(* What a success notes was not refused. *)
LEMMA SuccessKept ==
  ASSUME IInv, RememberSuccess \/ UNCHANGED reasoning_capable, UNCHANGED refused
  PROVE  Remembered'
BY DEF RememberSuccess, Noted, IInv, Remembered, RefusalSticks, KnownRefused

LEMMA TransientStep == ASSUME IInv, Transient PROVE IInv'
<1>1. call # Idle /\ Sent
  BY DEF Transient
<1>2. /\ posts' \in 0 .. 3 * (MaxRetries + 1) /\ posts' = posts + 1
      /\ call.mode \in {"complete", "stream"}
  BY <1>1, OneMore
<1>3. UNCHANGED <<known, refused>>
  BY DEF Transient, Again
<1>4. Remembered'
  BY <1>3 DEF IInv, Remembered, KnownRefused, known
<1>5. CASE RetriesLeft /\ Again
  <2>1. /\ call'.mode = call.mode /\ call'.tools = call.tools /\ call'.key = call.key
        /\ call'.fields = call.fields /\ call'.attempt = call.attempt + 1
        /\ call' = [mode |-> call'.mode, tools |-> call'.tools, key |-> call'.key,
                    fields |-> call'.fields, attempt |-> call'.attempt]
    BY <1>5 DEF Again, IInv, Shape
  <2>2. Shape'
    BY <1>2, <1>5, <2>1, GatewayAssumption DEF IInv, Shape, RetriesLeft
  <2>3. RefusalSticks'
    BY <1>3, <2>1 DEF IInv, RefusalSticks, known
  <2>4. Accounted'
    BY <1>2, <1>3, <2>1, GatewayAssumption DEF IInv, Accounted, Shape
  <2>5. QED
    BY <1>4, <2>2, <2>3, <2>4 DEF IInv
<1>6. CASE ~RetriesLeft /\ call.mode = "stream" /\ StartComplete(call.tools, call.key)
  <2>1. posts' <= MaxRetries + 1 + (IF call.key \in refused THEN 1 ELSE 0)
    BY <1>2, <1>6, GatewayAssumption DEF IInv, Accounted, Shape
  <2>2. CASE call.tools /\ tool_capable = FALSE
    BY <1>2, <1>4, <1>6, <2>2, ReturnStep DEF StartComplete
  <2>3. CASE ~(call.tools /\ tool_capable = FALSE)
    <3>1. call' = Payload("complete", call.tools, call.key) /\ call.tools \in BOOLEAN
      BY <1>6, <2>3 DEF StartComplete, IInv, Shape
    <3>2. posts' \in Nat
      BY <1>2
    <3>3. QED
      BY <1>3, <2>1, <2>3, <3>1, <3>2, RoundStep
  <2>4. QED
    BY <2>2, <2>3
<1>7. CASE Return("transient")
  BY <1>2, <1>4, <1>7, ReturnStep
<1>8. QED
  BY <1>5, <1>6, <1>7 DEF Transient

LEMMA EndStep ==
  ASSUME IInv, RefuseTools \/ Reject \/ Answer \/ Malformed
  PROVE  IInv'
<1>1. call # Idle /\ Sent /\ UNCHANGED refused
  BY IdleFacts DEF RefuseTools, Reject, Answer, Malformed
<1>2. posts' \in 0 .. 3 * (MaxRetries + 1)
  BY <1>1, OneMore
<1>3. RememberSuccess \/ UNCHANGED reasoning_capable
  BY DEF RefuseTools, Reject, Answer, Malformed, known
<1>4. Remembered'
  BY <1>1, <1>3, SuccessKept
<1>5. PICK r : Return(r)
  BY DEF RefuseTools, Reject, Answer, Malformed
<1>6. QED
  BY <1>2, <1>4, <1>5, ReturnStep

LEMMA TimeOutStep == ASSUME IInv, TimeOut PROVE IInv'
<1>1. Return("timeout") /\ UNCHANGED <<known, refused, posts>>
  BY DEF TimeOut
<1>2. Remembered' /\ posts' \in 0 .. 3 * (MaxRetries + 1)
  BY <1>1 DEF IInv, Remembered, KnownRefused, known, Accounted
<1>3. QED
  BY <1>1, <1>2, ReturnStep

LEMMA StepInv == ASSUME IInv, [Next]_vars PROVE IInv'
<1>1. ASSUME NEW tools \in BOOLEAN, NEW streaming \in BOOLEAN, NEW key, Ask(tools, key, streaming)
      PROVE  IInv'
  BY <1>1, AskStep
<1>2. CASE Reply
  BY <1>2, RefuseReasoningStep, TransientStep, EndStep, TimeOutStep DEF Reply
<1>3. CASE UNCHANGED vars
  BY <1>3 DEF vars, IInv, Shape, Remembered, KnownRefused, RefusalSticks, Accounted
<1>4. QED
  BY <1>1, <1>2, <1>3 DEF Next
-----------------------------------------------------------------------------
(* The inductive invariant holds in every reachable state. *)
THEOREM Invariance == Spec => []IInv
<1>1. Init => IInv
  BY InitInv
<1>2. IInv /\ [Next]_vars => IInv'
  BY StepInv
<1>3. QED
  BY <1>1, <1>2, PTL DEF Spec

(* What the provider refused is not sent again, in this call or a later    *)
(* one, whatever the adapters, the replies and the callers' timeouts.      *)
THEOREM RefusalsKept == Spec => []RefusalSticks
<1>1. IInv => RefusalSticks
  BY DEF IInv
<1>2. QED
  BY <1>1, Invariance, PTL

(* A call sends three rounds of max_retries + 1 requests at most. *)
THEOREM RetriesBounded == Spec => []PostsAreBounded
<1>1. IInv => PostsAreBounded
  BY GatewayAssumption DEF IInv, Shape, Accounted, PostsAreBounded
<1>2. QED
  BY <1>1, Invariance, PTL
=============================================================================
