-------------------------- MODULE ImsiSwitch_proofs -------------------------
(***************************************************************************)
(* The IMSI switch receiver, for any messages, devices and clients, and any *)
(* number of lost deliveries, lost acks and restarts.                       *)
(***************************************************************************)
EXTENDS ImsiSwitch, SequenceTheorems, TLAPS

(* The steps of broker, receiver and clients, named one by one. *)
LEMMA SwitchSteps ==
  ASSUME [SwitchNext]_switchVars
  PROVE  \/ \E m \in Messages : Publish(m)
         \/ \E m \in Messages : Redeliver(m)
         \/ Deliver
         \/ LoseDelivery
         \/ RemoveConsumer
         \/ StoreDecision
         \/ \E c \in Clients : Encode(c)
         \/ \E c \in Clients, d \in Devices : Lookup(c, d)
         \/ \E c \in Clients, d \in Devices, status \in Final \cup {"later"} :
              Respond(c, d, status)
         \/ Restart
         \/ UNCHANGED switchVars
BY DEF SwitchNext

LEMMA MessageType ==
  ASSUME NEW m \in Messages
  PROVE  DeviceOf[m] \in Devices /\ m # NoMessage
BY SwitchAssumption DEF Devices

(* The stream as it is, and after a message is added to it.                 *)
LEMMA StreamFacts ==
  ASSUME SwitchTypeOK
  PROVE  /\ Len(stream) \in Nat
         /\ \A i \in 1 .. Len(stream) : stream[i] \in Messages
         /\ \A i \in 1 .. next - 1 : i \in 1 .. Len(stream)
BY DEF SwitchTypeOK

LEMMA StreamGrows ==
  ASSUME SwitchTypeOK, NEW m \in Messages, Publish(m)
  PROVE  /\ stream' \in Seq(Messages) /\ IsInjective(stream')
         /\ Len(stream') = Len(stream) + 1
         /\ \A i \in 1 .. Len(stream) : stream'[i] = stream[i]
<1>1. /\ stream \in Seq(Messages) /\ IsInjective(stream) /\ stream' = Append(stream, m)
      /\ m \notin {stream[i] : i \in 1 .. Len(stream)}
  BY DEF Publish, SwitchTypeOK, Published, ToSet
<1>2. /\ stream' \in Seq(Messages) /\ Len(stream) \in Nat
      /\ Len(stream') = Len(stream) + 1 /\ stream'[Len(stream) + 1] = m
      /\ \A i \in 1 .. Len(stream) : stream'[i] = stream[i]
      /\ DOMAIN stream' = 1 .. Len(stream) + 1 /\ DOMAIN stream = 1 .. Len(stream)
  BY <1>1
<1>3. \A i, j \in 1 .. Len(stream) : stream[i] = stream[j] => i = j
  BY <1>1, <1>2 DEF IsInjective
<1>4. \A i \in 1 .. Len(stream) + 1 : i \in 1 .. Len(stream) \/ i = Len(stream) + 1
  BY <1>2
<1>5. \A i, j \in 1 .. Len(stream) + 1 : stream'[i] = stream'[j] => i = j
  BY <1>1, <1>2, <1>3, <1>4
<1> QED BY <1>2, <1>5 DEF IsInjective

(* What the callback changes when it makes a decision of its message m: the *)
(* decision is the next one, not answered, and pending for its device.      *)
Makes(m) ==
  LET n == Len(made) + 1 IN
  /\ Len(made') = n /\ made'[n] = m /\ answered'[n] = 0
  /\ \A k \in Decisions : made'[k] = made[k] /\ answered'[k] = answered[k]
  /\ pending' = [pending EXCEPT ![DeviceOf[m]] = n]

LEMMA DecisionIsMade ==
  ASSUME SwitchTypeOK, StoreDecision, handling \notin Malformed
  PROVE  /\ handling \in Messages /\ Makes(handling)
         /\ made' \in Seq(Messages \ Malformed)
         /\ answered' \in Seq(Nat) /\ Len(answered') = Len(made')
<1>1. /\ handling \in Messages \ Malformed
      /\ made \in Seq(Messages \ Malformed) /\ answered \in Seq(Nat)
      /\ Len(answered) = Len(made)
      /\ made' = Append(made, handling) /\ answered' = Append(answered, 0)
      /\ pending' = [pending EXCEPT ![DeviceOf[handling]] = Len(made) + 1]
  BY DEF SwitchTypeOK, StoreDecision
<1> QED BY <1>1 DEF Makes, Decisions

LEMMA DecisionFacts ==
  ASSUME SwitchTypeOK
  PROVE  /\ Len(made) \in Nat /\ born \in Nat
         /\ \A k \in Decisions : /\ k \in Nat /\ k > 0 /\ answered[k] \in Nat
                                 /\ made[k] \in Messages \ Malformed /\ For(k) \in Devices
<1>1. /\ Len(made) \in Nat /\ born \in Nat
      /\ \A k \in Decisions : /\ k \in Nat /\ k > 0 /\ answered[k] \in Nat
                              /\ made[k] \in Messages \ Malformed
  BY DEF SwitchTypeOK, Decisions
<1> QED BY <1>1, MessageType DEF For

LEMMA SwitchTypeInit == SwitchInit => SwitchTypeOK
<1> SUFFICES ASSUME SwitchInit PROVE SwitchTypeOK
  OBVIOUS
<1>1. IsInjective(stream) /\ stream \in Seq(Messages)
  BY DEF SwitchInit, IsInjective
<1>2. made \in Seq(Messages \ Malformed) /\ answered \in Seq(Nat) /\ Len(answered) = Len(made)
  BY DEF SwitchInit
<1> QED
  BY <1>1, <1>2, SwitchAssumption DEF SwitchInit, SwitchTypeOK, Maybe, NoDecision, Decisions

LEMMA SwitchTypeNext == SwitchTypeOK /\ [SwitchNext]_switchVars => SwitchTypeOK'
<1> SUFFICES ASSUME SwitchTypeOK, [SwitchNext]_switchVars PROVE SwitchTypeOK'
  OBVIOUS
<1> USE DEF SwitchTypeOK, Maybe, NoDecision, Decisions, brokerVars, clientVars, historyVars
<1>1. ASSUME NEW m \in Messages, Publish(m) PROVE SwitchTypeOK'
  <2>1. /\ stream' \in Seq(Messages) /\ IsInjective(stream') /\ Len(stream') = Len(stream) + 1
        /\ Len(stream) \in Nat
    BY <1>1, StreamGrows, StreamFacts
  <2> QED BY <1>1, <2>1 DEF Publish
<1>2. ASSUME NEW m \in Messages, Redeliver(m) PROVE SwitchTypeOK'
  BY <1>2 DEF Redeliver
<1>3. ASSUME Deliver \/ LoseDelivery PROVE SwitchTypeOK'
  <2>1. /\ stream[next] \in Messages /\ next' \in 1 .. Len(stream) + 1
        /\ unacked' = unacked \cup {stream[next]} /\ handling' \in {handling, stream[next]}
        /\ disruptions' \in 0 .. MaxDisruptions
    BY <1>3, StreamFacts, SwitchAssumption DEF Deliver, LoseDelivery, Disrupt
  <2> QED BY <1>3, <2>1 DEF Deliver, LoseDelivery
<1>4. ASSUME RemoveConsumer PROVE SwitchTypeOK'
  BY <1>4 DEF RemoveConsumer
<1>5. ASSUME StoreDecision PROVE SwitchTypeOK'
  <2>1. /\ handling' = NoMessage /\ unacked' \in SUBSET Messages
        /\ disruptions' \in 0 .. MaxDisruptions
        /\ UNCHANGED <<stream, consumer, next, clientVars, born, answers>>
    BY <1>5, SwitchAssumption DEF StoreDecision, Acknowledge, Disrupt
  <2>2. CASE handling \in Malformed
    BY <1>5, <2>1, <2>2 DEF StoreDecision
  <2>3. CASE handling \notin Malformed
    <3>1. /\ Len(made) \in Nat /\ Len(made') = Len(made) + 1
          /\ made' \in Seq(Messages \ Malformed)
          /\ answered' \in Seq(Nat) /\ Len(answered') = Len(made')
          /\ pending' = [pending EXCEPT ![DeviceOf[handling]] = Len(made) + 1]
      BY <1>5, <2>3, DecisionIsMade DEF Makes
    <3>2. 0 .. Len(made) \subseteq 0 .. Len(made') /\ 1 .. Len(made) \subseteq 1 .. Len(made')
      BY <3>1
    <3>3. pending' \in [Devices -> (1 .. Len(made')) \cup {0}]
      <4>1. Len(made) + 1 \in 1 .. Len(made')
        BY <3>1
      <4>2. \A d \in Devices : pending[d] \in (1 .. Len(made')) \cup {0}
        BY <3>2
      <4> QED BY <3>1, <4>1, <4>2
    <3> QED BY <2>1, <3>1, <3>2, <3>3
  <2> QED BY <2>2, <2>3
<1>6. ASSUME NEW c \in Clients, Encode(c) PROVE SwitchTypeOK'
  BY <1>6 DEF Encode
<1>7. ASSUME NEW c \in Clients, NEW d \in Devices, Lookup(c, d) PROVE SwitchTypeOK'
  BY <1>7 DEF Lookup
<1>8. ASSUME NEW c \in Clients, NEW d \in Devices, NEW status, Respond(c, d, status)
      PROVE  SwitchTypeOK'
  <2>1. pending[d] \in 1 .. Len(made)
    BY <1>8 DEF Respond
  <2>2. CASE status \notin Final
    BY <1>8, <2>2 DEF Respond
  <2>3. CASE status \in Final
    <3>1. Seen(c, d) \X {pending[d]} \subseteq Decisions \X Decisions
      BY <2>1 DEF Seen
    <3>2. answered[pending[d]] + 1 \in Nat /\ pending[d] \in 1 .. Len(answered)
      BY <2>1
    <3>3. answered' \in Seq(Nat) /\ Len(answered') = Len(answered)
      <4>1. PICK k, n : k = pending[d] /\ n = answered[k] + 1
        OBVIOUS
      <4>2. answered' = [answered EXCEPT ![k] = n] /\ answered \in Seq(Nat)
        BY <1>8, <2>3, <4>1 DEF Respond
      <4>3. k \in 1 .. Len(answered) /\ n \in Nat
        BY <3>2, <4>1
      <4>4. /\ [answered EXCEPT ![k] = n] \in Seq(Nat)
            /\ Len([answered EXCEPT ![k] = n]) = Len(answered)
        BY <4>2, <4>3, ExceptSeq
      <4> QED BY <4>2, <4>4
    <3>4. pending' \in [Devices -> Maybe]
      BY <1>8, <2>3 DEF Respond
    <3>5. answers' \in SUBSET (Decisions \X Decisions)
      BY <1>8, <2>3, <3>1 DEF Respond
    <3> QED BY <1>8, <3>3, <3>4, <3>5 DEF Respond
  <2> QED BY <2>2, <2>3
<1>9. ASSUME Restart PROVE SwitchTypeOK'
  <2>1. 1 \in 1 .. Len(stream) + 1 /\ Len(made) \in 0 .. Len(made)
    BY StreamFacts
  <2> QED BY <1>9, <2>1, SwitchAssumption DEF Restart, Forget, Disrupt
<1>10. ASSUME UNCHANGED switchVars PROVE SwitchTypeOK'
  BY <1>10 DEF switchVars
<1> QED
  BY SwitchSteps, <1>1, <1>2, <1>3, <1>4, <1>5, <1>6, <1>7, <1>8, <1>9, <1>10

(* SwitchTypeOK holds for any messages, devices, clients and disruptions    *)
(* (main.go:26-141).                                                        *)
THEOREM SwitchTypeCorrect == SwitchSpec => []SwitchTypeOK
BY SwitchTypeInit, SwitchTypeNext, PTL DEF SwitchSpec
-----------------------------------------------------------------------------
(* Nothing is acknowledged before the callback has made a decision of it.   *)
HandlingInv == handling # NoMessage => handling \in unacked

DeliveryInv == HandlingInv /\ PassedIsHeld

LEMMA DeliveryInit == SwitchInit => DeliveryInv
BY DEF SwitchInit, DeliveryInv, HandlingInv, PassedIsHeld

LEMMA DeliveryNext == SwitchTypeOK /\ DeliveryInv /\ [SwitchNext]_switchVars => DeliveryInv'
<1> SUFFICES ASSUME SwitchTypeOK, DeliveryInv, [SwitchNext]_switchVars PROVE DeliveryInv'
  OBVIOUS
<1> USE DEF brokerVars, clientVars, historyVars
<1>1. ASSUME NEW m \in Messages, Publish(m) PROVE DeliveryInv'
  <2>1. /\ UNCHANGED <<next, unacked, handling, made, born>>
        /\ \A i \in 1 .. next - 1 : stream'[i] = stream[i]
    BY <1>1, StreamGrows, StreamFacts DEF Publish
  <2> QED BY <2>1 DEF DeliveryInv, HandlingInv, PassedIsHeld, Held
<1>2. ASSUME NEW m \in Messages, Redeliver(m) PROVE DeliveryInv'
  BY <1>2 DEF Redeliver, DeliveryInv, HandlingInv, PassedIsHeld, Held
<1>3. ASSUME Deliver \/ LoseDelivery PROVE DeliveryInv'
  <2>1. /\ UNCHANGED <<stream, made, born>> /\ next \in Nat /\ next' = next + 1
        /\ unacked' = unacked \cup {stream[next]} /\ handling' \in {handling, stream[next]}
    BY <1>3 DEF Deliver, LoseDelivery, SwitchTypeOK
  <2>2. \A i \in 1 .. next' - 1 : i \in 1 .. next - 1 \/ i = next
    BY <2>1
  <2> QED BY <2>1, <2>2 DEF DeliveryInv, HandlingInv, PassedIsHeld, Held
<1>4. ASSUME StoreDecision PROVE DeliveryInv'
  <2>1. PICK m : m = handling
    OBVIOUS
  <2>2. /\ UNCHANGED <<stream, next, born>> /\ handling' = NoMessage
        /\ unacked' = unacked \/ unacked' = unacked \ {m}
    BY <1>4, <2>1 DEF StoreDecision, Acknowledge
  <2>3. /\ \A p : Held(p) => Held(p)'
        /\ m \in Malformed \/ Held(m)'
    <3>1. CASE m \in Malformed
      BY <1>4, <2>1, <2>2, <3>1 DEF StoreDecision, Held
    <3>2. CASE m \notin Malformed
      <4>1. /\ Len(made') = Len(made) + 1 /\ made'[Len(made) + 1] = m
            /\ \A k \in 1 .. Len(made) : made'[k] = made[k]
        BY <1>4, <2>1, <3>2, DecisionIsMade DEF Makes, Decisions
      <4>2. born \in 0 .. Len(made) /\ Len(made) \in Nat
        BY DEF SwitchTypeOK
      <4> QED BY <2>2, <4>1, <4>2 DEF Held
    <3> QED BY <3>1, <3>2
  <2>4. HandlingInv'
    BY <2>2 DEF HandlingInv
  <2>5. ASSUME NEW i \in 1 .. next - 1
        PROVE  stream[i] \in Malformed \/ stream[i] \in unacked' \/ Held(stream[i])'
    <3>1. PICK p : p = stream[i]
      OBVIOUS
    <3>2. p \in Malformed \/ p \in unacked \/ Held(p)
      BY <3>1 DEF DeliveryInv, PassedIsHeld
    <3>3. p \in Malformed \/ p \in unacked' \/ Held(p)'
      BY <2>2, <2>3, <3>2
    <3>4. stream' = stream
      BY <2>2
    <3> QED BY <3>1, <3>3, <3>4 DEF Held
  <2> QED BY <2>2, <2>4, <2>5 DEF DeliveryInv, PassedIsHeld
<1>5. ASSUME UNCHANGED <<stream, next, unacked, handling, made, born>> PROVE DeliveryInv'
  BY <1>5 DEF DeliveryInv, HandlingInv, PassedIsHeld, Held
<1>6. ASSUME Restart PROVE DeliveryInv'
  BY <1>6 DEF Restart, Forget, DeliveryInv, HandlingInv, PassedIsHeld
<1> QED
  BY SwitchSteps, <1>1, <1>2, <1>3, <1>4, <1>5, <1>6
     DEF RemoveConsumer, Encode, Lookup, Respond, switchVars

(* PassedIsHeld: what the consumer has passed the process holds, or will be *)
(* sent again, whatever is lost and wherever it restarts (main.go:58-68).   *)
THEOREM NothingIsLost == SwitchSpec => []PassedIsHeld
<1>1. DeliveryInv => PassedIsHeld
  BY DEF DeliveryInv
<1>2. SwitchSpec => []DeliveryInv
  BY SwitchTypeCorrect, DeliveryInit, DeliveryNext, PTL DEF SwitchSpec
<1> QED BY <1>1, <1>2, PTL
-----------------------------------------------------------------------------
(* A pending decision is one of its device and has not been answered, so it *)
(* is answered once; and it is the last one made for the device.            *)
PendingInv ==
  \A d \in Devices :
    pending[d] # NoDecision => For(pending[d]) = d /\ answered[pending[d]] = 0

AnswerInv == PendingInv /\ OneAnswerPerDelivery /\ NewestIsPending

LEMMA AnswerInit == SwitchInit => AnswerInv
<1> SUFFICES ASSUME SwitchInit PROVE AnswerInv
  OBVIOUS
<1>1. Len(made) = 0 /\ Decisions = {} /\ \A d : Own(d) = {}
  BY DEF SwitchInit, Decisions, Own
<1> QED
  BY <1>1 DEF SwitchInit, AnswerInv, PendingInv, OneAnswerPerDelivery, NewestIsPending

(* What the callback does to the decisions of the devices.                  *)
LEMMA AnswerStore ==
  ASSUME SwitchTypeOK, AnswerInv, StoreDecision, handling \notin Malformed
  PROVE  AnswerInv'
<1>1. PICK m : m = handling
  OBVIOUS
<1>2. PICK e : e = DeviceOf[m]
  OBVIOUS
<1>3. PICK n : n = Len(made) + 1
  OBVIOUS
<1>4. /\ m \in Messages /\ e \in Devices /\ born' = born
      /\ Len(made') = n /\ made'[n] = m /\ answered'[n] = 0
      /\ \A k \in Decisions : made'[k] = made[k] /\ answered'[k] = answered[k]
      /\ pending' = [pending EXCEPT ![e] = n]
  BY <1>1, <1>2, <1>3, DecisionIsMade, MessageType DEF Makes, StoreDecision
<1>5. /\ Len(made) \in Nat /\ born \in 0 .. Len(made) /\ n \in Nat /\ n # NoDecision
      /\ Decisions' = Decisions \cup {n} /\ n \notin Decisions
      /\ n \in born + 1 .. Len(made')
      /\ \A k : k \in born + 1 .. Len(made') <=> k \in born + 1 .. Len(made) \/ k = n
      /\ \A k \in born + 1 .. Len(made) : k \in Decisions /\ k < n
  BY <1>3, <1>4 DEF SwitchTypeOK, Decisions, NoDecision
<1>6. /\ \A k \in Decisions : For(k)' = For(k)
      /\ For(n)' = e
  BY <1>2, <1>4 DEF For
<1>7. /\ pending'[e] = n /\ \A d \in Devices \ {e} : pending'[d] = pending[d]
      /\ \A d \in Devices : pending[d] # NoDecision => pending[d] \in Decisions
  BY <1>4 DEF SwitchTypeOK, Maybe
<1>8. PendingInv'
  <2> SUFFICES ASSUME NEW d \in Devices, NEW k, k = pending'[d], k # NoDecision
               PROVE  For(k)' = d /\ answered'[k] = 0
    BY DEF PendingInv, For, NoDecision
  <2>1. CASE d = e
    BY <1>4, <1>6, <1>7, <2>1
  <2>2. CASE d # e
    <3>1. k = pending[d] /\ k \in Decisions /\ For(k) = d /\ answered[k] = 0
      BY <1>7, <2>2 DEF AnswerInv, PendingInv
    <3> QED BY <1>4, <1>6, <3>1
  <2> QED BY <2>1, <2>2
<1>9. OneAnswerPerDelivery'
  BY <1>4, <1>5, DecisionFacts DEF AnswerInv, OneAnswerPerDelivery
<1>10. NewestIsPending'
  <2>1. /\ \A d : Own(d) \subseteq Decisions
        /\ \A d : d # e => Own(d)' = Own(d)
        /\ n \in Own(e)' /\ \A k \in Own(e)' : k <= n
    BY <1>4, <1>5, <1>6 DEF Own
  <2> SUFFICES ASSUME NEW d \in Devices
               PROVE  \/ Own(d)' = {} /\ pending'[d] = NoDecision
                      \/ \E k \in Own(d)' :
                           /\ \A j \in Own(d)' : j <= k
                           /\ pending'[d] = IF answered'[k] > 0 THEN NoDecision ELSE k
    BY DEF NewestIsPending, NoDecision
  <2>2. CASE d = e
    BY <1>4, <1>7, <2>1, <2>2
  <2>3. CASE d # e
    <3>1. pending'[d] = pending[d] /\ \A k \in Own(d) : answered'[k] = answered[k]
      BY <1>4, <1>7, <2>1, <2>3
    <3> QED BY <2>1, <2>3, <3>1 DEF AnswerInv, NewestIsPending
  <2> QED BY <2>2, <2>3
<1> QED BY <1>8, <1>9, <1>10 DEF AnswerInv

(* What a final answer does to them.                                        *)
LEMMA AnswerRespond ==
  ASSUME SwitchTypeOK, AnswerInv, NEW c \in Clients, NEW e \in Devices, NEW status \in Final,
         Respond(c, e, status)
  PROVE  AnswerInv'
<1>1. PICK n : n = pending[e]
  OBVIOUS
<1>2. /\ UNCHANGED <<made, born>> /\ n # NoDecision /\ n \in Decisions
      /\ pending' = [pending EXCEPT ![e] = NoDecision]
      /\ answered' = [answered EXCEPT ![n] = @ + 1]
  BY <1>1 DEF Respond, SwitchTypeOK, Maybe
<1>3. For(n) = e /\ answered[n] = 0
  BY <1>1, <1>2 DEF AnswerInv, PendingInv
<1>4. /\ answered'[n] = 1 /\ \A k \in Decisions : k # n => answered'[k] = answered[k]
      /\ pending'[e] = NoDecision /\ \A d \in Devices \ {e} : pending'[d] = pending[d]
      /\ \A d \in Devices : pending[d] # NoDecision => pending[d] \in Decisions
  BY <1>2, <1>3 DEF SwitchTypeOK, Maybe, Decisions
<1>5. /\ Decisions' = Decisions /\ \A k : For(k)' = For(k) /\ \A d : Own(d)' = Own(d)
      /\ \A d : Own(d) \subseteq Decisions
  BY <1>2 DEF Decisions, For, Own, SwitchTypeOK
<1>6. PendingInv'
  <2> SUFFICES ASSUME NEW d \in Devices, NEW k, k = pending'[d], k # NoDecision
               PROVE  For(k)' = d /\ answered'[k] = 0
    BY DEF PendingInv, For, NoDecision
  <2>1. d # e /\ k = pending[d] /\ k \in Decisions /\ For(k) = d /\ answered[k] = 0
    BY <1>4 DEF AnswerInv, PendingInv
  <2> QED BY <1>3, <1>4, <1>5, <2>1
<1>7. OneAnswerPerDelivery'
  BY <1>4, <1>5 DEF AnswerInv, OneAnswerPerDelivery
<1>8. NewestIsPending'
  <2> SUFFICES ASSUME NEW d \in Devices
               PROVE  \/ Own(d) = {} /\ pending'[d] = NoDecision
                      \/ \E k \in Own(d) :
                           /\ \A j \in Own(d) : j <= k
                           /\ pending'[d] = IF answered'[k] > 0 THEN NoDecision ELSE k
    BY <1>5 DEF NewestIsPending, NoDecision
  <2>1. CASE d = e
    <3>1. PICK k \in Own(e) : /\ \A j \in Own(e) : j <= k
                              /\ n = IF answered[k] > 0 THEN NoDecision ELSE k
      BY <1>1, <1>2 DEF AnswerInv, NewestIsPending
    <3> QED BY <1>2, <1>4, <2>1, <3>1
  <2>2. CASE d # e
    <3>1. \A k \in Own(d) : answered'[k] = answered[k]
      BY <1>3, <1>4, <1>5, <2>2 DEF Own
    <3> QED BY <1>4, <2>2, <3>1 DEF AnswerInv, NewestIsPending
  <2> QED BY <2>1, <2>2
<1> QED BY <1>6, <1>7, <1>8 DEF AnswerInv

LEMMA AnswerNext == SwitchTypeOK /\ AnswerInv /\ [SwitchNext]_switchVars => AnswerInv'
<1> SUFFICES ASSUME SwitchTypeOK, AnswerInv, [SwitchNext]_switchVars PROVE AnswerInv'
  OBVIOUS
<1> USE DEF brokerVars, clientVars, historyVars
<1>1. ASSUME UNCHANGED <<pending, made, born, answered>> PROVE AnswerInv'
  BY <1>1
     DEF AnswerInv, PendingInv, OneAnswerPerDelivery, NewestIsPending, Own, For, Decisions
<1>2. ASSUME StoreDecision PROVE AnswerInv'
  <2>1. CASE handling \in Malformed
    BY <1>1, <1>2, <2>1 DEF StoreDecision
  <2> QED BY <1>2, <2>1, AnswerStore
<1>3. ASSUME NEW c \in Clients, NEW d \in Devices, NEW status, Respond(c, d, status)
      PROVE  AnswerInv'
  <2>1. CASE status \notin Final
    BY <1>1, <1>3, <2>1 DEF Respond
  <2> QED BY <1>3, <2>1, AnswerRespond
<1>4. ASSUME Restart PROVE AnswerInv'
  <2>1. /\ UNCHANGED <<made, answered>> /\ born' = Len(made)
        /\ \A d \in Devices : pending'[d] = NoDecision
    BY <1>4 DEF Restart, Forget
  <2>2. \A d : Own(d)' = {}
    BY <2>1, DecisionFacts DEF Own
  <2> QED
    BY <2>1, <2>2
       DEF AnswerInv, PendingInv, OneAnswerPerDelivery, NewestIsPending, Decisions, NoDecision
<1> QED
  BY SwitchSteps, <1>1, <1>2, <1>3, <1>4
     DEF Publish, Redeliver, Deliver, LoseDelivery, RemoveConsumer, Encode, Lookup, switchVars

LEMMA AnswerHolds == SwitchSpec => []AnswerInv
BY SwitchTypeCorrect, AnswerInit, AnswerNext, PTL DEF SwitchSpec

(* OneAnswerPerDelivery: clients that race for a device never both answer   *)
(* one decision (main.go:126-138).                                          *)
THEOREM AnswersAreBounded == SwitchSpec => []OneAnswerPerDelivery
<1>1. AnswerInv => OneAnswerPerDelivery
  BY DEF AnswerInv
<1> QED BY AnswerHolds, <1>1, PTL

(* NewestIsPending: the pending decision of a device is the last one made   *)
(* for it until that one is answered, in whatever order the messages are    *)
(* lost and delivered again (main.go:67, 134-137).                          *)
THEOREM TheNewestIsPending == SwitchSpec => []NewestIsPending
<1>1. AnswerInv => NewestIsPending
  BY DEF AnswerInv
<1> QED BY AnswerHolds, <1>1, PTL
-----------------------------------------------------------------------------
(* Whatever a client has looked up or been shown was made before what is    *)
(* pending for the same device now.                                         *)
NoneAfterPending(held) ==
  \A c \in Clients : held[c] # NoDecision =>
    LET p == pending[For(held[c])] IN p # NoDecision => held[c] <= p

OrderInv ==
  /\ NoneAfterPending(looked)
  /\ NoneAfterPending(shown)
  /\ AnswerIsNeverOlder

LEMMA OrderInit == SwitchInit => OrderInv
BY DEF SwitchInit, OrderInv, NoneAfterPending, AnswerIsNeverOlder

(* A step that makes nothing pending that was not leaves the order alone.   *)
LEMMA OrderStays ==
  ASSUME SwitchTypeOK, NEW held \in [Clients -> Maybe], NoneAfterPending(held), made' = made,
         \A d \in Devices : pending'[d] \in {pending[d], NoDecision}
  PROVE  \A c \in Clients : held[c] # NoDecision =>
           LET p == pending'[DeviceOf[made'[held[c]]]] IN p # NoDecision => held[c] <= p
<1> SUFFICES ASSUME NEW c \in Clients, NEW k, k = held[c], k # NoDecision,
                    NEW d, d = For(k), pending'[d] # NoDecision
             PROVE  k <= pending'[d]
  BY DEF For
<1>1. k \in Decisions /\ d \in Devices
  BY DecisionFacts DEF Maybe
<1> QED BY <1>1 DEF NoneAfterPending

(* Nor does a decision that is made now: it is the last.                    *)
LEMMA OrderStore ==
  ASSUME SwitchTypeOK, NEW held \in [Clients -> Maybe], NoneAfterPending(held),
         NEW m \in Messages, Makes(m)
  PROVE  \A c \in Clients : held[c] # NoDecision =>
           LET p == pending'[DeviceOf[made'[held[c]]]] IN p # NoDecision => held[c] <= p
<1> SUFFICES ASSUME NEW c \in Clients, NEW k, k = held[c], k # NoDecision,
                    NEW d, d = DeviceOf[made'[k]], pending'[d] # NoDecision
             PROVE  k <= pending'[d]
  BY DEF For
<1>1. k \in Decisions /\ k <= Len(made) + 1 /\ made'[k] = made[k]
  BY DecisionFacts DEF Maybe, Decisions, Makes
<1>2. d = For(k) /\ d \in Devices
  BY <1>1, DecisionFacts DEF For
<1>3. pending'[d] \in {pending[d], Len(made) + 1}
  BY <1>2 DEF Makes, SwitchTypeOK
<1> QED BY <1>1, <1>2, <1>3 DEF NoneAfterPending

LEMMA OrderNext ==
  SwitchTypeOK /\ AnswerInv /\ OrderInv /\ [SwitchNext]_switchVars => OrderInv'
<1> SUFFICES ASSUME SwitchTypeOK, AnswerInv, OrderInv, [SwitchNext]_switchVars PROVE OrderInv'
  OBVIOUS
<1> USE DEF brokerVars, clientVars, historyVars
<1>1. ASSUME UNCHANGED <<pending, looked, shown, made, answers>> PROVE OrderInv'
  BY <1>1 DEF OrderInv, NoneAfterPending, AnswerIsNeverOlder, For
<1>2. ASSUME StoreDecision PROVE OrderInv'
  <2>1. CASE handling \in Malformed
    BY <1>1, <1>2, <2>1 DEF StoreDecision
  <2>2. CASE handling \notin Malformed
    <3>1. handling \in Messages /\ Makes(handling) /\ UNCHANGED <<looked, shown, answers>>
      BY <1>2, <2>2, DecisionIsMade DEF StoreDecision
    <3>2. looked \in [Clients -> Maybe] /\ shown \in [Clients -> Maybe]
      BY DEF SwitchTypeOK
    <3>3. NoneAfterPending(looked)'
      BY <3>1, <3>2, OrderStore DEF OrderInv, NoneAfterPending, For, NoDecision
    <3>4. NoneAfterPending(shown)'
      BY <3>1, <3>2, OrderStore DEF OrderInv, NoneAfterPending, For, NoDecision
    <3> QED BY <3>1, <3>3, <3>4 DEF OrderInv, AnswerIsNeverOlder
  <2> QED BY <2>1, <2>2
<1>3. ASSUME NEW c \in Clients, Encode(c) PROVE OrderInv'
  <2>1. /\ UNCHANGED <<pending, made, answers>> /\ looked[c] # NoDecision
        /\ shown' = [shown EXCEPT ![c] = looked[c]]
        /\ looked' = [looked EXCEPT ![c] = NoDecision]
    BY <1>3 DEF Encode
  <2>2. /\ \A b \in Clients : shown'[b] \in {shown[b], looked[b]}
        /\ \A b \in Clients : looked'[b] \in {looked[b], NoDecision}
    BY <2>1 DEF SwitchTypeOK
  <2>3. \A k : For(k)' = For(k)
    BY <2>1 DEF For
  <2> QED BY <2>1, <2>2, <2>3 DEF OrderInv, NoneAfterPending, AnswerIsNeverOlder, NoDecision
<1>4. ASSUME NEW c \in Clients, NEW e \in Devices, Lookup(c, e) PROVE OrderInv'
  <2>1. /\ UNCHANGED <<pending, made, answers, shown>>
        /\ looked' = [looked EXCEPT ![c] = pending[e]]
    BY <1>4 DEF Lookup
  <2>2. looked'[c] = pending[e] /\ \A b \in Clients \ {c} : looked'[b] = looked[b]
    BY <2>1 DEF SwitchTypeOK
  <2>3. \A k : For(k)' = For(k)
    BY <2>1 DEF For
  <2>4. pending[e] # NoDecision => For(pending[e]) = e /\ pending[e] <= pending[e]
    BY DecisionFacts DEF AnswerInv, PendingInv, SwitchTypeOK, Maybe
  <2>5. NoneAfterPending(looked)'
    BY <2>1, <2>2, <2>3, <2>4 DEF OrderInv, NoneAfterPending, NoDecision
  <2> QED BY <2>1, <2>3, <2>5 DEF OrderInv, NoneAfterPending, AnswerIsNeverOlder, NoDecision
<1>5. ASSUME NEW c \in Clients, NEW e \in Devices, NEW status \in Final, Respond(c, e, status)
      PROVE  OrderInv'
  <2>1. PICK n : n = pending[e]
    OBVIOUS
  <2>2. /\ UNCHANGED <<looked, shown, made>> /\ n # NoDecision
        /\ pending' = [pending EXCEPT ![e] = NoDecision]
        /\ answers' = answers \cup (Seen(c, e) \X {n})
    BY <1>5, <2>1 DEF Respond
  <2>3. /\ looked \in [Clients -> Maybe] /\ shown \in [Clients -> Maybe]
        /\ \A d \in Devices : pending'[d] \in {pending[d], NoDecision}
    BY <2>2 DEF SwitchTypeOK
  <2>4. NoneAfterPending(looked)'
    BY <2>2, <2>3, OrderStays DEF OrderInv, NoneAfterPending, For, NoDecision
  <2>5. NoneAfterPending(shown)'
    BY <2>2, <2>3, OrderStays DEF OrderInv, NoneAfterPending, For, NoDecision
  <2>6. ASSUME NEW a \in answers' PROVE a[1] <= a[2]
    <3>1. CASE a \in answers
      BY <3>1 DEF OrderInv, AnswerIsNeverOlder
    <3>2. CASE a \in Seen(c, e) \X {n}
      <4>1. PICK s : s = a[1]
        OBVIOUS
      <4>2. a[2] = n /\ s = shown[c] /\ s # NoDecision /\ For(s) = e
        BY <3>2, <4>1 DEF Seen
      <4>3. s <= n
        BY <2>1, <2>2, <4>2 DEF OrderInv, NoneAfterPending
      <4> QED BY <4>1, <4>2, <4>3
    <3> QED BY <2>2, <2>6, <3>1, <3>2
  <2> QED BY <2>4, <2>5, <2>6 DEF OrderInv, AnswerIsNeverOlder
<1>6. ASSUME Restart PROVE OrderInv'
  <2>1. /\ UNCHANGED <<shown, made, answers>>
        /\ \A d \in Devices : pending'[d] = NoDecision
        /\ \A c \in Clients : looked'[c] = NoDecision
    BY <1>6 DEF Restart, Forget
  <2>2. shown \in [Clients -> Maybe] /\ NoneAfterPending(shown)
    BY DEF SwitchTypeOK, OrderInv
  <2>3. NoneAfterPending(shown)'
    BY <2>1, <2>2, OrderStays DEF NoneAfterPending, For, NoDecision
  <2>4. NoneAfterPending(looked)'
    BY <2>1 DEF NoneAfterPending, NoDecision
  <2> QED BY <2>1, <2>3, <2>4 DEF OrderInv, AnswerIsNeverOlder
<1>7. ASSUME NEW c \in Clients, NEW e \in Devices, NEW status, status \notin Final,
             Respond(c, e, status)
      PROVE  OrderInv'
  BY <1>1, <1>7 DEF Respond
<1> QED
  BY SwitchSteps, <1>1, <1>2, <1>3, <1>4, <1>5, <1>6, <1>7
     DEF Publish, Redeliver, Deliver, LoseDelivery, RemoveConsumer, switchVars

(* AnswerIsNeverOlder: a client that answers blindly, by device, never      *)
(* answers a decision made before the one it saw (main.go:98-138).          *)
THEOREM AnswersAreNeverOlder == SwitchSpec => []AnswerIsNeverOlder
<1>1. OrderInv => AnswerIsNeverOlder
  BY DEF OrderInv
<1>2. SwitchSpec => []OrderInv
  BY SwitchTypeCorrect, AnswerHolds, OrderInit, OrderNext, PTL DEF SwitchSpec
<1> QED BY <1>1, <1>2, PTL
=============================================================================
