------------------------ MODULE Registration_proofs -------------------------
(***************************************************************************)
(* UE registration, for any gNBs, UEs, messages and administrators.         *)
(***************************************************************************)
EXTENDS Registration, TLAPS

(* The steps of gNBs, AMF and event bus, named one by one. *)
LEMMA RegSteps ==
  ASSUME [RegNext]_regVars
  PROVE  \/ \E m \in Message : Send(m)
         \/ \E g \in Gnbs : ReadResponse(g)
         \/ \E g \in Gnbs : Close(g)
         \/ \E g \in Gnbs : Receive(g) /\ UNCHANGED sent
         \/ \E g \in Gnbs : Respond(g) /\ UNCHANGED sent
         \/ \E g \in Gnbs : RespondFails(g) /\ UNCHANGED sent
         \/ \E g \in Gnbs : PublishUERegistered(g) /\ UNCHANGED sent
         \/ \E g \in Gnbs : ReadError(g) /\ UNCHANGED sent
         \/ \E a \in Admins, u \in UEs : DeleteUE(a, u) /\ UNCHANGED sent
         \/ \E a \in Admins : Delete(a) /\ UNCHANGED sent
         \/ Flush /\ UNCHANGED <<amfVars, sent>>
         \/ LoseEvent /\ UNCHANGED <<amfVars, sent>>
         \/ UNCHANGED regVars
BY DEF RegNext, AmfStep, HandleNGAP, BusStep

(* One association: what is on its way, t, is the end of what was sent, s,  *)
(* all of it for this gNB, and no message twice.                            *)
Left(s, t) == Len(s) - Len(t)

Link(g, s, t) ==
  /\ \A i \in 1 .. Len(s) : s[i].gnb = g
  /\ \A i, j \in 1 .. Len(s) : s[i] = s[j] => i = j
  /\ Len(t) <= Len(s)
  /\ \A k \in 1 .. Len(t) : t[k] = s[Left(s, t) + k]

LEMMA LinkBounds ==
  ASSUME NEW g, NEW s \in Seq(Message), NEW t \in Seq(Message), Link(g, s, t)
  PROVE  Left(s, t) \in 0 .. Len(s)
<1>1. Len(s) \in Nat /\ Len(t) \in Nat /\ Len(t) <= Len(s)
  BY DEF Link
<1> QED BY <1>1 DEF Left

LEMMA LinkAfterSend ==
  ASSUME NEW g, NEW s \in Seq(Message), NEW t \in Seq(Message), Link(g, s, t),
         NEW m \in Message, m.gnb = g, m \notin ToSet(s)
  PROVE  /\ Link(g, Append(s, m), Append(t, m))
         /\ Left(Append(s, m), Append(t, m)) = Left(s, t)
<1> DEFINE u == Append(s, m)
           v == Append(t, m)
<1>1. /\ u \in Seq(Message) /\ Len(u) = Len(s) + 1 /\ u[Len(s) + 1] = m
      /\ \A i \in 1 .. Len(s) : u[i] = s[i]
      /\ Len(s) \in Nat
  OBVIOUS
<1>2. /\ v \in Seq(Message) /\ Len(v) = Len(t) + 1 /\ v[Len(t) + 1] = m
      /\ \A i \in 1 .. Len(t) : v[i] = t[i]
      /\ Len(t) \in Nat
  OBVIOUS
<1>3. \A i \in 1 .. Len(s) : s[i] # m
  BY DEF ToSet
<1> HIDE DEF u, v
<1>4. Left(u, v) = Left(s, t)
  BY <1>1, <1>2 DEF Left
<1>5. \A i \in 1 .. Len(u) : u[i].gnb = g
  BY <1>1 DEF Link
<1>6. \A i, j \in 1 .. Len(u) : u[i] = u[j] => i = j
  BY <1>1, <1>3 DEF Link
<1>7. ASSUME NEW k \in 1 .. Len(v) PROVE v[k] = u[Left(u, v) + k]
  <2>1. CASE k = Len(t) + 1
    BY <1>1, <1>2, <1>4, <2>1 DEF Left
  <2>2. CASE k \in 1 .. Len(t)
    <3>1. v[k] = t[k] /\ t[k] = s[Left(s, t) + k]
      BY <1>2, <2>2 DEF Link
    <3>2. Left(s, t) + k \in 1 .. Len(s)
      BY <1>1, <1>2, <2>2, LinkBounds DEF Left
    <3> QED BY <1>1, <1>4, <3>1, <3>2
  <2> QED BY <1>2, <2>1, <2>2
<1>8. Len(v) <= Len(u)
  BY <1>1, <1>2 DEF Link
<1>9. Link(g, u, v)
  BY <1>5, <1>6, <1>7, <1>8 DEF Link
<1> QED BY <1>4, <1>9 DEF u, v

LEMMA LinkAfterRead ==
  ASSUME NEW g, NEW s \in Seq(Message), NEW t \in Seq(Message), Link(g, s, t), t # <<>>
  PROVE  /\ Link(g, s, Tail(t))
         /\ Left(s, Tail(t)) = Left(s, t) + 1
         /\ Left(s, t) + 1 \in 1 .. Len(s)
         /\ Head(t) = s[Left(s, t) + 1] /\ Head(t) \in Message /\ Head(t).gnb = g
<1> DEFINE v == Tail(t)
<1>1. /\ v \in Seq(Message) /\ Len(v) = Len(t) - 1 /\ Len(t) \in Nat /\ Len(t) > 0
      /\ \A i \in 1 .. Len(v) : v[i] = t[i + 1]
      /\ Len(s) \in Nat /\ Head(t) = t[1] /\ Head(t) \in Message
  OBVIOUS
<1> HIDE DEF v
<1>2. Left(s, v) = Left(s, t) + 1 /\ Left(s, t) \in Nat /\ Left(s, t) + 1 \in 1 .. Len(s)
  BY <1>1 DEF Left, Link
<1>3. ASSUME NEW k \in 1 .. Len(v) PROVE v[k] = s[Left(s, v) + k]
  <2>1. v[k] = t[k + 1] /\ k + 1 \in 1 .. Len(t)
    BY <1>1
  <2>2. Left(s, v) + k = Left(s, t) + (k + 1)
    BY <1>2
  <2> QED BY <2>1, <2>2 DEF Link
<1>4. Head(t) = s[Left(s, t) + 1]
  BY <1>1 DEF Link
<1> QED BY <1>1, <1>2, <1>3, <1>4 DEF Link, v

(* All associations: a message being handled is the last that was read.     *)
Taken(g) == Left(sent[g], toAmf[g])

LinkInv ==
  \A g \in Gnbs :
    /\ Link(g, sent[g], toAmf[g])
    /\ pc[g] \in {"respond", "publish"} => Taken(g) > 0 /\ msg[g] = sent[g][Taken(g)]

LEMMA MessageType ==
  ASSUME NEW m \in Message
  PROVE  /\ m.gnb \in Gnbs /\ m.ueid \in UEs /\ m # NoContext
         /\ m.kind \in {"genuine", "wrong", "garbled"} /\ m \in Event
BY AmfAssumption

LEMMA TypeInit == RegInit => RegTypeOK /\ LinkInv
<1> SUFFICES ASSUME RegInit PROVE RegTypeOK /\ LinkInv
  OBVIOUS
<1> USE DEF RegInit, AmfInit, BusInit
<1>1. AmfTypeOK
  BY AmfAssumption DEF AmfTypeOK, MaybeMessage
<1>2. BusTypeOK
  BY DEF BusTypeOK
<1>3. sent \in [Gnbs -> Seq(Message)]
  OBVIOUS
<1>4. LinkInv
  BY DEF LinkInv, Taken, Link, Left
<1> QED BY <1>1, <1>2, <1>3, <1>4 DEF RegTypeOK

LEMMA SendKeepsLink ==
  ASSUME RegTypeOK, LinkInv, NEW m \in Message, Send(m)
  PROVE  /\ toAmf' \in [Gnbs -> Seq(Message)] /\ sent' \in [Gnbs -> Seq(Message)]
         /\ LinkInv'
         /\ \A g \in Gnbs : /\ Taken(g)' = Taken(g)
                            /\ Taken(g) \in 0 .. Len(sent[g])
                            /\ Len(sent[g]) <= Len(sent'[g])
                            /\ \A i \in 1 .. Len(sent[g]) : sent'[g][i] = sent[g][i]
<1> DEFINE h == m.gnb
<1>1. /\ toAmf \in [Gnbs -> Seq(Message)] /\ sent \in [Gnbs -> Seq(Message)]
      /\ toAmf' = [toAmf EXCEPT ![h] = Append(toAmf[h], m)]
      /\ sent' = [sent EXCEPT ![h] = Append(sent[h], m)]
      /\ m \notin ToSet(sent[h]) /\ UNCHANGED <<pc, msg>> /\ h \in Gnbs
  BY MessageType DEF Send, RegTypeOK, AmfTypeOK
<1>2. toAmf' \in [Gnbs -> Seq(Message)] /\ sent' \in [Gnbs -> Seq(Message)]
  BY <1>1
<1>3. ASSUME NEW g \in Gnbs
      PROVE  /\ Link(g, sent'[g], toAmf'[g]) /\ Taken(g)' = Taken(g)
             /\ Taken(g) \in 0 .. Len(sent[g])
             /\ Len(sent[g]) <= Len(sent'[g])
             /\ \A i \in 1 .. Len(sent[g]) : sent'[g][i] = sent[g][i]
  <2>1. Link(g, sent[g], toAmf[g]) /\ sent[g] \in Seq(Message) /\ toAmf[g] \in Seq(Message)
    BY <1>1 DEF LinkInv
  <2>2. Taken(g) \in 0 .. Len(sent[g])
    BY <2>1, LinkBounds DEF Taken
  <2>3. CASE g # h
    <3>1. sent'[g] = sent[g] /\ toAmf'[g] = toAmf[g] /\ Len(sent[g]) \in Nat
      BY <1>1, <2>1, <2>3
    <3> QED BY <2>1, <2>2, <3>1 DEF Taken
  <2>4. CASE g = h
    <3>1. sent'[g] = Append(sent[g], m) /\ toAmf'[g] = Append(toAmf[g], m)
      BY <1>1, <2>4
    <3>2. /\ \A i \in 1 .. Len(sent[g]) : sent'[g][i] = sent[g][i]
          /\ Len(sent[g]) <= Len(sent'[g])
      BY <2>1, <3>1
    <3>3. Link(g, sent'[g], toAmf'[g]) /\ Left(sent'[g], toAmf'[g]) = Left(sent[g], toAmf[g])
      BY <1>1, <2>1, <2>4, <3>1, LinkAfterSend
    <3> QED BY <2>2, <3>2, <3>3 DEF Taken
  <2> QED BY <2>3, <2>4
<1>4. LinkInv'
  <2> SUFFICES ASSUME NEW g \in Gnbs, pc[g] \in {"respond", "publish"}
               PROVE  Taken(g)' > 0 /\ msg[g] = sent'[g][Taken(g)']
    BY <1>1, <1>3 DEF LinkInv
  <2>1. Taken(g) > 0 /\ msg[g] = sent[g][Taken(g)]
    BY DEF LinkInv
  <2>2. Taken(g) \in 1 .. Len(sent[g])
    BY <1>3, <2>1
  <2> QED BY <1>3, <2>1, <2>2
<1> QED BY <1>2, <1>3, <1>4

(* A message is read: its association has taken one more, and it is handled *)
(* unless it is garbled.                                                    *)
LEMMA ReceiveKeepsLink ==
  ASSUME RegTypeOK, LinkInv, NEW h \in Gnbs, Receive(h), UNCHANGED sent
  PROVE  /\ toAmf' \in [Gnbs -> Seq(Message)]
         /\ LinkInv'
         /\ \A g \in Gnbs : Taken(g)' = IF g = h THEN Taken(g) + 1 ELSE Taken(g)
         /\ Taken(h) + 1 \in 1 .. Len(sent[h])
         /\ Head(toAmf[h]) = sent[h][Taken(h) + 1]
         /\ Head(toAmf[h]) \in Message /\ Head(toAmf[h]).gnb = h
<1>1. /\ toAmf \in [Gnbs -> Seq(Message)] /\ sent \in [Gnbs -> Seq(Message)]
      /\ toAmf[h] # <<>> /\ toAmf' = [toAmf EXCEPT ![h] = Tail(toAmf[h])] /\ pc[h] = "read"
      /\ pc \in [Gnbs -> {"read", "respond", "publish", "closed"}]
      /\ msg \in [Gnbs -> MaybeMessage]
  BY DEF Receive, RegTypeOK, AmfTypeOK
<1>2. toAmf' \in [Gnbs -> Seq(Message)]
  BY <1>1
<1>3. /\ Link(h, sent[h], Tail(toAmf[h]))
      /\ Left(sent[h], Tail(toAmf[h])) = Taken(h) + 1
      /\ Taken(h) + 1 \in 1 .. Len(sent[h])
      /\ Head(toAmf[h]) = sent[h][Taken(h) + 1]
      /\ Head(toAmf[h]) \in Message /\ Head(toAmf[h]).gnb = h
  BY <1>1, LinkAfterRead DEF LinkInv, Taken
<1>4. \/ UNCHANGED <<pc, msg>>
      \/ /\ pc' = [pc EXCEPT ![h] = "respond"]
         /\ msg' = [msg EXCEPT ![h] = Head(toAmf[h])]
  BY DEF Receive, Register, Goto
<1>5. \A g \in Gnbs : Taken(g)' = IF g = h THEN Taken(g) + 1 ELSE Taken(g)
  BY <1>1, <1>3 DEF Taken
<1>6. ASSUME NEW g \in Gnbs
      PROVE  /\ Link(g, sent[g], toAmf'[g])
             /\ pc'[g] \in {"respond", "publish"} => Taken(g)' > 0 /\ msg'[g] = sent[g][Taken(g)']
  <2>1. CASE g # h
    <3>1. toAmf'[g] = toAmf[g] /\ pc'[g] = pc[g] /\ msg'[g] = msg[g]
      BY <1>1, <1>4, <2>1
    <3> QED BY <1>5, <2>1, <3>1 DEF LinkInv
  <2>2. CASE g = h
    <3>1. toAmf'[g] = Tail(toAmf[g]) /\ Taken(g)' = Taken(g) + 1
      BY <1>1, <1>5, <2>2
    <3>2. pc'[g] \in {"respond", "publish"} => msg'[g] = Head(toAmf[g])
      BY <1>1, <1>4, <2>2
    <3>3. Taken(g) + 1 > 0
      BY <1>3, <2>2
    <3> QED BY <1>3, <2>2, <3>1, <3>2, <3>3
  <2> QED BY <2>1, <2>2
<1>7. LinkInv'
  BY <1>6 DEF LinkInv
<1> QED BY <1>2, <1>3, <1>5, <1>7
(* The parts of the state that a step of the AMF's loop leaves alone.       *)
LinkUnchanged == UNCHANGED <<toAmf, sent>>

LEMMA LinkKept ==
  ASSUME RegTypeOK, LinkInv, LinkUnchanged,
         \A g \in Gnbs : pc'[g] \in {"respond", "publish"} =>
           pc[g] \in {"respond", "publish"} /\ msg'[g] = msg[g]
  PROVE  LinkInv' /\ \A g \in Gnbs : Taken(g)' = Taken(g)
BY DEF LinkInv, Taken, LinkUnchanged

LEMMA BusTypeNext ==
  ASSUME BusTypeOK, BusStep
  PROVE  BusTypeOK'
<1> USE DEF BusTypeOK
<1>1. CASE Flush
  <2>1. Head(outbox) \in Event /\ Tail(outbox) \in Seq(Event)
    BY <1>1 DEF Flush
  <2> QED BY <1>1, <2>1 DEF Flush
<1>2. CASE LoseEvent
  BY <1>2 DEF LoseEvent, serverVars
<1> QED BY <1>1, <1>2 DEF BusStep

LEMMA TypeNext == RegTypeOK /\ LinkInv /\ [RegNext]_regVars => RegTypeOK' /\ LinkInv'
<1> SUFFICES ASSUME RegTypeOK, LinkInv, [RegNext]_regVars PROVE RegTypeOK' /\ LinkInv'
  OBVIOUS
<1> USE DEF RegTypeOK, AmfTypeOK, linkVars, apiVars, LinkUnchanged
<1>1. ASSUME NEW m \in Message, Send(m) PROVE RegTypeOK' /\ LinkInv'
  <2>1. toAmf' \in [Gnbs -> Seq(Message)] /\ sent' \in [Gnbs -> Seq(Message)] /\ LinkInv'
    BY <1>1, SendKeepsLink
  <2> QED BY <1>1, <2>1 DEF Send, BusTypeOK, busVars, serverVars
<1>2. ASSUME NEW g \in Gnbs, Close(g) PROVE RegTypeOK' /\ LinkInv'
  <2>1. LinkInv'
    BY <1>2, LinkKept DEF Close
  <2> QED BY <1>2, <2>1 DEF Close, BusTypeOK, busVars, serverVars
<1>3. ASSUME NEW g \in Gnbs, Receive(g), UNCHANGED sent PROVE RegTypeOK' /\ LinkInv'
  <2> DEFINE m == Head(toAmf[g])
  <2>1. toAmf' \in [Gnbs -> Seq(Message)] /\ LinkInv' /\ m \in Message /\ m.gnb = g
    BY <1>3, ReceiveKeepsLink
  <2>2. m.ueid \in UEs /\ m # NoContext
    BY <2>1, MessageType
  <2>3. BusTypeOK'
    BY <1>3 DEF Receive, BusTypeOK, busVars, serverVars
  <2>4. CASE UNCHANGED <<pc, msg, ueStore>>
    BY <1>3, <2>1, <2>3, <2>4 DEF Receive
  <2>5. CASE m.kind # "garbled" /\ Register(g, m)
    <3>1. /\ ueStore' = [ueStore EXCEPT ![m.ueid] = m]
          /\ msg' = [msg EXCEPT ![g] = m]
          /\ pc' = [pc EXCEPT ![g] = "respond"]
      BY <2>5 DEF Register, Goto
    <3> QED BY <1>3, <2>1, <2>2, <2>3, <2>5, <3>1 DEF Receive, MaybeMessage
  <2> QED BY <1>3, <2>4, <2>5 DEF Receive
<1>4. ASSUME NEW g \in Gnbs, pc[g] = "respond",
             UNCHANGED <<conn, toAmf, ueStore, apiVars, busVars, sent>>,
             unread' \in [Gnbs -> 0 .. ResponseRoom],
             answered' \in {answered, answered \cup {msg[g]}},
             \/ AuthPassed(msg[g]) /\ Goto(g, "publish") /\ msg' = msg
             \/ NextMessage(g)
      PROVE  RegTypeOK' /\ LinkInv'
  <2>1. LinkInv'
    BY <1>4, LinkKept DEF NextMessage, Goto
  <2>2. BusTypeOK'
    BY <1>4 DEF BusTypeOK, busVars, serverVars
  <2>3. answered' \in SUBSET Message
    BY <1>4
  <2>4. CASE AuthPassed(msg[g]) /\ Goto(g, "publish") /\ msg' = msg
    BY <1>4, <2>1, <2>2, <2>3, <2>4 DEF Goto, AuthPassed
  <2>5. CASE NextMessage(g)
    BY <1>4, <2>1, <2>2, <2>3, <2>5 DEF NextMessage, Goto, MaybeMessage
  <2> QED BY <1>4, <2>4, <2>5
<1>5. ASSUME NEW g \in Gnbs, PublishUERegistered(g), UNCHANGED sent PROVE RegTypeOK' /\ LinkInv'
  <2>1. LinkInv'
    BY <1>5, LinkKept DEF PublishUERegistered, NextMessage, Goto
  <2>2. msg[g] \in Event
    BY <1>5, MessageType DEF PublishUERegistered
  <2>3. BusTypeOK'
    BY <1>5, <2>2 DEF PublishUERegistered, Publish, BusTypeOK, serverVars
  <2> QED BY <1>5, <2>1, <2>3 DEF PublishUERegistered, NextMessage, Goto, MaybeMessage
<1>6. ASSUME NEW g \in Gnbs, ReadError(g), UNCHANGED sent PROVE RegTypeOK' /\ LinkInv'
  <2>1. LinkInv'
    BY <1>6, LinkKept DEF ReadError, Goto
  <2> QED BY <1>6, <2>1 DEF ReadError, Goto, BusTypeOK, busVars, serverVars
<1>7. ASSUME NEW a \in Admins, NEW u \in UEs, DeleteUE(a, u), UNCHANGED sent
      PROVE  RegTypeOK' /\ LinkInv'
  <2>1. LinkInv'
    BY <1>7, LinkKept DEF DeleteUE
  <2> QED BY <1>7, <2>1 DEF DeleteUE, BusTypeOK, busVars, serverVars
<1>8. ASSUME NEW a \in Admins, Delete(a), UNCHANGED sent PROVE RegTypeOK' /\ LinkInv'
  <2>1. LinkInv'
    BY <1>8, LinkKept DEF Delete
  <2>2. deleting[a] \in Message
    BY <1>8 DEF Delete, MaybeMessage
  <2> QED
    BY <1>8, <2>1, <2>2 DEF Delete, MaybeMessage, BusTypeOK, busVars, serverVars
<1>9. ASSUME BusStep, UNCHANGED <<amfVars, sent>> PROVE RegTypeOK' /\ LinkInv'
  <2>1. LinkInv'
    BY <1>9, LinkKept DEF amfVars
  <2> QED BY <1>9, <2>1, BusTypeNext DEF amfVars
<1>10. ASSUME UNCHANGED regVars PROVE RegTypeOK' /\ LinkInv'
  <2>1. LinkInv'
    BY <1>10, LinkKept DEF regVars, amfVars
  <2> QED BY <1>10, <2>1 DEF regVars, amfVars, BusTypeOK, busVars, serverVars
<1>11. ASSUME NEW g \in Gnbs, Respond(g) \/ RespondFails(g), UNCHANGED sent
       PROVE  RegTypeOK' /\ LinkInv'
  <2>1. unread' \in [Gnbs -> 0 .. ResponseRoom]
    <3>1. CASE Respond(g)
      <4>1. unread[g] + 1 \in 0 .. ResponseRoom
        BY <3>1, AmfAssumption DEF Respond
      <4> QED BY <3>1, <4>1 DEF Respond
    <3>2. CASE RespondFails(g)
      BY <3>2 DEF RespondFails
    <3> QED BY <1>11, <3>1, <3>2
  <2> QED BY <1>4, <1>11, <2>1 DEF Respond, RespondFails
<1>12. ASSUME NEW g \in Gnbs, ReadResponse(g) PROVE RegTypeOK' /\ LinkInv'
  <2>1. LinkInv'
    BY <1>12, LinkKept DEF ReadResponse
  <2>2. unread' \in [Gnbs -> 0 .. ResponseRoom]
    BY <1>12, AmfAssumption DEF ReadResponse
  <2> QED BY <1>12, <2>1, <2>2 DEF ReadResponse, BusTypeOK, busVars, serverVars
<1> QED
  BY <1>1, <1>2, <1>3, <1>5, <1>6, <1>7, <1>8, <1>9, <1>10, <1>11, <1>12, RegSteps
     DEF BusStep

LEMMA TypeHolds == RegSpec => [](RegTypeOK /\ LinkInv)
BY TypeInit, TypeNext, PTL DEF RegSpec

(* RegTypeOK holds for any number of associations and messages: only what   *)
(* could be decoded is answered, and only what authenticated gets as far as *)
(* the event (amf/main.go:183-239).                                         *)
THEOREM RegTypeCorrect == RegSpec => []RegTypeOK
BY TypeHolds, PTL
-----------------------------------------------------------------------------
(* What was sent stays sent, and what was read stays read. *)
LEMMA LinkGrows ==
  ASSUME RegTypeOK, LinkInv, [RegNext]_regVars
  PROVE  \A g \in Gnbs : /\ Taken(g) \in 0 .. Len(sent[g]) /\ Taken(g)' \in {Taken(g), Taken(g) + 1}
                         /\ Len(sent[g]) \in Nat /\ Len(sent'[g]) \in Nat
                         /\ Len(sent[g]) <= Len(sent'[g])
                         /\ \A i \in 1 .. Len(sent[g]) : sent'[g][i] = sent[g][i]
<1>1. /\ sent \in [Gnbs -> Seq(Message)] /\ toAmf \in [Gnbs -> Seq(Message)]
      /\ sent' \in [Gnbs -> Seq(Message)]
  BY TypeNext DEF RegTypeOK, AmfTypeOK
<1>2. \A g \in Gnbs : Len(sent[g]) \in Nat /\ Len(sent'[g]) \in Nat
  BY <1>1
<1>3. \A g \in Gnbs : Taken(g) \in 0 .. Len(sent[g])
  BY <1>1, LinkBounds DEF LinkInv, Taken
<1>4. ASSUME NEW m \in Message, Send(m)
      PROVE  \A g \in Gnbs : /\ Taken(g)' = Taken(g) /\ Len(sent[g]) <= Len(sent'[g])
                             /\ \A i \in 1 .. Len(sent[g]) : sent'[g][i] = sent[g][i]
  BY <1>4, SendKeepsLink
<1>5. ASSUME NEW h \in Gnbs, Receive(h), UNCHANGED sent
      PROVE  \A g \in Gnbs : Taken(g)' \in {Taken(g), Taken(g) + 1}
  BY <1>5, ReceiveKeepsLink
<1>6. ASSUME UNCHANGED <<toAmf, sent>> PROVE \A g \in Gnbs : Taken(g)' = Taken(g)
  BY <1>6 DEF Taken
<1>7. \/ \E m \in Message : Send(m)
      \/ \E h \in Gnbs : Receive(h) /\ UNCHANGED sent
      \/ UNCHANGED <<toAmf, sent>>
  BY RegSteps
     DEF Close, ReadResponse, Respond, RespondFails, PublishUERegistered, ReadError,
         DeleteUE, Delete, regVars, amfVars, linkVars
<1>8. \A g \in Gnbs : UNCHANGED sent =>
        /\ Len(sent[g]) <= Len(sent'[g])
        /\ \A i \in 1 .. Len(sent[g]) : sent'[g][i] = sent[g][i]
  BY <1>2
<1> QED BY <1>2, <1>3, <1>4, <1>5, <1>6, <1>7, <1>8

WasRead(m) == \E j \in 1 .. Taken(m.gnb) : sent[m.gnb][j] = m

LEMMA ReadStaysRead ==
  ASSUME RegTypeOK, LinkInv, [RegNext]_regVars, NEW m \in Message, WasRead(m)
  PROVE  WasRead(m)'
<1> DEFINE g == m.gnb
<1>1. g \in Gnbs
  BY MessageType
<1>2. PICK j \in 1 .. Taken(g) : sent[g][j] = m
  BY DEF WasRead
<1>3. j \in 1 .. Taken(g)' /\ sent'[g][j] = m
  BY <1>1, <1>2, LinkGrows
<1> QED BY <1>3 DEF WasRead

LEMMA NotAfterStays ==
  ASSUME RegTypeOK, LinkInv, [RegNext]_regVars, NEW n, NEW m \in Message, NotAfter(n, m)
  PROVE  NotAfter(n, m)'
<1> DEFINE g == m.gnb
<1>1. g \in Gnbs
  BY MessageType
<1>2. PICK i \in 1 .. Len(sent[g]), j \in 1 .. Len(sent[g]) :
        i <= j /\ sent[g][i] = n /\ sent[g][j] = m
  BY DEF NotAfter
<1>3. /\ i \in 1 .. Len(sent'[g]) /\ j \in 1 .. Len(sent'[g])
      /\ sent'[g][i] = n /\ sent'[g][j] = m
  BY <1>1, <1>2, LinkGrows
<1> QED BY <1>2, <1>3 DEF NotAfter

(* The message that is read now was not read before, and all that were, by  *)
(* the same gNB, come before it.                                            *)
LEMMA ReadNow ==
  ASSUME RegTypeOK, LinkInv, [RegNext]_regVars, NEW g \in Gnbs, Receive(g), UNCHANGED sent,
         NEW m, m = Head(toAmf[g])
  PROVE  /\ m \in Message /\ m.gnb = g
         /\ ~WasRead(m)
         /\ WasRead(m)' /\ NotAfter(m, m)'
         /\ \A n \in Message : WasRead(n) /\ n.gnb = g => NotAfter(n, m)'
         /\ \A n \in Message : WasRead(n)' => WasRead(n) \/ n = m
<1>1. /\ Taken(g) + 1 \in 1 .. Len(sent[g]) /\ m = sent[g][Taken(g) + 1]
      /\ m \in Message /\ m.gnb = g
      /\ \A h \in Gnbs : Taken(h)' = IF h = g THEN Taken(h) + 1 ELSE Taken(h)
  BY ReceiveKeepsLink
<1>2. \A h \in Gnbs : Taken(h) \in 0 .. Len(sent[h]) /\ Len(sent[h]) \in Nat
  BY LinkGrows
<1>3. \A i, j \in 1 .. Len(sent[g]) : sent[g][i] = sent[g][j] => i = j
  BY DEF LinkInv, Link
<1>4. ~WasRead(m)
  BY <1>1, <1>2, <1>3 DEF WasRead
<1>5. WasRead(m)'
  BY <1>1, <1>2 DEF WasRead
<1>6. NotAfter(m, m)'
  BY <1>1, <1>2 DEF NotAfter
<1>7. ASSUME NEW n \in Message, WasRead(n), n.gnb = g PROVE NotAfter(n, m)'
  <2>1. PICK j \in 1 .. Taken(g) : sent[g][j] = n
    BY <1>7 DEF WasRead
  <2>2. j \in 1 .. Len(sent[g]) /\ j <= Taken(g) + 1
    BY <1>1, <1>2, <2>1
  <2> QED BY <1>1, <2>1, <2>2 DEF NotAfter
<1>8. ASSUME NEW n \in Message, WasRead(n)' PROVE WasRead(n) \/ n = m
  <2>1. n.gnb \in Gnbs
    BY MessageType
  <2>2. PICK j \in 1 .. Taken(n.gnb)' : sent[n.gnb][j] = n
    BY <1>8 DEF WasRead
  <2>3. CASE j \in 1 .. Taken(n.gnb)
    BY <2>2, <2>3 DEF WasRead
  <2>4. CASE n.gnb = g /\ j = Taken(g) + 1
    BY <1>1, <2>2, <2>4
  <2> QED BY <1>1, <1>2, <2>1, <2>2, <2>3, <2>4
<1> QED BY <1>1, <1>4, <1>5, <1>6, <1>7, <1>8
-----------------------------------------------------------------------------
(* Contexts, deletions and answers are all about messages that were read,   *)
(* and the next message read is none of these. What a gNB may rely on once  *)
(* it was answered holds from the moment its message was read.              *)
KeepsUp(n) ==
  LET m == ueStore[n.ueid] IN
  IF m = NoContext THEN \E d \in deleted : d.ueid = n.ueid
                   ELSE m.gnb = n.gnb => NotAfter(n, m)

ReadInv ==
  /\ \A u \in UEs : ueStore[u] # NoContext => WasRead(ueStore[u]) /\ ueStore[u].ueid = u
  /\ \A a \in Admins : deleting[a] # NoContext => WasRead(deleting[a])
  /\ \A m \in answered \cup deleted : WasRead(m)

KeptInv ==
  /\ \A n \in Message : WasRead(n) /\ n.kind # "garbled" => KeepsUp(n)
  /\ \A m \in answered : m.kind # "garbled"

HistoryInv == ReadInv /\ DeletedStaysDeleted /\ KeptInv

LEMMA OnlyReceiveReads ==
  ASSUME RegTypeOK, LinkInv, [RegNext]_regVars, \A g \in Gnbs : Taken(g)' = Taken(g),
         NEW n \in Message, WasRead(n)'
  PROVE  WasRead(n)
<1>1. n.gnb \in Gnbs
  BY MessageType
<1>2. PICK j \in 1 .. Taken(n.gnb) : sent'[n.gnb][j] = n
  BY <1>1 DEF WasRead
<1>3. sent[n.gnb][j] = n
  BY <1>1, <1>2, LinkGrows
<1> QED BY <1>2, <1>3 DEF WasRead

LEMMA KeepsUpStays ==
  ASSUME RegTypeOK, LinkInv, [RegNext]_regVars, NEW n \in Message, KeepsUp(n),
         ueStore'[n.ueid] = ueStore[n.ueid], deleted \subseteq deleted'
  PROVE  KeepsUp(n)'
<1>1. ueStore[n.ueid] \in Message \cup {NoContext}
  BY MessageType DEF RegTypeOK, AmfTypeOK, MaybeMessage
<1>2. CASE ueStore[n.ueid] = NoContext
  BY <1>2 DEF KeepsUp
<1>3. CASE ueStore[n.ueid] # NoContext
  <2>1. PICK m \in Message : m = ueStore[n.ueid]
    BY <1>1, <1>3
  <2>2. m.gnb = n.gnb => NotAfter(n, m)
    BY <1>3, <2>1 DEF KeepsUp
  <2>3. m.gnb = n.gnb => NotAfter(n, m)'
    BY <2>2, NotAfterStays
  <2> QED BY <1>3, <2>1, <2>3 DEF KeepsUp
<1> QED BY <1>2, <1>3

(* Steps that neither read a message nor change a context.                  *)
LEMMA HistoryKept ==
  ASSUME RegTypeOK, LinkInv, HistoryInv, [RegNext]_regVars,
         \A g \in Gnbs : Taken(g)' = Taken(g),
         UNCHANGED <<ueStore, deleted>>,
         \A m \in answered' : m \in answered \/ (WasRead(m) /\ m.kind # "garbled"),
         \A a \in Admins : deleting'[a] # NoContext =>
           deleting'[a] = deleting[a] \/ \E u \in UEs : deleting'[a] = ueStore[u]
  PROVE  HistoryInv'
<1>1. /\ answered \subseteq Message /\ deleted \subseteq Message
      /\ answered' \subseteq Message
      /\ ueStore \in [UEs -> Message \cup {NoContext}]
      /\ deleting \in [Admins -> Message \cup {NoContext}]
  BY TypeNext DEF RegTypeOK, AmfTypeOK, MaybeMessage
<1>2. \A m \in Message : WasRead(m) => WasRead(m)'
  BY ReadStaysRead
<1>3. ASSUME NEW u \in UEs, ueStore'[u] # NoContext, NEW m, m = ueStore'[u]
      PROVE  WasRead(m)' /\ m.ueid = u
  BY <1>1, <1>2, <1>3 DEF HistoryInv, ReadInv
<1>4. ASSUME NEW a \in Admins, deleting'[a] # NoContext, NEW m, m = deleting'[a]
      PROVE  WasRead(m)'
  <2>1. CASE m = deleting[a]
    BY <1>1, <1>2, <1>4, <2>1 DEF HistoryInv, ReadInv
  <2>2. CASE \E u \in UEs : m = ueStore[u]
    BY <1>1, <1>2, <1>4, <2>2 DEF HistoryInv, ReadInv
  <2> QED BY <1>4, <2>1, <2>2
<1>5. \A m \in answered' \cup deleted' : WasRead(m)'
  BY <1>1, <1>2 DEF HistoryInv, ReadInv
<1>6. ReadInv'
  BY <1>3, <1>4, <1>5 DEF ReadInv
<1>7. DeletedStaysDeleted'
  BY DEF HistoryInv, DeletedStaysDeleted
<1>8. ASSUME NEW n \in Message, WasRead(n)', n.kind # "garbled" PROVE KeepsUp(n)'
  <2>1. WasRead(n)
    BY <1>8, OnlyReceiveReads
  <2>2. KeepsUp(n)
    BY <1>8, <2>1 DEF HistoryInv, KeptInv
  <2> QED BY <2>2, KeepsUpStays
<1>9. KeptInv'
  BY <1>8 DEF HistoryInv, KeptInv
<1> QED BY <1>6, <1>7, <1>9 DEF HistoryInv

LEMMA HistoryReceive ==
  ASSUME RegTypeOK, LinkInv, HistoryInv, [RegNext]_regVars,
         NEW g \in Gnbs, Receive(g), UNCHANGED sent
  PROVE  HistoryInv'
<1>1. PICK m : m = Head(toAmf[g])
  OBVIOUS
<1>2. /\ m \in Message /\ m.gnb = g /\ ~WasRead(m) /\ WasRead(m)' /\ NotAfter(m, m)'
      /\ \A n \in Message : WasRead(n) /\ n.gnb = g => NotAfter(n, m)'
      /\ \A n \in Message : WasRead(n)' => WasRead(n) \/ n = m
  BY <1>1, ReadNow
<1>3. m.ueid \in UEs /\ m # NoContext
  BY <1>2, MessageType
<1>4. /\ answered \subseteq Message /\ deleted \subseteq Message
      /\ ueStore \in [UEs -> Message \cup {NoContext}]
      /\ deleting \in [Admins -> Message \cup {NoContext}]
      /\ UNCHANGED <<answered, deleting, deleted>>
  BY DEF RegTypeOK, AmfTypeOK, MaybeMessage, Receive, apiVars
<1>5. \A n \in Message : WasRead(n) => WasRead(n)'
  BY ReadStaysRead
<1>6. \/ m.kind = "garbled" /\ ueStore' = ueStore
      \/ m.kind # "garbled" /\ ueStore' = [ueStore EXCEPT ![m.ueid] = m]
  BY <1>1 DEF Receive, Register
<1>7. \A u \in UEs : ueStore'[u] = ueStore[u] \/ (u = m.ueid /\ ueStore'[u] = m)
  BY <1>4, <1>6
<1>8. ReadInv'
  <2>1. ASSUME NEW u \in UEs, ueStore'[u] # NoContext, NEW c, c = ueStore'[u]
        PROVE  WasRead(c)' /\ c.ueid = u
    <3>1. CASE c = ueStore[u]
      BY <1>4, <1>5, <2>1, <3>1 DEF HistoryInv, ReadInv
    <3>2. CASE u = m.ueid /\ c = m
      BY <1>2, <3>2
    <3> QED BY <1>7, <2>1, <3>1, <3>2
  <2>2. ASSUME NEW a \in Admins, deleting'[a] # NoContext, NEW c, c = deleting'[a]
        PROVE  WasRead(c)'
    BY <1>4, <1>5, <2>2 DEF HistoryInv, ReadInv
  <2>3. \A c \in answered' \cup deleted' : WasRead(c)'
    BY <1>4, <1>5 DEF HistoryInv, ReadInv
  <2> QED BY <2>1, <2>2, <2>3 DEF ReadInv
<1>9. DeletedStaysDeleted'
  <2>1. m \notin deleted
    BY <1>2, <1>4 DEF HistoryInv, ReadInv
  <2> QED BY <1>4, <1>7, <2>1 DEF HistoryInv, DeletedStaysDeleted
<1>10. ASSUME NEW n \in Message, WasRead(n)', n.kind # "garbled" PROVE KeepsUp(n)'
  <2>1. n.ueid \in UEs
    BY MessageType
  <2>2. WasRead(n) => KeepsUp(n)
    BY <1>10 DEF HistoryInv, KeptInv
  <2>3. CASE ueStore'[n.ueid] = ueStore[n.ueid] /\ WasRead(n)
    BY <1>4, <2>2, <2>3, KeepsUpStays
  <2>4. CASE ueStore'[n.ueid] = m
    <3>1. m.gnb = n.gnb => NotAfter(n, m)'
      BY <1>2, <1>10
    <3> QED BY <1>3, <2>4, <3>1 DEF KeepsUp
  <2>5. n = m => ueStore'[n.ueid] = m
    BY <1>3, <1>4, <1>6, <1>10
  <2> QED BY <1>2, <1>7, <1>10, <2>1, <2>3, <2>4, <2>5
<1>11. KeptInv'
  BY <1>4, <1>10 DEF HistoryInv, KeptInv
<1> QED BY <1>8, <1>9, <1>11 DEF HistoryInv

LEMMA HistoryDelete ==
  ASSUME RegTypeOK, LinkInv, HistoryInv, [RegNext]_regVars,
         NEW a \in Admins, Delete(a), UNCHANGED sent
  PROVE  HistoryInv'
<1>1. PICK d : d = deleting[a]
  OBVIOUS
<1>2. /\ answered \subseteq Message /\ deleted \subseteq Message
      /\ ueStore \in [UEs -> Message \cup {NoContext}]
      /\ deleting \in [Admins -> Message \cup {NoContext}]
  BY DEF RegTypeOK, AmfTypeOK, MaybeMessage
<1>3. /\ d # NoContext /\ d \in Message
      /\ ueStore' = [ueStore EXCEPT ![d.ueid] = NoContext]
      /\ deleted' = deleted \cup {d} /\ deleting' = [deleting EXCEPT ![a] = NoContext]
      /\ UNCHANGED <<answered, toAmf, sent>>
  BY <1>1, <1>2 DEF Delete, linkVars
<1>4. d.ueid \in UEs /\ WasRead(d)
  BY <1>1, <1>3, MessageType DEF HistoryInv, ReadInv
<1>5. /\ \A n \in Message : WasRead(n) => WasRead(n)'
      /\ \A g \in Gnbs : Taken(g)' = Taken(g)
  BY <1>3, ReadStaysRead DEF Taken
<1>6. \A u \in UEs : ueStore'[u] = IF u = d.ueid THEN NoContext ELSE ueStore[u]
  BY <1>2, <1>3
<1>7. ReadInv'
  <2>1. ASSUME NEW u \in UEs, ueStore'[u] # NoContext, NEW c, c = ueStore'[u]
        PROVE  WasRead(c)' /\ c.ueid = u
    BY <1>2, <1>5, <1>6, <2>1 DEF HistoryInv, ReadInv
  <2>2. ASSUME NEW b \in Admins, deleting'[b] # NoContext, NEW c, c = deleting'[b]
        PROVE  WasRead(c)'
    BY <1>2, <1>3, <1>5, <2>2 DEF HistoryInv, ReadInv
  <2>3. \A c \in answered' \cup deleted' : WasRead(c)'
    BY <1>2, <1>3, <1>4, <1>5 DEF HistoryInv, ReadInv
  <2> QED BY <2>1, <2>2, <2>3 DEF ReadInv
<1>8. DeletedStaysDeleted'
  <2>1. \A u \in UEs : u # d.ueid => ueStore[u] # d
    BY <1>3 DEF HistoryInv, ReadInv
  <2>2. NoContext \notin deleted'
    BY <1>2, <1>3, AmfAssumption
  <2> QED BY <1>3, <1>6, <2>1, <2>2 DEF HistoryInv, DeletedStaysDeleted
<1>9. ASSUME NEW n \in Message, WasRead(n)', n.kind # "garbled" PROVE KeepsUp(n)'
  <2>1. KeepsUp(n) /\ n.ueid \in UEs
    <3>1. WasRead(n)
      BY <1>5, <1>9, OnlyReceiveReads
    <3> QED BY <1>9, <3>1, MessageType DEF HistoryInv, KeptInv
  <2>2. CASE n.ueid = d.ueid
    BY <1>3, <1>6, <2>1, <2>2 DEF KeepsUp
  <2>3. CASE n.ueid # d.ueid
    BY <1>3, <1>6, <2>1, <2>3, KeepsUpStays
  <2> QED BY <2>2, <2>3
<1>10. KeptInv'
  BY <1>3, <1>9 DEF HistoryInv, KeptInv
<1> QED BY <1>7, <1>8, <1>10 DEF HistoryInv

LEMMA HistoryInit == RegInit => HistoryInv
<1> SUFFICES ASSUME RegInit PROVE HistoryInv
  OBVIOUS
<1>1. /\ \A u \in UEs : ueStore[u] = NoContext
      /\ \A a \in Admins : deleting[a] = NoContext
      /\ answered = {} /\ deleted = {}
      /\ \A g \in Gnbs : sent[g] = <<>> /\ toAmf[g] = <<>>
  BY DEF RegInit, AmfInit
<1>2. \A n \in Message : ~WasRead(n)
  <2>1. \A g \in Gnbs : Taken(g) = 0
    BY <1>1 DEF Taken, Left
  <2> QED BY <2>1, MessageType DEF WasRead
<1> QED BY <1>1, <1>2 DEF HistoryInv, ReadInv, KeptInv, DeletedStaysDeleted

LEMMA HistoryNext ==
  RegTypeOK /\ LinkInv /\ HistoryInv /\ [RegNext]_regVars => HistoryInv'
<1> SUFFICES ASSUME RegTypeOK, LinkInv, HistoryInv, [RegNext]_regVars PROVE HistoryInv'
  OBVIOUS
<1>1. ASSUME UNCHANGED <<toAmf, sent>> PROVE \A g \in Gnbs : Taken(g)' = Taken(g)
  BY <1>1 DEF Taken
<1>2. ASSUME NEW m \in Message, Send(m) PROVE HistoryInv'
  <2>1. \A g \in Gnbs : Taken(g)' = Taken(g)
    BY <1>2, SendKeepsLink
  <2> QED BY <1>2, <2>1, HistoryKept DEF Send, apiVars
<1>3. ASSUME NEW g \in Gnbs, Respond(g), UNCHANGED sent PROVE HistoryInv'
  <2>1. msg[g] \in Message /\ msg[g].kind # "garbled" /\ msg[g].gnb = g
    BY <1>3 DEF Respond, RegTypeOK, AmfTypeOK
  <2>2. WasRead(msg[g])
    <3>1. Taken(g) \in Nat /\ Taken(g) > 0 /\ msg[g] = sent[g][Taken(g)]
      BY <1>3, LinkGrows DEF Respond, LinkInv
    <3> QED BY <2>1, <3>1 DEF WasRead
  <2>3. UNCHANGED <<toAmf, sent, ueStore, deleting, deleted>> /\ answered' = answered \cup {msg[g]}
    BY <1>3 DEF Respond, apiVars
  <2> QED BY <1>1, <2>1, <2>2, <2>3, HistoryKept
<1>4. ASSUME NEW a \in Admins, NEW u \in UEs, DeleteUE(a, u), UNCHANGED sent PROVE HistoryInv'
  <2>1. /\ UNCHANGED <<toAmf, sent, ueStore, answered, deleted>>
        /\ deleting \in [Admins -> MaybeMessage]
        /\ deleting' = [deleting EXCEPT ![a] = ueStore[u]]
    BY <1>4 DEF DeleteUE, linkVars, RegTypeOK, AmfTypeOK
  <2>2. \A b \in Admins : deleting'[b] = deleting[b] \/ deleting'[b] = ueStore[u]
    BY <2>1
  <2> QED BY <1>1, <2>1, <2>2, HistoryKept
<1>5. ASSUME UNCHANGED <<toAmf, sent, ueStore, answered, deleting, deleted>> PROVE HistoryInv'
  BY <1>1, <1>5, HistoryKept
<1> QED
  BY RegSteps, <1>2, <1>3, <1>4, <1>5, HistoryReceive, HistoryDelete
     DEF Close, ReadResponse, RespondFails, PublishUERegistered, ReadError, regVars,
         amfVars, linkVars, apiVars

LEMMA HistoryHolds == RegSpec => []HistoryInv
BY TypeHolds, HistoryInit, HistoryNext, PTL DEF RegSpec

(* However many deletions race, and whatever registers in between, a        *)
(* context whose deletion was reported never comes back                     *)
(* (amf/main.go:304-322).                                                   *)
THEOREM DeletionsAreFinal == RegSpec => []DeletedStaysDeleted
BY HistoryHolds, PTL DEF HistoryInv

(* Once a gNB is answered, the UE's context can only be from this message,  *)
(* a later one of its own, or another gNB's, or was deleted by an           *)
(* administrator (amf/main.go:183-244, 313-322).                            *)
THEOREM ContextsKeepUp == RegSpec => []ContextKeepsUp
<1>1. RegTypeOK /\ HistoryInv => ContextKeepsUp
  BY DEF RegTypeOK, AmfTypeOK, HistoryInv, ReadInv, KeptInv, KeepsUp, ContextKeepsUp
<1> QED BY <1>1, TypeHolds, HistoryHolds, PTL
-----------------------------------------------------------------------------
(* The events of the bus, oldest first. *)
Events == stream \o outbox

Before(n, m) == NotAfter(n, m) /\ n # m

InOrder(e) ==
  \A i, j \in 1 .. Len(e) : i < j /\ e[i].gnb = e[j].gnb => Before(e[i], e[j])

(* An event is of a message that was answered, and one that is about to be  *)
(* published is later than all there are of its gNB.                        *)
EventInv ==
  /\ \A k \in 1 .. Len(Events) : Events[k] \in answered /\ Events[k].kind = "genuine"
  /\ InOrder(Events)
  /\ \A g \in Gnbs : pc[g] = "publish" => msg[g] \in answered
  /\ \A g \in Gnbs : pc[g] \in {"respond", "publish"} =>
       \A k \in 1 .. Len(Events) : Events[k].gnb = g => Before(Events[k], msg[g])

(* Sending the oldest event on keeps them all, losing it all the others.    *)
LEMMA FlushedEvents ==
  ASSUME NEW s \in Seq(Event), NEW o \in Seq(Event), o # <<>>
  PROVE  Append(s, Head(o)) \o Tail(o) = s \o o
<1>1. /\ Append(s, Head(o)) \in Seq(Event) /\ Tail(o) \in Seq(Event)
      /\ Len(Append(s, Head(o))) = Len(s) + 1 /\ Len(Tail(o)) = Len(o) - 1
      /\ Len(s) \in Nat /\ Len(o) \in Nat /\ Len(o) > 0
  OBVIOUS
<1> DEFINE a == Append(s, Head(o)) \o Tail(o)
           b == s \o o
<1>2. a \in Seq(Event) /\ b \in Seq(Event) /\ Len(a) = Len(b) /\ Len(b) = Len(s) + Len(o)
  BY <1>1
<1>3. \A i \in 1 .. Len(b) : a[i] = b[i]
  BY <1>1
<1> QED BY <1>2, <1>3

LEMMA FewerEvents ==
  ASSUME NEW s \in Seq(Event), NEW o \in Seq(Event), o # <<>>
  PROVE  /\ Len(s \o Tail(o)) = Len(s \o o) - 1 /\ Len(s \o o) \in Nat
         /\ \A i \in 1 .. Len(s \o Tail(o)) :
              (s \o Tail(o))[i] = (s \o o)[IF i <= Len(s) THEN i ELSE i + 1]
OBVIOUS

LEMMA PublishedEvents ==
  ASSUME NEW s \in Seq(Event), NEW o \in Seq(Event), NEW m \in Event
  PROVE  /\ Len(s \o Append(o, m)) = Len(s \o o) + 1 /\ Len(s \o o) \in Nat
         /\ (s \o Append(o, m))[Len(s \o o) + 1] = m
         /\ \A i \in 1 .. Len(s \o o) : (s \o Append(o, m))[i] = (s \o o)[i]
OBVIOUS

LEMMA BeforeStays ==
  ASSUME RegTypeOK, LinkInv, [RegNext]_regVars, NEW n, NEW m \in Message, Before(n, m)
  PROVE  Before(n, m)'
BY NotAfterStays DEF Before

(* Steps that publish nothing: the events stay, or become fewer.            *)
LEMMA EventsKept ==
  ASSUME RegTypeOK, LinkInv, EventInv, [RegNext]_regVars, answered \subseteq answered',
         NEW e, e = Events, NEW f, f = Events', Len(e) \in Nat,
         Len(f) \in Nat,
         NEW at, \A i \in 1 .. Len(f) : at[i] \in 1 .. Len(e) /\ f[i] = e[at[i]],
         \A i, j \in 1 .. Len(f) : i < j => at[i] < at[j],
         \A g \in Gnbs : pc'[g] = "publish" => msg'[g] \in answered',
         \A g \in Gnbs : pc'[g] \in {"respond", "publish"} =>
           \A k \in 1 .. Len(e) : e[k].gnb = g => Before(e[k], msg[g])'
  PROVE  EventInv'
<1>1. \A k \in 1 .. Len(e) : e[k] \in answered /\ e[k].kind = "genuine" /\ e[k] \in Message
  BY DEF EventInv, RegTypeOK, AmfTypeOK
<1>2. \A i, j \in 1 .. Len(e) : i < j /\ e[i].gnb = e[j].gnb => Before(e[i], e[j])
  BY DEF EventInv, InOrder
<1>3. ASSUME NEW i \in 1 .. Len(f), NEW j \in 1 .. Len(f), i < j, f[i].gnb = f[j].gnb
      PROVE  Before(f[i], f[j])'
  <2>1. Before(e[at[i]], e[at[j]]) /\ e[at[j]] \in Message
    BY <1>1, <1>2, <1>3
  <2> QED BY <2>1, BeforeStays
<1>4. InOrder(f)'
  BY <1>3 DEF InOrder
<1> QED BY <1>1, <1>4 DEF EventInv

(* Steps that leave the events alone.                                       *)
LEMMA EventsSame ==
  ASSUME RegTypeOK, LinkInv, EventInv, [RegNext]_regVars, answered \subseteq answered',
         UNCHANGED <<stream, outbox>>,
         \A g \in Gnbs : pc'[g] = "publish" => msg'[g] \in answered',
         \A g \in Gnbs : pc'[g] \in {"respond", "publish"} =>
           \A k \in 1 .. Len(Events) : Events[k].gnb = g => Before(Events[k], msg[g])'
  PROVE  EventInv'
<1>1. PICK e : e = Events
  OBVIOUS
<1>2. e = Events'
  BY <1>1 DEF Events
<1>3. e \in Seq(Event) /\ Len(e) \in Nat
  BY <1>1 DEF Events, RegTypeOK, BusTypeOK
<1>4. PICK at : at = [i \in 1 .. Len(e) |-> i]
  OBVIOUS
<1>5. \A g \in Gnbs : pc'[g] \in {"respond", "publish"} =>
        \A k \in 1 .. Len(e) : e[k].gnb = g => Before(e[k], msg[g])'
  BY <1>1, <1>2
<1> QED BY <1>1, <1>2, <1>3, <1>4, <1>5, EventsKept

(* A message that is being handled stays where it is in the order.          *)
LEMMA PendingStays ==
  ASSUME RegTypeOK, LinkInv, EventInv, [RegNext]_regVars, NEW e, e = Events,
         NEW g \in Gnbs, pc[g] \in {"respond", "publish"}, msg'[g] = msg[g]
  PROVE  \A k \in 1 .. Len(e) : e[k].gnb = g => Before(e[k], msg[g])'
<1>1. PICK m : m = msg[g]
  OBVIOUS
<1>2. m \in Message
  BY <1>1 DEF RegTypeOK, AmfTypeOK
<1>3. \A k \in 1 .. Len(e) : e[k].gnb = g => Before(e[k], m)'
  BY <1>1, <1>2, BeforeStays DEF EventInv
<1> QED BY <1>1, <1>3

LEMMA EventsPublished ==
  ASSUME RegTypeOK, LinkInv, EventInv, [RegNext]_regVars,
         NEW g \in Gnbs, PublishUERegistered(g), UNCHANGED sent
  PROVE  EventInv'
<1>1. PICK m, e, f : m = msg[g] /\ e = Events /\ f = Events'
  OBVIOUS
<1>2. /\ m \in Message /\ m \in answered /\ m.gnb = g /\ m.kind = "genuine"
      /\ pc \in [Gnbs -> {"read", "respond", "publish", "closed"}]
      /\ msg \in [Gnbs -> MaybeMessage]
  BY <1>1 DEF PublishUERegistered, RegTypeOK, AmfTypeOK, EventInv
<1>3. /\ stream \in Seq(Event) /\ outbox \in Seq(Event) /\ m \in Event
      /\ stream' = stream /\ outbox' = Append(outbox, m) /\ answered' = answered
      /\ pc' = [pc EXCEPT ![g] = "read"] /\ msg' = [msg EXCEPT ![g] = NoContext]
  BY <1>1, <1>2, MessageType
     DEF PublishUERegistered, Publish, NextMessage, Goto, RegTypeOK, BusTypeOK, serverVars, linkVars
<1>4. /\ Len(f) = Len(e) + 1 /\ Len(e) \in Nat /\ f[Len(e) + 1] = m
      /\ \A i \in 1 .. Len(e) : f[i] = e[i]
  BY <1>1, <1>3, PublishedEvents DEF Events
<1>5. /\ \A k \in 1 .. Len(e) : e[k] \in answered /\ e[k].kind = "genuine" /\ e[k] \in Message
      /\ \A i, j \in 1 .. Len(e) : i < j /\ e[i].gnb = e[j].gnb => Before(e[i], e[j])
      /\ \A k \in 1 .. Len(e) : e[k].gnb = g => Before(e[k], m)
  BY <1>1, <1>2 DEF EventInv, InOrder, RegTypeOK, AmfTypeOK, PublishUERegistered
<1>6. \A i, j \in 1 .. Len(f) : i < j /\ f[i].gnb = f[j].gnb => Before(f[i], f[j])'
  <2> SUFFICES ASSUME NEW i \in 1 .. Len(f), NEW j \in 1 .. Len(f), i < j, f[i].gnb = f[j].gnb
               PROVE  Before(f[i], f[j])'
    OBVIOUS
  <2>1. Before(f[i], f[j]) /\ f[j] \in Message
    BY <1>2, <1>4, <1>5
  <2> QED BY <2>1, BeforeStays
<1>7. InOrder(f)'
  BY <1>6 DEF InOrder
<1>8. \A k \in 1 .. Len(f) : f[k] \in answered /\ f[k].kind = "genuine"
  BY <1>2, <1>4, <1>5
<1>9. ASSUME NEW h \in Gnbs, pc'[h] \in {"respond", "publish"}
      PROVE  /\ pc'[h] = "publish" => msg'[h] \in answered
             /\ \A k \in 1 .. Len(f) : f[k].gnb = h => Before(f[k], msg[h])'
  <2>1. h # g /\ pc[h] = pc'[h] /\ msg'[h] = msg[h]
    BY <1>2, <1>3, <1>9
  <2>2. \A k \in 1 .. Len(e) : e[k].gnb = h => Before(e[k], msg[h])'
    BY <1>1, <1>9, <2>1, PendingStays
  <2>3. msg[h] \in answered \/ pc[h] # "publish"
    BY <1>9, <2>1 DEF EventInv
  <2> QED BY <1>2, <1>4, <2>1, <2>2, <2>3
<1> QED BY <1>1, <1>3, <1>7, <1>8, <1>9 DEF EventInv

(* The oldest event of the buffer is dropped, or has no stream to go to.    *)
LEMMA EventsDropped ==
  ASSUME RegTypeOK, LinkInv, EventInv, [RegNext]_regVars,
         outbox # <<>>, stream' = stream, outbox' = Tail(outbox), UNCHANGED <<amfVars, sent>>
  PROVE  EventInv'
<1>1. PICK e, f : e = Events /\ f = Events'
  OBVIOUS
<1>2. stream \in Seq(Event) /\ outbox \in Seq(Event)
  BY DEF RegTypeOK, BusTypeOK
<1>3. PICK at : at = [i \in 1 .. Len(f) |-> IF i <= Len(stream) THEN i ELSE i + 1]
  OBVIOUS
<1>4. /\ Len(f) = Len(e) - 1 /\ Len(e) \in Nat
      /\ \A i \in 1 .. Len(f) : f[i] = e[IF i <= Len(stream) THEN i ELSE i + 1]
  BY <1>1, <1>2, FewerEvents DEF Events
<1>5. Len(f) \in Nat
  BY <1>1, <1>2 DEF Events
<1>6. /\ \A i \in 1 .. Len(f) : at[i] \in 1 .. Len(e) /\ f[i] = e[at[i]]
      /\ \A i, j \in 1 .. Len(f) : i < j => at[i] < at[j]
  <2>1. PICK n \in Nat : n = Len(stream)
    BY <1>2
  <2>2. \A i \in 1 .. Len(f) : at[i] = IF i <= n THEN i ELSE i + 1
    BY <1>3, <2>1
  <2>3. \A i \in 1 .. Len(f) : at[i] \in 1 .. Len(e)
    BY <1>4, <1>5, <2>2
  <2>4. \A i \in 1 .. Len(f) : f[i] = e[at[i]]
    BY <1>4, <2>1, <2>2
  <2>5. \A i, j \in 1 .. Len(f) : i < j => at[i] < at[j]
    BY <1>5, <2>2
  <2> QED BY <2>3, <2>4, <2>5
<1>7. answered' = answered /\ pc' = pc /\ msg' = msg
  BY DEF amfVars, linkVars
<1>8. \A g \in Gnbs : pc'[g] \in {"respond", "publish"} =>
        \A k \in 1 .. Len(e) : e[k].gnb = g => Before(e[k], msg[g])'
  BY <1>1, <1>7, PendingStays
<1>9. \A g \in Gnbs : pc'[g] = "publish" => msg'[g] \in answered'
  BY <1>7 DEF EventInv
<1> QED BY <1>1, <1>4, <1>5, <1>6, <1>7, <1>8, <1>9, EventsKept

LEMMA EventsReceived ==
  ASSUME RegTypeOK, LinkInv, HistoryInv, EventInv, [RegNext]_regVars,
         NEW g \in Gnbs, Receive(g), UNCHANGED sent
  PROVE  EventInv'
<1>1. PICK m, e : m = Head(toAmf[g]) /\ e = Events
  OBVIOUS
<1>2. /\ m \in Message /\ ~WasRead(m)
      /\ \A n \in Message : WasRead(n) /\ n.gnb = g => NotAfter(n, m)'
  BY <1>1, ReadNow
<1>3. /\ UNCHANGED <<answered, stream, outbox>> /\ e = Events'
      /\ pc \in [Gnbs -> {"read", "respond", "publish", "closed"}]
      /\ msg \in [Gnbs -> MaybeMessage]
  BY <1>1 DEF Receive, busVars, serverVars, RegTypeOK, AmfTypeOK, Events
<1>4. \/ UNCHANGED <<pc, msg>>
      \/ pc' = [pc EXCEPT ![g] = "respond"] /\ msg' = [msg EXCEPT ![g] = m]
  BY <1>1 DEF Receive, Register, Goto
<1>5. \A k \in 1 .. Len(e) : e[k] \in Message /\ WasRead(e[k])
  BY <1>1 DEF EventInv, HistoryInv, ReadInv, RegTypeOK, AmfTypeOK
<1>6. ASSUME NEW h \in Gnbs, pc'[h] \in {"respond", "publish"}
      PROVE  /\ \A k \in 1 .. Len(e) : e[k].gnb = h => Before(e[k], msg[h])'
             /\ pc'[h] = "publish" => msg'[h] \in answered
  <2>1. CASE pc'[h] = pc[h] /\ msg'[h] = msg[h]
    BY <1>1, <1>6, <2>1, PendingStays DEF EventInv
  <2>2. CASE h = g /\ pc'[h] = "respond" /\ msg'[h] = m
    <3>1. \A k \in 1 .. Len(e) : e[k].gnb = h => Before(e[k], m)'
      BY <1>2, <1>5, <2>2 DEF Before
    <3> QED BY <2>2, <3>1
  <2> QED BY <1>3, <1>4, <2>1, <2>2
<1>7. \A h \in Gnbs : pc'[h] \in {"respond", "publish"} =>
        \A k \in 1 .. Len(Events) : Events[k].gnb = h => Before(Events[k], msg[h])'
  BY <1>1, <1>3, <1>6
<1> QED BY <1>3, <1>6, <1>7, EventsSame

LEMMA EventNext ==
  RegTypeOK /\ LinkInv /\ HistoryInv /\ EventInv /\ [RegNext]_regVars => EventInv'
<1> SUFFICES ASSUME RegTypeOK, LinkInv, HistoryInv, EventInv, [RegNext]_regVars
             PROVE  EventInv'
  OBVIOUS
<1>1. ASSUME UNCHANGED <<stream, outbox>>, answered \subseteq answered',
             \A g \in Gnbs : pc'[g] \in {"respond", "publish"} =>
               /\ pc[g] \in {"respond", "publish"} /\ msg'[g] = msg[g]
               /\ pc'[g] = "publish" => pc[g] = "publish" \/ msg[g] \in answered'
      PROVE  EventInv'
  <2>1. PICK e : e = Events
    OBVIOUS
  <2>2. e = Events'
    BY <1>1, <2>1 DEF Events
  <2>3. \A g \in Gnbs : pc'[g] \in {"respond", "publish"} =>
          \A k \in 1 .. Len(e) : e[k].gnb = g => Before(e[k], msg[g])'
    BY <1>1, <2>1, PendingStays
  <2>4. \A g \in Gnbs : pc'[g] \in {"respond", "publish"} =>
          \A k \in 1 .. Len(Events) : Events[k].gnb = g => Before(Events[k], msg[g])'
    BY <2>1, <2>2, <2>3
  <2>5. \A g \in Gnbs : pc'[g] = "publish" => msg'[g] \in answered'
    BY <1>1 DEF EventInv
  <2> QED BY <1>1, <2>4, <2>5, EventsSame
<1>2. ASSUME NEW g \in Gnbs, Respond(g) PROVE EventInv'
  BY <1>1, <1>2 DEF Respond, NextMessage, Goto, RegTypeOK, AmfTypeOK, busVars, serverVars
<1>3. ASSUME NEW g \in Gnbs, RespondFails(g) \/ ReadError(g) PROVE EventInv'
  BY <1>1, <1>3
     DEF RespondFails, ReadError, NextMessage, Goto, linkVars, RegTypeOK, AmfTypeOK, busVars,
         serverVars
<1>4. ASSUME UNCHANGED <<stream, outbox, pc, msg, answered>> PROVE EventInv'
  BY <1>1, <1>4
<1>5. ASSUME Flush, UNCHANGED <<amfVars, sent>> PROVE EventInv'
  <2>1. stream \in Seq(Event) /\ outbox \in Seq(Event)
    BY DEF RegTypeOK, BusTypeOK
  <2>2. CASE streamExists
    <3>1. Events' = Events
      BY <1>5, <2>1, <2>2, FlushedEvents DEF Flush, Events
    <3>2. answered' = answered /\ pc' = pc /\ msg' = msg
      BY <1>5 DEF amfVars, linkVars
    <3>3. PICK e : e = Events
      OBVIOUS
    <3>4. PICK at : at = [i \in 1 .. Len(e) |-> i]
      OBVIOUS
    <3>5. Len(e) \in Nat
      BY <2>1, <3>3 DEF Events
    <3>6. \A g \in Gnbs : pc'[g] \in {"respond", "publish"} =>
            \A k \in 1 .. Len(e) : e[k].gnb = g => Before(e[k], msg[g])'
      BY <3>2, <3>3, PendingStays
    <3>7. \A g \in Gnbs : pc'[g] = "publish" => msg'[g] \in answered'
      BY <3>2 DEF EventInv
    <3> QED BY <3>1, <3>2, <3>3, <3>4, <3>5, <3>6, <3>7, EventsKept
  <2>3. CASE ~streamExists
    BY <1>5, <2>3, EventsDropped DEF Flush
  <2> QED BY <2>2, <2>3
<1>6. ASSUME LoseEvent, UNCHANGED <<amfVars, sent>> PROVE EventInv'
  BY <1>6, EventsDropped DEF LoseEvent, serverVars
<1> QED
  BY RegSteps, <1>2, <1>3, <1>4, <1>5, <1>6, EventsReceived, EventsPublished
     DEF Send, Close, ReadResponse, DeleteUE, Delete, regVars, amfVars, linkVars, busVars,
         serverVars

LEMMA EventsHold == RegSpec => []EventInv
<1>1. RegInit => EventInv
  <2> SUFFICES ASSUME RegInit PROVE EventInv
    OBVIOUS
  <2>1. Len(Events) = 0
    BY DEF RegInit, BusInit, Events
  <2>2. \A g \in Gnbs : pc[g] = "read"
    BY DEF RegInit, AmfInit
  <2> QED BY <2>1, <2>2 DEF EventInv, InOrder
<1> QED BY <1>1, TypeHolds, HistoryHolds, EventNext, PTL DEF RegSpec

(* No event without an authentication and a response that was sent before   *)
(* it, wherever the event has got to (amf/main.go:217-239).                 *)
THEOREM EventsAreAllBacked == RegSpec => []EventsAreBacked
<1>1. RegTypeOK /\ EventInv => EventsAreBacked
  <2> SUFFICES ASSUME RegTypeOK, EventInv, NEW m \in ToSet(stream) \cup ToSet(outbox)
               PROVE  m.kind = "genuine" /\ m \in answered
    BY DEF EventsAreBacked
  <2>1. stream \in Seq(Event) /\ outbox \in Seq(Event)
    BY DEF RegTypeOK, BusTypeOK
  <2>2. \E k \in 1 .. Len(Events) : Events[k] = m
    <3>1. CASE m \in ToSet(stream)
      <4>1. PICK i \in 1 .. Len(stream) : stream[i] = m
        BY <2>1, <3>1 DEF ToSet
      <4>2. i \in 1 .. Len(Events) /\ Events[i] = m
        BY <2>1, <4>1 DEF Events
      <4> QED BY <4>2
    <3>2. CASE m \in ToSet(outbox)
      <4>1. PICK i \in 1 .. Len(outbox) : outbox[i] = m
        BY <2>1, <3>2 DEF ToSet
      <4>2. Len(stream) + i \in 1 .. Len(Events) /\ Events[Len(stream) + i] = m
        BY <2>1, <4>1 DEF Events
      <4> QED BY <4>2
    <3> QED BY <3>1, <3>2
  <2> QED BY <2>2 DEF EventInv
<1> QED BY <1>1, TypeHolds, EventsHold, PTL

(* Losses, a missing stream and other associations in between do not bring  *)
(* the events of one gNB out of order, and none appears twice               *)
(* (amf/main.go:183-239, amf/publisher.go:60-67).                           *)
THEOREM EventsStayInOrder == RegSpec => []EventsInOrder
<1>1. EventInv => EventsInOrder
  BY DEF EventInv, InOrder, Before, Events, EventsInOrder
<1> QED BY <1>1, EventsHold, PTL
=============================================================================
