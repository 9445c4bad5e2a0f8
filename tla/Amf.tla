-------------------------------- MODULE Amf ---------------------------------
(***************************************************************************)
(* The AMF (amf/main.go): a goroutine per gNB association reads messages,   *)
(* authenticates them against a constant table, writes the UE's context,    *)
(* answers, and publishes ue.registered. The contexts are shared by all     *)
(* associations and by the management API.                                  *)
(*                                                                          *)
(* A message stands for its payload: the UE identifier, whether asn1 can    *)
(* decode it, and whether its IMSI and secret are in udmDB. A context is    *)
(* the message it was built from. The table is under a mutex that is held   *)
(* for one map operation, hence a step.                                     *)
(*                                                                          *)
(* main does not call startHTTP: the program as it starts is the one with   *)
(* Admins = {}. And with the identifier a uint64, encoding/asn1 decodes no  *)
(* message: it is the one whose messages are all "garbled". What holds for  *)
(* all messages and any Admins holds for it.                                *)
(***************************************************************************)
EXTENDS EventBus

CONSTANTS Gnbs, UEs,
          Message,      \* messages that may be sent, each once
          Admins,       \* clients of the management API
          ResponseRoom, \* responses that fit on an association unread
          NoContext

ASSUME AmfAssumption ==
  /\ \A m \in Message :
       m.gnb \in Gnbs /\ m.ueid \in UEs /\ m.kind \in {"genuine", "wrong", "garbled"}
  /\ Event = Message
  /\ NoContext \notin Message
  /\ ResponseRoom \in Nat \ {0}

VARIABLES conn,         \* the SCTP association of each gNB
          toAmf,        \* messages on it that have not been read
          unread,       \* responses on it that the gNB has not read, a number
          answered,     \* history: messages whose response was written
          pc, msg,      \* per association: where handleNGAP is, its message
          ueStore,      \* the context of each UE
          deleting,     \* per admin: the context its DELETE has found
          deleted       \* history: contexts whose deletion was reported

linkVars == <<conn, toAmf, unread, answered>>
apiVars == <<deleting, deleted>>
amfVars == <<linkVars, pc, msg, ueStore, apiVars>>

MaybeMessage == Message \cup {NoContext}

AmfTypeOK ==
  /\ conn \in [Gnbs -> {"up", "down"}]
  /\ toAmf \in [Gnbs -> Seq(Message)]
  /\ unread \in [Gnbs -> 0 .. ResponseRoom]
  /\ answered \in SUBSET Message
  /\ pc \in [Gnbs -> {"read", "respond", "publish", "closed"}]
  /\ msg \in [Gnbs -> MaybeMessage]
  /\ ueStore \in [UEs -> MaybeMessage]
  /\ deleting \in [Admins -> MaybeMessage]
  /\ deleted \in SUBSET Message
  /\ \A g \in Gnbs :
       pc[g] \in {"respond", "publish"} =>
         msg[g] \in Message /\ msg[g].gnb = g /\ msg[g].kind # "garbled"
  /\ \A g \in Gnbs : pc[g] = "publish" => msg[g].kind = "genuine"

(* main has accepted every association and started its goroutine. *)
AmfInit ==
  /\ conn = [g \in Gnbs |-> "up"]
  /\ toAmf = [g \in Gnbs |-> <<>>]
  /\ unread = [g \in Gnbs |-> 0]
  /\ answered = {}
  /\ pc = [g \in Gnbs |-> "read"]
  /\ msg = [g \in Gnbs |-> NoContext]
  /\ ueStore = [u \in UEs |-> NoContext]
  /\ deleting = [a \in Admins |-> NoContext]
  /\ deleted = {}

AuthPassed(m) == m.kind = "genuine"

Goto(g, l) == pc' = [pc EXCEPT ![g] = l]

(* msg is a variable of the loop's body. *)
NextMessage(g) == Goto(g, "read") /\ msg' = [msg EXCEPT ![g] = NoContext]

(* conn.Read fails, possibly with messages still unread. *)
ReadError(g) ==
  /\ pc[g] = "read" /\ conn[g] = "down"
  /\ Goto(g, "closed")
  /\ UNCHANGED <<linkVars, msg, ueStore, apiVars, busVars>>

(* Mutant: a failed attempt is answered but does not touch the context.     *)
RegisterIfGenuine(g, m) ==
  /\ ueStore' = IF AuthPassed(m) THEN [ueStore EXCEPT ![m.ueid] = m] ELSE ueStore
  /\ msg' = [msg EXCEPT ![g] = m]
  /\ Goto(g, "respond")

(* A new context, REGISTERED or AUTH_FAILED, replaces the one there is. *)
Register(g, m) ==
  /\ ueStore' = [ueStore EXCEPT ![m.ueid] = m]
  /\ msg' = [msg EXCEPT ![g] = m]
  /\ Goto(g, "respond")

(* A message is read; if asn1 can decode it, it is authenticated and its    *)
(* context stored, else it is dropped. Up to ueStore.Register the goroutine *)
(* touches nothing that others see.                                         *)
Receive(g) ==
  /\ pc[g] = "read" /\ toAmf[g] # <<>>
  /\ toAmf' = [toAmf EXCEPT ![g] = Tail(@)]
  /\ IF Head(toAmf[g]).kind = "garbled"
       THEN UNCHANGED <<pc, msg, ueStore>>
       ELSE Register(g, Head(toAmf[g]))
  /\ UNCHANGED <<conn, unread, answered, apiVars, busVars>>

(* Mutant: the event does not depend on the authentication.                 *)
RespondAndPublish(g) ==
  /\ pc[g] = "respond" /\ conn[g] = "up" /\ unread[g] < ResponseRoom
  /\ unread' = [unread EXCEPT ![g] = @ + 1]
  /\ answered' = answered \cup {msg[g]}
  /\ Goto(g, "publish") /\ msg' = msg
  /\ UNCHANGED <<conn, toAmf, ueStore, apiVars, busVars>>

(* conn.Write has no deadline: while what it writes does not fit, it waits. *)
Respond(g) ==
  /\ pc[g] = "respond" /\ conn[g] = "up" /\ unread[g] < ResponseRoom
  /\ unread' = [unread EXCEPT ![g] = @ + 1]
  /\ answered' = answered \cup {msg[g]}
  /\ IF AuthPassed(msg[g]) THEN Goto(g, "publish") /\ msg' = msg ELSE NextMessage(g)
  /\ UNCHANGED <<conn, toAmf, ueStore, apiVars, busVars>>

(* Mutant: the event is published although the response was not sent.       *)
RespondFailsYetPublish(g) ==
  /\ pc[g] = "respond"
  /\ IF AuthPassed(msg[g]) THEN Goto(g, "publish") /\ msg' = msg ELSE NextMessage(g)
  /\ UNCHANGED <<linkVars, ueStore, apiVars, busVars>>

(* Mutant: the message is handled once more when its response fails.        *)
RespondFailsAndRetry(g) ==
  /\ pc[g] = "respond"
  /\ Goto(g, "respond") /\ ueStore' = [ueStore EXCEPT ![msg[g].ueid] = msg[g]]
  /\ UNCHANGED <<linkVars, msg, apiVars, busVars>>

(* The response cannot be encoded or written: nothing else is done. *)
RespondFails(g) ==
  /\ pc[g] = "respond"
  /\ NextMessage(g)
  /\ UNCHANGED <<linkVars, ueStore, apiVars, busVars>>

(* Mutant: the event is published again as long as there is any doubt.      *)
PublishUntilSure(g) ==
  /\ pc[g] = "publish"
  /\ Publish(msg[g])
  /\ NextMessage(g) \/ UNCHANGED <<pc, msg>>
  /\ UNCHANGED <<linkVars, ueStore, apiVars>>

PublishUERegistered(g) ==
  /\ pc[g] = "publish"
  /\ Publish(msg[g])
  /\ NextMessage(g)
  /\ UNCHANGED <<linkVars, ueStore, apiVars>>

HandleNGAP(g) ==
  Receive(g) \/ Respond(g) \/ RespondFails(g) \/ PublishUERegistered(g)

(* DELETE /ue/{id} looks the context up; without one it answers 404. *)
DeleteUE(a, u) ==
  /\ deleting[a] = NoContext /\ ueStore[u] # NoContext
  /\ deleting' = [deleting EXCEPT ![a] = ueStore[u]]
  /\ UNCHANGED <<linkVars, pc, msg, ueStore, deleted, busVars>>

(* Then it deletes whatever is there by now, and answers 204. *)
Delete(a) ==
  /\ deleting[a] # NoContext
  /\ ueStore' = [ueStore EXCEPT ![deleting[a].ueid] = NoContext]
  /\ deleted' = deleted \cup {deleting[a]}
  /\ deleting' = [deleting EXCEPT ![a] = NoContext]
  /\ UNCHANGED <<linkVars, pc, msg, busVars>>

AmfStep ==
  \/ \E g \in Gnbs : HandleNGAP(g) \/ ReadError(g)
  \/ \E a \in Admins : Delete(a) \/ \E u \in UEs : DeleteUE(a, u)
=============================================================================
