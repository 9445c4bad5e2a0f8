------------------------------ MODULE EventBus ------------------------------
(***************************************************************************)
(* How the services publish on NATS. A publisher hands an event to its core *)
(* NATS client (amf/publisher.go, smf/publisher.go), which buffers it,      *)
(* sends it later and asks for no acknowledgement. A JetStream stream keeps *)
(* what reaches the server, if there is one for the subject: no service     *)
(* creates it, an operator may, before. The subscribers only log what they  *)
(* are passed and are left out.                                             *)
(***************************************************************************)
EXTENDS Naturals, Sequences

CONSTANT Event          \* the events that can be published

VARIABLES outbox,       \* the publisher's client: events not yet at the server
          streamExists, \* whether an operator has created the stream
          stream        \* the events JetStream has captured

serverVars == <<streamExists, stream>>
busVars == <<outbox, serverVars>>

BusTypeOK ==
  /\ outbox \in Seq(Event)
  /\ streamExists \in BOOLEAN
  /\ stream \in Seq(Event)

BusInit == outbox = <<>> /\ streamExists \in BOOLEAN /\ stream = <<>>

(* nc.Publish: into the client's buffer; its error is not looked at. *)
Publish(e) ==
  /\ outbox' = Append(outbox, e)
  /\ UNCHANGED serverVars

(* The oldest event reaches the server: a stream keeps it, if there is one. *)
Flush ==
  /\ outbox # <<>>
  /\ outbox' = Tail(outbox)
  /\ stream' = IF streamExists THEN Append(stream, Head(outbox)) ELSE stream
  /\ UNCHANGED streamExists

(* The connection breaks, and what was on its way is not sent again. *)
LoseEvent ==
  /\ outbox # <<>>
  /\ outbox' = Tail(outbox)
  /\ UNCHANGED serverVars

BusStep == Flush \/ LoseEvent
=============================================================================
