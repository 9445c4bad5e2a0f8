----------------------------- MODULE ImsiSwitch -----------------------------
(***************************************************************************)
(* The IMSI switch receiver (imsi-switch-receiver/main.go): decisions come  *)
(* from a JetStream stream through an ephemeral push consumer that starts   *)
(* at the beginning of the stream, are kept in memory, one per device, and  *)
(* are removed when a client of the HTTP interface accepts or rejects them. *)
(*                                                                          *)
(* Every message that reaches the callback makes a SwitchDecision of its    *)
(* own, also one delivered before, and the map, a GET and a POST hold it by *)
(* pointer. So decisions are told apart by when they were made: decision k  *)
(* is the k-th that was made, and 0 is no decision. What is in one is       *)
(* reduced to the message it was made from: the status that a GET encodes   *)
(* after the lock is released is left out, no property is about it.         *)
(***************************************************************************)
EXTENDS Naturals, Sequences, SequencesExt

CONSTANTS Messages,         \* messages that may be published, each once
          DeviceOf,         \* the device a message is for
          Malformed,        \* messages that are not JSON decisions
          Clients,          \* clients of the HTTP interface
          NoMessage,
          MaxDisruptions    \* bound: deliveries and acks lost, and restarts

Devices == {DeviceOf[m] : m \in Messages}

ASSUME SwitchAssumption ==
  /\ NoMessage \notin Messages
  /\ Malformed \subseteq Messages
  /\ DeviceOf \in [Messages -> Devices]
  /\ MaxDisruptions \in Nat

VARIABLES stream,       \* IMSI_SWITCHES: the messages in the order published
          consumer,     \* the server still has the receiver's consumer
          next,         \* the consumer's next stream position
          unacked,      \* messages pushed whose ack has not arrived
          handling,     \* the message in the subscription's callback
          pending,      \* pendingSwitches
          looked,       \* per client: the decision its GET has looked up
          shown,        \* per client: the decision it was last shown
          made,         \* the message of every decision made, in order
          born,         \* how many had been made when the process started
          disruptions,
          answered,     \* history: how often each was accepted or rejected
          answers       \* history: <<shown, answered>> of informed answers

brokerVars == <<stream, consumer, next, unacked>>
clientVars == <<looked, shown>>
historyVars == <<answered, answers>>
switchVars == <<brokerVars, handling, pending, clientVars, made, born, disruptions, historyVars>>

NoDecision == 0
Decisions == 1 .. Len(made)
Maybe == Decisions \cup {NoDecision}

SwitchTypeOK ==
  /\ stream \in Seq(Messages) /\ IsInjective(stream)
  /\ consumer \in BOOLEAN
  /\ next \in 1 .. Len(stream) + 1
  /\ unacked \in SUBSET Messages
  /\ handling \in Messages \cup {NoMessage}
  /\ pending \in [Devices -> Maybe]
  /\ looked \in [Clients -> Maybe]
  /\ shown \in [Clients -> Maybe]
  /\ made \in Seq(Messages \ Malformed)
  /\ born \in 0 .. Len(made)
  /\ disruptions \in 0 .. MaxDisruptions
  /\ answered \in Seq(Nat) /\ Len(answered) = Len(made)
  /\ answers \in SUBSET (Decisions \X Decisions)

SwitchInit ==
  /\ stream = <<>>
  /\ consumer = TRUE
  /\ next = 1
  /\ unacked = {}
  /\ handling = NoMessage
  /\ pending = [d \in Devices |-> NoDecision]
  /\ looked = [c \in Clients |-> NoDecision]
  /\ shown = [c \in Clients |-> NoDecision]
  /\ made = <<>> /\ born = 0
  /\ disruptions = 0
  /\ answered = <<>> /\ answers = {}

Published == ToSet(stream)

(* The device of a decision. *)
For(k) == DeviceOf[made[k]]

Disrupt ==
  /\ disruptions < MaxDisruptions
  /\ disruptions' = disruptions + 1

(* Some other program publishes on imsi.switch. *)
Publish(m) ==
  /\ m \notin Published
  /\ stream' = Append(stream, m)
  /\ UNCHANGED <<consumer, next, unacked, handling, pending, clientVars, made, born, disruptions,
                 historyVars>>

(* JetStream pushes the next message; callbacks run one at a time. *)
Deliver ==
  /\ consumer
  /\ handling = NoMessage
  /\ next <= Len(stream)
  /\ handling' = stream[next]
  /\ unacked' = unacked \cup {stream[next]}
  /\ next' = next + 1
  /\ UNCHANGED <<stream, consumer, pending, clientVars, made, born, disruptions, historyVars>>

(* JetStream pushes the next message and it never reaches the callback: the *)
(* connection breaks, or the subscription is a slow consumer.               *)
LoseDelivery ==
  /\ consumer
  /\ next <= Len(stream)
  /\ Disrupt
  /\ unacked' = unacked \cup {stream[next]}
  /\ next' = next + 1
  /\ UNCHANGED <<stream, consumer, handling, pending, clientVars, made, born, historyVars>>

(* No ack arrived in time (30 s): JetStream pushes the message again, after *)
(* whatever it has pushed since. The callback may not have seen it yet.     *)
Redeliver(m) ==
  /\ consumer
  /\ handling = NoMessage
  /\ m \in unacked
  /\ handling' = m
  /\ UNCHANGED <<brokerVars, pending, clientVars, made, born, disruptions, historyVars>>

(* The server removes an ephemeral consumer whose subscriber was away for   *)
(* some seconds. The client library does not make it again.                 *)
RemoveConsumer ==
  /\ consumer
  /\ consumer' = FALSE
  /\ UNCHANGED <<stream, next, unacked, handling, pending, clientVars, made, born, disruptions,
                 historyVars>>

(* After the callback nats.go acknowledges the message, whatever became of  *)
(* it; the ack may be lost or come too late.                                *)
Acknowledge ==
  \/ unacked' = unacked \ {handling} /\ UNCHANGED disruptions
  \/ unacked' = unacked /\ Disrupt

(* Mutant: a decision does not replace one that is pending.                 *)
StoreUnlessPending ==
  /\ handling # NoMessage
  /\ Acknowledge
  /\ handling' = NoMessage
  /\ IF handling \in Malformed \/ pending[DeviceOf[handling]] # NoDecision
       THEN UNCHANGED <<pending, made, answered>>
       ELSE /\ made' = Append(made, handling)
            /\ answered' = Append(answered, 0)
            /\ pending' = [pending EXCEPT ![DeviceOf[handling]] = Len(made) + 1]
  /\ UNCHANGED <<stream, consumer, next, clientVars, born, answers>>

(* Mutant: a decision that comes again is put back as it was.               *)
StoreKnownAgain ==
  LET known == {k \in born + 1 .. Len(made) : made[k] = handling} IN
  /\ handling # NoMessage
  /\ Acknowledge
  /\ handling' = NoMessage
  /\ IF known # {}
       THEN /\ \E k \in known : pending' = [pending EXCEPT ![DeviceOf[handling]] = k]
            /\ UNCHANGED <<made, answered>>
       ELSE /\ made' = Append(made, handling)
            /\ answered' = Append(answered, 0)
            /\ pending' = [pending EXCEPT ![DeviceOf[handling]] = Len(made) + 1]
  /\ UNCHANGED <<stream, consumer, next, clientVars, born, answers>>

(* The callback: a new decision replaces whatever its device had pending, a *)
(* malformed message is dropped.                                            *)
StoreDecision ==
  /\ handling # NoMessage
  /\ Acknowledge
  /\ handling' = NoMessage
  /\ IF handling \in Malformed
       THEN UNCHANGED <<pending, made, answered>>
       ELSE /\ made' = Append(made, handling)
            /\ answered' = Append(answered, 0)
            /\ pending' = [pending EXCEPT ![DeviceOf[handling]] = Len(made) + 1]
  /\ UNCHANGED <<stream, consumer, next, clientVars, born, answers>>

(* GET, under the read lock: 404, or the pointer is taken. *)
Lookup(c, d) ==
  /\ looked[c] = NoDecision
  /\ looked' = [looked EXCEPT ![c] = pending[d]]
  /\ UNCHANGED <<brokerVars, handling, pending, shown, made, born, disruptions, historyVars>>

(* GET, after the lock is released: the decision is encoded. *)
Encode(c) ==
  /\ looked[c] # NoDecision
  /\ shown' = [shown EXCEPT ![c] = looked[c]]
  /\ looked' = [looked EXCEPT ![c] = NoDecision]
  /\ UNCHANGED <<brokerVars, handling, pending, made, born, disruptions, historyVars>>

Final == {"accepted", "rejected"}

(* The decision a client has seen for the device, if any. *)
Seen(c, d) == {k \in {shown[c]} \ {NoDecision} : For(k) = d}

(* Mutant: the status is set and the decision stays in the map.             *)
RespondAndKeep(c, d, status) ==
  /\ pending[d] # NoDecision /\ status \in Final
  /\ answered' = [answered EXCEPT ![pending[d]] = @ + 1]
  /\ UNCHANGED <<brokerVars, handling, pending, clientVars, made, born, disruptions, answers>>

(* POST, under the lock: any status is taken, a final one removes whatever  *)
(* decision is pending for the device now. A client may POST at any time,   *)
(* more than once, and without having seen anything.                        *)
Respond(c, d, status) ==
  /\ pending[d] # NoDecision
  /\ IF status \in Final
       THEN /\ pending' = [pending EXCEPT ![d] = NoDecision]
            /\ answered' = [answered EXCEPT ![pending[d]] = @ + 1]
            /\ answers' = answers \cup (Seen(c, d) \X {pending[d]})
       ELSE UNCHANGED <<pending, answered, answers>>
  /\ UNCHANGED <<brokerVars, handling, clientVars, made, born, disruptions>>

(* The process ends, and its map and its GETs with it. *)
Forget ==
  /\ handling' = NoMessage
  /\ pending' = [d \in Devices |-> NoDecision]
  /\ looked' = [c \in Clients |-> NoDecision]
  /\ born' = Len(made)

(* Mutant: the new consumer only takes messages published from now on.      *)
RestartAtNewMessages ==
  /\ Disrupt /\ Forget
  /\ consumer' = TRUE /\ next' = Len(stream) + 1 /\ unacked' = {}
  /\ UNCHANGED <<stream, shown, made, historyVars>>

(* Mutant: the new consumer asks for sequence 0; streams start at 1.        *)
RestartAtZero ==
  /\ Disrupt /\ Forget
  /\ consumer' = TRUE /\ next' = 0 /\ unacked' = {}
  /\ UNCHANGED <<stream, shown, made, historyVars>>

(* The process ends and starts again: a new consumer reads the stream from  *)
(* its beginning.                                                           *)
Restart ==
  /\ Disrupt /\ Forget
  /\ consumer' = TRUE /\ next' = 1 /\ unacked' = {}
  /\ UNCHANGED <<stream, shown, made, historyVars>>

SwitchNext ==
  \/ \E m \in Messages : Publish(m) \/ Redeliver(m)
  \/ Deliver \/ LoseDelivery \/ RemoveConsumer
  \/ StoreDecision
  \/ \E c \in Clients : \/ Encode(c)
                        \/ \E d \in Devices :
                             \/ Lookup(c, d)
                             \/ \E status \in Final \cup {"later"} : Respond(c, d, status)
  \/ Restart

(* As long as it has the consumer JetStream pushes what is new and pushes   *)
(* again what is not acknowledged, and the subscription's goroutine runs.   *)
SwitchFairness ==
  /\ WF_switchVars(Deliver)
  /\ \A m \in Messages : WF_switchVars(Redeliver(m))
  /\ WF_switchVars(StoreDecision)

SwitchSpec == SwitchInit /\ [][SwitchNext]_switchVars /\ SwitchFairness
-----------------------------------------------------------------------------
(* A decision is answered for good at most once: clients that race for the  *)
(* same device cannot both answer it. A message that is delivered again     *)
(* makes a new decision, which can be answered again (main.go:66-68,        *)
(* 126-138).                                                                *)
OneAnswerPerDelivery == \A k \in Decisions : answered[k] <= 1

(* The decisions this process has made for a device. *)
Own(d) == {k \in born + 1 .. Len(made) : For(k) = d}

(* A device's pending decision is the last one this process made for it,    *)
(* unless that one has been answered: then it has none, and no earlier one  *)
(* comes back. The last one made is the last one delivered, and need not be *)
(* the last one published: a delivery that was lost or an ack that was      *)
(* late brings an old message after a newer one (main.go:67, 134-137).      *)
NewestIsPending ==
  \A d \in Devices :
    \/ Own(d) = {} /\ pending[d] = NoDecision
    \/ \E k \in Own(d) : /\ \A j \in Own(d) : j <= k
                         /\ pending[d] = IF answered[k] > 0 THEN NoDecision ELSE k

(* A client that answers after it was shown a decision may answer another   *)
(* one, since it names only the device; but never one that was made before  *)
(* the one it saw, however GETs, deliveries and other answers interleave,   *)
(* and over restarts (main.go:98-112, 115-138).                             *)
AnswerIsNeverOlder == \A a \in answers : a[1] <= a[2]

(* This process has made a decision from the message. *)
Held(m) == \E k \in born + 1 .. Len(made) : made[k] = m

(* Every well-formed message that the consumer has passed is in the hands   *)
(* of this process, or will be pushed again: none is acknowledged unseen,   *)
(* however deliveries and acks are lost, and after a restart, which has to  *)
(* read again what the map has lost (main.go:58-68).                        *)
PassedIsHeld ==
  \A i \in 1 .. next - 1 :
    stream[i] \in Malformed \/ stream[i] \in unacked \/ Held(stream[i])

(* Every well-formed message that is published becomes a decision of the    *)
(* running process, whatever is lost and wherever the receiver is           *)
(* restarted, unless the server has removed the consumer: then nothing does *)
(* until the next restart (main.go:58-68).                                  *)
PublishedIsStored ==
  \A m \in Messages \ Malformed : (m \in Published) ~> (Held(m) \/ ~consumer)
-----------------------------------------------------------------------------
(* "Verify the switch was removed after acceptance"                         *)
(* (imsi-switch-receiver/integration_test.go:98): an accepted or rejected   *)
(* switch is not pending any more. It is again after a restart or a late    *)
(* ack, since its message is delivered again.                               *)
AnsweredIsRemoved ==
  \A k \in Decisions : LET p == pending[For(k)] IN
    answered[k] > 0 /\ p # NoDecision => made[p] # made[k]
=============================================================================
