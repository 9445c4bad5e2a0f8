---------------------------- MODULE Registration ----------------------------
(***************************************************************************)
(* UE registration from end to end: gNBs (gnb-sim/main.go), the AMF, and    *)
(* the event bus. The simulator sends one message on its association, reads *)
(* one response and then keeps the association open without reading. Other  *)
(* gNBs may send more, as handleNGAP's loop allows, without waiting, for    *)
(* any UE, and read what they like.                                         *)
(***************************************************************************)
EXTENDS Amf, SequencesExt

CONSTANT MaxSent    \* bound: messages sent

VARIABLE sent       \* history: the messages of each gNB, in order

regVars == <<amfVars, busVars, sent>>

RegTypeOK ==
  /\ AmfTypeOK /\ BusTypeOK
  /\ sent \in [Gnbs -> Seq(Message)]

RegInit ==
  /\ AmfInit /\ BusInit
  /\ sent = [g \in Gnbs |-> <<>>]

AllSent == UNION {ToSet(sent[g]) : g \in Gnbs}

Send(m) ==
  /\ conn[m.gnb] = "up"
  /\ m \notin ToSet(sent[m.gnb]) /\ Cardinality(AllSent) < MaxSent
  /\ toAmf' = [toAmf EXCEPT ![m.gnb] = Append(@, m)]
  /\ sent' = [sent EXCEPT ![m.gnb] = Append(@, m)]
  /\ UNCHANGED <<conn, unread, answered, pc, msg, ueStore, apiVars, busVars>>

(* The gNB reads a response, which makes room for another. *)
ReadResponse(g) ==
  /\ conn[g] = "up" /\ unread[g] > 0
  /\ unread' = [unread EXCEPT ![g] = @ - 1]
  /\ UNCHANGED <<conn, toAmf, answered, pc, msg, ueStore, apiVars, busVars, sent>>

(* The gNB closes the association, or it breaks. *)
Close(g) ==
  /\ conn[g] = "up"
  /\ conn' = [conn EXCEPT ![g] = "down"]
  /\ UNCHANGED <<toAmf, unread, answered, pc, msg, ueStore, apiVars, busVars, sent>>

RegNext ==
  \/ \E g \in Gnbs : ReadResponse(g) \/ Close(g)
  \/ \E m \in Message : Send(m)
  \/ AmfStep /\ UNCHANGED sent
  \/ BusStep /\ UNCHANGED <<amfVars, sent>>

(* What the loop of an association does for sure when it can go on. A write *)
(* fails for sure only when the association is down; while it is up, a gNB  *)
(* that does not read owes nothing, and the write waits for room.           *)
LoopStep(g) ==
  \/ Receive(g) \/ Respond(g) \/ PublishUERegistered(g)
  \/ conn[g] = "down" /\ RespondFails(g)

(* The scheduler runs every goroutine that can go on.                       *)
RegFairness == \A g \in Gnbs : WF_regVars(LoopStep(g) /\ UNCHANGED sent)

RegSpec == RegInit /\ [][RegNext]_regVars /\ RegFairness
-----------------------------------------------------------------------------
(* n was sent before m, or is m, on the association of both. *)
NotAfter(n, m) ==
  \E i, j \in 1 .. Len(sent[m.gnb]) :
    i <= j /\ sent[m.gnb][i] = n /\ sent[m.gnb][j] = m

(* A gNB that has read the response to its message n knows this of the UE:  *)
(* its context is from n, from a message the same gNB sent later, or from   *)
(* another gNB; there is none only if a deletion of that UE was reported.   *)
(* Nothing older comes back (amf/main.go:183-244, 313-322).                 *)
ContextKeepsUp ==
  \A n \in answered :
    LET m == ueStore[n.ueid] IN
    IF m = NoContext THEN \E d \in deleted : d.ueid = n.ueid
                     ELSE m.gnb = n.gnb => NotAfter(n, m)

(* A context whose deletion was reported is never seen again, however many  *)
(* deletions race and whatever registers in between (amf/main.go:313-322).  *)
DeletedStaysDeleted == \A u \in UEs : ueStore[u] \notin deleted

(* An event, in the AMF's buffer or in the stream, is about a message that  *)
(* authenticated, and its gNB was sent the successful response first        *)
(* (amf/main.go:231-239).                                                   *)
EventsAreBacked ==
  \A m \in ToSet(stream) \cup ToSet(outbox) :
    m.kind = "genuine" /\ m \in answered

(* Whatever is lost on the way, the events of one gNB stay in the order of  *)
(* its messages, and no message makes two events (amf/main.go:183-239,      *)
(* amf/publisher.go:60-67).                                                 *)
EventsInOrder ==
  LET events == stream \o outbox IN
  \A i, j \in 1 .. Len(events) :
    i < j /\ events[i].gnb = events[j].gnb
      => NotAfter(events[i], events[j]) /\ events[i] # events[j]

(* The Write of the response waits for a gNB that does not read.            *)
Blocked(g) == pc[g] = "respond" /\ conn[g] = "up" /\ unread[g] = ResponseRoom

(* Every message that is sent is taken and done with, and the AMF returns   *)
(* to reading, unless it has ended the association. A message can hold up   *)
(* its association for ever in one way only: the association stays up and   *)
(* its gNB has stopped reading responses for good, since the Write has no   *)
(* deadline (amf/main.go:183-243).                                          *)
MessagesAreHandled ==
  \A g \in Gnbs :
    \/ (toAmf[g] # <<>>) ~> (pc[g] = "closed" \/ (pc[g] = "read" /\ toAmf[g] = <<>>))
    \/ <>[]Blocked(g)
=============================================================================
