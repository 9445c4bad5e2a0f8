----------------------------- MODULE PduSession -----------------------------
(***************************************************************************)
(* Session set-up end to end: the SMF's concurrent create-session calls,    *)
(* the UPF that serves them, and the UDP path between the two.              *)
(***************************************************************************)
EXTENDS SmfPfcp, Upf, FiniteSets

pduVars == <<linkVars, smfVars, serverVars>>

PduTypeOK == LinkTypeOK /\ SmfTypeOK /\ ServerTypeOK

PduInit == LinkInit /\ SmfInit /\ ServerInit

PduNext ==
  \/ SmfStep /\ UNCHANGED serverVars
  \/ UpfStep /\ UNCHANGED smfVars
  \/ (LoseRequest \/ LoseAnswer) /\ UNCHANGED <<smfVars, serverVars>>

(* The Go scheduler runs every handler, time passes, and main goes on when  *)
(* Shutdown returns. The UPF, the network and the operator owe nothing, and *)
(* no call may count on a socket error to end it.                           *)
PduFairness ==
  /\ \A c \in Calls : WF_pduVars(HandlerStep(c) /\ UNCHANGED serverVars)
  /\ WF_pduVars(Tick /\ UNCHANGED serverVars)
  /\ WF_pduVars(Exit /\ UNCHANGED serverVars)

PduSpec == PduInit /\ [][PduNext]_pduVars /\ PduFairness
-----------------------------------------------------------------------------
(* The abstract table, as the calls see it: a request waits until the UPF   *)
(* has handled it, and an answer is open until some call has read it.       *)
Table == INSTANCE SessionTable WITH
           table <- sessions, waiting <- toUpf \cup spawned,
           settled <- replying \cup toSmf, used <- sent

(* The SMF's calls on top of the UPF still implement the abstract table:    *)
(* each sends its request once, however it fails, times out or is cut, and  *)
(* what any call reads answers a request that has taken effect              *)
(* (smf/main.go:81-115, upf.go:237-263).                                    *)
ImplementsTable == Table!TableSpec

(* When the SMF answers 200, the UPF holds a session: it was installed      *)
(* before any answer the handler can have read was sent, and nothing in the *)
(* SMF removes it (smf/main.go never deletes). Only a UPF restart loses it. *)
AcceptedIsBacked ==
  (restarts = 0 /\ \E c \in Calls : Accepted(c)) => sessions[SmfSeid] # NoSession

(* No answer of the UPF makes two calls succeed, although the handlers read *)
(* one socket and do not match answers to requests (smf/main.go:103-115).   *)
OneAnswerPerCall ==
  \A c, d \in Calls : c # d => got[c] \cap got[d] = {}

(* A call that reports a time-out has waited the 5 seconds it asked for,    *)
(* although every call moves the one deadline, unless a call that had read  *)
(* the clock before it set the deadline after it, and so moved it back      *)
(* (smf/main.go:101).                                                       *)
NoEarlyTimeout ==
  [][\A c \in Calls : pc[c] = "read" /\ pc'[c] = "timedout" => owed[c] = 0 \/ c \in overtaken]_pduVars

(* While the SMF serves, every call it has taken is answered: neither a     *)
(* lost datagram, nor a dead UPF, nor another call that took its answer     *)
(* leaves it waiting for ever. Only calls that go on arriving without end   *)
(* do, each of which moves the deadline on (smf/main.go:101-106).           *)
EveryCallEnds ==
  \/ \A c \in Calls : Active(c) ~> (pc[c] \in Answered \/ server # "serving")
  \/ []<><<OtherCallArms>>_pduVars
-----------------------------------------------------------------------------
(* "Wait for UPF reply" (smf/main.go:100): a call that reports success has  *)
(* had its own request carried out. The code accepts the answer to another  *)
(* call, a concurrent one or one that timed out earlier, so a call can      *)
(* succeed before the UPF has even read its request.                        *)
OwnRequestServed ==
  \A c \in Calls : Accepted(c) => Establishment(c) \notin toUpf \cup spawned

(* "Tracks active PFCP sessions" (upf/README.md:16): the UPF holds one      *)
(* session per successful call. The SMF passes SEID 1 for every UE          *)
(* (smf/main.go:234), and each establishment replaces the one before.       *)
EverySessionIsTracked ==
  restarts = 0 => Cardinality(Live) >= Cardinality({c \in Calls : Accepted(c)})
=============================================================================
