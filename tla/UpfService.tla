----------------------------- MODULE UpfService -----------------------------
(***************************************************************************)
(* The UPF under any PFCP client: one that submits every kind of request in *)
(* any order, with any number outstanding, and may never hear an answer.    *)
(* The client's variables are history only; the UPF reads none of them.     *)
(***************************************************************************)
EXTENDS Upf

VARIABLES heard,      \* requests whose answer the client has read
          view,       \* what the answers told the client the table holds
          overlap     \* SEIDs on which it had two requests outstanding

clientVars == <<heard, view, overlap>>
serviceVars == <<upfVars, clientVars>>

SessionRequest == {q \in Request : q.kind \in {"establish", "modify", "delete"}}

Pending(s) == {q \in (sent \ heard) \cap SessionRequest : q.seid = s}

ServiceTypeOK ==
  /\ LinkTypeOK /\ ServerTypeOK
  /\ heard \in SUBSET Request
  /\ view \in [Seids -> Session \cup {NoSession}]
  /\ overlap \in SUBSET Seids

ServiceInit ==
  /\ LinkInit /\ ServerInit
  /\ heard = {}
  /\ view = [s \in Seids |-> NoSession]
  /\ overlap = {}

(* The abstract table this service implements: a request waits until its    *)
(* goroutine has passed the critical section.                               *)
Table == INSTANCE SessionTable WITH
           table <- sessions, waiting <- toUpf \cup spawned,
           settled <- replying \cup toSmf, used <- sent

Submit(q) ==
  /\ Unused(q.id)
  /\ Send(q)
  /\ overlap' = IF q \in SessionRequest /\ Pending(q.seid) # {}
                THEN overlap \cup {q.seid} ELSE overlap
  /\ UNCHANGED <<serverVars, heard, view>>

Hear(a) ==
  /\ a \in toSmf
  /\ toSmf' = toSmf \ {a}
  /\ heard' = heard \cup {a}
  /\ view' = [view EXCEPT ![a.seid] =
                IF Table!Applicable(a, @) THEN Table!Effect(a, @) ELSE @]
  /\ UNCHANGED <<toUpf, sent, serverVars, overlap>>

ServiceNext ==
  \/ \E q \in Request : Submit(q)
  \/ \E a \in toSmf : Hear(a)
  \/ (LoseRequest \/ LoseAnswer) /\ UNCHANGED <<serverVars, clientVars>>
  \/ UpfStep /\ UNCHANGED clientVars

ServiceSpec == ServiceInit /\ [][ServiceNext]_serviceVars
-----------------------------------------------------------------------------
(* An entry belongs to the SEID it is filed under: it was created by an     *)
(* establishment for that SEID and last written by that establishment or a  *)
(* modification for it, and both were really sent. No handler writes an     *)
(* entry on behalf of another session (upf.go:255-257, 281-286).            *)
SessionsAreTheirOwn ==
  \A s \in Live :
    /\ \E q \in sent : q.kind = "establish" /\ q.seid = s /\ q.id = sessions[s].createdBy
    /\ \E q \in sent : /\ q.kind \in {"establish", "modify"} /\ q.seid = s
                       /\ q.id = sessions[s].updatedBy

(* A client that never has two requests outstanding on a SEID can rely on   *)
(* what it heard: the entry is what the answers said, or what they said     *)
(* with its one unanswered request applied; so it is exactly what they said *)
(* when nothing is unanswered. Goroutines scheduled in any order and lost   *)
(* datagrams cannot break it; a restart can, and is excluded.               *)
SerialView ==
  restarts = 0 =>
    \A s \in Seids \ overlap :
      \/ sessions[s] = view[s]
      \/ \E q \in Pending(s) : /\ Table!Applicable(q, view[s])
                               /\ sessions[s] = Table!Effect(q, view[s])

(* The UPF implements the abstract table: every request it answers took     *)
(* effect exactly once, atomically, between being sent and being answered.  *)
ImplementsTable == Table!TableSpec
=============================================================================
