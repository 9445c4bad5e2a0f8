--------------------------------- MODULE Upf --------------------------------
(***************************************************************************)
(* The PFCP side of the UPF (upf/pkg/upf/upf.go): one goroutine reads       *)
(* datagrams and starts a goroutine for each; every handler touches the     *)
(* session table in one critical section under sessionLock, and answers     *)
(* after it released the lock. A step of this module is one of: the read, a *)
(* critical section, a write to the socket.                                 *)
(*                                                                          *)
(* Times are abstracted by what sets them apart: the request whose handler  *)
(* took them.                                                               *)
(***************************************************************************)
EXTENDS PfcpLink, Naturals

CONSTANTS NoSession,    \* the value of a key that is absent from the Go map
          MaxRestarts   \* bound: times the UPF process is restarted

Session == [createdBy : Ids, updatedBy : Ids]

ASSUME UpfAssumption ==
  /\ NoSession \notin Session
  /\ MaxRestarts \in Nat

VARIABLES sessions,     \* u.sessions
          spawned,      \* goroutines started, before their critical section
          replying,     \* goroutines past it, before sendPFCP
          conn,         \* u.pfcpConn: "open", or "closed" by Close
          restarts      \* how often the process was restarted

serverVars == <<sessions, spawned, replying, conn, restarts>>
upfVars == <<linkVars, serverVars>>

ServerTypeOK ==
  /\ sessions \in [Seids -> Session \cup {NoSession}]
  /\ spawned \in SUBSET Request
  /\ replying \in SUBSET Request
  /\ conn \in {"open", "closed"}
  /\ restarts \in 0 .. MaxRestarts

(* NewUPF and Run: an empty table and a listening socket. *)
ServerInit ==
  /\ sessions = [s \in Seids |-> NoSession]
  /\ spawned = {}
  /\ replying = {}
  /\ conn = "open"
  /\ restarts = 0

Live == {s \in Seids : sessions[s] # NoSession}

(* servePFCP: take a datagram, start its goroutine. After Close the read    *)
(* fails for ever and the loop takes nothing.                               *)
ReadFromUDP(q) ==
  /\ conn = "open"
  /\ q \in toUpf
  /\ toUpf' = toUpf \ {q}
  /\ spawned' = spawned \cup {q}
  /\ UNCHANGED <<toSmf, sent, sessions, replying, conn, restarts>>

(* The goroutine of q passes its critical section and goes on to answer. *)
Answers(q) ==
  /\ spawned' = spawned \ {q}
  /\ replying' = replying \cup {q}
  /\ UNCHANGED <<linkVars, conn, restarts>>

(* Mutant: the session is filed under a SEID that another goroutine set.    *)
EstablishmentUnderAnySeid(q) ==
  /\ q \in spawned /\ q.kind = "establish"
  /\ \E s \in Seids :
       sessions' = [sessions EXCEPT ![s] = [createdBy |-> q.id, updatedBy |-> q.id]]
  /\ Answers(q)

(* Mutant: the answer is sent without the session being stored.             *)
EstablishmentNotStored(q) ==
  /\ q \in spawned /\ q.kind = "establish"
  /\ UNCHANGED sessions
  /\ Answers(q)

(* The entry is written whether or not the SEID is in use. *)
HandleEstablishment(q) ==
  /\ q \in spawned /\ q.kind = "establish"
  /\ sessions' = [sessions EXCEPT ![q.seid] = [createdBy |-> q.id, updatedBy |-> q.id]]
  /\ Answers(q)

(* Mutant: a modification writes a struct it has not filled in.             *)
ModificationFromScratch(q) ==
  /\ q \in spawned /\ q.kind = "modify"
  /\ sessions[q.seid] # NoSession
  /\ sessions' = [sessions EXCEPT ![q.seid] = [updatedBy |-> q.id]]
  /\ Answers(q)

HandleModification(q) ==
  /\ q \in spawned /\ q.kind = "modify"
  /\ sessions[q.seid] # NoSession
  /\ sessions' = [sessions EXCEPT ![q.seid].updatedBy = q.id]
  /\ Answers(q)

(* Mutant: a modification is accepted although there is no session.         *)
ModificationAnyway(q) ==
  /\ q \in spawned /\ q.kind = "modify"
  /\ sessions[q.seid] = NoSession
  /\ UNCHANGED sessions
  /\ Answers(q)

(* "Session not found": logged, and no answer at all. *)
ModificationNotFound(q) ==
  /\ q \in spawned /\ q.kind = "modify"
  /\ sessions[q.seid] = NoSession
  /\ spawned' = spawned \ {q}
  /\ UNCHANGED <<linkVars, sessions, replying, conn, restarts>>

(* Mutant: the deletion is answered and the entry stays.                    *)
DeletionForgotten(q) ==
  /\ q \in spawned /\ q.kind = "delete"
  /\ UNCHANGED sessions
  /\ Answers(q)

(* delete() of an absent key does nothing; the cause is accepted anyway. *)
HandleDeletion(q) ==
  /\ q \in spawned /\ q.kind = "delete"
  /\ sessions' = [sessions EXCEPT ![q.seid] = NoSession]
  /\ Answers(q)

(* Heartbeat and association set-up: answered, and nothing is recorded. *)
HandleNodeMessage(q) ==
  /\ q \in spawned /\ q.kind \in {"heartbeat", "associate"}
  /\ UNCHANGED sessions
  /\ Answers(q)

HandlePFCP(q) ==
  \/ HandleEstablishment(q)
  \/ HandleModification(q)
  \/ ModificationNotFound(q)
  \/ HandleDeletion(q)
  \/ HandleNodeMessage(q)

(* Mutant: an answer is sent again and again.                               *)
SendPFCPAgain(q) ==
  /\ q \in replying
  /\ toSmf' = IF conn = "open" THEN toSmf \cup {q} ELSE toSmf
  /\ UNCHANGED <<toUpf, sent, sessions, spawned, replying, conn, restarts>>

(* WriteToUDP on a closed socket fails, which is only logged. *)
SendPFCP(q) ==
  /\ q \in replying
  /\ replying' = replying \ {q}
  /\ toSmf' = IF conn = "open" THEN toSmf \cup {q} ELSE toSmf
  /\ UNCHANGED <<toUpf, sent, sessions, spawned, conn, restarts>>

(* Close closes the sockets and waits for no goroutine. *)
Close ==
  /\ conn = "open"
  /\ conn' = "closed"
  /\ UNCHANGED <<linkVars, sessions, spawned, replying, restarts>>

(* The process ends (after Close or in a crash) and a new one is started:   *)
(* the table is in memory only.                                             *)
Restart ==
  /\ restarts < MaxRestarts
  /\ restarts' = restarts + 1
  /\ sessions' = [s \in Seids |-> NoSession]
  /\ spawned' = {}
  /\ replying' = {}
  /\ conn' = "open"
  /\ UNCHANGED linkVars

(* The goroutine that serves the request with this identifier. *)
Goroutine(id) ==
  \/ \E q \in spawned : q.id = id /\ HandlePFCP(q)
  \/ \E q \in replying : q.id = id /\ SendPFCP(q)

ServePFCP(id) == \E q \in toUpf : q.id = id /\ ReadFromUDP(q)

UpfStep ==
  \/ \E id \in Ids : ServePFCP(id) \/ Goroutine(id)
  \/ Close
  \/ Restart
=============================================================================
