------------------------------ MODULE PfcpLink ------------------------------
(***************************************************************************)
(* The UDP path between a PFCP client (the SMF) and the UPF's PFCP socket.  *)
(* Datagrams are lost and reordered; both ends run on one bridge network    *)
(* (docker-compose.yml), so duplication is left out.                        *)
(*                                                                          *)
(* A request carries the session it is about and a ghost identifier, which  *)
(* stands for its payload (UE address, TEID, PDR, FAR) and tells two equal  *)
(* datagrams apart. The PFCP sequence number is left out: the SMF sends the *)
(* constant 1 (smf/main.go:86), the UPF echoes it and nobody compares it.   *)
(* An answer is represented by the request it answers, which no program     *)
(* variable can see: the SMF looks only at its kind.                        *)
(***************************************************************************)
CONSTANTS Ids,      \* identifiers of the requests a client may ever send
          Seids     \* PFCP session endpoint identifiers

Kinds == {"establish", "modify", "delete", "heartbeat", "associate"}

Request == [kind : Kinds, seid : Seids, id : Ids]

VARIABLES toUpf,    \* requests on the wire or in the UPF's socket buffer
          toSmf,    \* answers on the wire or in the client's socket buffer
          sent      \* history: every request ever written

linkVars == <<toUpf, toSmf, sent>>

LinkTypeOK ==
  /\ toUpf \in SUBSET Request
  /\ toSmf \in SUBSET Request
  /\ sent \in SUBSET Request

LinkInit ==
  /\ toUpf = {}
  /\ toSmf = {}
  /\ sent = {}

Unused(id) == \A q \in sent : q.id # id

(* conn.Write: the datagram leaves the client. *)
Send(q) ==
  /\ toUpf' = toUpf \cup {q}
  /\ sent' = sent \cup {q}
  /\ toSmf' = toSmf

(* The network drops a datagram. *)
LoseRequest ==
  \E q \in toUpf : toUpf' = toUpf \ {q} /\ UNCHANGED <<toSmf, sent>>

LoseAnswer ==
  \E a \in toSmf : toSmf' = toSmf \ {a} /\ UNCHANGED <<toUpf, sent>>
=============================================================================
