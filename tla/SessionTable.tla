---------------------------- MODULE SessionTable ----------------------------
(***************************************************************************)
(* What a session table promises its clients, with no goroutine, lock or    *)
(* socket in sight: a request that was submitted takes effect on the table  *)
(* in one step, at most once, and is answered only after that; or it        *)
(* vanishes. A reset forgets the table and any requests.                    *)
(***************************************************************************)
CONSTANTS Request,    \* records with fields kind, seid, id
          Seids, NoSession

VARIABLES table,      \* the entry of every SEID
          waiting,    \* requests submitted and not yet applied
          settled,    \* requests applied whose answer may still arrive
          used        \* every request ever submitted

tableVars == <<table, waiting, settled, used>>

(* What applying q to the entry e leaves there. *)
Effect(q, e) ==
  CASE q.kind = "establish" -> [createdBy |-> q.id, updatedBy |-> q.id]
    [] q.kind = "modify"    -> [e EXCEPT !.updatedBy = q.id]
    [] q.kind = "delete"    -> NoSession
    [] OTHER                -> e

Applicable(q, e) == q.kind = "modify" => e # NoSession

TableInit ==
  /\ table = [s \in Seids |-> NoSession]
  /\ waiting = {} /\ settled = {} /\ used = {}

Submit(q) ==
  /\ q \notin used
  /\ used' = used \cup {q}
  /\ waiting' = waiting \cup {q}
  /\ UNCHANGED <<table, settled>>

Apply(q) ==
  /\ q \in waiting
  /\ Applicable(q, table[q.seid])
  /\ table' = [table EXCEPT ![q.seid] = Effect(q, @)]
  /\ waiting' = waiting \ {q}
  /\ settled' = settled \cup {q}
  /\ used' = used

Vanish ==
  \E q \in waiting \cup settled :
    /\ waiting' = waiting \ {q}
    /\ settled' = settled \ {q}
    /\ UNCHANGED <<table, used>>

Reset ==
  /\ table' = [s \in Seids |-> NoSession]
  /\ waiting' \in SUBSET waiting
  /\ settled' \in SUBSET settled
  /\ used' = used

TableNext ==
  \/ \E q \in Request \ used : Submit(q)
  \/ \E q \in waiting : Apply(q)
  \/ Vanish
  \/ Reset

TableSpec == TableInit /\ [][TableNext]_tableVars
=============================================================================
