---------------------------- MODULE RedisSessions ---------------------------
(***************************************************************************)
(* The Redis-backed session manager (pkg/smf/session.go). A request is      *)
(* served by one goroutine: a GET, a decision, then a SET or a DEL. Nothing *)
(* ties the two together: the manager's mutex is never locked, and no Redis *)
(* transaction or conditional write is used. A step of this module is one   *)
(* command executed by Redis, or one failure of a command.                  *)
(*                                                                          *)
(* A session is reduced to the UUID it was created with, here the request   *)
(* that created it, and its state. ACTIVE, DELETING and DELETED are never   *)
(* written to Redis.                                                        *)
(***************************************************************************)
EXTENDS Naturals

CONSTANTS Requests,     \* the requests served, each once
          Imsis,
          NoSession,    \* the value of a key Redis does not hold
          MaxFaults,    \* bound: failed or repeated Redis commands
          MaxExpiries   \* bound: keys that reach their 24 hours

Ops == {"create", "delete", "modify"}

Session == [session_id : Requests, state : {"INITIALIZING", "MODIFYING"}]

ASSUME RedisAssumption ==
  /\ NoSession \notin Session
  /\ MaxFaults \in Nat
  /\ MaxExpiries \in Nat

VARIABLES store,      \* Redis: the value of session:<imsi>
          op, imsi,   \* what each request asks for
          pc,         \* where its handler is
          session,    \* the Session struct the handler works on
          faults, expiries,
          wasStored,  \* history: per IMSI, every value Redis has held
          ideal,      \* history: the value if requests were atomic
          unsure      \* history: IMSIs of overlapping or failed requests

commandVars == <<op, imsi>>
historyVars == <<wasStored, ideal, unsure>>
redisVars == <<store, commandVars, pc, session, faults, expiries, historyVars>>

RedisTypeOK ==
  /\ store \in [Imsis -> Session \cup {NoSession}]
  /\ op \in [Requests -> Ops]
  /\ imsi \in [Requests -> Imsis]
  /\ pc \in [Requests -> {"new", "get", "set", "del", "done", "failed"}]
  /\ session \in [Requests -> Session \cup {NoSession}]
  /\ faults \in 0 .. MaxFaults
  /\ expiries \in 0 .. MaxExpiries
  /\ wasStored \in [Imsis -> SUBSET Session]
  /\ ideal \in [Imsis -> Session \cup {NoSession}]
  /\ unsure \in SUBSET Imsis

(* The requests are arbitrary, and Redis starts empty. *)
RedisInit ==
  /\ store = [i \in Imsis |-> NoSession]
  /\ op \in [Requests -> Ops]
  /\ imsi \in [Requests -> Imsis]
  /\ pc = [r \in Requests |-> "new"]
  /\ session = [r \in Requests |-> NoSession]
  /\ faults = 0 /\ expiries = 0
  /\ wasStored = [i \in Imsis |-> {}]
  /\ ideal = [i \in Imsis |-> NoSession]
  /\ unsure = {}

Fresh(r) == [session_id |-> r, state |-> "INITIALIZING"]

Running(r) == pc[r] \in {"get", "set", "del"}

Busy(i) == \E r \in Requests : Running(r) /\ imsi[r] = i

(* What the request leaves in an entry e when nothing happens in between. *)
Outcome(r, e) ==
  CASE op[r] = "create" -> IF e = NoSession THEN Fresh(r) ELSE e
    [] op[r] = "delete" -> NoSession
    [] op[r] = "modify" -> IF e = NoSession THEN e ELSE [e EXCEPT !.state = "MODIFYING"]

(* The handler is entered; without an IMSI in the message it fails at once. *)
Begin(r) ==
  /\ pc[r] = "new"
  /\ \E l \in {"get", "failed"} : pc' = [pc EXCEPT ![r] = l]
  /\ unsure' = IF Busy(imsi[r]) THEN unsure \cup {imsi[r]} ELSE unsure
  /\ UNCHANGED <<store, commandVars, session, faults, expiries, wasStored, ideal>>

(* Mutant: a create does not check whether there is a session.              *)
AfterGetUnchecked(r, e) ==
  IF e = NoSession /\ op[r] # "create"
    THEN pc' = [pc EXCEPT ![r] = "failed"] /\ session' = session
    ELSE /\ pc' = [pc EXCEPT ![r] = IF op[r] = "delete" THEN "del" ELSE "set"]
         /\ session' = [session EXCEPT ![r] = IF op[r] = "create" THEN Fresh(r)
                                              ELSE Outcome(r, e)]

(* GetSession has returned e, or an error: all three handlers take an error *)
(* for absence. A create returns what it found; a delete sets DELETING in   *)
(* its own copy only.                                                       *)
AfterGet(r, e) ==
  CASE op[r] = "create" /\ e = NoSession ->
         /\ pc' = [pc EXCEPT ![r] = "set"]
         /\ session' = [session EXCEPT ![r] = Fresh(r)]
    [] op[r] = "create" /\ e # NoSession ->
         /\ pc' = [pc EXCEPT ![r] = "done"]
         /\ session' = [session EXCEPT ![r] = e]
    [] op[r] = "delete" /\ e # NoSession ->
         /\ pc' = [pc EXCEPT ![r] = "del"]
         /\ session' = session
    [] op[r] = "modify" /\ e # NoSession ->
         /\ pc' = [pc EXCEPT ![r] = "set"]
         /\ session' = [session EXCEPT ![r] = [e EXCEPT !.state = "MODIFYING"]]
    [] OTHER ->
         /\ pc' = [pc EXCEPT ![r] = "failed"]
         /\ session' = session

GetSession(r) ==
  /\ pc[r] = "get"
  /\ AfterGet(r, store[imsi[r]])
  /\ UNCHANGED <<store, commandVars, faults, expiries, historyVars>>

Fault == faults < MaxFaults /\ faults' = faults + 1

GetFails(r) ==
  /\ pc[r] = "get"
  /\ Fault
  /\ AfterGet(r, NoSession)
  /\ unsure' = unsure \cup {imsi[r]}
  /\ UNCHANGED <<store, commandVars, expiries, wasStored, ideal>>

(* Mutant: a delete writes DELETING back instead of removing the key.       *)
ExecuteDeleting(r) ==
  /\ pc[r] \in {"set", "del"}
  /\ store' = [store EXCEPT ![imsi[r]] =
                 IF pc[r] = "set" THEN session[r]
                 ELSE [session_id |-> r, state |-> "DELETING"]]
  /\ UNCHANGED wasStored

(* Mutant: the key is taken from state that other requests write.           *)
ExecuteUnderAnyKey(r) ==
  /\ pc[r] \in {"set", "del"}
  /\ \E i \in Imsis :
       /\ store' = [store EXCEPT ![i] = session[r]]
       /\ wasStored' = [wasStored EXCEPT ![i] = @ \cup ({session[r]} \ {NoSession})]

(* The SET (with a time to live of 24 hours) or DEL of request r, in Redis. *)
Execute(r) ==
  /\ pc[r] \in {"set", "del"}
  /\ store' = [store EXCEPT ![imsi[r]] = IF pc[r] = "set" THEN session[r] ELSE NoSession]
  /\ wasStored' = IF pc[r] = "set"
                  THEN [wasStored EXCEPT ![imsi[r]] = @ \cup {session[r]}]
                  ELSE wasStored

StoreOrDelete(r) ==
  /\ Execute(r)
  /\ pc' = [pc EXCEPT ![r] = "done"]
  /\ ideal' = [ideal EXCEPT ![imsi[r]] = Outcome(r, @)]
  /\ UNCHANGED <<commandVars, session, faults, expiries, unsure>>

(* Mutant: the error of the command is not looked at.                       *)
CommandFailureIgnored(r) ==
  /\ pc[r] \in {"set", "del"}
  /\ Fault
  /\ pc' = [pc EXCEPT ![r] = "done"]
  /\ unsure' = unsure \cup {imsi[r]}
  /\ UNCHANGED <<store, commandVars, session, expiries, wasStored, ideal>>

(* The connection breaks and go-redis gives up: the handler returns an      *)
(* error, whether or not Redis has executed the command.                    *)
CommandFails(r) ==
  /\ pc[r] \in {"set", "del"}
  /\ Fault
  /\ Execute(r) \/ UNCHANGED <<store, wasStored>>
  /\ pc' = [pc EXCEPT ![r] = "failed"]
  /\ unsure' = unsure \cup {imsi[r]}
  /\ UNCHANGED <<commandVars, session, expiries, ideal>>

(* The reply is lost and go-redis sends the command again. *)
CommandRepeated(r) ==
  /\ Fault
  /\ Execute(r)
  /\ UNCHANGED <<commandVars, pc, session, expiries, ideal, unsure>>

Expire(i) ==
  /\ store[i] # NoSession
  /\ expiries < MaxExpiries
  /\ expiries' = expiries + 1
  /\ store' = [store EXCEPT ![i] = NoSession]
  /\ ideal' = [ideal EXCEPT ![i] = NoSession]
  /\ unsure' = IF Busy(i) THEN unsure \cup {i} ELSE unsure
  /\ UNCHANGED <<commandVars, pc, session, faults, wasStored>>

RedisNext ==
  \/ \E r \in Requests : \/ Begin(r) \/ GetSession(r) \/ GetFails(r)
                         \/ StoreOrDelete(r) \/ CommandFails(r) \/ CommandRepeated(r)
  \/ \E i \in Imsis : Expire(i)

RedisSpec == RedisInit /\ [][RedisNext]_redisVars
-----------------------------------------------------------------------------
(* As long as the requests for an IMSI come one after the other and no      *)
(* command is reported as failed, its key holds what atomic requests would  *)
(* have left, even across expiries and repeated commands; while a request   *)
(* is at its SET or DEL, possibly with that request's change already made   *)
(* (session.go:146-224).                                                    *)
SerialRegistry ==
  \A i \in Imsis \ unsure :
    \/ store[i] = ideal[i]
    \/ \E r \in Requests : /\ imsi[r] = i /\ pc[r] \in {"set", "del"}
                           /\ store[i] = Outcome(r, ideal[i])

(* A create never hands out a session Redis did not hold: the session it    *)
(* returns was stored for its own IMSI, by itself or by the create whose    *)
(* session it found, whatever failed or overlapped (session.go:97-101, 155).*)
ReturnedWasStored ==
  \A r \in Requests :
    op[r] = "create" /\ pc[r] = "done" => session[r] \in wasStored[imsi[r]]

(* Overlapping requests never mix subscribers up: every session Redis has   *)
(* ever held under an IMSI was created by a create for that IMSI            *)
(* (session.go:106, 131, 142).                                              *)
SessionsKeepTheirImsi ==
  \A i \in Imsis : \A s \in wasStored[i] :
    op[s.session_id] = "create" /\ imsi[s.session_id] = i

(* "Check if session already exists" holds for creates one after the other: *)
(* as long as the requests for an IMSI do not overlap, no command fails and *)
(* no delete succeeds, all its creates are handed one session, whatever is  *)
(* modified in between; until keys expire (session.go:154-160).             *)
SerialCreatesAgree ==
  \A i \in Imsis \ unsure :
    (expiries = 0 /\ \A q \in Requests : op[q] = "delete" /\ imsi[q] = i => pc[q] # "done")
    => \A r, q \in Requests :
         /\ op[r] = "create" /\ imsi[r] = i /\ pc[r] = "done"
         /\ op[q] = "create" /\ imsi[q] = i /\ pc[q] = "done"
         => session[r].session_id = session[q].session_id
-----------------------------------------------------------------------------
(* "Check if session already exists" (session.go:154): a create does not    *)
(* replace the session of an IMSI that has one. The check and the SET are   *)
(* two commands, and the check takes an error for absence.                  *)
CreateKeepsExisting ==
  [][\A i \in Imsis :
       store[i] # NoSession /\ store'[i] # NoSession
         => store'[i].session_id = store[i].session_id]_redisVars
=============================================================================
