------------------------- MODULE RedisSessions_proofs -----------------------
(***************************************************************************)
(* Theorems about the Redis-backed session manager, for any number of       *)
(* requests, subscribers, failures and expiries.                            *)
(***************************************************************************)
EXTENDS RedisSessions, TLAPS

(* The steps of the manager and of Redis, named one by one. *)
LEMMA RedisSteps ==
  ASSUME [RedisNext]_redisVars
  PROVE  \/ \E r \in Requests : Begin(r)
         \/ \E r \in Requests : GetSession(r)
         \/ \E r \in Requests : GetFails(r)
         \/ \E r \in Requests : StoreOrDelete(r)
         \/ \E r \in Requests : CommandFails(r)
         \/ \E r \in Requests : CommandRepeated(r)
         \/ \E i \in Imsis : Expire(i)
         \/ UNCHANGED redisVars
BY DEF RedisNext

(* Modifying a session gives a session.                                     *)
LEMMA ModifiedType ==
  ASSUME NEW e \in Session
  PROVE  /\ [e EXCEPT !.state = "MODIFYING"] \in Session
         /\ [e EXCEPT !.state = "MODIFYING"].session_id = e.session_id
         /\ [e EXCEPT !.state = "MODIFYING"] # NoSession
BY RedisAssumption DEF Session

(* What a handler does with the answer of its GET, in one formula.          *)
LEMMA AfterGetCases ==
  ASSUME NEW r \in Requests, NEW e, op[r] \in Ops, AfterGet(r, e)
  PROVE  \/ /\ op[r] = "create" /\ e = NoSession
            /\ pc' = [pc EXCEPT ![r] = "set"]
            /\ session' = [session EXCEPT ![r] = Fresh(r)]
         \/ /\ op[r] = "create" /\ e # NoSession
            /\ pc' = [pc EXCEPT ![r] = "done"]
            /\ session' = [session EXCEPT ![r] = e]
         \/ /\ op[r] = "delete" /\ e # NoSession
            /\ pc' = [pc EXCEPT ![r] = "del"]
            /\ session' = session
         \/ /\ op[r] = "modify" /\ e # NoSession
            /\ pc' = [pc EXCEPT ![r] = "set"]
            /\ session' = [session EXCEPT ![r] = [e EXCEPT !.state = "MODIFYING"]]
         \/ /\ op[r] # "create" /\ e = NoSession
            /\ pc' = [pc EXCEPT ![r] = "failed"]
            /\ session' = session
BY DEF AfterGet, Ops

(* Where the sessions of the handlers come from: a handler at its SET has   *)
(* one, a handler only has sessions created for its own IMSI, and Redis     *)
(* only holds what was stored. This is what makes the type and the          *)
(* properties of created sessions inductive.                                *)
Provenance ==
  /\ \A r \in Requests : /\ pc[r] = "set" => session[r] # NoSession
                         /\ pc[r] = "del" => op[r] = "delete"
  /\ \A r \in Requests : session[r] # NoSession =>
       /\ op[session[r].session_id] = "create"
       /\ imsi[session[r].session_id] = imsi[r]
  /\ \A i \in Imsis : store[i] # NoSession => store[i] \in wasStored[i]

RegistryInv ==
  RedisTypeOK /\ Provenance /\ SessionsKeepTheirImsi /\ ReturnedWasStored

(* A GET, answered with e or failed, keeps what RegistryInv says of the     *)
(* handlers: it takes over e, which Redis holds, or makes a fresh session.  *)
LEMMA AfterGetEffect ==
  ASSUME RegistryInv, NEW r \in Requests, NEW e \in Session \cup {NoSession},
         e # NoSession => e \in wasStored[imsi[r]],
         AfterGet(r, e), UNCHANGED <<store, commandVars, wasStored>>
  PROVE  /\ pc' \in [Requests -> {"new", "get", "set", "del", "done", "failed"}]
         /\ session' \in [Requests -> Session \cup {NoSession}]
         /\ (Provenance /\ SessionsKeepTheirImsi /\ ReturnedWasStored)'
<1> DEFINE m == [e EXCEPT !.state = "MODIFYING"]
<1>1. RedisTypeOK /\ op[r] \in Ops /\ imsi[r] \in Imsis
  BY DEF RegistryInv, RedisTypeOK
<1>2. /\ Fresh(r) \in Session /\ Fresh(r) # NoSession
      /\ Fresh(r).session_id = r
  BY RedisAssumption DEF Fresh, Session
<1>3. e # NoSession => m \in Session /\ m.session_id = e.session_id /\ m # NoSession
  BY ModifiedType
<1>4. e # NoSession => /\ op[e.session_id] = "create"
                       /\ imsi[e.session_id] = imsi[r]
  BY <1>1 DEF RegistryInv, SessionsKeepTheirImsi
<1>5. \/ /\ op[r] = "create" /\ e = NoSession
         /\ pc' = [pc EXCEPT ![r] = "set"]
         /\ session' = [session EXCEPT ![r] = Fresh(r)]
      \/ /\ op[r] = "create" /\ e # NoSession
         /\ pc' = [pc EXCEPT ![r] = "done"]
         /\ session' = [session EXCEPT ![r] = e]
      \/ /\ op[r] = "delete" /\ e # NoSession
         /\ pc' = [pc EXCEPT ![r] = "del"]
         /\ session' = session
      \/ /\ op[r] = "modify" /\ e # NoSession
         /\ pc' = [pc EXCEPT ![r] = "set"]
         /\ session' = [session EXCEPT ![r] = m]
      \/ /\ op[r] # "create" /\ e = NoSession
         /\ pc' = [pc EXCEPT ![r] = "failed"]
         /\ session' = session
  BY <1>1, AfterGetCases
<1> HIDE DEF m
<1>6. /\ pc' \in [Requests -> {"new", "get", "set", "del", "done", "failed"}]
      /\ session' \in [Requests -> Session \cup {NoSession}]
  BY <1>1, <1>2, <1>3, <1>5 DEF RedisTypeOK
<1>7. Provenance'
  BY <1>1, <1>2, <1>3, <1>4, <1>5 DEF RegistryInv, Provenance, RedisTypeOK, commandVars
<1>8. SessionsKeepTheirImsi'
  BY DEF RegistryInv, SessionsKeepTheirImsi, commandVars
<1>9. ReturnedWasStored'
  BY <1>1, <1>2, <1>3, <1>5 DEF RegistryInv, ReturnedWasStored, RedisTypeOK, commandVars
<1> QED BY <1>6, <1>7, <1>8, <1>9

(* A SET or DEL executed by Redis keeps the keys and their history right,   *)
(* whatever becomes of the handler.                                         *)
LEMMA ExecuteEffect ==
  ASSUME RegistryInv, NEW r \in Requests, Execute(r), UNCHANGED <<commandVars, session>>
  PROVE  /\ store' \in [Imsis -> Session \cup {NoSession}]
         /\ wasStored' \in [Imsis -> SUBSET Session]
         /\ SessionsKeepTheirImsi'
         /\ \A i \in Imsis : store'[i] # NoSession => store'[i] \in wasStored'[i]
         /\ \A i \in Imsis : wasStored[i] \subseteq wasStored'[i]
         /\ pc[r] = "set" => session[r] \in wasStored'[imsi[r]]
<1>1. /\ RedisTypeOK /\ imsi[r] \in Imsis /\ pc[r] \in {"set", "del"}
      /\ pc[r] = "set" => /\ session[r] \in Session
                          /\ op[session[r].session_id] = "create"
                          /\ imsi[session[r].session_id] = imsi[r]
  BY DEF RegistryInv, Provenance, RedisTypeOK, Execute
<1>2. CASE pc[r] = "set"
  <2>1. /\ store' = [store EXCEPT ![imsi[r]] = session[r]]
        /\ wasStored' = [wasStored EXCEPT ![imsi[r]] = @ \cup {session[r]}]
    BY <1>2 DEF Execute
  <2>2. SessionsKeepTheirImsi'
    BY <1>1, <1>2, <2>1 DEF RegistryInv, SessionsKeepTheirImsi, RedisTypeOK, commandVars
  <2> QED BY <1>1, <1>2, <2>1, <2>2 DEF RegistryInv, Provenance, RedisTypeOK
<1>3. CASE pc[r] = "del"
  <2>1. /\ store' = [store EXCEPT ![imsi[r]] = NoSession]
        /\ wasStored' = wasStored
    BY <1>3 DEF Execute
  <2>2. SessionsKeepTheirImsi'
    BY <2>1 DEF RegistryInv, SessionsKeepTheirImsi, commandVars
  <2> QED BY <1>1, <1>3, <2>1, <2>2 DEF RegistryInv, Provenance, RedisTypeOK
<1> QED BY <1>1, <1>2, <1>3

(* RegistryInv is inductive. *)
LEMMA RegistryInvariant == RedisSpec => []RegistryInv
<1>1. RedisInit => RegistryInv
  BY RedisAssumption
  DEF RedisInit, RegistryInv, RedisTypeOK, Provenance, SessionsKeepTheirImsi, ReturnedWasStored
<1>2. RegistryInv /\ [RedisNext]_redisVars => RegistryInv'
  <2> SUFFICES ASSUME RegistryInv, [RedisNext]_redisVars PROVE RegistryInv'
    OBVIOUS
  <2> USE RedisAssumption
  <2>0. RedisTypeOK
    BY DEF RegistryInv
  <2>1. ASSUME NEW r \in Requests, Begin(r) PROVE RegistryInv'
    <3>1. RedisTypeOK'
      BY <2>0, <2>1 DEF Begin, RedisTypeOK, commandVars
    <3>2. Provenance'
      BY <2>0, <2>1 DEF Begin, RegistryInv, Provenance, RedisTypeOK, commandVars
    <3>3. SessionsKeepTheirImsi' /\ ReturnedWasStored'
      BY <2>0, <2>1 DEF Begin, RegistryInv, RedisTypeOK, SessionsKeepTheirImsi,
                        ReturnedWasStored, commandVars
    <3> QED BY <3>1, <3>2, <3>3 DEF RegistryInv
  <2>2. ASSUME NEW r \in Requests, GetSession(r) PROVE RegistryInv'
    <3>1. /\ store[imsi[r]] \in Session \cup {NoSession}
          /\ store[imsi[r]] # NoSession => store[imsi[r]] \in wasStored[imsi[r]]
      BY <2>0 DEF RegistryInv, Provenance, RedisTypeOK
    <3>2. AfterGet(r, store[imsi[r]]) /\ UNCHANGED <<store, commandVars, wasStored>>
      BY <2>2 DEF GetSession, historyVars
    <3>3. /\ pc' \in [Requests -> {"new", "get", "set", "del", "done", "failed"}]
          /\ session' \in [Requests -> Session \cup {NoSession}]
          /\ (Provenance /\ SessionsKeepTheirImsi /\ ReturnedWasStored)'
      BY <3>1, <3>2, AfterGetEffect
    <3> QED BY <2>0, <2>2, <3>3 DEF GetSession, RegistryInv, RedisTypeOK, commandVars, historyVars
  <2>3. ASSUME NEW r \in Requests, GetFails(r) PROVE RegistryInv'
    <3>1. AfterGet(r, NoSession) /\ UNCHANGED <<store, commandVars, wasStored>>
      BY <2>3 DEF GetFails
    <3>2. /\ pc' \in [Requests -> {"new", "get", "set", "del", "done", "failed"}]
          /\ session' \in [Requests -> Session \cup {NoSession}]
          /\ (Provenance /\ SessionsKeepTheirImsi /\ ReturnedWasStored)'
      BY <3>1, AfterGetEffect
    <3> QED BY <2>0, <2>3, <3>2 DEF GetFails, Fault, RegistryInv, RedisTypeOK, commandVars
  <2>4. ASSUME NEW r \in Requests, StoreOrDelete(r) PROVE RegistryInv'
    <3>1. /\ store' \in [Imsis -> Session \cup {NoSession}]
          /\ wasStored' \in [Imsis -> SUBSET Session]
          /\ SessionsKeepTheirImsi'
          /\ \A i \in Imsis : store'[i] # NoSession => store'[i] \in wasStored'[i]
          /\ \A i \in Imsis : wasStored[i] \subseteq wasStored'[i]
          /\ pc[r] = "set" => session[r] \in wasStored'[imsi[r]]
      BY <2>4, ExecuteEffect DEF StoreOrDelete
    <3>2. ideal[imsi[r]] \in Session \cup {NoSession} /\ op[r] \in Ops
      BY <2>0 DEF RedisTypeOK
    <3>3. Outcome(r, ideal[imsi[r]]) \in Session \cup {NoSession}
      BY <3>2, ModifiedType DEF Outcome, Fresh, Ops, Session
    <3>4. RedisTypeOK'
      BY <2>0, <2>4, <3>1, <3>3 DEF StoreOrDelete, RedisTypeOK, commandVars
    <3>5. Provenance'
      BY <2>0, <2>4, <3>1 DEF StoreOrDelete, RegistryInv, Provenance, RedisTypeOK, commandVars
    <3>6. op[r] = "create" => pc[r] = "set"
      BY <2>4 DEF StoreOrDelete, RegistryInv, Provenance, Execute
    <3>7. ReturnedWasStored'
      BY <2>0, <2>4, <3>1, <3>6 DEF StoreOrDelete, RegistryInv, ReturnedWasStored, RedisTypeOK,
                                    commandVars
    <3> QED BY <3>1, <3>4, <3>5, <3>7 DEF RegistryInv
  <2>5. ASSUME NEW r \in Requests, CommandFails(r) PROVE RegistryInv'
    <3>1. /\ store' \in [Imsis -> Session \cup {NoSession}]
          /\ wasStored' \in [Imsis -> SUBSET Session]
          /\ SessionsKeepTheirImsi'
          /\ \A i \in Imsis : store'[i] # NoSession => store'[i] \in wasStored'[i]
          /\ \A i \in Imsis : wasStored[i] \subseteq wasStored'[i]
      <4>1. CASE Execute(r)
        BY <2>5, <4>1, ExecuteEffect DEF CommandFails
      <4>2. CASE UNCHANGED <<store, wasStored>>
        BY <2>0, <2>5, <4>2 DEF CommandFails, RegistryInv, RedisTypeOK, Provenance,
                                SessionsKeepTheirImsi, commandVars
      <4> QED BY <2>5, <4>1, <4>2 DEF CommandFails
    <3>2. RedisTypeOK'
      BY <2>0, <2>5, <3>1 DEF CommandFails, Fault, RedisTypeOK, commandVars
    <3>3. Provenance'
      BY <2>0, <2>5, <3>1 DEF CommandFails, RegistryInv, Provenance, RedisTypeOK, commandVars
    <3>4. ReturnedWasStored'
      BY <2>0, <2>5, <3>1 DEF CommandFails, RegistryInv, ReturnedWasStored, RedisTypeOK, commandVars
    <3> QED BY <3>1, <3>2, <3>3, <3>4 DEF RegistryInv
  <2>6. ASSUME NEW r \in Requests, CommandRepeated(r) PROVE RegistryInv'
    <3>1. /\ store' \in [Imsis -> Session \cup {NoSession}]
          /\ wasStored' \in [Imsis -> SUBSET Session]
          /\ SessionsKeepTheirImsi'
          /\ \A i \in Imsis : store'[i] # NoSession => store'[i] \in wasStored'[i]
          /\ \A i \in Imsis : wasStored[i] \subseteq wasStored'[i]
      BY <2>6, ExecuteEffect DEF CommandRepeated
    <3>2. RedisTypeOK'
      BY <2>0, <2>6, <3>1 DEF CommandRepeated, Fault, RedisTypeOK, commandVars
    <3>3. Provenance'
      BY <2>0, <2>6, <3>1 DEF CommandRepeated, RegistryInv, Provenance, RedisTypeOK, commandVars
    <3>4. ReturnedWasStored'
      BY <2>0, <2>6, <3>1 DEF CommandRepeated, RegistryInv, ReturnedWasStored, RedisTypeOK, commandVars
    <3> QED BY <3>1, <3>2, <3>3, <3>4 DEF RegistryInv
  <2>7. ASSUME NEW i \in Imsis, Expire(i) PROVE RegistryInv'
    <3>1. RedisTypeOK'
      BY <2>0, <2>7 DEF Expire, RedisTypeOK, commandVars
    <3>2. Provenance'
      BY <2>0, <2>7 DEF Expire, RegistryInv, Provenance, RedisTypeOK, commandVars
    <3>3. SessionsKeepTheirImsi' /\ ReturnedWasStored'
      BY <2>0, <2>7 DEF Expire, RegistryInv, SessionsKeepTheirImsi, ReturnedWasStored, commandVars
    <3> QED BY <3>1, <3>2, <3>3 DEF RegistryInv
  <2>8. CASE UNCHANGED redisVars
    BY <2>0, <2>8 DEF redisVars, commandVars, historyVars, RegistryInv, RedisTypeOK, Provenance,
                      SessionsKeepTheirImsi, ReturnedWasStored
  <2> QED BY <2>1, <2>2, <2>3, <2>4, <2>5, <2>6, <2>7, <2>8, RedisSteps
<1> QED BY <1>1, <1>2, PTL DEF RedisSpec

(* Every variable of the manager keeps its type, whatever overlaps or fails.*)
THEOREM RedisTypeCorrect == RedisSpec => []RedisTypeOK
BY RegistryInvariant, PTL DEF RegistryInv

(* Overlapping or failing requests never file a session under an IMSI it    *)
(* was not created for (session.go:131, 142).                               *)
THEOREM ImsisAreNotMixedUp == RedisSpec => []SessionsKeepTheirImsi
BY RegistryInvariant, PTL DEF RegistryInv

(* A session a create returns was held by Redis under the IMSI of the       *)
(* create, at the latest when the create returned (session.go:97, 155).     *)
THEOREM CreatedMeansStored == RedisSpec => []ReturnedWasStored
BY RegistryInvariant, PTL DEF RegistryInv
-----------------------------------------------------------------------------
(* What serial requests leave behind. While the requests for an IMSI do not *)
(* overlap, at most one runs; it has read the ideal value, and until its    *)
(* SET or DEL is executed Redis holds that, then what it leaves.            *)
HandlerAt(r) ==
  LET i == imsi[r] IN
  /\ pc[r] = "get" => store[i] = ideal[i]
  /\ pc[r] = "set" => session[r] = Outcome(r, ideal[i])
  /\ pc[r] = "del" => Outcome(r, ideal[i]) = NoSession
  /\ store[i] = ideal[i] \/ store[i] = Outcome(r, ideal[i])

SerialAt(i) ==
  /\ \A r, q \in Requests :
       Running(r) /\ Running(q) /\ imsi[r] = i /\ imsi[q] = i => r = q
  /\ \A r \in Requests : Running(r) /\ imsi[r] = i => HandlerAt(r)
  /\ ~Busy(i) => store[i] = ideal[i]

SerialInv == \A i \in Imsis \ unsure : SerialAt(i)

(* A step that leaves an IMSI and its requests alone.                       *)
LEMMA SerialFrame ==
  ASSUME NEW i \in Imsis, SerialAt(i), UNCHANGED commandVars,
         store'[i] = store[i], ideal'[i] = ideal[i],
         \A q \in Requests : imsi[q] = i => pc'[q] = pc[q] /\ session'[q] = session[q]
  PROVE  SerialAt(i)'
<1>1. op' = op /\ imsi' = imsi
  BY DEF commandVars
<1>2. \A q \in Requests : imsi[q] = i => (Running(q)' <=> Running(q))
  BY DEF Running
<1>3. ASSUME NEW q \in Requests, imsi[q] = i, HandlerAt(q) PROVE HandlerAt(q)'
  BY <1>1, <1>3 DEF HandlerAt, Outcome, Fresh
<1>4. Busy(i)' <=> Busy(i)
  BY <1>1, <1>2 DEF Busy
<1> QED BY <1>1, <1>2, <1>3, <1>4 DEF SerialAt

(* A step of the only request that runs for an IMSI.                        *)
LEMMA SerialStep ==
  ASSUME NEW r \in Requests, NEW i, i = imsi[r], UNCHANGED commandVars,
         \A q \in Requests : q # r /\ imsi[q] = i => ~Running(q) /\ pc'[q] = pc[q],
         Running(r)' => HandlerAt(r)',
         ~Running(r)' => store'[i] = ideal'[i]
  PROVE  SerialAt(i)'
BY DEF SerialAt, Running, Busy, commandVars

LEMMA SerialInit == RedisInit => SerialInv
BY DEF RedisInit, SerialInv, SerialAt, Running, Busy

LEMMA SerialNext == RegistryInv /\ SerialInv /\ [RedisNext]_redisVars => SerialInv'
<1> SUFFICES ASSUME RegistryInv, SerialInv, [RedisNext]_redisVars,
                    NEW i \in Imsis, i \notin unsure'
             PROVE  SerialAt(i)'
  BY DEF SerialInv
<1>0. /\ RedisTypeOK
      /\ i \notin unsure => SerialAt(i)
      /\ \A r \in Requests : imsi[r] \in Imsis /\ op[r] \in Ops
  BY DEF RegistryInv, SerialInv, RedisTypeOK
<1>a. ASSUME NEW r \in Requests, Running(r), imsi[r] = i, SerialAt(i)
      PROVE  /\ HandlerAt(r)
             /\ \A q \in Requests : q # r /\ imsi[q] = i => ~Running(q)
  BY <1>a DEF SerialAt
<1>1. ASSUME NEW r \in Requests, Begin(r) PROVE SerialAt(i)'
  <2>1. /\ i \notin unsure /\ (imsi[r] = i => ~Busy(i))
        /\ UNCHANGED <<commandVars, store, session, ideal>>
    BY <1>1 DEF Begin
  <2>2. \A q \in Requests : q # r => pc'[q] = pc[q]
    BY <1>0, <1>1 DEF Begin, RedisTypeOK
  <2>3. CASE imsi[r] = i
    <3>1. /\ \A q \in Requests : imsi[q] = i => ~Running(q)
          /\ store[i] = ideal[i]
      BY <1>0, <2>1, <2>3 DEF Busy, SerialAt
    <3>2. pc'[r] \in {"get", "failed"}
      BY <1>0, <1>1 DEF Begin, RedisTypeOK
    <3>3. Running(r)' => HandlerAt(r)'
      BY <2>1, <2>3, <3>1, <3>2 DEF HandlerAt, Running, commandVars
    <3> QED BY <2>1, <2>2, <2>3, <3>1, <3>3, SerialStep
  <2>4. CASE imsi[r] # i
    BY <1>0, <2>1, <2>2, <2>4, SerialFrame
  <2> QED BY <2>3, <2>4
<1>2. ASSUME NEW r \in Requests, GetSession(r) PROVE SerialAt(i)'
  <2>1. /\ i \notin unsure /\ UNCHANGED <<commandVars, store, ideal>>
        /\ pc[r] = "get" /\ AfterGet(r, store[imsi[r]])
    BY <1>2 DEF GetSession, historyVars
  <2>2. PICK e : e = store[imsi[r]]
    OBVIOUS
  <2>3. \/ /\ op[r] = "create" /\ e = NoSession
           /\ pc' = [pc EXCEPT ![r] = "set"]
           /\ session' = [session EXCEPT ![r] = Fresh(r)]
        \/ /\ op[r] = "create" /\ e # NoSession
           /\ pc' = [pc EXCEPT ![r] = "done"]
           /\ session' = [session EXCEPT ![r] = e]
        \/ /\ op[r] = "delete" /\ e # NoSession
           /\ pc' = [pc EXCEPT ![r] = "del"]
           /\ session' = session
        \/ /\ op[r] = "modify" /\ e # NoSession
           /\ pc' = [pc EXCEPT ![r] = "set"]
           /\ session' = [session EXCEPT ![r] = [e EXCEPT !.state = "MODIFYING"]]
        \/ /\ op[r] # "create" /\ e = NoSession
           /\ pc' = [pc EXCEPT ![r] = "failed"]
           /\ session' = session
    BY <1>0, <2>1, <2>2, AfterGetCases
  <2>4. \A q \in Requests : q # r => pc'[q] = pc[q] /\ session'[q] = session[q]
    BY <1>0, <2>3 DEF RedisTypeOK
  <2>5. CASE imsi[r] = i
    <3>1. /\ \A q \in Requests : q # r /\ imsi[q] = i => ~Running(q)
          /\ e = ideal[i] /\ store[i] = ideal[i]
      BY <1>0, <1>a, <2>1, <2>2, <2>5 DEF Running, HandlerAt
    <3>2. /\ pc'[r] = "set" => session'[r] = Outcome(r, e)
          /\ pc'[r] = "del" => Outcome(r, e) = NoSession
          /\ pc'[r] # "get"
      BY <1>0, <2>3 DEF Outcome, RedisTypeOK
    <3>3. \A x : Outcome(r, x)' = Outcome(r, x)
      BY <2>1 DEF Outcome, Fresh, commandVars
    <3>4. HandlerAt(r)'
      BY <2>1, <2>5, <3>1, <3>2 DEF HandlerAt, Outcome, Fresh, commandVars
    <3> QED BY <2>1, <2>4, <2>5, <3>1, <3>4, SerialStep
  <2>6. CASE imsi[r] # i
    BY <1>0, <2>1, <2>4, <2>6, SerialFrame
  <2> QED BY <2>5, <2>6
<1>3. ASSUME NEW r \in Requests, GetFails(r) PROVE SerialAt(i)'
  <2>1. /\ i \notin unsure /\ imsi[r] # i /\ UNCHANGED <<commandVars, store, ideal>>
        /\ AfterGet(r, NoSession)
    BY <1>3 DEF GetFails
  <2>2. \A q \in Requests : q # r => pc'[q] = pc[q] /\ session'[q] = session[q]
    BY <1>0, <2>1 DEF AfterGet, RedisTypeOK
  <2> QED BY <1>0, <2>1, <2>2, SerialFrame
<1>4. ASSUME NEW r \in Requests, Execute(r) \/ UNCHANGED store
      PROVE  imsi[r] # i => store'[i] = store[i]
  BY <1>0, <1>4 DEF Execute, RedisTypeOK
<1>5. ASSUME NEW r \in Requests, Execute(r), SerialAt(i), imsi[r] = i
      PROVE  store'[i] = Outcome(r, ideal[i]) /\ Running(r)
  BY <1>0, <1>5, <1>a DEF Execute, HandlerAt, Running, RedisTypeOK
<1>6. ASSUME NEW r \in Requests, StoreOrDelete(r) PROVE SerialAt(i)'
  <2>1. /\ i \notin unsure /\ UNCHANGED <<commandVars, session>> /\ Execute(r)
        /\ pc' = [pc EXCEPT ![r] = "done"]
        /\ ideal' = [ideal EXCEPT ![imsi[r]] = Outcome(r, @)]
    BY <1>6 DEF StoreOrDelete
  <2>2. \A q \in Requests : q # r => pc'[q] = pc[q]
    BY <1>0, <2>1 DEF RedisTypeOK
  <2>3. CASE imsi[r] = i
    <3>1. /\ store'[i] = Outcome(r, ideal[i]) /\ Running(r)
          /\ \A q \in Requests : q # r /\ imsi[q] = i => ~Running(q)
      BY <1>0, <1>5, <1>a, <2>1, <2>3
    <3>2. ideal'[i] = Outcome(r, ideal[i]) /\ ~Running(r)'
      BY <1>0, <2>1, <2>3 DEF RedisTypeOK, Running
    <3> QED BY <2>1, <2>2, <2>3, <3>1, <3>2, SerialStep
  <2>4. CASE imsi[r] # i
    <3>1. store'[i] = store[i] /\ ideal'[i] = ideal[i]
      BY <1>0, <1>4, <2>1, <2>4 DEF RedisTypeOK
    <3> QED BY <1>0, <2>1, <2>2, <2>4, <3>1, SerialFrame
  <2> QED BY <2>3, <2>4
<1>7. ASSUME NEW r \in Requests, CommandFails(r) PROVE SerialAt(i)'
  <2>1. /\ i \notin unsure /\ imsi[r] # i /\ UNCHANGED <<commandVars, session, ideal>>
        /\ Execute(r) \/ UNCHANGED store
        /\ pc' = [pc EXCEPT ![r] = "failed"]
    BY <1>7 DEF CommandFails
  <2>2. store'[i] = store[i] /\ \A q \in Requests : q # r => pc'[q] = pc[q]
    BY <1>0, <1>4, <2>1 DEF RedisTypeOK
  <2> QED BY <1>0, <2>1, <2>2, SerialFrame
<1>8. ASSUME NEW r \in Requests, CommandRepeated(r) PROVE SerialAt(i)'
  <2>1. i \notin unsure /\ UNCHANGED <<commandVars, pc, session, ideal>> /\ Execute(r)
    BY <1>8 DEF CommandRepeated
  <2>2. CASE imsi[r] = i
    <3>1. /\ store'[i] = Outcome(r, ideal[i]) /\ Running(r) /\ HandlerAt(r)
          /\ \A q \in Requests : q # r /\ imsi[q] = i => ~Running(q)
      BY <1>0, <1>5, <1>a, <2>1, <2>2
    <3>2. pc[r] # "get"
      BY <2>1 DEF Execute
    <3>3. HandlerAt(r)' /\ Running(r)'
      BY <2>1, <2>2, <3>1, <3>2 DEF HandlerAt, Outcome, Fresh, Running, commandVars
    <3> QED BY <2>1, <2>2, <3>1, <3>3, SerialStep
  <2>3. CASE imsi[r] # i
    BY <1>0, <1>4, <2>1, <2>3, SerialFrame
  <2> QED BY <2>2, <2>3
<1>9. ASSUME NEW j \in Imsis, Expire(j) PROVE SerialAt(i)'
  <2>1. /\ i \notin unsure /\ UNCHANGED <<commandVars, pc, session>>
        /\ store' = [store EXCEPT ![j] = NoSession]
        /\ ideal' = [ideal EXCEPT ![j] = NoSession]
        /\ j = i => ~Busy(i)
    BY <1>9 DEF Expire
  <2>2. CASE j = i
    <3>1. store'[i] = ideal'[i] /\ \A q \in Requests : imsi[q] = i => ~Running(q)
      BY <1>0, <2>1, <2>2 DEF RedisTypeOK, Busy
    <3> QED BY <2>1, <3>1 DEF SerialAt, Running, commandVars
  <2>3. CASE j # i
    <3>1. store'[i] = store[i] /\ ideal'[i] = ideal[i]
      BY <1>0, <2>1, <2>3 DEF RedisTypeOK
    <3> QED BY <1>0, <2>1, <3>1, SerialFrame
  <2> QED BY <2>2, <2>3
<1>10. CASE UNCHANGED redisVars
  BY <1>0, <1>10, SerialFrame DEF redisVars, historyVars
<1> QED BY RedisSteps, <1>1, <1>2, <1>3, <1>6, <1>7, <1>8, <1>9, <1>10

(* SerialRegistry: requests that come one after the other leave in Redis    *)
(* what atomic ones would, across expiries and commands that are repeated   *)
(* (session.go:146-224).                                                    *)
THEOREM SerialRequestsAreAtomic == RedisSpec => []SerialRegistry
<1>1. RegistryInv /\ SerialInv => SerialRegistry
  BY DEF RegistryInv, SerialInv, SerialAt, SerialRegistry, HandlerAt, Running, Busy
<1> QED BY RegistryInvariant, SerialInit, SerialNext, <1>1, PTL DEF RedisSpec
-----------------------------------------------------------------------------
(* What serial creates were handed is what an atomic registry would hold    *)
(* now, up to its state, as long as nothing removed it.                     *)
Undeleted(i) ==
  expiries = 0 /\ \A q \in Requests : op[q] = "delete" /\ imsi[q] = i => pc[q] # "done"

Handed(r) ==
  /\ ideal[imsi[r]] # NoSession
  /\ ideal[imsi[r]].session_id = session[r].session_id

CreatesAt(i) ==
  Undeleted(i) =>
    \A r \in Requests : op[r] = "create" /\ imsi[r] = i /\ pc[r] = "done" => Handed(r)

CreatesInv == \A i \in Imsis \ unsure : CreatesAt(i)

(* A step that finishes no request of an IMSI and leaves its value alone.   *)
LEMMA CreatesFrame ==
  ASSUME RedisTypeOK, NEW i \in Imsis, CreatesAt(i), UNCHANGED commandVars,
         ideal'[i] = ideal[i], expiries' >= expiries, expiries' \in Nat,
         \A q \in Requests : imsi[q] = i =>
           (pc'[q] = "done" <=> pc[q] = "done") /\ (pc[q] = "done" => session'[q] = session[q])
  PROVE  CreatesAt(i)'
<1>1. op' = op /\ imsi' = imsi /\ (expiries' = 0 => expiries = 0)
  BY DEF commandVars, RedisTypeOK
<1> QED BY <1>1 DEF CreatesAt, Undeleted, Handed

LEMMA CreatesInit == RedisInit => CreatesInv
BY DEF RedisInit, CreatesInv, CreatesAt

LEMMA CreatesNext ==
  RegistryInv /\ SerialInv /\ CreatesInv /\ [RedisNext]_redisVars => CreatesInv'
<1> SUFFICES ASSUME RegistryInv, SerialInv, CreatesInv, [RedisNext]_redisVars,
                    NEW i \in Imsis, i \notin unsure'
             PROVE  CreatesAt(i)'
  BY DEF CreatesInv
<1>0. /\ RedisTypeOK /\ expiries \in Nat
      /\ i \notin unsure => SerialAt(i) /\ CreatesAt(i)
      /\ \A r \in Requests : imsi[r] \in Imsis /\ op[r] \in Ops
      /\ ideal[i] \in Session \cup {NoSession}
  BY RedisAssumption DEF RegistryInv, SerialInv, CreatesInv, RedisTypeOK
<1>a. ASSUME NEW r \in Requests, Running(r), imsi[r] = i, SerialAt(i) PROVE HandlerAt(r)
  BY <1>a DEF SerialAt
<1>1. ASSUME NEW r \in Requests, Begin(r) PROVE CreatesAt(i)'
  <2>1. /\ i \notin unsure /\ UNCHANGED <<commandVars, session, ideal, expiries>>
        /\ \A q \in Requests : pc'[q] = "done" <=> pc[q] = "done"
    BY <1>0, <1>1 DEF Begin, RedisTypeOK
  <2> QED BY <1>0, <2>1, CreatesFrame
<1>2. ASSUME NEW r \in Requests, GetSession(r) PROVE CreatesAt(i)'
  <2>1. /\ i \notin unsure /\ UNCHANGED <<commandVars, store, ideal, expiries>>
        /\ pc[r] = "get" /\ AfterGet(r, store[imsi[r]])
    BY <1>2 DEF GetSession, historyVars
  <2>2. PICK e : e = store[imsi[r]]
    OBVIOUS
  <2>3. \A q \in Requests : q # r => pc'[q] = pc[q] /\ session'[q] = session[q]
    BY <1>0, <2>1 DEF AfterGet, RedisTypeOK
  <2>4. CASE op[r] = "create" /\ e # NoSession /\ imsi[r] = i
    <3>1. pc'[r] = "done" /\ session'[r] = e
      BY <1>0, <2>1, <2>2, <2>4 DEF AfterGet, RedisTypeOK
    <3>2. ideal'[i] = e
      BY <1>0, <1>a, <2>1, <2>2, <2>4 DEF Running, HandlerAt
    <3>3. Undeleted(i)' => Undeleted(i)
      BY <2>1, <2>3, <2>4 DEF Undeleted, commandVars
    <3>4. ASSUME NEW q \in Requests, op[q] = "create", imsi[q] = i, pc'[q] = "done", Undeleted(i)
          PROVE  Handed(q)'
      <4>1. CASE q = r
        BY <2>1, <2>4, <3>1, <3>2, <4>1 DEF Handed, commandVars
      <4>2. CASE q # r
        BY <1>0, <2>1, <2>3, <3>4, <4>2 DEF CreatesAt, Handed, commandVars
      <4> QED BY <4>1, <4>2
    <3> QED BY <2>1, <3>3, <3>4 DEF CreatesAt, commandVars
  <2>5. CASE ~(op[r] = "create" /\ e # NoSession /\ imsi[r] = i)
    <3>1. imsi[r] = i => pc'[r] # "done"
      BY <1>0, <2>1, <2>2, <2>5 DEF AfterGet, RedisTypeOK
    <3> QED BY <1>0, <2>1, <2>3, <3>1, CreatesFrame
  <2> QED BY <2>4, <2>5
<1>3. ASSUME NEW r \in Requests, GetFails(r) PROVE CreatesAt(i)'
  <2>1. /\ i \notin unsure /\ imsi[r] # i /\ UNCHANGED <<commandVars, ideal, expiries>>
        /\ AfterGet(r, NoSession)
    BY <1>3 DEF GetFails
  <2>2. \A q \in Requests : q # r => pc'[q] = pc[q] /\ session'[q] = session[q]
    BY <1>0, <2>1 DEF AfterGet, RedisTypeOK
  <2> QED BY <1>0, <2>1, <2>2, CreatesFrame
<1>4. ASSUME NEW r \in Requests, StoreOrDelete(r) PROVE CreatesAt(i)'
  <2>1. /\ i \notin unsure /\ UNCHANGED <<commandVars, session, expiries>>
        /\ pc[r] \in {"set", "del"}
        /\ pc' = [pc EXCEPT ![r] = "done"]
        /\ ideal' = [ideal EXCEPT ![imsi[r]] = Outcome(r, @)]
    BY <1>4 DEF StoreOrDelete, Execute
  <2>2. /\ pc'[r] = "done" /\ \A q \in Requests : q # r => pc'[q] = pc[q]
        /\ pc[r] # "done"
    BY <1>0, <2>1 DEF RedisTypeOK
  <2>3. CASE imsi[r] # i
    <3>1. ideal'[i] = ideal[i]
      BY <1>0, <2>1, <2>3 DEF RedisTypeOK
    <3> QED BY <1>0, <2>1, <2>2, <2>3, <3>1, CreatesFrame
  <2>4. CASE imsi[r] = i /\ op[r] = "delete"
    BY <2>1, <2>2, <2>4 DEF CreatesAt, Undeleted, commandVars
  <2>5. CASE imsi[r] = i /\ op[r] # "delete"
    <3>1. ideal'[i] = Outcome(r, ideal[i])
      BY <1>0, <2>1, <2>5 DEF RedisTypeOK
    <3>2. session[r] = ideal'[i] /\ ideal'[i] # NoSession
      <4>1. pc[r] = "set" /\ session[r] # NoSession
        BY <2>1, <2>5 DEF RegistryInv, Provenance
      <4> QED BY <1>0, <1>a, <2>1, <2>5, <3>1, <4>1 DEF Running, HandlerAt
    <3>3. ideal[i] # NoSession => ideal'[i].session_id = ideal[i].session_id
      BY <1>0, <2>5, <3>1, ModifiedType DEF Outcome, Ops
    <3>4. Undeleted(i)' => Undeleted(i)
      BY <2>1, <2>2, <2>5 DEF Undeleted, commandVars
    <3>5. ASSUME NEW q \in Requests, op[q] = "create", imsi[q] = i, pc'[q] = "done", Undeleted(i)
          PROVE  Handed(q)'
      <4>1. CASE q = r
        BY <2>1, <2>5, <3>2, <4>1 DEF Handed, commandVars
      <4>2. CASE q # r
        <5>1. ideal[i] # NoSession /\ ideal[i].session_id = session[q].session_id
          BY <1>0, <2>1, <2>2, <3>5, <4>2 DEF CreatesAt, Handed
        <5> QED BY <2>1, <3>2, <3>3, <3>5, <5>1 DEF Handed, commandVars
      <4> QED BY <4>1, <4>2
    <3> QED BY <2>1, <3>4, <3>5 DEF CreatesAt, commandVars
  <2> QED BY <2>3, <2>4, <2>5
<1>5. ASSUME NEW r \in Requests, CommandFails(r) PROVE CreatesAt(i)'
  <2>1. /\ i \notin unsure /\ imsi[r] # i
        /\ UNCHANGED <<commandVars, session, ideal, expiries>>
        /\ \A q \in Requests : q # r => pc'[q] = pc[q]
    BY <1>0, <1>5 DEF CommandFails, RedisTypeOK
  <2> QED BY <1>0, <2>1, CreatesFrame
<1>6. ASSUME NEW r \in Requests, CommandRepeated(r) PROVE CreatesAt(i)'
  <2>1. i \notin unsure /\ UNCHANGED <<commandVars, pc, session, ideal, expiries>>
    BY <1>6 DEF CommandRepeated
  <2> QED BY <1>0, <2>1, CreatesFrame
<1>7. ASSUME NEW j \in Imsis, Expire(j) PROVE CreatesAt(i)'
  <2>1. expiries' # 0
    BY <1>0, <1>7 DEF Expire
  <2> QED BY <2>1 DEF CreatesAt, Undeleted
<1>8. CASE UNCHANGED redisVars
  BY <1>0, <1>8, CreatesFrame DEF redisVars, historyVars
<1> QED BY RedisSteps, <1>1, <1>2, <1>3, <1>4, <1>5, <1>6, <1>7, <1>8

(* SerialCreatesAgree: creates for an IMSI that come one after the other    *)
(* are all handed one session, whatever is modified in between, until it is *)
(* deleted or expires (session.go:154-160).                                 *)
THEOREM OneSessionPerImsi == RedisSpec => []SerialCreatesAgree
<1>1. CreatesInv => SerialCreatesAgree
  BY DEF CreatesInv, CreatesAt, Undeleted, Handed, SerialCreatesAgree
<1> QED BY RegistryInvariant, SerialInit, SerialNext, CreatesInit, CreatesNext, <1>1, PTL
        DEF RedisSpec
=============================================================================
