-------------------------- MODULE UpfService_proofs -------------------------
(***************************************************************************)
(* Theorems about the UPF under any PFCP client, for any number of requests,*)
(* sessions and restarts.                                                   *)
(***************************************************************************)
EXTENDS UpfService, TLAPS

(* The steps of the service, named one by one. *)
LEMMA ServiceSteps ==
  ASSUME [ServiceNext]_serviceVars
  PROVE  \/ \E q \in Request : Submit(q)
         \/ \E a \in toSmf : Hear(a)
         \/ \E q \in toUpf : ReadFromUDP(q) /\ UNCHANGED clientVars
         \/ \E q \in spawned : HandlePFCP(q) /\ UNCHANGED clientVars
         \/ \E q \in replying : SendPFCP(q) /\ UNCHANGED clientVars
         \/ Close /\ UNCHANGED clientVars
         \/ Restart /\ UNCHANGED clientVars
         \/ LoseRequest /\ UNCHANGED <<serverVars, clientVars>>
         \/ LoseAnswer /\ UNCHANGED <<serverVars, clientVars>>
         \/ UNCHANGED serviceVars
BY DEF ServiceNext, UpfStep, ServePFCP, Goroutine

(* A handler that answers does to the table what the request asks for.      *)
LEMMA HandlerEffect ==
  ASSUME ServiceTypeOK, NEW q \in spawned, HandlePFCP(q)
  PROVE  \/ /\ Table!Applicable(q, sessions[q.seid])
            /\ sessions' = [sessions EXCEPT ![q.seid] = Table!Effect(q, @)]
            /\ Answers(q)
         \/ ModificationNotFound(q)
<1> USE DEF Table!Applicable, Table!Effect, ServiceTypeOK, ServerTypeOK
<1>1. q \in Request /\ q.seid \in Seids
  BY DEF Request
<1>2. CASE HandleEstablishment(q)  BY <1>2 DEF HandleEstablishment
<1>3. CASE HandleModification(q)   BY <1>3 DEF HandleModification
<1>4. CASE ModificationNotFound(q) BY <1>4
<1>5. CASE HandleDeletion(q)       BY <1>5 DEF HandleDeletion
<1>6. CASE HandleNodeMessage(q)
  BY <1>1, <1>6 DEF HandleNodeMessage
<1> QED
  BY <1>2, <1>3, <1>4, <1>5, <1>6 DEF HandlePFCP

(* Applying a request to an entry gives an entry.                           *)
LEMMA EffectType ==
  ASSUME NEW q \in Request, NEW e \in Session \cup {NoSession},
         Table!Applicable(q, e)
  PROVE  Table!Effect(q, e) \in Session \cup {NoSession}
<1>1. q.id \in Ids /\ q.kind \in Kinds
  BY DEF Request
<1>2. CASE q.kind = "modify"
  BY <1>1, <1>2 DEF Table!Applicable, Table!Effect, Session
<1> QED
  BY <1>1, <1>2 DEF Table!Effect, Session, Kinds
-----------------------------------------------------------------------------
(* Every variable keeps its type. *)
THEOREM ServiceTypeCorrect == ServiceSpec => []ServiceTypeOK
<1>1. ServiceInit => ServiceTypeOK
  BY UpfAssumption DEF ServiceInit, LinkInit, ServerInit, ServiceTypeOK, LinkTypeOK,
                       ServerTypeOK
<1>2. ServiceTypeOK /\ [ServiceNext]_serviceVars => ServiceTypeOK'
  <2> SUFFICES ASSUME ServiceTypeOK, [ServiceNext]_serviceVars PROVE ServiceTypeOK'
      OBVIOUS
  <2> USE UpfAssumption DEF ServiceTypeOK, LinkTypeOK, ServerTypeOK, linkVars,
                            serverVars, clientVars
  <2>1. ASSUME NEW q \in Request, Submit(q) PROVE ServiceTypeOK'
    BY <2>1 DEF Submit, Send, Request
  <2>2. ASSUME NEW a \in toSmf, Hear(a) PROVE ServiceTypeOK'
    <3>1. a \in Request /\ a.seid \in Seids
      BY DEF Request
    <3>2. view' \in [Seids -> Session \cup {NoSession}]
      BY <2>2, <3>1, EffectType DEF Hear
    <3> QED BY <2>2, <3>1, <3>2 DEF Hear
  <2>3. ASSUME NEW q \in toUpf, ReadFromUDP(q), UNCHANGED clientVars
        PROVE ServiceTypeOK'
    BY <2>3 DEF ReadFromUDP
  <2>4. ASSUME NEW q \in spawned, HandlePFCP(q), UNCHANGED clientVars
        PROVE ServiceTypeOK'
    <3>1. q \in Request /\ q.seid \in Seids
      BY DEF Request
    <3>2. CASE ModificationNotFound(q)
      BY <2>4, <3>2 DEF ModificationNotFound
    <3>3. CASE /\ Table!Applicable(q, sessions[q.seid])
               /\ sessions' = [sessions EXCEPT ![q.seid] = Table!Effect(q, @)]
               /\ Answers(q)
      <4>1. sessions' \in [Seids -> Session \cup {NoSession}]
        BY <3>1, <3>3, EffectType
      <4> QED BY <2>4, <3>1, <3>3, <4>1 DEF Answers
    <3> QED BY <2>4, <3>2, <3>3, HandlerEffect
  <2>5. ASSUME NEW q \in replying, SendPFCP(q), UNCHANGED clientVars
        PROVE ServiceTypeOK'
    BY <2>5 DEF SendPFCP
  <2>6. ASSUME Close, UNCHANGED clientVars PROVE ServiceTypeOK'
    BY <2>6 DEF Close
  <2>7. ASSUME Restart, UNCHANGED clientVars PROVE ServiceTypeOK'
    BY <2>7 DEF Restart
  <2>8. ASSUME LoseRequest \/ LoseAnswer, UNCHANGED <<serverVars, clientVars>>
        PROVE ServiceTypeOK'
    BY <2>8 DEF LoseRequest, LoseAnswer
  <2>9. ASSUME UNCHANGED serviceVars PROVE ServiceTypeOK'
    BY <2>9 DEF serviceVars, upfVars
  <2> QED
    BY ServiceSteps, <2>1, <2>2, <2>3, <2>4, <2>5, <2>6, <2>7, <2>8, <2>9
<1> QED
  BY <1>1, <1>2, PTL DEF ServiceSpec
-----------------------------------------------------------------------------
InTransit == toUpf \cup spawned \cup replying \cup toSmf

(* A request is in one place at a time, and was sent.                       *)
LifeInv ==
  /\ InTransit \subseteq sent /\ heard \subseteq sent
  /\ toUpf \cap (spawned \cup replying \cup toSmf \cup heard) = {}
  /\ spawned \cap (replying \cup toSmf \cup heard) = {}
  /\ replying \cap (toSmf \cup heard) = {}
  /\ toSmf \cap heard = {}

(* No step puts a request in two places.                                    *)
LEMMA LifeInvariant == ServiceSpec => []LifeInv
<1> USE DEF LifeInv, InTransit
<1>1. ServiceInit => LifeInv
  BY DEF ServiceInit, LinkInit, ServerInit
<1>2. LifeInv /\ [ServiceNext]_serviceVars => LifeInv'
  <2> SUFFICES ASSUME LifeInv, [ServiceNext]_serviceVars PROVE LifeInv'
      OBVIOUS
  <2> USE DEF linkVars, serverVars, clientVars
  <2>1. ASSUME NEW q \in Request, Submit(q) PROVE LifeInv'
    <3>1. q \notin sent
      BY <2>1 DEF Submit, Unused
    <3> QED BY <2>1, <3>1 DEF Submit, Send
  <2>2. ASSUME NEW a \in toSmf, Hear(a) PROVE LifeInv'
    BY <2>2 DEF Hear
  <2>3. ASSUME NEW q \in toUpf, ReadFromUDP(q), UNCHANGED clientVars PROVE LifeInv'
    BY <2>3 DEF ReadFromUDP
  <2>4. ASSUME NEW q \in spawned, HandlePFCP(q), UNCHANGED clientVars PROVE LifeInv'
    <3>1. /\ spawned' = spawned \ {q}
          /\ replying' = replying \cup {q} \/ replying' = replying
          /\ UNCHANGED linkVars
      BY <2>4 DEF HandlePFCP, HandleEstablishment, HandleModification,
                  ModificationNotFound, HandleDeletion, HandleNodeMessage, Answers
    <3> QED BY <2>4, <3>1
  <2>5. ASSUME NEW q \in replying, SendPFCP(q), UNCHANGED clientVars PROVE LifeInv'
    BY <2>5 DEF SendPFCP
  <2>6. ASSUME Close \/ Restart, UNCHANGED clientVars PROVE LifeInv'
    BY <2>6 DEF Close, Restart
  <2>7. ASSUME LoseRequest \/ LoseAnswer, UNCHANGED <<serverVars, clientVars>>
        PROVE LifeInv'
    BY <2>7 DEF LoseRequest, LoseAnswer
  <2>8. ASSUME UNCHANGED serviceVars PROVE LifeInv'
    BY <2>8 DEF serviceVars, upfVars
  <2> QED
    BY ServiceSteps, <2>1, <2>2, <2>3, <2>4, <2>5, <2>6, <2>7, <2>8
<1> QED
  BY <1>1, <1>2, PTL DEF ServiceSpec
-----------------------------------------------------------------------------
(* An answered request took effect exactly once, atomically, between being  *)
(* sent and being answered: the goroutine's critical section is the step of *)
(* the abstract table, and everything before and after it is a stutter.     *)
THEOREM UpfImplementsTable == ServiceSpec => ImplementsTable
<1>1. ServiceInit => Table!TableInit
  BY DEF ServiceInit, LinkInit, ServerInit, Table!TableInit
<1>2. ServiceTypeOK /\ LifeInv /\ [ServiceNext]_serviceVars
        => [Table!TableNext]_Table!tableVars
  <2> SUFFICES ASSUME ServiceTypeOK, LifeInv, [ServiceNext]_serviceVars
               PROVE  Table!TableNext \/ UNCHANGED Table!tableVars
      OBVIOUS
  <2> USE DEF ServiceTypeOK, LinkTypeOK, ServerTypeOK, LifeInv, InTransit, linkVars,
              serverVars, Table!tableVars
  <2>1. ASSUME NEW q \in Request, Submit(q) PROVE Table!TableNext
    <3>1. q \notin sent
      BY <2>1 DEF Submit, Unused
    <3>2. Table!Submit(q)
      BY <2>1, <3>1 DEF Submit, Send, Table!Submit
    <3> QED BY <3>1, <3>2 DEF Table!TableNext
  <2>2. ASSUME NEW a \in toSmf, Hear(a) PROVE Table!Vanish
    BY <2>2 DEF Hear, Table!Vanish
  <2>3. ASSUME NEW q \in toUpf, ReadFromUDP(q) PROVE UNCHANGED Table!tableVars
    BY <2>3 DEF ReadFromUDP
  <2>4. ASSUME NEW q \in spawned, HandlePFCP(q) PROVE Table!TableNext
    <3>1. CASE ModificationNotFound(q)
      <4>1. Table!Vanish
        BY <3>1 DEF ModificationNotFound, Table!Vanish
      <4> QED BY <4>1 DEF Table!TableNext
    <3>2. CASE /\ Table!Applicable(q, sessions[q.seid])
               /\ sessions' = [sessions EXCEPT ![q.seid] = Table!Effect(q, @)]
               /\ Answers(q)
      <4>1. Table!Apply(q)
        BY <3>2 DEF Answers, Table!Apply
      <4> QED BY <4>1 DEF Table!TableNext
    <3> QED BY <2>4, <3>1, <3>2, HandlerEffect
  <2>5. ASSUME NEW q \in replying, SendPFCP(q)
        PROVE Table!Vanish \/ UNCHANGED Table!tableVars
    <3>1. CASE conn = "open"
      BY <2>5, <3>1 DEF SendPFCP
    <3>2. CASE conn # "open"
      BY <2>5, <3>2 DEF SendPFCP, Table!Vanish
    <3> QED BY <3>1, <3>2
  <2>6. ASSUME Close PROVE UNCHANGED Table!tableVars
    BY <2>6 DEF Close
  <2>7. ASSUME Restart PROVE Table!Reset
    BY <2>7 DEF Restart, Table!Reset
  <2>8. ASSUME LoseRequest, UNCHANGED <<serverVars, clientVars>> PROVE Table!Vanish
    BY <2>8 DEF LoseRequest, Table!Vanish
  <2>9. ASSUME LoseAnswer, UNCHANGED <<serverVars, clientVars>> PROVE Table!Vanish
    BY <2>9 DEF LoseAnswer, Table!Vanish
  <2>10. ASSUME UNCHANGED serviceVars PROVE UNCHANGED Table!tableVars
    BY <2>10 DEF serviceVars, upfVars
  <2> QED
    BY ServiceSteps, <2>1, <2>2, <2>3, <2>4, <2>5, <2>6, <2>7, <2>8, <2>9, <2>10
       DEF Table!TableNext
<1> QED
  BY <1>1, <1>2, ServiceTypeCorrect, LifeInvariant, PTL
     DEF ServiceSpec, ImplementsTable, Table!TableSpec
-----------------------------------------------------------------------------
(* Every entry was written by requests for its own SEID.                    *)
THEOREM EntriesAreTheirOwn == ServiceSpec => []SessionsAreTheirOwn
<1> USE DEF SessionsAreTheirOwn, Live
<1>1. ServiceInit => SessionsAreTheirOwn
  BY DEF ServiceInit, ServerInit
<1>2. ServiceTypeOK /\ LifeInv /\ SessionsAreTheirOwn /\ [ServiceNext]_serviceVars
        => SessionsAreTheirOwn'
  <2> SUFFICES ASSUME ServiceTypeOK, LifeInv, SessionsAreTheirOwn,
                      [ServiceNext]_serviceVars
               PROVE  SessionsAreTheirOwn'
      OBVIOUS
  <2> USE DEF ServiceTypeOK, ServerTypeOK, LinkTypeOK, linkVars, serverVars
  <2>1. ASSUME sent \subseteq sent', UNCHANGED sessions PROVE SessionsAreTheirOwn'
    BY <2>1
  <2>2. ASSUME NEW q \in spawned, HandlePFCP(q) PROVE SessionsAreTheirOwn'
    <3>1. q \in sent /\ q \in Request /\ q.seid \in Seids
      BY DEF LifeInv, InTransit, Request
    <3>2. CASE HandleEstablishment(q)
      BY <3>1, <3>2 DEF HandleEstablishment, Answers
    <3>3. CASE HandleModification(q)
      <4>1. sessions[q.seid] \in Session
        BY <3>1, <3>3 DEF HandleModification
      <4>2. sessions'[q.seid] = [createdBy |-> sessions[q.seid].createdBy,
                                 updatedBy |-> q.id]
        BY <3>1, <3>3, <4>1 DEF HandleModification, Session
      <4>3. /\ \A t \in Seids \ {q.seid} : sessions'[t] = sessions[t]
            /\ sent' = sent /\ q.kind = "modify" /\ sessions[q.seid] # NoSession
        BY <3>1, <3>3 DEF HandleModification, Answers
      <4> QED BY <3>1, <4>2, <4>3
    <3>4. CASE HandleDeletion(q)
      BY <3>1, <3>4 DEF HandleDeletion, Answers
    <3>5. CASE ModificationNotFound(q) \/ HandleNodeMessage(q)
      BY <3>5, <2>1 DEF ModificationNotFound, HandleNodeMessage, Answers
    <3> QED BY <2>2, <3>2, <3>3, <3>4, <3>5 DEF HandlePFCP
  <2>3. ASSUME Restart PROVE SessionsAreTheirOwn'
    BY <2>3 DEF Restart
  <2> QED
    BY ServiceSteps, <2>1, <2>2, <2>3
       DEF Submit, Send, Hear, ReadFromUDP, SendPFCP, Close, LoseRequest, LoseAnswer,
           serviceVars, upfVars
<1> QED
  BY <1>1, <1>2, ServiceTypeCorrect, LifeInvariant, PTL DEF ServiceSpec
-----------------------------------------------------------------------------
(* On a SEID with no overlap at most one request is unanswered; the table   *)
(* differs from the client's view by that request, once its goroutine has   *)
(* passed the critical section, and by nothing before.                      *)
SerialAt(s) ==
  /\ \A p, q \in Pending(s) : p = q
  /\ \A q \in (toUpf \cup spawned) \cap SessionRequest :
       q.seid = s => sessions[s] = view[s]
  /\ \A q \in (replying \cup toSmf) \cap SessionRequest :
       q.seid = s => /\ Table!Applicable(q, view[s])
                     /\ sessions[s] = Table!Effect(q, view[s])
  /\ \/ sessions[s] = view[s]
     \/ \E q \in Pending(s) : /\ Table!Applicable(q, view[s])
                              /\ sessions[s] = Table!Effect(q, view[s])

SerialInv == restarts = 0 => \A s \in Seids \ overlap : SerialAt(s)

(* A request that is not about a session leaves every entry as it is.       *)
LEMMA NodeMessageEffect ==
  ASSUME NEW q \in Request \ SessionRequest, NEW e
  PROVE  Table!Applicable(q, e) /\ Table!Effect(q, e) = e
BY DEF SessionRequest, Table!Applicable, Table!Effect

(* The unanswered request is the only one of its SEID in transit.           *)
LEMMA OnlyOneInTransit ==
  ASSUME LifeInv, NEW s \in Seids, SerialAt(s),
         NEW q \in InTransit \cap SessionRequest, q.seid = s
  PROVE  /\ q \in Pending(s)
         /\ \A p \in InTransit \cap SessionRequest : p.seid = s => p = q
BY DEF LifeInv, InTransit, SerialAt, Pending

(* A client that sends a request keeps SerialView.                          *)
LEMMA SerialSubmit ==
  ASSUME ServiceTypeOK, LifeInv, SerialInv, NEW q \in Request, Submit(q)
  PROVE  SerialInv'
<1> SUFFICES ASSUME restarts = 0, NEW s \in Seids, s \notin overlap' PROVE SerialAt(s)'
    BY DEF Submit, serverVars, SerialInv
<1>1. s \notin overlap /\ SerialAt(s)
  BY DEF Submit, SerialInv
<1>2. /\ toUpf' = toUpf \cup {q} /\ sent' = sent \cup {q} /\ q \notin sent
      /\ UNCHANGED <<toSmf, spawned, replying, sessions, heard, view>>
  BY DEF Submit, Send, Unused, serverVars
<1>3. CASE q \in SessionRequest /\ q.seid = s
  <2>1. Pending(s) = {}
    BY <1>3 DEF Submit
  <2>2. sessions[s] = view[s]
    BY <1>1, <2>1 DEF SerialAt
  <2>3. Pending(s)' = {q}
    BY <1>2, <1>3, <2>1 DEF Pending, LifeInv, SessionRequest
  <2> QED BY <1>1, <1>2, <2>2, <2>3 DEF SerialAt
<1>4. CASE ~(q \in SessionRequest /\ q.seid = s)
  <2>1. Pending(s)' = Pending(s)
    BY <1>2, <1>4 DEF Pending
  <2> QED BY <1>1, <1>2, <1>4, <2>1 DEF SerialAt
<1> QED BY <1>3, <1>4

(* A client that reads an answer keeps SerialView.                          *)
LEMMA SerialHear ==
  ASSUME ServiceTypeOK, LifeInv, SerialInv, NEW a \in toSmf, Hear(a)
  PROVE  SerialInv'
<1> SUFFICES ASSUME restarts = 0, NEW s \in Seids, s \notin overlap PROVE SerialAt(s)'
    BY DEF Hear, serverVars, SerialInv
<1>0. a \in Request /\ view \in [Seids -> Session \cup {NoSession}]
  BY DEF ServiceTypeOK, LinkTypeOK
<1>1. SerialAt(s)
  BY DEF SerialInv
<1>2. /\ toSmf' = toSmf \ {a} /\ heard' = heard \cup {a}
      /\ UNCHANGED <<toUpf, sent, spawned, replying, sessions>>
  BY DEF Hear, serverVars
<1>3. CASE a \in SessionRequest /\ a.seid = s
  <2>1. Table!Applicable(a, view[s]) /\ sessions[s] = Table!Effect(a, view[s])
    BY <1>1, <1>3 DEF SerialAt
  <2>2. view'[s] = sessions[s]
    BY <1>0, <1>3, <2>1 DEF Hear
  <2>3. Pending(s)' = {}
    BY <1>1, <1>2, <1>3, OnlyOneInTransit DEF SerialAt, Pending, InTransit
  <2>4. \A p \in (InTransit \cap SessionRequest)' : p.seid # s
    BY <1>1, <1>2, <1>3, OnlyOneInTransit DEF InTransit, LifeInv
  <2> QED BY <1>2, <2>2, <2>3, <2>4 DEF SerialAt, InTransit
<1>4. CASE ~(a \in SessionRequest /\ a.seid = s)
  <2>1. view'[s] = view[s]
    BY <1>0, <1>4, NodeMessageEffect DEF Hear
  <2>2. Pending(s)' = Pending(s)
    BY <1>2, <1>4 DEF Pending
  <2> QED BY <1>1, <1>2, <2>1, <2>2 DEF SerialAt
<1> QED BY <1>3, <1>4

(* A handler of the UPF keeps SerialView.                                   *)
LEMMA SerialHandle ==
  ASSUME ServiceTypeOK, LifeInv, SerialInv, NEW q \in spawned, HandlePFCP(q),
         UNCHANGED clientVars
  PROVE  SerialInv'
<1>0. q \in Request /\ q.seid \in Seids /\ sessions \in [Seids -> Session \cup {NoSession}]
  BY DEF ServiceTypeOK, ServerTypeOK, Request
<1>1. CASE ModificationNotFound(q)
  BY <1>1 DEF ModificationNotFound, SerialInv, SerialAt, Pending, linkVars, clientVars
<1>2. CASE /\ Table!Applicable(q, sessions[q.seid])
           /\ sessions' = [sessions EXCEPT ![q.seid] = Table!Effect(q, @)]
           /\ Answers(q)
  <2> SUFFICES ASSUME restarts = 0, NEW s \in Seids, s \notin overlap PROVE SerialAt(s)'
      BY <1>2 DEF Answers, clientVars, SerialInv
  <2>1. SerialAt(s)
    BY DEF SerialInv
  <2>2. /\ spawned' = spawned \ {q} /\ replying' = replying \cup {q}
        /\ UNCHANGED <<toUpf, toSmf, sent, heard, view>>
        /\ Pending(s)' = Pending(s)
    BY <1>2 DEF Answers, linkVars, clientVars, Pending
  <2>3. CASE q \in SessionRequest /\ q.seid = s
    <3>1. q \in InTransit \cap SessionRequest
      BY <2>3 DEF InTransit
    <3>2. q \in Pending(s) /\ \A p \in InTransit \cap SessionRequest : p.seid = s => p = q
      BY <2>1, <2>3, <3>1, OnlyOneInTransit
    <3>3. sessions[s] = view[s]
      BY <2>1, <2>3 DEF SerialAt
    <3>4. Table!Applicable(q, view[s]) /\ sessions'[s] = Table!Effect(q, view[s])
      BY <1>0, <1>2, <2>3, <3>3
    <3>5. \A p \in (toUpf' \cup spawned') \cap SessionRequest : p.seid # s
      BY <2>2, <3>2 DEF InTransit, LifeInv
    <3>6. \A p \in (replying' \cup toSmf') \cap SessionRequest : p.seid = s => p = q
      BY <2>2, <3>2 DEF InTransit
    <3> QED BY <2>1, <2>2, <3>2, <3>4, <3>5, <3>6 DEF SerialAt
  <2>4. CASE ~(q \in SessionRequest /\ q.seid = s)
    <3>1. sessions'[s] = sessions[s]
      BY <1>0, <1>2, <2>4, NodeMessageEffect
    <3> QED BY <2>1, <2>2, <2>4, <3>1 DEF SerialAt
  <2> QED BY <2>3, <2>4
<1> QED
  BY <1>1, <1>2, HandlerEffect

(* A client with one request outstanding per SEID can rely on what it heard.*)
THEOREM SerialClientsAreRight == ServiceSpec => []SerialView
<1>1. ServiceInit => SerialInv
  BY DEF ServiceInit, LinkInit, ServerInit, SerialInv, SerialAt, Pending
<1>2. ServiceTypeOK /\ LifeInv /\ SerialInv /\ [ServiceNext]_serviceVars => SerialInv'
  <2> SUFFICES ASSUME ServiceTypeOK, LifeInv, SerialInv, [ServiceNext]_serviceVars
               PROVE  SerialInv'
      OBVIOUS
  <2> USE DEF linkVars, serverVars, clientVars
  <2>1. ASSUME NEW q \in toUpf, ReadFromUDP(q), UNCHANGED clientVars PROVE SerialInv'
    BY <2>1 DEF ReadFromUDP, SerialInv, SerialAt, Pending
  <2>2. ASSUME NEW q \in replying, SendPFCP(q), UNCHANGED clientVars PROVE SerialInv'
    BY <2>2 DEF SendPFCP, SerialInv, SerialAt, Pending
  <2>3. ASSUME Close, UNCHANGED clientVars PROVE SerialInv'
    BY <2>3 DEF Close, SerialInv, SerialAt, Pending
  <2>4. ASSUME Restart PROVE SerialInv'
    BY <2>4 DEF Restart, SerialInv, ServiceTypeOK, ServerTypeOK
  <2>5. ASSUME LoseRequest \/ LoseAnswer, UNCHANGED <<serverVars, clientVars>>
        PROVE SerialInv'
    BY <2>5 DEF LoseRequest, LoseAnswer, SerialInv, SerialAt, Pending
  <2>6. ASSUME UNCHANGED serviceVars PROVE SerialInv'
    BY <2>6 DEF serviceVars, upfVars, SerialInv, SerialAt, Pending
  <2> QED
    BY ServiceSteps, SerialSubmit, SerialHear, SerialHandle, <2>1, <2>2, <2>3, <2>4,
       <2>5, <2>6
<1>3. SerialInv => SerialView
  BY DEF SerialInv, SerialAt, SerialView
<1> QED
  BY <1>1, <1>2, <1>3, ServiceTypeCorrect, LifeInvariant, PTL DEF ServiceSpec
=============================================================================
