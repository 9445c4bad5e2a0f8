---------------------------- MODULE GtpcSmf_proofs ---------------------------
(***************************************************************************)
(* What the mutex of the GTP-C SMF lets happen, for any requests,           *)
(* subscribers and pool: the run shows that requests do not end, the        *)
(* theorems show that this code never stores a session at all.              *)
(***************************************************************************)
EXTENDS GtpcSmf, TLAPS

(* The steps of the handlers, named one by one. *)
LEMMA GtpcSteps ==
  ASSUME [GtpcNext]_gtpcVars
  PROVE  \/ \E r \in Requests : Receive(r)
         \/ \E r \in Requests : CreateExisting(r)
         \/ \E r \in Requests : CreateNew(r)
         \/ \E r \in Requests : AllocateIP(r)
         \/ \E r \in Requests : FindToDelete(r)
         \/ \E r \in Requests : Respond(r)
         \/ \E r \in Requests : MarkActive(r)
         \/ \E r \in Requests : DeleteSession(r)
         \/ UNCHANGED gtpcVars
BY DEF GtpcNext, Handler

LEMMA GtpcTypeInit == ASSUME PoolSize \in Nat, GtpcInit PROVE GtpcTypeOK
BY DEF GtpcInit, GtpcTypeOK, MaybeRequest

(* A step keeps the types, as long as a handler that is about to write      *)
(* ACTIVE has a session to write it to.                                     *)
LEMMA GtpcTypeNext ==
  ASSUME PoolSize \in Nat, GtpcTypeOK, [GtpcNext]_gtpcVars,
         \A r \in Requests : pc[r] = "update" => found[r] # NoRequest
  PROVE  GtpcTypeOK'
<1> USE DEF GtpcTypeOK, MaybeRequest, askVars, tableVars, Goto
<1>1. ASSUME NEW r \in Requests, Receive(r) PROVE GtpcTypeOK'
  BY <1>1 DEF Receive
<1>2. ASSUME NEW r \in Requests, CreateExisting(r) PROVE GtpcTypeOK'
  BY <1>2 DEF CreateExisting
<1>3. ASSUME NEW r \in Requests, CreateNew(r) PROVE GtpcTypeOK'
  BY <1>3 DEF CreateNew
<1>4. ASSUME NEW r \in Requests, AllocateIP(r) PROVE GtpcTypeOK'
  <2>1. CASE nextIPIndex < PoolSize
    BY <1>4, <2>1 DEF AllocateIP
  <2>2. CASE ~(nextIPIndex < PoolSize)
    BY <1>4, <2>2 DEF AllocateIP
  <2> QED BY <2>1, <2>2
<1>5. ASSUME NEW r \in Requests, FindToDelete(r) PROVE GtpcTypeOK'
  BY <1>5 DEF FindToDelete
<1>6. ASSUME NEW r \in Requests, Respond(r) PROVE GtpcTypeOK'
  BY <1>6 DEF Respond
<1>7. ASSUME NEW r \in Requests, MarkActive(r) PROVE GtpcTypeOK'
  BY <1>7 DEF MarkActive
<1>8. ASSUME NEW r \in Requests, DeleteSession(r) PROVE GtpcTypeOK'
  BY <1>8 DEF DeleteSession
<1>9. CASE UNCHANGED gtpcVars
  BY <1>9 DEF gtpcVars
<1> QED BY GtpcSteps, <1>1, <1>2, <1>3, <1>4, <1>5, <1>6, <1>7, <1>8, <1>9
-----------------------------------------------------------------------------
(* The table stays as it was made: no session, no address handed out, and   *)
(* no handler past the point where it would have a session.                 *)
NothingIsStored ==
  /\ sessions = [i \in Imsis |-> NoRequest]
  /\ active = {}
  /\ nextIPIndex = 0
  /\ \A r \in Requests : pc[r] \in {"new", "begin", "allocate", "failed"}

(* The goroutine that has the mutex is the one that waits for it in         *)
(* allocateIP.                                                              *)
WaitsForItself ==
  /\ mu # NoRequest => pc[mu] = "allocate"
  /\ \A r \in Requests : pc[r] = "allocate" => mu = r

GtpcInv == GtpcTypeOK /\ NothingIsStored /\ WaitsForItself

LEMMA GtpcInvInit ==
  ASSUME NoRequest \notin Requests, PoolSize \in Nat, GtpcInit
  PROVE  GtpcInv
BY GtpcTypeInit DEF GtpcInit, GtpcInv, NothingIsStored, WaitsForItself

(* Of the handlers' steps only the receipt of a message, the refusal of a   *)
(* delete and the first half of one create are left.                        *)
LEMMA GtpcInvSteps ==
  ASSUME NoRequest \notin Requests, PoolSize \in Nat, GtpcInv, [GtpcNext]_gtpcVars
  PROVE  \/ \E r \in Requests : Receive(r)
         \/ \E r \in Requests : CreateNew(r)
         \/ \E r \in Requests : FindToDelete(r)
         \/ UNCHANGED gtpcVars
<1>1. ASSUME NEW r \in Requests PROVE ~CreateExisting(r)
  BY DEF GtpcInv, GtpcTypeOK, NothingIsStored, CreateExisting
<1>2. ASSUME NEW r \in Requests PROVE ~AllocateIP(r)
  BY DEF GtpcInv, WaitsForItself, AllocateIP
<1>3. ASSUME NEW r \in Requests PROVE ~Respond(r) /\ ~MarkActive(r) /\ ~DeleteSession(r)
  BY DEF GtpcInv, NothingIsStored, Respond, MarkActive, DeleteSession
<1> QED BY GtpcSteps, <1>1, <1>2, <1>3

LEMMA GtpcInvNext ==
  ASSUME NoRequest \notin Requests, PoolSize \in Nat, GtpcInv, [GtpcNext]_gtpcVars
  PROVE  GtpcInv'
<1>1. GtpcTypeOK'
  BY GtpcTypeNext DEF GtpcInv, NothingIsStored
<1> USE DEF askVars, tableVars, Goto
<1>2. ASSUME NEW r \in Requests, Receive(r) PROVE (NothingIsStored /\ WaitsForItself)'
  <2>1. /\ UNCHANGED <<mu, active, sessions, nextIPIndex>> /\ pc[r] = "new"
        /\ pc'[r] \in {"begin", "failed"} /\ \A q \in Requests \ {r} : pc'[q] = pc[q]
    BY <1>2 DEF Receive, GtpcInv, GtpcTypeOK
  <2>2. mu # NoRequest => mu \in Requests \ {r}
    BY <2>1 DEF GtpcInv, GtpcTypeOK, MaybeRequest, WaitsForItself
  <2> QED BY <2>1, <2>2 DEF GtpcInv, NothingIsStored, WaitsForItself
<1>3. ASSUME NEW r \in Requests, CreateNew(r) PROVE (NothingIsStored /\ WaitsForItself)'
  <2>1. /\ UNCHANGED <<active, sessions, nextIPIndex>> /\ mu = NoRequest /\ mu' = r
        /\ pc'[r] = "allocate" /\ \A q \in Requests \ {r} : pc'[q] = pc[q]
    BY <1>3 DEF CreateNew, GtpcInv, GtpcTypeOK
  <2> QED BY <2>1 DEF GtpcInv, NothingIsStored, WaitsForItself
<1>4. ASSUME NEW r \in Requests, FindToDelete(r) PROVE (NothingIsStored /\ WaitsForItself)'
  <2>1. /\ UNCHANGED <<mu, active, sessions, nextIPIndex>> /\ mu = NoRequest
        /\ sessions[imsi[r]] = NoRequest
    BY <1>4 DEF FindToDelete, GtpcInv, GtpcTypeOK, NothingIsStored
  <2>2. pc'[r] = "failed" /\ \A q \in Requests \ {r} : pc'[q] = pc[q]
    BY <1>4, <2>1 DEF FindToDelete, GtpcInv, GtpcTypeOK
  <2> QED BY <2>1, <2>2 DEF GtpcInv, NothingIsStored, WaitsForItself
<1>5. ASSUME UNCHANGED gtpcVars PROVE (NothingIsStored /\ WaitsForItself)'
  <2>1. UNCHANGED <<mu, active, sessions, nextIPIndex, pc>>
    BY <1>5 DEF gtpcVars
  <2> QED BY <2>1 DEF GtpcInv, NothingIsStored, WaitsForItself
<1> QED BY GtpcInvSteps, <1>1, <1>2, <1>3, <1>4, <1>5 DEF GtpcInv

LEMMA GtpcInvHolds ==
  ASSUME NoRequest \notin Requests, PoolSize \in Nat
  PROVE  GtpcSpec => []GtpcInv
BY GtpcInvInit, GtpcInvNext, PTL DEF GtpcSpec

(* Every variable keeps its type (cmd/smf/main.go:39-52, 116-190).          *)
THEOREM GtpcTypeCorrect ==
  ASSUME NoRequest \notin Requests, PoolSize \in Nat
  PROVE  GtpcSpec => []GtpcTypeOK
BY GtpcInvHolds, PTL DEF GtpcInv

(* No session is ever stored, answered or deleted and no address is ever    *)
(* handed out: a request is refused for want of an IMSI or of a session, or *)
(* it never ends (cmd/smf/main.go:108, 126, 271).                           *)
THEOREM NothingIsEverStored ==
  ASSUME NoRequest \notin Requests, PoolSize \in Nat
  PROVE  GtpcSpec => []NothingIsStored
BY GtpcInvHolds, PTL DEF GtpcInv

(* Once a goroutine has the mutex it keeps it, and from then on no request  *)
(* that has reached a handler takes another step.                           *)
NoneGoesOn ==
  mu # NoRequest =>
    /\ mu' = mu
    /\ \A r \in Requests : pc[r] \in {"begin", "allocate"} => pc'[r] = pc[r]

(* The first create that finds no session locks the SMF for good: it waits  *)
(* for the mutex it holds and all other requests wait behind it             *)
(* (cmd/smf/main.go:117-126, 101-104).                                      *)
THEOREM TheFirstCreateLocksTheSmf ==
  ASSUME NoRequest \notin Requests, PoolSize \in Nat
  PROVE  GtpcSpec => [][NoneGoesOn]_gtpcVars
<1>1. ASSUME GtpcInv, [GtpcNext]_gtpcVars PROVE [NoneGoesOn]_gtpcVars
  <2>1. ASSUME NEW r \in Requests, Receive(r), mu # NoRequest PROVE NoneGoesOn
    BY <1>1, <2>1 DEF Receive, Goto, NoneGoesOn, GtpcInv, GtpcTypeOK
  <2>2. ASSUME NEW r \in Requests PROVE CreateNew(r) \/ FindToDelete(r) => mu = NoRequest
    BY DEF CreateNew, FindToDelete
  <2> QED BY <1>1, <2>1, <2>2, GtpcInvSteps DEF NoneGoesOn
<1> QED BY <1>1, GtpcInvHolds, PTL DEF GtpcSpec
=============================================================================
