------------------------------- MODULE GtpcSmf ------------------------------
(***************************************************************************)
(* The GTP-C SMF (cmd/smf/main.go): an in-memory session manager under one  *)
(* mutex, with an address pool, and the handlers of create and delete       *)
(* requests. go-gtp serves each message in a goroutine of its own.          *)
(*                                                                          *)
(* createSession calls allocateIP while it holds the mutex, and allocateIP  *)
(* locks it again. sync.RWMutex is not reentrant: the second Lock waits for *)
(* the mutex to be free, like any other.                                    *)
(***************************************************************************)
EXTENDS Naturals

CONSTANTS Requests, Imsis,
          PoolSize,     \* addresses in ipPool
          NoRequest     \* no session in the map; nobody holds the mutex

VARIABLES op, imsi,     \* what each request asks for
          pc,           \* where its handler is
          mu,           \* the goroutine that has locked sm.mu
          sessions,     \* sm.sessions: the request that created the session
          active,       \* requests whose session is ACTIVE
          found,        \* the *Session a handler works on, by its creator
          ip,           \* the address of the session each request created
          nextIPIndex

askVars == <<op, imsi>>
tableVars == <<sessions, ip, nextIPIndex>>
gtpcVars == <<askVars, pc, mu, active, found, tableVars>>

MaybeRequest == Requests \cup {NoRequest}

GtpcTypeOK ==
  /\ op \in [Requests -> {"create", "delete"}]
  /\ imsi \in [Requests -> Imsis]
  /\ pc \in [Requests -> {"new", "begin", "allocate", "respond", "update", "remove",
                          "done", "failed"}]
  /\ mu \in MaybeRequest
  /\ sessions \in [Imsis -> MaybeRequest]
  /\ active \in SUBSET Requests
  /\ found \in [Requests -> MaybeRequest]
  /\ ip \in [Requests -> 0 .. PoolSize]
  /\ nextIPIndex \in 0 .. PoolSize

GtpcInit ==
  /\ op \in [Requests -> {"create", "delete"}]
  /\ imsi \in [Requests -> Imsis]
  /\ pc = [r \in Requests |-> "new"]
  /\ mu = NoRequest
  /\ sessions = [i \in Imsis |-> NoRequest]
  /\ active = {}
  /\ found = [r \in Requests |-> NoRequest]
  /\ ip = [r \in Requests |-> 0]
  /\ nextIPIndex = 0

Goto(r, l) == pc' = [pc EXCEPT ![r] = l]

(* A message arrives; without an IMSI its handler fails. *)
Receive(r) ==
  /\ pc[r] = "new"
  /\ Goto(r, "begin") \/ Goto(r, "failed")
  /\ UNCHANGED <<askVars, mu, active, found, tableVars>>

(* createSession locks the mutex and finds the IMSI's session. *)
CreateExisting(r) ==
  /\ pc[r] = "begin" /\ op[r] = "create"
  /\ mu = NoRequest
  /\ sessions[imsi[r]] # NoRequest
  /\ found' = [found EXCEPT ![r] = sessions[imsi[r]]]
  /\ Goto(r, "respond")
  /\ UNCHANGED <<askVars, mu, active, tableVars>>

(* createSession locks the mutex, finds none and calls allocateIP. *)
CreateNew(r) ==
  /\ pc[r] = "begin" /\ op[r] = "create"
  /\ mu = NoRequest
  /\ sessions[imsi[r]] = NoRequest
  /\ mu' = r
  /\ Goto(r, "allocate")
  /\ UNCHANGED <<askVars, active, found, tableVars>>

(* allocateIP locks the mutex too; then it takes the next address, and      *)
(* createSession stores the session, or fails when there is none left.      *)
AllocateIP(r) ==
  /\ pc[r] = "allocate"
  /\ mu = NoRequest
  /\ IF nextIPIndex < PoolSize
       THEN /\ ip' = [ip EXCEPT ![r] = nextIPIndex]
            /\ nextIPIndex' = nextIPIndex + 1
            /\ sessions' = [sessions EXCEPT ![imsi[r]] = r]
            /\ found' = [found EXCEPT ![r] = r]
            /\ Goto(r, "respond")
       ELSE /\ Goto(r, "failed")
            /\ UNCHANGED <<tableVars, found>>
  /\ UNCHANGED <<askVars, mu, active>>

(* getSession, under the read lock. *)
FindToDelete(r) ==
  /\ pc[r] = "begin" /\ op[r] = "delete"
  /\ mu = NoRequest
  /\ Goto(r, IF sessions[imsi[r]] = NoRequest THEN "failed" ELSE "respond")
  /\ UNCHANGED <<askVars, mu, active, found, tableVars>>

(* RespondTo, with no lock held, may fail: then nothing follows. *)
Respond(r) ==
  /\ pc[r] = "respond"
  /\ Goto(r, IF op[r] = "create" THEN "update" ELSE "remove") \/ Goto(r, "failed")
  /\ UNCHANGED <<askVars, mu, active, found, tableVars>>

(* ACTIVE is written through the pointer, with no lock held. *)
MarkActive(r) ==
  /\ pc[r] = "update"
  /\ active' = active \cup {found[r]}
  /\ Goto(r, "done")
  /\ UNCHANGED <<askVars, mu, found, tableVars>>

DeleteSession(r) ==
  /\ pc[r] = "remove"
  /\ mu = NoRequest
  /\ sessions' = [sessions EXCEPT ![imsi[r]] = NoRequest]
  /\ Goto(r, "done")
  /\ UNCHANGED <<askVars, mu, active, found, ip, nextIPIndex>>

Handler(r) ==
  \/ CreateExisting(r) \/ CreateNew(r) \/ AllocateIP(r)
  \/ FindToDelete(r) \/ Respond(r) \/ MarkActive(r) \/ DeleteSession(r)

GtpcNext == \E r \in Requests : Receive(r) \/ Handler(r)

(* The Go scheduler runs every goroutine that can go on. *)
GtpcSpec ==
  GtpcInit /\ [][GtpcNext]_gtpcVars /\ \A r \in Requests : WF_gtpcVars(Handler(r))
-----------------------------------------------------------------------------
(* "handleCreateSessionRequest processes incoming Create Session Requests"  *)
(* (cmd/smf/main.go:233): a request that arrives is answered or refused. In *)
(* the code the first create for a new IMSI waits for itself, and everybody *)
(* else for it.                                                             *)
EveryRequestEnds ==
  \A r \in Requests : (pc[r] = "begin") ~> (pc[r] \in {"done", "failed"})
=============================================================================
