-------------------------------- MODULE Bss ---------------------------------
(***************************************************************************)
(* The BSS (bss/main.go): prepaid accounts in memory, under a mutex, and an *)
(* HTTP interface. net/http serves each request in a goroutine of its own.  *)
(*                                                                          *)
(* A request carries no identifier: a client that lost an answer sends an   *)
(* equal one, which is another request. Of an account only the balance is   *)
(* kept; tokens and times are stored and never used.                        *)
(***************************************************************************)
EXTENDS Integers, FiniteSets

CONSTANTS Request,      \* the requests that may be sent, each once
          Imsis,
          Half,         \* integers are -Half .. Half - 1
          Absent, NoRequest,
          MaxRequests,  \* bound: requests sent
          MaxRestarts   \* bound: restarts of the process

Int64 == -Half .. Half - 1

ASSUME BssAssumption ==
  /\ Half \in Nat \ {0}
  /\ \A r \in Request : /\ r.op \in {"register", "topup", "get"}
                        /\ r.imsi \in Imsis /\ r.amount \in Int64
                        /\ r.valid \in BOOLEAN
                        /\ r.op = "topup" /\ r.valid => r.amount > 0
  /\ Absent \notin Int64 /\ NoRequest \notin Request
  /\ MaxRequests \in Nat /\ MaxRestarts \in Nat

VARIABLES simDB,            \* the balance of every subscriber
          arrived,          \* handlers that have not locked simDBLock
          writer, readers,  \* handlers that have
          found,            \* the balance each handler has looked up
          answers,          \* answers on their way to the client
          used,             \* history: every request that arrived
          told,             \* history: every answer a client has read
          restarts

lockVars == <<writer, readers, found>>
bssVars == <<simDB, arrived, lockVars, answers, used, told, restarts>>

Answer(r, status, b) == [request |-> r, status |-> status, balance |-> b]

MaybeBalance == Int64 \cup {Absent}

AnswerType == [request : Request, status : {200, 201, 400, 404, 409}, balance : MaybeBalance]

BssTypeOK ==
  /\ simDB \in [Imsis -> MaybeBalance]
  /\ arrived \in SUBSET Request
  /\ writer \in Request \cup {NoRequest}
  /\ readers \in SUBSET Request
  /\ found \in [Request -> MaybeBalance]
  /\ answers \in SUBSET AnswerType
  /\ used \in SUBSET Request
  /\ told \in SUBSET AnswerType
  /\ restarts \in 0 .. MaxRestarts

BssInit ==
  /\ simDB = [i \in Imsis |-> Absent]
  /\ arrived = {} /\ writer = NoRequest /\ readers = {}
  /\ found = [r \in Request |-> Absent]
  /\ answers = {} /\ used = {} /\ told = {}
  /\ restarts = 0

(* Mutant: the balance is an unsigned integer.                              *)
WrapUnsigned(n) == n % (2 * Half)

(* Machine integers wrap around. *)
Wrap(n) == ((n + Half) % (2 * Half)) - Half

Arrive(r) ==
  /\ r \notin used /\ Cardinality(used) < MaxRequests
  /\ used' = used \cup {r}
  /\ arrived' = arrived \cup {r}
  /\ UNCHANGED <<simDB, lockVars, answers, told, restarts>>

Send(r, status, b) == answers' = answers \cup {Answer(r, status, b)}

(* 400: not JSON, an IMSI of less than ten characters, an amount <= 0. *)
BadRequest(r) ==
  /\ r \in arrived /\ ~r.valid
  /\ arrived' = arrived \ {r}
  /\ Send(r, 400, Absent)
  /\ UNCHANGED <<simDB, lockVars, used, told, restarts>>

(* Mutant: everybody takes the read lock.                                   *)
LockShared(r) ==
  /\ r \in arrived /\ r.valid
  /\ arrived' = arrived \ {r}
  /\ IF r.op = "get" THEN readers' = readers \cup {r} /\ writer' = writer
                     ELSE writer' = r /\ readers' = readers
  /\ found' = [found EXCEPT ![r] = simDB[r.imsi]]
  /\ UNCHANGED <<simDB, answers, used, told, restarts>>

(* The lock is taken, for reading by a GET, and the subscriber looked up. *)
Lock(r) ==
  /\ r \in arrived /\ r.valid
  /\ arrived' = arrived \ {r}
  /\ writer = NoRequest
  /\ IF r.op = "get" THEN readers' = readers \cup {r} /\ writer' = writer
                     ELSE readers = {} /\ writer' = r /\ readers' = readers
  /\ found' = [found EXCEPT ![r] = simDB[r.imsi]]
  /\ UNCHANGED <<simDB, answers, used, told, restarts>>

(* Mutant: the map entry is written whether or not there is one.            *)
RegisterAnyway(r) ==
  /\ writer = r /\ r.op = "register"
  /\ Send(r, 201, r.amount) /\ simDB' = [simDB EXCEPT ![r.imsi] = r.amount]
  /\ writer' = NoRequest /\ found' = [found EXCEPT ![r] = Absent]
  /\ UNCHANGED <<arrived, readers, used, told, restarts>>

(* The rest of a handler, up to the deferred unlock; the answer is encoded  *)
(* before that.                                                             *)
Register(r) ==
  /\ writer = r /\ r.op = "register"
  /\ IF found[r] # Absent
       THEN Send(r, 409, Absent) /\ simDB' = simDB
       ELSE Send(r, 201, r.amount) /\ simDB' = [simDB EXCEPT ![r.imsi] = r.amount]
  /\ writer' = NoRequest /\ found' = [found EXCEPT ![r] = Absent]
  /\ UNCHANGED <<arrived, readers, used, told, restarts>>

(* Mutant: the answer is built before the balance is changed.               *)
TopUpAnswersFirst(r) ==
  /\ writer = r /\ r.op = "topup" /\ found[r] # Absent
  /\ Send(r, 200, found[r])
  /\ simDB' = [simDB EXCEPT ![r.imsi] = Wrap(found[r] + r.amount)]
  /\ writer' = NoRequest /\ found' = [found EXCEPT ![r] = Absent]
  /\ UNCHANGED <<arrived, readers, used, told, restarts>>

(* Mutant: the lock is not released on the way out with 404.                *)
TopUpKeepsLock(r) ==
  /\ writer = r /\ r.op = "topup"
  /\ IF found[r] = Absent
       THEN Send(r, 404, Absent) /\ UNCHANGED <<simDB, writer, found>>
       ELSE LET b == Wrap(found[r] + r.amount) IN
            /\ Send(r, 200, b) /\ simDB' = [simDB EXCEPT ![r.imsi] = b]
            /\ writer' = NoRequest /\ found' = [found EXCEPT ![r] = Absent]
  /\ UNCHANGED <<arrived, readers, used, told, restarts>>

(* Mutant: the amount becomes the balance.                                  *)
TopUpReplaces(r) ==
  /\ writer = r /\ r.op = "topup" /\ found[r] # Absent
  /\ Send(r, 200, r.amount) /\ simDB' = [simDB EXCEPT ![r.imsi] = r.amount]
  /\ writer' = NoRequest /\ found' = [found EXCEPT ![r] = Absent]
  /\ UNCHANGED <<arrived, readers, used, told, restarts>>

TopUp(r) ==
  /\ writer = r /\ r.op = "topup"
  /\ IF found[r] = Absent
       THEN Send(r, 404, Absent) /\ simDB' = simDB
       ELSE LET b == Wrap(found[r] + r.amount) IN
            Send(r, 200, b) /\ simDB' = [simDB EXCEPT ![r.imsi] = b]
  /\ writer' = NoRequest /\ found' = [found EXCEPT ![r] = Absent]
  /\ UNCHANGED <<arrived, readers, used, told, restarts>>

GetSubscriber(r) ==
  /\ r \in readers
  /\ Send(r, IF found[r] = Absent THEN 404 ELSE 200, found[r])
  /\ readers' = readers \ {r} /\ found' = [found EXCEPT ![r] = Absent]
  /\ UNCHANGED <<simDB, arrived, writer, used, told, restarts>>

Handler(r) == BadRequest(r) \/ Lock(r) \/ Register(r) \/ TopUp(r) \/ GetSubscriber(r)

ReadAnswer(a) ==
  /\ answers' = answers \ {a}
  /\ told' = told \cup {a}
  /\ UNCHANGED <<simDB, arrived, lockVars, used, restarts>>

(* The client gives up, the connection breaks, or WriteTimeout has passed. *)
LoseAnswer(a) ==
  /\ answers' = answers \ {a}
  /\ UNCHANGED <<simDB, arrived, lockVars, used, told, restarts>>

(* The process ends, after Shutdown waited for its handlers for up to 10 s  *)
(* or in a crash, and starts again with an empty map.                       *)
Restart ==
  /\ restarts < MaxRestarts
  /\ restarts' = restarts + 1
  /\ simDB' = [i \in Imsis |-> Absent]
  /\ arrived' = {} /\ writer' = NoRequest /\ readers' = {}
  /\ found' = [r \in Request |-> Absent]
  /\ UNCHANGED <<answers, used, told>>

BssNext ==
  \/ \E r \in Request : Arrive(r) \/ Handler(r)
  \/ \E a \in answers : ReadAnswer(a) \/ LoseAnswer(a)
  \/ Restart

(* The Go scheduler runs every handler that can go on. *)
BssSpec == BssInit /\ [][BssNext]_bssVars /\ \A r \in Request : WF_bssVars(Handler(r))
-----------------------------------------------------------------------------
Holders == readers \cup ({writer} \ {NoRequest})

Accounts == INSTANCE Accounts WITH
              balance <- simDB, waiting <- arrived \cup Holders

(* The handlers with their lock implement accounts on which each request is *)
(* one atomic step between its arrival and its answer, wrap-around and all; *)
(* no credit is lost and no answer is about another moment                  *)
(* (bss/main.go:135-151, 166-191, 198-208).                                 *)
ImplementsAccounts == Accounts!AccountSpec

(* A sum of positive amounts, counted unit by unit.                         *)
Units(r) == {r} \X (1 .. r.amount)

Amounts(S) == Cardinality(UNION {Units(r) : r \in S})

ToldWith(status, i) == {a.request : a \in {b \in told : b.status = status /\ b.request.imsi = i}}

Credits(i) == {r \in used : r.op = "topup" /\ r.valid /\ r.imsi = i}

(* Whatever registration opens the account and whichever top-ups succeed.   *)
CannotOverflow(i) ==
  \A o \in used : o.op = "register" /\ o.imsi = i => o.amount + Amounts(Credits(i)) < Half

(* What a subscriber's clients know: from the registration on, the balance  *)
(* is at least the opening balance plus the top-ups answered, and at most   *)
(* that plus the top-ups sent, each as often as it was sent again, unless   *)
(* the sum can overflow or the process was restarted                        *)
(* (bss/main.go:143, 166-175).                                              *)
BalanceIsAccountedFor ==
  restarts = 0 =>
    \A i \in Imsis : CannotOverflow(i) =>
      \A o \in ToldWith(201, i) :
        simDB[i] \in o.amount + Amounts(ToldWith(200, i) \cap Credits(i))
                       .. o.amount + Amounts(Credits(i))

(* The balances that clients of one subscriber are shown form a ledger: one *)
(* larger or later than another shown contains that one and the whole of    *)
(* its own top-up. Two top-ups never both miss each other's credit, and no  *)
(* GET sees a part of one (bss/main.go:166-182, 198-208).                   *)
AnswersFormALedger ==
  restarts = 0 =>
    \A i \in Imsis : CannotOverflow(i) =>
      LET shown == {a \in told : a.status = 200 /\ a.request.imsi = i} IN
      \A a \in shown : \A b \in {c \in shown : c.request.op = "topup"} :
        /\ a # b /\ a.balance <= b.balance
        /\ a.request.op = "get" => a.balance # b.balance
        => a.balance + b.request.amount <= b.balance

(* As long as the process lives, one registration of an IMSI succeeds,      *)
(* however many are sent at once (bss/main.go:138-143).                     *)
OneRegistrationWins ==
  restarts = 0 =>
    \A a, b \in {c \in told \cup answers : c.status = 201} :
      a.request.imsi = b.request.imsi => a = b

(* Every request that arrives is answered or dies with the process: no      *)
(* handler returns with the lock (bss/main.go:135-136, 166-167, 198-199).   *)
EveryRequestEnds == (arrived # {}) ~> (arrived = {} /\ Holders = {})
=============================================================================
