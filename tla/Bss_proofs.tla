----------------------------- MODULE Bss_proofs -----------------------------
(***************************************************************************)
(* The BSS, for any requests, subscribers, integer width and number of      *)
(* restarts: its handlers with their lock implement the abstract accounts.  *)
(***************************************************************************)
EXTENDS Bss, FiniteSetTheorems, TLAPS

(* The steps of the BSS and of its clients, named one by one. *)
LEMMA BssSteps ==
  ASSUME [BssNext]_bssVars
  PROVE  \/ \E r \in Request : Arrive(r)
         \/ \E r \in Request : BadRequest(r)
         \/ \E r \in Request : Lock(r)
         \/ \E r \in Request : Register(r)
         \/ \E r \in Request : TopUp(r)
         \/ \E r \in Request : GetSubscriber(r)
         \/ \E a \in answers : ReadAnswer(a)
         \/ \E a \in answers : LoseAnswer(a)
         \/ Restart
         \/ UNCHANGED bssVars
BY DEF BssNext, Handler

(* A machine integer stays one.                                             *)
LEMMA WrapType ==
  ASSUME NEW n \in Int
  PROVE  Wrap(n) \in Int64 /\ Wrap(n) # Absent
<1>1. Half \in Nat /\ Half > 0 /\ Absent \notin Int64
  BY BssAssumption
<1>2. (n + Half) % (2 * Half) \in 0 .. 2 * Half - 1
  BY <1>1
<1>3. Wrap(n) \in Int64
  BY <1>1, <1>2 DEF Wrap, Int64
<1> QED BY <1>1, <1>3

LEMMA RequestType ==
  ASSUME NEW r \in Request
  PROVE  /\ r.op \in {"register", "topup", "get"} /\ r.imsi \in Imsis
         /\ r.amount \in Int64 /\ r.amount \in Int /\ r.amount # Absent
         /\ r.valid \in BOOLEAN /\ r # NoRequest
BY BssAssumption DEF Int64

(* The lock: a handler holds it alone unless all holders read, it is for    *)
(* requests that arrived, and what a holder has found is still there. This  *)
(* is what makes the type inductive and each handler one atomic step.       *)
LockInv ==
  /\ arrived \cup Holders \subseteq used
  /\ arrived \cap Holders = {}
  /\ writer # NoRequest => readers = {} /\ writer.op \in {"register", "topup"}
  /\ \A r \in readers : r.op = "get"
  /\ \A r \in Holders : r.valid /\ found[r] = simDB[r.imsi]

BssInv == BssTypeOK /\ LockInv

LEMMA BssInvInit == BssInit => BssInv
BY BssAssumption DEF BssInit, BssInv, BssTypeOK, LockInv, Holders, MaybeBalance

LEMMA BssInvNext == BssInv /\ [BssNext]_bssVars => BssInv'
<1> SUFFICES ASSUME BssInv, [BssNext]_bssVars PROVE BssInv'
  OBVIOUS
<1> USE DEF BssInv, BssTypeOK, LockInv, Holders, MaybeBalance
<1>1. ASSUME NEW r \in Request, Arrive(r) PROVE BssInv'
  BY <1>1 DEF Arrive, lockVars
<1>2. ASSUME NEW r \in Request, BadRequest(r) PROVE BssInv'
  BY <1>2 DEF BadRequest, Send, Answer, AnswerType, lockVars
<1>3. ASSUME NEW r \in Request, Lock(r) PROVE BssInv'
  <2>1. /\ r \in arrived /\ r.valid /\ arrived' = arrived \ {r} /\ writer = NoRequest
        /\ found' = [found EXCEPT ![r] = simDB[r.imsi]]
        /\ UNCHANGED <<simDB, answers, used, told, restarts>>
        /\ r.imsi \in Imsis /\ r # NoRequest
    BY <1>3, RequestType DEF Lock
  <2>2. CASE r.op = "get" /\ readers' = readers \cup {r} /\ writer' = writer
    BY <2>1, <2>2
  <2>3. CASE r.op # "get" /\ readers = {} /\ writer' = r /\ readers' = readers
    BY <2>1, <2>3, RequestType
  <2> QED BY <1>3, <2>2, <2>3 DEF Lock
<1>4. ASSUME NEW r \in Request, Register(r) PROVE BssInv'
  BY <1>4, RequestType DEF Register, Send, Answer, AnswerType
<1>5. ASSUME NEW r \in Request, TopUp(r) PROVE BssInv'
  <2>1. /\ writer = r /\ r.op = "topup" /\ r.imsi \in Imsis /\ r # NoRequest
        /\ writer' = NoRequest /\ found' = [found EXCEPT ![r] = Absent]
        /\ UNCHANGED <<arrived, readers, used, told, restarts>>
    BY <1>5, RequestType DEF TopUp
  <2>2. CASE Send(r, 404, Absent) /\ simDB' = simDB
    <3>1. Answer(r, 404, Absent) \in AnswerType
      BY DEF Answer, AnswerType
    <3> QED BY <2>1, <2>2, <3>1 DEF Send
  <2>3. CASE \E b \in Int64 : Send(r, 200, b) /\ simDB' = [simDB EXCEPT ![r.imsi] = b]
    <3>1. PICK b \in Int64 : Send(r, 200, b) /\ simDB' = [simDB EXCEPT ![r.imsi] = b]
      BY <2>3
    <3>2. Answer(r, 200, b) \in AnswerType
      BY DEF Answer, AnswerType
    <3> QED BY <2>1, <3>1, <3>2 DEF Send
  <2>4. found[r] # Absent => Wrap(found[r] + r.amount) \in Int64
    <3>1. found[r] # Absent => found[r] + r.amount \in Int
      BY RequestType DEF Int64
    <3> QED BY <3>1, WrapType
  <2> QED BY <1>5, <2>2, <2>3, <2>4 DEF TopUp
<1>6. ASSUME NEW r \in Request, GetSubscriber(r) PROVE BssInv'
  BY <1>6, RequestType DEF GetSubscriber, Send, Answer, AnswerType
<1>7. ASSUME NEW a \in answers, ReadAnswer(a) \/ LoseAnswer(a) PROVE BssInv'
  BY <1>7 DEF ReadAnswer, LoseAnswer, lockVars
<1>8. CASE Restart
  BY <1>8, BssAssumption DEF Restart
<1>9. CASE UNCHANGED bssVars
  BY <1>9 DEF bssVars, lockVars
<1> QED BY <1>1, <1>2, <1>3, <1>4, <1>5, <1>6, <1>7, <1>8, <1>9, BssSteps

LEMMA BssInvHolds == BssSpec => []BssInv
BY BssInvInit, BssInvNext, PTL DEF BssSpec

(* BssTypeOK holds whatever the requests, the width of the integers and the *)
(* bounds: a balance stays a machine integer (bss/main.go:20-42).           *)
THEOREM BssTypeCorrect == BssSpec => []BssTypeOK
BY BssInvHolds, PTL DEF BssInv
-----------------------------------------------------------------------------
(* A handler that has its request is done with it in one abstract step.     *)
LEMMA RequestIsServed ==
  ASSUME BssInv, NEW r \in Request, r \in arrived \cup Holders,
         arrived' \cup Holders' = (arrived \cup Holders) \ {r}, used' = used,
         simDB' = [simDB EXCEPT ![r.imsi] = Accounts!NewBalance(r, @)],
         answers' = answers \cup {Accounts!Outcome(r, simDB[r.imsi])}
  PROVE  Accounts!AccountNext
<1>1. Accounts!CarryOut(r)
  BY DEF Accounts!CarryOut
<1> QED BY <1>1 DEF Accounts!AccountNext

(* What the answers of the handlers are in terms of the abstract accounts.  *)
LEMMA Outcomes ==
  ASSUME NEW r \in Request, NEW b \in MaybeBalance
  PROVE  /\ ~r.valid => /\ Accounts!Outcome(r, b) = Answer(r, 400, Absent)
                        /\ Accounts!NewBalance(r, b) = b
         /\ r.valid /\ r.op = "register" /\ b = Absent =>
              /\ Accounts!Outcome(r, b) = Answer(r, 201, r.amount)
              /\ Accounts!NewBalance(r, b) = r.amount
         /\ r.valid /\ r.op = "register" /\ b # Absent =>
              /\ Accounts!Outcome(r, b) = Answer(r, 409, Absent)
              /\ Accounts!NewBalance(r, b) = b
         /\ r.valid /\ r.op # "register" /\ b = Absent =>
              /\ Accounts!Outcome(r, b) = Answer(r, 404, Absent)
              /\ Accounts!NewBalance(r, b) = b
         /\ r.valid /\ r.op = "topup" /\ b # Absent =>
              /\ Accounts!Outcome(r, b) = Answer(r, 200, Wrap(b + r.amount))
              /\ Accounts!NewBalance(r, b) = Wrap(b + r.amount)
         /\ r.valid /\ r.op = "get" /\ b # Absent =>
              /\ Accounts!Outcome(r, b) = Answer(r, 200, b)
              /\ Accounts!NewBalance(r, b) = b
<1>1. \A q, s, v : Accounts!Answer(q, s, v) = Answer(q, s, v) /\ Answer(q, s, v).balance = v
  BY DEF Accounts!Answer, Answer
<1>2. \A n : Accounts!Wrap(n) = Wrap(n)
  BY DEF Accounts!Wrap, Wrap
<1>3. b # Absent => Wrap(b + r.amount) # Absent
  <2>1. b # Absent => b + r.amount \in Int
    BY RequestType DEF MaybeBalance, Int64
  <2> QED BY <2>1, WrapType
<1> USE RequestType, <1>1, <1>2, <1>3 DEF Accounts!NewBalance
<1>4. CASE ~r.valid
  BY <1>4 DEF Accounts!Outcome
<1>5. CASE r.valid /\ r.op = "register"
  BY <1>5 DEF Accounts!Outcome
<1>6. CASE r.valid /\ r.op = "topup"
  BY <1>6 DEF Accounts!Outcome
<1>7. CASE r.valid /\ r.op = "get"
  BY <1>7 DEF Accounts!Outcome
<1> QED BY <1>4, <1>5, <1>6, <1>7
(* The handlers with their lock implement the accounts, for any requests:   *)
(* the lock and the look-up are stutters, the rest of a handler is the step *)
(* that carries its request out (bss/main.go:118-209).                      *)
THEOREM BssImplementsAccounts == BssSpec => ImplementsAccounts
<1>1. BssInit => Accounts!AccountInit
  BY DEF BssInit, Holders, Accounts!AccountInit
<1>2. BssInv /\ [BssNext]_bssVars => [Accounts!AccountNext]_Accounts!accountVars
  <2> SUFFICES ASSUME BssInv, [BssNext]_bssVars
               PROVE  Accounts!AccountNext \/ UNCHANGED Accounts!accountVars
      BY DEF Accounts!accountVars
  <2> USE DEF BssInv, BssTypeOK, LockInv, Holders
  <2>1. ASSUME NEW r \in Request, Arrive(r) PROVE Accounts!AccountNext
    <3>1. Accounts!Submit(r)
      BY <2>1 DEF Arrive, lockVars, Accounts!Submit
    <3> QED BY <3>1 DEF Accounts!AccountNext
  <2>2. ASSUME NEW r \in Request, BadRequest(r) PROVE Accounts!AccountNext
    <3>1. simDB[r.imsi] \in MaybeBalance /\ r.imsi \in Imsis
      BY RequestType
    <3>2. simDB' = [simDB EXCEPT ![r.imsi] = Accounts!NewBalance(r, @)]
      BY <2>2, <3>1, Outcomes DEF BadRequest
    <3>3. answers' = answers \cup {Accounts!Outcome(r, simDB[r.imsi])}
      BY <2>2, <3>1, Outcomes DEF BadRequest, Send
    <3>4. /\ r \in arrived /\ used' = used
          /\ arrived' \cup Holders' = (arrived \cup Holders) \ {r}
      BY <2>2 DEF BadRequest, lockVars
    <3> QED BY <3>2, <3>3, <3>4, RequestIsServed
  <2>3. ASSUME NEW r \in Request, Lock(r) PROVE UNCHANGED Accounts!accountVars
    BY <2>3, RequestType DEF Lock, Accounts!accountVars
  <2>4. ASSUME NEW r \in Request, Register(r) PROVE Accounts!AccountNext
    <3>1. /\ simDB[r.imsi] \in MaybeBalance /\ r.imsi \in Imsis /\ r.valid
          /\ found[r] = simDB[r.imsi] /\ r.op = "register" /\ r \in Holders
      BY <2>4, RequestType DEF Register
    <3>2. simDB' = [simDB EXCEPT ![r.imsi] = Accounts!NewBalance(r, @)]
      BY <2>4, <3>1, Outcomes DEF Register
    <3>3. answers' = answers \cup {Accounts!Outcome(r, simDB[r.imsi])}
      BY <2>4, <3>1, Outcomes DEF Register, Send
    <3>4. used' = used /\ arrived' \cup Holders' = (arrived \cup Holders) \ {r}
      BY <2>4, <3>1, RequestType DEF Register
    <3> QED BY <3>1, <3>2, <3>3, <3>4, RequestIsServed
  <2>5. ASSUME NEW r \in Request, TopUp(r) PROVE Accounts!AccountNext
    <3>1. /\ simDB[r.imsi] \in MaybeBalance /\ r.imsi \in Imsis /\ r.valid
          /\ found[r] = simDB[r.imsi] /\ r.op = "topup" /\ r \in Holders
      BY <2>5, RequestType DEF TopUp
    <3>2. simDB' = [simDB EXCEPT ![r.imsi] = Accounts!NewBalance(r, @)]
      BY <2>5, <3>1, Outcomes DEF TopUp
    <3>3. answers' = answers \cup {Accounts!Outcome(r, simDB[r.imsi])}
      BY <2>5, <3>1, Outcomes DEF TopUp, Send
    <3>4. used' = used /\ arrived' \cup Holders' = (arrived \cup Holders) \ {r}
      BY <2>5, <3>1, RequestType DEF TopUp
    <3> QED BY <3>1, <3>2, <3>3, <3>4, RequestIsServed
  <2>6. ASSUME NEW r \in Request, GetSubscriber(r) PROVE Accounts!AccountNext
    <3>1. /\ simDB[r.imsi] \in MaybeBalance /\ r.imsi \in Imsis /\ r.valid
          /\ found[r] = simDB[r.imsi] /\ r.op = "get" /\ r \in Holders
      BY <2>6, RequestType DEF GetSubscriber
    <3>2. simDB' = [simDB EXCEPT ![r.imsi] = Accounts!NewBalance(r, @)]
      BY <2>6, <3>1, Outcomes DEF GetSubscriber
    <3>3. answers' = answers \cup {Accounts!Outcome(r, simDB[r.imsi])}
      BY <2>6, <3>1, Outcomes DEF GetSubscriber, Send
    <3>4. used' = used /\ arrived' \cup Holders' = (arrived \cup Holders) \ {r}
      BY <2>6, <3>1 DEF GetSubscriber
    <3> QED BY <3>1, <3>2, <3>3, <3>4, RequestIsServed
  <2>7. ASSUME NEW a \in answers, ReadAnswer(a) \/ LoseAnswer(a) PROVE Accounts!AccountNext
    <3>1. Accounts!Settle(a)
      BY <2>7 DEF ReadAnswer, LoseAnswer, lockVars, Accounts!Settle
    <3> QED BY <3>1 DEF Accounts!AccountNext
  <2>8. ASSUME Restart PROVE Accounts!AccountNext
    <3>1. Accounts!Reset
      BY <2>8 DEF Restart, Accounts!Reset
    <3> QED BY <3>1 DEF Accounts!AccountNext
  <2>9. ASSUME UNCHANGED bssVars PROVE UNCHANGED Accounts!accountVars
    BY <2>9 DEF bssVars, lockVars, Accounts!accountVars
  <2> QED BY BssSteps, <2>1, <2>2, <2>3, <2>4, <2>5, <2>6, <2>7, <2>8, <2>9
<1> QED
  BY <1>1, <1>2, BssInvHolds, PTL DEF BssSpec, ImplementsAccounts, Accounts!AccountSpec
-----------------------------------------------------------------------------
(* Once a 201 was sent for an IMSI it has a balance: nothing takes it away  *)
(* while the process lives, and with it no second 201 is sent.              *)
RegisteredStays ==
  restarts = 0 =>
    \A a \in told \cup answers : a.status = 201 => simDB[a.request.imsi] # Absent

(* However many registrations of an IMSI race, and whatever else is going   *)
(* on, at most one is answered 201 (bss/main.go:135-151).                   *)
THEOREM RegistrationIsUnique == BssSpec => []OneRegistrationWins
<1> DEFINE Inv == RegisteredStays /\ OneRegistrationWins
<1>1. BssInit => Inv
  BY DEF BssInit, RegisteredStays, OneRegistrationWins
<1>2. BssInv /\ Inv /\ [BssNext]_bssVars => Inv'
  <2> SUFFICES ASSUME BssInv, Inv, [BssNext]_bssVars PROVE Inv'
    OBVIOUS
  <2> USE DEF RegisteredStays, OneRegistrationWins
  <2>1. ASSUME \E a : /\ answers' = answers \cup {a} /\ a.status # 201,
               UNCHANGED <<told, restarts>>,
               \A i \in Imsis : simDB[i] # Absent => simDB'[i] # Absent
        PROVE  Inv'
    BY <2>1, RequestType DEF BssInv, BssTypeOK, AnswerType
  <2>2. ASSUME NEW r \in Request, BadRequest(r) PROVE Inv'
    <3>1. Answer(r, 400, Absent).status # 201
      BY DEF Answer
    <3> QED BY <2>1, <2>2, <3>1 DEF BadRequest, Send
  <2>3. ASSUME NEW r \in Request, Register(r) PROVE Inv'
    <3>1. /\ r.imsi \in Imsis /\ found[r] = simDB[r.imsi] /\ simDB \in [Imsis -> MaybeBalance]
          /\ r.amount # Absent
      BY <2>3, RequestType DEF BssInv, BssTypeOK, LockInv, Holders, Register
    <3>2. CASE found[r] # Absent
      <4>1. Answer(r, 409, Absent).status # 201
        BY DEF Answer
      <4> QED BY <2>1, <2>3, <3>2, <4>1 DEF Register, Send
    <3>3. CASE found[r] = Absent
      <4> DEFINE a == Answer(r, 201, r.amount)
      <4>1. a.request = r /\ a.status = 201
        BY DEF Answer
      <4>2. /\ answers' = answers \cup {a} /\ UNCHANGED <<told, restarts>>
            /\ simDB' = [simDB EXCEPT ![r.imsi] = r.amount]
        BY <2>3, <3>3 DEF Register, Send
      <4>3. restarts = 0 => \A b \in told \cup answers : b.status = 201 => b.request.imsi # r.imsi
        <5>1. simDB[r.imsi] = Absent
          BY <3>1, <3>3
        <5>2. restarts = 0 =>
                \A b \in told \cup answers : b.status = 201 => simDB[b.request.imsi] # Absent
          OBVIOUS
        <5> QED BY <5>1, <5>2
      <4>4. RegisteredStays'
        <5>1. \A i \in Imsis : simDB[i] # Absent => simDB'[i] # Absent
          BY <3>1, <4>2
        <5>2. simDB'[r.imsi] # Absent
          BY <3>1, <4>2
        <5>3. \A b \in told \cup answers : b.request.imsi \in Imsis
          BY RequestType DEF BssInv, BssTypeOK, AnswerType
        <5> HIDE DEF a
        <5> QED BY <4>1, <4>2, <5>1, <5>2, <5>3
      <4>5. OneRegistrationWins'
        <5> SUFFICES ASSUME restarts = 0, NEW b \in told \cup answers', NEW c \in told \cup answers',
                            b.status = 201, c.status = 201, b.request.imsi = c.request.imsi
                     PROVE  b = c
          BY <4>2
        <5>1. CASE b = a
          BY <4>1, <4>2, <4>3, <5>1
        <5>2. CASE c = a
          BY <4>1, <4>2, <4>3, <5>2
        <5>3. CASE b # a /\ c # a
          BY <4>2, <5>3
        <5> QED BY <5>1, <5>2, <5>3
      <4> QED BY <4>4, <4>5
    <3> QED BY <3>2, <3>3
  <2>4. ASSUME NEW r \in Request, TopUp(r) PROVE Inv'
    <3>1. r.imsi \in Imsis /\ simDB \in [Imsis -> MaybeBalance]
      BY RequestType DEF BssInv, BssTypeOK
    <3>2. CASE found[r] = Absent
      <4>1. Answer(r, 404, Absent).status # 201
        BY DEF Answer
      <4> QED BY <2>1, <2>4, <3>2, <4>1 DEF TopUp, Send
    <3>3. CASE found[r] # Absent
      <4> DEFINE b == Wrap(found[r] + r.amount)
      <4>1. b # Absent
        <5>1. found[r] + r.amount \in Int
          BY <3>3, RequestType DEF BssInv, BssTypeOK, MaybeBalance, Int64
        <5> QED BY <5>1, WrapType
      <4>2. Answer(r, 200, b).status # 201
        BY DEF Answer
      <4>3. /\ answers' = answers \cup {Answer(r, 200, b)}
            /\ simDB' = [simDB EXCEPT ![r.imsi] = b] /\ UNCHANGED <<told, restarts>>
        BY <2>4, <3>3 DEF TopUp, Send
      <4> HIDE DEF b
      <4>4. \A i \in Imsis : simDB[i] # Absent => simDB'[i] # Absent
        BY <3>1, <4>1, <4>3
      <4> QED BY <2>1, <4>2, <4>3, <4>4
    <3> QED BY <3>2, <3>3
  <2>5. ASSUME NEW r \in Request, GetSubscriber(r) PROVE Inv'
    <3>1. \A s \in {200, 404} : Answer(r, s, found[r]).status # 201
      BY DEF Answer
    <3> QED BY <2>1, <2>5, <3>1 DEF GetSubscriber, Send
  <2>6. ASSUME NEW a \in answers, ReadAnswer(a) \/ LoseAnswer(a) PROVE Inv'
    BY <2>6 DEF ReadAnswer, LoseAnswer
  <2>7. ASSUME Restart PROVE Inv'
    BY <2>7 DEF Restart, BssInv, BssTypeOK
  <2>8. ASSUME UNCHANGED <<simDB, answers, told, restarts>> PROVE Inv'
    BY <2>8
  <2> QED
    BY BssSteps, <2>2, <2>3, <2>4, <2>5, <2>6, <2>7, <2>8 DEF Arrive, Lock, bssVars
<1> QED
  BY <1>1, <1>2, BssInvHolds, PTL DEF BssSpec
-----------------------------------------------------------------------------
(* Sums of amounts, as Amounts counts them.                                 *)
LEMMA UnitsOfOne ==
  ASSUME NEW r, r.amount \in Nat
  PROVE  IsFiniteSet(Units(r)) /\ Cardinality(Units(r)) = r.amount
<1>1. IsFiniteSet(1 .. r.amount) /\ Cardinality(1 .. r.amount) = r.amount
  BY FS_Interval
<1>2. IsFiniteSet({r}) /\ Cardinality({r}) = 1
  BY FS_Singleton
<1>3. /\ IsFiniteSet({r} \X (1 .. r.amount))
      /\ Cardinality({r} \X (1 .. r.amount)) = Cardinality({r}) * Cardinality(1 .. r.amount)
  BY <1>1, <1>2, FS_Product
<1> QED BY <1>1, <1>2, <1>3 DEF Units

LEMMA AmountsType ==
  ASSUME NEW S, IsFiniteSet(S), \A r \in S : r.amount \in 0 .. Half - 1
  PROVE  IsFiniteSet(UNION {Units(r) : r \in S}) /\ Amounts(S) \in Nat
<1>1. IsFiniteSet(1 .. Half) /\ Half \in Nat
  BY BssAssumption, FS_Interval
<1>2. IsFiniteSet(S \X (1 .. Half))
  BY <1>1, FS_Product
<1>3. (UNION {Units(r) : r \in S}) \subseteq S \X (1 .. Half)
  BY <1>1 DEF Units
<1>4. IsFiniteSet(UNION {Units(r) : r \in S})
  BY <1>2, <1>3, FS_Subset
<1> QED BY <1>4, FS_CardinalityType DEF Amounts

LEMMA AmountsOfNone == Amounts({}) = 0
<1>1. (UNION {Units(r) : r \in {}}) = {}
  OBVIOUS
<1> QED BY <1>1, FS_EmptySet DEF Amounts

(* One more request adds its amount.                                        *)
LEMMA AmountsAdd ==
  ASSUME NEW S, IsFiniteSet(S), \A r \in S : r.amount \in 0 .. Half - 1,
         NEW q, q \notin S, q.amount \in Nat
  PROVE  Amounts(S \cup {q}) = Amounts(S) + q.amount
<1> DEFINE U == UNION {Units(r) : r \in S}
<1>1. (UNION {Units(r) : r \in S \cup {q}}) = U \cup Units(q)
  OBVIOUS
<1>2. U \cap Units(q) = {}
  BY DEF Units
<1>3. IsFiniteSet(U) /\ Cardinality(U) \in Nat
  BY AmountsType, FS_CardinalityType
<1>4. IsFiniteSet(Units(q)) /\ Cardinality(Units(q)) = q.amount
  BY UnitsOfOne
<1>5. Cardinality(U \cup Units(q)) =
        Cardinality(U) + Cardinality(Units(q)) - Cardinality(U \cap Units(q))
  BY <1>3, <1>4, FS_Union
<1>6. Cardinality(U \cap Units(q)) = 0
  BY <1>2, FS_EmptySet
<1> HIDE DEF U
<1>7. Cardinality(U \cup Units(q)) = Cardinality(U) + q.amount
  BY <1>3, <1>4, <1>5, <1>6
<1> USE DEF U
<1> QED BY <1>1, <1>7 DEF Amounts

(* More requests have no smaller sum.                                       *)
LEMMA AmountsMonotone ==
  ASSUME NEW T, IsFiniteSet(T), \A r \in T : r.amount \in 0 .. Half - 1,
         NEW S, S \subseteq T
  PROVE  Amounts(S) <= Amounts(T) /\ Amounts(S) \in Nat /\ Amounts(T) \in Nat
<1>1. IsFiniteSet(UNION {Units(r) : r \in T}) /\ Amounts(T) \in Nat
  BY AmountsType
<1>2. (UNION {Units(r) : r \in S}) \subseteq (UNION {Units(r) : r \in T})
  OBVIOUS
<1>3. /\ IsFiniteSet(UNION {Units(r) : r \in S})
      /\ Cardinality(UNION {Units(r) : r \in S}) <= Cardinality(UNION {Units(r) : r \in T})
  BY <1>1, <1>2, FS_Subset
<1> QED BY <1>1, <1>3, FS_CardinalityType DEF Amounts

(* What is in range does not wrap around.                                   *)
LEMMA WrapInRange ==
  ASSUME NEW n \in Int64
  PROVE  Wrap(n) = n
<1>1. Half \in Nat /\ Half > 0 /\ n + Half \in 0 .. 2 * Half - 1
  BY BssAssumption DEF Int64
<1>2. \A m \in Nat \ {0} : \A k \in 0 .. m - 1 : k % m = k
  OBVIOUS
<1>3. (n + Half) % (2 * Half) = n + Half
  <2>1. 2 * Half \in Nat \ {0}
    BY <1>1
  <2> QED BY <1>1, <1>2, <2>1
<1> QED BY <1>1, <1>3 DEF Wrap, Int64
-----------------------------------------------------------------------------
(* The answers that say that the account of i was opened, or its balance.   *)
Entries(i) == {a \in told \cup answers : a.request.imsi = i /\ a.status \in {200, 201}}

(* Registration o opened the account of i and the top-ups in A, all of      *)
(* them over, credited it: that is the balance, and nothing else was told.  *)
Books(i, o, A) ==
  /\ o \in used /\ o.op = "register" /\ o.imsi = i
  /\ A \subseteq Credits(i) \ (arrived \cup Holders)
  /\ simDB[i] = o.amount + Amounts(A)
  /\ \A a \in Entries(i) : a.status = 201 => a.request = o
  /\ \A a \in Entries(i) : a.status = 200 => a.balance \in Int /\ a.balance <= simDB[i]
  /\ \A a \in Entries(i) : a.status = 200 /\ a.request.op = "topup" => a.request \in A

(* A balance that a top-up leads to is ahead of all smaller ones by the     *)
(* whole amount.                                                            *)
Ledger(i) ==
  \A a, b \in Entries(i) :
    /\ a.status = 200 /\ b.status = 200 /\ b.request.op = "topup"
    /\ a # b /\ a.balance <= b.balance
    /\ a.request.op = "get" => a.balance # b.balance
    => a.balance + b.request.amount <= b.balance

BooksOf(i) ==
  /\ simDB[i] = Absent => Entries(i) = {}
  /\ simDB[i] # Absent => \E o, A : Books(i, o, A)
  /\ Ledger(i)

(* As long as an account cannot overflow it has books. CannotOverflow looks *)
(* at the requests so far, and only gets harder as there are more.          *)
BooksInv == restarts = 0 => \A i \in Imsis : CannotOverflow(i) => BooksOf(i)

(* Only so many requests have arrived.                                     *)
LEMMA UsedIsFinite == BssSpec => []IsFiniteSet(used)
<1>1. BssInit => IsFiniteSet(used)
  BY FS_EmptySet DEF BssInit
<1>2. IsFiniteSet(used) /\ [BssNext]_bssVars => IsFiniteSet(used)'
  <2> SUFFICES ASSUME IsFiniteSet(used), [BssNext]_bssVars PROVE IsFiniteSet(used')
    OBVIOUS
  <2>1. ASSUME NEW r \in Request, Arrive(r) PROVE IsFiniteSet(used')
    BY <2>1, FS_AddElement DEF Arrive
  <2>2. CASE UNCHANGED used
    BY <2>2
  <2> QED
    BY <2>1, <2>2, BssSteps DEF BadRequest, Lock, Register, TopUp, GetSubscriber, ReadAnswer,
       LoseAnswer, Restart, bssVars
<1> QED BY <1>1, <1>2, PTL DEF BssSpec

(* Valid top-ups have positive amounts.                                      *)
LEMMA CreditsAmounts ==
  ASSUME NEW C \in SUBSET Request, \A r \in C : r.op = "topup" /\ r.valid
  PROVE  \A r \in C : r.amount \in 0 .. Half - 1 /\ r.amount > 0
<1>1. \A r \in C : r.amount \in Int64 /\ r.amount > 0
  BY BssAssumption
<1> QED BY <1>1, BssAssumption DEF Int64

(* What cannot overflow with all requests cannot with some of them.         *)
LEMMA OverflowIsStable ==
  ASSUME BssTypeOK, BssTypeOK', IsFiniteSet(used), IsFiniteSet(used'), used \subseteq used',
         NEW i \in Imsis, CannotOverflow(i)'
  PROVE  CannotOverflow(i)
<1>1. PICK U : U = used'
  OBVIOUS
<1> DEFINE C == {r \in used : r.op = "topup" /\ r.valid /\ r.imsi = i}
           D == {r \in U : r.op = "topup" /\ r.valid /\ r.imsi = i}
<1>2. /\ used \subseteq Request /\ U \subseteq Request /\ used \subseteq U
      /\ IsFiniteSet(used) /\ IsFiniteSet(U)
  BY <1>1 DEF BssTypeOK
<1>3. Credits(i) = C /\ Credits(i)' = D
  BY <1>1 DEF Credits
<1>4. Amounts(C) <= Amounts(D) /\ Amounts(C) \in Nat /\ Amounts(D) \in Nat
  <2>1. D \in SUBSET Request /\ IsFiniteSet(D)
    BY <1>2, FS_Subset
  <2>3. \A r \in D : r.amount \in 0 .. Half - 1
    BY <2>1, CreditsAmounts
  <2>2. C \subseteq D
    BY <1>2
  <2> QED BY <2>1, <2>2, <2>3, AmountsMonotone
<1>5. \A o \in U : o.op = "register" /\ o.imsi = i => o.amount + Amounts(D) < Half
  BY <1>1, <1>3 DEF CannotOverflow
<1>6. ASSUME NEW o \in used, o.op = "register" /\ o.imsi = i
      PROVE  o.amount + Amounts(C) < Half
  <2>1. o.amount \in Int /\ Half \in Int /\ o \in U
    BY <1>2, RequestType, BssAssumption
  <2>2. o.amount + Amounts(D) < Half
    BY <1>5, <1>6, <2>1
  <2> HIDE DEF C, D
  <2> QED BY <1>4, <2>1, <2>2
<1> QED BY <1>3, <1>6 DEF CannotOverflow

(* Books stay right when nothing is added to what they record.              *)
LEMMA BooksFrame ==
  ASSUME NEW i, BooksOf(i), used \subseteq used', simDB'[i] = simDB[i],
         Entries(i)' \subseteq Entries(i),
         (arrived' \cup Holders') \cap used \subseteq arrived \cup Holders
  PROVE  BooksOf(i)'
<1>1. Credits(i) \subseteq used /\ Credits(i) \subseteq Credits(i)'
  BY DEF Credits
<1>2. ASSUME NEW o, NEW A, Books(i, o, A) PROVE Books(i, o, A)'
  BY <1>1, <1>2 DEF Books
<1>3. Ledger(i)'
  BY DEF BooksOf, Ledger
<1> QED BY <1>2, <1>3 DEF BooksOf

(* A step that adds no account to the books and no entry keeps BooksInv.    *)
LEMMA BooksInvFrame ==
  ASSUME BssTypeOK, BssTypeOK', IsFiniteSet(used), IsFiniteSet(used'), BooksInv,
         restarts' = restarts, used \subseteq used',
         \A i \in Imsis : BooksOf(i) => BooksOf(i)'
  PROVE  BooksInv'
BY OverflowIsStable DEF BooksInv

(* An answer that says nothing about the account of i.                      *)
LEMMA OtherAnswer ==
  ASSUME NEW i, NEW r, NEW status, NEW b, Send(r, status, b), told' = told,
         r.imsi # i \/ status \notin {200, 201}
  PROVE  Entries(i)' = Entries(i)
<1>1. PICK a : a = Answer(r, status, b)
  OBVIOUS
<1>2. a.request = r /\ a.status = status
  BY <1>1 DEF Answer
<1> QED BY <1>1, <1>2 DEF Entries, Send

(* A registration opens the account with the amount it asks for, or finds   *)
(* an account and changes nothing.                                          *)
LEMMA BooksRegister ==
  ASSUME BssInv, NEW r \in Request, Register(r), NEW i \in Imsis, BooksOf(i)
  PROVE  BooksOf(i)'
<1>1. /\ r \in Holders /\ r \in used /\ r # NoRequest /\ r.op = "register"
      /\ found[r] = simDB[r.imsi]
      /\ r.imsi \in Imsis /\ simDB \in [Imsis -> MaybeBalance]
      /\ r.amount \in Int /\ r.amount # Absent
  BY RequestType DEF BssInv, BssTypeOK, LockInv, Holders, Register
<1>2. /\ arrived' \cup Holders' \subseteq arrived \cup Holders
      /\ used' = used /\ told' = told
  BY <1>1 DEF Register, Holders
<1>3. CASE found[r] # Absent
  <2>1. Send(r, 409, Absent) /\ simDB' = simDB
    BY <1>3 DEF Register
  <2>2. Entries(i)' = Entries(i)
    BY <1>2, <2>1, OtherAnswer
  <2> QED BY <1>2, <2>1, <2>2, BooksFrame
<1>4. CASE found[r] = Absent
  <2>1. Send(r, 201, r.amount) /\ simDB' = [simDB EXCEPT ![r.imsi] = r.amount]
    BY <1>4 DEF Register
  <2>2. CASE r.imsi # i
    <3>1. Entries(i)' = Entries(i) /\ simDB'[i] = simDB[i]
      BY <1>1, <1>2, <2>1, <2>2, OtherAnswer
    <3> QED BY <1>2, <3>1, BooksFrame
  <2>3. CASE r.imsi = i
    <3>1. PICK a : a = Answer(r, 201, r.amount)
      OBVIOUS
    <3>2. a.request = r /\ a.status = 201
      BY <3>1 DEF Answer
    <3>3. Entries(i) = {}
      BY <1>1, <1>4, <2>3 DEF BooksOf
    <3>4. Entries(i)' \subseteq {a}
      BY <1>2, <2>1, <3>1, <3>3 DEF Entries, Send
    <3>5. simDB'[i] = r.amount + Amounts({}) /\ simDB'[i] # Absent
      BY <1>1, <2>1, <2>3, AmountsOfNone
    <3>6. Books(i, r, {})'
      BY <1>1, <1>2, <2>3, <3>2, <3>4, <3>5 DEF Books
    <3>7. Ledger(i)'
      BY <3>2, <3>4 DEF Ledger
    <3> QED BY <3>5, <3>6, <3>7 DEF BooksOf
  <2> QED BY <2>2, <2>3
<1> QED BY <1>3, <1>4

(* A top-up adds its amount to the balance, once, without wrapping around,  *)
(* and its answer is ahead of all earlier ones.                             *)
LEMMA BooksTopUp ==
  ASSUME BssInv, IsFiniteSet(used), NEW r \in Request, TopUp(r), NEW i \in Imsis,
         CannotOverflow(i), BooksOf(i)
  PROVE  BooksOf(i)'
<1>1. /\ r \in Holders /\ r \in used /\ r # NoRequest /\ r.op = "topup" /\ r.valid
      /\ found[r] = simDB[r.imsi]
      /\ r.imsi \in Imsis /\ simDB \in [Imsis -> MaybeBalance]
      /\ r.amount \in Int /\ r.amount > 0
  BY RequestType, BssAssumption DEF BssInv, BssTypeOK, LockInv, Holders, TopUp
<1>2. /\ arrived' \cup Holders' \subseteq (arrived \cup Holders) \ {r}
      /\ used' = used /\ told' = told
  BY <1>1 DEF BssInv, LockInv, TopUp, Holders
<1>3. CASE found[r] = Absent
  <2>1. Send(r, 404, Absent) /\ simDB' = simDB
    BY <1>3 DEF TopUp
  <2>2. Entries(i)' = Entries(i)
    BY <1>2, <2>1, OtherAnswer
  <2> QED BY <1>2, <2>1, <2>2, BooksFrame
<1>4. CASE found[r] # Absent
  <2>1. PICK b : b = Wrap(found[r] + r.amount)
    OBVIOUS
  <2>2. Send(r, 200, b) /\ simDB' = [simDB EXCEPT ![r.imsi] = b]
    BY <1>4, <2>1 DEF TopUp
  <2>3. CASE r.imsi # i
    <3>1. Entries(i)' = Entries(i) /\ simDB'[i] = simDB[i]
      BY <1>1, <1>2, <2>2, <2>3, OtherAnswer
    <3> QED BY <1>2, <3>1, BooksFrame
  <2>4. CASE r.imsi = i
    <3>1. PICK o, A : Books(i, o, A)
      BY <1>1, <1>4, <2>4 DEF BooksOf
    <3>2. /\ o \in used /\ o \in Request /\ o.op = "register" /\ o.imsi = i
          /\ o.amount \in Int64 /\ o.amount \in Int
          /\ A \subseteq Credits(i) /\ r \notin A /\ simDB[i] = o.amount + Amounts(A)
      BY <1>1, <3>1, RequestType DEF Books, BssInv, BssTypeOK
    <3>3. /\ Credits(i) \in SUBSET Request /\ IsFiniteSet(Credits(i))
          /\ \A c \in Credits(i) : c.amount \in 0 .. Half - 1
          /\ r \in Credits(i)
      <4>1. Credits(i) \subseteq used /\ used \subseteq Request /\ r \in Credits(i)
        BY <1>1, <2>4 DEF Credits, BssInv, BssTypeOK
      <4>2. \A c \in Credits(i) : c.op = "topup" /\ c.valid
        BY DEF Credits
      <4> QED BY <4>1, <4>2, CreditsAmounts, FS_Subset
    <3>4. IsFiniteSet(A) /\ \A c \in A : c.amount \in 0 .. Half - 1
      BY <3>2, <3>3, FS_Subset
    <3>5. Amounts(A \cup {r}) = Amounts(A) + r.amount
      BY <1>1, <3>2, <3>4, AmountsAdd
    <3>6. /\ Amounts(A \cup {r}) <= Amounts(Credits(i)) /\ Amounts(Credits(i)) \in Nat
          /\ Amounts(A \cup {r}) \in Nat /\ Amounts(A) \in Nat
      BY <3>2, <3>3, <3>4, AmountsMonotone, AmountsType
    <3>7. o.amount + Amounts(Credits(i)) < Half
      BY <3>2 DEF CannotOverflow
    <3>8. o.amount + Amounts(A \cup {r}) \in Int64
      BY <3>2, <3>6, <3>7, BssAssumption DEF Int64
    <3>9. b = o.amount + Amounts(A \cup {r}) /\ b = simDB[i] + r.amount
      <4>1. found[r] + r.amount = o.amount + Amounts(A \cup {r})
        BY <1>1, <2>4, <3>2, <3>5, <3>6
      <4> QED BY <1>1, <2>1, <2>4, <3>8, <4>1, WrapInRange
    <3>10. b \in Int64 /\ b \in Int /\ b # Absent /\ simDB[i] \in Int /\ simDB[i] < b
      BY <1>1, <3>2, <3>6, <3>8, <3>9, BssAssumption DEF Int64
    <3>11. simDB'[i] = b
      BY <1>1, <2>2, <2>4
    <3>12. PICK x : x = Answer(r, 200, b)
      OBVIOUS
    <3>13. x.request = r /\ x.status = 200 /\ x.balance = b
      BY <3>12 DEF Answer
    <3>14. Entries(i)' \subseteq Entries(i) \cup {x}
      BY <1>2, <2>2, <3>12 DEF Entries, Send
    <3>15. /\ \A a \in Entries(i) : a.status = 201 => a.request = o
           /\ \A a \in Entries(i) : a.status = 200 => a.balance \in Int /\ a.balance <= simDB[i]
           /\ \A a \in Entries(i) : a.status = 200 /\ a.request.op = "topup" => a.request \in A
      BY <3>1 DEF Books
    <3>16. Books(i, o, A \cup {r})'
      <4>1. A \cup {r} \subseteq Credits(i)' \ (arrived' \cup Holders')
        BY <1>2, <3>1, <3>3 DEF Books, Credits
      <4>2. \A a \in Entries(i)' : a.status = 201 => a.request = o
        BY <3>13, <3>14, <3>15
      <4>3. /\ \A a \in Entries(i)' : a.status = 200 =>
                 a.balance \in Int /\ a.balance <= simDB'[i]
            /\ \A a \in Entries(i)' : a.status = 200 /\ a.request.op = "topup" =>
                 a.request \in A \cup {r}
        BY <3>10, <3>11, <3>13, <3>14, <3>15
      <4> QED BY <1>2, <3>2, <3>9, <3>11, <4>1, <4>2, <4>3 DEF Books
    <3>17. Ledger(i)'
      <4>1. Ledger(i)
        BY DEF BooksOf
      <4> SUFFICES ASSUME NEW c \in Entries(i)', NEW d \in Entries(i)',
                          c.status = 200, d.status = 200, d.request.op = "topup",
                          c # d, c.balance <= d.balance,
                          c.request.op = "get" => c.balance # d.balance
                   PROVE  c.balance + d.request.amount <= d.balance
        BY DEF Ledger
      <4>2. CASE c \in Entries(i) /\ d \in Entries(i)
        BY <4>1, <4>2 DEF Ledger
      <4>3. CASE c \in Entries(i) /\ d = x
        BY <1>1, <3>9, <3>10, <3>13, <3>15, <4>3
      <4>4. CASE c = x /\ d \in Entries(i)
        BY <3>10, <3>13, <3>15, <4>4
      <4> QED BY <3>14, <4>2, <4>3, <4>4
    <3> QED BY <3>10, <3>11, <3>16, <3>17 DEF BooksOf
  <2> QED BY <2>3, <2>4
<1> QED BY <1>3, <1>4

(* A GET shows the balance of that moment, and nothing when there is none.  *)
LEMMA BooksGet ==
  ASSUME BssInv, NEW r \in Request, GetSubscriber(r), NEW i \in Imsis, BooksOf(i)
  PROVE  BooksOf(i)'
<1>1. /\ r \in Holders /\ r.op = "get" /\ found[r] = simDB[r.imsi] /\ r.imsi \in Imsis
      /\ simDB \in [Imsis -> MaybeBalance]
  BY RequestType DEF BssInv, BssTypeOK, LockInv, Holders, GetSubscriber
<1>2. /\ arrived' \cup Holders' \subseteq arrived \cup Holders
      /\ UNCHANGED <<simDB, used, told>>
  BY DEF GetSubscriber, Holders
<1>3. CASE r.imsi # i \/ found[r] = Absent
  <2>1. PICK status \in {200, 404} : Send(r, status, found[r]) /\ (r.imsi # i \/ status = 404)
    BY <1>3 DEF GetSubscriber
  <2>2. Entries(i)' = Entries(i)
    BY <1>2, <2>1, OtherAnswer
  <2> QED BY <1>2, <2>2, BooksFrame
<1>4. CASE r.imsi = i /\ found[r] # Absent
  <2>1. PICK x : x = Answer(r, 200, simDB[i])
    OBVIOUS
  <2>2. x.request = r /\ x.status = 200 /\ x.balance = simDB[i]
    BY <2>1 DEF Answer
  <2>3. Entries(i)' \subseteq Entries(i) \cup {x}
    BY <1>1, <1>2, <1>4, <2>1 DEF Entries, GetSubscriber, Send
  <2>4. simDB[i] \in Int /\ simDB[i] # Absent
    BY <1>1, <1>4 DEF MaybeBalance, Int64
  <2>5. PICK o, A : Books(i, o, A)
    BY <2>4 DEF BooksOf
  <2>6. Books(i, o, A)'
    BY <1>1, <1>2, <2>2, <2>3, <2>4, <2>5 DEF Books, Credits
  <2>7. Ledger(i)'
    <3>1. Ledger(i)
      BY DEF BooksOf
    <3>2. \A a \in Entries(i) : a.status = 200 => a.balance \in Int /\ a.balance <= simDB[i]
      BY <2>5 DEF Books
    <3> SUFFICES ASSUME NEW c \in Entries(i)', NEW d \in Entries(i)',
                        c.status = 200, d.status = 200, d.request.op = "topup",
                        c # d, c.balance <= d.balance,
                        c.request.op = "get" => c.balance # d.balance
                 PROVE  c.balance + d.request.amount <= d.balance
      BY DEF Ledger
    <3>3. d \in Entries(i)
      BY <1>1, <2>2, <2>3
    <3>4. CASE c \in Entries(i)
      BY <3>1, <3>3, <3>4 DEF Ledger
    <3>5. CASE c = x
      BY <1>1, <2>2, <2>4, <3>2, <3>3, <3>5
    <3> QED BY <2>3, <3>4, <3>5
  <2> QED BY <1>2, <2>4, <2>6, <2>7 DEF BooksOf
<1> QED BY <1>3, <1>4

(* All other steps leave the books alone.                                   *)
LEMMA BooksInvNext ==
  BssInv /\ BssInv' /\ IsFiniteSet(used) /\ IsFiniteSet(used)' /\ BooksInv /\ [BssNext]_bssVars
    => BooksInv'
<1> SUFFICES ASSUME BssInv, BssInv', IsFiniteSet(used), IsFiniteSet(used'), BooksInv,
                    [BssNext]_bssVars
             PROVE  BooksInv'
  OBVIOUS
<1>1. BssTypeOK /\ BssTypeOK'
  BY DEF BssInv
<1>2. ASSUME NEW r \in Request, Arrive(r) PROVE BooksInv'
  <2>1. /\ UNCHANGED <<simDB, told, answers, restarts>> /\ used \subseteq used'
        /\ (arrived' \cup Holders') \cap used \subseteq arrived \cup Holders
    BY <1>2 DEF Arrive, lockVars, Holders
  <2>2. \A i : Entries(i)' = Entries(i)
    BY <2>1 DEF Entries
  <2> QED BY <1>1, <2>1, <2>2, BooksFrame, BooksInvFrame
<1>3. ASSUME NEW r \in Request, BadRequest(r) PROVE BooksInv'
  <2>1. /\ UNCHANGED <<simDB, told, used, restarts>> /\ Send(r, 400, Absent)
        /\ arrived' \cup Holders' \subseteq arrived \cup Holders
    BY <1>3 DEF BadRequest, lockVars, Holders
  <2>2. \A i : Entries(i)' = Entries(i)
    BY <2>1, OtherAnswer
  <2> QED BY <1>1, <2>1, <2>2, BooksFrame, BooksInvFrame
<1>4. ASSUME NEW r \in Request, Lock(r) PROVE BooksInv'
  <2>1. /\ UNCHANGED <<simDB, told, answers, used, restarts>>
        /\ arrived' \cup Holders' \subseteq arrived \cup Holders
    BY <1>4 DEF Lock, Holders
  <2>2. \A i : Entries(i)' = Entries(i)
    BY <2>1 DEF Entries
  <2> QED BY <1>1, <2>1, <2>2, BooksFrame, BooksInvFrame
<1>5. ASSUME NEW r \in Request, Register(r) PROVE BooksInv'
  <2>1. UNCHANGED <<used, restarts>>
    BY <1>5 DEF Register
  <2> QED BY <1>1, <1>5, <2>1, BooksRegister, BooksInvFrame
<1>6. ASSUME NEW r \in Request, TopUp(r) PROVE BooksInv'
  <2>1. UNCHANGED <<used, restarts>>
    BY <1>6 DEF TopUp
  <2>2. \A i \in Imsis : CannotOverflow(i)' => CannotOverflow(i)
    BY <1>1, <2>1, OverflowIsStable
  <2> QED BY <1>6, <2>1, <2>2, BooksTopUp DEF BooksInv
<1>7. ASSUME NEW r \in Request, GetSubscriber(r) PROVE BooksInv'
  <2>1. UNCHANGED <<used, restarts>>
    BY <1>7 DEF GetSubscriber
  <2> QED BY <1>1, <1>7, <2>1, BooksGet, BooksInvFrame
<1>8. ASSUME NEW a \in answers, ReadAnswer(a) \/ LoseAnswer(a) PROVE BooksInv'
  <2>1. /\ UNCHANGED <<simDB, used, restarts, arrived, Holders>>
        /\ told' \cup answers' \subseteq told \cup answers
    BY <1>8 DEF ReadAnswer, LoseAnswer, lockVars, Holders
  <2>2. \A i : Entries(i)' \subseteq Entries(i)
    BY <2>1 DEF Entries
  <2> QED BY <1>1, <2>1, <2>2, BooksFrame, BooksInvFrame
<1>9. CASE Restart
  <2>1. restarts' # 0
    BY <1>1, <1>9 DEF Restart, BssTypeOK
  <2> QED BY <2>1 DEF BooksInv
<1>10. CASE UNCHANGED bssVars
  <2>1. UNCHANGED <<simDB, told, answers, used, restarts, arrived, Holders>>
    BY <1>10 DEF bssVars, lockVars, Holders
  <2>2. \A i : Entries(i)' = Entries(i)
    BY <2>1 DEF Entries
  <2> QED BY <1>1, <2>1, <2>2, BooksFrame, BooksInvFrame
<1> QED
  BY <1>2, <1>3, <1>4, <1>5, <1>6, <1>7, <1>8, <1>9, <1>10, BssSteps

LEMMA BooksInvHolds == BssSpec => [](BssInv /\ IsFiniteSet(used) /\ BooksInv)
<1>1. BssInit => BooksInv
  BY DEF BssInit, BooksInv, BooksOf, Entries, Ledger
<1> QED BY <1>1, BssInvHolds, UsedIsFinite, BooksInvNext, PTL DEF BssSpec

(* Between the opening balance plus what was answered and the opening       *)
(* balance plus what was sent: for any number of clients, retries and       *)
(* losses no credit is lost and none is made up (bss/main.go:143, 166-175). *)
THEOREM EveryBalanceIsAccountedFor == BssSpec => []BalanceIsAccountedFor
<1>1. BssInv /\ IsFiniteSet(used) /\ BooksInv => BalanceIsAccountedFor
  <2> SUFFICES ASSUME BssInv, IsFiniteSet(used), BooksInv, restarts = 0,
                      NEW i \in Imsis, CannotOverflow(i), NEW o \in ToldWith(201, i)
               PROVE  simDB[i] \in o.amount + Amounts(ToldWith(200, i) \cap Credits(i))
                                     .. o.amount + Amounts(Credits(i))
    BY DEF BalanceIsAccountedFor
  <2>1. PICK a \in told : a.status = 201 /\ a.request = o /\ a.request.imsi = i
    BY DEF ToldWith
  <2>2. a \in Entries(i)
    BY <2>1 DEF Entries
  <2>3. PICK q, A : Books(i, q, A)
    BY <2>2 DEF BooksInv, BooksOf
  <2>4. /\ q = o /\ o \in Request /\ o.amount \in Int /\ A \subseteq Credits(i)
        /\ simDB[i] = o.amount + Amounts(A)
    BY <2>1, <2>2, <2>3, RequestType DEF Books, BssInv, BssTypeOK
  <2>5. ToldWith(200, i) \cap Credits(i) \subseteq A
    <3> SUFFICES ASSUME NEW b \in told, b.status = 200, b.request.imsi = i,
                        b.request \in Credits(i)
                 PROVE  b.request \in A
      BY DEF ToldWith
    <3>1. b \in Entries(i)
      BY DEF Entries, Credits
    <3> QED BY <2>3, <3>1 DEF Books, Credits
  <2>6. /\ Credits(i) \in SUBSET Request /\ IsFiniteSet(Credits(i))
        /\ \A c \in Credits(i) : c.amount \in 0 .. Half - 1
    <3>1. Credits(i) \subseteq used /\ used \subseteq Request
      BY DEF Credits, BssInv, BssTypeOK
    <3>2. \A c \in Credits(i) : c.op = "topup" /\ c.valid
      BY DEF Credits
    <3> QED BY <3>1, <3>2, CreditsAmounts, FS_Subset
  <2>7. IsFiniteSet(A) /\ \A c \in A : c.amount \in 0 .. Half - 1
    BY <2>4, <2>6, FS_Subset
  <2>8. /\ Amounts(A) <= Amounts(Credits(i)) /\ Amounts(Credits(i)) \in Nat
        /\ Amounts(A) \in Nat
    BY <2>4, <2>6, AmountsMonotone
  <2>9. /\ Amounts(ToldWith(200, i) \cap Credits(i)) <= Amounts(A)
        /\ Amounts(ToldWith(200, i) \cap Credits(i)) \in Nat
    BY <2>5, <2>7, AmountsMonotone
  <2> QED BY <2>4, <2>8, <2>9
<1> QED BY <1>1, BooksInvHolds, PTL

(* The balances shown to clients of an account tell of one growing balance, *)
(* each top-up a single step of it (bss/main.go:166-182, 198-208).          *)
THEOREM AnswersAreALedger == BssSpec => []AnswersFormALedger
<1>1. BooksInv => AnswersFormALedger
  <2> SUFFICES ASSUME BooksInv, restarts = 0, NEW i \in Imsis, CannotOverflow(i),
                      NEW a \in {c \in told : c.status = 200 /\ c.request.imsi = i},
                      NEW b \in {c \in told : c.status = 200 /\ c.request.imsi = i},
                      b.request.op = "topup", a # b, a.balance <= b.balance,
                      a.request.op = "get" => a.balance # b.balance
               PROVE  a.balance + b.request.amount <= b.balance
    BY DEF AnswersFormALedger
  <2>1. a \in Entries(i) /\ b \in Entries(i)
    BY DEF Entries
  <2>2. Ledger(i)
    BY DEF BooksInv, BooksOf
  <2> QED BY <2>1, <2>2 DEF Ledger
<1> QED BY <1>1, BooksInvHolds, PTL
=============================================================================
