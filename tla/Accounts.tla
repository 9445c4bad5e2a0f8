------------------------------ MODULE Accounts ------------------------------
(***************************************************************************)
(* What a table of prepaid accounts promises its clients: a request that    *)
(* was submitted is carried out in one step, at most once, and its answer   *)
(* is the one that step computed; or it vanishes. A reset forgets the       *)
(* accounts and any requests.                                               *)
(***************************************************************************)
EXTENDS Integers

CONSTANTS Request,    \* records with fields op, imsi, amount, valid
          Imsis,
          Half,       \* integers are -Half .. Half - 1
          Absent      \* no balance

VARIABLES balance,    \* of every IMSI
          waiting,    \* requests submitted and not yet carried out
          answers,    \* answers on their way: request, status, balance
          used        \* every request ever submitted

accountVars == <<balance, waiting, answers, used>>

(* Machine integers wrap around. *)
Wrap(n) == ((n + Half) % (2 * Half)) - Half

Answer(r, status, b) == [request |-> r, status |-> status, balance |-> b]

(* The answer to r when its account has balance b. *)
Outcome(r, b) ==
  CASE ~r.valid                          -> Answer(r, 400, Absent)
    [] r.valid /\ r.op = "register"      -> IF b = Absent THEN Answer(r, 201, r.amount)
                                            ELSE Answer(r, 409, Absent)
    [] r.valid /\ r.op # "register" /\ b = Absent -> Answer(r, 404, Absent)
    [] r.valid /\ r.op = "topup" /\ b # Absent    -> Answer(r, 200, Wrap(b + r.amount))
    [] r.valid /\ r.op = "get" /\ b # Absent      -> Answer(r, 200, b)

NewBalance(r, b) == IF Outcome(r, b).balance = Absent THEN b ELSE Outcome(r, b).balance

AccountInit ==
  /\ balance = [i \in Imsis |-> Absent]
  /\ waiting = {} /\ answers = {} /\ used = {}

Submit(r) ==
  /\ r \notin used
  /\ used' = used \cup {r}
  /\ waiting' = waiting \cup {r}
  /\ UNCHANGED <<balance, answers>>

CarryOut(r) ==
  /\ r \in waiting
  /\ balance' = [balance EXCEPT ![r.imsi] = NewBalance(r, @)]
  /\ answers' = answers \cup {Outcome(r, balance[r.imsi])}
  /\ waiting' = waiting \ {r}
  /\ used' = used

(* An answer arrives, or is lost. *)
Settle(a) ==
  /\ a \in answers
  /\ answers' = answers \ {a}
  /\ UNCHANGED <<balance, waiting, used>>

Reset ==
  /\ balance' = [i \in Imsis |-> Absent]
  /\ waiting' \in SUBSET waiting
  /\ answers' \in SUBSET answers
  /\ used' = used

AccountNext ==
  \/ \E r \in Request : Submit(r) \/ CarryOut(r)
  \/ \E a \in answers : Settle(a)
  \/ Reset

AccountSpec == AccountInit /\ [][AccountNext]_accountVars
=============================================================================
