------------------------------- MODULE MCBss --------------------------------
(***************************************************************************)
(* One subscriber: two registrations that race, a top-up and the same again *)
(* (a retry), one more that can overflow, a GET, and a malformed request.   *)
(***************************************************************************)
EXTENDS Bss

CONSTANT imsi

Body(op, id, amount, valid) ==
  [op |-> op, id |-> id, imsi |-> imsi, amount |-> amount, valid |-> valid]

MCRequest == {Body("register", 1, 0, TRUE), Body("register", 2, -1, TRUE),
              Body("topup", 1, 1, TRUE), Body("topup", 2, 1, TRUE), Body("topup", 3, 3, TRUE),
              Body("get", 1, 0, TRUE), Body("topup", 4, 0, FALSE)}
=============================================================================
