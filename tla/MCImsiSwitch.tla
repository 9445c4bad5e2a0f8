---------------------------- MODULE MCImsiSwitch ----------------------------
(***************************************************************************)
(* Two messages for one device (so that one can replace the other) and one  *)
(* for a second device. One client stands for many: a response is one step  *)
(* and needs no GET before it, so a second response of this client is the   *)
(* response of a client that raced with it.                                 *)
(***************************************************************************)
EXTENDS ImsiSwitch

CONSTANTS m1, m2, m3, phone, tablet

MCDeviceOf == [m \in {m1, m2, m3} |-> IF m = m3 THEN tablet ELSE phone]
=============================================================================
