------------------------------ MODULE MCIpPool ------------------------------
(***************************************************************************)
(* Binary addresses: all pairs of a first and a last one.                   *)
(***************************************************************************)
EXTENDS IpPool
=============================================================================
