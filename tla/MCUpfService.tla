---------------------------- MODULE MCUpfService ----------------------------
(***************************************************************************)
(* Three requests over two sessions: enough for a request to overtake       *)
(* another on its own session while a third touches the other one. Requests *)
(* and sessions are interchangeable, and no liveness is checked, so both    *)
(* sets are symmetric.                                                      *)
(***************************************************************************)
EXTENDS UpfService, TLC

ServiceSymmetry == Permutations(Ids) \cup Permutations(Seids)
=============================================================================
