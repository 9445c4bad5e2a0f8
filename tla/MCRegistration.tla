--------------------------- MODULE MCRegistration ---------------------------
(***************************************************************************)
(* Any three of four messages about one UE: a gNB may register it twice,    *)
(* another may fail to or send what cannot be decoded.                      *)
(***************************************************************************)
EXTENDS Registration

CONSTANTS g1, g2, ue

MCMessage ==
  [id : {1, 2}, gnb : {g1}, ueid : {ue}, kind : {"genuine"}]
    \cup [id : {3}, gnb : {g2}, ueid : {ue}, kind : {"wrong", "garbled"}]
=============================================================================
