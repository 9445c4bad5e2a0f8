----------------------------- MODULE MCGtpcSmf ------------------------------
(***************************************************************************)
(* Two requests: the one that locks itself out, and one that waits for it.  *)
(***************************************************************************)
EXTENDS GtpcSmf

=============================================================================
