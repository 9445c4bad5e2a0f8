---------------------------- MODULE MCPduSession ----------------------------
(***************************************************************************)
(* Two calls that race on the socket, two ticks per time-out (so a deadline *)
(* can be re-armed half-way through another wait) and one UPF restart.      *)
(***************************************************************************)
EXTENDS PduSession

=============================================================================
