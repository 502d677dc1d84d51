-------------------------- MODULE MCControlSession --------------------------
(* ControlSession for TLC.                                                 *)
EXTENDS ControlSession

\* No timer of this repository updates the control kcp.
Nobody == {}
=============================================================================
