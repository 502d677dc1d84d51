------------------------------ MODULE MCTunnel ------------------------------
(***************************************************************************)
(* Instances of Tunnel for TLC.  Connections are interchangeable.          *)
(***************************************************************************)
EXTENDS Tunnel

Symmetry == Permutations(Conn)
=============================================================================
