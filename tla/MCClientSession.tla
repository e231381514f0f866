-------------------------- MODULE MCClientSession ---------------------------
(* Instances of ClientSession for TLC: one or two threads.  No symmetry is  *)
(* declared, because liveness properties are checked.                      *)
EXTENDS ClientSession
=============================================================================
