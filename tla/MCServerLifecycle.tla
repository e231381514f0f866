------------------------- MODULE MCServerLifecycle --------------------------
(* Instances of ServerLifecycle for TLC: small sets of servers, threads,    *)
(* nodes and addresses.  No symmetry is declared, because a liveness       *)
(* property is checked.                                                    *)
EXTENDS ServerLifecycle
=============================================================================
