--------------------------- MODULE MCClientTimers ---------------------------
(* Instances of ClientTimers for TLC.  Timer identities are interchangeable. *)
EXTENDS ClientTimers, TLC

Symmetry == Permutations(Timers)
=============================================================================
