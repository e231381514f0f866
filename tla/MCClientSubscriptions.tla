----------------------- MODULE MCClientSubscriptions -----------------------
(* Instances of ClientSubscriptions for TLC. *)
EXTENDS ClientSubscriptions, TLC

Symmetry == Permutations(Subs) \cup Permutations(Items)
=============================================================================
