---------------------------- MODULE MCConditions ----------------------------
(* Instances of Conditions, and with it of ServerCallbacks, for TLC.       *)
EXTENDS Conditions, TLC

Symmetry == Permutations(Timers) \cup Permutations(Conds)
=============================================================================
