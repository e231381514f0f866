--------------------------- MODULE MCPropertyTree ---------------------------
(* Instances of PropertyTree for TLC: short paths over few names, which are *)
(* ordered, so that no symmetry is left to exploit.                        *)
EXTENDS PropertyTree

(* Bound: a tree that remove() was used on and one that was copied to are   *)
(* explored apart.                                                         *)
CopiedOrRemoved == dest = Empty \/ removed = {}
=============================================================================
