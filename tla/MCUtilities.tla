----------------------------- MODULE MCUtilities -----------------------------
(* The two utilities in one state space for TLC.  They share nothing, so    *)
(* that one rests in its initial state while the other takes steps: what is *)
(* explored is the sum of their states and not the product.  No symmetry is *)
(* declared, because liveness is checked and names are ordered.            *)
EXTENDS MCPropertyTree, CacheThread

UtilitiesInit == Init /\ CacheInit

TreeStep == CacheInit /\ Next /\ UNCHANGED cacheVars
CacheStep == Init /\ CacheNext /\ UNCHANGED vars

UtilitiesSpec ==
    /\ UtilitiesInit
    /\ [][TreeStep \/ CacheStep]_<<vars, cacheVars>>
    /\ CacheFairness
=============================================================================
