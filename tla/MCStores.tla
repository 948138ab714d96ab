------------------------------ MODULE MCStores ------------------------------
(* The two stores on the way of a request, the limiters' windows and the     *)
(* response cache, for TLC.  They share no state and every property is about *)
(* one of them, so each is checked with the other at rest: an interleaving   *)
(* of the two would show each nothing but its own behaviours again.          *)
EXTENDS MCRateLimit, MCCache

StoresInit == Init /\ CacheInit

StoresNext ==
    \/ CacheInit /\ Next /\ UNCHANGED cacheVars
    \/ Init /\ CacheNext /\ UNCHANGED vars

StoresSpec == StoresInit /\ [][StoresNext]_<<vars, cacheVars>>

StoresSymmetry == RequestSymmetry \cup CallerSymmetry
=============================================================================
