-------------------------------- MODULE Sums --------------------------------
(***************************************************************************)
(* What a map of counters adds up to over some of its keys.                *)
(***************************************************************************)
EXTENDS Integers, FiniteSetsExt

Total(f, S) == MapThenSumSet(LAMBDA x : f[x], S)
=============================================================================
