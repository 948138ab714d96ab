---------------------------- MODULE MCAccounting ----------------------------
(* Accounting for TLC: a global limit, a smaller one for tenant t1 and one   *)
(* for a model of t1; its other model is bounded by the wider limits alone.  *)
EXTENDS Accounting, TLC

SmallLimits == [k \in Keys |-> CASE k = Global -> 3
                                 [] k = TenantKey("t1") -> 2
                                 [] k = ModelKey("t1", "m1") -> 1
                                 [] OTHER -> 0]

RequestSymmetry == Permutations(Requests)
=============================================================================
