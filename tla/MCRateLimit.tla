---------------------------- MODULE MCRateLimit ----------------------------
(* RateLimit for TLC: limits of two requests and three tokens, two ticks. *)
EXTENDS RateLimit, TLC

PerLimiter(a, b) == [l \in Limiters |-> IF l = "req" THEN a ELSE b]

MCFloor == PerLimiter(1, 1)
MCQuota == PerLimiter([t \in Tenants |-> 2], [t \in Tenants |-> 3])
MCLimit == PerLimiter(2, 3)

RequestSymmetry == Permutations(Requests)
=============================================================================
