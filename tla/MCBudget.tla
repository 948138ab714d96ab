------------------------------ MODULE MCBudget ------------------------------
(* Budget alone for TLC: a global limit and no other. *)
EXTENDS Budget

GlobalLimit == [k \in Keys |-> IF k = Global THEN 2 ELSE 0]
=============================================================================
