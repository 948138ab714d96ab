------------------------------ MODULE MCGateway ------------------------------
(* Gateway for TLC: one offending prompt, one offending answer.  A warning   *)
(* filter stands behind the blocking one.                                    *)
EXTENDS Gateway

Block(c) == [action |-> "block", on |-> {c}]
Warn(c) == [action |-> "warn", on |-> {c}]

MCInputFilters == <<Block("q bad"), Warn("q bad")>>
MCOutputFilters == <<Block("a bad"), Warn("a bad")>>
=============================================================================
