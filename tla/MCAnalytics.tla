----------------------------- MODULE MCAnalytics -----------------------------
(* Analytics for TLC: a fast answer, a slower one and a slow failure, whose   *)
(* order decides which thresholds are passed and when.                        *)
EXTENDS Analytics

CONSTANTS h1, h2, h3, h4

OneDim == <<"global">>

MCPoint == [h \in Handlers |-> [err |-> h = h3,
                                lat |-> CASE h \in {h1, h4} -> 1 [] h = h2 -> 2 [] h = h3 -> 9]]

MCStaticMax == [m \in Metrics |-> CASE m = "error_rate" -> 3
                                    [] m = "request_rate" -> 1
                                    [] OTHER -> 0]
=============================================================================
