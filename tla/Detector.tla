------------------------------ MODULE Detector ------------------------------
(***************************************************************************)
(* internal/analytics/detector.go and the summaries of collector.go, as    *)
(* functions of a series: which metrics of it are anomalous.               *)
(*                                                                         *)
(* A bucket has the minute it is of, its requests, its errors and how many *)
(* points of each latency it holds.  Rates are whole numbers of 1/RateUnit *)
(* and comparisons of means and deviations are multiplied out, so nothing  *)
(* is rounded.                                                             *)
(***************************************************************************)
EXTENDS Integers, Sequences, FiniteSetsExt

CONSTANTS Latencies,       \* latencies that occur
          RateUnit,        \* multiple of every number of requests in a bucket
          StaticMax,       \* static thresholds, 0 for none
          StddevThreshold, \* deviation that is an anomaly, in sigmas
          Window,          \* baseline window, in buckets
          BaselineMin,     \* buckets needed (60)
          RecentLen        \* buckets compared with the rest (5)

Metrics == {"error_rate", "p95_latency", "request_rate", "cost_rate"}

ASSUME DetectorAssumption ==
    /\ Latencies \subseteq Nat
    /\ RateUnit \in Nat \ {0}
    /\ StaticMax \in [Metrics -> Nat]
    /\ StddevThreshold \in Nat
    /\ Window \in Nat /\ BaselineMin \in Nat
    /\ RecentLen \in Nat \ {0}

\* percentile(sorted, 95): the element at rank ceil(95 % of n).
P95(b) ==
    Min({v \in Latencies :
            100 * MapThenSumSet(LAMBDA u : b.lats[u], {u \in Latencies : u <= v})
                >= 95 * b.reqs})

\* summarize, metric by metric.  The gateway's points carry no EstimatedCost.
Value(m, b) ==
    CASE m = "error_rate"   -> (b.errs * RateUnit) \div b.reqs
      [] m = "p95_latency"  -> P95(b)
      [] m = "request_rate" -> b.reqs
      [] m = "cost_rate"    -> 0

\* checkStatic, for one metric: the newest bucket, of whatever minute it is.
CheckStatic(m, s) ==
    /\ s # <<>>
    /\ StaticMax[m] > 0
    /\ Value(m, s[Len(s)]) > StaticMax[m]

SumOver(f(_), s) == MapThenSumSet(LAMBDA i : f(s[i]), 1 .. Len(s))

\* checkMetricAnomaly: |R/k - S/n| > threshold * sqrt(Q/n - (S/n)^2), where S
\* and Q are the sum and the sum of squares of the n baseline buckets and R
\* is the sum of the k recent ones.
Deviates(m, baseline, recent) ==
    LET n == Len(baseline)
        k == Len(recent)
        S == SumOver(LAMBDA b : Value(m, b), baseline)
        Q == SumOver(LAMBDA b : Value(m, b) * Value(m, b), baseline)
        R == SumOver(LAMBDA b : Value(m, b), recent)
        spread == n * Q - S * S
    IN /\ spread > 0
       /\ (R * n - S * k) * (R * n - S * k)
            > StddevThreshold * StddevThreshold * k * k * spread

\* checkBaseline, for one metric: the last RecentLen buckets against those
\* before them.
CheckBaseline(m, s) ==
    LET n == IF Window < Len(s) THEN Window ELSE Len(s)
        all == SubSeq(s, Len(s) - n + 1, Len(s))
    IN /\ m # "cost_rate"
       /\ n >= BaselineMin /\ n > RecentLen
       /\ Deviates(m, SubSeq(all, 1, n - RecentLen),
                   SubSeq(all, n - RecentLen + 1, n))
=============================================================================
