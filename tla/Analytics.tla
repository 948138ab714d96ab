------------------------------ MODULE Analytics ------------------------------
(***************************************************************************)
(* internal/analytics: the collector's time series, the detector's loop    *)
(* (its checks are in module Detector) and the alert manager.              *)
(*                                                                         *)
(* A handler stamps its data point, then records it in one series after    *)
(* the other, each under that series' lock.  The detector's goroutine      *)
(* evaluates the series and hands the result to the alert manager;         *)
(* administrators acknowledge alerts by their ID.                          *)
(*                                                                         *)
(* A ring buffer of buckets is the sequence of its last Size buckets.      *)
(***************************************************************************)
EXTENDS Detector, FiniteSets, Sums

CONSTANTS Handlers,      \* each records one data point
          Point,         \* what it holds: err (a 5xx) and lat
          Dims,          \* the point's series, in the order they are updated
          Size,          \* retention, in buckets
          ResolveAfter,  \* normal evaluations that resolve an alert (5)
          MaxHistory,    \* resolved alerts kept (500)
          MaxTime        \* bound: minutes; the last one brings no points

DimSet == {Dims[i] : i \in 1 .. Len(Dims)}
AlertKeys == DimSet \X Metrics     \* alertKey(dimension, metric)

\* The dimensions of a point, "tenant:...", "model:...", "provider:..." and
\* "global", are distinct.
ASSUME AnalyticsAssumption ==
    /\ IsFiniteSet(Handlers)
    /\ Dims \in Seq(STRING)
    /\ \A i, j \in 1 .. Len(Dims) : Dims[i] = Dims[j] => i = j
    /\ Point \in [Handlers -> [err : BOOLEAN, lat : Latencies]]
    /\ \A n \in 1 .. Cardinality(Handlers) : RateUnit % n = 0
    /\ Size \in Nat \ {0}
    /\ ResolveAfter \in Nat \ {0}
    /\ MaxHistory \in Nat
    /\ MaxTime \in Nat

VARIABLES
    clock,    \* the current minute
    series,   \* series[d]: buckets, oldest first
    point,    \* point[h]: minute, position of the next series to update
    result,   \* Evaluate so far: dimensions not checked yet, and alerts
    active,   \* active[k]: when its alert was created, and its state
    normal,   \* normalCounters[k]
    history,  \* number of resolved alerts kept
    now,      \* the time in an alert's ID: evaluations that raised one
    seen,     \* alert IDs (key and time) an administrator has on the screen
    quiet     \* history: evaluations in a row without an alert for k

analyticsVars == <<clock, series, point, result, active, normal, history, now, seen, quiet>>
alerts == <<active, normal, history, now, quiet>>

Start == [todo |-> DimSet, keys |-> {}]
NoAlert == [at |-> 0, state |-> "none"]

AnalyticsTypeOK ==
    /\ clock \in 0 .. MaxTime
    /\ \A d \in DimSet :
        /\ Len(series[d]) <= Size
        /\ \A i \in 1 .. Len(series[d]) :
            /\ series[d][i].min \in 0 .. MaxTime
            /\ series[d][i].reqs \in 1 .. Cardinality(Handlers)
            /\ series[d][i].errs \in 0 .. series[d][i].reqs
    /\ \A k \in AlertKeys :
        /\ active[k].state \in {"none", "active", "acknowledged"}
        /\ normal[k] \in 0 .. ResolveAfter - 1
        /\ quiet[k] \in 0 .. ResolveAfter
    /\ result \in [todo : SUBSET DimSet, keys : SUBSET AlertKeys]
    /\ history \in 0 .. MaxHistory
    /\ seen \in SUBSET (AlertKeys \X (1 .. now))

AnalyticsInit ==
    /\ clock = 0
    /\ series = [d \in DimSet |-> <<>>]
    /\ point = [h \in Handlers |-> [min |-> 0, next |-> 0]]
    /\ result = Start
    /\ active = [k \in AlertKeys |-> NoAlert]
    /\ normal = [k \in AlertKeys |-> 0]
    /\ history = 0
    /\ now = 0
    /\ seen = {}
    /\ quiet = [k \in AlertKeys |-> ResolveAfter]

-----------------------------------------------------------------------------
(* Collector *)

\* Collector.Record, up to the unlock: the point is stamped and its series
\* are looked up.
Stamp(h) ==
    /\ point[h].next = 0
    /\ clock < MaxTime
    /\ point' = [point EXCEPT ![h] = [min |-> clock, next |-> 1]]
    /\ UNCHANGED <<clock, series, result, alerts, seen>>

Failed(h) == IF Point[h].err THEN 1 ELSE 0

\* The point joins a bucket, or starts one.
Joined(b, h) == [b EXCEPT !.reqs = @ + 1, !.errs = @ + Failed(h),
                          !.lats[Point[h].lat] = @ + 1]

NewBucket(h) == [min |-> point[h].min, reqs |-> 1, errs |-> Failed(h),
                 lats |-> [v \in Latencies |-> IF v = Point[h].lat THEN 1 ELSE 0]]

\* Mutant of Added: the newest bucket takes the point, whatever its minute.
AddedAnywhere(s, h) ==
    IF s # <<>> THEN [s EXCEPT ![Len(s)] = Joined(@, h)] ELSE <<NewBucket(h)>>

\* TimeSeries.Record: into the newest bucket if it is of the point's minute,
\* else into a new bucket, which takes the place of the oldest.
Added(s, h) ==
    IF s # <<>> /\ s[Len(s)].min = point[h].min
    THEN [s EXCEPT ![Len(s)] = Joined(@, h)]
    ELSE Append(IF Len(s) = Size THEN Tail(s) ELSE s, NewBucket(h))

Record(h) ==
    /\ point[h].next \in 1 .. Len(Dims)
    /\ LET d == Dims[point[h].next]
       IN series' = [series EXCEPT ![d] = Added(@, h)]
    /\ point' = [point EXCEPT ![h].next = @ + 1]
    /\ UNCHANGED <<clock, result, alerts, seen>>

-----------------------------------------------------------------------------
(* Detector and alert manager *)

\* checkStatic or checkBaseline appends an alert: two with the same key are one
\* to the alert manager.
Anomalous(d, m) == CheckStatic(m, series[d]) \/ CheckBaseline(m, series[d])

\* One turn of Evaluate's loop; a series is locked only while it is read.
Evaluate(d) ==
    /\ d \in result.todo
    /\ result' = [todo |-> result.todo \ {d},
                  keys |-> result.keys \cup ({d} \X {m \in Metrics : Anomalous(d, m)})]
    /\ UNCHANGED <<clock, series, point, alerts, seen>>

\* Mutant of Resolves: whether the key alerted in this cycle is not asked.
ResolvesAlerted(k) ==
    /\ active[k] # NoAlert
    /\ normal[k] + 1 >= ResolveAfter

\* The alert of k has now been absent often enough.
Resolves(k) ==
    /\ active[k] # NoAlert /\ k \notin result.keys
    /\ normal[k] + 1 >= ResolveAfter

\* Mutant of Raised: one active alert per series.
RaisedPerDimension ==
    {k \in result.keys : \A j \in AlertKeys : j[1] = k[1] => active[j] = NoAlert}

\* New alerts; one that is already active is not raised again.
Raised == {k \in result.keys : active[k] = NoAlert}
Resolved == {k \in AlertKeys : Resolves(k)}

\* Mutant of Archived: the history is never trimmed.
ArchivedAll == history + Cardinality(Resolved)

Archived == Min({history + Cardinality(Resolved), MaxHistory})

ProcessAlerts ==
    /\ result.todo = {}
    /\ now' = IF Raised # {} THEN now + 1 ELSE now
    /\ active' = [k \in AlertKeys |->
                    IF k \in Raised THEN [at |-> now', state |-> "active"]
                    ELSE IF k \in Resolved THEN NoAlert ELSE active[k]]
    /\ normal' = [k \in AlertKeys |->
                    IF active[k] # NoAlert /\ k \notin result.keys \cup Resolved
                    THEN normal[k] + 1 ELSE 0]
    /\ history' = Archived
    /\ quiet' = [k \in AlertKeys |->
                    IF k \in result.keys THEN 0
                    ELSE IF quiet[k] < ResolveAfter THEN quiet[k] + 1 ELSE quiet[k]]
    /\ result' = Start
    /\ UNCHANGED <<clock, series, point, seen>>

\* The alerts page, and its acknowledge button.  Resolved alerts are shown as
\* well; they are no longer there to be acknowledged.
RecentAlerts ==
    /\ seen' = seen \cup {<<k, active[k].at>> : k \in {j \in AlertKeys : active[j] # NoAlert}}
    /\ UNCHANGED <<clock, series, point, result, alerts>>

\* Mutant of Acknowledge: alerts are matched by dimension and metric.
AcknowledgeAny(id) ==
    /\ active' = [k \in AlertKeys |->
                    IF active[k] # NoAlert /\ k = id[1]
                    THEN [active[k] EXCEPT !.state = "acknowledged"]
                    ELSE active[k]]
    /\ UNCHANGED <<clock, series, point, result, normal, history, now, seen, quiet>>

Acknowledge(id) ==
    /\ active' = [k \in AlertKeys |->
                    IF <<k, active[k].at>> = id
                    THEN [active[k] EXCEPT !.state = "acknowledged"]
                    ELSE active[k]]
    /\ UNCHANGED <<clock, series, point, result, normal, history, now, seen, quiet>>

Tick ==
    /\ clock < MaxTime
    /\ clock' = clock + 1
    /\ UNCHANGED <<series, point, result, alerts, seen>>

AnalyticsNext ==
    \/ \E h \in Handlers : Stamp(h) \/ Record(h)
    \/ \E d \in DimSet : Evaluate(d)
    \/ ProcessAlerts
    \/ RecentAlerts
    \/ \E id \in seen : Acknowledge(id)
    \/ Tick

AnalyticsSpec == AnalyticsInit /\ [][AnalyticsNext]_analyticsVars

\* The detector's ticker keeps firing.
AnalyticsLiveSpec ==
    /\ AnalyticsSpec
    /\ WF_analyticsVars(\E d \in DimSet : Evaluate(d))
    /\ WF_analyticsVars(ProcessAlerts)

-----------------------------------------------------------------------------
(* Properties *)

\* Points recorded in series d for minute t, and those its buckets hold.
RecordedIn(d, t) ==
    {h \in Handlers : /\ point[h].min = t
                      /\ \E i \in 1 .. Len(Dims) : Dims[i] = d /\ i < point[h].next}

InMinute(b, t) == IF b.min = t THEN b.reqs ELSE 0

HeldBy(s, t) == Total([i \in 1 .. Len(s) |-> InMinute(s[i], t)], 1 .. Len(s))

Held(d, t) == HeldBy(series[d], t)

\* Each series counts every point in the minute it was stamped with, and once,
\* whichever handler gets to its lock first; points only go with the oldest
\* bucket of a full ring.
PointsCounted ==
    \A d \in DimSet, t \in 0 .. MaxTime :
        /\ Held(d, t) <= Cardinality(RecordedIn(d, t))
        /\ Len(series[d]) < Size => Held(d, t) = Cardinality(RecordedIn(d, t))

\* "auto-resolve after 5 consecutive normal evaluations" (CHANGELOG.md:22):
\* an alert goes away only then, acknowledged or not.
ResolvedAfterQuiet ==
    [][\A k \in AlertKeys : active[k] # NoAlert /\ active'[k].at # active[k].at
                          => quiet'[k] >= ResolveAfter]_analyticsVars

\* Only an alert that an administrator has seen is ever acknowledged, even if
\* the one on the screen was resolved and another raised in its place.
AcknowledgedWasSeen ==
    \A k \in AlertKeys : active[k].state = "acknowledged" => <<k, active[k].at>> \in seen

\* No anomaly that lasts goes without an alert, whatever else is active for
\* the series, has been acknowledged or is being resolved.
AnomalyAlerted ==
    \A d \in DimSet, m \in Metrics :
        Anomalous(d, m) ~> (active[<<d, m>>] # NoAlert \/ ~Anomalous(d, m))

-----------------------------------------------------------------------------
(* The inductive invariant behind the theorems of AccountingProofs *)

BucketType == [min : 0 .. MaxTime, reqs : Nat \ {0}, errs : Nat,
               lats : [Latencies -> Nat]]
AlertType == [at : Nat, state : {"none", "active", "acknowledged"}]

SeriesTypes ==
    /\ clock \in 0 .. MaxTime
    /\ series \in [DimSet -> Seq(BucketType)]
    /\ \A d \in DimSet :
        /\ Len(series[d]) <= Size
        /\ \A i \in 1 .. Len(series[d]) : series[d][i].errs <= series[d][i].reqs
    /\ point \in [Handlers -> [min : 0 .. MaxTime, next : 0 .. Len(Dims) + 1]]

AlertTypes ==
    /\ result \in [todo : SUBSET DimSet, keys : SUBSET AlertKeys]
    /\ active \in [AlertKeys -> AlertType]
    /\ normal \in [AlertKeys -> 0 .. ResolveAfter - 1]
    /\ quiet \in [AlertKeys -> 0 .. ResolveAfter]
    /\ history \in 0 .. MaxHistory
    /\ now \in Nat
    /\ seen \in SUBSET (AlertKeys \X (1 .. now))

\* An alert has the time of the evaluation that raised it, which is how the
\* acknowledge button tells it from earlier ones, and its normal evaluations
\* are the last ones.
AlertsKept ==
    \A k \in AlertKeys :
        \/ active[k] = NoAlert
        \/ /\ active[k].at \in 1 .. now
           /\ active[k].state # "none"
           /\ normal[k] <= quiet[k]

AnalyticsInv ==
    /\ SeriesTypes
    /\ AlertTypes
    /\ AlertsKept
    /\ PointsCounted
    /\ AcknowledgedWasSeen
=============================================================================
