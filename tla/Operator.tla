------------------------------ MODULE Operator ------------------------------
(***************************************************************************)
(* internal/operator and cmd/aegisflow-operator: from custom resources to  *)
(* the ConfigMap aegisflow-config.                                         *)
(*                                                                         *)
(* An operator pod keeps caches of the API server's objects, each kind at  *)
(* its own pace, and its controller is told of gateway objects only.       *)
(* Instead of resource versions, a pod knows whether what it holds of the  *)
(* ConfigMap is its current version.                                       *)
(*                                                                         *)
(* buildConfig looks at some fields of the objects and drops the others.   *)
(* Of a gateway it copies ports, log level and log format; it drops spec's *)
(* telemetry, cache, database and admin, and every gateway after the first.*)
(* Of a provider it drops timeout and retries, of a route the canary.  So  *)
(* the objects of a kind are two numbers: of the last change to what is    *)
(* copied, and of the last change to the rest.  0 is none, or the default. *)
(***************************************************************************)
EXTENDS Naturals, Sequences

CONSTANTS Pods,        \* instances of the operator, each started once
          OtherKinds,  \* providers, routes, tenants, policies, as listed
          MaxEdits     \* bound: MaxEdits[k], the changes of kind k

Lists == Append(OtherKinds, "gateways")
Kinds == {Lists[i] : i \in 1 .. Len(Lists)}

ASSUME OperatorAssumption ==
    /\ OtherKinds \in Seq(STRING)
    /\ \A i \in 1 .. Len(OtherKinds) : OtherKinds[i] # "gateways"
    /\ MaxEdits \in [Kinds -> Nat]

Parts == {"copied", "dropped"}
Objects == [Kinds -> [Parts -> Nat]]   \* custom resources, as the API server has them
Content == [Kinds -> Nat]              \* what a config.Config has of them

VARIABLES
    cluster,  \* the objects in the API server
    cm,       \* the ConfigMap: whether it exists, and its data
    status,   \* status[p]: whether the pod is new, up or gone
    cached,   \* cached[p]: the objects in the pod's cache
    cmCached, \* cmCached[p]: its cache holds the current ConfigMap
    queued,   \* queued[p]: a reconcile request is in the work queue
    next,     \* next[p]: position in Lists; 0 if idle, then Get and write
    got,      \* got[p]: the objects listed so far
    based,    \* based[p]: existing, as Reconcile holds it, is current
    mixed     \* history: two pods were up at once, or a default was used

opvars == <<cluster, cm, status, cached, cmCached, queued, next, got, based, mixed>>

Blank == [part \in Parts |-> 0]
NoObjects == [k \in Kinds |-> Blank]
None == [k \in Kinds |-> 0]
GET == Len(Lists) + 1
WRITE == Len(Lists) + 2

OperatorTypeOK ==
    /\ cluster \in Objects
    /\ cm \in [exists : BOOLEAN, data : Content]
    /\ status \in [Pods -> {"new", "up", "gone"}]
    /\ cached \in [Pods -> Objects] /\ got \in [Pods -> Content]
    /\ cmCached \in [Pods -> BOOLEAN]
    /\ queued \in [Pods -> BOOLEAN]
    /\ based \in [Pods -> BOOLEAN]
    /\ next \in [Pods -> 0 .. WRITE]
    /\ mixed \in BOOLEAN
    /\ \A p \in Pods : based[p] => cm.exists

OperatorInit ==
    /\ cluster = NoObjects
    /\ cm = [exists |-> FALSE, data |-> None]
    /\ status = [p \in Pods |-> "new"]
    /\ cached = [p \in Pods |-> NoObjects] /\ got = [p \in Pods |-> None]
    /\ cmCached = [p \in Pods |-> FALSE] /\ based = [p \in Pods |-> FALSE]
    /\ queued = [p \in Pods |-> FALSE]
    /\ next = [p \in Pods |-> 0]
    /\ mixed = FALSE

-----------------------------------------------------------------------------
(* The cluster *)

\* Somebody applies a resource, with something new in one part of it.
Edit(k, part) ==
    /\ cluster[k]["copied"] + cluster[k]["dropped"] < MaxEdits[k]
    /\ cluster' = [cluster EXCEPT ![k][part] = @ + 1]
    /\ UNCHANGED <<cm, status, cached, cmCached, queued, next, got, based, mixed>>

\* Mutant of Start: the controller does not wait for its caches.
StartUnsynced(p) ==
    /\ status[p] = "new"
    /\ status' = [status EXCEPT ![p] = "up"]
    /\ queued' = [queued EXCEPT ![p] = cluster["gateways"] # Blank]
    /\ mixed' = (mixed \/ \E q \in Pods : status[q] = "up")
    /\ UNCHANGED <<cluster, cm, cached, cmCached, next, got, based>>

\* main: the caches are filled before the controller starts, and it is told
\* of the gateway object there is.  There is no leader election.
Start(p) ==
    /\ status[p] = "new"
    /\ status' = [status EXCEPT ![p] = "up"]
    /\ cached' = [cached EXCEPT ![p] = cluster]
    /\ cmCached' = [cmCached EXCEPT ![p] = cm.exists]
    /\ queued' = [queued EXCEPT ![p] = cluster["gateways"] # Blank]
    /\ mixed' = (mixed \/ \E q \in Pods : status[q] = "up")
    /\ UNCHANGED <<cluster, cm, next, got, based>>

\* Reconcile is over, and what it had is gone.
Return(p) ==
    /\ next' = [next EXCEPT ![p] = 0]
    /\ got' = [got EXCEPT ![p] = None]
    /\ based' = [based EXCEPT ![p] = FALSE]

\* A pod is stopped, or dies, at any point of its work; its Deployment starts
\* another one.
Kill(p) ==
    /\ status[p] = "up"
    /\ \E q \in Pods : q # p /\ status[q] # "gone"
    /\ status' = [status EXCEPT ![p] = "gone"]
    /\ cached' = [cached EXCEPT ![p] = NoObjects] /\ cmCached' = [cmCached EXCEPT ![p] = FALSE]
    /\ queued' = [queued EXCEPT ![p] = FALSE]
    /\ Return(p)
    /\ UNCHANGED <<cluster, cm, mixed>>

\* Mutant of Observe: what changes during a reconcile is taken as handled by it.
ObserveWhenIdle(p, k) ==
    /\ status[p] = "up" /\ cached[p][k] # cluster[k]
    /\ cached' = [cached EXCEPT ![p][k] = cluster[k]]
    /\ queued' = [queued EXCEPT ![p] = @ \/ (k = "gateways" /\ next[p] = 0)]
    /\ UNCHANGED <<cluster, cm, status, cmCached, next, got, based, mixed>>

\* A cache catches up with the API server; gateways are what the controller
\* is For.
Observe(p, k) ==
    /\ status[p] = "up" /\ cached[p][k] # cluster[k]
    /\ cached' = [cached EXCEPT ![p][k] = cluster[k]]
    /\ queued' = [queued EXCEPT ![p] = @ \/ k = "gateways"]
    /\ UNCHANGED <<cluster, cm, status, cmCached, next, got, based, mixed>>

ObserveConfigMap(p) ==
    /\ status[p] = "up" /\ cm.exists /\ ~cmCached[p]
    /\ cmCached' = [cmCached EXCEPT ![p] = TRUE]
    /\ UNCHANGED <<cluster, cm, status, cached, queued, next, got, based, mixed>>

-----------------------------------------------------------------------------
(* Reconcile: a pod's controller runs one at a time *)

Reconcile(p) ==
    /\ status[p] = "up" /\ queued[p] /\ next[p] = 0
    /\ queued' = [queued EXCEPT ![p] = FALSE]
    /\ next' = [next EXCEPT ![p] = 1]
    /\ UNCHANGED <<cluster, cm, status, cached, cmCached, got, based, mixed>>

\* Reconcile returns an error: the request goes back to the queue.
Failed(p) == Return(p) /\ queued' = [queued EXCEPT ![p] = TRUE]

Listing(p) == status[p] = "up" /\ next[p] \in 1 .. Len(Lists)

\* ProviderInput, RouteInput, TenantInput, PolicyInput, GatewayInput: the fields
\* that are copied out of the objects, and nothing else.
Input(objects) == objects["copied"]

\* buildConfig, one List at a time.
List(p) ==
    /\ Listing(p)
    /\ got' = [got EXCEPT ![p][Lists[next[p]]] = Input(cached[p][Lists[next[p]]])]
    /\ next' = [next EXCEPT ![p] = @ + 1]
    /\ UNCHANGED <<cluster, cm, status, cached, cmCached, queued, based, mixed>>

\* A List that fails: only for the gateways are there defaults to go on with.
ListFails(p) ==
    /\ Listing(p)
    /\ \/ /\ Lists[next[p]] # "gateways"
          /\ Failed(p)
          /\ UNCHANGED mixed
       \/ /\ Lists[next[p]] = "gateways"
          /\ got' = [got EXCEPT ![p]["gateways"] = 0]
          /\ next' = [next EXCEPT ![p] = @ + 1]
          /\ mixed' = TRUE
          /\ UNCHANGED <<queued, based>>
    /\ UNCHANGED <<cluster, cm, status, cached, cmCached>>

\* The existing ConfigMap, as the cache has it.
Get(p) ==
    /\ status[p] = "up" /\ next[p] = GET
    /\ based' = [based EXCEPT ![p] = cmCached[p]]
    /\ next' = [next EXCEPT ![p] = WRITE]
    /\ UNCHANGED <<cluster, cm, status, cached, cmCached, queued, got, mixed>>

\* Any error is taken to mean that there is no ConfigMap.
GetFails(p) ==
    /\ status[p] = "up" /\ next[p] = GET
    /\ based' = [based EXCEPT ![p] = FALSE]
    /\ next' = [next EXCEPT ![p] = WRITE]
    /\ UNCHANGED <<cluster, cm, status, cached, cmCached, queued, got, mixed>>

\* The API server takes an Update of the current version, or a Create where
\* there is nothing.  If that changes the ConfigMap, what everybody held of it
\* is no longer current.
Accepts(p) == based[p] = cm.exists

Written(p) ==
    LET new == [exists |-> TRUE, data |-> got[p]]
    IN /\ cm' = new
       /\ cmCached' = IF new = cm THEN cmCached ELSE [q \in Pods |-> FALSE]
       /\ based' = [q \in Pods |-> q # p /\ based[q] /\ new = cm]

Write(p) ==
    /\ status[p] = "up" /\ next[p] = WRITE
    /\ Accepts(p)
    /\ Written(p)
    /\ next' = [next EXCEPT ![p] = 0] /\ got' = [got EXCEPT ![p] = None]
    /\ UNCHANGED <<cluster, status, cached, queued, mixed>>

\* Done, but the answer is lost.
WriteUnanswered(p) ==
    /\ status[p] = "up" /\ next[p] = WRITE
    /\ Accepts(p)
    /\ Written(p)
    /\ next' = [next EXCEPT ![p] = 0] /\ got' = [got EXCEPT ![p] = None]
    /\ queued' = [queued EXCEPT ![p] = TRUE]
    /\ UNCHANGED <<cluster, status, cached, mixed>>

\* Refused, or lost on the way.
WriteFails(p) ==
    /\ status[p] = "up" /\ next[p] = WRITE
    /\ Failed(p)
    /\ UNCHANGED <<cluster, cm, status, cached, cmCached, mixed>>

OperatorStep(p) ==
    \/ Start(p) \/ Kill(p)
    \/ (\E k \in Kinds : Observe(p, k)) \/ ObserveConfigMap(p)
    \/ Reconcile(p)
    \/ List(p) \/ ListFails(p) \/ Get(p) \/ GetFails(p)
    \/ Write(p) \/ WriteUnanswered(p) \/ WriteFails(p)

OperatorNext == (\E k \in Kinds, part \in Parts : Edit(k, part)) \/ \E p \in Pods : OperatorStep(p)

\* A Deployment keeps a pod up, its caches catch up, its controller goes on,
\* and calls that are retried do not fail for ever.
OperatorFairness ==
    /\ WF_opvars((\A q \in Pods : status[q] # "up") /\ \E p \in Pods : Start(p))
    /\ WF_opvars(\E p \in Pods : (\E k \in Kinds : Observe(p, k)) \/ ObserveConfigMap(p))
    /\ WF_opvars(\E p \in Pods : Reconcile(p) \/ Write(p) \/ WriteFails(p))
    /\ \A i \in 1 .. Len(Lists) : SF_opvars(\E p \in Pods : next[p] = i /\ List(p))
    /\ SF_opvars(\E p \in Pods : Get(p))
    /\ SF_opvars(\E p \in Pods : Write(p))

-----------------------------------------------------------------------------
(* Property *)

\* A write never takes the ConfigMap back to older objects, whatever fails and
\* is retried and whenever pods are replaced, as long as pods do not overlap
\* and the listing of gateways does not fail.
ConfigMapForward ==
    [][mixed' \/ \A k \in Kinds : cm.data[k] <= cm'.data[k]]_opvars
=============================================================================
