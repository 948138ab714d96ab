------------------------------- MODULE Router -------------------------------
(***************************************************************************)
(* internal/router: concurrent requests being routed to providers, with    *)
(* canary rollouts, regions, strategies and the shared circuit breaker.    *)
(*                                                                         *)
(* A request walks through lists of providers.  Asking the breaker and     *)
(* starting the call is one step, the provider's answer and what the       *)
(* router records of it another: other requests run in between.            *)
(*                                                                         *)
(* Time is the age of each provider's last failure, saturating just above  *)
(* ResetAfter; failure counts saturate at Threshold.  The code compares    *)
(* them with nothing else.                                                 *)
(***************************************************************************)
EXTENDS Integers, Sequences, SequencesExt

CONSTANTS Requests,    \* requests being served concurrently
          Models,
          Configured,  \* the configured providers: name, type, enabled
          Routes,      \* the configured routes, in order; see RouteType
          Rollouts,    \* Rollouts[m]: running rollouts m can have
          Draws,       \* values rand.Intn(100) may return
          RequestKinds, \* kinds of request issued: "unary", "stream"
          Threshold,   \* failures that open the breaker (3)
          ResetAfter   \* ticks after which it lets calls through (30 s)

\* initProviders: the names in the registry, which is filled at start and never
\* changed.  An unknown type is logged and skipped; of two providers with one
\* name the second replaces the first.
Supported == {"mock", "openai", "anthropic", "ollama", "gemini", "azure_openai",
              "groq", "mistral", "together", "bedrock"}

Registered == {pc.name : pc \in {q \in Configured : q.enabled /\ q.type \in Supported}}

\* A route: the models its pattern matches, its providers and strategy, and
\* its regions, each with providers and strategy (rr: round-robin).
RegionType == [providers : Seq(STRING), rr : BOOLEAN]
RouteType == [models : SUBSET Models, providers : Seq(STRING), rr : BOOLEAN,
              regions : Seq(RegionType)]
RolloutType == [canary : STRING, baseline : Seq(STRING), pct : 0 .. 100]

ASSUME RouterAssumption ==
    /\ Configured \subseteq [name : STRING, type : STRING, enabled : BOOLEAN]
    /\ Routes \in Seq(RouteType)
    /\ \A m \in Models : Rollouts[m] \subseteq RolloutType
    /\ Draws \subseteq 0 .. 99
    /\ RequestKinds \subseteq {"unary", "stream"}
    /\ Threshold \in Nat \ {0}
    /\ ResetAfter \in Nat

VARIABLES
    failures,   \* circuit breaker: failures[p]
    sinceFail,  \* time.Since(lastFailure[p]), -1 when deleted or never set
    counter,    \* round-robin counters, modulo the length of their list
    active,     \* active[m]: the rollout ActiveRollout(m) returns now
    req         \* what each request is doing

routerVars == <<failures, sinceFail, counter, active, req>>

NoRollout == [canary |-> "", baseline |-> <<>>, pct |-> 0]

NoRequest == [pc |-> "idle", model |-> "", kind |-> "unary", act |-> NoRollout,
              drawn |-> FALSE, region |-> 0, queue |-> <<>>, p |-> "",
              seen |-> {}]

RegionLists(i) == {<<i, j>> : j \in 0 .. Len(Routes[i].regions)}
Lists == UNION {RegionLists(i) : i \in 1 .. Len(Routes)}

RouterTypeOK ==
    /\ failures \in [Registered -> 0 .. Threshold]
    /\ sinceFail \in [Registered -> -1 .. ResetAfter + 1]
    /\ counter \in [Lists -> Nat]
    /\ \A m \in Models : active[m] \in Rollouts[m] \cup {NoRollout}
    /\ \A r \in Requests :
        /\ req[r].pc \in {"idle", "canary", "resolve", "region", "try", "call",
                          "probe", "served", "failed"}
        /\ req[r].pc \in {"call", "probe"} => req[r].p \in Registered
        /\ ToSet(req[r].queue) \subseteq Registered
        /\ req[r].seen \subseteq Registered

RouterInit ==
    /\ failures = [p \in Registered |-> 0]
    /\ sinceFail = [p \in Registered |-> -1]
    /\ counter = [l \in Lists |-> 0]
    /\ active = [m \in Models |-> NoRollout]
    /\ req = [r \in Requests |-> NoRequest]

-----------------------------------------------------------------------------
(* Circuit breaker *)

\* Mutant of IsOpen: forgets that the breaker lets calls through again.
IsOpenForever(p) == failures[p] >= Threshold

IsOpen(p) == /\ failures[p] >= Threshold
             /\ sinceFail[p] # -1
             /\ sinceFail[p] <= ResetAfter

RecordFailure(p) ==
    /\ failures' = [failures EXCEPT ![p] = IF @ < Threshold THEN @ + 1 ELSE @]
    /\ sinceFail' = [sinceFail EXCEPT ![p] = 0]

RecordSuccess(p) ==
    /\ failures' = [failures EXCEPT ![p] = 0]
    /\ sinceFail' = [sinceFail EXCEPT ![p] = -1]

Breaker == <<failures, sinceFail>>

-----------------------------------------------------------------------------
(* Routes and strategies *)

IsRegistered(p) == p \in Registered

\* The names of a list that are in S, in their order.
Among(names, S) ==
    LET among[i \in 0 .. Len(names)] ==
            IF i = 0 THEN <<>>
            ELSE IF names[i] \in S THEN Append(among[i - 1], names[i]) ELSE among[i - 1]
    IN among[Len(names)]

\* Mutant of Known: names that registry.Get does not find are kept.
KnownOrNot(names) == names

Known(names) == Among(names, Registered)

MatchRoute(m) == {i \in 1 .. Len(Routes) : m \in Routes[i].models}

FirstMatch(m) == IF MatchRoute(m) = {} THEN 0
                 ELSE CHOOSE i \in MatchRoute(m) : \A j \in MatchRoute(m) : i <= j

\* The route resolveProviders settles on: the first that matches and has a
\* registered provider.
Resolvable(m) == {i \in MatchRoute(m) : Known(Routes[i].providers) # <<>>}

\* Select of list l: the round-robin counter advances, then the list is
\* rotated by it; priority leaves the list as it is.
Rotated(s, n) == [i \in 1 .. Len(s) |-> s[((n + i - 1) % Len(s)) + 1]]

Select(r, l, s, rr, next) ==
    IF rr /\ s # <<>>
    THEN LET n == (counter[l] + 1) % Len(s)
         IN /\ counter' = [counter EXCEPT ![l] = n]
            /\ req' = [req EXCEPT ![r] = [next EXCEPT !.queue = Rotated(s, n)]]
    ELSE /\ req' = [req EXCEPT ![r] = [next EXCEPT !.queue = s]]
         /\ UNCHANGED counter

Goto(r, pc) == req' = [req EXCEPT ![r].pc = pc]

-----------------------------------------------------------------------------
(* A request's steps *)

\* RouteWithProvider or RouteStream is called: ActiveRollout and the draw.
Begin(r, m, k, d) ==
    /\ req[r].pc \in {"idle", "served", "failed"}
    /\ LET hit == active[m] # NoRollout /\ d < active[m].pct
       IN req' = [req EXCEPT ![r] =
                    [NoRequest EXCEPT !.model = m, !.kind = k,
                                      !.act = active[m], !.drawn = hit,
                                      !.pc = IF hit THEN "canary" ELSE "resolve"]]
    /\ UNCHANGED <<Breaker, counter, active>>

\* The canary goes first, if it is registered and not circuit-broken.
TryCanary(r) ==
    /\ req[r].pc = "canary"
    /\ LET c == req[r].act.canary
       IN \/ /\ IsRegistered(c) /\ ~IsOpen(c)
             /\ req' = [req EXCEPT ![r].pc = "probe", ![r].p = c]
          \/ /\ ~(IsRegistered(c) /\ ~IsOpen(c))
             /\ Goto(r, "resolve")
    /\ UNCHANGED <<Breaker, counter, active>>

\* resolveProviders: a flat list, or "no route matched".
ResolveFlat(r) ==
    LET m == req[r].model
        i == CHOOSE i \in Resolvable(m) : \A j \in Resolvable(m) : i <= j
    IN \/ /\ Resolvable(m) # {}
          /\ Select(r, <<i, 0>>, Known(Routes[i].providers), Routes[i].rr,
                    [req[r] EXCEPT !.pc = "try", !.region = 0])
       \/ /\ Resolvable(m) = {}
          /\ Goto(r, "failed")
          /\ UNCHANGED counter

HasRegions(r) == LET i == FirstMatch(req[r].model)
                 IN i # 0 /\ Routes[i].regions # <<>>

\* Mutant of Baseline: the canary stays in the baseline list.
BaselineWithCanary(a) == Known(a.baseline)

Baseline(a) == Among(a.baseline, Registered \ {a.canary})

\* With a rollout, a unary request goes to the baseline providers, in order,
\* or to resolveProviders when there are none.  Without one, and always when
\* streaming, the route's regions come first.
Resolve(r) ==
    /\ req[r].pc = "resolve"
    /\ \/ /\ req[r].kind = "unary" /\ req[r].act # NoRollout
          /\ \/ /\ Baseline(req[r].act) # <<>>
                /\ req' = [req EXCEPT ![r].pc = "try", ![r].region = 0,
                                      ![r].queue = Baseline(req[r].act)]
                /\ UNCHANGED counter
             \/ /\ Baseline(req[r].act) = <<>>
                /\ ResolveFlat(r)
       \/ /\ ~(req[r].kind = "unary" /\ req[r].act # NoRollout)
          /\ \/ /\ HasRegions(r)
                /\ req' = [req EXCEPT ![r].pc = "region", ![r].region = 1]
                /\ UNCHANGED counter
             \/ /\ ~HasRegions(r)
                /\ ResolveFlat(r)
    /\ UNCHANGED <<Breaker, active>>

\* The next region's list, or "no available providers across all regions".
EnterRegion(r) ==
    /\ req[r].pc = "region"
    /\ LET i == FirstMatch(req[r].model)
           j == req[r].region
       IN \/ /\ j <= Len(Routes[i].regions)
             /\ Select(r, <<i, j>>, Known(Routes[i].regions[j].providers),
                       Routes[i].regions[j].rr, [req[r] EXCEPT !.pc = "try"])
          \/ /\ j > Len(Routes[i].regions)
             /\ Goto(r, "failed")
             /\ UNCHANGED counter
    /\ UNCHANGED <<Breaker, active>>

\* Mutant of TryNext: an open breaker ends the walk.
TryNextGivesUp(r) ==
    /\ req[r].pc = "try"
    /\ \/ /\ ~(req[r].queue # <<>> /\ ~IsOpen(Head(req[r].queue)))
          /\ IF req[r].region = 0 THEN Goto(r, "failed")
             ELSE req' = [req EXCEPT ![r].pc = "region", ![r].region = @ + 1]
       \/ /\ req[r].queue # <<>> /\ ~IsOpen(Head(req[r].queue))
          /\ req' = [req EXCEPT ![r].pc = "call", ![r].p = Head(req[r].queue),
                                ![r].queue = Tail(@)]
    /\ UNCHANGED <<Breaker, counter, active>>

\* One turn of the loop over a list: skip an open breaker, call the provider,
\* or, at the end of the list, go on to the next region or fail.
TryNext(r) ==
    /\ req[r].pc = "try"
    /\ \/ /\ req[r].queue = <<>>
          /\ IF req[r].region = 0 THEN Goto(r, "failed")
             ELSE req' = [req EXCEPT ![r].pc = "region", ![r].region = @ + 1]
       \/ /\ req[r].queue # <<>> /\ IsOpen(Head(req[r].queue))
          /\ req' = [req EXCEPT ![r].seen = @ \cup {Head(req[r].queue)},
                                ![r].queue = Tail(@)]
       \/ /\ req[r].queue # <<>> /\ ~IsOpen(Head(req[r].queue))
          /\ req' = [req EXCEPT ![r].pc = "call", ![r].p = Head(req[r].queue),
                                ![r].queue = Tail(@)]
    /\ UNCHANGED <<Breaker, counter, active>>

\* The call returns an answer.
Answer(r) ==
    /\ req[r].pc \in {"call", "probe"}
    /\ RecordSuccess(req[r].p)
    /\ req' = [req EXCEPT ![r].pc = "served", ![r].queue = <<>>, ![r].seen = {},
                          ![r].region = 0]
    /\ UNCHANGED <<counter, active>>

\* The call returns an error: the provider's, or the context's when the client
\* has gone away or the deadline has passed, and the breaker is told in each
\* case.  After the canary come the baseline providers, after any other the
\* rest of the list.
Fail(r) ==
    /\ req[r].pc \in {"call", "probe"}
    /\ RecordFailure(req[r].p)
    /\ req' = [req EXCEPT ![r].pc = IF @ = "probe" THEN "resolve" ELSE "try",
                          ![r].seen = @ \cup {req[r].p}, ![r].p = ""]
    /\ UNCHANGED <<counter, active>>

-----------------------------------------------------------------------------
(* The world around *)

\* Admins and the evaluator move rollouts along (module Rollout).
RolloutChanges(m, a) ==
    /\ a # active[m]
    /\ active' = [active EXCEPT ![m] = a]
    /\ UNCHANGED <<Breaker, counter, req>>

Tick ==
    /\ sinceFail' = [p \in Registered |->
                        IF sinceFail[p] \in 0 .. ResetAfter
                        THEN sinceFail[p] + 1 ELSE sinceFail[p]]
    /\ UNCHANGED <<failures, counter, active, req>>

RouterNext ==
    \/ \E r \in Requests :
        \/ \E m \in Models, k \in RequestKinds, d \in Draws : Begin(r, m, k, d)
        \/ TryCanary(r)
        \/ Resolve(r)
        \/ EnterRegion(r)
        \/ TryNext(r)
        \/ Answer(r)
        \/ Fail(r)
    \/ \E m \in Models : \E a \in Rollouts[m] \cup {NoRollout} : RolloutChanges(m, a)
    \/ Tick

RouterSpec == RouterInit /\ [][RouterNext]_routerVars

\* Time passes.
RouterLiveSpec == RouterSpec /\ WF_routerVars(Tick)

-----------------------------------------------------------------------------
(* Properties *)

\* The providers request x may be sent to: the baseline of its rollout, or
\* what resolveProviders finds, or all regions of its route.
FlatOffers(m) ==
    IF Resolvable(m) = {} THEN {}
    ELSE ToSet(Known(Routes[CHOOSE i \in Resolvable(m) : \A j \in Resolvable(m) : i <= j].providers))

RegionOffers(i, j) == ToSet(Known(Routes[i].regions[j].providers))

ByRollout(x) == x.kind = "unary" /\ x.act # NoRollout

Regional(x) == /\ ~ByRollout(x) /\ FirstMatch(x.model) # 0
               /\ Routes[FirstMatch(x.model)].regions # <<>>

Offered(x) ==
    IF ByRollout(x) /\ Baseline(x.act) # <<>> THEN ToSet(Baseline(x.act))
    ELSE IF Regional(x)
    THEN UNION {RegionOffers(FirstMatch(x.model), j) :
                   j \in 1 .. Len(Routes[FirstMatch(x.model)].regions)}
    ELSE FlatOffers(x.model)

\* A request fails only when every provider it may be sent to has failed it
\* or was circuit-broken when it was its turn, whatever other requests did to
\* the breaker meanwhile (routeWithCanary, routeWithRegions, tryProviders,
\* RouteStream).
FallbackExhaustive ==
    \A r \in Requests : req[r].pc = "failed" => Offered(req[r]) \subseteq req[r].seen

\* The canary serves only requests the draw has given it, fallbacks included:
\* its share of the unary traffic is the rollout's percentage and not more
\* (routeWithCanary; RouteStream falls back to the whole route instead).  With
\* no other baseline provider registered there is nothing to compare it with,
\* and normal route resolution may pick it for all requests.
CanaryByDraw ==
    \A r \in Requests :
        req[r].pc = "served" /\ ByRollout(req[r]) /\ Baseline(req[r].act) # <<>>
            /\ req[r].p = req[r].act.canary => req[r].drawn

\* An open breaker always lets a call through again: late failures of calls
\* made before it opened can only put that off.
BreakerReopens == \A p \in Registered : IsOpen(p) ~> ~IsOpen(p)

-----------------------------------------------------------------------------
(* The inductive invariant behind the theorems of StreamProofs *)

ReqType ==
    [pc : {"idle", "canary", "resolve", "region", "try", "call", "probe", "served", "failed"},
     model : Models \cup {""}, kind : {"unary", "stream"},
     act : RolloutType \cup {NoRollout}, drawn : BOOLEAN, region : Nat, queue : Seq(Registered),
     p : Registered \cup {""}, seen : SUBSET Registered]

RouterTypes ==
    /\ failures \in [Registered -> 0 .. Threshold]
    /\ sinceFail \in [Registered -> -1 .. ResetAfter + 1]
    /\ counter \in [Lists -> Nat]
    /\ active = [m \in Models |-> active[m]]
    /\ \A m \in Models : active[m] \in Rollouts[m] \cup {NoRollout}
    /\ req \in [Requests -> ReqType]
    /\ \A r \in Requests : req[r].pc \in {"call", "probe"} => req[r].p \in Registered

\* What is left of the list request x is at, the call in progress included.
ToTry(x) == ToSet(x.queue) \cup (IF x.pc = "call" THEN {x.p} ELSE {})

\* How far request x has come: what it may be sent to has been seen or is left,
\* region by region if the route has regions.
Walked(x) ==
    /\ x.pc \in {"try", "call"} /\ x.region = 0 => Offered(x) \subseteq x.seen \cup ToTry(x)
    /\ x.pc = "region" => x.region # 0
    /\ x.pc \in {"region", "try", "call"} /\ x.region # 0 =>
         LET i == FirstMatch(x.model)
         IN /\ Regional(x)
            /\ \A j \in 1 .. Len(Routes[i].regions) :
                 j < x.region => RegionOffers(i, j) \subseteq x.seen
            /\ x.pc # "region" => RegionOffers(i, x.region) \subseteq x.seen \cup ToTry(x)
    /\ x.pc = "failed" => Offered(x) \subseteq x.seen

\* A request the draw has not given to the canary keeps away from it.
KeptAway(x) ==
    ByRollout(x) /\ Baseline(x.act) # <<>> /\ ~x.drawn =>
        /\ x.pc \notin {"canary", "probe"}
        /\ x.act.canary \notin ToSet(x.queue)
        /\ x.pc \in {"call", "served"} => x.p # x.act.canary

RouterInv ==
    /\ RouterTypes
    /\ \A r \in Requests : Walked(req[r]) /\ KeptAway(req[r])
=============================================================================
