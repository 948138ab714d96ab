# A TLA+ model of the AegisFlow gateway

AegisFlow is an AI gateway in Go: clients send OpenAI-style chat requests, the
gateway authenticates, rate-limits, budgets, filters, caches and routes them to
model providers, and records what they cost.  Around it are an admin API, canary
rollouts, analytics with anomaly alerts, and a Kubernetes operator that writes
its configuration.  Its request path is a set of goroutines that share small
pieces of state under separate locks.  That is what these modules model: which
steps are atomic, what may happen between them, and what holds anyway.

Paths below are relative to the repository root.

## 1. Inventory

| Component | State it keeps | Operations | What makes it correct |
|---|---|---|---|
| Rate limiting: `internal/ratelimit/memory.go`, `internal/middleware/ratelimit.go`, `token_ratelimit.go` | one window (count, resetAt) per key | `Allow` = `getOrCreate` (double-checked locking) + count | no admission escapes the count; a denial is deserved |
| Rollouts: `internal/rollout` | rows in a memory or Postgres store | create, pause, resume, rollback; evaluation loop promotes or rolls back | legal transitions, one active rollout per model, coherent rows, every running rollout gets evaluated |
| Router: `internal/router` | circuit breaker per provider, round-robin counters, current rollout | route a unary or streaming request | fallback tries everything on offer; the canary gets its share only; a breaker closes again |
| Budgets: `internal/budget/budget.go`, `internal/middleware/budget.go` | accumulated spend and month per scope, in memory | check (twice per request), record spend | the ledger is exact, overshoot is bounded, an exhausted scope reopens |
| Usage: `internal/usage`, `usageHandler` | counters per tenant and per model | `Record` (before the spend), the usage page encoded from live pointers | the page and the budget do not contradict each other |
| Policies: `internal/policy`, `initPolicyEngine` | two lists of filters; one WASM instance per plugin, shared by all requests | walk through the filters; `callCheck`: eight steps into the guest, without a lock | a content is judged by the filters for it alone; `on_error` decides every error |
| Chat handler: `internal/gateway/handler.go` | event queue; uses policy engine, cache, usage, budget, analytics, webhooks | `ChatCompletion`, `handleStream`, `dbWorker`, `Close` | blocked content is not served, each event ends in one place, the books agree |
| Streaming: `handleStream`, `ChatCompletionStream` of the providers | pipe between two goroutines, bytes since the last policy check | relay, translate, cut | bounded exposure of blocked text, `[DONE]` only after a whole answer, no goroutine left behind |
| Response cache: `internal/cache/cache.go` | map of entries with expiry | `Get`, `Set` with eviction | size, tenant isolation, good answers kept while there is room |
| Analytics: `internal/analytics` | time series, alerts, counters of normal evaluations | record, evaluate, process alerts, acknowledge | each point counted once in its minute; alerts raised, resolved and acknowledged properly |
| Hot reload: `internal/config/watcher.go` | last modification time, configuration | stat, load, swap | no write of the file is overlooked |
| Operator: `internal/operator`, `cmd/aegisflow-operator` | the API server's objects, caches, a work queue | reconcile: list all kinds, get, create or update the ConfigMap | the ConfigMap moves forward; changes of what it copies arrive |

Other parts (Redis limiter, request log, aegisctl, telemetry, ...)
are listed in `PROJECT.json` with the reason they are not, or not fully, modelled.

**How they interact.**  `cmd/aegisflow/main.go` wires a chain: Auth, RateLimit,
TokenRateLimit, BudgetCheck, then the handler.  The handler calls, in this order,
the budget check with the model, the input policy, (for unary requests) the
cache, the router, the output policy, the cache again, the usage tracker, the
event queue, `RecordSpend` and the analytics collector.  The router asks the
rollout manager for the model's running rollout.  Background goroutines:
`dbWorker` (drains the queue), the rollout evaluation loop, the detector loop,
the config watcher, one goroutine per translated stream, and one per webhook.

**What is hard.**  State is read under one lock and used after it was released
(windows, breakers, budgets, rollout clones); two processes write the same
rollout row with no version check; the provider call separates the budget check
from the charge; a chunk is sent before it is judged; shutdown closes a channel
that handlers may still send on; all requests run inside one WASM instance and
use its buffers; pages are encoded from counters that go on counting; informer caches and the file on a volume lag
behind what they mirror; month boundaries, window boundaries, full queues and
full caches are all corner cases a unit test has to aim at.  The list with lines
is `hazards` in `PROJECT.json`.

## 2. Modules

| Module | Models | State and code |
|---|---|---|
| `RolloutLifecycle` | abstract specification: what an operator may expect of rollouts | `phase[i]`: model, state and stage of a rollout. `lost`: an outdated record was written over a row |
| `Rollout` | `internal/rollout` | `rollouts` = the table; `op[p]` = the clone a process has read and changed and is about to write; `todo`, `snap` = the rest of an `evaluateAll` pass. Each manager operation is a read step and a `Write` or `WriteFails` step |
| `RateLimit` | both limiters and their middlewares | `windows` = the map, `win` = window objects (so that a duplicate creation is visible), `req` = where each request is in `Allow` |
| `Router` | `internal/router`, and which providers `initProviders` registers | `failures`, `sinceFail` = `CircuitBreaker`; `counter` = round-robin; `req[r].queue` = what is left of the list a request walks through. Asking the breaker and hearing from the provider are two steps |
| `Budget` | budget manager, middleware and handler checks | `acc`, `current` = `accumulated`, and whether `currentPeriod` is this month; `Restart` loses them |
| `Accounting` | what the handler books for an answer, the usage store and its page, composed with the budget | extends `Budget`; `total`, `byModel` = `TenantUsage`, `ModelUsage`; `book[r]` = how far the handler is; `lock` = the store's mutex; `page` = the JSON encoder's progress |
| `Policy` | `initPolicyEngine`, the engine, the filters, `WasmFilter` | `engine` = the loaded filters; `guest[f]` = the plugin's result buffer, and whether it is still sane; `harmed` = the plugins two checks were in at once or a call failed in; `req[r]` = the locals of `Check` and `callCheck` |
| `Gateway` | the chat handler, event queue, shutdown | `req[r].pc` follows `ChatCompletion`; `dbQueue`, `worker`; `phase` = shutdown in `main`; `died` = the events that went down with the process; sets record who was counted, charged, reported |
| `Stream` | the relay loop of `handleStream`, against any source | `bytesScanned`; `offending` = the engine's verdict on the accumulated text, which may come and go; `exposed` = what was sent under it |
| `Streaming` | the same loop behind a provider's goroutine and an `io.Pipe`, or an upstream body | extends `Stream`; `gpc`, `event`, `pending` = the goroutine and the write in progress |
| `Cache` | `BuildKey`, `MemoryCache` | `entries`; keys are the byte strings that are hashed |
| `Detector` | `summarize`, `percentile`, `checkStatic`, `checkBaseline`, `checkMetricAnomaly` as operators on a series | no state |
| `Analytics` | collector, detector loop, alert manager | extends `Detector`; `series`, `active`, `normal` = `normalCounters` |
| `Operator` | the reconciler and the controller around it | `cluster`, `cm` = API server (of each kind, the version of the fields `buildConfig` copies and of those it drops); `cached`, `cmCached`, `queued` = controller-runtime; `next`, `got`, `based` = the locals of `Reconcile` |
| `Watcher` | `Load` in `main`, `NewWatcher`, `check` | `newer`, `rewritten` are the outcomes of the comparison of times; `proc` |
| `ConfigDelivery` | `Operator`, the kubelet, `Watcher` composed | |
| `Sums`, `SumTheorems` | what a map of counters adds up to, and the facts about such sums (and induction) that the proofs cite | no state |
| `*Proofs` | theorems about `Rollout`, `RateLimit`, `Policy`, `ConfigDelivery`; `AccountingProofs` also about `Budget` and `Analytics`, `GatewayProofs` about `Cache`, `StreamProofs` about `Stream`, `Streaming` and `Router` | |
| `MC*` | constants for TLC; `MCStores` runs `RateLimit` and `Cache`, each with the other at rest | |

Every definition that translates code is in `map` of `PROJECT.json` with its
lines.  Where one definition stands for several pieces of code (the branches of
`TryCanary` in `routeWithCanary` and `RouteStream`, the goroutines of four
providers in `NextPiece`), `map` names one of them and the neighbouring
definitions name the others.

Abstractions that recur:

* **Time** is kept as the outcome of the only comparisons the code makes with it:
  the age of a rollout stage saturates at the observation window, the age of a
  provider's last failure just above the reset time, a cache entry has time left,
  a budget tracker is of this month or it is not, the file is newer than
  `lastMod` or it is not.  Only `RateLimit` and `Analytics` have a clock, because
  their properties are about intervals.
* **Content** is a member of a small set: a filter is the set of contents it
  objects to, the Kubernetes objects of a kind two version numbers (of the fields
  the operator copies and of those it drops), a stream's text whether the engine
  would block it as it stands.
* **The WASM guest** is the example plugin of `examples/wasm-plugin`: `check` frees
  what `alloc` handed out and a violation replaces the one result buffer.  Two
  calls in it at once, a trap, or the use of a freed buffer make it `corrupt`, and
  from then on it answers anything: what wazero and the guest's runtime do then
  is undefined.
* **History variables** (`raced`, `fresh`, `sure`; `spent`, `adm`; `paid`; `solo`,
  `harmed`; `died`; `exposed`, `delivered`; `quiet`, `seen`; `mixed`, `missed`) are written and, in
  the actions, never tested.  They exist to state properties.

External parts, modelled from how the code uses them: `io.Pipe`, request
contexts, the API server's optimistic locking, controller-runtime's caches and
work queue, Deployments, the kubelet's atomic volume writer, the JSON encoder,
clocks.  The WASM guest is translated from `examples/wasm-plugin/main.go`.

`Gateway` and `Stream` take a verdict of the policy engine for one step that
depends on the content alone.  For keyword, regex and PII filters that is what the
code does.  For a WASM filter it is what `SoloVerdict` shows of a check that finds
its plugins sound and has each to itself, and `CorruptedByOverlap` says that they
are sound until two checks overlap in one or a call fails.  After that, and for
checks that overlap, only `OnErrorHonoured` is left, and what the two modules say
of blocked content does not extend to them.

## 3. Runs

| Run | Question | Bounds | Result |
|---|---|---|---|
| `rollout` | Do concurrent changes keep rows coherent, active rollouts unique and transitions legal, and does the evaluator get to every running rollout? | 1 admin + evaluator, 2 models, 2 rollouts, 2 stages, window 1, `ListLimit` = 1 | holds, with the escape for lost updates described below, and except for rollouts behind a full listing of newer ones |
| `rollout_terminal` | Are `rolled_back` and `completed` final? | 1 admin, 1 rollout | **violated**: see section 6 |
| `stores` | Do racing requests respect the limits, across window boundaries? Does the cache keep its size, its tenants apart, and what is still good? | 2 requests, 1 tenant, both limiters (2 requests, 3 tokens), period 2, time 4; 2 callers of the cache, 4 queries of 2 tenants, size 2, TTL 2 | holds |
| `ratelimit_sliding` | Does any stretch of one period admit at most the limit? | as `stores`, the limiters alone | **violated**: see section 6 |
| `router` | Is fallback exhaustive, the canary's share respected, the breaker temporary? | 2 requests, unary and streaming; a round-robin route with a rollout, a route with 2 regions; an unregistered name in each; threshold 2 | holds |
| `budget` | Is the ledger exact, by how much can a limit be overshot, and do usage and spend contradict each other? | 2 requests, limits on global, tenant and model, cost 0..2, 3 answers booked per process, restarts, the usage page | holds |
| `budget_reopen` | Does an exhausted scope open again in a later month? | 2 requests, a global limit of 2 | **violated**: see section 6 |
| `policy` | What do concurrent requests make of a plugin's verdict? | 2 requests, 3 contents, 2 input and 3 output policies, one plugin in each phase, `on_error` default and `allow`; any plugin may fail to load | holds |
| `gateway` | Is blocked content held back, is each event accounted for, do the books agree, does the queue drain, and does a stuck database hold up requests? | 3 requests, 2 prompts and 2 answers (one of each offends), queue of 1, shutdown at any time, a database that fails or hangs | holds |
| `streaming` | Exposure, completeness, termination | 4 pieces, events of 2, 5 and 7 bytes, buffer 4, interval 9, all five kinds of provider | holds |
| `analytics` | Points counted, anomalies alerted, alerts resolved and acknowledged properly | 4 handlers, 3 latencies, 3 buckets, 2 minutes, static and baseline checks armed | holds |
| `config` | Is a change of what the operator copies loaded, and does nothing go back or get overlooked? | 2 pods; 2 changes of gateways and 1 of another kind, each of a copied or a dropped part | holds |

Why the bounds are enough to meet the interesting cases:

* `rollout`: the admin and the evaluator are two writers that hold clones of one
  row; two models and two rows make a second creation both legal and illegal.  With
  a listing of one row, the second rollout hides the first from the evaluator, as
  the fifty-first does in the code.
  More admins are covered by the proofs (`RolloutProofs` is for any number).  No
  symmetry: the run checks liveness.
* `stores`: the limiters and the cache share nothing, so a behaviour is of one of
  them, with the other at rest.  A period of 2 and a time of 4 see two window boundaries, the
  instant `clock = resetAt` included, on which the `>` in `Allow` depends; three
  window objects allow one more than the two keys need.  A cache of two with four
  queries is full, of live and of expired entries.
* `router`: two providers, two requests and a threshold of 2 let one request's
  failures open the breaker under the other's feet; draws 49 and 50 lie on both
  sides of the 50 % rollout.
* `budget`: limits 3, 2 and 1 with costs up to 2 make each scope the first to be
  exhausted in some behaviour, and overshoot happen.  Two requests and three
  answers per process let one answer be booked while the page is between total
  and models and another holds the lock.  Symmetry on requests is sound: the
  properties are safety properties and do not name one.
* `policy`: the input phase has the plugin first and a filter behind it that
  objects to the same content, the output phase has it between a policy that is
  not loaded and one that objects to less, so that passing, moving on and refusing
  differ.  A request checks one content after another in either phase, so what an
  earlier check left in the guest is there for the next.
* `gateway`: with a queue of one, three requests reach full queue, worker busy
  and drop at once.  `CHECK_DEADLOCK FALSE`: the process exits.
* `streaming`: events below, at and above one buffer; the interval is not a
  multiple of the buffer.  `CHECK_DEADLOCK FALSE`: a stream ends.
* `analytics`: a baseline window of 3 buckets with 1 recent one, fewer points
  than in production but the same formula; the late point that opens a second
  bucket for its minute is among the behaviours.  One series: the series do not
  share state except the detector's result, which is a union.
* `config`: two pods meet every overlap and replacement.  The constraint
  `Unmixed` counts the states where pods overlap or defaults are used, and does
  not explore beyond them: `mixed` never becomes false again, and both
  `ConfigMapForward` and `GatewayEditLoaded` hold trivially once it is true, so
  nothing that could violate them is cut off.  For `NothingOverlooked` the proof
  covers the rest.

**Fairness.**  Liveness is checked under these assumptions only:

* `rollout`: the evaluation loop's steps are weakly fair: its ticker fires
  every 10 s (`manager.go:43`) and store calls have a 10 s timeout.
* `router`: time passes.  Nothing is assumed of requests.
* `budget_reopen`: months pass, clients of every tenant and model come back,
  handlers go on and answers cost something.  Even so the property fails.
* `gateway`: the handlers run while the process does, and providers return or
  fail (they have timeouts).  `RecordEvent` has no deadline, so nothing is assumed
  of the worker: that it is fair is a premise of `QueueDrains`, and
  `RequestsAnswered` does without it.  No fairness on shutdown.
* `streaming`: both goroutines are scheduled, upstream reads return (HTTP client
  timeouts, or the cancelled context), writes to the client's connection return
  (`WriteTimeout`).
* `analytics`: the detector's ticker fires.
* `config`: a Deployment keeps a pod up, caches catch up, the controller retries
  with back-off, the kubelet syncs, the watcher's ticker fires; and of calls that
  may fail (list, get, write, load, start) that they do not fail every time:
  strong fairness, because each retry enables them again.

**Mutants.**  Each property of a passing run has a mutant: an operator just
above the definition it replaces, with a bug of the kind that code invites
(a missing second look under the write lock, a reset that is not rearmed, an
answer cached before it is judged, `lastMod` taken after the load).  With the
mutant in place TLC finds a violation.

## 4. What the properties say

* `RowsCoherent`, `OneActiveUnlessRaced`, `LifecycleImplemented` (`Rollout`).
  The rows are not locked between read and write, so `raced` records that a write
  went over a row that had changed since.  Without it the active rollout of a
  model is unique and each write is a transition of `RolloutLifecycle`; with it,
  only the overwritten row is disturbed and it is still coherent.
* `EveryRunningEvaluated` (`Rollout`).  Each running rollout gets into a pass of
  the evaluator, stops running, or ends up behind as many newer rows as `List`
  returns; in the last case it stays there, since rows are not deleted.
* `NoOverspend`, `DenialJustified` (`RateLimit`).  The count of a key's window is
  exactly what was admitted since it opened; a 429 means that the last period
  really was full.  `SlidingWindow`, the limit itself over any stretch of one
  period, is what the documents promise and is violated; that twice the limit is
  never exceeded (`BurstBound`) is a theorem only.
* `FallbackExhaustive`, `CanaryByDraw`, `BreakerReopens` (`Router`).  `Offered` is
  exactly the list or lists a request is given: its rollout's baseline, all regions
  of its route, or what `resolveProviders` finds.  `CanaryByDraw` is about unary
  requests under a rollout that has a registered baseline provider besides the
  canary: without one, `routeWithCanary` resolves the route as usual, and the route
  may name the canary.
* `LedgerExact`, `OvershootBounded`, `AdmittedWithinBudget` (`Budget`), and with the
  handler's books around it `UsagePageOffByOne`, `LedgerWithinUsage`
  (`Accounting`).  "Paid" is what was paid this month to this process: the ledger
  is in memory.
* `SoloVerdict`, `CorruptedByOverlap`, `OnErrorHonoured` (`Policy`).  The first is
  about checks that find the plugins on their way sound and to themselves: nothing
  an earlier check left there (its result buffer above all) shows.  A plugin that is
  corrupt is so for good, and every later check in it is outside the first property;
  the second says when that can be: not before two checks have overlapped in it or a
  call has failed.  The third is what is left then: a content is never passed because of an error
  where errors are to block, nor refused because of one where they are to allow.
* `BlockedNotServed`, `EventsAccounted`, `BooksAgree`, `QueueDrains`,
  `RequestsAnswered` (`Gateway`).  An event is in the queue, with the worker, written,
  logged as lost, or, once the process is gone, among those that died with it; never
  in two places, and never unlogged and nowhere while the process runs.  The last says that a worker stuck in the
  database, with the queue full behind it, keeps no request from its end.
* `ExposureBounded`, `DoneMeansComplete`, `StreamsEnd` (`Stream`, `Streaming`).
  The bound is on what goes out while the engine's verdict on the text so far is
  "block".  Where a warn or log filter ahead of the blocking one objects too, the
  verdict is not "block", the count starts anew and the stream goes on: nothing
  bounds that.
* `SizeBounded`, `TenantIsolated`, `LiveKept` (`Cache`).  A good answer is dropped
  only for lack of room among good answers.
* `PointsCounted`, `AnomalyAlerted`, `ResolvedAfterQuiet`, `AcknowledgedWasSeen`
  (`Analytics`).
* `ConfigMapForward` (`Operator`), `NothingOverlooked` (`Watcher`),
  `GatewayEditLoaded` (`ConfigDelivery`): loaded, not applied, and only of the
  fields the operator copies.

## 5. Proofs

All proofs are checked by TLAPS to the last leaf, for every value of the
constants that satisfies the named assumptions.  Every safety property that a
passing run checks, invariant or action property, is a theorem.

A proof module may extend two components that share no state: `GatewayProofs` is
about `Gateway` and, apart from it, `Cache`; `StreamProofs` about `Streaming` and
`Router`; `AccountingProofs` about `Accounting` and `Analytics`.

The inductive invariants are defined at the end of the modules they are about,
and TLC has checked each of them on the instance of that module's run.

* **`SumTheorems`**.  `Total(f, S)` is the library's fold over a finite set.
  The prover cannot use the library's induction theorems, which take a predicate
  as a parameter; here a predicate is the *set* of the numbers, or of the subsets,
  that satisfy it, and `NatSetInduction` and `FiniteSetInduction` are proved from
  the existence of minimal elements (`WFMin`).  By these: the fold's recursion is
  well defined whatever element `CHOOSE` takes first (`FoldExists`, `FoldsAgree`),
  any element may be split off (`TotalSplit`), and what changing, adding, dropping
  or comparing summands does (`TotalUpdate`, `TotalAdd`, `TotalUnion`,
  `TotalSubset`, `TotalLeq`, ...).

* **`RolloutProofs`** from `RolloutAssumption`.  `IndInv` = types, coherent rows,
  and: what is about to be written is a coherent row with a known id
  (`ClonesCoherent`); ids are used once (`IdsFresh`); a clone that is marked fresh
  differs from its row by a legal transition (`FlagsSound`); a creation whose
  check still stands finds no active row (`ChecksStand`).  Coherence alone is not
  inductive: a write puts a clone into the table, so clones must be coherent too.
  Uniqueness needs `ChecksStand`, and that needs `FlagsSound` (a fresh resume or
  promotion cannot make a second active row) and `IdsFresh`.  Theorems:
  `RolloutTypes`, `RolloutCoherent`, `RolloutUnique`, and
  `RolloutRefinesLifecycle`, the refinement, whose steps use the same invariant.
* **`RateLimitProofs`** from `RateLimitAssumption`.  The strengthening is
  `OneWindowPerKey`: a request that is about to count holds the object the map
  has for its key, and no two keys share one; that is what the second look under
  the write lock buys.  `HistoryInv` ties windows to the time line of admissions:
  the window's count is the total admitted since it opened, nothing is admitted
  outside windows, and what was admitted within a period before it opened is at
  most the limit, because it all fell into the previous window.  `BurstBound` adds
  the two halves; `DenialJustified` needs that an unexpired window opened less
  than a period ago.  Theorems: `RateLimitTypes`, `RateLimitNoOverspend`,
  `RateLimitHistory`, `RateLimitBurst`, `RateLimitDenial`.
* **`AccountingProofs`** first, from `BudgetAssumption`, of `Budget` alone.  `Reserved` adds to each tracker
  what its requests in flight may still cost; admitting one needs an unexhausted
  scope, and recording one moves cost from one side to the other; a restart
  forgets requests and ledger together.  Theorems:
  `BudgetTypes`, `BudgetOvershoot`, `BudgetLedger`, `BudgetAdmission`.
* **`AccountingProofs`**, from `AccountingAssumption` too (a tenant exists, model
  names are finitely many).  `BooksStep`: a request
  being booked is an answered unary one in flight, with a cost within the bound.
  With that, every step of `Accounting` is a step of `Budget` or leaves its
  variables alone (`AccountingRefinesBudget`), and Budget's theorems carry over:
  `AccountingLedger`, `AccountingOvershoot`, `AccountingAdmission`.
  `AccountingInv` relates the books: one request at most is inside `Store.Add`;
  a tenant's total is the sum of its models' counters, plus one if the lock's
  holder is between the two (`CountedByModel`); the entries the page has listed
  and those it has still to encode make up its total but for one (`PageAhead`); usage covers what was charged
  and what the requests between usage and spend still owe (`ChargedOnce`).  Each
  is a statement about sums, and no smaller one is inductive: `UsagePageOffByOne`
  compares a total read earlier with counters read one by one later.  Theorems:
  `AccountingInvariant`, `AccountingTypes`, `AccountingPage`,
  `AccountingLedgerWithinUsage`.
* **`AccountingProofs`**, of `Analytics`, from `AnalyticsAssumption` (finitely many
  handlers; the dimensions of one point are distinct, which their prefixes see to).
  What a ring holds of a minute is a sum over its buckets; four lemmas say how
  appending a bucket, changing the newest, and dropping the oldest change it, and
  `AddedHolds` puts them together for `TimeSeries.Record`.  `AlertsKept` says that
  an active alert bears the time of the evaluation that raised it, and that its
  normal evaluations are the last ones; the first is why an ID on a screen cannot
  name a later alert, the second why an alert is not resolved early.  That no
  bucket counts more points than there are follows from `PointsCounted` and not
  from the types.  Theorems: `AnalyticsInvariant`, `AnalyticsTypes`,
  `AnalyticsCounted`, `AnalyticsSeen`, `AnalyticsResolved`.
* **`PolicyProofs`** from `PolicyAssumption`.  `IndInv` adds to the types that a
  request inside a plugin is at the place of a WASM policy, and that a
  result is fetched only after a check that returned 1 (`PluginSteps`).  The
  invariant says nothing of buffers, results and health of the guest: that is the
  point of `OnErrorHonoured`, which holds whatever the guest does.  `SoloInv` is
  about a check nobody has interfered with: it is alone in its plugin, no filter it
  has passed objects to its content, and the verdict, the result buffer and the
  length it reads in the guest are those of its own call (`OwnResult`).  Every
  action of another request has to leave that alone or end the solitude.
  `HarmInv` is about all checks: two requests in one plugin, or one that still holds
  a buffer the guest has freed, are on record in `harmed` (`OverlapSeen`), and a
  guest that is not on record is sound.  The second part is needed because a check
  uses its buffer steps after another one freed it.
  Theorems: `PolicyInvariant`, `PolicyTypes`, `PolicyOnError`,
  `PolicySoloInvariant`, `PolicySolo`, `PolicyHarmInvariant`, `PolicyCorrupted`.
* **`GatewayProofs`** from `GatewayAssumption`.  `IndInv` has the three properties
  and, for each request, `Progress`: where it is in the handler decides which books
  it is in and which verdicts it has behind it.  That is not enough for a cache hit,
  which skips the route and the output check, so `CacheJudged` says the same of the
  entries.  `EventsAccounted` needs `Placed`: an event is due exactly when its
  request was counted, has passed the send and did not panic, and then it is in one
  place; a send or a receive keeps that because the events in the queue are
  distinct, and the exit moves what queue and worker hold to `died`.  Most actions change one request's record, and `StepOf` proves once
  what such a step leaves alone.  Theorems: `GatewayInvariant`, `GatewayTypes`,
  `GatewayBlocked`, `GatewayEvents`, `GatewayBooks`.
* **`GatewayProofs`**, of `Cache`, from `CacheAssumption` (tenants' names have no zero
  byte).  `FiledByKey`: an entry is found under the key of the query it answers.
  Isolation then comes down to keys: two byte strings that agree and have their
  first zero byte after the tenant's name have the same name before it, whatever
  follows.  Theorems: `CacheInvariant`, `CacheTypes`, `CacheBounded`,
  `CacheIsolated`, `CacheLiveKept`.
* **`StreamProofs`** from `StreamAssumption`, `StreamingAssumption`.  `Unchecked`:
  between reads, what was exposed since the last verdict is still counted in
  `bytesScanned`; it holds because a check either cuts the stream or finds nothing to
  block, and then both start anew.  `PipeInv`:
  a write in progress has something left, and each piece is to come, being
  written, delivered or dropped.  Theorems: `StreamInvariant`, `StreamTypes`,
  `StreamExposure` about the loop; `StreamingComplete`, `StreamingExposure`.  The
  last comes from `Stream`'s by a lemma: the relay in `Streaming` is `Stream`'s own
  loop, and all that is left to show is that a read returns at least a byte and no
  more than the buffer.
  `StreamingTypes` adds `PipeTypes`: no more pieces are about than there are.
* **`StreamProofs`**, of `Router`, from `RouterAssumption`, which only types the
  configuration.  `Walked` says how far a request has come: what it may be sent to
  has been seen, is in the rest of its list, or is being called; with regions, all
  of the earlier regions have been seen and the current one is accounted for in
  that way.  It is about the request's own record, so what other requests do to
  breaker and counters cannot disturb it; that a round-robin rotation is a
  permutation (`RotatedSame`) and that filtering a list by the registry leaves
  registered names (`AmongThem`, by induction on the list) are the lemmas behind it.
  `KeptAway`: a request not drawn for the canary has it neither ahead of it nor at
  hand.  Theorems: `RouterInvariant`, `RouterTypesHold`, `RouterExhaustive`,
  `RouterCanary`.
* **`ConfigDeliveryProofs`** from `OperatorAssumption`.  As long as nothing is
  mixed, at most one pod is up, its cache is at least as new as the ConfigMap,
  and so is what it has listed (of the copied fields, in both cases); that is inductive because a pod starts with
  synced caches and caches only move forward.  `NothingOverlooked` needs that
  `rewritten` and what was read are related while a check goes on.  Theorems:
  `ConfigTypes`, `ConfigNothingOverlooked`, `ConfigForward`.

**Only model-checked.**  Liveness (`EveryRunningEvaluated`, `BreakerReopens`,
`QueueDrains`, `RequestsAnswered`, `StreamsEnd`, `AnomalyAlerted`,
`GatewayEditLoaded`): the prover has no rule for fairness or `ENABLED`.  What
`Detector`'s checks compute is used by no theorem: the alert manager's hold whatever
is anomalous.  The type invariants of `Rollout`, `RateLimit`, `Budget`, `Accounting`,
`ConfigDelivery`, `Policy` and `Gateway` are proved, and no run repeats them.

## 6. Where code and documents disagree

Three disagreements are runs that TLC must find violated:

* `rollout_terminal`: `PauseRollout`, `ResumeRollout`, `promote` and `doRollback`
  write back a clone read earlier.  An evaluator that read a running row before an
  administrator's rollback promotes it after: the rollout is running again, with
  traffic, although `CHANGELOG.md:12` gives a state machine without such a
  transition.
* `budget_reopen`: `Check` looks at the accumulated spend without its month, and
  the reset is in `RecordSpend`, which no refused request reaches.  A scope that
  was exhausted stays closed when the month turns, although `budget.go:71` says
  "Reset if new period".
* `ratelimit_sliding`: `Allow` counts in windows that follow one another
  (`memory.go:36`), although `README.md:104`, `CHANGELOG.md:109` and `docs/about.md:93`
  say "sliding window".  What is admitted at the end of one and at the beginning of
  the next may be twice the limit in less than a period.

Others came up while translating the code.  The models do what the code does, and
the properties above are stated so that they are true of it:

* *Rollouts.*  Two concurrent creations, or one whose check fails with a store
  error, give a model two active rollouts (`manager.go:99` promises an error).
  `List()` returns the 50 newest rows of any state, so a running rollout behind
  50 newer ones is never evaluated (`manager.go:164`: "all rollouts").  `pending`
  counts as active (`memory_store.go:110`) and nothing writes it.
* *Rate limits.*  Each tenant is held to the highest quota of
  all tenants and at least 60 requests (`README.md:103`: "per-tenant").
* *Router.*  `RouteStream` falls back to the whole route, so streams the draw did
  not give to the canary may reach it (`router.go:225`).  With a rollout whose
  baseline is empty, a route that has only regions cannot be resolved
  (`router.go:129`).  A client that goes away counts as a failure of the provider,
  and of the next ones in the list (`docs/architecture.md:99`).
  `max_retries` is stored and never used (`README.md:98`: "Retry with exponential
  backoff").
* *Budget and usage.*  Streams are checked and never charged (`docs/about.md:29`).
  The ledger is lost at a restart, and so are the usage counters: a database only
  gets the events.  Usage prices tokens by model (`tracker.go:7`), the budget at a
  flat rate (`handler.go:190`), so the two costs of one answer differ.  The usage
  page is encoded without the store's lock (`admin.go:117`): a model used for the
  first time meanwhile is a concurrent map write, which ends the process.
* *Policies.*  Requests share a plugin's only instance without a lock
  (`wasmfilter.go:185`; the mutex guards the metadata pointer), so overlapping
  checks may report one another's messages or corrupt the guest.  The timeout is
  put on a context that the runtime was not told to watch
  (`WithCloseOnContextDone`), so it stops no plugin (`README.md:118`).  A plugin
  that does not load is skipped even if errors are to block, and an output policy
  of type `pii` is silently ignored (`main.go:402`).  `SetMetadata` has no caller in
  the gateway: plugins see empty metadata (`examples/wasm-plugin/README.md:33`).  With
  `on_error: allow`, an objection whose result cannot be parsed passes.
* *Handler.*  A warn or log filter in front of a block filter for the same
  content hides it (`README.md:112`).  When the shutdown timeout expires, a
  handler may send on the closed queue: the panic becomes a 500 after the usage
  was counted (`CHANGELOG.md:60`).  `main` returns without waiting for the worker
  (`handler.go:67`: "cleanly"): the events in the queue and in its hands are gone,
  and no line is logged.  Cache hits and streams have no data point
  (`CHANGELOG.md:59`), and data points carry no cost, so `cost_rate` never alerts.
* *Streaming.*  The last bytes of a stream, below the interval, are not checked
  (`README.md:551`).  When a warn or log filter ahead of a blocking one objects, the
  stream goes on however much it sends (`engine.go:49`, `handler.go:240`).  Gemini's translation drops what a single read does not
  deliver as one whole event.
* *Cache.*  Model, roles and contents are hashed without separators, so different
  queries of a tenant may share a key (`cache.go:29`).  What is evicted is the
  oldest entry (`cache.go:98`), not the least recently used one (`cache.go:42`:
  "LRU-style").
* *Analytics.*  A late point opens a second bucket for its minute
  (`CHANGELOG.md:18`).  Without new traffic the newest bucket stays the newest, and
  its alert is raised again and again instead of being resolved
  (`detector.go:73`, `CHANGELOG.md:22`).
* *Configuration.*  The operator's controller is told of gateway objects only:
  other kinds wait for the next gateway event (`reconciler.go:18` "watches
  AegisFlow CRDs", `CHANGELOG.md:44`).  Its Deployment rolls over with two pods and
  no leader election, and the older one may have the last word.  A failing list
  of gateways writes defaults.  Of the gateway resource only the ports and the log
  settings of the first one listed are copied (`reconciler.go:143`): `spec.telemetry`,
  `cache`, `database` and `admin`, further gateways, a provider's timeout and retries
  and a route's canary never reach the ConfigMap.  A file written between `Load` in `main` and `Stat`
  in `NewWatcher` is overlooked.  The reloaded configuration is logged and kept,
  and nothing asks for it: `GetConfig` has no caller.

## 7. Not modelled

* The request log and `calculateHealth`: in `Rollout` any verdict may be met.
  (Nothing feeds the request log, so in practice it is "insufficient data".)
* Redis cache and limiter: never constructed by `main.go`.
* Audit rows and SQL queries: only that an event is recorded or not.
* Delivery of webhooks: a goroutine that tries once and logs; `Gateway` records
  that it was started.
* Alerts that change under a page's pointers: pages of alerts are snapshots.
* Text: JSON translation of the providers, regular expressions and keyword
  normalisation, parsing and defaults of the configuration, metrics, logs.
* Cost forecast, aegisctl, CORS, telemetry: no shared state.

## 8. Plan

1. *Done:* rollouts, rate limits, router, budgets, handler and shutdown,
   streaming, cache, analytics, operator and watcher; then the policy engine with
   its WASM plugins, and the usage store composed with the budget.  All safety
   properties of the runs are proved.
2. Proofs next: what the composition of components promises and no run states, such
   as that the verdict `Gateway` takes for one step is the one `SoloVerdict` shows;
   `Detector`'s percentile against a definition by ranks.
3. Left aside: the request log and canary health, which production code does not
   feed; alias and transform code that `main.go` does not wire in.
