------------------------------- MODULE Gateway -------------------------------
(***************************************************************************)
(* internal/gateway/handler.go: chat requests on their way through the     *)
(* handler, the policy engine, the response cache, usage tracking and the  *)
(* queue of the database worker, and the shutdown in cmd/aegisflow/main.go.*)
(*                                                                         *)
(* Each request is served once.  Routing (module Router) is its outcome,   *)
(* the budget (module Budget) its verdict, the relay loop of a stream      *)
(* (module Stream) its end, the cache a map that may forget.               *)
(***************************************************************************)
EXTENDS Integers, Sequences

CONSTANTS Requests,
          Kinds,         \* kinds of request issued: "unary", "stream"
          Prompts,       \* a prompt stands for tenant, model and messages
          Outputs,       \* what providers may answer
          InputFilters,  \* the configured filters, in order: action, and the
          OutputFilters, \*   contents it finds fault with
          DbQueueSize    \* capacity of dbQueue (1024)

Filter == [action : {"block", "warn", "log"}, on : SUBSET (Prompts \cup Outputs)]

ASSUME GatewayAssumption ==
    /\ Kinds \subseteq {"unary", "stream"}
    /\ \A i \in 1 .. Len(InputFilters) : InputFilters[i] \in Filter
    /\ \A i \in 1 .. Len(OutputFilters) : OutputFilters[i] \in Filter
    /\ DbQueueSize \in Nat \ {0}

NoContent == "no content"

VARIABLES
    phase,    \* of the process: running, draining, drained, closed, exited
    req,      \* what each request is doing
    cache,    \* cache[q]: the response cached for prompt q, or NoContent
    dbQueue,  \* the events in the channel, named by their request
    worker,   \* the event dbWorker is writing, {} when it is receiving
    saved,    \* events in the database
    lost,     \* events logged as dropped (queue full) or failed to record
    died,     \* history: events the process had not written when it exited
    usage,    \* requests counted by the usage tracker
    spend,    \* requests whose cost was recorded
    points,   \* requests analytics has a data point of
    hooks     \* webhooks sent: <<request, kind of event>>

vars == <<phase, req, cache, dbQueue, worker, saved, lost, died, usage, spend, points,
          hooks>>

db == <<dbQueue, worker, saved, lost, died>>
books == <<usage, spend>>

PCs == {"idle", "input", "cache", "route", "output", "set", "usage", "enqueue",
        "spend", "open", "relay", "done"}

ReqType == [pc : PCs, kind : {"unary", "stream"},
            prompt : Prompts \cup {NoContent}, out : Outputs \cup {NoContent},
            status : {0, 200, 400, 403, 429, 500, 502}]

TypeOK ==
    /\ phase \in {"running", "draining", "drained", "closed", "exited"}
    /\ req \in [Requests -> ReqType]
    /\ cache \in [Prompts -> Outputs \cup {NoContent}]
    /\ dbQueue \in Seq(Requests) /\ Len(dbQueue) <= DbQueueSize
    /\ worker \in SUBSET Requests
    /\ saved \subseteq Requests /\ lost \subseteq Requests /\ died \subseteq Requests
    /\ usage \subseteq Requests /\ spend \subseteq Requests /\ points \subseteq Requests
    /\ hooks \subseteq Requests \X {"violation", "warning", "stream violation"}

Init ==
    /\ phase = "running"
    /\ req = [r \in Requests |-> [pc |-> "idle", kind |-> "unary",
                prompt |-> NoContent, out |-> NoContent, status |-> 0]]
    /\ cache = [q \in Prompts |-> NoContent]
    /\ dbQueue = <<>>
    /\ worker = {} /\ saved = {} /\ lost = {} /\ died = {}
    /\ usage = {} /\ spend = {} /\ points = {} /\ hooks = {}

-----------------------------------------------------------------------------
(* Policy engine *)

Matches(filters, c) == {i \in 1 .. Len(filters) : c \in filters[i].on}

\* CheckInput, CheckOutput: the action of the first filter that objects.
Verdict(filters, c) ==
    IF Matches(filters, c) = {} THEN "none"
    ELSE filters[CHOOSE i \in Matches(filters, c) :
                    \A j \in Matches(filters, c) : i <= j].action

-----------------------------------------------------------------------------
(* ChatCompletion *)

Alive == phase # "exited"

Goto(r, pc) == req' = [req EXCEPT ![r].pc = pc]
Reply(r, status) == req' = [req EXCEPT ![r].pc = "done", ![r].status = status]

\* A connection brings a request, until the listener is closed.
Receive(r, q, kind) ==
    /\ phase = "running"
    /\ req[r].pc = "idle"
    /\ req' = [req EXCEPT ![r].pc = "input", ![r].kind = kind, ![r].prompt = q]
    /\ UNCHANGED <<phase, cache, db, books, points, hooks>>

\* The body does not parse, or has no model or messages.
BadRequest(r) ==
    /\ Alive /\ req[r].pc = "input"
    /\ Reply(r, 400)
    /\ UNCHANGED <<phase, cache, db, books, points, hooks>>

\* The per-model budget check says no.
OverBudget(r) ==
    /\ Alive /\ req[r].pc = "input"
    /\ points' = points \cup {r}
    /\ Reply(r, 429)
    /\ UNCHANGED <<phase, cache, db, books, hooks>>

CheckInput(r) ==
    /\ Alive /\ req[r].pc = "input"
    /\ LET verdict == Verdict(InputFilters, req[r].prompt)
       IN \/ /\ verdict = "block"
             /\ hooks' = hooks \cup {<<r, "violation">>}
             /\ points' = points \cup {r}
             /\ Reply(r, 403)
          \/ /\ verdict # "block"
             /\ hooks' = IF verdict = "none" THEN hooks
                         ELSE hooks \cup {<<r, "warning">>}
             /\ Goto(r, IF req[r].kind = "stream" THEN "open" ELSE "cache")
             /\ UNCHANGED points
    /\ UNCHANGED <<phase, cache, db, books>>

CacheGet(r) ==
    /\ Alive /\ req[r].pc = "cache"
    /\ LET hit == cache[req[r].prompt]
       IN \/ /\ hit # NoContent
             /\ req' = [req EXCEPT ![r].pc = "done", ![r].status = 200, ![r].out = hit]
          \/ /\ hit = NoContent
             /\ Goto(r, "route")
    /\ UNCHANGED <<phase, cache, db, books, points, hooks>>

RouteFails(r) ==
    /\ Alive /\ req[r].pc = "route"
    /\ points' = points \cup {r}
    /\ Reply(r, 502)
    /\ UNCHANGED <<phase, cache, db, books, hooks>>

\* Mutant of Routed: the provider's answer is counted at once.
RoutedCounted(r, o) ==
    /\ Alive /\ req[r].pc = "route"
    /\ req' = [req EXCEPT ![r].pc = "output", ![r].out = o]
    /\ usage' = usage \cup {r}
    /\ UNCHANGED <<phase, cache, db, spend, points, hooks>>

Routed(r, o) ==
    /\ Alive /\ req[r].pc = "route"
    /\ req' = [req EXCEPT ![r].pc = "output", ![r].out = o]
    /\ UNCHANGED <<phase, cache, db, books, points, hooks>>

\* Mutant of CheckOutput: the answer is cached before it is judged.
CheckOutputAfterSet(r) ==
    /\ Alive /\ req[r].pc = "output"
    /\ cache' = [cache EXCEPT ![req[r].prompt] = req[r].out]
    /\ \/ /\ Verdict(OutputFilters, req[r].out) = "block"
          /\ hooks' = hooks \cup {<<r, "violation">>}
          /\ points' = points \cup {r}
          /\ Reply(r, 403)
       \/ /\ Verdict(OutputFilters, req[r].out) # "block"
          /\ Goto(r, "set")
          /\ UNCHANGED <<points, hooks>>
    /\ UNCHANGED <<phase, db, books>>

\* A warning on an answer is logged, not sent.
CheckOutput(r) ==
    /\ Alive /\ req[r].pc = "output"
    /\ \/ /\ Verdict(OutputFilters, req[r].out) = "block"
          /\ hooks' = hooks \cup {<<r, "violation">>}
          /\ points' = points \cup {r}
          /\ Reply(r, 403)
       \/ /\ Verdict(OutputFilters, req[r].out) # "block"
          /\ Goto(r, "set")
          /\ UNCHANGED <<points, hooks>>
    /\ UNCHANGED <<phase, cache, db, books>>

CacheSet(r) ==
    /\ Alive /\ req[r].pc = "set"
    /\ cache' = [cache EXCEPT ![req[r].prompt] = req[r].out]
    /\ Goto(r, "usage")
    /\ UNCHANGED <<phase, db, books, points, hooks>>

TrackUsage(r) ==
    /\ Alive /\ req[r].pc = "usage"
    /\ usage' = usage \cup {r}
    /\ Goto(r, "enqueue")
    /\ UNCHANGED <<phase, cache, db, spend, points, hooks>>

\* Mutants of Enqueue: a drop that is not logged; no default case, so the
\* handler waits for room.
EnqueueSilently(r) ==
    /\ Alive /\ req[r].pc = "enqueue"
    /\ \/ /\ phase = "closed" /\ Reply(r, 500) /\ UNCHANGED dbQueue
       \/ /\ phase # "closed" /\ Goto(r, "spend")
          /\ dbQueue' = IF Len(dbQueue) < DbQueueSize THEN Append(dbQueue, r) ELSE dbQueue
    /\ UNCHANGED <<phase, cache, worker, saved, lost, died, books, points, hooks>>

EnqueueWaits(r) ==
    /\ Alive /\ req[r].pc = "enqueue"
    /\ \/ /\ phase = "closed" /\ Reply(r, 500) /\ UNCHANGED dbQueue
       \/ /\ phase # "closed" /\ Len(dbQueue) < DbQueueSize
          /\ dbQueue' = Append(dbQueue, r)
          /\ Goto(r, "spend")
    /\ UNCHANGED <<phase, cache, worker, saved, lost, died, books, points, hooks>>

\* The non-blocking send.  On a closed channel it panics, which chi's
\* Recoverer turns into a 500.
Enqueue(r) ==
    /\ Alive /\ req[r].pc = "enqueue"
    /\ \/ /\ phase = "closed"
          /\ Reply(r, 500)
          /\ UNCHANGED <<dbQueue, lost>>
       \/ /\ phase # "closed" /\ Len(dbQueue) < DbQueueSize
          /\ dbQueue' = Append(dbQueue, r)
          /\ Goto(r, "spend")
          /\ UNCHANGED lost
       \/ /\ phase # "closed" /\ Len(dbQueue) >= DbQueueSize
          /\ lost' = lost \cup {r}
          /\ Goto(r, "spend")
          /\ UNCHANGED dbQueue
    /\ UNCHANGED <<phase, cache, worker, saved, died, books, points, hooks>>

\* RecordSpend, the data point, and the answer.
Respond(r) ==
    /\ Alive /\ req[r].pc = "spend"
    /\ spend' = spend \cup {r}
    /\ points' = points \cup {r}
    /\ Reply(r, 200)
    /\ UNCHANGED <<phase, cache, db, usage, hooks>>

\* The 500 for a writer that cannot flush is out of reach: the logging
\* middleware's responseWriter has Flush (middleware/logging.go).
OpenStream(r) ==
    /\ Alive /\ req[r].pc = "open"
    /\ \/ Reply(r, 502)
       \/ Goto(r, "relay")
    /\ UNCHANGED <<phase, cache, db, books, points, hooks>>

\* The relay ends, by itself or cut short by the output policy.
EndStream(r) ==
    /\ Alive /\ req[r].pc = "relay"
    /\ Reply(r, 200)
    /\ hooks' \in {hooks, hooks \cup {<<r, "stream violation">>}}
    /\ UNCHANGED <<phase, cache, db, books, points>>

\* TTL and eviction.
CacheForgets(q) ==
    /\ Alive /\ cache[q] # NoContent
    /\ cache' = [cache EXCEPT ![q] = NoContent]
    /\ UNCHANGED <<phase, req, db, books, points, hooks>>

-----------------------------------------------------------------------------
(* dbWorker, and the shutdown in main *)

WorkerReceives ==
    /\ Alive /\ worker = {} /\ dbQueue # <<>>
    /\ worker' = {Head(dbQueue)}
    /\ dbQueue' = Tail(dbQueue)
    /\ UNCHANGED <<phase, req, cache, saved, lost, died, books, points, hooks>>

\* Mutant of WorkerRecords: the worker gives up at the first error.
WorkerRecordsOrQuits ==
    /\ Alive /\ worker # {} /\ worker \cap lost = {}
    /\ \/ worker' = {} /\ saved' = saved \cup worker /\ UNCHANGED lost
       \/ lost' = lost \cup worker /\ UNCHANGED <<worker, saved>>
    /\ UNCHANGED <<phase, req, cache, dbQueue, died, books, points, hooks>>

WorkerRecords ==
    /\ Alive /\ worker # {}
    /\ worker' = {}
    /\ \/ saved' = saved \cup worker /\ UNCHANGED lost
       \/ lost' = lost \cup worker /\ UNCHANGED saved
    /\ UNCHANGED <<phase, req, cache, dbQueue, died, books, points, hooks>>

\* SIGTERM; gatewaySrv.Shutdown returns when all requests have ended or the
\* graceful_shutdown timeout expires, with handlers still running; then
\* handler.Close, and main returns.
Signal ==
    /\ phase = "running"
    /\ phase' = "draining"
    /\ UNCHANGED <<req, cache, db, books, points, hooks>>

ShutdownReturns ==
    /\ phase = "draining"
    /\ phase' = "drained"
    /\ UNCHANGED <<req, cache, db, books, points, hooks>>

Close ==
    /\ phase = "drained"
    /\ phase' = "closed"
    /\ UNCHANGED <<req, cache, db, books, points, hooks>>

InQueue(r) == \E i \in 1 .. Len(dbQueue) : dbQueue[i] = r

\* main does not wait for the worker: what is in the queue or in its hands
\* dies with the process.
MainReturns ==
    /\ phase = "closed"
    /\ phase' = "exited"
    /\ died' = {r \in Requests : InQueue(r)} \cup worker
    /\ dbQueue' = <<>> /\ worker' = {}
    /\ UNCHANGED <<req, cache, saved, lost, books, points, hooks>>

Handle(r) ==
    \/ CheckInput(r) \/ CacheGet(r) \/ RouteFails(r)
    \/ \E o \in Outputs : Routed(r, o)
    \/ CheckOutput(r) \/ CacheSet(r) \/ TrackUsage(r) \/ Enqueue(r) \/ Respond(r)
    \/ OpenStream(r) \/ EndStream(r)

Worker == WorkerReceives \/ WorkerRecords

Next ==
    \/ \E r \in Requests :
        \/ \E q \in Prompts, kind \in Kinds : Receive(r, q, kind)
        \/ BadRequest(r) \/ OverBudget(r)
        \/ Handle(r)
    \/ \E q \in Prompts : CacheForgets(q)
    \/ Worker
    \/ Signal \/ ShutdownReturns \/ Close \/ MainReturns

Spec == Init /\ [][Next]_vars

\* Handlers run while the process does: providers answer or time out.  The
\* worker may hang in a call of the database.
LiveSpec == Spec /\ \A r \in Requests : WF_vars(Handle(r))

-----------------------------------------------------------------------------
(* Properties *)

\* No unary answer that the policy engine blocks is served, not from the cache
\* either, whoever put it there, and no prompt it blocks is answered.  The
\* engine's word is that of the first filter that objects: a blocking filter
\* behind a warning one for the same content is not heard.
BlockedNotServed ==
    \A r \in Requests : req[r].kind = "unary" /\ req[r].status = 200 =>
        /\ Verdict(InputFilters, req[r].prompt) # "block"
        /\ Verdict(OutputFilters, req[r].out) # "block"

\* Every request the usage tracker has counted has its event in exactly one
\* place, unless its handler has not got that far or has panicked: events are
\* neither written twice nor made up, and while the process lives none is lost
\* without a log line.  The exit is the exception: Close closes the channel and
\* main returns, and what the worker has not written then is gone, unlogged.
EventsAccounted ==
    /\ died # {} => ~Alive
    /\ \A i, j \in 1 .. Len(dbQueue) : dbQueue[i] = dbQueue[j] => i = j
    /\ \A r \in Requests :
        LET places == {p \in {"queue", "worker", "saved", "lost", "died"} :
                          \/ p = "queue" /\ InQueue(r)
                          \/ p = "worker" /\ r \in worker
                          \/ p = "saved" /\ r \in saved
                          \/ p = "lost" /\ r \in lost
                          \/ p = "died" /\ r \in died}
        IN IF r \in usage /\ req[r].pc # "enqueue" /\ req[r].status # 500
           THEN \E p \in places : places = {p}
           ELSE places = {}

\* The books agree when a request is over: counted by the usage tracker if
\* and only if its cost was recorded, refused by a policy if and only if the
\* webhook was told, and every charge or refusal has its data point.  The one
\* exception is a handler that panicked on the closed queue, after counting.
BooksAgree ==
    \A r \in Requests : req[r].pc = "done" /\ req[r].status # 500 =>
        /\ r \in usage <=> r \in spend
        /\ req[r].status = 403 <=> <<r, "violation">> \in hooks
        /\ r \in spend \/ req[r].status \in {403, 429} => r \in points

\* If the database returns or fails, events do not stay in the queue while the
\* process runs.
QueueDrains ==
    WF_vars(Worker) =>
        \A r \in Requests : InQueue(r) ~> (r \in saved \cup lost \/ ~Alive)

\* A database that hangs holds up no request: with the worker stuck and the
\* queue full, handlers still come to their end (the send is "non-blocking",
\* handler.go:174), before and during the shutdown.  Each request comes once, so
\* at last all that came are done.
RequestsAnswered ==
    <>[](~Alive \/ \A r \in Requests : req[r].pc \in {"idle", "done"})

-----------------------------------------------------------------------------
(* The inductive invariant behind the theorems of GatewayProofs *)

\* How far each request has got in the books and in the eyes of the policies.
Progress(r) ==
    /\ req[r].pc # "idle" => req[r].prompt \in Prompts
    /\ req[r].pc # "done" =>
        req[r].status = 0 /\ r \notin spend \cup points /\ <<r, "violation">> \notin hooks
    /\ req[r].pc \notin {"enqueue", "spend", "done"} => r \notin usage
    /\ req[r].pc \in {"enqueue", "spend"} => r \in usage
    /\ req[r].pc \in {"open", "relay"} => req[r].kind = "stream"
    /\ req[r].pc \notin {"idle", "input", "done"} =>
        Verdict(InputFilters, req[r].prompt) # "block"
    /\ req[r].pc \in {"set", "usage", "enqueue", "spend"} =>
        Verdict(OutputFilters, req[r].out) # "block"

\* What is in the cache was judged.
CacheJudged ==
    \A q \in Prompts : cache[q] # NoContent => Verdict(OutputFilters, cache[q]) # "block"

\* A request that is due an event has it in one place, any other nowhere.
Due(r) == r \in usage /\ req[r].pc # "enqueue" /\ req[r].status # 500

Placed(r) ==
    /\ Due(r) <=> InQueue(r) \/ r \in worker \cup saved \cup lost \cup died
    /\ InQueue(r) => r \notin worker \cup saved \cup lost \cup died
    /\ r \in worker => r \notin saved \cup lost \cup died
    /\ r \in saved => r \notin lost \cup died
    /\ r \in lost => r \notin died
    /\ r \in died => ~Alive

QueueDistinct == \A i, j \in 1 .. Len(dbQueue) : dbQueue[i] = dbQueue[j] => i = j

IndInv ==
    /\ TypeOK /\ CacheJudged /\ QueueDistinct /\ BlockedNotServed /\ BooksAgree
    /\ \A r \in Requests : Progress(r) /\ Placed(r)
=============================================================================
