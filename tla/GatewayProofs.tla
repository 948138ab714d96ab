---------------------------- MODULE GatewayProofs ----------------------------
(***************************************************************************)
(* The chat handler, for every number of requests, every queue size and    *)
(* every list of filters: blocked content is not served, each event is in  *)
(* one place and the books agree.  Then its response cache, for every      *)
(* capacity and set of queries.                                            *)
(***************************************************************************)
EXTENDS Gateway, Cache, SumTheorems

\* What the invariant says of one request apart from its event.
Served(r) ==
    req[r].kind = "unary" /\ req[r].status = 200 =>
        /\ Verdict(InputFilters, req[r].prompt) # "block"
        /\ Verdict(OutputFilters, req[r].out) # "block"

Agreed(r) ==
    req[r].pc = "done" /\ req[r].status # 500 =>
        /\ r \in usage <=> r \in spend
        /\ req[r].status = 403 <=> <<r, "violation">> \in hooks
        /\ r \in spend \/ req[r].status \in {403, 429} => r \in points

Fine(r) == Progress(r) /\ Served(r) /\ Agreed(r)

LEMMA IndInvParts ==
    IndInv <=> /\ TypeOK /\ CacheJudged /\ QueueDistinct
               /\ \A r \in Requests : Fine(r) /\ Placed(r)
<1>1. BlockedNotServed <=> \A r \in Requests : Served(r)
  BY Zenon DEF BlockedNotServed, Served
<1>2. BooksAgree <=> \A r \in Requests : Agreed(r)
  BY Zenon DEF BooksAgree, Agreed
<1> QED
  BY <1>1, <1>2, Zenon DEF IndInv, Fine

LEMMA IndInvPartsNext ==
    ASSUME TypeOK', CacheJudged', QueueDistinct', \A r \in Requests : Fine(r)' /\ Placed(r)'
    PROVE  IndInv'
<1>1. BlockedNotServed'
  BY Zenon DEF BlockedNotServed, Fine, Served
<1>2. BooksAgree'
  <2>1. \A r \in Requests : Agreed(r)'
    BY Zenon DEF Fine
  <2> QED
    BY <2>1, Zenon DEF BooksAgree, Agreed
<1> QED
  BY <1>1, <1>2, Zenon DEF IndInv, Fine

\* The records a handler's steps make of a request's.
Statuses == {0, 200, 400, 403, 429, 500, 502}

LEMMA ReqUpdates ==
    ASSUME NEW y \in ReqType, NEW p \in PCs
    PROVE  /\ [y EXCEPT !.pc = p] \in ReqType
           /\ \A st \in Statuses : [y EXCEPT !.pc = p, !.status = st] \in ReqType
           /\ \A o \in Outputs : [y EXCEPT !.pc = p, !.out = o] \in ReqType
           /\ \A st \in Statuses, o \in Outputs \cup {NoContent} :
                 [y EXCEPT !.pc = p, !.status = st, !.out = o] \in ReqType
           /\ \A k \in {"unary", "stream"}, q \in Prompts :
                 [y EXCEPT !.pc = p, !.kind = k, !.prompt = q] \in ReqType
<1> DEFINE K == {"unary", "stream"}
           Q == Prompts \cup {NoContent}
           O == Outputs \cup {NoContent}
<1>1. ReqType = [pc : PCs, kind : K, prompt : Q, out : O, status : Statuses]
  BY Zenon DEF ReqType, Statuses
<1>2. Prompts \subseteq Q /\ Outputs \subseteq O
  OBVIOUS
<1> HIDE DEF K, Q, O
<1> SUFFICES /\ [y EXCEPT !.pc = p] \in ReqType
             /\ \A st \in Statuses : [y EXCEPT !.pc = p, !.status = st] \in ReqType
             /\ \A o \in O : [y EXCEPT !.pc = p, !.out = o] \in ReqType
             /\ \A st \in Statuses, o \in O :
                   [y EXCEPT !.pc = p, !.status = st, !.out = o] \in ReqType
             /\ \A k \in K, q \in Q :
                   [y EXCEPT !.pc = p, !.kind = k, !.prompt = q] \in ReqType
  BY <1>2, Zenon DEF K, O
<1>3. [y EXCEPT !.pc = p] \in ReqType
  BY <1>1
<1>4. ASSUME NEW st \in Statuses PROVE [y EXCEPT !.pc = p, !.status = st] \in ReqType
  BY <1>1
<1>5. ASSUME NEW o \in O PROVE [y EXCEPT !.pc = p, !.out = o] \in ReqType
  BY <1>1
<1>6. ASSUME NEW st \in Statuses, NEW o \in O
      PROVE  [y EXCEPT !.pc = p, !.status = st, !.out = o] \in ReqType
  BY <1>1
<1>7. ASSUME NEW k \in K, NEW q \in Q
      PROVE  [y EXCEPT !.pc = p, !.kind = k, !.prompt = q] \in ReqType
  BY <1>1
<1> QED
  BY <1>3, <1>4, <1>5, <1>6, <1>7

\* Another request's books and place in the handler are left alone.
LEMMA OthersFine ==
    ASSUME NEW q \in Requests, Fine(q), req'[q] = req[q],
           q \in usage' <=> q \in usage,
           q \in spend' <=> q \in spend,
           q \in points' <=> q \in points,
           <<q, "violation">> \in hooks' <=> <<q, "violation">> \in hooks
    PROVE  Fine(q)'
BY DEF Fine, Progress, Served, Agreed

\* Without a step of the queue, an event stays where it is.
LEMMA PlacedStays ==
    ASSUME UNCHANGED db, ~Alive => ~Alive',
           NEW q \in Requests, Placed(q), Due(q)' <=> Due(q)
    PROVE  Placed(q)'
BY DEF db, Placed, InQueue

LEMMA QueueStays ==
    ASSUME UNCHANGED db, QueueDistinct
    PROVE  QueueDistinct'
BY DEF db, QueueDistinct

-----------------------------------------------------------------------------
(* Steps of one request *)

\* Request r's record is the only one to change.
Moves(r) == req'[r] \in ReqType /\ req' = [req EXCEPT ![r] = req'[r]]

Asks(r) == req'[r].kind = req[r].kind /\ req'[r].prompt = req[r].prompt

LEMMA GotoMoves ==
    ASSUME IndInv, NEW r \in Requests, NEW p \in PCs, Goto(r, p)
    PROVE  /\ Moves(r) /\ Asks(r) /\ req'[r].pc = p
           /\ req'[r].out = req[r].out /\ req'[r].status = req[r].status
<1>0. req \in [Requests -> ReqType] /\ req[r] \in ReqType
  BY IndInvParts DEF TypeOK
<1>1. [req[r] EXCEPT !.pc = p] \in ReqType
  BY <1>0, ReqUpdates, Zenon
<1>2. req'[r] = [req[r] EXCEPT !.pc = p] /\ req' = [req EXCEPT ![r] = req'[r]]
  BY <1>0 DEF Goto
<1> QED
  BY <1>0, <1>1, <1>2 DEF ReqType, Moves, Asks

LEMMA ReplyMoves ==
    ASSUME IndInv, NEW r \in Requests, NEW st \in Statuses, Reply(r, st)
    PROVE  /\ Moves(r) /\ Asks(r) /\ req'[r].pc = "done"
           /\ req'[r].out = req[r].out /\ req'[r].status = st
<1>0. req \in [Requests -> ReqType] /\ req[r] \in ReqType
  BY IndInvParts DEF TypeOK
<1>1. [req[r] EXCEPT !.pc = "done", !.status = st] \in ReqType
  <2>1. "done" \in PCs
    BY DEF PCs
  <2> QED
    BY <1>0, <2>1, ReqUpdates, Zenon
<1>2. req'[r] = [req[r] EXCEPT !.pc = "done", !.status = st] /\ req' = [req EXCEPT ![r] = req'[r]]
  BY <1>0 DEF Reply
<1> QED
  BY <1>0, <1>1, <1>2 DEF ReqType, Moves, Asks

\* The webhooks a handler sends.
Hooked(r) == {<<r, "violation">>, <<r, "warning">>, <<r, "stream violation">>}

LEMMA HooksType ==
    ASSUME TypeOK, NEW r \in Requests,
           hooks' = hooks \/ \E h \in Hooked(r) : hooks' = hooks \cup {h}
    PROVE  hooks' \subseteq Requests \X {"violation", "warning", "stream violation"}
<1> DEFINE K == {"violation", "warning", "stream violation"}
<1>1. hooks \subseteq Requests \X K
  BY DEF TypeOK
<1>2. "violation" \in K /\ "warning" \in K /\ "stream violation" \in K
  OBVIOUS
<1> HIDE DEF K
<1>3. \A h \in Hooked(r) : h \in Requests \X K
  <2>1. \A k \in K : <<r, k>> \in Requests \X K
    OBVIOUS
  <2> QED
    BY <1>2, <2>1, Zenon DEF Hooked
<1>4. hooks' \subseteq Requests \X K
  BY <1>1, <1>3
<1> QED
  BY <1>4 DEF K

\* What is left alone of the other requests by any step of request r.
LEMMA OthersKeep ==
    ASSUME IndInv, NEW r \in Requests, Moves(r),
           usage' \in {usage, usage \cup {r}},
           spend' \in {spend, spend \cup {r}},
           points' \in {points, points \cup {r}},
           hooks' = hooks \/ \E h \in Hooked(r) : hooks' = hooks \cup {h},
           NEW q \in Requests, q # r
    PROVE  Fine(q)' /\ (Due(q)' <=> Due(q))
<1>0. TypeOK /\ Fine(q)
  BY IndInvParts
<1>1. req'[q] = req[q]
  BY <1>0 DEF TypeOK, Moves
<1>2. /\ q \in usage' <=> q \in usage
      /\ q \in spend' <=> q \in spend
      /\ q \in points' <=> q \in points
  OBVIOUS
<1>3. <<q, "violation">> \in hooks' <=> <<q, "violation">> \in hooks
  <2>1. \A k : <<r, k>> # <<q, "violation">>
    OBVIOUS
  <2>2. \A h \in Hooked(r) : h # <<q, "violation">>
    BY <2>1, Zenon DEF Hooked
  <2> QED
    BY <2>2
<1> QED
  BY <1>0, <1>1, <1>2, <1>3, OthersFine DEF Due

\* The types after a step of request r that leaves the queue alone.
LEMMA StepTypes ==
    ASSUME IndInv, NEW r \in Requests, Moves(r),
           UNCHANGED <<phase, db>>,
           usage' \in {usage, usage \cup {r}},
           spend' \in {spend, spend \cup {r}},
           points' \in {points, points \cup {r}},
           hooks' = hooks \/ \E h \in Hooked(r) : hooks' = hooks \cup {h},
           cache' \in [Prompts -> Outputs \cup {NoContent}]
    PROVE  TypeOK'
<1>0. TypeOK
  BY IndInvParts
<1>1. req' \in [Requests -> ReqType]
  BY <1>0 DEF TypeOK, Moves
<1>2. hooks' \subseteq Requests \X {"violation", "warning", "stream violation"}
  BY <1>0, HooksType
<1> QED
  BY <1>0, <1>1, <1>2 DEF TypeOK, db

\* A step of request r that leaves the queue alone.
LEMMA StepOf ==
    ASSUME IndInv, NEW r \in Requests, Moves(r),
           UNCHANGED <<phase, db>>,
           usage' \in {usage, usage \cup {r}},
           spend' \in {spend, spend \cup {r}},
           points' \in {points, points \cup {r}},
           hooks' = hooks \/ \E h \in Hooked(r) : hooks' = hooks \cup {h},
           cache' \in [Prompts -> Outputs \cup {NoContent}], CacheJudged',
           Fine(r)', Due(r)' <=> Due(r)
    PROVE  IndInv'
<1>0. TypeOK /\ CacheJudged /\ QueueDistinct /\ \A q \in Requests : Fine(q) /\ Placed(q)
  BY IndInvParts
<1>1. TypeOK'
  BY StepTypes
<1>2. QueueDistinct'
  BY <1>0, QueueStays
<1>3. ASSUME NEW q \in Requests
      PROVE  Fine(q)' /\ Placed(q)'
  <2>0. ~Alive => ~Alive'
    BY DEF Alive
  <2>1. CASE q = r
    BY <1>0, <2>0, <2>1, PlacedStays
  <2>2. CASE q # r
    BY <1>0, <2>0, <2>2, OthersKeep, PlacedStays
  <2> QED
    BY <2>1, <2>2
<1> QED
  BY <1>1, <1>2, <1>3, IndInvPartsNext

LEMMA CacheStays ==
    ASSUME IndInv, UNCHANGED cache
    PROVE  cache' \in [Prompts -> Outputs \cup {NoContent}] /\ CacheJudged'
BY IndInvParts DEF TypeOK, CacheJudged

-----------------------------------------------------------------------------
(* The handler *)

LEMMA ReceiveStep ==
    ASSUME IndInv, NEW r \in Requests, NEW q \in Prompts, NEW kind \in {"unary", "stream"},
           Receive(r, q, kind)
    PROVE  IndInv'
<1>0. Fine(r)
  BY IndInvParts
<1>1. req \in [Requests -> ReqType] /\ req[r] \in ReqType /\ "input" \in PCs
  BY IndInvParts DEF TypeOK, PCs
<1>2. /\ Moves(r) /\ req'[r].pc = "input" /\ req'[r].kind = kind /\ req'[r].prompt = q
      /\ req'[r].out = req[r].out /\ req'[r].status = req[r].status
  <2>1. [req[r] EXCEPT !.pc = "input", !.kind = kind, !.prompt = q] \in ReqType
    BY <1>1, ReqUpdates, Zenon
  <2>2. /\ req'[r] = [req[r] EXCEPT !.pc = "input", !.kind = kind, !.prompt = q]
        /\ req' = [req EXCEPT ![r] = req'[r]]
    BY <1>1 DEF Receive
  <2> QED
    BY <1>1, <2>1, <2>2 DEF ReqType, Moves
<1>3. Fine(r)'
  BY <1>0, <1>1, <1>2 DEF Receive, books, Asks, Fine, Progress, Served, Agreed
<1>4. Due(r)' <=> Due(r)
  BY <1>0, <1>1, <1>2 DEF Receive, books, Due, Fine, Progress
<1>5. cache' \in [Prompts -> Outputs \cup {NoContent}] /\ CacheJudged'
  BY CacheStays DEF Receive
<1> QED
  BY <1>2, <1>3, <1>4, <1>5, StepOf DEF Receive, books

LEMMA BadRequestStep ==
    ASSUME IndInv, NEW r \in Requests, BadRequest(r)
    PROVE  IndInv'
<1>0. Fine(r)
  BY IndInvParts
<1>1. 400 \in Statuses
  BY DEF Statuses
<1>2. /\ Moves(r) /\ Asks(r) /\ req'[r].pc = "done"
      /\ req'[r].out = req[r].out /\ req'[r].status = 400
  BY <1>1, ReplyMoves, Zenon DEF BadRequest
<1>3. Fine(r)'
  BY <1>0, <1>1, <1>2 DEF BadRequest, books, Asks, Fine, Progress, Served, Agreed
<1>4. Due(r)' <=> Due(r)
  BY <1>0, <1>1, <1>2 DEF BadRequest, books, Due, Fine, Progress
<1>5. cache' \in [Prompts -> Outputs \cup {NoContent}] /\ CacheJudged'
  BY CacheStays DEF BadRequest
<1> QED
  BY <1>2, <1>3, <1>4, <1>5, StepOf DEF BadRequest, books

LEMMA OverBudgetStep ==
    ASSUME IndInv, NEW r \in Requests, OverBudget(r)
    PROVE  IndInv'
<1>0. Fine(r)
  BY IndInvParts
<1>1. 429 \in Statuses
  BY DEF Statuses
<1>2. /\ Moves(r) /\ Asks(r) /\ req'[r].pc = "done"
      /\ req'[r].out = req[r].out /\ req'[r].status = 429
  BY <1>1, ReplyMoves, Zenon DEF OverBudget
<1>3. Fine(r)'
  BY <1>0, <1>1, <1>2 DEF OverBudget, books, Asks, Fine, Progress, Served, Agreed
<1>4. Due(r)' <=> Due(r)
  BY <1>0, <1>1, <1>2 DEF OverBudget, books, Due, Fine, Progress
<1>5. cache' \in [Prompts -> Outputs \cup {NoContent}] /\ CacheJudged'
  BY CacheStays DEF OverBudget
<1> QED
  BY <1>2, <1>3, <1>4, <1>5, StepOf DEF OverBudget, books

LEMMA RouteFailsStep ==
    ASSUME IndInv, NEW r \in Requests, RouteFails(r)
    PROVE  IndInv'
<1>0. Fine(r)
  BY IndInvParts
<1>1. 502 \in Statuses
  BY DEF Statuses
<1>2. /\ Moves(r) /\ Asks(r) /\ req'[r].pc = "done"
      /\ req'[r].out = req[r].out /\ req'[r].status = 502
  <2>1. PICK st \in Statuses : st = 502 /\ Reply(r, st)
    BY <1>1 DEF RouteFails
  <2> QED BY <2>1, ReplyMoves
<1>3. Fine(r)'
  BY <1>0, <1>1, <1>2 DEF RouteFails, books, Asks, Fine, Progress, Served, Agreed
<1>4. Due(r)' <=> Due(r)
  BY <1>0, <1>1, <1>2 DEF RouteFails, books, Due, Fine, Progress
<1>5. cache' \in [Prompts -> Outputs \cup {NoContent}] /\ CacheJudged'
  BY CacheStays DEF RouteFails
<1> QED
  BY <1>2, <1>3, <1>4, <1>5, StepOf DEF RouteFails, books

LEMMA RoutedStep ==
    ASSUME IndInv, NEW r \in Requests, NEW o \in Outputs, Routed(r, o)
    PROVE  IndInv'
<1>0. Fine(r)
  BY IndInvParts
<1>1. req \in [Requests -> ReqType] /\ req[r] \in ReqType /\ "output" \in PCs
  BY IndInvParts DEF TypeOK, PCs
<1>2. /\ Moves(r) /\ Asks(r) /\ req'[r].pc = "output"
      /\ req'[r].out = o /\ req'[r].status = req[r].status
  <2>1. [req[r] EXCEPT !.pc = "output", !.out = o] \in ReqType
    BY <1>1, ReqUpdates, Zenon
  <2>2. /\ req'[r] = [req[r] EXCEPT !.pc = "output", !.out = o]
        /\ req' = [req EXCEPT ![r] = req'[r]]
    BY <1>1 DEF Routed
  <2> QED
    BY <1>1, <2>1, <2>2 DEF ReqType, Moves, Asks
<1>3. Fine(r)'
  BY <1>0, <1>1, <1>2 DEF Routed, books, Asks, Fine, Progress, Served, Agreed
<1>4. Due(r)' <=> Due(r)
  BY <1>0, <1>1, <1>2 DEF Routed, books, Due, Fine, Progress
<1>5. cache' \in [Prompts -> Outputs \cup {NoContent}] /\ CacheJudged'
  BY CacheStays DEF Routed
<1> QED
  BY <1>2, <1>3, <1>4, <1>5, StepOf DEF Routed, books

LEMMA TrackUsageStep ==
    ASSUME IndInv, NEW r \in Requests, TrackUsage(r)
    PROVE  IndInv'
<1>0. Fine(r)
  BY IndInvParts
<1>1. "enqueue" \in PCs
  BY DEF PCs
<1>2. /\ Moves(r) /\ Asks(r) /\ req'[r].pc = "enqueue"
      /\ req'[r].out = req[r].out /\ req'[r].status = req[r].status
  BY <1>1, GotoMoves, Zenon DEF TrackUsage
<1>3. Fine(r)'
  BY <1>0, <1>1, <1>2 DEF TrackUsage, books, Asks, Fine, Progress, Served, Agreed
<1>4. Due(r)' <=> Due(r)
  BY <1>0, <1>1, <1>2 DEF TrackUsage, books, Due, Fine, Progress
<1>5. cache' \in [Prompts -> Outputs \cup {NoContent}] /\ CacheJudged'
  BY CacheStays DEF TrackUsage
<1> QED
  BY <1>2, <1>3, <1>4, <1>5, StepOf DEF TrackUsage, books

LEMMA RespondStep ==
    ASSUME IndInv, NEW r \in Requests, Respond(r)
    PROVE  IndInv'
<1>0. Fine(r)
  BY IndInvParts
<1>1. 200 \in Statuses
  BY DEF Statuses
<1>2. /\ Moves(r) /\ Asks(r) /\ req'[r].pc = "done"
      /\ req'[r].out = req[r].out /\ req'[r].status = 200
  BY <1>1, ReplyMoves, Zenon DEF Respond
<1>3. Fine(r)'
  BY <1>0, <1>1, <1>2 DEF Respond, books, Asks, Fine, Progress, Served, Agreed
<1>4. Due(r)' <=> Due(r)
  BY <1>0, <1>1, <1>2 DEF Respond, books, Due, Fine, Progress
<1>5. cache' \in [Prompts -> Outputs \cup {NoContent}] /\ CacheJudged'
  BY CacheStays DEF Respond
<1> QED
  BY <1>2, <1>3, <1>4, <1>5, StepOf DEF Respond, books

LEMMA EndStreamStep ==
    ASSUME IndInv, NEW r \in Requests, EndStream(r)
    PROVE  IndInv'
<1>0. Fine(r)
  BY IndInvParts
<1>1. 200 \in Statuses
  BY DEF Statuses
<1>2. /\ Moves(r) /\ Asks(r) /\ req'[r].pc = "done"
      /\ req'[r].out = req[r].out /\ req'[r].status = 200
  BY <1>1, ReplyMoves, Zenon DEF EndStream
<1>3. hooks' = hooks \/ \E h \in Hooked(r) : hooks' = hooks \cup {h}
  BY Zenon DEF EndStream, Hooked
<1>4. Fine(r)'
  <2>1. <<r, "violation">> \in hooks' <=> <<r, "violation">> \in hooks
    BY DEF EndStream
  <2>2. req[r].kind = "stream" /\ <<r, "violation">> \notin hooks /\ r \notin usage \cup spend
    BY <1>0 DEF EndStream, Fine, Progress
  <2>3. UNCHANGED <<usage, spend, points>>
    BY DEF EndStream, books
  <2>4. Progress(r)'
    BY <1>0, <1>2, <2>3 DEF EndStream, Asks, Fine, Progress
  <2>5. Served(r)'
    BY <1>2, <2>2 DEF Asks, Served
  <2>6. Agreed(r)'
    BY <1>2, <2>1, <2>2, <2>3 DEF Agreed
  <2> QED
    BY <2>4, <2>5, <2>6 DEF Fine
<1>5. Due(r)' <=> Due(r)
  BY <1>0, <1>2 DEF EndStream, books, Due, Fine, Progress
<1>6. cache' \in [Prompts -> Outputs \cup {NoContent}] /\ CacheJudged'
  BY CacheStays DEF EndStream
<1> QED
  BY <1>2, <1>3, <1>4, <1>5, <1>6, StepOf DEF EndStream, books

\* A refusal by the policy engine.
LEMMA RefusalStep ==
    ASSUME IndInv, NEW r \in Requests, req[r].pc \in {"input", "output"},
           hooks' = hooks \cup {<<r, "violation">>}, points' = points \cup {r}, Reply(r, 403),
           UNCHANGED <<phase, cache, db, books>>
    PROVE  IndInv'
<1>0. Fine(r)
  BY IndInvParts
<1>1. 403 \in Statuses
  BY DEF Statuses
<1>2. /\ Moves(r) /\ Asks(r) /\ req'[r].pc = "done"
      /\ req'[r].out = req[r].out /\ req'[r].status = 403
  BY <1>1, ReplyMoves, Zenon
<1>3. \E h \in Hooked(r) : hooks' = hooks \cup {h}
  BY Zenon DEF Hooked
<1>4. UNCHANGED <<usage, spend>> /\ r \notin usage \cup spend
  BY <1>0 DEF books, Fine, Progress
<1>5. Fine(r)'
  BY <1>0, <1>2, <1>4 DEF Asks, Fine, Progress, Served, Agreed
<1>6. Due(r)' <=> Due(r)
  BY <1>4 DEF Due
<1>7. cache' \in [Prompts -> Outputs \cup {NoContent}] /\ CacheJudged'
  BY CacheStays
<1> QED
  BY <1>2, <1>3, <1>4, <1>5, <1>6, <1>7, StepOf

LEMMA CheckInputStep ==
    ASSUME IndInv, NEW r \in Requests, CheckInput(r)
    PROVE  IndInv'
<1>0. Fine(r)
  BY IndInvParts
<1> DEFINE verdict == Verdict(InputFilters, req[r].prompt)
<1>1. CASE verdict = "block"
  BY <1>1, RefusalStep DEF CheckInput
<1>2. CASE verdict # "block"
  <2> DEFINE p == IF req[r].kind = "stream" THEN "open" ELSE "cache"
  <2>1. p \in PCs /\ Goto(r, p) /\ UNCHANGED <<phase, cache, db, books, points>>
    BY <1>2 DEF PCs, CheckInput
  <2>2. /\ Moves(r) /\ Asks(r) /\ req'[r].pc = p
        /\ req'[r].out = req[r].out /\ req'[r].status = req[r].status
    BY <2>1, GotoMoves, Zenon
  <2>3. hooks' = hooks \/ hooks' = hooks \cup {<<r, "warning">>}
    BY <1>2 DEF CheckInput
  <2>4. hooks' = hooks \/ \E h \in Hooked(r) : hooks' = hooks \cup {h}
    BY <2>3, Zenon DEF Hooked
  <2>5. <<r, "violation">> \in hooks' <=> <<r, "violation">> \in hooks
    BY <2>3
  <2>6. req[r].pc = "input" /\ UNCHANGED <<usage, spend, points>>
    BY <2>1 DEF CheckInput, books
  <2>7. Fine(r)'
    BY <1>0, <1>2, <2>2, <2>5, <2>6 DEF Asks, Fine, Progress, Served, Agreed
  <2>8. Due(r)' <=> Due(r)
    BY <2>2, <2>6, <1>0 DEF Due, Fine, Progress
  <2>9. cache' \in [Prompts -> Outputs \cup {NoContent}] /\ CacheJudged'
    BY <2>1, CacheStays
  <2> QED
    BY <2>1, <2>2, <2>4, <2>6, <2>7, <2>8, <2>9, StepOf
<1> QED
  BY <1>1, <1>2

LEMMA CacheGetStep ==
    ASSUME IndInv, NEW r \in Requests, CacheGet(r)
    PROVE  IndInv'
<1>0. /\ Fine(r) /\ CacheJudged /\ req \in [Requests -> ReqType] /\ req[r] \in ReqType
      /\ cache \in [Prompts -> Outputs \cup {NoContent}]
  BY IndInvParts DEF TypeOK
<1>1. req[r].pc = "cache" /\ UNCHANGED <<phase, cache, db, usage, spend, points, hooks>>
  BY DEF CacheGet, books
<1>2. req[r].prompt \in Prompts /\ Verdict(InputFilters, req[r].prompt) # "block"
  BY <1>0, <1>1 DEF Fine, Progress
<1>3. cache' \in [Prompts -> Outputs \cup {NoContent}] /\ CacheJudged'
  BY <1>1, CacheStays
<1> DEFINE hit == cache[req[r].prompt]
<1>4. CASE hit # NoContent
  <2>1. hit \in Outputs \cup {NoContent} /\ Verdict(OutputFilters, hit) # "block"
    BY <1>0, <1>2, <1>4 DEF CacheJudged
  <2>2. req' = [req EXCEPT ![r].pc = "done", ![r].status = 200, ![r].out = hit]
    BY <1>4 DEF CacheGet, Goto
  <2> HIDE DEF hit
  <2>3. /\ Moves(r) /\ Asks(r) /\ req'[r].pc = "done"
        /\ req'[r].out = hit /\ req'[r].status = 200
    <3>1. "done" \in PCs /\ 200 \in Statuses
      BY DEF PCs, Statuses
    <3>2. \A st \in Statuses, o \in Outputs \cup {NoContent} :
             [req[r] EXCEPT !.pc = "done", !.status = st, !.out = o] \in ReqType
      BY <1>0, <3>1, ReqUpdates, Zenon
    <3>3. [req[r] EXCEPT !.pc = "done", !.status = 200, !.out = hit] \in ReqType
      BY <2>1, <3>1, <3>2, Zenon
    <3>4. /\ req'[r] = [req[r] EXCEPT !.pc = "done", !.status = 200, !.out = hit]
          /\ req' = [req EXCEPT ![r] = req'[r]]
      BY <1>0, <2>2
    <3> QED
      BY <1>0, <3>3, <3>4 DEF ReqType, Moves, Asks
  <2>4. Fine(r)'
    BY <1>0, <1>1, <1>2, <2>1, <2>3 DEF Asks, Fine, Progress, Served, Agreed
  <2>5. Due(r)' <=> Due(r)
    BY <1>0, <1>1 DEF Due, Fine, Progress
  <2> QED
    BY <1>1, <1>3, <2>3, <2>4, <2>5, StepOf
<1>5. CASE hit = NoContent
  <2>1. "route" \in PCs /\ Goto(r, "route")
    BY <1>5 DEF PCs, CacheGet
  <2>2. /\ Moves(r) /\ Asks(r) /\ req'[r].pc = "route"
        /\ req'[r].out = req[r].out /\ req'[r].status = req[r].status
    BY <2>1, GotoMoves
  <2>3. Fine(r)'
    BY <1>0, <1>1, <2>2 DEF Asks, Fine, Progress, Served, Agreed
  <2>4. Due(r)' <=> Due(r)
    BY <1>0, <1>1, <2>2 DEF Due, Fine, Progress
  <2> QED
    BY <1>1, <1>3, <2>2, <2>3, <2>4, StepOf
<1> QED
  BY <1>4, <1>5

LEMMA CheckOutputStep ==
    ASSUME IndInv, NEW r \in Requests, CheckOutput(r)
    PROVE  IndInv'
<1>0. Fine(r)
  BY IndInvParts
<1>1. CASE Verdict(OutputFilters, req[r].out) = "block"
  BY <1>1, RefusalStep DEF CheckOutput
<1>2. CASE Verdict(OutputFilters, req[r].out) # "block"
  <2>1. /\ "set" \in PCs /\ Goto(r, "set") /\ req[r].pc = "output"
        /\ UNCHANGED <<phase, cache, db, usage, spend, points, hooks>>
    BY <1>2 DEF PCs, CheckOutput, books
  <2>2. /\ Moves(r) /\ Asks(r) /\ req'[r].pc = "set"
        /\ req'[r].out = req[r].out /\ req'[r].status = req[r].status
    BY <2>1, GotoMoves
  <2>3. Fine(r)'
    BY <1>0, <1>2, <2>1, <2>2 DEF Asks, Fine, Progress, Served, Agreed
  <2>4. Due(r)' <=> Due(r)
    BY <1>0, <2>1, <2>2 DEF Due, Fine, Progress
  <2>5. cache' \in [Prompts -> Outputs \cup {NoContent}] /\ CacheJudged'
    BY <2>1, CacheStays
  <2> QED
    BY <2>1, <2>2, <2>3, <2>4, <2>5, StepOf
<1> QED
  BY <1>1, <1>2

LEMMA CacheSetStep ==
    ASSUME IndInv, NEW r \in Requests, CacheSet(r)
    PROVE  IndInv'
<1>0. /\ Fine(r) /\ CacheJudged /\ req[r] \in ReqType
      /\ cache \in [Prompts -> Outputs \cup {NoContent}]
  BY IndInvParts DEF TypeOK
<1>1. /\ "usage" \in PCs /\ Goto(r, "usage") /\ req[r].pc = "set"
      /\ UNCHANGED <<phase, db, usage, spend, points, hooks>>
      /\ cache' = [cache EXCEPT ![req[r].prompt] = req[r].out]
  BY DEF PCs, CacheSet, books
<1>2. /\ Moves(r) /\ Asks(r) /\ req'[r].pc = "usage"
      /\ req'[r].out = req[r].out /\ req'[r].status = req[r].status
  BY <1>1, GotoMoves
<1>3. Fine(r)'
  BY <1>0, <1>1, <1>2 DEF Asks, Fine, Progress, Served, Agreed
<1>4. Due(r)' <=> Due(r)
  BY <1>0, <1>1, <1>2 DEF Due, Fine, Progress
<1>5. /\ req[r].out \in Outputs \cup {NoContent}
      /\ Verdict(OutputFilters, req[r].out) # "block"
  BY <1>0, <1>1 DEF ReqType, Fine, Progress
<1>6. cache' \in [Prompts -> Outputs \cup {NoContent}] /\ CacheJudged'
  BY <1>0, <1>1, <1>5 DEF CacheJudged
<1> QED
  BY <1>1, <1>2, <1>3, <1>4, <1>6, StepOf

LEMMA OpenStreamStep ==
    ASSUME IndInv, NEW r \in Requests, OpenStream(r)
    PROVE  IndInv'
<1>0. Fine(r)
  BY IndInvParts
<1>1. req[r].pc = "open" /\ UNCHANGED <<phase, cache, db, usage, spend, points, hooks>>
  BY DEF OpenStream, books
<1>2. /\ Moves(r) /\ Asks(r) /\ req'[r].out = req[r].out
      /\ \/ req'[r].pc = "done" /\ req'[r].status = 502
         \/ req'[r].pc = "relay" /\ req'[r].status = req[r].status
  <2>1. 502 \in Statuses /\ "relay" \in PCs
    BY DEF Statuses, PCs
  <2>2. Reply(r, 502) \/ Goto(r, "relay")
    BY DEF OpenStream
  <2>3. CASE Reply(r, 502)
    BY <2>1, <2>3, ReplyMoves
  <2>4. CASE Goto(r, "relay")
    BY <2>1, <2>4, GotoMoves, Zenon
  <2> QED
    BY <2>2, <2>3, <2>4
<1>3. Fine(r)'
  BY <1>0, <1>1, <1>2 DEF Asks, Fine, Progress, Served, Agreed
<1>4. Due(r)' <=> Due(r)
  BY <1>0, <1>1, <1>2 DEF Due, Fine, Progress
<1>5. cache' \in [Prompts -> Outputs \cup {NoContent}] /\ CacheJudged'
  BY <1>1, CacheStays
<1> QED
  BY <1>1, <1>2, <1>3, <1>4, <1>5, StepOf

-----------------------------------------------------------------------------
(* The queue *)

LEMMA QueueAppends ==
    ASSUME TypeOK, QueueDistinct, NEW r \in Requests, ~InQueue(r), dbQueue' = Append(dbQueue, r)
    PROVE  /\ dbQueue' \in Seq(Requests) /\ Len(dbQueue') = Len(dbQueue) + 1
           /\ QueueDistinct'
           /\ \A q \in Requests : InQueue(q)' <=> InQueue(q) \/ q = r
<1>0. dbQueue \in Seq(Requests)
  BY Zenon DEF TypeOK
<1>1. dbQueue \in Seq(Requests) /\ Len(dbQueue) \in Nat
  BY <1>0
<1>2. /\ dbQueue' \in Seq(Requests) /\ Len(dbQueue') = Len(dbQueue) + 1
      /\ \A i \in 1 .. Len(dbQueue) : dbQueue'[i] = dbQueue[i]
      /\ dbQueue'[Len(dbQueue) + 1] = r
  BY <1>1
<1>3. QueueDistinct'
  BY <1>1, <1>2 DEF QueueDistinct, InQueue
<1>4. ASSUME NEW q \in Requests PROVE InQueue(q)' <=> InQueue(q) \/ q = r
  <2>1. 1 .. Len(dbQueue') = 1 .. Len(dbQueue) \cup {Len(dbQueue) + 1}
    BY <1>1, <1>2
  <2> QED
    BY <1>2, <2>1 DEF InQueue
<1> QED
  BY <1>2, <1>3, <1>4

LEMMA QueuePops ==
    ASSUME TypeOK, QueueDistinct, dbQueue # <<>>, dbQueue' = Tail(dbQueue)
    PROVE  /\ dbQueue' \in Seq(Requests) /\ Len(dbQueue') <= Len(dbQueue)
           /\ Head(dbQueue) \in Requests
           /\ QueueDistinct'
           /\ \A q \in Requests : InQueue(q)' <=> InQueue(q) /\ q # Head(dbQueue)
           /\ InQueue(Head(dbQueue))
<1>0. dbQueue \in Seq(Requests)
  BY Zenon DEF TypeOK
<1>1. dbQueue \in Seq(Requests) /\ Len(dbQueue) \in Nat /\ Len(dbQueue) > 0
  BY <1>0
<1>2. /\ dbQueue' \in Seq(Requests) /\ Len(dbQueue') = Len(dbQueue) - 1
      /\ \A i \in 1 .. Len(dbQueue') : dbQueue'[i] = dbQueue[i + 1]
      /\ Head(dbQueue) = dbQueue[1] /\ Head(dbQueue) \in Requests
  BY <1>1
<1>3. QueueDistinct'
  <2> SUFFICES ASSUME NEW i \in 1 .. Len(dbQueue'), NEW j \in 1 .. Len(dbQueue'),
                      dbQueue'[i] = dbQueue'[j]
               PROVE  i = j
    BY DEF QueueDistinct
  <2>1. i + 1 \in 1 .. Len(dbQueue) /\ j + 1 \in 1 .. Len(dbQueue)
    BY <1>1, <1>2
  <2>2. dbQueue[i + 1] = dbQueue[j + 1]
    BY <1>2
  <2>3. i + 1 = j + 1
    BY <2>1, <2>2 DEF QueueDistinct
  <2> QED
    BY <2>3
<1>4. ASSUME NEW q \in Requests PROVE InQueue(q)' <=> InQueue(q) /\ q # Head(dbQueue)
  <2>1. ASSUME InQueue(q)' PROVE InQueue(q) /\ q # Head(dbQueue)
    <3>1. PICK i \in 1 .. Len(dbQueue') : dbQueue'[i] = q
      BY <2>1 DEF InQueue
    <3>2. i + 1 \in 1 .. Len(dbQueue) /\ dbQueue[i + 1] = q /\ 1 \in 1 .. Len(dbQueue)
      BY <1>1, <1>2, <3>1
    <3>3. InQueue(q)
      BY <3>2 DEF InQueue
    <3>4. dbQueue[i + 1] = dbQueue[1] => i + 1 = 1
      BY <3>2 DEF QueueDistinct
    <3> QED
      BY <1>2, <3>2, <3>3, <3>4
  <2>2. ASSUME InQueue(q), q # Head(dbQueue) PROVE InQueue(q)'
    <3>1. PICK i \in 1 .. Len(dbQueue) : dbQueue[i] = q
      BY <2>2 DEF InQueue
    <3>2. i # 1
      BY <1>2, <2>2, <3>1
    <3>3. i - 1 \in 1 .. Len(dbQueue') /\ dbQueue'[i - 1] = q
      BY <1>1, <1>2, <3>1, <3>2
    <3> QED
      BY <3>3 DEF InQueue
  <2> QED
    BY <2>1, <2>2
<1>5. InQueue(Head(dbQueue))
  BY <1>1, <1>2 DEF InQueue
<1> QED
  BY <1>1, <1>2, <1>3, <1>4, <1>5

\* What a send has of the books, whether the event finds room or not.
LEMMA SentMoves ==
    ASSUME IndInv, NEW r \in Requests, req[r].pc = "enqueue", Goto(r, "spend"),
           UNCHANGED <<usage, spend, points, hooks>>
    PROVE  /\ req' \in [Requests -> ReqType]
           /\ \A q \in Requests : Fine(q)' /\ (q # r => (Due(q)' <=> Due(q)))
           /\ Due(r)' /\ ~Due(r) /\ ~InQueue(r)
        /\ r \notin worker \cup saved \cup lost \cup died
<1>0. TypeOK /\ Fine(r) /\ Placed(r)
  BY IndInvParts
<1>1. "spend" \in PCs
  BY DEF PCs
<1>2. /\ Moves(r) /\ Asks(r) /\ req'[r].pc = "spend"
      /\ req'[r].out = req[r].out /\ req'[r].status = req[r].status
  BY <1>1, GotoMoves
<1>3. req' \in [Requests -> ReqType]
  BY <1>0, <1>2 DEF TypeOK, Moves
<1>4. Fine(r)'
  BY <1>0, <1>2 DEF Asks, Fine, Progress, Served, Agreed
<1>5. Due(r)' /\ ~Due(r)
  BY <1>0, <1>2 DEF Due, Fine, Progress
<1>6. ~InQueue(r) /\ r \notin worker \cup saved \cup lost \cup died
  BY <1>0, <1>5 DEF Placed
<1>7. \A q \in Requests : q # r => Fine(q)' /\ (Due(q)' <=> Due(q))
  BY <1>2, OthersKeep
<1> QED
  BY <1>3, <1>4, <1>5, <1>6, <1>7

LEMMA EnqueueStep ==
    ASSUME IndInv, NEW r \in Requests, Enqueue(r)
    PROVE  IndInv'
<1>0. TypeOK /\ CacheJudged /\ QueueDistinct /\ \A q \in Requests : Fine(q) /\ Placed(q)
  BY IndInvParts
<1>1. /\ req[r].pc = "enqueue"
      /\ UNCHANGED <<phase, cache, worker, saved, died, usage, spend, points, hooks>>
      /\ Alive' <=> Alive
  BY DEF Enqueue, books, Alive
<1>2. CASE Reply(r, 500) /\ UNCHANGED <<dbQueue, lost>>
  <2>1. 500 \in Statuses
    BY DEF Statuses
  <2>2. /\ Moves(r) /\ Asks(r) /\ req'[r].pc = "done"
        /\ req'[r].out = req[r].out /\ req'[r].status = 500
    BY <1>2, <2>1, ReplyMoves
  <2>3. Fine(r)'
    <3>1. Progress(r)
      BY <1>0 DEF Fine
    <3>2. Progress(r)'
      BY <1>1, <2>2, <3>1 DEF Asks, Progress
    <3>3. Served(r)' /\ Agreed(r)'
      BY <2>2 DEF Served, Agreed
    <3> QED
      BY <3>2, <3>3 DEF Fine
  <2>4. Due(r)' <=> Due(r)
    BY <1>1, <2>2 DEF Due
  <2>5. cache' \in [Prompts -> Outputs \cup {NoContent}] /\ CacheJudged'
    BY <1>1, CacheStays
  <2>6. UNCHANGED <<phase, db>>
    BY <1>1, <1>2 DEF db
  <2> QED
    BY <1>1, <2>2, <2>3, <2>4, <2>5, <2>6, StepOf
<1>3. CASE /\ Goto(r, "spend") /\ Len(dbQueue) < DbQueueSize
           /\ dbQueue' = Append(dbQueue, r) /\ UNCHANGED lost
  <2>1. /\ req' \in [Requests -> ReqType]
        /\ \A q \in Requests : Fine(q)' /\ (q # r => (Due(q)' <=> Due(q)))
        /\ Due(r)' /\ ~Due(r) /\ ~InQueue(r)
        /\ r \notin worker \cup saved \cup lost \cup died
    BY <1>1, <1>3, SentMoves
  <2>2. /\ dbQueue' \in Seq(Requests) /\ Len(dbQueue') = Len(dbQueue) + 1
        /\ QueueDistinct'
        /\ \A q \in Requests : InQueue(q)' <=> InQueue(q) \/ q = r
    BY <1>0, <1>3, <2>1, QueueAppends
  <2>3. Len(dbQueue') <= DbQueueSize
    <3>1. dbQueue \in Seq(Requests) /\ DbQueueSize \in Nat
      BY <1>0, GatewayAssumption, Zenon DEF TypeOK
    <3> QED
      BY <1>3, <2>2, <3>1
  <2>4. TypeOK'
    BY <1>0, <1>1, <1>3, <2>1, <2>2, <2>3 DEF TypeOK
  <2>5. ASSUME NEW q \in Requests PROVE Placed(q)'
    <3>1. Placed(q) /\ (InQueue(q)' <=> InQueue(q) \/ q = r)
          /\ UNCHANGED <<worker, saved, lost, died>> /\ (Alive' <=> Alive)
      BY <1>0, <1>1, <1>3, <2>2
    <3>2. CASE q = r
      BY <2>1, <3>1, <3>2 DEF Placed
    <3>3. CASE q # r
      BY <2>1, <3>1, <3>3 DEF Placed
    <3> QED
      BY <3>2, <3>3
  <2>6. CacheJudged'
    BY <1>0, <1>1 DEF CacheJudged
  <2> QED
    BY <2>1, <2>2, <2>4, <2>5, <2>6, IndInvPartsNext
<1>4. CASE Goto(r, "spend") /\ lost' = lost \cup {r} /\ UNCHANGED dbQueue
  <2>1. /\ req' \in [Requests -> ReqType]
        /\ \A q \in Requests : Fine(q)' /\ (q # r => (Due(q)' <=> Due(q)))
        /\ Due(r)' /\ ~Due(r) /\ ~InQueue(r)
        /\ r \notin worker \cup saved \cup lost \cup died
    BY <1>1, <1>4, SentMoves
  <2>2. TypeOK'
    BY <1>0, <1>1, <1>4, <2>1 DEF TypeOK
  <2>3. ASSUME NEW q \in Requests PROVE Placed(q)'
    <3>1. Placed(q) /\ (InQueue(q)' <=> InQueue(q))
          /\ UNCHANGED <<worker, saved, died>> /\ (Alive' <=> Alive)
      BY <1>0, <1>1, <1>4 DEF InQueue
    <3>2. CASE q = r
      BY <1>4, <2>1, <3>1, <3>2 DEF Placed
    <3>3. CASE q # r
      BY <1>4, <2>1, <3>1, <3>3 DEF Placed
    <3> QED
      BY <3>2, <3>3
  <2>4. CacheJudged' /\ QueueDistinct'
    BY <1>0, <1>1, <1>4 DEF CacheJudged, QueueDistinct
  <2> QED
    BY <2>1, <2>2, <2>3, <2>4, IndInvPartsNext
<1> QED
  BY <1>2, <1>3, <1>4 DEF Enqueue

-----------------------------------------------------------------------------
(* The worker, the cache and the shutdown *)

\* A step of no request leaves the books as they are.
LEMMA BooksStay ==
    ASSUME IndInv, UNCHANGED <<req, usage, spend, points, hooks>>
    PROVE  \A q \in Requests : Fine(q)' /\ (Due(q)' <=> Due(q))
<1> TAKE q \in Requests
<1>1. Fine(q)
  BY IndInvParts
<1> QED
  BY <1>1, OthersFine DEF Due

LEMMA WorkerReceivesStep ==
    ASSUME IndInv, WorkerReceives
    PROVE  IndInv'
<1>0. TypeOK /\ CacheJudged /\ QueueDistinct /\ \A q \in Requests : Fine(q) /\ Placed(q)
  BY IndInvParts
<1>1. /\ UNCHANGED <<phase, req, cache, saved, lost, died, usage, spend, points, hooks>>
      /\ Alive' <=> Alive
      /\ worker = {} /\ dbQueue # <<>> /\ worker' = {Head(dbQueue)} /\ dbQueue' = Tail(dbQueue)
  BY DEF WorkerReceives, books, Alive
<1>2. \A q \in Requests : Fine(q)' /\ (Due(q)' <=> Due(q))
  BY <1>1, BooksStay
<1>3. /\ dbQueue' \in Seq(Requests) /\ Len(dbQueue') <= Len(dbQueue)
      /\ Head(dbQueue) \in Requests
      /\ QueueDistinct'
      /\ \A q \in Requests : InQueue(q)' <=> InQueue(q) /\ q # Head(dbQueue)
      /\ InQueue(Head(dbQueue))
  BY <1>0, <1>1, QueuePops
<1>4. Len(dbQueue') <= DbQueueSize
  <2>1. dbQueue \in Seq(Requests) /\ Len(dbQueue) <= DbQueueSize /\ DbQueueSize \in Nat
    BY <1>0, GatewayAssumption, Zenon DEF TypeOK
  <2> QED
    BY <1>3, <2>1
<1>5. TypeOK'
  BY <1>0, <1>1, <1>3, <1>4 DEF TypeOK
<1>6. ASSUME NEW q \in Requests PROVE Placed(q)'
  <2>1. /\ Placed(q) /\ (Due(q)' <=> Due(q))
        /\ InQueue(q)' <=> InQueue(q) /\ q # Head(dbQueue)
        /\ q \in worker' <=> q = Head(dbQueue)
        /\ q \notin worker /\ UNCHANGED <<saved, lost, died>> /\ (Alive' <=> Alive)
    BY <1>0, <1>1, <1>2, <1>3
  <2>2. q = Head(dbQueue) => InQueue(q)
    BY <1>3
  <2> QED
    BY <2>1, <2>2 DEF Placed
<1>7. CacheJudged'
  BY <1>0, <1>1 DEF CacheJudged
<1> QED
  BY <1>2, <1>3, <1>5, <1>6, <1>7, IndInvPartsNext

LEMMA WorkerRecordsStep ==
    ASSUME IndInv, WorkerRecords
    PROVE  IndInv'
<1>0. TypeOK /\ CacheJudged /\ QueueDistinct /\ \A q \in Requests : Fine(q) /\ Placed(q)
  BY IndInvParts
<1>1. /\ UNCHANGED <<phase, req, cache, dbQueue, died, usage, spend, points, hooks>>
      /\ Alive' <=> Alive
      /\ worker' = {}
      /\ \/ saved' = saved \cup worker /\ UNCHANGED lost
         \/ lost' = lost \cup worker /\ UNCHANGED saved
  BY DEF WorkerRecords, books, Alive
<1>2. \A q \in Requests : Fine(q)' /\ (Due(q)' <=> Due(q))
  BY <1>1, BooksStay
<1>3. TypeOK'
  BY <1>0, <1>1 DEF TypeOK
<1>4. ASSUME NEW q \in Requests PROVE Placed(q)'
  <2>1. Placed(q) /\ (Due(q)' <=> Due(q)) /\ (InQueue(q)' <=> InQueue(q))
    BY <1>0, <1>1, <1>2 DEF InQueue
  <2> QED
    BY <1>1, <2>1 DEF Placed
<1>5. CacheJudged' /\ QueueDistinct'
  BY <1>0, <1>1 DEF CacheJudged, QueueDistinct
<1> QED
  BY <1>2, <1>3, <1>4, <1>5, IndInvPartsNext

\* Nothing but the phase of the process and entries of the cache changes.
LEMMA AsideStep ==
    ASSUME IndInv, UNCHANGED <<req, db, books, points, hooks>>, ~Alive => ~Alive',
           phase' \in {"running", "draining", "drained", "closed", "exited"},
           cache' \in [Prompts -> Outputs \cup {NoContent}],
           \A q \in Prompts : cache'[q] \in {cache[q], NoContent}
    PROVE  IndInv'
<1>0. TypeOK /\ CacheJudged /\ QueueDistinct /\ \A q \in Requests : Fine(q) /\ Placed(q)
  BY IndInvParts
<1>1. \A q \in Requests : Fine(q)' /\ (Due(q)' <=> Due(q))
  BY BooksStay DEF books
<1>2. TypeOK'
  BY <1>0 DEF TypeOK, db, books
<1>3. CacheJudged'
  BY <1>0 DEF CacheJudged
<1>4. QueueDistinct' /\ \A q \in Requests : Placed(q)'
  BY <1>0, <1>1, QueueStays, PlacedStays
<1> QED
  BY <1>1, <1>2, <1>3, <1>4, IndInvPartsNext

\* The process exits, and the events it has not written die with it.
LEMMA MainReturnsStep ==
    ASSUME IndInv, MainReturns
    PROVE  IndInv'
<1>0. TypeOK /\ CacheJudged /\ QueueDistinct /\ \A q \in Requests : Fine(q) /\ Placed(q)
  BY IndInvParts
<1>1. /\ UNCHANGED <<req, cache, saved, lost, usage, spend, points, hooks>>
      /\ Alive /\ phase' = "exited" /\ ~Alive'
      /\ died' = {q \in Requests : InQueue(q)} \cup worker
      /\ dbQueue' = <<>> /\ worker' = {}
  BY DEF MainReturns, books, Alive
<1>2. \A q \in Requests : Fine(q)' /\ (Due(q)' <=> Due(q))
  BY <1>1, BooksStay
<1>3. TypeOK'
  <2>1. DbQueueSize \in Nat /\ worker \subseteq Requests
    BY <1>0, GatewayAssumption, Zenon DEF TypeOK
  <2>2. dbQueue' \in Seq(Requests) /\ Len(dbQueue') <= DbQueueSize
    BY <1>1, <2>1
  <2>3. died' \subseteq Requests /\ worker' \in SUBSET Requests
    BY <1>1, <2>1
  <2> QED
    BY <1>0, <1>1, <2>2, <2>3 DEF TypeOK
<1>4. ASSUME NEW q \in Requests PROVE Placed(q)'
  <2>1. Placed(q) /\ (Due(q)' <=> Due(q)) /\ ~InQueue(q)' /\ q \notin worker'
        /\ (q \in died' <=> InQueue(q) \/ q \in worker) /\ q \notin died
    BY <1>0, <1>1, <1>2 DEF InQueue, Placed
  <2> QED
    BY <1>1, <2>1 DEF Placed
<1>5. CacheJudged' /\ QueueDistinct'
  BY <1>0, <1>1 DEF CacheJudged, QueueDistinct
<1> QED
  BY <1>2, <1>3, <1>4, <1>5, IndInvPartsNext

LEMMA OutsideStep ==
    ASSUME IndInv,
           \/ \E q \in Prompts : CacheForgets(q)
           \/ Signal \/ ShutdownReturns \/ Close
           \/ UNCHANGED vars
    PROVE  IndInv'
<1>0. TypeOK
  BY IndInvParts
<1>1. UNCHANGED <<req, db, books, points, hooks>> /\ (~Alive => ~Alive')
  BY DEF CacheForgets, Signal, ShutdownReturns, Close, vars, db, books, Alive
<1>2. phase' \in {"running", "draining", "drained", "closed", "exited"}
  BY <1>0 DEF TypeOK, CacheForgets, Signal, ShutdownReturns, Close, vars
<1>3. /\ cache' \in [Prompts -> Outputs \cup {NoContent}]
      /\ \A q \in Prompts : cache'[q] \in {cache[q], NoContent}
  BY <1>0 DEF TypeOK, CacheForgets, Signal, ShutdownReturns, Close, vars
<1> QED
  BY <1>1, <1>2, <1>3, AsideStep

-----------------------------------------------------------------------------
(* The theorems *)

LEMMA InitIndInv == Init => IndInv
<1> SUFFICES ASSUME Init PROVE IndInv
  OBVIOUS
<1> DEFINE x == [pc |-> "idle", kind |-> "unary",
                 prompt |-> NoContent, out |-> NoContent, status |-> 0]
<1>1. x \in ReqType
  <2>1. "idle" \in PCs
    BY DEF PCs
  <2> QED
    BY <2>1 DEF ReqType
<1>2. \A r \in Requests : req[r] = x
  BY DEF Init
<1>3. TypeOK
  <2>1. req \in [Requests -> ReqType]
    BY <1>1 DEF Init
  <2>2. cache \in [Prompts -> Outputs \cup {NoContent}]
    BY DEF Init
  <2>3. dbQueue \in Seq(Requests) /\ Len(dbQueue) <= DbQueueSize
    BY GatewayAssumption DEF Init
  <2>4. phase \in {"running", "draining", "drained", "closed", "exited"}
    BY DEF Init
  <2>5. /\ worker \in SUBSET Requests
        /\ saved \subseteq Requests /\ lost \subseteq Requests /\ died \subseteq Requests
        /\ usage \subseteq Requests /\ spend \subseteq Requests /\ points \subseteq Requests
        /\ hooks \subseteq Requests \X {"violation", "warning", "stream violation"}
    BY DEF Init
  <2> QED
    BY <2>1, <2>2, <2>3, <2>4, <2>5 DEF TypeOK
<1>4. CacheJudged /\ QueueDistinct
  BY DEF Init, CacheJudged, QueueDistinct
<1>5. ASSUME NEW r \in Requests PROVE Fine(r) /\ Placed(r)
  <2>1. req[r].pc = "idle" /\ req[r].status = 0
    BY <1>2
  <2>2. r \notin usage \cup spend \cup points /\ hooks = {}
    BY DEF Init
  <2>3. Fine(r)
    BY <2>1, <2>2 DEF Fine, Progress, Served, Agreed
  <2>4. ~InQueue(r) /\ r \notin worker \cup saved \cup lost \cup died
    BY DEF Init, InQueue
  <2> QED
    BY <2>2, <2>3, <2>4 DEF Placed, Due
<1> QED
  BY <1>3, <1>4, <1>5, IndInvParts

LEMMA NextIndInv == IndInv /\ [Next]_vars => IndInv'
<1> SUFFICES ASSUME IndInv, [Next]_vars PROVE IndInv'
  OBVIOUS
<1>1. ASSUME NEW r \in Requests, NEW q \in Prompts, NEW kind \in Kinds, Receive(r, q, kind)
      PROVE  IndInv'
  <2>1. kind \in {"unary", "stream"}
    BY GatewayAssumption
  <2> QED
    BY <1>1, <2>1, ReceiveStep
<1>2. ASSUME NEW r \in Requests, BadRequest(r) \/ OverBudget(r)
      PROVE  IndInv'
  BY <1>2, BadRequestStep, OverBudgetStep
<1>3. ASSUME NEW r \in Requests, Handle(r)
      PROVE  IndInv'
  BY <1>3, CheckInputStep, CacheGetStep, RouteFailsStep, RoutedStep, CheckOutputStep,
     CacheSetStep, TrackUsageStep, EnqueueStep, RespondStep, OpenStreamStep, EndStreamStep,
     Zenon DEF Handle
<1>4. ASSUME Worker
      PROVE  IndInv'
  BY <1>4, WorkerReceivesStep, WorkerRecordsStep DEF Worker
<1> QED
  BY <1>1, <1>2, <1>3, <1>4, MainReturnsStep, OutsideStep, Zenon DEF Next

\* The invariant holds in every state, of the handlers, the worker and the
\* shutdown together.
THEOREM GatewayInvariant == Spec => []IndInv
BY InitIndInv, NextIndInv, PTL DEF Spec

\* The types hold, the bound on dbQueue (handler.go:51) among them.
THEOREM GatewayTypes == Spec => []TypeOK
<1>1. IndInv => TypeOK
  BY DEF IndInv
<1> QED
  BY <1>1, GatewayInvariant, PTL

\* No unary request is answered, by a provider or from the cache, with what the
\* policy engine blocks: ChatCompletion asks CheckInput before the cache and the
\* route, and CheckOutput before cache.Set.
THEOREM GatewayBlocked == Spec => []BlockedNotServed
<1>1. IndInv => BlockedNotServed
  BY DEF IndInv
<1> QED
  BY <1>1, GatewayInvariant, PTL

\* Whatever the size of dbQueue, the event of a counted request is in the queue,
\* in dbWorker's hands, saved or logged as lost, and in one of these only; when
\* main has returned, the ones in the queue and in dbWorker's hands have died.
THEOREM GatewayEvents == Spec => []EventsAccounted
<1>1. ASSUME IndInv PROVE EventsAccounted
  <2>1. QueueDistinct /\ \A r \in Requests : Placed(r)
    BY <1>1 DEF IndInv
  <2>d. died # {} => ~Alive
    <3>1. died \subseteq Requests /\ \A r \in Requests : r \in died => ~Alive
      BY <1>1, <2>1 DEF IndInv, TypeOK, Placed
    <3> QED
      BY <3>1
  <2> SUFFICES ASSUME NEW r \in Requests
               PROVE  LET places == {p \in {"queue", "worker", "saved", "lost", "died"} :
                                        \/ p = "queue" /\ InQueue(r)
                                        \/ p = "worker" /\ r \in worker
                                        \/ p = "saved" /\ r \in saved
                                        \/ p = "lost" /\ r \in lost
                                        \/ p = "died" /\ r \in died}
                      IN IF Due(r) THEN \E p \in places : places = {p}
                         ELSE places = {}
    BY <2>1, <2>d DEF EventsAccounted, QueueDistinct, Due
  <2> DEFINE places == {p \in {"queue", "worker", "saved", "lost", "died"} :
                           \/ p = "queue" /\ InQueue(r)
                           \/ p = "worker" /\ r \in worker
                           \/ p = "saved" /\ r \in saved
                           \/ p = "lost" /\ r \in lost
                           \/ p = "died" /\ r \in died}
  <2>2. /\ Due(r) <=> InQueue(r) \/ r \in worker \cup saved \cup lost \cup died
        /\ InQueue(r) => r \notin worker \cup saved \cup lost \cup died
        /\ r \in worker => r \notin saved \cup lost \cup died
        /\ r \in saved => r \notin lost \cup died
        /\ r \in lost => r \notin died
    BY <2>1 DEF Placed
  <2>3. /\ "queue" \in places <=> InQueue(r)
        /\ "worker" \in places <=> r \in worker
        /\ "saved" \in places <=> r \in saved
        /\ "lost" \in places <=> r \in lost
        /\ "died" \in places <=> r \in died
        /\ \A p \in places : p \in {"queue", "worker", "saved", "lost", "died"}
    OBVIOUS
  <2> HIDE DEF places
  <2>4. CASE Due(r)
    <3>1. \E p \in places : places = {p}
      BY <2>2, <2>3, <2>4
    <3> QED
      BY <2>4, <3>1 DEF places
  <2>5. CASE ~Due(r)
    <3>1. places = {}
      BY <2>2, <2>3, <2>5
    <3> QED
      BY <2>5, <3>1 DEF places
  <2> QED
    BY <2>4, <2>5
<1> QED
  BY <1>1, GatewayInvariant, PTL

\* When a request is over, the usage tracker, the budgets' spend, the webhook
\* and analytics agree about it, unless its handler panicked on the closed queue.
THEOREM GatewayBooks == Spec => []BooksAgree
<1>1. IndInv => BooksAgree
  BY DEF IndInv
<1> QED
  BY <1>1, GatewayInvariant, PTL

-----------------------------------------------------------------------------
(* The response cache the handler asks (module Cache), whose state is its    *)
(* entries and what each request is asking it.                               *)

\* FlattenSeq(s) is the last of the texts it builds, one per element of s.
Built(s, n, f) ==
    f = [i \in 1 .. n |-> IF i = 1 THEN s[i] ELSE f[i - 1] \o s[i]]

LEMMA BuiltExists ==
    ASSUME NEW s
    PROVE  \A n \in Nat : \E f : Built(s, n, f)
<1> DEFINE N == {n \in Nat : \E f : Built(s, n, f)}
<1>1. 0 \in N
  <2> DEFINE f == [i \in 1 .. 0 |-> s]
  <2>1. Built(s, 0, f)
    BY DEF Built
  <2> QED BY <2>1
<1>2. ASSUME NEW n \in Nat, n \in N PROVE n + 1 \in N
  <2>1. PICK f : Built(s, n, f)
    BY <1>2
  <2> DEFINE last == IF n = 0 THEN s[1] ELSE f[n] \o s[n + 1]
             g == [i \in 1 .. n + 1 |-> IF i = n + 1 THEN last ELSE f[i]]
  <2>2. ASSUME NEW i \in 1 .. n + 1
        PROVE  g[i] = IF i = 1 THEN s[i] ELSE g[i - 1] \o s[i]
    <3>1. CASE i = n + 1
      <4>1. n # 0 => g[i - 1] = f[n]
        BY <3>1
      <4> QED BY <3>1, <4>1
    <3>2. CASE i # n + 1
      <4>1. i \in 1 .. n /\ g[i] = f[i] /\ (i # 1 => g[i - 1] = f[i - 1])
        BY <3>2
      <4> QED BY <2>1, <4>1 DEF Built
    <3> QED BY <3>1, <3>2
  <2>3. DOMAIN g = 1 .. n + 1 /\ g = [i \in 1 .. n + 1 |-> g[i]]
    OBVIOUS
  <2> HIDE DEF g
  <2>4. Built(s, n + 1, g)
    BY <2>2, <2>3 DEF Built
  <2> QED BY <2>4
<1> HIDE DEF N
<1>3. \A n \in Nat : n \in N
  BY <1>1, <1>2, NatSetInduction
<1> QED BY <1>3 DEF N

LEMMA FlattenedIsText ==
    ASSUME NEW s \in Seq(Text)
    PROVE  FlattenSeq(s) \in Text
<1> DEFINE n == Len(s)
           flatten == CHOOSE f : Built(s, n, f)
<1>1. CASE Len(s) = 0
  <2>1. FlattenSeq(s) = s /\ s = <<>>
    BY <1>1 DEF FlattenSeq
  <2> QED BY <2>1 DEF Text
<1>2. CASE Len(s) # 0
  <2>1. FlattenSeq(s) = flatten[n]
    BY <1>2 DEF FlattenSeq, Built
  <2>2. n \in Nat /\ n # 0 /\ \A i \in 1 .. n : s[i] \in Text
    BY <1>2
  <2>3. Built(s, n, flatten)
    BY <2>2, BuiltExists
  <2> HIDE DEF flatten, n
  <2> DEFINE N == {k \in Nat : k \in 1 .. n => flatten[k] \in Text}
  <2>4. 0 \in N
    BY <2>2
  <2>5. ASSUME NEW k \in Nat, k \in N PROVE k + 1 \in N
    <3> SUFFICES ASSUME k + 1 \in 1 .. n PROVE flatten[k + 1] \in Text
      OBVIOUS
    <3>1. CASE k = 0
      BY <2>2, <2>3, <3>1 DEF Built
    <3>2. CASE k # 0
      <4>1. flatten[k] \in Text /\ s[k + 1] \in Text
        BY <2>2, <2>5, <3>2
      <4>2. PICK i \in 1 .. n : i = k + 1 /\ i - 1 = k /\ i # 1
        BY <2>2, <3>2
      <4>3. flatten[i] = flatten[i - 1] \o s[i]
        BY <2>3, <4>2 DEF Built
      <4> QED BY <4>1, <4>2, <4>3 DEF Text
    <3> QED BY <3>1, <3>2
  <2> HIDE DEF N
  <2>6. \A k \in Nat : k \in N
    BY <2>4, <2>5, NatSetInduction
  <2> QED BY <2>1, <2>2, <2>6 DEF N
<1> QED BY <1>1, <1>2

\* The tenant can be read off a text that goes on with the separator.
Unseparated(t) == \A i \in 1 .. Len(t) : t[i] # 0
Keyed(t, x, v) == t \o <<0>> \o x \o v

LEMMA TenantFirst ==
    ASSUME NEW t \in Text, NEW u \in Text, NEW x \in Text, NEW y \in Text,
           NEW v \in Text, NEW w \in Text,
           Unseparated(t), Unseparated(u), Keyed(t, x, v) = Keyed(u, y, w)
    PROVE  t = u
<1> DEFINE k == t \o <<0>> \o x \o v
           l == u \o <<0>> \o y \o w
<1>1. t = [i \in 1 .. Len(t) |-> t[i]] /\ u = [i \in 1 .. Len(u) |-> u[i]]
  BY DEF Text
<1>2. /\ k[Len(t) + 1] = 0 /\ \A i \in 1 .. Len(t) : k[i] = t[i]
  BY DEF Text
<1>3. /\ l[Len(u) + 1] = 0 /\ \A i \in 1 .. Len(u) : l[i] = u[i]
  BY DEF Text
<1>4. k = l
  BY DEF Keyed
<1> HIDE DEF k, l
<1>5. Len(t) = Len(u)
  <2>0. Len(t) \in Nat /\ Len(u) \in Nat
    BY DEF Text
  <2>1. ~(Len(t) < Len(u))
    <3> SUFFICES ASSUME Len(t) + 1 \in 1 .. Len(u) PROVE FALSE
      BY <2>0
    <3> QED BY <1>2, <1>3, <1>4 DEF Unseparated
  <2>2. ~(Len(u) < Len(t))
    <3> SUFFICES ASSUME Len(u) + 1 \in 1 .. Len(t) PROVE FALSE
      BY <2>0
    <3> QED BY <1>2, <1>3, <1>4 DEF Unseparated
  <2> QED BY <2>0, <2>1, <2>2
<1>6. \A i \in 1 .. Len(t) : t[i] = u[i]
  BY <1>2, <1>3, <1>4, <1>5
<1> QED BY <1>1, <1>5, <1>6

\* The parts of a key.
Said(q) == FlattenSeq([i \in 1 .. Len(q.messages) |->
                             q.messages[i].role \o q.messages[i].content])

LEMMA KeyParts ==
    ASSUME NEW q \in Queries
    PROVE  /\ q.tenant \in Text /\ q.model \in Text /\ Said(q) \in Text
           /\ Unseparated(q.tenant)
           /\ BuildKey(q) = Keyed(q.tenant, q.model, Said(q))
<1>1. PICK Message : Message = [role : Text, content : Text]
  OBVIOUS
<1>2. /\ q.tenant \in Text /\ q.model \in Text /\ q.messages \in Seq(Message)
      /\ Unseparated(q.tenant)
  BY <1>1, CacheAssumption DEF CacheAssumption, Unseparated
<1>3. ASSUME NEW i \in 1 .. Len(q.messages)
      PROVE  q.messages[i].role \o q.messages[i].content \in Text
  <2>1. q.messages[i] \in Message
    BY <1>2
  <2>2. q.messages[i].role \in Text /\ q.messages[i].content \in Text
    BY <1>1, <2>1
  <2> QED BY <2>2 DEF Text
<1>4. Said(q) \in Text
  <2> DEFINE parts == [i \in 1 .. Len(q.messages) |->
                          q.messages[i].role \o q.messages[i].content]
  <2>1. parts \in Seq(Text)
    BY <1>2, <1>3
  <2>2. Said(q) = FlattenSeq(parts)
    BY DEF Said
  <2> HIDE DEF parts
  <2> QED BY <2>1, <2>2, FlattenedIsText
<1>5. BuildKey(q) = Keyed(q.tenant, q.model, Said(q))
  BY DEF BuildKey, Said, Keyed
<1> QED BY <1>2, <1>4, <1>5

\* BuildKey keeps tenants apart.
LEMMA KeysByTenant ==
    ASSUME NEW p \in Queries, NEW q \in Queries,
           BuildKey(p) = BuildKey(q)
    PROVE  p.tenant = q.tenant
BY KeyParts, TenantFirst

-----------------------------------------------------------------------------

AskType == [pc : {"idle", "missed", "hit", "done"}, query : Queries, got : Queries]

\* What Get leaves: the entries, and a request that has asked.
LEMMA GetStep ==
    ASSUME CacheInv, NEW r \in Callers, NEW q \in Queries,
           Get(r, q)
    PROVE  CacheInv'
<1>0. /\ asking \in [Callers -> AskType] /\ entries' = entries
      /\ \A k \in DOMAIN entries : entries[k].query \in Queries
      /\ TenantIsolated
  BY DEF CacheInv, CacheTypeOK, Entry, AskType, Get
<1>1. PICK x \in AskType :
        /\ asking' = [asking EXCEPT ![r] = x]
        /\ x.pc = "hit" => x.got.tenant = x.query.tenant
  <2>1. CASE BuildKey(q) \in DOMAIN entries /\ ~Expired(BuildKey(q))
    <3> DEFINE g == entries[BuildKey(q)].query
               x == [pc |-> "hit", query |-> q, got |-> g]
    <3>1. asking' = [asking EXCEPT ![r] = x]
      BY <2>1 DEF Get
    <3>2. g \in Queries /\ BuildKey(g) = BuildKey(q)
      BY <1>0, <2>1 DEF CacheInv, FiledByKey
    <3>3. g.tenant = q.tenant
      BY <3>2, KeysByTenant
    <3>4. x \in AskType /\ x.got.tenant = x.query.tenant
      BY <3>2, <3>3 DEF AskType
    <3> QED BY <3>1, <3>4
  <2>2. CASE ~(BuildKey(q) \in DOMAIN entries /\ ~Expired(BuildKey(q)))
    <3> DEFINE x == [pc |-> "missed", query |-> q, got |-> q]
    <3>1. asking' = [asking EXCEPT ![r] = x]
      BY <2>2 DEF Get
    <3>2. x \in AskType /\ x.pc # "hit"
      BY DEF AskType
    <3> QED BY <3>1, <3>2
  <2> QED BY <2>1, <2>2
<1>2. asking' \in [Callers -> AskType] /\ TenantIsolated'
  BY <1>0, <1>1 DEF TenantIsolated
<1> QED
  BY <1>0, <1>2 DEF CacheInv, CacheTypeOK, FiledByKey, SizeBounded, AskType

\* What Set and a request that gives up leave of what the requests ask.
LEMMA AskedDone ==
    ASSUME CacheInv, NEW r \in Callers, asking' = [asking EXCEPT ![r].pc = "done"]
    PROVE  asking' \in [Callers -> AskType] /\ TenantIsolated'
<1>1. asking \in [Callers -> AskType] /\ TenantIsolated
  BY DEF CacheInv, CacheTypeOK, AskType
<1> DEFINE x == [asking[r] EXCEPT !.pc = "done"]
<1>2. x \in AskType /\ x.pc = "done" /\ asking' = [asking EXCEPT ![r] = x]
  BY <1>1 DEF AskType
<1> HIDE DEF x
<1> QED BY <1>1, <1>2 DEF TenantIsolated

\* Eviction leaves room for one more.
LEMMA RoomForOne ==
    ASSUME CacheInv, NEW kept \in SUBSET DOMAIN entries,
           Keep(Purged, kept), NEW new
    PROVE  /\ IsFiniteSet(kept \cup {new})
           /\ Cardinality(kept \cup {new}) <= IF MaxSize < 1 THEN 1 ELSE MaxSize
<1> DEFINE Bound == IF MaxSize < 1 THEN 1 ELSE MaxSize
<1>0. PICK ks \in SUBSET DOMAIN entries : ks = Purged
  BY DEF Purged
<1>1. /\ ks \in SUBSET DOMAIN entries /\ IsFiniteSet(DOMAIN entries)
      /\ Cardinality(DOMAIN entries) <= Bound
  BY DEF CacheInv, SizeBounded
<1>2. /\ IsFiniteSet(ks) /\ Cardinality(ks) <= Cardinality(DOMAIN entries)
      /\ Cardinality(ks) \in Nat /\ Cardinality(DOMAIN entries) \in Nat
  BY <1>1, FS_Subset, FS_CardinalityType
<1>3. MaxSize \in Int /\ MaxSize # 0
  BY CacheAssumption DEF CacheAssumption
<1>4. IsFiniteSet(kept) /\ Cardinality(kept) \in Nat
  BY <1>1, FS_Subset, FS_CardinalityType
<1>5. Cardinality(kept) + 1 <= Bound
  <2>1. CASE Cardinality(ks) >= MaxSize /\ ks # {}
    <3>1. PICK k \in ks : kept = ks \ {k}
      BY <1>0, <2>1 DEF Keep, Oldest
    <3>2. Cardinality(kept) = Cardinality(ks) - 1
      BY <1>2, <3>1, FS_RemoveElement
    <3> QED BY <1>1, <1>2, <1>3, <3>2
  <2>2. CASE ks = {}
    <3>1. kept = {}
      BY <1>0, <2>2 DEF Keep
    <3>2. Cardinality(kept) = 0
      BY <3>1, FS_EmptySet
    <3> QED BY <1>3, <3>2
  <2>3. CASE ~(Cardinality(ks) >= MaxSize)
    <3>1. kept = ks
      BY <1>0, <2>3 DEF Keep
    <3> QED BY <1>2, <1>3, <2>3, <3>1
  <2> QED BY <2>1, <2>2, <2>3
<1>6. /\ IsFiniteSet(kept \cup {new})
      /\ Cardinality(kept \cup {new}) \in {Cardinality(kept), Cardinality(kept) + 1}
  BY <1>4, FS_AddElement
<1> QED BY <1>3, <1>4, <1>5, <1>6

LEMMA SetStep ==
    ASSUME CacheInv, NEW r \in Callers, Set(r)
    PROVE  CacheInv'
<1>1. PICK q \in Queries : q = asking[r].query
  BY DEF CacheInv, CacheTypeOK
<1>2. PICK new : new = BuildKey(q)
  OBVIOUS
<1>3. PICK kept \in SUBSET DOMAIN entries :
        /\ Keep(Purged, kept)
        /\ entries' = [k \in kept \cup {new} |->
                        IF k = new THEN [query |-> q, left |-> TTL] ELSE entries[k]]
  BY <1>1, <1>2 DEF Set
<1>4. asking' \in [Callers -> AskType] /\ TenantIsolated'
  BY AskedDone DEF Set
<1>5. DOMAIN entries' = kept \cup {new}
  BY <1>3
<1>6. IsFiniteSet(DOMAIN entries') /\ SizeBounded'
  <2>1. /\ IsFiniteSet(kept \cup {new})
        /\ Cardinality(kept \cup {new}) <= IF MaxSize < 1 THEN 1 ELSE MaxSize
    BY <1>3, RoomForOne
  <2>2. Cardinality(kept \cup {new}) = Cardinality(kept \cup {new})
    OBVIOUS
  <2>3. Cardinality(DOMAIN entries') <= IF MaxSize < 1 THEN 1 ELSE MaxSize
    BY <1>5, <2>1, <2>2
  <2> QED BY <1>5, <2>1, <2>3 DEF SizeBounded
<1>7. TTL \in -1 .. TTL
  BY CacheAssumption DEF CacheAssumption
<1>8. ASSUME NEW k \in kept \cup {new}
      PROVE  k \in CacheKeys /\ entries'[k] \in Entry /\ BuildKey(entries'[k].query) = k
  <2>1. CASE k = new
    <3>1. entries'[k] = [query |-> q, left |-> TTL]
      BY <1>3, <2>1
    <3> QED BY <1>2, <1>7, <2>1, <3>1 DEF CacheKeys, Entry
  <2>2. CASE k # new
    <3>1. k \in DOMAIN entries /\ entries'[k] = entries[k]
      BY <1>3, <2>2
    <3> QED BY <3>1 DEF CacheInv, CacheTypeOK, FiledByKey
  <2> QED BY <2>1, <2>2
<1>9. CacheTypeOK'
  BY <1>4, <1>5, <1>8 DEF CacheTypeOK, AskType
<1>10. FiledByKey'
  BY <1>5, <1>8 DEF FiledByKey
<1>11. IsFiniteSet(DOMAIN entries')
  BY <1>6
<1> QED
  BY <1>4, <1>6, <1>9, <1>10, <1>11 DEF CacheInv

LEMMA GiveUpStep ==
    ASSUME CacheInv, NEW r \in Callers, GiveUp(r)
    PROVE  CacheInv'
<1>1. asking' \in [Callers -> AskType] /\ TenantIsolated' /\ entries' = entries
  BY AskedDone DEF GiveUp
<1> QED
  BY <1>1 DEF CacheInv, CacheTypeOK, FiledByKey, SizeBounded, AskType

LEMMA AgeStep ==
    ASSUME CacheInv, Age
    PROVE  CacheInv'
<1>1. DOMAIN entries' = DOMAIN entries /\ asking' = asking
  BY DEF Age
<1>2. ASSUME NEW k \in DOMAIN entries
      PROVE  entries'[k] \in Entry /\ entries'[k].query = entries[k].query
  <2>1. PICK n : n = IF entries[k].left = -1 THEN -1 ELSE entries[k].left - 1
    OBVIOUS
  <2>2. entries'[k] = [entries[k] EXCEPT !.left = n]
    BY <2>1 DEF Age
  <2>3. entries[k] \in Entry
    BY DEF CacheInv, CacheTypeOK
  <2>4. n \in -1 .. TTL
    BY <2>1, <2>3, CacheAssumption DEF Entry, CacheAssumption
  <2> QED BY <2>2, <2>3, <2>4 DEF Entry
<1>3. CacheTypeOK' /\ FiledByKey'
  BY <1>1, <1>2 DEF CacheInv, CacheTypeOK, FiledByKey
<1>4. SizeBounded' /\ TenantIsolated' /\ IsFiniteSet(DOMAIN entries')
  BY <1>1 DEF CacheInv, SizeBounded, TenantIsolated
<1> QED
  BY <1>3, <1>4 DEF CacheInv

LEMMA CacheStart ==
    ASSUME CacheInit
    PROVE  CacheInv
<1>1. NoQuery \in Queries
  BY CacheAssumption DEF NoQuery, CacheAssumption
<1>2. DOMAIN entries = {}
  BY DEF CacheInit
<1>3. CacheTypeOK /\ FiledByKey /\ TenantIsolated
  <2>1. \A r \in Callers : asking[r] = [pc |-> "idle", query |-> NoQuery, got |-> NoQuery]
    BY DEF CacheInit
  <2>2. asking \in [Callers -> AskType]
    BY <1>1 DEF CacheInit, AskType
  <2> QED BY <1>2, <2>1, <2>2 DEF CacheTypeOK, FiledByKey, TenantIsolated, AskType
<1>4. IsFiniteSet(DOMAIN entries) /\ SizeBounded
  <2>1. IsFiniteSet({}) /\ Cardinality({}) = 0
    BY FS_EmptySet
  <2>2. MaxSize \in Int
    BY CacheAssumption DEF CacheAssumption
  <2> QED BY <1>2, <2>1, <2>2 DEF SizeBounded
<1> QED BY <1>3, <1>4 DEF CacheInv

\* The cache's inductive invariant: entries are filed under the key of their
\* query, and there are never more of them than max_size.
THEOREM CacheInvariant == CacheSpec => []CacheInv
<1>1. CacheInit => CacheInv
  BY CacheStart
<1>2. ASSUME CacheInv, [CacheNext]_cacheVars PROVE CacheInv'
  <2>1. CASE UNCHANGED cacheVars
    BY <1>2, <2>1 DEF cacheVars, CacheInv, CacheTypeOK, FiledByKey, SizeBounded,
                      TenantIsolated
  <2>2. CASE CacheNext
    BY <1>2, <2>2, GetStep, SetStep, GiveUpStep, AgeStep DEF CacheNext
  <2> QED BY <1>2, <2>1, <2>2
<1> QED
  BY <1>1, <1>2, PTL DEF CacheSpec

\* Entries and requests keep their types.
THEOREM CacheTypes == CacheSpec => []CacheTypeOK
<1>1. CacheInv => CacheTypeOK
  BY DEF CacheInv
<1> QED BY <1>1, CacheInvariant, PTL

\* MemoryCache.Set never leaves more than max_size entries, for every number
\* of concurrent requests and every order of their misses and Sets.
THEOREM CacheBounded == CacheSpec => []SizeBounded
<1>1. CacheInv => SizeBounded
  BY DEF CacheInv
<1> QED BY <1>1, CacheInvariant, PTL

\* No tenant is ever answered from another tenant's entry: a tenant's name
\* has no separator in it, so BuildKey never maps two tenants to one key.
THEOREM CacheIsolated == CacheSpec => []TenantIsolated
<1>1. CacheInv => TenantIsolated
  BY DEF CacheInv
<1> QED BY <1>1, CacheInvariant, PTL

\* A Set drops at most one good answer, and only when they fill the cache.
LEMMA DropsOneLive ==
    ASSUME CacheInv, NEW r \in Callers, Set(r),
           NEW gone \in Live \ DOMAIN entries'
    PROVE  /\ Cardinality(Live) >= MaxSize
           /\ Live \ DOMAIN entries' = {gone}
<1>1. PICK new, ks : new = BuildKey(asking[r].query) /\ ks = Purged
  OBVIOUS
<1>2. PICK kept \in SUBSET DOMAIN entries :
        /\ Keep(ks, kept)
        /\ entries' = [k \in kept \cup {new} |->
                        IF k = new THEN [query |-> asking[r].query, left |-> TTL]
                        ELSE entries[k]]
  BY <1>1 DEF Set
<1>3. /\ \A k \in Live : k \in ks
      /\ Cardinality(DOMAIN entries) >= MaxSize => ks = Live
      /\ ~(Cardinality(DOMAIN entries) >= MaxSize) => ks = DOMAIN entries
  BY <1>1 DEF Purged, Live
<1>4. gone \in ks /\ gone \notin kept
  BY <1>2, <1>3
<1>5. /\ Cardinality(ks) >= MaxSize
      /\ \E k \in ks : kept = ks \ {k}
  BY <1>2, <1>4 DEF Keep, Oldest
<1>6. ks = Live
  BY <1>3, <1>5
<1>7. kept = Live \ {gone}
  BY <1>4, <1>5, <1>6
<1>8. DOMAIN entries' = kept \cup {new}
  BY <1>2
<1>9. Live \ DOMAIN entries' = {gone}
  BY <1>7, <1>8
<1> QED BY <1>5, <1>6, <1>9

\* Eviction never costs a good answer while an expired one takes up room, nor
\* more than one.
THEOREM CacheLiveKept == CacheSpec => LiveKept
<1>1. ASSUME CacheInv, [CacheNext]_cacheVars
      PROVE  [\A gone \in Live \ DOMAIN entries' :
                  /\ Cardinality(Live) >= MaxSize
                  /\ Live \ DOMAIN entries' = {gone}]_cacheVars
  <2>1. ASSUME NEW r \in Callers, Set(r), NEW gone \in Live \ DOMAIN entries'
        PROVE  /\ Cardinality(Live) >= MaxSize
               /\ Live \ DOMAIN entries' = {gone}
    BY <1>1, <2>1, DropsOneLive
  <2>2. ASSUME NEW gone \in Live \ DOMAIN entries'
        PROVE  \E r \in Callers : Set(r)
    <3>1. DOMAIN entries' # DOMAIN entries
      BY DEF Live
    <3> QED BY <1>1, <3>1 DEF CacheNext, cacheVars, Get, GiveUp, Age
  <2> QED BY <2>1, <2>2
<1> QED
  BY <1>1, CacheInvariant, PTL DEF CacheSpec, LiveKept
=============================================================================
