------------------------------- MODULE Rollout -------------------------------
(***************************************************************************)
(* The canary rollout manager of internal/rollout.                         *)
(*                                                                         *)
(* Admin requests and the background evaluator share one Store.  Every     *)
(* operation of the manager is "read a clone, change the clone, Update the *)
(* whole row": nothing is locked in between, so each operation is two      *)
(* steps here and they interleave.  The two stores (MemoryStore,           *)
(* PostgresStore) differ in that the second one can fail and survives a    *)
(* restart; both are covered by letting a store call fail and by Crash.    *)
(*                                                                         *)
(* Time is kept as the age of the current stage (time.Since of             *)
(* StageStartedAt), saturating at the observation window, the only value   *)
(* the code compares it with.                                              *)
(***************************************************************************)
EXTENDS Integers, FiniteSets

CONSTANTS Admins,        \* admin requests being served concurrently
          Evaluator,     \* the evaluation loop's goroutine
          Models,        \* route models
          MaxRollouts,   \* bound: rollouts created in one behaviour
          Stages,        \* percentages of the stages, Stages[0] the first
          LastStage,     \* len(Stages) - 1
          Window,        \* observation window, in ticks
          ListLimit      \* rows List() returns (50 in both stores)

ASSUME RolloutAssumption ==
    /\ Evaluator \notin Admins
    /\ Models # {}
    /\ MaxRollouts \in Nat
    /\ LastStage \in Nat
    /\ Stages \in [0 .. LastStage -> Int]
    /\ Window \in Nat
    /\ ListLimit \in Nat

VARIABLES
    rollouts,  \* the store: rollouts[i] is row i, or has state "absent"
    nextId,    \* ids are r-<UnixNano of the creation>: handed out in order
    op,        \* op[p]: the clone process p is about to write, if any
    todo,      \* rollouts of the current evaluateAll pass not yet evaluated
    snap,      \* the clones List() returned for them
    sure,      \* history: clones in snap whose row nobody has written since
    raced      \* history: some write has overwritten a row it had not read

vars == <<rollouts, nextId, op, todo, snap, sure, raced>>

Procs == Admins \cup {Evaluator}
Ids   == 1 .. MaxRollouts

Pending    == "pending"       \* known to the stores, written by nobody
Running    == "running"
Paused     == "paused"
RolledBack == "rolled_back"
Completed  == "completed"
Absent     == "absent"        \* no such row in the store

Terminal == {RolledBack, Completed}

Row == [model  : Models,
        stage  : 0 .. LastStage,
        pct    : Int,
        state  : {Absent, Running, Paused, RolledBack, Completed},
        age    : 0 .. Window,
        done   : BOOLEAN,                                \* CompletedAt # nil
        reason : {"", "manual rollback", "canary unhealthy"}]

NoRow == [model |-> CHOOSE m \in Models : TRUE, stage |-> 0, pct |-> 0,
          state |-> Absent, age |-> 0, done |-> FALSE, reason |-> ""]

Idle == [pc |-> "idle", id |-> 0, row |-> NoRow, fresh |-> TRUE]

\* fresh is a history flag: the row (or, for a create, the absence of an
\* active row) that the process acts on is still what the store holds.
Op == [pc : {"idle", "create", "update"}, id : 0 .. MaxRollouts,
       row : Row, fresh : BOOLEAN]

TypeOK ==
    /\ rollouts \in [Ids -> Row]
    /\ nextId \in 1 .. MaxRollouts + 1
    /\ op \in [Procs -> Op]
    /\ todo \subseteq Ids
    /\ snap \in [Ids -> Row]
    /\ sure \subseteq Ids
    /\ raced \in BOOLEAN

Init ==
    /\ rollouts = [i \in Ids |-> NoRow]
    /\ nextId = 1
    /\ op = [p \in Procs |-> Idle]
    /\ todo = {}
    /\ snap = [i \in Ids |-> NoRow]
    /\ sure = {}
    /\ raced = FALSE

-----------------------------------------------------------------------------
(* The store *)

isActiveState(s) == s \in {Pending, Running, Paused}

\* Rows GetByModel may return: it stops at the first active row it meets.
GetByModel(m) == {i \in Ids : isActiveState(rollouts[i].state)
                                /\ rollouts[i].model = m}

\* ActiveRollout, what the router asks for: GetByModel, then "is it running".
ActiveRollout(m) == {i \in GetByModel(m) : rollouts[i].state = Running}

Present == {i \in Ids : rollouts[i].state # Absent}

\* Mutant of Listings: the cut leaves one row fewer than the limit.
ListingsCutShort == {S \in SUBSET Present :
                        /\ Cardinality(S) < ListLimit
                        /\ S # Present => Cardinality(S) = ListLimit - 1
                        /\ \A i \in S, j \in Present \ S : i > j}

\* What List() may return: the ListLimit newest rows.
Listings == {S \in SUBSET Present :
                /\ Cardinality(S) <= ListLimit
                /\ S # Present => Cardinality(S) = ListLimit
                /\ \A i \in S, j \in Present \ S : i > j}

\* Update(r) and Create(r) store the whole record.  Every other process that
\* holds a clone of the row, or has checked the same model, is now stale.
Overtaken(q, p) ==
    \/ op[q].pc = "update" /\ op[q].id = op[p].id
    \/ op[q].pc = "create" /\ op[p].pc = "create"
                           /\ op[q].row.model = op[p].row.model

Store(p) ==
    /\ rollouts' = [rollouts EXCEPT ![op[p].id] = op[p].row]
    /\ op' = [q \in Procs |->
                IF q = p THEN Idle
                ELSE IF Overtaken(q, p) THEN [op[q] EXCEPT !.fresh = FALSE]
                ELSE op[q]]
    /\ sure' = sure \ {op[p].id}
    /\ raced' = (raced \/ ~op[p].fresh)

-----------------------------------------------------------------------------
(* Operations on a clone *)

NewRow(m) == [model |-> m, stage |-> 0, pct |-> Stages[0], state |-> Running,
              age |-> 0, done |-> FALSE, reason |-> ""]

PausedRow(r)  == [r EXCEPT !.state = Paused]

ResumedRow(r) == [r EXCEPT !.state = Running, !.age = 0]

\* Mutant of RolledBackRow: the canary keeps its share of the traffic.
RolledBackRowKeepsShare(r, why) ==
    [r EXCEPT !.state = RolledBack, !.reason = why, !.done = TRUE]

RolledBackRow(r, why) ==
    [r EXCEPT !.state = RolledBack, !.pct = 0, !.reason = why, !.done = TRUE]

Promoted(r) ==
    IF r.stage >= LastStage
    THEN [r EXCEPT !.state = Completed, !.done = TRUE]
    ELSE [r EXCEPT !.stage = r.stage + 1, !.pct = Stages[r.stage + 1], !.age = 0]

-----------------------------------------------------------------------------
(* Admin operations: the read half *)

\* Get(id), the state check, and the change of the clone.
Read(a, i, from, row) ==
    /\ op[a].pc = "idle"
    /\ rollouts[i].state \in from
    /\ op' = [op EXCEPT ![a] =
                [pc |-> "update", id |-> i, row |-> row, fresh |-> TRUE]]
    /\ UNCHANGED <<rollouts, nextId, todo, snap, sure, raced>>

PauseRollout(a, i) == Read(a, i, {Running}, PausedRow(rollouts[i]))

ResumeRollout(a, i) == Read(a, i, {Paused}, ResumedRow(rollouts[i]))

\* Mutant of RollbackRollout: no check of the state.
RollbackRolloutAlways(a, i) ==
    Read(a, i, {Running, Paused, Completed},
         RolledBackRow(rollouts[i], "manual rollback"))

RollbackRollout(a, i) ==
    Read(a, i, {Running, Paused}, RolledBackRow(rollouts[i], "manual rollback"))

\* Mutant of CreateRollout: looks for a running rollout, not for an active one.
CreateRolloutBesidePaused(a, m) ==
    /\ op[a].pc = "idle"
    /\ nextId <= MaxRollouts
    /\ ActiveRollout(m) = {}
    /\ op' = [op EXCEPT ![a] = [pc |-> "create", id |-> nextId,
                                row |-> NewRow(m), fresh |-> TRUE]]
    /\ nextId' = nextId + 1
    /\ UNCHANGED <<rollouts, todo, snap, sure, raced>>

\* CreateRollout goes on when GetByModel finds no active rollout, and also
\* when GetByModel fails ("err == nil && existing != nil" is then false).
CreateRollout(a, m) ==
    /\ op[a].pc = "idle"
    /\ nextId <= MaxRollouts
    /\ \E ok \in BOOLEAN :
        /\ ok => GetByModel(m) = {}
        /\ op' = [op EXCEPT ![a] =
                    [pc |-> "create", id |-> nextId,
                     row |-> NewRow(m), fresh |-> ok]]
    /\ nextId' = nextId + 1
    /\ UNCHANGED <<rollouts, todo, snap, sure, raced>>

-----------------------------------------------------------------------------
(* The background evaluator *)

\* evaluateAll starts: List(), then rollouts that are not running are skipped.
EvaluateAll ==
    /\ op[Evaluator].pc = "idle"
    /\ todo = {}
    /\ \E S \in Listings :
        /\ todo' = {i \in S : rollouts[i].state = Running}
        /\ snap' = [i \in Ids |-> IF i \in todo' THEN rollouts[i] ELSE NoRow]
        /\ sure' = todo'
    /\ UNCHANGED <<rollouts, nextId, op, raced>>

\* The verdict of Evaluate on the request log; what the log holds is the
\* traffic's doing, so any verdict may be met.
Verdicts == {"insufficient", "unhealthy", "healthy"}

Decision(r, v) ==
    IF r.age < Window \/ v = "insufficient" THEN "wait"
    ELSE IF v = "unhealthy" THEN "rollback" ELSE "promote"

Judged(r, d) == IF d = "promote" THEN Promoted(r)
                ELSE RolledBackRow(r, "canary unhealthy")

\* One iteration of the loop, newest rollout first: Evaluate on the clone,
\* and for "promote" and "rollback" the change of the clone.
Evaluate(i, v) ==
    /\ op[Evaluator].pc = "idle"
    /\ i \in todo
    /\ \A j \in todo : j <= i
    /\ todo' = todo \ {i}
    /\ snap' = [snap EXCEPT ![i] = NoRow]
    /\ sure' = sure \ {i}
    /\ \/ Decision(snap[i], v) = "wait" /\ UNCHANGED op
       \/ /\ Decision(snap[i], v) # "wait"
          /\ op' = [op EXCEPT ![Evaluator] =
                        [pc |-> "update", id |-> i,
                         row |-> Judged(snap[i], Decision(snap[i], v)),
                         fresh |-> i \in sure]]
    /\ UNCHANGED <<rollouts, nextId, raced>>

-----------------------------------------------------------------------------
(* The write half of every operation, and the world around *)

Write(p) ==
    /\ op[p].pc # "idle"
    /\ Store(p)
    /\ UNCHANGED <<nextId, todo, snap>>

\* The store call fails: the admin gets an error, the evaluator ignores it.
WriteFails(p) ==
    /\ op[p].pc # "idle"
    /\ op' = [op EXCEPT ![p] = Idle]
    /\ UNCHANGED <<rollouts, nextId, todo, snap, sure, raced>>

\* Only the age of a running stage is ever read: ResumeRollout restarts it.
Older(r) == IF r.state = Running /\ r.age < Window
            THEN [r EXCEPT !.age = r.age + 1] ELSE r

Tick ==
    /\ rollouts' = [i \in Ids |-> Older(rollouts[i])]
    /\ op' = [p \in Procs |-> [op[p] EXCEPT !.row = Older(op[p].row)]]
    /\ snap' = [i \in Ids |-> Older(snap[i])]
    /\ UNCHANGED <<nextId, todo, sure, raced>>

\* The gateway process dies and comes back with the same database.
Crash ==
    /\ op' = [p \in Procs |-> Idle]
    /\ todo' = {}
    /\ snap' = [i \in Ids |-> NoRow]
    /\ sure' = {}
    /\ UNCHANGED <<rollouts, nextId, raced>>

Next ==
    \/ \E a \in Admins :
        \/ \E m \in Models : CreateRollout(a, m)
        \/ \E i \in Ids : \/ PauseRollout(a, i)
                          \/ ResumeRollout(a, i)
                          \/ RollbackRollout(a, i)
    \/ EvaluateAll
    \/ \E i \in Ids, v \in Verdicts : Evaluate(i, v)
    \/ \E p \in Procs : Write(p) \/ WriteFails(p)
    \/ Tick
    \/ Crash

Spec == Init /\ [][Next]_vars

\* The evaluation loop's ticker keeps firing and its store calls return
\* (they carry a 10 second timeout), so each of its steps is eventually taken.
LiveSpec == /\ Spec
            /\ WF_vars(EvaluateAll)
            /\ WF_vars(\E i \in Ids, v \in Verdicts : Evaluate(i, v))
            /\ WF_vars(Write(Evaluator) \/ WriteFails(Evaluator))

-----------------------------------------------------------------------------
(* Properties *)

RowCoherent(r) ==
    r.state # Absent =>
        /\ r.pct = IF r.state = RolledBack THEN 0 ELSE Stages[r.stage]
        /\ r.done <=> r.state \in Terminal
        /\ (r.reason # "") <=> (r.state = RolledBack)
        /\ r.state = Completed => r.stage = LastStage

\* However the writes of admins and evaluator interleave, and wherever a
\* process dies, no row mixes two lifecycle states: the traffic share, the
\* completion time and the rollback reason always belong to the row's state
\* and stage (manager.go promote, doRollback, PauseRollout, ResumeRollout,
\* RollbackRollout; whole-record Update of both stores).
RowsCoherent == \A i \in Ids : RowCoherent(rollouts[i])

\* CreateRollout "returns an error if there is already an active rollout for
\* the same model": no two rows GetByModel could return for one model.
OneActivePerModel ==
    \A m \in Models : \A i, j \in GetByModel(m) : i = j

\* The check-then-create of CreateRollout keeps the active rollout of a model
\* unique as long as no write has overwritten a row it had not read.
OneActiveUnlessRaced == ~raced => OneActivePerModel

\* The refinement mapping: what an operator sees of each row.
Phase == [i \in Ids |-> [model |-> rollouts[i].model,
                         state |-> rollouts[i].state,
                         stage |-> rollouts[i].stage]]

LC == INSTANCE RolloutLifecycle WITH phase <- Phase, lost <- raced

\* The manager implements the lifecycle it documents: whatever is interleaved
\* with it, a write is one legal transition of one rollout, unless the row has
\* changed since it was read, and then only that row is disturbed.
LifecycleImplemented == LC!Spec

\* A rollout that was rolled back or has completed stays so: the state
\* machine has no transition out of these states.
TerminalIsFinal ==
    [][\A i \in Ids : rollouts[i].state \in Terminal
                        => rollouts'[i].state = rollouts[i].state]_vars

\* Rows newer than row i, as List() orders them.
Newer(i) == {j \in Present : j > i}

\* The evaluator gets to every running rollout that List() can return: it is
\* in a pass of evaluateAll eventually, or has stopped running by other means,
\* or as many rows as List() returns are newer.  Rows are never deleted, so
\* such a rollout is not evaluated any more, whatever the rows that hide it
\* are (memory_store.go List, evaluateAll).
EveryRunningEvaluated ==
    \A i \in Ids : rollouts[i].state = Running
                      ~> \/ i \in todo
                         \/ rollouts[i].state # Running
                         \/ Cardinality(Newer(i)) >= ListLimit

-----------------------------------------------------------------------------
(* The inductive invariant behind the theorems of RolloutProofs *)

\* Whatever is about to be written is a coherent row with a known id.
ClonesCoherent ==
    /\ \A p \in Procs : op[p].pc # "idle" =>
            /\ op[p].id \in Ids
            /\ op[p].row.state # Absent
            /\ RowCoherent(op[p].row)
    /\ \A i \in todo : snap[i].state = Running /\ RowCoherent(snap[i])

\* Ids are used once: a create writes a row nobody else knows of.
IdsFresh ==
    /\ \A i \in Ids : i >= nextId => rollouts[i].state = Absent
    /\ \A i \in todo : rollouts[i].state # Absent
    /\ \A p \in Procs : op[p].pc = "create" =>
            op[p].id < nextId /\ rollouts[op[p].id].state = Absent
    /\ \A p, q \in Procs : op[p].pc = "create" /\ op[q].pc = "create"
                             /\ op[p].id = op[q].id => p = q
    /\ \A p \in Procs : op[p].pc = "update" =>
            rollouts[op[p].id].state # Absent

\* The row that a new value may legally be written over.
Precedes(old, new) ==
    /\ old.model = new.model
    /\ \/ /\ old.stage = new.stage
          /\ \/ old.state = Running /\ new.state = Paused
             \/ old.state = Paused /\ new.state = Running
             \/ isActiveState(old.state) /\ new.state = RolledBack
             \/ old.state = Running /\ new.state = Completed
       \/ /\ old.state = Running /\ new.state = Running
          /\ new.stage = old.stage + 1

\* What the history flags promise about the store.
FlagsSound ==
    /\ sure \subseteq todo
    /\ \A i \in sure : rollouts[i].state = Running
                          /\ rollouts[i].model = snap[i].model
                          /\ rollouts[i].stage = snap[i].stage
    /\ \A p \in Procs : op[p].pc = "update" /\ op[p].fresh =>
            Precedes(rollouts[op[p].id], op[p].row)
    /\ \A p \in Procs : op[p].pc = "create" =>
            op[p].row.state = Running /\ op[p].row.stage = 0

\* A create whose check still stands may go ahead.
ChecksStand ==
    ~raced => /\ OneActivePerModel
              /\ \A p \in Procs : op[p].pc = "create" /\ op[p].fresh =>
                                      GetByModel(op[p].row.model) = {}

IndInv == /\ TypeOK
          /\ RowsCoherent
          /\ ClonesCoherent
          /\ IdsFresh
          /\ FlagsSound
          /\ ChecksStand
=============================================================================
