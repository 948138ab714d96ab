---------------------------- MODULE RolloutProofs ----------------------------
(***************************************************************************)
(* Theorems about the rollout manager, for every number of admins, models, *)
(* rollouts and stages.                                                    *)
(***************************************************************************)
EXTENDS Rollout, TLAPS

States  == {Absent, Running, Paused, RolledBack, Completed}
Reasons == {"", "manual rollback", "canary unhealthy"}

-----------------------------------------------------------------------------
(* Rows and clones *)

\* A row with some fields replaced by values of the right kind is a row.
LEMMA RowExcept ==
  ASSUME NEW r \in Row, NEW st \in 0 .. LastStage, NEW pc \in Int,
         NEW s \in States, NEW x \in 0 .. Window, NEW d \in BOOLEAN,
         NEW w \in Reasons
  PROVE  /\ [r EXCEPT !.state = s] \in Row
         /\ [r EXCEPT !.age = x] \in Row
         /\ [r EXCEPT !.state = s, !.age = x] \in Row
         /\ [r EXCEPT !.state = s, !.done = d] \in Row
         /\ [r EXCEPT !.state = s, !.pct = pc, !.reason = w, !.done = d] \in Row
         /\ [r EXCEPT !.stage = st, !.pct = pc, !.age = x] \in Row
  BY Zenon DEF Row, States, Reasons

\* The numbers the operations compute stay in range (promote's index into
\* Stages above all).
LEMMA Ranges ==
  /\ 0 \in 0 .. Window /\ 0 \in Int /\ 0 \in 0 .. LastStage
  /\ \A s \in 0 .. LastStage : Stages[s] \in Int
  /\ \A s \in 0 .. LastStage : ~(s >= LastStage) => s + 1 \in 0 .. LastStage
  /\ \A x \in 0 .. Window : x < Window => x + 1 \in 0 .. Window
  BY RolloutAssumption

\* The empty row is a row, and an idle process holds a well-typed clone.
LEMMA NoRowType == NoRow \in Row /\ Idle \in Op /\ Idle.pc = "idle"
  BY RolloutAssumption DEF NoRow, Row, Idle, Op, Absent

\* Each change of a clone that the manager makes yields a row again
\* (manager.go promote, doRollback, PauseRollout .. RollbackRollout).
LEMMA CloneTypes ==
  ASSUME NEW r \in Row
  PROVE  /\ PausedRow(r) \in Row
         /\ ResumedRow(r) \in Row
         /\ \A why \in Reasons : RolledBackRow(r, why) \in Row
         /\ Promoted(r) \in Row
         /\ Older(r) \in Row
<1>1. r.stage \in 0 .. LastStage /\ r.age \in 0 .. Window
  BY DEF Row
<1>2. r.age < Window => r.age + 1 \in 0 .. Window
  BY <1>1, Ranges
<1>3. ~(r.stage >= LastStage) =>
          r.stage + 1 \in 0 .. LastStage /\ Stages[r.stage + 1] \in Int
  BY <1>1, Ranges
<1>4. {Running, Paused, RolledBack, Completed} \subseteq States /\ "" \in Reasons
  BY DEF States, Reasons
<1> QED BY <1>1, <1>2, <1>3, <1>4, RowExcept, Ranges, Zenon
        DEF PausedRow, ResumedRow, RolledBackRow, Promoted, Older

\* promote of a coherent running row is coherent.
LEMMA PromotedCoherent ==
  ASSUME NEW r \in Row, RowCoherent(r), r.state = Running
  PROVE  RowCoherent(Promoted(r)) /\ Promoted(r).state # Absent
<1>1. r.stage \in 0 .. LastStage
  BY DEF Row
<1>e. r.stage >= LastStage => r.stage = LastStage
  BY <1>1, RolloutAssumption
<1> USE DEF Row, RowCoherent, Absent, Running, Paused, RolledBack, Completed,
            Terminal
<1>2. CASE r.stage >= LastStage
  <2>1. r.stage = LastStage
    BY <1>2, <1>e
  <2>2. Promoted(r) = [r EXCEPT !.state = Completed, !.done = TRUE]
    BY <1>2 DEF Promoted
  <2> QED BY <2>1, <2>2
<1>3. CASE ~(r.stage >= LastStage)
  <2>1. PICK st, pc, z : st = r.stage + 1 /\ pc = Stages[st] /\ z = 0
    OBVIOUS
  <2>2. Promoted(r) = [r EXCEPT !.stage = st, !.pct = pc, !.age = z]
    BY <1>3, <2>1 DEF Promoted
  <2> QED BY <2>1, <2>2
<1> QED BY <1>2, <1>3

\* The other changes of a coherent clone are coherent too.
LEMMA ClonesKeepCoherent ==
  ASSUME NEW r \in Row, RowCoherent(r)
  PROVE  /\ r.state = Running =>
                RowCoherent(PausedRow(r)) /\ PausedRow(r).state # Absent
         /\ r.state = Paused =>
                RowCoherent(ResumedRow(r)) /\ ResumedRow(r).state # Absent
         /\ \A why \in Reasons \ {""} : r.state # Absent =>
                /\ RowCoherent(RolledBackRow(r, why))
                /\ RolledBackRow(r, why).state # Absent
<1> USE DEF Row, RowCoherent, Absent, Running, Paused, RolledBack, Completed,
            Terminal
<1>1. r.state = Running =>
          RowCoherent(PausedRow(r)) /\ PausedRow(r).state # Absent
  BY DEF PausedRow
<1>2. r.state = Paused =>
          RowCoherent(ResumedRow(r)) /\ ResumedRow(r).state # Absent
  BY DEF ResumedRow
<1>3. ASSUME NEW why \in Reasons \ {""}, r.state # Absent
      PROVE  /\ RowCoherent(RolledBackRow(r, why))
             /\ RolledBackRow(r, why).state # Absent
  BY <1>3 DEF RolledBackRow, Reasons
<1> QED BY <1>1, <1>2, <1>3

\* Growing older changes nothing but the age.
LEMMA OlderRow ==
  ASSUME NEW r \in Row
  PROVE  /\ Older(r).state = r.state
         /\ Older(r).model = r.model
         /\ Older(r).stage = r.stage
         /\ RowCoherent(r) => RowCoherent(Older(r))
<1>1. PICK x : x = r.age + 1
  OBVIOUS
<1>2. Older(r) = r \/ Older(r) = [r EXCEPT !.age = x]
  BY <1>1 DEF Older
<1> QED BY <1>2 DEF Row, RowCoherent

-----------------------------------------------------------------------------
(* Type correctness *)

\* Every step of the manager, the evaluator and the store keeps the types.
LEMMA TypeStep == TypeOK /\ [Next]_vars => TypeOK'
<1> SUFFICES ASSUME TypeOK, [Next]_vars PROVE TypeOK'
  OBVIOUS
<1> USE DEF TypeOK
<1>r. \A i \in Ids : rollouts[i] \in Row /\ snap[i] \in Row
  OBVIOUS
<1>o. ASSUME NEW k \in {"create", "update"}, NEW i \in Ids, NEW r \in Row,
             NEW f \in BOOLEAN
      PROVE  [pc |-> k, id |-> i, row |-> r, fresh |-> f] \in Op
  BY RolloutAssumption DEF Op, Ids
<1>1. ASSUME NEW a \in Admins, NEW m \in Models, CreateRollout(a, m)
      PROVE  TypeOK'
  <2>1. NewRow(m) \in Row
    BY Ranges, Zenon DEF Row, NewRow
  <2>2. nextId \in Ids /\ nextId' \in 1 .. MaxRollouts + 1
    <3>1. nextId \in 1 .. MaxRollouts + 1 /\ nextId <= MaxRollouts
          /\ nextId' = nextId + 1
      BY <1>1 DEF CreateRollout
    <3> HIDE DEF TypeOK
    <3> QED BY <3>1, RolloutAssumption DEF Ids
  <2>3. PICK ok \in BOOLEAN : op' = [op EXCEPT ![a] =
            [pc |-> "create", id |-> nextId, row |-> NewRow(m), fresh |-> ok]]
    BY <1>1 DEF CreateRollout
  <2>4. [pc |-> "create", id |-> nextId, row |-> NewRow(m), fresh |-> ok] \in Op
    BY <1>o, <2>1, <2>2
  <2>5. op' \in [Procs -> Op]
    BY <2>3, <2>4
  <2> QED BY <1>1, <2>2, <2>5 DEF CreateRollout
<1>2. ASSUME NEW a \in Admins, NEW i \in Ids, NEW from, NEW row \in Row,
             Read(a, i, from, row)
      PROVE  TypeOK'
  <2>1. [pc |-> "update", id |-> i, row |-> row, fresh |-> TRUE] \in Op
    BY <1>o
  <2>2. op' \in [Procs -> Op]
    BY <1>2, <2>1 DEF Read
  <2> QED BY <1>2, <2>2 DEF Read
<1>3. ASSUME NEW a \in Admins, NEW i \in Ids, PauseRollout(a, i)
      PROVE  TypeOK'
  BY <1>3, <1>2, <1>r, CloneTypes DEF PauseRollout
<1>4. ASSUME NEW a \in Admins, NEW i \in Ids, ResumeRollout(a, i)
      PROVE  TypeOK'
  BY <1>4, <1>2, <1>r, CloneTypes DEF ResumeRollout
<1>5. ASSUME NEW a \in Admins, NEW i \in Ids, RollbackRollout(a, i)
      PROVE  TypeOK'
  BY <1>5, <1>2, <1>r, CloneTypes DEF RollbackRollout, Reasons
<1>6. CASE EvaluateAll
  BY <1>6, NoRowType DEF EvaluateAll, Listings, Present
<1>7. ASSUME NEW i \in Ids, NEW v \in Verdicts, Evaluate(i, v)
      PROVE  TypeOK'
  <2> DEFINE new == Judged(snap[i], Decision(snap[i], v))
             clone == [pc |-> "update", id |-> i, row |-> new, fresh |-> i \in sure]
  <2>1. new \in Row
    BY <1>r, CloneTypes DEF Judged, Reasons
  <2>2. clone \in Op
    <3> HIDE DEF new
    <3>1. (i \in sure) \in BOOLEAN
      OBVIOUS
    <3> QED BY <1>o, <2>1, <3>1, Zenon
  <2>3. op' = op \/ op' = [op EXCEPT ![Evaluator] = clone]
    BY <1>7 DEF Evaluate
  <2> HIDE DEF clone
  <2>4. op' \in [Procs -> Op]
    BY <2>2, <2>3
  <2> QED BY <1>7, <2>4, NoRowType DEF Evaluate
<1>8. ASSUME NEW p \in Procs, Write(p)
      PROVE  TypeOK'
  <2>1. op' \in [Procs -> Op]
    BY <1>8, NoRowType DEF Write, Store, Op
  <2>2. rollouts' \in [Ids -> Row]
    BY <1>8 DEF Write, Store, Op
  <2> QED BY <1>8, <2>1, <2>2 DEF Write, Store
<1>9. ASSUME NEW p \in Procs, WriteFails(p)
      PROVE  TypeOK'
  BY <1>9, NoRowType DEF WriteFails
<1>10. CASE Tick
  <2>1. \A p \in Procs : [op[p] EXCEPT !.row = Older(op[p].row)] \in Op
    BY CloneTypes DEF Op
  <2> QED BY <1>10, <1>r, <2>1, CloneTypes DEF Tick
<1>11. CASE Crash
  BY <1>11, NoRowType DEF Crash
<1>12. CASE UNCHANGED vars
  BY <1>12 DEF vars
<1> QED BY <1>1, <1>3, <1>4, <1>5, <1>6, <1>7, <1>8, <1>9, <1>10, <1>11,
           <1>12 DEF Next
-----------------------------------------------------------------------------
(* Coherent rows *)

\* What a Write leaves of the other processes' clones: only fresh can change.
LEMMA WriteKeepsClones ==
  ASSUME TypeOK, NEW p \in Procs, Write(p)
  PROVE  /\ op'[p] = Idle
         /\ \A q \in Procs : q # p =>
              /\ op'[q].pc = op[q].pc
              /\ op'[q].id = op[q].id
              /\ op'[q].row = op[q].row
              /\ op'[q].fresh => op[q].fresh /\ ~Overtaken(q, p)
              /\ op'[q].pc = "idle" \/ op'[q].fresh
                    <=> op[q].pc = "idle" \/ (op[q].fresh /\ ~Overtaken(q, p))
  BY DEF TypeOK, Op, Write, Store, Overtaken

\* However reads and writes interleave, rows and clones stay coherent.
LEMMA CoherentStep ==
  ASSUME TypeOK, RowsCoherent, ClonesCoherent, [Next]_vars
  PROVE  RowsCoherent' /\ ClonesCoherent'
<1>t. /\ \A i \in Ids : rollouts[i] \in Row /\ snap[i] \in Row
      /\ \A p \in Procs : op[p].row \in Row
  BY DEF TypeOK, Op
<1>a. ASSUME NEW p \in Procs, NEW k, NEW i \in Ids, NEW r, NEW f,
             op' = [op EXCEPT ![p] =
                        [pc |-> k, id |-> i, row |-> r, fresh |-> f]],
             r.state # Absent, RowCoherent(r)
      PROVE  \A q \in Procs : op'[q].pc # "idle" =>
                /\ op'[q].id \in Ids
                /\ op'[q].row.state # Absent
                /\ RowCoherent(op'[q].row)
  BY <1>a DEF ClonesCoherent, TypeOK
<1>1. ASSUME NEW a \in Admins, NEW m \in Models, CreateRollout(a, m)
      PROVE  RowsCoherent' /\ ClonesCoherent'
  <2>1. RowCoherent(NewRow(m)) /\ NewRow(m).state # Absent
    BY DEF NewRow, RowCoherent, Running, Absent, RolledBack, Completed, Terminal
  <2>2. nextId \in Ids
    <3>1. nextId \in 1 .. MaxRollouts + 1 /\ nextId <= MaxRollouts
      BY <1>1 DEF CreateRollout, TypeOK
    <3> QED BY <3>1, RolloutAssumption DEF Ids
  <2>3. PICK ok \in BOOLEAN : op' = [op EXCEPT ![a] =
            [pc |-> "create", id |-> nextId, row |-> NewRow(m), fresh |-> ok]]
    BY <1>1 DEF CreateRollout
  <2>4. \A q \in Procs : op'[q].pc # "idle" =>
                /\ op'[q].id \in Ids
                /\ op'[q].row.state # Absent
                /\ RowCoherent(op'[q].row)
    BY <1>a, <2>1, <2>2, <2>3 DEF Procs
  <2> QED BY <1>1, <2>4 DEF CreateRollout, RowsCoherent, ClonesCoherent
<1>2. ASSUME NEW a \in Admins, NEW i \in Ids, NEW from, NEW row,
             Read(a, i, from, row), row.state # Absent, RowCoherent(row)
      PROVE  RowsCoherent' /\ ClonesCoherent'
  <2>1. op' = [op EXCEPT ![a] =
                [pc |-> "update", id |-> i, row |-> row, fresh |-> TRUE]]
    BY <1>2 DEF Read
  <2>2. \A q \in Procs : op'[q].pc # "idle" =>
                /\ op'[q].id \in Ids
                /\ op'[q].row.state # Absent
                /\ RowCoherent(op'[q].row)
    BY <1>2, <1>a, <2>1 DEF Procs
  <2> QED BY <1>2, <2>2 DEF Read, RowsCoherent, ClonesCoherent
<1>3. ASSUME NEW a \in Admins, NEW i \in Ids, PauseRollout(a, i)
      PROVE  RowsCoherent' /\ ClonesCoherent'
  <2>1. rollouts[i].state = Running
    BY <1>3 DEF PauseRollout, Read
  <2> QED BY <1>3, <1>2, <1>t, <2>1, ClonesKeepCoherent
          DEF PauseRollout, RowsCoherent
<1>4. ASSUME NEW a \in Admins, NEW i \in Ids, ResumeRollout(a, i)
      PROVE  RowsCoherent' /\ ClonesCoherent'
  <2>1. rollouts[i].state = Paused
    BY <1>4 DEF ResumeRollout, Read
  <2> QED BY <1>4, <1>2, <1>t, <2>1, ClonesKeepCoherent
          DEF ResumeRollout, RowsCoherent
<1>5. ASSUME NEW a \in Admins, NEW i \in Ids, RollbackRollout(a, i)
      PROVE  RowsCoherent' /\ ClonesCoherent'
  <2>1. rollouts[i].state # Absent
    BY <1>5 DEF RollbackRollout, Read, Running, Paused, Absent
  <2>2. "manual rollback" \in Reasons \ {""}
    BY DEF Reasons
  <2> QED BY <1>5, <1>2, <1>t, <2>1, <2>2, ClonesKeepCoherent
          DEF RollbackRollout, RowsCoherent
<1>6. CASE EvaluateAll
  <2>1. \A i \in todo' : i \in Ids /\ rollouts[i].state = Running
                         /\ snap'[i] = rollouts[i]
    BY <1>6 DEF EvaluateAll, Listings, Present
  <2> QED BY <1>6, <2>1 DEF EvaluateAll, RowsCoherent, ClonesCoherent
<1>7. ASSUME NEW i \in Ids, NEW v \in Verdicts, Evaluate(i, v)
      PROVE  RowsCoherent' /\ ClonesCoherent'
  <2> DEFINE new == Judged(snap[i], Decision(snap[i], v))
             clone == [pc |-> "update", id |-> i, row |-> new, fresh |-> i \in sure]
  <2>1. snap[i].state = Running /\ RowCoherent(snap[i])
    BY <1>7 DEF Evaluate, ClonesCoherent
  <2>2. RowCoherent(new) /\ new.state # Absent
    <3>1. snap[i].state # Absent /\ "canary unhealthy" \in Reasons \ {""}
      BY <2>1 DEF Running, Absent, Reasons
    <3> QED BY <1>t, <2>1, <3>1, PromotedCoherent, ClonesKeepCoherent DEF Judged
  <2>3. op' = op \/ op' = [op EXCEPT ![Evaluator] = clone]
    BY <1>7 DEF Evaluate
  <2> HIDE DEF new
  <2>4. \A q \in Procs : op'[q].pc # "idle" =>
                /\ op'[q].id \in Ids
                /\ op'[q].row.state # Absent
                /\ RowCoherent(op'[q].row)
    <3>1. CASE op' = op
      BY <3>1 DEF ClonesCoherent
    <3>2. CASE op' = [op EXCEPT ![Evaluator] = clone]
      BY <1>a, <2>2, <3>2 DEF Procs
    <3> QED BY <2>3, <3>1, <3>2
  <2>5. \A j \in todo' : j \in todo /\ snap'[j] = snap[j]
    BY <1>7 DEF Evaluate, TypeOK
  <2> QED BY <1>7, <2>4, <2>5 DEF Evaluate, RowsCoherent, ClonesCoherent
<1>8. ASSUME NEW p \in Procs, Write(p)
      PROVE  RowsCoherent' /\ ClonesCoherent'
  <2>1. op[p].id \in Ids /\ RowCoherent(op[p].row)
    BY <1>8 DEF Write, ClonesCoherent
  <2>2. RowsCoherent'
    BY <1>8, <2>1 DEF Write, Store, RowsCoherent, TypeOK
  <2>3. \A q \in Procs : op'[q].pc # "idle" =>
            q # p /\ op[q].pc # "idle" /\ op'[q].id = op[q].id
                  /\ op'[q].row = op[q].row
    BY <1>8, WriteKeepsClones, NoRowType
  <2> QED BY <1>8, <2>2, <2>3 DEF Write, ClonesCoherent
<1>9. ASSUME NEW p \in Procs, WriteFails(p)
      PROVE  RowsCoherent' /\ ClonesCoherent'
  <2>1. \A q \in Procs : op'[q] = Idle \/ op'[q] = op[q]
    BY <1>9 DEF WriteFails, TypeOK
  <2> QED BY <1>9, <2>1, NoRowType DEF WriteFails, RowsCoherent, ClonesCoherent
<1>10. CASE Tick
  <2>1. \A q \in Procs : /\ op'[q].pc = op[q].pc
                         /\ op'[q].id = op[q].id
                         /\ op'[q].row = Older(op[q].row)
    BY <1>10 DEF Tick, TypeOK, Op
  <2>2. \A i \in Ids : /\ rollouts'[i] = Older(rollouts[i])
                       /\ snap'[i] = Older(snap[i])
    BY <1>10 DEF Tick
  <2>3. todo' = todo /\ todo \subseteq Ids
    BY <1>10 DEF Tick, TypeOK
  <2> QED BY <1>t, <2>1, <2>2, <2>3, OlderRow DEF RowsCoherent, ClonesCoherent
<1>11. CASE Crash
  BY <1>11, NoRowType DEF Crash, RowsCoherent, ClonesCoherent
<1>12. CASE UNCHANGED vars
  BY <1>12 DEF vars, RowsCoherent, ClonesCoherent
<1> QED BY <1>1, <1>3, <1>4, <1>5, <1>6, <1>7, <1>8, <1>9, <1>10, <1>11,
           <1>12 DEF Next
-----------------------------------------------------------------------------
(* Identifiers and history flags *)

\* An id is handed out once, so a create never meets an existing row and an
\* update always does (CreateRollout, memory_store.go Create and Update).
LEMMA IdsFreshStep ==
  ASSUME TypeOK, ClonesCoherent, IdsFresh, [Next]_vars
  PROVE  IdsFresh'
<1>n. nextId \in Nat /\ Ids \subseteq Nat
  BY RolloutAssumption DEF TypeOK, Ids
<1>m. \A i \in Ids : /\ ~(i >= nextId) <=> i < nextId
                     /\ i < nextId => i < nextId + 1 /\ i # nextId
  BY <1>n
<1>1. ASSUME NEW a \in Admins, NEW m \in Models, CreateRollout(a, m)
      PROVE  IdsFresh'
  <2>1. nextId \in Ids /\ nextId' = nextId + 1
    <3>1. nextId \in 1 .. MaxRollouts + 1 /\ nextId <= MaxRollouts
          /\ nextId' = nextId + 1
      BY <1>1 DEF CreateRollout, TypeOK
    <3> QED BY <3>1, RolloutAssumption DEF Ids
  <2>2. PICK ok \in BOOLEAN : op' = [op EXCEPT ![a] =
            [pc |-> "create", id |-> nextId, row |-> NewRow(m), fresh |-> ok]]
    BY <1>1 DEF CreateRollout
  <2>3. \A q \in Procs : \/ q = a /\ op'[q].pc = "create" /\ op'[q].id = nextId
                         \/ q # a /\ op'[q] = op[q]
    BY <2>2 DEF TypeOK, Procs
  <2>4. \A q \in Procs : op[q].pc = "create" => op[q].id \in Ids /\ op[q].id < nextId
    BY DEF IdsFresh, ClonesCoherent
  <2>5. rollouts' = rollouts /\ todo' = todo
    BY <1>1 DEF CreateRollout
  <2>6. \A i \in Ids : i >= nextId' => rollouts'[i].state = Absent
    <3>1. \A i \in Ids : i >= nextId + 1 => i >= nextId
      BY <1>n
    <3> QED BY <2>1, <2>5, <3>1 DEF IdsFresh
  <2>7. rollouts'[nextId].state = Absent
    BY <1>n, <2>1, <2>5 DEF IdsFresh
  <2>8. \A q \in Procs : op[q].pc = "create" =>
            op[q].id < nextId' /\ op[q].id # nextId
    BY <1>m, <2>1, <2>4
  <2>9. nextId < nextId'
    BY <1>n, <2>1
  <2> QED BY <2>3, <2>5, <2>6, <2>7, <2>8, <2>9 DEF IdsFresh
<1>2. ASSUME NEW p \in Procs, NEW i \in Ids, NEW row, NEW f,
             \/ op' = op
             \/ op' = [op EXCEPT ![p] =
                        [pc |-> "update", id |-> i, row |-> row, fresh |-> f]],
             rollouts[i].state # Absent, UNCHANGED <<rollouts, nextId>>,
             todo' \subseteq todo
      PROVE  IdsFresh'
  <2>1. \A q \in Procs :
            \/ q = p /\ op'[q].pc = "update" /\ op'[q].id = i
            \/ op'[q] = op[q]
    BY <1>2 DEF TypeOK
  <2> QED BY <1>2, <2>1 DEF IdsFresh
<1>3. ASSUME NEW a \in Admins, NEW i \in Ids, NEW from, NEW row,
             Read(a, i, from, row), Absent \notin from
      PROVE  IdsFresh'
  BY <1>3, <1>2 DEF Read, Procs
<1>4. ASSUME NEW a \in Admins, NEW i \in Ids,
             PauseRollout(a, i) \/ ResumeRollout(a, i) \/ RollbackRollout(a, i)
      PROVE  IdsFresh'
  BY <1>4, <1>3 DEF PauseRollout, ResumeRollout, RollbackRollout, Running,
                    Paused, Absent
<1>6. CASE EvaluateAll
  BY <1>6 DEF EvaluateAll, IdsFresh, Listings, Present
<1>7. ASSUME NEW i \in Ids, NEW v \in Verdicts, Evaluate(i, v)
      PROVE  IdsFresh'
  <2>1. rollouts[i].state # Absent
    BY <1>7 DEF Evaluate, IdsFresh
  <2>2. todo' \subseteq todo /\ UNCHANGED <<rollouts, nextId>>
    BY <1>7 DEF Evaluate
  <2> QED BY <1>7, <1>2, <2>1, <2>2 DEF Evaluate, Procs
<1>8. ASSUME NEW p \in Procs, Write(p)
      PROVE  IdsFresh'
  <2>1. /\ op[p].id \in Ids
        /\ op[p].row.state # Absent
        /\ op[p].pc \in {"create", "update"}
    BY <1>8 DEF Write, ClonesCoherent, TypeOK, Op
  <2>2. /\ rollouts'[op[p].id] = op[p].row
        /\ \A i \in Ids : i # op[p].id => rollouts'[i] = rollouts[i]
        /\ nextId' = nextId /\ todo' = todo
    BY <1>8, <2>1 DEF Write, Store, TypeOK
  <2>3. op[p].id < nextId
    <3>1. ~(op[p].id >= nextId) => op[p].id < nextId
      BY <1>m, <2>1
    <3>2. CASE op[p].pc = "create"
      BY <3>2 DEF IdsFresh
    <3>3. CASE op[p].pc = "update"
      BY <2>1, <3>1, <3>3 DEF IdsFresh
    <3> QED BY <2>1, <3>2, <3>3
  <2>4. \A q \in Procs : op'[q].pc # "idle" =>
            q # p /\ op'[q].pc = op[q].pc /\ op'[q].id = op[q].id
            /\ op[q].id \in Ids
    BY <1>8, WriteKeepsClones, NoRowType DEF ClonesCoherent
  <2>5. \A q \in Procs : q # p /\ op[q].pc = "create" => op[q].id # op[p].id
    BY <2>1 DEF IdsFresh
  <2>6. \A i \in todo : i \in Ids
    BY DEF TypeOK
  <2>7. \A i \in Ids : i >= nextId' => rollouts'[i].state = Absent
    <3>1. ~(op[p].id >= nextId)
      BY <1>m, <2>1, <2>3
    <3> QED BY <2>2, <3>1 DEF IdsFresh
  <2>8. \A i \in Ids : rollouts[i].state # Absent => rollouts'[i].state # Absent
    BY <2>1, <2>2
  <2> QED BY <2>2, <2>4, <2>5, <2>6, <2>7, <2>8 DEF IdsFresh
<1>9. ASSUME NEW p \in Procs, WriteFails(p)
      PROVE  IdsFresh'
  <2>1. \A q \in Procs : op'[q] = Idle \/ op'[q] = op[q]
    BY <1>9 DEF WriteFails, TypeOK
  <2> QED BY <1>9, <2>1, NoRowType DEF WriteFails, IdsFresh
<1>10. CASE Tick
  <2>1. \A q \in Procs : op'[q].pc = op[q].pc /\ op'[q].id = op[q].id
    BY <1>10 DEF Tick, TypeOK, Op
  <2>2. \A i \in Ids : rollouts'[i].state = rollouts[i].state
    BY <1>10, OlderRow DEF Tick, TypeOK
  <2>3. todo' = todo /\ todo \subseteq Ids /\ nextId' = nextId
    BY <1>10 DEF Tick, TypeOK
  <2>4. \A q \in Procs : op[q].pc # "idle" => op[q].id \in Ids
    BY DEF ClonesCoherent
  <2> QED BY <2>1, <2>2, <2>3, <2>4 DEF IdsFresh
<1>11. CASE Crash
  BY <1>11, NoRowType DEF Crash, IdsFresh
<1>12. CASE UNCHANGED vars
  BY <1>12 DEF vars, IdsFresh
<1> QED BY <1>1, <1>4, <1>6, <1>7, <1>8, <1>9, <1>10, <1>11, <1>12 DEF Next

\* Each change of a clone is a legal successor of the clone.
LEMMA CloneOpsPrecede ==
  ASSUME NEW r \in Row
  PROVE  /\ r.state = Running => Precedes(r, PausedRow(r))
         /\ r.state = Paused => Precedes(r, ResumedRow(r))
         /\ isActiveState(r.state) =>
              \A why : Precedes(r, RolledBackRow(r, why))
         /\ r.state = Running => Precedes(r, Promoted(r))
<1> USE DEF Row, Precedes, isActiveState, Pending, Running, Paused, RolledBack, Completed
<1>1. r.state = Running => Precedes(r, PausedRow(r))
  BY DEF PausedRow
<1>2. r.state = Paused => Precedes(r, ResumedRow(r))
  BY DEF ResumedRow
<1>3. isActiveState(r.state) => \A why : Precedes(r, RolledBackRow(r, why))
  BY DEF RolledBackRow
<1>4. ASSUME r.state = Running PROVE Precedes(r, Promoted(r))
  <2>1. PICK st, pc, z : st = r.stage + 1 /\ pc = Stages[st] /\ z = 0
    OBVIOUS
  <2>2. \/ Promoted(r) = [r EXCEPT !.state = Completed, !.done = TRUE]
        \/ Promoted(r) = [r EXCEPT !.stage = st, !.pct = pc, !.age = z]
    BY <2>1 DEF Promoted
  <2> QED BY <1>4, <2>1, <2>2
<1> QED BY <1>1, <1>2, <1>3, <1>4
\* A clone marked fresh still has the row it was read from underneath it.
LEMMA FlagsSoundStep ==
  ASSUME TypeOK, ClonesCoherent, IdsFresh, FlagsSound, [Next]_vars
  PROVE  FlagsSound'
<1>t. /\ \A i \in Ids : rollouts[i] \in Row /\ snap[i] \in Row
      /\ \A p \in Procs : op[p].row \in Row
      /\ todo \subseteq Ids
  BY DEF TypeOK, Op
<1>1. ASSUME NEW a \in Admins, NEW m \in Models, CreateRollout(a, m)
      PROVE  FlagsSound'
  <2>1. PICK ok \in BOOLEAN : op' = [op EXCEPT ![a] =
            [pc |-> "create", id |-> nextId, row |-> NewRow(m), fresh |-> ok]]
    BY <1>1 DEF CreateRollout
  <2>2. \A q \in Procs : \/ /\ op'[q].pc = "create"
                            /\ op'[q].row.state = Running
                            /\ op'[q].row.stage = 0
                         \/ op'[q] = op[q]
    BY <2>1 DEF TypeOK, Procs, NewRow
  <2>3. UNCHANGED <<rollouts, todo, snap, sure>>
    BY <1>1 DEF CreateRollout
  <2> QED BY <2>2, <2>3 DEF FlagsSound
<1>2. ASSUME NEW p \in Procs, NEW i \in Ids, NEW row, NEW f \in BOOLEAN,
             \/ op' = op
             \/ op' = [op EXCEPT ![p] =
                        [pc |-> "update", id |-> i, row |-> row, fresh |-> f]],
             f => Precedes(rollouts[i], row), rollouts' = rollouts
      PROVE  /\ \A q \in Procs : op'[q].pc = "update" /\ op'[q].fresh =>
                    Precedes(rollouts'[op'[q].id], op'[q].row)
             /\ \A q \in Procs : op'[q].pc = "create" =>
                    op'[q].row.state = Running /\ op'[q].row.stage = 0
  <2>1. \A q \in Procs :
            \/ op'[q] = [pc |-> "update", id |-> i, row |-> row, fresh |-> f]
            \/ op'[q] = op[q]
    BY <1>2 DEF TypeOK
  <2> QED BY <1>2, <2>1 DEF FlagsSound
<1>3. ASSUME NEW a \in Admins, NEW i \in Ids, NEW from, NEW row,
             Read(a, i, from, row), Precedes(rollouts[i], row)
      PROVE  FlagsSound'
  <2>1. op' = [op EXCEPT ![a] =
                [pc |-> "update", id |-> i, row |-> row, fresh |-> TRUE]]
        /\ UNCHANGED <<rollouts, todo, snap, sure>>
    BY <1>3 DEF Read
  <2> QED BY <1>2, <1>3, <2>1 DEF FlagsSound, Procs
<1>4. ASSUME NEW a \in Admins, NEW i \in Ids,
             PauseRollout(a, i) \/ ResumeRollout(a, i) \/ RollbackRollout(a, i)
      PROVE  FlagsSound'
  <2>1. CASE PauseRollout(a, i)
    <3>1. rollouts[i].state = Running
      BY <2>1 DEF PauseRollout, Read
    <3> QED BY <2>1, <3>1, <1>3, <1>t, CloneOpsPrecede DEF PauseRollout
  <2>2. CASE ResumeRollout(a, i)
    <3>1. rollouts[i].state = Paused
      BY <2>2 DEF ResumeRollout, Read
    <3> QED BY <2>2, <3>1, <1>3, <1>t, CloneOpsPrecede DEF ResumeRollout
  <2>3. CASE RollbackRollout(a, i)
    <3>1. isActiveState(rollouts[i].state)
      BY <2>3 DEF RollbackRollout, Read, isActiveState, Pending
    <3> QED BY <2>3, <3>1, <1>3, <1>t, CloneOpsPrecede DEF RollbackRollout
  <2> QED BY <1>4, <2>1, <2>2, <2>3
<1>6. CASE EvaluateAll
  <2>1. \A i \in todo' : i \in Ids /\ rollouts[i].state = Running
                         /\ snap'[i] = rollouts[i]
    BY <1>6 DEF EvaluateAll, Listings, Present
  <2>2. sure' = todo' /\ rollouts' = rollouts /\ op' = op
    BY <1>6 DEF EvaluateAll
  <2> QED BY <2>1, <2>2 DEF FlagsSound
<1>7. ASSUME NEW i \in Ids, NEW v \in Verdicts, Evaluate(i, v)
      PROVE  FlagsSound'
  <2> DEFINE new == Judged(snap[i], Decision(snap[i], v))
  <2>1. snap[i].state = Running
    BY <1>7 DEF Evaluate, ClonesCoherent
  <2>2. Precedes(snap[i], new)
    BY <1>t, <2>1, CloneOpsPrecede DEF Judged, isActiveState, Pending
  <2>3. (i \in sure) => Precedes(rollouts[i], new)
    <3> HIDE DEF new
    <3> QED BY <2>1, <2>2 DEF FlagsSound, Precedes
  <2> HIDE DEF new
  <2>4. \/ op' = op
        \/ op' = [op EXCEPT ![Evaluator] =
                    [pc |-> "update", id |-> i, row |-> new, fresh |-> i \in sure]]
    BY <1>7 DEF Evaluate, new
  <2>5. (i \in sure) \in BOOLEAN /\ Evaluator \in Procs /\ rollouts' = rollouts
    BY <1>7 DEF Evaluate, Procs
  <2>6. /\ \A q \in Procs : op'[q].pc = "update" /\ op'[q].fresh =>
                    Precedes(rollouts'[op'[q].id], op'[q].row)
        /\ \A q \in Procs : op'[q].pc = "create" =>
                    op'[q].row.state = Running /\ op'[q].row.stage = 0
    BY <1>2, <2>3, <2>4, <2>5, Zenon
  <2>7. /\ sure' \subseteq todo'
        /\ \A j \in sure' : j \in sure /\ snap'[j] = snap[j]
    BY <1>7, <1>t DEF Evaluate, FlagsSound, TypeOK
  <2> QED BY <2>5, <2>6, <2>7 DEF FlagsSound
<1>8. ASSUME NEW p \in Procs, Write(p)
      PROVE  FlagsSound'
  <2>1. op[p].id \in Ids /\ op[p].pc # "idle"
    BY <1>8 DEF Write, ClonesCoherent
  <2>2. /\ \A i \in Ids : i # op[p].id => rollouts'[i] = rollouts[i]
        /\ sure' = sure \ {op[p].id} /\ todo' = todo /\ snap' = snap
    BY <1>8, <2>1 DEF Write, Store, TypeOK
  <2>3. ASSUME NEW q \in Procs, op'[q].pc # "idle"
        PROVE  /\ op'[q].pc = op[q].pc
               /\ op'[q].id = op[q].id /\ op[q].id \in Ids
               /\ op'[q].row = op[q].row
               /\ op'[q].pc = "update" /\ op'[q].fresh =>
                    op[q].fresh /\ op[q].id # op[p].id
    <3>1. q # p
      BY <1>8, <2>3, WriteKeepsClones, NoRowType
    <3> QED BY <1>8, <2>3, <3>1, WriteKeepsClones DEF Overtaken, ClonesCoherent
  <2>4. \A i \in sure' : i \in sure /\ rollouts'[i] = rollouts[i]
    BY <1>t, <2>2 DEF FlagsSound
  <2>5. sure' \subseteq todo'
    BY <2>2 DEF FlagsSound
  <2>6. \A q \in Procs : op'[q].pc = "update" /\ op'[q].fresh =>
            Precedes(rollouts'[op'[q].id], op'[q].row)
    BY <2>2, <2>3 DEF FlagsSound
  <2>7. \A q \in Procs : op'[q].pc = "create" =>
            op'[q].row.state = Running /\ op'[q].row.stage = 0
    BY <2>3 DEF FlagsSound
  <2> QED BY <2>2, <2>4, <2>5, <2>6, <2>7 DEF FlagsSound
<1>9. ASSUME NEW p \in Procs, WriteFails(p)
      PROVE  FlagsSound'
  <2>1. \A q \in Procs : op'[q] = Idle \/ op'[q] = op[q]
    BY <1>9 DEF WriteFails, TypeOK
  <2> QED BY <1>9, <2>1, NoRowType DEF WriteFails, FlagsSound
<1>10. CASE Tick
  <2>1. \A q \in Procs : /\ op'[q].pc = op[q].pc
                         /\ op'[q].id = op[q].id
                         /\ op'[q].fresh = op[q].fresh
                         /\ op'[q].row = Older(op[q].row)
    BY <1>10 DEF Tick, TypeOK, Op
  <2>2. \A i \in Ids : /\ rollouts'[i] = Older(rollouts[i])
                       /\ snap'[i] = Older(snap[i])
    BY <1>10 DEF Tick
  <2>3. todo' = todo /\ sure' = sure /\ sure \subseteq Ids
    BY <1>10 DEF Tick, TypeOK
  <2>4. \A old, new \in Row : Precedes(old, new) => Precedes(Older(old), Older(new))
    BY OlderRow DEF Precedes
  <2>5. \A q \in Procs : op[q].pc # "idle" => op[q].id \in Ids
    BY DEF ClonesCoherent
  <2>6. \A q \in Procs : op'[q].pc = "update" /\ op'[q].fresh =>
            Precedes(rollouts'[op'[q].id], op'[q].row)
    BY <1>t, <2>1, <2>2, <2>4, <2>5 DEF FlagsSound
  <2> QED BY <1>t, <2>1, <2>2, <2>3, <2>6, OlderRow DEF FlagsSound
<1>11. CASE Crash
  BY <1>11, NoRowType DEF Crash, FlagsSound
<1>12. CASE UNCHANGED vars
  BY <1>12 DEF vars, FlagsSound
<1> QED BY <1>1, <1>4, <1>6, <1>7, <1>8, <1>9, <1>10, <1>11, <1>12 DEF Next
-----------------------------------------------------------------------------
(* At most one active rollout per model *)

\* Rows that change in nothing but age leave GetByModel's answers alone.
LEMMA SameActive ==
  ASSUME \A i \in Ids : /\ rollouts'[i].state = rollouts[i].state
                        /\ rollouts'[i].model = rollouts[i].model
  PROVE  \A m : GetByModel(m)' = GetByModel(m)
  BY DEF GetByModel

\* The check of CreateRollout stands until somebody creates a rollout for the
\* same model, or until a lost update brings a finished one back.
LEMMA ChecksStandStep ==
  ASSUME TypeOK, ClonesCoherent, IdsFresh, FlagsSound, ChecksStand, [Next]_vars
  PROVE  ChecksStand'
<1>1. ASSUME NEW a \in Admins, NEW m \in Models, CreateRollout(a, m)
      PROVE  ChecksStand'
  <2>1. PICK ok \in BOOLEAN :
            /\ ok => GetByModel(m) = {}
            /\ op' = [op EXCEPT ![a] =
                [pc |-> "create", id |-> nextId, row |-> NewRow(m), fresh |-> ok]]
    BY <1>1 DEF CreateRollout
  <2>2. \A q \in Procs : \/ op'[q].row.model = m /\ op'[q].fresh = ok
                         \/ op'[q] = op[q]
    BY <2>1 DEF TypeOK, Procs, NewRow
  <2>3. rollouts' = rollouts /\ raced' = raced
    BY <1>1 DEF CreateRollout
  <2>4. \A n : GetByModel(n)' = GetByModel(n)
    BY <2>3, SameActive
  <2> QED BY <2>1, <2>2, <2>3, <2>4 DEF ChecksStand, OneActivePerModel
<1>2. ASSUME \A q \in Procs : op'[q].pc = "create" => op'[q] = op[q],
             rollouts' = rollouts, raced' = raced
      PROVE  ChecksStand'
  <2>1. \A n : GetByModel(n)' = GetByModel(n)
    BY <1>2, SameActive
  <2> QED BY <1>2, <2>1 DEF ChecksStand, OneActivePerModel
<1>3. ASSUME NEW a \in Admins, NEW i \in Ids,
             PauseRollout(a, i) \/ ResumeRollout(a, i) \/ RollbackRollout(a, i)
      PROVE  ChecksStand'
  <2>1. PICK row : op' = [op EXCEPT ![a] =
            [pc |-> "update", id |-> i, row |-> row, fresh |-> TRUE]]
    BY <1>3 DEF PauseRollout, ResumeRollout, RollbackRollout, Read
  <2>2. \A q \in Procs : op'[q].pc = "create" => op'[q] = op[q]
    BY <2>1 DEF TypeOK
  <2> QED BY <1>2, <1>3, <2>2
          DEF PauseRollout, ResumeRollout, RollbackRollout, Read
<1>6. CASE EvaluateAll
  BY <1>2, <1>6 DEF EvaluateAll
<1>7. ASSUME NEW i \in Ids, NEW v \in Verdicts, Evaluate(i, v)
      PROVE  ChecksStand'
  <2>1. \A q \in Procs : op'[q].pc = "create" => op'[q] = op[q]
    BY <1>7 DEF Evaluate, TypeOK
  <2> QED BY <1>2, <1>7, <2>1 DEF Evaluate
<1>8. ASSUME NEW p \in Procs, Write(p)
      PROVE  ChecksStand'
  <2> SUFFICES ASSUME ~raced'
               PROVE  /\ OneActivePerModel'
                      /\ \A q \in Procs : op'[q].pc = "create" /\ op'[q].fresh =>
                            (GetByModel(op[q].row.model) = {})'
    BY DEF ChecksStand
  <2>1. ~raced /\ op[p].fresh
    BY <1>8 DEF Write, Store
  <2>2. /\ op[p].id \in Ids
        /\ op[p].pc \in {"create", "update"}
    BY <1>8 DEF Write, ClonesCoherent, TypeOK, Op
  <2>3. /\ rollouts'[op[p].id] = op[p].row
        /\ \A i \in Ids : i # op[p].id => rollouts'[i] = rollouts[i]
    BY <1>8, <2>2 DEF Write, Store, TypeOK
  <2>4. OneActivePerModel
        /\ \A q \in Procs : op[q].pc = "create" /\ op[q].fresh =>
                                GetByModel(op[q].row.model) = {}
    BY <2>1 DEF ChecksStand
  <2>5. ASSUME NEW q \in Procs, op'[q].pc = "create", op'[q].fresh
        PROVE  /\ q # p /\ op[q].pc = "create" /\ op[q].fresh
               /\ op'[q].row = op[q].row
               /\ ~Overtaken(q, p)
    <3>1. q # p
      BY <1>8, <2>5, WriteKeepsClones, NoRowType
    <3> QED BY <1>8, <2>5, <3>1, WriteKeepsClones
  <2>6. CASE op[p].pc = "update"
    <3>1. Precedes(rollouts[op[p].id], op[p].row)
      BY <2>1, <2>6 DEF FlagsSound
    <3>2. \A m : GetByModel(m)' \subseteq GetByModel(m)
      BY <2>2, <2>3, <3>1
         DEF GetByModel, Precedes, isActiveState, Pending, Running, Paused, RolledBack,
             Completed
    <3> QED BY <2>4, <2>5, <3>2 DEF OneActivePerModel
  <2>7. CASE op[p].pc = "create"
    <3>1. GetByModel(op[p].row.model) = {}
      BY <2>1, <2>4, <2>7
    <3>2. \A m : GetByModel(m)' \subseteq
                    IF m = op[p].row.model THEN {op[p].id} ELSE GetByModel(m)
      BY <2>2, <2>3, <3>1 DEF GetByModel
    <3>3. \A q \in Procs : op'[q].pc = "create" /\ op'[q].fresh =>
                op'[q].row.model # op[p].row.model
      BY <2>5, <2>7 DEF Overtaken
    <3> QED BY <2>4, <2>5, <3>2, <3>3 DEF OneActivePerModel
  <2> QED BY <2>2, <2>6, <2>7
<1>9. ASSUME NEW p \in Procs, WriteFails(p)
      PROVE  ChecksStand'
  <2>1. \A q \in Procs : op'[q].pc = "create" => op'[q] = op[q]
    BY <1>9, NoRowType DEF WriteFails, TypeOK
  <2> QED BY <1>2, <1>9, <2>1 DEF WriteFails
<1>10. CASE Tick
  <2>1. \A q \in Procs : /\ op'[q].pc = op[q].pc
                         /\ op'[q].fresh = op[q].fresh
                         /\ op'[q].row.model = op[q].row.model
    <3>1. \A q \in Procs : op[q].row \in Row
      BY DEF TypeOK, Op
    <3>2. \A q \in Procs : op'[q] = [op[q] EXCEPT !.row = Older(op[q].row)]
      BY <1>10 DEF Tick
    <3>3. \A q \in Procs : /\ op'[q].pc = op[q].pc
                           /\ op'[q].fresh = op[q].fresh
                           /\ op'[q].row = Older(op[q].row)
      BY <3>2 DEF TypeOK, Op
    <3> QED BY <3>1, <3>3, OlderRow
  <2>2. \A m : GetByModel(m)' = GetByModel(m)
    <3>1. \A i \in Ids : rollouts[i] \in Row /\ rollouts'[i] = Older(rollouts[i])
      BY <1>10 DEF Tick, TypeOK
    <3> QED BY <3>1, SameActive, OlderRow
  <2>3. raced' = raced
    BY <1>10 DEF Tick
  <2> QED BY <2>1, <2>2, <2>3 DEF ChecksStand, OneActivePerModel
<1>11. CASE Crash
  <2>1. \A q \in Procs : op'[q].pc = "create" => op'[q] = op[q]
    BY <1>11, NoRowType DEF Crash
  <2> QED BY <1>2, <1>11, <2>1 DEF Crash
<1>12. CASE UNCHANGED vars
  BY <1>2, <1>12 DEF vars
<1> QED BY <1>1, <1>3, <1>6, <1>7, <1>8, <1>9, <1>10, <1>11, <1>12 DEF Next

-----------------------------------------------------------------------------
(* The theorems *)

\* The empty store satisfies the inductive invariant.
LEMMA IndInvInit == Init => IndInv
<1> SUFFICES ASSUME Init PROVE IndInv
  OBVIOUS
<1>1. \A i \in Ids : rollouts[i] = NoRow /\ NoRow.state = Absent
  BY DEF Init, NoRow
<1>2. \A p \in Procs : op[p] = Idle
  BY DEF Init
<1>3. TypeOK
  <2>1. 1 \in 1 .. MaxRollouts + 1
    BY RolloutAssumption
  <2> QED BY <2>1, NoRowType DEF Init, TypeOK
<1>4. RowsCoherent /\ ClonesCoherent
  BY <1>1, <1>2, NoRowType DEF Init, RowsCoherent, RowCoherent, ClonesCoherent
<1>5. IdsFresh /\ FlagsSound
  BY <1>1, <1>2, NoRowType DEF Init, IdsFresh, FlagsSound
<1>6. ChecksStand
  BY <1>1, <1>2, NoRowType DEF ChecksStand, OneActivePerModel, GetByModel,
                               isActiveState, Pending, Absent, Running, Paused
<1> QED BY <1>3, <1>4, <1>5, <1>6 DEF IndInv

\* Every step of the manager, the evaluator and the store keeps it.
LEMMA IndInvStep == IndInv /\ [Next]_vars => IndInv'
  BY TypeStep, CoherentStep, IdsFreshStep, FlagsSoundStep, ChecksStandStep
  DEF IndInv

\* The inductive invariant holds in every state the rollout manager reaches.
THEOREM RolloutInvariant == Spec => []IndInv
  BY IndInvInit, IndInvStep, PTL DEF Spec

\* The store only ever holds well-formed rows, and processes well-formed
\* clones, whatever is interleaved (types.go Rollout).
THEOREM RolloutTypes == Spec => []TypeOK
<1>1. IndInv => TypeOK
  BY DEF IndInv
<1> QED BY <1>1, RolloutInvariant, PTL

\* No interleaving of admin operations, evaluator writes, failed store calls
\* and restarts produces a row that mixes two lifecycle states.
THEOREM RolloutCoherent == Spec => []RowsCoherent
<1>1. IndInv => RowsCoherent
  BY DEF IndInv
<1> QED BY <1>1, RolloutInvariant, PTL

\* CreateRollout keeps a model's active rollout unique as long as no write
\* has overwritten a row it had not read.
THEOREM RolloutUnique == Spec => []OneActiveUnlessRaced
<1>1. IndInv => OneActiveUnlessRaced
  BY DEF IndInv, ChecksStand, OneActiveUnlessRaced
<1> QED BY <1>1, RolloutInvariant, PTL
-----------------------------------------------------------------------------
(* Refinement of the lifecycle *)

\* A write over the row that was read is a transition of the lifecycle, any
\* other write overwrites one row, and the remaining steps are not seen.
LEMMA LifecycleStep ==
  ASSUME IndInv, [Next]_vars
  PROVE  [LC!Next]_<<Phase, raced>>
<1> USE DEF IndInv
<1>1. ASSUME \A i \in Ids : /\ rollouts'[i].model = rollouts[i].model
                            /\ rollouts'[i].state = rollouts[i].state
                            /\ rollouts'[i].stage = rollouts[i].stage
      PROVE  Phase' = Phase
  BY <1>1 DEF Phase
<1>2. CASE UNCHANGED <<rollouts, raced>>
  BY <1>1, <1>2
<1>3. CASE Tick
  <2>1. \A i \in Ids : rollouts[i] \in Row /\ rollouts'[i] = Older(rollouts[i])
    BY <1>3 DEF Tick, TypeOK
  <2>2. raced' = raced
    BY <1>3 DEF Tick
  <2> QED BY <1>1, <2>1, <2>2, OlderRow
<1>4. ASSUME NEW p \in Procs, Write(p), raced'
      PROVE  LC!Next
  <2> DEFINE i == op[p].id
             r == op[p].row
  <2>1. i \in Ids /\ r \in Row /\ r.state # Absent
    BY <1>4 DEF Write, ClonesCoherent, TypeOK, Op
  <2>2. rollouts' = [rollouts EXCEPT ![i] = r] /\ rollouts \in [Ids -> Row]
        /\ raced' \in BOOLEAN
    BY <1>4 DEF Write, Store, TypeOK
  <2> HIDE DEF i, r
  <2>3. Phase' = [Phase EXCEPT ![i] =
                    [model |-> r.model, state |-> r.state, stage |-> r.stage]]
    BY <2>1, <2>2 DEF Phase
  <2>4. r.model \in Models /\ r.stage \in 0 .. LastStage
        /\ r.state \in {"running", "paused", "rolled_back", "completed"}
    BY <2>1 DEF Row, Absent, Running, Paused, RolledBack, Completed
  <2>5. [model |-> r.model, state |-> r.state, stage |-> r.stage] \in LC!Phases
    BY <2>4 DEF LC!Phases
  <2>6. raced' = TRUE
    BY <1>4, <2>2, Zenon
  <2>7. LC!Overwrite(i)
    BY <2>3, <2>5, <2>6, Zenon DEF LC!Overwrite
  <2> QED BY <2>1, <2>7 DEF LC!Next
<1>5. ASSUME NEW p \in Procs, Write(p), ~raced'
      PROVE  LC!Next
  <2> DEFINE i == op[p].id
             r == op[p].row
  <2>1. ~raced /\ op[p].fresh /\ raced' = raced
    <3>1. raced' = (raced \/ ~op[p].fresh) /\ raced \in BOOLEAN
      BY <1>5 DEF Write, Store, TypeOK
    <3> QED BY <1>5, <3>1, Zenon
  <2>2. /\ i \in Ids /\ r \in Row /\ RowCoherent(r)
        /\ r.state # Absent
        /\ op[p].pc \in {"create", "update"}
    BY <1>5 DEF Write, ClonesCoherent, TypeOK, Op
  <2>3. rollouts' = [rollouts EXCEPT ![i] = r] /\ rollouts \in [Ids -> Row]
    BY <1>5 DEF Write, Store, TypeOK
  <2> HIDE DEF i, r
  <2>4. Phase' = [Phase EXCEPT ![i] =
                    [model |-> r.model, state |-> r.state, stage |-> r.stage]]
    BY <2>2, <2>3 DEF Phase
  <2>5. /\ Phase[i].model = rollouts[i].model
        /\ Phase[i].state = rollouts[i].state
        /\ Phase[i].stage = rollouts[i].stage
    BY <2>2 DEF Phase
  <2>s. LC!Step(i) => LC!Next
    BY <2>1, <2>2 DEF LC!Next
  <2>6. ASSUME op[p].pc = "create" PROVE LC!Step(i)
    <3>1. r.state = Running /\ r.stage = 0 /\ r.model \in Models
          /\ rollouts[i].state = Absent
      BY <2>2, <2>6 DEF FlagsSound, IdsFresh, Row, i, r
    <3>2. LC!Free(r.model)
      BY <2>1, <2>6 DEF ChecksStand, GetByModel, isActiveState, Pending, LC!Free,
                        LC!Active, Phase, Running, Paused, r
    <3>3. LC!Create(i, r.model)
      BY <2>4, <2>5, <3>1, <3>2 DEF LC!Create, Absent, Running
    <3> QED BY <3>1, <3>3 DEF LC!Step
  <2>7. ASSUME op[p].pc = "update" PROVE LC!Step(i)
    <3>1. Precedes(rollouts[i], r)
      BY <2>1, <2>7 DEF FlagsSound, i, r
    <3>2. Phase[i] = [model |-> rollouts[i].model, state |-> rollouts[i].state,
                      stage |-> rollouts[i].stage] /\ Phase = [Phase EXCEPT ![i] = Phase[i]]
      BY <2>2 DEF Phase
    <3>3. CASE r.state = rollouts[i].state /\ r.state = Running
      <4>1. r.stage = rollouts[i].stage + 1 /\ r.model = rollouts[i].model
        BY <3>1, <3>3 DEF Precedes, Running, Paused, RolledBack, Completed
      <4>2. rollouts[i].stage < LastStage
        <5>1. r.stage \in 0 .. LastStage /\ rollouts[i].stage \in 0 .. LastStage
          BY <2>2, <2>3 DEF Row
        <5> QED BY <4>1, <5>1, RolloutAssumption
      <4>3. Phase' = [Phase EXCEPT ![i].stage = Phase[i].stage + 1]
        BY <2>2, <2>4, <2>5, <3>2, <3>3, <4>1 DEF Phase
      <4> QED BY <2>2, <2>5, <3>3, <4>2, <4>3 DEF LC!Step, LC!Promote, Running
    <3>4. CASE r.stage = rollouts[i].stage
      <4>1. Phase' = [Phase EXCEPT ![i].state = r.state]
        BY <2>2, <2>4, <3>1, <3>2, <3>4 DEF Precedes, Phase
      <4>2. r.state = Completed => r.stage >= LastStage
        <5>1. LastStage >= LastStage
          BY RolloutAssumption
        <5> QED BY <2>2, <5>1, Zenon DEF RowCoherent, Absent, Completed
      <4>p. rollouts[i].state # Pending
        BY <2>2, <2>3 DEF Row, Absent, Pending, Running, Paused, RolledBack, Completed
      <4>3. \/ LC!Pause(i) \/ LC!Resume(i) \/ LC!Rollback(i) \/ LC!Complete(i)
            \/ (r.state = rollouts[i].state /\ r.state = Running)
        BY <2>5, <3>1, <3>4, <4>1, <4>2, <4>p
           DEF Precedes, isActiveState, Pending, LC!Pause, LC!Resume, LC!Rollback,
               LC!Complete, LC!Move, Running, Paused, RolledBack, Completed
      <4> QED BY <3>3, <4>3 DEF LC!Step
    <3> QED BY <3>1, <3>3, <3>4 DEF Precedes
  <2> QED BY <2>2, <2>6, <2>7, <2>s
<1> QED BY <1>2, <1>3, <1>4, <1>5
        DEF Next, vars, CreateRollout, PauseRollout, ResumeRollout,
            RollbackRollout, Read, EvaluateAll, Evaluate, WriteFails, Crash

\* The rollout manager implements the lifecycle: rows are created only for
\* models with no active rollout, finished rollouts stay finished, and stages
\* advance one at a time, except by a write that puts an outdated record over
\* one row; and no such write disturbs any other rollout.
THEOREM RolloutRefinesLifecycle == Spec => LifecycleImplemented
<1>1. Init => LC!Init
  <2>1. NoRow.model \in Models /\ NoRow.state = "absent" /\ NoRow.stage = 0
    BY NoRowType DEF NoRow, Row, Absent
  <2> SUFFICES ASSUME Init PROVE LC!Init
    OBVIOUS
  <2>2. \A i \in Ids : rollouts[i] = NoRow
    BY DEF Init
  <2>3. \A i \in Ids : [model |-> rollouts[i].model, state |-> rollouts[i].state,
                       stage |-> rollouts[i].stage]
                        \in [model : Models, state : {"absent"}, stage : {0}]
    BY <2>1, <2>2
  <2>4. raced = FALSE
    BY DEF Init
  <2> QED BY <2>3, <2>4, Zenon DEF LC!Init, Phase
<1>2. IndInv /\ [Next]_vars => [LC!Next]_<<Phase, raced>>
  BY LifecycleStep
<1>3. IndInv /\ [Next]_vars => IndInv'
  BY IndInvStep
<1> QED BY <1>1, <1>2, <1>3, IndInvInit, PTL
        DEF Spec, LifecycleImplemented, LC!Spec
=============================================================================
