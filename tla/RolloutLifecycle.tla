-------------------------- MODULE RolloutLifecycle --------------------------
(***************************************************************************)
(* What the rollout manager (internal/rollout) promises to an operator,    *)
(* without its store, its clones or its background evaluator: every        *)
(* rollout follows                                                         *)
(*                                                                         *)
(*     running <-> paused,   running -> completed,                         *)
(*     running | paused -> rolled_back                                     *)
(*                                                                         *)
(* one stage at a time, and a model never has two active rollouts.  The    *)
(* rows are not locked, so the promise has one escape: a write may put an  *)
(* outdated record over a row that has changed since it was read.  Such a  *)
(* write touches that row only, never removes it, and is on record.        *)
(***************************************************************************)
EXTENDS Naturals

CONSTANTS Models,      \* route models a rollout can be created for
          Ids,         \* rollout identifiers, in creation order
          LastStage    \* index of the last stage (len(Stages) - 1)

VARIABLES phase,       \* phase[i]: model, state and stage of rollout i
          lost         \* an outdated record has been written over a row

Active(s) == s \in {"pending", "running", "paused"}

Free(m) == \A i \in Ids : ~(Active(phase[i].state) /\ phase[i].model = m)

Phases == [model : Models, stage : 0 .. LastStage,
           state : {"running", "paused", "rolled_back", "completed"}]

Init == /\ phase \in [Ids -> [model : Models, state : {"absent"}, stage : {0}]]
        /\ lost = FALSE

Create(i, m) ==
    /\ phase[i].state = "absent"
    /\ Free(m)
    /\ phase' = [phase EXCEPT ![i] =
                    [model |-> m, state |-> "running", stage |-> 0]]

Promote(i) ==
    /\ phase[i].state = "running"
    /\ phase[i].stage < LastStage
    /\ phase' = [phase EXCEPT ![i].stage = @ + 1]

Move(i, from, to) ==
    /\ phase[i].state \in from
    /\ phase' = [phase EXCEPT ![i].state = to]

Complete(i) == phase[i].stage >= LastStage /\ Move(i, {"running"}, "completed")
Pause(i)    == Move(i, {"running"}, "paused")
Resume(i)   == Move(i, {"paused"}, "running")
Rollback(i) == Move(i, {"running", "paused"}, "rolled_back")

Step(i) == \/ \E m \in Models : Create(i, m)
           \/ Promote(i)
           \/ Complete(i)
           \/ Pause(i)
           \/ Resume(i)
           \/ Rollback(i)

Overwrite(i) ==
    /\ \E ph \in Phases : phase' = [phase EXCEPT ![i] = ph]
    /\ lost' = TRUE

Next == \E i \in Ids : \/ Step(i) /\ UNCHANGED lost
                       \/ Overwrite(i)

Spec == Init /\ [][Next]_<<phase, lost>>
=============================================================================
