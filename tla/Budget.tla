-------------------------------- MODULE Budget --------------------------------
(***************************************************************************)
(* Monthly budgets: internal/budget/budget.go, the BudgetCheck middleware  *)
(* and the parts of the chat handler that check a budget and record spend. *)
(*                                                                         *)
(* A request is checked twice (global and tenant scopes in the middleware, *)
(* all three in the handler, where the model is known) and its cost is     *)
(* recorded when the provider has answered, in three critical sections of  *)
(* the manager's mutex.  Other requests, the turn of the month and a       *)
(* restart of the process, which forgets all spend, come in between.       *)
(*                                                                         *)
(* The code compares a tracker's period only with the current month, so a  *)
(* tracker is current or it is not.  Costs are whole units.                *)
(***************************************************************************)
EXTENDS Integers, FiniteSets

CONSTANTS Requests,   \* chat requests being served concurrently
          Tenants,
          Models,
          Kinds,      \* kinds of request issued: "unary", "stream"
          Limit,      \* Limit[k]: monthly limit of scope k, 0 when it has none
          MaxCost     \* what one request costs at most

\* The keys of Manager.spends: "global", tenantID, tenantID + ":" + model.
Global == <<>>
TenantKey(t) == <<t>>
ModelKey(t, m) == <<t, m>>

Keys == {Global} \cup {TenantKey(t) : t \in Tenants}
                 \cup {ModelKey(t, m) : t \in Tenants, m \in Models}

ASSUME BudgetAssumption ==
    /\ IsFiniteSet(Requests)
    /\ Kinds \subseteq {"unary", "stream"}
    /\ Limit \in [Keys -> Nat]
    /\ MaxCost \in Nat

VARIABLES
    acc,      \* acc[k]: the tracker's accumulated spend
    current,  \* current[k]: is the tracker's currentPeriod this month?
    req,      \* what each request is doing
    paid      \* history: cost of the unary answers of this month, per key,
              \*   since the process was started

vars == <<acc, current, req, paid>>

PCs == {"idle", "checked", "inflight", "done", "blocked"}

TypeOK ==
    /\ acc \in [Keys -> Nat]
    /\ current \in [Keys -> BOOLEAN]
    /\ req \in [Requests -> [pc : PCs, tenant : Tenants, model : Models,
                             kind : {"unary", "stream"}]]
    /\ paid \in [Keys -> Nat]

Init ==
    /\ acc = [k \in Keys |-> 0]
    /\ current = [k \in Keys |-> TRUE]
    /\ req \in [Requests -> [pc : {"idle"}, tenant : Tenants, model : Models,
                             kind : {"unary"}]]
    /\ paid = [k \in Keys |-> 0]

-----------------------------------------------------------------------------
(* Manager *)

\* The scopes that concern a request of tenant t for model m.
Scopes(t, m) == {Global, TenantKey(t), ModelKey(t, m)}
ScopesOf(r) == Scopes(req[r].tenant, req[r].model)

\* Mutant of Exhausted: 100 % used is still allowed.
ExhaustedPast(k) == Limit[k] > 0 /\ acc[k] > Limit[k]

Exhausted(k) == Limit[k] > 0 /\ acc[k] >= Limit[k]

\* Check: every configured scope among ks must have something left.  It looks
\* at the accumulated spend alone, whatever month that is of.
Allowed(ks) == \A k \in ks : ~Exhausted(k)

\* Mutant of Recorded: the old month's spend is kept.
RecordedOnTop(k, c) == acc[k] + c

\* RecordSpend on one key: start afresh if it is a new period, then add.
Recorded(k, c) == (IF current[k] THEN acc[k] ELSE 0) + c

-----------------------------------------------------------------------------
(* A request's steps *)

Goto(r, pc) == req' = [req EXCEPT ![r] = [req[r] EXCEPT !.pc = pc]]

\* The BudgetCheck middleware: model "*" matches no tenant_model scope.
BudgetCheck(r, t, m, kind) ==
    /\ req[r].pc \in {"idle", "done", "blocked"}
    /\ req' = [req EXCEPT ![r] =
                [pc |-> IF Allowed({Global, TenantKey(t)}) THEN "checked"
                        ELSE "blocked",
                 tenant |-> t, model |-> m, kind |-> kind]]
    /\ UNCHANGED <<acc, current, paid>>

\* Mutant of ChatCompletion: the middleware's check is thought to be enough.
ChatCompletionUnchecked(r) ==
    /\ req[r].pc = "checked"
    /\ Goto(r, "inflight")
    /\ UNCHANGED <<acc, current, paid>>

\* ChatCompletion up to the provider call: the check with the model.
ChatCompletion(r) ==
    /\ req[r].pc = "checked"
    /\ Goto(r, IF Allowed(ScopesOf(r)) THEN "inflight" ELSE "blocked")
    /\ UNCHANGED <<acc, current, paid>>

\* Input policy, cache hit, provider error or output policy: the handler
\* returns before it records anything.  So does handleStream, with the answer
\* relayed: streams are checked against the budgets and never charged to them.
LeaveWithoutSpend(r) ==
    /\ req[r].pc = "inflight"
    /\ Goto(r, "done")
    /\ UNCHANGED <<acc, current, paid>>

\* A unary answer: RecordSpend on the three keys.
RecordSpend(r, c) ==
    /\ req[r].pc = "inflight"
    /\ req[r].kind = "unary"
    /\ acc' = [k \in Keys |-> IF k \in ScopesOf(r) THEN Recorded(k, c) ELSE acc[k]]
    /\ current' = [k \in Keys |-> current[k] \/ k \in ScopesOf(r)]
    /\ paid' = [k \in Keys |-> IF k \in ScopesOf(r) THEN paid[k] + c ELSE paid[k]]
    /\ Goto(r, "done")

\* The calendar: every tracker's period is now a past month.
NextMonth ==
    /\ current' = [k \in Keys |-> FALSE]
    /\ paid' = [k \in Keys |-> 0]
    /\ UNCHANGED <<acc, req>>

\* The process ends, by a signal or a crash, and is started again: spends is
\* in memory only, and NewManager begins with none.
Restart ==
    /\ acc' = [k \in Keys |-> 0]
    /\ current' = [k \in Keys |-> TRUE]
    /\ req' = [r \in Requests |-> [req[r] EXCEPT !.pc = "idle"]]
    /\ paid' = [k \in Keys |-> 0]

Next ==
    \/ \E r \in Requests :
        \/ \E t \in Tenants, m \in Models, kind \in Kinds : BudgetCheck(r, t, m, kind)
        \/ ChatCompletion(r)
        \/ LeaveWithoutSpend(r)
        \/ \E c \in 0 .. MaxCost : RecordSpend(r, c)
    \/ NextMonth
    \/ Restart

Spec == Init /\ [][Next]_vars

\* Months pass, handlers finish, and clients come back.
LiveSpec ==
    /\ Spec
    /\ WF_vars(NextMonth)
    /\ \A r \in Requests :
        /\ \A t \in Tenants, m \in Models :
            WF_vars(\E kind \in Kinds : BudgetCheck(r, t, m, kind))
        /\ WF_vars(ChatCompletion(r))
        /\ WF_vars(\E c \in 1 .. MaxCost : RecordSpend(r, c))

-----------------------------------------------------------------------------
(* Properties *)

InFlight(k) == {r \in Requests : req[r].pc = "inflight" /\ k \in ScopesOf(r)}

\* The check and the spend are separate critical sections, so a scope can
\* end the month above its limit, but never by more than what the requests
\* served at the same time can cost (Check and RecordSpend, budget.go).
OvershootBounded ==
    \A k \in Keys : Limit[k] > 0 =>
        acc[k] < Limit[k] + MaxCost * Cardinality(Requests)

\* A tracker that is of this month holds exactly what the unary answers of
\* this month and this process have cost in its scope, and one that is not has missed nothing:
\* the keys are reset one by one, lazily, by whoever spends first in each.
LedgerExact ==
    \A k \in Keys : paid[k] = IF current[k] THEN acc[k] ELSE 0

\* A request is let through to the provider only while each of its scopes
\* has something left of this month's limit, as far as this process
\* knows, whatever was recorded between the
\* middleware's check and the handler's.
AdmittedWithinBudget ==
    [][\A r \in Requests :
        req[r].pc # "inflight" /\ req'[r].pc = "inflight" =>
            \A k \in ScopesOf(r) : Limit[k] > 0 => paid[k] < Limit[k]]_vars

\* An exhausted monthly budget is available again in some later month
\* ("Reset if new period", budget.go:71).
ExhaustedReopens == \A k \in Keys : Exhausted(k) ~> ~Exhausted(k)

-----------------------------------------------------------------------------
(* The inductive invariant of the proofs: what is accumulated plus what the *)
(* requests in flight may still add stays under the bound.                  *)

Reserved ==
    \A k \in Keys : Limit[k] > 0 =>
        acc[k] + MaxCost * Cardinality(InFlight(k))
            < Limit[k] + MaxCost * Cardinality(Requests)

IndInv == TypeOK /\ Reserved
=============================================================================
