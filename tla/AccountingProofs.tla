-------------------------- MODULE AccountingProofs --------------------------
(***************************************************************************)
(* Budgets and usage, for every number of requests, tenants and models,    *)
(* every limit and every cost.  Of the budgets alone: spend above a limit  *)
(* is bounded by the concurrency, and the trackers agree with what was     *)
(* delivered in the month.  Booking usage beside the budgets, and reading  *)
(* the books while they are written, takes nothing away from that:         *)
(* Accounting implements Budget.  And the two books agree with each other. *)
(*                                                                         *)
(* Last, the metrics and alerts the gateway keeps of the same answers.     *)
(***************************************************************************)
EXTENDS Accounting, Analytics, SumTheorems

-----------------------------------------------------------------------------
(* Budgets alone *)

\* Arithmetic of the reservation: one more and one fewer request in flight.
LEMMA OneMore ==
    ASSUME NEW n \in Nat, NEW m \in Nat
    PROVE  m * (n + 1) = m * n + m
OBVIOUS

LEMMA Scaled ==
    ASSUME NEW a \in Nat, NEW b \in Nat, NEW m \in Nat, a <= b
    PROVE  m * a <= m * b
OBVIOUS

LEMMA Products ==
    ASSUME NEW n \in Nat, NEW m \in Nat
    PROVE  m * n \in Nat
OBVIOUS

\* Every scope of a request is a key of the manager's map.
LEMMA ScopesAreKeys ==
    ASSUME NEW t \in Tenants, NEW m \in Models
    PROVE  Scopes(t, m) \subseteq Keys
BY DEF Scopes, Keys

LEMMA ScopesOfAreKeys ==
    ASSUME TypeOK, NEW r \in Requests
    PROVE  ScopesOf(r) \subseteq Keys
BY ScopesAreKeys DEF TypeOK, ScopesOf

\* The requests in flight are some of the requests.
LEMMA InFlightCount ==
    ASSUME NEW S, S \subseteq Requests
    PROVE  /\ IsFiniteSet(S)
           /\ Cardinality(S) \in Nat
           /\ Cardinality(Requests) \in Nat
           /\ Cardinality(S) <= Cardinality(Requests)
BY FS_Subset, FS_CardinalityType, BudgetAssumption DEF BudgetAssumption

\* Adding a request to those in flight.
LEMMA InFlightAdd ==
    ASSUME NEW S, S \subseteq Requests, NEW r \in Requests, r \notin S
    PROVE  /\ Cardinality(S \cup {r}) = Cardinality(S) + 1
           /\ Cardinality(S) + 1 <= Cardinality(Requests)
<1>1. IsFiniteSet(S) /\ Cardinality(S) \in Nat
  BY InFlightCount
<1>2. Cardinality(S \cup {r}) = Cardinality(S) + 1
  BY <1>1, FS_AddElement
<1>3. Cardinality(S \cup {r}) <= Cardinality(Requests)
  <2>1. S \cup {r} \subseteq Requests
    OBVIOUS
  <2> QED
    BY <2>1, InFlightCount
<1> QED
  BY <1>2, <1>3

-----------------------------------------------------------------------------

\* Every variable keeps its type.
LEMMA TypesStep ==
    ASSUME TypeOK, [Next]_vars
    PROVE  TypeOK'
<1> USE BudgetAssumption DEF BudgetAssumption
<1>1. ASSUME NEW r \in Requests, NEW t \in Tenants, NEW m \in Models,
             NEW kind \in Kinds, BudgetCheck(r, t, m, kind)
      PROVE  TypeOK'
  <2>1. kind \in {"unary", "stream"}
    OBVIOUS
  <2>2. req' \in [Requests -> [pc : PCs, tenant : Tenants, model : Models,
                               kind : {"unary", "stream"}]]
    <3>1. PICK pc \in PCs : req' = [req EXCEPT ![r] = [pc |-> pc, tenant |-> t,
                                        model |-> m, kind |-> kind]]
      BY <1>1 DEF BudgetCheck, PCs
    <3> QED
      BY <3>1, <2>1 DEF TypeOK
  <2> QED
    BY <1>1, <2>2 DEF BudgetCheck, TypeOK
<1>2. ASSUME NEW r \in Requests, NEW pc \in PCs, Goto(r, pc)
      PROVE  req' \in [Requests -> [pc : PCs, tenant : Tenants, model : Models,
                                    kind : {"unary", "stream"}]]
  BY <1>2, Zenon DEF Goto, TypeOK
<1>3. ASSUME NEW r \in Requests, ChatCompletion(r)
      PROVE  TypeOK'
  BY <1>2, <1>3 DEF ChatCompletion, TypeOK, PCs
<1>4. ASSUME NEW r \in Requests, LeaveWithoutSpend(r)
      PROVE  TypeOK'
  BY <1>2, <1>4 DEF LeaveWithoutSpend, TypeOK, PCs
<1>5. ASSUME NEW r \in Requests, NEW c \in 0 .. MaxCost, RecordSpend(r, c)
      PROVE  TypeOK'
  <2>1. acc' \in [Keys -> Nat]
    BY <1>5 DEF RecordSpend, Recorded, TypeOK
  <2>2. current' \in [Keys -> BOOLEAN]
    BY <1>5, Zenon DEF RecordSpend, TypeOK
  <2>3. paid' \in [Keys -> Nat]
    BY <1>5 DEF RecordSpend, TypeOK
  <2> QED
    BY <1>2, <1>5, <2>1, <2>2, <2>3 DEF RecordSpend, TypeOK, PCs
<1>7. CASE NextMonth
  BY <1>7 DEF NextMonth, TypeOK
<1>8. CASE Restart
  <2>1. req' \in [Requests -> [pc : PCs, tenant : Tenants, model : Models,
                               kind : {"unary", "stream"}]]
    BY <1>8, Zenon DEF Restart, TypeOK, PCs
  <2> QED
    BY <1>8, <2>1 DEF Restart, TypeOK
<1>9. CASE UNCHANGED vars
  BY <1>9 DEF vars, TypeOK
<1> QED
  BY <1>1, <1>3, <1>4, <1>5, <1>7, <1>8, <1>9 DEF Next

-----------------------------------------------------------------------------

\* A step that neither spends nor lets a request through to the provider
\* keeps the reservation.
LEMMA ReservedLess ==
    ASSUME TypeOK, TypeOK', Reserved, acc' = acc,
           \A k \in Keys : InFlight(k)' \subseteq InFlight(k)
    PROVE  Reserved'
<1> SUFFICES ASSUME NEW k \in Keys, Limit[k] > 0
             PROVE  acc[k] + MaxCost * Cardinality(InFlight(k)')
                        < Limit[k] + MaxCost * Cardinality(Requests)
  BY DEF Reserved
<1> DEFINE new == Cardinality(InFlight(k)')
           old == Cardinality(InFlight(k))
<1>1. /\ InFlight(k) \subseteq Requests
      /\ InFlight(k)' \subseteq InFlight(k)
  BY DEF InFlight
<1>2. /\ new \in Nat
      /\ old \in Nat
      /\ new <= old
      /\ Cardinality(Requests) \in Nat
  <2>1. IsFiniteSet(InFlight(k))
    BY <1>1, InFlightCount
  <2> QED
    BY <1>1, <2>1, InFlightCount, FS_Subset, FS_CardinalityType
<1>3. MaxCost \in Nat /\ acc[k] \in Nat /\ Limit[k] \in Nat
  BY BudgetAssumption DEF BudgetAssumption, TypeOK
<1>4. acc[k] + MaxCost * old < Limit[k] + MaxCost * Cardinality(Requests)
  BY DEF Reserved
<1> HIDE DEF new, old
<1>5. /\ MaxCost * new <= MaxCost * old
      /\ MaxCost * new \in Nat
      /\ MaxCost * old \in Nat
      /\ MaxCost * Cardinality(Requests) \in Nat
  BY <1>2, <1>3, Scaled, Products
<1> QED
  BY <1>3, <1>4, <1>5 DEF new

\* A request let through finds every one of its scopes under the limit.
LEMMA ReservedAdmit ==
    ASSUME TypeOK, Reserved, NEW r \in Requests, ChatCompletion(r), TypeOK'
    PROVE  Reserved'
<1>1. \A s \in Requests : s # r => req'[s] = req[s]
  BY DEF ChatCompletion, Goto, TypeOK
<1>2. /\ req'[r].tenant = req[r].tenant
      /\ req'[r].model = req[r].model
      /\ req[r].pc = "checked"
  BY DEF ChatCompletion, Goto, TypeOK
<1>3. acc' = acc
  BY DEF ChatCompletion
<1>4. CASE Allowed(ScopesOf(r))
  <2> SUFFICES ASSUME NEW k \in Keys, Limit[k] > 0
               PROVE  acc[k] + MaxCost * Cardinality(InFlight(k)')
                          < Limit[k] + MaxCost * Cardinality(Requests)
    BY <1>3 DEF Reserved
  <2>1. MaxCost \in Nat /\ acc[k] \in Nat /\ Limit[k] \in Nat
    BY BudgetAssumption DEF BudgetAssumption, TypeOK
  <2>2. InFlight(k) \subseteq Requests /\ r \notin InFlight(k)
    BY <1>2 DEF InFlight
  <2>3. CASE k \in ScopesOf(r)
    <3>1. acc[k] < Limit[k]
      BY <1>4, <2>1, <2>3 DEF Allowed, Exhausted
    <3>2. InFlight(k)' \subseteq Requests
      BY DEF InFlight
    <3> DEFINE n == Cardinality(InFlight(k)')
               q == Cardinality(Requests)
    <3>3. n \in Nat /\ q \in Nat /\ n <= q
      BY <3>2, InFlightCount
    <3> HIDE DEF n, q
    <3>4. MaxCost * n <= MaxCost * q /\ MaxCost * n \in Nat /\ MaxCost * q \in Nat
      BY <3>3, <2>1, Scaled, Products
    <3> QED
      BY <3>1, <3>4, <2>1 DEF n, q
  <2>4. CASE k \notin ScopesOf(r)
    <3>1. InFlight(k)' = InFlight(k)
      BY <1>1, <1>2, <2>4 DEF InFlight, ScopesOf
    <3> QED
      BY <3>1 DEF Reserved
  <2> QED
    BY <2>3, <2>4
<1>5. CASE ~Allowed(ScopesOf(r))
  <2>1. req'[r].pc = "blocked"
    BY <1>5 DEF ChatCompletion, Goto, TypeOK
  <2>2. \A k \in Keys : InFlight(k)' \subseteq InFlight(k)
    BY <1>1, <2>1 DEF InFlight, ScopesOf
  <2> QED
    BY <1>3, <2>2, ReservedLess
<1> QED
  BY <1>4, <1>5

\* A spend takes the place of one reservation in each of its scopes.
LEMMA ReservedSpend ==
    ASSUME TypeOK, Reserved, TypeOK', NEW r \in Requests, NEW c \in 0 .. MaxCost,
           RecordSpend(r, c)
    PROVE  Reserved'
<1> SUFFICES ASSUME NEW k \in Keys, Limit[k] > 0
             PROVE  acc'[k] + MaxCost * Cardinality(InFlight(k)')
                        < Limit[k] + MaxCost * Cardinality(Requests)
  BY DEF Reserved
<1>1. \A s \in Requests : s # r => req'[s] = req[s]
  BY DEF RecordSpend, Goto, TypeOK
<1>2. req[r].pc = "inflight" /\ req'[r].pc = "done"
  BY DEF RecordSpend, Goto, TypeOK
<1>3. MaxCost \in Nat /\ acc[k] \in Nat /\ Limit[k] \in Nat /\ c \in Nat /\ c <= MaxCost
  BY BudgetAssumption DEF BudgetAssumption, TypeOK
<1> DEFINE T == InFlight(k)'
           n == Cardinality(T)
           q == Cardinality(Requests)
<1>4. CASE k \in ScopesOf(r)
  <2>1. T \subseteq Requests /\ r \notin T /\ InFlight(k) = T \cup {r}
    BY <1>1, <1>2, <1>4 DEF InFlight, ScopesOf
  <2>2. Cardinality(InFlight(k)) = n + 1 /\ n + 1 <= q /\ n \in Nat /\ q \in Nat
    BY <2>1, InFlightAdd, InFlightCount
  <2>3. acc[k] + MaxCost * (n + 1) < Limit[k] + MaxCost * q
    BY <2>2 DEF Reserved
  <2>4. acc'[k] = acc[k] + c \/ acc'[k] = c
    BY <1>3, <1>4 DEF RecordSpend, Recorded, TypeOK
  <2> HIDE DEF n, q, T
  <2>5. /\ MaxCost * (n + 1) = MaxCost * n + MaxCost
        /\ MaxCost * n \in Nat
        /\ MaxCost * q \in Nat
    BY <2>2, <1>3, OneMore, Products
  <2>6. acc'[k] + MaxCost * n < Limit[k] + MaxCost * q
    BY <2>3, <2>4, <2>5, <1>3
  <2> QED
    BY <2>6 DEF n, q, T
<1>5. CASE k \notin ScopesOf(r)
  <2>1. acc'[k] = acc[k]
    BY <1>5 DEF RecordSpend
  <2>2. T = InFlight(k)
    BY <1>1, <1>2, <1>5 DEF InFlight, ScopesOf
  <2> QED
    BY <2>1, <2>2 DEF Reserved
<1> QED
  BY <1>4, <1>5

\* What every fresh process starts with: nothing spent, nothing in flight.
LEMMA ReservedFresh ==
    ASSUME \A k \in Keys : acc[k] = 0
    PROVE  Reserved
<1> SUFFICES ASSUME NEW k \in Keys, Limit[k] > 0
             PROVE  acc[k] + MaxCost * Cardinality(InFlight(k))
                        < Limit[k] + MaxCost * Cardinality(Requests)
  BY DEF Reserved
<1>1. InFlight(k) \subseteq Requests
  BY DEF InFlight
<1>2. MaxCost \in Nat /\ Limit[k] \in Nat /\ acc[k] = 0
  BY BudgetAssumption DEF BudgetAssumption
<1> DEFINE n == Cardinality(InFlight(k))
           q == Cardinality(Requests)
<1>3. n \in Nat /\ q \in Nat /\ n <= q
  BY <1>1, InFlightCount
<1> HIDE DEF n, q
<1>4. MaxCost * n <= MaxCost * q /\ MaxCost * n \in Nat /\ MaxCost * q \in Nat
  BY <1>2, <1>3, Scaled, Products
<1> QED
  BY <1>2, <1>4 DEF n, q

LEMMA ReservedRestart ==
    ASSUME Restart
    PROVE  Reserved'
<1> SUFFICES ASSUME NEW k \in Keys, Limit[k] > 0
             PROVE  acc'[k] + MaxCost * Cardinality(InFlight(k)')
                        < Limit[k] + MaxCost * Cardinality(Requests)
  BY DEF Reserved
<1>1. InFlight(k)' \subseteq Requests
  BY DEF InFlight
<1>2. MaxCost \in Nat /\ Limit[k] \in Nat /\ acc'[k] = 0
  BY BudgetAssumption DEF BudgetAssumption, Restart
<1> DEFINE n == Cardinality(InFlight(k)')
           q == Cardinality(Requests)
<1>3. n \in Nat /\ q \in Nat /\ n <= q
  BY <1>1, InFlightCount
<1> HIDE DEF n, q
<1>4. MaxCost * n <= MaxCost * q /\ MaxCost * n \in Nat /\ MaxCost * q \in Nat
  BY <1>2, <1>3, Scaled, Products
<1> QED
  BY <1>2, <1>4 DEF n, q

LEMMA ReservedStep ==
    ASSUME TypeOK, TypeOK', Reserved, [Next]_vars
    PROVE  Reserved'
<1>1. ASSUME NEW r \in Requests, req'[r].pc # "inflight", acc' = acc,
             \A s \in Requests : s # r => req'[s] = req[s]
      PROVE  Reserved'
  <2>1. \A k \in Keys : InFlight(k)' \subseteq InFlight(k)
    BY <1>1 DEF InFlight, ScopesOf
  <2> QED
    BY <1>1, <2>1, ReservedLess
<1>2. ASSUME NEW r \in Requests, NEW t \in Tenants, NEW m \in Models,
             NEW kind \in Kinds, BudgetCheck(r, t, m, kind)
      PROVE  Reserved'
  <2>1. req'[r].pc # "inflight" /\ acc' = acc
    BY <1>2 DEF BudgetCheck, TypeOK
  <2>2. \A s \in Requests : s # r => req'[s] = req[s]
    BY <1>2 DEF BudgetCheck, TypeOK
  <2> QED
    BY <1>1, <2>1, <2>2
<1>3. ASSUME NEW r \in Requests, LeaveWithoutSpend(r)
      PROVE  Reserved'
  BY <1>1, <1>3 DEF LeaveWithoutSpend, Goto, TypeOK
<1>5. CASE NextMonth
  <2>1. acc' = acc /\ req' = req
    BY <1>5 DEF NextMonth
  <2> QED
    BY <2>1, ReservedLess DEF InFlight, ScopesOf
<1>6. CASE UNCHANGED vars
  <2>1. acc' = acc /\ req' = req
    BY <1>6 DEF vars
  <2> QED
    BY <2>1, ReservedLess DEF InFlight, ScopesOf
<1> QED
  BY <1>2, <1>3, <1>5, <1>6, ReservedAdmit, ReservedSpend, ReservedRestart DEF Next

LEMMA InitReserved ==
    ASSUME Init
    PROVE  IndInv
<1>1. TypeOK
  BY DEF Init, TypeOK, PCs
<1>2. Reserved
  BY ReservedFresh DEF Init
<1> QED
  BY <1>1, <1>2 DEF IndInv

\* The inductive invariant holds in every reachable state.
THEOREM BudgetInvariant == Spec => []IndInv
<1>1. Init => IndInv
  BY InitReserved
<1>2. IndInv /\ [Next]_vars => IndInv'
  BY TypesStep, ReservedStep DEF IndInv
<1> QED
  BY <1>1, <1>2, PTL DEF Spec

\* The state always has the shape of the manager's and the handlers' state.
THEOREM BudgetTypes == Spec => []TypeOK
<1>1. IndInv => TypeOK
  BY DEF IndInv
<1> QED
  BY <1>1, BudgetInvariant, PTL

\* However requests interleave, a scope's recorded spend passes its limit by
\* less than what the requests served at once can cost.
THEOREM BudgetOvershoot == Spec => []OvershootBounded
<1>1. IndInv => OvershootBounded
  <2> SUFFICES ASSUME IndInv, NEW k \in Keys, Limit[k] > 0
               PROVE  acc[k] < Limit[k] + MaxCost * Cardinality(Requests)
    BY DEF OvershootBounded
  <2>1. InFlight(k) \subseteq Requests
    BY DEF InFlight
  <2>2. MaxCost \in Nat /\ Limit[k] \in Nat /\ acc[k] \in Nat
    BY BudgetAssumption DEF BudgetAssumption, IndInv, TypeOK
  <2> DEFINE n == Cardinality(InFlight(k))
             q == Cardinality(Requests)
  <2>3. n \in Nat /\ q \in Nat
    BY <2>1, InFlightCount
  <2>4. acc[k] + MaxCost * n < Limit[k] + MaxCost * q
    BY DEF IndInv, Reserved
  <2> HIDE DEF n, q
  <2>5. MaxCost * n \in Nat /\ MaxCost * q \in Nat
    BY <2>2, <2>3, Products
  <2> QED
    BY <2>2, <2>4, <2>5 DEF q
<1> QED
  BY <1>1, BudgetInvariant, PTL

-----------------------------------------------------------------------------

LEMMA LedgerStep ==
    ASSUME TypeOK, LedgerExact, [Next]_vars
    PROVE  LedgerExact'
<1>1. ASSUME NEW r \in Requests, NEW t \in Tenants, NEW m \in Models,
             NEW kind \in Kinds, BudgetCheck(r, t, m, kind)
      PROVE  LedgerExact'
  BY <1>1 DEF BudgetCheck, LedgerExact
<1>2. ASSUME NEW r \in Requests, ChatCompletion(r) \/ LeaveWithoutSpend(r)
      PROVE  LedgerExact'
  BY <1>2 DEF ChatCompletion, LeaveWithoutSpend, LedgerExact
<1>3. ASSUME NEW r \in Requests, NEW c \in 0 .. MaxCost, RecordSpend(r, c)
      PROVE  LedgerExact'
  <2>0. MaxCost \in Nat /\ c \in Nat
    BY BudgetAssumption DEF BudgetAssumption
  <2> SUFFICES ASSUME NEW k \in Keys
               PROVE  paid'[k] = IF current'[k] THEN acc'[k] ELSE 0
    BY DEF LedgerExact
  <2>1. acc[k] \in Nat /\ paid[k] \in Nat /\ current[k] \in BOOLEAN
    BY DEF TypeOK
  <2>2. CASE k \in ScopesOf(r)
    <3>1. /\ current'[k] = TRUE
          /\ paid'[k] = paid[k] + c
          /\ acc'[k] = (IF current[k] THEN acc[k] ELSE 0) + c
      BY <1>3, <2>2 DEF RecordSpend, Recorded
    <3> QED
      BY <3>1, <2>1, <2>0 DEF LedgerExact
  <2>3. CASE k \notin ScopesOf(r)
    <3>1. /\ current'[k] = current[k]
          /\ paid'[k] = paid[k]
          /\ acc'[k] = acc[k]
      BY <1>3, <2>3, <2>1 DEF RecordSpend
    <3> QED
      BY <3>1 DEF LedgerExact
  <2> QED
    BY <2>2, <2>3
<1>5. CASE NextMonth
  BY <1>5 DEF NextMonth, LedgerExact
<1>6. CASE Restart
  BY <1>6 DEF Restart, LedgerExact
<1>7. CASE UNCHANGED vars
  BY <1>7 DEF vars, LedgerExact
<1> QED
  BY <1>1, <1>2, <1>3, <1>5, <1>6, <1>7 DEF Next

\* A tracker of this month holds exactly what this month's unary answers have
\* cost, however spends and the turn of the month interleave.
THEOREM BudgetLedger == Spec => []LedgerExact
<1>1. Init => LedgerExact
  BY DEF Init, LedgerExact
<1>2. TypeOK /\ LedgerExact /\ [Next]_vars => LedgerExact'
  BY LedgerStep
<1> QED
  BY <1>1, <1>2, BudgetTypes, PTL DEF Spec

\* A request reaches the provider only while every scope of it has something
\* left of this month's limit.
THEOREM BudgetAdmission == Spec => AdmittedWithinBudget
<1> DEFINE Admission == \A r \in Requests :
            req[r].pc # "inflight" /\ req'[r].pc = "inflight" =>
                \A k \in ScopesOf(r) : Limit[k] > 0 => paid[k] < Limit[k]
<1>1. ASSUME TypeOK, LedgerExact, [Next]_vars
      PROVE  [Admission]_vars
  <2> SUFFICES ASSUME NEW r \in Requests, req[r].pc # "inflight",
                      req'[r].pc = "inflight", NEW k \in ScopesOf(r), Limit[k] > 0
               PROVE  paid[k] < Limit[k]
    OBVIOUS
  <2>1. k \in Keys
    BY <1>1, ScopesOfAreKeys
  <2>2. ChatCompletion(r) /\ Allowed(ScopesOf(r))
    <3>1. ASSUME NEW s \in Requests, NEW pc, Goto(s, pc), pc # "inflight"
          PROVE  FALSE
      BY <1>1, <3>1 DEF Goto, TypeOK
    <3>2. ASSUME NEW s \in Requests, NEW t \in Tenants, NEW m \in Models,
                 NEW kind \in Kinds, BudgetCheck(s, t, m, kind)
          PROVE  FALSE
      BY <1>1, <3>2 DEF BudgetCheck, TypeOK
    <3>3. ASSUME NEW s \in Requests, LeaveWithoutSpend(s)
          PROVE  FALSE
      BY <3>1, <3>3 DEF LeaveWithoutSpend
    <3>4. ASSUME NEW s \in Requests, NEW c \in 0 .. MaxCost, RecordSpend(s, c)
          PROVE  FALSE
      BY <3>1, <3>4 DEF RecordSpend
    <3>5. req' # req
      OBVIOUS
    <3>6. ~NextMonth /\ ~UNCHANGED vars
      BY <3>5 DEF NextMonth, vars
    <3>7. ~Restart
      <4>1. ASSUME Restart PROVE req'[r].pc = "idle"
        BY <1>1, <4>1, Zenon DEF Restart, TypeOK
      <4> QED
        BY <4>1
    <3>8. PICK s \in Requests : ChatCompletion(s)
      BY <1>1, <3>2, <3>3, <3>4, <3>6, <3>7 DEF Next
    <3>9. s = r
      BY <1>1, <3>8 DEF ChatCompletion, Goto, TypeOK
    <3> QED
      BY <1>1, <3>8, <3>9 DEF ChatCompletion, Goto, TypeOK
  <2>3. acc[k] < Limit[k]
    <3>1. acc[k] \in Nat /\ Limit[k] \in Nat
      BY <1>1, <2>1, BudgetAssumption DEF TypeOK, BudgetAssumption
    <3> QED
      BY <2>2, <3>1 DEF Allowed, Exhausted
  <2> QED
    <3>1. paid[k] = acc[k] \/ paid[k] = 0
      BY <1>1, <2>1 DEF LedgerExact
    <3>2. Limit[k] \in Nat
      BY <2>1, BudgetAssumption DEF BudgetAssumption
    <3> QED
      BY <3>1, <3>2, <2>3
<1> QED
  BY <1>1, BudgetTypes, BudgetLedger, PTL DEF Spec, AdmittedWithinBudget

-----------------------------------------------------------------------------
(* Usage beside the budgets *)

Steps == {"none", "totals", "models", "spend"}
Books == [Requests -> [step : Steps, tokens : 0 .. MaxCost]]

\* What is booked for a request is what a request may cost.
LEMMA BooksStep ==
    ASSUME book \in Books, [AccountingNext]_allVars
    PROVE  book' \in Books
<1> USE BudgetAssumption DEF BudgetAssumption
<1>1. NoTokens \in [step : Steps, tokens : 0 .. MaxCost]
  BY DEF NoTokens, Steps
<1>2. ASSUME NEW r \in Requests, NEW c \in 0 .. MaxCost, Answered(r, c)
      PROVE  book' \in Books
  BY <1>2 DEF Answered, Books, Steps
<1>3. ASSUME NEW r \in Requests, AddTotals(r) \/ AddModel(r)
      PROVE  book' \in Books
  <2>1. PICK step \in Steps : book' = [book EXCEPT ![r].step = step]
    BY <1>3 DEF AddTotals, AddModel, Steps
  <2> QED
    BY <2>1, Zenon DEF Books
<1>4. ASSUME NEW r \in Requests, Spend(r)
      PROVE  book' \in Books
  BY <1>1, <1>4 DEF Spend, Books
<1>5. CASE RestartAll
  BY <1>1, <1>5 DEF RestartAll, NoBooks, Books
<1>6. ASSUME UNCHANGED usage
      PROVE  book' \in Books
  BY <1>6 DEF usage
<1>7. ASSUME \/ BudgetStep
             \/ \E t \in Tenants : GetAll(t)
             \/ EncodeTotals \/ EncodeEntries
             \/ \E m \in Models : EncodeModel(m)
      PROVE  book' \in Books
  BY <1>6, <1>7 DEF BudgetStep, GetAll, EncodeTotals, EncodeEntries, EncodeModel
<1>8. CASE UNCHANGED allVars
  BY <1>6, <1>8 DEF allVars
<1> QED
  BY <1>2, <1>3, <1>4, <1>5, <1>7, <1>8 DEF AccountingNext

LEMMA BooksAlways == AccountingSpec => [](book \in Books)
<1>1. AccountingInit => book \in Books
  BY BudgetAssumption DEF BudgetAssumption, AccountingInit, NoBooks, NoTokens, Books, Steps
<1>2. book \in Books /\ [AccountingNext]_allVars => (book \in Books)'
  BY BooksStep
<1> QED
  BY <1>1, <1>2, PTL DEF AccountingSpec

\* A step of the handlers, the page or the process is a step of Budget or
\* leaves Budget's variables alone.
LEMMA BudgetStepOrStutter ==
    ASSUME book \in Books, [AccountingNext]_allVars
    PROVE  [Next]_vars
<1>1. CASE BudgetStep
  BY <1>1 DEF BudgetStep, Next
<1>2. ASSUME NEW r \in Requests, Spend(r)
      PROVE  [Next]_vars
  <2>1. book[r].tokens \in 0 .. MaxCost
    BY DEF Books
  <2> QED
    BY <1>2, <2>1 DEF Spend, Next
<1>3. CASE RestartAll
  BY <1>3 DEF RestartAll, Next
<1>4. ASSUME NEW r \in Requests,
             (\E c \in 0 .. MaxCost : Answered(r, c)) \/ AddTotals(r) \/ AddModel(r)
      PROVE  UNCHANGED vars
  BY <1>4 DEF Answered, AddTotals, AddModel
<1>5. ASSUME \/ \E t \in Tenants : GetAll(t)
             \/ EncodeTotals \/ EncodeEntries
             \/ \E m \in Models : EncodeModel(m)
      PROVE  UNCHANGED vars
  BY <1>5 DEF GetAll, EncodeTotals, EncodeEntries, EncodeModel
<1>6. CASE UNCHANGED allVars
  BY <1>6 DEF allVars
<1> QED
  BY <1>1, <1>2, <1>3, <1>4, <1>5, <1>6 DEF AccountingNext

\* The handler that books usage first, under another mutex and with a page
\* reading along, still treats the budgets as Budget says.
THEOREM AccountingRefinesBudget == AccountingSpec => Spec
<1>1. AccountingInit => Init
  BY DEF AccountingInit
<1>2. book \in Books /\ [AccountingNext]_allVars => [Next]_vars
  BY BudgetStepOrStutter
<1> QED
  BY <1>1, <1>2, BooksAlways, PTL DEF AccountingSpec, Spec

\* So the trackers hold what the answers of the month have cost,
THEOREM AccountingLedger == AccountingSpec => []LedgerExact
BY AccountingRefinesBudget, BudgetLedger, PTL

\* a limit is overshot by no more than the requests in flight can cost,
THEOREM AccountingOvershoot == AccountingSpec => []OvershootBounded
BY AccountingRefinesBudget, BudgetOvershoot, PTL

\* and a request is let through only within its budgets.
THEOREM AccountingAdmission == AccountingSpec => AdmittedWithinBudget
BY AccountingRefinesBudget, BudgetAdmission, PTL

-----------------------------------------------------------------------------
(* The two books *)

\* Steps of the handlers that book nothing, and those of the page, leave the
\* usage store alone.
LEMMA UsageKept ==
    ASSUME \/ BudgetStep
           \/ \E t \in Tenants : GetAll(t)
           \/ EncodeTotals \/ EncodeEntries
           \/ \E m \in Models : EncodeModel(m)
           \/ UNCHANGED allVars
    PROVE  total' = total /\ byModel' = byModel /\ lock' = lock /\ book' = book
BY DEF BudgetStep, GetAll, EncodeTotals, EncodeEntries, EncodeModel, usage, allVars

\* What the store and the page hold keeps its type.
LEMMA StoreTypeStep ==
    ASSUME AccountingTypeOK, [AccountingNext]_allVars
    PROVE  /\ total' \in [Tenants -> [requests : Nat, tokens : Nat]]
           /\ byModel' \in [Tenants -> [Models -> Nat]]
           /\ lock' \subseteq Requests
<1> DEFINE Goal == /\ total' \in [Tenants -> [requests : Nat, tokens : Nat]]
                   /\ byModel' \in [Tenants -> [Models -> Nat]]
                   /\ lock' \subseteq Requests
<1>0. /\ total \in [Tenants -> [requests : Nat, tokens : Nat]]
      /\ byModel \in [Tenants -> [Models -> Nat]]
      /\ lock \subseteq Requests
      /\ \A r \in Requests : /\ req[r].tenant \in Tenants /\ req[r].model \in Models
                             /\ book[r].tokens \in Nat
  BY BudgetAssumption DEF AccountingTypeOK, TypeOK
<1>1. ASSUME NEW r \in Requests, NEW c \in 0 .. MaxCost, Answered(r, c)
      PROVE  Goal
  BY <1>0, <1>1 DEF Answered
<1>2. ASSUME NEW r \in Requests, AddTotals(r)
      PROVE  Goal
  <2> DEFINE t == req[r].tenant
             n == total[t].requests + 1
             k == total[t].tokens + book[r].tokens
  <2>1. t \in Tenants /\ n \in Nat /\ k \in Nat
    BY <1>0
  <2>2. total' = [total EXCEPT ![t] = [requests |-> n, tokens |-> k]]
    BY <1>2 DEF AddTotals
  <2> HIDE DEF t, n, k
  <2>3. [requests |-> n, tokens |-> k] \in [requests : Nat, tokens : Nat]
    BY <2>1
  <2>4. total' \in [Tenants -> [requests : Nat, tokens : Nat]]
    BY <1>0, <2>1, <2>2, <2>3
  <2> QED BY <1>0, <1>2, <2>4 DEF AddTotals
<1>3. ASSUME NEW r \in Requests, AddModel(r)
      PROVE  Goal
  BY <1>0, <1>3 DEF AddModel
<1>4. ASSUME NEW r \in Requests, Spend(r)
      PROVE  Goal
  BY <1>0, <1>4 DEF Spend
<1>5. CASE RestartAll
  <2>1. [requests |-> 0, tokens |-> 0] \in [requests : Nat, tokens : Nat]
    OBVIOUS
  <2> QED BY <1>5, <2>1 DEF RestartAll, NoTotals, NoModels
<1> QED
  BY <1>0, <1>1, <1>2, <1>3, <1>4, <1>5, UsageKept DEF AccountingNext

LEMMA PageTypeStep ==
    ASSUME AccountingTypeOK, [AccountingNext]_allVars
    PROVE  page' \in [pc : {"idle", "totals", "list", "models"}, tenant : Tenants,
                      requests : Nat, left : SUBSET Models, listed : Nat]
<1> DEFINE PPC == {"idle", "totals", "list", "models"}
           Page == [pc : PPC, tenant : Tenants, requests : Nat,
                    left : SUBSET Models, listed : Nat]
<1>0. /\ page \in Page /\ page.tenant \in Tenants /\ page.listed \in Nat
      /\ page.left \subseteq Models
      /\ \A t \in Tenants : total[t].requests \in Nat
                            /\ \A m \in Models : byModel[t][m] \in Nat
  BY DEF AccountingTypeOK
<1>p. "idle" \in PPC /\ "totals" \in PPC /\ "list" \in PPC /\ "models" \in PPC
  OBVIOUS
<1> HIDE DEF PPC
<1>1. NoPage \in Page
  <2>1. (CHOOSE t \in Tenants : TRUE) \in Tenants
    BY AccountingAssumption
  <2>2. 0 \in Nat /\ {} \in SUBSET Models
    OBVIOUS
  <2> QED BY <1>p, <2>1, <2>2, Zenon DEF NoPage
<1>2. ASSUME NEW t \in Tenants, GetAll(t)
      PROVE  page' \in Page
  <2>1. page' = [NoPage EXCEPT !.pc = "totals", !.tenant = t]
    BY <1>2 DEF GetAll
  <2> QED BY <1>1, <1>p, <2>1, Zenon
<1>3. ASSUME EncodeTotals
      PROVE  page' \in Page
  <2>1. page' = [page EXCEPT !.pc = "list", !.requests = total[page.tenant].requests]
    BY <1>3 DEF EncodeTotals
  <2>2. total[page.tenant].requests \in Nat
    BY <1>0
  <2> QED BY <1>0, <1>p, <2>1, <2>2, Zenon
<1>4. ASSUME EncodeEntries
      PROVE  page' \in Page
  <2> DEFINE L == {m \in Models : byModel[page.tenant][m] > 0}
  <2>1. page' = [page EXCEPT !.pc = "models", !.left = L]
    BY <1>4 DEF EncodeEntries
  <2>2. L \in SUBSET Models
    OBVIOUS
  <2> HIDE DEF L
  <2> QED BY <1>0, <1>p, <2>1, <2>2, Zenon
<1>5. ASSUME NEW m \in Models, EncodeModel(m)
      PROVE  page' \in Page
  <2> DEFINE L == page.left \ {m}
             n == page.listed + byModel[page.tenant][m]
  <2>1. page' = [page EXCEPT !.left = L, !.listed = n]
    BY <1>5 DEF EncodeModel
  <2>2. L \in SUBSET Models /\ n \in Nat
    BY <1>0
  <2> HIDE DEF L, n
  <2> QED BY <1>0, <2>1, <2>2, Zenon
<1>6. ASSUME RestartAll
      PROVE  page' \in Page
  BY <1>1, <1>6 DEF RestartAll
<1>7. ASSUME \/ BudgetStep
             \/ \E r \in Requests : \/ \E c \in 0 .. MaxCost : Answered(r, c)
                                    \/ AddTotals(r) \/ AddModel(r) \/ Spend(r)
             \/ UNCHANGED allVars
      PROVE  page' = page
  BY <1>7 DEF BudgetStep, Answered, AddTotals, AddModel, Spend, allVars
<1>8. page' \in Page
  <2> HIDE DEF Page
  <2> QED BY <1>0, <1>2, <1>3, <1>4, <1>5, <1>6, <1>7 DEF AccountingNext
<1> QED BY <1>8 DEF PPC

LEMMA AccountingTypeStep ==
    ASSUME AccountingTypeOK, [AccountingNext]_allVars
    PROVE  AccountingTypeOK'
<1>1. book \in Books /\ TypeOK
  BY DEF AccountingTypeOK, Books, Steps
<1>2. book' \in Books /\ TypeOK'
  BY <1>1, BooksStep, BudgetStepOrStutter, TypesStep
<1> QED
  BY <1>2, StoreTypeStep, PageTypeStep DEF AccountingTypeOK, Books, Steps

\* The rest of the inductive invariant, but for the page.
BooksInv == BookedInFlight /\ OneInAdd /\ CountedByModel /\ ChargedOnce

\* The types the proofs below use of requests, books and counters.
LEMMA BookFields ==
    ASSUME AccountingTypeOK
    PROVE  /\ IsFiniteSet(Models) /\ IsFiniteSet(Requests)
           /\ \A r \in Requests : /\ req[r].tenant \in Tenants
                                  /\ req[r].model \in Models
                                  /\ book[r].tokens \in Nat
           /\ \A t \in Tenants : /\ total[t].requests \in Nat /\ total[t].tokens \in Nat
                                 /\ \A m \in Models : byModel[t][m] \in Nat
                                 /\ paid[TenantKey(t)] \in Nat
                                 /\ Total(byModel[t], Models) \in Nat
                                 /\ \A r \in Requests : Unpaid(t)[r] \in Nat
                                 /\ Total(Unpaid(t), Requests) \in Nat
<1>1. /\ IsFiniteSet(Models) /\ IsFiniteSet(Requests)
      /\ \A r \in Requests : /\ req[r].tenant \in Tenants
                             /\ req[r].model \in Models
                             /\ book[r].tokens \in Nat
  BY BudgetAssumption, AccountingAssumption DEF AccountingTypeOK, TypeOK
<1>2. ASSUME NEW t \in Tenants
      PROVE  /\ total[t].requests \in Nat /\ total[t].tokens \in Nat
             /\ \A m \in Models : byModel[t][m] \in Nat
             /\ paid[TenantKey(t)] \in Nat
             /\ \A r \in Requests : Unpaid(t)[r] \in Nat
  <2>1. TenantKey(t) \in Keys
    BY DEF Keys
  <2>2. paid[TenantKey(t)] \in Nat
    BY <2>1 DEF AccountingTypeOK, TypeOK
  <2> QED
    BY <1>1, <2>2 DEF AccountingTypeOK, Unpaid
<1> QED
  BY <1>1, <1>2, TotalNat

\* A request that is being booked does not move before its spend, and a
\* step that charges nothing leaves no scope with more.
LEMMA BudgetMoves ==
    ASSUME AccountingTypeOK, BookedInFlight, BudgetStep
    PROVE  /\ \A r \in Requests : book[r].step # "none" => req'[r] = req[r]
           /\ \A t \in Tenants : paid'[TenantKey(t)] <= paid[TenantKey(t)]
<1>1. req \in [Requests -> [pc : PCs, tenant : Tenants, model : Models,
                             kind : {"unary", "stream"}]]
  BY DEF AccountingTypeOK, TypeOK
<1>2. ASSUME NEW r \in Requests, book[r].step # "none"
      PROVE  req'[r] = req[r]
  <2>1. req[r].pc = "inflight"
    BY <1>2 DEF BookedInFlight
  <2> QED
    BY <1>1, <1>2, <2>1
       DEF BudgetStep, BudgetCheck, ChatCompletion, LeaveWithoutSpend, Goto, NextMonth
<1>3. ASSUME NEW t \in Tenants
      PROVE  paid'[TenantKey(t)] <= paid[TenantKey(t)]
  <2>1. TenantKey(t) \in Keys /\ paid[TenantKey(t)] \in Nat
    BY BookFields DEF Keys
  <2>2. CASE NextMonth
    BY <2>1, <2>2 DEF NextMonth
  <2>3. CASE ~NextMonth
    <3>1. paid' = paid
      BY <2>3 DEF BudgetStep, BudgetCheck, ChatCompletion, LeaveWithoutSpend
    <3> QED BY <2>1, <3>1
  <2> QED BY <2>2, <2>3
<1> QED BY <1>2, <1>3

\* What keeps the books, the requests being booked and the charges, keeps
\* the invariant.
LEMMA BooksKept ==
    ASSUME AccountingTypeOK, AccountingTypeOK', BooksInv,
           total' = total, byModel' = byModel, lock' = lock, book' = book,
           \A r \in Requests : book[r].step # "none" => req'[r] = req[r],
           \A t \in Tenants : paid'[TenantKey(t)] <= paid[TenantKey(t)]
    PROVE  BooksInv'
<1> USE DEF BooksInv
<1>1. BookedInFlight' /\ OneInAdd'
  BY DEF BookedInFlight, OneInAdd
<1>2. CountedByModel'
  <2>1. ASSUME NEW t \in Tenants PROVE HalfAdded(t)' = HalfAdded(t)
    BY DEF HalfAdded, OneInAdd
  <2> QED BY <2>1 DEF CountedByModel
<1>3. ChargedOnce'
  <2> SUFFICES ASSUME NEW t \in Tenants
               PROVE  paid'[TenantKey(t)] + Total(Unpaid(t)', Requests) <= total'[t].tokens
    BY DEF ChargedOnce
  <2>1. Unpaid(t)' = Unpaid(t)
    BY DEF Unpaid
  <2>2. /\ paid[TenantKey(t)] \in Nat /\ Total(Unpaid(t), Requests) \in Nat
        /\ total[t].tokens \in Nat
        /\ paid[TenantKey(t)] + Total(Unpaid(t), Requests) <= total[t].tokens
    BY BookFields DEF ChargedOnce
  <2>3. paid'[TenantKey(t)] \in Nat
    <3>1. TenantKey(t) \in Keys
      BY DEF Keys
    <3> QED BY <3>1 DEF AccountingTypeOK, TypeOK
  <2>4. paid'[TenantKey(t)] <= paid[TenantKey(t)]
    OBVIOUS
  <2> QED
    BY <2>1, <2>2, <2>3, <2>4
<1> QED BY <1>1, <1>2, <1>3

\* An answer: its tokens are in no book yet.
LEMMA AnsweredStep ==
    ASSUME AccountingTypeOK, AccountingTypeOK', BooksInv,
           NEW r \in Requests, NEW c \in 0 .. MaxCost, Answered(r, c)
    PROVE  BooksInv'
<1> USE DEF BooksInv
<1>1. /\ UNCHANGED <<acc, current, req, paid, total, byModel, lock>>
      /\ req[r].pc = "inflight" /\ book[r].step = "none"
      /\ book'[r].step = "totals" /\ book'[r].tokens = c
      /\ \A s \in Requests : s # r => book'[s] = book[s]
  BY DEF Answered, vars, AccountingTypeOK
<1>2. BookedInFlight' /\ OneInAdd'
  BY <1>1 DEF BookedInFlight, OneInAdd
<1>3. CountedByModel'
  BY <1>1 DEF CountedByModel, HalfAdded
<1>4. ASSUME NEW t \in Tenants PROVE Unpaid(t)' = Unpaid(t)
  BY <1>1 DEF Unpaid
<1>5. ChargedOnce'
  BY <1>1, <1>4 DEF ChargedOnce
<1> QED BY <1>2, <1>3, <1>5

\* The first half of Add puts the tokens in the usage, to be paid.
LEMMA AddTotalsStep ==
    ASSUME AccountingTypeOK, AccountingTypeOK', BooksInv,
           NEW r \in Requests, AddTotals(r)
    PROVE  BooksInv'
<1> USE DEF BooksInv
<1>3. PICK t \in Tenants : t = req[r].tenant
  BY BookFields
<1>1. /\ req' = req /\ paid' = paid /\ byModel' = byModel
      /\ book[r].step = "totals" /\ lock = {} /\ lock' = {r}
      /\ book'[r].step = "models" /\ book'[r].tokens = book[r].tokens
      /\ \A s \in Requests : s # r => book'[s] = book[s]
  BY DEF AddTotals, vars, AccountingTypeOK
<1>2. /\ total'[t].requests = total[t].requests + 1
      /\ total'[t].tokens = total[t].tokens + book[r].tokens
      /\ \A u \in Tenants : u # t => total'[u] = total[u]
  BY <1>3 DEF AddTotals, AccountingTypeOK
<1>4. BookedInFlight' /\ OneInAdd'
  BY <1>1 DEF BookedInFlight, OneInAdd
<1>5. CountedByModel'
  <2> SUFFICES ASSUME NEW u \in Tenants
               PROVE  total'[u].requests = Total(byModel[u], Models) + HalfAdded(u)'
    BY <1>1 DEF CountedByModel
  <2>1. HalfAdded(u) = 0 /\ HalfAdded(u)' = IF u = t THEN 1 ELSE 0
    BY <1>1, <1>3 DEF HalfAdded
  <2>2. Total(byModel[u], Models) \in Nat /\ total[u].requests \in Nat
    BY BookFields
  <2>3. total[u].requests = Total(byModel[u], Models) + 0
    BY <2>1 DEF CountedByModel
  <2> QED
    BY <1>2, <2>1, <2>2, <2>3
<1>6. ASSUME NEW u \in Tenants, u # t PROVE Unpaid(u)' = Unpaid(u)
  BY <1>1, <1>3, <1>6 DEF Unpaid
<1>7. Total(Unpaid(t)', Requests) = Total(Unpaid(t), Requests) + book[r].tokens
  <2>1. /\ Unpaid(t)[r] = 0 /\ Unpaid(t)'[r] = book[r].tokens
        /\ \A s \in Requests \ {r} : Unpaid(t)'[s] = Unpaid(t)[s]
    BY <1>1, <1>3 DEF Unpaid
  <2>2. /\ \A s \in Requests : Unpaid(t)[s] \in Int
        /\ IsFiniteSet(Requests) /\ book[r].tokens \in Int
    BY <1>3, BookFields
  <2> DEFINE g == Unpaid(t)'
             f == Unpaid(t)
  <2> HIDE DEF f, g
  <2>3. /\ f[r] = 0 /\ g[r] = book[r].tokens
        /\ \A s \in Requests \ {r} : g[s] = f[s]
        /\ \A s \in Requests : f[s] \in Int
    BY <2>1, <2>2 DEF f, g
  <2>4. Total(g, Requests) = Total(f, Requests) + g[r] - f[r]
    BY <2>2, <2>3, TotalUpdate
  <2>5. Total(f, Requests) \in Int
    BY <2>2, <2>3, TotalInt
  <2>6. Total(g, Requests) = Total(f, Requests) + book[r].tokens
    BY <2>2, <2>3, <2>4, <2>5
  <2> QED BY <2>6 DEF f, g
<1>8. ChargedOnce'
  <2> SUFFICES ASSUME NEW u \in Tenants
               PROVE  paid[TenantKey(u)] + Total(Unpaid(u)', Requests) <= total'[u].tokens
    BY <1>1 DEF ChargedOnce
  <2>1. /\ paid[TenantKey(u)] \in Nat /\ Total(Unpaid(u), Requests) \in Nat
        /\ total[u].tokens \in Nat /\ book[r].tokens \in Nat
        /\ paid[TenantKey(u)] + Total(Unpaid(u), Requests) <= total[u].tokens
    BY BookFields DEF ChargedOnce
  <2>2. CASE u = t
    BY <1>2, <1>7, <2>1, <2>2
  <2>3. CASE u # t
    BY <1>2, <1>6, <2>1, <2>3
  <2> QED BY <2>2, <2>3
<1> QED BY <1>4, <1>5, <1>8

\* The second half brings the models up to the total.
LEMMA AddModelStep ==
    ASSUME AccountingTypeOK, AccountingTypeOK', BooksInv,
           NEW r \in Requests, AddModel(r)
    PROVE  BooksInv'
<1> USE DEF BooksInv
<1> DEFINE t == req[r].tenant
           m == req[r].model
<1>0. t \in Tenants /\ m \in Models
  BY BookFields
<1>1. /\ req' = req /\ paid' = paid /\ total' = total
      /\ book[r].step = "models" /\ lock' = {}
      /\ book'[r].step = "spend" /\ book'[r].tokens = book[r].tokens
      /\ \A s \in Requests : s # r => book'[s] = book[s]
  BY DEF AddModel, vars, AccountingTypeOK
<1>2. /\ byModel'[t][m] = byModel[t][m] + 1
      /\ \A n \in Models \ {m} : byModel'[t][n] = byModel[t][n]
      /\ \A u \in Tenants : u # t => byModel'[u] = byModel[u]
  BY <1>0 DEF AddModel, AccountingTypeOK
<1>3. lock = {r}
  BY <1>1 DEF OneInAdd
<1>4. BookedInFlight' /\ OneInAdd'
  BY <1>1, <1>3 DEF BookedInFlight, OneInAdd
<1>5. CountedByModel'
  <2> SUFFICES ASSUME NEW u \in Tenants
               PROVE  total[u].requests = Total(byModel'[u], Models) + HalfAdded(u)'
    BY <1>1 DEF CountedByModel
  <2>1. HalfAdded(u)' = 0 /\ HalfAdded(u) = IF u = t THEN 1 ELSE 0
    BY <1>1, <1>3 DEF HalfAdded
  <2>2. Total(byModel[u], Models) \in Nat /\ total[u].requests \in Nat
        /\ \A n \in Models : byModel[u][n] \in Nat
        /\ IsFiniteSet(Models)
    BY BookFields
  <2>3. total[u].requests = Total(byModel[u], Models) + IF u = t THEN 1 ELSE 0
    BY <2>1 DEF CountedByModel
  <2>4. CASE u = t
    <3>1. Total(byModel'[t], Models)
            = Total(byModel[t], Models) + byModel'[t][m] - byModel[t][m]
      <4>1. \A n \in Models : byModel[t][n] \in Int
        BY <2>2, <2>4
      <4>2. byModel'[t][m] \in Int
        BY <1>0, <1>2, <4>1
      <4> HIDE DEF t, m
      <4> QED BY <1>0, <1>2, <2>2, <4>1, <4>2, TotalUpdate
    <3>2. byModel[t][m] \in Nat
      BY <1>0, <2>2, <2>4
    <3> QED BY <1>2, <2>1, <2>2, <2>3, <2>4, <3>1, <3>2
  <2>5. CASE u # t
    BY <1>2, <2>1, <2>2, <2>3, <2>5
  <2> QED BY <2>4, <2>5
<1>6. ASSUME NEW u \in Tenants PROVE Unpaid(u)' = Unpaid(u)
  <2>1. ASSUME NEW s \in Requests
        PROVE  /\ book'[s].step \in {"models", "spend"} <=> book[s].step \in {"models", "spend"}
               /\ book'[s].tokens = book[s].tokens
    BY <1>1
  <2> QED
    BY <1>1, <2>1 DEF Unpaid
<1>7. ChargedOnce'
  BY <1>1, <1>6 DEF ChargedOnce
<1> QED BY <1>4, <1>5, <1>7

\* The spend is charged once, and is then owed no more.
LEMMA SpendStep ==
    ASSUME AccountingTypeOK, AccountingTypeOK', BooksInv,
           NEW r \in Requests, Spend(r)
    PROVE  BooksInv'
<1> USE DEF BooksInv
<1>0. PICK t \in Tenants : t = req[r].tenant /\ book[r].tokens \in Nat
  BY BookFields
<1>1. /\ total' = total /\ byModel' = byModel /\ lock' = lock
      /\ book[r].step = "spend"
      /\ book'[r].step = "none"
      /\ \A s \in Requests : s # r => book'[s] = book[s]
  BY DEF Spend, AccountingTypeOK, NoTokens
<1>2. /\ req'[r].tenant = t /\ req'[r].pc = "done"
      /\ \A s \in Requests : s # r => req'[s] = req[s]
  BY <1>0 DEF Spend, RecordSpend, Goto, AccountingTypeOK, TypeOK
<1>3. /\ paid'[TenantKey(t)] = paid[TenantKey(t)] + book[r].tokens
      /\ \A u \in Tenants : u # t => paid'[TenantKey(u)] = paid[TenantKey(u)]
  <2>1. \A u \in Tenants : TenantKey(u) \in Keys
    BY DEF Keys
  <2>2. \A u \in Tenants : TenantKey(u) \in ScopesOf(r) <=> u = t
    BY <1>0 DEF ScopesOf, Scopes, Global, TenantKey, ModelKey
  <2> QED
    BY <1>0, <2>1, <2>2 DEF Spend, RecordSpend
<1>4. BookedInFlight' /\ OneInAdd'
  BY <1>1, <1>2 DEF BookedInFlight, OneInAdd
<1>5. CountedByModel'
  <2>1. ASSUME NEW u \in Tenants PROVE HalfAdded(u)' = HalfAdded(u)
    <3>1. r \notin lock
      BY <1>1 DEF OneInAdd
    <3> QED BY <1>1, <1>2, <3>1 DEF HalfAdded, AccountingTypeOK
  <2> QED BY <1>1, <2>1 DEF CountedByModel
<1>6. ASSUME NEW u \in Tenants, u # t PROVE Unpaid(u)' = Unpaid(u)
  BY <1>0, <1>1, <1>2, <1>6 DEF Unpaid
<1>7. Total(Unpaid(t)', Requests) = Total(Unpaid(t), Requests) - book[r].tokens
  <2>1. /\ Unpaid(t)[r] = book[r].tokens /\ Unpaid(t)'[r] = 0
        /\ \A s \in Requests \ {r} : Unpaid(t)'[s] = Unpaid(t)[s]
    BY <1>0, <1>1, <1>2 DEF Unpaid
  <2>2. /\ \A s \in Requests : Unpaid(t)[s] \in Int
        /\ IsFiniteSet(Requests) /\ book[r].tokens \in Int
    BY <1>0, BookFields
  <2> DEFINE g == Unpaid(t)'
             f == Unpaid(t)
  <2> HIDE DEF f, g
  <2>3. /\ g[r] = 0 /\ f[r] = book[r].tokens
        /\ \A s \in Requests \ {r} : g[s] = f[s]
        /\ \A s \in Requests : f[s] \in Int
    BY <2>1, <2>2 DEF f, g
  <2>4. Total(g, Requests) = Total(f, Requests) + g[r] - f[r]
    BY <2>2, <2>3, TotalUpdate
  <2>5. Total(f, Requests) \in Int
    BY <2>2, <2>3, TotalInt
  <2>6. Total(g, Requests) = Total(f, Requests) - book[r].tokens
    BY <2>2, <2>3, <2>4, <2>5
  <2> QED BY <2>6 DEF f, g
<1>8. ChargedOnce'
  <2> SUFFICES ASSUME NEW u \in Tenants
               PROVE  paid'[TenantKey(u)] + Total(Unpaid(u)', Requests) <= total[u].tokens
    BY <1>1 DEF ChargedOnce
  <2>1. /\ paid[TenantKey(u)] \in Nat /\ Total(Unpaid(u), Requests) \in Nat
        /\ total[u].tokens \in Nat /\ book[r].tokens \in Nat
        /\ paid[TenantKey(u)] + Total(Unpaid(u), Requests) <= total[u].tokens
    BY BookFields DEF ChargedOnce
  <2>2. CASE u = t
    BY <1>3, <1>7, <2>1, <2>2
  <2>3. CASE u # t
    BY <1>3, <1>6, <2>1, <2>3
  <2> QED BY <2>2, <2>3
<1> QED BY <1>4, <1>5, <1>8

\* Books that are all empty agree.
NothingBooked ==
    /\ total = NoTotals /\ byModel = NoModels /\ lock = {} /\ book = NoBooks
    /\ \A t \in Tenants : paid[TenantKey(t)] = 0

LEMMA EmptyBooks == NothingBooked => BooksInv
<1> SUFFICES ASSUME NothingBooked PROVE BooksInv
  OBVIOUS
<1> USE DEF NothingBooked
<1>0. IsFiniteSet(Models) /\ IsFiniteSet(Requests)
  BY BudgetAssumption, AccountingAssumption
<1>1. BookedInFlight /\ OneInAdd
  BY DEF BookedInFlight, OneInAdd, NoBooks, NoTokens
<1>2. CountedByModel
  <2> SUFFICES ASSUME NEW t \in Tenants
               PROVE  total[t].requests = Total(byModel[t], Models) + HalfAdded(t)
    BY DEF CountedByModel
  <2>1. \A m \in Models : byModel[t][m] = 0
    BY DEF NoModels
  <2>2. Total(byModel[t], Models) = 0
    BY <1>0, <2>1, TotalZero
  <2> QED BY <2>2 DEF NoTotals, HalfAdded
<1>3. ChargedOnce
  <2> SUFFICES ASSUME NEW t \in Tenants
               PROVE  paid[TenantKey(t)] + Total(Unpaid(t), Requests) <= total[t].tokens
    BY DEF ChargedOnce
  <2>1. \A r \in Requests : Unpaid(t)[r] = 0
    BY DEF Unpaid, NoBooks, NoTokens
  <2>2. Total(Unpaid(t), Requests) = 0
    BY <1>0, <2>1, TotalZero
  <2> QED BY <2>2 DEF NoTotals
<1> QED BY <1>1, <1>2, <1>3 DEF BooksInv

LEMMA BooksInvStep ==
    ASSUME AccountingTypeOK, AccountingTypeOK', BooksInv, [AccountingNext]_allVars
    PROVE  BooksInv'
<1>1. ASSUME NEW r \in Requests,
             (\E c \in 0 .. MaxCost : Answered(r, c)) \/ AddTotals(r)
                \/ AddModel(r) \/ Spend(r)
      PROVE  BooksInv'
  BY <1>1, AnsweredStep, AddTotalsStep, AddModelStep, SpendStep
<1>2. CASE RestartAll
  <2>1. NothingBooked'
    BY <1>2 DEF RestartAll, Restart, Keys, NothingBooked
  <2> QED BY <2>1, EmptyBooks, PTL
<1>3. ASSUME BudgetStep
      PROVE  BooksInv'
  BY <1>3, UsageKept, BudgetMoves, BooksKept DEF BooksInv
<1>4. ASSUME \/ \E t \in Tenants : GetAll(t)
             \/ EncodeTotals \/ EncodeEntries
             \/ \E m \in Models : EncodeModel(m)
             \/ UNCHANGED allVars
      PROVE  BooksInv'
  <2>1. req' = req /\ paid' = paid
    BY <1>4 DEF GetAll, EncodeTotals, EncodeEntries, EncodeModel, allVars, vars
  <2>2. \A t \in Tenants : paid[TenantKey(t)] <= paid[TenantKey(t)]
    BY BookFields
  <2> QED BY <1>4, <2>1, <2>2, UsageKept, BooksKept
<1> QED
  BY <1>1, <1>2, <1>3, <1>4 DEF AccountingNext

\* While the page is encoded the books only grow.
LEMMA PageKept ==
    ASSUME AccountingTypeOK, AccountingTypeOK', PageAhead, page' = page,
           \A t \in Tenants, m \in Models : byModel[t][m] <= byModel'[t][m]
    PROVE  PageAhead'
<1>1. /\ page.tenant \in Tenants /\ page.left \subseteq Models
      /\ page.requests \in Nat /\ page.listed \in Nat
  BY DEF AccountingTypeOK
<1>2. \A t \in Tenants, m \in Models : byModel[t][m] \in Nat /\ byModel'[t][m] \in Nat
  BY DEF AccountingTypeOK
<1>3. ASSUME NEW S \in SUBSET Models
      PROVE  /\ Total(byModel[page.tenant], S) \in Nat
             /\ Total(byModel'[page.tenant], S) \in Nat
             /\ Total(byModel[page.tenant], S) <= Total(byModel'[page.tenant], S)
  <2>1. IsFiniteSet(S)
    BY AccountingAssumption, FS_Subset
  <2>2. /\ \A m \in S : byModel[page.tenant][m] \in Nat
        /\ \A m \in S : byModel'[page.tenant][m] \in Nat
        /\ \A m \in S : /\ byModel[page.tenant][m] \in Int
                        /\ byModel'[page.tenant][m] \in Int
                        /\ byModel[page.tenant][m] <= byModel'[page.tenant][m]
    BY <1>1, <1>2
  <2> QED BY <2>1, <2>2, TotalNat, TotalLeq
<1>4. ASSUME page.pc = "list"
      PROVE  page.requests <= Total(byModel'[page.tenant], Models) + 1
  BY <1>1, <1>3, <1>4 DEF PageAhead
<1>5. ASSUME page.pc = "models"
      PROVE  page.requests
                <= page.listed + Total(byModel'[page.tenant], page.left) + 1
  <2>1. page.requests <= page.listed + Total(byModel[page.tenant], page.left) + 1
    BY <1>5 DEF PageAhead
  <2> QED BY <1>1, <1>3, <2>1
<1> QED
  BY <1>4, <1>5 DEF PageAhead

LEMMA PageStep ==
    ASSUME AccountingTypeOK, AccountingTypeOK', CountedByModel, PageAhead,
           [AccountingNext]_allVars
    PROVE  PageAhead'
<1>0. /\ page.tenant \in Tenants /\ page.left \subseteq Models
      /\ page.requests \in Nat /\ page.listed \in Nat
      /\ page \in [pc : {"idle", "totals", "list", "models"}, tenant : Tenants,
                 requests : Nat, left : SUBSET Models, listed : Nat]
      /\ IsFiniteSet(Models)
      /\ \A t \in Tenants, m \in Models : byModel[t][m] \in Nat
  BY AccountingAssumption DEF AccountingTypeOK
<1>1. ASSUME NEW t \in Tenants, GetAll(t)
      PROVE  page'.pc = "totals"
  BY <1>1 DEF GetAll, NoPage
<1>2. CASE RestartAll
  BY <1>2 DEF RestartAll, NoPage, PageAhead
<1>3. CASE EncodeTotals
  <2>1. /\ page'.pc = "list" /\ page'.tenant = page.tenant
        /\ page'.requests = total[page.tenant].requests
        /\ byModel' = byModel
    BY <1>0, <1>3 DEF EncodeTotals, usage
  <2>2. /\ total[page.tenant].requests
              = Total(byModel[page.tenant], Models) + HalfAdded(page.tenant)
        /\ Total(byModel[page.tenant], Models) \in Nat
    BY <1>0, BookFields DEF CountedByModel
  <2>3. HalfAdded(page.tenant) \in Nat /\ HalfAdded(page.tenant) <= 1
    BY DEF HalfAdded
  <2> QED BY <2>1, <2>2, <2>3 DEF PageAhead
<1>4. CASE EncodeEntries
  <2> DEFINE L == {m \in Models : byModel[page.tenant][m] > 0}
             b == byModel[page.tenant]
  <2>1. /\ page'.pc = "models" /\ page'.tenant = page.tenant /\ page'.left = L
        /\ page'.requests = page.requests /\ page'.listed = page.listed
        /\ byModel' = byModel /\ page.pc = "list"
    BY <1>0, <1>4 DEF EncodeEntries, usage
  <2>2. Total(b, Models) = Total(b, L) + Total(b, Models \ L)
    <3>1. IsFiniteSet(L) /\ IsFiniteSet(Models \ L) /\ L \cap (Models \ L) = {}
          /\ L \cup (Models \ L) = Models
      BY <1>0, FS_Subset
    <3>2. \A m \in (Models \ L) \cup L : b[m] \in Int
      BY <1>0
    <3> HIDE DEF L, b
    <3> QED BY <3>1, <3>2, TotalUnion
  <2>3. Total(b, Models \ L) = 0
    <3>1. IsFiniteSet(Models \ L)
      BY <1>0, FS_Subset
    <3>2. \A m \in Models \ L : b[m] = 0
      BY <1>0
    <3> HIDE DEF L, b
    <3> QED BY <3>1, <3>2, TotalZero
  <2>4. Total(b, L) \in Nat
    <3>1. IsFiniteSet(L) /\ \A m \in L : b[m] \in Nat
      BY <1>0, FS_Subset
    <3> HIDE DEF L, b
    <3> QED BY <3>1, TotalNat
  <2>5. page.requests <= Total(b, Models) + 1
    BY <2>1 DEF PageAhead
  <2>6. page.requests <= page.listed + Total(b, L) + 1
    <3> HIDE DEF L, b
    <3> QED BY <1>0, <2>2, <2>3, <2>4, <2>5
  <2> QED
    BY <2>1, <2>6 DEF PageAhead
<1>5. ASSUME NEW m \in Models, EncodeModel(m)
      PROVE  PageAhead'
  <2> DEFINE b == byModel[page.tenant]
  <2>1. /\ page'.pc = "models" /\ page'.tenant = page.tenant
        /\ page'.left = page.left \ {m} /\ m \in page.left
        /\ page'.requests = page.requests
        /\ page'.listed = page.listed + b[m]
        /\ byModel' = byModel /\ page.pc = "models"
    BY <1>0, <1>5 DEF EncodeModel, usage
  <2>2. /\ IsFiniteSet(page.left) /\ IsFiniteSet(page.left \ {m})
        /\ \A n \in page.left : b[n] \in Nat
    BY <1>0, FS_Subset
  <2>3. Total(b, page.left) = b[m] + Total(b, page.left \ {m})
    <3> HIDE DEF b
    <3>1. \A n \in page.left : b[n] \in Int
      BY <2>2
    <3> QED BY <2>1, <2>2, <3>1, TotalSplit
  <2>4. Total(b, page.left \ {m}) \in Nat
    <3> HIDE DEF b
    <3> QED BY <2>2, TotalNat
  <2>5. page.requests <= page.listed + Total(b, page.left) + 1
    BY <2>1 DEF PageAhead
  <2>6. page.requests <= (page.listed + b[m]) + Total(b, page.left \ {m}) + 1
    <3> HIDE DEF b
    <3> QED BY <1>0, <2>1, <2>2, <2>3, <2>4, <2>5
  <2> QED
    BY <2>1, <2>6 DEF PageAhead
<1>6. ASSUME NEW r \in Requests, AddModel(r)
      PROVE  PageAhead'
  <2>1. req[r].tenant \in Tenants /\ req[r].model \in Models
    BY BookFields
  <2>2. ASSUME NEW t \in Tenants, NEW m \in Models
        PROVE  byModel'[t][m] = byModel[t][m] \/ byModel'[t][m] = byModel[t][m] + 1
    BY <1>6, <2>1 DEF AddModel, AccountingTypeOK
  <2>3. \A t \in Tenants, m \in Models : byModel[t][m] <= byModel'[t][m]
    BY <1>0, <2>2
  <2>4. page' = page
    BY <1>6 DEF AddModel
  <2> QED BY <2>3, <2>4, PageKept
<1>7. ASSUME \/ BudgetStep
             \/ \E r \in Requests : \/ \E c \in 0 .. MaxCost : Answered(r, c)
                                    \/ AddTotals(r) \/ Spend(r)
             \/ UNCHANGED allVars
      PROVE  PageAhead'
  <2>1. page' = page /\ byModel' = byModel
    BY <1>7 DEF BudgetStep, Answered, AddTotals, Spend, usage, allVars
  <2>2. \A t \in Tenants, m \in Models : byModel[t][m] <= byModel[t][m]
    BY <1>0
  <2> QED BY <2>1, <2>2, PageKept
<1>8. ASSUME NEW t \in Tenants, GetAll(t)
      PROVE  PageAhead'
  BY <1>1, <1>8 DEF PageAhead
<1> QED
  BY <1>2, <1>3, <1>4, <1>5, <1>6, <1>7, <1>8 DEF AccountingNext

LEMMA AccountingInvInit ==
    ASSUME AccountingInit
    PROVE  AccountingInv
<1>1. TypeOK /\ \A t \in Tenants : paid[TenantKey(t)] = 0
  <2>1. TypeOK
    BY DEF AccountingInit, Init, TypeOK, PCs
  <2>2. \A t \in Tenants : TenantKey(t) \in Keys
    BY DEF Keys
  <2> QED BY <2>1, <2>2 DEF AccountingInit, Init
<1>2. BooksInv
  BY <1>1, EmptyBooks DEF AccountingInit, NothingBooked
<1>3. page.pc = "idle" /\ PageAhead
  BY DEF AccountingInit, NoPage, PageAhead
<1>4. AccountingTypeOK
  <2>1. total \in [Tenants -> [requests : Nat, tokens : Nat]]
    BY DEF AccountingInit, NoTotals
  <2>2. byModel \in [Tenants -> [Models -> Nat]] /\ lock \subseteq Requests
    BY DEF AccountingInit, NoModels
  <2>3. book \in Books
    BY BudgetAssumption DEF AccountingInit, NoBooks, NoTokens, Books, Steps
  <2>4. page \in [pc : {"idle", "totals", "list", "models"}, tenant : Tenants,
                 requests : Nat, left : SUBSET Models, listed : Nat]
    <3>1. (CHOOSE t \in Tenants : TRUE) \in Tenants
      BY AccountingAssumption
    <3>2. page = NoPage
      BY DEF AccountingInit
    <3> QED BY <3>1, <3>2 DEF NoPage
  <2> QED BY <1>1, <2>1, <2>2, <2>3, <2>4 DEF AccountingTypeOK, Books, Steps
<1> QED BY <1>2, <1>3, <1>4 DEF AccountingInv, BooksInv

\* The inductive invariant of the books: an answer is in at most one half of
\* Store.Add, its tokens are in the usage before they are charged, and the
\* page is at most one request ahead of what it still reads.
THEOREM AccountingInvariant == AccountingSpec => []AccountingInv
<1>1. AccountingInit => AccountingInv
  BY AccountingInvInit
<1>2. ASSUME AccountingInv, [AccountingNext]_allVars
      PROVE  AccountingInv'
  <2>1. AccountingTypeOK'
    BY <1>2, AccountingTypeStep DEF AccountingInv
  <2>2. BooksInv'
    BY <1>2, <2>1, BooksInvStep DEF AccountingInv, BooksInv
  <2>3. PageAhead'
    BY <1>2, <2>1, PageStep DEF AccountingInv
  <2> QED BY <2>1, <2>2, <2>3 DEF AccountingInv, BooksInv
<1> QED
  BY <1>1, <1>2, PTL DEF AccountingSpec

\* Counters, books and page always have the shape of the store's, the
\* handlers' and the encoder's state.
THEOREM AccountingTypes == AccountingSpec => []AccountingTypeOK
<1>1. AccountingInv => AccountingTypeOK
  BY DEF AccountingInv
<1> QED BY <1>1, AccountingInvariant, PTL

\* A usage page shows at most one request in a tenant's total that it does
\* not show under a model, however many are booked while it is encoded.
THEOREM AccountingPage == AccountingSpec => []UsagePageOffByOne
<1>1. AccountingInv => UsagePageOffByOne
  <2> SUFFICES ASSUME AccountingInv, page.pc = "models", page.left = {}
               PROVE  page.requests <= page.listed + 1
    BY DEF UsagePageOffByOne
  <2>1. page.requests <= page.listed + Total(byModel[page.tenant], {}) + 1
    BY DEF AccountingInv, PageAhead
  <2>2. page.listed \in Nat /\ Total(byModel[page.tenant], {}) = 0
    BY TotalEmpty DEF AccountingInv, AccountingTypeOK
  <2> QED BY <2>1, <2>2
<1> QED BY <1>1, AccountingInvariant, PTL

\* A tenant is never charged this month for tokens its usage has not got.
THEOREM AccountingLedgerWithinUsage == AccountingSpec => []LedgerWithinUsage
<1>1. AccountingInv => LedgerWithinUsage
  <2> SUFFICES ASSUME AccountingInv, NEW t \in Tenants
               PROVE  paid[TenantKey(t)] <= total[t].tokens
    BY DEF LedgerWithinUsage
  <2>1. /\ paid[TenantKey(t)] \in Nat /\ total[t].tokens \in Nat
        /\ Total(Unpaid(t), Requests) \in Nat
        /\ paid[TenantKey(t)] + Total(Unpaid(t), Requests) <= total[t].tokens
    BY BookFields DEF AccountingInv, ChargedOnce
  <2> QED BY <2>1
<1> QED BY <1>1, AccountingInvariant, PTL

-----------------------------------------------------------------------------
(* The metrics and alerts kept of the same answers (module Analytics), for   *)
(* every number of handlers, series, buckets and minutes.                    *)

\* What a series holds for minute t, bucket by bucket.
Weights(s, t) == [i \in 1 .. Len(s) |-> InMinute(s[i], t)]

LEMMA BucketCounts ==
    ASSUME NEW b \in BucketType, NEW t
    PROVE  InMinute(b, t) \in Nat /\ b.reqs \in Nat /\ b.reqs >= 1
BY DEF InMinute, BucketType

LEMMA WeightsType ==
    ASSUME NEW s \in Seq(BucketType), NEW t
    PROVE  /\ \A i \in 1 .. Len(s) :
                 Weights(s, t)[i] \in Nat /\ Weights(s, t)[i] = InMinute(s[i], t)
           /\ IsFiniteSet(1 .. Len(s)) /\ Len(s) \in Nat
           /\ HeldBy(s, t) = Total(Weights(s, t), 1 .. Len(s))
           /\ HeldBy(s, t) \in Nat
<1>1. Len(s) \in Nat /\ \A i \in 1 .. Len(s) : s[i] \in BucketType
  OBVIOUS
<1>2. \A i \in 1 .. Len(s) :
         Weights(s, t)[i] \in Nat /\ Weights(s, t)[i] = InMinute(s[i], t)
  BY <1>1, BucketCounts DEF Weights
<1>3. IsFiniteSet(1 .. Len(s))
  BY <1>1, FS_Interval
<1>4. HeldBy(s, t) = Total(Weights(s, t), 1 .. Len(s))
  BY DEF HeldBy, Weights
<1>5. Total(Weights(s, t), 1 .. Len(s)) \in Nat
  BY <1>2, <1>3, TotalNat
<1> QED BY <1>1, <1>2, <1>3, <1>4, <1>5

LEMMA HeldOfNone ==
    ASSUME NEW t
    PROVE  HeldBy(<<>>, t) = 0
<1>1. 1 .. Len(<<>>) = {}
  OBVIOUS
<1> QED BY <1>1, TotalEmpty DEF HeldBy

\* Each bucket is part of what is held.
LEMMA HeldOfOne ==
    ASSUME NEW s \in Seq(BucketType), NEW t, NEW i \in 1 .. Len(s)
    PROVE  InMinute(s[i], t) <= HeldBy(s, t)
<1> DEFINE S == 1 .. Len(s)
           w == Weights(s, t)
<1>1. /\ \A j \in S : w[j] \in Nat /\ w[j] = InMinute(s[j], t)
      /\ IsFiniteSet(S) /\ HeldBy(s, t) = Total(w, S)
  BY WeightsType
<1>2. IsFiniteSet(S \ {i}) /\ \A j \in S \ {i} : w[j] \in Nat
  BY <1>1, FS_Subset
<1> HIDE DEF S, w
<1>3. Total(w, S) = w[i] + Total(w, S \ {i})
  BY <1>1, TotalSplit DEF S
<1>4. Total(w, S \ {i}) \in Nat
  BY <1>2, TotalNat
<1>5. w[i] \in Nat /\ w[i] = InMinute(s[i], t)
  BY <1>1 DEF S
<1> QED BY <1>1, <1>3, <1>4, <1>5

LEMMA HeldOfAppend ==
    ASSUME NEW s \in Seq(BucketType), NEW b \in BucketType, NEW t
    PROVE  HeldBy(Append(s, b), t) = HeldBy(s, t) + InMinute(b, t)
<1>0. Append(s, b) \in Seq(BucketType)
  OBVIOUS
<1>1. PICK u \in Seq(BucketType) : u = Append(s, b)
  BY <1>0, Zenon
<1>2. PICK n \in Nat : n = Len(s)
  OBVIOUS
<1>3. /\ Len(u) = n + 1 /\ u[n + 1] = b /\ \A i \in 1 .. n : u[i] = s[i]
      /\ 1 .. n + 1 = (1 .. n) \cup {n + 1} /\ n + 1 \notin 1 .. n
  BY <1>1, <1>2
<1> DEFINE S == 1 .. n
           w == Weights(s, t)
           v == Weights(u, t)
<1>4. /\ \A j \in S : w[j] \in Nat /\ w[j] = InMinute(s[j], t)
      /\ IsFiniteSet(S) /\ HeldBy(s, t) = Total(w, S) /\ HeldBy(s, t) \in Nat
  BY <1>2, WeightsType
<1>5. /\ \A j \in 1 .. n + 1 : v[j] \in Nat /\ v[j] = InMinute(u[j], t)
      /\ HeldBy(u, t) = Total(v, 1 .. n + 1)
  BY <1>3, WeightsType
<1>6. /\ \A j \in S \cup {n + 1} : v[j] \in Int
      /\ \A j \in S : w[j] \in Int /\ v[j] = w[j]
      /\ v[n + 1] = InMinute(b, t) /\ n + 1 \notin S
      /\ InMinute(b, t) \in Nat
  BY <1>3, <1>4, <1>5
<1> HIDE DEF S, w, v
<1>7. Total(v, S \cup {n + 1}) = v[n + 1] + Total(v, S)
  BY <1>4, <1>6, TotalAdd
<1>8. Total(v, S) = Total(w, S)
  BY <1>4, <1>6, TotalAgree
<1>9. S \cup {n + 1} = 1 .. n + 1
  BY <1>3 DEF S
<1>10. HeldBy(u, t) = v[n + 1] + Total(v, S)
  BY <1>5, <1>7, <1>9, Zenon
<1> QED BY <1>1, <1>4, <1>6, <1>8, <1>10

LEMMA HeldOfChanged ==
    ASSUME NEW s \in Seq(BucketType), NEW i \in 1 .. Len(s),
           NEW b \in BucketType, NEW t
    PROVE  HeldBy([s EXCEPT ![i] = b], t)
              = HeldBy(s, t) + InMinute(b, t) - InMinute(s[i], t)
<1>0. [s EXCEPT ![i] = b] \in Seq(BucketType)
  OBVIOUS
<1>1. PICK u \in Seq(BucketType) : u = [s EXCEPT ![i] = b]
  BY <1>0, Zenon
<1>2. Len(u) = Len(s) /\ u[i] = b /\ \A j \in 1 .. Len(s) : j # i => u[j] = s[j]
  BY <1>1
<1> DEFINE S == 1 .. Len(s)
           w == Weights(s, t)
           v == Weights(u, t)
<1>3. /\ \A j \in S : w[j] \in Nat /\ w[j] = InMinute(s[j], t)
      /\ IsFiniteSet(S) /\ HeldBy(s, t) = Total(w, S)
  BY WeightsType
<1>4. /\ \A j \in S : v[j] \in Nat /\ v[j] = InMinute(u[j], t)
      /\ HeldBy(u, t) = Total(v, S)
  BY <1>2, WeightsType
<1>5. /\ \A j \in S : w[j] \in Int
      /\ v[i] \in Int /\ \A j \in S \ {i} : v[j] = w[j]
      /\ v[i] = InMinute(b, t) /\ w[i] = InMinute(s[i], t) /\ i \in S
  BY <1>2, <1>3, <1>4
<1> HIDE DEF S, w, v
<1>6. Total(v, S) = Total(w, S) + v[i] - w[i]
  BY <1>3, <1>5, TotalUpdate
<1> QED BY <1>1, <1>3, <1>4, <1>5, <1>6

\* Dropping the oldest bucket drops what it held.
LEMMA HeldOfTail ==
    ASSUME NEW s \in Seq(BucketType), s # <<>>, NEW t
    PROVE  HeldBy(s, t) = InMinute(s[1], t) + HeldBy(Tail(s), t)
<1>0. Tail(s) \in Seq(BucketType)
  OBVIOUS
<1>1. PICK u \in Seq(BucketType) : u = Tail(s)
  BY <1>0, Zenon
<1>2. PICK n \in Nat : n = Len(u)
  OBVIOUS
<1>3. Len(s) = n + 1 /\ \A i \in 1 .. n : u[i] = s[i + 1]
  BY <1>1, <1>2
<1> DEFINE w == Weights(s, t)
           v == Weights(u, t)
<1>4. /\ \A j \in 1 .. n + 1 : w[j] \in Nat /\ w[j] = InMinute(s[j], t)
      /\ IsFiniteSet(1 .. n + 1) /\ HeldBy(s, t) = Total(w, 1 .. n + 1)
  BY <1>3, WeightsType
<1>5. /\ \A j \in 1 .. n : v[j] \in Nat /\ v[j] = InMinute(u[j], t)
      /\ HeldBy(u, t) = Total(v, 1 .. n)
  BY <1>2, WeightsType
<1>6. \A j \in 1 .. n : v[j] = w[j + 1]
  BY <1>3, <1>4, <1>5
<1> HIDE DEF w, v
<1> DEFINE N == {k \in Nat : k <= n => Total(w, 1 .. k + 1) = w[1] + Total(v, 1 .. k)}
<1>7. 0 \in N
  <2>1. 1 .. 0 + 1 = {1} /\ 1 .. 0 = {} /\ {1} \ {1} = {}
    OBVIOUS
  <2>2. Total(w, {1}) = w[1] + Total(w, {})
    <3>0. 1 \in 1 .. n + 1
      OBVIOUS
    <3>1. IsFiniteSet({1}) /\ \A x \in {1} : w[x] \in Int
      <4>1. w[1] \in Nat
        BY <1>4, <3>0
      <4>2. \A x \in {1} : w[x] \in Int
        BY <4>1
      <4> QED BY <4>2, FS_Singleton
    <3> QED BY <2>1, <3>1, TotalSplit
  <2> QED BY <2>1, <2>2, TotalEmpty
<1>8. ASSUME NEW k \in Nat, k \in N PROVE k + 1 \in N
  <2> SUFFICES ASSUME k + 1 <= n
               PROVE  Total(w, 1 .. (k + 1) + 1) = w[1] + Total(v, 1 .. k + 1)
    OBVIOUS
  <2>1. /\ 1 .. (k + 1) + 1 = (1 .. k + 1) \cup {k + 2} /\ k + 2 \notin 1 .. k + 1
        /\ 1 .. k + 1 = (1 .. k) \cup {k + 1} /\ k + 1 \notin 1 .. k
    OBVIOUS
  <2>2. IsFiniteSet(1 .. k) /\ IsFiniteSet(1 .. k + 1)
    BY FS_Interval
  <2>3. /\ \A y \in (1 .. k + 1) \cup {k + 2} : w[y] \in Int
        /\ \A y \in (1 .. k) \cup {k + 1} : v[y] \in Int
    BY <1>2, <1>4, <1>5
  <2>4. Total(w, (1 .. k + 1) \cup {k + 2}) = w[k + 2] + Total(w, 1 .. k + 1)
    BY <2>1, <2>2, <2>3, TotalAdd
  <2>5. Total(v, (1 .. k) \cup {k + 1}) = v[k + 1] + Total(v, 1 .. k)
    BY <2>1, <2>2, <2>3, TotalAdd
  <2>6. v[k + 1] = w[k + 2]
    <3>1. k + 1 \in 1 .. n /\ (k + 1) + 1 = k + 2
      BY <1>2
    <3> QED BY <1>6, <3>1
  <2>7. Total(w, 1 .. k + 1) = w[1] + Total(v, 1 .. k)
    BY <1>2, <1>8
  <2>8. Total(v, 1 .. k) \in Int /\ w[1] \in Int /\ v[k + 1] \in Int
    <3>1. \A y \in 1 .. k : v[y] \in Int
      BY <2>3
    <3>2. 1 \in 1 .. n + 1 /\ k + 1 \in 1 .. n
      BY <1>2
    <3> QED BY <1>4, <1>5, <2>2, <3>1, <3>2, TotalInt
  <2>9. /\ Total(w, 1 .. (k + 1) + 1) = w[k + 2] + Total(w, 1 .. k + 1)
        /\ Total(v, 1 .. k + 1) = v[k + 1] + Total(v, 1 .. k)
    BY <2>1, <2>4, <2>5, Zenon
  <2> QED BY <2>6, <2>7, <2>8, <2>9
<1> HIDE DEF N
<1>9. \A k \in Nat : k \in N
  BY <1>7, <1>8, NatSetInduction
<1>10. Total(w, 1 .. n + 1) = w[1] + Total(v, 1 .. n)
  BY <1>9 DEF N
<1>11. w[1] = InMinute(s[1], t)
  BY <1>4
<1> QED BY <1>1, <1>4, <1>5, <1>10, <1>11

-----------------------------------------------------------------------------
(* Collector *)

\* The steps that leave the series alone, and those that leave the alerts alone.
LEMMA SeriesSame ==
    ASSUME AnalyticsInv, clock' \in 0 .. MaxTime, series' = series, point' = point
    PROVE  SeriesTypes' /\ PointsCounted'
BY DEF AnalyticsInv, SeriesTypes, PointsCounted, Held, RecordedIn

LEMMA AlertsSame ==
    ASSUME AnalyticsInv, UNCHANGED <<result, alerts, seen>>
    PROVE  AlertTypes' /\ AlertsKept' /\ AcknowledgedWasSeen'
BY DEF AnalyticsInv, AlertTypes, AlertsKept, AcknowledgedWasSeen, alerts

\* A point makes a bucket, or goes into one, of its own minute.
LEMMA BucketOfPoint ==
    ASSUME SeriesTypes, NEW h \in Handlers
    PROVE  /\ NewBucket(h) \in BucketType
           /\ NewBucket(h).min = point[h].min
           /\ NewBucket(h).reqs = 1 /\ NewBucket(h).errs <= 1
           /\ \A b \in BucketType :
                 /\ Joined(b, h) \in BucketType
                 /\ Joined(b, h).min = b.min
                 /\ Joined(b, h).reqs = b.reqs + 1
                 /\ b.errs <= b.reqs => Joined(b, h).errs <= Joined(b, h).reqs
<1>1. PICK p \in [err : BOOLEAN, lat : Latencies] : p = Point[h]
  BY AnalyticsAssumption DEF AnalyticsAssumption
<1>2. PICK e \in {0, 1} : e = Failed(h)
  BY DEF Failed
<1>3. PICK l \in Latencies : l = Point[h].lat
  BY <1>1
<1>4. PICK t \in 0 .. MaxTime : t = point[h].min
  BY DEF SeriesTypes
<1>5. /\ NewBucket(h) \in BucketType
      /\ NewBucket(h).min = point[h].min
      /\ NewBucket(h).reqs = 1 /\ NewBucket(h).errs <= 1
  <2>1. PICK f \in [Latencies -> Nat] : f = [v \in Latencies |-> IF v = l THEN 1 ELSE 0]
    <3>1. [v \in Latencies |-> IF v = l THEN 1 ELSE 0] \in [Latencies -> Nat]
      OBVIOUS
    <3> QED BY <3>1, Zenon
  <2>2. NewBucket(h) = [min |-> t, reqs |-> 1, errs |-> e, lats |-> f]
    BY <1>2, <1>3, <1>4, <2>1 DEF NewBucket
  <2>3. [min |-> t, reqs |-> 1, errs |-> e, lats |-> f] \in BucketType
    BY DEF BucketType
  <2> QED BY <1>4, <2>2, <2>3
<1>6. ASSUME NEW b \in BucketType
      PROVE  /\ Joined(b, h) \in BucketType
             /\ Joined(b, h).min = b.min
             /\ Joined(b, h).reqs = b.reqs + 1
             /\ b.errs <= b.reqs => Joined(b, h).errs <= Joined(b, h).reqs
  <2>1. /\ b.reqs \in Nat /\ b.errs \in Nat /\ b.lats \in [Latencies -> Nat]
    BY DEF BucketType
  <2>2. PICK f \in [Latencies -> Nat] : f = [b.lats EXCEPT ![l] = b.lats[l] + 1]
    <3>1. [b.lats EXCEPT ![l] = b.lats[l] + 1] \in [Latencies -> Nat]
      BY <2>1
    <3> QED BY <3>1, Zenon
  <2>3. PICK n \in Nat \ {0} : n = b.reqs + 1
    BY <2>1
  <2>4. PICK m \in Nat : m = b.errs + e
    BY <2>1
  <2> DEFINE y == [b EXCEPT !.reqs = n, !.errs = m, !.lats = f]
  <2>5. Joined(b, h) = y
    <3>1. Joined(b, h) = [b EXCEPT !.reqs = b.reqs + 1, !.errs = b.errs + Failed(h),
                                !.lats = [b.lats EXCEPT ![Point[h].lat] = b.lats[Point[h].lat] + 1]]
      BY DEF Joined, BucketType
    <3> QED BY <1>2, <1>3, <2>2, <2>3, <2>4, <3>1, Zenon
  <2>6. y \in BucketType
    BY DEF BucketType
  <2>7. y.min = b.min /\ y.reqs = n /\ y.errs = m
    BY DEF BucketType
  <2> HIDE DEF y
  <2> QED BY <1>2, <2>1, <2>3, <2>4, <2>5, <2>6, <2>7
<1> QED BY <1>5, <1>6

\* What a point adds to minute t of a series.
Mine(h, t) == IF t = point[h].min THEN 1 ELSE 0

\* A series that takes a point keeps its length and holds it in its minute;
\* only a full one may hold less than before.
LEMMA AddedHolds ==
    ASSUME SeriesTypes, NEW h \in Handlers,
           NEW s \in Seq(BucketType), Len(s) <= Size,
           \A i \in 1 .. Len(s) : s[i].errs <= s[i].reqs
    PROVE  /\ Added(s, h) \in Seq(BucketType)
           /\ Len(Added(s, h)) <= Size
           /\ Len(Added(s, h)) < Size => Len(s) < Size
           /\ \A i \in 1 .. Len(Added(s, h)) :
                 Added(s, h)[i].errs <= Added(s, h)[i].reqs
           /\ \A t : /\ HeldBy(Added(s, h), t) <= HeldBy(s, t) + Mine(h, t)
                     /\ Len(Added(s, h)) < Size =>
                           HeldBy(Added(s, h), t) = HeldBy(s, t) + Mine(h, t)
<1>0. Size \in Nat /\ Size >= 1
  BY AnalyticsAssumption DEF AnalyticsAssumption
<1>1. CASE s # <<>> /\ s[Len(s)].min = point[h].min
  <2>1. PICK n \in 1 .. Len(s) : n = Len(s)
    BY <1>1
  <2>2. PICK b \in BucketType : b = s[n]
    OBVIOUS
  <2>3. PICK c \in BucketType :
          /\ c = Joined(b, h) /\ c.min = b.min /\ c.reqs = b.reqs + 1
          /\ b.errs <= b.reqs => c.errs <= c.reqs
    BY BucketOfPoint
  <2>4. Added(s, h) = [s EXCEPT ![n] = c]
    BY <1>1, <2>1, <2>2, <2>3 DEF Added
  <2>5. PICK u \in Seq(BucketType) : u = [s EXCEPT ![n] = c]
    <3>1. [s EXCEPT ![n] = c] \in Seq(BucketType)
      OBVIOUS
    <3> QED BY <3>1, Zenon
  <2>6. Len(u) = Len(s) /\ u[n] = c /\ \A i \in 1 .. Len(s) : i # n => u[i] = s[i]
    BY <2>5
  <2>7. \A i \in 1 .. Len(u) : u[i].errs <= u[i].reqs
    BY <2>2, <2>3, <2>6
  <2>8. ASSUME NEW t PROVE HeldBy(u, t) = HeldBy(s, t) + Mine(h, t)
    <3>0. HeldBy([s EXCEPT ![n] = c], t)
             = HeldBy(s, t) + InMinute(c, t) - InMinute(s[n], t)
      BY HeldOfChanged
    <3>1. HeldBy(u, t) = HeldBy(s, t) + InMinute(c, t) - InMinute(b, t)
      BY <2>2, <2>5, <3>0, Zenon
    <3>2. InMinute(c, t) = InMinute(b, t) + Mine(h, t)
      BY <1>1, <2>1, <2>2, <2>3, BucketCounts DEF InMinute, Mine
    <3>3. HeldBy(s, t) \in Nat /\ InMinute(b, t) \in Nat /\ Mine(h, t) \in Nat
      BY WeightsType, BucketCounts DEF Mine
    <3> QED BY <3>1, <3>2, <3>3
  <2>9. ASSUME NEW t PROVE HeldBy(u, t) <= HeldBy(s, t) + Mine(h, t)
    <3>1. HeldBy(u, t) \in Int
      BY WeightsType
    <3> QED BY <2>8, <3>1
  <2>10. Added(s, h) = u /\ Len(u) <= Size /\ (Len(u) < Size => Len(s) < Size)
    BY <2>4, <2>5, <2>6
  <2> QED BY <2>7, <2>8, <2>9, <2>10
<1>2. CASE ~(s # <<>> /\ s[Len(s)].min = point[h].min)
  <2>1. PICK b \in BucketType :
          b = NewBucket(h) /\ b.min = point[h].min /\ b.reqs = 1 /\ b.errs <= 1
    BY BucketOfPoint
  <2>2. \A t : InMinute(b, t) = Mine(h, t) /\ Mine(h, t) \in Nat
    BY <2>1 DEF InMinute, Mine
  <2>3. PICK u \in Seq(BucketType) :
          /\ Added(s, h) = Append(u, b) /\ Len(u) < Size
          /\ \A i \in 1 .. Len(u) : u[i].errs <= u[i].reqs
          /\ \A t : HeldBy(u, t) <= HeldBy(s, t)
          /\ Len(u) + 1 < Size => u = s
    <3>1. CASE Len(s) = Size
      <4>1. s # <<>>
        BY <1>0, <3>1
      <4>2. PICK u \in Seq(BucketType) : u = Tail(s)
        <5>1. Tail(s) \in Seq(BucketType)
          BY <4>1
        <5> QED BY <5>1, Zenon
      <4>3. Len(u) = Len(s) - 1 /\ \A i \in 1 .. Len(u) : u[i] = s[i + 1]
        BY <4>1, <4>2
      <4>4. \A i \in 1 .. Len(u) : u[i].errs <= u[i].reqs
        <5> TAKE i \in 1 .. Len(u)
        <5>1. i + 1 \in 1 .. Len(s)
          BY <4>3
        <5> QED BY <4>3, <5>1
      <4>5. ASSUME NEW t PROVE HeldBy(u, t) <= HeldBy(s, t)
        <5>1. HeldBy(s, t) = InMinute(s[1], t) + HeldBy(u, t)
          BY <4>1, <4>2, HeldOfTail
        <5>2. s[1] \in BucketType
          BY <4>1
        <5>3. InMinute(s[1], t) \in Nat /\ HeldBy(u, t) \in Nat
          BY <5>2, BucketCounts, WeightsType
        <5> QED BY <5>1, <5>3
      <4>6. Added(s, h) = Append(u, b)
        BY <1>2, <2>1, <3>1, <4>2 DEF Added
      <4>7. Len(u) < Size /\ ~(Len(u) + 1 < Size)
        BY <1>0, <3>1, <4>3
      <4> QED BY <4>4, <4>5, <4>6, <4>7
    <3>2. CASE Len(s) # Size
      <4>1. Added(s, h) = Append(s, b)
        BY <1>2, <2>1, <3>2 DEF Added
      <4>2. Len(s) < Size
        BY <1>0, <3>2
      <4>3. \A t : HeldBy(s, t) <= HeldBy(s, t)
        BY WeightsType
      <4> QED BY <4>1, <4>2, <4>3
    <3> QED BY <3>1, <3>2
  <2>4. PICK v \in Seq(BucketType) : v = Append(u, b)
    <3>1. Append(u, b) \in Seq(BucketType)
      OBVIOUS
    <3> QED BY <3>1, Zenon
  <2>5. /\ Len(v) = Len(u) + 1 /\ v[Len(v)] = b /\ Len(u) \in Nat
        /\ \A i \in 1 .. Len(u) : v[i] = u[i]
    BY <2>4
  <2>6. Len(v) <= Size
    BY <1>0, <2>3, <2>5
  <2>7. \A i \in 1 .. Len(v) : v[i].errs <= v[i].reqs
    <3> TAKE i \in 1 .. Len(v)
    <3>1. CASE i = Len(v)
      BY <2>1, <2>5, <3>1
    <3>2. CASE i # Len(v)
      <4>1. i \in 1 .. Len(u)
        BY <2>5, <3>2
      <4> QED BY <2>3, <2>5, <4>1
    <3> QED BY <3>1, <3>2
  <2>8. ASSUME NEW t
        PROVE  /\ HeldBy(v, t) <= HeldBy(s, t) + Mine(h, t)
               /\ Len(v) < Size => HeldBy(v, t) = HeldBy(s, t) + Mine(h, t)
    <3>1. HeldBy(v, t) = HeldBy(u, t) + Mine(h, t)
      BY <2>2, <2>4, HeldOfAppend
    <3>2. HeldBy(u, t) \in Nat /\ HeldBy(s, t) \in Nat /\ Mine(h, t) \in Nat
      BY <2>2, WeightsType
    <3>3. HeldBy(u, t) <= HeldBy(s, t)
      BY <2>3
    <3>4. Len(v) < Size => u = s
      BY <2>3, <2>5
    <3> QED BY <3>1, <3>2, <3>3, <3>4
  <2>9. Len(v) < Size => Len(s) < Size
    <3>1. Len(v) < Size => u = s
      BY <2>3, <2>5
    <3> QED BY <2>3, <3>1
  <2> QED BY <2>3, <2>4, <2>6, <2>7, <2>8, <2>9
<1> QED BY <1>1, <1>2

LEMMA SameMembers ==
    ASSUME NEW S, NEW A \in SUBSET S, NEW B \in SUBSET S, \A g \in S : g \in A <=> g \in B
    PROVE  A = B
OBVIOUS

LEMMA RecordedFinite ==
    ASSUME NEW d, NEW t
    PROVE  /\ IsFiniteSet(RecordedIn(d, t)) /\ Cardinality(RecordedIn(d, t)) \in Nat
           /\ Cardinality(RecordedIn(d, t)) <= Cardinality(Handlers)
           /\ Cardinality(Handlers) \in Nat
<1>1. IsFiniteSet(Handlers)
  BY AnalyticsAssumption DEF AnalyticsAssumption
<1>2. RecordedIn(d, t) \in SUBSET Handlers
  BY DEF RecordedIn
<1> QED BY <1>1, <1>2, FS_Subset, FS_CardinalityType

\* A point joins what is recorded in its series and its minute, once.
LEMMA RecordedAfter ==
    ASSUME SeriesTypes, NEW h \in Handlers, Record(h),
           NEW d, NEW t
    PROVE  IF d = Dims[point[h].next] /\ t = point[h].min
           THEN /\ RecordedIn(d, t)' = RecordedIn(d, t) \cup {h}
                /\ h \notin RecordedIn(d, t)
           ELSE RecordedIn(d, t)' = RecordedIn(d, t)
<1>1. /\ point \in [Handlers -> [min : 0 .. MaxTime, next : 0 .. Len(Dims) + 1]]
      /\ Len(Dims) \in Nat /\ point[h].next \in 1 .. Len(Dims)
      /\ \A i, j \in 1 .. Len(Dims) : Dims[i] = Dims[j] => i = j
  BY AnalyticsAssumption DEF SeriesTypes, AnalyticsAssumption, Record
<1>2. PICK n \in 1 .. Len(Dims) : n = point[h].next
  BY <1>1
<1>3. PICK m \in 0 .. MaxTime : m = point[h].min
  BY <1>1
<1>4. /\ \A g \in Handlers : g # h => point'[g] = point[g]
      /\ point'[h].next = n + 1 /\ point'[h].min = m
  BY <1>1, <1>2, <1>3 DEF Record
<1>5. ASSUME NEW g \in Handlers, g # h
      PROVE  g \in RecordedIn(d, t)' <=> g \in RecordedIn(d, t)
  BY <1>4, <1>5 DEF RecordedIn
<1>6. h \in RecordedIn(d, t) <=> m = t /\ \E i \in 1 .. Len(Dims) : Dims[i] = d /\ i < n
  BY <1>2, <1>3 DEF RecordedIn
<1>7. h \in RecordedIn(d, t)' <=>
         m = t /\ \E i \in 1 .. Len(Dims) : Dims[i] = d /\ i < n + 1
  BY <1>4 DEF RecordedIn
<1>8. RecordedIn(d, t) \subseteq Handlers /\ RecordedIn(d, t)' \subseteq Handlers
  BY DEF RecordedIn
<1>9. CASE d = Dims[n] /\ t = m
  <2>1. h \in RecordedIn(d, t)'
    <3>1. n < n + 1
      BY <1>1
    <3> QED BY <1>7, <1>9, <3>1
  <2>2. h \notin RecordedIn(d, t)
    <3>1. \A i \in 1 .. Len(Dims) : Dims[i] = d => ~(i < n)
      BY <1>1, <1>9
    <3> QED BY <1>6, <3>1
  <2> QED BY <1>2, <1>3, <1>5, <1>8, <1>9, <2>1, <2>2
<1>10. CASE ~(d = Dims[n] /\ t = m)
  <2>1. h \in RecordedIn(d, t)' <=> h \in RecordedIn(d, t)
    <3>1. m = t => \A i \in 1 .. Len(Dims) : Dims[i] = d => i # n
      BY <1>10
    <3>2. \A i \in 1 .. Len(Dims) : i < n + 1 <=> i < n \/ i = n
      BY <1>1
    <3> QED BY <1>6, <1>7, <3>1, <3>2
  <2>2. \A g \in Handlers : g \in RecordedIn(d, t)' <=> g \in RecordedIn(d, t)
    BY <1>5, <2>1
  <2>3. RecordedIn(d, t)' = RecordedIn(d, t)
    BY <1>8, <2>2, SameMembers
  <2> QED BY <1>2, <1>3, <1>10, <2>3
<1> QED BY <1>9, <1>10

LEMMA StampStep ==
    ASSUME AnalyticsInv, NEW h \in Handlers, Stamp(h)
    PROVE  SeriesTypes' /\ PointsCounted'
<1>1. /\ point \in [Handlers -> [min : 0 .. MaxTime, next : 0 .. Len(Dims) + 1]]
      /\ clock \in 0 .. MaxTime /\ series' = series /\ clock' = clock
      /\ point[h].next = 0 /\ point' = [point EXCEPT ![h] = [min |-> clock, next |-> 1]]
      /\ Len(Dims) \in Nat
  BY AnalyticsAssumption DEF AnalyticsInv, SeriesTypes, Stamp, AnalyticsAssumption
<1>2. [min |-> clock, next |-> 1] \in [min : 0 .. MaxTime, next : 0 .. Len(Dims) + 1]
  BY <1>1
<1>3. point' \in [Handlers -> [min : 0 .. MaxTime, next : 0 .. Len(Dims) + 1]]
  BY <1>1, <1>2
<1>4. ASSUME NEW d, NEW t PROVE RecordedIn(d, t)' = RecordedIn(d, t)
  <2>1. point'[h].next = 1 /\ \A g \in Handlers : g # h => point'[g] = point[g]
    BY <1>1
  <2>2. \A i \in 1 .. Len(Dims) : ~(i < 1) /\ ~(i < 0)
    BY <1>1
  <2>3. h \notin RecordedIn(d, t) /\ h \notin RecordedIn(d, t)'
    BY <1>1, <2>1, <2>2 DEF RecordedIn
  <2>4. \A g \in Handlers : g # h => (g \in RecordedIn(d, t)' <=> g \in RecordedIn(d, t))
    BY <2>1 DEF RecordedIn
  <2>5. RecordedIn(d, t) \subseteq Handlers /\ RecordedIn(d, t)' \subseteq Handlers
    BY DEF RecordedIn
  <2>6. \A g \in Handlers : g \in RecordedIn(d, t)' <=> g \in RecordedIn(d, t)
    BY <2>3, <2>4
  <2> QED BY <2>5, <2>6, SameMembers
<1>5. SeriesTypes'
  BY <1>1, <1>3 DEF AnalyticsInv, SeriesTypes
<1>6. PointsCounted'
  BY <1>1, <1>4 DEF AnalyticsInv, PointsCounted, Held
<1> QED BY <1>5, <1>6

LEMMA RecordStep ==
    ASSUME AnalyticsInv, NEW h \in Handlers, Record(h)
    PROVE  SeriesTypes' /\ PointsCounted'
<1>0. SeriesTypes /\ PointsCounted
  BY DEF AnalyticsInv
<1>1. /\ point \in [Handlers -> [min : 0 .. MaxTime, next : 0 .. Len(Dims) + 1]]
      /\ series \in [DimSet -> Seq(BucketType)] /\ clock' = clock
      /\ Len(Dims) \in Nat /\ point[h].next \in 1 .. Len(Dims)
  BY <1>0, AnalyticsAssumption DEF SeriesTypes, AnalyticsAssumption, Record
<1>2. PICK e \in DimSet : e = Dims[point[h].next]
  BY <1>1 DEF DimSet
<1>3. PICK s \in Seq(BucketType) :
        /\ s = series[e] /\ Len(s) <= Size
        /\ \A i \in 1 .. Len(s) : s[i].errs <= s[i].reqs
  BY <1>0, <1>1 DEF SeriesTypes
<1>4. PICK u \in Seq(BucketType) :
        /\ u = Added(s, h)
        /\ Len(u) <= Size
        /\ Len(u) < Size => Len(s) < Size
        /\ \A i \in 1 .. Len(u) : u[i].errs <= u[i].reqs
        /\ \A t : /\ HeldBy(u, t) <= HeldBy(s, t) + Mine(h, t)
                  /\ Len(u) < Size => HeldBy(u, t) = HeldBy(s, t) + Mine(h, t)
  BY <1>0, <1>3, AddedHolds
<1>5. series' = [series EXCEPT ![e] = u] /\ point' = [point EXCEPT ![h].next = @ + 1]
  BY <1>2, <1>3, <1>4 DEF Record
<1>6. /\ series' \in [DimSet -> Seq(BucketType)] /\ series'[e] = u
      /\ \A d \in DimSet : d # e => series'[d] = series[d]
  BY <1>1, <1>5
<1>7. point' \in [Handlers -> [min : 0 .. MaxTime, next : 0 .. Len(Dims) + 1]]
  <2>1. PICK n \in 0 .. Len(Dims) + 1 : n = point[h].next + 1
    BY <1>1
  <2>2. [point[h] EXCEPT !.next = n] \in [min : 0 .. MaxTime, next : 0 .. Len(Dims) + 1]
    <3> DEFINE T == [min : 0 .. MaxTime, next : 0 .. Len(Dims) + 1]
    <3>1. PICK q \in T : q = point[h]
      BY <1>1
    <3>2. [q EXCEPT !.next = n] \in T
      OBVIOUS
    <3> QED BY <3>1, <3>2
  <2>3. point' = [point EXCEPT ![h] = [point[h] EXCEPT !.next = n]]
    BY <1>1, <1>5, <2>1
  <2> QED BY <1>1, <2>2, <2>3
<1>8. SeriesTypes'
  <2>1. ASSUME NEW d \in DimSet
        PROVE  /\ Len(series'[d]) <= Size
               /\ \A i \in 1 .. Len(series'[d]) : series'[d][i].errs <= series'[d][i].reqs
    <3>1. CASE d = e
      BY <1>4, <1>6, <3>1
    <3>2. CASE d # e
      BY <1>0, <1>6, <3>2 DEF SeriesTypes
    <3> QED BY <3>1, <3>2
  <2> QED BY <1>0, <1>1, <1>6, <1>7, <2>1 DEF SeriesTypes
<1>9. ASSUME NEW d \in DimSet, NEW t \in 0 .. MaxTime
      PROVE  /\ HeldBy(series'[d], t) <= Cardinality(RecordedIn(d, t)')
             /\ Len(series'[d]) < Size =>
                   HeldBy(series'[d], t) = Cardinality(RecordedIn(d, t)')
  <2>1. /\ HeldBy(series[d], t) <= Cardinality(RecordedIn(d, t))
        /\ Len(series[d]) < Size => HeldBy(series[d], t) = Cardinality(RecordedIn(d, t))
    BY <1>0 DEF PointsCounted, Held
  <2>2. IF d = e /\ t = point[h].min
        THEN /\ RecordedIn(d, t)' = RecordedIn(d, t) \cup {h}
             /\ h \notin RecordedIn(d, t)
        ELSE RecordedIn(d, t)' = RecordedIn(d, t)
    BY <1>0, <1>2, RecordedAfter
  <2>3. IsFiniteSet(RecordedIn(d, t)) /\ Cardinality(RecordedIn(d, t)) \in Nat
    BY RecordedFinite
  <2>4. CASE d # e
    BY <1>6, <2>1, <2>2, <2>4
  <2>5. CASE d = e
    <3>1. /\ HeldBy(u, t) <= HeldBy(s, t) + Mine(h, t)
          /\ Len(u) < Size => HeldBy(u, t) = HeldBy(s, t) + Mine(h, t)
          /\ Len(u) < Size => Len(s) < Size
      BY <1>4
    <3>2. HeldBy(u, t) \in Nat /\ HeldBy(s, t) \in Nat /\ Mine(h, t) \in Nat
      BY WeightsType DEF Mine
    <3>3. Cardinality(RecordedIn(d, t)') = Cardinality(RecordedIn(d, t)) + Mine(h, t)
      <4>1. CASE t = point[h].min
        <5>1. Cardinality(RecordedIn(d, t) \cup {h}) = Cardinality(RecordedIn(d, t)) + 1
          BY <2>2, <2>3, <2>5, <4>1, FS_AddElement
        <5> QED BY <2>2, <2>5, <4>1, <5>1 DEF Mine
      <4>2. CASE t # point[h].min
        BY <2>2, <2>3, <4>2 DEF Mine
      <4> QED BY <4>1, <4>2
    <3>4. /\ HeldBy(s, t) <= Cardinality(RecordedIn(d, t))
          /\ Len(s) < Size => HeldBy(s, t) = Cardinality(RecordedIn(d, t))
      BY <1>3, <2>1, <2>5
    <3>5. /\ HeldBy(u, t) <= Cardinality(RecordedIn(d, t)')
          /\ Len(u) < Size => HeldBy(u, t) = Cardinality(RecordedIn(d, t)')
      BY <2>3, <3>1, <3>2, <3>3, <3>4
    <3> QED BY <1>6, <2>5, <3>5
  <2> QED BY <2>4, <2>5
<1>10. PointsCounted'
  BY <1>9 DEF PointsCounted, Held
<1> QED BY <1>8, <1>10

-----------------------------------------------------------------------------
(* Detector and alert manager *)

LEMMA AlertFacts ==
    ASSUME AnalyticsInv, NEW k \in AlertKeys
    PROVE  /\ active[k] \in AlertType
           /\ normal[k] \in 0 .. ResolveAfter - 1 /\ quiet[k] \in 0 .. ResolveAfter
           /\ \/ active[k] = NoAlert
              \/ /\ active[k].at \in 1 .. now /\ active[k].state # "none"
                 /\ normal[k] <= quiet[k]
           /\ active[k].state = "acknowledged" => <<k, active[k].at>> \in seen
           /\ ResolveAfter \in Nat /\ ResolveAfter >= 1 /\ now \in Nat
           /\ seen \in SUBSET (AlertKeys \X (1 .. now))
BY AnalyticsAssumption DEF AnalyticsInv, AlertTypes, AlertsKept, AcknowledgedWasSeen,
       AnalyticsAssumption

LEMMA EvaluateStep ==
    ASSUME AnalyticsInv, NEW d \in DimSet, Evaluate(d)
    PROVE  AlertTypes' /\ AlertsKept' /\ AcknowledgedWasSeen'
<1>1. /\ result \in [todo : SUBSET DimSet, keys : SUBSET AlertKeys]
      /\ UNCHANGED <<active, normal, history, now, quiet, seen>>
  BY DEF AnalyticsInv, AlertTypes, Evaluate, alerts
<1>2. PICK M \in SUBSET Metrics : M = {m \in Metrics : Anomalous(d, m)}
  OBVIOUS
<1>3. {d} \X M \subseteq AlertKeys
  BY DEF AlertKeys
<1>4. PICK K \in SUBSET AlertKeys : K = result.keys \cup ({d} \X M)
  BY <1>1, <1>3
<1>5. PICK D \in SUBSET DimSet : D = result.todo \ {d}
  BY <1>1
<1>6. result' = [todo |-> D, keys |-> K]
  BY <1>2, <1>4, <1>5 DEF Evaluate
<1>7. result' \in [todo : SUBSET DimSet, keys : SUBSET AlertKeys]
  BY <1>6
<1> QED BY <1>1, <1>7
  DEF AnalyticsInv, AlertTypes, AlertsKept, AcknowledgedWasSeen

\* What one evaluation does to the alert of k.
LEMMA Processed ==
    ASSUME AnalyticsInv, ProcessAlerts, NEW k \in AlertKeys
    PROVE  /\ active'[k] \in AlertType
           /\ normal'[k] \in 0 .. ResolveAfter - 1 /\ quiet'[k] \in 0 .. ResolveAfter
           /\ \/ active'[k] = NoAlert
              \/ /\ active'[k].at \in 1 .. now' /\ active'[k].state # "none"
                 /\ normal'[k] <= quiet'[k]
           /\ active'[k].state = "acknowledged" => <<k, active'[k].at>> \in seen
           /\ active[k] # NoAlert /\ active'[k] # active[k] => quiet'[k] >= ResolveAfter
           /\ now' \in Nat /\ now' >= now
<1>0. /\ active[k] \in AlertType
      /\ normal[k] \in 0 .. ResolveAfter - 1 /\ quiet[k] \in 0 .. ResolveAfter
      /\ \/ active[k] = NoAlert
         \/ /\ active[k].at \in 1 .. now /\ active[k].state # "none"
            /\ normal[k] <= quiet[k]
      /\ active[k].state = "acknowledged" => <<k, active[k].at>> \in seen
      /\ ResolveAfter \in Nat /\ ResolveAfter >= 1 /\ now \in Nat
  BY AlertFacts
<1>1. /\ active'[k] = IF k \in Raised THEN [at |-> now', state |-> "active"]
                      ELSE IF k \in Resolved THEN NoAlert ELSE active[k]
      /\ normal'[k] = IF active[k] # NoAlert /\ k \notin result.keys \cup Resolved
                      THEN normal[k] + 1 ELSE 0
      /\ quiet'[k] = IF k \in result.keys THEN 0
                     ELSE IF quiet[k] < ResolveAfter THEN quiet[k] + 1 ELSE quiet[k]
      /\ now' = IF Raised # {} THEN now + 1 ELSE now
  BY DEF ProcessAlerts
<1>2. now' \in Nat /\ now' >= now /\ (k \in Raised => now' >= 1)
  BY <1>0, <1>1
<1>3. quiet'[k] \in 0 .. ResolveAfter
  BY <1>0, <1>1
<1>4. k \in Raised <=> k \in result.keys /\ active[k] = NoAlert
  BY DEF Raised, AnalyticsInv, AlertTypes
<1>5. k \in Resolved <=> /\ active[k] # NoAlert /\ k \notin result.keys
                            /\ normal[k] + 1 >= ResolveAfter
  BY DEF Resolved, Resolves
<1>6. NoAlert \in AlertType /\ NoAlert.state = "none"
  BY DEF NoAlert, AlertType
<1>7. CASE k \in Raised
  <2>1. PICK n \in Nat : n = now' /\ n >= 1
    BY <1>2, <1>7
  <2>2. active'[k] = [at |-> n, state |-> "active"] /\ normal'[k] = 0
    BY <1>1, <1>4, <1>7, <2>1
  <2>3. active'[k] \in AlertType /\ active'[k].at = n /\ active'[k].state = "active"
    BY <2>2 DEF AlertType
  <2> QED BY <1>0, <1>2, <1>3, <1>4, <1>7, <2>1, <2>2, <2>3
<1>8. CASE k \in Resolved
  <2>1. active'[k] = NoAlert /\ normal'[k] = 0
    BY <1>1, <1>4, <1>5, <1>8
  <2>2. quiet'[k] >= ResolveAfter
    BY <1>0, <1>1, <1>5, <1>8
  <2> QED BY <1>0, <1>2, <1>3, <1>6, <2>1, <2>2
<1>9. CASE k \notin Raised /\ k \notin Resolved
  <2>1. active'[k] = active[k]
    BY <1>1, <1>9
  <2>2. CASE active[k] = NoAlert \/ k \in result.keys
    <3>1. normal'[k] = 0
      BY <1>1, <2>2
    <3> QED BY <1>0, <1>2, <1>3, <2>1, <3>1
  <2>3. CASE active[k] # NoAlert /\ k \notin result.keys
    <3>1. normal'[k] = normal[k] + 1 /\ normal[k] + 1 < ResolveAfter
      BY <1>0, <1>1, <1>5, <1>9, <2>3
    <3>2. normal'[k] <= quiet'[k]
      BY <1>0, <1>1, <2>3, <3>1
    <3> QED BY <1>0, <1>2, <1>3, <2>1, <3>1, <3>2
  <2> QED BY <2>2, <2>3
<1> QED BY <1>7, <1>8, <1>9

LEMMA ProcessAlertsStep ==
    ASSUME AnalyticsInv, ProcessAlerts
    PROVE  AlertTypes' /\ AlertsKept' /\ AcknowledgedWasSeen'
<1>1. /\ active' = [k \in AlertKeys |-> active'[k]]
      /\ normal' = [k \in AlertKeys |-> normal'[k]]
      /\ quiet' = [k \in AlertKeys |-> quiet'[k]]
      /\ result' = Start /\ seen' = seen
  BY DEF ProcessAlerts
<1>2. /\ active' \in [AlertKeys -> AlertType]
      /\ normal' \in [AlertKeys -> 0 .. ResolveAfter - 1]
      /\ quiet' \in [AlertKeys -> 0 .. ResolveAfter]
  BY <1>1, Processed
<1>3. Start \in [todo : SUBSET DimSet, keys : SUBSET AlertKeys]
  BY DEF Start
<1>4. history' \in 0 .. MaxHistory
  <2>1. history \in Nat /\ MaxHistory \in Nat
    BY AnalyticsAssumption DEF AnalyticsInv, AlertTypes, AnalyticsAssumption
  <2>2. IsFiniteSet(Resolved)
    <3>1. IsFiniteSet(DimSet)
      <4>1. Dims \in Seq(DimSet)
        BY AnalyticsAssumption DEF AnalyticsAssumption, DimSet
      <4>2. \A d \in DimSet : \E i \in 1 .. Len(Dims) : Dims[i] = d
        BY DEF DimSet
      <4> QED BY <4>1, <4>2 DEF IsFiniteSet
    <3>2. IsFiniteSet(Metrics)
      <4>1. IsFiniteSet({"error_rate"} \cup {"p95_latency"} \cup {"request_rate"} \cup {"cost_rate"})
        BY FS_Singleton, FS_Union
      <4> QED BY <4>1 DEF Metrics
    <3>3. IsFiniteSet(AlertKeys)
      BY <3>1, <3>2, FS_Product DEF AlertKeys
    <3> QED BY <3>3, FS_Subset DEF Resolved
  <2>3. PICK n \in Nat : n = history + Cardinality(Resolved)
    BY <2>1, <2>2, FS_CardinalityType
  <2>4. history' = Min({n, MaxHistory})
    BY <2>3 DEF ProcessAlerts, Archived
  <2>5. Min({n, MaxHistory}) \in 0 .. MaxHistory
    <3>1. PICK x \in {n, MaxHistory} : \A y \in {n, MaxHistory} : x <= y
      <4>1. CASE n <= MaxHistory
        BY <2>1, <4>1
      <4>2. CASE MaxHistory <= n
        BY <2>1, <4>2
      <4> QED BY <2>1, <4>1, <4>2
    <3>2. PICK z \in {n, MaxHistory} :
            z = Min({n, MaxHistory}) /\ \A y \in {n, MaxHistory} : z <= y
      BY <3>1, Zenon DEF Min
    <3> QED BY <2>1, <3>2
  <2> QED BY <2>4, <2>5
<1>5. now' \in Nat /\ seen' \in SUBSET (AlertKeys \X (1 .. now'))
  <2>1. /\ now \in Nat /\ seen \in SUBSET (AlertKeys \X (1 .. now))
        /\ now' = IF Raised # {} THEN now + 1 ELSE now
    BY DEF AnalyticsInv, AlertTypes, ProcessAlerts
  <2>2. now' \in Nat /\ 1 .. now \subseteq 1 .. now'
    BY <2>1
  <2> QED BY <1>1, <2>1, <2>2
<1>6. AlertTypes'
  BY <1>1, <1>2, <1>3, <1>4, <1>5 DEF AlertTypes
<1>7. AlertsKept'
  BY Processed DEF AlertsKept
<1>8. AcknowledgedWasSeen'
  BY <1>1, Processed DEF AcknowledgedWasSeen
<1> QED BY <1>6, <1>7, <1>8

LEMMA RecentAlertsStep ==
    ASSUME AnalyticsInv, RecentAlerts
    PROVE  AlertTypes' /\ AlertsKept' /\ AcknowledgedWasSeen'
<1>1. /\ UNCHANGED <<result, active, normal, history, now, quiet>>
      /\ seen' = seen \cup {<<k, active[k].at>> : k \in {j \in AlertKeys : active[j] # NoAlert}}
  BY DEF RecentAlerts, alerts
<1>2. \A k \in AlertKeys : active[k] # NoAlert => active[k].at \in 1 .. now
  BY DEF AnalyticsInv, AlertsKept
<1>3. seen' \in SUBSET (AlertKeys \X (1 .. now)) /\ seen \subseteq seen'
  BY <1>1, <1>2 DEF AnalyticsInv, AlertTypes
<1> QED BY <1>1, <1>3
  DEF AnalyticsInv, AlertTypes, AlertsKept, AcknowledgedWasSeen

\* The ID is one that was shown, and it names the alert it acknowledges.
LEMMA AcknowledgeStep ==
    ASSUME AnalyticsInv, NEW id \in seen, Acknowledge(id)
    PROVE  /\ AlertTypes' /\ AlertsKept' /\ AcknowledgedWasSeen'
           /\ \A k \in AlertKeys : active'[k].at = active[k].at
<1>0. /\ UNCHANGED <<result, normal, history, now, seen, quiet>>
      /\ active' = [k \in AlertKeys |-> IF <<k, active[k].at>> = id
                                      THEN [active[k] EXCEPT !.state = "acknowledged"]
                                      ELSE active[k]]
  BY DEF Acknowledge
<1>1. ASSUME NEW k \in AlertKeys
      PROVE  /\ active'[k] \in AlertType /\ active'[k].at = active[k].at
             /\ \/ active'[k] = NoAlert
                \/ /\ active'[k].at \in 1 .. now /\ active'[k].state # "none"
                   /\ normal[k] <= quiet[k]
             /\ active'[k].state = "acknowledged" => <<k, active'[k].at>> \in seen
  <2>1. PICK a \in AlertType : a = active[k]
    BY AlertFacts
  <2>2. /\ \/ a = NoAlert
           \/ a.at \in 1 .. now /\ a.state # "none" /\ normal[k] <= quiet[k]
        /\ a.state = "acknowledged" => <<k, a.at>> \in seen
        /\ seen \in SUBSET (AlertKeys \X (1 .. now)) /\ now \in Nat
    BY <2>1, AlertFacts
  <2>3. CASE <<k, a.at>> = id
    <3>1. a.at \in 1 .. now
      BY <2>2, <2>3
    <3>2. a # NoAlert
      BY <2>2, <3>1 DEF NoAlert
    <3> DEFINE y == [a EXCEPT !.state = "acknowledged"]
    <3>3. y \in AlertType
      BY DEF AlertType
    <3>4. y.at = a.at /\ y.state = "acknowledged"
      BY DEF AlertType
    <3>5. active'[k] = y
      BY <1>0, <2>1, <2>3
    <3> HIDE DEF y
    <3> QED BY <2>1, <2>2, <2>3, <3>1, <3>2, <3>3, <3>4, <3>5
  <2>4. CASE <<k, a.at>> # id
    <3>1. active'[k] = a
      BY <1>0, <2>1, <2>4
    <3> QED BY <2>1, <2>2, <3>1
  <2> QED BY <2>3, <2>4
<1>2. active' \in [AlertKeys -> AlertType]
  <2>1. active' = [k \in AlertKeys |-> active'[k]]
    BY <1>0
  <2> QED BY <1>1, <2>1
<1>3. AlertTypes'
  BY <1>0, <1>2 DEF AnalyticsInv, AlertTypes
<1>4. AlertsKept'
  BY <1>0, <1>1 DEF AlertsKept
<1>5. AcknowledgedWasSeen'
  BY <1>0, <1>1 DEF AcknowledgedWasSeen
<1> QED BY <1>1, <1>3, <1>4, <1>5

-----------------------------------------------------------------------------
(* Every step *)

LEMMA AnalyticsStart ==
    ASSUME AnalyticsInit
    PROVE  AnalyticsInv
<1>0. Size \in Nat /\ ResolveAfter \in Nat /\ ResolveAfter >= 1 /\ MaxHistory \in Nat
      /\ MaxTime \in Nat /\ Len(Dims) \in Nat
  BY AnalyticsAssumption DEF AnalyticsAssumption
<1>1. SeriesTypes
  <2>1. <<>> \in Seq(BucketType) /\ Len(<<>>) = 0 /\ 1 .. 0 = {}
    OBVIOUS
  <2>2. series = [d \in DimSet |-> <<>>] /\ clock = 0
        /\ point = [h \in Handlers |-> [min |-> 0, next |-> 0]]
    BY DEF AnalyticsInit
  <2>3. series \in [DimSet -> Seq(BucketType)]
        /\ \A d \in DimSet : series[d] = <<>>
    BY <2>1, <2>2
  <2>4. [min |-> 0, next |-> 0] \in [min : 0 .. MaxTime, next : 0 .. Len(Dims) + 1]
    BY <1>0
  <2>5. point \in [Handlers -> [min : 0 .. MaxTime, next : 0 .. Len(Dims) + 1]]
    BY <2>2, <2>4
  <2>6. \A d \in DimSet : /\ Len(series[d]) <= Size
                             /\ \A i \in 1 .. Len(series[d]) :
                                   series[d][i].errs <= series[d][i].reqs
    BY <1>0, <2>1, <2>3
  <2> QED BY <1>0, <2>2, <2>3, <2>5, <2>6 DEF SeriesTypes
<1>2. NoAlert \in AlertType /\ NoAlert.state = "none"
  BY DEF NoAlert, AlertType
<1>3. /\ active = [k \in AlertKeys |-> NoAlert] /\ normal = [k \in AlertKeys |-> 0]
      /\ quiet = [k \in AlertKeys |-> ResolveAfter] /\ history = 0 /\ now = 0 /\ seen = {}
      /\ result = Start
  BY DEF AnalyticsInit
<1>4. \A k \in AlertKeys : active[k] = NoAlert
  BY <1>3
<1>5. AlertTypes
  <2>1. Start \in [todo : SUBSET DimSet, keys : SUBSET AlertKeys]
    BY DEF Start
  <2>2. active \in [AlertKeys -> AlertType]
    BY <1>2, <1>3
  <2>3. normal \in [AlertKeys -> 0 .. ResolveAfter - 1] /\ quiet \in [AlertKeys -> 0 .. ResolveAfter]
    BY <1>0, <1>3
  <2>4. history \in 0 .. MaxHistory /\ now \in Nat /\ seen \in SUBSET (AlertKeys \X (1 .. now))
    BY <1>0, <1>3
  <2> QED BY <1>3, <2>1, <2>2, <2>3, <2>4 DEF AlertTypes
<1>6. AlertsKept /\ AcknowledgedWasSeen
  BY <1>2, <1>4 DEF AlertsKept, AcknowledgedWasSeen
<1>7. PointsCounted
  <2>1. ASSUME NEW d \in DimSet, NEW t PROVE Held(d, t) = 0
    <3>1. series[d] = <<>>
      BY <2>1 DEF AnalyticsInit
    <3> QED BY <3>1, HeldOfNone DEF Held
  <2>2. ASSUME NEW d, NEW t PROVE Cardinality(RecordedIn(d, t)) = 0
    <3>1. \A h \in Handlers : point[h].next = 0
      BY DEF AnalyticsInit
    <3>2. \A i \in 1 .. Len(Dims) : ~(i < 0)
      BY <1>0
    <3>3. RecordedIn(d, t) = {}
      BY <3>1, <3>2 DEF RecordedIn
    <3> QED BY <3>3, FS_EmptySet
  <2>3. ASSUME NEW d \in DimSet, NEW t \in 0 .. MaxTime
        PROVE  /\ Held(d, t) <= Cardinality(RecordedIn(d, t))
               /\ Held(d, t) = Cardinality(RecordedIn(d, t))
    BY <2>1, <2>2
  <2> QED BY <2>3 DEF PointsCounted
<1> QED BY <1>1, <1>5, <1>6, <1>7 DEF AnalyticsInv

LEMMA AnalyticsStep ==
    ASSUME AnalyticsInv, [AnalyticsNext]_analyticsVars
    PROVE  AnalyticsInv'
<1>0. clock \in 0 .. MaxTime /\ MaxTime \in Nat
  BY AnalyticsAssumption DEF AnalyticsInv, SeriesTypes, AnalyticsAssumption
<1>1. ASSUME NEW h \in Handlers, Stamp(h) \/ Record(h)
      PROVE  AnalyticsInv'
  <2>1. SeriesTypes' /\ PointsCounted'
    BY <1>1, StampStep, RecordStep
  <2>2. UNCHANGED <<result, alerts, seen>>
    BY <1>1 DEF Stamp, Record
  <2> QED BY <2>1, <2>2, AlertsSame DEF AnalyticsInv
<1>2. ASSUME NEW d \in DimSet, Evaluate(d)
      PROVE  AnalyticsInv'
  <2>1. clock' \in 0 .. MaxTime /\ series' = series /\ point' = point
    BY <1>0, <1>2 DEF Evaluate
  <2> QED BY <1>2, <2>1, SeriesSame, EvaluateStep DEF AnalyticsInv
<1>3. CASE ProcessAlerts
  <2>1. clock' \in 0 .. MaxTime /\ series' = series /\ point' = point
    BY <1>0, <1>3 DEF ProcessAlerts
  <2> QED BY <1>3, <2>1, SeriesSame, ProcessAlertsStep DEF AnalyticsInv
<1>4. CASE RecentAlerts
  <2>1. clock' \in 0 .. MaxTime /\ series' = series /\ point' = point
    BY <1>0, <1>4 DEF RecentAlerts
  <2> QED BY <1>4, <2>1, SeriesSame, RecentAlertsStep DEF AnalyticsInv
<1>5. ASSUME NEW id \in seen, Acknowledge(id)
      PROVE  AnalyticsInv'
  <2>1. clock' \in 0 .. MaxTime /\ series' = series /\ point' = point
    BY <1>0, <1>5 DEF Acknowledge
  <2> QED BY <1>5, <2>1, SeriesSame, AcknowledgeStep DEF AnalyticsInv
<1>6. CASE Tick
  <2>1. /\ clock' \in 0 .. MaxTime /\ series' = series /\ point' = point
        /\ UNCHANGED <<result, alerts, seen>>
    BY <1>0, <1>6 DEF Tick
  <2> QED BY <2>1, SeriesSame, AlertsSame DEF AnalyticsInv
<1>7. CASE UNCHANGED analyticsVars
  <2>1. /\ clock' \in 0 .. MaxTime /\ series' = series /\ point' = point
        /\ UNCHANGED <<result, alerts, seen>>
    BY <1>0, <1>7 DEF analyticsVars, alerts
  <2> QED BY <2>1, SeriesSame, AlertsSame DEF AnalyticsInv
<1> QED BY <1>1, <1>2, <1>3, <1>4, <1>5, <1>6, <1>7 DEF AnalyticsNext

\* Handlers recording, the detector's loop and administrators at the alerts
\* page, interleaved in every way, keep the collector's series and the alert
\* manager's maps in step (internal/analytics).
THEOREM AnalyticsInvariant == AnalyticsSpec => []AnalyticsInv
<1>1. AnalyticsInit => AnalyticsInv
  BY AnalyticsStart
<1>2. AnalyticsInv /\ [AnalyticsNext]_analyticsVars => AnalyticsInv'
  BY AnalyticsStep
<1> QED BY <1>1, <1>2, PTL DEF AnalyticsSpec

\* Every series counts every point in the minute it was stamped with, once,
\* and a full ring loses points only with its oldest bucket.
THEOREM AnalyticsCounted == AnalyticsSpec => []PointsCounted
<1>1. AnalyticsInv => PointsCounted
  BY DEF AnalyticsInv
<1> QED BY <1>1, AnalyticsInvariant, PTL

\* Only alerts that an administrator has had on the screen are acknowledged.
THEOREM AnalyticsSeen == AnalyticsSpec => []AcknowledgedWasSeen
<1>1. AnalyticsInv => AcknowledgedWasSeen
  BY DEF AnalyticsInv
<1> QED BY <1>1, AnalyticsInvariant, PTL

\* The rings, the counters and the history keep their bounds; no bucket counts
\* more points than there were.
THEOREM AnalyticsTypes == AnalyticsSpec => []AnalyticsTypeOK
<1>1. AnalyticsInv => AnalyticsTypeOK
  <2> SUFFICES ASSUME AnalyticsInv PROVE AnalyticsTypeOK
    OBVIOUS
  <2>0. SeriesTypes /\ AlertTypes /\ PointsCounted
    BY DEF AnalyticsInv
  <2>1. ASSUME NEW d \in DimSet, NEW i \in 1 .. Len(series[d])
        PROVE  /\ series[d][i].min \in 0 .. MaxTime
               /\ series[d][i].reqs \in 1 .. Cardinality(Handlers)
               /\ series[d][i].errs \in 0 .. series[d][i].reqs
    <3>1. PICK s \in Seq(BucketType) : s = series[d] /\ i \in 1 .. Len(s)
      BY <2>0 DEF SeriesTypes
    <3>2. PICK b \in BucketType : b = s[i] /\ b.errs <= b.reqs
      BY <2>0, <3>1 DEF SeriesTypes
    <3>3. b.min \in 0 .. MaxTime /\ b.reqs \in Nat /\ b.reqs >= 1 /\ b.errs \in Nat
      BY DEF BucketType
    <3>4. PICK t \in 0 .. MaxTime : t = b.min
      BY <3>3
    <3>5. b.reqs <= HeldBy(s, t)
      <4>1. InMinute(s[i], t) <= HeldBy(s, t)
        BY <3>1, HeldOfOne
      <4> QED BY <3>2, <3>4, <4>1 DEF InMinute
    <3>6. HeldBy(s, t) <= Cardinality(RecordedIn(d, t))
      BY <2>0, <3>1 DEF PointsCounted, Held
    <3>7. /\ Cardinality(RecordedIn(d, t)) <= Cardinality(Handlers)
          /\ Cardinality(RecordedIn(d, t)) \in Nat /\ Cardinality(Handlers) \in Nat
      BY RecordedFinite
    <3>8. HeldBy(s, t) \in Nat
      BY WeightsType
    <3>9. b.reqs \in 1 .. Cardinality(Handlers) /\ b.errs \in 0 .. b.reqs
      BY <3>2, <3>3, <3>5, <3>6, <3>7, <3>8
    <3> QED BY <3>1, <3>2, <3>3, <3>9
  <2>2. \A k \in AlertKeys : active[k].state \in {"none", "active", "acknowledged"}
    BY <2>0 DEF AlertTypes, AlertType
  <2> QED BY <2>0, <2>1, <2>2 DEF AnalyticsTypeOK, SeriesTypes, AlertTypes
<1> QED BY <1>1, AnalyticsInvariant, PTL

\* "auto-resolve after 5 consecutive normal evaluations": an alert leaves the
\* active map only after that many evaluations in a row without its key, and
\* acknowledging it changes nothing about that.
THEOREM AnalyticsResolved == AnalyticsSpec => ResolvedAfterQuiet
<1> DEFINE Quiet == \A k \in AlertKeys :
             active[k] # NoAlert /\ active'[k].at # active[k].at
                => quiet'[k] >= ResolveAfter
<1>1. AnalyticsInv /\ [AnalyticsNext]_analyticsVars => [Quiet]_analyticsVars
  <2> SUFFICES ASSUME AnalyticsInv, AnalyticsNext PROVE Quiet
    BY DEF analyticsVars
  <2>1. CASE ProcessAlerts
    BY <2>1, Processed
  <2>2. CASE \E id \in seen : Acknowledge(id)
    BY <2>2, AcknowledgeStep
  <2>3. CASE active' = active
    BY <2>3
  <2> QED BY <2>1, <2>2, <2>3
    DEF AnalyticsNext, Stamp, Record, Evaluate, RecentAlerts, Tick, alerts
<1> QED BY <1>1, AnalyticsInvariant, PTL DEF AnalyticsSpec, ResolvedAfterQuiet
=============================================================================
