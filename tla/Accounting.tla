----------------------------- MODULE Accounting -----------------------------
(***************************************************************************)
(* internal/usage beside internal/budget: what the chat handler books when *)
(* a unary request has been answered, first with the usage tracker, then   *)
(* with the budget manager (module Budget), and the admin API's usage page.*)
(*                                                                         *)
(* Store.Add runs under the store's mutex.  The page takes the mutex only  *)
(* to copy a map of pointers: it is encoded afterwards, from counters that *)
(* Add goes on changing, so Add's two halves are separate steps here.      *)
(*                                                                         *)
(* A token costs one unit.  The usage store is only ever added to: MaxAdds *)
(* bounds the answers booked by one process.                               *)
(***************************************************************************)
EXTENDS Budget, Sums

CONSTANT MaxAdds   \* answers booked per tenant before the model stops

\* A request body is of bounded size: there are finitely many model names.
ASSUME AccountingAssumption ==
    Tenants # {} /\ IsFiniteSet(Models) /\ MaxAdds \in Nat

VARIABLES
    total,    \* total[t]: TenantUsage's TotalRequests and TotalTokens
    byModel,  \* byModel[t][m]: ModelUsage's Requests; 0: no entry
    lock,     \* the requests (at most one) inside Store.Add
    book,     \* how far the handler is with booking a request's answer
    page      \* the usage page being encoded, as far as one tenant is concerned

usage == <<total, byModel, lock, book>>
allVars == <<vars, usage, page>>

NoTokens == [step |-> "none", tokens |-> 0]
NoPage == [pc |-> "idle", tenant |-> CHOOSE t \in Tenants : TRUE, requests |-> 0,
           left |-> {}, listed |-> 0]

AccountingTypeOK ==
    /\ TypeOK
    /\ total \in [Tenants -> [requests : Nat, tokens : Nat]]
    /\ byModel \in [Tenants -> [Models -> Nat]]
    /\ lock \subseteq Requests
    /\ book \in [Requests -> [step : {"none", "totals", "models", "spend"},
                              tokens : 0 .. MaxCost]]
    /\ page \in [pc : {"idle", "totals", "list", "models"}, tenant : Tenants,
                 requests : Nat, left : SUBSET Models, listed : Nat]

\* NewStore: no tenant has used anything.
NoTotals == [t \in Tenants |-> [requests |-> 0, tokens |-> 0]]
NoModels == [t \in Tenants |-> [m \in Models |-> 0]]
NoBooks == [r \in Requests |-> NoTokens]

AccountingInit ==
    /\ Init
    /\ total = NoTotals /\ byModel = NoModels /\ lock = {}
    /\ book = NoBooks /\ page = NoPage

-----------------------------------------------------------------------------
(* The handler's books *)

Booked(t) == total[t].requests
                + Cardinality({r \in Requests : book[r].step = "totals"
                                                  /\ req[r].tenant = t})

\* Mutant of Answered: the spend is recorded first.
AnsweredSpendFirst(r, c) ==
    /\ book[r].step = "none"
    /\ Booked(req[r].tenant) < MaxAdds
    /\ RecordSpend(r, c)
    /\ book' = [book EXCEPT ![r] = [step |-> "totals", tokens |-> c]]
    /\ UNCHANGED <<total, byModel, lock, page>>

\* The provider has answered, with a usage of c tokens, and the output policy
\* has nothing against it.
Answered(r, c) ==
    /\ req[r].pc = "inflight" /\ req[r].kind = "unary"
    /\ book[r].step = "none"
    /\ Booked(req[r].tenant) < MaxAdds
    /\ book' = [book EXCEPT ![r] = [step |-> "totals", tokens |-> c]]
    /\ UNCHANGED <<vars, total, byModel, lock, page>>

\* Mutant of AddTotals: Store.Add does not take the mutex.
AddTotalsUnlocked(r) ==
    /\ book[r].step = "totals"
    /\ total' = [total EXCEPT ![req[r].tenant] =
                    [requests |-> @.requests + 1, tokens |-> @.tokens + book[r].tokens]]
    /\ book' = [book EXCEPT ![r].step = "models"]
    /\ UNCHANGED <<vars, byModel, lock, page>>

\* Record, Store.Add: the tenant's counters ...
AddTotals(r) ==
    /\ book[r].step = "totals"
    /\ lock = {}
    /\ lock' = {r}
    /\ total' = [total EXCEPT ![req[r].tenant] =
                    [requests |-> @.requests + 1, tokens |-> @.tokens + book[r].tokens]]
    /\ book' = [book EXCEPT ![r].step = "models"]
    /\ UNCHANGED <<vars, byModel, page>>

\* ... and those of its model, with a new entry if there is none.
AddModel(r) ==
    /\ book[r].step = "models"
    /\ byModel' = [byModel EXCEPT ![req[r].tenant][req[r].model] = @ + 1]
    /\ lock' = {}
    /\ book' = [book EXCEPT ![r].step = "spend"]
    /\ UNCHANGED <<vars, total, page>>

\* recordSpend, with what the same tokens cost.
Spend(r) ==
    /\ book[r].step = "spend"
    /\ RecordSpend(r, book[r].tokens)
    /\ book' = [book EXCEPT ![r] = NoTokens]
    /\ UNCHANGED <<total, byModel, lock, page>>

\* The other steps of the requests and the calendar touch no book.
BudgetStep ==
    /\ \/ \E r \in Requests :
            \/ \E t \in Tenants, m \in Models, kind \in Kinds : BudgetCheck(r, t, m, kind)
            \/ ChatCompletion(r)
            \/ book[r].step = "none" /\ LeaveWithoutSpend(r)
       \/ NextMonth
    /\ UNCHANGED <<usage, page>>

\* All books are in memory.  One way for the process to end is the page
\* itself: a new entry in a by_model map that is being encoded is a fatal
\* "concurrent map iteration and map write", which no Recoverer catches.
RestartAll ==
    /\ Restart
    /\ total' = NoTotals /\ byModel' = NoModels /\ lock' = {}
    /\ book' = NoBooks /\ page' = NoPage

-----------------------------------------------------------------------------
(* The usage page: usageHandler, Store.GetAll and the JSON encoder, which    *)
(* goes through the fields of a tenant in the order of the struct.           *)

GetAll(t) ==
    /\ page.pc = "idle" \/ (page.pc = "models" /\ page.left = {})
    /\ lock = {} /\ total[t].requests > 0
    /\ page' = [NoPage EXCEPT !.pc = "totals", !.tenant = t]
    /\ UNCHANGED <<vars, usage>>

EncodeTotals ==
    /\ page.pc = "totals"
    /\ page' = [page EXCEPT !.pc = "list", !.requests = total[page.tenant].requests]
    /\ UNCHANGED <<vars, usage>>

\* The entries of by_model are collected first ...
EncodeEntries ==
    /\ page.pc = "list"
    /\ page' = [page EXCEPT !.pc = "models",
                            !.left = {m \in Models : byModel[page.tenant][m] > 0}]
    /\ UNCHANGED <<vars, usage>>

\* ... and encoded one by one.
EncodeModel(m) ==
    /\ page.pc = "models" /\ m \in page.left
    /\ page' = [page EXCEPT !.left = @ \ {m},
                            !.listed = @ + byModel[page.tenant][m]]
    /\ UNCHANGED <<vars, usage>>

AccountingNext ==
    \/ BudgetStep
    \/ \E r \in Requests :
        \/ \E c \in 0 .. MaxCost : Answered(r, c)
        \/ AddTotals(r) \/ AddModel(r) \/ Spend(r)
    \/ RestartAll
    \/ \E t \in Tenants : GetAll(t)
    \/ EncodeTotals \/ EncodeEntries
    \/ \E m \in Models : EncodeModel(m)

AccountingSpec == AccountingInit /\ [][AccountingNext]_allVars

-----------------------------------------------------------------------------
(* Properties *)

\* However many answers are booked while it is encoded, the usage page shows
\* at most one request in a tenant's total that it does not show under a
\* model: the one whose Add the page has cut in two.
UsagePageOffByOne ==
    page.pc = "models" /\ page.left = {} => page.requests <= page.listed + 1

\* What a tenant's budget was charged this month is in its usage: at no time
\* does the budget page claim tokens that the usage page has not got.
LedgerWithinUsage == \A t \in Tenants : paid[TenantKey(t)] <= total[t].tokens

-----------------------------------------------------------------------------
(* The inductive invariant behind the theorems of AccountingProofs *)

\* A request that is being booked cannot become another request meanwhile.
BookedInFlight == \A r \in Requests : book[r].step # "none" => req[r].pc = "inflight"

\* The mutex: one request at a time is between the two halves of Store.Add.
OneInAdd ==
    /\ lock = {r \in Requests : book[r].step = "models"}
    /\ \A r, s \in lock : r = s

\* The Add of tenant t that is halfway, if there is one.
HalfAdded(t) == IF \E r \in lock : req[r].tenant = t THEN 1 ELSE 0

\* A tenant's total is what its models add up to, but for an Add halfway.
CountedByModel ==
    \A t \in Tenants : total[t].requests = Total(byModel[t], Models) + HalfAdded(t)

\* The total on the page is at most one ahead of what is on it and what is
\* still to be encoded.
PageAhead ==
    /\ page.pc = "list" =>
            page.requests <= Total(byModel[page.tenant], Models) + 1
    /\ page.pc = "models" =>
            page.requests <= page.listed + Total(byModel[page.tenant], page.left) + 1

\* Tokens in tenant t's usage whose cost is not yet recorded.
Unpaid(t) == [r \in Requests |->
                IF book[r].step \in {"models", "spend"} /\ req[r].tenant = t
                THEN book[r].tokens ELSE 0]

ChargedOnce ==
    \A t \in Tenants :
        paid[TenantKey(t)] + Total(Unpaid(t), Requests) <= total[t].tokens

AccountingInv ==
    /\ AccountingTypeOK /\ BookedInFlight /\ OneInAdd
    /\ CountedByModel /\ PageAhead /\ ChargedOnce
=============================================================================
