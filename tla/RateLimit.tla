------------------------------ MODULE RateLimit ------------------------------
(***************************************************************************)
(* Admission control: the RateLimit and TokenRateLimit middlewares, each   *)
(* in front of a MemoryLimiter (internal/ratelimit/memory.go), as wired in *)
(* cmd/aegisflow/main.go.                                                  *)
(*                                                                         *)
(* A limiter keeps one window object per key.  Allow finds or creates the  *)
(* object (double-checked locking over the map), then locks the object and *)
(* counts.  Each critical section is one step here.                        *)
(***************************************************************************)
EXTENDS Integers, Sums

CONSTANTS Requests,     \* HTTP requests being served concurrently
          Tenants,
          BodySizes,    \* request body sizes in bytes
          Floor,        \* Floor[l]: 60 requests, 100000 tokens (main.go)
          Quota,        \* Quota[l][t]: the tenant's configured rate limit
          Limit,        \* Limit[l]: the limit the limiter is built with
          Period,       \* time.Minute, in ticks
          MaxTime,      \* bound: length of the behaviours
          MaxWindows    \* bound: window objects allocated

Limiters == {"req", "tok"}

\* main.go builds both limiters with the highest of the tenants' quotas, or
\* the floor when that is higher.
HighestQuota(l) ==
    /\ Limit[l] \in {Floor[l]} \cup {Quota[l][t] : t \in Tenants}
    /\ Limit[l] >= Floor[l]
    /\ \A t \in Tenants : Limit[l] >= Quota[l][t]

ASSUME RateLimitAssumption ==
    /\ BodySizes \subseteq Nat
    /\ Floor \in [Limiters -> Nat]
    /\ Quota \in [Limiters -> [Tenants -> Nat]]
    /\ Limit \in [Limiters -> Nat]
    /\ \A l \in Limiters : HighestQuota(l)
    /\ Period \in Nat \ {0}
    /\ MaxTime \in Nat
    /\ MaxWindows \in Nat

Keys == Limiters \X Tenants      \* tenant.ID in one map, "tok:" + ID in the other
WinIds == 1 .. MaxWindows

VARIABLES
    clock,
    windows,   \* windows[k]: the window object of key k, 0 if none
    win,       \* win[w]: count and resetAt of window object w
    nextWin,   \* next object to allocate
    req,       \* what each request is doing
    spent,     \* history: cost admitted under k since its window was opened
    adm        \* history: adm[k][t] is the cost admitted under k at time t

vars == <<clock, windows, win, nextWin, req, spent, adm>>

Window == [count : Nat, resetAt : Int]

PCs == {"idle", "lookup", "create", "allow", "served", "denied"}

Request == [pc : PCs,
            lim : Limiters, tenant : Tenants, chat : BOOLEAN,
            tokens : Nat, w : 0 .. MaxWindows]

TypeOK ==
    /\ clock \in 0 .. MaxTime
    /\ windows \in [Keys -> 0 .. MaxWindows]
    /\ win \in [WinIds -> Window]
    /\ nextWin \in 1 .. MaxWindows + 1
    /\ req \in [Requests -> Request]
    /\ spent \in [Keys -> Nat]
    /\ adm \in [Keys -> [0 .. MaxTime -> Nat]]

Init ==
    /\ clock = 0
    /\ windows = [k \in Keys |-> 0]
    /\ win = [w \in WinIds |-> [count |-> 0, resetAt |-> 0]]
    /\ nextWin = 1
    /\ req \in [Requests -> {[pc |-> "idle", lim |-> "req", tenant |-> t,
                              chat |-> FALSE, tokens |-> 1, w |-> 0] :
                                t \in Tenants}]
    /\ spent = [k \in Keys |-> 0]
    /\ adm = [k \in Keys |-> [t \in 0 .. MaxTime |-> 0]]

-----------------------------------------------------------------------------
(* Middlewares *)

Key(r) == <<req[r].lim, req[r].tenant>>

\* The token middleware's estimate from the body it has read.
EstimatedTokens(size) == IF size \div 4 < 1 THEN 1 ELSE size \div 4

Cost(r) == IF req[r].lim = "req" THEN 1 ELSE req[r].tokens

\* An authenticated request reaches the RateLimit middleware.  Only
\* /v1/chat/completions goes through TokenRateLimit as well.
Arrive(r, t, size, chat) ==
    /\ req[r].pc \in {"idle", "served", "denied"}
    /\ req' = [req EXCEPT ![r] =
                [pc |-> "lookup", lim |-> "req", tenant |-> t, chat |-> chat,
                 tokens |-> EstimatedTokens(size), w |-> 0]]
    /\ UNCHANGED <<clock, windows, win, nextWin, spent, adm>>

-----------------------------------------------------------------------------
(* MemoryLimiter *)

Goto(r, pc, w) == req' = [req EXCEPT ![r] = [req[r] EXCEPT !.pc = pc, !.w = w]]

\* getOrCreate, under the read lock.
Lookup(r) ==
    /\ req[r].pc = "lookup"
    /\ Goto(r, IF windows[Key(r)] # 0 THEN "allow" ELSE "create",
            windows[Key(r)])
    /\ UNCHANGED <<clock, windows, win, nextWin, spent, adm>>

\* Mutant of Create: no second look under the write lock.
CreateUnchecked(r) ==
    /\ req[r].pc = "create"
    /\ nextWin <= MaxWindows
    /\ windows' = [windows EXCEPT ![Key(r)] = nextWin]
    /\ win' = [win EXCEPT ![nextWin] =
                [count |-> 0, resetAt |-> clock + Period]]
    /\ nextWin' = nextWin + 1
    /\ Goto(r, "allow", nextWin)
    /\ UNCHANGED <<clock, spent, adm>>

\* getOrCreate, under the write lock: look again, then create.
Create(r) ==
    /\ req[r].pc = "create"
    /\ \/ /\ windows[Key(r)] # 0
          /\ Goto(r, "allow", windows[Key(r)])
          /\ UNCHANGED <<windows, win, nextWin>>
       \/ /\ windows[Key(r)] = 0
          /\ nextWin <= MaxWindows
          /\ windows' = [windows EXCEPT ![Key(r)] = nextWin]
          /\ win' = [win EXCEPT ![nextWin] =
                        [count |-> 0, resetAt |-> clock + Period]]
          /\ nextWin' = nextWin + 1
          /\ Goto(r, "allow", nextWin)
    /\ UNCHANGED <<clock, spent, adm>>

\* The window as Allow sees it: run out ones start again at zero.
Fresh(w) ==
    IF clock > win[w].resetAt
    THEN [count |-> 0, resetAt |-> clock + Period] ELSE win[w]

SpentNow(r) == IF clock > win[req[r].w].resetAt THEN 0 ELSE spent[Key(r)]

\* Mutant of Deny: the count is compared before the window is reset.
DenyStale(r) ==
    /\ req[r].pc = "allow"
    /\ win[req[r].w].count + Cost(r) > Limit[req[r].lim]
    /\ win' = [win EXCEPT ![req[r].w] = Fresh(req[r].w)]
    /\ spent' = [spent EXCEPT ![Key(r)] = SpentNow(r)]
    /\ Goto(r, "denied", req[r].w)
    /\ UNCHANGED <<clock, windows, nextWin, adm>>

\* Allow, under the window's lock; then the middleware's answer.
Deny(r) ==
    /\ req[r].pc = "allow"
    /\ Fresh(req[r].w).count + Cost(r) > Limit[req[r].lim]
    /\ win' = [win EXCEPT ![req[r].w] = Fresh(req[r].w)]
    /\ spent' = [spent EXCEPT ![Key(r)] = SpentNow(r)]
    /\ Goto(r, "denied", req[r].w)
    /\ UNCHANGED <<clock, windows, nextWin, adm>>

Admit(r) ==
    /\ req[r].pc = "allow"
    /\ Fresh(req[r].w).count + Cost(r) <= Limit[req[r].lim]
    /\ win' = [win EXCEPT ![req[r].w] =
                [count   |-> Fresh(req[r].w).count + Cost(r),
                 resetAt |-> Fresh(req[r].w).resetAt]]
    /\ spent' = [spent EXCEPT ![Key(r)] = SpentNow(r) + Cost(r)]
    /\ adm' = [adm EXCEPT ![Key(r)] =
                [adm[Key(r)] EXCEPT ![clock] = adm[Key(r)][clock] + Cost(r)]]
    /\ \/ /\ req[r].lim = "req" /\ req[r].chat
          /\ req' = [req EXCEPT ![r] = [req[r] EXCEPT !.lim = "tok",
                                                     !.pc  = "lookup"]]
       \/ /\ ~(req[r].lim = "req" /\ req[r].chat)
          /\ Goto(r, "served", req[r].w)
    /\ UNCHANGED <<clock, windows, nextWin>>

Tick ==
    /\ clock < MaxTime
    /\ clock' = clock + 1
    /\ UNCHANGED <<windows, win, nextWin, req, spent, adm>>

Next ==
    \/ \E r \in Requests :
        \/ \E t \in Tenants, size \in BodySizes, chat \in BOOLEAN :
                Arrive(r, t, size, chat)
        \/ Lookup(r)
        \/ Create(r)
        \/ Deny(r)
        \/ Admit(r)
    \/ Tick

Spec == Init /\ [][Next]_vars

-----------------------------------------------------------------------------
(* Properties *)

\* No admitted request escapes the count: whatever requests race to create a
\* key's window, what was admitted since the window opened is exactly its
\* count, and within the limit (memory.go getOrCreate and Allow).
NoOverspend ==
    \A k \in Keys : /\ windows[k] # 0 => win[windows[k]].count = spent[k]
                    /\ spent[k] <= Limit[k[1]]

\* Cost admitted under key k during the n ticks that end now.
Recent(k, n) ==
    Total(adm[k], {t \in 0 .. clock : t > clock - n})

\* What README.md and CHANGELOG.md say of the limiter, a sliding window: any
\* stretch of one period admits at most the limit.  Allow counts in windows
\* that start one after the other (memory.go), and the end of one and the
\* beginning of the next fall into one period: TLC finds this violated.
SlidingWindow == \A k \in Keys : Recent(k, Period) <= Limit[k[1]]

\* What does hold of any stretch of one period (RateLimitBurst).
BurstBound == \A k \in Keys : Recent(k, Period) <= 2 * Limit[k[1]]

\* A 429 is never the work of a stale count: the cost admitted during the
\* last period, plus the request's own, really exceeds the limit.
DenialJustified ==
    [][\A r \in Requests :
        req[r].pc = "allow" /\ req'[r].pc = "denied" =>
            Recent(Key(r), Period + 1) + Cost(r) > Limit[req[r].lim]]_vars

-----------------------------------------------------------------------------
(* The inductive invariant behind the theorems of RateLimitProofs *)

\* There is one window object per key, and everyone counts on that one.
OneWindowPerKey ==
    /\ \A k \in Keys : windows[k] < nextWin
    /\ \A k \in Keys : windows[k] = 0 => spent[k] = 0
    /\ \A j, k \in Keys : windows[j] = windows[k] /\ windows[k] # 0 => j = k
    /\ \A r \in Requests : req[r].pc = "allow" =>
            req[r].w # 0 /\ req[r].w = windows[Key(r)]

IndInv == TypeOK /\ OneWindowPerKey /\ NoOverspend

\* When the window of key k was opened, and the period before that.
OpenedAt(k) == win[windows[k]].resetAt - Period
Before(k) == {t \in 0 .. MaxTime : OpenedAt(k) - Period < t /\ t < OpenedAt(k)}

\* The window of k is where its history is: what was spent since it was opened
\* is what was admitted since then, nothing was admitted between its end and
\* its reset, and the period before its opening took no more than the limit.
HistoryOf(k) ==
    /\ \A t \in 0 .. MaxTime :
            t > clock \/ windows[k] = 0 \/ t > win[windows[k]].resetAt => adm[k][t] = 0
    /\ windows[k] # 0 =>
            /\ 0 <= OpenedAt(k) /\ OpenedAt(k) <= clock
            /\ spent[k] = Total(adm[k], OpenedAt(k) .. MaxTime)
            /\ Total(adm[k], Before(k)) <= Limit[k[1]]

HistoryInv == \A k \in Keys : HistoryOf(k)
=============================================================================
