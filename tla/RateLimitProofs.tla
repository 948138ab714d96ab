--------------------------- MODULE RateLimitProofs ---------------------------
(***************************************************************************)
(* Theorems about the rate limiter, for every number of requests, tenants, *)
(* limits and periods.                                                     *)
(***************************************************************************)
EXTENDS RateLimit, SumTheorems

\* The fields of a well-typed request.
LEMMA RequestFields ==
  ASSUME TypeOK, NEW r \in Requests
  PROVE  /\ req[r] \in Request
         /\ Key(r) \in Keys
         /\ Cost(r) \in Nat
         /\ req[r].lim \in Limiters
         /\ req[r].w \in 0 .. MaxWindows
         /\ Key(r)[1] = req[r].lim
<1>1. req[r] \in Request
  BY DEF TypeOK
<1>2. /\ req[r].lim \in Limiters /\ req[r].tenant \in Tenants
      /\ req[r].w \in 0 .. MaxWindows /\ req[r].tokens \in Nat
  BY <1>1 DEF Request
<1>3. Cost(r) \in Nat
  BY <1>2 DEF Cost
<1> QED BY <1>1, <1>2, <1>3 DEF Key, Keys

\* Allow's view of a window is a window.
LEMMA FreshType ==
  ASSUME TypeOK, NEW w \in WinIds
  PROVE  Fresh(w) \in Window /\ Fresh(w).count \in Nat /\ Fresh(w).resetAt \in Int
<1>1. win[w] \in Window /\ clock \in Int
  BY RateLimitAssumption DEF TypeOK
<1>2. clock + Period \in Int
  BY <1>1, RateLimitAssumption
<1>3. PICK x : x = clock + Period
  OBVIOUS
<1>4. Fresh(w) = win[w] \/ Fresh(w) = [count |-> 0, resetAt |-> x]
  BY <1>3 DEF Fresh
<1> QED BY <1>1, <1>2, <1>3, <1>4 DEF Window

\* Moving a request on keeps it a request, and leaves the others alone.
LEMMA GotoType ==
  ASSUME TypeOK, NEW r \in Requests, NEW pc \in PCs, NEW w \in 0 .. MaxWindows,
         Goto(r, pc, w)
  PROVE  /\ req' \in [Requests -> Request]
         /\ req'[r].pc = pc /\ req'[r].w = w
         /\ req'[r].lim = req[r].lim /\ req'[r].tenant = req[r].tenant
         /\ \A q \in Requests : q # r => req'[q] = req[q]
<1>1. req[r] \in Request
  BY DEF TypeOK
<1>2. [req[r] EXCEPT !.pc = pc, !.w = w] \in Request
  BY <1>1, Zenon DEF Request
<1>3. req' = [req EXCEPT ![r] = [req[r] EXCEPT !.pc = pc, !.w = w]]
  BY DEF Goto
<1>4. /\ req' \in [Requests -> Request]
      /\ req'[r] = [req[r] EXCEPT !.pc = pc, !.w = w]
      /\ \A q \in Requests : q # r => req'[q] = req[q]
  BY <1>2, <1>3 DEF TypeOK
<1> QED BY <1>1, <1>4 DEF Request

\* Every step of the middlewares and the limiters keeps the types, provided
\* a request that is about to count holds a window.
LEMMA TypeStep ==
  ASSUME TypeOK, OneWindowPerKey, [Next]_vars
  PROVE  TypeOK'
<1>1. ASSUME NEW r \in Requests, NEW t \in Tenants, NEW size \in BodySizes,
             NEW chat \in BOOLEAN, Arrive(r, t, size, chat)
      PROVE  TypeOK'
  <2>1. EstimatedTokens(size) \in Nat
    BY RateLimitAssumption DEF EstimatedTokens
  <2>2. PICK n \in Nat : n = EstimatedTokens(size)
    BY <2>1
  <2>3. 0 \in 0 .. MaxWindows
    BY RateLimitAssumption
  <2>4. [pc |-> "lookup", lim |-> "req", tenant |-> t, chat |-> chat,
         tokens |-> n, w |-> 0] \in Request
    BY <2>3 DEF Request, Limiters, PCs
  <2>5. req' \in [Requests -> Request]
    BY <1>1, <2>2, <2>4 DEF Arrive, TypeOK
  <2> QED BY <1>1, <2>5 DEF Arrive, TypeOK
<1>2. ASSUME NEW r \in Requests, Lookup(r)
      PROVE  TypeOK'
  <2>1. windows[Key(r)] \in 0 .. MaxWindows
    BY RequestFields DEF TypeOK
  <2>2. req' \in [Requests -> Request]
    BY <1>2, <2>1, GotoType DEF Lookup, PCs
  <2> QED BY <1>2, <2>2 DEF Lookup, TypeOK
<1>3. ASSUME NEW r \in Requests, Create(r)
      PROVE  TypeOK'
  <2>1. CASE windows[Key(r)] # 0
    <3>1. windows[Key(r)] \in 0 .. MaxWindows
      BY RequestFields DEF TypeOK
    <3>2. req' \in [Requests -> Request]
      BY <1>3, <2>1, <3>1, GotoType DEF Create, PCs
    <3> QED BY <1>3, <2>1, <3>2 DEF Create, TypeOK
  <2>2. CASE windows[Key(r)] = 0
    <3>1. /\ nextWin \in 0 .. MaxWindows
          /\ nextWin' \in 1 .. MaxWindows + 1
      <4>1. nextWin \in 1 .. MaxWindows + 1 /\ nextWin <= MaxWindows
            /\ nextWin' = nextWin + 1
        BY <1>3, <2>2 DEF Create, TypeOK
      <4> QED BY <4>1, RateLimitAssumption
    <3>2. PICK x \in Int : x = clock + Period
      BY RateLimitAssumption DEF TypeOK
    <3>3. win' \in [WinIds -> Window]
      <4>1. [count |-> 0, resetAt |-> x] \in Window
        BY DEF Window
      <4> QED BY <1>3, <2>2, <3>2, <4>1 DEF Create, TypeOK
    <3>4. req' \in [Requests -> Request]
      BY <1>3, <2>2, <3>1, GotoType DEF Create, PCs
    <3>5. windows' \in [Keys -> 0 .. MaxWindows]
      BY <1>3, <2>2, <3>1 DEF Create, TypeOK
    <3> QED BY <1>3, <3>1, <3>3, <3>4, <3>5 DEF Create, TypeOK
  <2> QED BY <2>1, <2>2
<1>4. ASSUME NEW r \in Requests, Deny(r)
      PROVE  TypeOK'
  <2>1. req[r].w \in WinIds
    BY <1>4, RequestFields, RateLimitAssumption
       DEF Deny, OneWindowPerKey, WinIds
  <2>2. win' \in [WinIds -> Window]
    BY <1>4, <2>1, FreshType DEF Deny, TypeOK
  <2>3. spent' \in [Keys -> Nat]
    <3>1. SpentNow(r) \in Nat
      BY RequestFields DEF SpentNow, TypeOK
    <3> QED BY <1>4, <3>1 DEF Deny, TypeOK
  <2>4. req' \in [Requests -> Request]
    BY <1>4, RequestFields, GotoType DEF Deny, PCs
  <2> QED BY <1>4, <2>2, <2>3, <2>4 DEF Deny, TypeOK
<1>5. ASSUME NEW r \in Requests, Admit(r)
      PROVE  TypeOK'
  <2>1. req[r].w \in WinIds
    BY <1>5, RequestFields, RateLimitAssumption
       DEF Admit, OneWindowPerKey, WinIds
  <2>2. win' \in [WinIds -> Window]
    <3>1. PICK n \in Nat, x \in Int : n = Fresh(req[r].w).count + Cost(r)
                                      /\ x = Fresh(req[r].w).resetAt
      BY <2>1, FreshType, RequestFields
    <3>2. [count |-> n, resetAt |-> x] \in Window
      BY DEF Window
    <3> QED BY <1>5, <3>1, <3>2 DEF Admit, TypeOK
  <2>3. spent' \in [Keys -> Nat]
    <3>1. SpentNow(r) \in Nat
      BY RequestFields DEF SpentNow, TypeOK
    <3>2. SpentNow(r) + Cost(r) \in Nat
      BY <3>1, RequestFields
    <3> QED BY <1>5, <3>2 DEF Admit, TypeOK
  <2>4. adm' \in [Keys -> [0 .. MaxTime -> Nat]]
    <3>1. adm[Key(r)] \in [0 .. MaxTime -> Nat] /\ clock \in 0 .. MaxTime
      BY RequestFields DEF TypeOK
    <3>2. adm[Key(r)][clock] + Cost(r) \in Nat
      <4>1. adm[Key(r)][clock] \in Nat /\ Cost(r) \in Nat
        BY <3>1, RequestFields
      <4> QED BY <4>1
    <3>3. [adm[Key(r)] EXCEPT ![clock] = adm[Key(r)][clock] + Cost(r)]
              \in [0 .. MaxTime -> Nat]
      BY <3>1, <3>2
    <3> QED BY <1>5, <3>3 DEF Admit, TypeOK
  <2>5. req' \in [Requests -> Request]
    <3>1. [req[r] EXCEPT !.lim = "tok", !.pc = "lookup"] \in Request
      <4>1. req[r] \in Request /\ "tok" \in Limiters /\ "lookup" \in PCs
        BY RequestFields DEF Limiters, PCs
      <4> QED BY <4>1, Zenon DEF Request
    <3>2. CASE Goto(r, "served", req[r].w)
      BY <3>2, RequestFields, GotoType DEF PCs
    <3> QED BY <1>5, <3>1, <3>2 DEF Admit, TypeOK
  <2> QED BY <1>5, <2>2, <2>3, <2>4, <2>5 DEF Admit, TypeOK
<1>6. CASE Tick
  BY <1>6, RateLimitAssumption DEF Tick, TypeOK
<1>7. CASE UNCHANGED vars
  BY <1>7 DEF vars, TypeOK
<1> QED BY <1>1, <1>2, <1>3, <1>4, <1>5, <1>6, <1>7 DEF Next
\* A request that still has the same key, and is not counting on another
\* window than before, keeps its part of the invariant.
LEMMA KeyStays ==
  ASSUME NEW q \in Requests, req'[q].lim = req[q].lim,
         req'[q].tenant = req[q].tenant
  PROVE  Key(q)' = Key(q)
  BY DEF Key

\* Double-checked locking gives a key one window, so nothing is counted on
\* a window that another request has replaced.
LEMMA InvStep ==
  ASSUME IndInv, TypeOK', [Next]_vars
  PROVE  OneWindowPerKey' /\ NoOverspend'
<1> USE DEF IndInv
<1>1. ASSUME NEW r \in Requests, NEW t \in Tenants, NEW size \in BodySizes,
             NEW chat \in BOOLEAN, Arrive(r, t, size, chat)
      PROVE  OneWindowPerKey' /\ NoOverspend'
  <2>1. \A q \in Requests : req'[q].pc = "lookup" \/ req'[q] = req[q]
    BY <1>1 DEF Arrive, TypeOK
  <2>2. UNCHANGED <<windows, win, nextWin, spent>>
    BY <1>1 DEF Arrive
  <2> QED BY <2>1, <2>2 DEF OneWindowPerKey, NoOverspend, Key
<1>2. ASSUME NEW r \in Requests, Lookup(r)
      PROVE  OneWindowPerKey' /\ NoOverspend'
  <2>1. windows[Key(r)] \in 0 .. MaxWindows
    BY RequestFields DEF TypeOK
  <2>2. /\ req'[r].pc = "allow" => windows[Key(r)] # 0
        /\ req'[r].w = windows[Key(r)]
        /\ req'[r].lim = req[r].lim /\ req'[r].tenant = req[r].tenant
        /\ \A q \in Requests : q # r => req'[q] = req[q]
    BY <1>2, <2>1, GotoType DEF Lookup, PCs
  <2>3. UNCHANGED <<windows, win, nextWin, spent>>
    BY <1>2 DEF Lookup
  <2> QED BY <2>2, <2>3 DEF OneWindowPerKey, NoOverspend, Key
<1>3. ASSUME NEW r \in Requests, Create(r)
      PROVE  OneWindowPerKey' /\ NoOverspend'
  <2>1. CASE windows[Key(r)] # 0
    <3>1. windows[Key(r)] \in 0 .. MaxWindows
      BY RequestFields DEF TypeOK
    <3>2. /\ req'[r].w = windows[Key(r)]
          /\ req'[r].lim = req[r].lim /\ req'[r].tenant = req[r].tenant
          /\ \A q \in Requests : q # r => req'[q] = req[q]
      BY <1>3, <2>1, <3>1, GotoType DEF Create, PCs
    <3>3. UNCHANGED <<windows, win, nextWin, spent>>
      BY <1>3, <2>1 DEF Create
    <3> QED BY <2>1, <3>2, <3>3 DEF OneWindowPerKey, NoOverspend, Key
  <2>2. CASE windows[Key(r)] = 0
    <3>1. /\ nextWin \in 0 .. MaxWindows /\ nextWin # 0 /\ nextWin \in WinIds
          /\ nextWin < nextWin + 1
          /\ \A k \in Keys : windows[k] < nextWin + 1 /\ windows[k] # nextWin
      <4>1. nextWin \in 1 .. MaxWindows + 1 /\ nextWin <= MaxWindows
        BY <1>3, <2>2 DEF Create, TypeOK
      <4>2. \A k \in Keys : windows[k] \in 0 .. MaxWindows /\ windows[k] < nextWin
        BY DEF TypeOK, OneWindowPerKey
      <4> QED BY <4>1, <4>2, RateLimitAssumption DEF WinIds
    <3>2. /\ req'[r].w = nextWin
          /\ req'[r].lim = req[r].lim /\ req'[r].tenant = req[r].tenant
          /\ \A q \in Requests : q # r => req'[q] = req[q]
      BY <1>3, <2>2, <3>1, GotoType DEF Create, PCs
    <3>3. /\ windows'[Key(r)] = nextWin
          /\ \A k \in Keys : k # Key(r) => windows'[k] = windows[k]
          /\ win'[nextWin].count = 0
          /\ \A w \in WinIds : w # nextWin => win'[w] = win[w]
          /\ nextWin' = nextWin + 1 /\ spent' = spent
      BY <1>3, <2>2, <3>1, RequestFields DEF Create, TypeOK
    <3>4. \A q \in Requests : Key(q)' = Key(q) /\ Key(q) \in Keys
      BY <3>2, RequestFields DEF Key
    <3>5. \A q \in Requests : q # r /\ req[q].pc = "allow" => Key(q) # Key(r)
      BY <2>2 DEF OneWindowPerKey
    <3>6. OneWindowPerKey'
      BY <2>2, <3>1, <3>2, <3>3, <3>4, <3>5 DEF OneWindowPerKey
    <3>7. NoOverspend'
      <4>1. \A k \in Keys : windows[k] # 0 => windows[k] \in WinIds
        BY RateLimitAssumption DEF TypeOK, WinIds
      <4> QED BY <2>2, <3>1, <3>3, <4>1 DEF NoOverspend, OneWindowPerKey
    <3> QED BY <3>6, <3>7
  <2> QED BY <2>1, <2>2
<1>4. ASSUME NEW r \in Requests, NEW n \in Nat, req[r].pc = "allow",
             win'[req[r].w].count = n,
             \A w \in WinIds : w # req[r].w => win'[w] = win[w],
             spent' = [spent EXCEPT ![Key(r)] = n], n <= Limit[req[r].lim],
             windows' = windows, nextWin' = nextWin,
             req'[r].pc # "allow",
             \A q \in Requests : q # r => req'[q] = req[q]
      PROVE  OneWindowPerKey' /\ NoOverspend'
  <2>1. req[r].w = windows[Key(r)] /\ req[r].w # 0
    BY <1>4 DEF OneWindowPerKey
  <2>2. /\ spent'[Key(r)] = n
        /\ \A k \in Keys : k # Key(r) => spent'[k] = spent[k]
        /\ Key(r) \in Keys /\ Key(r)[1] = req[r].lim
    BY <1>4, RequestFields DEF TypeOK
  <2>3. \A k \in Keys : windows[k] # 0 => windows[k] \in WinIds
    BY RateLimitAssumption DEF TypeOK, WinIds
  <2>4. OneWindowPerKey'
    BY <1>4, <2>1, <2>2 DEF OneWindowPerKey, Key
  <2>5. \A k \in Keys : k # Key(r) /\ windows[k] # 0 => win'[windows[k]] = win[windows[k]]
    BY <1>4, <2>1, <2>2, <2>3 DEF OneWindowPerKey
  <2>6. NoOverspend'
    BY <1>4, <2>1, <2>2, <2>5 DEF NoOverspend
  <2> QED BY <2>4, <2>6
<1>5. ASSUME NEW r \in Requests, req[r].pc = "allow"
      PROVE  /\ req[r].w \in WinIds
             /\ SpentNow(r) = Fresh(req[r].w).count
             /\ SpentNow(r) \in Nat
             /\ SpentNow(r) <= Limit[req[r].lim]
  <2>1. req[r].w = windows[Key(r)] /\ req[r].w # 0
    BY <1>5 DEF OneWindowPerKey
  <2>2. Key(r) \in Keys /\ Key(r)[1] = req[r].lim /\ req[r].lim \in Limiters
    BY RequestFields
  <2>3. req[r].w \in WinIds
    BY <2>1, <2>2, RateLimitAssumption DEF TypeOK, WinIds
  <2>4. win[req[r].w].count = spent[Key(r)] /\ spent[Key(r)] <= Limit[req[r].lim]
        /\ spent[Key(r)] \in Nat /\ Limit[req[r].lim] \in Nat
    BY <2>1, <2>2, RateLimitAssumption DEF NoOverspend, TypeOK
  <2>5. PICK x : x = clock + Period
    OBVIOUS
  <2>6. CASE clock > win[req[r].w].resetAt
    <3>1. Fresh(req[r].w) = [count |-> 0, resetAt |-> x] /\ SpentNow(r) = 0
      BY <2>5, <2>6 DEF Fresh, SpentNow
    <3> QED BY <2>3, <2>4, <3>1
  <2>7. CASE ~(clock > win[req[r].w].resetAt)
    BY <2>3, <2>4, <2>7 DEF Fresh, SpentNow
  <2> QED BY <2>6, <2>7
<1>6. ASSUME NEW r \in Requests, Deny(r)
      PROVE  OneWindowPerKey' /\ NoOverspend'
  <2>1. req[r].pc = "allow" /\ req[r].w \in 0 .. MaxWindows
    BY <1>6, RequestFields DEF Deny
  <2>2. req'[r].pc = "denied" /\ \A q \in Requests : q # r => req'[q] = req[q]
    BY <1>6, <2>1, GotoType DEF Deny, PCs
  <2>3. /\ win'[req[r].w].count = SpentNow(r)
        /\ \A w \in WinIds : w # req[r].w => win'[w] = win[w]
        /\ spent' = [spent EXCEPT ![Key(r)] = SpentNow(r)]
        /\ windows' = windows /\ nextWin' = nextWin
    BY <1>5, <1>6, <2>1 DEF Deny, TypeOK
  <2> QED BY <1>4, <1>5, <2>1, <2>2, <2>3
<1>7. ASSUME NEW r \in Requests, Admit(r)
      PROVE  OneWindowPerKey' /\ NoOverspend'
  <2>1. req[r].pc = "allow" /\ req[r].w \in 0 .. MaxWindows
        /\ Cost(r) \in Nat
    BY <1>7, RequestFields DEF Admit
  <2>2. req'[r].pc # "allow" /\ \A q \in Requests : q # r => req'[q] = req[q]
    <3>1. CASE Goto(r, "served", req[r].w)
      BY <2>1, <3>1, GotoType DEF PCs
    <3>2. CASE req' = [req EXCEPT ![r] = [req[r] EXCEPT !.lim = "tok",
                                                      !.pc  = "lookup"]]
      BY <3>2, RequestFields DEF TypeOK, Request
    <3> QED BY <1>7, <3>1, <3>2 DEF Admit
  <2>3. PICK n \in Nat : n = SpentNow(r) + Cost(r)
    BY <1>5, <2>1
  <2>4. /\ win'[req[r].w].count = n
        /\ \A w \in WinIds : w # req[r].w => win'[w] = win[w]
        /\ spent' = [spent EXCEPT ![Key(r)] = n]
        /\ windows' = windows /\ nextWin' = nextWin
        /\ n <= Limit[req[r].lim]
    BY <1>5, <1>7, <2>1, <2>3 DEF Admit, TypeOK
  <2> QED BY <1>4, <2>1, <2>2, <2>4
<1>8. CASE Tick
  BY <1>8 DEF Tick, OneWindowPerKey, NoOverspend, Key
<1>9. CASE UNCHANGED vars
  BY <1>9 DEF vars, OneWindowPerKey, NoOverspend, Key
<1> QED BY <1>1, <1>2, <1>3, <1>6, <1>7, <1>8, <1>9 DEF Next

-----------------------------------------------------------------------------
(* The theorems *)

\* The limiters start without windows.
LEMMA InvInit == Init => IndInv
<1> SUFFICES ASSUME Init PROVE IndInv
  OBVIOUS
<1>1. /\ 0 \in 0 .. MaxTime /\ 0 \in 0 .. MaxWindows /\ 1 \in 1 .. MaxWindows + 1
      /\ 0 \in Nat /\ 0 \in Int /\ 0 < 1
      /\ \A l \in Limiters : 0 <= Limit[l]
  BY RateLimitAssumption
<1>2. ASSUME NEW t \in Tenants
      PROVE  [pc |-> "idle", lim |-> "req", tenant |-> t, chat |-> FALSE,
              tokens |-> 1, w |-> 0] \in Request
  BY <1>1 DEF Request, PCs, Limiters
<1>3. req \in [Requests -> Request] /\ \A r \in Requests : req[r].pc = "idle"
  BY <1>2 DEF Init
<1>4. TypeOK
  BY <1>1, <1>3 DEF Init, TypeOK, Window
<1>5. OneWindowPerKey /\ NoOverspend
  BY <1>1, <1>3 DEF Init, OneWindowPerKey, NoOverspend, Keys
<1> QED BY <1>4, <1>5 DEF IndInv

\* The inductive invariant holds in every state the limiters reach.
THEOREM RateLimitInvariant == Spec => []IndInv
<1>1. IndInv /\ [Next]_vars => IndInv'
  BY TypeStep, InvStep DEF IndInv
<1> QED BY <1>1, InvInit, PTL DEF Spec

\* Windows, requests and counters stay well formed.
THEOREM RateLimitTypes == Spec => []TypeOK
<1>1. IndInv => TypeOK
  BY DEF IndInv
<1> QED BY <1>1, RateLimitInvariant, PTL

\* However many requests race to create a key's window, everything admitted
\* since the window opened is counted on it and stays within the limit.
THEOREM RateLimitNoOverspend == Spec => []NoOverspend
<1>1. IndInv => NoOverspend
  BY DEF IndInv
<1> QED BY <1>1, RateLimitInvariant, PTL

-----------------------------------------------------------------------------
(* The history of a window *)

Times == 0 .. MaxTime

\* Any set of times is one a total can be taken over.
LEMMA AdmittedOver ==
  ASSUME NEW f \in [Times -> Nat], NEW S \in SUBSET Times
  PROVE  /\ IsFiniteSet(S) /\ Total(f, S) \in Nat
         /\ \A t \in S : f[t] \in Nat /\ f[t] \in Int
         /\ \A R \in SUBSET S : Total(f, R) <= Total(f, S)
<1>1. IsFiniteSet(Times)
  BY RateLimitAssumption, FS_Interval DEF Times
<1>2. IsFiniteSet(S)
  BY <1>1, FS_Subset
<1>3. \A t \in S : f[t] \in Nat
  OBVIOUS
<1>4. ASSUME NEW R \in SUBSET S PROVE Total(f, R) <= Total(f, S)
  BY <1>2, <1>3, TotalSubset
<1> QED BY <1>2, <1>3, <1>4, TotalNat

\* Admitting cost c now adds c to what is admitted in a set of times that
\* has the present, and nothing to one that has not.
LEMMA AdmitNow ==
  ASSUME NEW f \in [Times -> Nat], NEW g \in [Times -> Nat],
         NEW now \in Times, NEW c \in Nat, g[now] = f[now] + c,
         \A t \in Times : t # now => g[t] = f[t],
         NEW S \in SUBSET Times
  PROVE  Total(g, S) = Total(f, S) + IF now \in S THEN c ELSE 0
<1>1. /\ IsFiniteSet(S) /\ Total(f, S) \in Nat
      /\ \A t \in S : f[t] \in Nat /\ f[t] \in Int /\ g[t] \in Int
  BY AdmittedOver
<1>2. CASE now \in S
  <2>1. Total(g, S) = Total(f, S) + g[now] - f[now]
    <3>1. \A t \in S \ {now} : g[t] = f[t]
      OBVIOUS
    <3> QED BY <1>1, <1>2, <3>1, TotalUpdate
  <2>2. f[now] \in Nat
    OBVIOUS
  <2> QED BY <1>1, <1>2, <2>1, <2>2
<1>3. CASE now \notin S
  <2>1. \A t \in S : f[t] \in Int /\ g[t] = f[t]
    BY <1>1, <1>3
  <2>2. Total(g, S) = Total(f, S)
    BY <1>1, <2>1, TotalAgree
  <2> QED BY <1>1, <1>3, <2>2
<1> QED BY <1>2, <1>3

\* The types of a key's window and history.
LEMMA KeyFields ==
  ASSUME TypeOK, NEW k \in Keys
  PROVE  /\ clock \in Times /\ clock \in Int
         /\ adm[k] \in [Times -> Nat] /\ spent[k] \in Nat
         /\ Limit[k[1]] \in Nat /\ Period \in Nat /\ Period > 0
         /\ windows[k] # 0 => /\ windows[k] \in WinIds
                              /\ win[windows[k]].resetAt \in Int
                              /\ OpenedAt(k) \in Int
                              /\ win[windows[k]].resetAt = OpenedAt(k) + Period
<1>1. /\ clock \in Times /\ clock \in Int
      /\ adm[k] \in [Times -> Nat] /\ spent[k] \in Nat
      /\ Limit[k[1]] \in Nat /\ Period \in Nat /\ Period > 0
  BY RateLimitAssumption DEF TypeOK, Times, Keys
<1>2. ASSUME windows[k] # 0
      PROVE  windows[k] \in WinIds /\ win[windows[k]].resetAt \in Int
  <2>1. windows[k] \in WinIds
    BY <1>2, RateLimitAssumption DEF TypeOK, WinIds
  <2> QED BY <2>1 DEF TypeOK, Window
<1> QED BY <1>1, <1>2 DEF OpenedAt

\* A key whose window and history stay as they are keeps its invariant while
\* time goes on.
LEMMA HistoryKept ==
  ASSUME TypeOK, TypeOK', NEW k \in Keys, HistoryOf(k),
         windows'[k] = windows[k],
         windows[k] # 0 => win'[windows[k]].resetAt = win[windows[k]].resetAt,
         spent'[k] = spent[k], adm'[k] = adm[k], clock <= clock'
  PROVE  HistoryOf(k)'
<1>1. clock \in Int /\ clock' \in Int
  BY RateLimitAssumption DEF TypeOK
<1>2. CASE windows[k] = 0
  BY <1>1, <1>2 DEF HistoryOf
<1>3. CASE windows[k] # 0
  <2>1. OpenedAt(k)' = OpenedAt(k) /\ Before(k)' = Before(k) /\ OpenedAt(k) \in Int
    BY <1>3, KeyFields DEF OpenedAt, Before
  <2>2. \A t \in 0 .. MaxTime : t > clock' => t > clock
    BY <1>1
  <2> QED BY <1>1, <1>3, <2>1, <2>2 DEF HistoryOf
<1> QED BY <1>2, <1>3

\* A window opens on an empty history.
LEMMA HistoryOpens ==
  ASSUME TypeOK, TypeOK', NEW k \in Keys, HistoryOf(k), windows[k] = 0, spent[k] = 0,
         windows'[k] # 0, win'[windows'[k]].resetAt = clock + Period,
         spent'[k] = spent[k], adm'[k] = adm[k], clock' = clock
  PROVE  HistoryOf(k)'
<1>1. /\ clock \in Times /\ clock \in Int /\ 0 <= clock /\ adm[k] \in [Times -> Nat]
      /\ Limit[k[1]] \in Nat /\ Period \in Nat
  BY KeyFields DEF Times
<1>2. OpenedAt(k)' = clock
  BY <1>1 DEF OpenedAt
<1>3. \A t \in Times : adm[k][t] = 0
  BY DEF HistoryOf, Times
<1>4. ASSUME NEW S \in SUBSET Times PROVE Total(adm[k], S) = 0
  BY <1>1, <1>3, AdmittedOver, TotalZero
<1>5. Before(k)' \in SUBSET Times /\ clock .. MaxTime \in SUBSET Times
  BY <1>1, RateLimitAssumption DEF Before, Times
<1>6. Total(adm[k], Before(k)') = 0 /\ Total(adm[k], clock .. MaxTime) = 0
  BY <1>4, <1>5
<1>7. (OpenedAt(k)') .. MaxTime = clock .. MaxTime
  BY <1>2
<1> QED BY <1>1, <1>2, <1>3, <1>6, <1>7 DEF HistoryOf, Times

\* Allow on key k, with cost c admitted (0 when it is denied).
LEMMA HistoryCounts ==
  ASSUME TypeOK, TypeOK', NEW k \in Keys, HistoryOf(k), spent[k] <= Limit[k[1]],
         windows[k] # 0, windows'[k] = windows[k], clock' = clock, NEW c \in Nat,
         win'[windows[k]].resetAt = Fresh(windows[k]).resetAt,
         spent'[k] = (IF clock > win[windows[k]].resetAt THEN 0 ELSE spent[k]) + c,
         adm'[k][clock] = adm[k][clock] + c,
         \A t \in Times : t # clock => adm'[k][t] = adm[k][t]
  PROVE  HistoryOf(k)'
<1> DEFINE f == adm[k]
           g == adm'[k]
           reset == win[windows[k]].resetAt
<1>1. /\ clock \in Times /\ clock \in Int /\ 0 <= clock /\ clock <= MaxTime
      /\ f \in [Times -> Nat] /\ g \in [Times -> Nat]
      /\ spent[k] \in Nat /\ Limit[k[1]] \in Nat /\ Period \in Nat /\ Period > 0
      /\ OpenedAt(k) \in Int /\ reset \in Int /\ reset = OpenedAt(k) + Period
      /\ MaxTime \in Nat
  <2>1. g \in [Times -> Nat]
    BY DEF TypeOK, Times
  <2>2. clock \in Times /\ clock \in Int /\ f \in [Times -> Nat]
        /\ spent[k] \in Nat /\ Limit[k[1]] \in Nat /\ Period \in Nat /\ Period > 0
    BY KeyFields
  <2>3. OpenedAt(k) \in Int /\ reset \in Int /\ reset = OpenedAt(k) + Period
    BY KeyFields
  <2>4. MaxTime \in Nat /\ 0 <= clock /\ clock <= MaxTime
    BY <2>2, RateLimitAssumption DEF Times
  <2> QED BY <2>1, <2>2, <2>3, <2>4
<1>2. /\ \A t \in Times : t > clock \/ t > reset => f[t] = 0
      /\ 0 <= OpenedAt(k) /\ OpenedAt(k) <= clock
      /\ spent[k] = Total(f, OpenedAt(k) .. MaxTime)
      /\ Total(f, Before(k)) <= Limit[k[1]]
  BY DEF HistoryOf, Times
<1>3. ASSUME NEW S \in SUBSET Times
      PROVE  /\ Total(g, S) = Total(f, S) + IF clock \in S THEN c ELSE 0
             /\ Total(f, S) \in Nat
  <2>1. g[clock] = f[clock] + c /\ \A t \in Times : t # clock => g[t] = f[t]
    OBVIOUS
  <2> HIDE DEF f, g
  <2> QED BY <1>1, <2>1, AdmitNow, AdmittedOver
<1>4. CASE clock > reset
  <2>1. win'[windows[k]].resetAt = clock + Period
    BY <1>4 DEF Fresh
  <2>2. OpenedAt(k)' = clock
    BY <1>1, <2>1 DEF OpenedAt
  <2>3. \A t \in Times : t >= clock => f[t] = 0
    BY <1>1, <1>2, <1>4 DEF Times
  <2> DEFINE S == clock .. MaxTime
             B == {t \in 0 .. MaxTime : clock - Period < t /\ t < clock}
             W == OpenedAt(k) .. MaxTime
  <2>4. S \in SUBSET Times /\ clock \in S /\ W \in SUBSET Times
        /\ B \in SUBSET W /\ clock \notin B /\ B \in SUBSET Times
    <3>1. S \in SUBSET Times /\ clock \in S
      BY <1>1 DEF Times
    <3>2. W \in SUBSET Times
      BY <1>1, <1>2 DEF Times
    <3>3. clock \notin B /\ B \in SUBSET Times
      BY <1>1 DEF Times
    <3>4. ASSUME NEW t \in B PROVE t \in W
      <4>1. t \in Int /\ t <= MaxTime /\ clock - Period < t
        BY <1>1
      <4>2. OpenedAt(k) < t
        <5> HIDE DEF B, W
        <5> QED BY <1>1, <1>4, <4>1
      <4> QED BY <1>1, <4>1, <4>2
    <3> HIDE DEF S, B, W
    <3> QED BY <3>1, <3>2, <3>3, <3>4
  <2>5. Before(k)' = B /\ (OpenedAt(k)' .. MaxTime) = S
    BY <2>2 DEF Before
  <2> HIDE DEF B, W
  <2>6. Total(f, S) = 0
    <3>1. \A t \in S : t \in Times /\ t >= clock
      BY <1>1 DEF Times
    <3> HIDE DEF f, S
    <3>2. \A t \in S : f[t] = 0
      BY <2>3, <3>1
    <3> QED BY <1>1, <2>4, <3>2, AdmittedOver, TotalZero
  <2> HIDE DEF S
  <2>7. Total(g, S) = c
    BY <1>3, <2>4, <2>6
  <2>8. Total(g, B) <= Limit[k[1]]
    <3>1. Total(f, B) <= Total(f, W)
      <4> HIDE DEF f
      <4> QED BY <1>1, <2>4, AdmittedOver
    <3>2. Total(g, B) = Total(f, B) + 0 /\ Total(f, B) \in Nat
      BY <1>3, <2>4
    <3>3. Total(f, W) = spent[k]
      BY <1>2 DEF W
    <3> QED BY <1>1, <3>1, <3>2, <3>3
  <2>9. ASSUME NEW t \in Times, t > clock \/ t > clock + Period
        PROVE  g[t] = 0
    <3>1. t \in Int /\ t >= clock /\ t # clock
      BY <1>1, <2>9 DEF Times
    <3> QED BY <2>3, <3>1
  <2>10. spent'[k] = c
    BY <1>4
  <2> QED
    BY <1>1, <2>1, <2>2, <2>5, <2>7, <2>8, <2>9, <2>10 DEF HistoryOf, Times
<1>5. CASE ~(clock > reset)
  <2>1. win'[windows[k]].resetAt = reset
    BY <1>5 DEF Fresh
  <2>2. OpenedAt(k)' = OpenedAt(k) /\ Before(k)' = Before(k)
    BY <2>1 DEF OpenedAt, Before
  <2> DEFINE W == OpenedAt(k) .. MaxTime
  <2>3. W \in SUBSET Times /\ clock \in W /\ clock \notin Before(k)
        /\ Before(k) \in SUBSET Times
    <3>1. W \in SUBSET Times /\ clock \in W
      BY <1>1, <1>2 DEF Times
    <3>2. clock \notin Before(k) /\ Before(k) \in SUBSET Times
      <4>1. clock \in Int /\ OpenedAt(k) \in Int /\ OpenedAt(k) <= clock
        BY <1>1, <1>2
      <4> HIDE DEF f, g, reset, W
      <4> QED BY <4>1 DEF Times, Before
    <3> QED BY <3>1, <3>2
  <2>4. Total(g, W) = spent[k] + c
    <3>1. Total(f, W) = spent[k]
      BY <1>2
    <3> HIDE DEF W
    <3> QED BY <1>3, <2>3, <3>1
  <2>5. Total(g, Before(k)) = Total(f, Before(k))
    <3>1. Total(g, Before(k)) = Total(f, Before(k)) + 0 /\ Total(f, Before(k)) \in Nat
      BY <1>3, <2>3
    <3> QED BY <3>1
  <2>6. ASSUME NEW t \in Times, t > clock \/ t > reset
        PROVE  g[t] = 0
    <3>1. t # clock
      BY <1>1, <1>5, <2>6 DEF Times
    <3> QED BY <1>2, <2>6, <3>1
  <2>7. spent'[k] = spent[k] + c
    BY <1>5
  <2> QED
    BY <1>1, <1>2, <2>1, <2>2, <2>4, <2>5, <2>6, <2>7 DEF HistoryOf, Times
<1> QED BY <1>4, <1>5

\* Every step of the middlewares, the limiters and the clock.
LEMMA HistoryStep ==
  ASSUME IndInv, TypeOK', HistoryInv, [Next]_vars
  PROVE  HistoryInv'
<1> USE DEF IndInv
<1>0. clock \in Int /\ clock <= clock
  BY RateLimitAssumption DEF TypeOK
<1>1. ASSUME windows' = windows, win' = win, spent' = spent, adm' = adm, clock <= clock'
      PROVE  HistoryInv'
  BY <1>1, HistoryKept DEF HistoryInv
<1>2. ASSUME NEW r \in Requests,
             \/ \E t \in Tenants, size \in BodySizes, chat \in BOOLEAN :
                    Arrive(r, t, size, chat)
             \/ Lookup(r)
      PROVE  HistoryInv'
  <2>1. windows' = windows /\ win' = win /\ spent' = spent /\ adm' = adm /\ clock' = clock
    BY <1>2 DEF Arrive, Lookup
  <2> QED BY <1>0, <1>1, <2>1
<1>3. ASSUME NEW r \in Requests, Create(r)
      PROVE  HistoryInv'
  <2>1. CASE windows[Key(r)] # 0
    <3>1. windows' = windows /\ win' = win /\ spent' = spent /\ adm' = adm /\ clock' = clock
      BY <1>3, <2>1 DEF Create
    <3> QED BY <1>0, <1>1, <3>1
  <2>2. CASE windows[Key(r)] = 0
    <3>1. /\ nextWin \in WinIds /\ nextWin # 0
          /\ \A k \in Keys : windows[k] # nextWin
      <4>1. nextWin \in 1 .. MaxWindows + 1 /\ nextWin <= MaxWindows
        BY <1>3, <2>2 DEF Create, TypeOK
      <4>2. \A k \in Keys : windows[k] \in 0 .. MaxWindows /\ windows[k] < nextWin
        BY DEF TypeOK, OneWindowPerKey
      <4> QED BY <4>1, <4>2, RateLimitAssumption DEF WinIds
    <3>2. /\ windows'[Key(r)] = nextWin
          /\ \A k \in Keys : k # Key(r) => windows'[k] = windows[k]
          /\ win'[nextWin].resetAt = clock + Period
          /\ \A w \in WinIds : w # nextWin => win'[w] = win[w]
          /\ spent' = spent /\ adm' = adm /\ clock' = clock
      BY <1>3, <2>2, <3>1, RequestFields DEF Create, TypeOK
    <3>3. HistoryOf(Key(r))'
      <4>1. PICK k \in Keys : k = Key(r)
        BY RequestFields
      <4>2. HistoryOf(k) /\ spent[k] = 0 /\ windows[k] = 0
        BY <2>2, <4>1 DEF HistoryInv, OneWindowPerKey
      <4>3. HistoryOf(k)'
        BY <3>1, <3>2, <4>1, <4>2, HistoryOpens
      <4>4. Key(r)' = Key(r)
        <5>1. nextWin \in 0 .. MaxWindows
          BY <3>1, RateLimitAssumption DEF WinIds
        <5> QED BY <1>3, <2>2, <5>1, GotoType, KeyStays DEF Create, PCs
      <4> QED BY <4>1, <4>3, <4>4
    <3>4. ASSUME NEW k \in Keys, k # Key(r)
          PROVE  HistoryOf(k)'
      <4>1. windows[k] # 0 => win'[windows[k]] = win[windows[k]]
        BY <3>1, <3>2, KeyFields
      <4> QED BY <1>0, <3>2, <3>4, <4>1, HistoryKept DEF HistoryInv
    <3>5. Key(r)' = Key(r)
      <4>1. nextWin \in 0 .. MaxWindows
        BY <3>1, RateLimitAssumption DEF WinIds
      <4> QED BY <1>3, <2>2, <4>1, GotoType, KeyStays DEF Create, PCs
    <3> QED BY <3>3, <3>4, <3>5 DEF HistoryInv
  <2> QED BY <2>1, <2>2
<1>4. ASSUME NEW r \in Requests, NEW c \in Nat, req[r].pc = "allow",
             win'[req[r].w].resetAt = Fresh(req[r].w).resetAt,
             \A w \in WinIds : w # req[r].w => win'[w] = win[w],
             spent' = [spent EXCEPT ![Key(r)] = SpentNow(r) + c],
             adm'[Key(r)][clock] = adm[Key(r)][clock] + c,
             \A t \in Times : t # clock => adm'[Key(r)][t] = adm[Key(r)][t],
             \A k \in Keys : k # Key(r) => adm'[k] = adm[k],
             windows' = windows, clock' = clock
      PROVE  HistoryInv'
  <2>1. req[r].w = windows[Key(r)] /\ req[r].w # 0
    BY <1>4 DEF OneWindowPerKey
  <2>2. PICK k \in Keys : k = Key(r)
    BY RequestFields
  <2>3. /\ spent'[k] = SpentNow(r) + c
        /\ \A j \in Keys : j # k => spent'[j] = spent[j]
    BY <1>4, <2>2 DEF TypeOK
  <2>4. HistoryOf(k)'
    <3>1. spent'[k] = (IF clock > win[windows[k]].resetAt THEN 0 ELSE spent[k]) + c
      BY <2>1, <2>2, <2>3 DEF SpentNow
    <3>2. HistoryOf(k) /\ spent[k] <= Limit[k[1]]
      BY DEF HistoryInv, NoOverspend
    <3> QED BY <1>4, <2>1, <2>2, <3>1, <3>2, HistoryCounts
  <2>5. ASSUME NEW j \in Keys, j # k
        PROVE  HistoryOf(j)'
    <3>1. windows[j] # 0 => windows[j] # windows[k]
      BY <2>5 DEF OneWindowPerKey
    <3>2. windows[j] # 0 => win'[windows[j]] = win[windows[j]]
      BY <1>4, <2>1, <2>2, <3>1, KeyFields
    <3> QED BY <1>0, <1>4, <2>2, <2>3, <2>5, <3>2, HistoryKept DEF HistoryInv
  <2> QED BY <2>4, <2>5 DEF HistoryInv
<1>5. ASSUME NEW r \in Requests, req[r].pc = "allow"
      PROVE  req[r].w \in WinIds /\ Key(r) \in Keys /\ SpentNow(r) \in Nat
  <2>1. req[r].w # 0 /\ req[r].w \in 0 .. MaxWindows /\ Key(r) \in Keys
    BY <1>5, RequestFields DEF OneWindowPerKey
  <2> QED BY <2>1, RateLimitAssumption DEF WinIds, SpentNow, TypeOK
<1>6. ASSUME NEW r \in Requests, Deny(r)
      PROVE  HistoryInv'
  <2>1. req[r].pc = "allow"
    BY <1>6 DEF Deny
  <2>2. /\ win'[req[r].w].resetAt = Fresh(req[r].w).resetAt
        /\ \A w \in WinIds : w # req[r].w => win'[w] = win[w]
        /\ adm' = adm /\ windows' = windows /\ clock' = clock
        /\ spent' = [spent EXCEPT ![Key(r)] = SpentNow(r)]
    BY <1>5, <1>6, <2>1 DEF Deny, TypeOK
  <2>3. SpentNow(r) = SpentNow(r) + 0 /\ adm[Key(r)][clock] = adm[Key(r)][clock] + 0
    <3>1. adm[Key(r)][clock] \in Nat
      BY <1>5, <2>1 DEF TypeOK
    <3> QED BY <1>5, <2>1, <3>1
  <2>4. spent' = [spent EXCEPT ![Key(r)] = SpentNow(r) + 0]
    BY <2>2, <2>3
  <2>5. 0 \in Nat /\ adm'[Key(r)][clock] = adm[Key(r)][clock] + 0
    BY <2>2, <2>3
  <2> QED BY <1>4, <2>1, <2>2, <2>4, <2>5
<1>7. ASSUME NEW r \in Requests, Admit(r)
      PROVE  HistoryInv'
  <2>1. req[r].pc = "allow" /\ Cost(r) \in Nat
    BY <1>7, RequestFields DEF Admit
  <2>2. /\ win'[req[r].w].resetAt = Fresh(req[r].w).resetAt
        /\ \A w \in WinIds : w # req[r].w => win'[w] = win[w]
        /\ windows' = windows /\ clock' = clock
        /\ spent' = [spent EXCEPT ![Key(r)] = SpentNow(r) + Cost(r)]
    BY <1>5, <1>7, <2>1 DEF Admit, TypeOK
  <2>3. /\ adm'[Key(r)][clock] = adm[Key(r)][clock] + Cost(r)
        /\ \A t \in Times : t # clock => adm'[Key(r)][t] = adm[Key(r)][t]
        /\ \A k \in Keys : k # Key(r) => adm'[k] = adm[k]
    <3>1. PICK k \in Keys : k = Key(r)
      BY <1>5, <2>1
    <3>2. adm' = [adm EXCEPT ![k] = [adm[k] EXCEPT ![clock] = adm[k][clock] + Cost(r)]]
      BY <1>7, <3>1 DEF Admit
    <3>3. adm \in [Keys -> [Times -> Nat]] /\ clock \in Times
      BY DEF TypeOK, Times
    <3>4. /\ adm'[k] = [adm[k] EXCEPT ![clock] = adm[k][clock] + Cost(r)]
          /\ \A j \in Keys : j # k => adm'[j] = adm[j]
      BY <3>2, <3>3
    <3> QED BY <3>1, <3>3, <3>4
  <2> QED BY <1>4, <2>1, <2>2, <2>3
<1>8. CASE Tick
  <2>1. windows' = windows /\ win' = win /\ spent' = spent /\ adm' = adm
        /\ clock' = clock + 1
    BY <1>8 DEF Tick
  <2>2. clock <= clock'
    BY <1>0, <2>1
  <2> QED BY <1>1, <2>1, <2>2
<1>9. CASE UNCHANGED vars
  <2>1. windows' = windows /\ win' = win /\ spent' = spent /\ adm' = adm /\ clock' = clock
    BY <1>9 DEF vars
  <2> QED BY <1>0, <1>1, <2>1
<1> QED BY <1>2, <1>3, <1>6, <1>7, <1>8, <1>9 DEF Next

\* The histories the limiters reach are those of their windows.
THEOREM RateLimitHistory == Spec => []HistoryInv
<1>1. Init => HistoryInv
  BY DEF Init, HistoryInv, HistoryOf
<1>2. IndInv /\ IndInv' /\ HistoryInv /\ [Next]_vars => HistoryInv'
  BY HistoryStep DEF IndInv
<1> QED BY <1>1, <1>2, RateLimitInvariant, PTL DEF Spec

\* Of the times of a key's window and of the period before it.
LEMMA RecentOver ==
  ASSUME IndInv, HistoryInv, NEW k \in Keys, NEW n \in Nat
  PROVE  /\ {t \in 0 .. clock : t > clock - n} \in SUBSET Times
         /\ Recent(k, n) \in Nat
<1>1. /\ clock \in 0 .. MaxTime /\ MaxTime \in Nat /\ adm[k] \in [Times -> Nat]
  BY RateLimitAssumption DEF IndInv, TypeOK, Times
<1>2. {t \in 0 .. clock : t > clock - n} \in SUBSET Times
  BY <1>1 DEF Times
<1> QED BY <1>1, <1>2, AdmittedOver DEF Recent

\* Over any period, at most twice the limit: the period falls into the
\* window and the period before its opening.
LEMMA InvBurst == IndInv /\ HistoryInv => BurstBound
<1> SUFFICES ASSUME IndInv, HistoryInv, NEW k \in Keys
             PROVE  Recent(k, Period) <= 2 * Limit[k[1]]
  BY DEF BurstBound
<1> DEFINE R == {t \in 0 .. clock : t > clock - Period}
           f == adm[k]
<1>1. /\ clock \in Times /\ clock \in Int /\ f \in [Times -> Nat] /\ spent[k] \in Nat
      /\ Limit[k[1]] \in Nat /\ Period \in Nat /\ Period > 0
      /\ spent[k] <= Limit[k[1]]
      /\ MaxTime \in Nat /\ clock <= MaxTime
  <2>1. clock \in Times /\ clock \in Int /\ f \in [Times -> Nat] /\ spent[k] \in Nat
        /\ Limit[k[1]] \in Nat /\ Period \in Nat /\ Period > 0
    BY KeyFields DEF IndInv
  <2> QED BY <2>1, RateLimitAssumption DEF IndInv, NoOverspend, Times
<1>2. R \in SUBSET Times
  BY <1>1, RecentOver
<1>3. Recent(k, Period) = Total(f, R)
  BY DEF Recent
<1>4. CASE windows[k] = 0
  <2>1. \A t \in R : f[t] = 0
    BY <1>2, <1>4 DEF HistoryInv, HistoryOf, Times
  <2>2. Total(f, R) = 0
    <3> HIDE DEF f, R
    <3> QED BY <1>1, <1>2, <2>1, AdmittedOver, TotalZero
  <2> QED BY <1>1, <1>3, <2>2
<1>5. CASE windows[k] # 0
  <2> DEFINE W == OpenedAt(k) .. MaxTime
             B == Before(k)
  <2>1. /\ OpenedAt(k) \in Int /\ 0 <= OpenedAt(k) /\ OpenedAt(k) <= clock
        /\ win[windows[k]].resetAt = OpenedAt(k) + Period
        /\ spent[k] = Total(f, W) /\ Total(f, B) <= Limit[k[1]]
        /\ \A t \in Times : t > OpenedAt(k) + Period => f[t] = 0
    BY <1>5, KeyFields DEF HistoryInv, HistoryOf, IndInv, Times
  <2>2. W \in SUBSET Times /\ B \in SUBSET Times /\ B \cap W = {}
    <3>1. W \in SUBSET Times
      BY <1>1, <2>1 DEF Times
    <3>2. B \in SUBSET Times
      BY DEF Before, Times
    <3>3. OpenedAt(k) \in Int /\ MaxTime \in Nat
      BY <1>1, <2>1
    <3>4. ASSUME NEW t \in B, t \in W PROVE FALSE
      <4>1. t \in Int /\ t < OpenedAt(k)
        BY <3>3 DEF Before
      <4>2. OpenedAt(k) <= t
        BY <3>3, <3>4
      <4> HIDE DEF B, W
      <4> QED BY <3>3, <4>1, <4>2
    <3> HIDE DEF B, W
    <3> QED BY <3>1, <3>2, <3>4
  <2>3. ASSUME NEW t \in R, t \notin W, t \notin B
        PROVE  FALSE
    <3>1. t \in Int /\ 0 <= t /\ t <= MaxTime /\ t > clock - Period
      BY <1>1
    <3>2. OpenedAt(k) > t
      BY <1>1, <2>1, <2>3, <3>1
    <3>3. OpenedAt(k) - Period < t
      <4> HIDE DEF R, W, B, f
      <4> QED BY <1>1, <2>1, <3>1
    <3> QED BY <1>1, <2>3, <3>1, <3>2, <3>3 DEF Before
  <2> HIDE DEF R, W, B, f
  <2>4. Total(f, B \cup W) = Total(f, B) + Total(f, W)
    <3>1. IsFiniteSet(B) /\ IsFiniteSet(W)
      BY <1>1, <2>2, AdmittedOver
    <3>2. \A t \in W \cup B : f[t] \in Int
      BY <1>1, <2>2
    <3> QED BY <2>2, <3>1, <3>2, TotalUnion
  <2>5. R \in SUBSET (B \cup W) /\ B \cup W \in SUBSET Times
    BY <2>2, <2>3
  <2>6. Total(f, R) <= Total(f, B \cup W)
    BY <1>1, <2>5, AdmittedOver
  <2>7. Total(f, R) \in Nat /\ Total(f, B) \in Nat /\ Total(f, W) \in Nat
    BY <1>1, <1>2, <2>2, AdmittedOver
  <2> QED BY <1>1, <1>3, <2>1, <2>4, <2>6, <2>7
<1> QED BY <1>4, <1>5

\* However requests arrive and race, a key is admitted no more than twice its
\* limit over any period.
THEOREM RateLimitBurst == Spec => []BurstBound
BY InvBurst, RateLimitInvariant, RateLimitHistory, PTL

\* A request is denied only for what was really admitted during the last
\* period.
THEOREM RateLimitDenial == Spec => DenialJustified
<1> DEFINE Justified == \A r \in Requests :
        req[r].pc = "allow" /\ req'[r].pc = "denied" =>
            Recent(Key(r), Period + 1) + Cost(r) > Limit[req[r].lim]
<1>1. ASSUME IndInv, IndInv', HistoryInv, [Next]_vars
      PROVE  [Justified]_vars
  <2> SUFFICES ASSUME NEW r \in Requests, req[r].pc = "allow", req'[r].pc = "denied"
               PROVE  Recent(Key(r), Period + 1) + Cost(r) > Limit[req[r].lim]
    OBVIOUS
  <2>1. TypeOK
    BY <1>1 DEF IndInv
  <2>2. Deny(r)
    <3>1. ASSUME NEW s \in Requests, NEW pc \in PCs, NEW w \in 0 .. MaxWindows,
                 Goto(s, pc, w), pc # "denied"
          PROVE  FALSE
      BY <2>1, <3>1, GotoType
    <3>2. ASSUME NEW s \in Requests, NEW t \in Tenants, NEW size \in BodySizes,
                 NEW chat \in BOOLEAN, Arrive(s, t, size, chat)
          PROVE  FALSE
      BY <2>1, <3>2 DEF Arrive, TypeOK
    <3>3. ASSUME NEW s \in Requests, Lookup(s) \/ Create(s)
          PROVE  FALSE
      <4>1. windows[Key(s)] \in 0 .. MaxWindows /\ "allow" \in PCs /\ "create" \in PCs
        BY <2>1, RequestFields DEF TypeOK, PCs
      <4>2. Create(s) /\ windows[Key(s)] = 0 => nextWin \in 0 .. MaxWindows
        BY <2>1, RateLimitAssumption DEF Create, TypeOK
      <4>3. PICK pc \in PCs, w \in 0 .. MaxWindows : Goto(s, pc, w) /\ pc # "denied"
        BY <3>3, <4>1, <4>2 DEF Lookup, Create
      <4> QED BY <3>1, <4>3
    <3>4. ASSUME NEW s \in Requests, Admit(s)
          PROVE  FALSE
      <4>1. CASE Goto(s, "served", req[s].w)
        BY <2>1, <3>1, <4>1, RequestFields DEF PCs
      <4>2. CASE req' = [req EXCEPT ![s] = [req[s] EXCEPT !.lim = "tok", !.pc = "lookup"]]
        BY <2>1, <4>2, RequestFields DEF TypeOK, Request
      <4> QED BY <3>4, <4>1, <4>2 DEF Admit
    <3>5. req' # req
      OBVIOUS
    <3>6. ~Tick /\ ~UNCHANGED vars
      BY <3>5 DEF Tick, vars
    <3>7. PICK s \in Requests : Deny(s)
      BY <1>1, <3>2, <3>3, <3>4, <3>6 DEF Next
    <3>8. s = r
      <4>1. req[s].w \in 0 .. MaxWindows /\ "denied" \in PCs
        BY <2>1, RequestFields DEF PCs
      <4> QED BY <2>1, <3>7, <4>1, GotoType DEF Deny
    <3> QED BY <3>7, <3>8
  <2>3. PICK k \in Keys : k = Key(r) /\ k[1] = req[r].lim
    BY <2>1, RequestFields
  <2>4. /\ Fresh(windows[k]).count + Cost(r) > Limit[k[1]] /\ windows[k] # 0
        /\ Cost(r) \in Nat /\ Limit[k[1]] \in Nat
    BY <1>1, <2>1, <2>2, <2>3, RequestFields, KeyFields DEF Deny, OneWindowPerKey, IndInv
  <2>5. Recent(k, Period + 1) \in Nat
    BY <1>1, RecentOver, RateLimitAssumption
  <2>6. CASE clock > win[windows[k]].resetAt
    <3>1. Fresh(windows[k]).count = 0
      BY <2>6 DEF Fresh
    <3> QED BY <2>3, <2>4, <2>5, <3>1
  <2>7. CASE ~(clock > win[windows[k]].resetAt)
    <3> DEFINE f == adm[k]
               R == {t \in 0 .. clock : t > clock - (Period + 1)}
               W == OpenedAt(k) .. clock
               L == clock + 1 .. MaxTime
               A == OpenedAt(k) .. MaxTime
    <3>1. Fresh(windows[k]).count = spent[k]
      BY <1>1, <2>4, <2>7 DEF Fresh, IndInv, NoOverspend
    <3>2. /\ clock \in Times /\ clock \in Int /\ MaxTime \in Nat /\ clock <= MaxTime
          /\ f \in [Times -> Nat] /\ Period \in Nat
          /\ OpenedAt(k) \in Int /\ 0 <= OpenedAt(k) /\ OpenedAt(k) <= clock
          /\ clock <= OpenedAt(k) + Period
          /\ spent[k] = Total(f, A)
          /\ \A t \in Times : t > clock => f[t] = 0
      <4>1. /\ clock \in Times /\ clock \in Int /\ f \in [Times -> Nat] /\ Period \in Nat
            /\ OpenedAt(k) \in Int /\ win[windows[k]].resetAt = OpenedAt(k) + Period
        BY <2>1, <2>4, KeyFields
      <4>2. /\ 0 <= OpenedAt(k) /\ OpenedAt(k) <= clock
            /\ spent[k] = Total(f, A)
            /\ \A t \in Times : t > clock => f[t] = 0
        BY <1>1, <2>4 DEF HistoryInv, HistoryOf, Times
      <4>3. MaxTime \in Nat /\ clock <= MaxTime
        BY <4>1, RateLimitAssumption DEF Times
      <4>4. clock <= OpenedAt(k) + Period
        BY <2>7, <4>1
      <4> QED BY <4>1, <4>2, <4>3, <4>4
    <3>3. W \in SUBSET R /\ R \in SUBSET Times
      BY <3>2 DEF Times
    <3>4. /\ W \in SUBSET Times /\ L \in SUBSET Times
          /\ W \cap L = {} /\ W \cup L = A
      BY <3>2 DEF Times
    <3>5. \A t \in L : f[t] = 0
      BY <3>2, <3>4
    <3>6. Recent(k, Period + 1) = Total(f, R)
      BY DEF Recent
    <3> HIDE DEF f, R, W, L, A
    <3>7. Total(f, A) = Total(f, W) + Total(f, L)
      <4>1. IsFiniteSet(W) /\ IsFiniteSet(L)
        BY <3>2, <3>4, AdmittedOver
      <4>2. \A t \in L \cup W : f[t] \in Int
        <5>1. L \cup W \in SUBSET Times /\ f \in [Times -> Nat]
          BY <3>2, <3>4
        <5> QED BY <5>1
      <4> QED BY <3>4, <4>1, <4>2, TotalUnion
    <3>8. Total(f, L) = 0
      BY <3>2, <3>4, <3>5, AdmittedOver, TotalZero
    <3>9. /\ Total(f, W) <= Total(f, R)
          /\ Total(f, W) \in Nat /\ Total(f, R) \in Nat
      BY <3>2, <3>3, <3>4, AdmittedOver
    <3> QED BY <2>3, <2>4, <3>1, <3>2, <3>6, <3>7, <3>8, <3>9
  <2> QED BY <2>6, <2>7
<1> QED
  BY <1>1, RateLimitInvariant, RateLimitHistory, PTL DEF Spec, DenialJustified
=============================================================================
