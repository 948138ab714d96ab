---------------------------- MODULE PolicyProofs ----------------------------
(***************************************************************************)
(* The policy engine, for every number of requests, contents and policies: *)
(* on_error holds whatever concurrent checks do to a plugin's instance,    *)
(* and a check nobody disturbs ends with the first objection.              *)
(***************************************************************************)
EXTENDS Policy, WellFoundedInduction, TLAPS

\* The policy at a loaded place is one of the configured ones.
LEMMA LoadedPolicy ==
    ASSUME TypeOK, NEW r \in Requests, NEW i \in engine[req[r].phase]
    PROVE  /\ i \in Nat
           /\ PolicyAt(r, i) \in PolicyType
<1>1. req[r].phase \in Phases
  BY DEF TypeOK, ReqType
<1>2. i \in DOMAIN Policies[req[r].phase] /\ i \in Nat
  BY <1>1 DEF TypeOK
<1>3. Policies[req[r].phase] \in Seq(PolicyType)
  BY <1>1, PolicyAssumption DEF PolicyAssumption
<1> QED
  BY <1>2, <1>3 DEF PolicyAt

LEMMA PluginPolicy ==
    ASSUME NEW f \in Plugins
    PROVE  /\ f[1] \in Phases
           /\ f[2] \in Nat
           /\ f = <<f[1], f[2]>>
           /\ Policies[f[1]][f[2]] \in PolicyType
           /\ Policies[f[1]][f[2]].type = "wasm"
<1>1. PICK ph \in Phases : f \in {ph} \X {i \in DOMAIN Policies[ph] : Policies[ph][i].type = "wasm"}
  BY DEF Plugins
<1>2. Policies[ph] \in Seq(PolicyType)
  BY PolicyAssumption DEF PolicyAssumption
<1>3. f[1] = ph /\ f[2] \in DOMAIN Policies[ph] /\ f = <<f[1], f[2]>> /\ Policies[ph][f[2]].type = "wasm"
  BY <1>1
<1> QED
  BY <1>2, <1>3

\* What a request becomes when a filter has let it pass, or has objected.
LEMMA MovedOnType ==
    ASSUME TypeOK, NEW r \in Requests, NEW i \in Nat
    PROVE  /\ MovedOn(r, i) \in ReqType
           /\ MovedOn(r, i).pc = "walk"
<1>1. req[r] \in ReqType
  BY DEF TypeOK
<1> QED
  BY <1>1 DEF MovedOn, ReqType, NoResult, Nothing

LEMMA RefusedType ==
    ASSUME TypeOK, NEW r \in Requests, NEW i \in Nat, PolicyAt(r, i) \in PolicyType,
           NEW message \in Contents \cup {"error"}
    PROVE  /\ Refused(r, i, message) \in ReqType
           /\ Refused(r, i, message).pc = "done"
<1>1. MovedOn(r, i) \in ReqType
  BY MovedOnType
<1>2. [by |-> i, action |-> PolicyAt(r, i).action, message |-> message] \in Verdicts
  BY DEF PolicyType, Verdicts
<1> HIDE DEF MovedOn
<1> QED
  BY <1>1, <1>2 DEF Refused, ReqType

-----------------------------------------------------------------------------

\* Where a request stands, as far as the invariant looks at it.
Standing(x) ==
    /\ x.pc \in GuestCalls \cup HostSteps => <<x.phase, x.at>> \in Plugins
    /\ x.pc = "judge" => x.result \in {0, 1}
    /\ x.pc \in {"ptr", "len", "read"} => x.result = 1

LEMMA StandingAll == PluginSteps <=> \A r \in Requests : Standing(req[r])
BY DEF PluginSteps, Standing, InPlugin, PluginOf

\* What is on record as harmed is an instance, whoever steps.
LEMMA HarmedIn ==
    ASSUME IndInv, NEW r \in Requests,
           harmed' = harmed \/ WasmCheck(r) \/ StepFails(r)
    PROVE  harmed' \subseteq Plugins
<1>1. harmed \subseteq Plugins
  BY DEF IndInv, TypeOK
<1>2. CASE harmed' = harmed
  BY <1>1, <1>2
<1>3. CASE WasmCheck(r)
  <2>1. PICK f \in Plugins : harmed' = harmed \/ harmed' = harmed \cup {f}
    BY <1>3 DEF WasmCheck
  <2> QED BY <1>1, <2>1
<1>4. CASE StepFails(r)
  <2>1. PluginOf(r) \in Plugins
    BY <1>4 DEF StepFails, IndInv, PluginSteps
  <2>2. harmed' = harmed \/ harmed' = harmed \cup {PluginOf(r)}
    BY <1>4 DEF StepFails
  <2> QED BY <1>1, <2>1, <2>2
<1> QED
  BY <1>2, <1>3, <1>4

\* A step of request r may change what is noted about the others, not where
\* they stand.
LEMMA StepOf ==
    ASSUME IndInv, NEW r \in Requests, engine' = engine,
           guest' \in [Plugins -> GuestType],
           req' \in [Requests -> ReqType],
           harmed' = harmed \/ WasmCheck(r) \/ StepFails(r),
           Standing(req'[r]),
           \A q \in Requests : q # r =>
               /\ req'[q].pc = req[q].pc
               /\ req'[q].phase = req[q].phase
               /\ req'[q].at = req[q].at
               /\ req'[q].result = req[q].result
    PROVE  IndInv'
<1>1. TypeOK'
  <2>1. harmed' \subseteq Plugins
    BY HarmedIn
  <2> QED BY <2>1 DEF IndInv, TypeOK
<1>2. \A q \in Requests : Standing(req'[q])
  BY StandingAll DEF IndInv, Standing
<1>3. PluginSteps'
  BY <1>2 DEF PluginSteps, Standing, InPlugin, PluginOf
<1> QED
  BY <1>1, <1>3 DEF IndInv

LEMMA OneRequest ==
    ASSUME IndInv, NEW r \in Requests, NEW x \in ReqType, engine' = engine,
           guest' \in [Plugins -> GuestType],
           harmed' = harmed \/ WasmCheck(r) \/ StepFails(r),
           req' = [req EXCEPT ![r] = x], Standing(x)
    PROVE  IndInv'
<1>1. req \in [Requests -> ReqType]
  BY DEF IndInv, TypeOK
<1>2. req' \in [Requests -> ReqType] /\ req'[r] = x
  BY <1>1
<1>3. \A q \in Requests : q # r => req'[q] = req[q]
  BY <1>1
<1> QED
  BY <1>2, <1>3, StepOf

\* Whatever a step does to the guest's health, the guest keeps its type.
LEMMA GuestHealth ==
    ASSUME IndInv, NEW f, NEW b, guest' = [guest EXCEPT ![f].corrupt = b], b \in BOOLEAN
    PROVE  guest' \in [Plugins -> GuestType]
<1>1. guest \in [Plugins -> GuestType]
  BY DEF IndInv, TypeOK
<1> QED
  BY <1>1, Zenon DEF GuestType

LEMMA WalkStep ==
    ASSUME IndInv, NEW r \in Requests,
           \/ \E ph \in Phases, c \in Contents : Check(r, ph, c)
           \/ WalkEnds(r)
           \/ StatelessCheck(r)
    PROVE  IndInv'
<1>0. req[r] \in ReqType /\ TypeOK /\ guest \in [Plugins -> GuestType]
  BY DEF IndInv, TypeOK
<1>1. ASSUME NEW ph \in Phases, NEW c \in Contents, Check(r, ph, c)
      PROVE  IndInv'
  <2> DEFINE x == [req[r] EXCEPT !.pc = "walk", !.phase = ph, !.content = c,
                                 !.at = 0, !.solo = TRUE, !.verdict = Passed]
  <2>1. Passed \in Verdicts
    BY DEF Passed, Verdicts
  <2>2. x \in ReqType /\ x.pc = "walk"
    BY <1>0, <2>1 DEF ReqType
  <2>3. Standing(x)
    BY <2>2 DEF Standing, GuestCalls, HostSteps
  <2>4. req' = [req EXCEPT ![r] = x] /\ engine' = engine /\ harmed' = harmed /\ guest' = guest
    BY <1>1 DEF Check
  <2> HIDE DEF x
  <2> QED
    BY <1>0, <2>2, <2>3, <2>4, OneRequest
<1>2. CASE WalkEnds(r)
  <2> DEFINE x == [req[r] EXCEPT !.pc = "done"]
  <2>1. x \in ReqType /\ x.pc = "done"
    BY <1>0 DEF ReqType
  <2>2. Standing(x)
    BY <2>1 DEF Standing, GuestCalls, HostSteps
  <2>3. req' = [req EXCEPT ![r] = x] /\ engine' = engine /\ harmed' = harmed /\ guest' = guest
    BY <1>2 DEF WalkEnds
  <2> HIDE DEF x
  <2> QED
    BY <1>0, <2>1, <2>2, <2>3, OneRequest
<1>3. CASE StatelessCheck(r)
  <2>1. PICK i \in NextFilter(r) :
            req' = [req EXCEPT ![r] = IF req[r].content \in PolicyAt(r, i).on
                       THEN Refused(r, i, req[r].content) ELSE MovedOn(r, i)]
    BY <1>3 DEF StatelessCheck, Objects
  <2>2. i \in engine[req[r].phase]
    BY DEF NextFilter
  <2>3. i \in Nat /\ PolicyAt(r, i) \in PolicyType /\ req[r].content \in Contents
    BY <1>0, <2>2, LoadedPolicy DEF ReqType
  <2>4. PICK x \in {Refused(r, i, req[r].content), MovedOn(r, i)} :
            req' = [req EXCEPT ![r] = x]
    BY <2>1
  <2>5. x \in ReqType /\ x.pc \in {"walk", "done"}
    BY <1>0, <2>3, <2>4, RefusedType, MovedOnType
  <2>6. Standing(x)
    BY <2>5 DEF Standing, GuestCalls, HostSteps
  <2>7. engine' = engine /\ harmed' = harmed /\ guest' = guest
    BY <1>3 DEF StatelessCheck
  <2> QED
    BY <1>0, <2>4, <2>5, <2>6, <2>7, OneRequest
<1> QED
  BY <1>1, <1>2, <1>3

-----------------------------------------------------------------------------
(* Steps inside a plugin *)

LEMMA AtPlugin ==
    ASSUME IndInv, NEW r \in Requests, InPlugin(r)
    PROVE  /\ PluginOf(r) \in Plugins
           /\ req[r].at \in Nat
           /\ PolicyAt(r, req[r].at) \in PolicyType
<1>1. PluginOf(r) \in Plugins /\ req[r].at \in Nat
  BY DEF IndInv, PluginSteps, TypeOK, ReqType
<1>2. Policies[PluginOf(r)[1]][PluginOf(r)[2]] \in PolicyType
  BY <1>1, PluginPolicy
<1>3. PluginOf(r)[1] = req[r].phase /\ PluginOf(r)[2] = req[r].at
  BY DEF PluginOf
<1> QED
  BY <1>1, <1>2, <1>3 DEF PolicyAt

LEMMA WasmCheckStep ==
    ASSUME IndInv, NEW r \in Requests, WasmCheck(r)
    PROVE  IndInv'
<1>0. req \in [Requests -> ReqType] /\ TypeOK /\ guest \in [Plugins -> GuestType]
  BY DEF IndInv, TypeOK
<1>1. PICK i \in NextFilter(r) :
        /\ <<req[r].phase, i>> \in Plugins
        /\ req' = [q \in Requests |->
             CASE q = r -> [req[r] EXCEPT !.pc = "alloc", !.at = i,
                              !.solo = @ /\ Inside(<<req[r].phase, i>>) = {}
                                         /\ ~guest[<<req[r].phase, i>>].corrupt]
               [] q # r /\ q \in Inside(<<req[r].phase, i>>) -> [req[q] EXCEPT !.solo = FALSE]
               [] OTHER -> req[q]]
  BY DEF WasmCheck
<1>2. i \in Nat
  BY <1>0, LoadedPolicy DEF NextFilter
<1> DEFINE b == req[r].solo /\ Inside(<<req[r].phase, i>>) = {}
                            /\ ~guest[<<req[r].phase, i>>].corrupt
           x == [req[r] EXCEPT !.pc = "alloc", !.at = i, !.solo = b]
<1>3. b \in BOOLEAN
  OBVIOUS
<1>4. req'[r] = x
  BY <1>1
<1> HIDE DEF b
<1>5. /\ x \in ReqType /\ x.pc = "alloc" /\ x.at = i /\ x.phase = req[r].phase
  BY <1>0, <1>2, <1>3 DEF ReqType, GuestCalls
<1> HIDE DEF x
<1>6. Standing(req'[r])
  BY <1>1, <1>4, <1>5 DEF Standing
<1>7. ASSUME NEW q \in Requests, q # r
      PROVE  /\ req'[q] \in ReqType
             /\ req'[q].pc = req[q].pc
             /\ req'[q].phase = req[q].phase
             /\ req'[q].at = req[q].at
             /\ req'[q].result = req[q].result
  <2>1. PICK y \in {req[q], [req[q] EXCEPT !.solo = FALSE]} : req'[q] = y
    BY <1>1, <1>7
  <2> QED
    BY <1>0, <2>1 DEF ReqType
<1>8. req' \in [Requests -> ReqType]
  <2>1. \A q \in Requests : req'[q] \in ReqType
    BY <1>4, <1>5, <1>7
  <2>2. DOMAIN req' = Requests /\ req' = [q \in Requests |-> req'[q]]
    BY <1>1
  <2> QED
    BY <2>1, <2>2
<1>9. engine' = engine /\ guest' = guest
  BY DEF WasmCheck
<1> QED
  BY <1>0, <1>6, <1>7, <1>8, <1>9, StepOf

LEMMA CheckReturnsStep ==
    ASSUME IndInv, NEW r \in Requests, NEW result \in {0, 1}, CheckReturns(r, result)
    PROVE  IndInv'
<1>0. req \in [Requests -> ReqType] /\ TypeOK /\ guest \in [Plugins -> GuestType]
  BY DEF IndInv, TypeOK
<1>1. InPlugin(r) /\ req[r].pc = "check" /\ PluginOf(r) \in Plugins
  BY AtPlugin DEF CheckReturns, InPlugin, GuestCalls
<1>2. guest' \in [Plugins -> GuestType]
  <2>1. req[r].content \in Contents
    BY <1>0 DEF ReqType
  <2>2. \/ guest' = guest
        \/ guest' = [guest EXCEPT ![PluginOf(r)].result = req[r].content]
    BY DEF CheckReturns
  <2> QED
    BY <1>0, <2>1, <2>2, Zenon DEF GuestType
<1> DEFINE x == [req[r] EXCEPT !.pc = "judge", !.running = FALSE,
                               !.result = result, !.buffer = "freed"]
<1>3. /\ x \in ReqType /\ x.pc = "judge" /\ x.at = req[r].at
      /\ x.phase = req[r].phase /\ x.result \in {0, 1}
  <2>1. req[r] \in ReqType /\ result \in {NoResult, 0, 1} /\ "judge" \in HostSteps
    BY <1>0 DEF HostSteps
  <2>2. x \in ReqType
    BY <2>1, Zenon DEF ReqType
  <2> QED
    BY <2>1, <2>2, Zenon DEF ReqType
<1>4. req'[r] = x
  BY DEF CheckReturns
<1> HIDE DEF x
<1>5. Standing(req'[r])
  BY <1>1, <1>3, <1>4 DEF Standing, PluginOf
<1>7. ASSUME NEW q \in Requests, q # r
      PROVE  /\ req'[q] \in ReqType
             /\ req'[q].pc = req[q].pc
             /\ req'[q].phase = req[q].phase
             /\ req'[q].at = req[q].at
             /\ req'[q].result = req[q].result
  <2> DEFINE w == IF req[q].buffer = "live" THEN "freed" ELSE req[q].buffer
             b == req[q].torn \/ (result = 1 /\ req[q].found # Nothing)
             y == [req[q] EXCEPT !.buffer = w, !.torn = b]
  <2>1. req'[q] = req[q] \/ req'[q] = y
    BY <1>7 DEF CheckReturns
  <2>2. w \in {"none", "live", "freed"}
    BY <1>0 DEF ReqType
  <2>3. b \in BOOLEAN
    OBVIOUS
  <2> HIDE DEF w, b
  <2>4. /\ y \in ReqType /\ y.pc = req[q].pc /\ y.phase = req[q].phase
        /\ y.at = req[q].at /\ y.result = req[q].result
    BY <1>0, <2>2, <2>3 DEF ReqType
  <2> HIDE DEF y
  <2> QED
    BY <1>0, <2>1, <2>4
<1>8. req' \in [Requests -> ReqType]
  <2>1. \A q \in Requests : req'[q] \in ReqType
    BY <1>3, <1>4, <1>7
  <2>2. DOMAIN req' = Requests /\ req' = [q \in Requests |-> req'[q]]
    BY DEF CheckReturns
  <2> QED
    BY <2>1, <2>2
<1>9. engine' = engine /\ harmed' = harmed
  BY DEF CheckReturns
<1> QED
  BY <1>2, <1>5, <1>7, <1>8, <1>9, StepOf

\* A call is entered; nothing but the guest's health can change.
LEMMA CallStep ==
    ASSUME IndInv, NEW r \in Requests, Call(r)
    PROVE  IndInv'
<1>0. req[r] \in ReqType /\ req[r].pc \in GuestCalls /\ Standing(req[r])
  BY StandingAll DEF IndInv, TypeOK, Call
<1> DEFINE x == [req[r] EXCEPT !.running = TRUE]
<1>1. x \in ReqType /\ Standing(x)
  BY <1>0 DEF ReqType, Standing
<1>2. req' = [req EXCEPT ![r] = x] /\ engine' = engine /\ harmed' = harmed
  BY DEF Call
<1>3. guest' \in [Plugins -> GuestType]
  <2>1. PICK b \in BOOLEAN : guest' = [guest EXCEPT ![PluginOf(r)].corrupt = b]
    BY DEF Call
  <2> QED
    BY <2>1, GuestHealth
<1> HIDE DEF x
<1> QED
  BY <1>1, <1>2, <1>3, OneRequest

LEMMA AllocReturnsStep ==
    ASSUME IndInv, NEW r \in Requests, AllocReturns(r)
    PROVE  IndInv'
<1>0. /\ req[r] \in ReqType /\ req[r].pc \in {"alloc", "allocMeta"}
      /\ <<req[r].phase, req[r].at>> \in Plugins /\ guest \in [Plugins -> GuestType]
  BY AtPlugin DEF IndInv, TypeOK, AllocReturns, InPlugin, GuestCalls, PluginOf
<1> DEFINE x == [req[r] EXCEPT !.pc = "write", !.running = FALSE, !.buffer = "live"]
           y == [req[r] EXCEPT !.pc = "writeMeta", !.running = FALSE]
<1>1. /\ x \in ReqType /\ x.pc = "write" /\ x.phase = req[r].phase /\ x.at = req[r].at
      /\ y \in ReqType /\ y.pc = "writeMeta" /\ y.phase = req[r].phase /\ y.at = req[r].at
  BY <1>0 DEF ReqType, HostSteps
<1>2. PICK z \in {x, y} : req' = [req EXCEPT ![r] = z]
  BY DEF AllocReturns
<1>3. engine' = engine /\ harmed' = harmed /\ guest' = guest
  BY DEF AllocReturns
<1> HIDE DEF x, y
<1>4. z \in ReqType /\ Standing(z)
  BY <1>0, <1>1, <1>2 DEF Standing
<1> QED
  BY <1>0, <1>2, <1>3, <1>4, OneRequest

LEMMA MemoryWriteStep ==
    ASSUME IndInv, NEW r \in Requests, MemoryWrite(r)
    PROVE  IndInv'
<1>0. /\ req[r] \in ReqType /\ <<req[r].phase, req[r].at>> \in Plugins
  BY AtPlugin DEF IndInv, TypeOK, MemoryWrite, InPlugin, HostSteps, PluginOf
<1>1. PICK p \in {"allocMeta", "check"} : req' = [req EXCEPT ![r].pc = p]
  BY DEF MemoryWrite
<1> DEFINE x == [req[r] EXCEPT !.pc = p]
<1>2. x \in ReqType /\ x.pc = p /\ x.phase = req[r].phase /\ x.at = req[r].at
  BY <1>0 DEF ReqType, GuestCalls
<1>3. req' = [req EXCEPT ![r] = x] /\ engine' = engine /\ harmed' = harmed
  BY <1>1 DEF MemoryWrite
<1>4. guest' \in [Plugins -> GuestType]
  <2>1. PICK b \in BOOLEAN : guest' = [guest EXCEPT ![PluginOf(r)].corrupt = b]
    BY DEF MemoryWrite
  <2> QED
    BY <2>1, GuestHealth
<1> HIDE DEF x
<1>5. Standing(x)
  BY <1>0, <1>2 DEF Standing
<1> QED
  BY <1>2, <1>3, <1>4, <1>5, OneRequest

LEMMA JudgeStep ==
    ASSUME IndInv, NEW r \in Requests, Judge(r)
    PROVE  IndInv'
<1>0. /\ req[r] \in ReqType /\ guest \in [Plugins -> GuestType] /\ TypeOK
      /\ <<req[r].phase, req[r].at>> \in Plugins /\ req[r].at \in Nat
      /\ req[r].result \in {0, 1}
  BY AtPlugin DEF IndInv, TypeOK, PluginSteps, Judge, InPlugin, HostSteps, PluginOf
<1>1. engine' = engine /\ harmed' = harmed /\ guest' = guest
  BY DEF Judge
<1>2. CASE req[r].result = 0
  <2>1. req' = [req EXCEPT ![r] = MovedOn(r, req[r].at)]
    BY <1>2 DEF Judge
  <2>2. MovedOn(r, req[r].at) \in ReqType /\ Standing(MovedOn(r, req[r].at))
    BY <1>0, MovedOnType DEF Standing, GuestCalls, HostSteps
  <2> QED
    BY <1>0, <1>1, <2>1, <2>2, OneRequest
<1>3. CASE req[r].result # 0
  <2> DEFINE x == [req[r] EXCEPT !.pc = "ptr"]
  <2>1. req' = [req EXCEPT ![r] = x]
    BY <1>3 DEF Judge
  <2>2. /\ x \in ReqType /\ x.pc = "ptr" /\ x.phase = req[r].phase
        /\ x.at = req[r].at /\ x.result = req[r].result
    BY <1>0 DEF ReqType, GuestCalls
  <2> HIDE DEF x
  <2>3. Standing(x)
    BY <1>0, <1>3, <2>2 DEF Standing
  <2> QED
    BY <1>0, <1>1, <2>1, <2>2, <2>3, OneRequest
<1> QED
  BY <1>2, <1>3

LEMMA ResultReturnsStep ==
    ASSUME IndInv, NEW r \in Requests, ResultReturns(r)
    PROVE  IndInv'
<1>0. /\ req[r] \in ReqType /\ guest \in [Plugins -> GuestType]
      /\ PluginOf(r) \in Plugins /\ req[r].result = 1
  BY AtPlugin DEF IndInv, TypeOK, PluginSteps, ResultReturns, InPlugin, GuestCalls
<1>1. guest[PluginOf(r)].result \in Contents \cup {Nothing}
  BY <1>0 DEF GuestType
<1> DEFINE x == [req[r] EXCEPT !.pc = "len", !.running = FALSE,
                               !.found = guest[PluginOf(r)].result]
           y == [req[r] EXCEPT !.pc = "read", !.running = FALSE]
<1>2. PICK z \in {x, y} : req' = [req EXCEPT ![r] = z]
  BY DEF ResultReturns
<1>3. /\ x \in ReqType /\ x.pc = "len" /\ x.phase = req[r].phase
      /\ x.at = req[r].at /\ x.result = req[r].result
  BY <1>0, <1>1 DEF ReqType, GuestCalls
<1>4. /\ y \in ReqType /\ y.pc = "read" /\ y.phase = req[r].phase
      /\ y.at = req[r].at /\ y.result = req[r].result
  BY <1>0 DEF ReqType, HostSteps
<1>5. engine' = engine /\ harmed' = harmed /\ guest' = guest
  BY DEF ResultReturns
<1> HIDE DEF x, y
<1>6. z \in ReqType /\ Standing(z)
  BY <1>0, <1>2, <1>3, <1>4 DEF Standing, PluginOf
<1> QED
  BY <1>0, <1>2, <1>5, <1>6, OneRequest

LEMMA ReadResultStep ==
    ASSUME IndInv, NEW r \in Requests, NEW c \in Contents, ReadResult(r, c)
    PROVE  IndInv'
<1>0. /\ TypeOK /\ guest \in [Plugins -> GuestType] /\ req[r].at \in Nat
      /\ PolicyAt(r, req[r].at) \in PolicyType
  BY AtPlugin DEF IndInv, TypeOK, ReadResult, InPlugin, HostSteps
<1> DEFINE x == Refused(r, req[r].at, c)
<1>1. x \in ReqType /\ x.pc = "done"
  BY <1>0, RefusedType
<1>2. Standing(x)
  BY <1>1 DEF Standing, GuestCalls, HostSteps
<1>3. req' = [req EXCEPT ![r] = x] /\ engine' = engine /\ harmed' = harmed /\ guest' = guest
  BY DEF ReadResult
<1> HIDE DEF x
<1> QED
  BY <1>0, <1>1, <1>2, <1>3, OneRequest

LEMMA StepFailsStep ==
    ASSUME IndInv, NEW r \in Requests, StepFails(r)
    PROVE  IndInv'
<1>0. TypeOK /\ req[r].at \in Nat /\ PolicyAt(r, req[r].at) \in PolicyType
  BY AtPlugin DEF IndInv, StepFails
<1>1. Failed(r) \in {Refused(r, req[r].at, "error"), MovedOn(r, req[r].at)}
  BY DEF Failed
<1>2. Failed(r) \in ReqType /\ Failed(r).pc \in {"walk", "done"}
  BY <1>0, <1>1, RefusedType, MovedOnType
<1> DEFINE x == [Failed(r) EXCEPT !.solo = FALSE]
<1>3. x \in ReqType /\ x.pc \in {"walk", "done"}
  BY <1>2 DEF ReqType
<1>4. Standing(x)
  BY <1>3 DEF Standing, GuestCalls, HostSteps
<1>5. req' = [req EXCEPT ![r] = x] /\ engine' = engine
  BY DEF StepFails
<1>6. guest' \in [Plugins -> GuestType]
  <2>1. PICK b \in BOOLEAN : guest' = [guest EXCEPT ![PluginOf(r)].corrupt = b]
    BY DEF StepFails
  <2> QED
    BY <2>1, GuestHealth
<1> HIDE DEF x
<1> QED
  BY <1>3, <1>4, <1>5, <1>6, OneRequest

-----------------------------------------------------------------------------

LEMMA InitInv == Init => IndInv
<1> SUFFICES ASSUME Init PROVE IndInv
  OBVIOUS
<1>1. PICK broken \in SUBSET Plugins : engine = initPolicyEngine(broken)
  BY DEF Init
<1>2. \A ph \in Phases : engine[ph] \subseteq DOMAIN Policies[ph]
  BY <1>1 DEF initPolicyEngine
<1>3. \A ph \in Phases : DOMAIN Policies[ph] \subseteq Nat
  BY PolicyAssumption DEF PolicyAssumption
<1>4. engine \in [Phases -> SUBSET Nat]
  BY <1>1, <1>2, <1>3 DEF initPolicyEngine
<1>5. guest \in [Plugins -> GuestType]
  BY DEF Init, NewWasmFilter, GuestType
<1>6. Passed \in Verdicts
  BY DEF Passed, Verdicts
<1>7. req \in [Requests -> ReqType] /\ \A r \in Requests : req[r].pc = "idle"
  BY <1>6 DEF Init, ReqType, Phases, NoResult
<1>8. PluginSteps
  BY <1>7 DEF PluginSteps, InPlugin, GuestCalls, HostSteps
<1>9. harmed = {}
  BY DEF Init
<1> QED
  BY <1>2, <1>4, <1>5, <1>7, <1>8, <1>9 DEF IndInv, TypeOK

LEMMA NextInv ==
    ASSUME IndInv, [Next]_vars
    PROVE  IndInv'
<1>1. CASE UNCHANGED vars
  BY <1>1 DEF vars, IndInv, TypeOK, PluginSteps, InPlugin, PluginOf
<1>2. CASE Next
  <2>1. PICK r \in Requests :
          \/ \E ph \in Phases, c \in Contents : Check(r, ph, c)
          \/ WalkEnds(r) \/ StatelessCheck(r) \/ WasmCheck(r)
          \/ Call(r) \/ AllocReturns(r) \/ MemoryWrite(r)
          \/ \E result \in {0, 1} : CheckReturns(r, result)
          \/ Judge(r) \/ ResultReturns(r)
          \/ \E c \in Contents : ReadResult(r, c)
          \/ StepFails(r)
    BY <1>2 DEF Next
  <2> QED
    BY <2>1, WalkStep, WasmCheckStep, CallStep, AllocReturnsStep, MemoryWriteStep,
       CheckReturnsStep, JudgeStep, ResultReturnsStep, ReadResultStep, StepFailsStep
<1> QED
  BY <1>1, <1>2

\* Whatever concurrent checks do to a plugin's instance, a request inside it is
\* at the place of a WASM policy, and fetches a result only after a check that
\* returned 1 (callCheck returns early otherwise).
THEOREM PolicyInvariant == Spec => []IndInv
<1>1. Init => IndInv
  BY InitInv
<1>2. IndInv /\ [Next]_vars => IndInv'
  BY NextInv
<1> QED
  BY <1>1, <1>2, PTL DEF Spec

\* The engine, the plugins' instances and the checks keep their types.
THEOREM PolicyTypes == Spec => []TypeOK
<1>1. IndInv => TypeOK
  BY DEF IndInv
<1> QED
  BY <1>1, PolicyInvariant, PTL

-----------------------------------------------------------------------------
(* on_error *)

\* What OnErrorHonoured says of one request and one step.
Honoured(r) ==
    /\ OnError(PolicyOf(r)) = "block" /\ req'[r].pc = "walk" => req[r].result = 0
    /\ OnError(PolicyOf(r)) = "allow" /\ req'[r].pc = "done" => req[r].result = 1

\* Another request's step does not move this one out of the plugin.
LEMMA OthersStay ==
    ASSUME IndInv, NEW s \in Requests, NEW r \in Requests, r # s,
           \/ \E ph \in Phases, c \in Contents : Check(s, ph, c)
           \/ WalkEnds(s) \/ StatelessCheck(s) \/ WasmCheck(s)
           \/ Call(s) \/ AllocReturns(s) \/ MemoryWrite(s)
           \/ \E result \in {0, 1} : CheckReturns(s, result)
           \/ Judge(s) \/ ResultReturns(s)
           \/ \E c \in Contents : ReadResult(s, c)
           \/ StepFails(s)
    PROVE  req'[r].pc = req[r].pc
<1>0. req \in [Requests -> ReqType]
  BY DEF IndInv, TypeOK
<1>1. CASE WasmCheck(s)
  <2>1. req'[r] = req[r] \/ req'[r] = [req[r] EXCEPT !.solo = FALSE]
    BY <1>1 DEF WasmCheck
  <2> QED
    BY <1>0, <2>1 DEF ReqType
<1>2. ASSUME NEW result \in {0, 1}, CheckReturns(s, result)
      PROVE  req'[r].pc = req[r].pc
  <2> DEFINE w == IF req[r].buffer = "live" THEN "freed" ELSE req[r].buffer
             b == req[r].torn \/ (result = 1 /\ req[r].found # Nothing)
  <2>1. req'[r] = req[r] \/ req'[r] = [req[r] EXCEPT !.buffer = w, !.torn = b]
    BY <1>2 DEF CheckReturns
  <2> HIDE DEF w, b
  <2> QED
    BY <1>0, <2>1 DEF ReqType
<1>3. CASE \/ \E ph \in Phases, c \in Contents : Check(s, ph, c)
           \/ WalkEnds(s) \/ StatelessCheck(s)
  BY <1>0, <1>3 DEF Check, WalkEnds, StatelessCheck
<1>4. CASE Call(s) \/ AllocReturns(s) \/ MemoryWrite(s) \/ Judge(s) \/ ResultReturns(s)
  BY <1>0, <1>4 DEF Call, AllocReturns, MemoryWrite, Judge, ResultReturns
<1>5. CASE (\E c \in Contents : ReadResult(s, c)) \/ StepFails(s)
  BY <1>0, <1>5 DEF ReadResult, StepFails
<1> QED
  BY <1>1, <1>2, <1>3, <1>4, <1>5

LEMMA HonouredStep ==
    ASSUME IndInv, Next, NEW r \in Requests, InPlugin(r)
    PROVE  Honoured(r)
<1>0. /\ TypeOK /\ req \in [Requests -> ReqType] /\ req[r].at \in Nat
      /\ PolicyAt(r, req[r].at) \in PolicyType
      /\ req[r].pc \in GuestCalls \cup HostSteps
  BY AtPlugin DEF IndInv, TypeOK, InPlugin
<1>1. PICK s \in Requests :
          \/ \E ph \in Phases, c \in Contents : Check(s, ph, c)
          \/ WalkEnds(s) \/ StatelessCheck(s) \/ WasmCheck(s)
          \/ Call(s) \/ AllocReturns(s) \/ MemoryWrite(s)
          \/ \E result \in {0, 1} : CheckReturns(s, result)
          \/ Judge(s) \/ ResultReturns(s)
          \/ \E c \in Contents : ReadResult(s, c)
          \/ StepFails(s)
  BY DEF Next
<1>2. CASE r # s
  <2>1. req'[r].pc = req[r].pc
    BY <1>1, <1>2, OthersStay
  <2> QED
    BY <1>0, <2>1 DEF Honoured, GuestCalls, HostSteps
<1>3. CASE r = s
  <2>1. ~(\E ph \in Phases, c \in Contents : Check(r, ph, c))
        /\ ~WalkEnds(r) /\ ~StatelessCheck(r) /\ ~WasmCheck(r)
    BY <1>0 DEF Check, WalkEnds, StatelessCheck, WasmCheck, GuestCalls, HostSteps
  <2>2. CASE Call(r) \/ AllocReturns(r) \/ MemoryWrite(r) \/ ResultReturns(r)
    <3>1. req'[r].pc \in GuestCalls \cup HostSteps
      <4>1. CASE Call(r)
        BY <1>0, <4>1 DEF Call, ReqType
      <4>2. CASE AllocReturns(r)
        <5>1. \/ req'[r] = [req[r] EXCEPT !.pc = "write", !.running = FALSE, !.buffer = "live"]
              \/ req'[r] = [req[r] EXCEPT !.pc = "writeMeta", !.running = FALSE]
          BY <1>0, <4>2 DEF AllocReturns
        <5> QED
          BY <1>0, <5>1 DEF ReqType, HostSteps
      <4>3. CASE MemoryWrite(r)
        BY <1>0, <4>3 DEF MemoryWrite, ReqType, GuestCalls
      <4>4. CASE ResultReturns(r)
        <5>1. \/ req'[r] = [req[r] EXCEPT !.pc = "len", !.running = FALSE,
                                          !.found = guest[PluginOf(r)].result]
              \/ req'[r] = [req[r] EXCEPT !.pc = "read", !.running = FALSE]
          BY <1>0, <4>4 DEF ResultReturns
        <5> QED
          BY <1>0, <5>1 DEF ReqType, GuestCalls, HostSteps
      <4> QED
        BY <2>2, <4>1, <4>2, <4>3, <4>4
    <3> QED
      BY <3>1 DEF Honoured, GuestCalls, HostSteps
  <2>3. ASSUME NEW result \in {0, 1}, CheckReturns(r, result)
        PROVE  Honoured(r)
    <3> DEFINE x == [req[r] EXCEPT !.pc = "judge", !.running = FALSE,
                                   !.result = result, !.buffer = "freed"]
    <3>1. req'[r] = x
      BY <2>3 DEF CheckReturns
    <3>2. x.pc = "judge"
      BY <1>0, Zenon DEF ReqType
    <3> HIDE DEF x
    <3> QED
      BY <3>1, <3>2 DEF Honoured
  <2>4. CASE Judge(r)
    <3>1. CASE req[r].result = 0
      <4>1. req'[r] = MovedOn(r, req[r].at)
        BY <1>0, <2>4, <3>1 DEF Judge
      <4> QED
        BY <1>0, <3>1, <4>1, MovedOnType DEF Honoured
    <3>2. CASE req[r].result # 0
      <4>1. req'[r] = [req[r] EXCEPT !.pc = "ptr"]
        BY <1>0, <2>4, <3>2 DEF Judge
      <4>2. req'[r].pc = "ptr"
        BY <1>0, <4>1 DEF ReqType
      <4> QED
        BY <4>2 DEF Honoured
    <3> QED
      BY <3>1, <3>2
  <2>5. ASSUME NEW c \in Contents, ReadResult(r, c)
        PROVE  Honoured(r)
    <3>1. req'[r] = Refused(r, req[r].at, c)
      BY <1>0, <2>5 DEF ReadResult
    <3>2. req'[r].pc = "done"
      BY <1>0, <3>1, RefusedType
    <3>3. req[r].result = 1
      BY <2>5 DEF ReadResult, IndInv, PluginSteps
    <3> QED
      BY <3>2, <3>3 DEF Honoured
  <2>6. CASE StepFails(r)
    <3> DEFINE refused == Refused(r, req[r].at, "error")
               moved == MovedOn(r, req[r].at)
    <3>1. /\ refused \in ReqType /\ refused.pc = "done"
          /\ moved \in ReqType /\ moved.pc = "walk"
      BY <1>0, RefusedType, MovedOnType
    <3>2. req'[r] = [Failed(r) EXCEPT !.solo = FALSE]
      BY <1>0, <2>6 DEF StepFails
    <3>3. Failed(r) = IF OnError(PolicyOf(r)) = "block" THEN refused ELSE moved
      BY DEF Failed
    <3> HIDE DEF refused, moved
    <3>4. req'[r].pc = Failed(r).pc
      BY <3>1, <3>2, <3>3 DEF ReqType
    <3> QED
      BY <3>1, <3>3, <3>4 DEF Honoured
  <2> QED
    BY <1>1, <1>3, <2>1, <2>2, <2>3, <2>4, <2>5, <2>6
<1> QED
  BY <1>2, <1>3

\* With on_error "block" a plugin lets a content pass only if its check
\* returned 0, and with "allow" it refuses only if its check returned 1
\* (WasmFilter.Check, handleError), however many requests share its instance,
\* overwrite each other's buffers and results, or make it trap.
THEOREM PolicyOnError == Spec => OnErrorHonoured
<1>1. ASSUME IndInv, [Next]_vars
      PROVE  [\A r \in Requests : InPlugin(r) =>
                /\ OnError(PolicyOf(r)) = "block" /\ req'[r].pc = "walk" => req[r].result = 0
                /\ OnError(PolicyOf(r)) = "allow" /\ req'[r].pc = "done" => req[r].result = 1]_vars
  BY <1>1, HonouredStep DEF Honoured
<1> QED
  BY <1>1, PolicyInvariant, PTL DEF Spec, OnErrorHonoured

-----------------------------------------------------------------------------
(* Checks nothing interferes with *)

\* The verdict of a filter that is the first to object.
LEMMA FirstIs ==
    ASSUME NEW ph, NEW c, engine[ph] \subseteq Nat, NEW i \in engine[ph],
           c \in Policies[ph][i].on,
           \A j \in engine[ph] : j < i => c \notin Policies[ph][j].on
    PROVE  FirstObjection(ph, c)
              = [by |-> i, action |-> Policies[ph][i].action, message |-> c]
<1> DEFINE objecting == {j \in engine[ph] : c \in Policies[ph][j].on}
           first == CHOOSE j \in objecting : \A k \in objecting : j <= k
<1>1. i \in objecting /\ \A k \in objecting : i <= k
  OBVIOUS
<1>2. first \in objecting /\ \A k \in objecting : first <= k
  BY <1>1
<1>3. first = i
  BY <1>1, <1>2
<1>4. objecting # {}
  BY <1>1
<1>5. FirstObjection(ph, c) = [by |-> first, action |-> Policies[ph][first].action,
                               message |-> c]
  BY <1>4 DEF FirstObjection
<1> HIDE DEF first
<1> QED
  BY <1>3, <1>5

LEMMA NobodyObjects ==
    ASSUME NEW ph, NEW c, \A j \in engine[ph] : c \notin Policies[ph][j].on
    PROVE  FirstObjection(ph, c) = Passed
BY DEF FirstObjection

\* The walk ends when it has passed every loaded filter, and goes on with the
\* nearest one ahead.
LEMMA LoadedPlaces ==
    ASSUME TypeOK, NEW r \in Requests
    PROVE  engine[req[r].phase] \subseteq Nat /\ req[r].at \in Nat
BY DEF TypeOK, ReqType

LEMMA NoFilterLeft ==
    ASSUME TypeOK, NEW r \in Requests, NextFilter(r) = {}
    PROVE  \A i \in engine[req[r].phase] : i <= req[r].at
<1> SUFFICES ASSUME NEW i \in engine[req[r].phase], ~(i <= req[r].at)
             PROVE  FALSE
  OBVIOUS
<1> DEFINE ahead == {j \in engine[req[r].phase] : j > req[r].at}
<1>1. ahead \subseteq Nat /\ ahead # {}
  BY LoadedPlaces
<1>2. PICK m \in ahead : \A y \in ahead : <<y, m>> \notin OpToRel(<, Nat)
  BY <1>1, WFMin, NatLessThanWellFounded
<1>3. ASSUME NEW y \in ahead PROVE m <= y
  <2>1. m \in Nat /\ y \in Nat /\ <<y, m>> \notin OpToRel(<, Nat)
    BY <1>1, <1>2
  <2>2. y < m => <<y, m>> \in OpToRel(<, Nat)
    BY <2>1 DEF OpToRel
  <2>3. ~(y < m) /\ m \in Nat /\ y \in Nat
    BY <2>1, <2>2, Zenon
  <2> QED BY <2>3
<1>4. m \in NextFilter(r)
  BY <1>2, <1>3 DEF NextFilter
<1> QED
  BY <1>4

LEMMA NextIsNearest ==
    ASSUME TypeOK, NEW r \in Requests, NEW i \in NextFilter(r)
    PROVE  /\ i \in engine[req[r].phase] /\ i \in Nat
           /\ \A j \in engine[req[r].phase] : j < i => j <= req[r].at
<1>1. engine[req[r].phase] \subseteq Nat /\ req[r].at \in Nat
  BY LoadedPlaces
<1> QED
  BY <1>1 DEF NextFilter

\* Requests in the same plugin have disturbed each other.
LEMMA SameCompany ==
    ASSUME SoloInv, NEW r \in Requests, NEW q \in Requests, q # r,
           InPlugin(r), InPlugin(q), PluginOf(q) = PluginOf(r)
    PROVE  ~req[q].solo /\ ~req[r].solo
<1>1. r \in Inside(PluginOf(r)) /\ q \in Inside(PluginOf(r))
  BY DEF Inside
<1> QED
  BY <1>1 DEF SoloInv

\* A step of request r is no concern of an undisturbed check elsewhere.
LEMMA OthersSolo ==
    ASSUME IndInv, IndInv', SoloInv, NEW r \in Requests, engine' = engine,
           NEW y \in ReqType, req'[r] = y,
           \A q \in Requests : q # r =>
               \/ req'[q] = req[q]
               \/ /\ InPlugin(q) /\ ~req'[q].solo
                  /\ req'[q].pc = req[q].pc /\ req'[q].phase = req[q].phase
                  /\ req'[q].at = req[q].at,
           \A f \in Plugins : guest'[f] # guest[f] => InPlugin(r) /\ PluginOf(r) = f,
           \A q \in Requests : q # r /\ InPlugin(q) /\ Within(y)
                               /\ PluginOf(q) = <<y.phase, y.at>> =>
               ~req'[q].solo /\ ~y.solo,
           ~Within(y) => ~y.torn,
           y.solo => Undisturbed(y)'
    PROVE  SoloInv'
<1>1. \A q \in Requests : /\ InPlugin(q)' <=> Within(req'[q])
                          /\ PluginOf(q)' = <<req'[q].phase, req'[q].at>>
  BY DEF InPlugin, Within, PluginOf
<1>2. ASSUME NEW q \in Requests, q # r
      PROVE  /\ InPlugin(q)' <=> InPlugin(q)
             /\ PluginOf(q)' = PluginOf(q)
  BY <1>2 DEF InPlugin, PluginOf
<1>3. /\ ~InPlugin(r)' => ~req'[r].torn
      /\ req'[r].solo => Undisturbed(req[r])'
  <2>1. Undisturbed(req[r])' = Undisturbed(y)'
    OBVIOUS
  <2> QED BY <1>1, <2>1
<1>4. ASSUME req'[r].solo, InPlugin(r)'
      PROVE  Inside(PluginOf(r))' = {r}
  BY <1>1, <1>2, <1>4 DEF Inside
<1>5. ASSUME NEW q \in Requests, q # r
      PROVE  /\ ~InPlugin(q)' => ~req'[q].torn
             /\ req'[q].solo => Undisturbed(req[q])'
             /\ req'[q].solo /\ InPlugin(q)' => Inside(PluginOf(q))' = {q}
  <2>1. CASE req'[q] # req[q]
    BY <1>2, <1>5, <2>1
  <2>2. CASE req'[q] = req[q]
    <3>1. ~InPlugin(q)' => ~req'[q].torn
      BY <1>2, <1>5, <2>2 DEF SoloInv
    <3>2. ASSUME req'[q].solo
          PROVE  Undisturbed(req[q])'
      <4>1. Undisturbed(req[q])
        BY <2>2, <3>2 DEF SoloInv
      <4>2. Within(req[q]) => guest'[PluginOf(q)] = guest[PluginOf(q)]
        <5> SUFFICES ASSUME Within(req[q]), guest'[PluginOf(q)] # guest[PluginOf(q)]
                     PROVE  FALSE
          OBVIOUS
        <5>1. InPlugin(q) /\ PluginOf(q) \in Plugins
          BY AtPlugin DEF InPlugin, Within
        <5>2. InPlugin(r) /\ PluginOf(r) = PluginOf(q)
          BY <5>1
        <5> QED BY <1>5, <2>2, <3>2, <5>1, <5>2, SameCompany
      <4>3. PICK x \in ReqType : x = req[q] /\ x = req'[q]
        BY <2>2 DEF IndInv, TypeOK
      <4>4. Within(x) => guest'[<<x.phase, x.at>>] = guest[<<x.phase, x.at>>]
        BY <4>2, <4>3 DEF PluginOf
      <4>5. Undisturbed(x) => Undisturbed(x)'
        <5>1. NoObjectionYet(x)' <=> NoObjectionYet(x)
          BY DEF NoObjectionYet
        <5>2. FirstObjection(x.phase, x.content)' = FirstObjection(x.phase, x.content)
          BY DEF FirstObjection
        <5>3. Within(x) =>
                 OwnResult(x, Policies[x.phase][x.at], guest[<<x.phase, x.at>>])'
                   = OwnResult(x, Policies[x.phase][x.at], guest[<<x.phase, x.at>>])
          BY <4>4 DEF OwnResult
        <5> QED BY <5>1, <5>2, <5>3 DEF Undisturbed, Within
      <4> QED BY <4>1, <4>3, <4>5
    <3>3. ASSUME req'[q].solo, InPlugin(q)'
          PROVE  Inside(PluginOf(q))' = {q}
      <4>1. InPlugin(q) /\ req[q].solo /\ Inside(PluginOf(q)) = {q}
        BY <1>2, <1>5, <2>2, <3>3 DEF SoloInv
      <4>2. ~(InPlugin(r)' /\ PluginOf(r)' = PluginOf(q))
        BY <1>1, <1>5, <3>3, <4>1
      <4> QED BY <1>2, <1>5, <3>3, <4>1, <4>2 DEF Inside
    <3> QED BY <3>1, <3>2, <3>3
  <2> QED BY <2>1, <2>2
<1> QED
  BY <1>3, <1>4, <1>5 DEF SoloInv

\* The request is outside the plugins after its step.
LEMMA OutsideStep ==
    ASSUME IndInv, IndInv', SoloInv, NEW r \in Requests, engine' = engine,
           NEW y \in ReqType, req' = [req EXCEPT ![r] = y],
           \A f \in Plugins : guest'[f] # guest[f] => InPlugin(r) /\ PluginOf(r) = f,
           ~Within(y), ~y.torn, y.solo => Undisturbed(y)
    PROVE  SoloInv'
<1>1. req'[r] = y /\ \A q \in Requests : q # r => req'[q] = req[q]
  BY DEF IndInv, TypeOK
<1>2. Undisturbed(y) => Undisturbed(y)'
  BY DEF Undisturbed, NoObjectionYet, FirstObjection, Within
<1> HIDE DEF Undisturbed
<1> QED
  BY <1>1, <1>2, OthersSolo

\* The request is in the same plugin after its step.
LEMMA InsideStep ==
    ASSUME IndInv, IndInv', SoloInv, NEW r \in Requests, engine' = engine,
           NEW y \in ReqType, req' = [req EXCEPT ![r] = y], InPlugin(r),
           y.phase = req[r].phase, y.at = req[r].at, y.content = req[r].content,
           y.verdict = req[r].verdict, y.solo = req[r].solo, Within(y),
           \A f \in Plugins : guest'[f] # guest[f] => PluginOf(r) = f,
           y.solo => OwnResult(y, PolicyOf(r), guest'[PluginOf(r)])
    PROVE  SoloInv'
<1>1. req'[r] = y /\ \A q \in Requests : q # r => req'[q] = req[q]
  BY DEF IndInv, TypeOK
<1>2. ASSUME NEW q \in Requests, q # r, InPlugin(q), PluginOf(q) = <<y.phase, y.at>>
      PROVE  ~req'[q].solo /\ ~y.solo
  BY <1>1, <1>2, SameCompany DEF PluginOf
<1>3. ASSUME y.solo PROVE Undisturbed(y)'
  <2>1. Undisturbed(req[r]) /\ Within(req[r]) /\ req[r].pc # "walk" /\ y.pc # "walk"
        /\ y.pc # "done"
    BY <1>3 DEF SoloInv, InPlugin, Within, GuestCalls, HostSteps
  <2>2. NoObjectionYet(req[r]) /\ req[r].at \in engine[req[r].phase]
    BY <2>1 DEF Undisturbed
  <2>3. NoObjectionYet(y)' /\ y.at \in engine'[y.phase]
    BY <2>1, <2>2 DEF NoObjectionYet
  <2>4. OwnResult(y, Policies[y.phase][y.at], guest'[<<y.phase, y.at>>])
    BY <1>3 DEF PolicyOf, PolicyAt, PluginOf
  <2>5. OwnResult(y, Policies[y.phase][y.at], guest[<<y.phase, y.at>>])'
    BY <2>4 DEF OwnResult
  <2> QED BY <2>1, <2>3, <2>5 DEF Undisturbed
<1>4. Within(y) /\ (~Within(y) => ~y.torn)
  OBVIOUS
<1> HIDE DEF Undisturbed
<1> QED
  BY <1>1, <1>2, <1>3, <1>4, OthersSolo

-----------------------------------------------------------------------------

\* The records that leave a filter: its fields.
LEMMA MovedOnFields ==
    ASSUME TypeOK, NEW r \in Requests, NEW i
    PROVE  /\ MovedOn(r, i).pc = "walk" /\ MovedOn(r, i).at = i
           /\ MovedOn(r, i).phase = req[r].phase
           /\ MovedOn(r, i).content = req[r].content
           /\ MovedOn(r, i).verdict = req[r].verdict
           /\ MovedOn(r, i).solo = req[r].solo
           /\ MovedOn(r, i).torn = FALSE
<1>1. req[r] \in ReqType
  BY DEF TypeOK
<1> QED BY <1>1, Zenon DEF MovedOn, ReqType

LEMMA RefusedFields ==
    ASSUME TypeOK, NEW r \in Requests, NEW i \in Nat, NEW message
    PROVE  LET y == Refused(r, i, message)
           IN  /\ y.pc = "done" /\ y.phase = req[r].phase /\ y.content = req[r].content
               /\ y.solo = req[r].solo /\ y.torn = FALSE
<1>1. MovedOn(r, i) \in ReqType
  BY MovedOnType
<1> HIDE DEF MovedOn
<1> QED BY <1>1, MovedOnFields, Zenon DEF Refused, ReqType

VerdictOf(p, i, message) == [by |-> i, action |-> p.action, message |-> message]

LEMMA RefusedVerdict ==
    ASSUME TypeOK, NEW r \in Requests, NEW i \in Nat, NEW message
    PROVE  Refused(r, i, message).verdict = VerdictOf(PolicyAt(r, i), i, message)
<1>1. MovedOn(r, i) \in ReqType
  BY MovedOnType
<1> HIDE DEF MovedOn
<1> QED BY <1>1, Zenon DEF Refused, ReqType, VerdictOf

LEMMA NotWithin ==
    ASSUME NEW x, x.pc \in {"idle", "walk", "done"}
    PROVE  ~Within(x)
BY DEF Within, GuestCalls, HostSteps

\* A filter that does not object is passed.
LEMMA PassedOn ==
    ASSUME TypeOK, SoloInv, NEW r \in Requests, req[r].solo, NEW i \in Nat,
           NoObjectionYet(req[r]),
           req[r].content \notin PolicyAt(r, i).on,
           \A j \in engine[req[r].phase] : j < i => j < req[r].at \/ (req[r].pc = "walk" /\ j = req[r].at)
    PROVE  Undisturbed(MovedOn(r, i))
<1> DEFINE y == MovedOn(r, i)
<1>1. /\ y.pc = "walk" /\ y.at = i /\ y.phase = req[r].phase
      /\ y.content = req[r].content /\ y.verdict = req[r].verdict
  BY MovedOnFields
<1> HIDE DEF y
<1>2. ASSUME NEW j \in engine[req[r].phase], j < i \/ j = i
      PROVE  req[r].content \notin Policies[req[r].phase][j].on
  BY <1>2 DEF NoObjectionYet, PolicyAt
<1>3. NoObjectionYet(y)
  BY <1>1, <1>2 DEF NoObjectionYet
<1>4. Undisturbed(y)
  BY <1>1, <1>3, NotWithin DEF Undisturbed
<1> QED BY <1>4 DEF y

\* The first filter that objects gives the verdict.
LEMMA RefusedFirst ==
    ASSUME TypeOK, SoloInv, NEW r \in Requests, req[r].solo,
           NEW i \in engine[req[r].phase], NoObjectionYet(req[r]),
           req[r].content \in PolicyAt(r, i).on,
           \A j \in engine[req[r].phase] : j < i => j < req[r].at \/ (req[r].pc = "walk" /\ j = req[r].at)
    PROVE  Undisturbed(Refused(r, i, req[r].content))
<1>0. i \in Nat /\ engine[req[r].phase] \subseteq Nat
  BY LoadedPlaces
<1>c. PICK c : c = req[r].content
  OBVIOUS
<1> DEFINE y == Refused(r, i, c)
<1>1. /\ y.pc = "done" /\ y.phase = req[r].phase /\ y.content = req[r].content
      /\ y.verdict = VerdictOf(PolicyAt(r, i), i, c)
  <2>1. y.pc = "done" /\ y.phase = req[r].phase /\ y.content = req[r].content
    BY <1>0, RefusedFields
  <2>2. y.verdict = VerdictOf(PolicyAt(r, i), i, c)
    BY <1>0, RefusedVerdict
  <2> QED BY <2>1, <2>2, Zenon
<1> HIDE DEF y
<1>2. \A j \in engine[req[r].phase] :
          j < i => req[r].content \notin Policies[req[r].phase][j].on
  BY DEF NoObjectionYet
<1>3. y.verdict = FirstObjection(y.phase, y.content)
  BY <1>0, <1>c, <1>1, <1>2, FirstIs DEF PolicyAt, VerdictOf
<1>4. Undisturbed(y)
  BY <1>1, <1>3, NotWithin DEF Undisturbed
<1> QED BY <1>c, <1>4 DEF y

LEMMA SoloWalk ==
    ASSUME IndInv, IndInv', SoloInv, NEW r \in Requests,
           \/ \E ph \in Phases, c \in Contents : Check(r, ph, c)
           \/ WalkEnds(r)
           \/ StatelessCheck(r)
    PROVE  SoloInv'
<1>0. /\ req[r] \in ReqType /\ TypeOK
      /\ engine[req[r].phase] \subseteq Nat /\ req[r].at \in Nat
  BY LoadedPlaces DEF IndInv, TypeOK
<1>1. ASSUME NEW ph \in Phases, NEW c \in Contents, Check(r, ph, c)
      PROVE  SoloInv'
  <2> DEFINE x == [req[r] EXCEPT !.pc = "walk", !.phase = ph, !.content = c,
                                 !.at = 0, !.solo = TRUE, !.verdict = Passed]
  <2>1. Passed \in Verdicts
    BY DEF Passed, Verdicts
  <2>2. x \in ReqType
    BY <1>0, <2>1 DEF ReqType
  <2>3. /\ x.pc = "walk" /\ x.phase = ph /\ x.content = c /\ x.at = 0
        /\ x.verdict = Passed /\ x.torn = req[r].torn
    BY <1>0, Zenon DEF ReqType
  <2>4. req' = [req EXCEPT ![r] = x] /\ engine' = engine /\ guest' = guest
    BY <1>1 DEF Check
  <2> HIDE DEF x
  <2>5. ~Within(x) /\ ~x.torn
    <3>1. ~InPlugin(r)
      BY <1>1 DEF Check, InPlugin, GuestCalls, HostSteps
    <3> QED BY <2>3, <3>1, NotWithin DEF SoloInv
  <2>6. Undisturbed(x)
    <3>1. ASSUME NEW i \in engine[ph], i < 0 \/ i = 0 PROVE FALSE
      <4>1. engine[ph] \subseteq DOMAIN Policies[ph] /\ Policies[ph] \in Seq(PolicyType)
        BY <1>0, PolicyAssumption DEF TypeOK
      <4>2. i \in 1 .. Len(Policies[ph]) /\ Len(Policies[ph]) \in Nat
        BY <4>1
      <4> QED BY <3>1, <4>2
    <3>2. NoObjectionYet(x)
      BY <2>3, <3>1 DEF NoObjectionYet
    <3> QED BY <2>3, <2>5, <3>2 DEF Undisturbed
  <2> QED
    BY <2>2, <2>4, <2>5, <2>6, OutsideStep
<1>2. CASE WalkEnds(r)
  <2> DEFINE x == [req[r] EXCEPT !.pc = "done"]
  <2>1. x \in ReqType
    BY <1>0 DEF ReqType
  <2>2. /\ x.pc = "done" /\ x.phase = req[r].phase /\ x.content = req[r].content
        /\ x.verdict = req[r].verdict /\ x.torn = req[r].torn /\ x.solo = req[r].solo
    BY <1>0, Zenon DEF ReqType
  <2>3. req' = [req EXCEPT ![r] = x] /\ engine' = engine /\ guest' = guest
        /\ req[r].pc = "walk" /\ NextFilter(r) = {}
    BY <1>2 DEF WalkEnds
  <2> HIDE DEF x
  <2>4. ~Within(x) /\ ~x.torn
    BY <2>2, <2>3, NotWithin DEF SoloInv, InPlugin, GuestCalls, HostSteps
  <2>5. ASSUME x.solo PROVE Undisturbed(x)
    <3>1. NoObjectionYet(req[r])
      BY <2>2, <2>3, <2>5 DEF SoloInv, Undisturbed
    <3>2. \A i \in engine[req[r].phase] : i < req[r].at \/ i = req[r].at
      BY <1>0, <2>3, NoFilterLeft
    <3>3. \A i \in engine[req[r].phase] : req[r].content \notin Policies[req[r].phase][i].on
      BY <2>3, <3>1, <3>2 DEF NoObjectionYet
    <3>4. FirstObjection(x.phase, x.content) = Passed /\ x.verdict = Passed
      BY <2>2, <3>1, <3>3, NobodyObjects DEF NoObjectionYet
    <3> QED BY <2>2, <2>4, <3>4 DEF Undisturbed
  <2> QED
    BY <2>1, <2>3, <2>4, <2>5, OutsideStep
<1>3. CASE StatelessCheck(r)
  <2>1. PICK i \in NextFilter(r) :
            req' = [req EXCEPT ![r] = IF Objects(r, i)
                       THEN Refused(r, i, req[r].content) ELSE MovedOn(r, i)]
    BY <1>3 DEF StatelessCheck
  <2>2. /\ i \in engine[req[r].phase] /\ i \in Nat
        /\ \A j \in engine[req[r].phase] : j < i => j <= req[r].at
    BY <1>0, NextIsNearest
  <2>3. PolicyAt(r, i) \in PolicyType /\ req[r].content \in Contents
    BY <1>0, <2>2, LoadedPolicy DEF ReqType
  <2>4. engine' = engine /\ guest' = guest /\ req[r].pc = "walk"
    BY <1>3 DEF StatelessCheck
  <2>5. \A j \in engine[req[r].phase] :
            j < i => j < req[r].at \/ (req[r].pc = "walk" /\ j = req[r].at)
    BY <1>0, <2>2, <2>4
  <2>6. req[r].solo => NoObjectionYet(req[r])
    BY <2>4 DEF SoloInv, Undisturbed
  <2>7. CASE Objects(r, i)
    <3> DEFINE y == Refused(r, i, req[r].content)
    <3>0. y \in ReqType /\ y.pc = "done" /\ ~y.torn /\ y.solo = req[r].solo
      <4>1. y \in ReqType
        BY <1>0, <2>2, <2>3, RefusedType
      <4>2. PICK c : c = req[r].content
        OBVIOUS
      <4>3. /\ Refused(r, i, c).pc = "done" /\ Refused(r, i, c).torn = FALSE
            /\ Refused(r, i, c).solo = req[r].solo
        BY <1>0, <2>2, RefusedFields
      <4> QED BY <4>1, <4>2, <4>3
    <3>1. y \in ReqType /\ ~Within(y) /\ ~y.torn /\ y.solo = req[r].solo
      <4> HIDE DEF y
      <4> QED BY <3>0, NotWithin
    <3>2. y.solo => Undisturbed(y)
      BY <1>0, <2>2, <2>5, <2>6, <2>7, <3>1, RefusedFirst DEF Objects
    <3>3. req' = [req EXCEPT ![r] = y]
      BY <2>1, <2>7
    <3> HIDE DEF y
    <3> QED BY <2>4, <3>1, <3>2, <3>3, OutsideStep
  <2>8. CASE ~Objects(r, i)
    <3> DEFINE y == MovedOn(r, i)
    <3>0. y \in ReqType /\ y.pc = "walk" /\ ~y.torn /\ y.solo = req[r].solo
      BY <1>0, <2>2, MovedOnType, MovedOnFields, Zenon
    <3>1. y \in ReqType /\ ~Within(y) /\ ~y.torn /\ y.solo = req[r].solo
      <4> HIDE DEF y
      <4> QED BY <3>0, NotWithin
    <3>2. y.solo => Undisturbed(y)
      BY <1>0, <2>2, <2>5, <2>6, <2>8, <3>1, PassedOn DEF Objects
    <3>3. req' = [req EXCEPT ![r] = y]
      BY <2>1, <2>8
    <3> HIDE DEF y
    <3> QED BY <2>4, <3>1, <3>2, <3>3, OutsideStep
  <2> QED BY <2>7, <2>8
<1> QED
  BY <1>1, <1>2, <1>3

\* What is known of an undisturbed check inside a plugin.
LEMMA SoloInside ==
    ASSUME IndInv, SoloInv, NEW r \in Requests, InPlugin(r), req[r].solo
    PROVE  /\ NoObjectionYet(req[r]) /\ req[r].at \in engine[req[r].phase]
           /\ OwnResult(req[r], PolicyOf(r), guest[PluginOf(r)])
           /\ \A q \in Requests : InPlugin(q) /\ PluginOf(q) = PluginOf(r) => q = r
<1>1. Undisturbed(req[r]) /\ Within(req[r])
  BY DEF SoloInv, InPlugin, Within
<1>2. \A q \in Requests : InPlugin(q) /\ PluginOf(q) = PluginOf(r) => q = r
  BY SameCompany
<1> QED
  BY <1>1, <1>2 DEF Undisturbed, PolicyOf, PolicyAt, PluginOf

\* A plugin's instance changes only by what is done to it.
LEMMA OnlyGuest ==
    ASSUME IndInv, NEW f \in Plugins, NEW b \in BOOLEAN,
           guest' = [guest EXCEPT ![f].corrupt = b]
    PROVE  /\ guest'[f].corrupt = b /\ guest'[f].result = guest[f].result
           /\ \A h \in Plugins : guest'[h] # guest[h] => f = h
<1>1. guest \in [Plugins -> GuestType]
  BY DEF IndInv, TypeOK
<1> QED BY <1>1 DEF GuestType

LEMMA SoloCall ==
    ASSUME IndInv, IndInv', SoloInv, NEW r \in Requests, Call(r)
    PROVE  SoloInv'
<1>0. req[r] \in ReqType /\ InPlugin(r) /\ PluginOf(r) \in Plugins
      /\ req[r].pc \in GuestCalls
  BY AtPlugin DEF IndInv, TypeOK, Call, InPlugin
<1> DEFINE x == [req[r] EXCEPT !.running = TRUE]
           others == {q \in Inside(PluginOf(r)) : req[q].running}
           b == guest[PluginOf(r)].corrupt \/ others # {}
                   \/ (req[r].pc = "check" /\ req[r].buffer = "freed")
<1>1. x \in ReqType
  BY <1>0 DEF ReqType
<1>2. /\ x.pc = req[r].pc /\ x.phase = req[r].phase /\ x.at = req[r].at
      /\ x.content = req[r].content /\ x.verdict = req[r].verdict
      /\ x.solo = req[r].solo /\ x.torn = req[r].torn /\ x.buffer = req[r].buffer
      /\ x.result = req[r].result /\ x.found = req[r].found
  BY <1>0, Zenon DEF ReqType
<1>3. req' = [req EXCEPT ![r] = x] /\ engine' = engine
      /\ guest' = [guest EXCEPT ![PluginOf(r)].corrupt = b] /\ ~req[r].running
  BY DEF Call
<1>4. b \in BOOLEAN
  <2>1. guest[PluginOf(r)].corrupt \in BOOLEAN
    BY <1>0 DEF IndInv, TypeOK, GuestType
  <2> QED BY <2>1
<1>5. ASSUME req[r].solo PROVE ~b
  <2>1. /\ OwnResult(req[r], PolicyOf(r), guest[PluginOf(r)])
        /\ \A q \in Requests : InPlugin(q) /\ PluginOf(q) = PluginOf(r) => q = r
    BY <1>0, <1>5, SoloInside
  <2>2. others = {}
    BY <1>3, <2>1 DEF Inside
  <2> QED BY <2>1, <2>2 DEF OwnResult
<1> HIDE DEF x, b
<1>6. /\ guest'[PluginOf(r)].corrupt = b
      /\ guest'[PluginOf(r)].result = guest[PluginOf(r)].result
      /\ \A h \in Plugins : guest'[h] # guest[h] => PluginOf(r) = h
  BY <1>0, <1>3, <1>4, OnlyGuest
<1>7. ASSUME x.solo PROVE OwnResult(x, PolicyOf(r), guest'[PluginOf(r)])
  <2>1. OwnResult(req[r], PolicyOf(r), guest[PluginOf(r)])
    BY <1>0, <1>2, <1>7, SoloInside
  <2> QED BY <1>2, <1>5, <1>6, <1>7, <2>1 DEF OwnResult
<1>8. Within(x)
  BY <1>0, <1>2 DEF Within
<1> QED
  BY <1>0, <1>1, <1>2, <1>3, <1>6, <1>7, <1>8, InsideStep

LEMMA SoloAlloc ==
    ASSUME IndInv, IndInv', SoloInv, NEW r \in Requests, AllocReturns(r)
    PROVE  SoloInv'
<1>0. req[r] \in ReqType /\ InPlugin(r) /\ PluginOf(r) \in Plugins
      /\ req[r].pc \in {"alloc", "allocMeta"}
  BY AtPlugin DEF IndInv, TypeOK, AllocReturns, InPlugin, GuestCalls
<1>1. engine' = engine /\ guest' = guest
  BY DEF AllocReturns
<1>2. CASE req[r].pc = "alloc"
  <2> DEFINE x == [req[r] EXCEPT !.pc = "write", !.running = FALSE, !.buffer = "live"]
  <2>1. x \in ReqType
    BY <1>0 DEF ReqType, HostSteps
  <2>2. /\ x.pc = "write" /\ x.phase = req[r].phase /\ x.at = req[r].at
        /\ x.content = req[r].content /\ x.verdict = req[r].verdict
        /\ x.solo = req[r].solo /\ x.torn = req[r].torn /\ x.buffer = "live"
    BY <1>0, Zenon DEF ReqType
  <2>3. req' = [req EXCEPT ![r] = x]
    BY <1>2 DEF AllocReturns
  <2> HIDE DEF x
  <2>4. ASSUME x.solo PROVE OwnResult(x, PolicyOf(r), guest'[PluginOf(r)])
    BY <1>0, <1>1, <2>2, <2>4, SoloInside DEF OwnResult
  <2>5. Within(x)
    BY <2>2 DEF Within, HostSteps
  <2> QED BY <1>0, <1>1, <2>1, <2>2, <2>3, <2>4, <2>5, InsideStep
<1>3. CASE req[r].pc = "allocMeta"
  <2> DEFINE x == [req[r] EXCEPT !.pc = "writeMeta", !.running = FALSE]
  <2>1. x \in ReqType
    BY <1>0 DEF ReqType, HostSteps
  <2>2. /\ x.pc = "writeMeta" /\ x.phase = req[r].phase /\ x.at = req[r].at
        /\ x.content = req[r].content /\ x.verdict = req[r].verdict
        /\ x.solo = req[r].solo /\ x.torn = req[r].torn /\ x.buffer = req[r].buffer
    BY <1>0, Zenon DEF ReqType
  <2>3. req' = [req EXCEPT ![r] = x]
    BY <1>3 DEF AllocReturns
  <2> HIDE DEF x
  <2>4. ASSUME x.solo PROVE OwnResult(x, PolicyOf(r), guest'[PluginOf(r)])
    BY <1>0, <1>1, <1>3, <2>2, <2>4, SoloInside DEF OwnResult
  <2>5. Within(x)
    BY <2>2 DEF Within, HostSteps
  <2> QED BY <1>0, <1>1, <2>1, <2>2, <2>3, <2>4, <2>5, InsideStep
<1> QED BY <1>0, <1>2, <1>3

LEMMA SoloWrite ==
    ASSUME IndInv, IndInv', SoloInv, NEW r \in Requests, MemoryWrite(r)
    PROVE  SoloInv'
<1>0. req[r] \in ReqType /\ InPlugin(r) /\ PluginOf(r) \in Plugins
      /\ req[r].pc \in {"write", "writeMeta"}
  BY AtPlugin DEF IndInv, TypeOK, MemoryWrite, InPlugin, HostSteps
<1>1. PICK p \in {"allocMeta", "check"} : req' = [req EXCEPT ![r].pc = p]
  BY DEF MemoryWrite
<1> DEFINE x == [req[r] EXCEPT !.pc = p]
           b == guest[PluginOf(r)].corrupt \/ req[r].buffer = "freed"
<1>2. x \in ReqType
  BY <1>0 DEF ReqType, GuestCalls
<1>3. /\ x.pc = p /\ x.phase = req[r].phase /\ x.at = req[r].at
      /\ x.content = req[r].content /\ x.verdict = req[r].verdict
      /\ x.solo = req[r].solo /\ x.torn = req[r].torn /\ x.buffer = req[r].buffer
  BY <1>0, Zenon DEF ReqType
<1>4. req' = [req EXCEPT ![r] = x] /\ engine' = engine
      /\ guest' = [guest EXCEPT ![PluginOf(r)].corrupt = b]
  BY <1>1 DEF MemoryWrite
<1>5. b \in BOOLEAN
  <2>1. guest[PluginOf(r)].corrupt \in BOOLEAN
    BY <1>0 DEF IndInv, TypeOK, GuestType
  <2> QED BY <2>1
<1>6. ASSUME req[r].solo
      PROVE  ~b /\ req[r].buffer = "live" /\ ~req[r].torn
  BY <1>0, <1>6, SoloInside DEF OwnResult
<1> HIDE DEF x, b
<1>7. /\ guest'[PluginOf(r)].corrupt = b
      /\ \A h \in Plugins : guest'[h] # guest[h] => PluginOf(r) = h
  BY <1>0, <1>4, <1>5, OnlyGuest
<1>8. ASSUME x.solo PROVE OwnResult(x, PolicyOf(r), guest'[PluginOf(r)])
  BY <1>1, <1>3, <1>6, <1>7, <1>8 DEF OwnResult
<1>9. Within(x)
  BY <1>1, <1>3 DEF Within, GuestCalls
<1> QED
  BY <1>0, <1>2, <1>3, <1>4, <1>7, <1>8, <1>9, InsideStep

LEMMA SoloResult ==
    ASSUME IndInv, IndInv', SoloInv, NEW r \in Requests, ResultReturns(r)
    PROVE  SoloInv'
<1>0. /\ req[r] \in ReqType /\ InPlugin(r) /\ PluginOf(r) \in Plugins
      /\ req[r].pc \in {"ptr", "len"} /\ req[r].result = 1
      /\ guest \in [Plugins -> GuestType]
  BY AtPlugin DEF IndInv, TypeOK, PluginSteps, ResultReturns, InPlugin, GuestCalls
<1>1. engine' = engine /\ guest' = guest
  BY DEF ResultReturns
<1>2. CASE req[r].pc = "ptr"
  <2>1. PICK m \in Contents \cup {Nothing} : m = guest[PluginOf(r)].result
    BY <1>0 DEF GuestType
  <2> DEFINE x == [req[r] EXCEPT !.pc = "len", !.running = FALSE, !.found = m]
  <2>2. x \in ReqType
    BY <1>0 DEF ReqType, GuestCalls
  <2>3. /\ x.pc = "len" /\ x.phase = req[r].phase /\ x.at = req[r].at
        /\ x.content = req[r].content /\ x.verdict = req[r].verdict
        /\ x.solo = req[r].solo /\ x.torn = req[r].torn /\ x.found = m
        /\ x.result = req[r].result
    BY <1>0, Zenon DEF ReqType
  <2>4. req' = [req EXCEPT ![r] = x]
    BY <1>2, <2>1 DEF ResultReturns
  <2> HIDE DEF x
  <2>5. ASSUME x.solo PROVE OwnResult(x, PolicyOf(r), guest'[PluginOf(r)])
    BY <1>0, <1>1, <1>2, <2>1, <2>3, <2>5, SoloInside DEF OwnResult
  <2>6. Within(x)
    BY <2>3 DEF Within, GuestCalls
  <2> QED BY <1>0, <1>1, <2>2, <2>3, <2>4, <2>5, <2>6, InsideStep
<1>3. CASE req[r].pc = "len"
  <2> DEFINE x == [req[r] EXCEPT !.pc = "read", !.running = FALSE]
  <2>2. x \in ReqType
    BY <1>0 DEF ReqType, HostSteps
  <2>3. /\ x.pc = "read" /\ x.phase = req[r].phase /\ x.at = req[r].at
        /\ x.content = req[r].content /\ x.verdict = req[r].verdict
        /\ x.solo = req[r].solo /\ x.torn = req[r].torn /\ x.found = req[r].found
        /\ x.result = req[r].result
    BY <1>0, Zenon DEF ReqType
  <2>4. req' = [req EXCEPT ![r] = x]
    BY <1>3 DEF ResultReturns
  <2> HIDE DEF x
  <2>5. ASSUME x.solo PROVE OwnResult(x, PolicyOf(r), guest'[PluginOf(r)])
    BY <1>0, <1>1, <1>3, <2>3, <2>5, SoloInside DEF OwnResult
  <2>6. Within(x)
    BY <2>3 DEF Within, HostSteps
  <2> QED BY <1>0, <1>1, <2>2, <2>3, <2>4, <2>5, <2>6, InsideStep
<1> QED BY <1>0, <1>2, <1>3

LEMMA SoloJudge ==
    ASSUME IndInv, IndInv', SoloInv, NEW r \in Requests, Judge(r)
    PROVE  SoloInv'
<1>0. /\ req[r] \in ReqType /\ TypeOK /\ InPlugin(r) /\ PluginOf(r) \in Plugins
      /\ req[r].pc = "judge" /\ req[r].result \in {0, 1} /\ req[r].at \in Nat
  BY AtPlugin DEF IndInv, TypeOK, PluginSteps, Judge, InPlugin, HostSteps
<1>1. engine' = engine /\ guest' = guest
  BY DEF Judge
<1>2. CASE req[r].result = 0
  <2> DEFINE y == MovedOn(r, req[r].at)
  <2>1. y \in ReqType /\ y.pc = "walk" /\ ~y.torn /\ y.solo = req[r].solo
    BY <1>0, MovedOnType, MovedOnFields, Zenon
  <2>2. y.solo => Undisturbed(y)
    <3> SUFFICES ASSUME req[r].solo PROVE Undisturbed(y)
      BY <2>1
    <3>1. /\ NoObjectionYet(req[r])
          /\ OwnResult(req[r], PolicyOf(r), guest[PluginOf(r)])
      BY <1>0, SoloInside
    <3>2. req[r].content \notin PolicyAt(r, req[r].at).on
      BY <1>0, <1>2, <3>1 DEF OwnResult, PolicyOf
    <3> QED BY <1>0, <3>1, <3>2, PassedOn
  <2>3. req' = [req EXCEPT ![r] = y]
    BY <1>2 DEF Judge
  <2> HIDE DEF y
  <2>4. ~Within(y)
    BY <2>1, NotWithin
  <2> QED BY <1>1, <2>1, <2>2, <2>3, <2>4, OutsideStep
<1>3. CASE req[r].result # 0
  <2> DEFINE x == [req[r] EXCEPT !.pc = "ptr"]
  <2>1. x \in ReqType
    BY <1>0 DEF ReqType, GuestCalls
  <2>2. /\ x.pc = "ptr" /\ x.phase = req[r].phase /\ x.at = req[r].at
        /\ x.content = req[r].content /\ x.verdict = req[r].verdict
        /\ x.solo = req[r].solo /\ x.torn = req[r].torn /\ x.result = req[r].result
    BY <1>0, Zenon DEF ReqType
  <2>3. req' = [req EXCEPT ![r] = x]
    BY <1>3 DEF Judge
  <2> HIDE DEF x
  <2>4. ASSUME x.solo PROVE OwnResult(x, PolicyOf(r), guest'[PluginOf(r)])
    BY <1>0, <1>1, <1>3, <2>2, <2>4, SoloInside DEF OwnResult
  <2>5. Within(x)
    BY <2>2 DEF Within, GuestCalls
  <2> QED BY <1>0, <1>1, <2>1, <2>2, <2>3, <2>4, <2>5, InsideStep
<1> QED BY <1>2, <1>3

LEMMA SoloRead ==
    ASSUME IndInv, IndInv', SoloInv, NEW r \in Requests, NEW c \in Contents,
           ReadResult(r, c)
    PROVE  SoloInv'
<1>0. /\ req[r] \in ReqType /\ TypeOK /\ InPlugin(r) /\ PluginOf(r) \in Plugins
      /\ req[r].pc = "read" /\ req[r].result = 1 /\ req[r].at \in Nat
      /\ PolicyAt(r, req[r].at) \in PolicyType
  BY AtPlugin DEF IndInv, TypeOK, PluginSteps, ReadResult, InPlugin, HostSteps
<1> DEFINE y == Refused(r, req[r].at, c)
<1>1. y \in ReqType /\ y.pc = "done" /\ ~y.torn /\ y.solo = req[r].solo
  <2>1. y \in ReqType
    BY <1>0, RefusedType
  <2>2. y.pc = "done" /\ y.torn = FALSE /\ y.solo = req[r].solo
    BY <1>0, RefusedFields
  <2> QED BY <2>1, <2>2
<1>2. y.solo => Undisturbed(y)
  <2> SUFFICES ASSUME req[r].solo PROVE Undisturbed(y)
    BY <1>1
  <2>1. /\ NoObjectionYet(req[r]) /\ req[r].at \in engine[req[r].phase]
        /\ OwnResult(req[r], PolicyOf(r), guest[PluginOf(r)])
    BY <1>0, SoloInside
  <2>2. c = req[r].content /\ req[r].content \in PolicyAt(r, req[r].at).on
    BY <1>0, <2>1 DEF OwnResult, PolicyOf, ReadResult
  <2> QED BY <1>0, <2>1, <2>2, RefusedFirst
<1>3. req' = [req EXCEPT ![r] = y] /\ engine' = engine /\ guest' = guest
  BY DEF ReadResult
<1> HIDE DEF y
<1>4. ~Within(y)
  BY <1>1, NotWithin
<1> QED BY <1>1, <1>2, <1>3, <1>4, OutsideStep

LEMMA SoloFails ==
    ASSUME IndInv, IndInv', SoloInv, NEW r \in Requests, StepFails(r)
    PROVE  SoloInv'
<1>0. TypeOK /\ req[r].at \in Nat /\ PolicyAt(r, req[r].at) \in PolicyType
      /\ InPlugin(r) /\ PluginOf(r) \in Plugins
  BY AtPlugin DEF IndInv, StepFails
<1>1. Failed(r) \in {Refused(r, req[r].at, "error"), MovedOn(r, req[r].at)}
  BY DEF Failed
<1>2. Failed(r) \in ReqType /\ Failed(r).pc \in {"walk", "done"} /\ Failed(r).torn = FALSE
  <2>1. /\ Refused(r, req[r].at, "error") \in ReqType
        /\ Refused(r, req[r].at, "error").pc = "done"
    BY <1>0, RefusedType
  <2>2. Refused(r, req[r].at, "error").torn = FALSE
    <3>1. PICK i \in Nat : i = req[r].at
      BY <1>0
    <3>2. Refused(r, i, "error").torn = FALSE
      BY <1>0, RefusedFields
    <3> QED BY <3>1, <3>2
  <2>3. MovedOn(r, req[r].at) \in ReqType /\ MovedOn(r, req[r].at).pc = "walk"
    BY <1>0, MovedOnType
  <2>4. MovedOn(r, req[r].at).torn = FALSE
    BY <1>0, MovedOnFields
  <2>5. PICK y : y = Refused(r, req[r].at, "error")
    OBVIOUS
  <2>6. PICK z : z = MovedOn(r, req[r].at)
    OBVIOUS
  <2>7. /\ y \in ReqType /\ y.pc = "done" /\ y.torn = FALSE
        /\ z \in ReqType /\ z.pc = "walk" /\ z.torn = FALSE
    BY <2>1, <2>2, <2>3, <2>4, <2>5, <2>6
  <2>8. Failed(r) = y \/ Failed(r) = z
    BY <1>1, <2>5, <2>6
  <2> QED BY <2>7, <2>8
<1> DEFINE x == [Failed(r) EXCEPT !.solo = FALSE]
<1>3. x \in ReqType /\ x.pc = Failed(r).pc /\ x.torn = Failed(r).torn /\ x.solo = FALSE
  BY <1>2 DEF ReqType
<1>4. req' = [req EXCEPT ![r] = x] /\ engine' = engine
  BY DEF StepFails
<1>5. \A h \in Plugins : guest'[h] # guest[h] => PluginOf(r) = h
  <2>1. PICK b \in BOOLEAN : guest' = [guest EXCEPT ![PluginOf(r)].corrupt = b]
    BY DEF StepFails
  <2> QED BY <1>0, <2>1, OnlyGuest
<1> HIDE DEF x
<1>6. ~Within(x) /\ ~x.torn
  BY <1>2, <1>3, NotWithin
<1> QED
  BY <1>0, <1>3, <1>4, <1>5, <1>6, OutsideStep

\* A request enters a plugin: whoever is in there is disturbed, and so is it.
LEMMA SoloWasmCheck ==
    ASSUME IndInv, IndInv', SoloInv, NEW r \in Requests, WasmCheck(r)
    PROVE  SoloInv'
<1>0. /\ req \in [Requests -> ReqType] /\ TypeOK /\ req[r].pc = "walk"
      /\ engine' = engine /\ guest' = guest
  BY DEF IndInv, TypeOK, WasmCheck
<1>1. PICK i \in NextFilter(r) :
        /\ <<req[r].phase, i>> \in Plugins
        /\ req' = [q \in Requests |->
             CASE q = r -> [req[r] EXCEPT !.pc = "alloc", !.at = i,
                              !.solo = @ /\ Inside(<<req[r].phase, i>>) = {}
                                         /\ ~guest[<<req[r].phase, i>>].corrupt]
               [] q # r /\ q \in Inside(<<req[r].phase, i>>) -> [req[q] EXCEPT !.solo = FALSE]
               [] OTHER -> req[q]]
  BY DEF WasmCheck
<1>2. /\ i \in engine[req[r].phase] /\ i \in Nat
      /\ \A j \in engine[req[r].phase] : j < i => j <= req[r].at
  BY <1>0, NextIsNearest
<1>3. PICK f : f = <<req[r].phase, i>>
  OBVIOUS
<1> DEFINE b == req[r].solo /\ Inside(f) = {} /\ ~guest[f].corrupt
           z == [req[r] EXCEPT !.pc = "alloc", !.at = i, !.solo = b]
<1>4. b => req[r].solo /\ Inside(f) = {} /\ ~guest[f].corrupt
  OBVIOUS
<1>5. b \in BOOLEAN /\ req'[r] = z
  BY <1>1, <1>3
<1> HIDE DEF b
<1>6. PICK x \in ReqType : x = z /\ req'[r] = x
  <2>1. z \in ReqType
    <3>1. req[r] \in ReqType /\ b \in BOOLEAN /\ i \in Nat
      BY <1>0, <1>2, <1>5
    <3> QED BY <3>1 DEF ReqType, GuestCalls
  <2> QED BY <1>5, <2>1
<1>7. /\ x.pc = "alloc" /\ x.at = i /\ x.phase = req[r].phase /\ x.solo = b
      /\ x.content = req[r].content /\ x.verdict = req[r].verdict /\ x.torn = req[r].torn
  <2>1. req[r] \in ReqType
    BY <1>0
  <2> QED BY <1>6, <2>1, Zenon DEF ReqType
<1> HIDE DEF z
<1>8. Within(x) /\ <<x.phase, x.at>> = f
  BY <1>3, <1>7 DEF Within, GuestCalls
<1>9. ASSUME NEW q \in Requests, q # r
      PROVE  \/ req'[q] = req[q] /\ q \notin Inside(f)
             \/ /\ q \in Inside(f) /\ InPlugin(q) /\ ~req'[q].solo
                /\ req'[q].pc = req[q].pc /\ req'[q].phase = req[q].phase
                /\ req'[q].at = req[q].at
  <2>1. CASE q \in Inside(f)
    <3>1. req'[q] = [req[q] EXCEPT !.solo = FALSE] /\ InPlugin(q) /\ req[q] \in ReqType
      BY <1>0, <1>1, <1>3, <1>9, <2>1 DEF Inside
    <3> QED BY <2>1, <3>1, Zenon DEF ReqType
  <2>2. CASE q \notin Inside(f)
    BY <1>1, <1>3, <1>9, <2>2
  <2> QED BY <2>1, <2>2
<1>10. ASSUME NEW q \in Requests, q # r, InPlugin(q), PluginOf(q) = <<x.phase, x.at>>
       PROVE  ~req'[q].solo /\ ~x.solo
  <2>1. q \in Inside(f)
    BY <1>8, <1>10 DEF Inside
  <2> QED BY <1>4, <1>7, <1>9, <1>10, <2>1
<1>11. ASSUME x.solo PROVE Undisturbed(x)'
  <2>1. NoObjectionYet(req[r]) /\ ~req[r].torn
    BY <1>0, <1>4, <1>7, <1>11 DEF SoloInv, Undisturbed, InPlugin, GuestCalls, HostSteps
  <2>2. ASSUME NEW j \in engine[req[r].phase], j < i
        PROVE  req[r].content \notin Policies[req[r].phase][j].on
    <3>1. j < req[r].at \/ j = req[r].at
      BY <1>0, <1>2, <2>2, LoadedPlaces
    <3> QED BY <1>0, <2>1, <3>1 DEF NoObjectionYet
  <2>3. NoObjectionYet(x)'
    BY <1>0, <1>7, <2>1, <2>2 DEF NoObjectionYet
  <2>4. OwnResult(x, Policies[x.phase][x.at], guest[<<x.phase, x.at>>])'
    BY <1>0, <1>4, <1>7, <1>8, <1>11, <2>1 DEF OwnResult
  <2> QED BY <1>0, <1>2, <1>7, <2>3, <2>4 DEF Undisturbed
<1> HIDE DEF Undisturbed
<1> QED
  BY <1>0, <1>6, <1>8, <1>9, <1>10, <1>11, OthersSolo

\* The guest's answer: nobody undisturbed shares the instance it changes.
LEMMA SoloCheckReturns ==
    ASSUME IndInv, IndInv', SoloInv, NEW r \in Requests, NEW result \in {0, 1},
           CheckReturns(r, result)
    PROVE  SoloInv'
<1>0. /\ req \in [Requests -> ReqType] /\ TypeOK /\ guest \in [Plugins -> GuestType]
      /\ InPlugin(r) /\ PluginOf(r) \in Plugins /\ req[r].pc = "check" /\ engine' = engine
      /\ req[r] \in ReqType
  BY AtPlugin DEF IndInv, TypeOK, CheckReturns, InPlugin, GuestCalls
<1>1. PICK f \in Plugins : f = PluginOf(r)
  BY <1>0
<1>2. PICK c \in Contents : c = req[r].content
  BY <1>0 DEF ReqType
<1> DEFINE z == [req[r] EXCEPT !.pc = "judge", !.running = FALSE,
                               !.result = result, !.buffer = "freed"]
<1>3. PICK x \in ReqType : x = z /\ req'[r] = x
  <2>1. result \in {NoResult, 0, 1} /\ "judge" \in HostSteps
    BY DEF HostSteps
  <2>2. z \in ReqType
    BY <1>0, <2>1, Zenon DEF ReqType
  <2>3. req'[r] = z
    BY DEF CheckReturns
  <2> QED BY <2>2, <2>3
<1>4. /\ x.pc = "judge" /\ x.at = req[r].at /\ x.phase = req[r].phase
      /\ x.result = result /\ x.content = req[r].content
      /\ x.verdict = req[r].verdict /\ x.torn = req[r].torn /\ x.solo = req[r].solo
  BY <1>0, <1>3, Zenon DEF ReqType
<1> HIDE DEF z
<1>6. Within(x) /\ <<x.phase, x.at>> = f
  BY <1>1, <1>4 DEF Within, HostSteps, PluginOf
<1>7. /\ guest'[f].corrupt = guest[f].corrupt
      /\ result = 1 => guest'[f].result = c
      /\ \A h \in Plugins : guest'[h] # guest[h] => f = h
  <2>1. CASE result = 1
    <3>1. guest' = [guest EXCEPT ![f].result = c]
      BY <1>1, <1>2, <2>1 DEF CheckReturns
    <3> QED BY <1>0, <3>1 DEF GuestType
  <2>2. CASE result # 1
    BY <2>2 DEF CheckReturns
  <2> QED BY <2>1, <2>2
<1>8. ASSUME NEW q \in Requests, q # r
      PROVE  \/ req'[q] = req[q]
             \/ /\ InPlugin(q) /\ ~req'[q].solo
                /\ req'[q].pc = req[q].pc /\ req'[q].phase = req[q].phase
                /\ req'[q].at = req[q].at
  <2>1. CASE q \in Inside(f)
    <3> DEFINE w == IF req[q].buffer = "live" THEN "freed" ELSE req[q].buffer
               t == req[q].torn \/ (result = 1 /\ req[q].found # Nothing)
               y == [req[q] EXCEPT !.buffer = w, !.torn = t]
    <3>1. req'[q] = y /\ InPlugin(q) /\ PluginOf(q) = PluginOf(r)
      BY <1>1, <1>8, <2>1 DEF CheckReturns, Inside
    <3>2. ~req[q].solo
      BY <1>0, <1>8, <3>1, SameCompany
    <3> HIDE DEF w, t
    <3>3. y.solo = req[q].solo /\ y.pc = req[q].pc /\ y.phase = req[q].phase
          /\ y.at = req[q].at
      <4>1. req[q] \in ReqType
        BY <1>0
      <4> QED BY <4>1, Zenon DEF ReqType
    <3> HIDE DEF y
    <3> QED BY <3>1, <3>2, <3>3
  <2>2. CASE q \notin Inside(f)
    BY <1>1, <1>8, <2>2 DEF CheckReturns
  <2> QED BY <2>1, <2>2
<1>9. ASSUME NEW q \in Requests, q # r, InPlugin(q), PluginOf(q) = <<x.phase, x.at>>
      PROVE  ~req'[q].solo /\ ~x.solo
  <2>1. ~req[q].solo /\ ~req[r].solo
    BY <1>0, <1>1, <1>6, <1>9, SameCompany
  <2> QED BY <1>4, <1>8, <1>9, <2>1
<1>10. ASSUME x.solo PROVE Undisturbed(x)'
  <2>1. /\ NoObjectionYet(req[r]) /\ req[r].at \in engine[req[r].phase]
        /\ OwnResult(req[r], PolicyOf(r), guest[f])
    BY <1>0, <1>1, <1>4, <1>10, SoloInside
  <2>2. NoObjectionYet(x)'
    BY <1>0, <1>4, <2>1 DEF NoObjectionYet
  <2>3. ~guest[f].corrupt /\ ~req[r].torn
    BY <2>1 DEF OwnResult
  <2>4. result = 1 <=> c \in PolicyOf(r).on
    BY <1>1, <1>2, <2>3 DEF CheckReturns
  <2>5. OwnResult(x, PolicyOf(r), guest'[f])
    BY <1>2, <1>4, <1>7, <2>3, <2>4 DEF OwnResult
  <2>6. OwnResult(x, Policies[x.phase][x.at], guest[<<x.phase, x.at>>])'
    BY <1>4, <1>6, <2>5 DEF OwnResult, PolicyOf, PolicyAt
  <2> QED BY <1>0, <1>4, <2>1, <2>2, <2>6 DEF Undisturbed
<1>11. \A h \in Plugins : guest'[h] # guest[h] => InPlugin(r) /\ PluginOf(r) = h
  BY <1>0, <1>1, <1>7
<1>12. Within(x)
  BY <1>6
<1> HIDE DEF Undisturbed
<1> QED
  BY <1>0, <1>3, <1>8, <1>9, <1>10, <1>11, <1>12, OthersSolo

-----------------------------------------------------------------------------

LEMMA SoloInit == Init => SoloInv
<1> SUFFICES ASSUME Init, NEW r \in Requests
             PROVE  /\ ~InPlugin(r) => ~req[r].torn
                    /\ req[r].solo => Undisturbed(req[r])
                    /\ req[r].solo /\ InPlugin(r) => Inside(PluginOf(r)) = {r}
  BY DEF SoloInv
<1>1. req[r].pc = "idle" /\ req[r].torn = FALSE
  BY DEF Init
<1> QED
  BY <1>1, NotWithin DEF Undisturbed, InPlugin, GuestCalls, HostSteps

LEMMA SoloStep ==
    IndInv /\ IndInv' /\ SoloInv /\ [Next]_vars => SoloInv'
<1> SUFFICES ASSUME IndInv, IndInv', SoloInv, [Next]_vars
             PROVE  SoloInv'
  OBVIOUS
<1>1. CASE UNCHANGED vars
  <2>1. engine' = engine /\ guest' = guest /\ req' = req
    BY <1>1 DEF vars
  <2>2. ASSUME NEW x PROVE Undisturbed(x)' <=> Undisturbed(x)
    BY <2>1 DEF Undisturbed, NoObjectionYet, FirstObjection, OwnResult, Within
  <2>3. \A r \in Requests : Undisturbed(req[r])' <=> Undisturbed(req[r])
    BY <2>1, <2>2
  <2>4. \A r \in Requests : Inside(PluginOf(r))' = Inside(PluginOf(r))
                           /\ (InPlugin(r)' <=> InPlugin(r))
    BY <2>1 DEF Inside, InPlugin, PluginOf
  <2> HIDE DEF Undisturbed, Inside, InPlugin, PluginOf
  <2> QED BY <2>1, <2>3, <2>4 DEF SoloInv
<1>2. CASE Next
  <2>1. PICK r \in Requests :
        \/ \E ph \in Phases, c \in Contents : Check(r, ph, c)
        \/ WalkEnds(r) \/ StatelessCheck(r) \/ WasmCheck(r)
        \/ Call(r) \/ AllocReturns(r) \/ MemoryWrite(r)
        \/ \E result \in {0, 1} : CheckReturns(r, result)
        \/ Judge(r) \/ ResultReturns(r)
        \/ \E c \in Contents : ReadResult(r, c)
        \/ StepFails(r)
    BY <1>2 DEF Next
  <2> QED
    BY <2>1, SoloWalk, SoloWasmCheck, SoloCall, SoloAlloc, SoloWrite,
       SoloCheckReturns, SoloJudge, SoloResult, SoloRead, SoloFails
<1> QED
  BY <1>1, <1>2

\* A check that has found each instance on its way not corrupt and to itself,
\* and met no failing call (SoloInv's premise), has met no objection so far, is
\* alone in its plugin, and finds its own result there: not the one the check
\* before it has left in the guest's only result buffer (wasmfilter.go).
THEOREM PolicySoloInvariant == Spec => []SoloInv
<1>1. Init => SoloInv
  BY SoloInit
<1>2. IndInv /\ IndInv' /\ SoloInv /\ [Next]_vars => SoloInv'
  BY SoloStep
<1> QED
  BY <1>1, <1>2, PolicyInvariant, PTL DEF Spec

\* A check of CheckInput or CheckOutput that has each plugin on its way to
\* itself, finds no instance corrupt and meets no failing call ends with the
\* verdict of the first filter that objects to its content: the order of the
\* filters is that of the configuration, and no earlier result shows.  Which
\* instances can be corrupt is what PolicyCorrupted says.
THEOREM PolicySolo == Spec => []SoloVerdict
<1>1. SoloInv => SoloVerdict
  BY DEF SoloInv, SoloVerdict, Undisturbed
<1> QED
  BY <1>1, PolicySoloInvariant, PTL
-----------------------------------------------------------------------------
(* What does an instance harm: an overlap or a failed call, and nothing else. *)

Spot(x) == <<x.phase, x.at>>

\* The content is in the guest's memory, and its check has not returned.
Waiting(x) == x.pc \in {"write", "allocMeta", "writeMeta", "check"}

LEMMA WaitingWithin == ASSUME NEW x, Waiting(x) PROVE Within(x)
BY DEF Waiting, Within, GuestCalls, HostSteps

\* OverlapSeen, by the records of the requests.
LEMMA SeenAll ==
    OverlapSeen <=>
        /\ \A q, r \in Requests :
             q # r /\ Within(req[q]) /\ Within(req[r]) /\ Spot(req[q]) = Spot(req[r]) =>
                Spot(req[r]) \in harmed
        /\ \A r \in Requests :
             Waiting(req[r]) /\ req[r].buffer = "freed" => Spot(req[r]) \in harmed
BY DEF OverlapSeen, Within, Spot, Waiting, InPlugin, PluginOf

\* A step of request r, to y: nobody else moves, and whoever loses its buffer
\* or its company is on record.
LEMMA HarmStepOf ==
    ASSUME HarmInv, NEW r \in Requests, NEW y \in ReqType, req'[r] = y,
           harmed \subseteq harmed',
           \A q \in Requests : q # r =>
               /\ req'[q].pc = req[q].pc /\ Spot(req'[q]) = Spot(req[q])
               /\ req'[q].buffer # req[q].buffer => Spot(req[q]) \in harmed',
           Within(y) =>
               \/ Within(req[r]) /\ Spot(y) = Spot(req[r])
               \/ Spot(y) \in harmed'
               \/ \A q \in Requests : ~(q # r /\ Within(req[q]) /\ Spot(req[q]) = Spot(y)),
           Waiting(y) /\ y.buffer = "freed" => Spot(y) \in harmed',
           \A f \in Plugins : guest'[f].corrupt => guest[f].corrupt \/ f \in harmed'
    PROVE  OverlapSeen' /\ CorruptedByOverlap'
<1>0. /\ \A p, q \in Requests :
           p # q /\ Within(req[p]) /\ Within(req[q]) /\ Spot(req[p]) = Spot(req[q]) =>
              Spot(req[q]) \in harmed
      /\ \A q \in Requests :
           Waiting(req[q]) /\ req[q].buffer = "freed" => Spot(req[q]) \in harmed
  BY SeenAll DEF HarmInv
<1>1. \A q \in Requests : q # r => /\ Within(req'[q]) <=> Within(req[q])
                                   /\ Waiting(req'[q]) <=> Waiting(req[q])
  BY DEF Within, Waiting
<1>2. ASSUME NEW q \in Requests, Waiting(req'[q]), req'[q].buffer = "freed"
      PROVE  Spot(req'[q]) \in harmed'
  BY <1>0, <1>1, <1>2
<1>3. ASSUME NEW q \in Requests, q # r, Within(req'[q]), Within(y), Spot(req'[q]) = Spot(y)
      PROVE  Spot(y) \in harmed'
  BY <1>0, <1>1, <1>3
<1>4. ASSUME NEW p \in Requests, NEW q \in Requests, p # q, Within(req'[p]),
             Within(req'[q]), Spot(req'[p]) = Spot(req'[q])
      PROVE  Spot(req'[q]) \in harmed'
  <2>1. CASE p # r /\ q # r
    BY <1>0, <1>1, <1>4, <2>1
  <2>2. CASE p = r \/ q = r
    BY <1>3, <1>4, <2>2
  <2> QED BY <2>1, <2>2
<1>5. OverlapSeen'
  BY <1>2, <1>4 DEF OverlapSeen, Within, Spot, Waiting, InPlugin, PluginOf
<1>6. CorruptedByOverlap'
  BY DEF HarmInv, CorruptedByOverlap
<1> QED BY <1>5, <1>6

\* The same when r's record alone changes.
LEMMA HarmOne ==
    ASSUME HarmInv, NEW r \in Requests, NEW y \in ReqType, req' = [req EXCEPT ![r] = y],
           harmed \subseteq harmed',
           Within(y) => Within(req[r]) /\ Spot(y) = Spot(req[r]),
           Waiting(y) /\ y.buffer = "freed" => Spot(y) \in harmed',
           \A f \in Plugins : guest'[f].corrupt => guest[f].corrupt \/ f \in harmed'
    PROVE  OverlapSeen' /\ CorruptedByOverlap'
<1>1. req \in [Requests -> ReqType]
  BY DEF HarmInv, IndInv, TypeOK
<1>2. req'[r] = y /\ \A q \in Requests : q # r => req'[q] = req[q]
  BY <1>1
<1> QED BY <1>2, HarmStepOf

\* Steps that end outside the plugins.
LEMMA HarmWalk ==
    ASSUME HarmInv, IndInv', NEW r \in Requests,
           \/ \E ph \in Phases, c \in Contents : Check(r, ph, c)
           \/ WalkEnds(r) \/ StatelessCheck(r)
           \/ \E c \in Contents : ReadResult(r, c)
    PROVE  OverlapSeen' /\ CorruptedByOverlap'
<1>0. TypeOK /\ req \in [Requests -> ReqType] /\ req' \in [Requests -> ReqType]
  BY DEF HarmInv, IndInv, TypeOK
<1>1. guest' = guest /\ harmed' = harmed
  BY DEF Check, WalkEnds, StatelessCheck, ReadResult
<1>2. PICK y : req' = [req EXCEPT ![r] = y]
  <2>1. CASE \E ph \in Phases, c \in Contents : Check(r, ph, c)
    BY <2>1 DEF Check
  <2>2. CASE WalkEnds(r)
    BY <2>2 DEF WalkEnds
  <2>3. CASE StatelessCheck(r)
    BY <2>3 DEF StatelessCheck
  <2>4. CASE \E c \in Contents : ReadResult(r, c)
    BY <2>4 DEF ReadResult
  <2> QED BY <2>1, <2>2, <2>3, <2>4
<1>3. y \in ReqType /\ req'[r] = y
  BY <1>0, <1>2
<1>4. y.pc \in {"walk", "done"}
  <2>1. CASE \E ph \in Phases, c \in Contents : Check(r, ph, c)
    <3>1. PICK ph \in Phases, c \in Contents : Check(r, ph, c)
      BY <2>1
    <3>2. y = [req[r] EXCEPT !.pc = "walk", !.phase = ph, !.content = c,
                            !.at = 0, !.solo = TRUE, !.verdict = Passed]
      BY <1>0, <1>3, <3>1 DEF Check
    <3>3. req[r] \in ReqType
      BY <1>0
    <3> QED BY <3>2, <3>3, Zenon DEF ReqType
  <2>2. CASE WalkEnds(r)
    BY <1>0, <1>3, <2>2 DEF WalkEnds, ReqType
  <2>3. CASE StatelessCheck(r)
    <3>1. PICK i \in NextFilter(r) :
            req' = [req EXCEPT ![r] = IF Objects(r, i)
                                     THEN Refused(r, i, req[r].content) ELSE MovedOn(r, i)]
      BY <2>3 DEF StatelessCheck
    <3>2. i \in Nat
      BY <1>0, LoadedPolicy DEF NextFilter
    <3>3. y = Refused(r, i, req[r].content) \/ y = MovedOn(r, i)
      BY <1>0, <1>3, <3>1
    <3>4. Refused(r, i, req[r].content).pc = "done"
      BY <1>0, <3>2, RefusedFields
    <3>5. MovedOn(r, i).pc = "walk"
      BY <1>0, MovedOnFields
    <3> QED BY <3>3, <3>4, <3>5
  <2>4. CASE \E c \in Contents : ReadResult(r, c)
    <3>1. PICK c \in Contents : req' = [req EXCEPT ![r] = Refused(r, req[r].at, c)]
      BY <2>4 DEF ReadResult
    <3>2. PICK i \in Nat : i = req[r].at
      BY <1>0 DEF ReqType
    <3>3. y = Refused(r, i, c)
      BY <1>0, <1>3, <3>1, <3>2
    <3>4. Refused(r, i, c).pc = "done"
      BY <1>0, RefusedFields
    <3> QED BY <3>3, <3>4
  <2> QED BY <2>1, <2>2, <2>3, <2>4
<1>5. ~Within(y) /\ ~Waiting(y)
  BY <1>4, NotWithin, WaitingWithin
<1> QED BY <1>1, <1>2, <1>3, <1>5, HarmOne

\* A request enters a plugin: if somebody is in there, the overlap is noted.
LEMMA HarmWasmCheck ==
    ASSUME HarmInv, IndInv', NEW r \in Requests, WasmCheck(r)
    PROVE  OverlapSeen' /\ CorruptedByOverlap'
<1>0. /\ req \in [Requests -> ReqType] /\ req' \in [Requests -> ReqType]
      /\ guest' = guest
  BY DEF HarmInv, IndInv, TypeOK, WasmCheck
<1>1. PICK i \in NextFilter(r) :
        /\ req' = [q \in Requests |->
             CASE q = r -> [req[r] EXCEPT !.pc = "alloc", !.at = i,
                              !.solo = @ /\ Inside(<<req[r].phase, i>>) = {}
                                         /\ ~guest[<<req[r].phase, i>>].corrupt]
               [] q # r /\ q \in Inside(<<req[r].phase, i>>) -> [req[q] EXCEPT !.solo = FALSE]
               [] OTHER -> req[q]]
        /\ harmed' = IF Inside(<<req[r].phase, i>>) = {} THEN harmed
                     ELSE harmed \cup {<<req[r].phase, i>>}
  BY DEF WasmCheck
<1>2. PICK f : f = <<req[r].phase, i>>
  OBVIOUS
<1>3. PICK y \in ReqType : y = req'[r]
  BY <1>0
<1>4. y.pc = "alloc" /\ Spot(y) = f
  <2> DEFINE b == req[r].solo /\ Inside(f) = {} /\ ~guest[f].corrupt
  <2>1. y = [req[r] EXCEPT !.pc = "alloc", !.at = i, !.solo = b] /\ req[r] \in ReqType
    BY <1>0, <1>1, <1>2, <1>3
  <2> HIDE DEF b
  <2>2. y.pc = "alloc" /\ y.at = i /\ y.phase = req[r].phase
    BY <2>1, Zenon DEF ReqType
  <2> QED BY <1>2, <2>2 DEF Spot
<1>5. ~Waiting(y)
  BY <1>4 DEF Waiting
<1>6. ASSUME NEW q \in Requests, q # r
      PROVE  req'[q].pc = req[q].pc /\ Spot(req'[q]) = Spot(req[q])
             /\ req'[q].buffer = req[q].buffer
  <2>1. PICK z \in {req[q], [req[q] EXCEPT !.solo = FALSE]} : req'[q] = z
    BY <1>1, <1>6
  <2>2. req[q] \in ReqType
    BY <1>0
  <2> QED BY <2>1, <2>2, Zenon DEF ReqType, Spot
<1>7. harmed \subseteq harmed'
  BY <1>1
<1>8. f \in harmed' \/ \A q \in Requests : ~(Within(req[q]) /\ Spot(req[q]) = f)
  BY <1>1, <1>2 DEF Inside, InPlugin, PluginOf, Within, Spot
<1> QED
  BY <1>0, <1>3, <1>4, <1>5, <1>6, <1>7, <1>8, HarmStepOf

\* In company of q, or with its buffer freed, request r is on record.
LEMMA SeenAt ==
    ASSUME HarmInv, NEW r \in Requests, InPlugin(r)
    PROVE  /\ PluginOf(r) \in Plugins
           /\ \A q \in Inside(PluginOf(r)) : q # r => PluginOf(r) \in harmed
           /\ Waiting(req[r]) /\ req[r].buffer = "freed" => PluginOf(r) \in harmed
<1>1. PluginOf(r) \in Plugins
  BY AtPlugin DEF HarmInv
<1>2. \A q \in Inside(PluginOf(r)) : q # r => PluginOf(r) \in harmed
  BY DEF HarmInv, OverlapSeen, Inside
<1>3. Waiting(req[r]) /\ req[r].buffer = "freed" => PluginOf(r) \in harmed
  BY DEF HarmInv, OverlapSeen, Waiting
<1> QED BY <1>1, <1>2, <1>3

\* Entering the guest: with another call under way, or a freed buffer, it is on
\* record before it is corrupt.
LEMMA HarmCall ==
    ASSUME HarmInv, IndInv', NEW r \in Requests, Call(r)
    PROVE  OverlapSeen' /\ CorruptedByOverlap'
<1>0. /\ req \in [Requests -> ReqType] /\ req[r] \in ReqType /\ InPlugin(r)
      /\ guest \in [Plugins -> GuestType] /\ harmed' = harmed /\ IndInv
  BY DEF HarmInv, IndInv, TypeOK, Call, InPlugin
<1> DEFINE y == [req[r] EXCEPT !.running = TRUE]
           others == {q \in Inside(PluginOf(r)) : req[q].running}
           misuse == req[r].pc = "check" /\ req[r].buffer = "freed"
           b == guest[PluginOf(r)].corrupt \/ others # {} \/ misuse
<1>1. /\ y \in ReqType /\ y.pc = req[r].pc /\ y.phase = req[r].phase
      /\ y.at = req[r].at /\ y.buffer = req[r].buffer
  BY <1>0, Zenon DEF ReqType
<1>2. req' = [req EXCEPT ![r] = y]
  BY <1>0 DEF Call
<1>3. b \in BOOLEAN /\ guest' = [guest EXCEPT ![PluginOf(r)].corrupt = b]
  BY DEF Call
<1>4. b => guest[PluginOf(r)].corrupt \/ PluginOf(r) \in harmed
  <2>1. others # {} => PluginOf(r) \in harmed
    <3> SUFFICES ASSUME NEW q \in Inside(PluginOf(r)), req[q].running
                 PROVE  PluginOf(r) \in harmed
      OBVIOUS
    <3>1. q # r
      BY DEF Call
    <3> QED BY <1>0, <3>1, SeenAt
  <2>2. misuse => PluginOf(r) \in harmed
    BY <1>0, SeenAt DEF Waiting
  <2> QED BY <2>1, <2>2
<1> HIDE DEF b
<1>5. \A f \in Plugins : guest'[f].corrupt => guest[f].corrupt \/ f \in harmed'
  <2>1. PluginOf(r) \in Plugins
    BY <1>0, SeenAt
  <2>2. /\ guest'[PluginOf(r)].corrupt = b
        /\ \A h \in Plugins : guest'[h] # guest[h] => PluginOf(r) = h
    BY <1>0, <1>3, <2>1, OnlyGuest
  <2> QED BY <1>0, <1>4, <2>2
<1> HIDE DEF y
<1>6. Within(y) => Within(req[r]) /\ Spot(y) = Spot(req[r])
  BY <1>1 DEF Within, Spot
<1>7. Waiting(y) /\ y.buffer = "freed" => Spot(y) \in harmed'
  BY <1>0, <1>1, SeenAt DEF Waiting, Spot, PluginOf
<1> QED BY <1>0, <1>1, <1>2, <1>5, <1>6, <1>7, HarmOne

\* The other steps inside a plugin, y being the request's record after it: the
\* instance is not touched, and the content stays where it is.
LEMMA HarmInside ==
    ASSUME HarmInv, NEW r \in Requests, NEW y \in ReqType, req' = [req EXCEPT ![r] = y],
           InPlugin(r), harmed' = harmed, guest' = guest,
           Within(y) => Spot(y) = PluginOf(r),
           Waiting(y) /\ y.buffer = "freed" => Waiting(req[r]) /\ req[r].buffer = "freed"
    PROVE  OverlapSeen' /\ CorruptedByOverlap'
<1>1. Within(req[r]) /\ Spot(req[r]) = PluginOf(r)
  BY DEF InPlugin, Within, Spot, PluginOf
<1>2. Waiting(y) /\ y.buffer = "freed" => Spot(y) \in harmed'
  BY SeenAt, WaitingWithin
<1> QED BY <1>1, <1>2, HarmOne

LEMMA HarmAlloc ==
    ASSUME HarmInv, IndInv', NEW r \in Requests, AllocReturns(r)
    PROVE  OverlapSeen' /\ CorruptedByOverlap'
<1>0. /\ req \in [Requests -> ReqType] /\ req[r] \in ReqType /\ InPlugin(r)
      /\ req' \in [Requests -> ReqType] /\ harmed' = harmed /\ guest' = guest
  BY DEF HarmInv, IndInv, TypeOK, AllocReturns, InPlugin, GuestCalls
<1>1. PICK y \in ReqType : y = req'[r] /\ req' = [req EXCEPT ![r] = y]
  BY <1>0 DEF AllocReturns
<1>2. CASE req[r].pc = "alloc"
  <2>1. y = [req[r] EXCEPT !.pc = "write", !.running = FALSE, !.buffer = "live"]
    BY <1>0, <1>1, <1>2 DEF AllocReturns
  <2>2. y.buffer = "live" /\ y.phase = req[r].phase /\ y.at = req[r].at
    BY <1>0, <2>1, Zenon DEF ReqType
  <2> QED BY <1>0, <1>1, <2>2, HarmInside DEF Spot, PluginOf
<1>3. CASE req[r].pc # "alloc"
  <2>1. y = [req[r] EXCEPT !.pc = "writeMeta", !.running = FALSE] /\ Waiting(req[r])
    BY <1>0, <1>1, <1>3 DEF AllocReturns, Waiting
  <2>2. y.buffer = req[r].buffer /\ y.phase = req[r].phase /\ y.at = req[r].at
    BY <1>0, <2>1, Zenon DEF ReqType
  <2> QED BY <1>0, <1>1, <2>1, <2>2, HarmInside DEF Spot, PluginOf
<1> QED BY <1>2, <1>3

LEMMA HarmWrite ==
    ASSUME HarmInv, IndInv', NEW r \in Requests, MemoryWrite(r)
    PROVE  OverlapSeen' /\ CorruptedByOverlap'
<1>0. /\ req \in [Requests -> ReqType] /\ req[r] \in ReqType /\ InPlugin(r)
      /\ harmed' = harmed /\ IndInv /\ Waiting(req[r])
  BY DEF HarmInv, IndInv, TypeOK, MemoryWrite, InPlugin, HostSteps, Waiting
<1>1. PICK p \in {"allocMeta", "check"} : req' = [req EXCEPT ![r].pc = p]
  BY <1>0 DEF MemoryWrite
<1> DEFINE y == [req[r] EXCEPT !.pc = p]
<1>2. /\ y \in ReqType /\ y.phase = req[r].phase /\ y.at = req[r].at
      /\ y.buffer = req[r].buffer
  <2>1. p \in GuestCalls
    BY DEF GuestCalls
  <2> QED BY <1>0, <2>1, Zenon DEF ReqType
<1>3. req' = [req EXCEPT ![r] = y]
  BY <1>0, <1>1
<1> HIDE DEF y
<1> DEFINE b == guest[PluginOf(r)].corrupt \/ req[r].buffer = "freed"
<1>4. b \in BOOLEAN /\ guest' = [guest EXCEPT ![PluginOf(r)].corrupt = b]
  BY DEF MemoryWrite
<1>5. b => guest[PluginOf(r)].corrupt \/ PluginOf(r) \in harmed
  BY <1>0, SeenAt
<1> HIDE DEF b
<1>6. \A f \in Plugins : guest'[f].corrupt => guest[f].corrupt \/ f \in harmed'
  <2>1. PluginOf(r) \in Plugins
    BY <1>0, SeenAt
  <2>2. /\ guest'[PluginOf(r)].corrupt = b
        /\ \A h \in Plugins : guest'[h] # guest[h] => PluginOf(r) = h
    BY <1>0, <1>4, <2>1, OnlyGuest
  <2> QED BY <1>0, <1>5, <2>2
<1>7. Within(req[r]) /\ Spot(y) = Spot(req[r]) /\ Spot(req[r]) = PluginOf(r)
  BY <1>0, <1>2, WaitingWithin DEF Spot, PluginOf
<1>8. Waiting(y) /\ y.buffer = "freed" => Spot(y) \in harmed'
  BY <1>0, <1>2, <1>7, SeenAt
<1> QED BY <1>0, <1>2, <1>3, <1>6, <1>7, <1>8, HarmOne

\* check frees the buffers of whoever else is in the guest: they are on record.
LEMMA HarmCheckReturns ==
    ASSUME HarmInv, IndInv', NEW r \in Requests, NEW result \in {0, 1},
           CheckReturns(r, result)
    PROVE  OverlapSeen' /\ CorruptedByOverlap'
<1>0. /\ req \in [Requests -> ReqType] /\ req[r] \in ReqType /\ InPlugin(r)
      /\ req' \in [Requests -> ReqType] /\ guest \in [Plugins -> GuestType]
      /\ harmed' = harmed
  BY DEF HarmInv, IndInv, TypeOK, CheckReturns, InPlugin, GuestCalls
<1>1. PICK f \in Plugins : f = PluginOf(r)
  BY <1>0, SeenAt
<1>2. PICK y \in ReqType : y = req'[r]
  BY <1>0
<1>3. y.pc = "judge" /\ Spot(y) = Spot(req[r])
  <2>1. y = [req[r] EXCEPT !.pc = "judge", !.running = FALSE,
                           !.result = result, !.buffer = "freed"]
    BY <1>2 DEF CheckReturns
  <2> QED BY <1>0, <2>1, Zenon DEF ReqType, Spot
<1>4. ~Waiting(y) /\ Within(req[r])
  BY <1>0, <1>3 DEF Waiting, InPlugin, Within
<1>5. ASSUME NEW q \in Requests, q # r
      PROVE  /\ req'[q].pc = req[q].pc /\ Spot(req'[q]) = Spot(req[q])
             /\ req'[q].buffer # req[q].buffer => Spot(req[q]) \in harmed'
  <2>1. CASE q \in Inside(f)
    <3> DEFINE w == IF req[q].buffer = "live" THEN "freed" ELSE req[q].buffer
               t == req[q].torn \/ (result = 1 /\ req[q].found # Nothing)
               z == [req[q] EXCEPT !.buffer = w, !.torn = t]
    <3>1. req'[q] = z /\ Spot(req[q]) = f
      BY <1>1, <1>5, <2>1 DEF CheckReturns, Inside, PluginOf, Spot
    <3>2. f \in harmed
      BY <1>0, <1>1, <1>5, <2>1, SeenAt
    <3> HIDE DEF w, t
    <3>3. z.pc = req[q].pc /\ Spot(z) = Spot(req[q])
      <4>1. req[q] \in ReqType
        BY <1>0
      <4> QED BY <4>1, Zenon DEF ReqType, Spot
    <3> HIDE DEF z
    <3> QED BY <1>0, <3>1, <3>2, <3>3
  <2>2. CASE q \notin Inside(f)
    BY <1>1, <1>5, <2>2 DEF CheckReturns
  <2> QED BY <2>1, <2>2
<1>6. \A h \in Plugins : guest'[h].corrupt => guest[h].corrupt
  <2>1. CASE result = 1
    <3>1. guest' = [guest EXCEPT ![f].result = req[r].content]
      BY <1>1, <2>1 DEF CheckReturns
    <3> QED BY <1>0, <3>1 DEF GuestType
  <2>2. CASE result # 1
    BY <2>2 DEF CheckReturns
  <2> QED BY <2>1, <2>2
<1> QED
  BY <1>0, <1>2, <1>3, <1>4, <1>5, <1>6, HarmStepOf

LEMMA HarmJudge ==
    ASSUME HarmInv, IndInv', NEW r \in Requests, Judge(r) \/ ResultReturns(r)
    PROVE  OverlapSeen' /\ CorruptedByOverlap'
<1>0. /\ TypeOK /\ req \in [Requests -> ReqType] /\ req[r] \in ReqType /\ InPlugin(r)
      /\ req' \in [Requests -> ReqType] /\ harmed' = harmed /\ guest' = guest
  BY DEF HarmInv, IndInv, TypeOK, Judge, ResultReturns, InPlugin, GuestCalls, HostSteps
<1>1. PICK y \in ReqType : y = req'[r] /\ req' = [req EXCEPT ![r] = y]
  BY <1>0 DEF Judge, ResultReturns
<1>2. CASE Judge(r)
  <2>1. y = MovedOn(r, req[r].at) \/ y = [req[r] EXCEPT !.pc = "ptr"]
    BY <1>0, <1>1, <1>2 DEF Judge
  <2>2. CASE y = MovedOn(r, req[r].at)
    <3>1. y.pc = "walk"
      BY <1>0, <2>2, MovedOnFields
    <3>2. ~Within(y) /\ ~Waiting(y)
      BY <3>1, NotWithin, WaitingWithin
    <3> QED BY <1>0, <1>1, <3>2, HarmInside
  <2>3. CASE y = [req[r] EXCEPT !.pc = "ptr"]
    <3>1. y.pc = "ptr" /\ y.phase = req[r].phase /\ y.at = req[r].at
      BY <1>0, <2>3, Zenon DEF ReqType
    <3>2. ~Waiting(y) /\ Spot(y) = PluginOf(r)
      BY <3>1 DEF Waiting, Spot, PluginOf
    <3> QED BY <1>0, <1>1, <3>2, HarmInside
  <2> QED BY <2>1, <2>2, <2>3
<1>3. CASE ResultReturns(r)
  <2>1. PICK u : \/ y = [req[r] EXCEPT !.pc = "len", !.running = FALSE, !.found = u]
                 \/ y = [req[r] EXCEPT !.pc = "read", !.running = FALSE]
    BY <1>0, <1>1, <1>3 DEF ResultReturns
  <2>2. y.pc \in {"len", "read"} /\ y.phase = req[r].phase /\ y.at = req[r].at
    BY <1>0, <2>1, Zenon DEF ReqType
  <2>3. ~Waiting(y) /\ Spot(y) = PluginOf(r)
    BY <2>2 DEF Waiting, Spot, PluginOf
  <2> QED BY <1>0, <1>1, <2>3, HarmInside
<1> QED BY <1>2, <1>3

LEMMA HarmFails ==
    ASSUME HarmInv, IndInv', NEW r \in Requests, StepFails(r)
    PROVE  OverlapSeen' /\ CorruptedByOverlap'
<1>0. /\ TypeOK /\ req \in [Requests -> ReqType] /\ IndInv /\ InPlugin(r)
      /\ req' \in [Requests -> ReqType] /\ req[r].at \in Nat
  BY AtPlugin DEF HarmInv, IndInv, TypeOK, StepFails
<1>1. PICK y \in ReqType : y = req'[r] /\ req' = [req EXCEPT ![r] = y]
  BY <1>0 DEF StepFails
<1>2. y.pc \in {"walk", "done"}
  <2>1. PICK i \in Nat : i = req[r].at
    BY <1>0
  <2>2. PICK z \in {Refused(r, i, "error"), MovedOn(r, i)} : z = Failed(r)
    BY <2>1 DEF Failed
  <2>3. z.pc \in {"walk", "done"}
    <3>1. Refused(r, i, "error").pc = "done"
      BY <1>0, RefusedFields
    <3>2. MovedOn(r, i).pc = "walk"
      BY <1>0, MovedOnFields
    <3> QED BY <2>2, <3>1, <3>2
  <2>4. y = [z EXCEPT !.solo = FALSE]
    BY <1>0, <1>1, <2>2 DEF StepFails
  <2>5. z \in ReqType
    <3>1. PolicyAt(r, i) \in PolicyType
      BY <1>0, <2>1, AtPlugin
    <3> QED BY <1>0, <2>2, <3>1, RefusedType, MovedOnType
  <2>6. y.pc = z.pc
    BY <2>4, <2>5, Zenon DEF ReqType
  <2> QED BY <2>3, <2>6
<1>3. ~Within(y) /\ ~Waiting(y)
  BY <1>2, NotWithin, WaitingWithin
<1> DEFINE b == guest[PluginOf(r)].corrupt \/ req[r].running
<1>4. /\ b \in BOOLEAN /\ guest' = [guest EXCEPT ![PluginOf(r)].corrupt = b]
      /\ harmed' = IF req[r].running THEN harmed \cup {PluginOf(r)} ELSE harmed
  BY DEF StepFails
<1>5. harmed \subseteq harmed' /\ (b => guest[PluginOf(r)].corrupt \/ PluginOf(r) \in harmed')
  BY <1>4
<1> HIDE DEF b
<1>6. \A f \in Plugins : guest'[f].corrupt => guest[f].corrupt \/ f \in harmed'
  <2>1. PluginOf(r) \in Plugins
    BY <1>0, SeenAt
  <2>2. /\ guest'[PluginOf(r)].corrupt = b
        /\ \A h \in Plugins : guest'[h] # guest[h] => PluginOf(r) = h
    BY <1>0, <1>4, <2>1, OnlyGuest
  <2> QED BY <1>5, <2>2
<1> QED BY <1>0, <1>1, <1>3, <1>5, <1>6, HarmOne

LEMMA HarmInit == Init => OverlapSeen /\ CorruptedByOverlap
<1> SUFFICES ASSUME Init PROVE OverlapSeen /\ CorruptedByOverlap
  OBVIOUS
<1>1. ASSUME NEW r \in Requests PROVE req[r].pc = "idle"
  BY DEF Init
<1>2. OverlapSeen
  BY <1>1 DEF OverlapSeen, InPlugin, GuestCalls, HostSteps
<1>3. CorruptedByOverlap
  BY DEF Init, CorruptedByOverlap, NewWasmFilter
<1> QED BY <1>2, <1>3

LEMMA HarmStep ==
    ASSUME HarmInv, IndInv', [Next]_vars
    PROVE  HarmInv'
<1>1. CASE UNCHANGED vars
  <2>1. guest' = guest /\ req' = req /\ harmed' = harmed
    BY <1>1 DEF vars
  <2>2. OverlapSeen' /\ CorruptedByOverlap'
    BY <2>1 DEF HarmInv, OverlapSeen, CorruptedByOverlap, InPlugin, PluginOf
  <2> QED BY <2>2 DEF HarmInv
<1>2. CASE Next
  <2>1. PICK r \in Requests :
        \/ \E ph \in Phases, c \in Contents : Check(r, ph, c)
        \/ WalkEnds(r) \/ StatelessCheck(r) \/ WasmCheck(r)
        \/ Call(r) \/ AllocReturns(r) \/ MemoryWrite(r)
        \/ \E result \in {0, 1} : CheckReturns(r, result)
        \/ Judge(r) \/ ResultReturns(r)
        \/ \E c \in Contents : ReadResult(r, c)
        \/ StepFails(r)
    BY <1>2 DEF Next
  <2>2. OverlapSeen' /\ CorruptedByOverlap'
    BY <2>1, HarmWalk, HarmWasmCheck, HarmCall, HarmAlloc, HarmWrite,
       HarmCheckReturns, HarmJudge, HarmFails
  <2> QED BY <2>2 DEF HarmInv
<1> QED BY <1>1, <1>2

\* Whoever shares an instance with another check, or has its content in a
\* buffer of the guest that is freed, is in an instance on record as harmed:
\* what makes CorruptedByOverlap inductive.
THEOREM PolicyHarmInvariant == Spec => []HarmInv
<1>1. Init /\ IndInv => HarmInv
  BY HarmInit DEF HarmInv
<1>2. HarmInv /\ IndInv' /\ [Next]_vars => HarmInv'
  BY HarmStep
<1> QED
  BY <1>1, <1>2, PolicyInvariant, PTL DEF Spec

\* An instance of a plugin is corrupt only after two checks were in it at once
\* or a call into it failed: the eight steps of callCheck, taken by one request
\* after the other, never use a buffer that the guest has freed.
THEOREM PolicyCorrupted == Spec => []CorruptedByOverlap
<1>1. HarmInv => CorruptedByOverlap
  BY DEF HarmInv
<1> QED
  BY <1>1, PolicyHarmInvariant, PTL
=============================================================================
