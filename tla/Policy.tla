------------------------------- MODULE Policy -------------------------------
(***************************************************************************)
(* internal/policy: the engine that initPolicyEngine of cmd/aegisflow      *)
(* builds, its filters, and the WASM filter, which keeps one instance of   *)
(* its plugin and lets every request call into it.                         *)
(*                                                                         *)
(* Keyword, regex and PII filters have no state: looking at a content is   *)
(* one step.  The check of a WASM filter is a series of calls into the     *)
(* guest and of accesses to its memory, with no lock held, so the checks   *)
(* of other requests come in between, and calls overlap.                   *)
(*                                                                         *)
(* The guest is the example plugin: single threaded; check frees every     *)
(* buffer alloc has handed out; a violation replaces the one result buffer.*)
(* What a guest does after two calls ran in it at once, after one trapped, *)
(* or on a buffer it has freed is anybody's guess: it is `corrupt' from    *)
(* then on and answers anything.                                           *)
(***************************************************************************)
EXTENDS Integers, Sequences

CONSTANTS Requests,  \* goroutines that ask the engine, one check at a time
          Contents,  \* what is checked: prompts, answers, parts of streams
          Policies   \* Policies[ph]: the policies configured for phase ph

Phases == {"input", "output"}
Actions == {"block", "warn", "log"}

\* A policy: its type and action, the contents its filter finds fault with,
\* and what a WASM policy wants done about errors.
PolicyType == [type : {"keyword", "regex", "pii", "wasm", "other"},
               action : Actions, on : SUBSET Contents,
               onError : {"", "block", "allow"}]

ASSUME PolicyAssumption ==
    Policies \in [Phases -> Seq(PolicyType)]

Nothing == "nothing"
NoResult == -1

VARIABLES
    engine,  \* engine[ph]: the filters of the phase, by their place in Policies[ph]
    guest,   \* guest[f]: the instance of WASM policy f = <<phase, place>>
    req,     \* what each request is doing
    harmed   \* history: the plugins that have had two checks in them at the
             \* same time, or a call that failed

vars == <<engine, guest, req, harmed>>

Plugins == UNION {{ph} \X {i \in DOMAIN Policies[ph] : Policies[ph][i].type = "wasm"} :
                      ph \in Phases}

GuestCalls == {"alloc", "allocMeta", "check", "ptr", "len"}
HostSteps == {"write", "writeMeta", "judge", "read"}

Passed == [by |-> 0, action |-> "none", message |-> Nothing]

Verdicts == [by : Nat, action : Actions \cup {"none"},
             message : Contents \cup {Nothing, "error"}]

ReqType ==
    [pc : {"idle", "walk", "done"} \cup GuestCalls \cup HostSteps,
     phase : Phases, content : Contents,
     at : Nat,                            \* the filter it is at or has passed
     running : BOOLEAN,                   \* inside a call into the guest
     buffer : {"none", "live", "freed"},  \* where its content was put
     result : {NoResult, 0, 1},           \* what the guest's check said
     found : Contents \cup {Nothing},     \* what resultPtr points at,
     torn : BOOLEAN,                      \* and whether that was replaced
     solo : BOOLEAN,                      \* history: nothing has interfered
     verdict : Verdicts]

GuestType == [result : Contents \cup {Nothing}, corrupt : BOOLEAN]

TypeOK ==
    /\ engine \in [Phases -> SUBSET Nat]
    /\ \A ph \in Phases : engine[ph] \subseteq DOMAIN Policies[ph]
    /\ guest \in [Plugins -> GuestType]
    /\ req \in [Requests -> ReqType]
    /\ harmed \subseteq Plugins

-----------------------------------------------------------------------------
(* initPolicyEngine *)

\* A PII policy is known for input only; a WASM policy whose plugin does not
\* load is logged and left out, whatever its on_error says.
Supported(ph) == {"keyword", "regex", "wasm"} \cup (IF ph = "input" THEN {"pii"} ELSE {})

initPolicyEngine(broken) ==
    [ph \in Phases |-> {i \in DOMAIN Policies[ph] :
                          Policies[ph][i].type \in Supported(ph) /\ <<ph, i>> \notin broken}]

\* NewWasmFilter: a fresh instance, all exports there.
NewWasmFilter == [result |-> Nothing, corrupt |-> FALSE]

OnError(p) == IF p.onError = "" THEN "block" ELSE p.onError

Init ==
    /\ \E broken \in SUBSET Plugins : engine = initPolicyEngine(broken)
    /\ guest = [f \in Plugins |-> NewWasmFilter]
    /\ harmed = {}
    /\ \E c \in Contents :
         req = [r \in Requests |->
                  [pc |-> "idle", phase |-> "input", content |-> c, at |-> 0,
                   running |-> FALSE, buffer |-> "none", result |-> NoResult,
                   found |-> Nothing, torn |-> FALSE, solo |-> TRUE,
                   verdict |-> Passed]]

-----------------------------------------------------------------------------
(* The engine *)

\* The next filter on the request's way, at most one.
NextFilter(r) ==
    LET ahead == {i \in engine[req[r].phase] : i > req[r].at}
    IN {i \in ahead : \A j \in ahead : i <= j}

PolicyAt(r, i) == Policies[req[r].phase][i]
PolicyOf(r) == PolicyAt(r, req[r].at)
PluginOf(r) == <<req[r].phase, req[r].at>>

InPlugin(r) == req[r].pc \in GuestCalls \cup HostSteps
Inside(f) == {r \in Requests : InPlugin(r) /\ PluginOf(r) = f}

\* The request once filter i has let its content pass, or has objected.
MovedOn(r, i) == [req[r] EXCEPT !.pc = "walk", !.at = i, !.running = FALSE,
                                !.buffer = "none", !.result = NoResult,
                                !.found = Nothing, !.torn = FALSE]

Refused(r, i, message) ==
    [MovedOn(r, i) EXCEPT !.pc = "done",
        !.verdict = [by |-> i, action |-> PolicyAt(r, i).action, message |-> message]]

\* CheckInput or CheckOutput is called.
Check(r, ph, c) ==
    /\ req[r].pc \in {"idle", "done"}
    /\ req' = [req EXCEPT ![r] = [req[r] EXCEPT !.pc = "walk", !.phase = ph,
                 !.content = c, !.at = 0, !.solo = TRUE, !.verdict = Passed]]
    /\ UNCHANGED <<engine, guest, harmed>>

\* No filter is left: nil.
WalkEnds(r) ==
    /\ req[r].pc = "walk" /\ NextFilter(r) = {}
    /\ req' = [req EXCEPT ![r].pc = "done"]
    /\ UNCHANGED <<engine, guest, harmed>>

\* A pattern, keyword or kind of personal data is found.
Objects(r, i) == req[r].content \in PolicyAt(r, i).on

\* Check of a keyword, regex or PII filter.
StatelessCheck(r) ==
    /\ req[r].pc = "walk"
    /\ \E i \in NextFilter(r) :
        /\ PolicyAt(r, i).type # "wasm"
        /\ req' = [req EXCEPT ![r] = IF Objects(r, i)
                                     THEN Refused(r, i, req[r].content) ELSE MovedOn(r, i)]
    /\ UNCHANGED <<engine, guest, harmed>>

-----------------------------------------------------------------------------
(* WasmFilter.Check.  Its mutex is held while the metadata pointer is read,  *)
(* and by nothing that touches the guest.                                    *)

WasmCheck(r) ==
    /\ req[r].pc = "walk"
    /\ \E i \in NextFilter(r) :
        LET f == <<req[r].phase, i>>
        IN /\ f \in Plugins
           /\ req' = [q \in Requests |->
                CASE q = r -> [req[r] EXCEPT !.pc = "alloc", !.at = i,
                                 !.solo = @ /\ Inside(f) = {} /\ ~guest[f].corrupt]
                  [] q # r /\ q \in Inside(f) -> [req[q] EXCEPT !.solo = FALSE]
                  [] OTHER -> req[q]]
           /\ harmed' = IF Inside(f) = {} THEN harmed ELSE harmed \cup {f}
    /\ UNCHANGED <<engine, guest>>

\* Fn.Call: the goroutine enters the guest.
Call(r) ==
    /\ req[r].pc \in GuestCalls /\ ~req[r].running
    /\ LET others == {q \in Inside(PluginOf(r)) : req[q].running}
           misuse == req[r].pc = "check" /\ req[r].buffer = "freed"
       IN guest' = [guest EXCEPT ![PluginOf(r)].corrupt = @ \/ others # {} \/ misuse]
    /\ req' = [req EXCEPT ![r].running = TRUE]
    /\ UNCHANGED <<engine, harmed>>

\* Mutant of AllocReturns: the guest keeps no reference to the buffer, which
\* is collected.
AllocReturnsUnkept(r) ==
    /\ req[r].pc \in {"alloc", "allocMeta"} /\ req[r].running
    /\ req' = [req EXCEPT ![r] =
        IF req[r].pc = "alloc"
        THEN [req[r] EXCEPT !.pc = "write", !.running = FALSE, !.buffer = "freed"]
        ELSE [req[r] EXCEPT !.pc = "writeMeta", !.running = FALSE]]
    /\ UNCHANGED <<engine, guest, harmed>>

\* alloc returns a buffer.
AllocReturns(r) ==
    /\ req[r].pc \in {"alloc", "allocMeta"} /\ req[r].running
    /\ req' = [req EXCEPT ![r] =
        IF req[r].pc = "alloc"
        THEN [req[r] EXCEPT !.pc = "write", !.running = FALSE, !.buffer = "live"]
        ELSE [req[r] EXCEPT !.pc = "writeMeta", !.running = FALSE]]
    /\ UNCHANGED <<engine, guest, harmed>>

\* Memory().Write of the content, of the metadata.
MemoryWrite(r) ==
    /\ req[r].pc \in {"write", "writeMeta"}
    /\ req' = [req EXCEPT ![r].pc = IF @ = "write" THEN "allocMeta" ELSE "check"]
    /\ guest' = [guest EXCEPT ![PluginOf(r)].corrupt = @ \/ req[r].buffer = "freed"]
    /\ UNCHANGED <<engine, harmed>>

\* check returns: every buffer is freed, and a violation leaves its result
\* where that of the last one was.
CheckReturns(r, result) ==
    /\ req[r].pc = "check" /\ req[r].running
    /\ LET f == PluginOf(r)
       IN /\ guest[f].corrupt \/ (result = 1 <=> req[r].content \in PolicyOf(r).on)
          /\ guest' = IF result = 1
                      THEN [guest EXCEPT ![f].result = req[r].content] ELSE guest
          /\ req' = [q \in Requests |->
               CASE q = r -> [req[r] EXCEPT !.pc = "judge", !.running = FALSE,
                                            !.result = result, !.buffer = "freed"]
                 [] q # r /\ q \in Inside(f) ->
                       [req[q] EXCEPT !.buffer = IF @ = "live" THEN "freed" ELSE @,
                                      !.torn = @ \/ (result = 1 /\ req[q].found # Nothing)]
                 [] OTHER -> req[q]]
    /\ UNCHANGED <<engine, harmed>>

\* Mutant of Judge: the guest's verdict is not looked at.
JudgeNever(r) ==
    /\ req[r].pc = "judge"
    /\ req' = [req EXCEPT ![r].pc = "ptr"]
    /\ UNCHANGED <<engine, guest, harmed>>

\* 0 is no violation, anything else one.
Judge(r) ==
    /\ req[r].pc = "judge"
    /\ req' = [req EXCEPT ![r] = IF req[r].result = 0 THEN MovedOn(r, req[r].at)
                                 ELSE [req[r] EXCEPT !.pc = "ptr"]]
    /\ UNCHANGED <<engine, guest, harmed>>

\* get_result_ptr, then get_result_len.
ResultReturns(r) ==
    /\ req[r].pc \in {"ptr", "len"} /\ req[r].running
    /\ req' = [req EXCEPT ![r] =
        IF req[r].pc = "ptr"
        THEN [req[r] EXCEPT !.pc = "len", !.running = FALSE,
                            !.found = guest[PluginOf(r)].result]
        ELSE [req[r] EXCEPT !.pc = "read", !.running = FALSE]]
    /\ UNCHANGED <<engine, guest, harmed>>

\* Memory().Read and Unmarshal: the message, unless pointer and length are of
\* different results or the guest is corrupt, when it is any that parses.
ReadResult(r, message) ==
    /\ req[r].pc = "read" /\ message # Nothing
    /\ message = req[r].found \/ req[r].torn \/ guest[PluginOf(r)].corrupt
    /\ req' = [req EXCEPT ![r] = Refused(r, req[r].at, message)]
    /\ UNCHANGED <<engine, guest, harmed>>

\* Mutant of Failed: a result that cannot be read is taken for none.
FailedUnlessRead(r) ==
    IF OnError(PolicyOf(r)) = "block" /\ req[r].pc # "read"
    THEN Refused(r, req[r].at, "error") ELSE MovedOn(r, req[r].at)

\* callCheck returned an error.
Failed(r) ==
    IF OnError(PolicyOf(r)) = "block"
    THEN Refused(r, req[r].at, "error") ELSE MovedOn(r, req[r].at)

\* A call traps, a write or read is out of bounds, or the result is not JSON.
StepFails(r) ==
    /\ InPlugin(r) /\ (req[r].running \/ req[r].pc \in {"write", "writeMeta", "read"})
    /\ guest' = [guest EXCEPT ![PluginOf(r)].corrupt = @ \/ req[r].running]
    /\ harmed' = IF req[r].running THEN harmed \cup {PluginOf(r)} ELSE harmed
    /\ req' = [req EXCEPT ![r] = [Failed(r) EXCEPT !.solo = FALSE]]
    /\ UNCHANGED engine

Next ==
    \E r \in Requests :
        \/ \E ph \in Phases, c \in Contents : Check(r, ph, c)
        \/ WalkEnds(r) \/ StatelessCheck(r) \/ WasmCheck(r)
        \/ Call(r) \/ AllocReturns(r) \/ MemoryWrite(r)
        \/ \E result \in {0, 1} : CheckReturns(r, result)
        \/ Judge(r) \/ ResultReturns(r)
        \/ \E c \in Contents : ReadResult(r, c)
        \/ StepFails(r)

Spec == Init /\ [][Next]_vars

-----------------------------------------------------------------------------
(* Properties *)

\* What the loaded filters say of content c, each on its own.
FirstObjection(ph, c) ==
    LET objecting == {i \in engine[ph] : c \in Policies[ph][i].on}
    IN IF objecting = {} THEN Passed
       ELSE LET i == CHOOSE i \in objecting : \A j \in objecting : i <= j
            IN [by |-> i, action |-> Policies[ph][i].action, message |-> c]

\* A check that has each plugin on its way to itself, finds its instance not
\* corrupt and meets no failing call ends with the verdict and the message of
\* the first filter that objects to this content: nothing that other checks
\* have left in such an instance (its result buffer above all) shows in it.
\* This is what lets Gateway and Stream take the engine's verdict for one step.
SoloVerdict ==
    \A r \in Requests : req[r].pc = "done" /\ req[r].solo =>
        req[r].verdict = FirstObjection(req[r].phase, req[r].content)

\* An instance is corrupt only if two checks were in it at the same time, some
\* time, or a call into it failed: checks that come one after the other, each
\* with its buffers allocated and freed in the guest (wasmfilter.go callCheck),
\* never do it harm, so with one request at a time SoloVerdict is about them all.
CorruptedByOverlap == \A f \in Plugins : guest[f].corrupt => f \in harmed

\* on_error holds whatever the other requests do to the guest: with "block" a
\* plugin lets a content pass only if its check returned 0, so neither a
\* failing call nor a result another check has overwritten turns an objection
\* into a pass; with "allow" it refuses only if its check returned 1.
OnErrorHonoured ==
    [][\A r \in Requests : InPlugin(r) =>
        /\ OnError(PolicyOf(r)) = "block" /\ req'[r].pc = "walk" => req[r].result = 0
        /\ OnError(PolicyOf(r)) = "allow" /\ req'[r].pc = "done" => req[r].result = 1]_vars

-----------------------------------------------------------------------------
(* The inductive invariant behind the theorems of PolicyProofs *)

\* A request inside a plugin is at the place of a WASM policy, and its result
\* is fetched only after a check that returned 1.
PluginSteps ==
    \A r \in Requests :
        /\ InPlugin(r) => PluginOf(r) \in Plugins
        /\ req[r].pc = "judge" => req[r].result \in {0, 1}
        /\ req[r].pc \in {"ptr", "len", "read"} => req[r].result = 1

IndInv == TypeOK /\ PluginSteps

Within(x) == x.pc \in GuestCalls \cup HostSteps

\* No loaded filter before the x.at-th (before or at it, once x has left it)
\* objects, and the verdict is still open.
NoObjectionYet(x) ==
    /\ x.verdict = Passed
    /\ \A i \in engine[x.phase] :
         i < x.at \/ (x.pc = "walk" /\ i = x.at) => x.content \notin Policies[x.phase][i].on

\* Inside plugin p with instance g: the content is in the guest's memory until
\* the guest has looked at it, and the result that is fetched is its own.
OwnResult(x, p, g) ==
    /\ ~g.corrupt /\ ~x.torn
    /\ x.pc \in {"write", "allocMeta", "writeMeta", "check"} => x.buffer = "live"
    /\ x.pc = "judge" => (x.result = 1 <=> x.content \in p.on)
    /\ x.pc \in {"judge", "ptr", "len", "read"} /\ x.result = 1 =>
            x.content \in p.on /\ g.result = x.content
    /\ x.pc \in {"len", "read"} => x.found = x.content

\* A check nothing has interfered with.
Undisturbed(x) ==
    /\ x.pc = "walk" \/ Within(x) => NoObjectionYet(x)
    /\ Within(x) => /\ x.at \in engine[x.phase]
                    /\ OwnResult(x, Policies[x.phase][x.at], guest[<<x.phase, x.at>>])
    /\ x.pc = "done" => x.verdict = FirstObjection(x.phase, x.content)

SoloInv ==
    \A r \in Requests :
        /\ ~InPlugin(r) => ~req[r].torn
        /\ req[r].solo => Undisturbed(req[r])
        /\ req[r].solo /\ InPlugin(r) => Inside(PluginOf(r)) = {r}

\* Two checks in one instance, or a buffer freed before its check has looked at
\* it, are signs of an overlap, and an overlap is on record.
OverlapSeen ==
    /\ \A q, r \in Requests :
         q # r /\ InPlugin(q) /\ InPlugin(r) /\ PluginOf(q) = PluginOf(r) =>
            PluginOf(r) \in harmed
    /\ \A r \in Requests :
         req[r].pc \in {"write", "allocMeta", "writeMeta", "check"}
            /\ req[r].buffer = "freed" => PluginOf(r) \in harmed

HarmInv == IndInv /\ OverlapSeen /\ CorruptedByOverlap
=============================================================================
