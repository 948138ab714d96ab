------------------------------- MODULE Watcher -------------------------------
(***************************************************************************)
(* internal/config/watcher.go, and the start of cmd/aegisflow/main.go: the *)
(* gateway process loads its configuration file and polls it for changes.  *)
(*                                                                         *)
(* Modification times are only compared with lastMod, so the state has the *)
(* outcomes: whether the file is newer than lastMod, and whether it was    *)
(* written after the Stat of the check that is going on.                   *)
(***************************************************************************)

VARIABLES
    file,     \* whether the file exists, and its contents
    newer,    \* its modification time is after lastMod
    rewritten,\* it was written since the Stat of the check that is going on
    proc,     \* where the process is, the configuration it has and the one loaded
    missed    \* history: written between main's Load and NewWatcher's Stat

wvars == <<file, newer, rewritten, proc, missed>>

WatcherTypeOK(Contents) ==
    /\ file \in [exists : BOOLEAN, data : Contents]
    /\ newer \in BOOLEAN /\ rewritten \in BOOLEAN /\ missed \in BOOLEAN
    /\ proc \in [pc : {"down", "loaded", "idle", "stat", "read"},
                 cfg : Contents, new : Contents]

WatcherInit(nothing) ==
    /\ file = [exists |-> FALSE, data |-> nothing]
    /\ newer = FALSE /\ rewritten = FALSE /\ missed = FALSE
    /\ proc = [pc |-> "down", cfg |-> nothing, new |-> nothing]

-----------------------------------------------------------------------------

\* The file is replaced; no two writes have the same modification time.
WriteFile(data) ==
    /\ file' = [exists |-> TRUE, data |-> data]
    /\ newer' = (proc.pc # "down")
    /\ rewritten' = (proc.pc \in {"stat", "read"})
    /\ missed' = (proc.pc = "loaded")
    /\ UNCHANGED proc

\* main loads the configuration; if it cannot, the process exits.
LoadAtStart ==
    /\ proc.pc = "down" /\ file.exists
    /\ proc' = [proc EXCEPT !.pc = "loaded", !.cfg = file.data, !.new = file.data]
    /\ missed' = FALSE
    /\ UNCHANGED <<file, newer, rewritten>>

NewWatcher ==
    /\ proc.pc = "loaded"
    /\ proc' = [proc EXCEPT !.pc = "idle"]
    /\ newer' = FALSE
    /\ UNCHANGED <<file, rewritten, missed>>

\* check: Stat, and nothing more if the file is not newer.
Stat ==
    /\ proc.pc = "idle" /\ newer
    /\ proc' = [proc EXCEPT !.pc = "stat"]
    /\ UNCHANGED <<file, newer, rewritten, missed>>

Load ==
    /\ proc.pc = "stat"
    /\ proc' = [proc EXCEPT !.pc = "read", !.new = file.data]
    /\ UNCHANGED <<file, newer, rewritten, missed>>

\* lastMod stays what it was: the next check tries again.
LoadFails ==
    /\ proc.pc = "stat"
    /\ proc' = [proc EXCEPT !.pc = "idle"]
    /\ rewritten' = FALSE
    /\ UNCHANGED <<file, newer, missed>>

\* Mutant of Swap: lastMod becomes the time the file has by now.
SwapAsOfNow ==
    /\ proc.pc = "read"
    /\ proc' = [proc EXCEPT !.pc = "idle", !.cfg = proc.new]
    /\ newer' = FALSE /\ rewritten' = FALSE
    /\ UNCHANGED <<file, missed>>

\* The new configuration and the time that Stat returned.
Swap ==
    /\ proc.pc = "read"
    /\ proc' = [proc EXCEPT !.pc = "idle", !.cfg = proc.new]
    /\ newer' = rewritten /\ rewritten' = FALSE
    /\ UNCHANGED <<file, missed>>

\* The process stops, or dies.
Exit ==
    /\ proc.pc # "down"
    /\ proc' = [proc EXCEPT !.pc = "down", !.new = proc.cfg]
    /\ newer' = FALSE /\ rewritten' = FALSE /\ missed' = FALSE
    /\ UNCHANGED file

WatcherNext ==
    LoadAtStart \/ NewWatcher \/ Stat \/ Load \/ LoadFails \/ Swap \/ Exit

\* The process is restarted, its ticker fires, and reading the file does not
\* fail for ever.
WatcherFairness ==
    /\ SF_wvars(LoadAtStart)
    /\ SF_wvars(Load)
    /\ WF_wvars(NewWatcher \/ Stat \/ Swap)

-----------------------------------------------------------------------------
(* Property *)

\* Between two checks, the process has the contents of the file, or it will
\* look at the file again; the one exception is a write that falls between
\* main's Load and NewWatcher's Stat.
NothingOverlooked ==
    proc.pc = "idle" /\ ~newer /\ ~missed => proc.cfg = file.data
=============================================================================
