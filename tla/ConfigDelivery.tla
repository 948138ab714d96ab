--------------------------- MODULE ConfigDelivery ---------------------------
(***************************************************************************)
(* From a custom resource to the running gateway: the operator writes the  *)
(* ConfigMap, the kubelet brings it to the volume that the gateway's pod   *)
(* mounts, and the watcher reloads the file.                               *)
(***************************************************************************)
EXTENDS Operator, Watcher

vars == <<opvars, wvars>>

TypeOK == OperatorTypeOK /\ WatcherTypeOK(Content)

Init == OperatorInit /\ WatcherInit(None)

\* The kubelet's atomic writer.
Project ==
    /\ cm.exists /\ [exists |-> TRUE, data |-> cm.data] # file
    /\ WriteFile(cm.data)
    /\ UNCHANGED opvars

Next ==
    \/ OperatorNext /\ UNCHANGED wvars
    \/ WatcherNext /\ UNCHANGED opvars
    \/ Project

Spec == Init /\ [][Next]_vars

LiveSpec == Spec /\ OperatorFairness /\ WatcherFairness /\ WF_vars(Project)

\* A change of what the operator copies out of the gateway resource is loaded
\* by the running process, across stale caches, failing calls, conflicting
\* writes, restarts of operator and gateway and unreadable files; unless
\* operator pods overlap, the listing of gateways fails, or the file changes
\* while the process starts.  Loaded is not applied: main's callback only logs
\* the new configuration, and nothing calls the watcher's GetConfig, so the
\* components built at the start go on with what they were given.
GatewayEditLoaded ==
    \A v \in 1 .. MaxEdits["gateways"] :
        cluster["gateways"]["copied"] >= v ~>
            (proc.cfg["gateways"] >= v \/ mixed \/ missed)
=============================================================================
