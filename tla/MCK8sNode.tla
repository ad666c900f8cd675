----------------------------- MODULE MCK8sNode -----------------------------
(* Six pods: a mirror pod, a pod of a ReplicaSet that a StatefulSet owns  *)
(* too (and so is listed twice), a DaemonSet's pod, an unmanaged pod with  *)
(* local data, an unmanaged one, and one that has finished.                *)
EXTENDS K8sNode

MCPods == <<"mirror", "owned", "daemon", "local", "bare", "done">>

MCPodInfo ==
    [x \in Range(MCPods) |->
        [mirror |-> x = "mirror", finished |-> x = "done", emptydir |-> x = "local",
         owners |-> CASE x = "owned" -> {"ReplicaSet", "StatefulSet"}
                      [] x = "daemon" -> {"DaemonSet"}
                      [] OTHER -> {}]]

T(k, e, v) == [key |-> k, effect |-> e, value |-> v]

MCNodeTaint == T("unreachable", "NoExecute", 0)

MCTaints == {MCNodeTaint, T("dedicated", "NoSchedule", 1), T("dedicated", "NoSchedule", 2)}

Drains == [op : {"drain"}, force : BOOLEAN, ignore_daemonsets : BOOLEAN,
           delete_emptydir : BOOLEAN, wait : {"no", "timed", "forever"}, check : {FALSE},
           replace : {FALSE}, taints : {{}}]

Others == [op : {"cordon", "uncordon"}, force : {FALSE}, ignore_daemonsets : {FALSE},
           delete_emptydir : {FALSE}, wait : {"no"}, check : {FALSE}, replace : {FALSE},
           taints : {{}}]

Taintings == [op : {"taint", "untaint"}, force : {FALSE}, ignore_daemonsets : {FALSE},
              delete_emptydir : {FALSE}, wait : {"no"}, check : BOOLEAN, replace : BOOLEAN,
              taints : {{T("dedicated", "NoSchedule", 1)}, {T("dedicated", "any", 1)}}]

MCParams == Drains \cup Others
                \cup {p \in Taintings : p.op = "taint" => \A t \in p.taints : t.effect # "any"}

=============================================================================
