------------------------------- MODULE K8sNode -------------------------------
(***************************************************************************)
(* The kubernetes.core modules that work on a node: k8s_drain (cordon,     *)
(* uncordon and drain) and k8s_taint.  One task runs at a time; an         *)
(* administrator, the scheduler, the kubelet and the node controller act   *)
(* between its requests.                                                   *)
(***************************************************************************)
EXTENDS Naturals, Sequences, FiniteSets, SequencesExt, Selections

CONSTANTS
    Pods,        \* the pods, a sequence: the order in which they are listed
    PodInfo,     \* for each of them, what filter_pods looks at
    Taints,      \* the taints a node may have
    NodeTaint,   \* the one that the node controller sets and removes
    Params,      \* the tasks that may be run
    MaxOthers    \* bound: changes by others

Pod == Range(Pods)

(* mirror: annotated as mirror of a static pod; finished: Succeeded or     *)
(* Failed; emptydir: has a volume with local data; owners: the kinds of    *)
(* its owners                                                              *)
Info == [mirror : BOOLEAN, finished : BOOLEAN, emptydir : BOOLEAN,
         owners : SUBSET {"DaemonSet", "ReplicaSet", "StatefulSet"}]

Taint == [key : STRING, effect : STRING, value : Nat]

(* effect "any" is a wanted taint that names no effect; wait is            *)
(* wait_timeout: not given, given, or zero                                 *)
Param == [op : {"drain", "cordon", "uncordon", "taint", "untaint"},
          force : BOOLEAN, ignore_daemonsets : BOOLEAN, delete_emptydir : BOOLEAN,
          wait : {"no", "timed", "forever"}, check : BOOLEAN, replace : BOOLEAN, taints : SUBSET Taint]

ASSUME NodeAssumption ==
    /\ Pods \in Seq(Pod)
    /\ PodInfo \in [Pod -> Info]
    /\ Taints \subseteq Taint
    /\ NodeTaint \in Taints
    /\ Params \subseteq Param
    /\ MaxOthers \in Nat

VARIABLES
    unschedulable,   \* spec.unschedulable of the node
    taints,          \* spec.taints of the node
    podState,        \* of each pod: "away" (not scheduled yet), "running" and
                     \* "terminating" (on the node), "gone", and "elsewhere":
                     \* made anew, by the same name, on another node
    task,            \* the running task
    others,          \* changes made by others
    uncordoned       \* history: somebody else uncordoned during the task

vars == <<unschedulable, taints, podState, task, others, uncordoned>>

envVars == <<others, uncordoned>>

Task == [p : Param, pc : {"read", "cordon", "list", "revert", "evict", "wait", "patch", "ended"},
         found : BOOLEAN, seen : SUBSET Taint, marked : BOOLEAN,
         pods : Seq(Pod), todo : Seq(Pod), pod : Pod \cup {"none"},
         asked : SUBSET Pod, changed : BOOLEAN, ok : BOOLEAN, warned : BOOLEAN]

----------------------------------------------------------------------------

OnNode == Only(Pods, {x \in Pod : podState[x] \in {"running", "terminating"}})

(* filter_pods: the categories are tried in this order                     *)
Mirror(x) == PodInfo[x].mirror

Finished(x) == ~Mirror(x) /\ PodInfo[x].finished

LocalStorage(x) == ~Mirror(x) /\ ~Finished(x) /\ PodInfo[x].emptydir

Checked(x) == ~Mirror(x) /\ ~Finished(x) /\ ~LocalStorage(x)

Unmanaged(x) == Checked(x) /\ PodInfo[x].owners = {}

DaemonSet(x) == Checked(x) /\ "DaemonSet" \in PodInfo[x].owners

(* A pod is listed once for each owner that is not a DaemonSet.            *)
Copies(x) ==
    CASE Finished(x) -> <<x>>
      [] Checked(x) -> [i \in 1..Cardinality(PodInfo[x].owners \ {"DaemonSet"}) |-> x]
      [] OTHER -> <<>>

(* The pods to evict                                                       *)
to_delete(p, list) ==
    FlattenSeq([i \in DOMAIN list |-> Copies(list[i])])
        \o (IF p.force THEN Only(list, {x \in Pod : Unmanaged(x)}) ELSE <<>>)
        \o (IF p.delete_emptydir THEN Only(list, {x \in Pod : LocalStorage(x)}) ELSE <<>>)

(* What the user has to allow                                              *)
errors(p, list) ==
    \E x \in Range(list) :
        \/ Unmanaged(x) /\ ~p.force
        \/ LocalStorage(x) /\ ~p.delete_emptydir
        \/ DaemonSet(x) /\ ~p.ignore_daemonsets

(* k8s_taint: _equal_dicts and the list operations on top of it            *)
equal_dicts(a, b) ==
    a.key = b.key /\ ("any" \in {a.effect, b.effect} \/ a.effect = b.effect)

get_difference(A, B) == {a \in A : ~\E b \in B : equal_dicts(a, b)}

get_intersection(A, B) == {a \in A : \E b \in B : equal_dicts(a, b)}

update_exists(A, B) == \E a \in A, b \in B : equal_dicts(a, b) /\ a.value # b.value

(* The taints the task patches the node with                               *)
NewTaints(t) ==
    CASE t.p.op = "untaint" -> get_difference(t.seen, t.p.taints)
      [] t.p.op = "taint" /\ t.p.replace /\ get_difference(t.p.taints, t.seen) # {} ->
             t.p.taints
      [] OTHER -> get_difference(t.seen, t.p.taints) \cup t.p.taints

(* Whether there is something to patch                                     *)
TaintsDiffer(t) ==
    IF t.p.op = "taint"
    THEN get_difference(t.p.taints, t.seen) # {} \/ update_exists(t.seen, t.p.taints)
    ELSE get_difference(t.p.taints, t.seen) = {} \/ get_intersection(t.seen, t.p.taints) # {}

----------------------------------------------------------------------------
(* The task *)

Ended(t, changed) == [t EXCEPT !.pc = "ended", !.ok = TRUE, !.changed = changed]

Failed(t) == [t EXCEPT !.pc = "ended", !.ok = FALSE]

Fails == task' = Failed(task) /\ UNCHANGED <<unschedulable, taints, podState>>

(* Mutant: a drain does not cordon first.                                  *)
AfterReadLists(t) ==
    CASE t.p.op = "drain" -> [t EXCEPT !.pc = "list"]
      [] OTHER -> IF t.found = (t.p.op = "cordon")
                  THEN Ended(t, FALSE) ELSE [t EXCEPT !.pc = "cordon"]

(* What follows from the state of the node                                 *)
AfterRead(t) ==
    CASE t.p.op = "drain" -> IF t.found THEN [t EXCEPT !.pc = "list"]
                                        ELSE [t EXCEPT !.pc = "cordon"]
      [] OTHER -> IF t.found = (t.p.op = "cordon")
                  THEN Ended(t, FALSE) ELSE [t EXCEPT !.pc = "cordon"]

(* execute_module: read_node                                               *)
ReadNode ==
    /\ task.pc = "read"
    /\ task.p.op \in {"drain", "cordon", "uncordon"}
    /\ \/ /\ task' = AfterRead([task EXCEPT !.found = unschedulable])
          /\ UNCHANGED <<unschedulable, taints, podState>>
       \/ Fails

(* patch_node of cordon, of uncordon and of the beginning of a drain       *)
PatchNode ==
    /\ task.pc = "cordon"
    /\ \/ /\ unschedulable' = (task.p.op # "uncordon")
          /\ task' = IF task.p.op = "drain"
                     THEN [task EXCEPT !.pc = "list", !.marked = TRUE, !.changed = TRUE]
                     ELSE Ended(task, TRUE)
          /\ UNCHANGED <<taints, podState>>
       \/ Fails

(* Mutant: the cordon is undone whoever made it.                           *)
UndoneAlways(t) == [t EXCEPT !.pc = "revert", !.changed = FALSE]

(* The cordon is undone if the task made it.                               *)
Undone(t) == IF t.changed THEN [t EXCEPT !.pc = "revert", !.changed = FALSE] ELSE Failed(t)

(* list_pods and filter_pods.  After a list that is not found the task     *)
(* fails as well, on warnings, which it has not set; the cordon stays.     *)
ListPods ==
    /\ task.pc = "list"
    /\ \E list \in {OnNode} :
           \/ /\ ~errors(task.p, list)
              /\ \E pods \in {to_delete(task.p, list)} :
                     task' = IF pods = <<>>
                             THEN Ended(task, task.changed)
                             ELSE [task EXCEPT !.pc = "evict", !.pods = pods, !.todo = pods]
           \/ errors(task.p, list) /\ task' = Undone(task)
           \/ task' = Undone(task)
           \/ task' = Failed(task)
    /\ UNCHANGED <<unschedulable, taints, podState>>

(* _revert_node_patch, then fail_json                                      *)
RevertNodePatch ==
    /\ task.pc = "revert"
    /\ task' = Failed(task)
    /\ \/ unschedulable' = FALSE
       \/ UNCHANGED unschedulable
    /\ UNCHANGED <<taints, podState>>

(* After the last eviction: wait_for_pod_deletion takes the last pod of    *)
(* the list before its loop, and looks only while there are pods left.     *)
Evicted(t) ==
    IF t.p.wait # "no"
    THEN [t EXCEPT !.pc = "wait", !.todo = Front(t.pods), !.pod = Last(t.pods)]
    ELSE Ended(t, t.changed)

(* evict_pods, one pod: a pod that is not there any more is passed over.   *)
(* A pod made anew elsewhere is evicted there, and made anew again.        *)
EvictPod ==
    /\ task.pc = "evict"
    /\ LET x == Head(task.todo)
           t == [task EXCEPT !.todo = Tail(@), !.asked = @ \cup {x},
                             !.changed = @ \/ podState[x] # "gone"]
       IN  /\ podState' = IF podState[x] \in {"gone", "elsewhere"} THEN podState
                          ELSE [podState EXCEPT ![x] = "terminating"]
           /\ task' = IF t.todo = <<>> THEN Evicted(t) ELSE t
    /\ UNCHANGED <<unschedulable, taints>>

(* An eviction that is refused, for example by a disruption budget         *)
EvictRefused == task.pc = "evict" /\ Fails

(* Mutant: the pod to look for is taken from the list at every turn.       *)
WaitPodRotates ==
    /\ task.pc = "wait"
    /\ task.todo # <<>>
    /\ LET x == Last(task.todo)
       IN  task' = [task EXCEPT !.todo = IF podState[x] = "gone" THEN @ ELSE <<x>> \o Front(@)]
    /\ UNCHANGED <<unschedulable, taints, podState>>

(* One turn of wait_for_pod_deletion: it looks for a pod by its name.      *)
WaitPod ==
    /\ task.pc = "wait"
    /\ task.todo # <<>>
    /\ LET x == IF task.pod = "none" THEN Last(task.todo) ELSE task.pod
           rest == IF task.pod = "none" THEN Front(task.todo) ELSE task.todo
       IN  task' = [task EXCEPT !.todo = rest,
                                !.pod = IF podState[x] = "gone" THEN "none" ELSE x]
    /\ UNCHANGED <<unschedulable, taints, podState>>

WaitFails == task.pc = "wait" /\ task.todo # <<>> /\ Fails

(* The loop ends when no pod is left in the list, or when the time is up.  *)
WaitEnds ==
    /\ task.pc = "wait"
    /\ task.todo = <<>> \/ task.p.wait = "timed"
    /\ task' = [Ended(task, task.changed) EXCEPT !.warned = (task.todo # <<>>)]
    /\ UNCHANGED <<unschedulable, taints, podState>>

(* k8s_taint: get_node and the comparison                                  *)
GetNode ==
    /\ task.pc = "read"
    /\ task.p.op \in {"taint", "untaint"}
    /\ \/ /\ LET t == [task EXCEPT !.seen = taints]
             IN  task' = CASE ~TaintsDiffer(t) -> Ended(t, FALSE)
                           [] TaintsDiffer(t) /\ t.p.check -> Ended(t, TRUE)
                           [] OTHER -> [t EXCEPT !.pc = "patch"]
          /\ UNCHANGED <<unschedulable, taints, podState>>
       \/ Fails

(* patch_node with the whole list of taints                                *)
PatchTaints ==
    /\ task.pc = "patch"
    /\ \/ /\ taints' = NewTaints(task)
          /\ task' = Ended(task, TRUE)
          /\ UNCHANGED <<unschedulable, podState>>
       \/ Fails

TaskStep ==
    \/ ReadNode \/ PatchNode \/ ListPods \/ RevertNodePatch \/ EvictPod \/ EvictRefused
    \/ WaitPod \/ WaitFails \/ WaitEnds \/ GetNode \/ PatchTaints

----------------------------------------------------------------------------
(* The others *)

(* The scheduler places a pod on a node that is not cordoned.              *)
Schedule ==
    /\ ~unschedulable
    /\ \E x \in Pod :
           /\ podState[x] = "away"
           /\ podState' = [podState EXCEPT ![x] = "running"]
    /\ UNCHANGED <<unschedulable, taints, task, envVars>>

(* The kubelet ends a terminating pod.                                     *)
Terminate ==
    /\ \E x \in Pod :
           /\ podState[x] = "terminating"
           /\ podState' = [podState EXCEPT ![x] = "gone"]
    /\ UNCHANGED <<unschedulable, taints, task, envVars>>

(* The StatefulSet makes a pod anew, by the same name.                     *)
Recreate ==
    /\ \E x \in Pod :
           /\ podState[x] = "gone" /\ "StatefulSet" \in PodInfo[x].owners
           /\ podState' = [podState EXCEPT ![x] = "elsewhere"]
    /\ UNCHANGED <<unschedulable, taints, task, envVars>>

(* Somebody else deletes a pod.                                            *)
OtherDelete ==
    /\ others < MaxOthers
    /\ \E x \in Pod :
           /\ podState[x] = "running"
           /\ podState' = [podState EXCEPT ![x] = "terminating"]
    /\ others' = others + 1
    /\ UNCHANGED <<unschedulable, taints, task, uncordoned>>

(* An administrator cordons or uncordons.                                  *)
Admin ==
    /\ others < MaxOthers
    /\ unschedulable' = ~unschedulable
    /\ others' = others + 1
    /\ uncordoned' = (uncordoned \/ unschedulable)
    /\ UNCHANGED <<taints, podState, task>>

(* The node controller sets or removes its taint.                          *)
NodeController ==
    /\ others < MaxOthers
    /\ taints' = IF NodeTaint \in taints THEN taints \ {NodeTaint} ELSE taints \cup {NodeTaint}
    /\ others' = others + 1
    /\ UNCHANGED <<unschedulable, podState, task, uncordoned>>

Environment == Schedule \/ Terminate \/ Recreate \/ OtherDelete \/ Admin \/ NodeController

----------------------------------------------------------------------------

Idle == [p |-> [op |-> "uncordon", force |-> FALSE, ignore_daemonsets |-> FALSE,
                delete_emptydir |-> FALSE, wait |-> "no", check |-> FALSE,
                replace |-> FALSE, taints |-> {}],
         pc |-> "ended", found |-> FALSE, seen |-> {}, marked |-> FALSE, pods |-> <<>>,
         todo |-> <<>>, pod |-> "none", asked |-> {}, changed |-> FALSE, ok |-> FALSE,
         warned |-> FALSE]

(* What the task does not look at begins in one state only.                *)
Init ==
    /\ \E p \in Params : task = [Idle EXCEPT !.p = p, !.pc = "read"]
    /\ unschedulable \in BOOLEAN
    /\ taints \in IF task.p.op \in {"taint", "untaint"}
                  THEN {T \in SUBSET Taints : \A a, b \in T : equal_dicts(a, b) => a = b}
                  ELSE {{}}
    /\ podState \in [Pod -> IF task.p.op = "drain" THEN {"away", "running"} ELSE {"away"}]
    /\ others = 0
    /\ uncordoned = FALSE

Next ==
    \/ TaskStep /\ UNCHANGED envVars
    \/ Environment

(* The task takes its steps, whether or not its requests are refused, and  *)
(* the kubelet ends the pods that are terminating.                         *)
Progress ==
    \/ ReadNode \/ PatchNode \/ ListPods \/ RevertNodePatch \/ EvictPod
    \/ WaitPod \/ WaitEnds \/ GetNode \/ PatchTaints

Fairness ==
    /\ WF_vars(Progress /\ UNCHANGED envVars)
    /\ WF_vars(Terminate)

Spec == Init /\ [][Next]_vars /\ Fairness

----------------------------------------------------------------------------
(* Properties *)

TypeOK ==
    /\ unschedulable \in BOOLEAN
    /\ taints \subseteq Taint
    /\ podState \in [Pod -> {"away", "running", "terminating", "gone", "elsewhere"}]
    /\ task \in Task
    /\ others \in 0..MaxOthers
    /\ uncordoned \in BOOLEAN

(* A drain that ended well has asked every pod of the node to go but the   *)
(* mirror pods and the ones that a DaemonSet owns, unless somebody else    *)
(* uncordoned the node meanwhile: because the list comes after the cordon, *)
(* no pod slips in behind it.                                              *)
NobodyLeftUnasked ==
    (task.pc = "ended" /\ task.ok /\ task.p.op = "drain" /\ ~uncordoned)
        => \A x \in Pod :
               (podState[x] = "running")
                   => (x \in task.asked \/ PodInfo[x].mirror \/ "DaemonSet" \in PodInfo[x].owners)

(* A task undoes only what is its own.  A drain takes back a cordon only   *)
(* if it made it, and not after it has asked a pod to go.  The patch of    *)
(* k8s_taint carries the whole list, computed from an earlier read: it may *)
(* wipe out a taint that was set after the read, but no other one than it  *)
(* was asked to.                                                           *)
OnlyOwnUndone ==
    [][/\ (task.p.op = "drain" /\ others' = others /\ unschedulable /\ ~unschedulable')
             => (task.marked /\ ~task.found /\ task.asked = {})
       /\ \A t \in taints :
             (others' = others /\ t \notin taints')
                 => \/ t \notin task.seen
                    \/ \E w \in task.p.taints : equal_dicts(t, w)
                    \/ task.p.replace]_vars

(* A drain without time limit waits for ever if it looks for the pod of a  *)
(* StatefulSet, which comes back by the same name.                         *)
LooksForever ==
    /\ task.pc = "wait" /\ task.p.wait = "forever"
    /\ \E x \in Pod : podState[x] = "elsewhere"

(* Every task ends, also a drain without time limit (but for the case      *)
(* above): the pods it looks for terminate.                                *)
TaskEnds == <>(task.pc = "ended" \/ LooksForever)
=============================================================================
