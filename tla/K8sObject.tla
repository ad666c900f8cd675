------------------------------ MODULE K8sObject ------------------------------
(***************************************************************************)
(* The kubernetes.core modules that a role calls to bring ONE object of    *)
(* the cluster to a wanted state: k8s (the service and runner of           *)
(* module_utils/k8s, and the older K8sAnsibleMixin of                      *)
(* module_utils/common.py), k8s_scale, k8s_json_patch and k8s_info.        *)
(*                                                                         *)
(* A task is a client of the API server.  Each of its requests is one      *)
(* step, so that other writers, the controller of the object and the       *)
(* garbage collector come between any two of them.  An object is           *)
(*   spec       a value, or Unset, for each field                          *)
(*   last       the last-applied-configuration annotation, or NoLast       *)
(*   gen        metadata.generation, which the server counts up with spec  *)
(*   observed   status.observedGeneration                                  *)
(*   ready      whether the replica counts of status agree with spec       *)
(*   deleting   deletionTimestamp is set and a finalizer holds the object  *)
(*   uid        metadata.uid                                               *)
(* resourceVersion is left out: no request of these tasks carries one.     *)
(***************************************************************************)
EXTENDS Naturals, FiniteSets

CONSTANTS
    Fields,     \* the fields of a spec
    Vals,       \* their values
    Unset,      \* the value of a field that is not there
    NoLast,     \* an object that nobody applied
    NoObj,      \* no object (a 404, or an empty dict)
    Found,      \* specs and last-applied annotations an object is found with
    Params,     \* the parameters of the tasks that may be started
    MaxTasks,   \* bound: tasks of the play
    MaxOthers   \* bound: changes by others

Spec_ == [Fields -> Vals \cup {Unset}]

Object == [spec : Spec_, last : Spec_ \cup {NoLast}, gen : Nat, observed : Nat,
           ready : BOOLEAN, deleting : BOOLEAN, uid : Nat]

(* What a task is asked to do.  op is the module; impl is the code that    *)
(* carries out op "k8s"; dry tells whether the kubernetes library is new   *)
(* enough for a dry run by the server (server_side_dry_run); expect is the *)
(* current_replicas of k8s_scale.                                          *)
Param == [op : {"k8s", "scale", "json_patch", "info"}, impl : {"service", "mixin"},
          state : {"present", "patched", "absent"}, apply : BOOLEAN, force : BOOLEAN,
          wait : BOOLEAN, check : BOOLEAN, dry : BOOLEAN, def : Spec_, expect : Spec_]

ASSUME ParamsAssumption ==
    /\ Params \subseteq Param /\ Params # {}
    /\ Unset \notin Vals
    /\ NoLast \notin Spec_
    /\ Found \subseteq Spec_ \X (Spec_ \cup {NoLast})
    /\ NoObj \notin Object
    /\ MaxTasks \in Nat
    /\ MaxOthers \in Nat

VARIABLES
    obj,      \* the object on the server
    uids,     \* objects created so far
    others,   \* changes made by others so far
    task,     \* the running task
    prev,     \* history: what the same task said just before, if it did
    met       \* history: the fields that had their wanted value at some
              \* instant of the running task

vars == <<obj, uids, others, task, prev, met>>

Task == [n : Nat, p : Param, pc : {"retrieve", "delete", "apply", "apply_put", "create",
                                   "replace", "update", "merge", "reget", "after", "find", "wait",
                                   "ended"},
         existing : Object \cup {NoObj}, actual : Object \cup {NoObj},
         instance : Object \cup {NoObj}, wrote : Object \cup {NoObj}, polled : BOOLEAN,
         method : {"none", "delete", "apply", "create", "replace", "update", "skip"},
         conflict : BOOLEAN, changed : BOOLEAN, ok : BOOLEAN, calm : BOOLEAN]

(* No answer to compare with                                               *)
NoAnswer == [known |-> FALSE, check |-> FALSE, client |-> FALSE, changed |-> FALSE]

----------------------------------------------------------------------------
(* The API server *)

Has(d) == {f \in Fields : d[f] # Unset}

(* What a merge patch makes of a spec; a patch names its fields in dom and *)
(* removes the ones it sets to Unset (null).                               *)
Patched(spec, dom, patch) == [f \in Fields |-> IF f \in dom THEN patch[f] ELSE spec[f]]

(* The server stores a spec; it counts up the generation when it differs.  *)
Stored(o, spec, last) ==
    [o EXCEPT !.spec = spec, !.last = last, !.gen = IF spec = o.spec THEN @ ELSE @ + 1]

Fresh(spec, last) ==
    [spec |-> spec, last |-> last, gen |-> 1, observed |-> 0, ready |-> FALSE,
     deleting |-> FALSE, uid |-> uids + 1]

Settled(o) == o # NoObj => (o.observed = o.gen /\ o.ready /\ ~o.deleting)

----------------------------------------------------------------------------
(* Operators of the modules *)

exists(o) == o # NoObj

SameObject(a, b) == a # NoObj /\ b # NoObj /\ a.uid = b.uid

(* Mutant: the counts alone are looked at.                                 *)
deployment_ready_stale(o) == o.ready

(* Deployment: the counts agree and they are the ones of this generation.  *)
deployment_ready(o) == o.observed = o.gen /\ o.ready

(* diff_objects: equal but for metadata.generation (and resourceVersion)   *)
diff_objects(a, b) ==
    \/ a = b
    \/ /\ a # NoObj /\ b # NoObj
       /\ [a EXCEPT !.gen = 0] = [b EXCEPT !.gen = 0]

(* get_deletions: the fields of the last applied configuration that the    *)
(* definition has no longer, or has with another value                     *)
get_deletions(last, def) == {f \in Has(last) : last[f] # def[f]}

(* get_delta: the fields of the definition that the object has not as such *)
get_delta(actual, def) == {f \in Has(def) : actual.spec[f] # def[f]}

(* Mutant: what the definition no longer has is not deleted.               *)
apply_patch_keeps(actual, def) ==
    IF actual.last = NoLast THEN Has(def) ELSE get_delta(actual, def)

(* apply_patch: the fields that the patch names.  Its value for a field is *)
(* the definition's, Unset standing for null; it also annotates the object *)
(* with the definition.  An object nobody applied gets all of it.          *)
apply_patch(actual, def) ==
    IF actual.last = NoLast
    THEN Has(def)
    ELSE get_deletions(actual.last, def) \cup get_delta(actual, def)

(* k8s_apply skips the request when the patch comes out empty.             *)
NothingToApply(actual, def) == actual.last = def /\ apply_patch(actual, def) = {}

(* A client-side dry run: a check with a library that cannot ask the server *)
client_side_dry_run(p) == p.check /\ ~p.dry

(* The fields the task is to give a value (or, for the ones that the       *)
(* object was applied with before, to remove)                              *)
Wanted(t) ==
    CASE t.method = "replace" -> Fields
      [] t.method = "apply" ->
             Has(t.p.def) \cup (IF t.actual = NoObj \/ t.actual.last = NoLast
                                THEN {} ELSE Has(t.actual.last))
      [] OTHER -> Has(t.p.def)

----------------------------------------------------------------------------
(* Mutant: every patch is reported as a change.                            *)
ChangedAlways(t, instance) == t.method # "delete" \/ exists(t.existing)

(* The end of a task.  perform_action: changed is set for a create, and    *)
(* for a delete of something that was there; otherwise it is the           *)
(* difference between what was read first and what came out.               *)
Changed(t, instance) ==
    CASE t.method = "delete" -> exists(t.existing)
      [] t.method = "create" -> TRUE
      [] OTHER -> ~diff_objects(t.existing, instance)

Ended(t, instance, changed) ==
    [t EXCEPT !.pc = "ended", !.instance = instance, !.changed = changed, !.ok = TRUE]

Failed(t) == [t EXCEPT !.pc = "ended", !.ok = FALSE]

(* After the write: wait if asked to and not checking, else conclude.      *)
Conclude(t, instance) ==
    IF t.p.wait /\ ~t.p.check
    THEN [t EXCEPT !.pc = "wait", !.instance = instance]
    ELSE Ended(t, instance, Changed(t, instance))

(* A write of the task: o is the object it leaves on the server (kept only *)
(* when the task does not check), t the task after it.  The answer may get *)
(* lost on its way: the server has done it and the task is otherwise.      *)
WriteOr(o, t, otherwise) ==
    /\ obj' = IF task.p.check THEN obj ELSE o
    /\ \/ task' = [t EXCEPT !.wrote = IF task.p.check THEN NoObj ELSE o]
       \/ task' = otherwise

Write(o, t) == WriteOr(o, t, Failed(task))

(* A request that the server refuses, or that does not reach it: the       *)
(* module reports it (CoreException, fail_json).                           *)
Refused == task' = Failed(task) /\ UNCHANGED <<obj, uids>>

(* Two tasks ask for the same if they differ in who carries it out, in     *)
(* waiting and in checking only.                                           *)
SameRequest(p, q) ==
    /\ p.op = q.op /\ p.state = q.state /\ p.apply = q.apply /\ p.force = q.force
    /\ p.def = q.def /\ p.expect = q.expect

(* The two implementations treat alike what may be asked of both.  They    *)
(* differ in a patch by force, which is a replace in the service and a     *)
(* merge in the mixin.                                                     *)
ImplementationsAgree ==
    \A p, q \in Params :
        SameRequest(p, q) /\ p.state = "patched" /\ p.force => p.impl = q.impl

(* A play begins with any task and, if that ends well, goes on with more   *)
(* of the same; what other tasks may have left is in the initial states.   *)
Start(p) ==
    /\ task.pc = "ended"
    /\ task.n < MaxTasks
    /\ task.n > 0 => (task.ok /\ SameRequest(p, task.p))
    /\ prev' = IF task.n > 0 /\ task.calm
               THEN [known |-> TRUE, check |-> task.p.check,
                     client |-> client_side_dry_run(task.p), changed |-> task.changed]
               ELSE NoAnswer
    /\ task' = [n |-> task.n + 1, p |-> p,
                pc |-> IF p.op = "info" THEN "find" ELSE "retrieve",
                existing |-> NoObj, actual |-> NoObj, instance |-> NoObj, wrote |-> NoObj,
                polled |-> FALSE, method |-> "none", conflict |-> FALSE,
                changed |-> FALSE, ok |-> FALSE, calm |-> Settled(obj)]
    /\ UNCHANGED <<obj, uids>>

----------------------------------------------------------------------------
(* The k8s module: K8sService and perform_action *)

(* perform_action up to the write: what to do with what was found          *)
perform_action(t) ==
    CASE t.p.state = "absent" /\ exists(t.existing) ->
             [t EXCEPT !.pc = "delete", !.method = "delete"]
      [] t.p.state = "absent" /\ ~exists(t.existing) ->
             Conclude([t EXCEPT !.method = "delete"], NoObj)
      [] t.p.state # "absent" /\ t.p.apply ->
             [t EXCEPT !.pc = "apply", !.method = "apply"]
      [] t.p.state # "absent" /\ ~t.p.apply /\ ~exists(t.existing) ->
             IF t.p.state = "patched"
             THEN Ended([t EXCEPT !.method = "skip"], NoObj, FALSE)
             ELSE [t EXCEPT !.pc = "create", !.method = "create"]
      [] OTHER ->
             IF t.p.force
             THEN [t EXCEPT !.pc = "replace", !.method = "replace"]
             ELSE [t EXCEPT !.pc = "update", !.method = "update"]

(* The mixin decides alike, but it answers a delete of nothing without     *)
(* waiting, and it replaces only for state "present".                      *)
MixinAction(t) ==
    CASE t.p.state = "absent" /\ ~exists(t.existing) ->
             Ended([t EXCEPT !.method = "delete"], NoObj, FALSE)
      [] t.p.state = "patched" /\ exists(t.existing) /\ ~t.p.apply ->
             [t EXCEPT !.pc = "update", !.method = "update"]
      [] OTHER -> perform_action(t)

(* retrieve: the first get of the task                                     *)
Retrieve ==
    /\ task.pc = "retrieve"
    /\ task.p.op = "k8s"
    /\ \/ /\ LET t == [task EXCEPT !.existing = obj]
             IN  task' = IF t.p.impl = "service" THEN perform_action(t) ELSE MixinAction(t)
          /\ UNCHANGED <<obj, uids>>
       \/ Refused
    /\ UNCHANGED prev

(* The requests of the service and of the mixin are the same ones.  To     *)
(* check without asking the server both make up the answer themselves.     *)
CreateRequest ==
    \/ /\ client_side_dry_run(task.p)
       /\ task' = Conclude(task, Fresh(task.p.def, NoLast))
       /\ UNCHANGED <<obj, uids>>
    \/ /\ ~client_side_dry_run(task.p) /\ obj = NoObj
       /\ LET o == Fresh(task.p.def, NoLast) IN Write(o, Conclude(task, o))
       /\ uids' = IF task.p.check THEN uids ELSE uids + 1
    \/ ~client_side_dry_run(task.p) /\ Refused

Conflict == ~client_side_dry_run(task.p) /\ obj # NoObj /\ UNCHANGED <<obj, uids>>

(* K8sService.create.  A conflict is no error: it answers with an empty    *)
(* dict, with which perform_action goes on (a wait for it fails, for it    *)
(* has no metadata).                                                       *)
Create ==
    /\ task.pc = "create" /\ task.p.impl = "service"
    /\ \/ CreateRequest
       \/ /\ Conflict
          /\ LET t == [task EXCEPT !.conflict = TRUE]
             IN  task' = IF t.p.wait /\ ~t.p.check THEN Failed(t) ELSE Ended(t, NoObj, TRUE)
    /\ UNCHANGED prev

(* In the mixin a conflict ends the task, unchanged.                       *)
MixinCreate ==
    /\ task.pc = "create" /\ task.p.impl = "mixin"
    /\ \/ CreateRequest
       \/ Conflict /\ task' = Ended([task EXCEPT !.conflict = TRUE], NoObj, FALSE)
    /\ UNCHANGED prev

(* A PUT of the definition, which has no annotation.                       *)
ReplaceRequest ==
    /\ task.pc = "replace"
    /\ \/ /\ client_side_dry_run(task.p)
          /\ task' = Conclude(task, Fresh(task.p.def, NoLast))
          /\ UNCHANGED obj
       \/ /\ ~client_side_dry_run(task.p) /\ obj # NoObj
          /\ LET o == Stored(obj, task.p.def, NoLast) IN Write(o, Conclude(task, o))
       \/ ~client_side_dry_run(task.p) /\ task' = Failed(task) /\ UNCHANGED obj
    /\ UNCHANGED <<prev, uids>>

Replace == task.p.impl = "service" /\ ReplaceRequest

MixinReplace == task.p.impl = "mixin" /\ ReplaceRequest

(* A patch of the fields dom, after which the task is otherwise should the *)
(* request fail or its answer get lost                                     *)
PatchRequest(dom, otherwise) ==
    /\ \/ /\ client_side_dry_run(task.p)
          /\ task' = Conclude(task, [task.existing EXCEPT
                                        !.spec = Patched(@, dom, task.p.def)])
          /\ UNCHANGED obj
       \/ /\ ~client_side_dry_run(task.p) /\ obj # NoObj
          /\ LET o == Stored(obj, Patched(obj.spec, dom, task.p.def), obj.last)
             IN  WriteOr(o, Conclude(task, o), otherwise)
       \/ ~client_side_dry_run(task.p) /\ task' = otherwise /\ UNCHANGED obj
    /\ UNCHANGED <<prev, uids>>

(* The service and the mixin try twice, with a strategic merge patch and   *)
(* then with a merge patch; with fields that are not lists both come to    *)
(* the same.                                                               *)
PatchRequests(dom) ==
    \/ task.pc = "update" /\ PatchRequest(dom, [task EXCEPT !.pc = "merge"])
    \/ task.pc = "merge" /\ PatchRequest(dom, Failed(task))

(* Mutant: fields that the definition does not have are removed.           *)
UpdateWhole == task.p.op = "k8s" /\ task.p.impl = "service" /\ PatchRequests(Fields)

Update == task.p.op = "k8s" /\ task.p.impl = "service" /\ PatchRequests(Has(task.p.def))

MixinPatch == task.p.op = "k8s" /\ task.p.impl = "mixin" /\ PatchRequests(Has(task.p.def))

(* The object goes, or a finalizer keeps it for a while.                   *)
DeleteRequest ==
    /\ task.pc = "delete"
    /\ \/ /\ client_side_dry_run(task.p)
          /\ task' = Conclude(task, NoObj)
          /\ UNCHANGED obj
       \/ /\ ~client_side_dry_run(task.p) /\ obj # NoObj
          /\ \E o \in {NoObj, [obj EXCEPT !.deleting = TRUE]} : Write(o, Conclude(task, o))
       \/ ~client_side_dry_run(task.p) /\ task' = Failed(task) /\ UNCHANGED obj
    /\ UNCHANGED <<prev, uids>>

Delete == task.p.impl = "service" /\ DeleteRequest

MixinDelete == task.p.impl = "mixin" /\ DeleteRequest

(* Mutant: the patch is not merged into what is there.                     *)
DryApplyNothing(existing, actual, def) == IF actual = NoObj THEN Fresh(def, def) ELSE existing

(* What a client-side dry run of apply makes up, from what the task read   *)
(* first and what apply itself reads: the definition when that is nothing, *)
(* the object as it is when there is nothing to do, or a patch, merged     *)
(* into what was read first.                                               *)
DryApply(existing, actual, def) ==
    CASE actual = NoObj ->
             IF existing = NoObj THEN Fresh(def, def)
             ELSE [existing EXCEPT !.spec = Patched(@, Has(def), def), !.last = def]
      [] actual # NoObj /\ NothingToApply(actual, def) ->
             IF existing = NoObj THEN actual
             ELSE [actual EXCEPT !.spec = Patched(existing.spec, Has(@), @)]
      [] OTHER ->
             LET patch == apply_patch(actual, def)
             IN  IF existing = NoObj
                 THEN Fresh(Patched([f \in Fields |-> Unset], patch, def), def)
                 ELSE [existing EXCEPT !.spec = Patched(@, patch, def), !.last = def]

(* apply, first request: apply_object gets the object once more            *)
ApplyGet ==
    /\ task.pc = "apply"
    /\ \/ LET t == [task EXCEPT !.actual = obj, !.pc = "apply_put"]
          IN  task' = IF client_side_dry_run(t.p)
                      THEN Conclude(t, DryApply(t.existing, obj, t.p.def))
                      ELSE t
       \/ task' = Failed(task)
    /\ UNCHANGED <<obj, uids, prev>>

(* apply, second request: create, patch, or only get when there is nothing *)
(* to do.  The patch was computed from what the first request returned.    *)
ApplyPut ==
    /\ task.pc = "apply_put"
    /\ \/ /\ task.actual = NoObj /\ obj = NoObj
          /\ LET o == Fresh(task.p.def, task.p.def) IN Write(o, Conclude(task, o))
          /\ uids' = IF task.p.check THEN uids ELSE uids + 1
       \/ /\ task.actual # NoObj /\ obj # NoObj
          /\ IF NothingToApply(task.actual, task.p.def)
             THEN task' = Conclude(task, obj) /\ UNCHANGED obj
             ELSE LET o == Stored(obj, Patched(obj.spec,
                                               apply_patch(task.actual, task.p.def),
                                               task.p.def), task.p.def)
                  IN  Write(o, Conclude(task, o))
          /\ UNCHANGED uids
       \/ Refused
    /\ UNCHANGED prev

----------------------------------------------------------------------------
(* k8s_scale: get, compare, get again, patch the scale, get, wait          *)

(* An object without a count of replicas cannot be scaled: the task fails, *)
(* as it does when the get is refused.                                     *)
ScaleRead ==
    /\ task.pc = "retrieve"
    /\ task.p.op = "scale"
    /\ \/ /\ obj # NoObj /\ \A f \in Has(task.p.def) : obj.spec[f] # Unset
          /\ task' = IF \E f \in Has(task.p.expect) : obj.spec[f] # task.p.expect[f]
                     THEN Ended([task EXCEPT !.method = "skip"], obj, FALSE)
                     ELSE [task EXCEPT !.pc = "reget", !.method = "update", !.actual = obj]
          /\ UNCHANGED <<obj, uids>>
       \/ Refused
    /\ UNCHANGED prev

(* The second get.  If the first had the wanted count the task ends.       *)
ScaleReget ==
    /\ task.pc = "reget"
    /\ \/ /\ obj # NoObj
          /\ LET t == [task EXCEPT !.existing = obj]
                 i == [obj EXCEPT !.spec = Patched(@, Has(t.p.def), t.p.def)]
             IN  task' = CASE get_delta(task.actual, task.p.def) = {} -> Ended(t, obj, FALSE)
                           [] get_delta(task.actual, task.p.def) # {} /\ t.p.check ->
                                  Ended(t, i, ~diff_objects(obj, i))
                           [] OTHER -> [t EXCEPT !.pc = "update"]
          /\ UNCHANGED <<obj, uids>>
       \/ Refused
    /\ UNCHANGED prev

ScalePatch ==
    /\ task.pc = "update"
    /\ task.p.op = "scale"
    /\ \/ /\ obj # NoObj
          /\ LET o == Stored(obj, Patched(obj.spec, Has(task.p.def), task.p.def), obj.last)
             IN  Write(o, [task EXCEPT !.pc = "after"])
          /\ UNCHANGED uids
       \/ Refused
    /\ UNCHANGED prev

(* The get after the patch, whose answer is the result of a task that does *)
(* not wait                                                                *)
ScaleAfter ==
    /\ task.pc = "after"
    /\ \/ obj # NoObj /\ task' = Conclude(task, obj)
       \/ task' = Failed(task)
    /\ UNCHANGED <<obj, uids, prev>>

----------------------------------------------------------------------------
(* k8s_json_patch: get, patch (whose operations set fields), wait; changed *)
(* compares with the answer to the patch, whatever the wait returns        *)

JsonPatchRead ==
    /\ task.pc = "retrieve"
    /\ task.p.op = "json_patch"
    /\ \/ /\ obj # NoObj
          /\ task' = [task EXCEPT !.existing = obj, !.pc = "update", !.method = "update"]
          /\ UNCHANGED <<obj, uids>>
       \/ Refused
    /\ UNCHANGED prev

JsonPatch ==
    /\ task.p.op = "json_patch" /\ task.pc = "update"
    /\ PatchRequest(Has(task.p.def), Failed(task))

----------------------------------------------------------------------------
(* k8s_info: find waits until the object exists, then until it is ready;   *)
(* it ends without a result when the time is up in the first wait          *)

Find ==
    /\ task.pc = "find"
    /\ \/ task' = IF obj = NoObj THEN task
                  ELSE IF task.p.wait THEN [task EXCEPT !.pc = "wait"]
                  ELSE Ended(task, obj, FALSE)
       \/ obj = NoObj /\ task' = Ended([task EXCEPT !.method = "skip"], NoObj, FALSE)
       \/ task' = Failed(task)
    /\ UNCHANGED <<obj, uids, prev>>

----------------------------------------------------------------------------
(* Waiting *)

(* The end of a wait that saw what it waited for.  json_patch and info do  *)
(* not compare with it.                                                    *)
Waited(t, o) ==
    Ended(t, o, CASE t.p.op = "info" -> FALSE
                  [] t.p.op = "json_patch" -> ~diff_objects(t.existing, t.instance)
                  [] OTHER -> Changed(t, o))

(* One turn of Waiter.wait whose get is answered.  The predicate of a      *)
(* Deployment cannot take a missing object: the module fails.              *)
WaitGet ==
    /\ task.pc = "wait"
    /\ task.p.impl = "service"
    /\ task' = CASE task.p.state = "absent" ->
                        IF exists(obj) THEN [task EXCEPT !.polled = TRUE] ELSE Waited(task, NoObj)
                 [] task.p.state # "absent" /\ obj = NoObj -> Failed(task)
                 [] OTHER ->
                        IF deployment_ready(obj) THEN Waited(task, obj)
                        ELSE [task EXCEPT !.polled = TRUE]
    /\ UNCHANGED <<obj, uids, prev>>

(* One turn whose get cannot be sent (HTTPError): the response is the one  *)
(* of the turn before, and none satisfies resource_absent.  The loop ends, *)
(* but the exception is raised after it.                                   *)
WaitError ==
    /\ task.pc = "wait"
    /\ task.p.impl = "service"
    /\ task' = IF task.p.state = "absent" /\ ~task.polled THEN Failed(task) ELSE task
    /\ UNCHANGED <<obj, uids, prev>>

(* The loop of the mixin: it looks again after any exception, a missing    *)
(* object included, and a missing object is what a delete waits for.       *)
MixinWaitGet ==
    /\ task.pc = "wait"
    /\ task.p.impl = "mixin"
    /\ task' = CASE task.p.state = "absent" ->
                        IF exists(obj) THEN task ELSE Waited(task, NoObj)
                 [] OTHER ->
                        IF exists(obj) /\ deployment_ready(obj)
                        THEN Waited(task, obj) ELSE task
    /\ UNCHANGED <<obj, uids, prev>>

(* The time is up: ResourceTimeout, "timed out".                           *)
WaitTimeout ==
    /\ task.pc = "wait"
    /\ task' = Failed(task)
    /\ UNCHANGED <<obj, uids, prev>>

TaskStep ==
    \/ Retrieve \/ Create \/ Replace \/ Update \/ Delete \/ ApplyGet \/ ApplyPut
    \/ MixinCreate \/ MixinReplace \/ MixinPatch \/ MixinDelete
    \/ ScaleRead \/ ScaleReget \/ ScalePatch \/ ScaleAfter
    \/ JsonPatchRead \/ JsonPatch \/ Find
    \/ WaitGet \/ WaitError \/ MixinWaitGet \/ WaitTimeout

----------------------------------------------------------------------------
(* The others.  What they do between two tasks they may as well do once    *)
(* the next one has begun: no request of it has been answered yet.         *)

(* Another writer sets or removes a field.                                 *)
OtherWrite ==
    /\ others < MaxOthers /\ task.pc # "ended"
    /\ obj # NoObj
    /\ \E f \in Fields, v \in Vals \cup {Unset} :
           /\ obj.spec[f] # v
           /\ obj' = Stored(obj, [obj.spec EXCEPT ![f] = v], obj.last)
    /\ others' = others + 1
    /\ task' = [task EXCEPT !.calm = FALSE]
    /\ UNCHANGED <<uids, prev>>

OtherCreate ==
    /\ others < MaxOthers /\ task.pc # "ended"
    /\ obj = NoObj
    /\ \E s \in Spec_ : obj' = Fresh(s, NoLast)
    /\ uids' = uids + 1
    /\ others' = others + 1
    /\ task' = [task EXCEPT !.calm = FALSE]
    /\ UNCHANGED prev

OtherDelete ==
    /\ others < MaxOthers /\ task.pc # "ended"
    /\ obj # NoObj
    /\ obj' = NoObj
    /\ others' = others + 1
    /\ task' = [task EXCEPT !.calm = FALSE]
    /\ UNCHANGED <<uids, prev>>

(* The controller of the object observes a generation (its counts are then *)
(* the ones of that generation) and brings the replicas up.  Until it does *)
(* the counts are the ones of an older generation.                         *)
Observe ==
    /\ obj # NoObj /\ obj.observed # obj.gen
    /\ obj' = [obj EXCEPT !.observed = obj.gen, !.ready = FALSE]
    /\ UNCHANGED <<uids, others, task, prev>>

BringUp ==
    /\ obj # NoObj /\ obj.observed = obj.gen /\ ~obj.ready
    /\ obj' = [obj EXCEPT !.ready = TRUE]
    /\ UNCHANGED <<uids, others, task, prev>>

(* A pod goes down.                                                        *)
GoDown ==
    /\ others < MaxOthers /\ task.pc # "ended"
    /\ obj # NoObj /\ obj.ready
    /\ obj' = [obj EXCEPT !.ready = FALSE]
    /\ others' = others + 1
    /\ task' = [task EXCEPT !.calm = FALSE]
    /\ UNCHANGED <<uids, prev>>

(* The finalizers of a deleted object are gone.                            *)
Finalized ==
    /\ obj # NoObj /\ obj.deleting
    /\ obj' = NoObj
    /\ UNCHANGED <<uids, others, task, prev>>

Environment ==
    OtherWrite \/ OtherCreate \/ OtherDelete \/ Observe \/ BringUp \/ GoDown \/ Finalized

----------------------------------------------------------------------------

Matching(o, p) == IF o = NoObj THEN {} ELSE {f \in Fields : o.spec[f] = p.def[f]}

(* The history: the fields that match now, and the ones that did before.   *)
Track ==
    met' = Matching(obj', task'.p) \cup (IF task'.n = task.n THEN met ELSE {})

NoTask == [n |-> 0, p |-> CHOOSE p \in Params : TRUE, pc |-> "ended", existing |-> NoObj,
           actual |-> NoObj, instance |-> NoObj, wrote |-> NoObj, polled |-> FALSE,
           method |-> "none", conflict |-> FALSE, changed |-> FALSE, ok |-> FALSE,
           calm |-> FALSE]

Init ==
    /\ uids = 1
    /\ obj \in {NoObj} \cup {[spec |-> f[1], last |-> f[2], gen |-> 1, observed |-> 1,
                             ready |-> TRUE, deleting |-> FALSE, uid |-> 1] : f \in Found}
    /\ others = 0
    /\ task = NoTask
    /\ prev = NoAnswer
    /\ met = {}

Next ==
    /\ \/ (\E p \in Params : Start(p)) /\ UNCHANGED others
       \/ TaskStep /\ UNCHANGED others
       \/ Environment
    /\ Track

Spec == Init /\ [][Next]_vars

----------------------------------------------------------------------------
(* Properties *)

TypeOK ==
    /\ obj \in Object \cup {NoObj}
    /\ uids \in Nat
    /\ others \in 0..MaxOthers
    /\ task \in Task /\ task.n <= MaxTasks
    /\ task.pc = "wait" => (task.p.wait /\ (task.p.op = "info" \/ ~task.p.check))
    /\ prev \in [known : BOOLEAN, check : BOOLEAN, client : BOOLEAN, changed : BOOLEAN]
    /\ met \subseteq Fields

(* A task that ended well did what it was asked to, whoever else wrote     *)
(* between its requests: every field it is to set (or, for apply, to       *)
(* remove) had that value at some instant of the task, and the object it   *)
(* waited to be deleted is no more, though another may have its name.  A   *)
(* create that met a conflict is left out: it wrote nothing, and reports a *)
(* change although the comment beside it says "unchanged".                 *)
Converged ==
    (task.pc = "ended" /\ task.ok /\ ~task.p.check /\ ~task.conflict)
        => CASE task.method \in {"create", "replace", "update", "apply"} ->
                    Wanted(task) \subseteq met
             [] task.method = "delete" /\ task.p.wait ->
                    ~SameObject(obj, task.existing)
             [] OTHER -> TRUE

(* A wait that succeeded was not taken in by the status of an older        *)
(* generation: the controller had observed the task's own write.           *)
ReadyIsNotStale ==
    (task.pc = "ended" /\ task.ok /\ task.p.wait /\ task.p.state # "absent"
        /\ task.wrote # NoObj /\ task.instance # NoObj
        /\ task.instance.uid = task.wrote.uid)
    => (task.instance.observed >= task.wrote.gen /\ task.instance.ready)

(* The task ended well, and so did the same task just before it; nobody    *)
(* else touched the object since that one began, and it was settled when   *)
(* either began.  A replace that only the client checks is left out: it    *)
(* compares with the bare definition and always reports a change.          *)
Repeats ==
    /\ task.pc = "ended" /\ task.ok /\ task.calm /\ prev.known
    /\ ~(task.p.force /\ (client_side_dry_run(task.p) \/ prev.client))

(* A check says what the run will say, with either implementation and with *)
(* either kind of dry run (a replace that only the client checks aside).   *)
CheckPredicts == (Repeats /\ prev.check) => task.changed = prev.changed

(* What was done once is not reported as a change again.                   *)
Idempotent == (Repeats /\ ~prev.check) => ~task.changed

(* A task changes no field but those of its definition and those that were *)
(* applied before, as it read them: what others set in the meantime stays. *)
ForeignFieldsStay ==
    [][\A f \in Fields :
           (others' = others /\ obj # NoObj /\ obj' # NoObj /\ obj'.spec[f] # obj.spec[f])
               => f \in Wanted(task)]_vars
=============================================================================
