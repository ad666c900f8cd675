--------------------------- MODULE K8sObjectProofs ---------------------------
(***************************************************************************)
(* Converged, ReadyIsNotStale, CheckPredicts, Idempotent and               *)
(* ForeignFieldsStay for any fields, values and tasks, and for any changes *)
(* that others make between the requests of a task.                        *)
(*                                                                         *)
(* A step of a task is taken apart into what the server does (the object   *)
(* moves on, and so does the history) and what the task makes of it.  The  *)
(* invariant is therefore stated of a task t, an object o, the number u of *)
(* objects created so far and the fields m that have matched so far.       *)
(*                                                                         *)
(* CheckPredicts and Idempotent are about two tasks in a row.  For them a  *)
(* second invariant, AnswerInv, says of a task that has the object to      *)
(* itself that it will answer what Predicted says of the object it began   *)
(* with, and that nothing is predicted any more once it is done.           *)
(***************************************************************************)
EXTENDS K8sObject, TLAPS

Maybe == Object \cup {NoObj}

Writes == {"create", "replace", "update", "apply"}

(* The request that comes next is the one of the chosen method; only a     *)
(* delete is for state absent; nothing was written before that request,    *)
(* and nothing at all in a check.                                          *)
Planned(t) ==
    /\ t.pc \in {"retrieve", "find"} => t.method = "none"
    /\ t.pc \in {"create", "replace", "delete", "apply"} => t.method = t.pc
    /\ t.pc = "apply_put" => t.method = "apply"
    /\ t.pc \in {"reget", "update", "merge", "after"} => t.method = "update"
    /\ t.method = "delete" => t.p.state = "absent"
    /\ t.pc \in {"update", "merge"} => t.existing # NoObj
    /\ t.pc \notin {"after", "wait", "ended"} \/ t.p.check => t.wrote = NoObj
    /\ t.pc = "wait" => t.p.wait
    /\ t.pc = "wait" /\ t.method # "none" => ~t.p.check

(* A uid is given once, and an object's generation only grows.             *)
Versioned(t, o, u) ==
    /\ o # NoObj => o.uid <= u
    /\ t.existing # NoObj => t.existing.uid <= u
    /\ t.wrote # NoObj =>
           /\ t.wrote.uid <= u
           /\ o # NoObj /\ o.uid = t.wrote.uid => t.wrote.gen <= o.gen

(* What was written has matched, and so has what the first get of apply or *)
(* of scale found to need no change.                                       *)
Recorded(t, m) ==
    /\ t.pc \in {"after", "wait"} /\ ~t.p.check /\ t.method \in Writes => Wanted(t) \subseteq m
    /\ t.pc = "reget" => t.actual # NoObj
    /\ t.pc \in {"apply_put", "reget"} => Matching(t.actual, t.p) \subseteq m

(* Converged and ReadyIsNotStale, of t, o and m                            *)
ConvergedAt(t, o, m) ==
    t.pc = "ended" /\ t.ok /\ ~t.p.check /\ ~t.conflict =>
        /\ t.method \in Writes => Wanted(t) \subseteq m
        /\ t.method = "delete" /\ t.p.wait => ~SameObject(o, t.existing)

ReadyAt(t) ==
    (t.pc = "ended" /\ t.ok /\ t.p.wait /\ t.p.state # "absent"
        /\ t.wrote # NoObj /\ t.instance # NoObj /\ t.instance.uid = t.wrote.uid)
    => t.instance.observed >= t.wrote.gen /\ t.instance.ready

Good(t, o, u, m) ==
    /\ t \in Task /\ o \in Maybe /\ u \in Nat /\ m \in SUBSET Fields
    /\ Planned(t)
    /\ Versioned(t, o, u)
    /\ Recorded(t, m)
    /\ ConvergedAt(t, o, m)
    /\ ReadyAt(t)

ObjectInv ==
    /\ Good(task, obj, uids, met)
    /\ others \in 0..MaxOthers
    /\ task.n <= MaxTasks
    /\ prev \in [known : BOOLEAN, check : BOOLEAN, client : BOOLEAN, changed : BOOLEAN]

----------------------------------------------------------------------------
(* Objects *)

(* The fields of an object                                                 *)
LEMMA ObjectFacts ==
  ASSUME NEW o \in Object
  PROVE  /\ o # NoObj /\ o.uid \in Nat /\ o.gen \in Nat /\ o.observed \in Nat
         /\ o.spec \in Spec_ /\ o.last \in Spec_ \cup {NoLast} /\ o.ready \in BOOLEAN
  BY ParamsAssumption DEF Object

(* What the server stores is the same object in the same or a newer        *)
(* generation.                                                             *)
LEMMA StoredFacts ==
  ASSUME NEW o \in Object, NEW spec \in Spec_, NEW last \in Spec_ \cup {NoLast}
  PROVE  /\ Stored(o, spec, last) \in Object
         /\ Stored(o, spec, last).spec = spec
         /\ Stored(o, spec, last).uid = o.uid /\ Stored(o, spec, last).gen >= o.gen
  <1> DEFINE g == IF spec = o.spec THEN o.gen ELSE o.gen + 1
  <1>1. g \in Nat /\ g >= o.gen
    BY DEF Object
  <1>2. Stored(o, spec, last) = [o EXCEPT !.spec = spec, !.last = last, !.gen = g]
    BY DEF Stored
  <1> HIDE DEF g
  <1> QED
    BY <1>1, <1>2 DEF Object

(* A new object has a new uid.                                             *)
LEMMA FreshFacts ==
  ASSUME uids \in Nat, NEW spec \in Spec_, NEW last \in Spec_ \cup {NoLast}
  PROVE  /\ Fresh(spec, last) \in Object
         /\ Fresh(spec, last).spec = spec /\ Fresh(spec, last).uid = uids + 1
  BY DEF Fresh, Object

(* A patch gives the fields it names the values of the definition.         *)
LEMMA PatchedFacts ==
  ASSUME NEW spec \in Spec_, NEW dom \in SUBSET Fields, NEW patch \in Spec_
  PROVE  /\ Patched(spec, dom, patch) \in Spec_
         /\ \A f \in dom : Patched(spec, dom, patch)[f] = patch[f]
         /\ \A f \in Fields \ dom : Patched(spec, dom, patch)[f] = spec[f]
  BY DEF Patched, Spec_

(* The parameters of a task                                                *)
LEMMA ParamFacts ==
  ASSUME NEW p \in Param
  PROVE  /\ p.def \in Spec_ /\ p.expect \in Spec_ /\ Has(p.def) \in SUBSET Fields
         /\ p.check \in BOOLEAN /\ p.wait \in BOOLEAN
  BY DEF Param, Has

----------------------------------------------------------------------------
(* Tasks *)

(* Two tasks with the same parameters, method and reads                    *)
SameWork(t, s) ==
    /\ t.n = s.n /\ t.p = s.p /\ t.existing = s.existing /\ t.actual = s.actual
    /\ t.method = s.method /\ t.conflict = s.conflict /\ t.wrote = s.wrote

(* They want the same fields.                                              *)
LEMMA SameWanted == ASSUME NEW t, NEW s, SameWork(t, s) PROVE Wanted(t) = Wanted(s)
  BY DEF SameWork, Wanted

(* A task that has failed, and one that has ended well                     *)
LEMMA FailedFacts ==
  ASSUME NEW t \in Task
  PROVE  /\ Failed(t) \in Task /\ SameWork(Failed(t), t)
         /\ Failed(t).pc = "ended" /\ Failed(t).ok = FALSE
  BY DEF Failed, Task, SameWork

(* The same for the other end                                              *)
LEMMA EndedFacts ==
  ASSUME NEW t \in Task, NEW i \in Maybe, NEW c \in BOOLEAN
  PROVE  /\ Ended(t, i, c) \in Task /\ SameWork(Ended(t, i, c), t)
         /\ Ended(t, i, c).pc = "ended" /\ Ended(t, i, c).ok = TRUE
         /\ Ended(t, i, c).instance = i
  BY DEF Ended, Task, SameWork, Maybe

(* changed is a Boolean.                                                   *)
LEMMA ChangedFacts == ASSUME NEW t, NEW i PROVE Changed(t, i) \in BOOLEAN
  <1>1. exists(t.existing) \in BOOLEAN /\ diff_objects(t.existing, i) \in BOOLEAN
    BY DEF exists, diff_objects
  <1> QED
    BY <1>1 DEF Changed

(* A task that waits, with another result                                  *)
LEMMA WaitingFacts ==
  ASSUME NEW t \in Task, NEW i \in Maybe, NEW w, w = [t EXCEPT !.pc = "wait", !.instance = i]
  PROVE  w \in Task /\ SameWork(w, t) /\ w.pc = "wait"
  BY DEF Task, SameWork, Maybe

(* A task that goes on with another request                                *)
LEMMA RequestFacts ==
  ASSUME NEW t \in Task,
         NEW x \in {"delete", "apply", "create", "replace", "update", "merge", "reget",
                "apply_put"},
         NEW s, s = [t EXCEPT !.pc = x]
  PROVE  /\ s \in Task /\ s.pc = x /\ s.method = t.method /\ s.n = t.n /\ s.p = t.p
         /\ s.existing = t.existing /\ s.actual = t.actual /\ s.wrote = t.wrote
  BY DEF Task

(* A task that has chosen its method                                       *)
LEMMA ChosenFacts ==
  ASSUME NEW t \in Task,
         NEW y \in {"none", "delete", "apply", "create", "replace", "update", "skip"},
         NEW s, s = [t EXCEPT !.method = y]
  PROVE  /\ s \in Task /\ s.pc = t.pc /\ s.method = y /\ s.n = t.n /\ s.p = t.p
         /\ s.existing = t.existing /\ s.actual = t.actual /\ s.wrote = t.wrote
         /\ s.conflict = t.conflict
  BY DEF Task

(* A task that has read the object                                         *)
LEMMA ReadFacts ==
  ASSUME NEW t \in Task, NEW o \in Maybe, NEW s, s = [t EXCEPT !.existing = o]
  PROVE  /\ s \in Task /\ s.existing = o
         /\ s.pc = t.pc /\ s.method = t.method /\ s.n = t.n /\ s.p = t.p
         /\ s.actual = t.actual /\ s.wrote = t.wrote /\ s.conflict = t.conflict
  BY DEF Task, Maybe

(* The types of the fields of a task                                       *)
LEMMA TaskFacts ==
  ASSUME NEW t \in Task
  PROVE  /\ t.n \in Nat /\ t.p \in Param /\ t.existing \in Maybe /\ t.actual \in Maybe
         /\ t.instance \in Maybe /\ t.wrote \in Maybe
         /\ t.ok \in BOOLEAN /\ t.conflict \in BOOLEAN
  BY DEF Task, Maybe

----------------------------------------------------------------------------
(* What the server does *)

(* From the object o, with u objects created, to o2 and u2: the same       *)
(* object in the same or a newer generation, a new one, or none.           *)
Moves(o, u, o2, u2) ==
    /\ o2 \in Maybe /\ u2 \in Nat /\ u <= u2
    /\ o2 # NoObj => /\ o2.uid <= u2
                     /\ \/ o # NoObj /\ o2.uid = o.uid /\ o.gen <= o2.gen
                        \/ o2.uid > u

(* The task need not know: only newer generations and more matching fields *)
(* come of it.                                                             *)
LEMMA ServerMoves ==
  ASSUME NEW t, NEW o, NEW u, NEW m, NEW o2, NEW u2, NEW m2,
         Good(t, o, u, m), Moves(o, u, o2, u2), m2 \in SUBSET Fields, m \subseteq m2
  PROVE  Good(t, o2, u2, m2)
  <1>1. /\ t \in Task /\ u \in Nat /\ Planned(t) /\ Recorded(t, m) /\ ConvergedAt(t, o, m)
        /\ ReadyAt(t) /\ o2 \in Maybe /\ u2 \in Nat
    BY DEF Good, Moves
  <1>2. Versioned(t, o2, u2)
    <2>1. /\ t.wrote # NoObj => t.wrote.uid \in Nat /\ t.wrote.gen \in Nat
          /\ t.existing # NoObj => t.existing.uid \in Nat
          /\ o # NoObj => o.uid \in Nat /\ o.gen \in Nat
          /\ o2 # NoObj => o2.uid \in Nat /\ o2.gen \in Nat
      BY <1>1, ObjectFacts, TaskFacts DEF Good, Maybe
    <2> QED
      BY <1>1, <2>1 DEF Good, Moves, Versioned
  <1>3. Recorded(t, m2)
    BY <1>1 DEF Recorded
  <1>4. SameObject(o2, t.existing) => SameObject(o, t.existing)
    <2>1. /\ t.existing # NoObj => t.existing.uid \in Nat /\ t.existing.uid <= u
          /\ o2 # NoObj => o2.uid \in Nat
      BY <1>1, ObjectFacts, TaskFacts DEF Good, Maybe, Versioned
    <2> QED
      BY <1>1, <2>1 DEF Moves, SameObject
  <1>5. ConvergedAt(t, o2, m2)
    BY <1>1, <1>4 DEF ConvergedAt
  <1> QED
    BY <1>1, <1>2, <1>3, <1>5 DEF Good

(* The object does not move.                                               *)
LEMMA ServerStays ==
  ASSUME NEW t, NEW o, NEW u, NEW m, Good(t, o, u, m)
  PROVE  Moves(o, u, o, u)
  <1>1. o # NoObj => o.uid \in Nat /\ o.gen \in Nat
    BY ObjectFacts DEF Good, Maybe
  <1> QED
    BY <1>1 DEF Good, Moves, Versioned

----------------------------------------------------------------------------
(* What the task makes of it *)

(* s is the task t, some steps later.                                      *)
Continues(s, t, o, u, m) == Good(s, o, u, m) /\ s.n = t.n /\ s.p = t.p

(* It fails.                                                               *)
LEMMA TaskFails ==
  ASSUME NEW t, NEW o, NEW u, NEW m, Good(t, o, u, m)
  PROVE  Continues(Failed(t), t, o, u, m)
  <1>1. /\ Failed(t) \in Task /\ SameWork(Failed(t), t)
        /\ Failed(t).pc = "ended" /\ Failed(t).ok = FALSE
    BY FailedFacts DEF Good
  <1> HIDE DEF Failed
  <1>2. Planned(Failed(t)) /\ Versioned(Failed(t), o, u)
    BY <1>1 DEF Good, Planned, Versioned, SameWork
  <1>3. Recorded(Failed(t), m) /\ ConvergedAt(Failed(t), o, m) /\ ReadyAt(Failed(t))
    BY <1>1 DEF Recorded, ConvergedAt, ReadyAt
  <1> QED
    BY <1>1, <1>2, <1>3 DEF Good, Continues, SameWork

(* It ends well, with the result i.                                        *)
LEMMA TaskEndsWell ==
  ASSUME NEW t \in Task, NEW o \in Maybe, NEW u \in Nat, NEW m \in SUBSET Fields,
         NEW i \in Maybe, NEW c \in BOOLEAN, Versioned(t, o, u),
         t.method = "delete" => t.p.state = "absent",
         t.p.check => t.wrote = NoObj,
         ~t.p.check /\ ~t.conflict /\ t.method \in Writes => Wanted(t) \subseteq m,
         ~t.p.check /\ t.method = "delete" /\ t.p.wait => ~SameObject(o, t.existing),
         t.wrote # NoObj /\ t.p.wait /\ t.p.state # "absent" /\ i # NoObj /\ i.uid = t.wrote.uid
             => i.observed >= t.wrote.gen /\ i.ready
  PROVE  Continues(Ended(t, i, c), t, o, u, m)
  <1> DEFINE e == Ended(t, i, c)
  <1>1. /\ e \in Task /\ SameWork(e, t) /\ e.pc = "ended" /\ e.ok = TRUE /\ e.instance = i
    BY EndedFacts, Zenon
  <1> HIDE DEF e
  <1>2. Wanted(e) = Wanted(t)
    BY <1>1, SameWanted
  <1>3. Planned(e) /\ Versioned(e, o, u)
    <2>1. Planned(e)
      BY <1>1 DEF Planned, SameWork
    <2>2. Versioned(e, o, u)
      BY <1>1 DEF Versioned, SameWork
    <2> QED
      BY <2>1, <2>2
  <1>4. Recorded(e, m) /\ ConvergedAt(e, o, m) /\ ReadyAt(e)
    <2>1. Recorded(e, m)
      BY <1>1, <1>2 DEF Recorded, SameWork
    <2>2. ConvergedAt(e, o, m) /\ ReadyAt(e)
      BY <1>1, <1>2 DEF ConvergedAt, ReadyAt, SameWork
    <2> QED
      BY <2>1, <2>2
  <1>5. Continues(e, t, o, u, m)
    BY <1>1, <1>3, <1>4 DEF Good, Continues, SameWork
  <1> QED
    BY <1>5 DEF e

(* The request is done: it ends, or waits if it is to.                     *)
LEMMA TaskConcludes ==
  ASSUME NEW t \in Task, NEW o \in Maybe, NEW u \in Nat, NEW m \in SUBSET Fields,
         NEW i \in Maybe, Versioned(t, o, u), t.method # "none",
         t.method = "delete" => t.p.state = "absent",
         t.p.check => t.wrote = NoObj,
         ~t.p.check /\ t.method \in Writes => Wanted(t) \subseteq m
  PROVE  Continues(Conclude(t, i), t, o, u, m)
  <1>1. CASE t.p.wait /\ ~t.p.check
    <2> DEFINE w == [t EXCEPT !.pc = "wait", !.instance = i]
    <2>1. w \in Task /\ SameWork(w, t) /\ w.pc = "wait" /\ Conclude(t, i) = w
      BY <1>1, WaitingFacts DEF Conclude
    <2> HIDE DEF w
    <2>2. Wanted(w) = Wanted(t)
      BY <2>1, SameWanted
    <2>3. Planned(w) /\ Versioned(w, o, u)
      BY <1>1, <2>1 DEF Planned, Versioned, SameWork
    <2>4. Recorded(w, m) /\ ConvergedAt(w, o, m) /\ ReadyAt(w)
      BY <2>1, <2>2 DEF Recorded, ConvergedAt, ReadyAt, SameWork
    <2> QED
      BY <2>1, <2>3, <2>4 DEF Good, Continues, SameWork
  <1>2. CASE ~(t.p.wait /\ ~t.p.check)
    <2>1. Conclude(t, i) = Ended(t, i, Changed(t, i)) /\ Changed(t, i) \in BOOLEAN
      BY <1>2, ChangedFacts DEF Conclude
    <2> QED
      BY <1>2, <2>1, TaskEndsWell
  <1> QED
    BY <1>1, <1>2

(* It has waited long enough, having seen i.                               *)
LEMMA TaskWaited ==
  ASSUME NEW t, NEW o, NEW u, NEW m, Good(t, o, u, m), t.pc = "wait",
         \/ t.p.state = "absent" /\ o = NoObj
         \/ t.p.state # "absent" /\ o # NoObj /\ deployment_ready(o)
  PROVE  Continues(Waited(t, o), t, o, u, m)
  <1>1. /\ t \in Task /\ o \in Maybe /\ u \in Nat /\ m \in SUBSET Fields /\ Planned(t)
        /\ Versioned(t, o, u) /\ Recorded(t, m)
    BY DEF Good
  <1>2. PICK c \in BOOLEAN : Waited(t, o) = Ended(t, o, c)
    <2>1. Changed(t, o) \in BOOLEAN /\ (~diff_objects(t.existing, t.instance)) \in BOOLEAN
      BY ChangedFacts
    <2> QED
      BY <2>1 DEF Waited
  <1>3. t.wrote # NoObj /\ t.p.state # "absent" /\ o.uid = t.wrote.uid
            => o.observed >= t.wrote.gen /\ o.ready
    <2>1. t.wrote # NoObj => t.wrote.gen \in Nat
      BY <1>1, ObjectFacts, TaskFacts DEF Maybe
    <2>2. o # NoObj => o.gen \in Nat
      BY <1>1, ObjectFacts DEF Maybe
    <2> QED
      BY <1>1, <2>1, <2>2 DEF Versioned, deployment_ready
  <1>4. /\ t.method = "delete" => t.p.state = "absent"
        /\ t.p.check => t.wrote = NoObj
        /\ ~t.p.check /\ t.method \in Writes => Wanted(t) \subseteq m
        /\ t.method = "delete" => ~SameObject(o, t.existing)
    BY <1>1 DEF Planned, Recorded, SameObject
  <1> QED
    BY <1>1, <1>2, <1>3, <1>4, TaskEndsWell

(* It chooses its method by what it has read.                              *)
LEMMA TaskChooses ==
  ASSUME NEW t, NEW o, NEW u, NEW m, Good(t, o, u, m), t.pc = "retrieve"
  PROVE  LET s == [t EXCEPT !.existing = o]
         IN  /\ Continues(perform_action(s), t, o, u, m)
             /\ Continues(MixinAction(s), t, o, u, m)
  <1> DEFINE s == [t EXCEPT !.existing = o]
  <1>1. /\ t \in Task /\ o \in Maybe /\ u \in Nat /\ m \in SUBSET Fields
        /\ Versioned(t, o, u) /\ t.wrote = NoObj
    BY DEF Good, Planned
  <1>2. /\ s \in Task /\ s.existing = o /\ s.pc = "retrieve" /\ s.n = t.n /\ s.p = t.p
        /\ s.wrote = NoObj
    BY <1>1, ReadFacts
  <1> HIDE DEF s
  <1>3. ASSUME NEW x \in {"delete", "apply", "create", "replace", "update"},
               x = "delete" => s.p.state = "absent", x = "update" => o # NoObj
        PROVE  Continues([s EXCEPT !.pc = x, !.method = x], t, o, u, m)
    <2> DEFINE r == [s EXCEPT !.pc = x, !.method = x]
    <2>1. /\ r \in Task /\ r.pc = x /\ r.method = x /\ r.n = t.n /\ r.p = t.p
          /\ r.existing = o /\ r.wrote = NoObj
      <3> DEFINE q == [s EXCEPT !.pc = x]
      <3>1. x \in {"none", "delete", "apply", "create", "replace", "update", "skip"}
        OBVIOUS
      <3>2. x \in {"delete", "apply", "create", "replace", "update", "reget", "apply_put"}
        OBVIOUS
      <3>3. q \in Task /\ q.pc = x /\ q.n = t.n /\ q.p = t.p /\ q.existing = o /\ q.wrote = NoObj
        BY <1>2, <3>2, RequestFacts
      <3>4. r = [q EXCEPT !.method = x]
        OBVIOUS
      <3> HIDE DEF q, r
      <3> QED
        BY <3>1, <3>3, <3>4, ChosenFacts
    <2> HIDE DEF r
    <2>2. Planned(r) /\ Versioned(r, o, u)
      BY <1>1, <1>2, <1>3, <2>1 DEF Planned, Versioned
    <2>3. Recorded(r, m) /\ ConvergedAt(r, o, m) /\ ReadyAt(r)
      BY <2>1 DEF Recorded, ConvergedAt, ReadyAt
    <2>4. Continues(r, t, o, u, m)
      BY <1>1, <2>1, <2>2, <2>3 DEF Good, Continues
    <2> QED
      BY <2>4 DEF r
  <1>4. ASSUME NEW y \in {"delete", "skip"}, y = "delete" => s.p.state = "absent",
               o = NoObj
        PROVE  /\ Continues(Ended([s EXCEPT !.method = y], NoObj, FALSE), t, o, u, m)
               /\ Continues(Conclude([s EXCEPT !.method = y], NoObj), t, o, u, m)
    <2> DEFINE r == [s EXCEPT !.method = y]
    <2>1. /\ r \in Task /\ r.method = y /\ r.n = t.n /\ r.p = t.p /\ r.wrote = NoObj
          /\ r.existing = o
      <3>1. y \in {"none", "delete", "apply", "create", "replace", "update", "skip"}
        OBVIOUS
      <3>2. r = [s EXCEPT !.method = y]
        OBVIOUS
      <3> HIDE DEF r
      <3> QED
        BY <1>2, <3>1, <3>2, ChosenFacts
    <2> HIDE DEF r
    <2>2. /\ Versioned(r, o, u) /\ NoObj \in Maybe /\ r.method \notin Writes /\ r.method # "none"
          /\ ~SameObject(o, r.existing)
      BY <1>1, <1>4, <2>1 DEF Versioned, Maybe, Writes, SameObject
    <2>3. Continues(Ended(r, NoObj, FALSE), r, o, u, m)
      BY <1>1, <1>2, <1>4, <2>1, <2>2, TaskEndsWell
    <2>4. Continues(Conclude(r, NoObj), r, o, u, m)
      BY <1>1, <1>2, <1>4, <2>1, <2>2, TaskConcludes
    <2>5. /\ Continues(Ended(r, NoObj, FALSE), t, o, u, m)
          /\ Continues(Conclude(r, NoObj), t, o, u, m)
      BY <2>1, <2>3, <2>4 DEF Continues
    <2> QED
      BY <2>5 DEF r
  <1>5. Continues(perform_action(s), t, o, u, m)
    BY <1>2, <1>3, <1>4 DEF perform_action, exists
  <1>6. Continues(MixinAction(s), t, o, u, m)
    BY <1>2, <1>3, <1>4, <1>5 DEF MixinAction, exists
  <1> QED
    BY <1>5, <1>6 DEF s

----------------------------------------------------------------------------
(* A step of the running task *)

(* Whatever the history is afterwards, as long as it has grown and holds   *)
(* what matches now.                                                       *)
Follows ==
    /\ task'.n = task.n /\ task'.p = task.p /\ obj' \in Maybe
    /\ \A m \in SUBSET Fields :
          met \subseteq m /\ Matching(obj', task.p) \subseteq m => Good(task', obj', uids', m)

(* Track is such a history.                                                *)
LEMMA FollowsTrack ==
  ASSUME ObjectInv, Follows, Track, others' \in 0..MaxOthers, UNCHANGED prev
  PROVE  ObjectInv'
  <1>1. /\ task'.n = task.n /\ task'.p = task.p /\ met \in SUBSET Fields
    BY DEF ObjectInv, Good, Follows
  <1>2. Matching(obj', task.p) \in SUBSET Fields
    BY DEF Matching
  <1>3. met' = Matching(obj', task.p) \cup met
    BY <1>1 DEF Track
  <1>4. Good(task', obj', uids', met')
    BY <1>1, <1>2, <1>3 DEF Follows
  <1> QED
    BY <1>1, <1>4 DEF ObjectInv

(* A step that only reads                                                  *)
LEMMA ReadFollows ==
  ASSUME ObjectInv, UNCHANGED <<obj, uids>>,
         \A m : Good(task, obj, uids, m) /\ Matching(obj, task.p) \subseteq m
                  => Continues(task', task, obj, uids, m)
  PROVE  Follows
  <1>1. ASSUME NEW m \in SUBSET Fields, met \subseteq m, Matching(obj, task.p) \subseteq m
        PROVE  Continues(task', task, obj, uids, m)
    <2>1. Good(task, obj, uids, m)
      BY <1>1, ServerMoves, ServerStays DEF ObjectInv
    <2> QED
      BY <1>1, <2>1
  <1>2. met \cup Matching(obj, task.p) \in SUBSET Fields
    BY DEF ObjectInv, Good, Matching
  <1>3. task'.n = task.n /\ task'.p = task.p
    BY <1>1, <1>2 DEF Continues
  <1> QED
    BY <1>1, <1>3 DEF Follows, Continues, ObjectInv, Good

(* A step that fails                                                       *)
LEMMA FailFollows ==
  ASSUME ObjectInv, task' = Failed(task), UNCHANGED <<obj, uids>>
  PROVE  Follows
  BY ReadFollows, TaskFails

(* A task that takes note of its write                                     *)
LEMMA WroteFacts ==
  ASSUME NEW t \in Task, NEW w \in Maybe, NEW s, s = [t EXCEPT !.wrote = w]
  PROVE  /\ s \in Task /\ s.wrote = w
         /\ s.pc = t.pc /\ s.method = t.method /\ s.n = t.n /\ s.p = t.p
         /\ s.existing = t.existing /\ s.actual = t.actual /\ s.conflict = t.conflict
  BY DEF Task, Maybe

(* It may as well do so before it concludes.                               *)
LEMMA WroteConcludes ==
  ASSUME NEW t \in Task, NEW w, NEW i
  PROVE  [Conclude(t, i) EXCEPT !.wrote = w] = Conclude([t EXCEPT !.wrote = w], i)
  <1> DEFINE s == [t EXCEPT !.wrote = w]
  <1>1. s.p = t.p /\ s.method = t.method /\ s.existing = t.existing
    BY DEF Task
  <1>2. Changed(s, i) = Changed(t, i)
    BY <1>1 DEF Changed
  <1>3. \A c : [Ended(t, i, c) EXCEPT !.wrote = w] = Ended(s, i, c)
    BY DEF Ended, Task
  <1>4. [[t EXCEPT !.pc = "wait", !.instance = i] EXCEPT !.wrote = w]
            = [s EXCEPT !.pc = "wait", !.instance = i]
    BY DEF Task
  <1> HIDE DEF s
  <1>5. [Conclude(t, i) EXCEPT !.wrote = w] = Conclude(s, i)
    BY <1>1, <1>2, <1>3, <1>4 DEF Conclude
  <1> QED
    BY <1>5 DEF s

(* A write of the object o that gives the wanted fields their values       *)
LEMMA WriteFollows ==
  ASSUME ObjectInv, NEW o \in Maybe, NEW i \in Maybe, Write(o, Conclude(task, i)),
         task.pc \in {"create", "replace", "update", "merge", "delete", "apply_put"},
         Moves(obj, uids, obj', uids'),
         task.method \in Writes => Wanted(task) \subseteq Matching(o, task.p) \cup met
  PROVE  Follows
  <1>1. task \in Task /\ met \in SUBSET Fields /\ Planned(task) /\ Good(task, obj, uids, met)
    BY DEF ObjectInv, Good
  <1> DEFINE w == IF task.p.check THEN NoObj ELSE o
             t == [task EXCEPT !.wrote = w]
  <1>2. w \in Maybe
    BY DEF Maybe
  <1>3. /\ t \in Task /\ t.wrote = w /\ t.method = task.method /\ t.p = task.p
        /\ t.n = task.n /\ t.actual = task.actual /\ t.existing = task.existing
    BY <1>1, <1>2, WroteFacts
  <1>4. task' \in {Conclude(t, i), Failed(task)}
    BY <1>1, WroteConcludes DEF Write, WriteOr
  <1>5. Wanted(t) = Wanted(task)
    BY <1>3 DEF Wanted
  <1>6. ~task.p.check => obj' = o /\ w = o
    BY DEF Write, WriteOr
  <1>7. task.p.check => w = NoObj
    OBVIOUS
  <1> HIDE DEF w, t
  <1>8. ASSUME NEW m \in SUBSET Fields, met \subseteq m, Matching(obj', task.p) \subseteq m
        PROVE  Continues(task', task, obj', uids', m)
    <2>1. Good(task, obj', uids', m)
      BY <1>1, <1>8, ServerMoves
    <2>2. obj' \in Maybe /\ uids' \in Nat
      BY DEF Moves
    <2>3. Versioned(t, obj', uids')
      <3>1. w # NoObj => w = obj' /\ w.gen \in Nat /\ w.uid \in Nat
        BY <1>6, <1>7, <2>2, ObjectFacts DEF Maybe
      <3> QED
        BY <1>3, <2>1, <3>1 DEF Good, Versioned
    <2>4. ~t.p.check /\ t.method \in Writes => Wanted(t) \subseteq m
      BY <1>3, <1>5, <1>6, <1>8
    <2>5. /\ t.method # "none" /\ (t.method = "delete" => t.p.state = "absent")
          /\ t.p.check => t.wrote = NoObj
      BY <1>1, <1>3, <1>7 DEF Planned
    <2>6. Continues(Conclude(t, i), t, obj', uids', m)
      BY <1>3, <2>2, <2>3, <2>4, <2>5, <1>8, TaskConcludes
    <2>7. Continues(Failed(task), task, obj', uids', m)
      BY <2>1, TaskFails
    <2> QED
      BY <1>3, <1>4, <2>6, <2>7 DEF Continues
  <1>9. met \cup Matching(obj', task.p) \in SUBSET Fields
    BY <1>1 DEF Matching
  <1>10. task'.n = task.n /\ task'.p = task.p
    BY <1>8, <1>9 DEF Continues
  <1> QED
    BY <1>8, <1>10 DEF Follows, Continues, Moves

(* An answer that the client makes up, in a check                          *)
LEMMA DryFollows ==
  ASSUME ObjectInv, task.p.check, task.method # "none", NEW i \in Maybe,
         task' = Conclude(task, i), UNCHANGED <<obj, uids>>
  PROVE  Follows
  <1>1. ASSUME NEW m, Good(task, obj, uids, m)
        PROVE  Continues(task', task, obj, uids, m)
    BY <1>1, TaskConcludes DEF Good, Planned
  <1> QED
    BY <1>1, ReadFollows

(* Where the object may go: a new one, the same one with another spec, or  *)
(* nowhere in a check                                                      *)
LEMMA WriteMoves ==
  ASSUME ObjectInv, NEW o \in Object, obj' = (IF task.p.check THEN obj ELSE o),
         \/ /\ o.uid = uids + 1
            /\ uids' = IF task.p.check THEN uids ELSE uids + 1
         \/ /\ obj # NoObj /\ o.uid = obj.uid /\ obj.gen <= o.gen
            /\ uids' = uids
  PROVE  Moves(obj, uids, obj', uids')
  <1>1. uids \in Nat /\ obj \in Maybe /\ Good(task, obj, uids, met)
    BY DEF ObjectInv, Good
  <1>2. CASE task.p.check
    <2>1. obj' = obj /\ uids' = uids
      BY <1>2
    <2> QED
      BY <1>1, <2>1, ServerStays
  <1>3. CASE ~task.p.check
    <2>1. obj' = o /\ o.uid \in Nat /\ o \in Maybe
      BY <1>3, ObjectFacts DEF Maybe
    <2>2. obj # NoObj => obj.uid <= uids
      BY <1>1 DEF Good, Versioned
    <2> QED
      BY <1>1, <1>3, <2>1, <2>2 DEF Moves
  <1> QED
    BY <1>2, <1>3

(* The typed parts of the invariant                                        *)
LEMMA InvFacts ==
  ASSUME ObjectInv
  PROVE  /\ task \in Task /\ obj \in Maybe /\ uids \in Nat /\ met \in SUBSET Fields
         /\ obj # NoObj => obj \in Object
         /\ task.p \in Param /\ task.p.def \in Spec_ /\ Has(task.p.def) \in SUBSET Fields
         /\ Planned(task) /\ Recorded(task, met)
         /\ NoObj \in Maybe /\ Object \subseteq Maybe
  BY TaskFacts, ParamFacts DEF ObjectInv, Good, Maybe

(* A check by the client is a check.                                       *)
LEMMA DryIsCheck == ASSUME client_side_dry_run(task.p) PROVE task.p.check
  BY DEF client_side_dry_run

----------------------------------------------------------------------------
(* The actions *)

(* The first get                                                           *)
LEMMA RetrieveFollows == ASSUME ObjectInv, Retrieve PROVE Follows
  <1>1. CASE Refused
    BY <1>1, FailFollows DEF Refused
  <1>2. CASE UNCHANGED <<obj, uids>> /\ ~Refused
    <2>1. task' \in {perform_action([task EXCEPT !.existing = obj]),
                     MixinAction([task EXCEPT !.existing = obj])}
      BY <1>2 DEF Retrieve
    <2>2. task.pc = "retrieve"
      BY DEF Retrieve
    <2>3. ASSUME NEW m, Good(task, obj, uids, m)
          PROVE  Continues(task', task, obj, uids, m)
      BY <2>1, <2>2, <2>3, TaskChooses
    <2> QED
      BY <1>2, <2>3, ReadFollows
  <1> QED
    BY <1>1, <1>2 DEF Retrieve

(* A task that ends without having written                                 *)
LEMMA UnwrittenFollows ==
  ASSUME ObjectInv, NEW t \in Task, NEW i \in Maybe, NEW c \in BOOLEAN,
         task' = Ended(t, i, c), UNCHANGED <<obj, uids>>,
         t.n = task.n, t.p = task.p, t.wrote = NoObj, t.method # "delete",
         t.existing \in {task.existing, obj},
         t.p.check \/ t.conflict \/ t.method \notin Writes \/ Wanted(t) \subseteq met
  PROVE  Follows
  <1>0. uids \in Nat /\ obj \in Maybe /\ Versioned(task, obj, uids) /\ Good(task, obj, uids, met)
    BY DEF ObjectInv, Good
  <1>1. Versioned(t, obj, uids)
    BY <1>0 DEF Versioned
  <1>2. ASSUME NEW m \in SUBSET Fields, met \subseteq m
        PROVE  Continues(task', task, obj, uids, m)
    <2>1. Continues(task', t, obj, uids, m)
      BY <1>0, <1>1, <1>2, TaskEndsWell
    <2> QED
      BY <2>1 DEF Continues
  <1>3. met \in SUBSET Fields
    BY DEF ObjectInv, Good
  <1> QED
    BY <1>0, <1>2, <1>3 DEF Follows, Continues

(* Both kinds of create, the conflict included                             *)
LEMMA CreateFollows ==
  ASSUME ObjectInv, Create \/ MixinCreate
  PROVE  Follows
  <1>0. /\ task \in Task /\ uids \in Nat /\ task.p.def \in Spec_ /\ task.pc = "create"
        /\ Planned(task) /\ Object \subseteq Maybe /\ NoObj \in Maybe
    BY InvFacts DEF Create, MixinCreate
  <1>1. task.method = "create" /\ task.wrote = NoObj
    BY <1>0 DEF Planned
  <1> DEFINE o == Fresh(task.p.def, NoLast)
  <1>2. o \in Object /\ o.spec = task.p.def /\ o.uid = uids + 1
    BY <1>0, FreshFacts
  <1>3. Wanted(task) \subseteq Matching(o, task.p)
    BY <1>0, <1>1, <1>2, ObjectFacts DEF Wanted, Matching, Has
  <1> HIDE DEF o
  <1>4. CASE CreateRequest
    <2>1. CASE client_side_dry_run(task.p) /\ task' = Conclude(task, o) /\ UNCHANGED <<obj, uids>>
      BY <1>0, <1>1, <1>2, <2>1, DryIsCheck, DryFollows
    <2>2. CASE Write(o, Conclude(task, o)) /\ uids' = IF task.p.check THEN uids ELSE uids + 1
      <3>1. Moves(obj, uids, obj', uids')
        BY <1>2, <2>2, WriteMoves DEF Write, WriteOr
      <3> QED
        BY <1>0, <1>2, <1>3, <2>2, <3>1, WriteFollows
    <2>3. CASE Refused
      BY <2>3, FailFollows DEF Refused
    <2> QED
      BY <1>4, <2>1, <2>2, <2>3 DEF CreateRequest, o
  <1>5. CASE Conflict /\ ~CreateRequest
    <2> DEFINE t == [task EXCEPT !.conflict = TRUE]
    <2>1. /\ t \in Task /\ t.conflict = TRUE /\ t.n = task.n /\ t.p = task.p
          /\ t.wrote = NoObj /\ t.method = "create" /\ t.existing = task.existing
      BY <1>0, <1>1 DEF Task
    <2>2. UNCHANGED <<obj, uids>>
      BY <1>5 DEF Conflict
    <2>3. task' \in {Failed(t), Ended(t, NoObj, TRUE), Ended(t, NoObj, FALSE)}
      BY <1>5 DEF Create, MixinCreate
    <2> HIDE DEF t
    <2>4. CASE task' = Failed(t)
      <3>1. ASSUME NEW m, Good(task, obj, uids, m)
            PROVE  Continues(task', task, obj, uids, m)
        <4>1. /\ task' \in Task /\ SameWork(task', t) /\ task'.pc = "ended" /\ task'.ok = FALSE
          BY <2>1, <2>4, FailedFacts
        <4>2. Planned(task') /\ Versioned(task', obj, uids)
          BY <1>1, <2>1, <3>1, <4>1 DEF Good, Planned, Versioned, SameWork
        <4>3. Recorded(task', m) /\ ConvergedAt(task', obj, m) /\ ReadyAt(task')
          BY <4>1 DEF Recorded, ConvergedAt, ReadyAt
        <4> QED
          BY <2>1, <3>1, <4>1, <4>2, <4>3 DEF Good, Continues, SameWork
      <3> QED
        BY <2>2, <3>1, ReadFollows
    <2>5. CASE task' \in {Ended(t, NoObj, TRUE), Ended(t, NoObj, FALSE)}
      BY <1>0, <2>1, <2>2, <2>5, UnwrittenFollows
    <2> QED
      BY <2>3, <2>4, <2>5
  <1> QED
    BY <1>4, <1>5 DEF Create, MixinCreate

(* A replace sets every field.                                             *)
LEMMA ReplaceFollows ==
  ASSUME ObjectInv, ReplaceRequest
  PROVE  Follows
  <1>0. /\ task \in Task /\ uids \in Nat /\ task.p.def \in Spec_ /\ task.pc = "replace"
        /\ Planned(task) /\ Object \subseteq Maybe /\ obj \in Maybe /\ UNCHANGED uids
    BY InvFacts DEF ReplaceRequest
  <1>1. task.method = "replace"
    BY <1>0 DEF Planned
  <1>2. CASE client_side_dry_run(task.p)
    <2>1. Fresh(task.p.def, NoLast) \in Maybe
      BY <1>0, FreshFacts
    <2>2. task' = Conclude(task, Fresh(task.p.def, NoLast)) /\ UNCHANGED obj
      BY <1>2 DEF ReplaceRequest
    <2> QED
      BY <1>0, <1>1, <1>2, <2>1, <2>2, DryIsCheck, DryFollows
  <1> DEFINE o == Stored(obj, task.p.def, NoLast)
  <1>3. CASE obj # NoObj /\ Write(o, Conclude(task, o))
    <2>0. obj \in Object
      BY <1>0, <1>3 DEF Maybe
    <2>1. o \in Object /\ o.spec = task.p.def /\ o.uid = obj.uid /\ o.gen >= obj.gen
      BY <1>0, <2>0, StoredFacts
    <2>2. Wanted(task) \subseteq Matching(o, task.p)
      BY <1>0, <1>1, <2>1, ObjectFacts DEF Wanted, Matching, Has
    <2> HIDE DEF o
    <2>3. obj.gen <= o.gen
      BY <2>0, <2>1, ObjectFacts
    <2>4. Moves(obj, uids, obj', uids')
      BY <1>0, <1>3, <2>1, <2>3, WriteMoves DEF Write, WriteOr
    <2> QED
      BY <1>0, <1>3, <2>1, <2>2, <2>4, WriteFollows
  <1>4. CASE task' = Failed(task) /\ UNCHANGED obj
    BY <1>0, <1>4, FailFollows
  <1> QED
    BY <1>2, <1>3, <1>4 DEF ReplaceRequest

(* A patch is tried again, whether or not the server has stored it.        *)
LEMMA TriesAgain ==
  ASSUME ObjectInv, task.pc = "update", task' = [task EXCEPT !.pc = "merge"],
         Moves(obj, uids, obj', uids')
  PROVE  Follows
  <1>1. /\ task \in Task /\ met \in SUBSET Fields /\ Planned(task)
        /\ Good(task, obj, uids, met)
    BY InvFacts DEF ObjectInv
  <1>2. /\ task' \in Task /\ SameWork(task', task) /\ task'.pc = "merge"
    BY <1>1 DEF Task, SameWork
  <1>3. ASSUME NEW m \in SUBSET Fields, met \subseteq m
        PROVE  Good(task', obj', uids', m)
    <2>1. Good(task, obj', uids', m)
      BY <1>1, <1>3, ServerMoves
    <2>2. Planned(task') /\ Versioned(task', obj', uids')
      BY <1>1, <1>2, <2>1 DEF Good, Planned, Versioned, SameWork
    <2>3. Recorded(task', m) /\ ConvergedAt(task', obj', m) /\ ReadyAt(task')
      BY <1>2 DEF Recorded, ConvergedAt, ReadyAt
    <2> QED
      BY <1>2, <2>1, <2>2, <2>3 DEF Good
  <1> QED
    BY <1>2, <1>3 DEF Follows, SameWork, Moves

(* A patch sets the fields of the definition.                              *)
LEMMA PatchFollows ==
  ASSUME ObjectInv, NEW otherwise, PatchRequest(Has(task.p.def), otherwise),
         \/ task.pc = "update" /\ otherwise = [task EXCEPT !.pc = "merge"]
         \/ task.pc \in {"update", "merge"} /\ otherwise = Failed(task)
  PROVE  Follows
  <1> DEFINE D == Has(task.p.def)
  <1>0. /\ task \in Task /\ uids \in Nat /\ task.p.def \in Spec_
        /\ D \in SUBSET Fields
        /\ Planned(task) /\ Object \subseteq Maybe /\ obj \in Maybe /\ UNCHANGED uids
    BY InvFacts DEF PatchRequest
  <1>1. task.method = "update" /\ task.existing \in Object
    BY <1>0, TaskFacts DEF Planned, Maybe
  <1>2. Wanted(task) = D
    BY <1>1 DEF Wanted
  <1> HIDE DEF D
  <1>3. CASE client_side_dry_run(task.p) /\ UNCHANGED obj
             /\ task' = Conclude(task, [task.existing EXCEPT !.spec = Patched(@, D, task.p.def)])
    <2>1. Patched(task.existing.spec, D, task.p.def) \in Spec_
      BY <1>0, <1>1, ObjectFacts, PatchedFacts
    <2>2. [task.existing EXCEPT !.spec = Patched(@, D, task.p.def)] \in Object
      BY <1>1, <2>1 DEF Object
    <2> QED
      BY <1>0, <1>1, <1>3, <2>2, DryIsCheck, DryFollows
  <1> DEFINE o == Stored(obj, Patched(obj.spec, D, task.p.def), obj.last)
  <1>4. CASE obj # NoObj /\ WriteOr(o, Conclude(task, o), otherwise)
    <2>0. obj \in Object /\ obj.spec \in Spec_ /\ obj.last \in Spec_ \cup {NoLast}
      BY <1>0, <1>4, ObjectFacts DEF Maybe
    <2> DEFINE q == Patched(obj.spec, D, task.p.def)
    <2>1. q \in Spec_ /\ \A f \in D : q[f] = task.p.def[f]
      BY <1>0, <2>0, PatchedFacts
    <2>2. o \in Object /\ o.spec = q /\ o.uid = obj.uid /\ o.gen >= obj.gen
      BY <2>0, <2>1, StoredFacts
    <2> HIDE DEF o, q
    <2>3. Wanted(task) \subseteq Matching(o, task.p)
      BY <1>0, <1>2, <2>1, <2>2, ObjectFacts DEF Matching
    <2>4. obj.gen <= o.gen
      BY <2>0, <2>2, ObjectFacts
    <2>5. Moves(obj, uids, obj', uids')
      BY <1>0, <1>4, <2>2, <2>4, WriteMoves DEF WriteOr
    <2>6. CASE Write(o, Conclude(task, o))
      BY <1>0, <1>1, <2>2, <2>3, <2>5, <2>6, WriteFollows
    <2>7. CASE task.pc = "update" /\ task' = [task EXCEPT !.pc = "merge"]
      BY <2>5, <2>7, TriesAgain
    <2> QED
      BY <1>4, <2>6, <2>7 DEF Write, WriteOr
  <1>5. CASE task' = otherwise /\ UNCHANGED obj
    <2>1. Moves(obj, uids, obj', uids')
      BY <1>0, <1>5, ServerStays DEF ObjectInv
    <2> QED
      BY <1>0, <1>5, <2>1, FailFollows, TriesAgain
  <1> QED
    BY <1>3, <1>4, <1>5 DEF PatchRequest, D

(* A delete leaves nothing, or an object that is being deleted.            *)
LEMMA DeleteFollows ==
  ASSUME ObjectInv, DeleteRequest
  PROVE  Follows
  <1>0. /\ task \in Task /\ uids \in Nat /\ task.pc = "delete" /\ NoObj \in Maybe
        /\ Planned(task) /\ Object \subseteq Maybe /\ obj \in Maybe /\ UNCHANGED uids
    BY InvFacts DEF DeleteRequest
  <1>1. task.method = "delete" /\ task.method \notin Writes
    BY <1>0 DEF Planned, Writes
  <1>2. CASE client_side_dry_run(task.p)
    BY <1>0, <1>1, <1>2, DryIsCheck, DryFollows DEF DeleteRequest
  <1>3. CASE \E o \in {NoObj, [obj EXCEPT !.deleting = TRUE]} :
                obj # NoObj /\ Write(o, Conclude(task, o))
    <2>0. obj \in Object /\ Good(task, obj, uids, met)
      BY <1>0, <1>3 DEF Maybe, ObjectInv
    <2> DEFINE d == [obj EXCEPT !.deleting = TRUE]
    <2>1. d \in Object /\ d.uid = obj.uid /\ d.gen = obj.gen
      BY <2>0 DEF Object
    <2>2. PICK o \in {NoObj, d} : Write(o, Conclude(task, o))
      BY <1>3
    <2> HIDE DEF d
    <2>3. CASE o = NoObj
      <3>1. obj' \in {obj, NoObj}
        BY <2>2, <2>3 DEF Write, WriteOr
      <3>2. Moves(obj, uids, NoObj, uids) /\ Moves(obj, uids, obj, uids)
        BY <1>0, <2>0, ServerStays DEF Moves
      <3>3. Moves(obj, uids, obj', uids')
        BY <1>0, <3>1, <3>2
      <3> QED
        BY <1>0, <1>1, <2>2, <2>3, <3>3, WriteFollows
    <2>4. CASE o = d
      <3>1. obj.gen <= d.gen
        BY <2>0, <2>1, ObjectFacts
      <3>2. Moves(obj, uids, obj', uids')
        BY <1>0, <1>3, <2>1, <2>2, <2>4, <3>1, WriteMoves DEF Write, WriteOr
      <3> QED
        BY <1>0, <1>1, <2>1, <2>2, <2>4, <3>2, WriteFollows
    <2> QED
      BY <2>2, <2>3, <2>4
  <1>4. CASE task' = Failed(task) /\ UNCHANGED obj
    BY <1>0, <1>4, FailFollows
  <1> QED
    BY <1>2, <1>3, <1>4 DEF DeleteRequest

(* The fields of a patch of apply                                          *)
LEMMA ApplyPatchFacts ==
  ASSUME NEW a \in Object, NEW def \in Spec_
  PROVE  apply_patch(a, def) \in SUBSET Fields
  BY DEF apply_patch, get_deletions, get_delta, Has

(* What a client makes up for apply is an object.                          *)
LEMMA DryApplyFacts ==
  ASSUME uids \in Nat, NEW e \in Maybe, NEW a \in Maybe, NEW def \in Spec_
  PROVE  DryApply(e, a, def) \in Object
  <1>1. CASE a = NoObj
    <2>1. CASE e = NoObj
      BY <1>1, <2>1, FreshFacts DEF DryApply
    <2>2. CASE e # NoObj
      <3>1. e \in Object /\ Has(def) \in SUBSET Fields
        BY <2>2 DEF Maybe, Has
      <3>2. Patched(e.spec, Has(def), def) \in Spec_
        BY <3>1, ObjectFacts, PatchedFacts
      <3>3. [e EXCEPT !.spec = Patched(@, Has(def), def), !.last = def] \in Object
        BY <3>1, <3>2 DEF Object
      <3> QED
        BY <1>1, <2>2, <3>3 DEF DryApply
    <2> QED
      BY <2>1, <2>2
  <1>2. CASE a # NoObj /\ NothingToApply(a, def)
    <2>0. a \in Object /\ a.spec \in Spec_ /\ Has(a.spec) \in SUBSET Fields
      BY <1>2, ObjectFacts DEF Maybe, Has
    <2>1. CASE e = NoObj
      BY <1>2, <2>0, <2>1 DEF DryApply
    <2>2. CASE e # NoObj
      <3>1. Patched(e.spec, Has(a.spec), a.spec) \in Spec_
        BY <2>0, <2>2, ObjectFacts, PatchedFacts DEF Maybe
      <3>2. [a EXCEPT !.spec = Patched(e.spec, Has(@), @)] \in Object
        BY <2>0, <3>1 DEF Object
      <3> QED
        BY <1>2, <2>2, <3>2 DEF DryApply
    <2> QED
      BY <2>1, <2>2
  <1>3. CASE a # NoObj /\ ~NothingToApply(a, def)
    <2> DEFINE P == apply_patch(a, def)
    <2>1. P \in SUBSET Fields
      BY <1>3, ApplyPatchFacts DEF Maybe
    <2> HIDE DEF P
    <2>2. CASE e = NoObj
      <3>1. [f \in Fields |-> Unset] \in Spec_
        BY DEF Spec_
      <3>2. Patched([f \in Fields |-> Unset], P, def) \in Spec_
        BY <2>1, <3>1, PatchedFacts
      <3>3. Fresh(Patched([f \in Fields |-> Unset], P, def), def) \in Object
        BY <3>2, FreshFacts
      <3> QED
        BY <1>3, <2>2, <3>3 DEF DryApply, P
    <2>3. CASE e # NoObj
      <3>1. e \in Object /\ Patched(e.spec, P, def) \in Spec_
        BY <2>1, <2>3, ObjectFacts, PatchedFacts DEF Maybe
      <3>2. [e EXCEPT !.spec = Patched(@, P, def), !.last = def] \in Object
        BY <3>1 DEF Object
      <3> QED
        BY <1>3, <2>3, <3>2 DEF DryApply, P
    <2> QED
      BY <2>2, <2>3
  <1> QED
    BY <1>1, <1>2, <1>3

(* The get of apply: what matches is recorded with it.                     *)
LEMMA ApplyGetFollows == ASSUME ObjectInv, ApplyGet PROVE Follows
  <1>0. /\ task \in Task /\ obj \in Maybe /\ uids \in Nat /\ task.p.def \in Spec_
        /\ task.pc = "apply" /\ Planned(task) /\ Object \subseteq Maybe
        /\ UNCHANGED <<obj, uids>>
    BY InvFacts DEF ApplyGet
  <1>1. task.method = "apply" /\ task.wrote = NoObj /\ task.existing \in Maybe
    BY <1>0, TaskFacts DEF Planned
  <1> DEFINE t == [task EXCEPT !.actual = obj, !.pc = "apply_put"]
  <1>2. /\ t \in Task /\ t.pc = "apply_put" /\ t.actual = obj /\ t.method = "apply"
        /\ t.n = task.n /\ t.p = task.p /\ t.wrote = NoObj /\ t.existing = task.existing
    BY <1>0, <1>1 DEF Task, Maybe
  <1>3. \/ task' = Failed(task)
        \/ client_side_dry_run(task.p) /\ task' = Conclude(t, DryApply(task.existing, obj, task.p.def))
        \/ task' = t
    BY <1>2 DEF ApplyGet
  <1> HIDE DEF t
  <1>4. ASSUME NEW m, Good(task, obj, uids, m), Matching(obj, task.p) \subseteq m
        PROVE  Continues(task', task, obj, uids, m)
    <2>1. Versioned(t, obj, uids) /\ m \in SUBSET Fields
      BY <1>1, <1>2, <1>4 DEF Good, Versioned
    <2>2. CASE task' = t
      <3>1. Planned(t) /\ Recorded(t, m)
        BY <1>1, <1>2, <1>4 DEF Planned, Recorded
      <3>2. ConvergedAt(t, obj, m) /\ ReadyAt(t)
        BY <1>2 DEF ConvergedAt, ReadyAt
      <3> QED
        BY <1>0, <1>2, <2>1, <2>2, <3>1, <3>2 DEF Good, Continues
    <2>3. CASE client_side_dry_run(task.p)
               /\ task' = Conclude(t, DryApply(task.existing, obj, task.p.def))
      <3>1. DryApply(task.existing, obj, task.p.def) \in Maybe
        BY <1>0, <1>1, DryApplyFacts
      <3>2. t.p.check
        BY <1>2, <2>3, DryIsCheck
      <3>3. Continues(task', t, obj, uids, m)
        BY <1>0, <1>2, <2>1, <2>3, <3>1, <3>2, TaskConcludes
      <3> QED
        BY <1>2, <3>3 DEF Continues
    <2>4. CASE task' = Failed(task)
      BY <1>4, <2>4, TaskFails
    <2> QED
      BY <1>3, <2>2, <2>3, <2>4
  <1> QED
    BY <1>0, <1>4, ReadFollows

(* What apply wants is in the patch, or was there when it looked.          *)
LEMMA ApplyWanted ==
  ASSUME NEW t \in Task, t.method = "apply", t.actual # NoObj
  PROVE  Wanted(t) \subseteq apply_patch(t.actual, t.p.def) \cup Matching(t.actual, t.p)
  <1>1. t.actual \in Object /\ t.p.def \in Spec_
    BY TaskFacts, ParamFacts DEF Maybe
  <1>2. CASE t.actual.last = NoLast
    BY <1>1, <1>2 DEF Wanted, apply_patch
  <1>3. CASE t.actual.last # NoLast
    <2>1. Wanted(t) = Has(t.p.def) \cup Has(t.actual.last)
      BY <1>3 DEF Wanted
    <2>2. ASSUME NEW f \in Fields, f \in Has(t.p.def)
          PROVE  f \in get_delta(t.actual, t.p.def) \cup Matching(t.actual, t.p)
      BY <2>2 DEF get_delta, Matching
    <2>3. ASSUME NEW f \in Fields, f \in Has(t.actual.last), f \notin Has(t.p.def)
          PROVE  f \in get_deletions(t.actual.last, t.p.def)
      BY <2>3 DEF get_deletions, Has
    <2>4. Has(t.p.def) \subseteq Fields /\ Has(t.actual.last) \subseteq Fields
      BY DEF Has
    <2> QED
      BY <1>3, <2>1, <2>2, <2>3, <2>4 DEF apply_patch
  <1> QED
    BY <1>2, <1>3

(* The write of apply                                                      *)
LEMMA ApplyPutFollows == ASSUME ObjectInv, ApplyPut PROVE Follows
  <1>0. /\ task \in Task /\ obj \in Maybe /\ uids \in Nat /\ task.p.def \in Spec_
        /\ task.pc = "apply_put" /\ Planned(task) /\ Object \subseteq Maybe /\ Recorded(task, met)
    BY InvFacts DEF ApplyPut
  <1>1. task.method = "apply" /\ task.wrote = NoObj
    BY <1>0 DEF Planned
  <1>2. CASE Refused
    BY <1>2, FailFollows DEF Refused
  <1>3. CASE task.actual = NoObj /\ ~Refused
    <2> DEFINE o == Fresh(task.p.def, task.p.def)
    <2>1. Write(o, Conclude(task, o)) /\ uids' = IF task.p.check THEN uids ELSE uids + 1
      BY <1>3 DEF ApplyPut
    <2>2. o \in Object /\ o.spec = task.p.def /\ o.uid = uids + 1
      BY <1>0, FreshFacts
    <2> HIDE DEF o
    <2>3. Wanted(task) \subseteq Matching(o, task.p)
      BY <1>0, <1>1, <1>3, <2>2, ObjectFacts DEF Wanted, Matching, Has
    <2>4. Moves(obj, uids, obj', uids')
      BY <2>1, <2>2, WriteMoves DEF Write, WriteOr
    <2> QED
      BY <1>0, <2>1, <2>2, <2>3, <2>4, WriteFollows
  <1>4. CASE task.actual # NoObj /\ ~Refused
    <2> DEFINE P == apply_patch(task.actual, task.p.def)
               q == Patched(obj.spec, P, task.p.def)
               o == Stored(obj, q, task.p.def)
    <2>0. obj \in Object /\ UNCHANGED uids
      BY <1>0, <1>4 DEF ApplyPut, Maybe
    <2>1. Wanted(task) \subseteq P \cup met /\ P \in SUBSET Fields
      BY <1>0, <1>1, <1>4, ApplyWanted, ApplyPatchFacts, TaskFacts DEF Recorded, Maybe
    <2>2. CASE NothingToApply(task.actual, task.p.def)
      <3>1. task' = Conclude(task, obj) /\ UNCHANGED obj
        BY <1>4, <2>2 DEF ApplyPut
      <3>2. Wanted(task) \subseteq met
        BY <2>1, <2>2 DEF NothingToApply
      <3>3. ASSUME NEW m \in SUBSET Fields, met \subseteq m
            PROVE  Continues(task', task, obj, uids, m)
        BY <1>0, <1>1, <3>1, <3>2, <3>3, TaskConcludes DEF ObjectInv, Good
      <3>4. met \in SUBSET Fields
        BY DEF ObjectInv, Good
      <3> QED
        BY <1>0, <2>0, <3>1, <3>3, <3>4 DEF Follows, Continues
    <2>3. CASE ~NothingToApply(task.actual, task.p.def)
      <3>1. Write(o, Conclude(task, o))
        BY <1>4, <2>3 DEF ApplyPut
      <3>2. q \in Spec_ /\ \A f \in P : q[f] = task.p.def[f]
        BY <1>0, <2>0, <2>1, ObjectFacts, PatchedFacts
      <3>3. o \in Object /\ o.spec = q /\ o.uid = obj.uid /\ o.gen >= obj.gen
        BY <1>0, <2>0, <3>2, StoredFacts
      <3> HIDE DEF o, q, P
      <3>4. P \subseteq Matching(o, task.p)
        BY <2>1, <3>2, <3>3, ObjectFacts DEF Matching
      <3>5. Moves(obj, uids, obj', uids')
        <4>1. obj.gen <= o.gen /\ obj # NoObj
          BY <2>0, <3>3, ObjectFacts
        <4> QED
          BY <2>0, <3>1, <3>3, <4>1, WriteMoves DEF Write, WriteOr
      <3> QED
        BY <1>0, <2>1, <3>1, <3>3, <3>4, <3>5, WriteFollows
    <2> QED
      BY <2>2, <2>3
  <1> QED
    BY <1>2, <1>3, <1>4

(* A task that goes on with another request, having written nothing        *)
LEMMA GoesOn ==
  ASSUME ObjectInv, UNCHANGED <<obj, uids>>, task' \in Task, task'.n = task.n,
         task'.p = task.p, task'.wrote = task.wrote, task'.pc # "ended", Planned(task'),
         task'.existing \in {task.existing, obj},
         \A m : Good(task, obj, uids, m) /\ Matching(obj, task.p) \subseteq m => Recorded(task', m)
  PROVE  Follows
  <1>1. ASSUME NEW m, Good(task, obj, uids, m), Matching(obj, task.p) \subseteq m
        PROVE  Continues(task', task, obj, uids, m)
    <2>1. Recorded(task', m)
      BY <1>1
    <2>2. Versioned(task', obj, uids) /\ ConvergedAt(task', obj, m) /\ ReadyAt(task')
      BY <1>1 DEF Good, Versioned, ConvergedAt, ReadyAt
    <2> QED
      BY <1>1, <2>1, <2>2 DEF Good, Continues
  <1> QED
    BY <1>1, ReadFollows

(* The requests of k8s_scale                                               *)
LEMMA ScaleReadFollows == ASSUME ObjectInv, ScaleRead PROVE Follows
  <1>0. /\ task \in Task /\ obj \in Maybe /\ task.pc = "retrieve" /\ Planned(task)
    BY InvFacts DEF ScaleRead
  <1>1. task.wrote = NoObj
    BY <1>0 DEF Planned
  <1>2. CASE Refused
    BY <1>2, FailFollows DEF Refused
  <1>3. CASE obj # NoObj /\ UNCHANGED <<obj, uids>>
             /\ task' = Ended([task EXCEPT !.method = "skip"], obj, FALSE)
    <2> DEFINE t == [task EXCEPT !.method = "skip"]
    <2>1. /\ t \in Task /\ t.method = "skip" /\ t.n = task.n /\ t.p = task.p /\ t.wrote = NoObj
          /\ t.existing = task.existing
      BY <1>0, <1>1 DEF Task
    <2> HIDE DEF t
    <2> QED
      BY <1>0, <1>3, <2>1, UnwrittenFollows DEF t, Writes
  <1>4. CASE obj # NoObj /\ UNCHANGED <<obj, uids>>
             /\ task' = [task EXCEPT !.pc = "reget", !.method = "update", !.actual = obj]
    <2>1. /\ task' \in Task /\ task'.pc = "reget" /\ task'.method = "update"
          /\ task'.actual = obj /\ task'.n = task.n /\ task'.p = task.p /\ task'.wrote = NoObj
          /\ task'.existing = task.existing
      BY <1>0, <1>1, <1>4 DEF Task, Maybe
    <2>2. Planned(task')
      BY <2>1 DEF Planned
    <2>3. \A m : Matching(obj, task.p) \subseteq m => Recorded(task', m)
      BY <1>4, <2>1 DEF Recorded
    <2> QED
      BY <1>1, <1>4, <2>1, <2>2, <2>3, GoesOn
  <1> QED
    BY <1>2, <1>3, <1>4 DEF ScaleRead

(* The second get: if the first had found the count, it was there.         *)
LEMMA ScaleRegetFollows == ASSUME ObjectInv, ScaleReget PROVE Follows
  <1>0. /\ task \in Task /\ obj \in Maybe /\ task.pc = "reget" /\ Planned(task)
        /\ task.p.def \in Spec_ /\ Has(task.p.def) \in SUBSET Fields
        /\ Recorded(task, met) /\ Object \subseteq Maybe
    BY InvFacts DEF ScaleReget
  <1>1. task.wrote = NoObj /\ task.method = "update"
    BY <1>0 DEF Planned
  <1>2. CASE Refused
    BY <1>2, FailFollows DEF Refused
  <1>3. CASE obj # NoObj /\ UNCHANGED <<obj, uids>> /\ ~Refused
    <2> DEFINE t == [task EXCEPT !.existing = obj]
               i == [obj EXCEPT !.spec = Patched(@, Has(task.p.def), task.p.def)]
    <2>1. /\ t \in Task /\ t.existing = obj /\ t.pc = "reget" /\ t.method = "update"
          /\ t.n = task.n /\ t.p = task.p /\ t.actual = task.actual /\ t.wrote = NoObj
      BY <1>0, <1>1, ReadFacts
    <2>2. i \in Object
      <3>1. obj \in Object /\ Patched(obj.spec, Has(task.p.def), task.p.def) \in Spec_
        BY <1>0, <1>3, ObjectFacts, PatchedFacts DEF Maybe
      <3> QED
        BY <3>1 DEF Object
    <2>3. \/ get_delta(task.actual, task.p.def) = {} /\ task' = Ended(t, obj, FALSE)
          \/ t.p.check /\ task' = Ended(t, i, ~diff_objects(obj, i))
          \/ task' = [t EXCEPT !.pc = "update"]
      BY <1>3, <2>1 DEF ScaleReget
    <2> HIDE DEF t, i
    <2>4. CASE get_delta(task.actual, task.p.def) = {} /\ task' = Ended(t, obj, FALSE)
      <3>1. Wanted(t) = Has(task.p.def)
        BY <2>1 DEF Wanted
      <3>2. Has(task.p.def) \subseteq Matching(task.actual, task.p)
        BY <1>0, <2>4 DEF get_delta, Matching, Recorded
      <3>3. Wanted(t) \subseteq met
        BY <1>0, <3>1, <3>2 DEF Recorded
      <3> QED
        BY <1>0, <1>3, <2>1, <2>4, <3>3, UnwrittenFollows
    <2>5. CASE t.p.check /\ task' = Ended(t, i, ~diff_objects(obj, i))
      <3>1. (~diff_objects(obj, i)) \in BOOLEAN
        OBVIOUS
      <3> QED
        BY <1>0, <1>3, <2>1, <2>2, <2>5, <3>1, UnwrittenFollows
    <2>6. CASE task' = [t EXCEPT !.pc = "update"]
      <3>1. /\ task' \in Task /\ task'.pc = "update" /\ task'.method = "update"
            /\ task'.n = task.n /\ task'.p = task.p /\ task'.wrote = NoObj
            /\ task'.existing = obj
        BY <2>1, <2>6 DEF Task
      <3>2. Planned(task') /\ \A m : Recorded(task', m)
        BY <1>3, <3>1 DEF Planned, Recorded
      <3> QED
        BY <1>1, <1>3, <3>1, <3>2, GoesOn
    <2> QED
      BY <2>3, <2>4, <2>5, <2>6
  <1> QED
    BY <1>2, <1>3 DEF ScaleReget, Refused

(* The patch of the scale                                                  *)
LEMMA ScalePatchFollows == ASSUME ObjectInv, ScalePatch PROVE Follows
  <1> DEFINE D == Has(task.p.def)
             q == Patched(obj.spec, D, task.p.def)
             o == Stored(obj, q, obj.last)
  <1>0. /\ task \in Task /\ uids \in Nat /\ task.p.def \in Spec_ /\ task.pc = "update"
        /\ D \in SUBSET Fields /\ met \in SUBSET Fields
        /\ Planned(task) /\ Object \subseteq Maybe /\ obj \in Maybe /\ NoObj \in Maybe
    BY InvFacts DEF ScalePatch
  <1>1. task.method = "update" /\ task.wrote = NoObj
    BY <1>0 DEF Planned
  <1>2. CASE Refused
    BY <1>2, FailFollows DEF Refused
  <1>3. CASE obj # NoObj /\ Write(o, [task EXCEPT !.pc = "after"]) /\ UNCHANGED uids
    <2>0. obj \in Object /\ obj.spec \in Spec_ /\ obj.last \in Spec_ \cup {NoLast}
      BY <1>0, <1>3, ObjectFacts DEF Maybe
    <2>1. q \in Spec_ /\ \A f \in D : q[f] = task.p.def[f]
      BY <1>0, <2>0, PatchedFacts
    <2>2. o \in Object /\ o.spec = q /\ o.uid = obj.uid /\ o.gen >= obj.gen
      BY <2>0, <2>1, StoredFacts
    <2> DEFINE w == IF task.p.check THEN NoObj ELSE o
    <2>3. w \in Maybe /\ (task.p.check => w = NoObj) /\ (~task.p.check => w = o /\ obj' = o)
      BY <1>0, <1>3, <2>2 DEF Write, WriteOr
    <2>4. \/ task' = Failed(task)
          \/ task' = [[task EXCEPT !.pc = "after"] EXCEPT !.wrote = w]
      BY <1>3 DEF Write, WriteOr
    <2> HIDE DEF w, o, q
    <2>5. D \subseteq Matching(o, task.p)
      BY <1>0, <2>1, <2>2, ObjectFacts DEF Matching
    <2>6. Moves(obj, uids, obj', uids')
      <3>1. obj.gen <= o.gen
        BY <2>0, <2>2, ObjectFacts
      <3> QED
        BY <1>3, <2>2, <3>1, WriteMoves DEF Write, WriteOr
    <2>7. ASSUME NEW m \in SUBSET Fields, met \subseteq m, Matching(obj', task.p) \subseteq m
          PROVE  Continues(task', task, obj', uids', m)
      <3>1. Good(task, obj', uids', m)
        BY <2>6, <2>7, ServerMoves DEF ObjectInv
      <3>2. CASE task' = Failed(task)
        BY <3>1, <3>2, TaskFails
      <3>3. CASE task' = [[task EXCEPT !.pc = "after"] EXCEPT !.wrote = w]
        <4>1. /\ task' \in Task /\ task'.pc = "after" /\ task'.method = "update"
              /\ task'.wrote = w /\ task'.p = task.p /\ task'.n = task.n
              /\ task'.existing = task.existing
          BY <1>0, <1>1, <2>3, <3>3 DEF Task, Maybe
        <4>2. Planned(task')
          BY <1>0, <2>3, <4>1 DEF Planned
        <4>3. Versioned(task', obj', uids')
          <5>1. w # NoObj => w = obj' /\ w.gen \in Nat /\ w.uid \in Nat
            BY <2>2, <2>3, ObjectFacts
          <5> QED
            BY <3>1, <4>1, <5>1 DEF Good, Versioned
        <4>4. Recorded(task', m)
          <5>1. Wanted(task') = D
            BY <4>1 DEF Wanted
          <5> QED
            BY <2>3, <2>5, <2>7, <4>1, <5>1 DEF Recorded
        <4>5. ConvergedAt(task', obj', m) /\ ReadyAt(task')
          BY <4>1 DEF ConvergedAt, ReadyAt
        <4> QED
          BY <3>1, <4>1, <4>2, <4>3, <4>4, <4>5 DEF Good, Continues
      <3> QED
        BY <2>4, <3>2, <3>3
    <2>8. met \cup Matching(obj', task.p) \in SUBSET Fields
      BY <1>0 DEF Matching
    <2>9. task'.n = task.n /\ task'.p = task.p
      BY <2>7, <2>8 DEF Continues
    <2> QED
      BY <2>6, <2>7, <2>9 DEF Follows, Continues, Moves
  <1> QED
    BY <1>2, <1>3 DEF ScalePatch

(* The get after it                                                        *)
LEMMA ScaleAfterFollows == ASSUME ObjectInv, ScaleAfter PROVE Follows
  <1>0. task.pc = "after" /\ UNCHANGED <<obj, uids>> /\ task' \in {Conclude(task, obj), Failed(task)}
    BY DEF ScaleAfter
  <1>1. ASSUME NEW m, Good(task, obj, uids, m)
        PROVE  Continues(task', task, obj, uids, m)
    <2>1. Continues(Conclude(task, obj), task, obj, uids, m)
      BY <1>0, <1>1, TaskConcludes DEF Good, Planned, Recorded
    <2> QED
      BY <1>0, <1>1, <2>1, TaskFails
  <1> QED
    BY <1>0, <1>1, ReadFollows

(* The get of k8s_json_patch                                               *)
LEMMA JsonPatchReadFollows == ASSUME ObjectInv, JsonPatchRead PROVE Follows
  <1>0. task \in Task /\ obj \in Maybe /\ task.pc = "retrieve" /\ Planned(task)
    BY InvFacts DEF JsonPatchRead
  <1>1. task.wrote = NoObj
    BY <1>0 DEF Planned
  <1>2. CASE Refused
    BY <1>2, FailFollows DEF Refused
  <1>3. CASE obj # NoObj /\ UNCHANGED <<obj, uids>>
             /\ task' = [task EXCEPT !.existing = obj, !.pc = "update", !.method = "update"]
    <2>1. /\ task' \in Task /\ task'.pc = "update" /\ task'.method = "update"
          /\ task'.n = task.n /\ task'.p = task.p /\ task'.wrote = NoObj
          /\ task'.existing = obj
      BY <1>0, <1>1, <1>3 DEF Task, Maybe
    <2>2. Planned(task') /\ \A m : Recorded(task', m)
      BY <1>3, <2>1 DEF Planned, Recorded
    <2> QED
      BY <1>1, <1>3, <2>1, <2>2, GoesOn
  <1> QED
    BY <1>2, <1>3 DEF JsonPatchRead

(* k8s_info                                                                *)
LEMMA FindFollows == ASSUME ObjectInv, Find PROVE Follows
  <1>0. /\ task \in Task /\ obj \in Maybe /\ task.pc = "find" /\ Planned(task)
        /\ UNCHANGED <<obj, uids>> /\ NoObj \in Maybe
    BY InvFacts DEF Find
  <1>1. task.wrote = NoObj /\ task.method = "none" /\ task.method \notin Writes
    BY <1>0 DEF Planned, Writes
  <1>2. CASE task' = task
    BY <1>0, <1>2, ReadFollows DEF Continues
  <1>3. CASE task.p.wait /\ task' = [task EXCEPT !.pc = "wait"]
    <2>1. /\ task' \in Task /\ task'.pc = "wait" /\ task'.method = "none"
          /\ task'.n = task.n /\ task'.p = task.p /\ task'.wrote = NoObj
          /\ task'.existing = task.existing
      BY <1>0, <1>1, <1>3 DEF Task
    <2>2. Planned(task') /\ \A m : Recorded(task', m)
      BY <1>3, <2>1 DEF Planned, Recorded, Writes
    <2> QED
      BY <1>0, <1>1, <2>1, <2>2, GoesOn
  <1>4. CASE task' = Ended(task, obj, FALSE)
    BY <1>0, <1>1, <1>4, UnwrittenFollows
  <1>5. CASE task' = Ended([task EXCEPT !.method = "skip"], NoObj, FALSE)
    <2> DEFINE t == [task EXCEPT !.method = "skip"]
    <2>1. /\ t \in Task /\ t.method = "skip" /\ t.n = task.n /\ t.p = task.p /\ t.wrote = NoObj
          /\ t.existing = task.existing
      BY <1>0, <1>1 DEF Task
    <2> HIDE DEF t
    <2> QED
      BY <1>0, <1>5, <2>1, UnwrittenFollows DEF t, Writes
  <1>6. CASE task' = Failed(task)
    BY <1>0, <1>6, FailFollows
  <1> QED
    BY <1>2, <1>3, <1>4, <1>5, <1>6 DEF Find

(* The turns of both waiters                                               *)
LEMMA WaitFollows ==
  ASSUME ObjectInv, WaitGet \/ WaitError \/ MixinWaitGet \/ WaitTimeout
  PROVE  Follows
  <1>0. /\ task \in Task /\ obj \in Maybe /\ task.pc = "wait" /\ Planned(task)
        /\ UNCHANGED <<obj, uids>>
    BY InvFacts DEF WaitGet, WaitError, MixinWaitGet, WaitTimeout
  <1>1. \/ task' = task
        \/ task' = Failed(task)
        \/ task' = [task EXCEPT !.polled = TRUE]
        \/ task.p.state = "absent" /\ obj = NoObj /\ task' = Waited(task, obj)
        \/ task.p.state # "absent" /\ obj # NoObj /\ deployment_ready(obj)
              /\ task' = Waited(task, obj)
    BY DEF WaitGet, WaitError, MixinWaitGet, WaitTimeout, exists
  <1>2. CASE task' = task
    BY <1>0, <1>2, ReadFollows DEF Continues
  <1>3. CASE task' = Failed(task)
    BY <1>0, <1>3, FailFollows
  <1>4. CASE task' = [task EXCEPT !.polled = TRUE]
    <2>1. task' \in Task /\ SameWork(task', task) /\ task'.pc = "wait"
      BY <1>0, <1>4 DEF Task, SameWork
    <2>2. Wanted(task') = Wanted(task)
      BY <2>1, SameWanted
    <2>3. Planned(task')
      BY <1>0, <2>1 DEF Planned, SameWork
    <2>4. \A m : Good(task, obj, uids, m) => Recorded(task', m)
      BY <1>0, <2>1, <2>2 DEF Good, Recorded, SameWork
    <2> QED
      BY <1>0, <2>1, <2>3, <2>4, GoesOn DEF SameWork
  <1>5. CASE /\ \/ task.p.state = "absent" /\ obj = NoObj
                \/ task.p.state # "absent" /\ obj # NoObj /\ deployment_ready(obj)
             /\ task' = Waited(task, obj)
    <2>1. ASSUME NEW m, Good(task, obj, uids, m)
          PROVE  Continues(task', task, obj, uids, m)
      BY <1>0, <1>5, <2>1, TaskWaited
    <2> QED
      BY <1>0, <2>1, ReadFollows
  <1> QED
    BY <1>1, <1>2, <1>3, <1>4, <1>5

(* Any step of the task                                                    *)
LEMMA TaskFollows == ASSUME ObjectInv, TaskStep PROVE Follows /\ UNCHANGED prev
  <1>1. CASE Retrieve
    BY <1>1, RetrieveFollows DEF Retrieve
  <1>2. CASE Create \/ MixinCreate
    BY <1>2, CreateFollows DEF Create, MixinCreate
  <1>3. CASE Replace \/ MixinReplace
    BY <1>3, ReplaceFollows DEF Replace, MixinReplace, ReplaceRequest
  <1>4. CASE Update \/ MixinPatch \/ JsonPatch
    BY <1>4, PatchFollows DEF Update, MixinPatch, JsonPatch, PatchRequests, PatchRequest
  <1>5. CASE Delete \/ MixinDelete
    BY <1>5, DeleteFollows DEF Delete, MixinDelete, DeleteRequest
  <1>6. CASE ApplyGet
    BY <1>6, ApplyGetFollows DEF ApplyGet
  <1>7. CASE ApplyPut
    BY <1>7, ApplyPutFollows DEF ApplyPut
  <1>8. CASE ScaleRead \/ ScaleReget
    BY <1>8, ScaleReadFollows, ScaleRegetFollows DEF ScaleRead, ScaleReget
  <1>9. CASE ScalePatch \/ ScaleAfter
    BY <1>9, ScalePatchFollows, ScaleAfterFollows DEF ScalePatch, ScaleAfter
  <1>10. CASE JsonPatchRead \/ Find
    BY <1>10, JsonPatchReadFollows, FindFollows DEF JsonPatchRead, Find
  <1>11. CASE WaitGet \/ WaitError \/ MixinWaitGet \/ WaitTimeout
    BY <1>11, WaitFollows DEF WaitGet, WaitError, MixinWaitGet, WaitTimeout
  <1> QED
    BY <1>1, <1>2, <1>3, <1>4, <1>5, <1>6, <1>7, <1>8, <1>9, <1>10, <1>11 DEF TaskStep

(* What others do, as the task sees it: the object moves.                  *)
LEMMA OthersFollow ==
  ASSUME ObjectInv, Moves(obj, uids, obj', uids'),
         task' = task \/ task' = [task EXCEPT !.calm = FALSE]
  PROVE  Follows
  <1>1. task \in Task /\ Good(task, obj, uids, met) /\ met \in SUBSET Fields
    BY DEF ObjectInv, Good
  <1>2. /\ task' \in Task /\ SameWork(task', task) /\ task'.pc = task.pc
        /\ task'.ok = task.ok /\ task'.instance = task.instance
    BY <1>1 DEF Task, SameWork
  <1>3. Wanted(task') = Wanted(task)
    BY <1>2, SameWanted
  <1>4. ASSUME NEW m \in SUBSET Fields, met \subseteq m
        PROVE  Good(task', obj', uids', m)
    <2>1. Good(task, obj', uids', m)
      BY <1>1, <1>4, ServerMoves
    <2>2. Planned(task') /\ Versioned(task', obj', uids') /\ ReadyAt(task')
      BY <1>2, <2>1 DEF Good, Planned, Versioned, ReadyAt, SameWork
    <2>3. Recorded(task', m) /\ ConvergedAt(task', obj', m)
      BY <1>2, <1>3, <2>1 DEF Good, Recorded, ConvergedAt, SameWork
    <2> QED
      BY <1>2, <2>1, <2>2, <2>3 DEF Good
  <1> QED
    BY <1>2, <1>4 DEF Follows, SameWork, Moves

(* The object as others leave it                                           *)
LEMMA OthersMove ==
  ASSUME ObjectInv, Environment
  PROVE  Moves(obj, uids, obj', uids')
  <1>0. uids \in Nat /\ obj \in Maybe /\ (obj # NoObj => obj \in Object /\ obj.uid <= uids)
    BY InvFacts DEF ObjectInv, Good, Versioned
  <1>1. CASE OtherWrite
    <2>1. PICK f \in Fields, v \in Vals \cup {Unset} :
            obj' = Stored(obj, [obj.spec EXCEPT ![f] = v], obj.last)
      BY <1>1 DEF OtherWrite
    <2>2. obj \in Object /\ obj.spec \in Spec_ /\ obj.last \in Spec_ \cup {NoLast} /\ uids' = uids
      BY <1>0, <1>1, ObjectFacts DEF OtherWrite
    <2>3. [obj.spec EXCEPT ![f] = v] \in Spec_
      BY <2>2 DEF Spec_
    <2>4. obj' \in Object /\ obj'.uid = obj.uid /\ obj'.gen >= obj.gen
      BY <2>1, <2>2, <2>3, StoredFacts
    <2>5. obj.gen <= obj'.gen /\ obj # NoObj
      BY <2>2, <2>4, ObjectFacts
    <2> QED
      BY <1>0, <2>2, <2>4, <2>5 DEF Moves, Maybe
  <1>2. CASE OtherCreate
    <2>1. PICK spec \in Spec_ : obj' = Fresh(spec, NoLast)
      BY <1>2 DEF OtherCreate
    <2>2. obj' \in Object /\ obj'.uid = uids + 1 /\ uids' = uids + 1
      BY <1>0, <1>2, <2>1, FreshFacts DEF OtherCreate
    <2> QED
      BY <1>0, <2>2 DEF Moves, Maybe
  <1>3. CASE OtherDelete \/ Finalized
    BY <1>0, <1>3 DEF OtherDelete, Finalized, Moves, Maybe
  <1>4. CASE Observe \/ BringUp \/ GoDown
    <2>1. obj \in Object /\ obj.gen \in Nat /\ uids' = uids /\ obj # NoObj
      BY <1>0, <1>4, ObjectFacts DEF Observe, BringUp, GoDown
    <2>2. obj' \in Object /\ obj'.uid = obj.uid /\ obj'.gen = obj.gen
      BY <1>4, <2>1 DEF Observe, BringUp, GoDown, Object
    <2> QED
      BY <1>0, <2>1, <2>2 DEF Moves, Maybe
  <1> QED
    BY <1>1, <1>2, <1>3, <1>4 DEF Environment

(* A new task begins.                                                      *)
LEMMA StartKeeps ==
  ASSUME ObjectInv, NEW p \in Params, Start(p), Track, UNCHANGED others
  PROVE  ObjectInv'
  <1>0. /\ task \in Task /\ task.n \in Nat /\ p \in Param /\ uids \in Nat /\ obj \in Maybe
        /\ task.n < MaxTasks /\ UNCHANGED <<obj, uids>> /\ NoObj \in Maybe
        /\ task.changed \in BOOLEAN /\ task.p \in Param /\ task.p.check \in BOOLEAN
    BY InvFacts, TaskFacts, ParamFacts, ParamsAssumption DEF Start, Task
  <1>1. /\ task'.n = task.n + 1 /\ task'.p = p /\ task'.pc \in {"retrieve", "find"}
        /\ task'.method = "none" /\ task'.wrote = NoObj /\ task'.existing = NoObj
    BY DEF Start
  <1>2. task' \in Task
    <2>1. Settled(obj) \in BOOLEAN
      BY DEF Settled
    <2>2. task.n + 1 \in Nat
      BY <1>0
    <2> QED
      BY <1>0, <2>1, <2>2 DEF Start, Task, Maybe
  <1>3. met' \in SUBSET Fields
    <2>1. met \in SUBSET Fields
      BY InvFacts
    <2> QED
      BY <2>1 DEF Track, Matching
  <1>4. Planned(task') /\ Recorded(task', met') /\ ConvergedAt(task', obj', met') /\ ReadyAt(task')
    BY <1>1 DEF Planned, Recorded, ConvergedAt, ReadyAt
  <1>5. Versioned(task', obj', uids')
    BY <1>0, <1>1 DEF ObjectInv, Good, Versioned
  <1>6. prev' \in [known : BOOLEAN, check : BOOLEAN, client : BOOLEAN, changed : BOOLEAN]
    <2>1. client_side_dry_run(task.p) \in BOOLEAN
      BY DEF client_side_dry_run
    <2> QED
      BY <1>0, <2>1 DEF Start, NoAnswer
  <1>7. task'.n <= MaxTasks
    BY <1>0, <1>1, ParamsAssumption
  <1> QED
    BY <1>0, <1>2, <1>3, <1>4, <1>5, <1>6, <1>7 DEF ObjectInv, Good

(* Every step keeps the invariant.                                         *)
LEMMA ObjectStep == ObjectInv /\ [Next]_vars => ObjectInv'
  <1> SUFFICES ASSUME ObjectInv, [Next]_vars PROVE ObjectInv'
    OBVIOUS
  <1>1. CASE UNCHANGED vars
    BY <1>1 DEF vars, ObjectInv
  <1>2. CASE \E p \in Params : Start(p) /\ UNCHANGED others /\ Track
    BY <1>2, StartKeeps
  <1>3. CASE TaskStep /\ UNCHANGED others /\ Track
    BY <1>3, TaskFollows, FollowsTrack DEF ObjectInv
  <1>4. CASE Environment /\ Track
    <2>1. Moves(obj, uids, obj', uids')
      BY <1>4, OthersMove
    <2>2. /\ UNCHANGED prev
          /\ task' = task \/ task' = [task EXCEPT !.calm = FALSE]
          /\ others' \in 0..MaxOthers
      BY <1>4, ParamsAssumption
      DEF Environment, OtherWrite, OtherCreate, OtherDelete, Observe, BringUp, GoDown, Finalized,
          ObjectInv
    <2> QED
      BY <1>4, <2>1, <2>2, OthersFollow, FollowsTrack
  <1> QED
    BY <1>1, <1>2, <1>3, <1>4 DEF Next

(* A play begins with an object that is settled, or with none.             *)
LEMMA ObjectInit == Init => ObjectInv
  <1> SUFFICES ASSUME Init PROVE ObjectInv
    OBVIOUS
  <1>1. /\ task = NoTask /\ uids = 1 /\ others = 0 /\ prev = NoAnswer /\ met = {}
    BY DEF Init
  <1>2. obj \in Maybe /\ (obj # NoObj => obj.uid = 1)
    <2>1. CASE obj # NoObj
      <3>1. PICK f \in Found :
              obj = [spec |-> f[1], last |-> f[2], gen |-> 1, observed |-> 1,
                     ready |-> TRUE, deleting |-> FALSE, uid |-> 1]
        BY <2>1 DEF Init
      <3>2. f[1] \in Spec_ /\ f[2] \in Spec_ \cup {NoLast}
        BY ParamsAssumption
      <3> QED
        BY <3>1, <3>2 DEF Maybe, Object
    <2> QED
      BY <2>1 DEF Maybe
  <1>3. task \in Task /\ task.pc = "ended" /\ task.ok = FALSE /\ task.wrote = NoObj /\ task.n = 0
        /\ task.method = "none" /\ task.existing = NoObj
    <2>1. (CHOOSE p \in Params : TRUE) \in Param
      BY ParamsAssumption
    <2> QED
      BY <1>1, <2>1 DEF NoTask, Task
  <1>4. /\ Planned(task) /\ Versioned(task, obj, uids) /\ Recorded(task, met)
        /\ ConvergedAt(task, obj, met) /\ ReadyAt(task)
    BY <1>1, <1>2, <1>3 DEF Planned, Versioned, Recorded, ConvergedAt, ReadyAt
  <1> QED
    BY <1>1, <1>2, <1>3, <1>4, ParamsAssumption DEF ObjectInv, Good, NoAnswer

----------------------------------------------------------------------------
(* What a task answers *)

(* What a request comes down to when the object is there: to delete it, to *)
(* apply the definition, to replace the object or to patch it              *)
Deletes(p) == p.op = "k8s" /\ p.state = "absent"

Puts(p) == p.op = "k8s" /\ p.state # "absent"

Applies(p) == Puts(p) /\ p.apply

Replaces(p) == Puts(p) /\ ~p.apply /\ p.force /\ (p.impl = "service" \/ p.state = "present")

Patches(p) == p.op \in {"scale", "json_patch"} \/ (Puts(p) /\ ~p.apply /\ ~Replaces(p))

(* Whether a task with the parameters p that finds the object o, and has   *)
(* it to itself, answers that it changed something                         *)
Predicted(p, o) ==
    \/ Deletes(p) /\ o # NoObj
    \/ Puts(p) /\ o = NoObj /\ (p.apply \/ p.state = "present")
    \/ Applies(p) /\ o # NoObj /\ ~NothingToApply(o, p.def)
    \/ Replaces(p) /\ o # NoObj /\ (o.spec # p.def \/ o.last # NoLast)
    \/ /\ Patches(p) /\ o # NoObj /\ get_delta(o, p.def) # {}
       /\ p.op = "scale" => \A f \in Has(p.expect) : o.spec[f] = p.expect[f]

(* The points of a task before its write                                   *)
Before == {"retrieve", "find", "delete", "apply", "apply_put", "create", "replace", "update",
           "reget"}

Foretold(t, o, v) == Settled(o) /\ (v <=> Predicted(t.p, o))

(* Before the write: what was read is still what is there, and the next    *)
(* request is the one that it calls for.                                   *)
Read(t, o) ==
    /\ t.pc \in {"delete", "apply", "apply_put", "create", "replace", "update"}
           => t.existing = o
    /\ t.pc \in {"apply_put", "reget"} => t.actual = o
    /\ t.pc = "retrieve" => t.p.op # "info"
    /\ t.pc = "find" => t.p.op = "info"
    /\ t.pc \in {"apply", "apply_put"} => Applies(t.p)
    /\ t.pc = "create" => Puts(t.p) /\ ~t.p.apply /\ t.p.state = "present" /\ o = NoObj
    /\ t.pc = "replace" => Replaces(t.p) /\ o # NoObj
    /\ t.pc = "update" => /\ Patches(t.p) /\ o # NoObj
                          /\ t.p.op = "scale" => Predicted(t.p, o) /\ ~t.p.check
    /\ t.pc = "delete" => Deletes(t.p) /\ o # NoObj
    /\ t.pc = "reget" => /\ t.p.op = "scale" /\ o # NoObj
                         /\ \A f \in Has(t.p.expect) : o.spec[f] = t.p.expect[f]

(* The differences that a task reports as a change                         *)
Differs(a, b) == b # NoObj /\ (a = NoObj \/ a.spec # b.spec \/ a.last # b.last)

(* After the write, whose answer was i: what the end of the task will      *)
(* compare makes the difference, or is what was there.                     *)
Compared(t, i, o) == IF t.p.op = "json_patch" THEN i ELSE o

Written(t, i, o, v) ==
    /\ t.method = "none" => t.p.op = "info" /\ ~v
    /\ t.method = "delete" => Deletes(t.p) /\ (v <=> exists(t.existing))
    /\ t.method = "create" => v /\ t.p.op = "k8s"
    /\ t.method \in {"replace", "update", "apply"} =>
          /\ t.p.op # "info" /\ o # NoObj /\ ~o.deleting
          /\ v => Differs(t.existing, Compared(t, i, o))
          /\ ~v => Compared(t, i, o) = t.existing /\ Settled(o)
    /\ t.method # "skip"

(* A task with the parameters p would answer no change, now or once the    *)
(* object is finally deleted.                                              *)
Fulfilled(p, o) ==
    \/ Deletes(p) /\ o # NoObj /\ o.deleting
    \/ (o # NoObj => ~o.deleting) /\ ~Predicted(p, o)

(* Before a patch is tried again the first one has left the object as it   *)
(* was, or has made the difference.                                        *)
Retried(t, o, v) ==
    /\ t.p.op = "k8s" /\ Patches(t.p) /\ o # NoObj
    /\ \/ Foretold(t, o, v) /\ t.existing = o
       \/ v /\ Fulfilled(t.p, o) /\ Differs(t.existing, o)

(* The task t, which has the object o to itself, answers v.                *)
Answers(t, o, v) ==
    /\ t.pc \in Before \/ t.p.check => Foretold(t, o, v)
    /\ t.pc \in Before => Read(t, o)
    /\ t.pc = "merge" => Retried(t, o, v)
    /\ ~t.p.check /\ (t.pc \in {"after", "wait"} \/ (t.pc = "ended" /\ t.ok))
           => Fulfilled(t.p, o)
    /\ t.pc \in {"after", "wait"} => Written(t, t.instance, o, v)
    /\ t.pc = "after" => t.p.op = "scale" /\ t.method = "update"
    /\ t.pc = "ended" /\ t.ok => t.changed = v

(* The answer expected after the one before: what a check said, and no     *)
(* change after a run                                                      *)
Expected == prev.check /\ prev.changed

(* A task that has the object to itself answers what is expected, if       *)
(* anything is (a replace that only the client checks aside).              *)
AnswerInv ==
    /\ task.p \in Params
    /\ task.calm /\ ~(task.p.force /\ client_side_dry_run(task.p)) =>
           \E v \in BOOLEAN :
               /\ Answers(task, obj, v)
               /\ prev.known /\ ~(task.p.force /\ prev.client) => v = Expected

(* What is predicted, way by way                                           *)
LEMMA PredictedWays ==
  ASSUME NEW p \in Param, NEW o
  PROVE  /\ Deletes(p) => (Predicted(p, o) <=> o # NoObj)
         /\ Puts(p) /\ o = NoObj => (Predicted(p, o) <=> (p.apply \/ p.state = "present"))
         /\ Applies(p) /\ o # NoObj => (Predicted(p, o) <=> ~NothingToApply(o, p.def))
         /\ Replaces(p) /\ o # NoObj
                => (Predicted(p, o) <=> (o.spec # p.def \/ o.last # NoLast))
         /\ Patches(p) /\ o # NoObj
                => (Predicted(p, o) <=> /\ get_delta(o, p.def) # {}
                                        /\ p.op = "scale" => \A f \in Has(p.expect) :
                                                                o.spec[f] = p.expect[f])
         /\ p.op = "info" => ~Predicted(p, o)
         /\ p.op # "k8s" /\ o = NoObj => ~Predicted(p, o)
  BY DEF Predicted, Deletes, Puts, Applies, Replaces, Patches

(* Tasks that ask for the same are predicted the same.                     *)
LEMMA SamePrediction ==
  ASSUME ImplementationsAgree, NEW p \in Params, NEW q \in Params, SameRequest(p, q), NEW o
  PROVE  Predicted(p, o) <=> Predicted(q, o)
  <1>1. /\ p.op = q.op /\ p.state = q.state /\ p.apply = q.apply /\ p.force = q.force
        /\ p.def = q.def /\ p.expect = q.expect
    BY DEF SameRequest
  <1>2. p.state = "patched" /\ p.force => p.impl = q.impl
    BY DEF ImplementationsAgree
  <1>3. p \in Param /\ p.state \in {"present", "patched", "absent"}
    BY ParamsAssumption DEF Param
  <1>4. Replaces(p) <=> Replaces(q)
    BY <1>1, <1>2, <1>3 DEF Replaces, Puts
  <1> QED
    BY <1>1, <1>4 DEF Predicted, Deletes, Puts, Applies, Patches

(* The comparison at the end of a task sees the differences.               *)
LEMMA DiffFacts ==
  ASSUME NEW a \in Maybe, NEW b \in Maybe
  PROVE  /\ Differs(a, b) => ~diff_objects(a, b)
         /\ diff_objects(a, a)
  <1>1. ASSUME a \in Object, b \in Object, [a EXCEPT !.gen = 0] = [b EXCEPT !.gen = 0]
        PROVE  a.spec = b.spec /\ a.last = b.last
    <2>1. /\ [a EXCEPT !.gen = 0].spec = a.spec /\ [a EXCEPT !.gen = 0].last = a.last
          /\ [b EXCEPT !.gen = 0].spec = b.spec /\ [b EXCEPT !.gen = 0].last = b.last
      BY <1>1 DEF Object
    <2> QED
      BY <1>1, <2>1
  <1> QED
    BY <1>1 DEF Differs, diff_objects, Maybe

(* A spec and an annotation that are stored                                *)
LEMMA StoredMore ==
  ASSUME NEW o \in Object, NEW spec \in Spec_, NEW last \in Spec_ \cup {NoLast}
  PROVE  /\ Stored(o, spec, last).last = last
         /\ Stored(o, spec, last).deleting = o.deleting
         /\ spec = o.spec /\ last = o.last => Stored(o, spec, last) = o
         /\ spec # o.spec \/ last # o.last => Differs(o, Stored(o, spec, last))
  <1> DEFINE g == IF spec = o.spec THEN o.gen ELSE o.gen + 1
             s == Stored(o, spec, last)
  <1>1. s = [o EXCEPT !.spec = spec, !.last = last, !.gen = g]
    BY DEF Stored
  <1>2. s.last = last /\ s.deleting = o.deleting /\ s.spec = spec
    BY <1>1 DEF Object
  <1>3. spec = o.spec /\ last = o.last => s = o
    <2>1. ASSUME spec = o.spec, last = o.last
          PROVE  [o EXCEPT !.spec = spec, !.last = last, !.gen = o.gen] = o
      BY <2>1 DEF Object
    <2> QED
      BY <1>1, <2>1
  <1>4. s # NoObj
    BY StoredFacts, ObjectFacts
  <1> QED
    BY <1>2, <1>3, <1>4 DEF Differs

(* A spec is what it is field by field.                                    *)
LEMMA SpecEquality ==
  ASSUME NEW a \in Spec_, NEW b \in Spec_, \A f \in Fields : a[f] = b[f]
  PROVE  a = b
  BY DEF Spec_

(* A patch with the definition changes the spec if it makes a difference,  *)
(* and only then; afterwards it makes none.                                *)
LEMMA DeltaFacts ==
  ASSUME NEW o \in Object, NEW def \in Spec_, NEW dom \in SUBSET Fields,
         get_delta(o, def) \subseteq dom
  PROVE  LET q == Patched(o.spec, dom, def)
         IN  /\ get_delta(o, def) # {} => q # o.spec
             /\ dom \subseteq Has(def) /\ get_delta(o, def) = {} => q = o.spec
             /\ \A x \in Object : x.spec = q => get_delta(x, def) = {}
  <1> DEFINE q == Patched(o.spec, dom, def)
  <1>1. o.spec \in Spec_ /\ q \in Spec_ /\ Has(def) \subseteq Fields
    BY ObjectFacts, PatchedFacts DEF Has
  <1>2. (\A f \in dom : q[f] = def[f]) /\ \A f \in Fields \ dom : q[f] = o.spec[f]
    BY <1>1, PatchedFacts
  <1> HIDE DEF q
  <1>3. get_delta(o, def) # {} => q # o.spec
    BY <1>2 DEF get_delta
  <1>4. ASSUME dom \subseteq Has(def), get_delta(o, def) = {}
        PROVE  q = o.spec
    <2>1. \A f \in Fields : q[f] = o.spec[f]
      BY <1>2, <1>4 DEF get_delta
    <2> QED
      BY <1>1, <2>1, SpecEquality
  <1>5. \A x \in Object : x.spec = q => get_delta(x, def) = {}
    BY <1>1, <1>2 DEF get_delta
  <1> QED
    BY <1>3, <1>4, <1>5 DEF q

(* A task that goes on, with its write ahead                               *)
LEMMA AnswerAhead ==
  ASSUME NEW s, NEW o, NEW v, s.pc \in Before, Foretold(s, o, v), Read(s, o)
  PROVE  Answers(s, o, v)
  BY DEF Answers, Before

(* A task that fails has answered nothing.                                 *)
LEMMA AnswerFails ==
  ASSUME NEW t \in Task, NEW o, NEW v, Answers(t, o, v), NEW o2, t.p.check => o2 = o
  PROVE  Answers(Failed(t), o2, v)
  <1> DEFINE s == Failed(t)
  <1>1. s.pc = "ended" /\ s.ok = FALSE /\ s.p = t.p
    BY FailedFacts DEF SameWork
  <1> HIDE DEF s
  <1>2. Answers(s, o2, v)
    BY <1>1 DEF Answers, Before, Foretold
  <1> QED
    BY <1>2 DEF s

(* A task that ends, having done what it was to do                         *)
LEMMA AnswerEnds ==
  ASSUME NEW t \in Task, NEW o, NEW v \in BOOLEAN, NEW i \in Maybe,
         t.p.check => Foretold(t, o, v),
         ~t.p.check => Fulfilled(t.p, o)
  PROVE  Answers(Ended(t, i, v), o, v)
  <1> DEFINE s == Ended(t, i, v)
  <1>1. s.pc = "ended" /\ s.p = t.p /\ s.changed = v
    BY DEF Ended, Task
  <1> HIDE DEF s
  <1>2. Answers(s, o, v)
    BY <1>1 DEF Answers, Before, Foretold
  <1> QED
    BY <1>2 DEF s

(* If it foretells no change it has nothing to do.                         *)
LEMMA NothingToDo ==
  ASSUME NEW t, NEW o, Foretold(t, o, FALSE)
  PROVE  Fulfilled(t.p, o)
  BY DEF Foretold, Fulfilled, Settled

(* A task concludes: what it then answers, or will after its wait          *)
LEMMA AnswerConcludes ==
  ASSUME NEW t \in Task, NEW o, NEW v \in BOOLEAN, NEW i \in Maybe,
         t.p.check => Foretold(t, o, v),
         ~t.p.check => Fulfilled(t.p, o),
         ~t.p.check => Written(t, i, o, v),
         Changed(t, i) = v
  PROVE  Answers(Conclude(t, i), o, v)
  <1>1. CASE t.p.wait /\ ~t.p.check
    <2> DEFINE w == [t EXCEPT !.pc = "wait", !.instance = i]
    <2>1. /\ w.p = t.p /\ w.pc = "wait" /\ w.instance = i /\ w.method = t.method
          /\ w.existing = t.existing /\ Conclude(t, i) = w
      BY <1>1 DEF Conclude, Task
    <2> HIDE DEF w
    <2>2. Written(w, i, o, v)
      BY <1>1, <2>1 DEF Written, Compared
    <2> QED
      BY <1>1, <2>1, <2>2 DEF Answers, Before
  <1>2. CASE ~(t.p.wait /\ ~t.p.check)
    <2>1. Conclude(t, i) = Ended(t, i, v)
      BY <1>2 DEF Conclude
    <2> QED
      BY <2>1, AnswerEnds
  <1> QED
    BY <1>1, <1>2

(* A write of the object o, answered with i, that will make the difference *)
LEMMA AnswerWrites ==
  ASSUME task \in Task, obj \in Maybe, NEW v \in BOOLEAN, Answers(task, obj, v),
         NEW o \in Maybe, NEW i \in Maybe, Write(o, Conclude(task, i)),
         Fulfilled(task.p, o), Written(task, i, o, v), Changed(task, i) = v
  PROVE  Answers(task', obj', v)
  <1> DEFINE w == IF task.p.check THEN NoObj ELSE o
             t == [task EXCEPT !.wrote = w]
  <1>1. w \in Maybe
    BY DEF Maybe
  <1>2. /\ t \in Task /\ t.p = task.p /\ t.method = task.method /\ t.existing = task.existing
        /\ t.wrote = w
    BY <1>1, WroteFacts
  <1>3. task' \in {Conclude(t, i), Failed(task)}
    BY WroteConcludes DEF Write, WriteOr
  <1>4. obj' = IF task.p.check THEN obj ELSE o
    BY DEF Write, WriteOr
  <1> HIDE DEF w, t
  <1>5. CASE task' = Failed(task)
    BY <1>4, <1>5, AnswerFails
  <1>6. CASE task' = Conclude(t, i)
    <2>1. t.p.check => Foretold(t, obj', v)
      BY <1>2, <1>4 DEF Answers, Foretold
    <2>2. ~t.p.check => Fulfilled(t.p, obj') /\ Written(t, i, obj', v)
      BY <1>2, <1>4 DEF Written, Compared
    <2>3. Changed(t, i) = v
      BY <1>2 DEF Changed
    <2> QED
      BY <1>2, <1>6, <2>1, <2>2, <2>3, AnswerConcludes
  <1> QED
    BY <1>3, <1>5, <1>6

(* An answer that the client makes up in a check                           *)
LEMMA AnswerMadeUp ==
  ASSUME NEW t \in Task, t.p.check, NEW o, NEW v \in BOOLEAN, Foretold(t, o, v),
         NEW i \in Maybe, Changed(t, i) = v
  PROVE  Answers(Conclude(t, i), o, v)
  BY AnswerConcludes

(* What a wait brings: the difference is seen in the object as it is now,  *)
(* and where there was none there is none.                                 *)
LEMMA AnswerWaited ==
  ASSUME NEW t \in Task, NEW o \in Maybe, NEW v \in BOOLEAN, Answers(t, o, v),
         t.pc = "wait"
  PROVE  Answers(Waited(t, o), o, v)
  <1>1. /\ Written(t, t.instance, o, v)
        /\ t.p.check => Foretold(t, o, v)
        /\ ~t.p.check => Fulfilled(t.p, o)
    BY DEF Answers
  <1>2. /\ t.existing \in Maybe /\ t.instance \in Maybe
        /\ t.method \in {"none", "delete", "apply", "create", "replace", "update", "skip"}
    BY TaskFacts DEF Task
  <1> DEFINE c == CASE t.p.op = "info" -> FALSE
                    [] t.p.op = "json_patch" -> ~diff_objects(t.existing, t.instance)
                    [] OTHER -> Changed(t, o)
  <1>3. c = v
    <2>1. CASE t.method = "none"
      BY <1>1, <2>1 DEF Written
    <2>2. CASE t.method = "delete"
      <3>1. t.p.op = "k8s" /\ exists(t.existing) = v
        BY <1>1, <2>2 DEF Written, Deletes, exists
      <3> QED
        BY <2>2, <3>1 DEF Changed
    <2>3. CASE t.method = "create"
      <3>1. t.p.op = "k8s" /\ v = TRUE
        BY <1>1, <2>3 DEF Written
      <3> QED
        BY <2>3, <3>1 DEF Changed
    <2>4. CASE t.method \in {"replace", "update", "apply"}
      <3>1. (~diff_objects(t.existing, Compared(t, t.instance, o))) = v
        <4>1. Compared(t, t.instance, o) \in Maybe
          BY <1>2 DEF Compared
        <4>2. v => Differs(t.existing, Compared(t, t.instance, o))
          BY <1>1, <2>4 DEF Written
        <4>3. ~v => Compared(t, t.instance, o) = t.existing
          BY <1>1, <2>4 DEF Written
        <4>4. diff_objects(t.existing, Compared(t, t.instance, o)) \in BOOLEAN
          BY DEF diff_objects
        <4> QED
          BY <1>2, <4>1, <4>2, <4>3, <4>4, DiffFacts
      <3>2. t.p.op # "info"
        BY <1>1, <2>4 DEF Written
      <3>3. Changed(t, o) = ~diff_objects(t.existing, o)
        BY <2>4 DEF Changed
      <3> QED
        BY <3>1, <3>2, <3>3 DEF Compared
    <2> QED
      BY <1>1, <1>2, <2>1, <2>2, <2>3, <2>4 DEF Written
  <1>4. Waited(t, o) = Ended(t, o, v)
    BY <1>3 DEF Waited
  <1> QED
    BY <1>1, <1>4, AnswerEnds

(* More of a new object                                                    *)
LEMMA FreshMore ==
  ASSUME NEW spec, NEW last
  PROVE  Fresh(spec, last).last = last /\ Fresh(spec, last).deleting = FALSE
  BY DEF Fresh

(* An object that is as the definition says leaves nothing to do.          *)
LEMMA AsDefined ==
  ASSUME NEW p \in Param, NEW o \in Object, ~o.deleting, ~Deletes(p),
         get_delta(o, p.def) = {},
         Replaces(p) => o.spec = p.def /\ o.last = NoLast,
         Applies(p) => NothingToApply(o, p.def)
  PROVE  Fulfilled(p, o)
  <1>1. o # NoObj
    BY ObjectFacts
  <1>2. ~Predicted(p, o)
    BY <1>1 DEF Predicted
  <1> QED
    BY <1>2 DEF Fulfilled

(* A running task that has the object to itself, and what it foretold      *)
LEMMA AheadFacts ==
  ASSUME ObjectInv, NEW v \in BOOLEAN, Answers(task, obj, v), task.pc \in Before
  PROVE  /\ task \in Task /\ obj \in Maybe /\ (obj # NoObj => obj \in Object)
         /\ task.p \in Param /\ task.p.def \in Spec_ /\ Has(task.p.def) \in SUBSET Fields
         /\ NoObj \in Maybe /\ Object \subseteq Maybe /\ Planned(task) /\ uids \in Nat
         /\ Foretold(task, obj, v) /\ Settled(obj) /\ (v <=> Predicted(task.p, obj))
         /\ Read(task, obj)
  BY InvFacts DEF Answers, Foretold

(* It stores a new version of the object, which makes the difference, or   *)
(* the object as it is.                                                    *)
LEMMA AnswerStores ==
  ASSUME ObjectInv, NEW v \in BOOLEAN, Answers(task, obj, v),
         task.method \in {"replace", "update", "apply"}, task.p.op # "info",
         NEW o \in Object, Write(o, Conclude(task, o)), ~o.deleting,
         v => Differs(task.existing, o), ~v => o = task.existing /\ Settled(o),
         Fulfilled(task.p, o)
  PROVE  Answers(task', obj', v)
  <1>0. /\ task \in Task /\ obj \in Maybe /\ o \in Maybe /\ o # NoObj /\ task.existing \in Maybe
    BY InvFacts, ObjectFacts, TaskFacts
  <1>1. Changed(task, o) = v
    <2>1. Changed(task, o) = ~diff_objects(task.existing, o)
      BY DEF Changed
    <2>2. diff_objects(task.existing, o) \in BOOLEAN
      BY DEF diff_objects
    <2> QED
      BY <1>0, <2>1, <2>2, DiffFacts
  <1>2. Written(task, o, o, v)
    BY <1>0 DEF Written, Compared
  <1> QED
    BY <1>0, <1>1, <1>2, AnswerWrites

(* A request that is refused                                               *)
LEMMA AnswerRefused ==
  ASSUME ObjectInv, NEW v, Answers(task, obj, v), task' = Failed(task), obj' = obj
  PROVE  Answers(task', obj', v)
  BY InvFacts, AnswerFails

----------------------------------------------------------------------------
(* Every action keeps the answer *)

(* The first get                                                           *)
LEMMA AnswerRetrieve ==
  ASSUME ObjectInv, NEW v \in BOOLEAN, Answers(task, obj, v), Retrieve
  PROVE  Answers(task', obj', v)
  <1>0. /\ task.pc = "retrieve" /\ task.pc \in Before /\ task.p.op = "k8s" /\ obj' = obj
        /\ task.p.state \in {"present", "patched", "absent"}
        /\ task.p.impl \in {"service", "mixin"}
    BY InvFacts DEF Retrieve, Refused, Before, Param
  <1>1. /\ task \in Task /\ obj \in Maybe /\ NoObj \in Maybe /\ task.p \in Param
        /\ Foretold(task, obj, v)
    BY <1>0, AheadFacts
  <1>2. CASE Refused
    BY <1>2, AnswerRefused DEF Refused
  <1> DEFINE t == [task EXCEPT !.existing = obj]
  <1>3. /\ t \in Task /\ t.existing = obj /\ t.p = task.p
        /\ Foretold(t, obj, v)
    BY <1>1 DEF Task, Maybe, Foretold
  <1>4. \/ /\ task' \in {perform_action(t), MixinAction(t)}
           /\ task.p.impl = "service" => task' = perform_action(t)
        \/ Refused
    BY DEF Retrieve
  <1>5. task.p.impl = "mixin" => task' = MixinAction(t) \/ Refused
    BY DEF Retrieve
  <1> HIDE DEF t
  <1>6. ASSUME NEW x \in {"delete", "apply", "create", "replace", "update"},
               x = "delete" => Deletes(t.p) /\ obj # NoObj,
               x = "apply" => Applies(t.p),
               x = "create" => Puts(t.p) /\ ~t.p.apply /\ t.p.state = "present" /\ obj = NoObj,
               x = "replace" => Replaces(t.p) /\ obj # NoObj,
               x = "update" => Patches(t.p) /\ obj # NoObj
        PROVE  Answers([t EXCEPT !.pc = x, !.method = x], obj, v)
    <2> DEFINE s == [t EXCEPT !.pc = x, !.method = x]
    <2>1. s.pc = x /\ s.p = t.p /\ s.existing = obj
      BY <1>3 DEF Task
    <2> HIDE DEF s
    <2>2. Foretold(s, obj, v) /\ s.pc \in Before
      BY <1>3, <2>1 DEF Foretold, Before
    <2>3. Read(s, obj)
      BY <1>0, <1>3, <1>6, <2>1 DEF Read
    <2>4. Answers(s, obj, v)
      BY <2>2, <2>3, AnswerAhead
    <2> QED
      BY <2>4 DEF s
  <1>7. ASSUME NEW y \in {"delete", "skip"}, v = FALSE
        PROVE  Answers(Ended([t EXCEPT !.method = y], NoObj, FALSE), obj, v)
    <2> DEFINE s == [t EXCEPT !.method = y]
    <2>1. s \in Task /\ s.p = t.p
      BY <1>3 DEF Task
    <2> HIDE DEF s
    <2>2. Foretold(s, obj, FALSE) /\ Fulfilled(s.p, obj)
      BY <1>3, <1>7, <2>1, NothingToDo DEF Foretold
    <2>3. Answers(Ended(s, NoObj, FALSE), obj, v)
      BY <1>1, <1>7, <2>1, <2>2, AnswerEnds
    <2> QED
      BY <2>3 DEF s
  <1>8. ASSUME Deletes(t.p), obj = NoObj
        PROVE  v = FALSE /\ Answers(Conclude([t EXCEPT !.method = "delete"], NoObj), obj, v)
    <2> DEFINE s == [t EXCEPT !.method = "delete"]
    <2>1. s \in Task /\ s.p = t.p /\ s.method = "delete" /\ s.existing = NoObj
      BY <1>3, <1>8 DEF Task
    <2> HIDE DEF s
    <2>2. v = FALSE
      BY <1>1, <1>3, <1>8, PredictedWays DEF Foretold
    <2>3. Foretold(s, obj, v) /\ Fulfilled(s.p, obj)
      BY <1>3, <2>1, <2>2, NothingToDo DEF Foretold
    <2>4. Written(s, NoObj, obj, v) /\ Changed(s, NoObj) = v
      BY <1>8, <2>1, <2>2 DEF Written, Changed, exists
    <2>5. Answers(Conclude(s, NoObj), obj, v)
      BY <1>1, <2>1, <2>3, <2>4, AnswerConcludes
    <2> QED
      BY <2>2, <2>5 DEF s
  <1>9. t.p.op = "k8s" /\ t.p.state \in {"present", "patched", "absent"} /\ t.p \in Param
    BY <1>0, <1>1, <1>3
  <1>10. ASSUME Puts(t.p), ~t.p.apply, obj = NoObj, t.p.state = "patched"
         PROVE  v = FALSE
    BY <1>3, <1>9, <1>10, PredictedWays DEF Foretold
  <1>11. t.p.impl = "service" \/ t.p.state # "patched" \/ obj = NoObj \/ t.p.apply
            => Answers(perform_action(t), obj, v)
    <2>1. CASE t.p.state = "absent" /\ obj # NoObj
      <3>1. Deletes(t.p) /\ perform_action(t) = [t EXCEPT !.pc = "delete", !.method = "delete"]
        BY <1>3, <1>9, <2>1 DEF perform_action, exists, Deletes
      <3> QED
        BY <1>6, <2>1, <3>1
    <2>2. CASE t.p.state = "absent" /\ obj = NoObj
      <3>1. Deletes(t.p) /\ perform_action(t) = Conclude([t EXCEPT !.method = "delete"], NoObj)
        BY <1>3, <1>9, <2>2 DEF perform_action, exists, Deletes
      <3> QED
        BY <1>8, <2>2, <3>1
    <2>3. CASE t.p.state # "absent" /\ t.p.apply
      <3>1. Applies(t.p) /\ perform_action(t) = [t EXCEPT !.pc = "apply", !.method = "apply"]
        BY <1>3, <1>9, <2>3 DEF perform_action, exists, Applies, Puts
      <3> QED
        BY <1>6, <2>3, <3>1
    <2>4. CASE t.p.state = "patched" /\ ~t.p.apply /\ obj = NoObj
      <3>1. Puts(t.p) /\ perform_action(t) = Ended([t EXCEPT !.method = "skip"], NoObj, FALSE)
        BY <1>3, <1>9, <2>4 DEF perform_action, exists, Puts
      <3> QED
        BY <1>7, <1>10, <2>4, <3>1
    <2>5. CASE t.p.state = "present" /\ ~t.p.apply /\ obj = NoObj
      <3>1. Puts(t.p) /\ perform_action(t) = [t EXCEPT !.pc = "create", !.method = "create"]
        BY <1>3, <1>9, <2>5 DEF perform_action, exists, Puts
      <3> QED
        BY <1>6, <2>5, <3>1
    <2>6. CASE t.p.state # "absent" /\ ~t.p.apply /\ obj # NoObj /\ t.p.force
      <3>1. perform_action(t) = [t EXCEPT !.pc = "replace", !.method = "replace"]
        BY <1>3, <1>9, <2>6 DEF perform_action, exists
      <3>2. CASE t.p.impl = "service" \/ t.p.state # "patched"
        <4>1. Replaces(t.p)
          BY <1>9, <2>6, <3>2 DEF Replaces, Puts
        <4> QED
          BY <1>6, <2>6, <3>1, <4>1
      <3> QED
        BY <2>6, <3>2
    <2>7. CASE t.p.state # "absent" /\ ~t.p.apply /\ obj # NoObj /\ ~t.p.force
      <3>1. /\ perform_action(t) = [t EXCEPT !.pc = "update", !.method = "update"]
            /\ Patches(t.p)
        BY <1>3, <1>9, <2>7 DEF perform_action, exists, Replaces, Patches, Puts
      <3> QED
        BY <1>6, <2>7, <3>1
    <2> QED
      BY <1>9, <2>1, <2>2, <2>3, <2>4, <2>5, <2>6, <2>7
  <1>12. t.p.impl = "mixin" => Answers(MixinAction(t), obj, v)
    <2>1. CASE t.p.state = "absent" /\ obj = NoObj
      <3>1. /\ MixinAction(t) = Ended([t EXCEPT !.method = "delete"], NoObj, FALSE)
            /\ Deletes(t.p)
        BY <1>3, <1>9, <2>1 DEF MixinAction, exists, Deletes
      <3> QED
        BY <1>7, <1>8, <2>1, <3>1
    <2>2. CASE t.p.state = "patched" /\ obj # NoObj /\ ~t.p.apply /\ t.p.impl = "mixin"
      <3>1. /\ MixinAction(t) = [t EXCEPT !.pc = "update", !.method = "update"]
            /\ Patches(t.p)
        BY <1>3, <1>9, <2>2 DEF MixinAction, exists, Patches, Replaces, Puts
      <3> QED
        BY <1>6, <2>2, <3>1
    <2>3. CASE /\ ~(t.p.state = "absent" /\ obj = NoObj)
               /\ ~(t.p.state = "patched" /\ obj # NoObj /\ ~t.p.apply)
      <3>1. MixinAction(t) = perform_action(t)
        BY <1>3, <1>9, <2>3 DEF MixinAction, exists
      <3> QED
        BY <1>11, <2>3, <3>1
    <2> QED
      BY <2>1, <2>2, <2>3
  <1> QED
    BY <1>0, <1>2, <1>3, <1>4, <1>5, <1>11, <1>12

(* Both kinds of create: nobody else creates the object in between.        *)
LEMMA AnswerCreate ==
  ASSUME ObjectInv, NEW v \in BOOLEAN, Answers(task, obj, v), Create \/ MixinCreate
  PROVE  Answers(task', obj', v)
  <1>0. task.pc = "create" /\ task.pc \in Before
    BY DEF Create, MixinCreate, Before
  <1>1. /\ task \in Task /\ obj = NoObj /\ task.p \in Param /\ task.p.def \in Spec_
        /\ Foretold(task, obj, v) /\ task.method = "create" /\ NoObj \in Maybe
        /\ Object \subseteq Maybe /\ uids \in Nat /\ obj \in Maybe
        /\ Puts(task.p) /\ ~task.p.apply /\ task.p.state = "present"
    BY <1>0, AheadFacts DEF Read, Planned
  <1>2. v = TRUE
    BY <1>1, PredictedWays DEF Foretold
  <1> DEFINE o == Fresh(task.p.def, NoLast)
  <1>3. /\ o \in Object /\ o \in Maybe /\ o.spec = task.p.def /\ o.last = NoLast
        /\ o.deleting = FALSE
    <2>1. o.last = NoLast /\ o.deleting = FALSE
      BY FreshMore
    <2>2. NoLast \in Spec_ \cup {NoLast} /\ task.p.def \in Spec_ /\ uids \in Nat
      BY <1>1
    <2>3. o \in Object /\ o.spec = task.p.def
      BY <2>2, FreshFacts
    <2> QED
      BY <1>1, <2>1, <2>3
  <1> HIDE DEF o
  <1>4. \A i : Changed(task, i) = v
    BY <1>1, <1>2 DEF Changed
  <1>5. Fulfilled(task.p, o) /\ Written(task, o, o, v)
    <2>1. get_delta(o, task.p.def) = {}
      BY <1>3 DEF get_delta
    <2>2. ~Deletes(task.p) /\ ~Applies(task.p) /\ task.p.op = "k8s"
      BY <1>1 DEF Deletes, Applies, Puts
    <2>3. Fulfilled(task.p, o)
      BY <1>1, <1>3, <2>1, <2>2, AsDefined
    <2> QED
      BY <1>1, <1>2, <2>2, <2>3 DEF Written
  <1>6. ~Conflict
    BY <1>1 DEF Conflict
  <1>7. CASE client_side_dry_run(task.p) /\ task' = Conclude(task, o) /\ obj' = obj
    BY <1>1, <1>3, <1>4, <1>7, DryIsCheck, AnswerMadeUp
  <1>8. CASE Write(o, Conclude(task, o))
    BY <1>0, <1>1, <1>3, <1>4, <1>5, <1>8, AnswerWrites
  <1>9. CASE Refused
    BY <1>9, AnswerRefused DEF Refused
  <1> QED
    BY <1>6, <1>7, <1>8, <1>9 DEF Create, MixinCreate, CreateRequest, o

(* A replace                                                               *)
LEMMA AnswerReplace ==
  ASSUME ObjectInv, NEW v \in BOOLEAN, Answers(task, obj, v), ReplaceRequest,
         ~(task.p.force /\ client_side_dry_run(task.p))
  PROVE  Answers(task', obj', v)
  <1>0. task.pc = "replace" /\ task.pc \in Before
    BY DEF ReplaceRequest, Before
  <1>1. /\ task \in Task /\ obj \in Object /\ task.p \in Param /\ task.p.def \in Spec_
        /\ Foretold(task, obj, v) /\ Settled(obj) /\ task.method = "replace"
        /\ task.existing = obj /\ Replaces(task.p) /\ obj # NoObj
    BY <1>0, AheadFacts DEF Read, Planned
  <1>2. ~client_side_dry_run(task.p)
    BY <1>1 DEF Replaces
  <1>3. v <=> (obj.spec # task.p.def \/ obj.last # NoLast)
    BY <1>1, PredictedWays DEF Foretold
  <1> DEFINE o == Stored(obj, task.p.def, NoLast)
  <1>4. /\ o \in Object /\ o.spec = task.p.def /\ o.last = NoLast /\ ~o.deleting
        /\ v => Differs(obj, o)
        /\ ~v => o = obj
    BY <1>1, <1>3, StoredFacts, StoredMore DEF Settled
  <1> HIDE DEF o
  <1>5. Fulfilled(task.p, o)
    <2>1. get_delta(o, task.p.def) = {}
      BY <1>4 DEF get_delta
    <2>2. ~Deletes(task.p) /\ ~Applies(task.p)
      BY <1>1 DEF Replaces, Deletes, Applies, Puts
    <2> QED
      BY <1>1, <1>4, <2>1, <2>2, AsDefined
  <1>6. task.p.op # "info"
    BY <1>1 DEF Replaces, Puts
  <1>7. CASE Write(o, Conclude(task, o))
    BY <1>0, <1>1, <1>4, <1>5, <1>6, <1>7, AnswerStores
  <1>8. CASE task' = Failed(task) /\ obj' = obj
    BY <1>8, AnswerRefused
  <1> QED
    BY <1>2, <1>7, <1>8 DEF ReplaceRequest, o

(* A patch of the object as it was read, be it the first or the second try *)
LEMMA AnswerPatchAhead ==
  ASSUME ObjectInv, NEW v \in BOOLEAN, Answers(task, obj, v),
         task.pc \in {"update", "merge"}, Foretold(task, obj, v), task.existing = obj,
         obj # NoObj, Patches(task.p), task.p.op \in {"k8s", "json_patch"},
         NEW otherwise, PatchRequest(Has(task.p.def), otherwise),
         \/ task.p.op = "k8s" /\ otherwise = [task EXCEPT !.pc = "merge"]
         \/ otherwise = Failed(task)
  PROVE  Answers(task', obj', v)
  <1> DEFINE D == Has(task.p.def)
             q == Patched(obj.spec, D, task.p.def)
             o == Stored(obj, q, obj.last)
             i == [task.existing EXCEPT !.spec = Patched(@, D, task.p.def)]
             r == [task EXCEPT !.pc = "merge"]
  <1>1. /\ task \in Task /\ obj \in Object /\ task.p \in Param /\ task.p.def \in Spec_
        /\ D \in SUBSET Fields /\ Object \subseteq Maybe
        /\ Settled(obj) /\ task.method = "update"
    BY InvFacts DEF Foretold, Planned
  <1>2. v <=> get_delta(obj, task.p.def) # {}
    BY <1>1, PredictedWays DEF Foretold
  <1>3. /\ obj.spec \in Spec_ /\ obj.last \in Spec_ \cup {NoLast} /\ q \in Spec_
    BY <1>1, ObjectFacts, PatchedFacts
  <1>4. /\ v => q # obj.spec
        /\ ~v => q = obj.spec
        /\ \A x \in Object : x.spec = q => get_delta(x, task.p.def) = {}
    <2>1. get_delta(obj, task.p.def) \subseteq D
      BY DEF get_delta
    <2> QED
      BY <1>1, <1>2, <2>1, DeltaFacts
  <1>5. i = [obj EXCEPT !.spec = q]
    OBVIOUS
  <1>6. r.pc = "merge" /\ r.p = task.p /\ r.existing = obj
    BY <1>1 DEF Task
  <1> HIDE DEF D, q, r
  <1>7. /\ o \in Object /\ o # NoObj /\ o.spec = q /\ ~o.deleting
        /\ v => Differs(obj, o)
        /\ ~v => o = obj
    <2>1. o \in Object /\ o.spec = q /\ o # NoObj
      BY <1>1, <1>3, StoredFacts, ObjectFacts
    <2>2. /\ o.deleting = obj.deleting
          /\ q = obj.spec => o = obj
          /\ q # obj.spec => Differs(obj, o)
      BY <1>1, <1>3, StoredMore
    <2> HIDE DEF o
    <2>3. ~obj.deleting
      BY <1>1 DEF Settled
    <2> QED
      BY <1>4, <2>1, <2>2, <2>3
  <1>8. i \in Object /\ i.spec = q /\ i # NoObj /\ (q = obj.spec => i = obj)
    <2>1. i \in Object /\ i.spec = q
      BY <1>1, <1>3, <1>5 DEF Object
    <2>2. q = obj.spec => i = obj
      BY <1>1, <1>5 DEF Object
    <2> QED
      BY <2>1, <2>2, ObjectFacts
  <1> HIDE DEF o, i
  <1>9. Fulfilled(task.p, o)
    <2>1. ~Deletes(task.p) /\ ~Applies(task.p) /\ ~Replaces(task.p)
      BY <1>1 DEF Patches, Replaces, Deletes, Applies, Puts
    <2> QED
      BY <1>1, <1>4, <1>7, <2>1, AsDefined
  <1>10. CASE client_side_dry_run(task.p) /\ task' = Conclude(task, i) /\ obj' = obj
    <2>1. Changed(task, i) = v
      <3>1. Changed(task, i) = ~diff_objects(obj, i) /\ diff_objects(obj, i) \in BOOLEAN
        BY <1>1 DEF Changed, diff_objects
      <3>2. v => Differs(obj, i)
        BY <1>4, <1>8 DEF Differs
      <3>3. ~v => i = obj
        BY <1>4, <1>8
      <3> QED
        BY <1>1, <1>8, <3>1, <3>2, <3>3, DiffFacts
    <2>2. Answers(Conclude(task, i), obj, v)
      BY <1>1, <1>8, <1>10, <2>1, DryIsCheck, AnswerMadeUp
    <2> QED
      BY <1>1, <1>8, <1>10, <2>2
  <1>11. CASE Write(o, Conclude(task, o))
    BY <1>1, <1>7, <1>9, <1>11, AnswerStores
  <1>12. CASE task' = Failed(task) /\ obj' = obj
    BY <1>12, AnswerRefused
  <1>13. CASE task.p.op = "k8s" /\ task' = r /\ obj' \in {obj, o} /\ (task.p.check => obj' = obj)
    <2>1. Retried(r, obj', v) /\ (task.p.check => Foretold(r, obj', v))
      <3>1. CASE obj' = obj
        BY <1>6, <1>13, <3>1 DEF Retried, Foretold
      <3>2. CASE obj' = o /\ obj' # obj
        BY <1>6, <1>7, <1>9, <1>13, <3>2 DEF Retried
      <3> QED
        BY <1>13, <3>1, <3>2
    <2> QED
      BY <1>6, <1>13, <2>1 DEF Answers, Before
  <1>14. CASE WriteOr(o, Conclude(task, o), otherwise)
    BY <1>11, <1>13, <1>14 DEF Write, WriteOr, r
  <1> QED
    BY <1>10, <1>12, <1>13, <1>14 DEF PatchRequest, D, q, o, i, r

(* The second try of a patch whose first was stored with its answer lost:  *)
(* nothing is left to change, and the difference was made.                 *)
LEMMA AnswerPatchAgain ==
  ASSUME ObjectInv, NEW v \in BOOLEAN, Answers(task, obj, v), task.pc = "merge", v,
         task.p.op = "k8s", Patches(task.p), obj # NoObj, Fulfilled(task.p, obj),
         Differs(task.existing, obj), PatchRequest(Has(task.p.def), Failed(task))
  PROVE  Answers(task', obj', v)
  <1> DEFINE D == Has(task.p.def)
             q == Patched(obj.spec, D, task.p.def)
             o == Stored(obj, q, obj.last)
  <1>1. /\ task \in Task /\ obj \in Object /\ task.p \in Param /\ task.p.def \in Spec_
        /\ D \in SUBSET Fields /\ task.method = "update"
    BY InvFacts DEF Planned
  <1>2. ~obj.deleting /\ ~Predicted(task.p, obj)
    BY DEF Fulfilled, Deletes, Patches, Puts
  <1>3. ~task.p.check
    BY <1>2 DEF Answers, Foretold
  <1>4. get_delta(obj, task.p.def) = {}
    BY <1>1, <1>2, PredictedWays
  <1>5. q = obj.spec
    BY <1>1, <1>4, DeltaFacts
  <1>6. o = obj
    BY <1>1, <1>5, ObjectFacts, StoredMore
  <1>7. CASE Write(o, Conclude(task, o))
    BY <1>1, <1>2, <1>6, <1>7, AnswerStores
  <1>8. CASE task' = Failed(task) /\ obj' = obj
    BY <1>8, AnswerRefused
  <1> QED
    BY <1>3, <1>7, <1>8 DEF PatchRequest, Write, client_side_dry_run

(* A patch, tried twice by k8s and once by k8s_json_patch                  *)
LEMMA AnswerPatch ==
  ASSUME ObjectInv, NEW v \in BOOLEAN, Answers(task, obj, v),
         \/ task.p.op = "k8s" /\ PatchRequests(Has(task.p.def))
         \/ JsonPatch
  PROVE  Answers(task', obj', v)
  <1>1. CASE task.pc = "update"
    <2>1. task.p.op \in {"k8s", "json_patch"}
      BY DEF JsonPatch
    <2>2. /\ Foretold(task, obj, v) /\ task.existing = obj /\ obj # NoObj /\ Patches(task.p)
      BY <1>1 DEF Answers, Before, Read
    <2> QED
      BY <1>1, <2>1, <2>2, AnswerPatchAhead DEF PatchRequests, JsonPatch
  <1>2. CASE task.pc = "merge"
    <2>1. Retried(task, obj, v) /\ PatchRequest(Has(task.p.def), Failed(task))
      BY <1>2 DEF Answers, PatchRequests, JsonPatch
    <2>2. task.p.op = "k8s" /\ Patches(task.p) /\ obj # NoObj
      BY <2>1 DEF Retried
    <2>3. CASE Foretold(task, obj, v) /\ task.existing = obj
      BY <1>2, <2>1, <2>2, <2>3, AnswerPatchAhead
    <2>4. CASE v /\ Fulfilled(task.p, obj) /\ Differs(task.existing, obj)
      BY <1>2, <2>1, <2>2, <2>4, AnswerPatchAgain
    <2> QED
      BY <2>1, <2>3, <2>4 DEF Retried
  <1> QED
    BY <1>1, <1>2 DEF PatchRequests, JsonPatch

(* A delete: the object is gone, or about to go.                           *)
LEMMA AnswerDelete ==
  ASSUME ObjectInv, NEW v \in BOOLEAN, Answers(task, obj, v), DeleteRequest
  PROVE  Answers(task', obj', v)
  <1>0. task.pc = "delete" /\ task.pc \in Before
    BY DEF DeleteRequest, Before
  <1>1. /\ task \in Task /\ obj \in Object /\ obj \in Maybe /\ task.p \in Param
        /\ Foretold(task, obj, v) /\ task.method = "delete" /\ NoObj \in Maybe
        /\ task.existing = obj /\ Deletes(task.p) /\ obj # NoObj /\ Object \subseteq Maybe
    BY <1>0, AheadFacts DEF Read, Planned
  <1>2. v = TRUE
    BY <1>1, PredictedWays DEF Foretold
  <1>3. \A i : Changed(task, i) = v
    BY <1>1, <1>2 DEF Changed, exists
  <1>4. CASE client_side_dry_run(task.p) /\ task' = Conclude(task, NoObj) /\ obj' = obj
    BY <1>1, <1>3, <1>4, DryIsCheck, AnswerMadeUp
  <1> DEFINE d == [obj EXCEPT !.deleting = TRUE]
  <1>5. d \in Object /\ d \in Maybe /\ d # NoObj /\ d.deleting
    <2>1. d \in Object /\ d.deleting
      BY <1>1 DEF Object
    <2> QED
      BY <1>1, <2>1, ObjectFacts
  <1> HIDE DEF d
  <1>6. ASSUME NEW o \in {NoObj, d}, Write(o, Conclude(task, o))
        PROVE  Answers(task', obj', v)
    <2>1. o \in Maybe
      BY <1>1, <1>5
    <2>2. Fulfilled(task.p, o)
      BY <1>1, <1>5, PredictedWays DEF Fulfilled
    <2>3. Written(task, o, o, v)
      BY <1>1, <1>2 DEF Written, exists
    <2> QED
      BY <1>0, <1>1, <1>3, <1>6, <2>1, <2>2, <2>3, AnswerWrites
  <1>7. CASE task' = Failed(task) /\ obj' = obj
    BY <1>7, AnswerRefused
  <1> QED
    BY <1>4, <1>6, <1>7 DEF DeleteRequest, d

(* What is applied leaves nothing to apply, and something is applied only  *)
(* if that makes a difference.                                             *)
LEMMA ApplyOnce ==
  ASSUME NEW o \in Object, NEW def \in Spec_
  PROVE  /\ \A x \in Object : x.last = def /\ get_delta(x, def) = {} => NothingToApply(x, def)
         /\ get_delta(o, def) \subseteq apply_patch(o, def)
         /\ ~NothingToApply(o, def) /\ o.last = def => get_delta(o, def) # {}
  <1>1. def # NoLast
    BY ParamsAssumption
  <1>2. get_deletions(def, def) = {}
    BY DEF get_deletions
  <1>3. \A x \in Object : x.last = def => apply_patch(x, def) = get_delta(x, def)
    BY <1>1, <1>2 DEF apply_patch
  <1>4. get_delta(o, def) \subseteq apply_patch(o, def)
    BY DEF apply_patch, get_delta
  <1> QED
    BY <1>3, <1>4 DEF NothingToApply

(* What the client makes up for apply differs where a patch would.         *)
LEMMA DryApplyAnswer ==
  ASSUME uids \in Nat, NEW o \in Maybe, NEW def \in Spec_
  PROVE  /\ o = NoObj \/ ~NothingToApply(o, def) => Differs(o, DryApply(o, o, def))
         /\ o # NoObj /\ NothingToApply(o, def) => DryApply(o, o, def) = o
  <1>1. DryApply(o, o, def) # NoObj
    BY DryApplyFacts, ObjectFacts
  <1>2. CASE o = NoObj
    BY <1>1, <1>2 DEF Differs
  <1>3. CASE o # NoObj /\ NothingToApply(o, def)
    <2>1. o \in Object /\ o.spec \in Spec_ /\ Has(o.spec) \in SUBSET Fields
      BY <1>3, ObjectFacts DEF Maybe, Has
    <2> DEFINE q == Patched(o.spec, Has(o.spec), o.spec)
    <2>2. q = o.spec
      <3>1. q \in Spec_ /\ \A f \in Fields : q[f] = o.spec[f]
        BY <2>1, PatchedFacts
      <3> QED
        BY <2>1, <3>1, SpecEquality
    <2>3. DryApply(o, o, def) = [o EXCEPT !.spec = q]
      BY <1>3 DEF DryApply
    <2>4. [o EXCEPT !.spec = o.spec] = o
      BY <2>1 DEF Object
    <2> QED
      BY <1>3, <2>2, <2>3, <2>4
  <1>4. CASE o # NoObj /\ ~NothingToApply(o, def)
    <2> DEFINE P == apply_patch(o, def)
               q == Patched(o.spec, P, def)
               d == [o EXCEPT !.spec = q, !.last = def]
    <2>1. o \in Object /\ P \in SUBSET Fields
      BY <1>4, ApplyPatchFacts DEF Maybe
    <2>2. o.last # def \/ q # o.spec
      <3>1. get_delta(o, def) \subseteq P
        BY <2>1, ApplyOnce
      <3>2. get_delta(o, def) # {} => q # o.spec
        BY <2>1, <3>1, DeltaFacts
      <3>3. o.last = def => get_delta(o, def) # {}
        BY <1>4, <2>1, ApplyOnce
      <3> QED
        BY <3>2, <3>3
    <2>3. DryApply(o, o, def) = d
      BY <1>4 DEF DryApply
    <2> HIDE DEF q
    <2>4. d.spec = q /\ d.last = def
      BY <2>1 DEF Object
    <2> HIDE DEF d
    <2> QED
      BY <1>1, <1>4, <2>2, <2>3, <2>4 DEF Differs
  <1> QED
    BY <1>2, <1>3, <1>4

(* The second get of apply finds what the first get found.                 *)
LEMMA AnswerApplyGet ==
  ASSUME ObjectInv, NEW v \in BOOLEAN, Answers(task, obj, v), ApplyGet
  PROVE  Answers(task', obj', v)
  <1>0. task.pc = "apply" /\ task.pc \in Before /\ obj' = obj
    BY DEF ApplyGet, Before
  <1>1. /\ task \in Task /\ obj \in Maybe /\ task.p \in Param /\ task.p.def \in Spec_
        /\ Foretold(task, obj, v) /\ task.method = "apply" /\ task.existing = obj
        /\ Applies(task.p) /\ uids \in Nat /\ Object \subseteq Maybe
    BY <1>0, AheadFacts DEF Read, Planned
  <1> DEFINE t == [task EXCEPT !.actual = obj, !.pc = "apply_put"]
             i == DryApply(obj, obj, task.p.def)
  <1>2. /\ t \in Task /\ t.pc = "apply_put" /\ t.actual = obj /\ t.method = "apply"
        /\ t.p = task.p /\ t.existing = obj
    BY <1>1 DEF Task, Maybe
  <1>3. \/ task' = Failed(task)
        \/ client_side_dry_run(task.p) /\ task' = Conclude(t, i)
        \/ task' = t
    BY <1>1, <1>2 DEF ApplyGet
  <1>4. Foretold(t, obj, v)
    BY <1>1, <1>2 DEF Foretold
  <1>5. v <=> (obj = NoObj \/ ~NothingToApply(obj, task.p.def))
    BY <1>1, PredictedWays DEF Foretold, Applies
  <1>6. i \in Maybe
    BY <1>1, DryApplyFacts
  <1>7. (v => Differs(obj, i)) /\ (~v => i = obj)
    BY <1>1, <1>5, DryApplyAnswer
  <1> HIDE DEF t, i
  <1>8. CASE task' = t
    <2>1. Read(t, obj) /\ t.pc \in Before
      BY <1>1, <1>2 DEF Read, Before
    <2> QED
      BY <1>0, <1>2, <1>4, <1>8, <2>1, AnswerAhead
  <1>9. CASE client_side_dry_run(task.p) /\ task' = Conclude(t, i)
    <2>1. Changed(t, i) = v
      <3>1. Changed(t, i) = ~diff_objects(obj, i) /\ diff_objects(obj, i) \in BOOLEAN
        BY <1>2 DEF Changed, diff_objects
      <3> QED
        BY <1>1, <1>6, <1>7, <3>1, DiffFacts
    <2>2. Answers(Conclude(t, i), obj, v)
      BY <1>2, <1>4, <1>6, <1>9, <2>1, DryIsCheck, AnswerMadeUp
    <2> QED
      BY <1>0, <1>2, <1>9, <2>2
  <1>10. CASE task' = Failed(task)
    BY <1>0, <1>10, AnswerRefused
  <1> QED
    BY <1>3, <1>8, <1>9, <1>10

(* The write of apply                                                      *)
LEMMA AnswerApplyPut ==
  ASSUME ObjectInv, NEW v \in BOOLEAN, Answers(task, obj, v), ApplyPut
  PROVE  Answers(task', obj', v)
  <1>0. task.pc = "apply_put" /\ task.pc \in Before
    BY DEF ApplyPut, Before
  <1>1. /\ task \in Task /\ obj \in Maybe /\ task.p \in Param /\ task.p.def \in Spec_
        /\ Foretold(task, obj, v) /\ Settled(obj) /\ task.method = "apply"
        /\ task.existing = obj /\ task.actual = obj /\ uids \in Nat
        /\ Applies(task.p) /\ (obj # NoObj => obj \in Object)
    BY <1>0, AheadFacts DEF Read, Planned
  <1>2. /\ task.p.op = "k8s" /\ ~Deletes(task.p) /\ ~Replaces(task.p)
        /\ task.p.op # "info"
    BY <1>1 DEF Applies, Puts, Deletes, Replaces
  <1>3. v <=> (obj = NoObj \/ ~NothingToApply(obj, task.p.def))
    BY <1>1, PredictedWays DEF Foretold, Applies
  <1>4. ASSUME NEW o \in Object, o.last = task.p.def, get_delta(o, task.p.def) = {},
               ~o.deleting
        PROVE  Fulfilled(task.p, o)
    <2>1. NothingToApply(o, task.p.def)
      BY <1>1, <1>4, ApplyOnce
    <2> QED
      BY <1>1, <1>2, <1>4, <2>1, AsDefined
  <1>5. CASE Refused
    BY <1>5, AnswerRefused DEF Refused
  <1>6. CASE obj = NoObj /\ ~Refused
    <2> DEFINE o == Fresh(task.p.def, task.p.def)
    <2>1. Write(o, Conclude(task, o))
      BY <1>1, <1>6 DEF ApplyPut
    <2>2. /\ o \in Object /\ o.spec = task.p.def /\ o.last = task.p.def /\ ~o.deleting
          /\ o # NoObj
      <3>1. o \in Object /\ o.spec = task.p.def
        BY <1>1, FreshFacts
      <3>2. o.last = task.p.def /\ o.deleting = FALSE
        BY FreshMore
      <3> QED
        BY <3>1, <3>2, ObjectFacts
    <2> HIDE DEF o
    <2>3. get_delta(o, task.p.def) = {}
      BY <2>2 DEF get_delta
    <2>4. Fulfilled(task.p, o)
      BY <1>4, <2>2, <2>3
    <2>5. v /\ Differs(task.existing, o)
      BY <1>1, <1>3, <1>6, <2>2 DEF Differs
    <2> QED
      BY <1>0, <1>1, <1>2, <2>1, <2>2, <2>4, <2>5, AnswerStores
  <1>7. CASE obj # NoObj /\ ~Refused /\ NothingToApply(obj, task.p.def)
    <2>1. task' = Conclude(task, obj) /\ obj' = obj
      BY <1>1, <1>7 DEF ApplyPut
    <2>2. v = FALSE /\ Fulfilled(task.p, obj)
      BY <1>1, <1>3, <1>7, NothingToDo
    <2>3. Changed(task, obj) = v
      <3>1. Changed(task, obj) = ~diff_objects(obj, obj)
        BY <1>1 DEF Changed
      <3> QED
        BY <1>1, <2>2, <3>1, DiffFacts
    <2>4. Written(task, obj, obj, v)
      <3>1. obj # NoObj /\ ~obj.deleting /\ Compared(task, obj, obj) = obj
        BY <1>1, <1>7 DEF Settled, Compared
      <3> QED
        BY <1>1, <1>2, <2>2, <3>1 DEF Written
    <2> QED
      BY <1>1, <2>1, <2>2, <2>3, <2>4, AnswerConcludes
  <1>8. CASE obj # NoObj /\ ~Refused /\ ~NothingToApply(obj, task.p.def)
    <2> DEFINE P == apply_patch(obj, task.p.def)
               q == Patched(obj.spec, P, task.p.def)
               o == Stored(obj, q, task.p.def)
    <2>1. Write(o, Conclude(task, o))
      BY <1>1, <1>8 DEF ApplyPut
    <2>2. obj \in Object /\ P \in SUBSET Fields /\ get_delta(obj, task.p.def) \subseteq P
      BY <1>1, <1>8, ApplyPatchFacts, ApplyOnce
    <2>3. q \in Spec_
      BY <1>1, <2>2, ObjectFacts, PatchedFacts
    <2>4. /\ get_delta(obj, task.p.def) # {} => q # obj.spec
          /\ \A x \in Object : x.spec = q => get_delta(x, task.p.def) = {}
      BY <1>1, <2>2, DeltaFacts
    <2>5. obj.last = task.p.def => get_delta(obj, task.p.def) # {}
      BY <1>1, <1>8, <2>2, ApplyOnce
    <2> HIDE DEF P, q
    <2>6. o \in Object /\ o.spec = q
      BY <1>1, <2>2, <2>3, StoredFacts
    <2>7. /\ o.last = task.p.def /\ o.deleting = obj.deleting
          /\ q # obj.spec \/ task.p.def # obj.last => Differs(obj, o)
      BY <1>1, <2>2, <2>3, StoredMore
    <2> HIDE DEF o
    <2>8. Fulfilled(task.p, o) /\ ~o.deleting
      BY <1>1, <1>4, <1>8, <2>4, <2>6, <2>7 DEF Settled
    <2>9. v /\ Differs(task.existing, o)
      BY <1>1, <1>3, <1>8, <2>4, <2>5, <2>7
    <2> QED
      BY <1>0, <1>1, <1>2, <2>1, <2>6, <2>8, <2>9, AnswerStores
  <1> QED
    BY <1>5, <1>6, <1>7, <1>8

(* Both gets of k8s_scale                                                  *)
LEMMA AnswerScaleReads ==
  ASSUME ObjectInv, NEW v \in BOOLEAN, Answers(task, obj, v), ScaleRead \/ ScaleReget
  PROVE  Answers(task', obj', v)
  <1>0. /\ task.pc \in {"retrieve", "reget"} /\ task.pc \in Before /\ obj' = obj
        /\ task.pc = "reget" <=> ScaleReget
    BY DEF ScaleRead, ScaleReget, Refused, Before
  <1>1. /\ task \in Task /\ obj \in Maybe /\ task.p \in Param /\ task.p.def \in Spec_
        /\ Foretold(task, obj, v) /\ Settled(obj) /\ Read(task, obj)
        /\ (obj # NoObj => obj \in Object)
    BY <1>0, AheadFacts
  <1>2. task.p.op = "scale" /\ Patches(task.p)
    BY <1>0, <1>1 DEF ScaleRead, Read, Patches
  <1> DEFINE Agree == \A f \in Has(task.p.expect) : obj.spec[f] = task.p.expect[f]
  <1>3. obj # NoObj => (v <=> (get_delta(obj, task.p.def) # {} /\ Agree))
    BY <1>1, <1>2, PredictedWays DEF Foretold
  <1>4. CASE Refused
    BY <1>4, AnswerRefused DEF Refused
  <1>5. ASSUME NEW t \in Task, t.p = task.p, v = FALSE
        PROVE  Answers(Ended(t, obj, FALSE), obj, v)
    <2>1. Foretold(t, obj, FALSE) /\ Fulfilled(t.p, obj)
      BY <1>1, <1>5, NothingToDo DEF Foretold
    <2> QED
      BY <1>1, <1>5, <2>1, AnswerEnds
  <1>6. CASE ScaleRead /\ ~Refused
    <2> DEFINE e == [task EXCEPT !.method = "skip"]
               g == [task EXCEPT !.pc = "reget", !.method = "update", !.actual = obj]
    <2>1. /\ obj # NoObj
          /\ \/ ~Agree /\ task' = Ended(e, obj, FALSE)
             \/ Agree /\ task' = g
      BY <1>6 DEF ScaleRead
    <2>2. e \in Task /\ e.p = task.p
      BY <1>1 DEF Task
    <2>3. g.pc = "reget" /\ g.p = task.p /\ g.actual = obj
      BY <1>1 DEF Task
    <2> HIDE DEF e, g
    <2>4. CASE ~Agree /\ task' = Ended(e, obj, FALSE)
      <3>1. v = FALSE
        BY <1>3, <2>1, <2>4
      <3> QED
        BY <1>0, <1>5, <2>2, <2>4, <3>1
    <2>5. CASE Agree /\ task' = g
      <3>1. Read(g, obj) /\ Foretold(g, obj, v) /\ g.pc \in Before
        BY <1>1, <1>2, <2>1, <2>3, <2>5 DEF Read, Foretold, Before
      <3> QED
        BY <1>0, <2>3, <2>5, <3>1, AnswerAhead
    <2> QED
      BY <2>1, <2>4, <2>5
  <1>7. CASE ScaleReget /\ ~Refused
    <2> DEFINE t == [task EXCEPT !.existing = obj]
               q == Patched(obj.spec, Has(task.p.def), task.p.def)
               i == [obj EXCEPT !.spec = q]
               g == [t EXCEPT !.pc = "update"]
    <2>1. obj # NoObj /\ obj \in Object /\ Agree /\ task.actual = obj
      BY <1>0, <1>1, <1>7 DEF ScaleReget, Read
    <2>2. t \in Task /\ t.p = task.p /\ t.existing = obj
      BY <1>1 DEF Task, Maybe
    <2>3. \/ get_delta(obj, task.p.def) = {} /\ task' = Ended(t, obj, FALSE)
          \/ /\ get_delta(obj, task.p.def) # {} /\ task.p.check
             /\ task' = Ended(t, i, ~diff_objects(obj, i))
          \/ get_delta(obj, task.p.def) # {} /\ ~task.p.check /\ task' = g
      BY <1>7, <2>1, <2>2 DEF ScaleReget
    <2>4. g.pc = "update" /\ g.p = task.p /\ g.existing = obj
      BY <2>2 DEF Task
    <2>5. q \in Spec_ /\ (get_delta(obj, task.p.def) # {} => q # obj.spec)
      <3>1. get_delta(obj, task.p.def) \subseteq Has(task.p.def) /\ Has(task.p.def) \in SUBSET Fields
        BY DEF get_delta, Has
      <3>2. q \in Spec_
        BY <1>1, <2>1, <3>1, ObjectFacts, PatchedFacts
      <3> QED
        BY <1>1, <2>1, <3>1, <3>2, DeltaFacts
    <2> HIDE DEF t, q, g
    <2>6. CASE get_delta(obj, task.p.def) = {} /\ task' = Ended(t, obj, FALSE)
      <3>1. v = FALSE
        BY <1>3, <2>1, <2>6
      <3> QED
        BY <1>0, <1>5, <2>2, <2>6, <3>1
    <2>7. CASE /\ get_delta(obj, task.p.def) # {} /\ task.p.check
               /\ task' = Ended(t, i, ~diff_objects(obj, i))
      <3>1. i \in Object /\ i.spec = q
        BY <2>1, <2>5 DEF Object
      <3> HIDE DEF i
      <3>2. i \in Maybe /\ Differs(obj, i)
        BY <2>5, <2>7, <3>1, ObjectFacts DEF Maybe, Differs
      <3>3. diff_objects(obj, i) = FALSE /\ v = TRUE
        <4>1. ~diff_objects(obj, i) /\ diff_objects(obj, i) \in BOOLEAN
          BY <1>1, <3>2, DiffFacts DEF diff_objects
        <4> QED
          BY <1>3, <2>1, <2>7, <4>1
      <3>4. Foretold(t, obj, v)
        BY <1>1, <2>2 DEF Foretold
      <3>5. task' = Ended(t, i, v)
        BY <2>7, <3>3
      <3>6. Answers(Ended(t, i, v), obj, v)
        BY <2>2, <2>7, <3>2, <3>4, AnswerEnds
      <3> QED
        BY <1>0, <2>2, <3>5, <3>6
    <2>8. CASE get_delta(obj, task.p.def) # {} /\ ~task.p.check /\ task' = g
      <3>1. Predicted(task.p, obj) /\ Foretold(g, obj, v) /\ g.pc \in Before
        BY <1>1, <1>3, <2>1, <2>4, <2>8 DEF Foretold, Before
      <3>2. Read(g, obj)
        BY <1>2, <2>1, <2>4, <2>8, <3>1 DEF Read
      <3> QED
        BY <1>0, <2>4, <2>8, <3>1, <3>2, AnswerAhead
    <2> QED
      BY <2>3, <2>6, <2>7, <2>8
  <1> QED
    BY <1>4, <1>6, <1>7

(* The patch of the scale                                                  *)
LEMMA AnswerScalePatch ==
  ASSUME ObjectInv, NEW v \in BOOLEAN, Answers(task, obj, v), ScalePatch
  PROVE  Answers(task', obj', v)
  <1>0. task.pc = "update" /\ task.pc \in Before /\ task.p.op = "scale"
    BY DEF ScalePatch, Before
  <1>1. /\ task \in Task /\ obj \in Object /\ obj # NoObj /\ task.p \in Param
        /\ task.p.def \in Spec_ /\ Settled(obj) /\ task.method = "update"
        /\ task.existing = obj /\ Patches(task.p) /\ v = TRUE /\ Predicted(task.p, obj)
        /\ ~task.p.check /\ Has(task.p.def) \in SUBSET Fields
    BY <1>0, AheadFacts DEF Read, Planned
  <1>2. get_delta(obj, task.p.def) # {}
    BY <1>0, <1>1, PredictedWays
  <1> DEFINE q == Patched(obj.spec, Has(task.p.def), task.p.def)
             o == Stored(obj, q, obj.last)
             t == [task EXCEPT !.pc = "after"]
             s == [t EXCEPT !.wrote = o]
  <1>3. Refused \/ Write(o, t)
    BY DEF ScalePatch
  <1>4. /\ q \in Spec_ /\ q # obj.spec
        /\ obj.last \in Spec_ \cup {NoLast}
        /\ \A x \in Object : x.spec = q => get_delta(x, task.p.def) = {}
    <2>1. get_delta(obj, task.p.def) \subseteq Has(task.p.def)
      BY DEF get_delta
    <2>2. q \in Spec_ /\ obj.last \in Spec_ \cup {NoLast}
      BY <1>1, ObjectFacts, PatchedFacts
    <2> QED
      BY <1>1, <1>2, <2>1, <2>2, DeltaFacts
  <1> HIDE DEF q
  <1>5. o \in Object /\ o.spec = q
    BY <1>1, <1>4, StoredFacts
  <1>6. Differs(obj, o) /\ o.deleting = obj.deleting
    BY <1>1, <1>4, StoredMore
  <1> HIDE DEF o
  <1>7. /\ s.pc = "after" /\ s.p = task.p /\ s.method = "update" /\ s.existing = obj
       
    BY <1>1 DEF Task
  <1>8. Write(o, t) => obj' = o /\ task' \in {s, Failed(task)}
    BY <1>1 DEF Write, WriteOr
  <1> HIDE DEF s, t
  <1>9. o # NoObj /\ ~o.deleting
    BY <1>1, <1>5, <1>6, ObjectFacts DEF Settled
  <1>10. Fulfilled(task.p, o)
    <2>1. ~Deletes(task.p) /\ ~Replaces(task.p) /\ ~Applies(task.p)
      BY <1>0 DEF Deletes, Replaces, Applies, Puts
    <2> QED
      BY <1>1, <1>4, <1>5, <1>9, <2>1, AsDefined
  <1>11. Answers(s, o, v)
    <2>1. Written(s, s.instance, o, v)
      BY <1>0, <1>1, <1>6, <1>7, <1>9 DEF Written, Compared
    <2> QED
      BY <1>0, <1>1, <1>7, <1>10, <2>1 DEF Answers, Before
  <1>12. CASE Refused
    BY <1>12, AnswerRefused DEF Refused
  <1>13. CASE Write(o, t) /\ task' = Failed(task)
    BY <1>1, <1>13, AnswerFails
  <1>14. CASE Write(o, t) /\ task' = s
    BY <1>7, <1>8, <1>11, <1>14
  <1> QED
    BY <1>3, <1>8, <1>12, <1>13, <1>14

(* The get after it, whose answer has the new count                        *)
LEMMA AnswerScaleAfter ==
  ASSUME ObjectInv, NEW v \in BOOLEAN, Answers(task, obj, v), ScaleAfter
  PROVE  Answers(task', obj', v)
  <1>0. task.pc = "after" /\ obj' = obj
    BY DEF ScaleAfter
  <1>1. /\ task \in Task /\ obj \in Maybe /\ task.existing \in Maybe
        /\ task.p.op = "scale" /\ task.method = "update"
        /\ task.p.check => Foretold(task, obj, v)
        /\ ~task.p.check => Fulfilled(task.p, obj)
        /\ Written(task, task.instance, obj, v)
    BY <1>0, InvFacts, TaskFacts DEF Answers
  <1>2. Written(task, obj, obj, v)
    BY <1>1 DEF Written, Compared
  <1>3. Changed(task, obj) = v
    <2>1. (v => Differs(task.existing, obj)) /\ (~v => obj = task.existing)
      BY <1>1 DEF Written, Compared
    <2>2. /\ Changed(task, obj) = ~diff_objects(task.existing, obj)
          /\ diff_objects(task.existing, obj) \in BOOLEAN
      BY <1>1 DEF Changed, diff_objects
    <2> QED
      BY <1>1, <2>1, <2>2, DiffFacts
  <1>4. Answers(Conclude(task, obj), obj, v)
    BY <1>1, <1>2, <1>3, AnswerConcludes
  <1>5. CASE task' = Conclude(task, obj)
    BY <1>0, <1>1, <1>4, <1>5
  <1>6. CASE task' = Failed(task)
    BY <1>0, <1>6, AnswerRefused
  <1> QED
    BY <1>5, <1>6 DEF ScaleAfter

(* The get of k8s_json_patch                                               *)
LEMMA AnswerJsonPatchRead ==
  ASSUME ObjectInv, NEW v \in BOOLEAN, Answers(task, obj, v), JsonPatchRead
  PROVE  Answers(task', obj', v)
  <1>0. /\ task.pc = "retrieve" /\ task.pc \in Before /\ obj' = obj
        /\ task.p.op = "json_patch"
    BY DEF JsonPatchRead, Refused, Before
  <1>1. task \in Task /\ Foretold(task, obj, v)
    BY <1>0, AheadFacts
  <1>2. CASE Refused
    BY <1>2, AnswerRefused DEF Refused
  <1> DEFINE g == [task EXCEPT !.existing = obj, !.pc = "update", !.method = "update"]
  <1>3. g.pc = "update" /\ g.existing = obj /\ g.p = task.p
    BY <1>1 DEF Task
  <1>4. Refused \/ (obj # NoObj /\ task' = g)
    BY DEF JsonPatchRead
  <1> HIDE DEF g
  <1>5. CASE obj # NoObj /\ task' = g
    <2>1. Foretold(g, obj, v) /\ Read(g, obj) /\ g.pc \in Before
      BY <1>0, <1>1, <1>3, <1>5 DEF Foretold, Read, Patches, Before
    <2> QED
      BY <1>0, <1>3, <1>5, <2>1, AnswerAhead
  <1> QED
    BY <1>2, <1>4, <1>5

(* k8s_info answers no change.                                             *)
LEMMA AnswerFind ==
  ASSUME ObjectInv, NEW v \in BOOLEAN, Answers(task, obj, v), Find
  PROVE  Answers(task', obj', v)
  <1>0. task.pc = "find" /\ task.pc \in Before /\ obj' = obj
    BY DEF Find, Before
  <1>1. /\ task \in Task /\ obj \in Maybe /\ NoObj \in Maybe /\ task.p \in Param
        /\ Foretold(task, obj, v) /\ task.p.op = "info" /\ task.method = "none"
    BY <1>0, AheadFacts DEF Read, Planned
  <1>2. v = FALSE /\ Fulfilled(task.p, obj)
    BY <1>1, PredictedWays, NothingToDo DEF Foretold
  <1>3. ASSUME NEW t \in Task, t.p = task.p, NEW i \in Maybe
        PROVE  Answers(Ended(t, i, FALSE), obj, v)
    BY <1>1, <1>2, <1>3, AnswerEnds DEF Foretold
  <1> DEFINE w == [task EXCEPT !.pc = "wait"]
             k == [task EXCEPT !.method = "skip"]
  <1>4. /\ w.pc = "wait" /\ w.p = task.p /\ w.method = "none"
        /\ k \in Task /\ k.p = task.p
    BY <1>1 DEF Task
  <1>5. \/ task' = task
        \/ task' = w
        \/ task' = Ended(task, obj, FALSE)
        \/ task' = Ended(k, NoObj, FALSE)
        \/ task' = Failed(task)
    BY DEF Find
  <1> HIDE DEF w, k
  <1>6. CASE task' = task
    BY <1>0, <1>6
  <1>7. CASE task' = w
    <2>1. Written(w, w.instance, obj, v)
      BY <1>1, <1>2, <1>4 DEF Written
    <2>2. Answers(w, obj, v)
      BY <1>1, <1>2, <1>4, <2>1 DEF Answers, Before, Foretold
    <2> QED
      BY <1>0, <1>4, <1>7, <2>2
  <1>8. CASE task' = Ended(task, obj, FALSE)
    <2>1. Answers(Ended(task, obj, FALSE), obj, v)
      BY <1>1, <1>3
    <2> QED
      BY <1>0, <1>1, <1>8, <2>1
  <1>9. CASE task' = Ended(k, NoObj, FALSE)
    <2>1. Answers(Ended(k, NoObj, FALSE), obj, v)
      BY <1>1, <1>3, <1>4
    <2> QED
      BY <1>0, <1>4, <1>9, <2>1
  <1>10. CASE task' = Failed(task)
    BY <1>0, <1>10, AnswerRefused
  <1> QED
    BY <1>5, <1>6, <1>7, <1>8, <1>9, <1>10

(* The turns of both waiters                                               *)
LEMMA AnswerWaits ==
  ASSUME ObjectInv, NEW v \in BOOLEAN, Answers(task, obj, v),
         WaitGet \/ WaitError \/ MixinWaitGet \/ WaitTimeout
  PROVE  Answers(task', obj', v)
  <1>0. task \in Task /\ obj \in Maybe /\ task.pc = "wait" /\ obj' = obj
    BY InvFacts DEF WaitGet, WaitError, MixinWaitGet, WaitTimeout
  <1> DEFINE s == [task EXCEPT !.polled = TRUE]
  <1>1. \/ task' = task
        \/ task' = Failed(task)
        \/ task' = s
        \/ task' = Waited(task, obj)
    BY DEF WaitGet, WaitError, MixinWaitGet, WaitTimeout, exists
  <1>2. /\ s.pc = task.pc /\ s.p = task.p /\ s.method = task.method
        /\ s.existing = task.existing /\ s.instance = task.instance
    BY <1>0 DEF Task
  <1> HIDE DEF s
  <1>3. CASE task' = task
    BY <1>0, <1>3
  <1>4. CASE task' = Failed(task)
    BY <1>0, <1>4, AnswerRefused
  <1>5. CASE task' = s
    <2>1. Written(s, s.instance, obj, v)
      BY <1>0, <1>2 DEF Answers, Written, Compared
    <2>2. Answers(s, obj, v)
      BY <1>0, <1>2, <2>1 DEF Answers, Before, Foretold
    <2> QED
      BY <1>0, <1>2, <1>5, <2>2
  <1>6. CASE task' = Waited(task, obj)
    BY <1>0, <1>6, AnswerWaited
  <1> QED
    BY <1>1, <1>3, <1>4, <1>5, <1>6

----------------------------------------------------------------------------
(* Who disturbs the task *)

(* A task that has failed is as calm as it was;                            *)
LEMMA CalmFails == ASSUME NEW t \in Task PROVE Failed(t).calm = t.calm
  BY DEF Failed, Task

(* so is one that has ended well,                                          *)
LEMMA CalmEnds == ASSUME NEW t \in Task, NEW i, NEW c PROVE Ended(t, i, c).calm = t.calm
  BY DEF Ended, Task

(* and one that concludes, also when it has taken note of its write.       *)
LEMMA CalmConcludes ==
  ASSUME NEW t \in Task, NEW i
  PROVE  /\ Conclude(t, i).calm = t.calm
         /\ \A w : [Conclude(t, i) EXCEPT !.wrote = w].calm = t.calm
  <1>1. ASSUME NEW w
        PROVE  [Conclude(t, i) EXCEPT !.wrote = w].calm = t.calm
    <2>1. \A c : [Ended(t, i, c) EXCEPT !.wrote = w].calm = t.calm
      BY DEF Ended, Task
    <2>2. [[t EXCEPT !.pc = "wait", !.instance = i] EXCEPT !.wrote = w].calm = t.calm
      BY DEF Task
    <2> QED
      BY <2>1, <2>2 DEF Conclude
  <1>2. Conclude(t, i).calm = t.calm
    <2>1. Ended(t, i, Changed(t, i)).calm = t.calm
      BY CalmEnds
    <2>2. [t EXCEPT !.pc = "wait", !.instance = i].calm = t.calm
      BY DEF Task
    <2> QED
      BY <2>1, <2>2 DEF Conclude
  <1> QED
    BY <1>1, <1>2

(* A write that concludes                                                  *)
LEMMA CalmWrites ==
  ASSUME task \in Task, NEW o, NEW i, Write(o, Conclude(task, i))
  PROVE  task'.calm = task.calm
  <1>1. Failed(task).calm = task.calm
    BY CalmFails
  <1>2. \A w : [Conclude(task, i) EXCEPT !.wrote = w].calm = task.calm
    BY CalmConcludes
  <1> QED
    BY <1>1, <1>2 DEF Write, WriteOr

(* What was chosen by what was read                                        *)
LEMMA CalmChooses ==
  ASSUME NEW t \in Task
  PROVE  perform_action(t).calm = t.calm /\ MixinAction(t).calm = t.calm
  <1> DEFINE d == [t EXCEPT !.method = "delete"]
             k == [t EXCEPT !.method = "skip"]
             Goes(x) == [t EXCEPT !.pc = x, !.method = x]
             Xs == {"delete", "apply", "create", "replace", "update"}
  <1>1. /\ perform_action(t) \in {Goes(x) : x \in Xs} \cup {Conclude(d, NoObj), Ended(k, NoObj, FALSE)}
        /\ MixinAction(t) \in {Ended(d, NoObj, FALSE), Goes("update"), perform_action(t)}
    BY DEF perform_action, MixinAction
  <1>2. d \in Task /\ d.calm = t.calm /\ k \in Task /\ k.calm = t.calm
    BY DEF Task
  <1>3. \A x \in Xs : Goes(x).calm = t.calm
    BY DEF Task
  <1> HIDE DEF d, k
  <1>4. /\ Conclude(d, NoObj).calm = t.calm /\ Ended(k, NoObj, FALSE).calm = t.calm
        /\ Ended(d, NoObj, FALSE).calm = t.calm
    <2>1. Ended(k, NoObj, FALSE).calm = k.calm /\ Ended(d, NoObj, FALSE).calm = d.calm
      BY <1>2, CalmEnds
    <2> QED
      BY <1>2, <2>1, CalmConcludes
  <1> HIDE DEF Goes
  <1>5. perform_action(t).calm = t.calm
    BY <1>1, <1>3, <1>4
  <1> QED
    BY <1>1, <1>3, <1>4, <1>5

(* No step of a task makes it calm, or takes that from it.                 *)
LEMMA CalmStays ==
  ASSUME ObjectInv, TaskStep
  PROVE  task'.calm = task.calm
  <1>0. task \in Task /\ obj \in Maybe
    BY InvFacts
  <1>1. CASE task' \in {task, Failed(task)}
    BY <1>0, <1>1, CalmFails
  <1>2. CASE Retrieve /\ task' # Failed(task)
    <2> DEFINE t == [task EXCEPT !.existing = obj]
    <2>1. task' \in {perform_action(t), MixinAction(t)}
      BY <1>2 DEF Retrieve, Refused
    <2>2. t \in Task /\ t.calm = task.calm
      BY <1>0 DEF Task, Maybe
    <2> HIDE DEF t
    <2> QED
      BY <2>1, <2>2, CalmChooses
  <1>3. CASE Create \/ MixinCreate
    <2> DEFINE t == [task EXCEPT !.conflict = TRUE]
    <2>1. t \in Task /\ t.calm = task.calm
      BY <1>0 DEF Task
    <2>2. CASE CreateRequest
      BY <1>0, <1>1, <2>2, CalmConcludes, CalmWrites DEF CreateRequest, Refused
    <2>3. CASE task' \in {Failed(t), Ended(t, NoObj, TRUE), Ended(t, NoObj, FALSE)}
      <3> HIDE DEF t
      <3>1. /\ Failed(t).calm = t.calm /\ Ended(t, NoObj, TRUE).calm = t.calm
            /\ Ended(t, NoObj, FALSE).calm = t.calm
        BY <2>1, CalmFails, CalmEnds
      <3> QED
        BY <2>1, <2>3, <3>1
    <2> QED
      BY <1>3, <2>2, <2>3 DEF Create, MixinCreate
  <1>4. CASE \/ ReplaceRequest \/ DeleteRequest
             \/ \E u \in {Failed(task), [task EXCEPT !.pc = "merge"]} :
                    PatchRequest(Has(task.p.def), u)
    <2>1. ASSUME NEW o, NEW i, Write(o, Conclude(task, i)) \/ task' = Conclude(task, i)
          PROVE  task'.calm = task.calm
      BY <1>0, <2>1, CalmConcludes, CalmWrites
    <2>2. CASE task' = [task EXCEPT !.pc = "merge"]
      BY <1>0, <2>2 DEF Task
    <2>3. CASE ReplaceRequest \/ DeleteRequest
      BY <1>1, <2>1, <2>3 DEF ReplaceRequest, DeleteRequest
    <2>4. ASSUME NEW u \in {Failed(task), [task EXCEPT !.pc = "merge"]},
                 PatchRequest(Has(task.p.def), u)
          PROVE  task'.calm = task.calm
      <3>1. CASE task' = u
        BY <1>1, <2>2, <2>4, <3>1
      <3> QED
        BY <2>1, <2>4, <3>1 DEF PatchRequest, Write, WriteOr
    <2> QED
      BY <1>4, <2>3, <2>4
  <1>5. CASE ApplyGet
    <2> DEFINE t == [task EXCEPT !.actual = obj, !.pc = "apply_put"]
               i == DryApply(t.existing, obj, t.p.def)
    <2>1. t \in Task /\ t.calm = task.calm
      BY <1>0 DEF Task, Maybe
    <2>2. task' \in {t, Conclude(t, i), Failed(task)}
      BY <1>5 DEF ApplyGet
    <2> HIDE DEF t, i
    <2> QED
      BY <1>1, <2>1, <2>2, CalmConcludes
  <1>6. CASE ApplyPut
    <2>1. ASSUME NEW o, NEW i, Write(o, Conclude(task, i)) \/ task' = Conclude(task, i)
          PROVE  task'.calm = task.calm
      BY <1>0, <2>1, CalmConcludes, CalmWrites
    <2> QED
      BY <1>1, <1>6, <2>1 DEF ApplyPut, Refused
  <1>7. CASE (ScaleRead \/ JsonPatchRead) /\ task' # Failed(task)
    <2> DEFINE e == [task EXCEPT !.method = "skip"]
    <2>1. e \in Task /\ e.calm = task.calm
      BY <1>0 DEF Task
    <2>2. \/ task' = Ended(e, obj, FALSE)
          \/ task' = [task EXCEPT !.pc = "reget", !.method = "update", !.actual = obj]
          \/ task' = [task EXCEPT !.existing = obj, !.pc = "update", !.method = "update"]
      BY <1>7 DEF ScaleRead, JsonPatchRead, Refused
    <2> HIDE DEF e
    <2>3. CASE task' = Ended(e, obj, FALSE)
      BY <2>1, <2>3, CalmEnds
    <2>4. CASE task' # Ended(e, obj, FALSE)
      BY <1>0, <2>2, <2>4 DEF Task
    <2> QED
      BY <2>3, <2>4
  <1>8. CASE ScaleReget /\ task' # Failed(task)
    <2> DEFINE t == [task EXCEPT !.existing = obj]
               i == [obj EXCEPT !.spec = Patched(@, Has(t.p.def), t.p.def)]
    <2>1. t \in Task /\ t.calm = task.calm
      BY <1>0 DEF Task, Maybe
    <2>2. task' \in {Ended(t, obj, FALSE), Ended(t, i, ~diff_objects(obj, i)),
                     [t EXCEPT !.pc = "update"]}
      BY <1>8 DEF ScaleReget, Refused
    <2> HIDE DEF t, i
    <2>3. [t EXCEPT !.pc = "update"].calm = t.calm
      BY <2>1 DEF Task
    <2>4. /\ Ended(t, obj, FALSE).calm = t.calm
          /\ Ended(t, i, ~diff_objects(obj, i)).calm = t.calm
      BY <2>1, CalmEnds
    <2> QED
      BY <2>1, <2>2, <2>3, <2>4
  <1>9. CASE ScalePatch /\ task' # Failed(task)
    <2>1. PICK o : task' = [[task EXCEPT !.pc = "after"] EXCEPT !.wrote = o]
      BY <1>9 DEF ScalePatch, Write, WriteOr, Refused
    <2> QED
      BY <1>0, <2>1 DEF Task
  <1>10. CASE ScaleAfter
    BY <1>0, <1>1, <1>10, CalmConcludes DEF ScaleAfter
  <1>11. CASE Find
    <2> DEFINE k == [task EXCEPT !.method = "skip"]
               w == [task EXCEPT !.pc = "wait"]
    <2>1. k \in Task /\ k.calm = task.calm /\ w.calm = task.calm
      BY <1>0 DEF Task
    <2>2. task' \in {task, Failed(task), w, Ended(task, obj, FALSE), Ended(k, NoObj, FALSE)}
      BY <1>11 DEF Find
    <2> HIDE DEF k, w
    <2>3. Ended(task, obj, FALSE).calm = task.calm /\ Ended(k, NoObj, FALSE).calm = k.calm
      BY <1>0, <2>1, CalmEnds
    <2> QED
      BY <1>1, <2>1, <2>2, <2>3
  <1>12. CASE WaitGet \/ WaitError \/ MixinWaitGet \/ WaitTimeout
    <2> DEFINE s == [task EXCEPT !.polled = TRUE]
    <2>1. task' \in {task, Failed(task), s, Waited(task, NoObj), Waited(task, obj)}
      BY <1>12 DEF WaitGet, WaitError, MixinWaitGet, WaitTimeout
    <2>2. s.calm = task.calm
      BY <1>0 DEF Task
    <2>3. Waited(task, NoObj).calm = task.calm /\ Waited(task, obj).calm = task.calm
      BY <1>0, CalmEnds DEF Waited
    <2> HIDE DEF s
    <2> QED
      BY <1>1, <2>1, <2>2, <2>3
  <1> QED
    BY <1>1, <1>2, <1>3, <1>4, <1>5, <1>6, <1>7, <1>8, <1>9, <1>10, <1>11, <1>12
    DEF TaskStep, Replace, MixinReplace, Update, MixinPatch, JsonPatch, PatchRequests, Delete,
        MixinDelete

(* Any step of the task                                                    *)
LEMMA AnswerTask ==
  ASSUME ObjectInv, NEW v \in BOOLEAN, Answers(task, obj, v), TaskStep,
         ~(task.p.force /\ client_side_dry_run(task.p))
  PROVE  Answers(task', obj', v)
  <1>1. CASE Retrieve
    BY <1>1, AnswerRetrieve
  <1>2. CASE Create \/ MixinCreate
    BY <1>2, AnswerCreate
  <1>3. CASE Replace \/ MixinReplace
    BY <1>3, AnswerReplace DEF Replace, MixinReplace
  <1>4. CASE Update \/ MixinPatch \/ JsonPatch
    BY <1>4, AnswerPatch DEF Update, MixinPatch, JsonPatch
  <1>5. CASE Delete \/ MixinDelete
    BY <1>5, AnswerDelete DEF Delete, MixinDelete
  <1>6. CASE ApplyGet \/ ApplyPut
    BY <1>6, AnswerApplyGet, AnswerApplyPut
  <1>7. CASE ScaleRead \/ ScaleReget
    BY <1>7, AnswerScaleReads
  <1>8. CASE ScalePatch \/ ScaleAfter
    BY <1>8, AnswerScalePatch, AnswerScaleAfter
  <1>9. CASE JsonPatchRead \/ Find
    BY <1>9, AnswerJsonPatchRead, AnswerFind
  <1>10. CASE WaitGet \/ WaitError \/ MixinWaitGet \/ WaitTimeout
    BY <1>10, AnswerWaits
  <1> QED
    BY <1>1, <1>2, <1>3, <1>4, <1>5, <1>6, <1>7, <1>8, <1>9, <1>10 DEF TaskStep

(* What is predicted depends on the spec and the annotation only.          *)
LEMMA PredictedAlike ==
  ASSUME NEW p, NEW a, NEW b, a # NoObj, b # NoObj, a.spec = b.spec, a.last = b.last
  PROVE  Predicted(p, a) <=> Predicted(p, b)
  <1>1. \A def : get_delta(a, def) = get_delta(b, def)
    BY DEF get_delta
  <1>2. \A def : NothingToApply(a, def) <=> NothingToApply(b, def)
    BY <1>1 DEF NothingToApply, apply_patch
  <1> QED
    BY <1>1, <1>2 DEF Predicted

(* The controller and the garbage collector do not touch a settled object, *)
(* and what they do to another does not disturb the answer.                *)
LEMMA AnswerController ==
  ASSUME ObjectInv, NEW v \in BOOLEAN, Answers(task, obj, v),
         Observe \/ BringUp \/ Finalized
  PROVE  Answers(task', obj', v)
  <1>1. task' = task /\ obj # NoObj /\ obj \in Object /\ task.p \in Param
    BY InvFacts DEF Observe, BringUp, Finalized
  <1>2. ~Settled(obj)
    <2>1. obj.observed = obj.gen /\ obj.ready => ~(Observe \/ BringUp)
      BY DEF Observe, BringUp
    <2> QED
      BY <1>1, <2>1 DEF Settled, Finalized
  <1>3. task.pc \notin Before /\ ~task.p.check
    BY <1>2 DEF Answers, Foretold
  <1>4. CASE Observe \/ BringUp
    <2>1. /\ obj'.spec = obj.spec /\ obj'.last = obj.last /\ obj'.deleting = obj.deleting
          /\ obj' \in Object
      BY <1>1, <1>4 DEF Observe, BringUp, Object
    <2>2. obj' # NoObj
      BY <2>1, ObjectFacts
    <2>3. Predicted(task.p, obj') <=> Predicted(task.p, obj)
      BY <1>1, <2>1, <2>2, PredictedAlike
    <2>4. Fulfilled(task.p, obj) => Fulfilled(task.p, obj')
      BY <1>1, <2>1, <2>2, <2>3 DEF Fulfilled
    <2>5. Written(task, task.instance, obj, v) => Written(task, task.instance, obj', v)
      <3>1. Differs(task.existing, obj) => Differs(task.existing, obj')
        BY <2>1, <2>2 DEF Differs
      <3> QED
        BY <1>2, <2>1, <2>2, <3>1 DEF Written, Compared
    <2>6. Retried(task, obj, v) => Retried(task, obj', v)
      BY <1>2, <2>1, <2>2, <2>4 DEF Retried, Foretold, Differs
    <2> QED
      BY <1>1, <1>3, <2>4, <2>5, <2>6 DEF Answers
  <1>5. CASE Finalized
    <2>1. obj' = NoObj /\ obj.deleting
      BY <1>5 DEF Finalized
    <2>2. Fulfilled(task.p, obj) => Fulfilled(task.p, obj')
      BY <1>1, <2>1, PredictedWays DEF Fulfilled
    <2>3. Written(task, task.instance, obj, v) => Written(task, task.instance, obj', v)
      BY <2>1 DEF Written
    <2>4. ~Retried(task, obj, v)
      BY <1>2, <2>1 DEF Retried, Foretold, Fulfilled, Deletes, Patches, Puts
    <2> QED
      BY <1>1, <1>3, <2>2, <2>3, <2>4 DEF Answers
  <1> QED
    BY <1>4, <1>5

(* Another change to the object is seen by the history.                    *)
LEMMA OthersDisturb ==
  ASSUME ObjectInv, OtherWrite \/ OtherCreate \/ OtherDelete \/ GoDown
  PROVE  task'.calm = FALSE /\ task'.p = task.p
  BY InvFacts DEF OtherWrite, OtherCreate, OtherDelete, GoDown, Task

(* A new task: what is predicted of it is what was said before, by a check *)
(* of the object that is still the same, or that there is nothing left to  *)
(* change.                                                                 *)
LEMMA AnswerStart ==
  ASSUME ObjectInv, AnswerInv, ImplementationsAgree, NEW p \in Params, Start(p)
  PROVE  AnswerInv'
  <1>0. /\ task \in Task /\ obj \in Maybe /\ p \in Param /\ task.p \in Params
        /\ task.p \in Param /\ obj' = obj /\ task.p.check \in BOOLEAN
        /\ task.changed \in BOOLEAN /\ task.pc = "ended" /\ p.op \in {"k8s", "scale", "json_patch", "info"}
    BY InvFacts, ParamFacts, ParamsAssumption DEF Start, AnswerInv, Task, Param
  <1>1. /\ task'.p = p /\ task'.pc = (IF p.op = "info" THEN "find" ELSE "retrieve")
        /\ task'.calm = Settled(obj)
    BY DEF Start
  <1>2. SUFFICES ASSUME Settled(obj)
                 PROVE  \E v \in BOOLEAN :
                           /\ Answers(task', obj', v)
                           /\ prev'.known /\ ~(p.force /\ prev'.client) => v = Expected'
    BY <1>0, <1>1 DEF AnswerInv
  <1> DEFINE v == Predicted(p, obj)
  <1>3. v \in BOOLEAN /\ (v <=> Predicted(p, obj))
    BY DEF Predicted
  <1> HIDE DEF v
  <1>4. Answers(task', obj', v)
    <2>1. Foretold(task', obj, v) /\ task'.pc \in Before
      BY <1>0, <1>1, <1>2, <1>3 DEF Foretold, Before
    <2>2. Read(task', obj)
      BY <1>1 DEF Read
    <2> QED
      BY <1>0, <2>1, <2>2, AnswerAhead
  <1>5. ASSUME prev'.known, ~(p.force /\ prev'.client)
        PROVE  v = Expected'
    <2>1. /\ task.n > 0 /\ task.calm
          /\ prev' = [known |-> TRUE, check |-> task.p.check,
                      client |-> client_side_dry_run(task.p), changed |-> task.changed]
      BY <1>5 DEF Start, NoAnswer
    <2>2. task.ok /\ SameRequest(p, task.p)
      BY <2>1 DEF Start
    <2>3. ~(task.p.force /\ client_side_dry_run(task.p))
      BY <1>5, <2>1, <2>2 DEF SameRequest
    <2>4. PICK w \in BOOLEAN : Answers(task, obj, w)
      BY <2>1, <2>3 DEF AnswerInv
    <2>5. Predicted(p, obj) <=> Predicted(task.p, obj)
      BY <1>0, <2>2, SamePrediction
    <2>6. task.changed = w
      BY <1>0, <2>2, <2>4 DEF Answers
    <2>7. Expected' = (task.p.check /\ task.changed)
      BY <2>1 DEF Expected
    <2>8. CASE task.p.check
      <3>1. w <=> Predicted(task.p, obj)
        BY <2>4, <2>8 DEF Answers, Foretold
      <3>2. (task.p.check /\ task.changed) = w
        BY <2>6, <2>8
      <3>3. v = w
        BY <1>3, <2>5, <3>1
      <3> QED
        BY <2>7, <3>2, <3>3
    <2>9. CASE ~task.p.check
      <3>1. Fulfilled(task.p, obj)
        BY <1>0, <2>2, <2>4, <2>9 DEF Answers
      <3>2. ~Predicted(task.p, obj)
        BY <1>2, <3>1 DEF Fulfilled, Settled
      <3>3. v = FALSE /\ (task.p.check /\ task.changed) = FALSE
        BY <1>3, <2>5, <2>9, <3>2
      <3> QED
        BY <2>7, <3>3
    <2> QED
      BY <2>8, <2>9
  <1> QED
    BY <1>3, <1>4, <1>5

(* Every step keeps the answer.                                            *)
LEMMA AnswerStep ==
  ASSUME ImplementationsAgree, ObjectInv, AnswerInv, [Next]_vars
  PROVE  AnswerInv'
  <1>1. CASE UNCHANGED vars
    BY <1>1 DEF vars, AnswerInv, Expected
  <1>2. CASE \E p \in Params : Start(p)
    BY <1>2, AnswerStart
  <1>3. ASSUME UNCHANGED prev, task'.p = task.p,
               task'.calm => task.calm,
               task'.calm /\ ~(task.p.force /\ client_side_dry_run(task.p)) =>
                   \A v \in BOOLEAN : Answers(task, obj, v) => Answers(task', obj', v)
        PROVE  AnswerInv'
    BY <1>3 DEF AnswerInv, Expected
  <1>4. CASE TaskStep
    <2>1. UNCHANGED prev /\ task'.p = task.p
      BY <1>4, TaskFollows DEF Follows
    <2>2. ASSUME NEW v \in BOOLEAN, Answers(task, obj, v),
                 ~(task.p.force /\ client_side_dry_run(task.p))
          PROVE  Answers(task', obj', v)
      BY <1>4, <2>2, AnswerTask
    <2>3. task'.calm = task.calm
      BY <1>4, CalmStays
    <2> QED
      BY <1>3, <2>1, <2>2, <2>3
  <1>5. CASE Observe \/ BringUp \/ Finalized
    <2>1. UNCHANGED prev /\ task' = task
      BY <1>5 DEF Observe, BringUp, Finalized
    <2> QED
      BY <1>3, <1>5, <2>1, AnswerController
  <1>6. CASE OtherWrite \/ OtherCreate \/ OtherDelete \/ GoDown
    <2>1. UNCHANGED prev
      BY <1>6 DEF OtherWrite, OtherCreate, OtherDelete, GoDown
    <2> QED
      BY <1>3, <1>6, <2>1, OthersDisturb
  <1> QED
    BY <1>1, <1>2, <1>4, <1>5, <1>6 DEF Next, Environment

(* No task has run yet.                                                    *)
LEMMA AnswerInit == Init => AnswerInv
  <1> SUFFICES ASSUME Init PROVE AnswerInv
    OBVIOUS
  <1>1. task = NoTask
    BY DEF Init
  <1>2. task.calm = FALSE /\ task.p \in Params
    BY <1>1, ParamsAssumption DEF NoTask
  <1> QED
    BY <1>2 DEF AnswerInv

(* What the task answers is what was expected.                             *)
LEMMA RepeatsAsExpected ==
  ASSUME ObjectInv, AnswerInv, Repeats
  PROVE  task.changed = Expected
  <1>1. /\ task.pc = "ended" /\ task.ok /\ task.calm /\ prev.known
        /\ ~(task.p.force /\ client_side_dry_run(task.p)) /\ ~(task.p.force /\ prev.client)
    BY DEF Repeats
  <1>2. PICK v \in BOOLEAN : Answers(task, obj, v) /\ v = Expected
    BY <1>1 DEF AnswerInv
  <1>3. task.changed = v
    BY <1>1, <1>2 DEF Answers
  <1> QED
    BY <1>2, <1>3

----------------------------------------------------------------------------
(* The theorems *)

(* For any fields, values and tasks, and whoever writes in between: a task *)
(* that ended well has brought every field it is to set, or to remove, to  *)
(* its value at some instant, and the object it waited to be deleted never *)
(* comes back.                                                             *)
THEOREM TasksConverge == Spec => []Converged
  <1>1. ObjectInv => Converged
    <2> SUFFICES ASSUME ObjectInv, task.pc = "ended" /\ task.ok, ~task.p.check, ~task.conflict
                 PROVE  /\ task.method \in Writes => Wanted(task) \subseteq met
                        /\ task.method = "delete" /\ task.p.wait => ~SameObject(obj, task.existing)
      BY DEF Converged, Writes
    <2> QED
      BY DEF ObjectInv, Good, ConvergedAt
  <1> QED
    BY <1>1, ObjectInit, ObjectStep, PTL DEF Spec

(* A wait that succeeded saw the status of the generation that the task    *)
(* wrote or of a later one: deployment_ready is not taken in by an older   *)
(* one, with the waiter of either implementation.                          *)
THEOREM WaitsAreSound == Spec => []ReadyIsNotStale
  <1>1. ObjectInv => ReadyIsNotStale
    BY DEF ObjectInv, Good, ReadyAt, ReadyIsNotStale
  <1> QED
    BY <1>1, ObjectInit, ObjectStep, PTL DEF Spec

(* The answer of a check is the answer of the run, and the other way round,*)
(* with either kind of dry run, for every task that has the object to      *)
(* itself: what perform_action compares in a check differs just when what  *)
(* it would compare after the write does.                                  *)
THEOREM ChecksPredict == ASSUME ImplementationsAgree PROVE Spec => []CheckPredicts
  <1>1. ObjectInv /\ AnswerInv => CheckPredicts
    BY RepeatsAsExpected DEF CheckPredicts, Expected, ObjectInv
  <1>2. Init => ObjectInv /\ AnswerInv
    BY ObjectInit, AnswerInit
  <1>3. ObjectInv /\ AnswerInv /\ [Next]_vars => (ObjectInv /\ AnswerInv)'
    BY ObjectStep, AnswerStep
  <1> QED
    BY <1>1, <1>2, <1>3, PTL DEF Spec

(* What one run of a task brought about, the next run of it does not       *)
(* report as a change again: no way of writing leaves a difference that    *)
(* the same way would see.                                                 *)
THEOREM RunsAreIdempotent == ASSUME ImplementationsAgree PROVE Spec => []Idempotent
  <1>1. ObjectInv /\ AnswerInv => Idempotent
    BY RepeatsAsExpected DEF Idempotent, Expected
  <1>2. Init => ObjectInv /\ AnswerInv
    BY ObjectInit, AnswerInit
  <1>3. ObjectInv /\ AnswerInv /\ [Next]_vars => (ObjectInv /\ AnswerInv)'
    BY ObjectStep, AnswerStep
  <1> QED
    BY <1>1, <1>2, <1>3, PTL DEF Spec

(* A task changes the fields that it is to set or, for apply, that were    *)
(* applied before, and no other.                                           *)
THEOREM OthersFieldsStay == Spec => ForeignFieldsStay
  <1> DEFINE Stay ==
        \A f \in Fields :
           (others' = others /\ obj # NoObj /\ obj' # NoObj /\ obj'.spec[f] # obj.spec[f])
               => f \in Wanted(task)
  <1>1. ObjectInv /\ [Next]_vars => [Stay]_vars
    <2> SUFFICES ASSUME ObjectInv, Next, NEW f \in Fields, others' = others, obj # NoObj,
                        obj' # NoObj, obj'.spec[f] # obj.spec[f]
                 PROVE  f \in Wanted(task)
      OBVIOUS
    <2>0. /\ task \in Task /\ obj \in Object /\ obj.spec \in Spec_ /\ Planned(task)
          /\ task.p.def \in Spec_ /\ Has(task.p.def) \in SUBSET Fields
          /\ obj.last \in Spec_ \cup {NoLast} /\ others \in Nat
      BY InvFacts, ObjectFacts DEF ObjectInv
    <2>1. ASSUME NEW D \in SUBSET Fields, NEW l \in Spec_ \cup {NoLast}, NEW t,
                 NEW u, WriteOr(Stored(obj, Patched(obj.spec, D, task.p.def), l), t, u)
          PROVE  f \in D
      <3> DEFINE q == Patched(obj.spec, D, task.p.def)
      <3>1. q \in Spec_ /\ \A g \in Fields \ D : q[g] = obj.spec[g]
        BY <2>0, PatchedFacts
      <3>2. Stored(obj, q, l).spec = q
        BY <2>0, <3>1, <2>1, StoredFacts
      <3>3. obj' \in {obj, Stored(obj, q, l)}
        BY <2>1 DEF WriteOr
      <3> HIDE DEF q
      <3> QED
        BY <3>1, <3>2, <3>3
    <2>2. CASE TaskStep
      <3>1. CASE ReplaceRequest
        <4>1. task.method = "replace"
          BY <2>0, <3>1 DEF ReplaceRequest, Planned
        <4> QED
          BY <4>1 DEF Wanted
      <3>2. CASE /\ task.pc \in {"update", "merge"}
                 /\ \E u \in {Failed(task), [task EXCEPT !.pc = "merge"]} :
                        PatchRequest(Has(task.p.def), u)
        <4>1. task.method = "update"
          BY <2>0, <3>2 DEF Planned
        <4>2. f \in Has(task.p.def)
          BY <2>0, <2>1, <3>2 DEF PatchRequest
        <4> QED
          BY <4>1, <4>2 DEF Wanted
      <3>3. CASE ScalePatch
        <4>1. task.method = "update"
          BY <2>0, <3>3 DEF ScalePatch, Planned
        <4>2. f \in Has(task.p.def)
          BY <2>0, <2>1, <3>3 DEF ScalePatch, Refused, Write
        <4> QED
          BY <4>1, <4>2 DEF Wanted
      <3>4. CASE ApplyPut
        <4>1. task.method = "apply"
          BY <2>0, <3>4 DEF ApplyPut, Planned
        <4>2. task.actual # NoObj
          BY <3>4 DEF ApplyPut, Refused
        <4>3. task.actual \in Object
          BY <2>0, <4>2, TaskFacts DEF Maybe
        <4>4. f \in apply_patch(task.actual, task.p.def)
          BY <2>0, <2>1, <3>4, <4>3, ApplyPatchFacts DEF ApplyPut, Refused, Write
        <4> QED
          BY <4>1, <4>2, <4>4 DEF Wanted, apply_patch, get_deletions, get_delta
      <3>5. CASE DeleteRequest
        <4>1. obj' \in {obj, NoObj, [obj EXCEPT !.deleting = TRUE]}
          BY <3>5 DEF DeleteRequest, Write, WriteOr
        <4> QED
          BY <2>0, <4>1 DEF Object
      <3>6. CASE CreateRequest \/ Conflict
        BY <3>6 DEF CreateRequest, Conflict, Refused
      <3>7. ~(Retrieve \/ ApplyGet \/ ScaleRead \/ ScaleReget \/ ScaleAfter \/ JsonPatchRead \/ Find)
        BY DEF Retrieve, ApplyGet, ScaleRead, ScaleReget, ScaleAfter, JsonPatchRead, Find, Refused
      <3>8. ~(WaitGet \/ WaitError \/ MixinWaitGet \/ WaitTimeout)
        BY DEF WaitGet, WaitError, MixinWaitGet, WaitTimeout
      <3>9. \/ ReplaceRequest \/ ScalePatch \/ ApplyPut
            \/ /\ task.pc \in {"update", "merge"}
               /\ \E u \in {Failed(task), [task EXCEPT !.pc = "merge"]} :
                      PatchRequest(Has(task.p.def), u)
            \/ DeleteRequest \/ CreateRequest \/ Conflict
        BY <2>2, <3>7, <3>8
        DEF TaskStep, Create, MixinCreate, Replace, MixinReplace, Update, MixinPatch, JsonPatch,
            PatchRequests, Delete, MixinDelete
      <3> QED
        BY <3>1, <3>2, <3>3, <3>4, <3>5, <3>6, <3>9
    <2>3. CASE Environment
      <3>1. ~(OtherWrite \/ OtherCreate \/ OtherDelete \/ GoDown \/ Finalized)
        BY <2>0 DEF OtherWrite, OtherCreate, OtherDelete, GoDown, Finalized
      <3>2. CASE Observe \/ BringUp
        BY <2>0, <3>2 DEF Observe, BringUp, Object
      <3> QED
        BY <2>3, <3>1, <3>2 DEF Environment
    <2>4. CASE \E p \in Params : Start(p)
      BY <2>4 DEF Start
    <2> QED
      BY <2>2, <2>3, <2>4 DEF Next
  <1> QED
    BY <1>1, ObjectInit, ObjectStep, PTL DEF Spec, ForeignFieldsStay
=============================================================================
