--------------------------- MODULE ReconcilerProofs ---------------------------
(***************************************************************************)
(* Proofs about Reconciler: the verdicts exclude each other, and, if users *)
(* do not write the finalizer into their manifests, the operator takes its *)
(* finalizer off a resource only after the finalizer run of that resource, *)
(* runs ansible only for a resource that the finalizer protects, and never *)
(* forgets work that is left to do, whatever the cache missed, the API     *)
(* server refused and the users did meanwhile.                             *)
(*                                                                         *)
(* And about StatusConditions, the list that Reconciler's verdicts stand   *)
(* for: what the marks make of it is what Reconciler says, and times and   *)
(* messages go with the statuses.                                          *)
(***************************************************************************)
EXTENDS Reconciler, StatusConditions, WellFoundedInduction, TLAPS

----------------------------------------------------------------------------
(* The inductive invariant.                                                *)

\* What the API server guarantees of the generation of a resource.
WellFormed(o) == o.uid # 0 => o.gen >= 1 /\ (~o.del => o.gen <= MaxEdits + 1)

\* The versions between the cache and the API server, in order: the resource of
\* a later version is not older, and a deletion is never taken back.
Ordered ==
    \A i, j \in 1..Len(versions) :
        i <= j /\ versions[i].uid # 0 /\ versions[j].uid # 0 =>
            /\ versions[i].uid <= versions[j].uid
            /\ versions[i].uid = versions[j].uid /\ versions[i].del => versions[j].del

\* The finalizer is only ever added to the resource that the cache shows: no
\* version in between belongs to an older one.
AddedToCached ==
    \A i, j \in 1..Len(versions) :
        versions[i].fin /\ versions[j].uid # 0 => versions[i].uid <= versions[j].uid

VersionsInv ==
    /\ \A i \in 1..Len(versions) : WellFormed(versions[i]) /\ versions[i].uid <= uids
    /\ Ordered
    /\ AddedToCached

\* Reconcile works on a resource.
Active == pc \notin {"idle", "get"}

\* Where the versions stand relative to the resource Reconcile started from:
\* none is older, none that is newer carries the finalizer, and if it was
\* deleted it stays so.
OriginInv ==
    Active =>
        /\ local.began \in 1..uids
        /\ \A i \in 1..Len(versions) :
             /\ versions[i].uid # 0 => versions[i].uid >= local.began
             /\ versions[i].fin => versions[i].uid <= local.began
             /\ local.deleted /\ versions[i].uid = local.began => versions[i].del

\* The copy u: it is the resource Reconcile started from unless that is gone.
CopyInv ==
    Active =>
        /\ u.uid # 0 /\ WellFormed(u) /\ u.uid <= uids
        /\ local.deleted /\ u.uid = local.began => u.del
        /\ u.uid # local.began => current.uid # local.began
        /\ local.fresh /\ pc \in {"addFinalizer", "removeFinalizer"} => u = current
        /\ pc = "addFinalizer" =>
             u.uid = local.began /\ ~u.del /\ ~local.deleted
                /\ (local.fresh => Len(versions) = 1)

\* A run has not succeeded before it was started, a run for a deleted resource
\* executes the finalizer, and when the finalizer is about to be removed it has
\* run.
RunInv ==
    /\ pc \in {"addFinalizer", "runningGet", "runningPut", "start", "run"} => ~local.runOK
    /\ pc = "run" /\ u.del => local.finRun
    /\ pc = "refresh" /\ local.runOK /\ local.deleted /\ current.fin /\ current.uid # 0
         => current.uid \in finalized
    /\ pc = "removeFinalizer" /\ u.fin => u.uid \in finalized

Inv == TypeOK /\ VersionsInv /\ OriginInv /\ CopyInv /\ RunInv

----------------------------------------------------------------------------
(* Types.                                                                  *)

StatusType == [ConditionTypes -> {"none", "True", "False"}]

\* The marks keep the type of the status.
LEMMA VerdictTypes ==
  ASSUME NEW s \in StatusType, NEW ok \in BOOLEAN
  PROVE  /\ NoStatus \in StatusType
         /\ RunningVerdict(s) \in StatusType
         /\ ErrorVerdict(s) \in StatusType
         /\ DoneVerdict(s, ok) \in StatusType
  BY DEF StatusType, ConditionTypes, NoStatus, Flip, RunningVerdict, ErrorVerdict, DoneVerdict

\* The placeholders have the types of what they stand for.
LEMMA PlaceholderTypes == Absent \in Object /\ NoLocals \in Locals
  BY ReconcilerAssumption DEF Absent, NoLocals, Object, Locals

\* The cached and the current version are versions.
LEMMA Ends ==
  ASSUME TypeOK
  PROVE  /\ Len(versions) \in Nat /\ Len(versions) >= 1
         /\ \A i \in 1..Len(versions) : versions[i] \in Object
         /\ cached = versions[1] /\ cached \in Object
         /\ current \in Object
  BY ReconcilerAssumption DEF TypeOK, cached, current

\* What a write does to the versions.
LEMMA Written ==
  ASSUME TypeOK, NEW o \in Object, Write(o)
  PROVE  /\ versions' \in Seq(Object) /\ Len(versions') \in 1..MaxLag
         /\ Len(versions') = Len(versions) + 1
         /\ \A i \in 1..Len(versions) : versions'[i] = versions[i]
         /\ versions'[Len(versions')] = Settled(o)
         /\ current' = Settled(o)
         /\ Settled(o) \in Object
  <1>1. Settled(o) \in Object
    BY PlaceholderTypes DEF Settled
  <1> DEFINE n == Len(versions)
             w == Append(versions, Settled(o))
  <1>2. /\ versions \in Seq(Object) /\ n \in Nat /\ n >= 1 /\ MaxLag \in Nat
        /\ n < MaxLag /\ versions' = w
    BY Ends, ReconcilerAssumption DEF TypeOK, Write
  <1>3. w \in Seq(Object) /\ Len(w) = n + 1 /\ w[n + 1] = Settled(o)
    BY <1>1, <1>2
  <1>4. \A i \in 1..n : w[i] = versions[i]
    BY <1>1, <1>2
  <1>5. current' = versions'[Len(versions')]
    BY DEF current
  <1> HIDE DEF n, w
  <1> QED
    BY <1>1, <1>2, <1>3, <1>4, <1>5 DEF n

\* What the informer does to them.
LEMMA Synced ==
  ASSUME TypeOK, Sync
  PROVE  /\ versions' \in Seq(Object) /\ Len(versions') \in 1..MaxLag
         /\ Len(versions') = Len(versions) - 1
         /\ \A i \in 1..Len(versions') : versions'[i] = versions[i + 1]
         /\ current' = current
  <1> DEFINE n == Len(versions)
             w == Tail(versions)
  <1>1. /\ versions \in Seq(Object) /\ n \in Nat /\ n > 1 /\ n <= MaxLag /\ MaxLag \in Nat
        /\ versions' = w
    BY Ends, ReconcilerAssumption DEF TypeOK, Sync
  <1>2. w \in Seq(Object) /\ Len(w) = n - 1
    BY <1>1
  <1>3. \A i \in 1..(n - 1) : w[i] = versions[i + 1]
    BY <1>1
  <1>4. current' = versions'[Len(versions')] /\ current = versions[n]
    BY DEF current
  <1> HIDE DEF n, w
  <1> QED
    BY <1>1, <1>2, <1>3, <1>4 DEF n

\* And a restart.
LEMMA Restarted ==
  ASSUME TypeOK, Restart
  PROVE  /\ versions' \in Seq(Object) /\ Len(versions') = 1 /\ Len(versions') \in 1..MaxLag
         /\ versions'[1] = current
         /\ current' = current
  BY Ends, ReconcilerAssumption DEF TypeOK, Restart, current

\* The parts of TypeOK: the versions, the state of Reconcile and its queue, and
\* the rest.
VersionsType == versions \in Seq(Object) /\ Len(versions) \in 1..MaxLag
ControlType  == pc \in PCs /\ local \in Locals /\ queued \in BOOLEAN /\ delayed \in BOOLEAN
RestType ==
    /\ status \in StatusType
    /\ uids \in 0..MaxUid
    /\ patches \in 0..MaxPatches
    /\ finalized \subseteq 1..MaxUid
    /\ ran \subseteq (1..MaxUid) \X (1..(MaxEdits + 1))
    /\ faults \in 0..MaxFaults
    /\ crashes \in 0..MaxCrashes
    /\ options \in Options

\* Together they are TypeOK.
LEMMA TypeParts == TypeOK <=> VersionsType /\ ControlType /\ RestType
  BY DEF TypeOK, VersionsType, ControlType, RestType, StatusType

\* The ways in which an action of Reconcile ends.
LEMMA ControlTypes ==
  ASSUME ControlType
  PROVE  /\ \A label \in PCs, l \in Locals : Continue(label, l) => ControlType'
         /\ \A again \in BOOLEAN : Return(again) => ControlType'
         /\ ReturnErr => ControlType'
  <1>1. ASSUME NEW again \in BOOLEAN, Return(again) PROVE ControlType'
    <2>1. pc' \in PCs /\ local' \in Locals
      BY <1>1, PlaceholderTypes DEF Return, PCs
    <2>2. queued' \in BOOLEAN /\ delayed' \in BOOLEAN
      BY <1>1, Zenon DEF Return, ControlType
    <2> QED
      BY <2>1, <2>2 DEF ControlType
  <1>2. ASSUME NEW label \in PCs, NEW l \in Locals, Continue(label, l) PROVE ControlType'
    BY <1>2 DEF Continue, queueVars, ControlType
  <1> QED
    BY <1>1, <1>2 DEF ReturnErr

\* A failure uses up one of MaxFaults.
LEMMA FaultType == ASSUME TypeOK, Fault PROVE faults' \in 0..MaxFaults
  BY ReconcilerAssumption DEF TypeOK, Fault

\* Every step keeps the types.
LEMMA TypeStep == TypeOK /\ VersionsInv /\ CopyInv /\ [Next]_vars => TypeOK'
  <1> SUFFICES ASSUME TypeOK, VersionsInv, CopyInv, [Next]_vars
               PROVE  TypeOK'
    OBVIOUS
  <1>t. VersionsType /\ ControlType /\ RestType
    BY TypeParts
  <1>e. /\ cached \in Object /\ current \in Object /\ local \in Locals /\ u \in Object
        /\ current = versions[Len(versions)] /\ Len(versions) \in 1..Len(versions)
    BY Ends DEF TypeOK, Locals, u, current
  <1>w. WellFormed(current) /\ current.uid <= uids
    BY <1>e DEF VersionsInv
  <1>p. (VersionsType /\ ControlType /\ RestType)' => TypeOK'
    BY DEF TypeOK, VersionsType, ControlType, RestType, StatusType
  <1>n. /\ MaxUid \in Nat /\ MaxEdits \in Nat /\ MaxPatches \in Nat
        /\ Preset \in BOOLEAN /\ Held \subseteq BOOLEAN
    BY ReconcilerAssumption
  <1>1. CASE User
    <2>1. ASSUME NEW o \in Object, UserWrite(o)
          PROVE  VersionsType' /\ ControlType'
      <3>1. VersionsType'
        BY <2>1, Written DEF UserWrite, VersionsType
      <3>2. ControlType'
        BY <2>1, <1>t DEF UserWrite, ControlType, Locals, queueVars
      <3> QED
        BY <3>1, <3>2
    <2>2. CASE UserCreate
      <3>1. PICK f \in {FALSE, Preset}, h \in Held :
              UserWrite([Absent EXCEPT !.uid = uids + 1, !.gen = 1, !.fin = f, !.held = h])
        BY <2>2 DEF UserCreate
      <3>2. [Absent EXCEPT !.uid = uids + 1, !.gen = 1, !.fin = f, !.held = h] \in Object
        <4>1. uids + 1 \in 0..MaxUid /\ 1 \in 0..(MaxEdits + 2)
          BY <2>2, <1>t, <1>n DEF UserCreate, RestType
        <4>2. f \in BOOLEAN /\ h \in BOOLEAN
          BY <1>n
        <4> QED
          BY <4>1, <4>2, PlaceholderTypes DEF Object
      <3>3. VersionsType' /\ ControlType'
        BY <3>1, <3>2, <2>1
      <3>4. RestType'
        BY <2>2, <3>1, <1>t, VerdictTypes, ReconcilerAssumption
        DEF UserCreate, UserWrite, RestType, histVars, envVars
      <3> QED
        BY <3>3, <3>4, <1>p
    <2>3. CASE UserEditSpec
      <3>1. [current EXCEPT !.gen = @ + 1] \in Object
        <4>1. current.gen + 1 \in 0..(MaxEdits + 2)
          BY <2>3, <1>e, <1>n DEF UserEditSpec, Object
        <4> QED
          BY <4>1, <1>e DEF Object
      <3>2. VersionsType' /\ ControlType'
        BY <2>3, <3>1, <2>1 DEF UserEditSpec
      <3>3. RestType'
        BY <2>3, <1>t DEF UserEditSpec, UserWrite, RestType, histVars, envVars
      <3> QED
        BY <3>2, <3>3, <1>p
    <2>4. CASE UserEditPeriod
      <3>1. PICK p \in Periods \ {current.period} : UserWrite([current EXCEPT !.period = p])
        BY <2>4 DEF UserEditPeriod
      <3>2. [current EXCEPT !.period = p] \in Object
        BY <1>e, ReconcilerAssumption DEF Object
      <3>3. VersionsType' /\ ControlType'
        BY <3>1, <3>2, <2>1
      <3>4. RestType'
        <4>1. /\ patches' = patches - 1 /\ patches > 0 /\ UNCHANGED <<uids, status, histVars, faults, envVars>>
              /\ MaxPatches \in Nat
          BY <2>4, <3>1, ReconcilerAssumption DEF UserEditPeriod, UserWrite
        <4> QED
          BY <4>1, <1>t DEF RestType, histVars, envVars
      <3> QED
        BY <3>3, <3>4, <1>p
    <2>5. CASE UserDelete
      <3>1. [current EXCEPT !.del = TRUE, !.gen = @ + 1] \in Object
        <4>1. current.gen + 1 \in 0..(MaxEdits + 2)
          <5>1. current.uid # 0 /\ ~current.del
            BY <2>5 DEF UserDelete
          <5>2. current.gen \in Nat /\ current.gen <= MaxEdits + 1
            BY <1>e, <1>w, <1>n, <5>1 DEF Object, WellFormed
          <5> QED
            BY <1>n, <5>2
        <4> QED
          BY <4>1, <1>e DEF Object
      <3>2. VersionsType' /\ ControlType'
        BY <2>5, <3>1, <2>1 DEF UserDelete
      <3>3. RestType'
        BY <2>5, <1>t DEF UserDelete, UserWrite, RestType, histVars, envVars
      <3> QED
        BY <3>2, <3>3, <1>p
    <2>6. CASE OtherFinalizerDone
      <3>1. [current EXCEPT !.held = FALSE] \in Object
        BY <1>e DEF Object
      <3>2. VersionsType' /\ ControlType'
        BY <2>6, <3>1, <2>1 DEF OtherFinalizerDone
      <3>3. RestType'
        BY <2>6, <1>t DEF OtherFinalizerDone, UserWrite, RestType, histVars, envVars
      <3> QED
        BY <3>2, <3>3, <1>p
    <2> QED
      BY <1>1, <2>2, <2>3, <2>4, <2>5, <2>6 DEF User
  <1>2. CASE Sync \/ TimerFires \/ Dequeue \/ Restart
    <2>1. CASE Sync
      <3>1. VersionsType'
        BY <2>1, Synced DEF VersionsType
      <3>2. ControlType'
        BY <2>1, <1>t, Zenon DEF Sync, ControlType
      <3>3. RestType'
        BY <2>1, <1>t DEF Sync, RestType, histVars, envVars
      <3> QED
        BY <3>1, <3>2, <3>3, <1>p
    <2>2. CASE TimerFires
      BY <2>2, <1>t, <1>p
      DEF TimerFires, VersionsType, ControlType, RestType, apiVars, histVars, envVars
    <2>3. CASE Dequeue
      BY <2>3, <1>t, <1>p
      DEF Dequeue, VersionsType, ControlType, RestType, apiVars, histVars, envVars, PCs
    <2>4. CASE Restart
      <3>1. VersionsType'
        BY <2>4, Restarted DEF VersionsType
      <3>2. ControlType'
        BY <2>4, <1>t, PlaceholderTypes DEF Restart, ControlType, PCs
      <3>3. RestType'
        BY <2>4, <1>t, ReconcilerAssumption DEF Restart, RestType, histVars
      <3> QED
        BY <3>1, <3>2, <3>3, <1>p
    <2> QED
      BY <1>2, <2>1, <2>2, <2>3, <2>4
  <1>3. CASE UNCHANGED vars
    BY <1>3, <1>t, <1>p
    DEF vars, apiVars, queueVars, histVars, envVars, VersionsType, ControlType, RestType
  <1>4. CASE Reconcile
    <2>1. ASSUME UNCHANGED apiVars PROVE VersionsType'
      BY <2>1, <1>t DEF apiVars, VersionsType
    <2>2. ASSUME UNCHANGED <<apiVars, histVars, envVars>>, Fault \/ UNCHANGED faults
          PROVE  RestType'
      BY <2>2, <1>t, FaultType DEF apiVars, histVars, envVars, RestType
    <2>3. \A label \in PCs : Read(label) => ControlType'
      <3>1. [local EXCEPT !.u = current, !.fresh = TRUE] \in Locals
        BY <1>e DEF Locals
      <3> QED
        BY <3>1, <1>t, ControlTypes DEF Read
    <2>4. \A o \in Object, label \in PCs :
             Update(o, label) => VersionsType' /\ ControlType' /\ faults' \in 0..MaxFaults
      <3> SUFFICES ASSUME NEW o \in Object, NEW label \in PCs, Update(o, label)
                   PROVE  VersionsType' /\ ControlType' /\ faults' \in 0..MaxFaults
        OBVIOUS
      <3>1. VersionsType'
        BY Written DEF Update, VersionsType
      <3>2. [local EXCEPT !.u = o] \in Locals
        BY <1>e DEF Locals
      <3>3. ControlType'
        BY <3>2, <1>t, ControlTypes DEF Update
      <3>4. faults' \in 0..MaxFaults
        BY <1>t, FaultType DEF Update, RestType
      <3> QED
        BY <3>1, <3>3, <3>4
    <2>5. \A s \in StatusType :
             WriteStatus(s) => /\ VersionsType'
                               /\ status' \in StatusType /\ uids' = uids /\ patches' = patches
      BY <1>e, Written DEF WriteStatus, VersionsType
    <2>6. \A l \in Locals : Conclude(l) => ControlType'
      <3> SUFFICES ASSUME NEW l \in Locals, Conclude(l)
                   PROVE  ControlType'
        OBVIOUS
      <3>1. (~l.runOK \/ l.requeue) \in BOOLEAN /\ "doneGet" \in PCs
        BY DEF PCs
      <3> QED
        BY <3>1, <1>t, ControlTypes DEF Conclude
    <2>7. (~local.runOK \/ local.requeue) \in BOOLEAN
      BY <1>e DEF Locals
    <2>9. status \in StatusType /\ local.runOK \in BOOLEAN
      BY <1>t, <1>e DEF RestType, Locals
    <2>10. CASE GetCached
      <3> DEFINE l == [NoLocals EXCEPT !.u = cached, !.fresh = (Len(versions) = 1),
                                       !.deleted = cached.del,
                                       !.requeue = (cached.period = "some"),
                                       !.began = cached.uid]
      <3>1. l \in Locals
        <4>1. /\ (Len(versions) = 1) \in BOOLEAN /\ (cached.period = "some") \in BOOLEAN
              /\ cached.del \in BOOLEAN /\ cached.uid \in 0..MaxUid
          BY <1>e DEF Object
        <4> QED
          BY <4>1, <1>e, PlaceholderTypes, Zenon DEF Locals
      <3>2. {"errorGet", "addFinalizer", AfterFinalizer} \subseteq PCs
        BY DEF AfterFinalizer, PCs
      <3>3. Return(FALSE) \/ Continue("errorGet", l) \/ Continue("addFinalizer", l)
              \/ Continue(AfterFinalizer, l)
        BY <2>10 DEF GetCached
      <3> HIDE DEF l
      <3>4. ControlType'
        BY <3>1, <3>2, <3>3, <1>t, ControlTypes
      <3> QED
        BY <2>10, <3>4, <2>1, <2>2, <1>p DEF GetCached
    <2>11. CASE AddFinalizer
      <3>1. [u EXCEPT !.fin = TRUE] \in Object /\ AfterFinalizer \in PCs
        BY <1>e DEF Object, AfterFinalizer, PCs
      <3>2. VersionsType' /\ ControlType' /\ faults' \in 0..MaxFaults
        BY <2>11, <3>1, <2>4 DEF AddFinalizer
      <3>3. RestType'
        BY <2>11, <3>2, <1>t DEF AddFinalizer, RestType, histVars, envVars
      <3> QED
        BY <3>2, <3>3, <1>p
    <2>12. CASE MarkRunningGet
      BY <2>12, <2>1, <2>2, <2>3, <1>t, <1>p, ControlTypes DEF MarkRunningGet, PCs
    <2>13. CASE MarkRunningPut
      <3>1. /\ VersionsType'
            /\ status' \in StatusType /\ uids' = uids /\ patches' = patches
        BY <2>13, <2>5, <2>9, VerdictTypes DEF MarkRunningPut
      <3>2. ControlType' /\ faults' \in 0..MaxFaults
        BY <2>13, <1>t, <1>e, ControlTypes, FaultType DEF MarkRunningPut, PCs, RestType
      <3>3. RestType'
        BY <2>13, <3>1, <3>2, <1>t DEF MarkRunningPut, RestType, histVars, envVars
      <3> QED
        BY <3>1, <3>2, <3>3, <1>p
    <2>14. CASE StartRun
      <3>1. [local EXCEPT !.finRun = isFinalizerRun] \in Locals
        BY <1>e DEF Locals, isFinalizerRun
      <3>2. ControlType'
        BY <2>14, <3>1, <1>t, ControlTypes DEF StartRun, PCs
      <3>3. ~u.del => <<u.uid, u.gen>> \in (1..MaxUid) \X (1..(MaxEdits + 1))
        BY <2>14, <1>e, <1>n DEF StartRun, CopyInv, Active, WellFormed, Object
      <3>4. RestType'
        BY <2>14, <3>3, <1>t DEF StartRun, RestType, apiVars, envVars
      <3> QED
        BY <2>14, <3>2, <3>4, <2>1, <1>p DEF StartRun
    <2>15. CASE RunRefused
      BY <2>15, <2>1, <2>2, <1>t, <1>e, <1>p, ControlTypes DEF RunRefused, PCs
    <2>16. CASE RunFinishes
      <3>1. [local EXCEPT !.runOK = TRUE] \in Locals
        BY <1>e DEF Locals
      <3>2. ControlType' /\ faults' \in 0..MaxFaults
        BY <2>16, <3>1, <1>t, <1>e, ControlTypes, FaultType DEF RunFinishes, PCs, RestType
      <3>3. u.uid \in 1..MaxUid
        BY <2>16, <1>e, <1>n DEF RunFinishes, CopyInv, Active, Object
      <3>4. RestType'
        BY <2>16, <3>2, <3>3, <1>t DEF RunFinishes, RestType, apiVars, envVars
      <3> QED
        BY <2>16, <3>2, <3>4, <2>1, <1>p DEF RunFinishes
    <2>17. CASE RunRequeues
      BY <2>17, <2>1, <2>2, <1>t, <1>p, ControlTypes, ReconcilerAssumption DEF RunRequeues
    <2>18. CASE RunAborts
      BY <2>18, <2>1, <2>2, <1>t, <1>p, ControlTypes DEF RunAborts
    <2>19. CASE RunSilent
      BY <2>19, <2>1, <2>2, <1>t, <1>e, <1>p, ControlTypes DEF RunSilent, PCs
    <2>20. CASE RefreshAfterRun
      <3>1. [local EXCEPT !.u = current, !.fresh = TRUE,
                          !.requeue = @ \/ (current.del /\ HasFinalizer)] \in Locals
        BY <1>e DEF Locals
      <3>2. ControlType'
        BY <2>20, <3>1, <2>3, <2>6, <1>t, ControlTypes DEF RefreshAfterRun, PCs
      <3> QED
        BY <2>20, <3>2, <2>1, <2>2, <1>p DEF RefreshAfterRun
    <2>21. CASE RemoveFinalizer
      <3>1. /\ [u EXCEPT !.fin = FALSE] \in Object
            /\ [local EXCEPT !.u.fin = FALSE] \in Locals
        BY <1>e DEF Object, Locals, u
      <3>2. VersionsType'
        BY <2>21, <3>1, Written DEF RemoveFinalizer, VersionsType
      <3>3. ControlType' /\ faults' \in 0..MaxFaults
        BY <2>21, <3>1, <2>6, <1>t, ControlTypes, FaultType DEF RemoveFinalizer, RestType
      <3>4. RestType'
        BY <2>21, <3>3, <1>t DEF RemoveFinalizer, RestType, histVars, envVars
      <3> QED
        BY <3>2, <3>3, <3>4, <1>p
    <2>22. CASE MarkDoneGet
      BY <2>22, <2>1, <2>2, <2>3, <2>7, <1>t, <1>p, ControlTypes DEF MarkDoneGet, PCs
    <2>23. CASE MarkDonePut
      <3>1. /\ VersionsType'
            /\ status' \in StatusType /\ uids' = uids /\ patches' = patches
        BY <2>23, <2>5, <2>9, VerdictTypes DEF MarkDonePut
      <3>2. ControlType' /\ faults' \in 0..MaxFaults
        BY <2>23, <2>7, <1>t, <1>e, ControlTypes, FaultType DEF MarkDonePut, RestType
      <3>3. RestType'
        BY <2>23, <3>1, <3>2, <1>t DEF MarkDonePut, RestType, histVars, envVars
      <3> QED
        BY <3>1, <3>2, <3>3, <1>p
    <2>24. CASE MarkErrorGet
      BY <2>24, <2>1, <2>2, <2>3, <1>t, <1>p, ControlTypes DEF MarkErrorGet, PCs
    <2>25. CASE MarkErrorPut
      <3>1. /\ VersionsType'
            /\ status' \in StatusType /\ uids' = uids /\ patches' = patches
        BY <2>25, <2>5, <2>9, VerdictTypes DEF MarkErrorPut
      <3>2. ControlType'
        BY <2>25, <1>t, ControlTypes DEF MarkErrorPut
      <3>3. RestType'
        BY <2>25, <3>1, <1>t DEF MarkErrorPut, RestType, histVars, envVars
      <3> QED
        BY <3>1, <3>2, <3>3, <1>p
    <2>26. CASE Conflict
      BY <2>26, <2>1, <2>2, <1>t, <1>p, ControlTypes DEF Conflict
    <2>27. CASE CallFails
      BY <2>27, <2>1, <2>2, <1>t, <1>p, ControlTypes DEF CallFails
    <2> QED
      BY <1>4, <2>10, <2>11, <2>12, <2>13, <2>14, <2>15, <2>16, <2>17, <2>18, <2>19, <2>20,
         <2>21, <2>22, <2>23, <2>24, <2>25, <2>26, <2>27 DEF Reconcile
  <1> QED
    BY <1>1, <1>2, <1>3, <1>4 DEF Next

----------------------------------------------------------------------------
(* Writes to the API server.                                               *)

\* The versions that may follow the current one: of the same resource, which
\* stays deleted and does not gain the finalizer unless the cache is up to
\* date, or of a new one without the finalizer.
Follows(o) ==
    \/ /\ o.uid = current.uid
       /\ current.del => o.del
       /\ o.fin => current.fin \/ Len(versions) = 1
    \/ o.uid = uids + 1 /\ ~o.fin

\* Such a write keeps the order of the versions.
LEMMA WriteKeepsVersions ==
  ASSUME TypeOK, VersionsInv, NEW o \in Object, Write(o),
         WellFormed(o), Follows(o), uids' \in Nat, uids' >= uids, o.uid <= uids'
  PROVE  VersionsInv'
  <1> DEFINE n == Len(versions)
             s == Settled(o)
  <1>1. /\ n \in Nat /\ n >= 1
        /\ \A i \in 1..n : versions[i] \in Object
        /\ current = versions[n]
    BY Ends DEF current
  <1>2. /\ Len(versions') = n + 1 /\ s \in Object
        /\ \A i \in 1..n : versions'[i] = versions[i]
        /\ versions'[n + 1] = s
    BY Written
  <1>3. /\ uids \in Nat /\ o.uid \in Nat /\ s.uid \in Nat
        /\ \A i \in 1..n : versions[i].uid \in Nat
    <2>1. \A x \in Object : x.uid \in Nat
      BY ReconcilerAssumption DEF Object
    <2>2. uids \in Nat
      BY ReconcilerAssumption DEF TypeOK
    <2> QED
      BY <2>1, <2>2, <1>1, <1>2
  <1>4. (s.uid = 0 /\ ~s.fin) \/ s = o
    BY DEF Settled, Absent
  <1>5. WellFormed(s) /\ s.uid <= uids'
    BY <1>3, <1>4 DEF WellFormed
  <1>6. \A i \in 1..n : versions[i].uid <= uids /\ WellFormed(versions[i])
    BY DEF VersionsInv
  <1>7. ASSUME NEW i \in 1..n
        PROVE  /\ versions[i].uid # 0 /\ s.uid # 0 =>
                    /\ versions[i].uid <= s.uid
                    /\ versions[i].uid = s.uid /\ versions[i].del => s.del
               /\ versions[i].fin /\ s.uid # 0 => versions[i].uid <= s.uid
               /\ s.fin /\ versions[i].uid # 0 => s.uid <= versions[i].uid
    <2>1. n \in 1..n /\ i <= n
      BY <1>1
    <2>2. versions[i].uid # 0 /\ current.uid # 0 =>
             /\ versions[i].uid <= current.uid
             /\ versions[i].uid = current.uid /\ versions[i].del => current.del
      BY <1>1, <2>1 DEF VersionsInv, Ordered
    <2>3. /\ versions[i].fin /\ current.uid # 0 => versions[i].uid <= current.uid
          /\ current.fin /\ versions[i].uid # 0 => current.uid <= versions[i].uid
      BY <1>1, <2>1 DEF VersionsInv, AddedToCached
    <2>4. Len(versions) = 1 => versions[i] = current
      BY <1>1
    <2>5. versions[i].uid \in Nat /\ versions[i].uid <= uids
      BY <1>3, <1>6
    <2>6. CASE s.uid = 0 /\ ~s.fin
      BY <2>6
    <2>7. CASE s = o /\ o.uid = uids + 1 /\ ~o.fin
      BY <2>5, <2>7, <1>3
    <2>8. CASE /\ s = o /\ o.uid = current.uid
               /\ current.del => o.del
               /\ o.fin => current.fin \/ Len(versions) = 1
      <3> HIDE DEF s
      <3>1. s.fin /\ versions[i].uid # 0 => s.uid <= versions[i].uid
        BY <2>3, <2>4, <2>5, <2>8, <1>3
      <3> QED
        BY <3>1, <2>2, <2>3, <2>8
    <2> QED
      BY <2>6, <2>7, <2>8, <1>4 DEF Follows
  <1> HIDE DEF s, n
  <1>8. 1..Len(versions') = (1..n) \cup {n + 1}
    BY <1>1, <1>2
  <1>9. \A i \in 1..Len(versions') : WellFormed(versions'[i]) /\ versions'[i].uid <= uids'
    BY <1>1, <1>2, <1>3, <1>5, <1>6, <1>8
  <1>10. Ordered'
    <2> SUFFICES ASSUME NEW i \in 1..Len(versions'), NEW j \in 1..Len(versions'), i <= j,
                        versions'[i].uid # 0, versions'[j].uid # 0
                 PROVE  /\ versions'[i].uid <= versions'[j].uid
                        /\ versions'[i].uid = versions'[j].uid /\ versions'[i].del
                             => versions'[j].del
      BY DEF Ordered
    <2>1. CASE j \in 1..n
      <3>1. i \in 1..n
        BY <2>1, <1>1
      <3> QED
        BY <2>1, <3>1, <1>2 DEF VersionsInv, Ordered, n
    <2>2. CASE i \in 1..n /\ j = n + 1
      BY <2>2, <1>2, <1>7
    <2>3. CASE i = n + 1 /\ j = n + 1
      BY <2>3, <1>2, <1>3
    <2>4. i \in 1..n \/ i = n + 1
      BY <1>8
    <2>5. j \in 1..n \/ j = n + 1
      BY <1>8
    <2>6. i = n + 1 /\ j \in 1..n => FALSE
      BY <1>1
    <2> QED
      BY <2>1, <2>2, <2>3, <2>4, <2>5
  <1>11. AddedToCached'
    <2> SUFFICES ASSUME NEW i \in 1..Len(versions'), NEW j \in 1..Len(versions'),
                        versions'[i].fin, versions'[j].uid # 0
                 PROVE  versions'[i].uid <= versions'[j].uid
      BY DEF AddedToCached
    <2>1. CASE i \in 1..n /\ j \in 1..n
      BY <2>1, <1>2 DEF VersionsInv, AddedToCached, n
    <2>2. CASE i \in 1..n /\ j = n + 1
      BY <2>2, <1>2, <1>7
    <2>3. CASE i = n + 1 /\ j \in 1..n
      BY <2>3, <1>2, <1>7
    <2>4. CASE i = n + 1 /\ j = n + 1
      BY <2>4, <1>2, <1>3
    <2> QED
      BY <2>1, <2>2, <2>3, <2>4, <1>8
  <1> QED
    BY <1>9, <1>10, <1>11 DEF VersionsInv, WellFormed

\* And their place relative to the resource Reconcile started from.
LEMMA WriteKeepsOrigin ==
  ASSUME TypeOK, VersionsInv, OriginInv, Active, NEW o \in Object, Write(o),
         Follows(o), o.fin => o.uid <= local.began, uids' \in Nat, uids' >= uids,
         local'.began = local.began, local'.deleted = local.deleted
  PROVE  /\ OriginInv'
         /\ current.uid # local.began => current'.uid # local.began
  <1> DEFINE n == Len(versions)
             s == Settled(o)
  <1>1. /\ n \in Nat /\ n >= 1
        /\ \A i \in 1..n : versions[i] \in Object
        /\ current = versions[n]
    BY Ends DEF current
  <1>2. /\ Len(versions') = n + 1 /\ s \in Object
        /\ \A i \in 1..n : versions'[i] = versions[i]
        /\ versions'[n + 1] = s /\ current' = s
    BY Written
  <1>3. /\ uids \in Nat /\ local.began \in 1..uids
        /\ o.uid \in Nat /\ s.uid \in Nat
    BY <1>1, <1>2, ReconcilerAssumption DEF TypeOK, Object, OriginInv
  <1>4. (s.uid = 0 /\ ~s.fin) \/ s = o
    BY DEF Settled, Absent
  <1>5. \A i \in 1..n :
             /\ versions[i].uid # 0 => versions[i].uid >= local.began
             /\ versions[i].fin => versions[i].uid <= local.began
             /\ local.deleted /\ versions[i].uid = local.began => versions[i].del
    BY DEF OriginInv
  <1>6. /\ current.uid # 0 => current.uid >= local.began
        /\ local.deleted /\ current.uid = local.began => current.del
    BY <1>1, <1>5
  <1> HIDE DEF s, n
  <1>7. /\ s.uid # 0 => s.uid >= local.began
        /\ s.fin => s.uid <= local.began
        /\ local.deleted /\ s.uid = local.began => s.del
        /\ current.uid # local.began => s.uid # local.began
    <2>1. CASE s.uid = 0 /\ ~s.fin
      BY <2>1, <1>3
    <2>2. CASE s = o
      BY <2>2, <1>3, <1>6 DEF Follows
    <2> QED
      BY <2>1, <2>2, <1>4
  <1>8. 1..Len(versions') = (1..n) \cup {n + 1}
    BY <1>1, <1>2
  <1>9. \A i \in 1..Len(versions') :
             /\ versions'[i].uid # 0 => versions'[i].uid >= local'.began
             /\ versions'[i].fin => versions'[i].uid <= local'.began
             /\ local'.deleted /\ versions'[i].uid = local'.began => versions'[i].del
    BY <1>2, <1>5, <1>7, <1>8
  <1>10. local'.began \in 1..uids'
    BY <1>3
  <1> QED
    BY <1>2, <1>7, <1>9, <1>10 DEF OriginInv

----------------------------------------------------------------------------
(* Steps of Reconcile.                                                     *)

\* Facts about the current version that every step starts from.
LEMMA CurrentFacts ==
  ASSUME Inv
  PROVE  /\ current \in Object /\ current.uid \in Nat /\ uids \in Nat
         /\ WellFormed(current) /\ current.uid <= uids
         /\ Active => /\ local.began \in 1..uids
                      /\ current.uid # 0 => current.uid >= local.began
                      /\ current.fin => current.uid <= local.began
                      /\ local.deleted /\ current.uid = local.began => current.del
  <1>1. current \in Object /\ current = versions[Len(versions)] /\ Len(versions) \in 1..Len(versions)
    BY Ends DEF Inv, current
  <1>2. current.uid \in Nat /\ uids \in Nat
    <2>1. uids \in Nat
      BY ReconcilerAssumption DEF Inv, TypeOK
    <2> QED
      BY <1>1, <2>1, ReconcilerAssumption DEF Object
  <1>3. WellFormed(current) /\ current.uid <= uids
    BY <1>1 DEF Inv, VersionsInv
  <1> QED
    BY <1>1, <1>2, <1>3 DEF Inv, OriginInv

\* Nothing is claimed while no resource is worked on.
LEMMA InactiveKeeps ==
  ASSUME pc' \in {"idle", "get"}
  PROVE  OriginInv' /\ CopyInv' /\ RunInv'
  BY DEF OriginInv, CopyInv, RunInv, Active

\* A step without a write keeps what is said about the versions, and about the
\* resource Reconcile started from.
LEMMA QuietKeeps ==
  ASSUME Inv, UNCHANGED apiVars
  PROVE  /\ current' = current
         /\ VersionsInv'
         /\ Active /\ local'.began = local.began /\ local'.deleted = local.deleted => OriginInv'
  BY DEF Inv, apiVars, current, VersionsInv, Ordered, AddedToCached, OriginInv, WellFormed

\* A step that keeps the copy and does not lead to an update of the finalizer.
LEMMA KeptCopy ==
  ASSUME Inv, Active, current' = current \/ (current.uid # local.began => current'.uid # local.began),
         uids' = uids, u'.uid = u.uid, u'.del = u.del, u'.gen = u.gen,
         local'.began = local.began, local'.deleted = local.deleted,
         pc' \notin {"addFinalizer", "removeFinalizer"}
  PROVE  CopyInv'
  BY DEF Inv, CopyInv, WellFormed, u

\* A step that reads the resource from the API server.
LEMMA ReadCopy ==
  ASSUME Inv, Active, UNCHANGED apiVars, current.uid # 0,
         u' = current, local'.began = local.began, local'.deleted = local.deleted,
         pc' # "addFinalizer"
  PROVE  CopyInv'
  BY CurrentFacts, QuietKeeps DEF CopyInv, WellFormed, apiVars

\* A step of a user who does not touch the finalizer.
LEMMA UserWriteKeeps ==
  ASSUME Inv, NEW o \in Object, UserWrite(o), WellFormed(o), Follows(o),
         o.fin => current.fin /\ o.uid = current.uid,
         uids' \in Nat, uids' >= uids, o.uid <= uids'
  PROVE  VersionsInv' /\ OriginInv' /\ CopyInv' /\ RunInv'
  <1>1. /\ TypeOK /\ VersionsInv /\ OriginInv /\ CopyInv /\ RunInv
        /\ Write(o) /\ pc' = pc /\ finalized' = finalized
        /\ local' = [local EXCEPT !.fresh = FALSE]
    BY DEF Inv, UserWrite, histVars
  <1>2. /\ local'.began = local.began /\ local'.deleted = local.deleted /\ u' = u
        /\ local'.finRun = local.finRun /\ local'.runOK = local.runOK /\ local'.fresh = FALSE
    BY <1>1 DEF TypeOK, Locals, u
  <1>3. VersionsInv'
    BY <1>1, WriteKeepsVersions
  <1>4. Active => /\ OriginInv'
                  /\ current.uid # local.began => current'.uid # local.began
    BY <1>1, <1>2, CurrentFacts, WriteKeepsOrigin
  <1>5. OriginInv'
    BY <1>1, <1>4 DEF OriginInv, Active
  <1>6. u.uid \in Nat /\ uids \in Nat /\ MaxUid \in Nat
    BY <1>1, ReconcilerAssumption DEF TypeOK, Locals, Object, u
  <1>7. CopyInv'
    BY <1>1, <1>2, <1>4, <1>6 DEF CopyInv, WellFormed, Active
  <1>8. current'.fin => current.fin /\ current'.uid = current.uid
    BY <1>1, Written DEF Settled, Absent
  <1>9. RunInv'
    BY <1>1, <1>2, <1>8 DEF RunInv
  <1> QED
    BY <1>3, <1>5, <1>7, <1>9

\* The users, if they do not write the finalizer into their manifests.
LEMMA UserStep ==
  ASSUME Preset = FALSE, Inv, User
  PROVE  VersionsInv' /\ OriginInv' /\ CopyInv' /\ RunInv'
  <1>1. /\ current \in Object /\ current.uid \in Nat /\ uids \in Nat
        /\ WellFormed(current) /\ current.uid <= uids
    BY CurrentFacts
  <1>n. MaxUid \in Nat /\ MaxEdits \in Nat /\ Held \subseteq BOOLEAN
    BY ReconcilerAssumption
  <1>2. CASE UserCreate
    <2>1. PICK f \in {FALSE, Preset}, h \in Held :
            UserWrite([Absent EXCEPT !.uid = uids + 1, !.gen = 1, !.fin = f, !.held = h])
      BY <1>2 DEF UserCreate
    <2> DEFINE o == [Absent EXCEPT !.uid = uids + 1, !.gen = 1, !.fin = f, !.held = h]
    <2>2. uids + 1 \in 0..MaxUid /\ 1 \in 0..(MaxEdits + 2) /\ f = FALSE /\ h \in BOOLEAN
      <3>1. uids + 1 \in 0..MaxUid /\ 1 \in 0..(MaxEdits + 2)
        BY <1>1, <1>2, <1>n DEF UserCreate
      <3>2. f = FALSE
        BY Zenon
      <3> QED
        BY <3>1, <3>2, <1>n
    <2>3. o \in Object /\ o.uid = uids + 1 /\ o.gen = 1 /\ o.fin = FALSE
      BY <2>2, PlaceholderTypes DEF Object
    <2>4. UserWrite(o)
      BY <2>1
    <2> HIDE DEF o
    <2>5. WellFormed(o) /\ Follows(o) /\ uids' = uids + 1
      BY <1>2, <1>n, <2>3 DEF WellFormed, Follows, UserCreate
    <2> QED
      BY <2>3, <2>4, <2>5, <1>1, UserWriteKeeps
  <1>3. CASE UserEditSpec
    <2> DEFINE o == [current EXCEPT !.gen = @ + 1]
    <2>1. current.gen + 1 \in 0..(MaxEdits + 2) /\ current.gen \in Nat
      BY <1>1, <1>3, <1>n DEF UserEditSpec, Object
    <2>2. /\ o \in Object /\ o.uid = current.uid /\ o.gen = current.gen + 1
          /\ o.fin = current.fin /\ o.del = current.del
      BY <2>1, <1>1 DEF Object
    <2>3. UserWrite(o) /\ uids' = uids /\ current.gen <= MaxEdits
      BY <1>3 DEF UserEditSpec
    <2> HIDE DEF o
    <2>4. WellFormed(o) /\ Follows(o)
      BY <2>1, <2>2, <2>3, <1>1, <1>n DEF WellFormed, Follows
    <2> QED
      BY <2>2, <2>3, <2>4, <1>1, UserWriteKeeps
  <1>4. CASE UserEditPeriod
    <2>1. PICK p \in Periods \ {current.period} : UserWrite([current EXCEPT !.period = p])
      BY <1>4 DEF UserEditPeriod
    <2> DEFINE o == [current EXCEPT !.period = p]
    <2>2. p \in {"some", "zero", "bad"}
      BY ReconcilerAssumption
    <2>3. /\ o \in Object /\ o.uid = current.uid /\ o.gen = current.gen
          /\ o.fin = current.fin /\ o.del = current.del
      BY <2>2, <1>1 DEF Object
    <2>4. UserWrite(o) /\ uids' = uids
      BY <2>1, <1>4 DEF UserEditPeriod
    <2> HIDE DEF o
    <2>5. WellFormed(o) /\ Follows(o)
      BY <2>3, <1>1 DEF WellFormed, Follows
    <2> QED
      BY <2>3, <2>4, <2>5, <1>1, UserWriteKeeps
  <1>5. CASE UserDelete
    <2> DEFINE o == [current EXCEPT !.del = TRUE, !.gen = @ + 1]
    <2>1. current.gen + 1 \in 0..(MaxEdits + 2) /\ current.gen \in Nat
      BY <1>1, <1>5, <1>n DEF UserDelete, Object, WellFormed
    <2>2. /\ o \in Object /\ o.uid = current.uid /\ o.gen = current.gen + 1
          /\ o.fin = current.fin /\ o.del = TRUE
      BY <2>1, <1>1 DEF Object
    <2>3. UserWrite(o) /\ uids' = uids
      BY <1>5 DEF UserDelete
    <2> HIDE DEF o
    <2>4. WellFormed(o) /\ Follows(o)
      BY <2>1, <2>2, <1>1 DEF WellFormed, Follows
    <2> QED
      BY <2>2, <2>3, <2>4, <1>1, UserWriteKeeps
  <1>6. CASE OtherFinalizerDone
    <2> DEFINE o == [current EXCEPT !.held = FALSE]
    <2>1. /\ o \in Object /\ o.uid = current.uid /\ o.gen = current.gen
          /\ o.fin = current.fin /\ o.del = current.del
      BY <1>1 DEF Object
    <2>2. UserWrite(o) /\ uids' = uids
      BY <1>6 DEF OtherFinalizerDone
    <2> HIDE DEF o
    <2>3. WellFormed(o) /\ Follows(o)
      BY <2>1, <1>1 DEF WellFormed, Follows
    <2> QED
      BY <2>1, <2>2, <2>3, <1>1, UserWriteKeeps
  <1> QED
    BY <1>2, <1>3, <1>4, <1>5, <1>6 DEF User

\* The informer, the queue and a restart.
LEMMA QueueStep ==
  ASSUME Inv, Sync \/ TimerFires \/ Dequeue \/ Restart
  PROVE  VersionsInv' /\ OriginInv' /\ CopyInv' /\ RunInv'
  <1>i. TypeOK /\ VersionsInv /\ OriginInv /\ CopyInv /\ RunInv
    BY DEF Inv
  <1>e. Len(versions) \in Nat /\ Len(versions) >= 1
    BY <1>i, Ends
  <1>1. CASE Sync
    <2>1. /\ Len(versions') = Len(versions) - 1
          /\ \A i \in 1..Len(versions') : versions'[i] = versions[i + 1] /\ i + 1 \in 1..Len(versions)
          /\ current' = current
      BY <1>1, <1>i, <1>e, Synced
    <2>2. uids' = uids /\ pc' = pc /\ local' = local /\ finalized' = finalized /\ Len(versions) > 1
      BY <1>1 DEF Sync, histVars
    <2>3. \A i, j \in 1..Len(versions') : i <= j => i + 1 <= j + 1
      BY <2>1, <1>e
    <2>4. VersionsInv'
      <3>1. Ordered'
        <4> SUFFICES ASSUME NEW i \in 1..Len(versions'), NEW j \in 1..Len(versions'), i <= j,
                            versions'[i].uid # 0, versions'[j].uid # 0
                     PROVE  /\ versions'[i].uid <= versions'[j].uid
                            /\ versions'[i].uid = versions'[j].uid /\ versions'[i].del
                                 => versions'[j].del
          BY DEF Ordered
        <4>1. i + 1 \in 1..Len(versions) /\ j + 1 \in 1..Len(versions) /\ i + 1 <= j + 1
          BY <2>1, <2>3
        <4>2. versions'[i] = versions[i + 1] /\ versions'[j] = versions[j + 1]
          BY <2>1
        <4>3. Ordered
          BY <1>i DEF VersionsInv
        <4> QED
          BY ONLY <4>1, <4>2, <4>3, versions'[i].uid # 0, versions'[j].uid # 0 DEF Ordered
      <3>2. AddedToCached'
        BY <2>1, <1>i DEF VersionsInv, AddedToCached
      <3> QED
        BY <3>1, <3>2, <2>1, <2>2, <1>i DEF VersionsInv, WellFormed
    <2>5. OriginInv'
      BY <2>1, <2>2, <1>i DEF OriginInv, Active
    <2>6. CopyInv'
      BY <2>1, <2>2, <1>i DEF CopyInv, Active, WellFormed, u
    <2>7. RunInv'
      BY <2>1, <2>2, <1>i DEF RunInv, u
    <2> QED
      BY <2>4, <2>5, <2>6, <2>7
  <1>2. CASE TimerFires
    <2>1. UNCHANGED <<versions, uids, pc, local, finalized>>
      BY <1>2 DEF TimerFires, apiVars, histVars
    <2> QED
      BY <2>1, <1>i DEF VersionsInv, Ordered, AddedToCached, OriginInv, CopyInv, RunInv,
                        Active, WellFormed, u, current
  <1>3. CASE Dequeue
    BY <1>3, QuietKeeps, InactiveKeeps DEF Dequeue
  <1>4. CASE Restart
    <2>1. Len(versions') = 1 /\ versions'[1] = current
      BY <1>4, <1>i, Restarted
    <2>2. uids' = uids /\ pc' = "idle"
      BY <1>4 DEF Restart
    <2>3. WellFormed(current) /\ current.uid <= uids /\ current.uid \in Nat
      BY CurrentFacts
    <2>4. VersionsInv'
      BY <2>1, <2>2, <2>3 DEF VersionsInv, Ordered, AddedToCached, WellFormed
    <2> QED
      BY <2>2, <2>4, InactiveKeeps
  <1> QED
    BY <1>1, <1>2, <1>3, <1>4

\* Reconcile starts from the cached version.
LEMMA GetCachedStep ==
  ASSUME Inv, GetCached
  PROVE  VersionsInv' /\ OriginInv' /\ CopyInv' /\ RunInv'
  <1> DEFINE l == [NoLocals EXCEPT !.u = cached, !.fresh = (Len(versions) = 1),
                                   !.deleted = cached.del,
                                   !.requeue = (cached.period = "some"),
                                   !.began = cached.uid]
  <1>1. TypeOK /\ VersionsInv /\ UNCHANGED apiVars
    BY DEF Inv, GetCached
  <1>2. /\ Len(versions) \in Nat /\ 1 \in 1..Len(versions)
        /\ cached = versions[1] /\ cached \in Object /\ current = versions[Len(versions)]
        /\ cached.uid \in Nat /\ uids \in Nat
    <2>1. /\ Len(versions) \in Nat /\ Len(versions) >= 1
          /\ cached = versions[1] /\ cached \in Object /\ current = versions[Len(versions)]
      BY <1>1, Ends DEF current
    <2>2. cached.uid \in Nat
      BY <2>1, ReconcilerAssumption DEF Object
    <2>3. uids \in Nat
      BY <1>1, ReconcilerAssumption DEF TypeOK
    <2> QED
      BY <2>1, <2>2, <2>3
  <1>3. /\ l.u = cached /\ l.fresh = (Len(versions) = 1)
        /\ l.deleted = cached.del /\ l.began = cached.uid /\ l.runOK = FALSE
    BY DEF NoLocals
  <1>4. VersionsInv' /\ current' = current
    BY <1>1, QuietKeeps
  <1>5. \/ pc' = "idle"
        \/ /\ local' = l /\ cached.uid # 0
           /\ pc' \in {"errorGet", "addFinalizer", "runningGet", "start"}
           /\ pc' = "addFinalizer" => ~cached.del
    BY DEF GetCached, Return, Continue, AfterFinalizer
  <1> HIDE DEF l
  <1>6. CASE pc' = "idle"
    BY <1>4, <1>6, InactiveKeeps
  <1>7. CASE /\ local' = l /\ cached.uid # 0
             /\ pc' \in {"errorGet", "addFinalizer", "runningGet", "start"}
             /\ pc' = "addFinalizer" => ~cached.del
    <2>1. versions' = versions /\ uids' = uids /\ u' = cached
      BY <1>1, <1>3, <1>7 DEF apiVars, u
    <2>2. WellFormed(cached) /\ cached.uid <= uids
      BY <1>1, <1>2 DEF VersionsInv
    <2>3. \A i \in 1..Len(versions) :
             /\ versions[i].uid # 0 => versions[i].uid >= cached.uid
             /\ versions[i].fin => versions[i].uid <= cached.uid
             /\ cached.del /\ versions[i].uid = cached.uid => versions[i].del
      <3> TAKE i \in 1..Len(versions)
      <3>1. 1 <= i /\ versions[i] \in Object
        BY <1>1, <1>2, Ends
      <3>2. versions[i].uid \in Nat
        BY <3>1, ReconcilerAssumption DEF Object
      <3>3. versions[i].uid # 0 => /\ cached.uid <= versions[i].uid
                                   /\ cached.uid = versions[i].uid /\ cached.del => versions[i].del
        BY <1>1, <1>2, <1>7, <3>1 DEF VersionsInv, Ordered
      <3>4. versions[i].fin => versions[i].uid <= cached.uid
        BY <1>1, <1>2, <1>7 DEF VersionsInv, AddedToCached
      <3> QED
        BY <1>2, <1>7, <3>2, <3>3, <3>4
    <2>4. OriginInv'
      BY <1>2, <1>3, <1>7, <2>1, <2>2, <2>3 DEF OriginInv
    <2>5. Len(versions) = 1 => cached = current
      BY <1>2
    <2>6. CopyInv'
      BY <1>2, <1>3, <1>4, <1>7, <2>1, <2>2, <2>5 DEF CopyInv, WellFormed
    <2>7. RunInv'
      BY <1>3, <1>7 DEF RunInv
    <2> QED
      BY <1>4, <2>4, <2>6, <2>7
  <1> QED
    BY <1>5, <1>6, <1>7

\* The two updates of the finalizer work on the current version.
LEMMA FinalizerStep ==
  ASSUME Inv, AddFinalizer \/ RemoveFinalizer
  PROVE  VersionsInv' /\ OriginInv' /\ CopyInv' /\ RunInv'
  <1>1. TypeOK /\ VersionsInv /\ OriginInv /\ CopyInv /\ RunInv
    BY DEF Inv
  <1>2. /\ local.fresh /\ Active /\ uids' = uids
        /\ pc \in {"addFinalizer", "removeFinalizer"}
    BY DEF AddFinalizer, RemoveFinalizer, Update, Active
  <1>3. u = current /\ u.uid # 0 /\ WellFormed(u)
    BY <1>1, <1>2 DEF CopyInv
  <1>4. /\ current \in Object /\ uids \in Nat /\ current.uid <= uids /\ current.uid \in Nat
        /\ local \in Locals
    BY CurrentFacts, <1>1 DEF TypeOK
  <1>5. CASE AddFinalizer
    <2> DEFINE o == [u EXCEPT !.fin = TRUE]
    <2>1. /\ o \in Object /\ o.uid = u.uid /\ o.gen = u.gen /\ o.del = u.del
      BY <1>3, <1>4 DEF Object
    <2>2. /\ Write(o)
          /\ \/ local' = [local EXCEPT !.u = o] /\ pc' \in {"runningGet", "start"}
             \/ pc' = "idle"
      BY <1>5 DEF AddFinalizer, Update, Continue, ReturnErr, Return, AfterFinalizer
    <2>3. u.uid = local.began /\ Len(versions) = 1
      BY <1>1, <1>2, <1>5 DEF CopyInv, AddFinalizer
    <2> HIDE DEF o
    <2>4. WellFormed(o) /\ Follows(o) /\ o.uid <= local.began
      BY <2>1, <2>3, <1>3, <1>4 DEF WellFormed, Follows
    <2>5. VersionsInv'
      BY <2>1, <2>2, <2>4, <1>1, <1>2, <1>3, <1>4, WriteKeepsVersions
    <2>6. CASE pc' = "idle"
      BY <2>5, <2>6, InactiveKeeps
    <2>7. CASE local' = [local EXCEPT !.u = o] /\ pc' \in {"runningGet", "start"}
      <3>1. /\ local'.began = local.began /\ local'.deleted = local.deleted /\ u' = o
            /\ local'.runOK = local.runOK
        BY <2>7, <1>4 DEF Locals, u
      <3>2. /\ OriginInv'
            /\ current.uid # local.began => current'.uid # local.began
        BY <3>1, <2>1, <2>2, <2>4, <1>1, <1>2, <1>4, WriteKeepsOrigin
      <3>3. CopyInv'
        BY <3>1, <3>2, <2>1, <2>7, <1>2, KeptCopy
      <3>4. RunInv'
        BY <1>1, <1>5, <2>7, <3>1 DEF RunInv, AddFinalizer
      <3> QED
        BY <2>5, <3>2, <3>3, <3>4
    <2> QED
      BY <2>2, <2>6, <2>7
  <1>6. CASE RemoveFinalizer
    <2> DEFINE o == [u EXCEPT !.fin = FALSE]
    <2>1. /\ o \in Object /\ o.uid = u.uid /\ o.gen = u.gen /\ o.del = u.del /\ ~o.fin
      BY <1>3, <1>4 DEF Object
    <2>2. /\ Write(o)
          /\ \/ local' = [local EXCEPT !.u.fin = FALSE] /\ pc' = "doneGet"
             \/ pc' = "idle"
      BY <1>6 DEF RemoveFinalizer, Conclude, Continue, ReturnErr, Return
    <2> HIDE DEF o
    <2>3. WellFormed(o) /\ Follows(o)
      BY <2>1, <1>3, <1>4 DEF WellFormed, Follows
    <2>4. VersionsInv'
      BY <2>1, <2>2, <2>3, <1>1, <1>2, <1>3, <1>4, WriteKeepsVersions
    <2>5. CASE pc' = "idle"
      BY <2>4, <2>5, InactiveKeeps
    <2>6. CASE local' = [local EXCEPT !.u.fin = FALSE] /\ pc' = "doneGet"
      <3>1. /\ local'.began = local.began /\ local'.deleted = local.deleted
            /\ u'.uid = u.uid /\ u'.del = u.del /\ u'.gen = u.gen
        BY <2>6, <1>4 DEF Locals, Object, u
      <3>2. /\ OriginInv'
            /\ current.uid # local.began => current'.uid # local.began
        BY <3>1, <2>1, <2>2, <2>3, <1>1, <1>2, <1>4, WriteKeepsOrigin
      <3>3. CopyInv'
        BY <3>1, <3>2, <2>6, <1>2, KeptCopy
      <3>4. RunInv'
        BY <2>6 DEF RunInv
      <3> QED
        BY <2>4, <3>2, <3>3, <3>4
    <2> QED
      BY <2>2, <2>5, <2>6
  <1> QED
    BY <1>5, <1>6

\* A status update writes the metadata of the current version again.
LEMMA StatusStep ==
  ASSUME Inv, MarkRunningPut \/ MarkDonePut \/ MarkErrorPut
  PROVE  VersionsInv' /\ OriginInv' /\ CopyInv' /\ RunInv'
  <1>1. TypeOK /\ VersionsInv /\ OriginInv
    BY DEF Inv
  <1>2. Write(current) /\ uids' = uids /\ Active
    BY DEF MarkRunningPut, MarkDonePut, MarkErrorPut, WriteStatus, Active
  <1>3. /\ current \in Object /\ uids \in Nat /\ current.uid <= uids /\ WellFormed(current)
        /\ Active => (current.fin => current.uid <= local.began)
    BY CurrentFacts
  <1>4. Follows(current)
    BY DEF Follows
  <1>5. VersionsInv'
    BY <1>1, <1>2, <1>3, <1>4, WriteKeepsVersions
  <1>6. pc' = "idle" \/ (pc = "runningPut" /\ pc' = "start" /\ local' = local)
    BY DEF MarkRunningPut, MarkDonePut, MarkErrorPut, Continue, ReturnErr, Return
  <1>7. CASE pc' = "idle"
    BY <1>5, <1>7, InactiveKeeps
  <1>8. CASE pc = "runningPut" /\ pc' = "start" /\ local' = local
    <2>1. /\ OriginInv'
          /\ current.uid # local.began => current'.uid # local.began
      BY <1>1, <1>2, <1>3, <1>4, <1>8, WriteKeepsOrigin
    <2>2. CopyInv'
      BY <2>1, <1>2, <1>8, KeptCopy DEF u
    <2>3. RunInv'
      BY <1>8 DEF Inv, RunInv
    <2> QED
      BY <1>5, <2>1, <2>2, <2>3
  <1> QED
    BY <1>6, <1>7, <1>8

\* A deletion that Reconcile started from is finalized by its run: the finalizer
\* can only be on the resource it started from, the copy is that resource too,
\* and it is deleted, so the run was a finalizer run for it.
LEMMA RunStep ==
  ASSUME Inv, StartRun \/ RunFinishes
  PROVE  VersionsInv' /\ OriginInv' /\ CopyInv' /\ RunInv'
  <1>1. TypeOK /\ VersionsInv /\ OriginInv /\ CopyInv /\ RunInv
    BY DEF Inv
  <1>2. UNCHANGED apiVars /\ Active /\ local \in Locals
    BY <1>1 DEF StartRun, RunFinishes, Active, TypeOK
  <1>3. CASE StartRun
    <2>1. pc' = "run" /\ local' = [local EXCEPT !.finRun = isFinalizerRun]
      BY <1>3 DEF StartRun, Continue
    <2>2. /\ local'.began = local.began /\ local'.deleted = local.deleted
          /\ u' = u /\ local'.finRun = isFinalizerRun /\ local'.runOK = local.runOK
      BY <2>1, <1>2 DEF Locals, u
    <2>3. VersionsInv' /\ OriginInv' /\ current' = current /\ uids' = uids
      BY <2>2, <1>2, QuietKeeps DEF apiVars
    <2>4. CopyInv'
      BY <2>1, <2>2, <2>3, <1>2, KeptCopy
    <2>5. RunInv'
      BY <2>1, <2>2, <1>1, <1>3 DEF RunInv, StartRun
    <2> QED
      BY <2>3, <2>4, <2>5
  <1>4. CASE RunFinishes
    <2>1. /\ pc = "run" /\ pc' = "refresh"
          /\ \/ /\ local' = [local EXCEPT !.runOK = TRUE]
                /\ finalized' = IF local.finRun THEN finalized \cup {u.uid} ELSE finalized
             \/ local' = local /\ finalized' = finalized
      BY <1>4 DEF RunFinishes, Continue
    <2>2. /\ local'.began = local.began /\ local'.deleted = local.deleted /\ u' = u
      BY <2>1, <1>2 DEF Locals, u
    <2>3. VersionsInv' /\ OriginInv' /\ current' = current /\ uids' = uids
      BY <2>2, <1>2, QuietKeeps DEF apiVars
    <2>4. CopyInv'
      BY <2>1, <2>2, <2>3, <1>2, KeptCopy
    <2>5. ASSUME local'.runOK, local.deleted, current.fin, current.uid # 0
          PROVE  current.uid \in finalized'
      <3>1. finalized' = IF local.finRun THEN finalized \cup {u.uid} ELSE finalized
        BY <1>1, <2>1, <2>5 DEF RunInv
      <3>2. current.uid = local.began
        BY <1>2, <2>5, CurrentFacts
      <3>3. u.uid = local.began /\ u.del
        BY <1>1, <1>2, <2>5, <3>2 DEF CopyInv
      <3> QED
        BY <1>1, <2>1, <3>1, <3>2, <3>3 DEF RunInv
    <2>6. RunInv'
      BY <2>1, <2>2, <2>3, <2>5 DEF RunInv
    <2> QED
      BY <2>3, <2>4, <2>6
  <1> QED
    BY <1>3, <1>4

\* The other steps of Reconcile return, or go on with the copy or a new one.
LEMMA OtherStep ==
  ASSUME Inv,
         \/ MarkRunningGet \/ RunRefused \/ RunRequeues \/ RunAborts \/ RunSilent
         \/ RefreshAfterRun \/ MarkDoneGet \/ MarkErrorGet \/ Conflict \/ CallFails
  PROVE  VersionsInv' /\ OriginInv' /\ CopyInv' /\ RunInv'
  <1>1. TypeOK /\ VersionsInv /\ OriginInv /\ CopyInv /\ RunInv /\ UNCHANGED apiVars
    BY DEF Inv, MarkRunningGet, RunRefused, RunRequeues, RunAborts, RunSilent,
           RefreshAfterRun, MarkDoneGet, MarkErrorGet, Conflict, CallFails
  <1>2. VersionsInv' /\ current' = current /\ uids' = uids /\ local \in Locals
    BY <1>1, QuietKeeps DEF apiVars, TypeOK
  <1>3. CASE pc' = "idle"
    BY <1>2, <1>3, InactiveKeeps
  <1>4. ASSUME NEW label \in {"runningPut", "donePut", "errorPut"}, Read(label), Active,
               label = "runningPut" => pc = "runningGet"
        PROVE  OriginInv' /\ CopyInv' /\ RunInv'
    <2>1. pc' = label /\ current.uid # 0 /\ local' = [local EXCEPT !.u = current, !.fresh = TRUE]
      BY <1>4 DEF Read, Continue
    <2>2. /\ u' = current /\ local'.began = local.began /\ local'.deleted = local.deleted
          /\ local'.runOK = local.runOK
      BY <2>1, <1>2 DEF Locals, u
    <2>3. OriginInv' /\ CopyInv'
      BY <2>1, <2>2, <1>1, <1>4, QuietKeeps, ReadCopy
    <2>4. RunInv'
      BY <2>1, <2>2, <1>1, <1>4 DEF RunInv
    <2> QED
      BY <2>3, <2>4
  <1>5. CASE MarkRunningGet
    BY <1>2, <1>3, <1>4, <1>5 DEF MarkRunningGet, Active, ReturnErr, Return
  <1>6. CASE MarkDoneGet
    BY <1>2, <1>3, <1>4, <1>6 DEF MarkDoneGet, Active, Return
  <1>7. CASE MarkErrorGet
    BY <1>2, <1>3, <1>4, <1>7 DEF MarkErrorGet, Active, ReturnErr, Return
  <1>8. CASE RunRefused \/ RunSilent
    <2>1. pc' = "errorGet" /\ local' = local /\ Active
      BY <1>8 DEF RunRefused, RunSilent, Continue, Active
    <2>2. OriginInv' /\ CopyInv'
      BY <2>1, <1>1, <1>2, QuietKeeps, KeptCopy DEF u
    <2>3. RunInv'
      BY <2>1 DEF RunInv
    <2> QED
      BY <1>2, <2>2, <2>3
  <1>9. CASE RunRequeues \/ RunAborts \/ Conflict \/ CallFails
    BY <1>3, <1>9 DEF RunRequeues, RunAborts, Conflict, CallFails, ReturnErr, Return
  <1>10. CASE RefreshAfterRun
    <2> DEFINE l == [local EXCEPT !.u = current, !.fresh = TRUE,
                                  !.requeue = @ \/ (current.del /\ HasFinalizer)]
    <2>1. Active /\ pc = "refresh" /\ finalized' = finalized
      BY <1>10 DEF RefreshAfterRun, Active, histVars
    <2>2. \/ pc' = "idle"
          \/ RemovalDue /\ Read("removeFinalizer")
          \/ current.uid # 0 /\ local' = l /\ pc' = "doneGet"
      BY <1>10 DEF RefreshAfterRun, Conclude, Continue, Return
    <2>3. /\ l.u = current /\ l.began = local.began /\ l.deleted = local.deleted
      BY <1>2 DEF Locals
    <2> HIDE DEF l
    <2>4. CASE current.uid # 0 /\ local' = l /\ pc' = "doneGet"
      <3>1. OriginInv' /\ CopyInv'
        BY <2>1, <2>3, <2>4, <1>1, QuietKeeps, ReadCopy DEF u
      <3>2. RunInv'
        BY <2>4 DEF RunInv
      <3> QED
        BY <3>1, <3>2, <1>2
    <2>5. CASE RemovalDue /\ Read("removeFinalizer")
      <3>1. /\ pc' = "removeFinalizer" /\ current.uid # 0
            /\ local' = [local EXCEPT !.u = current, !.fresh = TRUE]
        BY <2>5 DEF Read, Continue
      <3>2. u' = current /\ local'.began = local.began /\ local'.deleted = local.deleted
        BY <3>1, <1>2 DEF Locals, u
      <3>3. OriginInv' /\ CopyInv'
        BY <3>1, <3>2, <2>1, <1>1, QuietKeeps, ReadCopy
      <3>4. current.fin => current.uid \in finalized
        BY <3>1, <2>1, <2>5, <1>1 DEF RunInv, RemovalDue
      <3>5. RunInv'
        BY <3>1, <3>2, <3>4, <2>1 DEF RunInv
      <3> QED
        BY <3>3, <3>5, <1>2
    <2> QED
      BY <2>2, <2>4, <2>5, <1>3
  <1> QED
    BY <1>5, <1>6, <1>7, <1>8, <1>9, <1>10

\* The invariant is inductive.
LEMMA InvStep == Preset = FALSE /\ Inv /\ [Next]_vars => Inv'
  <1> SUFFICES ASSUME Preset = FALSE, Inv, [Next]_vars
               PROVE  Inv'
    OBVIOUS
  <1>1. TypeOK'
    BY TypeStep DEF Inv
  <1>2. CASE UNCHANGED vars
    BY <1>1, <1>2
    DEF vars, apiVars, queueVars, histVars, Inv, VersionsInv, Ordered, AddedToCached,
        OriginInv, CopyInv, RunInv, Active, WellFormed, u, current
  <1>3. CASE User
    BY <1>1, <1>3, UserStep DEF Inv
  <1>4. CASE Sync \/ TimerFires \/ Dequeue \/ Restart
    BY <1>1, <1>4, QueueStep DEF Inv
  <1>5. CASE Reconcile
    <2>1. VersionsInv' /\ OriginInv' /\ CopyInv' /\ RunInv'
      BY <1>5, GetCachedStep, FinalizerStep, StatusStep, RunStep, OtherStep DEF Reconcile
    <2> QED
      BY <1>1, <2>1 DEF Inv
  <1> QED
    BY <1>2, <1>3, <1>4, <1>5 DEF Next

\* At the start there is no resource and no reconciliation.
LEMMA InvInit == Init => Inv
  <1> SUFFICES ASSUME Init PROVE Inv
    OBVIOUS
  <1>n. /\ MaxUid \in Nat /\ MaxEdits \in Nat /\ MaxPatches \in Nat /\ MaxFaults \in Nat
        /\ MaxCrashes \in Nat /\ MaxLag \in Nat \ {0}
    BY ReconcilerAssumption
  <1>1. /\ Len(versions) = 1 /\ versions[1] = Absent /\ versions \in Seq(Object)
    BY PlaceholderTypes DEF Init
  <1>2. VersionsType
    BY <1>1, <1>n DEF VersionsType
  <1>3. ControlType
    BY PlaceholderTypes DEF Init, ControlType, PCs
  <1>4. status \in StatusType
    BY DEF Init, NoStatus, StatusType
  <1>5. RestType
    BY <1>4, <1>n DEF Init, RestType
  <1>6. TypeOK
    BY <1>2, <1>3, <1>5, TypeParts
  <1>7. VersionsInv
    BY <1>1 DEF Init, VersionsInv, Ordered, AddedToCached, WellFormed, Absent
  <1>8. OriginInv /\ CopyInv /\ RunInv
    BY DEF Init, OriginInv, CopyInv, RunInv, Active
  <1> QED
    BY <1>6, <1>7, <1>8 DEF Inv

----------------------------------------------------------------------------
\* If users do not write the finalizer into their manifests the variables keep
\* their types and the inductive invariant holds throughout.
THEOREM InvHolds == ASSUME Preset = FALSE PROVE Spec => [](TypeOK /\ Inv)
  <1>1. Inv => TypeOK
    BY DEF Inv
  <1>2. Inv /\ [Next]_vars => Inv'
    BY InvStep
  <1> QED
    BY <1>1, <1>2, InvInit, PTL DEF Spec

\* What FinalizedFirst says of a step.
Loses == current.uid # 0 /\ current.fin /\ (current'.uid # current.uid \/ ~current'.fin)

\* Only the update of Reconcile that removes the finalizer takes it off: every
\* other write keeps the resource as long as it has a finalizer.
LEMMA FinalizedFirstStep == Inv /\ [Next]_vars => [Loses => current.uid \in finalized]_vars
  <1> SUFFICES ASSUME Inv, Next, Loses
               PROVE  current.uid \in finalized
    BY DEF Loses, vars, apiVars, histVars
  <1>1. TypeOK /\ CopyInv /\ RunInv /\ current \in Object /\ local \in Locals
    BY CurrentFacts DEF Inv, TypeOK
  <1>2. ASSUME NEW o \in Object, Write(o), o.uid = current.uid, o.fin
        PROVE  FALSE
    BY <1>1, <1>2, Written DEF Loses, Settled
  <1>3. ASSUME UNCHANGED versions PROVE FALSE
    BY <1>1, <1>3 DEF Loses, current, Object
  <1>4. CASE User
    <2>1. current.uid # 0 /\ current.fin
      BY DEF Loses
    <2>2. CASE UserCreate
      BY <2>1, <2>2 DEF UserCreate
    <2>3. CASE UserEditSpec
      <3>1. current.gen + 1 \in 0..(MaxEdits + 2)
        BY <2>3, <1>1, ReconcilerAssumption DEF UserEditSpec, Object
      <3>2. /\ [current EXCEPT !.gen = @ + 1] \in Object
            /\ [current EXCEPT !.gen = @ + 1].uid = current.uid
            /\ [current EXCEPT !.gen = @ + 1].fin
        BY <3>1, <2>1, <1>1 DEF Object
      <3> QED
        BY <3>2, <2>3, <1>2 DEF UserEditSpec, UserWrite
    <2>4. CASE UserEditPeriod
      <3>1. PICK p \in {"some", "zero", "bad"} : Write([current EXCEPT !.period = p])
        BY <2>4, ReconcilerAssumption DEF UserEditPeriod, UserWrite
      <3>2. /\ [current EXCEPT !.period = p] \in Object
            /\ [current EXCEPT !.period = p].uid = current.uid
            /\ [current EXCEPT !.period = p].fin
        BY <2>1, <1>1 DEF Object
      <3> QED
        BY <3>1, <3>2, <1>2
    <2>5. CASE UserDelete
      <3>1. current.gen + 1 \in 0..(MaxEdits + 2)
        BY <2>5, <1>1, CurrentFacts, ReconcilerAssumption DEF UserDelete, Object, WellFormed
      <3>2. /\ [current EXCEPT !.del = TRUE, !.gen = @ + 1] \in Object
            /\ [current EXCEPT !.del = TRUE, !.gen = @ + 1].uid = current.uid
            /\ [current EXCEPT !.del = TRUE, !.gen = @ + 1].fin
        BY <3>1, <2>1, <1>1 DEF Object
      <3> QED
        BY <3>2, <2>5, <1>2 DEF UserDelete, UserWrite
    <2>6. CASE OtherFinalizerDone
      <3>1. /\ [current EXCEPT !.held = FALSE] \in Object
            /\ [current EXCEPT !.held = FALSE].uid = current.uid
            /\ [current EXCEPT !.held = FALSE].fin
        BY <2>1, <1>1 DEF Object
      <3> QED
        BY <3>1, <2>6, <1>2 DEF OtherFinalizerDone, UserWrite
    <2> QED
      BY <1>4, <2>2, <2>3, <2>4, <2>5, <2>6 DEF User
  <1>5. CASE Sync \/ TimerFires \/ Dequeue \/ Restart
    <2>1. CASE Sync
      BY <2>1, <1>1, Synced DEF Loses
    <2>2. CASE Restart
      BY <2>2, <1>1, Restarted DEF Loses
    <2> QED
      BY <1>3, <1>5, <2>1, <2>2 DEF TimerFires, Dequeue, apiVars
  <1>6. CASE AddFinalizer
    <2>1. u = current
      BY <1>1, <1>6 DEF AddFinalizer, Update, CopyInv, Active
    <2>2. /\ [u EXCEPT !.fin = TRUE] \in Object
          /\ [u EXCEPT !.fin = TRUE].uid = current.uid
          /\ [u EXCEPT !.fin = TRUE].fin
      BY <2>1, <1>1 DEF Object
    <2> QED
      BY <2>2, <1>2, <1>6 DEF AddFinalizer, Update
  <1>7. CASE RemoveFinalizer
    <2>1. pc = "removeFinalizer" /\ u = current
      BY <1>1, <1>7 DEF RemoveFinalizer, CopyInv, Active
    <2> QED
      BY <2>1, <1>1 DEF RunInv, Loses
  <1>8. CASE MarkRunningPut \/ MarkDonePut \/ MarkErrorPut
    BY <1>1, <1>2, <1>8 DEF MarkRunningPut, MarkDonePut, MarkErrorPut, WriteStatus, Loses
  <1>9. CASE \/ GetCached \/ MarkRunningGet \/ StartRun \/ RunRefused \/ RunFinishes
             \/ RunRequeues \/ RunAborts \/ RunSilent \/ RefreshAfterRun \/ MarkDoneGet
             \/ MarkErrorGet \/ Conflict \/ CallFails
    BY <1>3, <1>9
    DEF GetCached, MarkRunningGet, StartRun, RunRefused, RunFinishes, RunRequeues, RunAborts,
        RunSilent, RefreshAfterRun, MarkDoneGet, MarkErrorGet, Conflict, CallFails, apiVars
  <1> QED
    BY <1>4, <1>5, <1>6, <1>7, <1>8, <1>9 DEF Next, Reconcile

\* "The finalizer has run successfully, time to remove it" (Reconcile): for any
\* number of creations, edits, failures and restarts and any lag of the cache,
\* if users do not write the finalizer into their manifests the operator takes
\* it off a resource only after a finalizer run for that very resource.
THEOREM RemovalSafety == ASSUME Preset = FALSE PROVE Spec => FinalizedFirst
  <1>1. Inv /\ [Next]_vars => Inv'
    BY InvStep
  <1>2. FinalizedFirst <=> [][Loses => current.uid \in finalized]_vars
    BY DEF FinalizedFirst, Loses
  <1> QED
    BY <1>1, <1>2, InvInit, FinalizedFirstStep, PTL DEF Spec

----------------------------------------------------------------------------
\* VerdictsExclusive is inductive once the status is known to be a function on
\* the conditions.
VerdictInv == status \in StatusType /\ VerdictsExclusive

\* Every mark leaves a status without contradiction.
LEMMA VerdictStep == VerdictInv /\ [Next]_vars => VerdictInv'
  <1> SUFFICES ASSUME VerdictInv, [Next]_vars
               PROVE  VerdictInv'
    OBVIOUS
  <1>1. ASSUME NEW ok \in BOOLEAN,
               status' \in {NoStatus, status, RunningVerdict(status), ErrorVerdict(status),
                            DoneVerdict(status, ok)}
        PROVE  VerdictInv'
    <2>1. status' \in StatusType
      BY <1>1, VerdictTypes DEF VerdictInv
    <2>2. VerdictsExclusive'
      BY <1>1 DEF VerdictInv, VerdictsExclusive, StatusType, ConditionTypes, NoStatus, Flip,
                  RunningVerdict, ErrorVerdict, DoneVerdict
    <2> QED
      BY <2>1, <2>2 DEF VerdictInv
  <1>2. CASE MarkDonePut
    <2>1. status' = DoneVerdict(status, TRUE) \/ status' = DoneVerdict(status, FALSE)
      BY <1>2 DEF MarkDonePut, WriteStatus, DoneVerdict
    <2> QED
      BY <2>1, <1>1
  <1>3. CASE MarkRunningPut
    BY <1>3, <1>1 DEF MarkRunningPut, WriteStatus
  <1>4. CASE MarkErrorPut
    BY <1>4, <1>1 DEF MarkErrorPut, WriteStatus
  <1>5. CASE UserCreate
    BY <1>5, <1>1 DEF UserCreate
  <1>6. CASE UNCHANGED status
    BY <1>6, <1>1
  <1>7. [Next]_vars => \/ MarkDonePut \/ MarkRunningPut \/ MarkErrorPut \/ UserCreate
                       \/ UNCHANGED status
    BY DEF Next, User, UserEditSpec, UserEditPeriod, UserDelete, OtherFinalizerDone, Sync,
           TimerFires, Dequeue, Restart, Reconcile, GetCached, AddFinalizer, MarkRunningGet,
           StartRun, RunRefused, RunFinishes, RunRequeues, RunAborts, RunSilent,
           RefreshAfterRun, RemoveFinalizer, MarkDoneGet, MarkErrorGet, Conflict, CallFails,
           apiVars, vars
  <1> QED
    BY <1>2, <1>3, <1>4, <1>5, <1>6, <1>7

\* Whatever the options, the failures and the users, the status of a resource
\* never reports success and failure at once.
THEOREM VerdictSafety == Spec => []VerdictsExclusive
  <1>1. Init => VerdictInv
    BY DEF Init, VerdictInv, VerdictsExclusive, NoStatus, StatusType, ConditionTypes
  <1>2. VerdictInv => VerdictsExclusive
    BY DEF VerdictInv
  <1> QED
    BY <1>1, <1>2, VerdictStep, PTL DEF Spec

----------------------------------------------------------------------------
(* Protection by the finalizer.                                            *)

\* A finalizer, once seen, stays on the resource until it has been deleted.
FinStays ==
    \A i \in 1..Len(versions) :
        (versions[i].fin /\ versions[i].uid # 0 /\ versions[i].uid = current.uid)
            => current.fin \/ current.del

\* Before the run the copy has the finalizer, or belongs to a resource that is
\* deleted (Run then refuses it), or to one re-created under the same name; and
\* so has what markRunning is about to read.  Updates of the finalizer are only
\* under way if it is configured, and removals only if the resource is deleted.
ProtectedInv ==
    /\ pc = "addFinalizer" => HasFinalizer
    /\ pc = "removeFinalizer" => local.deleted
    /\ HasFinalizer /\ pc \in {"runningGet", "runningPut", "start"} /\ u.uid = local.began
           => u.fin \/ u.del
    /\ HasFinalizer /\ pc = "runningGet" /\ current.uid = local.began
           => current.fin \/ current.del
    /\ RunProtected

----------------------------------------------------------------------------
(* Work that is left to do.                                                *)

\* WorkRemembered is about such a resource, and about roles that do not call
\* requeue_after with a period of zero.
Unfinished(o) ==
    /\ options.zeroRequeue = FALSE
    /\ o.uid # 0
    /\ \/ o.del /\ o.fin
       \/ ~o.del /\ <<o.uid, o.gen>> \notin ran

Same(o, p) == o.uid = p.uid /\ o.gen = p.gen

\* The cache has still to pass a version of another resource or generation: an
\* event will come that the predicates let through.
EventPending == \E i \in 1..Len(versions) : ~Same(versions[i], current)

\* Two versions in a row are of the same resource unless one is its absence.
Neighbours ==
    \A i \in 1..(Len(versions) - 1) :
        versions[i].uid # 0 /\ versions[i + 1].uid # 0 => versions[i].uid = versions[i + 1].uid

\* The generation tells a deleted resource from a living one, and a deleted
\* resource does not gain the finalizer any more.
Generations ==
    \A i \in 1..Len(versions) :
        versions[i].uid # 0 /\ versions[i].uid = current.uid =>
            /\ versions[i].gen <= current.gen
            /\ versions[i].gen = current.gen => versions[i].del = current.del
            /\ versions[i].del /\ current.fin => versions[i].fin

\* Only the operator sets the finalizer, and only if it is configured.
Configured == \A i \in 1..Len(versions) : versions[i].fin => HasFinalizer

VersionFacts == FinStays /\ Neighbours /\ Generations /\ Configured

\* Reconcile works on the current generation.
OnCurrent == Same(u, current) /\ u.del = current.del

\* What Reconcile is still going to do about the current resource: it looks at
\* the cache or at the API server before it decides, it runs the generation it
\* has read, it removes the finalizer, or it returns so that it is called again.
Handled ==
    \/ pc \in {"get", "runningGet", "errorGet", "errorPut"}
    \/ pc \in {"addFinalizer", "runningPut", "start"} /\ OnCurrent
    \/ pc \in {"run", "refresh", "removeFinalizer"} /\ current.del
    \/ pc \in {"doneGet", "donePut"} /\ (~local.runOK \/ local.requeue)

\* Unfinished work is in the queue, on a timer, announced by an event to come,
\* or in the hands of Reconcile.
NothingForgotten == Unfinished(current) => queued \/ delayed \/ EventPending \/ Handled

WorkInv == VersionFacts /\ ProtectedInv /\ NothingForgotten

----------------------------------------------------------------------------
(* The versions.                                                           *)

\* The versions that may be written: a new resource, or the current one with
\* a newer or the same generation; a deletion and the finalizer of a resource
\* that is not deleted are not taken back.
Evolves(o) ==
    /\ o.uid = current.uid \/ (o.uid = uids + 1 /\ current.uid = 0)
    /\ o.uid = current.uid /\ o.uid # 0 =>
         /\ o.gen >= current.gen
         /\ o.gen = current.gen => o.del = current.del
         /\ current.del => o.del
         /\ current.del /\ o.fin => current.fin
         /\ current.fin => o.fin \/ o.del

\* The numbers in a version are numbers.
LEMMA ObjectNumbers == ASSUME NEW o \in Object PROVE o.uid \in Nat /\ o.gen \in Nat
  BY ReconcilerAssumption DEF Object

\* Such a write keeps what is said about the versions, and announces an event
\* if it changes the resource or its generation.
LEMMA WriteKeepsWork ==
  ASSUME TypeOK, VersionsInv, VersionFacts, NEW o \in Object, Write(o), Evolves(o),
         o.fin => HasFinalizer, UNCHANGED <<ran, options>>
  PROVE  /\ VersionFacts'
         /\ EventPending => EventPending'
         /\ ~Same(current', current) => EventPending'
         /\ Unfinished(current)' /\ Same(current', current) =>
              /\ current' = o /\ o.del = current.del /\ o.uid = current.uid
              /\ Unfinished(current)
         /\ current' = o \/ current'.uid = 0
  <1> DEFINE n == Len(versions)
             s == Settled(o)
  <1>1. /\ n \in Nat /\ n >= 1 /\ n \in 1..n
        /\ \A i \in 1..n : versions[i] \in Object
        /\ current = versions[n] /\ current \in Object
    BY Ends DEF current
  <1>2. /\ Len(versions') = n + 1 /\ s \in Object
        /\ \A i \in 1..n : versions'[i] = versions[i]
        /\ versions'[n + 1] = s /\ current' = s
    BY Written
  <1>3. (s.uid = 0 /\ ~s.fin) \/ s = o
    BY DEF Settled, Absent
  <1>4. /\ uids \in Nat
        /\ \A i \in 1..n : /\ versions[i].uid \in Nat /\ versions[i].gen \in Nat
                           /\ versions[i].uid <= uids
        /\ s.uid \in Nat /\ s.gen \in Nat /\ o.uid \in Nat /\ o.gen \in Nat
        /\ current.uid \in Nat /\ current.gen \in Nat
    <2>1. uids \in Nat
      BY ReconcilerAssumption DEF TypeOK
    <2>2. \A i \in 1..n : versions[i].uid \in Nat /\ versions[i].gen \in Nat
      BY <1>1, ObjectNumbers
    <2>3. \A i \in 1..n : versions[i].uid <= uids
      BY DEF VersionsInv
    <2>4. s.uid \in Nat /\ s.gen \in Nat /\ o.uid \in Nat /\ o.gen \in Nat
      BY <1>2, ObjectNumbers
    <2> QED
      BY <1>1, <2>1, <2>2, <2>3, <2>4
  <1>5. \A i \in 1..n : versions[i].uid = current.uid /\ current.uid # 0 /\ versions[i].del => current.del
    BY <1>1 DEF VersionsInv, Ordered
  <1> HIDE DEF n, s
  <1>6. 1..Len(versions') = (1..n) \cup {n + 1}
    BY <1>1, <1>2
  <1>7. FinStays'
    <2> SUFFICES ASSUME NEW i \in 1..Len(versions'), versions'[i].fin, versions'[i].uid # 0,
                        versions'[i].uid = s.uid
                 PROVE  s.fin \/ s.del
      BY <1>2 DEF FinStays
    <2>1. CASE i = n + 1
      BY <1>2, <2>1
    <2>2. CASE i \in 1..n
      <3>1. s = o /\ o.uid = current.uid
        BY <1>2, <1>3, <1>4, <2>2 DEF Evolves
      <3>2. current.fin \/ current.del
        BY <1>2, <2>2, <3>1 DEF VersionFacts, FinStays, n
      <3> QED
        BY <1>2, <2>2, <3>1, <3>2 DEF Evolves
    <2> QED
      BY <1>6, <2>1, <2>2
  <1>8. Neighbours'
    <2> SUFFICES ASSUME NEW i \in 1..n, versions'[i].uid # 0, versions'[i + 1].uid # 0
                 PROVE  versions'[i].uid = versions'[i + 1].uid
      BY <1>1, <1>2 DEF Neighbours
    <2>1. CASE i = n
      <3>1. versions'[i] = current /\ versions'[i + 1] = s
        BY <1>1, <1>2, <2>1
      <3> QED
        BY <1>3, <3>1 DEF Evolves
    <2>2. CASE i \in 1..(n - 1)
      <3>1. versions'[i] = versions[i] /\ versions'[i + 1] = versions[i + 1]
        BY <1>1, <1>2, <2>2
      <3> QED
        BY <2>2, <3>1 DEF VersionFacts, Neighbours, n
    <2> QED
      BY <1>1, <2>1, <2>2
  <1>9. Generations'
    <2> SUFFICES ASSUME NEW i \in 1..Len(versions'), versions'[i].uid # 0,
                        versions'[i].uid = s.uid
                 PROVE  /\ versions'[i].gen <= s.gen
                        /\ versions'[i].gen = s.gen => versions'[i].del = s.del
                        /\ versions'[i].del /\ s.fin => versions'[i].fin
      BY <1>2 DEF Generations
    <2>1. CASE i = n + 1
      BY <1>2, <1>4, <2>1
    <2>2. CASE i \in 1..n
      <3>1. s = o /\ o.uid = current.uid /\ versions'[i] = versions[i]
        BY <1>2, <1>3, <1>4, <2>2 DEF Evolves
      <3>2. /\ versions[i].gen <= current.gen
            /\ versions[i].gen = current.gen => versions[i].del = current.del
            /\ versions[i].del /\ current.fin => versions[i].fin
        BY <1>2, <2>2, <3>1 DEF VersionFacts, Generations, n
      <3>3. versions[i].del => current.del
        BY <1>5, <2>2, <3>1
      <3>4. /\ o.gen >= current.gen
            /\ o.gen = current.gen => o.del = current.del
            /\ current.del /\ o.fin => current.fin
        BY <3>1 DEF Evolves
      <3>5. versions[i].gen <= o.gen /\ (versions[i].gen = o.gen => o.gen = current.gen)
        BY <1>4, <2>2, <3>2, <3>4
      <3> QED
        BY <3>1, <3>2, <3>3, <3>4, <3>5
    <2> QED
      BY <1>6, <2>1, <2>2
  <1>10. Configured'
    BY <1>2, <1>3, <1>6 DEF VersionFacts, Configured, HasFinalizer, n
  <1>11. ~Same(current', current) => EventPending'
    BY <1>1, <1>2, <1>6 DEF EventPending, Same
  <1>12. EventPending => EventPending'
    <2>1. CASE Same(current', current)
      BY <1>2, <1>6, <2>1 DEF EventPending, Same, n
    <2> QED
      BY <1>11, <2>1
  <1>13. Unfinished(current)' /\ Same(current', current) =>
              /\ current' = o /\ o.del = current.del /\ o.uid = current.uid
              /\ Unfinished(current)
    BY <1>2, <1>3 DEF Unfinished, Same, Evolves
  <1> QED
    BY <1>2, <1>3, <1>7, <1>8, <1>9, <1>10, <1>11, <1>12, <1>13 DEF VersionFacts

\* So does the informer: the event of the last version before the current
\* generation passes the predicates.
LEMMA SyncKeepsWork ==
  ASSUME TypeOK, VersionFacts, Sync
  PROVE  /\ VersionFacts'
         /\ EventPending => EventPending' \/ queued'
  <1> DEFINE n == Len(versions)
  <1>1. /\ n \in Nat /\ n > 1 /\ versions' = Tail(versions) /\ options' = options
        /\ queued' = (queued \/ Passes(versions[1], versions[2]))
    BY Ends DEF Sync, envVars
  <1>2. /\ Len(versions') = n - 1 /\ current' = current
        /\ \A i \in 1..(n - 1) : versions'[i] = versions[i + 1]
    BY Synced
  <1> HIDE DEF n
  <1>3. VersionFacts'
    <2>1. \A i \in 1..(n - 1) : i + 1 \in 1..n
      BY <1>1
    <2>2. \A i \in 1..((n - 1) - 1) : i \in 1..(n - 1) /\ i + 1 \in 1..(n - 1)
      BY <1>1
    <2>3. FinStays'
      BY <1>2, <2>1 DEF VersionFacts, FinStays, n
    <2>4. Neighbours'
      BY <1>2, <2>2 DEF VersionFacts, Neighbours, n
    <2>5. Generations'
      BY <1>2, <2>1 DEF VersionFacts, Generations, n
    <2>6. Configured'
      BY <1>1, <1>2, <2>1 DEF VersionFacts, Configured, HasFinalizer, n
    <2> QED
      BY <2>3, <2>4, <2>5, <2>6 DEF VersionFacts
  <1>4. ASSUME EventPending PROVE EventPending' \/ queued'
    <2>1. PICK i \in 1..n : ~Same(versions[i], current)
      BY <1>4 DEF EventPending, n
    <2>2. CASE i > 1
      <3>1. i - 1 \in 1..(n - 1) /\ versions'[i - 1] = versions[i]
        BY <1>1, <1>2, <2>2
      <3> QED
        BY <1>2, <2>1, <3>1 DEF EventPending, Same
    <2>3. CASE i = 1 /\ Same(versions[2], current)
      <3>1. versions[1].uid # 0 /\ versions[2].uid # 0 => versions[1].uid = versions[2].uid
        BY <1>1 DEF VersionFacts, Neighbours, n
      <3>2. Passes(versions[1], versions[2])
        BY <2>1, <2>3, <3>1 DEF Passes, Same
      <3> QED
        BY <1>1, <3>2
    <2>4. CASE i = 1 /\ ~Same(versions[2], current)
      <3>1. 1 \in 1..(n - 1) /\ versions'[1] = versions[2]
        BY <1>1, <1>2
      <3> QED
        BY <1>2, <2>4, <3>1 DEF EventPending, Same
    <2> QED
      BY <1>1, <2>2, <2>3, <2>4
  <1> QED
    BY <1>3, <1>4

----------------------------------------------------------------------------
(* The users, the informer and the queue.                                  *)

\* What a user writes may follow the current version.
LEMMA UserEvolves ==
  ASSUME Preset = FALSE, Inv, User
  PROVE  \E o \in Object : /\ UserWrite(o) /\ Evolves(o)
                           /\ o.fin => current.fin
  <1>1. /\ current \in Object /\ current.uid \in Nat /\ uids \in Nat
        /\ current.gen \in Nat /\ WellFormed(current)
    BY CurrentFacts, ObjectNumbers
  <1>n. MaxUid \in Nat /\ MaxEdits \in Nat /\ Held \subseteq BOOLEAN
    BY ReconcilerAssumption
  <1>2. CASE UserCreate
    <2>1. PICK f \in {FALSE, Preset}, h \in Held :
            UserWrite([Absent EXCEPT !.uid = uids + 1, !.gen = 1, !.fin = f, !.held = h])
      BY <1>2 DEF UserCreate
    <2> DEFINE o == [Absent EXCEPT !.uid = uids + 1, !.gen = 1, !.fin = f, !.held = h]
    <2>2. uids + 1 \in 0..MaxUid /\ 1 \in 0..(MaxEdits + 2)
      BY <1>1, <1>2, <1>n DEF UserCreate
    <2>3. f = FALSE
      BY Zenon
    <2>4. o \in Object /\ o.uid = uids + 1 /\ o.fin = FALSE
      BY <2>2, <2>3, <1>n, PlaceholderTypes DEF Object
    <2>5. UserWrite(o) /\ current.uid = 0
      BY <1>2, <2>1 DEF UserCreate
    <2> HIDE DEF o
    <2> QED
      BY <1>1, <2>4, <2>5 DEF Evolves
  <1>3. CASE UserEditSpec
    <2> DEFINE o == [current EXCEPT !.gen = @ + 1]
    <2>1. current.gen + 1 \in 0..(MaxEdits + 2)
      BY <1>1, <1>3, <1>n DEF UserEditSpec, Object
    <2>2. /\ o \in Object /\ o.uid = current.uid /\ o.gen = current.gen + 1
          /\ o.fin = current.fin /\ o.del = current.del
      BY <2>1, <1>1 DEF Object
    <2>3. UserWrite(o)
      BY <1>3 DEF UserEditSpec
    <2> HIDE DEF o
    <2> QED
      BY <1>1, <2>2, <2>3 DEF Evolves
  <1>4. CASE UserEditPeriod
    <2>1. PICK p \in Periods \ {current.period} : UserWrite([current EXCEPT !.period = p])
      BY <1>4 DEF UserEditPeriod
    <2> DEFINE o == [current EXCEPT !.period = p]
    <2>2. /\ o \in Object /\ o.uid = current.uid /\ o.gen = current.gen
          /\ o.fin = current.fin /\ o.del = current.del
      BY <1>1, ReconcilerAssumption DEF Object
    <2>3. UserWrite(o)
      BY <2>1
    <2> HIDE DEF o
    <2> QED
      BY <1>1, <2>2, <2>3 DEF Evolves
  <1>5. CASE UserDelete
    <2> DEFINE o == [current EXCEPT !.del = TRUE, !.gen = @ + 1]
    <2>1. current.gen + 1 \in 0..(MaxEdits + 2)
      BY <1>1, <1>5, <1>n DEF UserDelete, Object, WellFormed
    <2>2. /\ o \in Object /\ o.uid = current.uid /\ o.gen = current.gen + 1
          /\ o.fin = current.fin /\ o.del = TRUE
      BY <2>1, <1>1 DEF Object
    <2>3. UserWrite(o) /\ ~current.del
      BY <1>5 DEF UserDelete
    <2> HIDE DEF o
    <2> QED
      BY <1>1, <2>2, <2>3 DEF Evolves
  <1>6. CASE OtherFinalizerDone
    <2> DEFINE o == [current EXCEPT !.held = FALSE]
    <2>2. /\ o \in Object /\ o.uid = current.uid /\ o.gen = current.gen
          /\ o.fin = current.fin /\ o.del = current.del
      BY <1>1 DEF Object
    <2>3. UserWrite(o)
      BY <1>6 DEF OtherFinalizerDone
    <2> HIDE DEF o
    <2> QED
      BY <1>1, <2>2, <2>3 DEF Evolves
  <1> QED
    BY <1>2, <1>3, <1>4, <1>5, <1>6 DEF User

\* Users do not make the operator forget anything: what they change is
\* announced by an event.
LEMMA UserKeepsWork ==
  ASSUME Preset = FALSE, Inv, WorkInv, User
  PROVE  WorkInv'
  <1>1. PICK o \in Object : UserWrite(o) /\ Evolves(o) /\ (o.fin => current.fin)
    BY UserEvolves
  <1>2. /\ Write(o) /\ UNCHANGED <<queued, delayed, pc, ran, options>>
        /\ local' = [local EXCEPT !.fresh = FALSE]
    BY <1>1 DEF UserWrite, queueVars, histVars, envVars
  <1>3. /\ TypeOK /\ VersionsInv /\ VersionFacts /\ ProtectedInv /\ NothingForgotten
        /\ current.uid \in Nat /\ uids \in Nat
        /\ Active => local.began \in 1..uids
    BY CurrentFacts DEF Inv, WorkInv
  <1>4. o.fin => HasFinalizer
    <2>1. current = versions[Len(versions)] /\ Len(versions) \in 1..Len(versions)
      BY <1>3, Ends DEF current
    <2> QED
      BY <1>1, <1>3, <2>1 DEF VersionFacts, Configured
  <1>5. /\ VersionFacts'
        /\ EventPending => EventPending'
        /\ ~Same(current', current) => EventPending'
        /\ Unfinished(current)' /\ Same(current', current) =>
              /\ current' = o /\ o.del = current.del /\ o.uid = current.uid
              /\ Unfinished(current)
        /\ current' = o \/ current'.uid = 0
    BY <1>1, <1>2, <1>3, <1>4, WriteKeepsWork
  <1>6. /\ local'.began = local.began /\ local'.deleted = local.deleted /\ u' = u
        /\ local'.runOK = local.runOK /\ local'.requeue = local.requeue
        /\ HasFinalizer' = HasFinalizer
    BY <1>2, <1>3 DEF TypeOK, Locals, u, HasFinalizer
  <1>7. ProtectedInv'
    <2>1. pc = "runningGet" /\ current'.uid = local.began
            => current' = o /\ o.uid = current.uid /\ o.uid # 0
      BY <1>1, <1>3, <1>5 DEF Active, Evolves
    <2>2. HasFinalizer /\ pc = "runningGet" /\ current'.uid = local.began
            => current'.fin \/ current'.del
      BY <1>1, <1>3, <2>1 DEF ProtectedInv, Evolves
    <2> QED
      BY <1>2, <1>3, <1>6, <2>2 DEF ProtectedInv, RunProtected
  <1>8. NothingForgotten'
    <2>1. Same(current', current) /\ current'.del = current.del /\ Handled => Handled'
      BY <1>2, <1>6 DEF Handled, OnCurrent, Same
    <2> QED
      BY <1>2, <1>3, <1>5, <2>1 DEF NothingForgotten
  <1> QED
    BY <1>5, <1>7, <1>8 DEF WorkInv

\* A step that leaves the API server alone keeps what is said about the versions.
LEMMA QuietWork ==
  ASSUME VersionFacts, UNCHANGED <<versions, options>>
  PROVE  /\ VersionFacts' /\ current' = current /\ HasFinalizer' = HasFinalizer
         /\ EventPending' <=> EventPending
  BY DEF VersionFacts, FinStays, Neighbours, Generations, Configured, HasFinalizer, current,
         EventPending, Same

\* Nor do the informer, the timers, the worker and a restart.
LEMMA QueueKeepsWork ==
  ASSUME Inv, WorkInv, Sync \/ TimerFires \/ Dequeue \/ Restart
  PROVE  WorkInv'
  <1>0. TypeOK /\ VersionFacts /\ ProtectedInv /\ NothingForgotten
    BY DEF Inv, WorkInv
  <1>1. CASE Sync
    <2>1. /\ VersionFacts' /\ current' = current
          /\ EventPending => EventPending' \/ queued'
      BY <1>0, <1>1, SyncKeepsWork, Synced
    <2>2. /\ UNCHANGED <<delayed, pc, local, ran, options>> /\ (queued => queued')
          /\ HasFinalizer' = HasFinalizer /\ u' = u
      BY <1>1 DEF Sync, histVars, envVars, HasFinalizer, u
    <2>3. ProtectedInv'
      BY <1>0, <2>1, <2>2 DEF ProtectedInv, RunProtected
    <2>4. (Handled' <=> Handled) /\ (Unfinished(current)' <=> Unfinished(current))
      BY <2>1, <2>2 DEF Handled, OnCurrent, Same, Unfinished
    <2> QED
      BY <1>0, <2>1, <2>2, <2>3, <2>4 DEF WorkInv, NothingForgotten
  <1>2. CASE TimerFires
    <2>1. UNCHANGED <<versions, options, pc, local>> /\ queued' = TRUE
      BY <1>2 DEF TimerFires, apiVars, envVars
    <2>2. VersionFacts' /\ current' = current /\ HasFinalizer' = HasFinalizer /\ u' = u
      BY <1>0, <2>1, QuietWork DEF u
    <2> QED
      BY <1>0, <2>1, <2>2 DEF WorkInv, ProtectedInv, RunProtected, NothingForgotten
  <1>3. CASE Dequeue
    <2>1. UNCHANGED <<versions, options>> /\ pc' = "get"
      BY <1>3 DEF Dequeue, apiVars, envVars
    <2>2. VersionFacts'
      BY <1>0, <2>1, QuietWork
    <2> QED
      BY <2>1, <2>2 DEF WorkInv, ProtectedInv, RunProtected, NothingForgotten, Handled
  <1>4. CASE Restart
    <2>1. /\ Len(versions') = 1 /\ versions'[1] = current /\ current' = current
          /\ current \in Object
      BY <1>0, <1>4, Restarted, Ends
    <2>2. /\ pc' = "idle" /\ options' = options /\ queued' = (current.uid # 0)
      BY <1>4 DEF Restart
    <2>3. current.gen \in Nat /\ 1 \in 1..Len(versions) /\ (current.fin => HasFinalizer)
      <3>1. Len(versions) \in 1..Len(versions) /\ current = versions[Len(versions)]
            /\ 1 \in 1..Len(versions)
        BY <1>0, Ends DEF current
      <3> QED
        BY <1>0, <2>1, <3>1, ObjectNumbers DEF VersionFacts, Configured
    <2>4. VersionFacts'
      BY <2>1, <2>2, <2>3 DEF VersionFacts, FinStays, Neighbours, Generations, Configured,
                              HasFinalizer
    <2> QED
      BY <2>1, <2>2, <2>4 DEF WorkInv, ProtectedInv, RunProtected, NothingForgotten, Unfinished
  <1> QED
    BY <1>1, <1>2, <1>3, <1>4

----------------------------------------------------------------------------
(* Reconcile.                                                              *)

\* Where Reconcile starts from, in the form in which its steps use it.
LEMMA WorkFacts ==
  ASSUME Inv, WorkInv
  PROVE  /\ TypeOK /\ VersionsInv /\ CopyInv /\ RunInv
         /\ VersionFacts /\ ProtectedInv /\ NothingForgotten
         /\ local \in Locals /\ u \in Object /\ current \in Object
         /\ current.uid \in Nat /\ current.gen \in Nat
         /\ current.fin => HasFinalizer
  <1>1. current = versions[Len(versions)] /\ Len(versions) \in 1..Len(versions)
    BY Ends DEF Inv, current
  <1>2. current.fin => HasFinalizer
    BY <1>1 DEF WorkInv, VersionFacts, Configured
  <1>3. local \in Locals /\ u \in Object
    BY DEF Inv, TypeOK, Locals, u
  <1> QED
    BY <1>2, <1>3, CurrentFacts, ObjectNumbers DEF Inv, WorkInv

\* Reconcile returns: nothing is forgotten if nothing is left to do, or if the
\* request is added again, or if an event or another request takes care of it.
LEMMA ReturnKeepsWork ==
  ASSUME VersionFacts', NEW again \in BOOLEAN, Return(again),
         Unfinished(current)' => queued \/ delayed \/ EventPending' \/ again
  PROVE  WorkInv'
  <1>1. pc' = "idle" /\ queued' = queued /\ delayed' = (delayed \/ again)
    BY DEF Return
  <1>2. ProtectedInv'
    BY <1>1 DEF ProtectedInv, RunProtected
  <1>3. NothingForgotten'
    BY <1>1, Zenon DEF NothingForgotten
  <1> QED
    BY <1>2, <1>3 DEF WorkInv

\* An error is always retried.
LEMMA ErrorKeepsWork == ASSUME VersionFacts', ReturnErr PROVE WorkInv'
  BY ReturnKeepsWork DEF ReturnErr

\* Reconcile goes on.
LEMMA ContinueKeepsWork ==
  ASSUME VersionFacts', ProtectedInv', UNCHANGED queueVars,
         Unfinished(current)' => queued \/ delayed \/ EventPending' \/ Handled'
  PROVE  WorkInv'
  BY DEF WorkInv, NothingForgotten, queueVars

\* A write of Reconcile: the status, or the finalizer of the current version.
LEMMA OwnWrite ==
  ASSUME Inv, WorkInv, NEW o \in Object, Write(o), UNCHANGED <<ran, options>>,
         o.uid = current.uid, o.gen = current.gen, o.del = current.del,
         o.fin => HasFinalizer, current.del /\ o.fin => current.fin,
         current.fin => o.fin \/ o.del
  PROVE  /\ VersionFacts' /\ HasFinalizer' = HasFinalizer
         /\ Unfinished(current)' =>
              /\ Unfinished(current) /\ current' = o
              /\ EventPending' \/ ~EventPending
  <1>1. Evolves(o)
    BY WorkFacts DEF Evolves
  <1>2. /\ VersionFacts'
        /\ EventPending => EventPending'
        /\ Unfinished(current)' /\ Same(current', current) => current' = o /\ Unfinished(current)
        /\ current' = o \/ current'.uid = 0
    BY <1>1, WorkFacts, WriteKeepsWork
  <1>3. Unfinished(current)' => current' = o
    BY <1>2 DEF Unfinished
  <1> QED
    BY <1>2, <1>3 DEF Same, HasFinalizer

\* The reads and updates up to the run.
LEMMA BeginKeepsWork ==
  ASSUME Inv, WorkInv, GetCached \/ AddFinalizer \/ MarkRunningGet \/ MarkRunningPut
  PROVE  WorkInv'
  <1>0. /\ TypeOK /\ VersionsInv /\ CopyInv /\ VersionFacts /\ ProtectedInv /\ NothingForgotten
        /\ local \in Locals /\ u \in Object /\ current \in Object
        /\ current.uid \in Nat /\ current.gen \in Nat
        /\ current.fin => HasFinalizer
    BY WorkFacts
  <1>a. AfterFinalizer \in {"runningGet", "start"}
    BY DEF AfterFinalizer
  <1>1. CASE GetCached
    <2> DEFINE l == [NoLocals EXCEPT !.u = cached, !.fresh = (Len(versions) = 1),
                                     !.deleted = cached.del,
                                     !.requeue = (cached.period = "some"),
                                     !.began = cached.uid]
    <2>1. UNCHANGED <<versions, options, ran>> /\ pc = "get"
      BY <1>1 DEF GetCached, apiVars, envVars, histVars
    <2>2. /\ VersionFacts' /\ current' = current /\ HasFinalizer' = HasFinalizer
          /\ EventPending' <=> EventPending
          /\ Unfinished(current)' <=> Unfinished(current)
      BY <1>0, <2>1, QuietWork DEF Unfinished
    <2>3. /\ cached = versions[1] /\ cached \in Object /\ 1 \in 1..Len(versions)
          /\ Len(versions) \in 1..Len(versions)
      BY <1>0, Ends
    <2>4. l.u = cached /\ l.began = cached.uid
      BY DEF NoLocals
    <2>5. ASSUME Unfinished(current), ~EventPending
          PROVE  /\ cached.uid = current.uid /\ cached.gen = current.gen /\ cached.uid # 0
                 /\ cached.del = current.del
                 /\ cached.del => cached.fin
      <3>1. Same(cached, current) /\ current.uid # 0
        BY <2>3, <2>5 DEF EventPending, Unfinished
      <3>2. /\ cached.del = current.del
            /\ cached.del /\ current.fin => cached.fin
        BY <1>0, <2>3, <3>1 DEF VersionFacts, Generations, Same
      <3> QED
        BY <2>5, <3>1, <3>2 DEF Same, Unfinished
    <2>6. cached.uid = current.uid /\ cached.uid # 0 /\ cached.fin => current.fin \/ current.del
      BY <1>0, <2>3 DEF VersionFacts, FinStays
    <2>7. \/ /\ cached.uid = 0 \/ (~cached.fin /\ cached.del)
             /\ Return(FALSE)
          \/ Continue("errorGet", l)
          \/ HasFinalizer /\ Continue("addFinalizer", l)
          \/ /\ cached.uid # 0
             /\ cached.fin \/ ~HasFinalizer
             /\ Continue(AfterFinalizer, l)
      BY <1>1 DEF GetCached
    <2> HIDE DEF l
    <2>8. CASE /\ cached.uid = 0 \/ (~cached.fin /\ cached.del)
               /\ Return(FALSE)
      BY <2>2, <2>5, <2>8, ReturnKeepsWork
    <2>9. CASE Continue("errorGet", l)
      BY <2>2, <2>9, ContinueKeepsWork DEF Continue, ProtectedInv, RunProtected, Handled
    <2>10. CASE HasFinalizer /\ Continue("addFinalizer", l)
      <3>1. pc' = "addFinalizer" /\ u' = cached /\ UNCHANGED queueVars
        BY <2>4, <2>10 DEF Continue, u
      <3>2. ProtectedInv'
        BY <2>2, <2>10, <3>1 DEF ProtectedInv, RunProtected
      <3>3. Unfinished(current)' => EventPending' \/ Handled'
        BY <2>2, <2>5, <3>1 DEF Handled, OnCurrent, Same
      <3> QED
        BY <2>2, <3>1, <3>2, <3>3, ContinueKeepsWork
    <2>11. CASE /\ cached.uid # 0
                /\ cached.fin \/ ~HasFinalizer
                /\ Continue(AfterFinalizer, l)
      <3>1. /\ pc' \in {"runningGet", "start"} /\ u' = cached /\ local'.began = cached.uid
            /\ UNCHANGED queueVars
        BY <1>a, <2>4, <2>11 DEF Continue, u
      <3>2. ProtectedInv'
        BY <2>2, <2>6, <2>11, <3>1 DEF ProtectedInv, RunProtected
      <3>3. Unfinished(current)' => EventPending' \/ Handled'
        BY <2>2, <2>5, <3>1 DEF Handled, OnCurrent, Same
      <3> QED
        BY <2>2, <3>1, <3>2, <3>3, ContinueKeepsWork
    <2> QED
      BY <2>7, <2>8, <2>9, <2>10, <2>11
  <1>2. CASE AddFinalizer
    <2> DEFINE o == [u EXCEPT !.fin = TRUE]
    <2>1. /\ pc = "addFinalizer" /\ local.fresh /\ Write(o) /\ UNCHANGED <<ran, options>>
          /\ \/ Continue(AfterFinalizer, [local EXCEPT !.u = o])
             \/ ReturnErr
      BY <1>2 DEF AddFinalizer, Update, histVars, envVars
    <2>2. u = current /\ u.uid = local.began /\ ~u.del /\ HasFinalizer
      BY <1>0, <2>1 DEF CopyInv, Active, ProtectedInv
    <2>3. /\ o \in Object /\ o.uid = current.uid /\ o.gen = current.gen /\ o.del = current.del
          /\ o.fin
      BY <1>0, <2>2 DEF Object
    <2>4. /\ [local EXCEPT !.u = o].u = o /\ [local EXCEPT !.u = o].began = local.began
      BY <1>0 DEF Locals
    <2> HIDE DEF o
    <2>5. /\ VersionFacts' /\ HasFinalizer' = HasFinalizer
          /\ Unfinished(current)' => current' = o
      BY <2>1, <2>2, <2>3, OwnWrite
    <2>6. CASE ReturnErr
      BY <2>5, <2>6, ErrorKeepsWork
    <2>7. CASE Continue(AfterFinalizer, [local EXCEPT !.u = o])
      <3>1. /\ pc' \in {"runningGet", "start"} /\ u' = o /\ local'.began = local.began
            /\ UNCHANGED queueVars
        BY <1>a, <2>4, <2>7 DEF Continue, u
      <3>2. current' = o
        BY <1>0, <2>1, <2>3, Written DEF Settled
      <3>3. ProtectedInv'
        BY <2>3, <3>1, <3>2 DEF ProtectedInv, RunProtected
      <3>4. Unfinished(current)' => Handled'
        BY <2>5, <3>1 DEF Handled, OnCurrent, Same
      <3> QED
        BY <2>5, <3>1, <3>3, <3>4, ContinueKeepsWork
    <2> QED
      BY <2>1, <2>6, <2>7
  <1>3. CASE MarkRunningGet
    <2>1. UNCHANGED <<versions, options, ran>> /\ pc = "runningGet"
      BY <1>3 DEF MarkRunningGet, apiVars, envVars, histVars
    <2>2. /\ VersionFacts' /\ current' = current /\ HasFinalizer' = HasFinalizer
      BY <1>0, <2>1, QuietWork
    <2>3. CASE ReturnErr
      BY <2>2, <2>3, ErrorKeepsWork
    <2>4. CASE Read("runningPut")
      <3>1. /\ pc' = "runningPut" /\ u' = current /\ local'.began = local.began
            /\ UNCHANGED queueVars
        BY <1>0, <2>4 DEF Read, Continue, u, Locals
      <3>2. ProtectedInv'
        BY <1>0, <2>1, <2>2, <3>1 DEF ProtectedInv, RunProtected
      <3>3. Handled'
        BY <2>2, <3>1 DEF Handled, OnCurrent, Same
      <3> QED
        BY <2>2, <3>1, <3>2, <3>3, ContinueKeepsWork
    <2> QED
      BY <1>3, <2>3, <2>4 DEF MarkRunningGet
  <1>4. CASE MarkRunningPut
    <2>1. /\ pc = "runningPut" /\ Write(current) /\ UNCHANGED <<ran, options>>
          /\ Continue("start", local) \/ ReturnErr
      BY <1>4 DEF MarkRunningPut, WriteStatus, histVars, envVars
    <2>2. /\ VersionFacts' /\ HasFinalizer' = HasFinalizer
          /\ Unfinished(current)' =>
                 /\ Unfinished(current) /\ current' = current
                 /\ EventPending' \/ ~EventPending
      BY <1>0, <2>1, OwnWrite
    <2>3. CASE ReturnErr
      BY <2>2, <2>3, ErrorKeepsWork
    <2>4. CASE Continue("start", local)
      <3>1. pc' = "start" /\ local' = local /\ u' = u /\ UNCHANGED queueVars
        BY <2>4 DEF Continue, u
      <3>2. ProtectedInv'
        BY <1>0, <2>1, <2>2, <3>1 DEF ProtectedInv, RunProtected
      <3>3. Unfinished(current)' => queued \/ delayed \/ EventPending' \/ Handled'
        <4>1. current' = current /\ Handled => Handled'
          BY <2>1, <3>1 DEF Handled, OnCurrent, Same
        <4> QED
          BY <1>0, <2>2, <4>1 DEF NothingForgotten
      <3> QED
        BY <2>2, <3>1, <3>2, <3>3, ContinueKeepsWork
    <2> QED
      BY <2>1, <2>3, <2>4
  <1> QED
    BY <1>1, <1>2, <1>3, <1>4

\* The run.  Its generation counts as run when it starts; a run that is aborted
\* or asks for a requeue is repeated, if the period it asks for is not zero.
LEMMA RunKeepsWork ==
  ASSUME Inv, WorkInv,
         StartRun \/ RunRefused \/ RunFinishes \/ RunRequeues \/ RunAborts \/ RunSilent
  PROVE  WorkInv'
  <1>0. /\ VersionFacts /\ ProtectedInv /\ NothingForgotten
        /\ local \in Locals /\ u \in Object /\ current \in Object
    BY WorkFacts
  <1>1. UNCHANGED <<versions, options>>
    BY DEF StartRun, RunRefused, RunFinishes, RunRequeues, RunAborts, RunSilent, apiVars, envVars
  <1>2. /\ VersionFacts' /\ current' = current /\ HasFinalizer' = HasFinalizer
        /\ EventPending' <=> EventPending
    BY <1>0, <1>1, QuietWork
  <1>3. CASE StartRun
    <2>1. /\ pc = "start" /\ pc' = "run" /\ u' = u /\ local'.began = local.began
          /\ UNCHANGED queueVars
          /\ ~u.del \/ u.fin
          /\ ran' = IF u.del THEN ran ELSE ran \cup {<<u.uid, u.gen>>}
      BY <1>0, <1>3 DEF StartRun, Continue, isFinalizerRun, Locals, u
    <2>2. ProtectedInv'
      BY <1>0, <1>2, <2>1 DEF ProtectedInv, RunProtected
    <2>3. ASSUME Unfinished(current)' PROVE queued \/ delayed \/ EventPending' \/ Handled'
      <3>1. Unfinished(current)
        BY <1>1, <1>2, <2>1, <2>3 DEF Unfinished
      <3>2. CASE OnCurrent
        <4>1. current.del
          BY <1>2, <2>1, <2>3, <3>2 DEF OnCurrent, Same, Unfinished
        <4> QED
          BY <1>2, <2>1, <4>1 DEF Handled
      <3>3. CASE ~OnCurrent
        <4>1. ~Handled
          BY <2>1, <3>3 DEF Handled
        <4> QED
          BY <1>0, <1>2, <3>1, <4>1 DEF NothingForgotten
      <3> QED
        BY <3>2, <3>3
    <2> QED
      BY <1>2, <2>1, <2>2, <2>3, ContinueKeepsWork
  <1>4. CASE RunRefused \/ RunSilent
    <2>1. pc' = "errorGet" /\ UNCHANGED queueVars
      BY <1>4 DEF RunRefused, RunSilent, Continue
    <2> QED
      BY <1>2, <2>1, ContinueKeepsWork DEF ProtectedInv, RunProtected, Handled
  <1>5. CASE RunFinishes
    <2>1. pc = "run" /\ pc' = "refresh" /\ ran' = ran /\ UNCHANGED queueVars
      BY <1>5 DEF RunFinishes, Continue
    <2>2. Handled => Handled'
      BY <1>2, <2>1 DEF Handled
    <2>3. Unfinished(current)' => Unfinished(current)
      BY <1>1, <1>2, <2>1 DEF Unfinished
    <2> QED
      BY <1>0, <1>2, <2>1, <2>2, <2>3, ContinueKeepsWork
      DEF ProtectedInv, RunProtected, NothingForgotten
  <1>6. CASE RunRequeues
    <2>1. PICK positive \in BOOLEAN : Return(positive) /\ (options.zeroRequeue = FALSE => positive = TRUE)
      BY <1>6, Zenon DEF RunRequeues, ZeroRequeue
    <2>2. Unfinished(current)' => positive
      BY <1>1, <2>1 DEF Unfinished
    <2> QED
      BY <1>2, <2>1, <2>2, ReturnKeepsWork
  <1>7. CASE RunAborts
    BY <1>2, <1>7, ErrorKeepsWork DEF RunAborts
  <1> QED
    BY <1>3, <1>4, <1>5, <1>6, <1>7

\* What follows the run: a resource that turns out to be deleted only now is
\* requeued for its finalizer.
LEMMA EndKeepsWork ==
  ASSUME Inv, WorkInv, RefreshAfterRun \/ RemoveFinalizer \/ MarkDoneGet \/ MarkDonePut
  PROVE  WorkInv'
  <1>0. /\ TypeOK /\ CopyInv /\ VersionFacts /\ ProtectedInv /\ NothingForgotten
        /\ local \in Locals /\ u \in Object /\ current \in Object
        /\ local.runOK \in BOOLEAN /\ local.requeue \in BOOLEAN
        /\ current.fin => HasFinalizer
    BY WorkFacts DEF Locals
  <1>1. CASE RefreshAfterRun
    <2> DEFINE l == [local EXCEPT !.u = current, !.fresh = TRUE,
                                  !.requeue = @ \/ (current.del /\ HasFinalizer)]
    <2>1. UNCHANGED <<versions, options, ran>> /\ pc = "refresh"
      BY <1>1 DEF RefreshAfterRun, apiVars, envVars, histVars
    <2>2. /\ VersionFacts' /\ current' = current /\ HasFinalizer' = HasFinalizer
          /\ EventPending' <=> EventPending
          /\ Unfinished(current)' <=> Unfinished(current)
      BY <1>0, <2>1, QuietWork DEF Unfinished
    <2>3. CASE current.uid = 0 /\ Return(FALSE)
      BY <2>2, <2>3, ReturnKeepsWork DEF Unfinished
    <2>4. CASE RemovalDue /\ Read("removeFinalizer")
      <3>1. /\ pc' = "removeFinalizer" /\ local'.deleted = local.deleted /\ local.deleted
            /\ UNCHANGED queueVars
        BY <1>0, <2>4 DEF Read, Continue, RemovalDue, Locals
      <3>2. Handled => Handled'
        BY <2>1, <2>2, <3>1 DEF Handled
      <3>3. ProtectedInv'
        BY <3>1 DEF ProtectedInv, RunProtected
      <3> QED
        BY <1>0, <2>2, <3>1, <3>2, <3>3, ContinueKeepsWork DEF NothingForgotten
    <2>5. CASE Conclude(l)
      <3>1. l.runOK = local.runOK /\ l.requeue = (local.requeue \/ (current.del /\ HasFinalizer))
        BY <1>0 DEF Locals
      <3>2. l.runOK \in BOOLEAN /\ l.requeue \in BOOLEAN
        BY <1>0, <3>1
      <3> HIDE DEF l
      <3>3. Unfinished(current) => queued \/ delayed \/ EventPending \/ l.requeue
        <4>1. Unfinished(current) /\ current.del => l.requeue
          BY <1>0, <3>1, Zenon DEF Unfinished
        <4>2. ~current.del => ~Handled
          BY <2>1 DEF Handled
        <4> QED
          BY <1>0, <4>1, <4>2 DEF NothingForgotten
      <3>4. CASE Continue("doneGet", l)
        <4>1. pc' = "doneGet" /\ local' = l /\ UNCHANGED queueVars
          BY <3>4 DEF Continue
        <4> QED
          BY <2>2, <3>3, <4>1, ContinueKeepsWork DEF ProtectedInv, RunProtected, Handled
      <3>5. CASE Return(~l.runOK \/ l.requeue)
        BY <2>2, <3>2, <3>3, <3>5, ReturnKeepsWork
      <3> QED
        BY <2>5, <3>4, <3>5 DEF Conclude
    <2> QED
      BY <1>1, <2>3, <2>4, <2>5 DEF RefreshAfterRun
  <1>2. CASE RemoveFinalizer
    <2> DEFINE o == [u EXCEPT !.fin = FALSE]
               l == [local EXCEPT !.u.fin = FALSE]
    <2>1. /\ pc = "removeFinalizer" /\ local.fresh /\ Write(o) /\ UNCHANGED <<ran, options>>
          /\ Conclude(l) \/ ReturnErr
      BY <1>2 DEF RemoveFinalizer, histVars, envVars
    <2>2. u = current /\ local.deleted /\ u.uid # 0
      BY <1>0, <2>1 DEF CopyInv, Active, ProtectedInv
    <2>3. current.fin => current.del
      BY <2>1, <2>2, CurrentFacts DEF Active
    <2>4. /\ o \in Object /\ o.uid = current.uid /\ o.gen = current.gen /\ o.del = current.del
          /\ ~o.fin
      BY <1>0, <2>2 DEF Object
    <2>5. l.runOK = local.runOK /\ l.requeue = local.requeue
      BY <1>0 DEF Locals
    <2> HIDE DEF o, l
    <2>6. /\ VersionFacts'
          /\ Unfinished(current)' =>
                 /\ Unfinished(current) /\ current' = o
                 /\ EventPending' \/ ~EventPending
      BY <2>1, <2>3, <2>4, OwnWrite
    <2>7. Unfinished(current)' => queued \/ delayed \/ EventPending'
      <3>1. Unfinished(current)' => ~current.del
        BY <2>4, <2>6 DEF Unfinished
      <3>2. ~current.del => ~Handled
        BY <2>1 DEF Handled
      <3> QED
        BY <1>0, <2>6, <3>1, <3>2 DEF NothingForgotten
    <2>8. CASE ReturnErr
      BY <2>6, <2>8, ErrorKeepsWork
    <2>9. CASE Continue("doneGet", l)
      <3>1. pc' = "doneGet" /\ UNCHANGED queueVars
        BY <2>9 DEF Continue
      <3> QED
        BY <2>6, <2>7, <3>1, ContinueKeepsWork DEF ProtectedInv, RunProtected
    <2>10. CASE Return(~l.runOK \/ l.requeue)
      <3>1. (~l.runOK \/ l.requeue) \in BOOLEAN
        BY <1>0, <2>5
      <3> QED
        BY <2>6, <2>7, <2>10, <3>1, ReturnKeepsWork
    <2> QED
      BY <2>1, <2>8, <2>9, <2>10 DEF Conclude
  <1>3. CASE MarkDoneGet
    <2>1. UNCHANGED <<versions, options, ran>> /\ pc = "doneGet"
      BY <1>3 DEF MarkDoneGet, apiVars, envVars, histVars
    <2>2. /\ VersionFacts' /\ current' = current
          /\ EventPending' <=> EventPending
          /\ Unfinished(current)' <=> Unfinished(current)
      BY <1>0, <2>1, QuietWork DEF Unfinished
    <2>3. CASE current.uid = 0 /\ Return(~local.runOK \/ local.requeue)
      <3>1. (~local.runOK \/ local.requeue) \in BOOLEAN
        BY <1>0
      <3> QED
        BY <2>2, <2>3, <3>1, ReturnKeepsWork DEF Unfinished
    <2>4. CASE Read("donePut")
      <3>1. /\ pc' = "donePut" /\ local'.runOK = local.runOK /\ local'.requeue = local.requeue
            /\ UNCHANGED queueVars
        BY <1>0, <2>4 DEF Read, Continue, Locals
      <3>2. Handled => Handled'
        BY <2>1, <3>1 DEF Handled
      <3> QED
        BY <1>0, <2>2, <3>1, <3>2, ContinueKeepsWork DEF ProtectedInv, RunProtected, NothingForgotten
    <2> QED
      BY <1>3, <2>3, <2>4 DEF MarkDoneGet
  <1>4. CASE MarkDonePut
    <2>1. /\ pc = "donePut" /\ Write(current) /\ UNCHANGED <<ran, options>>
          /\ Return(~local.runOK \/ local.requeue) \/ ReturnErr
      BY <1>4 DEF MarkDonePut, WriteStatus, histVars, envVars
    <2>2. /\ VersionFacts'
          /\ Unfinished(current)' =>
                 /\ Unfinished(current) /\ current' = current
                 /\ EventPending' \/ ~EventPending
      BY <1>0, <2>1, OwnWrite
    <2>3. CASE ReturnErr
      BY <2>2, <2>3, ErrorKeepsWork
    <2>4. CASE Return(~local.runOK \/ local.requeue)
      <3>1. (~local.runOK \/ local.requeue) \in BOOLEAN
        BY <1>0
      <3>2. Handled => ~local.runOK \/ local.requeue
        BY <2>1 DEF Handled
      <3>3. Unfinished(current)' =>
              queued \/ delayed \/ EventPending' \/ (~local.runOK \/ local.requeue)
        BY <1>0, <2>2, <3>2 DEF NothingForgotten
      <3> QED
        BY <2>2, <2>4, <3>1, <3>3, ReturnKeepsWork
    <2> QED
      BY <2>1, <2>3, <2>4
  <1> QED
    BY <1>1, <1>2, <1>3, <1>4

\* Errors, their marks, refused and failed calls: the request is added again.
LEMMA FailureKeepsWork ==
  ASSUME Inv, WorkInv, MarkErrorGet \/ MarkErrorPut \/ Conflict \/ CallFails
  PROVE  WorkInv'
  <1>0. VersionFacts /\ current \in Object /\ (current.fin => HasFinalizer)
    BY WorkFacts
  <1>1. CASE MarkErrorPut
    <2>1. Write(current) /\ UNCHANGED <<ran, options>> /\ ReturnErr
      BY <1>1 DEF MarkErrorPut, WriteStatus, histVars, envVars
    <2> QED
      BY <1>0, <2>1, OwnWrite, ErrorKeepsWork
  <1>2. CASE MarkErrorGet \/ Conflict \/ CallFails
    <2>1. UNCHANGED <<versions, options>>
      BY <1>2 DEF MarkErrorGet, Conflict, CallFails, apiVars, envVars
    <2>2. VersionFacts'
      BY <1>0, <2>1, QuietWork
    <2>3. CASE ReturnErr
      BY <2>2, <2>3, ErrorKeepsWork
    <2>4. CASE Read("errorPut")
      <3>1. pc' = "errorPut" /\ UNCHANGED queueVars
        BY <2>4 DEF Read, Continue
      <3> QED
        BY <2>2, <3>1, ContinueKeepsWork DEF ProtectedInv, RunProtected, Handled
    <2> QED
      BY <1>2, <2>3, <2>4 DEF MarkErrorGet, Conflict, CallFails
  <1> QED
    BY <1>1, <1>2

----------------------------------------------------------------------------
\* Every step keeps the invariant.
LEMMA WorkStep ==
  Preset = FALSE /\ Inv /\ WorkInv /\ [Next]_vars => WorkInv'
  <1> SUFFICES ASSUME Preset = FALSE, Inv, WorkInv, [Next]_vars
               PROVE  WorkInv'
    OBVIOUS
  <1>1. CASE UNCHANGED vars
    <2>1. UNCHANGED <<versions, options, ran, pc, local, queued, delayed>>
      BY <1>1 DEF vars, apiVars, queueVars, histVars, envVars
    <2>2. /\ VersionFacts' /\ current' = current /\ HasFinalizer' = HasFinalizer /\ u' = u
          /\ EventPending' <=> EventPending
      BY <2>1, QuietWork DEF WorkInv, u
    <2>3. ProtectedInv'
      BY <2>1, <2>2 DEF WorkInv, ProtectedInv, RunProtected
    <2>4. NothingForgotten'
      BY <2>1, <2>2 DEF WorkInv, NothingForgotten, Unfinished, Handled, OnCurrent, Same
    <2> QED
      BY <2>2, <2>3, <2>4 DEF WorkInv
  <1>2. CASE User
    BY <1>2, UserKeepsWork
  <1>3. CASE Sync \/ TimerFires \/ Dequeue \/ Restart
    BY <1>3, QueueKeepsWork
  <1>4. CASE GetCached \/ AddFinalizer \/ MarkRunningGet \/ MarkRunningPut
    BY <1>4, BeginKeepsWork
  <1>5. CASE StartRun \/ RunRefused \/ RunFinishes \/ RunRequeues \/ RunAborts \/ RunSilent
    BY <1>5, RunKeepsWork
  <1>6. CASE RefreshAfterRun \/ RemoveFinalizer \/ MarkDoneGet \/ MarkDonePut
    BY <1>6, EndKeepsWork
  <1>7. CASE MarkErrorGet \/ MarkErrorPut \/ Conflict \/ CallFails
    BY <1>7, FailureKeepsWork
  <1> QED
    BY <1>1, <1>2, <1>3, <1>4, <1>5, <1>6, <1>7 DEF Next, Reconcile

\* There is nothing to do before the resource has been created.
LEMMA WorkInit == Init => WorkInv
  <1> SUFFICES ASSUME Init PROVE WorkInv
    OBVIOUS
  <1>1. Len(versions) = 1 /\ versions[1] = Absent /\ current = Absent
    BY DEF Init, current
  <1>2. VersionFacts
    <2>1. \A i \in 1..Len(versions) : i = 1 /\ versions[i].uid = 0 /\ versions[i].fin = FALSE
      BY <1>1 DEF Absent
    <2>2. 1..Len(versions) - 1 = {}
      BY <1>1
    <2> QED
      BY <2>1, <2>2 DEF VersionFacts, FinStays, Neighbours, Generations, Configured
  <1>3. ProtectedInv /\ NothingForgotten
    BY <1>1 DEF Init, ProtectedInv, RunProtected, NothingForgotten, Unfinished, Absent
  <1> QED
    BY <1>2, <1>3 DEF WorkInv

\* For any number of creations, edits, failures and restarts and any lag of the
\* cache, if users do not write the finalizer into their manifests: ansible runs
\* for the resource that Reconcile started from only while it carries the
\* finalizer.
THEOREM ProtectionHolds ==
  ASSUME Preset = FALSE PROVE Spec => []RunProtected
  <1>1. Inv /\ WorkInv /\ [Next]_vars => Inv' /\ WorkInv'
    BY InvStep, WorkStep
  <1>2. WorkInv => RunProtected
    BY DEF WorkInv, ProtectedInv
  <1> QED
    BY <1>1, <1>2, InvInit, WorkInit, PTL DEF Spec

\* Under the same conditions, unless the role asks to be requeued after zero: a generation that was not run, or a finalizer that was not, is never
\* forgotten.  This is the safety half of DeletionFinalized and GenerationRun.
THEOREM WorkIsRemembered ==
  ASSUME Preset = FALSE PROVE Spec => []WorkRemembered
  <1>1. Inv /\ WorkInv /\ [Next]_vars => Inv' /\ WorkInv'
    BY InvStep, WorkStep
  <1>2. Inv /\ WorkInv => WorkRemembered
    <2>0. Inv => options.zeroRequeue \in BOOLEAN
      BY ReconcilerAssumption DEF Inv, TypeOK
    <2> SUFFICES ASSUME Inv, WorkInv, pc = "idle", Len(versions) = 1, Unfinished(current)
                 PROVE  queued \/ delayed
      BY <2>0 DEF WorkRemembered, Unfinished, ZeroRequeue
    <2>1. ~EventPending
      BY DEF EventPending, Same, current
    <2>2. ~Handled
      BY DEF Handled
    <2> QED
      BY <2>1, <2>2 DEF WorkInv, NothingForgotten
  <1> QED
    BY <1>1, <1>2, InvInit, WorkInit, PTL DEF Spec

(***************************************************************************)
(* The list of conditions, for stored lists of any length and with any     *)
(* entries: the marks do to it what Reconciler says of the verdicts.  A    *)
(* list with one condition of a type is as good as the set of its          *)
(* conditions: the first part says which set Only selects, the second what *)
(* SetCondition and SetFalse make of a set, and the third puts the marks   *)
(* of Reconcile together from them.                                        *)
(***************************************************************************)
----------------------------------------------------------------------------
(* What the loops over a list select.                                      *)

(* Every set of natural numbers that is not empty has a least element.     *)
LEMMA LeastNumber ==
    ASSUME NEW S, S \subseteq Nat, S # {}
    PROVE  \E m \in S : \A k \in S : m <= k
  <1>1. PICK m \in S : \A k \in S : <<k, m>> \notin OpToRel(<, Nat)
    BY NatLessThanWellFounded, WFMin
  <1>2. SUFFICES ASSUME NEW k \in S PROVE m <= k
    OBVIOUS
  <1>3. <<k, m>> \notin {ss \in Nat \X Nat : ss[1] < ss[2]}
    BY <1>1 DEF OpToRel
  <1>4. m \in Nat /\ k \in Nat
    OBVIOUS
  <1> QED
    BY <1>3, <1>4

(* g[i] is what the loop has collected after i elements.                   *)
Collects(parts, g, n) ==
    g = [i \in 1..n |-> IF i = 1 THEN parts[i] ELSE g[i - 1] \o parts[i]]

(* The recursion in FlattenSeq defines a function: a least number of steps *)
(* for which there is none would have a predecessor for which there is.    *)
LEMMA CollectionExists ==
    ASSUME NEW parts, NEW n \in Nat
    PROVE  \E g : Collects(parts, g, n)
  <1> DEFINE Bad == {k \in Nat : ~\E g : Collects(parts, g, k)}
  <1>1. SUFFICES ASSUME Bad # {} PROVE FALSE
    OBVIOUS
  <1>2. PICK k \in Bad : \A j \in Bad : k <= j
    BY <1>1, LeastNumber
  <1>3. k \in Nat /\ ~\E g : Collects(parts, g, k)
    BY <1>2
  <1>4. k # 0
    <2> DEFINE g == [i \in 1..0 |-> parts[i]]
    <2>1. g = [i \in 1..0 |-> IF i = 1 THEN parts[i] ELSE g[i - 1] \o parts[i]]
      OBVIOUS
    <2> QED
      BY <2>1, <1>3 DEF Collects
  <1>5. PICK g : Collects(parts, g, k - 1)
    BY <1>2, <1>4
  <1> DEFINE last == IF k = 1 THEN parts[k] ELSE g[k - 1] \o parts[k]
             h == [i \in 1..k |-> IF i = k THEN last ELSE g[i]]
  <1>6. DOMAIN h = 1..k /\ h[k] = last /\ \A i \in 1..(k - 1) : h[i] = g[i]
    <2>1. k \in 1..k /\ \A i \in 1..(k - 1) : i \in 1..k /\ i # k
      BY <1>3, <1>4
    <2> HIDE DEF last
    <2> QED
      BY <2>1
  <1>7. \A i \in 1..(k - 1) : g[i] = IF i = 1 THEN parts[i] ELSE g[i - 1] \o parts[i]
    BY <1>3, <1>5 DEF Collects
  <1>8. ASSUME NEW i \in 1..k
        PROVE  h[i] = IF i = 1 THEN parts[i] ELSE h[i - 1] \o parts[i]
    <2>1. CASE i = k /\ k = 1
      BY <2>1, <1>6
    <2>2. CASE i = k /\ k # 1
      <3>1. h[k - 1] = g[k - 1]
        BY <2>2, <1>6, <1>3, <1>4
      <3> QED
        BY <2>2, <1>6, <3>1
    <2>3. CASE i # k
      <3>1. i \in 1..(k - 1) /\ (i # 1 => i - 1 \in 1..(k - 1))
        BY <2>3, <1>3
      <3>2. h[i] = g[i] /\ (i # 1 => h[i - 1] = g[i - 1])
        BY <3>1, <1>6
      <3> HIDE DEF h
      <3> QED
        BY <3>1, <3>2, <1>7
    <2> QED
      BY <2>1, <2>2, <2>3
  <1>9. h = [i \in 1..k |-> h[i]]
    OBVIOUS
  <1>10. Collects(parts, h, k)
    <2> HIDE DEF h
    <2> QED
      BY <1>8, <1>9 DEF Collects
  <1> QED
    BY <1>3, <1>10

(* A list behind another one has the members of both.                      *)
LEMMA ConcatRange ==
    ASSUME NEW S, NEW s \in Seq(S), NEW t \in Seq(S)
    PROVE  s \o t \in Seq(S) /\ Range(s \o t) = Range(s) \cup Range(t)
  <1>1. s \o t \in Seq(S) /\ DOMAIN (s \o t) = 1..(Len(s) + Len(t))
    OBVIOUS
  <1>2. ASSUME NEW i \in DOMAIN s PROVE i \in DOMAIN (s \o t) /\ (s \o t)[i] = s[i]
    OBVIOUS
  <1>3. ASSUME NEW i \in DOMAIN t
        PROVE  i + Len(s) \in DOMAIN (s \o t) /\ (s \o t)[i + Len(s)] = t[i]
    OBVIOUS
  <1>4. ASSUME NEW i \in DOMAIN (s \o t)
        PROVE  (s \o t)[i] \in Range(s) \cup Range(t)
    <2>1. CASE i \in DOMAIN s
      BY <2>1, <1>2 DEF Range
    <2>2. CASE i \notin DOMAIN s
      <3>1. i - Len(s) \in DOMAIN t /\ (i - Len(s)) + Len(s) = i
        BY <2>2, <1>1
      <3>2. (s \o t)[i] = t[i - Len(s)]
        BY <3>1, <1>3
      <3> QED
        BY <3>1, <3>2 DEF Range
    <2> QED
      BY <2>1, <2>2
  <1>5. Range(s \o t) \subseteq Range(s) \cup Range(t)
    BY <1>4 DEF Range
  <1>6. Range(s) \subseteq Range(s \o t) /\ Range(t) \subseteq Range(s \o t)
    BY <1>2, <1>3 DEF Range
  <1> QED
    BY <1>1, <1>5, <1>6

(* Only selects exactly the elements of the list that are in T.            *)
LEMMA OnlySelects ==
    ASSUME NEW S, NEW list \in Seq(S), NEW T
    PROVE  Only(list, T) \in Seq(S) /\ Range(Only(list, T)) = Range(list) \cap T
  <1> DEFINE n == Len(list)
             Part(i) == IF list[i] \in T THEN <<list[i]>> ELSE <<>>
             parts == [i \in DOMAIN list |-> Part(i)]
             Seen(k) == {list[i] : i \in 1..k} \cap T
  <1>1. n \in Nat /\ DOMAIN list = 1..n /\ \A i \in 1..n : list[i] \in S
    OBVIOUS
  <1>2. /\ DOMAIN parts = 1..n /\ Len(parts) = n
        /\ Only(list, T) = FlattenSeq(parts)
    BY <1>1 DEF Only
  <1>3. \A i \in 1..n : parts[i] = Part(i)
    BY <1>1
  <1>4. ASSUME NEW i \in 1..n
        PROVE  Part(i) \in Seq(S) /\ Range(Part(i)) = {list[i]} \cap T
    <2>1. \A x \in S : <<x>> \in Seq(S) /\ Range(<<x>>) = {x}
      BY DEF Range
    <2>2. <<>> \in Seq(S) /\ Range(<<>>) = {}
      BY DEF Range
    <2> QED
      BY <2>1, <2>2, <1>1
  <1> HIDE DEF Part, parts
  <1>5. CASE n = 0
    <2>1. FlattenSeq(parts) = parts
      BY <1>2, <1>5 DEF FlattenSeq
    <2>2. parts = <<>>
      BY <1>2, <1>5 DEF parts
    <2>3. Range(list) = {} /\ Range(<<>>) = {} /\ <<>> \in Seq(S)
      BY <1>1, <1>5 DEF Range
    <2> QED
      BY <1>2, <2>1, <2>2, <2>3
  <1>6. CASE n # 0
    <2> DEFINE g == CHOOSE f : Collects(parts, f, n)
    <2>1. Collects(parts, g, n)
      BY <1>1, CollectionExists
    <2>2. FlattenSeq(parts) = g[n]
      BY <1>2, <1>6 DEF FlattenSeq, Collects
    <2> HIDE DEF g
    <2> DEFINE Right(k) == g[k] \in Seq(S) /\ Range(g[k]) = Seen(k)
               Bad == {k \in 1..n : ~Right(k)}
    <2>3. Bad = {}
      <3>1. SUFFICES ASSUME Bad # {} PROVE FALSE
        OBVIOUS
      <3>2. Bad \subseteq Nat
        BY <1>1
      <3>3. PICK k \in Bad : \A j \in Bad : k <= j
        BY <3>1, <3>2, LeastNumber
      <3>4. k \in 1..n /\ ~Right(k)
        BY <3>3
      <3>5. g[k] = IF k = 1 THEN Part(k) ELSE g[k - 1] \o Part(k)
        BY <2>1, <3>4, <1>3 DEF Collects
      <3>6. Seen(k) = Seen(k - 1) \cup ({list[k]} \cap T)
        <4>1. \A i : i \in 1..k <=> i \in 1..(k - 1) \/ i = k
          BY <3>4, <1>1
        <4> QED
          BY <4>1
      <3>7. CASE k = 1
        <4>1. Seen(k - 1) = {}
          BY <3>7
        <4> QED
          BY <3>4, <3>5, <3>6, <3>7, <4>1, <1>4
      <3>8. CASE k # 1
        <4>1. k - 1 \in 1..n /\ k - 1 < k
          BY <3>4, <3>8, <1>1
        <4>2. k - 1 \notin Bad
          <5>1. \A j \in Bad : k <= j
            BY <3>3
          <5>2. k \in Nat
            BY <3>4, <1>1
          <5> HIDE DEF Bad
          <5> QED
            BY <4>1, <5>1, <5>2
        <4>3. g[k - 1] \in Seq(S) /\ Range(g[k - 1]) = Seen(k - 1)
          BY <4>1, <4>2
        <4>4. Part(k) \in Seq(S) /\ Range(Part(k)) = {list[k]} \cap T
          BY <3>4, <1>4
        <4>5. g[k] = g[k - 1] \o Part(k)
          BY <3>5, <3>8
        <4> HIDE DEF Seen
        <4>6. g[k] \in Seq(S) /\ Range(g[k]) = Seen(k - 1) \cup ({list[k]} \cap T)
          BY <4>3, <4>4, <4>5, ConcatRange
        <4> QED
          BY <3>4, <3>6, <4>6
      <3> QED
        BY <3>7, <3>8
    <2>4. n \in 1..n
      BY <1>1, <1>6
    <2>5. Right(n)
      <3> HIDE DEF n
      <3> QED
        BY <2>3, <2>4
    <2>6. Seen(n) = Range(list) \cap T
      BY <1>1 DEF Range
    <2> HIDE DEF n, Seen
    <2> QED
      BY <1>2, <2>2, <2>5, <2>6
  <1> QED
    BY <1>5, <1>6

----------------------------------------------------------------------------
(* One mark.                                                               *)

TypeOf(entry) == Field(entry, "type", "Running")

Values ==
    Nat \cup {"True", "False", "Running", "Successful", "Failure", "Failed", ""}
        \cup UNION {{entry[key] : key \in DOMAIN entry} : entry \in RawEntries}

Condition ==
    [type : Values, status : Values \ {"none"}, ltt : Values, reason : Values, message : Values]

Entry == RawEntries \cup Condition

(* A list with at most one condition of each type.                         *)
OnePerType(conds) == \A x, y \in Range(conds) : x.type = y.type => x = y

(* Of the types in T there is a condition in the new list if there was one *)
(* in the old, which has kept its time if it has kept its status; nothing  *)
(* else has changed.                                                       *)
Changes(old, new, T) ==
    /\ new \in Seq(Condition) /\ OnePerType(new)
    /\ \A c : c.type \notin T => (c \in Range(old) <=> c \in Range(new))
    /\ \A x \in Range(old) : \E y \in Range(new) : y.type = x.type
    /\ \A x \in Range(old), y \in Range(new) :
         x.type = y.type /\ x.status = y.status => x.ltt = y.ltt

(* The index that GetCondition returns.                                    *)
LEMMA GetFacts ==
    ASSUME NEW conds \in Seq(Condition), NEW type
    PROVE  \/ GetCondition(conds, type) = 0 /\ \A c \in Range(conds) : c.type # type
           \/ /\ GetCondition(conds, type) \in DOMAIN conds
              /\ GetCondition(conds, type) # 0
              /\ conds[GetCondition(conds, type)] \in Range(conds)
              /\ conds[GetCondition(conds, type)].type = type
  <1> DEFINE I == {i \in 1..Len(conds) : conds[i].type = type}
  <1>1. GetCondition(conds, type) = IF I # {} THEN Min(I) ELSE 0
    BY DEF GetCondition, SelectInSeq
  <1>2. DOMAIN conds = 1..Len(conds) /\ Len(conds) \in Nat
    OBVIOUS
  <1>3. CASE I = {}
    BY <1>1, <1>2, <1>3 DEF Range
  <1>4. CASE I # {}
    <2>1. I \subseteq Nat
      OBVIOUS
    <2>2. PICK m \in I : \A k \in I : m <= k
      BY <1>4, <2>1, LeastNumber
    <2>3. Min(I) \in I
      <3> HIDE DEF I
      <3> QED
        BY <2>2 DEF Min
    <2>4. GetCondition(conds, type) \in I
      BY <1>1, <1>4, <2>3
    <2>5. \A j \in I : j \in DOMAIN conds /\ j # 0 /\ conds[j] \in Range(conds) /\ conds[j].type = type
      BY <1>2 DEF Range
    <2> HIDE DEF I
    <2> QED
      BY <2>4, <2>5
  <1> QED
    BY <1>3, <1>4

(* The verdict on a type is the status of the condition of that type.      *)
LEMMA ViewFacts ==
    ASSUME NEW conds \in Seq(Condition), OnePerType(conds), NEW type \in ConditionTypes
    PROVE  /\ (\A c \in Range(conds) : c.type # type) => View(conds)[type] = "none"
           /\ \A c \in Range(conds) : c.type = type => View(conds)[type] = c.status
  <1>1. View(conds)[type] = LET i == GetCondition(conds, type)
                            IN  IF i = 0 THEN "none" ELSE conds[i].status
    BY DEF View
  <1>2. CASE GetCondition(conds, type) = 0
    BY <1>1, <1>2, GetFacts
  <1>3. CASE GetCondition(conds, type) # 0
    BY <1>1, <1>3, GetFacts DEF OnePerType
  <1> QED
    BY <1>2, <1>3

(* SetCondition on a list: the new condition takes the place of the one of *)
(* its type, or that one is left as it was, with the same status.          *)
LEMMA SetFacts ==
    ASSUME NEW conds \in Seq(Condition), OnePerType(conds), NEW c \in Condition
    PROVE  /\ Changes(conds, SetCondition(conds, c), {c.type})
           /\ \E x \in Range(SetCondition(conds, c)) : x.type = c.type /\ x.status = c.status
           /\ c.type = "Failure" =>
                \A x \in Range(SetCondition(conds, c)) : x.type = c.type => x.message = c.message
  <1> DEFINE i == GetCondition(conds, c.type)
             T == {x \in Range(conds) : x.type # c.type}
             kept == filterOutCondition(conds, c.type)
             k == KeepTime(conds, i, c)
             new == SetCondition(conds, c)
  <1>1. \/ i = 0 /\ \A x \in Range(conds) : x.type # c.type
        \/ i # 0 /\ conds[i] \in Range(conds) /\ conds[i].type = c.type
    BY GetFacts
  <1>2. Range(conds) \subseteq Condition
    BY DEF Range
  <1> HIDE DEF i
  <1>3. kept \in Seq(Condition) /\ Range(kept) = T
    <2>1. kept = Only(conds, T)
      BY DEF filterOutCondition
    <2> HIDE DEF kept
    <2> QED
      BY <2>1, OnlySelects
  <1>4. /\ k \in Condition /\ k.type = c.type /\ k.status = c.status /\ k.message = c.message
        /\ i # 0 /\ conds[i].status = c.status => k.ltt = conds[i].ltt
    BY <1>1, <1>2 DEF KeepTime, Condition
  <1> HIDE DEF k, T
  <1>5. CASE /\ i # 0 /\ c.type # "Failure"
             /\ conds[i].status = c.status /\ conds[i].reason = c.reason
    <2>1. new = conds
      BY <1>5 DEF SetCondition, i
    <2> HIDE DEF new
    <2>2. Changes(conds, new, {c.type})
      BY <2>1 DEF Changes, OnePerType
    <2> QED
      BY <1>1, <1>5, <2>1, <2>2 DEF new
  <1>6. CASE ~(/\ i # 0 /\ c.type # "Failure"
               /\ conds[i].status = c.status /\ conds[i].reason = c.reason)
    <2>1. new = Append(kept, k)
      BY <1>6 DEF SetCondition, i, k
    <2> HIDE DEF new, kept
    <2>2. new \in Seq(Condition) /\ Range(new) = T \cup {k}
      <3>1. <<k>> \in Seq(Condition) /\ Range(<<k>>) = {k} /\ Append(kept, k) = kept \o <<k>>
        BY <1>3, <1>4 DEF Range
      <3>2. /\ kept \o <<k>> \in Seq(Condition)
            /\ Range(kept \o <<k>>) = Range(kept) \cup Range(<<k>>)
        BY <1>3, <3>1, ConcatRange
      <3> QED
        BY <1>3, <2>1, <3>1, <3>2
    <2>3. \A x \in Range(new) : x.type = c.type => x = k
      BY <2>2 DEF T
    <2>4. OnePerType(new)
      BY <2>2, <1>4 DEF OnePerType, T
    <2>5. \A x : x.type # c.type => (x \in Range(conds) <=> x \in Range(new))
      BY <2>2, <1>4 DEF T
    <2>6. \A x \in Range(conds) : \E y \in Range(new) : y.type = x.type
      BY <2>2, <1>4 DEF T
    <2>7. ASSUME NEW x \in Range(conds), NEW y \in Range(new),
                 x.type = y.type, x.status = y.status
          PROVE  x.ltt = y.ltt
      <3>1. CASE y = k
        <4>1. x = conds[i] /\ i # 0
          BY <1>1, <1>4, <2>7, <3>1 DEF OnePerType
        <4> QED
          BY <1>4, <2>7, <3>1, <4>1
      <3>2. CASE y # k
        BY <2>2, <2>7, <3>2 DEF T, OnePerType
      <3> QED
        BY <3>1, <3>2
    <2>8. Changes(conds, new, {c.type})
      BY <2>2, <2>4, <2>5, <2>6, <2>7 DEF Changes
    <2> QED
      BY <1>4, <2>2, <2>3, <2>8 DEF new
  <1> QED
    BY <1>5, <1>6

(* SetFalse on a list.                                                     *)
LEMMA SetFalseFacts ==
    ASSUME NEW conds \in Seq(Condition), OnePerType(conds), NEW type
    PROVE  /\ Changes(conds, SetFalse(conds, type), {type})
           /\ \A x \in Range(SetFalse(conds, type)) : x.type = type => x.status = "False"
  <1> DEFINE i == GetCondition(conds, type)
             c == [conds[i] EXCEPT !.status = "False"]
             new == SetFalse(conds, type)
  <1>1. \/ i = 0 /\ \A x \in Range(conds) : x.type # type
        \/ i # 0 /\ conds[i] \in Range(conds) /\ conds[i].type = type
    BY GetFacts
  <1> HIDE DEF i
  <1>2. CASE i = 0
    <2>1. new = conds
      BY <1>2 DEF SetFalse, i
    <2> HIDE DEF new
    <2>2. Changes(conds, new, {type})
      BY <2>1 DEF Changes, OnePerType
    <2> QED
      BY <1>1, <1>2, <2>1, <2>2 DEF new
  <1>3. CASE i # 0
    <2>1. conds[i] \in Condition /\ conds[i].type = type
      BY <1>1, <1>3 DEF Range
    <2>2. c \in Condition /\ c.type = type /\ c.status = "False"
      BY <2>1 DEF Condition, Values
    <2>3. new = SetCondition(conds, c)
      BY <1>3 DEF SetFalse, i
    <2> HIDE DEF c, new
    <2>4. /\ Changes(conds, new, {type})
          /\ \E x \in Range(new) : x.type = type /\ x.status = "False"
      BY <2>2, <2>3, SetFacts
    <2> QED
      BY <2>4 DEF Changes, OnePerType, new
  <1> QED
    BY <1>2, <1>3

(* Two changes of different types, one after the other.                    *)
LEMMA ChangesTwice ==
    ASSUME NEW a \in Seq(Condition), NEW b, NEW c, NEW S, NEW T, S \cap T = {},
           Changes(a, b, S), Changes(b, c, T)
    PROVE  Changes(a, c, S \cup T)
  <1>1. c \in Seq(Condition) /\ OnePerType(c)
    BY DEF Changes
  <1>2. \A x : x.type \notin S \cup T => (x \in Range(a) <=> x \in Range(c))
    BY DEF Changes
  <1>3. \A x \in Range(a) : \E y \in Range(c) : y.type = x.type
    BY DEF Changes
  <1>4. ASSUME NEW x \in Range(a), NEW y \in Range(c), x.type = y.type, x.status = y.status
        PROVE  x.ltt = y.ltt
    <2>1. CASE x.type \in S
      <3>1. y \in Range(b)
        BY <1>4, <2>1 DEF Changes
      <3> QED
        BY <1>4, <3>1 DEF Changes
    <2>2. CASE x.type \notin S
      <3>1. x \in Range(b)
        BY <1>4, <2>2 DEF Changes
      <3> QED
        BY <1>4, <3>1 DEF Changes
    <2> QED
      BY <2>1, <2>2
  <1> QED
    BY <1>1, <1>2, <1>3, <1>4 DEF Changes

----------------------------------------------------------------------------
(* The stored list and the marks of Reconcile.                             *)

(* No two entries are read as conditions of one type, and since a failure  *)
(* was reported a Failure that is True carries its message.                *)
OneEntryPerType ==
    \A x, y \in Range(stored) : isMap(x) /\ isMap(y) /\ TypeOf(x) = TypeOf(y) => x = y

LatestFailure ==
    lastFailure # 0 =>
        \A x \in Range(stored) :
            isMap(x) /\ TypeOf(x) = "Failure" /\ Field(x, "status", "True") = "True"
                => Field(x, "message", 0) = lastFailure

ConditionsInv ==
    /\ now \in Nat
    /\ stored \in Seq(Entry)
    /\ OneEntryPerType
    /\ LatestFailure

(* A condition that is stored is read as it is.                            *)
LEMMA StoredIsRead ==
    ASSUME NEW c \in Condition
    PROVE  /\ isMap(c) /\ TypeOf(c) = c.type
           /\ Field(c, "status", "True") = c.status /\ Field(c, "message", 0) = c.message
  BY DEF Condition, isMap, TypeOf, Field

(* What createConditionFromMap makes of an entry.                          *)
LEMMA CreatedFacts ==
    ASSUME now \in Nat, NEW x \in Entry
    PROVE  /\ createConditionFromMap(x) \in Condition
           /\ createConditionFromMap(x).type = TypeOf(x)
           /\ createConditionFromMap(x).status = Field(x, "status", "True")
           /\ createConditionFromMap(x).message = Field(x, "message", 0)
  <1>1. ASSUME NEW key, NEW default \in Values
        PROVE  Field(x, key, default) \in Values
    <2>1. CASE x \in RawEntries
      <3>1. \A k \in DOMAIN x : x[k] \in UNION {{e[j] : j \in DOMAIN e} : e \in RawEntries}
        BY <2>1
      <3> QED
        BY <3>1 DEF Field, Values
    <2>2. CASE x \in Condition
      <3>1. DOMAIN x = {"type", "status", "ltt", "reason", "message"}
        BY <2>2 DEF Condition
      <3>2. /\ x["type"] \in Values /\ x["status"] \in Values /\ x["ltt"] \in Values
            /\ x["reason"] \in Values /\ x["message"] \in Values
        BY <2>2 DEF Condition
      <3> QED
        BY <3>1, <3>2 DEF Field
    <2> QED
      BY <2>1, <2>2 DEF Entry
  <1>2. Field(x, "status", "True") # "none"
    BY EntriesAssumption DEF Field, Entry, Condition
  <1>3. "Running" \in Values /\ "True" \in Values /\ "" \in Values /\ 0 \in Values /\ now \in Values
    BY DEF Values
  <1>4. /\ Field(x, "type", "Running") \in Values
        /\ Field(x, "status", "True") \in Values
        /\ Field(x, "ltt", now) \in Values
        /\ Field(x, "reason", "") \in Values
        /\ Field(x, "message", 0) \in Values
    BY <1>1, <1>3
  <1> QED
    BY <1>2, <1>4 DEF createConditionFromMap, Condition, TypeOf

(* The list that CreateFromMap makes: one condition for each entry that is *)
(* a map, at the position of that entry.                                   *)
LEMMA CreateFacts ==
    ASSUME now \in Nat, stored \in Seq(Entry)
    PROVE  /\ Conditions \in Seq(Condition)
           /\ \A i \in DOMAIN Conditions : \E x \in Range(stored) :
                isMap(x) /\ Conditions[i] = createConditionFromMap(x)
           /\ \E maps :
                /\ DOMAIN maps = 1..Len(Conditions)
                /\ \A x \in Range(stored) : isMap(x) => x \in Range(maps)
                /\ \A i \in DOMAIN maps : Conditions[i] = createConditionFromMap(maps[i])
  <1> DEFINE T == {entry \in Range(stored) : isMap(entry)}
             maps == Only(stored, T)
  <1>1. maps \in Seq(Entry) /\ Range(maps) = T
    <2>1. T \subseteq Range(stored)
      OBVIOUS
    <2> HIDE DEF T
    <2>2. maps \in Seq(Entry) /\ Range(maps) = Range(stored) \cap T
      BY OnlySelects
    <2> QED
      BY <2>1, <2>2
  <1>2. Conditions = [i \in 1..Len(maps) |-> createConditionFromMap(maps[i])]
    BY DEF Conditions, CreateFromMap
  <1> HIDE DEF maps
  <1>3. /\ Len(maps) \in Nat /\ DOMAIN maps = 1..Len(maps)
        /\ \A i \in 1..Len(maps) : maps[i] \in Entry /\ maps[i] \in T
    BY <1>1 DEF Range
  <1>4. \A i \in 1..Len(maps) : createConditionFromMap(maps[i]) \in Condition
    BY <1>3, CreatedFacts
  <1>5. Conditions \in Seq(Condition) /\ Len(Conditions) = Len(maps)
    <2>1. Conditions \in [1..Len(maps) -> Condition]
      BY <1>2, <1>4
    <2>2. \A n \in Nat : \A f \in [1..n -> Condition] : f \in Seq(Condition) /\ Len(f) = n
      OBVIOUS
    <2> QED
      BY <2>1, <2>2, <1>3
  <1>6. \A i \in 1..Len(maps) : Conditions[i] = createConditionFromMap(maps[i])
    BY <1>2
  <1>7. DOMAIN Conditions = 1..Len(maps)
    BY <1>2
  <1>8. \A i \in 1..Len(maps) : maps[i] \in Range(stored) /\ isMap(maps[i])
    BY <1>3
  <1>9. \A x \in Range(stored) : isMap(x) => x \in Range(maps)
    BY <1>1
  <1> HIDE DEF T
  <1> QED
    BY <1>3, <1>5, <1>6, <1>7, <1>8, <1>9

(* What Reconcile reads, as a set.                                         *)
LEMMA ReadFacts ==
    ASSUME ConditionsInv
    PROVE  /\ Conditions \in Seq(Condition) /\ OnePerType(Conditions)
           /\ \A c \in Range(Conditions) : \E x \in Range(stored) :
                isMap(x) /\ c = createConditionFromMap(x)
           /\ \A x \in Range(stored) : isMap(x) => createConditionFromMap(x) \in Range(Conditions)
  <1>1. /\ Conditions \in Seq(Condition)
        /\ \A i \in DOMAIN Conditions : \E x \in Range(stored) :
             isMap(x) /\ Conditions[i] = createConditionFromMap(x)
    BY CreateFacts DEF ConditionsInv
  <1>2. PICK maps :
          /\ DOMAIN maps = 1..Len(Conditions)
          /\ \A x \in Range(stored) : isMap(x) => x \in Range(maps)
          /\ \A i \in DOMAIN maps : Conditions[i] = createConditionFromMap(maps[i])
    BY CreateFacts DEF ConditionsInv
  <1>3. \A c \in Range(Conditions) : \E x \in Range(stored) :
          isMap(x) /\ c = createConditionFromMap(x)
    BY <1>1 DEF Range
  <1>4. DOMAIN Conditions = 1..Len(Conditions)
    BY <1>1
  <1>5. ASSUME NEW x \in Range(stored), isMap(x)
        PROVE  createConditionFromMap(x) \in Range(Conditions)
    <2>1. PICK i \in DOMAIN maps : maps[i] = x
      BY <1>2, <1>5 DEF Range
    <2> QED
      BY <1>2, <1>4, <2>1 DEF Range
  <1>6. \A x \in Range(stored) : createConditionFromMap(x).type = TypeOf(x)
    <2>1. Range(stored) \subseteq Entry
      BY DEF ConditionsInv, Range
    <2> QED
      BY <2>1, CreatedFacts DEF ConditionsInv
  <1>7. OnePerType(Conditions)
    BY <1>3, <1>6 DEF OnePerType, ConditionsInv, OneEntryPerType
  <1> QED
    BY <1>1, <1>3, <1>5, <1>7

(* The verdicts on the types that do not change                            *)
LEMMA OtherVerdicts ==
    ASSUME NEW a \in Seq(Condition), OnePerType(a), NEW b, NEW T, Changes(a, b, T)
    PROVE  \A type \in ConditionTypes \ T : View(b)[type] = View(a)[type]
  <1>1. b \in Seq(Condition) /\ OnePerType(b)
    BY DEF Changes
  <1>2. ASSUME NEW type \in ConditionTypes \ T
        PROVE  View(b)[type] = View(a)[type]
    <2>1. \A c : c.type = type => (c \in Range(a) <=> c \in Range(b))
      BY <1>2 DEF Changes
    <2>2. CASE \E c \in Range(a) : c.type = type
      <3>1. PICK c \in Range(a) : c.type = type
        BY <2>2
      <3>2. View(a)[type] = c.status
        BY <3>1, ViewFacts
      <3>3. View(b)[type] = c.status
        BY <3>1, <1>1, <2>1, ViewFacts
      <3> QED
        BY <3>2, <3>3
    <2>3. CASE ~\E c \in Range(a) : c.type = type
      <3>1. View(a)[type] = "none"
        BY <2>3, ViewFacts
      <3>2. View(b)[type] = "none"
        BY <2>3, <1>1, <2>1, ViewFacts
      <3> QED
        BY <3>1, <3>2
    <2> QED
      BY <2>2, <2>3
  <1> QED
    BY <1>2

(* The verdicts after SetCondition                                         *)
LEMMA SetVerdict ==
    ASSUME NEW conds \in Seq(Condition), OnePerType(conds),
           NEW c \in Condition, c.type \in ConditionTypes
    PROVE  View(SetCondition(conds, c)) = [View(conds) EXCEPT ![c.type] = c.status]
  <1> DEFINE new == SetCondition(conds, c)
  <1>1. /\ Changes(conds, new, {c.type})
        /\ \E x \in Range(new) : x.type = c.type /\ x.status = c.status
    BY SetFacts
  <1> HIDE DEF new
  <1>2. new \in Seq(Condition) /\ OnePerType(new)
    BY <1>1 DEF Changes
  <1>3. View(new)[c.type] = c.status
    BY <1>1, <1>2, ViewFacts
  <1>4. \A t \in ConditionTypes \ {c.type} : View(new)[t] = View(conds)[t]
    BY <1>1, OtherVerdicts
  <1>5. /\ View(new) = [t \in ConditionTypes |-> View(new)[t]]
        /\ View(conds) = [t \in ConditionTypes |-> View(conds)[t]]
    BY DEF View
  <1>6. [View(conds) EXCEPT ![c.type] = c.status]
          = [t \in ConditionTypes |-> IF t = c.type THEN c.status ELSE View(conds)[t]]
    BY <1>5
  <1>7. \A t \in ConditionTypes : View(new)[t] = IF t = c.type THEN c.status ELSE View(conds)[t]
    BY <1>3, <1>4
  <1> QED
    BY <1>5, <1>6, <1>7 DEF new

(* and after SetFalse.                                                     *)
LEMMA FalseVerdict ==
    ASSUME NEW conds \in Seq(Condition), OnePerType(conds), NEW type \in ConditionTypes
    PROVE  View(SetFalse(conds, type)) = Flip(View(conds), type)
  <1> DEFINE new == SetFalse(conds, type)
  <1>1. /\ Changes(conds, new, {type})
        /\ \A x \in Range(new) : x.type = type => x.status = "False"
    BY SetFalseFacts
  <1> HIDE DEF new
  <1>2. new \in Seq(Condition) /\ OnePerType(new)
    BY <1>1 DEF Changes
  <1>3. \A t \in ConditionTypes \ {type} : View(new)[t] = View(conds)[t]
    BY <1>1, OtherVerdicts
  <1>4. /\ View(new) = [t \in ConditionTypes |-> View(new)[t]]
        /\ View(conds) = [t \in ConditionTypes |-> View(conds)[t]]
    BY DEF View
  <1>5. CASE \E x \in Range(conds) : x.type = type
    <2>1. PICK x \in Range(conds) : x.type = type
      BY <1>5
    <2>2. x \in Condition
      BY DEF Range
    <2>3. View(conds)[type] # "none"
      BY <2>1, <2>2, ViewFacts DEF Condition
    <2>4. PICK y \in Range(new) : y.type = type
      BY <1>1, <2>1 DEF Changes
    <2>5. View(new)[type] = "False"
      BY <1>1, <1>2, <2>4, ViewFacts
    <2> QED
      BY <1>3, <1>4, <2>3, <2>5 DEF Flip, new
  <1>6. CASE ~\E x \in Range(conds) : x.type = type
    <2>1. new = conds
      BY <1>6, GetFacts DEF new, SetFalse
    <2>2. View(conds)[type] = "none"
      BY <1>6, ViewFacts
    <2> QED
      BY <2>1, <2>2 DEF Flip, new
  <1> QED
    BY <1>5, <1>6

(* What a mark says about the verdicts, the types it changes, and failures.*)
Marked(verdict, T) ==
    /\ View(stored') = verdict
    /\ Changes(Conditions, stored', T)
    /\ now' \in Nat
    /\ \/ lastFailure' = lastFailure /\ "Failure" \notin T
       \/ \A x \in Range(stored') :
            x.type = "Failure" /\ x.status = "True" => x.message = lastFailure'

(* markRunning flips Successful and sets Running.                          *)
LEMMA RunningMarks ==
    ASSUME ConditionsInv, markRunning
    PROVE  Marked(RunningVerdict(View(Conditions)), {"Successful", "Running"})
  <1> DEFINE b == SetFalse(Conditions, "Successful")
             n == NewCondition("Running", "True", "Running", 0)
             c == SetCondition(b, n)
  <1>0. "Successful" \in ConditionTypes /\ "Running" \in ConditionTypes
    BY DEF ConditionTypes
  <1>1. Conditions \in Seq(Condition) /\ OnePerType(Conditions)
    BY ReadFacts
  <1>2. /\ Changes(Conditions, b, {"Successful"})
        /\ View(b) = Flip(View(Conditions), "Successful")
    BY <1>0, <1>1, SetFalseFacts, FalseVerdict
  <1>3. n \in Condition /\ n.type = "Running" /\ n.status = "True"
    BY DEF NewCondition, Condition, Values, ConditionsInv
  <1> HIDE DEF b, n
  <1>4. b \in Seq(Condition) /\ OnePerType(b)
    BY <1>2 DEF Changes
  <1>5. Changes(b, c, {"Running"})
    BY <1>3, <1>4, SetFacts
  <1>6. View(c) = [View(b) EXCEPT !["Running"] = "True"]
    BY <1>0, <1>3, <1>4, SetVerdict
  <1>7. stored' = c /\ now' \in Nat /\ lastFailure' = lastFailure
    BY DEF markRunning, Step, ConditionsInv, b, n
  <1> HIDE DEF c
  <1>8. Changes(Conditions, c, {"Successful"} \cup {"Running"})
    BY <1>1, <1>2, <1>5, ChangesTwice
  <1>9. {"Successful"} \cup {"Running"} = {"Successful", "Running"}
    OBVIOUS
  <1>10. View(c) = RunningVerdict(View(Conditions))
    BY <1>2, <1>6 DEF RunningVerdict
  <1> QED
    BY <1>7, <1>8, <1>9, <1>10 DEF Marked

(* markError flips Running and Successful and sets Failure.                *)
LEMMA ErrorMarks ==
    ASSUME ConditionsInv, markError
    PROVE  Marked(ErrorVerdict(View(Conditions)), ConditionTypes)
  <1> DEFINE a == SetFalse(Conditions, "Running")
             b == SetFalse(a, "Successful")
             n == NewCondition("Failure", "True", "Failed", now)
             c == SetCondition(b, n)
  <1>0. "Successful" \in ConditionTypes /\ "Running" \in ConditionTypes /\ "Failure" \in ConditionTypes
    BY DEF ConditionTypes
  <1>1. Conditions \in Seq(Condition) /\ OnePerType(Conditions)
    BY ReadFacts
  <1>2. Changes(Conditions, a, {"Running"}) /\ View(a) = Flip(View(Conditions), "Running")
    BY <1>0, <1>1, SetFalseFacts, FalseVerdict
  <1> HIDE DEF a
  <1>3. a \in Seq(Condition) /\ OnePerType(a)
    BY <1>2 DEF Changes
  <1>4. Changes(a, b, {"Successful"}) /\ View(b) = Flip(View(a), "Successful")
    BY <1>0, <1>3, SetFalseFacts, FalseVerdict
  <1>5. n \in Condition /\ n.type = "Failure" /\ n.status = "True" /\ n.message = now
    BY DEF NewCondition, Condition, Values, ConditionsInv
  <1> HIDE DEF b, n
  <1>6. b \in Seq(Condition) /\ OnePerType(b)
    BY <1>4 DEF Changes
  <1>7. Changes(b, c, {"Failure"}) /\ \A x \in Range(c) : x.type = "Failure" => x.message = now
    BY <1>5, <1>6, SetFacts
  <1>8. View(c) = [View(b) EXCEPT !["Failure"] = "True"]
    BY <1>0, <1>5, <1>6, SetVerdict
  <1>9. stored' = c /\ now' \in Nat /\ lastFailure' = now
    <2>1. stored' = c /\ lastFailure' = now
      BY DEF markError, a, b, n
    <2>2. Step
      BY DEF markError
    <2> QED
      BY <2>1, <2>2 DEF Step, ConditionsInv
  <1> HIDE DEF c
  <1>10. Changes(Conditions, b, {"Running"} \cup {"Successful"})
    BY <1>1, <1>2, <1>4, ChangesTwice
  <1>11. Changes(Conditions, c, ({"Running"} \cup {"Successful"}) \cup {"Failure"})
    BY <1>1, <1>7, <1>10, ChangesTwice
  <1>12. ({"Running"} \cup {"Successful"}) \cup {"Failure"} = ConditionTypes
    BY DEF ConditionTypes
  <1>13. View(c) = ErrorVerdict(View(Conditions))
    BY <1>2, <1>4, <1>8 DEF ErrorVerdict
  <1> QED
    BY <1>7, <1>9, <1>11, <1>12, <1>13 DEF Marked

(* markDone after a run without failures sets all three.                   *)
LEMMA SuccessMarks ==
    ASSUME ConditionsInv, markDoneSuccess
    PROVE  Marked(DoneVerdict(View(Conditions), TRUE), ConditionTypes)
  <1> DEFINE k == NewCondition("Running", "True", "Successful", 0)
             m == NewCondition("Successful", "True", "Successful", 0)
             n == NewCondition("Failure", "False", "", 0)
             a == SetCondition(Conditions, k)
             b == SetCondition(a, m)
             c == SetCondition(b, n)
  <1>0. "Successful" \in ConditionTypes /\ "Running" \in ConditionTypes /\ "Failure" \in ConditionTypes
    BY DEF ConditionTypes
  <1>1. Conditions \in Seq(Condition) /\ OnePerType(Conditions)
    BY ReadFacts
  <1>2. /\ k \in Condition /\ k.type = "Running" /\ k.status = "True"
        /\ m \in Condition /\ m.type = "Successful" /\ m.status = "True"
        /\ n \in Condition /\ n.type = "Failure" /\ n.status = "False"
    BY DEF NewCondition, Condition, Values, ConditionsInv
  <1> HIDE DEF k, m, n
  <1>3. Changes(Conditions, a, {"Running"}) /\ View(a) = [View(Conditions) EXCEPT !["Running"] = "True"]
    BY <1>0, <1>1, <1>2, SetFacts, SetVerdict
  <1> HIDE DEF a
  <1>4. a \in Seq(Condition) /\ OnePerType(a)
    BY <1>3 DEF Changes
  <1>5. Changes(a, b, {"Successful"}) /\ View(b) = [View(a) EXCEPT !["Successful"] = "True"]
    BY <1>0, <1>2, <1>4, SetFacts, SetVerdict
  <1> HIDE DEF b
  <1>6. b \in Seq(Condition) /\ OnePerType(b)
    BY <1>5 DEF Changes
  <1>7. Changes(b, c, {"Failure"}) /\ View(c) = [View(b) EXCEPT !["Failure"] = "False"]
    BY <1>0, <1>2, <1>6, SetFacts, SetVerdict
  <1>8. \E x \in Range(c) : x.type = "Failure" /\ x.status = "False"
    BY <1>2, <1>6, SetFacts
  <1>9. stored' = c /\ now' \in Nat
    <2>1. stored' = c
      BY DEF markDoneSuccess, a, b, k, m, n
    <2>2. Step
      BY DEF markDoneSuccess
    <2> QED
      BY <2>1, <2>2 DEF Step, ConditionsInv
  <1> HIDE DEF c
  <1>10. Changes(Conditions, b, {"Running"} \cup {"Successful"})
    BY <1>1, <1>3, <1>5, ChangesTwice
  <1>11. Changes(Conditions, c, ({"Running"} \cup {"Successful"}) \cup {"Failure"})
    BY <1>1, <1>7, <1>10, ChangesTwice
  <1>12. ({"Running"} \cup {"Successful"}) \cup {"Failure"} = ConditionTypes
    BY DEF ConditionTypes
  <1>13. View(c) = DoneVerdict(View(Conditions), TRUE)
    <2>1. View(Conditions) = [t \in ConditionTypes |-> View(Conditions)[t]]
      BY DEF View
    <2> QED
      BY <2>1, <1>3, <1>5, <1>7 DEF DoneVerdict, ConditionTypes
  <1>14. \A x \in Range(c) : x.type = "Failure" => x.status # "True"
    BY <1>7, <1>8 DEF Changes, OnePerType
  <1> QED
    BY <1>9, <1>11, <1>12, <1>13, <1>14 DEF Marked

(* markDone after a failed run flips Running and sets the other two.       *)
LEMMA FailureMarks ==
    ASSUME ConditionsInv, markDoneFailure
    PROVE  Marked(DoneVerdict(View(Conditions), FALSE), ConditionTypes)
  <1> DEFINE m == NewCondition("Failure", "True", "Failed", now)
             n == NewCondition("Successful", "False", "", 0)
             a == SetFalse(Conditions, "Running")
             b == SetCondition(a, m)
             c == SetCondition(b, n)
  <1>0. "Successful" \in ConditionTypes /\ "Running" \in ConditionTypes /\ "Failure" \in ConditionTypes
    BY DEF ConditionTypes
  <1>1. Conditions \in Seq(Condition) /\ OnePerType(Conditions)
    BY ReadFacts
  <1>2. /\ m \in Condition /\ m.type = "Failure" /\ m.status = "True" /\ m.message = now
        /\ n \in Condition /\ n.type = "Successful" /\ n.status = "False"
    BY DEF NewCondition, Condition, Values, ConditionsInv
  <1> HIDE DEF m, n
  <1>3. Changes(Conditions, a, {"Running"}) /\ View(a) = Flip(View(Conditions), "Running")
    BY <1>0, <1>1, SetFalseFacts, FalseVerdict
  <1> HIDE DEF a
  <1>4. a \in Seq(Condition) /\ OnePerType(a)
    BY <1>3 DEF Changes
  <1>5. Changes(a, b, {"Failure"}) /\ View(b) = [View(a) EXCEPT !["Failure"] = "True"]
    BY <1>0, <1>2, <1>4, SetFacts, SetVerdict
  <1>6. \A x \in Range(b) : x.type = "Failure" => x.message = now
    BY <1>2, <1>4, SetFacts
  <1> HIDE DEF b
  <1>7. b \in Seq(Condition) /\ OnePerType(b)
    BY <1>5 DEF Changes
  <1>8. Changes(b, c, {"Successful"}) /\ View(c) = [View(b) EXCEPT !["Successful"] = "False"]
    BY <1>0, <1>2, <1>7, SetFacts, SetVerdict
  <1>9. stored' = c /\ now' \in Nat /\ lastFailure' = now
    <2>1. stored' = c /\ lastFailure' = now
      BY DEF markDoneFailure, a, b, m, n
    <2>2. Step
      BY DEF markDoneFailure
    <2> QED
      BY <2>1, <2>2 DEF Step, ConditionsInv
  <1> HIDE DEF c
  <1>10. Changes(Conditions, b, {"Running"} \cup {"Failure"})
    BY <1>1, <1>3, <1>5, ChangesTwice
  <1>11. Changes(Conditions, c, ({"Running"} \cup {"Failure"}) \cup {"Successful"})
    BY <1>1, <1>8, <1>10, ChangesTwice
  <1>12. ({"Running"} \cup {"Failure"}) \cup {"Successful"} = ConditionTypes
    BY DEF ConditionTypes
  <1>13. View(c) = DoneVerdict(View(Conditions), FALSE)
    BY <1>3, <1>5, <1>8 DEF DoneVerdict
  <1>14. \A x \in Range(c) : x.type = "Failure" => x.message = now
    <2>1. \A x \in Range(c) : x.type = "Failure" => x \in Range(b)
      BY <1>8 DEF Changes
    <2> QED
      BY <1>6, <2>1
  <1> QED
    BY <1>9, <1>11, <1>12, <1>13, <1>14 DEF Marked

----------------------------------------------------------------------------
(* The invariant and the theorems.                                         *)

(* Every mark leaves a list as the invariant wants it.                     *)
LEMMA MarkedKeeps ==
    ASSUME ConditionsInv, NEW verdict, NEW T, Marked(verdict, T)
    PROVE  ConditionsInv'
  <1>1. stored' \in Seq(Condition) /\ OnePerType(stored') /\ now' \in Nat
    BY DEF Marked, Changes
  <1>2. Range(stored') \subseteq Condition
    BY <1>1 DEF Range
  <1>3. (stored \in Seq(Entry))'
    BY <1>1 DEF Entry
  <1>4. OneEntryPerType'
    BY <1>1, <1>2, StoredIsRead DEF OneEntryPerType, OnePerType
  <1>5. ASSUME lastFailure' # 0, NEW x \in Range(stored'), x.type = "Failure", x.status = "True"
        PROVE  x.message = lastFailure'
    <2>1. CASE lastFailure' = lastFailure /\ "Failure" \notin T
      <3>1. x \in Range(Conditions)
        BY <1>5, <2>1 DEF Marked, Changes
      <3>2. PICK y \in Range(stored) : isMap(y) /\ x = createConditionFromMap(y)
        BY <3>1, ReadFacts
      <3>3. y \in Entry
        BY DEF ConditionsInv, Range
      <3>4. /\ x.type = TypeOf(y) /\ x.status = Field(y, "status", "True")
            /\ x.message = Field(y, "message", 0)
        BY <3>2, <3>3, CreatedFacts DEF ConditionsInv
      <3> QED
        BY <1>5, <2>1, <3>2, <3>4 DEF ConditionsInv, LatestFailure
    <2>2. CASE ~(lastFailure' = lastFailure /\ "Failure" \notin T)
      BY <1>5, <2>2 DEF Marked
    <2> QED
      BY <2>1, <2>2
  <1>6. LatestFailure'
    BY <1>2, <1>5, StoredIsRead DEF LatestFailure
  <1> QED
    BY <1>1, <1>3, <1>4, <1>6 DEF ConditionsInv

(* An entry of another type, added by a role or a user, does so too.       *)
LEMMA AddedKeeps ==
    ASSUME ConditionsInv, AddForeign
    PROVE  ConditionsInv'
  <1>1. PICK entry \in RawEntries :
          /\ isMap(entry) /\ Field(entry, "type", "Running") \notin ConditionTypes
          /\ GetCondition(Conditions, entry.type) = 0
          /\ stored' = Append(stored, entry)
    BY DEF AddForeign
  <1>2. now' \in Nat /\ lastFailure' = lastFailure
    BY DEF AddForeign, Step, ConditionsInv
  <1>3. TypeOf(entry) \notin ConditionTypes /\ TypeOf(entry) = entry.type
    BY <1>1 DEF TypeOf, Field, ConditionTypes
  <1>4. /\ stored' \in Seq(Entry)
        /\ Range(stored') = Range(stored) \cup {entry}
    <2>1. stored \in Seq(Entry) /\ entry \in Entry
      BY DEF ConditionsInv, Entry
    <2>2. /\ <<entry>> \in Seq(Entry) /\ Range(<<entry>>) = {entry}
          /\ Append(stored, entry) = stored \o <<entry>>
      BY <2>1 DEF Range
    <2>3. /\ stored \o <<entry>> \in Seq(Entry)
          /\ Range(stored \o <<entry>>) = Range(stored) \cup Range(<<entry>>)
      BY <2>1, <2>2, ConcatRange
    <2> QED
      BY <1>1, <2>2, <2>3
  <1>5. ASSUME NEW x \in Range(stored), isMap(x) PROVE TypeOf(x) # TypeOf(entry)
    <2>1. x \in Entry
      BY DEF ConditionsInv, Range
    <2>2. createConditionFromMap(x) \in Range(Conditions)
      BY <1>5, ReadFacts
    <2>3. createConditionFromMap(x).type # entry.type
      BY <1>1, <2>2, ReadFacts, GetFacts
    <2> QED
      BY <1>3, <2>1, <2>3, CreatedFacts DEF ConditionsInv
  <1>6. OneEntryPerType'
    BY <1>4, <1>5 DEF OneEntryPerType, ConditionsInv
  <1>7. LatestFailure'
    BY <1>2, <1>3, <1>4 DEF LatestFailure, ConditionsInv, ConditionTypes
  <1> QED
    BY <1>2, <1>4, <1>6, <1>7 DEF ConditionsInv

(* The list that is there at the start has one entry for a type.           *)
LEMMA ConditionsStart == ConditionsInit => ConditionsInv
  <1> SUFFICES ASSUME ConditionsInit PROVE ConditionsInv
    OBVIOUS
  <1>1. now \in Nat /\ lastFailure = 0
    BY DEF ConditionsInit
  <1>2. stored \in Seq(Entry)
    <2>1. PICK n \in 0..MaxRaw : stored \in [1..n -> RawEntries]
      BY DEF ConditionsInit
    <2>2. n \in Nat
      BY EntriesAssumption
    <2>3. stored \in Seq(RawEntries)
      BY <2>1, <2>2
    <2> QED
      BY <2>3 DEF Entry
  <1>3. OneEntryPerType
    <2>1. PICK maps :
            /\ DOMAIN maps = 1..Len(Conditions)
            /\ \A x \in Range(stored) : isMap(x) => x \in Range(maps)
            /\ \A i \in DOMAIN maps : Conditions[i] = createConditionFromMap(maps[i])
      BY <1>1, <1>2, CreateFacts
    <2>2. ASSUME NEW x \in Range(stored), NEW y \in Range(stored),
                 isMap(x), isMap(y), TypeOf(x) = TypeOf(y)
          PROVE  x = y
      <3>1. PICK i \in DOMAIN maps : maps[i] = x
        BY <2>1, <2>2 DEF Range
      <3>2. PICK j \in DOMAIN maps : maps[j] = y
        BY <2>1, <2>2 DEF Range
      <3>3. x \in Entry /\ y \in Entry
        BY <1>2 DEF Range
      <3>4. Conditions[i].type = Conditions[j].type
        BY <1>1, <2>1, <2>2, <3>1, <3>2, <3>3, CreatedFacts
      <3>5. i = j
        BY <2>1, <3>4 DEF ConditionsInit, NoDuplicates, Conditions
      <3> QED
        BY <3>1, <3>2, <3>5
    <2> QED
      BY <2>2 DEF OneEntryPerType
  <1> QED
    BY <1>1, <1>2, <1>3 DEF ConditionsInv, LatestFailure

(* ConditionsInv is inductive.                                             *)
LEMMA ConditionsStep == ConditionsInv /\ [ConditionsNext]_conditionsVars => ConditionsInv'
  <1> SUFFICES ASSUME ConditionsInv, [ConditionsNext]_conditionsVars PROVE ConditionsInv'
    OBVIOUS
  <1>1. CASE markRunning
    BY <1>1, RunningMarks, MarkedKeeps
  <1>2. CASE markError
    BY <1>2, ErrorMarks, MarkedKeeps
  <1>3. CASE markDoneSuccess
    BY <1>3, SuccessMarks, MarkedKeeps
  <1>4. CASE markDoneFailure
    BY <1>4, FailureMarks, MarkedKeeps
  <1>5. CASE AddForeign
    BY <1>5, AddedKeeps
  <1>6. CASE UNCHANGED conditionsVars
    BY <1>6 DEF conditionsVars, ConditionsInv, OneEntryPerType, LatestFailure
  <1> QED
    BY <1>1, <1>2, <1>3, <1>4, <1>5, <1>6 DEF ConditionsNext

(* The stored list never has two entries of a type.                        *)
LEMMA ConditionsInvariant == ConditionsSpec => []ConditionsInv
  BY ConditionsStart, ConditionsStep, PTL DEF ConditionsSpec

(* The marks of Reconcile on lists of conditions are the functions on      *)
(* verdicts that module Reconciler uses, for stored lists of any length    *)
(* with any entries: the shortcut of SetCondition never leaves a status as *)
(* it was, and filterOutCondition takes no other condition along.          *)
THEOREM ListsCarryVerdicts == ConditionsSpec => MarksAreVerdicts
  <1>1. ConditionsInv /\ [ConditionsNext]_conditionsVars =>
          [ /\ markRunning     => View(stored') = RunningVerdict(View(Conditions))
            /\ markError       => View(stored') = ErrorVerdict(View(Conditions))
            /\ markDoneSuccess => View(stored') = DoneVerdict(View(Conditions), TRUE)
            /\ markDoneFailure => View(stored') = DoneVerdict(View(Conditions), FALSE) ]_conditionsVars
    BY RunningMarks, ErrorMarks, SuccessMarks, FailureMarks DEF Marked
  <1> QED
    BY <1>1, ConditionsInvariant, PTL DEF ConditionsSpec, MarksAreVerdicts

(* What the next Reconcile will read: one condition of each type, what has *)
(* been stored, and a Failure that carries the latest message.             *)
ReadWell ==
    /\ Conditions \in Seq(Condition) /\ OnePerType(Conditions)
    /\ \A c \in Range(Conditions) : \E x \in Range(stored) :
         isMap(x) /\ c = createConditionFromMap(x)
    /\ \A x \in Range(stored) : isMap(x) => createConditionFromMap(x) \in Range(Conditions)
    /\ lastFailure # 0 => \A c \in Range(Conditions) :
         c.type = "Failure" /\ c.status = "True" => c.message = lastFailure

(* The invariant as the readers see it.                                    *)
LEMMA InvIsRead == ConditionsInv => ReadWell
  <1> SUFFICES ASSUME ConditionsInv PROVE ReadWell
    OBVIOUS
  <1>1. ASSUME lastFailure # 0, NEW c \in Range(Conditions), c.type = "Failure", c.status = "True"
        PROVE  c.message = lastFailure
    <2>1. PICK x \in Range(stored) : isMap(x) /\ c = createConditionFromMap(x)
      BY ReadFacts
    <2>2. x \in Entry
      BY DEF ConditionsInv, Range
    <2>3. /\ c.type = TypeOf(x) /\ c.status = Field(x, "status", "True")
          /\ c.message = Field(x, "message", 0)
      BY <2>1, <2>2, CreatedFacts DEF ConditionsInv
    <2> QED
      BY <1>1, <2>1, <2>3 DEF ConditionsInv, LatestFailure
  <1> QED
    BY <1>1, ReadFacts DEF ReadWell

(* What a mark has stored is read without a change.                        *)
LEMMA ReadBack ==
    ASSUME ReadWell', stored' \in Seq(Condition)
    PROVE  Range(Conditions') = Range(stored')
  <1>1. ASSUME NEW c \in Condition
        PROVE  createConditionFromMap(c)' = c /\ isMap(c)
    BY DEF createConditionFromMap, Condition, Field, isMap
  <1>2. Range(stored') \subseteq Condition
    BY DEF Range
  <1>3. \A c \in Range(Conditions') : \E x \in Range(stored') : c = createConditionFromMap(x)'
    BY DEF ReadWell
  <1>4. \A x \in Range(stored') : isMap(x) => createConditionFromMap(x)' \in Range(Conditions')
    BY DEF ReadWell
  <1>5. ASSUME NEW x \in Range(stored') PROVE x \in Range(Conditions')
    BY <1>1, <1>2, <1>4
  <1>6. ASSUME NEW c \in Range(Conditions') PROVE c \in Range(stored')
    <2>1. PICK x \in Range(stored') : c = createConditionFromMap(x)'
      BY <1>3
    <2>2. createConditionFromMap(x)' = x
      BY <1>1, <1>2
    <2> QED
      BY <2>1, <2>2
  <1> QED
    BY <1>5, <1>6

(* The shortcut of SetCondition and the copying of times do what their     *)
(* comments say over any sequence of marks and additions by others: a time *)
(* changes only with its status, and a Failure that is True carries the    *)
(* message of the latest failure.                                          *)
THEOREM TimesAndMessagesHold == ConditionsSpec => ShortcutHarmless
  <1>1. ReadWell /\ ReadWell' /\ ConditionsInv /\ [ConditionsNext]_conditionsVars =>
          [ \A before \in {Conditions}, after \in {Conditions'} :
              /\ ~AddForeign => \A t \in ConditionTypes :
                     LET i == GetCondition(before, t)
                         j == GetCondition(after, t)
                     IN  i # 0 /\ before[i].status = after[j].status
                             => after[j].ltt = before[i].ltt
              /\ LET f == GetCondition(after, "Failure")
                 IN  lastFailure' # 0 /\ f # 0 /\ after[f].status = "True"
                         => after[f].message = lastFailure' ]_conditionsVars
    <2>1. SUFFICES ASSUME ReadWell, ReadWell', ConditionsInv, ConditionsNext
                   PROVE  /\ ~AddForeign => \A t \in ConditionTypes :
                               LET i == GetCondition(Conditions, t)
                                   j == GetCondition(Conditions', t)
                               IN  i # 0 /\ Conditions[i].status = Conditions'[j].status
                                       => Conditions'[j].ltt = Conditions[i].ltt
                          /\ LET f == GetCondition(Conditions', "Failure")
                             IN  lastFailure' # 0 /\ f # 0 /\ Conditions'[f].status = "True"
                                     => Conditions'[f].message = lastFailure'
      OBVIOUS
    <2>2. Conditions \in Seq(Condition) /\ Conditions' \in Seq(Condition)
      BY <2>1 DEF ReadWell
    <2>3. ASSUME ~AddForeign, NEW t \in ConditionTypes,
                 NEW i, i = GetCondition(Conditions, t), NEW j, j = GetCondition(Conditions', t),
                 i # 0, Conditions[i].status = Conditions'[j].status
          PROVE  Conditions'[j].ltt = Conditions[i].ltt
      <3>1. \E T : Changes(Conditions, stored', T)
        BY <2>1, <2>3, RunningMarks, ErrorMarks, SuccessMarks, FailureMarks DEF ConditionsNext, Marked
      <3>2. Range(Conditions') = Range(stored')
        BY <2>1, <3>1, ReadBack DEF Changes
      <3>3. Conditions[i] \in Range(Conditions) /\ Conditions[i].type = t
        BY <2>2, <2>3, GetFacts
      <3>4. Conditions'[j] \in Range(Conditions') /\ Conditions'[j].type = t
        <4>1. \E y \in Range(Conditions') : y.type = t
          BY <3>1, <3>2, <3>3 DEF Changes
        <4> QED
          BY <2>2, <2>3, <4>1, GetFacts
      <3> QED
        BY <2>3, <3>1, <3>2, <3>3, <3>4 DEF Changes
    <2>4. ASSUME NEW f, f = GetCondition(Conditions', "Failure"), lastFailure' # 0, f # 0,
                 Conditions'[f].status = "True"
          PROVE  Conditions'[f].message = lastFailure'
      <3>1. Conditions'[f] \in Range(Conditions') /\ Conditions'[f].type = "Failure"
        BY <2>2, <2>4, GetFacts
      <3> QED
        BY <2>1, <2>4, <3>1 DEF ReadWell
    <2> QED
      BY <2>3, <2>4
  <1> QED
    BY <1>1, InvIsRead, ConditionsInvariant, PTL DEF ConditionsSpec, ShortcutHarmless
=============================================================================
