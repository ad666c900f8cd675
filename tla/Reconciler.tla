----------------------------- MODULE Reconciler -----------------------------
(***************************************************************************)
(* Reconcile of one custom resource (internal/ansible/controller), from    *)
(* the work queue to the status update, against an API server that users   *)
(* write to at the same time.                                              *)
(*                                                                         *)
(* One action per call of Reconcile that leaves the process: the read from *)
(* the informer cache, every read from and write to the API server, and    *)
(* the ansible run.  Users create, edit, delete and re-create the resource *)
(* between any two of them, the cache lags behind, calls fail, answers are *)
(* lost and the operator restarts.                                         *)
(*                                                                         *)
(* The API server, the informer and the work queue are not code of this    *)
(* repository; they are modelled as Reconcile and controller.Add use them. *)
(***************************************************************************)
EXTENDS Integers, Sequences, Verdicts

CONSTANTS
    Options,        \* the entries of watches.yaml considered: whether they configure
                    \* a finalizer, whether they let the operator manage the status,
                    \* whether their roles may call requeue_after with a period of zero
    Preset,         \* users may create the CR with the finalizer in its manifest
    Periods,        \* values of the annotation reconcile-period: absent or positive
                    \* ("some"), "zero", or not a duration ("bad")
    Held,           \* whether another controller has a finalizer on the resource
    MaxUid,         \* bound on creations of the resource
    MaxEdits,       \* bound on edits of the spec of one resource
    MaxPatches,     \* bound on edits of the annotation
    MaxLag,         \* bound on versions between the cache and the API server
    MaxFaults,      \* bound on failed calls, lost answers and failed runs
    MaxCrashes      \* bound on restarts of the operator

ASSUME ReconcilerAssumption ==
    /\ Options \subseteq [finalizer : BOOLEAN, manageStatus : BOOLEAN, zeroRequeue : BOOLEAN]
    /\ Preset \in BOOLEAN
    /\ {MaxUid, MaxEdits, MaxPatches, MaxFaults, MaxCrashes} \subseteq Nat
    /\ Periods \subseteq {"some", "zero", "bad"} /\ Held \subseteq BOOLEAN
    /\ MaxLag \in Nat \ {0}

VARIABLES
    versions,   \* the versions from the cached one (first) to the current (last)
    status,     \* the conditions of the current version
    uids,       \* number of creations so far
    patches,    \* edits of the annotation left
    queued,     \* the request is in the work queue
    delayed,    \* the request will be added to it when a timer fires
    pc,         \* the next call of Reconcile, or "idle"
    local,      \* the local variables of Reconcile
    finalized,  \* history: uids whose finalizer has run successfully
    ran,        \* history: the uid and generation of every run started
    faults,     \* failures left
    crashes,    \* restarts left
    options     \* the entry of watches.yaml; it never changes

apiVars   == <<versions, status, uids, patches>>
queueVars == <<queued, delayed>>
histVars  == <<finalized, ran>>
envVars   == <<crashes, options>>
vars == <<apiVars, queueVars, pc, local, histVars, faults, envVars>>

HasFinalizer == options.finalizer
ManageStatus == options.manageStatus
ZeroRequeue == options.zeroRequeue

----------------------------------------------------------------------------
(* The resource and the local variables of Reconcile.                      *)

Absent == [uid |-> 0, gen |-> 0, del |-> FALSE, fin |-> FALSE, held |-> FALSE, period |-> "some"]

Object == [uid : 0..MaxUid, gen : 0..(MaxEdits + 2), del : BOOLEAN, fin : BOOLEAN,
           held : BOOLEAN, period : {"some", "zero", "bad"}]

\* u: the copy of the resource Reconcile works on; fresh: its resourceVersion
\* is still the current one; deleted: the variable of that name; requeue:
\* reconcileResult.RequeueAfter > 0; finRun: the run executes the finalizer;
\* runOK: len(failureMessages) == 0.  began is history: the uid of the cached
\* resource that Reconcile started from.
NoLocals == [u |-> Absent, fresh |-> FALSE, deleted |-> FALSE, requeue |-> FALSE,
             finRun |-> FALSE, runOK |-> FALSE, began |-> 0]

Locals == [u : Object, fresh : BOOLEAN, deleted : BOOLEAN, requeue : BOOLEAN,
           finRun : BOOLEAN, runOK : BOOLEAN, began : 0..MaxUid]

u == local.u

cached  == Head(versions)
current == versions[Len(versions)]

\* The API server removes a deleted resource with its last finalizer.
Settled(o) == IF o.del /\ ~o.fin /\ ~o.held THEN Absent ELSE o

\* A write to the API server; MaxLag bounds how far the cache is left behind.
Write(o) ==
    /\ Len(versions) < MaxLag
    /\ versions' = Append(versions, Settled(o))

----------------------------------------------------------------------------
(* The users.  Every write of theirs makes Reconcile's copy stale.         *)

UserWrite(o) ==
    /\ Write(o)
    /\ local' = [local EXCEPT !.fresh = FALSE]
    /\ UNCHANGED <<queueVars, pc, histVars, faults, envVars>>

UserCreate ==
    /\ current.uid = 0 /\ uids < MaxUid
    /\ \E f \in {FALSE, Preset}, h \in Held :
         UserWrite([Absent EXCEPT !.uid = uids + 1, !.gen = 1, !.fin = f, !.held = h])
    /\ uids' = uids + 1
    /\ status' = NoStatus
    /\ UNCHANGED patches

UserEditSpec ==
    /\ current.uid # 0 /\ current.gen <= MaxEdits
    /\ UserWrite([current EXCEPT !.gen = @ + 1])
    /\ UNCHANGED <<uids, status, patches>>

UserEditPeriod ==
    /\ current.uid # 0 /\ patches > 0
    /\ \E p \in Periods \ {current.period} : UserWrite([current EXCEPT !.period = p])
    /\ patches' = patches - 1
    /\ UNCHANGED <<uids, status>>

\* Setting the deletion timestamp increments the generation.
UserDelete ==
    /\ current.uid # 0 /\ ~current.del
    /\ UserWrite([current EXCEPT !.del = TRUE, !.gen = @ + 1])
    /\ UNCHANGED <<uids, status, patches>>

OtherFinalizerDone ==
    /\ current.held /\ current.del
    /\ UserWrite([current EXCEPT !.held = FALSE])
    /\ UNCHANGED <<uids, status, patches>>

----------------------------------------------------------------------------
(* The informer and the work queue.                                        *)

\* Mutant: only creations and deletions pass.
PassesNoUpdate(old, new) == old.uid = 0 \/ new.uid = 0

\* The predicates of controller.Add: creations and deletions pass, and so do
\* the updates that change the generation.
Passes(old, new) == old.uid = 0 \/ new.uid = 0 \/ old.gen # new.gen

\* The cache takes the next version and its event goes through the predicates.
Sync ==
    /\ Len(versions) > 1
    /\ versions' = Tail(versions)
    /\ queued' = (queued \/ Passes(versions[1], versions[2]))
    /\ UNCHANGED <<status, uids, patches, delayed, pc, local, histVars, faults, envVars>>

TimerFires ==
    /\ delayed
    /\ delayed' = FALSE
    /\ queued' = TRUE
    /\ UNCHANGED <<apiVars, pc, local, histVars, faults, envVars>>

\* One worker at a time holds the request; it calls Reconcile.
Dequeue ==
    /\ queued /\ pc = "idle"
    /\ queued' = FALSE
    /\ pc' = "get"
    /\ UNCHANGED <<apiVars, delayed, local, histVars, faults, envVars>>

\* Reconcile goes on with the call label and the local variables l, or it
\* returns; again says whether the request is added again with a delay.
Continue(label, l) == pc' = label /\ local' = l /\ UNCHANGED queueVars

Return(again) ==
    /\ pc' = "idle"
    /\ local' = NoLocals
    /\ delayed' = (delayed \/ again)
    /\ UNCHANGED queued

\* An error is retried with a back-off, whatever the result says.
ReturnErr == Return(TRUE)

\* The operator restarts: the queue and Reconcile's variables are lost, and the
\* list with which the informer starts enqueues the resource.
Restart ==
    /\ crashes > 0
    /\ crashes' = crashes - 1
    /\ pc' = "idle"
    /\ local' = NoLocals
    /\ versions' = <<current>>
    /\ queued' = (current.uid # 0)
    /\ delayed' = FALSE
    /\ UNCHANGED <<status, uids, patches, histVars, faults, options>>

----------------------------------------------------------------------------
(* Calls of the API server.                                                *)

Fault == faults > 0 /\ faults' = faults - 1

\* A read of the resource, if it is there, into u.
Read(label) ==
    /\ current.uid # 0
    /\ Continue(label, [local EXCEPT !.u = current, !.fresh = TRUE])

\* An update of u; the answer brings its new version, or it is lost and the
\* error is returned.
Update(o, label) ==
    /\ local.fresh
    /\ Write(o)
    /\ \/ Continue(label, [local EXCEPT !.u = o]) /\ UNCHANGED faults
       \/ Fault /\ ReturnErr

\* A status update: the metadata stay, the version changes.
WriteStatus(s) ==
    /\ local.fresh
    /\ Write(current)
    /\ status' = s
    /\ UNCHANGED <<uids, patches>>

\* Mutant: the error of the finalizer's update is logged and not returned.
ConflictIgnored ==
    /\ pc \in {"addFinalizer", "runningPut", "removeFinalizer", "donePut", "errorPut"}
    /\ ~local.fresh
    /\ IF pc = "addFinalizer" THEN Continue("runningGet", local) ELSE ReturnErr
    /\ UNCHANGED <<apiVars, histVars, faults, envVars>>

\* Mutant: a conflict is treated as "somebody else's event will come".
ConflictDropped ==
    /\ pc \in {"addFinalizer", "runningPut", "removeFinalizer", "donePut", "errorPut"}
    /\ ~local.fresh
    /\ Return(FALSE)
    /\ UNCHANGED <<apiVars, histVars, faults, envVars>>

\* A write with an old resourceVersion, or to a resource that is gone.
Conflict ==
    /\ pc \in {"addFinalizer", "runningPut", "removeFinalizer", "donePut", "errorPut"}
    /\ ~local.fresh
    /\ ReturnErr
    /\ UNCHANGED <<apiVars, histVars, faults, envVars>>

\* Mutant: the error of a failed call is logged and not returned.
CallFailsDropped ==
    /\ pc \in {"get", "addFinalizer", "runningGet", "runningPut", "refresh",
               "removeFinalizer", "doneGet", "donePut", "errorGet", "errorPut"}
    /\ Fault
    /\ Return(FALSE)
    /\ UNCHANGED <<apiVars, histVars, envVars>>

\* A call fails before it has had an effect.
CallFails ==
    /\ pc \in {"get", "addFinalizer", "runningGet", "runningPut", "refresh",
               "removeFinalizer", "doneGet", "donePut", "errorGet", "errorPut"}
    /\ Fault
    /\ ReturnErr
    /\ UNCHANGED <<apiVars, histVars, envVars>>

----------------------------------------------------------------------------
(* Reconcile up to the run.                                                *)

AfterFinalizer == IF ManageStatus THEN "runningGet" ELSE "start"

\* r.Client.Get and the checks on the cached copy.
GetCached ==
    /\ pc = "get"
    /\ LET l == [NoLocals EXCEPT !.u = cached, !.fresh = (Len(versions) = 1),
                                 !.deleted = cached.del, !.requeue = (cached.period = "some"),
                                 !.began = cached.uid]
       IN  \/ cached.uid = 0 /\ Return(FALSE)
           \/ /\ cached.uid # 0 /\ cached.period = "bad"
              /\ Continue("errorGet", l)
           \/ /\ cached.uid # 0 /\ cached.period # "bad"
              /\ ~cached.fin /\ cached.del
              /\ Return(FALSE)
           \/ /\ cached.uid # 0 /\ cached.period # "bad"
              /\ ~cached.fin /\ ~cached.del /\ HasFinalizer
              /\ Continue("addFinalizer", l)
           \/ /\ cached.uid # 0 /\ cached.period # "bad"
              /\ cached.fin \/ (~cached.del /\ ~HasFinalizer)
              /\ Continue(AfterFinalizer, l)
    /\ UNCHANGED <<apiVars, histVars, faults, envVars>>

AddFinalizer ==
    /\ pc = "addFinalizer"
    /\ Update([u EXCEPT !.fin = TRUE], AfterFinalizer)
    /\ UNCHANGED <<status, uids, patches, histVars, envVars>>

MarkRunningGet ==
    /\ pc = "runningGet"
    /\ \/ Read("runningPut")
       \/ current.uid = 0 /\ ReturnErr
    /\ UNCHANGED <<apiVars, histVars, faults, envVars>>

MarkRunningPut ==
    /\ pc = "runningPut"
    /\ WriteStatus(RunningVerdict(status))
    /\ \/ Continue("start", local) /\ UNCHANGED faults
       \/ Fault /\ ReturnErr
    /\ UNCHANGED <<histVars, envVars>>

isFinalizerRun == HasFinalizer /\ u.fin /\ u.del

\* kubeconfig.Create and Runner.Run up to the start of ansible-runner.
StartRun ==
    /\ pc = "start"
    /\ ~u.del \/ isFinalizerRun
    /\ ran' = IF u.del THEN ran ELSE ran \cup {<<u.uid, u.gen>>}
    /\ Continue("run", [local EXCEPT !.finRun = isFinalizerRun])
    /\ UNCHANGED <<apiVars, finalized, faults, envVars>>

\* Run refuses a deleted resource without the finalizer, or fails.
RunRefused ==
    /\ pc = "start"
    /\ \/ u.del /\ ~isFinalizerRun /\ UNCHANGED faults
       \/ Fault
    /\ Continue("errorGet", local)
    /\ UNCHANGED <<apiVars, histVars, envVars>>

----------------------------------------------------------------------------
(* The run and what follows.                                               *)

\* The stats event arrived; without failed tasks the run was successful.
RunFinishes ==
    /\ pc = "run"
    /\ \/ /\ Continue("refresh", [local EXCEPT !.runOK = TRUE])
          /\ finalized' = IF local.finRun THEN finalized \cup {u.uid} ELSE finalized
          /\ UNCHANGED faults
       \/ /\ Continue("refresh", local)
          /\ Fault
          /\ UNCHANGED finalized
    /\ UNCHANGED <<apiVars, ran, envVars>>

\* A requeue_after task: Reconcile returns its period as RequeueAfter, which
\* the work queue ignores when it is zero; the run goes on by itself.
RunRequeues ==
    /\ pc = "run"
    /\ Fault
    /\ \E positive \in {TRUE, ~ZeroRequeue} : Return(positive)
    /\ UNCHANGED <<apiVars, histVars, envVars>>

\* Mutant: a run without a stats event is taken as done.
RunAbortsDropped ==
    /\ pc = "run"
    /\ Fault
    /\ Return(FALSE)
    /\ UNCHANGED <<apiVars, histVars, envVars>>

\* An event cannot be converted, its period cannot be parsed, or ansible-runner
\* ended without a stats event but with readable output: an error, no status.
RunAborts ==
    /\ pc = "run"
    /\ Fault
    /\ ReturnErr
    /\ UNCHANGED <<apiVars, histVars, envVars>>

\* Neither a stats event nor output.
RunSilent ==
    /\ pc = "run"
    /\ Fault
    /\ Continue("errorGet", local)
    /\ UNCHANGED <<apiVars, histVars, envVars>>

\* After the finalizer has been dealt with: markDone or the end.  A failed run
\* is an error.
Conclude(l) ==
    IF ManageStatus THEN Continue("doneGet", l) ELSE Return(~l.runOK \/ l.requeue)

\* Mutant: the outcome of the finalizer run is not looked at.
RemovalDueAlways == local.deleted /\ HasFinalizer

RemovalDue == local.deleted /\ HasFinalizer /\ local.runOK

\* r.APIReader.Get after the run, and the decision about the finalizer: remove
\* it, or requeue for it if the resource was deleted in the meantime.
RefreshAfterRun ==
    /\ pc = "refresh"
    /\ \/ current.uid = 0 /\ Return(FALSE)
       \/ RemovalDue /\ Read("removeFinalizer")
       \/ /\ current.uid # 0 /\ ~RemovalDue
          /\ Conclude([local EXCEPT !.u = current, !.fresh = TRUE,
                                    !.requeue = @ \/ (current.del /\ HasFinalizer)])
    /\ UNCHANGED <<apiVars, histVars, faults, envVars>>

RemoveFinalizer ==
    /\ pc = "removeFinalizer" /\ local.fresh
    /\ Write([u EXCEPT !.fin = FALSE])
    /\ \/ Conclude([local EXCEPT !.u.fin = FALSE]) /\ UNCHANGED faults
       \/ Fault /\ ReturnErr
    /\ UNCHANGED <<status, uids, patches, histVars, envVars>>

MarkDoneGet ==
    /\ pc = "doneGet"
    /\ \/ Read("donePut")
       \/ current.uid = 0 /\ Return(~local.runOK \/ local.requeue)
    /\ UNCHANGED <<apiVars, histVars, faults, envVars>>

MarkDonePut ==
    /\ pc = "donePut"
    /\ WriteStatus(DoneVerdict(status, local.runOK))
    /\ \/ Return(~local.runOK \/ local.requeue) /\ UNCHANGED faults
       \/ Fault /\ ReturnErr
    /\ UNCHANGED <<histVars, envVars>>

\* markError; the error that led to it is returned whatever happens to it.
MarkErrorGet ==
    /\ pc = "errorGet"
    /\ \/ Read("errorPut")
       \/ current.uid = 0 /\ ReturnErr
    /\ UNCHANGED <<apiVars, histVars, faults, envVars>>

MarkErrorPut ==
    /\ pc = "errorPut"
    /\ WriteStatus(ErrorVerdict(status))
    /\ ReturnErr
    /\ UNCHANGED <<histVars, faults, envVars>>

----------------------------------------------------------------------------
Init ==
    /\ versions = <<Absent>>
    /\ status = NoStatus
    /\ uids = 0
    /\ patches = MaxPatches
    /\ queued = FALSE
    /\ delayed = FALSE
    /\ pc = "idle"
    /\ local = NoLocals
    /\ finalized = {}
    /\ ran = {}
    /\ faults = MaxFaults
    /\ crashes = MaxCrashes
    /\ options \in Options

User ==
    UserCreate \/ UserEditSpec \/ UserEditPeriod \/ UserDelete \/ OtherFinalizerDone

Reconcile ==
    \/ GetCached \/ AddFinalizer \/ MarkRunningGet \/ MarkRunningPut
    \/ StartRun \/ RunRefused
    \/ RunFinishes \/ RunRequeues \/ RunAborts \/ RunSilent
    \/ RefreshAfterRun \/ RemoveFinalizer \/ MarkDoneGet \/ MarkDonePut
    \/ MarkErrorGet \/ MarkErrorPut
    \/ Conflict \/ CallFails

Next == User \/ Sync \/ TimerFires \/ Dequeue \/ Restart \/ Reconcile

\* The informer, timers, workers and Reconcile make progress, and a run ends.
Fairness ==
    /\ WF_vars(Sync)
    /\ WF_vars(TimerFires)
    /\ WF_vars(Dequeue)
    /\ WF_vars(Reconcile)

Spec == Init /\ [][Next]_vars /\ Fairness

----------------------------------------------------------------------------
(* Properties.                                                             *)

PCs == {"idle", "get", "addFinalizer", "runningGet", "runningPut", "start", "run", "refresh",
        "removeFinalizer", "doneGet", "donePut", "errorGet", "errorPut"}

TypeOK ==
    /\ versions \in Seq(Object) /\ Len(versions) \in 1..MaxLag
    /\ status \in [ConditionTypes -> {"none", "True", "False"}]
    /\ uids \in 0..MaxUid
    /\ patches \in 0..MaxPatches
    /\ queued \in BOOLEAN /\ delayed \in BOOLEAN
    /\ pc \in PCs
    /\ local \in Locals
    /\ finalized \subseteq 1..MaxUid
    /\ ran \subseteq (1..MaxUid) \X (1..(MaxEdits + 1))
    /\ faults \in 0..MaxFaults
    /\ crashes \in 0..MaxCrashes
    /\ options \in Options

\* The conditions never report success and failure at once, whatever order
\* markRunning, markError and markDone were interrupted and retried in.
VerdictsExclusive == ~(status["Successful"] = "True" /\ status["Failure"] = "True")

\* "The finalizer has run successfully, time to remove it" (Reconcile): the
\* operator takes its finalizer off a resource, or lets it go with it, only
\* after a finalizer run for that very resource succeeded.
FinalizedFirst ==
    [][ current.uid # 0 /\ current.fin /\ (current'.uid # current.uid \/ ~current'.fin)
            => current.uid \in finalized ]_vars

\* Ansible runs for the resource that Reconcile started from only while the
\* finalizer protects it, so that a deletion waits for the finalizer run; the
\* cached copy may be old, and the update that adds the finalizer may fail.  (A
\* resource re-created under the same name while the cache still shows the old
\* one is run for without it: markRunning reads the new one.)
RunProtected ==
    HasFinalizer /\ pc = "run" /\ u.uid = local.began => u.fin

\* A generation that has not been run yet, or a finalizer that has not, is
\* never forgotten: once the cache is up to date and no worker is busy the
\* request waits in the queue or on a timer.  A requeue after zero is none for
\* the work queue, so roles that ask for it are left out.
WorkRemembered ==
    /\ ~ZeroRequeue /\ pc = "idle" /\ Len(versions) = 1 /\ current.uid # 0
    /\ \/ current.del /\ current.fin
       \/ ~current.del /\ <<current.uid, current.gen>> \notin ran
    => queued \/ delayed

\* A deleted resource that carries the finalizer goes away or at least loses
\* it, once failures have stopped, unless its annotation cannot be parsed or
\* its role may ask to be requeued after zero.
DeletionFinalized ==
    \A x \in 1..MaxUid :
        (~ZeroRequeue /\ current.uid = x /\ current.del /\ current.fin)
            ~> (current.uid # x \/ ~current.fin \/ current.period = "bad")

\* Every generation that stays is run eventually, also where the period of the
\* annotation or of requeue_after is zero and nothing is requeued.
GenerationRun ==
    \A x \in 1..MaxUid, g \in 1..(MaxEdits + 1) :
        (current.uid = x /\ current.gen = g /\ ~current.del)
            ~> (<<x, g>> \in ran \/ current.uid # x \/ current.gen # g \/ current.period = "bad")

\* A live resource is reported successful eventually, once failures have
\* stopped: no error path leaves the status as it was for good.  A role that
\* asks to be requeued after zero is left out: it is not run again by itself.
SuccessReported ==
    \A x \in 1..MaxUid :
        (ManageStatus /\ ~ZeroRequeue /\ current.uid = x /\ ~current.del)
            ~> (status["Successful"] = "True" \/ current.uid # x \/ current.del
                \/ current.period = "bad")

=============================================================================
