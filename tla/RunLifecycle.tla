---------------------------- MODULE RunLifecycle ----------------------------
(***************************************************************************)
(* The runs of ansible-runner for one custom resource, and what they       *)
(* share: the input directory, whose path depends on the resource alone,   *)
(* and the link artifacts/latest in it.  Reconcile creates a kubeconfig,   *)
(* calls runner.Run, which opens an event receiver, writes the input       *)
(* directory and leaves ansible-runner to a goroutine, and then reads the  *)
(* events.  It may return long before ansible-runner ends: at an event of  *)
(* requeue_after, or when an event cannot be converted.  The next          *)
(* reconciliation then writes into the directory of a run that goes on.    *)
(*                                                                         *)
(* Reconciliations of one resource follow each other (the work queue hands *)
(* a key to one worker); ansible-runner and the goroutines of runner.Run   *)
(* overlap.  Run n is the n-th reconciliation, its ident and its           *)
(* kubeconfig are its own.                                                 *)
(***************************************************************************)
EXTENDS Naturals

CONSTANTS
    MaxRuns,       \* bound: reconciliations of the resource
    MaxFaults,     \* bound: failures of the file system or of a command
    CmdLine,       \* ansible-args is not empty: env/cmdline is written
    Playbook       \* the watch names a playbook, not a role

ASSUME LifecycleAssumption ==
    /\ MaxRuns \in Nat
    /\ MaxFaults \in Nat
    /\ CmdLine \in BOOLEAN
    /\ Playbook \in BOOLEAN

Runs == 1..MaxRuns

Files == {"envvars", "extravars", "settings", "cmdline", "hosts", "playbook"}

(* In place of the run that wrote a file, or that was found in it.         *)
Absent == 0
Torn   == MaxRuns + 1

VARIABLES
    pc,       \* where Reconcile is
    run,      \* the current run, or the last one
    step,     \* the file that InputDir.Write is at
    files,    \* by which run each file of the input directory was written
    latest,   \* the run that artifacts/latest links to, or Absent
    kc,       \* the kubeconfig of each run
    receiver, \* the event receiver of each run
    proc,     \* the goroutine of runner.Run and its ansible-runner
    found,    \* what ansible-runner found in each file
    asked,    \* runs with an event that makes Reconcile return at once
    faults,
    left      \* history: runs that Reconcile left while they went on

vars == <<pc, run, step, files, latest, kc, receiver, proc, found, asked, faults, left>>

(* ansible-runner has not exited in "spawned", "reading" and "playing"; a  *)
(* goroutine has "failed" if an error kept it from linking its run.        *)
ProcStates == {"none", "spawned", "reading", "playing", "exited", "closed",
               "remove", "symlink", "done", "failed"}

TypeOK ==
    /\ pc \in {"idle", "create", "open", "lstat", "write", "spawn", "loop", "error"}
    /\ run \in 0..MaxRuns
    /\ step \in 1..7
    /\ files \in [Files -> 0..(MaxRuns + 1)]
    /\ latest \in 0..MaxRuns
    /\ kc \in [Runs -> {"none", "there", "removed", "leaked"}]
    /\ receiver \in [Runs -> {"none", "open", "closed"}]
    /\ proc \in [Runs -> ProcStates]
    /\ found \in [Runs -> [Files -> 0..(MaxRuns + 1)]]
    /\ asked \in SUBSET Runs
    /\ faults \in 0..MaxFaults
    /\ left \in SUBSET Runs

Init ==
    /\ pc = "idle" /\ run = 0 /\ step = 1
    /\ files = [f \in Files |-> Absent]
    /\ latest = Absent
    /\ kc = [r \in Runs |-> "none"]
    /\ receiver = [r \in Runs |-> "none"]
    /\ proc = [r \in Runs |-> "none"]
    /\ found = [r \in Runs |-> [f \in Files |-> Absent]]
    /\ asked = {} /\ faults = 0 /\ left = {}

Fault ==
    /\ faults < MaxFaults
    /\ faults' = faults + 1

----------------------------------------------------------------------------
(* Reconcile, up to runner.Run *)

Begin ==
    /\ pc = "idle"
    /\ run < MaxRuns
    /\ run' = run + 1
    /\ pc' = "create"
    /\ UNCHANGED <<step, files, latest, kc, receiver, proc, found, asked, faults, left>>

(* kubeconfig.Create: a temporary file, rendered and written.              *)
CreateKubeconfig ==
    /\ pc = "create"
    /\ kc' = [kc EXCEPT ![run] = "there"]
    /\ pc' = "open"
    /\ UNCHANGED <<run, step, files, latest, receiver, proc, found, asked, faults, left>>

(* It fails, before the file exists or while it is written; the file is    *)
(* then left behind, for the deferred removal is not yet in place.         *)
CreateFails ==
    /\ pc = "create"
    /\ Fault
    /\ kc' \in {kc, [kc EXCEPT ![run] = "leaked"]}
    /\ pc' = "idle"
    /\ UNCHANGED <<run, step, files, latest, receiver, proc, found, asked, left>>

(* Mutant: nobody removes it.                                              *)
ReturnKeeps ==
    /\ pc' = "idle"
    /\ UNCHANGED kc

(* Reconcile returns and its deferred function removes the kubeconfig.     *)
Return ==
    /\ pc' = "idle"
    /\ kc' = [kc EXCEPT ![run] = "removed"]

----------------------------------------------------------------------------
(* runner.Run *)

(* ansible-runner is installed, the resource is not deleted without our    *)
(* finalizer, and the event receiver listens.                              *)
OpenReceiver ==
    /\ pc = "open"
    /\ receiver' = [receiver EXCEPT ![run] = "open"]
    /\ pc' = "lstat"
    /\ UNCHANGED <<run, step, files, latest, kc, proc, found, asked, faults, left>>

(* os.Lstat of the playbook or role, then the directories of the input     *)
(* directory.                                                              *)
MakeDirs ==
    /\ pc = "lstat"
    /\ step' = 1
    /\ pc' = "write"
    /\ UNCHANGED <<run, files, latest, kc, receiver, proc, found, asked, faults, left>>

(* One of the steps up to the start of the goroutine fails: Run returns    *)
(* the error.  Nobody closes the receiver.                                 *)
RunFails ==
    /\ pc \in {"open", "lstat", "write"}
    /\ Fault
    /\ pc' = "error"
    /\ UNCHANGED <<run, step, files, latest, kc, receiver, proc, found, asked, left>>

(* The files in the order of InputDir.Write, and the ones that it writes.  *)
WriteOrder == <<"envvars", "extravars", "settings", "cmdline", "hosts", "playbook">>

Written(f) ==
    /\ f = "cmdline" => CmdLine
    /\ f = "playbook" => Playbook

Pending == WriteOrder[step]

(* os.WriteFile truncates the file (one that a failure left truncated is   *)
(* so already) ...                                                         *)
Truncate ==
    /\ pc = "write" /\ step <= 6
    /\ Written(Pending)
    /\ files[Pending] # Torn
    /\ files' = [files EXCEPT ![Pending] = Torn]
    /\ UNCHANGED <<pc, run, step, latest, kc, receiver, proc, found, asked, faults, left>>

(* ... and writes it.                                                      *)
Fill ==
    /\ pc = "write" /\ step <= 6
    /\ Written(Pending)
    /\ files[Pending] = Torn
    /\ files' = [files EXCEPT ![Pending] = run]
    /\ step' = step + 1
    /\ UNCHANGED <<pc, run, latest, kc, receiver, proc, found, asked, faults, left>>

Omit ==
    /\ pc = "write" /\ step <= 6
    /\ ~Written(Pending)
    /\ step' = step + 1
    /\ UNCHANGED <<pc, run, files, latest, kc, receiver, proc, found, asked, faults, left>>

Spawn ==
    /\ pc = "write" /\ step = 7
    /\ proc' = [proc EXCEPT ![run] = "spawned"]
    /\ pc' = "loop"
    /\ UNCHANGED <<run, step, files, latest, kc, receiver, found, asked, faults, left>>

----------------------------------------------------------------------------
(* Reconcile, after runner.Run *)

(* Mutant: Reconcile waits for the events only so long.                    *)
LeaveEarly ==
    /\ pc = "loop"
    /\ Return
    /\ left' = left \cup {run}
    /\ UNCHANGED <<run, step, files, latest, receiver, proc, found, asked, faults>>

(* The next event is one of requeue_after, or cannot be converted:         *)
(* Reconcile returns; nobody reads the other events of this run.           *)
Leave ==
    /\ pc = "loop"
    /\ run \in asked
    /\ Return
    /\ left' = left \cup {run}
    /\ UNCHANGED <<run, step, files, latest, receiver, proc, found, asked, faults>>

(* The channel is closed and every event read; the results are marked on   *)
(* the resource, which Reconciler models.                                  *)
Finish ==
    /\ pc = "loop"
    /\ run \notin asked
    /\ receiver[run] = "closed"
    /\ Return
    /\ UNCHANGED <<run, step, files, latest, receiver, proc, found, asked, faults, left>>

(* Run returned an error: it is marked and returned.                       *)
Abort ==
    /\ pc = "error"
    /\ Return
    /\ UNCHANGED <<run, step, files, latest, receiver, proc, found, asked, faults, left>>

----------------------------------------------------------------------------
(* The goroutine of runner.Run, and ansible-runner (external) *)

Start(r) ==
    /\ proc[r] = "spawned"
    /\ proc' = [proc EXCEPT ![r] = "reading"]
    /\ UNCHANGED <<pc, run, step, files, latest, kc, receiver, found, asked, faults, left>>

(* ansible-runner reads env/ and inventory/ and starts ansible-playbook,   *)
(* which reads the variables and the playbook before it reports anything.  *)
Read(r, f) ==
    /\ proc[r] = "reading"
    /\ found[r][f] = Absent
    /\ files[f] # Absent
    /\ found' = [found EXCEPT ![r][f] = files[f]]
    /\ UNCHANGED <<pc, run, step, files, latest, kc, receiver, proc, asked, faults, left>>

Play(r) ==
    /\ proc[r] = "reading"
    /\ \A f \in Files : files[f] # Absent => found[r][f] # Absent
    /\ proc' = [proc EXCEPT ![r] = "playing"]
    /\ UNCHANGED <<pc, run, step, files, latest, kc, receiver, found, asked, faults, left>>

(* The playbook posts an event that makes Reconcile return.                *)
Ask(r) ==
    /\ proc[r] = "playing"
    /\ asked' = asked \cup {r}
    /\ UNCHANGED <<pc, run, step, files, latest, kc, receiver, proc, found, faults, left>>

(* ansible-runner ends, or could not be started.                           *)
Exit(r) ==
    /\ \/ proc[r] = "playing" /\ UNCHANGED faults
       \/ proc[r] \in {"spawned", "reading"} /\ Fault
    /\ proc' = [proc EXCEPT ![r] = "exited"]
    /\ UNCHANGED <<pc, run, step, files, latest, kc, receiver, found, asked, left>>

(* Mutant: the receiver is closed by whoever read the events.              *)
CloseIfHeard(r) ==
    /\ proc[r] = "exited"
    /\ receiver' = IF r \in left THEN receiver ELSE [receiver EXCEPT ![r] = "closed"]
    /\ proc' = [proc EXCEPT ![r] = "closed"]
    /\ UNCHANGED <<pc, run, step, files, latest, kc, found, asked, faults, left>>

(* receiver.Close, and the error of the server                             *)
Close(r) ==
    /\ proc[r] = "exited"
    /\ receiver' = [receiver EXCEPT ![r] = "closed"]
    /\ proc' = [proc EXCEPT ![r] = "closed"]
    /\ UNCHANGED <<pc, run, step, files, latest, kc, found, asked, faults, left>>

(* os.Lstat of artifacts/latest                                            *)
Lstat(r) ==
    /\ proc[r] = "closed"
    /\ proc' = [proc EXCEPT ![r] = IF latest = Absent THEN "symlink" ELSE "remove"]
    /\ UNCHANGED <<pc, run, step, files, latest, kc, receiver, found, asked, faults, left>>

(* os.Remove of the link: an error, one that another goroutine has already *)
(* removed it included, ends the goroutine.                                *)
Remove(r) ==
    /\ proc[r] = "remove"
    /\ proc' = [proc EXCEPT ![r] = IF latest = Absent THEN "done" ELSE "symlink"]
    /\ latest' = Absent
    /\ UNCHANGED <<pc, run, step, files, kc, receiver, found, asked, faults, left>>

(* os.Symlink: fails if another goroutine has linked its own run.          *)
Symlink(r) ==
    /\ proc[r] = "symlink"
    /\ latest' = IF latest = Absent THEN r ELSE latest
    /\ proc' = [proc EXCEPT ![r] = "done"]
    /\ UNCHANGED <<pc, run, step, files, kc, receiver, found, asked, faults, left>>

(* Another error of one of the three is logged and ends the goroutine.     *)
LinkFails(r) ==
    /\ proc[r] \in {"closed", "remove", "symlink"}
    /\ Fault
    /\ proc' = [proc EXCEPT ![r] = "failed"]
    /\ UNCHANGED <<pc, run, step, files, latest, kc, receiver, found, asked, left>>

----------------------------------------------------------------------------
(* Everything that may happen has happened.                                *)
Settled ==
    /\ pc = "idle" /\ run = MaxRuns
    /\ \A r \in Runs : proc[r] \in {"none", "done", "failed"}
    /\ UNCHANGED vars

ReconcileStep ==
    \/ Begin \/ CreateKubeconfig \/ CreateFails
    \/ OpenReceiver \/ MakeDirs \/ Truncate \/ Fill \/ Omit \/ Spawn \/ RunFails
    \/ Leave \/ Finish \/ Abort

RunnerStep(r) ==
    \/ Start(r) \/ Play(r) \/ Exit(r) \/ Close(r) \/ Lstat(r) \/ Remove(r) \/ Symlink(r)
    \/ LinkFails(r)
    \/ \E f \in Files : Read(r, f)

Next ==
    \/ ReconcileStep
    \/ \E r \in Runs : RunnerStep(r) \/ Ask(r)
    \/ Settled

Spec == Init /\ [][Next]_vars

(* Goroutines are scheduled, and every playbook ends.                      *)
FairSpec == Spec /\ WF_vars(ReconcileStep) /\ \A r \in Runs : WF_vars(RunnerStep(r))

----------------------------------------------------------------------------
Alive(r) == proc[r] \in {"spawned", "reading", "playing"}

(* Although the input directory is rewritten under runs that go on, what a *)
(* run finds in it (its parameters, its kubeconfig, the socket of its      *)
(* receiver) is what its own reconciliation wrote, and never a file that   *)
(* is half written.                                                        *)
OwnInputs == \A r \in Runs, f \in Files : found[r][f] \in {Absent, r}

(* A run whose kubeconfig is gone was left by Reconcile; and a kubeconfig  *)
(* that is there belongs to the reconciliation under way.                  *)
KubeconfigKept ==
    \A r \in Runs :
        /\ Alive(r) /\ kc[r] # "there" => r \in left
        /\ kc[r] = "there" => r = run /\ pc # "idle"

(* Every run that is started ends: ansible-runner exits, its receiver is   *)
(* closed, Reconcile returns and the kubeconfig is removed.                *)
RunEnds ==
    \A r \in Runs :
        proc[r] = "spawned" ~>
            proc[r] \in {"done", "failed"} /\ receiver[r] = "closed" /\ kc[r] = "removed"
=============================================================================
