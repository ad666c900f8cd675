-------------------------- MODULE RunLifecycleProofs --------------------------
(***************************************************************************)
(* OwnInputs and KubeconfigKept for any number of runs of a resource.      *)
(*                                                                         *)
(* OwnInputs is not inductive.  What carries it is the order of two        *)
(* things that no code relates to each other: the input directory is only  *)
(* written by a reconciliation, the next one begins when Reconcile has     *)
(* returned, and Reconcile returns at an event, which ansible-runner posts *)
(* after it has read everything.  So a run that still reads is the current *)
(* one, Reconcile waits for it, and every file is complete and its own.    *)
(***************************************************************************)
EXTENDS RunLifecycle, TLAPS

Busy == {"create", "open", "lstat", "write", "error"}

(* The current run has no goroutine before Spawn, later ones nothing.      *)
NotYet ==
    /\ pc # "idle" => run \in Runs
    /\ pc \in Busy => proc[run] = "none"
    /\ \A r \in Runs : r > run => proc[r] = "none"

(* A run that still reads is the one that Reconcile waits for.             *)
ReadersAreHeard ==
    \A r \in Runs :
        /\ proc[r] \in {"spawned", "reading"} => r = run /\ pc = "loop"
        /\ proc[r] \in {"none", "spawned", "reading"} => r \notin asked

(* What the current run has written so far is there and complete.          *)
WrittenSoFar ==
    /\ pc = "loop" => \A f \in Files : files[f] \in {Absent, run}
    /\ pc = "write" => \A i \in 1..6 : i < step => files[WriteOrder[i]] \in {Absent, run}

(* Files that are not written stay absent.                                 *)
OmittedAbsent == \A f \in Files : ~Written(f) => files[f] = Absent

(* Whose kubeconfig there is, and who may still want one.                  *)
KubeconfigInv ==
    \A r \in Runs :
        /\ kc[r] = "there" <=> r = run /\ pc \notin {"idle", "create"}
        /\ proc[r] = "playing" => r \in left \/ (r = run /\ pc = "loop")
        /\ receiver[r] = "closed" => proc[r] \notin {"none", "spawned", "reading", "playing"}

LifeInv ==
    /\ TypeOK
    /\ NotYet
    /\ ReadersAreHeard
    /\ WrittenSoFar
    /\ OmittedAbsent
    /\ KubeconfigInv
    /\ OwnInputs

----------------------------------------------------------------------------
(* The initial states satisfy the invariant: no run has begun.             *)
LEMMA LifeInit == Init => LifeInv
  BY LifecycleAssumption DEF Init, LifeInv, TypeOK, NotYet, ReadersAreHeard, WrittenSoFar,
     OmittedAbsent, KubeconfigInv, OwnInputs, Busy, Runs, Files, ProcStates, Absent, Torn,
     WriteOrder, Written

(* WriteOrder enumerates the files without repetition.                     *)
LEMMA WriteOrderFacts ==
    /\ \A i \in 1..6 : WriteOrder[i] \in Files
    /\ \A i, j \in 1..6 : WriteOrder[i] = WriteOrder[j] => i = j
    /\ \A f \in Files : \E i \in 1..6 : f = WriteOrder[i]
  BY DEF WriteOrder, Files

(* What no step of a goroutine or of ansible-runner touches.               *)
LEMMA RunnerFrame ==
    ASSUME NEW r \in Runs, RunnerStep(r) \/ Ask(r)
    PROVE  UNCHANGED <<pc, run, step, files, kc, left>>
  BY DEF RunnerStep, Ask, Start, Read, Play, Exit, Close, Lstat, Remove, Symlink,
     LinkFails

(* The type invariant.                                                     *)
LEMMA TypeStep == LifeInv /\ Next => TypeOK'
<1> SUFFICES ASSUME LifeInv, Next PROVE TypeOK'
  OBVIOUS
<1> USE LifecycleAssumption DEF LifeInv
<1>1. CASE Begin
  BY <1>1 DEF Begin, TypeOK, NotYet, Runs, Fault, Return, ProcStates, Torn, Absent,
     Busy, Pending
<1>2. CASE CreateKubeconfig
  BY <1>2 DEF CreateKubeconfig, TypeOK, NotYet, Runs, Fault, Return, ProcStates, Torn,
     Absent, Busy, Pending
<1>3. CASE CreateFails
  BY <1>3 DEF CreateFails, TypeOK, NotYet, Runs, Fault, Return, ProcStates, Torn,
     Absent, Busy, Pending
<1>4. CASE OpenReceiver
  BY <1>4 DEF OpenReceiver, TypeOK, NotYet, Runs, Fault, Return, ProcStates, Torn,
     Absent, Busy, Pending
<1>5. CASE MakeDirs
  BY <1>5 DEF MakeDirs, TypeOK, NotYet, Runs, Fault, Return, ProcStates, Torn, Absent,
     Busy, Pending
<1>6. CASE Truncate
  <2>1. Pending \in Files
    BY <1>6, WriteOrderFacts DEF Truncate, Pending, TypeOK
  <2>2. files' \in [Files -> 0..(MaxRuns + 1)]
    BY <1>6, <2>1 DEF Truncate, TypeOK, Torn
  <2> QED
    BY <1>6, <2>2 DEF Truncate, TypeOK
<1>7. CASE Fill
  <2>1. Pending \in Files
    BY <1>7, WriteOrderFacts DEF Fill, Pending, TypeOK
  <2>2. files' \in [Files -> 0..(MaxRuns + 1)]
    BY <1>7, <2>1 DEF Fill, TypeOK, Torn
  <2> QED
    BY <1>7, <2>2 DEF Fill, TypeOK
<1>8. CASE Omit
  BY <1>8 DEF Omit, TypeOK, NotYet, Runs, Fault, Return, ProcStates, Torn, Absent,
     Busy, Pending
<1>9. CASE Spawn
  BY <1>9 DEF Spawn, TypeOK, NotYet, Runs, Fault, Return, ProcStates, Torn, Absent,
     Busy, Pending
<1>10. CASE RunFails
  BY <1>10 DEF RunFails, TypeOK, NotYet, Runs, Fault, Return, ProcStates, Torn, Absent,
     Busy, Pending
<1>11. CASE Leave
  BY <1>11 DEF Leave, TypeOK, NotYet, Runs, Fault, Return, ProcStates, Torn, Absent,
     Busy, Pending
<1>12. CASE Finish
  BY <1>12 DEF Finish, TypeOK, NotYet, Runs, Fault, Return, ProcStates, Torn, Absent,
     Busy, Pending
<1>13. CASE Abort
  BY <1>13 DEF Abort, TypeOK, NotYet, Runs, Fault, Return, ProcStates, Torn, Absent,
     Busy, Pending
<1>14. ASSUME NEW r \in Runs, NEW f \in Files, Read(r, f) PROVE TypeOK'
  BY <1>14 DEF Read, TypeOK, NotYet, Runs, Fault, Return, ProcStates, Torn, Absent,
     Busy, Pending
<1>15. ASSUME NEW r \in Runs, Start(r) PROVE TypeOK'
  BY <1>15 DEF Start, TypeOK, NotYet, Runs, Fault, Return, ProcStates, Torn, Absent,
     Busy, Pending
<1>16. ASSUME NEW r \in Runs, Play(r) PROVE TypeOK'
  BY <1>16 DEF Play, TypeOK, NotYet, Runs, Fault, Return, ProcStates, Torn, Absent,
     Busy, Pending
<1>17. ASSUME NEW r \in Runs, Ask(r) PROVE TypeOK'
  BY <1>17 DEF Ask, TypeOK, NotYet, Runs, Fault, Return, ProcStates, Torn, Absent,
     Busy, Pending
<1>18. ASSUME NEW r \in Runs, Exit(r) PROVE TypeOK'
  BY <1>18 DEF Exit, TypeOK, NotYet, Runs, Fault, Return, ProcStates, Torn, Absent,
     Busy, Pending
<1>19. ASSUME NEW r \in Runs, Close(r) PROVE TypeOK'
  BY <1>19 DEF Close, TypeOK, NotYet, Runs, Fault, Return, ProcStates, Torn, Absent,
     Busy, Pending
<1>20. ASSUME NEW r \in Runs, Lstat(r) PROVE TypeOK'
  BY <1>20 DEF Lstat, TypeOK, NotYet, Runs, Fault, Return, ProcStates, Torn, Absent,
     Busy, Pending
<1>21. ASSUME NEW r \in Runs, Remove(r) PROVE TypeOK'
  BY <1>21 DEF Remove, TypeOK, NotYet, Runs, Fault, Return, ProcStates, Torn, Absent,
     Busy, Pending
<1>22. ASSUME NEW r \in Runs, Symlink(r) PROVE TypeOK'
  BY <1>22 DEF Symlink, TypeOK, NotYet, Runs, Fault, Return, ProcStates, Torn, Absent,
     Busy, Pending
<1>23. ASSUME NEW r \in Runs, LinkFails(r) PROVE TypeOK'
  BY <1>23 DEF LinkFails, TypeOK, NotYet, Runs, Fault, Return, ProcStates, Torn,
     Absent, Busy, Pending
<1>24. CASE UNCHANGED <<pc, run, step, files, latest, kc, receiver, proc, found, asked, faults, left>>
  BY <1>24 DEF TypeOK
<1> QED
  BY <1>1, <1>2, <1>3, <1>4, <1>5, <1>6, <1>7, <1>8, <1>9, <1>10, <1>11, <1>12, <1>13,
     <1>14, <1>15, <1>16, <1>17, <1>18, <1>19, <1>20, <1>21, <1>22, <1>23,
     <1>24 DEF Next, ReconcileStep, RunnerStep, Settled, vars

(* Before Spawn there is no goroutine.                                     *)
LEMMA NotYetStep == LifeInv /\ Next => NotYet'
<1> SUFFICES ASSUME LifeInv, Next PROVE NotYet'
  OBVIOUS
<1> USE LifecycleAssumption DEF LifeInv
<1>1. CASE Begin
  BY <1>1 DEF Begin, TypeOK, NotYet, Busy, Runs, Return
<1>2. CASE CreateKubeconfig
  BY <1>2 DEF CreateKubeconfig, TypeOK, NotYet, Busy, Runs, Return
<1>3. CASE CreateFails
  BY <1>3 DEF CreateFails, TypeOK, NotYet, Busy, Runs, Return
<1>4. CASE OpenReceiver
  BY <1>4 DEF OpenReceiver, TypeOK, NotYet, Busy, Runs, Return
<1>5. CASE MakeDirs
  BY <1>5 DEF MakeDirs, TypeOK, NotYet, Busy, Runs, Return
<1>6. CASE Spawn
  BY <1>6 DEF Spawn, TypeOK, NotYet, Busy, Runs, Return
<1>7. CASE RunFails
  BY <1>7 DEF RunFails, TypeOK, NotYet, Busy, Runs, Return
<1>8. CASE Leave
  BY <1>8 DEF Leave, TypeOK, NotYet, Busy, Runs, Return
<1>9. CASE Finish
  BY <1>9 DEF Finish, TypeOK, NotYet, Busy, Runs, Return
<1>10. CASE Abort
  BY <1>10 DEF Abort, TypeOK, NotYet, Busy, Runs, Return
<1>11. ASSUME NEW r \in Runs, Start(r) PROVE NotYet'
  BY <1>11 DEF Start, TypeOK, NotYet, Busy, Runs, Return
<1>12. ASSUME NEW r \in Runs, Play(r) PROVE NotYet'
  BY <1>12 DEF Play, TypeOK, NotYet, Busy, Runs, Return
<1>13. ASSUME NEW r \in Runs, Exit(r) PROVE NotYet'
  BY <1>13 DEF Exit, TypeOK, NotYet, Busy, Runs, Return
<1>14. ASSUME NEW r \in Runs, Close(r) PROVE NotYet'
  BY <1>14 DEF Close, TypeOK, NotYet, Busy, Runs, Return
<1>15. ASSUME NEW r \in Runs, Lstat(r) PROVE NotYet'
  BY <1>15 DEF Lstat, TypeOK, NotYet, Busy, Runs, Return
<1>16. ASSUME NEW r \in Runs, Remove(r) PROVE NotYet'
  BY <1>16 DEF Remove, TypeOK, NotYet, Busy, Runs, Return
<1>17. ASSUME NEW r \in Runs, Symlink(r) PROVE NotYet'
  BY <1>17 DEF Symlink, TypeOK, NotYet, Busy, Runs, Return
<1>18. ASSUME NEW r \in Runs, LinkFails(r) PROVE NotYet'
  BY <1>18 DEF LinkFails, TypeOK, NotYet, Busy, Runs, Return
<1>19. CASE UNCHANGED <<pc, run, proc>>
  BY <1>19 DEF NotYet
<1> QED
  BY <1>1, <1>2, <1>3, <1>4, <1>5, <1>6, <1>7, <1>8, <1>9, <1>10, <1>11, <1>12, <1>13,
     <1>14, <1>15, <1>16, <1>17, <1>18, <1>19 DEF Next, ReconcileStep, RunnerStep,
     Settled, vars, Truncate, Fill, Omit, Ask, Read

(* Reconcile does not return while its run still reads.                    *)
LEMMA ReadersStep == LifeInv /\ Next => ReadersAreHeard'
<1> SUFFICES ASSUME LifeInv, Next PROVE ReadersAreHeard'
  OBVIOUS
<1> USE LifecycleAssumption DEF LifeInv
<1>1. CASE Begin
  BY <1>1 DEF Begin, TypeOK, NotYet, ReadersAreHeard, KubeconfigInv, Busy, Runs, Return
<1>2. CASE CreateKubeconfig
  BY <1>2 DEF CreateKubeconfig, TypeOK, NotYet, ReadersAreHeard, KubeconfigInv, Busy,
     Runs, Return
<1>3. CASE CreateFails
  BY <1>3 DEF CreateFails, TypeOK, NotYet, ReadersAreHeard, KubeconfigInv, Busy, Runs,
     Return
<1>4. CASE OpenReceiver
  BY <1>4 DEF OpenReceiver, TypeOK, NotYet, ReadersAreHeard, KubeconfigInv, Busy, Runs,
     Return
<1>5. CASE MakeDirs
  BY <1>5 DEF MakeDirs, TypeOK, NotYet, ReadersAreHeard, KubeconfigInv, Busy, Runs, Return
<1>6. CASE Spawn
  BY <1>6 DEF Spawn, TypeOK, NotYet, ReadersAreHeard, KubeconfigInv, Busy, Runs, Return
<1>7. CASE RunFails
  BY <1>7 DEF RunFails, TypeOK, NotYet, ReadersAreHeard, KubeconfigInv, Busy, Runs, Return
<1>8. CASE Leave
  BY <1>8 DEF Leave, TypeOK, NotYet, ReadersAreHeard, KubeconfigInv, Busy, Runs, Return
<1>9. CASE Finish
  BY <1>9 DEF Finish, TypeOK, NotYet, ReadersAreHeard, KubeconfigInv, Busy, Runs, Return
<1>10. CASE Abort
  BY <1>10 DEF Abort, TypeOK, NotYet, ReadersAreHeard, KubeconfigInv, Busy, Runs, Return
<1>11. ASSUME NEW r \in Runs, Start(r) PROVE ReadersAreHeard'
  BY <1>11 DEF Start, TypeOK, NotYet, ReadersAreHeard, KubeconfigInv, Busy, Runs, Return
<1>12. ASSUME NEW r \in Runs, Play(r) PROVE ReadersAreHeard'
  BY <1>12 DEF Play, TypeOK, NotYet, ReadersAreHeard, KubeconfigInv, Busy, Runs, Return
<1>13. ASSUME NEW r \in Runs, Ask(r) PROVE ReadersAreHeard'
  BY <1>13 DEF Ask, TypeOK, NotYet, ReadersAreHeard, KubeconfigInv, Busy, Runs, Return
<1>14. ASSUME NEW r \in Runs, Exit(r) PROVE ReadersAreHeard'
  BY <1>14 DEF Exit, TypeOK, NotYet, ReadersAreHeard, KubeconfigInv, Busy, Runs, Return
<1>15. ASSUME NEW r \in Runs, Close(r) PROVE ReadersAreHeard'
  BY <1>15 DEF Close, TypeOK, NotYet, ReadersAreHeard, KubeconfigInv, Busy, Runs, Return
<1>16. ASSUME NEW r \in Runs, Lstat(r) PROVE ReadersAreHeard'
  BY <1>16 DEF Lstat, TypeOK, NotYet, ReadersAreHeard, KubeconfigInv, Busy, Runs, Return
<1>17. ASSUME NEW r \in Runs, Remove(r) PROVE ReadersAreHeard'
  BY <1>17 DEF Remove, TypeOK, NotYet, ReadersAreHeard, KubeconfigInv, Busy, Runs, Return
<1>18. ASSUME NEW r \in Runs, Symlink(r) PROVE ReadersAreHeard'
  BY <1>18 DEF Symlink, TypeOK, NotYet, ReadersAreHeard, KubeconfigInv, Busy, Runs, Return
<1>19. ASSUME NEW r \in Runs, LinkFails(r) PROVE ReadersAreHeard'
  BY <1>19 DEF LinkFails, TypeOK, NotYet, ReadersAreHeard, KubeconfigInv, Busy, Runs,
     Return
<1>20. CASE UNCHANGED <<pc, run, proc, asked>>
  BY <1>20 DEF ReadersAreHeard
<1> QED
  BY <1>1, <1>2, <1>3, <1>4, <1>5, <1>6, <1>7, <1>8, <1>9, <1>10, <1>11, <1>12, <1>13,
     <1>14, <1>15, <1>16, <1>17, <1>18, <1>19, <1>20 DEF Next, ReconcileStep,
     RunnerStep, Settled, vars, Truncate, Fill, Omit, Read

(* The files are written one after the other, and by nobody else.          *)
LEMMA WrittenStep == LifeInv /\ Next => WrittenSoFar'
<1> SUFFICES ASSUME LifeInv, Next PROVE WrittenSoFar'
  OBVIOUS
<1> USE LifecycleAssumption DEF LifeInv
<1>1. CASE Begin
  BY <1>1 DEF Begin, TypeOK, WrittenSoFar, Return
<1>2. CASE CreateKubeconfig
  BY <1>2 DEF CreateKubeconfig, TypeOK, WrittenSoFar, Return
<1>3. CASE CreateFails
  BY <1>3 DEF CreateFails, TypeOK, WrittenSoFar, Return
<1>4. CASE OpenReceiver
  BY <1>4 DEF OpenReceiver, TypeOK, WrittenSoFar, Return
<1>5. CASE MakeDirs
  BY <1>5 DEF MakeDirs, TypeOK, WrittenSoFar, Return
<1>6. CASE RunFails
  BY <1>6 DEF RunFails, TypeOK, WrittenSoFar, Return
<1>7. CASE Leave
  BY <1>7 DEF Leave, TypeOK, WrittenSoFar, Return
<1>8. CASE Finish
  BY <1>8 DEF Finish, TypeOK, WrittenSoFar, Return
<1>9. CASE Abort
  BY <1>9 DEF Abort, TypeOK, WrittenSoFar, Return
<1>10. CASE Truncate
  BY <1>10, WriteOrderFacts DEF Truncate, TypeOK, WrittenSoFar, Return, Pending
<1>11. CASE Fill
  BY <1>11, WriteOrderFacts DEF Fill, TypeOK, WrittenSoFar, Return, Pending
<1>12. CASE Omit
  BY <1>12, WriteOrderFacts DEF Omit, TypeOK, WrittenSoFar, Return, Pending, OmittedAbsent
<1>13. CASE Spawn
  BY <1>13, WriteOrderFacts DEF Spawn, TypeOK, WrittenSoFar, Return
<1>14. CASE UNCHANGED <<pc, run, step, files>>
  BY <1>14 DEF WrittenSoFar
<1> QED
  BY RunnerFrame, <1>1, <1>2, <1>3, <1>4, <1>5, <1>6, <1>7, <1>8, <1>9, <1>10, <1>11,
     <1>12, <1>13, <1>14 DEF Next, ReconcileStep, Settled, vars

(* Only the files of the watch are written.                                *)
LEMMA OmittedStep == LifeInv /\ Next => OmittedAbsent'
<1> SUFFICES ASSUME LifeInv, Next PROVE OmittedAbsent'
  OBVIOUS
<1> USE LifecycleAssumption DEF LifeInv
<1>1. CASE Truncate
  BY <1>1, WriteOrderFacts DEF Truncate, TypeOK, OmittedAbsent, Written, Pending
<1>2. CASE Fill
  BY <1>2, WriteOrderFacts DEF Fill, TypeOK, OmittedAbsent, Written, Pending
<1>3. CASE UNCHANGED <<files>>
  BY <1>3 DEF OmittedAbsent, Written
<1> QED
  BY RunnerFrame, <1>1, <1>2, <1>3 DEF Next, ReconcileStep, Settled, vars, Begin,
     CreateKubeconfig, CreateFails, OpenReceiver, MakeDirs, Omit, Spawn, RunFails,
     Leave, Finish, Abort

(* The kubeconfig lives as long as its reconciliation.                     *)
LEMMA KubeconfigStep == LifeInv /\ Next => KubeconfigInv'
<1> SUFFICES ASSUME LifeInv, Next PROVE KubeconfigInv'
  OBVIOUS
<1> USE LifecycleAssumption DEF LifeInv
<1>1. CASE Begin
  BY <1>1 DEF Begin, TypeOK, NotYet, ReadersAreHeard, KubeconfigInv, Busy, Runs, Return
<1>2. CASE CreateKubeconfig
  BY <1>2 DEF CreateKubeconfig, TypeOK, NotYet, ReadersAreHeard, KubeconfigInv, Busy,
     Runs, Return
<1>3. CASE CreateFails
  BY <1>3 DEF CreateFails, TypeOK, NotYet, ReadersAreHeard, KubeconfigInv, Busy, Runs,
     Return
<1>4. CASE OpenReceiver
  BY <1>4 DEF OpenReceiver, TypeOK, NotYet, ReadersAreHeard, KubeconfigInv, Busy, Runs,
     Return
<1>5. CASE MakeDirs
  BY <1>5 DEF MakeDirs, TypeOK, NotYet, ReadersAreHeard, KubeconfigInv, Busy, Runs, Return
<1>6. CASE Spawn
  BY <1>6 DEF Spawn, TypeOK, NotYet, ReadersAreHeard, KubeconfigInv, Busy, Runs, Return
<1>7. CASE RunFails
  BY <1>7 DEF RunFails, TypeOK, NotYet, ReadersAreHeard, KubeconfigInv, Busy, Runs, Return
<1>8. CASE Leave
  BY <1>8 DEF Leave, TypeOK, NotYet, ReadersAreHeard, KubeconfigInv, Busy, Runs, Return
<1>9. CASE Finish
  BY <1>9 DEF Finish, TypeOK, NotYet, ReadersAreHeard, KubeconfigInv, Busy, Runs, Return
<1>10. CASE Abort
  BY <1>10 DEF Abort, TypeOK, NotYet, ReadersAreHeard, KubeconfigInv, Busy, Runs, Return
<1>11. ASSUME NEW r \in Runs, Start(r) PROVE KubeconfigInv'
  BY <1>11 DEF Start, TypeOK, NotYet, ReadersAreHeard, KubeconfigInv, Busy, Runs, Return
<1>12. ASSUME NEW r \in Runs, Play(r) PROVE KubeconfigInv'
  BY <1>12 DEF Play, TypeOK, NotYet, ReadersAreHeard, KubeconfigInv, Busy, Runs, Return
<1>13. ASSUME NEW r \in Runs, Exit(r) PROVE KubeconfigInv'
  BY <1>13 DEF Exit, TypeOK, NotYet, ReadersAreHeard, KubeconfigInv, Busy, Runs, Return
<1>14. ASSUME NEW r \in Runs, Close(r) PROVE KubeconfigInv'
  BY <1>14 DEF Close, TypeOK, NotYet, ReadersAreHeard, KubeconfigInv, Busy, Runs, Return
<1>15. ASSUME NEW r \in Runs, Lstat(r) PROVE KubeconfigInv'
  BY <1>15 DEF Lstat, TypeOK, NotYet, ReadersAreHeard, KubeconfigInv, Busy, Runs, Return
<1>16. ASSUME NEW r \in Runs, Remove(r) PROVE KubeconfigInv'
  BY <1>16 DEF Remove, TypeOK, NotYet, ReadersAreHeard, KubeconfigInv, Busy, Runs, Return
<1>17. ASSUME NEW r \in Runs, Symlink(r) PROVE KubeconfigInv'
  BY <1>17 DEF Symlink, TypeOK, NotYet, ReadersAreHeard, KubeconfigInv, Busy, Runs, Return
<1>18. ASSUME NEW r \in Runs, LinkFails(r) PROVE KubeconfigInv'
  BY <1>18 DEF LinkFails, TypeOK, NotYet, ReadersAreHeard, KubeconfigInv, Busy, Runs,
     Return
<1>19. CASE UNCHANGED <<pc, run, kc, proc, left, receiver>>
  BY <1>19 DEF KubeconfigInv
<1> QED
  BY <1>1, <1>2, <1>3, <1>4, <1>5, <1>6, <1>7, <1>8, <1>9, <1>10, <1>11, <1>12, <1>13,
     <1>14, <1>15, <1>16, <1>17, <1>18, <1>19 DEF Next, ReconcileStep, RunnerStep,
     Settled, vars, Truncate, Fill, Omit, Ask, Read

(* A run that reads finds its own files.                                   *)
LEMMA InputsStep == LifeInv /\ Next => OwnInputs'
<1> SUFFICES ASSUME LifeInv, Next PROVE OwnInputs'
  OBVIOUS
<1> USE LifecycleAssumption DEF LifeInv
<1>1. ASSUME NEW r \in Runs, NEW f \in Files, Read(r, f) PROVE OwnInputs'
  BY <1>1 DEF Read, TypeOK, OwnInputs, ReadersAreHeard, WrittenSoFar
<1>2. CASE UNCHANGED <<found>>
  BY <1>2 DEF OwnInputs
<1> QED
  BY <1>1, <1>2 DEF Next, ReconcileStep, RunnerStep, Settled, vars, Begin,
     CreateKubeconfig, CreateFails, OpenReceiver, MakeDirs, Truncate, Fill, Omit,
     Spawn, RunFails, Leave, Finish, Abort, Start, Play, Ask, Exit, Close, Lstat,
     Remove, Symlink, LinkFails

(* The invariant holds in every state.                                     *)
LEMMA LifeInvariant == Spec => []LifeInv
<1>1. LifeInv /\ UNCHANGED vars => LifeInv'
  BY DEF vars, LifeInv, TypeOK, NotYet, ReadersAreHeard, WrittenSoFar, OmittedAbsent, Written,
     KubeconfigInv, OwnInputs
<1>2. LifeInv /\ [Next]_vars => LifeInv'
  BY <1>1, TypeStep, NotYetStep, ReadersStep, WrittenStep, OmittedStep, KubeconfigStep,
     InputsStep DEF LifeInv
<1> QED
  BY LifeInit, <1>2, PTL DEF Spec

(* For any number of runs of a resource, any number of failures and every  *)
(* interleaving of Reconcile with the goroutines of runner.Run and with    *)
(* ansible-runner: a run reads no file of the input directory but its own. *)
THEOREM InputsAreOwn == Spec => []OwnInputs
<1>1. LifeInv => OwnInputs
  BY DEF LifeInv
<1> QED
  BY LifeInvariant, <1>1, PTL

(* The kubeconfig of a run is there as long as Reconcile listens to it,    *)
(* and removed with every return of Reconcile that created one.            *)
THEOREM KubeconfigLifetime == Spec => []KubeconfigKept
<1>1. LifeInv => KubeconfigKept
  BY DEF LifeInv, KubeconfigInv, ReadersAreHeard, KubeconfigKept, Alive
<1> QED
  BY LifeInvariant, <1>1, PTL

=============================================================================
