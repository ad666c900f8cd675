---------------------------- MODULE MCReconciler ----------------------------
(***************************************************************************)
(* The instances of Reconciler that TLC checks; the bounds are given in    *)
(* the .cfg files.                                                         *)
(***************************************************************************)
EXTENDS Reconciler

\* Every combination of the three options.
AllOptions == [finalizer : BOOLEAN, manageStatus : BOOLEAN, zeroRequeue : BOOLEAN]
=============================================================================
