----------------------- MODULE MCDependentWatches -----------------------
(* A namespaced kind with a resource beside its owner and one elsewhere,   *)
(* so that both maps record it, and a kind that only exists outside of the *)
(* watched namespaces.                                                     *)
EXTENDS DependentWatches

MCResources ==
    {[kind |-> "Pod", ns |-> "own"], [kind |-> "Pod", ns |-> "other"],
     [kind |-> "Job", ns |-> "far"]}
=========================================================================
