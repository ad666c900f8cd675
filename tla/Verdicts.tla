----------------------------- MODULE Verdicts -----------------------------
(***************************************************************************)
(* The three conditions Reconcile keeps in the status of a custom resource *)
(* (Running, Successful and Failure), each reduced to its status: "none"   *)
(* when the condition is not there.  markRunning, markError and markDone   *)
(* are functions of that view; module StatusConditions shows that the code *)
(* on lists of conditions computes them.                                   *)
(***************************************************************************)

ConditionTypes == {"Running", "Successful", "Failure"}

NoStatus == [t \in ConditionTypes |-> "none"]

\* The status of an existing condition is set to False.
Flip(s, t) == IF s[t] = "none" THEN s ELSE [s EXCEPT ![t] = "False"]

RunningVerdict(s) == [Flip(s, "Successful") EXCEPT !["Running"] = "True"]

ErrorVerdict(s) == [Flip(Flip(s, "Running"), "Successful") EXCEPT !["Failure"] = "True"]

\* Mutant: a success leaves the Failure condition of an earlier run alone.
DoneVerdictKeepsFailure(s, ok) ==
    IF ok THEN [s EXCEPT !["Running"] = "True", !["Successful"] = "True"]
    ELSE [Flip(s, "Running") EXCEPT !["Failure"] = "True", !["Successful"] = "False"]

DoneVerdict(s, ok) ==
    IF ok THEN [t \in ConditionTypes |-> IF t = "Failure" THEN "False" ELSE "True"]
    ELSE [Flip(s, "Running") EXCEPT !["Failure"] = "True", !["Successful"] = "False"]
===========================================================================
