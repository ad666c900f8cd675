------------------------- MODULE StatusConditions -------------------------
(***************************************************************************)
(* The list of conditions in the status of a custom resource               *)
(* (internal/ansible/controller/status) and what markRunning, markError    *)
(* and markDone (controller/reconcile.go) make of it.  Each of them reads  *)
(* the stored status, sets conditions and stores the result, in one step:  *)
(* the interleavings are the business of module Reconciler.  Roles and     *)
(* users add conditions of their own in between.                           *)
(*                                                                         *)
(* Times and messages are the number of the step they stem from.           *)
(***************************************************************************)
EXTENDS Integers, Sequences, SequencesExt, Selections, Verdicts

CONSTANTS
    RawEntries,  \* the entries a stored list may start with
    MaxRaw,      \* bound on the length of the stored list at the start
    MaxSteps     \* bound on the number of steps

\* "none" is the verdict where there is no condition, so it is no status.
ASSUME EntriesAssumption ==
    /\ MaxRaw \in Nat /\ MaxSteps \in Nat
    /\ \A entry \in RawEntries : "status" \in DOMAIN entry => entry.status # "none"

VARIABLES
    stored,      \* status.conditions as the API server has it
    now,         \* the number of steps so far
    lastFailure  \* history: the step that last reported a failure

conditionsVars == <<stored, now, lastFailure>>

----------------------------------------------------------------------------
(* The package status.                                                     *)

NewCondition(type, status, reason, message) ==
    [type |-> type, status |-> status, ltt |-> now, reason |-> reason, message |-> message]

\* createConditionFromMap: what is missing in a stored entry gets a default.
\* A stored entry maps the keys it has to their values.
Field(entry, key, default) == IF key \in DOMAIN entry THEN entry[key] ELSE default

createConditionFromMap(entry) ==
    [type    |-> Field(entry, "type", "Running"),
     status  |-> Field(entry, "status", "True"),
     ltt     |-> Field(entry, "ltt", now),
     reason  |-> Field(entry, "reason", ""),
     message |-> Field(entry, "message", 0)]

\* An entry that is not a map ("junk") is dropped.
isMap(entry) == "junk" \notin DOMAIN entry

CreateFromMap(list) ==
    LET maps == Only(list, {entry \in Range(list) : isMap(entry)})
    IN  [i \in 1..Len(maps) |-> createConditionFromMap(maps[i])]

\* The first condition of the type, as an index; 0 if there is none.
GetCondition(conds, type) == SelectInSeq(conds, LAMBDA c : c.type = type)

filterOutCondition(conds, type) == Only(conds, {c \in Range(conds) : c.type # type})

\* The condition as it is stored when its predecessor had the same status.
KeepTime(conds, i, c) ==
    IF i # 0 /\ conds[i].status = c.status THEN [c EXCEPT !.ltt = conds[i].ltt] ELSE c

\* Mutant: a condition is also left alone when only its status differs.
SetConditionByReason(conds, c) ==
    LET i == GetCondition(conds, c.type)
    IN  IF i # 0 /\ c.type # "Failure" /\ conds[i].reason = c.reason
        THEN conds
        ELSE Append(filterOutCondition(conds, c.type), KeepTime(conds, i, c))

\* Mutant: Failure is no exception.
SetConditionNoException(conds, c) ==
    LET i == GetCondition(conds, c.type)
    IN  IF i # 0 /\ conds[i].status = c.status /\ conds[i].reason = c.reason
        THEN conds
        ELSE Append(filterOutCondition(conds, c.type), KeepTime(conds, i, c))

SetCondition(conds, c) ==
    LET i == GetCondition(conds, c.type)
    IN  IF /\ i # 0 /\ c.type # "Failure"
           /\ conds[i].status = c.status /\ conds[i].reason = c.reason
        THEN conds
        ELSE Append(filterOutCondition(conds, c.type), KeepTime(conds, i, c))

\* Reconcile flips the status of a copy of an existing condition and sets it.
SetFalse(conds, type) ==
    LET i == GetCondition(conds, type)
    IN  IF i = 0 THEN conds ELSE SetCondition(conds, [conds[i] EXCEPT !.status = "False"])

----------------------------------------------------------------------------
(* Reconcile.                                                              *)

Step == now < MaxSteps /\ now' = now + 1

\* getStatus, and the list stored by GetJSONMap and the status update.
Conditions == CreateFromMap(stored)

markRunning ==
    /\ Step
    /\ stored' = SetCondition(SetFalse(Conditions, "Successful"),
                              NewCondition("Running", "True", "Running", 0))
    /\ UNCHANGED lastFailure

markError ==
    /\ Step
    /\ stored' = SetCondition(SetFalse(SetFalse(Conditions, "Running"), "Successful"),
                              NewCondition("Failure", "True", "Failed", now))
    /\ lastFailure' = now

markDoneSuccess ==
    /\ Step
    /\ stored' = SetCondition(SetCondition(SetCondition(Conditions,
                     NewCondition("Running", "True", "Successful", 0)),
                     NewCondition("Successful", "True", "Successful", 0)),
                     NewCondition("Failure", "False", "", 0))
    /\ UNCHANGED lastFailure

markDoneFailure ==
    /\ Step
    /\ stored' = SetCondition(SetCondition(SetFalse(Conditions, "Running"),
                     NewCondition("Failure", "True", "Failed", now)),
                     NewCondition("Successful", "False", "", 0))
    /\ lastFailure' = now

\* A role or a user adds a condition of another type.
AddForeign ==
    /\ Step
    /\ \E entry \in RawEntries :
         /\ isMap(entry) /\ Field(entry, "type", "Running") \notin ConditionTypes
         /\ GetCondition(Conditions, entry.type) = 0
         /\ stored' = Append(stored, entry)
    /\ UNCHANGED lastFailure

----------------------------------------------------------------------------
NoDuplicates(conds) ==
    \A i, j \in 1..Len(conds) : conds[i].type = conds[j].type => i = j

\* A list that an earlier operator, a role or a user has left, with at most one
\* condition of each type.
ConditionsInit ==
    /\ now = 1
    /\ lastFailure = 0
    /\ stored \in UNION {[1..n -> RawEntries] : n \in 0..MaxRaw}
    /\ NoDuplicates(CreateFromMap(stored))

ConditionsNext == markRunning \/ markError \/ markDoneSuccess \/ markDoneFailure \/ AddForeign

ConditionsSpec == ConditionsInit /\ [][ConditionsNext]_conditionsVars

----------------------------------------------------------------------------
(* Properties.                                                             *)

\* The view of module Verdicts.
View(conds) ==
    [t \in ConditionTypes |->
        LET i == GetCondition(conds, t) IN IF i = 0 THEN "none" ELSE conds[i].status]

\* The code on lists computes the verdicts that module Reconciler uses: the
\* shortcut of SetCondition never leaves a status as it was.
MarksAreVerdicts ==
    [][ /\ markRunning     => View(stored') = RunningVerdict(View(Conditions))
        /\ markError       => View(stored') = ErrorVerdict(View(Conditions))
        /\ markDoneSuccess => View(stored') = DoneVerdict(View(Conditions), TRUE)
        /\ markDoneFailure => View(stored') = DoneVerdict(View(Conditions), FALSE) ]_conditionsVars

\* SetCondition leaves a condition alone when status and reason agree, and over a
\* sequence of marks that does no harm: "Do not update lastTransitionTime if the
\* status of the condition doesn't change" is kept although every mark builds new
\* conditions, and a Failure that is True carries the message of the latest
\* failure, not of an earlier one (the reason Failure is an exception).
ShortcutHarmless ==
    [][ \A before \in {Conditions}, after \in {Conditions'} :
          /\ ~AddForeign => \A t \in ConditionTypes :
                 LET i == GetCondition(before, t)
                     j == GetCondition(after, t)
                 IN  i # 0 /\ before[i].status = after[j].status
                         => after[j].ltt = before[i].ltt
          /\ LET f == GetCondition(after, "Failure")
             IN  lastFailure' # 0 /\ f # 0 /\ after[f].status = "True"
                     => after[f].message = lastFailure' ]_conditionsVars
===========================================================================
