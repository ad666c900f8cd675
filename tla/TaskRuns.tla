------------------------------ MODULE TaskRuns ------------------------------
(***************************************************************************)
(* What every Ansible module of the vendored collections promises, and the *)
(* playbook that puts it to the test: one task is played three times, in   *)
(* check mode, for real, and for real again.                               *)
(*                                                                         *)
(* world is the part of the outside the task works on, task the state of   *)
(* the module's process.  Each module family extends this module with one  *)
(* action per request it makes; between two requests others may act, at    *)
(* most MaxOthers times.                                                   *)
(***************************************************************************)
EXTENDS Integers, FiniteSets, Sequences

CONSTANTS
    Scenes,         \* the tasks considered: <<module, parameters, the world it finds>>
    MaxOthers       \* bound on acts of others and refusals

ASSUME OthersAssumption == MaxOthers \in Nat

VARIABLES
    world,      \* what the task works on
    task,       \* the module's process
    others      \* acts of others left

taskVars == <<world, task, others>>

None == [none |-> TRUE]

\* A task of module mod with parameters p, before its first turn.  loc is what
\* the process remembers; told the results of the turns that are over; calm
\* says that nobody interfered so far, wrote that the task changed the world in
\* this turn.
NewTask(mod, p) ==
    [mod |-> mod, p |-> p, turn |-> 1, pc |-> "start", changed |-> FALSE, loc |-> None,
     told |-> << >>, wrote |-> FALSE, calm |-> TRUE]

TaskInit ==
    /\ \E s \in Scenes : task = NewTask(s[1], s[2]) /\ world = s[3]
    /\ others = MaxOthers

Check(t) == t.turn = 1
Goto(t, pc) == [t EXCEPT !.pc = pc]
Remember(t, loc, pc) == [t EXCEPT !.loc = loc, !.pc = pc]
Changed(t) == [t EXCEPT !.changed = TRUE]

\* exit_json and fail_json.
Exit(t) == [t EXCEPT !.pc = "over", !.told = Append(@, IF t.changed THEN "changed" ELSE "same")]
Fail(t) == [t EXCEPT !.pc = "over", !.told = Append(@, "failed")]
\* A module without a check mode is skipped.
Skip(t) == [t EXCEPT !.pc = "over", !.told = Append(@, "skipped")]
\* The step that would change the world, or its omission in check mode.
Unless(t, pc, next) == IF Check(t) THEN next ELSE Goto(t, pc)

At(mod, pc) == task.mod = mod /\ task.pc = pc

\* The task goes on as t, in the world w.
Do(t, w) ==
    /\ task' = [t EXCEPT !.wrote = @ \/ w # world]
    /\ world' = w
    /\ UNCHANGED others
\* The task goes on as t without a change to the world.
Look(t) == Do(t, world)

\* Somebody else makes the world w.
OthersMake(w) ==
    /\ others > 0
    /\ others' = others - 1
    /\ world' = w
    /\ task' = [task EXCEPT !.calm = FALSE]

\* A request is refused or its answer is lost: the module fails.
Refused ==
    /\ task.pc # "over"
    /\ others > 0
    /\ others' = others - 1
    /\ task' = [Fail(task) EXCEPT !.calm = FALSE]
    /\ UNCHANGED world

\* The next turn of the same task.
NextTurn ==
    /\ task.pc = "over" /\ task.turn < 3
    /\ Look([task EXCEPT !.turn = @ + 1, !.pc = "start",
                        !.changed = FALSE, !.loc = None, !.wrote = FALSE])

-----------------------------------------------------------------------------
Ended(n) == task.pc = "over" /\ task.turn = n
Told(n) == task.told[n]
=============================================================================
