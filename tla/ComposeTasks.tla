--------------------------- MODULE ComposeTasks ---------------------------
(***************************************************************************)
(* Projects of several services: docker_compose_v2 and _pull (which drive  *)
(* the docker CLI and read its events), docker_compose (which drives the   *)
(* Python library of Compose 1) and docker_stack.                          *)
(*                                                                         *)
(* w.cont gives for each service its containers: their number, whether     *)
(* they run, and the configuration and image they were made from; w.conf   *)
(* is what the project's files say, w.local and w.remote the image of a    *)
(* service on the host (0: none) and in the registry; w.orphan tells of a  *)
(* container of a service the files no longer have; w.compose is the minor *)
(* version of the compose plugin.  Service "a" depends on service "b".     *)
(***************************************************************************)
EXTENDS TaskRuns

ComposeModules == {"docker_compose_v2", "docker_compose_v2_pull", "docker_compose", "docker_stack"}
Services == {"a", "b"}
NoContainer == [n |-> 0, up |-> FALSE, conf |-> 0, img |-> 0]

\* The parameters of each module; a scale of -1 is none.
ComposeV2Params ==
    [state : {"present", "stopped", "restarted", "absent"}, services : SUBSET Services, deps : BOOLEAN,
     pull : {"always", "missing", "never", "policy"}, recreate : {"always", "never", "auto"}, orphans : BOOLEAN,
     checkfiles : BOOLEAN]
ComposeV1Params ==
    [state : {"present", "absent"}, services : SUBSET Services, deps : BOOLEAN, pull : BOOLEAN,
     recreate : {"always", "never", "auto"}, orphans : BOOLEAN, stopped : BOOLEAN, restarted : BOOLEAN,
     scale : [Services -> Int]]
ComposePullParams == [policy : {"always", "missing"}, services : SUBSET Services, checkfiles : BOOLEAN]
StackParams == [state : {"present", "absent"}, in : SUBSET Services, prune : BOOLEAN, retries : Nat]
ComposeParamsOf(mod) ==
    CASE mod = "docker_compose_v2" -> ComposeV2Params [] mod = "docker_compose" -> ComposeV1Params
      [] mod = "docker_compose_v2_pull" -> ComposePullParams [] mod = "docker_stack" -> StackParams

\* The services a task names, all if it names none.
Named(p) == IF p.services = {} THEN Services ELSE p.services
WithDeps(p) == Named(p) \cup (IF p.deps /\ "a" \in Named(p) THEN {"b"} ELSE {})

\* What Compose would do to the containers of a service.
ConvergencePlan(recreate, w, s) ==
    LET c == w.cont[s] IN
      CASE c.n = 0 -> "create"
        [] c.n # 0 /\ recreate = "always" -> "recreate"
        [] c.n # 0 /\ recreate = "auto" /\ (c.conf # w.conf[s] \/ c.img # w.local[s]) -> "recreate"
        [] OTHER -> IF c.up THEN "noop" ELSE "start"

\* The containers of a service after its plan; start says whether they run.
\* A plan that does something also restores the number of the files, one.
Converged(plan, w, s, start) ==
    CASE plan \in {"create", "recreate"} -> [n |-> 1, up |-> start, conf |-> w.conf[s], img |-> w.local[s]]
      [] plan = "start" -> IF start THEN [w.cont[s] EXCEPT !.up = TRUE] ELSE w.cont[s]
      [] plan = "noop" -> w.cont[s]

\* docker compose pull, or the pull of up: which services are pulled.
Pulling(policy, w, names) ==
    {s \in names : policy = "always" \/ (policy \in {"missing", "policy"} /\ w.local[s] = 0)}
AfterPull(w, S) == [w EXCEPT !.local = [s \in Services |-> IF s \in S THEN w.remote[s] ELSE @[s]]]

-----------------------------------------------------------------------------
(* Events of the docker CLI: what they are about and what they say.        *)
Working == {"Creating", "Starting", "Restarting", "Stopping", "Removing", "Recreate", "Pulling", "Building"}
Done == {"Created", "Started", "Stopped", "Removed", "Recreated", "Pulled", "Running"}

\* _extract_event: the plain text of one event.
ExtractEvent(e) ==
    IF e.what = "container" THEN [what |-> "container", status |-> IF e.word \in Working \cup Done THEN e.word ELSE "none"]
    ELSE IF e.what = "layer" THEN [what |-> "layer", status |-> e.word]
    ELSE IF e.word \in {"Pulling", "Pulled", "Building"} THEN [what |-> "service", status |-> e.word]
    ELSE [what |-> "unknown", status |-> e.word]

\* parse_json_events: the word may come as text beside another status.
ParseJsonEvent(e) ==
    [what |-> CASE e.what = "service" /\ e.word \in {"Pulling", "Pulled"} -> "image"
                [] e.what \in {"container", "layer"} -> e.what
                [] OTHER -> "unknown",
     status |-> e.word]

ParseEvents(w, es) == {IF w.compose >= 29 THEN ParseJsonEvent(e) ELSE ExtractEvent(e) : e \in es}

\* has_changes.
HasChanges(events, ignorePulls) ==
    \E e \in events :
        \/ e.status \in Working /\ ~(ignorePulls /\ e.status \in {"Pulling", "Pulled"})
        \/ e.what = "layer" /\ e.status = "Downloading"

Event(what, word) == [what |-> what, word |-> word]
PullEvents(S, quiet, w, dry) ==
    {Event("service", "Pulling") : s \in S} \cup {Event("service", "Pulled") : s \in S}
    \cup (IF quiet \/ dry THEN {} ELSE {Event("layer", "Downloading") : s \in {s \in S : w.local[s] # w.remote[s]}})
PlanEvents(plan) ==
    CASE plan = "create" -> {Event("container", "Creating"), Event("container", "Created")}
      [] plan = "recreate" -> {Event("container", "Recreate"), Event("container", "Recreated")}
      [] plan = "start" -> {Event("container", "Starting"), Event("container", "Started")}
      [] plan = "noop" -> {Event("container", "Running")}

-----------------------------------------------------------------------------
\* BaseComposeManager: the plugin is new enough and the files are there.
ComposeRefused(p, w) == w.compose < 18 \/ (~w.files /\ p.checkfiles)

\* docker compose up, with or without --no-start, in dry run without effect.
UpEvents(p, w, dry, start) ==
    LET S == Pulling(p.pull, w, WithDeps(p))
        w1 == IF dry THEN w ELSE AfterPull(w, S)
        plan(s) == LET x == ConvergencePlan(p.recreate, w1, s) IN IF x = "start" /\ ~start THEN "noop" ELSE x
    IN  PullEvents(S, TRUE, w, dry) \cup UNION {PlanEvents(plan(s)) : s \in WithDeps(p)}
        \cup (IF p.orphans /\ w.orphan # "none" THEN {Event("container", "Removing")} ELSE {})
AfterUp(p, w, start) ==
    LET w1 == AfterPull(w, Pulling(p.pull, w, WithDeps(p)))
    IN  [w1 EXCEPT !.cont = [s \in Services |-> IF s \in WithDeps(p)
                                THEN Converged(ConvergencePlan(p.recreate, w1, s), w1, s, start) ELSE @[s]],
                   !.orphan = IF p.orphans THEN "none" ELSE @]

\* update_result.
Report(t, w, events, ignorePulls) == [t EXCEPT !.changed = @ \/ HasChanges(ParseEvents(w, events), ignorePulls)]

\* cmd_up, and the first half of cmd_stop.
CmdUp ==
    /\ At("docker_compose_v2", "start") /\ task.p.state \in {"present", "stopped"}
    /\ LET p == task.p
           start == p.state = "present"
           t == Report(task, world, UpEvents(p, world, Check(task), start), TRUE)
           next == IF start THEN Exit(t) ELSE Goto(t, "stop")
           w == AfterUp(p, world, start)
       IN  IF ComposeRefused(p, world) THEN Look(Fail(task))
           ELSE IF \E s \in WithDeps(p) : (IF Check(task) THEN world.local[s] + world.remote[s] ELSE w.local[s]) = 0
                THEN Look(Fail(task))
           ELSE IF Check(task) THEN Look(next) ELSE Do(next, w)

\* The second half of cmd_stop: docker compose stop claims to stop containers
\* that are stopped already, so it is called only if some container runs.
Stopped(w, S) == [w EXCEPT !.cont = [s \in Services |-> IF s \in S THEN [@[s] EXCEPT !.up = FALSE] ELSE @[s]]]
CmdStop ==
    /\ At("docker_compose_v2", "stop")
    /\ LET running == \E s \in Services : world.cont[s].n > 0 /\ world.cont[s].up
           some == \E s \in Named(task.p) : world.cont[s].n > 0
           t == IF running /\ some THEN Report(task, world, {Event("container", "Stopping")}, FALSE) ELSE task
       IN  IF running /\ ~Check(task) THEN Do(Exit(t), Stopped(world, Named(task.p))) ELSE Look(Exit(t))

\* cmd_restart and cmd_down.
CmdRestart ==
    /\ At("docker_compose_v2", "start") /\ task.p.state = "restarted"
    /\ LET S == {s \in WithDeps(task.p) : world.cont[s].n > 0}
           t == Report(task, world, {Event("container", "Restarting") : s \in S}, FALSE)
       IN  IF ComposeRefused(task.p, world) THEN Look(Fail(task))
           ELSE IF Check(task) THEN Look(Exit(t))
           ELSE Do(Exit(t), [world EXCEPT !.cont = [s \in Services |-> IF s \in S THEN [@[s] EXCEPT !.up = TRUE] ELSE @[s]]])

Downed(p, w) ==
    [w EXCEPT !.cont = [s \in Services |-> IF s \in Named(p) THEN NoContainer ELSE @[s]],
              !.orphan = IF p.orphans THEN "none" ELSE @]
CmdDown ==
    /\ At("docker_compose_v2", "start") /\ task.p.state = "absent"
    /\ LET p == task.p
           t == Report(task, world, IF Downed(p, world) = world THEN {} ELSE {Event("container", "Removing")}, FALSE)
       IN  IF ComposeRefused(p, world) THEN Look(Fail(task))
           ELSE IF Check(task) THEN Look(Exit(t)) ELSE Do(Exit(t), Downed(p, world))

\* Of several services only the first comes up; the others stay as they were.
ComposeBreaks ==
    /\ At("docker_compose_v2", "start") /\ task.p.state = "present" /\ ~Check(task) /\ others > 0
    /\ ~ComposeRefused(task.p, world)
    /\ LET w == AfterUp([task.p EXCEPT !.services = {"b"}], world, TRUE) IN
         /\ w.local["b"] # 0
         /\ others' = others - 1
         /\ world' = w
         /\ task' = [Fail(task) EXCEPT !.calm = FALSE, !.wrote = (w # world)]

\* PullManager.run: in check mode every pull counts, in a run the layers do.
CmdPull ==
    /\ At("docker_compose_v2_pull", "start")
    /\ LET p == task.p
           S == Pulling(p.policy, world, Named(p))
           t == Report(task, world, PullEvents(S, FALSE, world, Check(task)), p.policy # "missing" /\ ~Check(task))
       IN  IF ComposeRefused(p, world) \/ (p.policy # "always" /\ world.compose < 22) THEN Look(Fail(task))
           ELSE IF Check(task) THEN Look(Exit(t))
           ELSE IF \E s \in S : world.remote[s] = 0 THEN Look(Fail(task))
           ELSE Do(Exit(t), AfterPull(world, S))

-----------------------------------------------------------------------------
(* docker_compose: ContainerManager.                                       *)
AtCompose(pc) == At("docker_compose", pc)

\* cmd_pull and cmd_build compare the image before with the one after.
PullOrBuild ==
    /\ AtCompose("start") /\ task.p.state = "present"
    /\ LET p == task.p
           S == IF p.pull /\ ~Check(task) THEN Named(p) ELSE {}
           w == AfterPull(world, S)
       IN  IF \E s \in S : w.local[s] = 0 THEN Look(Fail(task))
           ELSE Do([Goto(task, "plan") EXCEPT !.changed = \E s \in S : w.local[s] # world.local[s]], w)

\* cmd_up: the plans of the services named and the orphans that run.
PlanUp ==
    /\ AtCompose("plan")
    /\ LET p == task.p
           plan(s) == ConvergencePlan(p.recreate, world, s)
           differs == \E s \in Named(p) : plan(s) # "noop" /\ ~(plan(s) = "start" /\ p.stopped)
           t == [task EXCEPT !.changed = @ \/ differs \/ (p.orphans /\ world.orphan = "running")]
       IN  Look(IF t.changed /\ ~Check(t) THEN Goto(t, "up") ELSE Goto(t, "stop"))

ProjectUp ==
    /\ AtCompose("up")
    /\ LET p == task.p
           plan(s) == ConvergencePlan(p.recreate, world, s)
       IN  IF \E s \in WithDeps(p) : world.local[s] = 0 THEN Look(Fail(task))
           ELSE Do(Goto(task, "stop"),
                   [world EXCEPT !.cont = [s \in Services |-> IF s \in WithDeps(p)
                                              THEN [Converged(plan(s), world, s, ~p.stopped) EXCEPT !.n = 1] ELSE @[s]],
                                 !.orphan = IF p.orphans /\ @ = "running" THEN "none" ELSE @])

\* cmd_stop and cmd_restart.
StopOrRestart ==
    /\ AtCompose("stop")
    /\ LET p == task.p
           runs == \E s \in Named(p) : world.cont[s].n > 0 /\ world.cont[s].up
           some == \E s \in Named(p) : world.cont[s].n > 0
           t == [Goto(task, "scale") EXCEPT !.changed = @ \/ (p.stopped /\ runs) \/ (p.restarted /\ some)]
       IN  IF Check(task) THEN Look(t)
           ELSE IF p.stopped /\ runs THEN Do(t, Stopped(world, Named(p)))
           ELSE IF p.restarted /\ some
                THEN Do(t, [world EXCEPT !.cont = [s \in Services |-> IF s \in Named(p) /\ @[s].n > 0
                                                     THEN [@[s] EXCEPT !.up = TRUE] ELSE @[s]]])
           ELSE Look(t)

\* cmd_scale: containers that are stopped count too.
CmdScale ==
    /\ AtCompose("scale")
    /\ LET p == task.p
           S == {s \in Services : p.scale[s] # -1 /\ world.cont[s].n # p.scale[s]}
           t == IF S = {} THEN task ELSE Changed(task)
       IN  IF Check(task) \/ S = {} THEN Look(Exit(t))
           ELSE Do(Exit(t), [world EXCEPT !.cont = [s \in Services |-> IF s \in S
                                THEN [n |-> p.scale[s], up |-> p.scale[s] > 0, conf |-> IF p.scale[s] = 0 THEN 0 ELSE world.conf[s],
                                      img |-> IF p.scale[s] = 0 THEN 0 ELSE world.local[s]]
                                ELSE @[s]]])

\* cmd_down: only if some service has a container.
ProjectDown ==
    /\ AtCompose("start") /\ task.p.state = "absent"
    /\ LET some == \E s \in Services : world.cont[s].n > 0
           t == IF some THEN Changed(task) ELSE task
       IN  IF some /\ ~Check(task) THEN Do(Exit(t), Downed([task.p EXCEPT !.services = {}], world)) ELSE Look(Exit(t))

-----------------------------------------------------------------------------
(* docker_stack: w.stack is the specification of each service (0: none),   *)
(* w.left says that networks of a removed stack are still there.           *)

\* docker_stack_inspect before the deployment, or the services before rm.
InspectStack ==
    /\ At("docker_stack", "start")
    /\ Look(IF Check(task) THEN Skip(task)
            ELSE IF task.p.state = "present" THEN Remember(task, [before |-> world.stack], "deploy")
            ELSE IF \A s \in Services : world.stack[s] = 0 THEN Exit(task)
            ELSE Remember(task, [retries |-> task.p.retries], "rm"))

DeployStack ==
    /\ At("docker_stack", "deploy")
    /\ LET p == task.p IN
         Do(Goto(task, "inspect"),
            [world EXCEPT !.stack = [s \in Services |-> IF s \in p.in THEN world.conf[s] ELSE IF p.prune THEN 0 ELSE @[s]]])

\* docker_stack_inspect after it, and the differences.
CompareStack ==
    /\ At("docker_stack", "inspect")
    /\ Look(Exit(IF world.stack = task.loc.before THEN task ELSE Changed(task)))

\* docker_stack_rm: again and again until there is nothing left, as long as there are
\* retries.  The daemon may complain about what it cannot remove; only the code that
\* the last try returns is looked at.
RemoveStack ==
    /\ At("docker_stack", "rm")
    /\ \E left \in {FALSE, world.left} : \E complains \in {FALSE, left} :
         LET found == world.left \/ \E s \in Services : world.stack[s] # 0
             w == [world EXCEPT !.stack = [s \in Services |-> 0], !.left = left]
         IN  Do(IF found /\ task.loc.retries > 0 THEN [task EXCEPT !.loc.retries = @ - 1]
                ELSE IF complains THEN Fail(task) ELSE Exit(Changed(task)), w)

-----------------------------------------------------------------------------
\* The registry gets a new image, the files change, somebody stops a container
\* or removes one.
OthersAlterProject ==
    /\ task.mod \in ComposeModules /\ task.pc # "over"
    /\ \/ OthersMake([world EXCEPT !.remote["a"] = 3])
       \/ OthersMake([world EXCEPT !.conf["a"] = 3])
       \/ OthersMake([world EXCEPT !.cont["a"] = NoContainer, !.stack["a"] = 0])
       \/ OthersMake([world EXCEPT !.cont["a"].up = FALSE])

ComposeNext ==
    \/ CmdUp \/ CmdStop \/ CmdRestart \/ CmdDown \/ ComposeBreaks \/ CmdPull
    \/ PullOrBuild \/ PlanUp \/ ProjectUp \/ StopOrRestart \/ CmdScale \/ ProjectDown
    \/ InspectStack \/ DeployStack \/ CompareStack \/ RemoveStack \/ OthersAlterProject

\* The goal of a task.
ContainersMet(p, w, s, up) ==
    LET c == w.cont[s] IN
      /\ c.n > 0
      /\ c.up = up
      /\ p.recreate # "never" => c.conf = w.conf[s] /\ c.img = w.local[s]
ComposeGoal(mod, p, w) ==
    CASE mod = "docker_compose_v2" ->
           (CASE p.state = "present" -> \A s \in WithDeps(p) : ContainersMet(p, w, s, TRUE)
              [] p.state = "stopped" -> \A s \in Named(p) : ContainersMet(p, w, s, FALSE)
              [] p.state = "restarted" -> \A s \in Named(p) : w.cont[s].n > 0 => w.cont[s].up
              [] p.state = "absent" -> \A s \in Named(p) : w.cont[s].n = 0)
      [] mod = "docker_compose_v2_pull" -> \A s \in Named(p) : w.local[s] # 0 /\ (p.policy = "always" => w.local[s] = w.remote[s])
      [] mod = "docker_compose" ->
           IF p.state = "absent" THEN \A s \in Services : w.cont[s].n = 0
           ELSE \A s \in Named(p) : \/ p.scale[s] # -1 /\ w.cont[s].n = p.scale[s]
                                    \/ p.scale[s] = -1 /\ ContainersMet(p, w, s, ~p.stopped)
      [] mod = "docker_stack" ->
           IF p.state = "absent" THEN (\A s \in Services : w.stack[s] = 0) /\ (p.retries > 0 => ~w.left)
           ELSE \A s \in p.in : w.stack[s] = w.conf[s]

\* A removal with retries that ends well without having found the stack gone: there was no
\* service to remove, or the retries are used up (the documentation says of the latter,
\* docker_stack.py:77, "If the last try still reports the stack as not completely removed
\* the module will fail").
StackGivesUp(t) ==
    /\ t.mod = "docker_stack" /\ t.p.state = "absent" /\ t.p.retries > 0
    /\ t.loc = None \/ t.loc.retries = 0

\* Tasks that report a change every time: restarts, containers made anew,
\* services stopped while another one of the project runs, and a service scaled
\* to none, which Compose 1 creates and removes again each time.
ComposeForced(mod, p, w) ==
    \/ mod = "docker_compose_v2" /\ (p.state = "restarted" \/ p.recreate = "always")
    \/ mod = "docker_compose_v2" /\ p.state = "stopped" /\ \E s \in Services \ Named(p) : w.cont[s].up
    \/ mod = "docker_compose" /\ p.state = "present" /\ (p.restarted \/ p.recreate = "always" \/ \E s \in Services : p.scale[s] = 0)

\* Images that are pulled for containers that are kept are not reported.
ComposeSilent(mod, p) == mod = "docker_compose_v2" /\ p.state \in {"present", "stopped"} /\ p.recreate = "never"
\* In check mode nothing is pulled, so that no container looks outdated, and
\* every pull looks like one that brings something.
ComposeGuesses(mod, p) ==
    \/ mod = "docker_compose_v2" /\ p.state \in {"present", "stopped"} /\ p.pull # "never"
    \/ mod = "docker_compose" /\ p.state = "present" /\ p.pull
    \/ mod = "docker_compose_v2_pull" /\ p.policy = "always"
=============================================================================
