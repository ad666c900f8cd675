---------------------------- MODULE ModuleTasks ----------------------------
(***************************************************************************)
(* The modules of the vendored collections, each as a task that is played  *)
(* in check mode, for real and again (TaskRuns), and what they owe to the  *)
(* playbook that uses them.                                                *)
(***************************************************************************)
EXTENDS DockerSwarm, DockerImages, HelmTasks, ComposeTasks, ContainerCopy, DockerEngine,
        ContainerOptions, DockerInfo

\* The parameters a module accepts.
ParamsOf(mod) ==
    CASE mod \in SwarmModules -> SwarmParamsOf(mod)
      [] mod \in ImageModules -> ImageParamsOf(mod)
      [] mod \in HelmModules -> HelmParamsOf(mod)
      [] mod \in ComposeModules -> ComposeParamsOf(mod)
      [] mod = "docker_container_copy_into" -> CopyParams
      [] mod \in EngineModules -> EngineParamsOf(mod)

ASSUME ScenesAssumption ==
    \A s \in Scenes :
        LET mod == s[1]
            p == s[2]
        IN  CASE mod = "docker_container" -> OptionsAccepted(p)
              [] mod = "docker_swarm_service" -> ServiceAccepted(p)
              [] mod \in InfoModules -> InfoAccepted(mod, p)
              [] OTHER -> p \in ParamsOf(mod)

Goal(mod, p, w) ==
    CASE mod \in SwarmModules -> SwarmGoal(mod, p, w)
      [] mod \in ImageModules -> ImagesGoal(mod, p, w)
      [] mod \in HelmModules -> HelmGoal(mod, p, w)
      [] mod \in ComposeModules -> ComposeGoal(mod, p, w)
      [] mod = "docker_container_copy_into" -> CopyGoal(p, w)
      [] mod \in EngineModules -> EngineGoal(mod, p, w)
      [] mod = "docker_container" -> OptionsGoal(p, w)
      [] mod \in InfoModules -> InfoGoal(mod, p, w)

\* Tasks that ask for a change every time.
Forced(mod, p, w) ==
    CASE mod \in SwarmModules -> SwarmForced(mod, p)
      [] mod \in ImageModules -> ImagesForced(mod, p)
      [] mod \in HelmModules -> HelmForced(mod, p, w)
      [] mod \in ComposeModules -> ComposeForced(mod, p, w)
      [] mod = "docker_container_copy_into" -> CopyForced(p, w)
      [] mod \in EngineModules -> EngineForced(mod, p)
      [] mod = "docker_container" \/ mod \in InfoModules -> FALSE

\* Tasks that make changes they do not report: old versions of a secret,
\* the steps of docker_image whose report a later step overwrites, and images
\* pulled for containers that are kept.
Silent(mod, p) ==
    \/ mod \in Objects /\ p.rolling
    \/ ImagesOverwrite(mod, p) \/ ComposeSilent(mod, p)

\* Tasks that compare what they read before with what they find after, whoever
\* made the difference.
Stale(mod, p) == ImagesStale(mod, p) \/ mod = "docker_stack"

\* Tasks whose check mode only guesses what the run will find.
Guesses(mod, p) ==
    \/ ImagesGuess(mod, p) \/ ImagesOverwrite(mod, p) \/ HelmGuesses(mod, p) \/ ComposeGuesses(mod, p)
    \/ mod = "docker_container" /\ OptionsGuess(p)

TaskNext ==
    \/ NextTurn \/ Refused \/ SwarmNext \/ ImagesNext \/ HelmNext \/ ComposeNext \/ CopyNext \/ EngineNext
    \/ OptionsNext \/ InfoNext

\* A check leaves the world alone, whatever others do, and if nobody interferes
\* it foretells what the run reports, unless one of them fails.
CheckForetells ==
    /\ Check(task) => ~task.wrote \/ HelmFetches(task.mod, task.p)
    /\ Ended(2) /\ task.calm /\ ~Guesses(task.mod, task.p) /\ {Told(1), Told(2)} \subseteq {"same", "changed"} =>
          Told(1) = Told(2)

\* Whatever others do, a task that reports no change has made none; and if nobody
\* interferes one that reports a change has made one.
ChangeReported ==
    \A n \in {2, 3} : Ended(n) =>
        /\ Told(n) = "same" /\ (task.calm \/ ~Stale(task.mod, task.p)) => ~task.wrote \/ Silent(task.mod, task.p)
        /\ Told(n) = "changed" /\ task.calm => task.wrote \/ Forced(task.mod, task.p, world)

\* A task that ends well has reached its goal, unless it has given up on it.
GoalReached ==
    Ended(2) /\ task.calm /\ Told(2) # "failed" => Goal(task.mod, task.p, world) \/ StackGivesUp(task)

\* Played again, a task that ended well changes nothing and says so.
RepetitionSettles ==
    Ended(3) /\ task.calm /\ ~Forced(task.mod, task.p, world) /\ Told(2) # "failed" =>
        Told(3) \in {"same", "failed"} /\ (~task.wrote \/ Silent(task.mod, task.p))

TaskSpec == TaskInit /\ [][TaskNext]_taskVars
=============================================================================
