----------------------------- MODULE HelmTasks -----------------------------
(***************************************************************************)
(* The helm modules of kubernetes.core: helm, helm_repository, helm_plugin,*)
(* helm_pull, helm_template, helm_info and helm_plugin_info.  Each drives  *)
(* the helm binary, one command after the other.                           *)
(*                                                                         *)
(* w.rel is the release (its chart version, user values and status) or     *)
(* None; w.up is the newest chart version of the repository, w.cache the   *)
(* newest the local index knows; w.repo the registered repository (0:      *)
(* none); w.plugin the version of the plugin of the task (0: none) and     *)
(* w.diff that of helm diff; w.helm is the minor version of helm itself,   *)
(* w.deps the state of the dependencies of a chart on disk, w.ns says that *)
(* the namespace exists, w.private that the server has a private           *)
(* certificate, and w.out is what pull or template left in its directory.  *)
(***************************************************************************)
EXTENDS TaskRuns

HelmModules == {"helm", "helm_repository", "helm_plugin", "helm_pull", "helm_template", "helm_info",
                "helm_plugin_info"}

\* The parameters of each module.
UserValues == [{"a", "b"} -> Nat]
HelmParams ==
    [state : {"present", "absent"}, ver : Nat, url : BOOLEAN, update : BOOLEAN, dep : BOOLEAN, vals : UserValues,
     files : UserValues, set : UserValues, json : BOOLEAN, reuse : BOOLEAN, reset : BOOLEAN, force : BOOLEAN,
     replace : BOOLEAN, atomic : BOOLEAN, wait : BOOLEAN, purge : BOOLEAN, createns : BOOLEAN,
     conn : {"plain", "ca", "insecure"}]
RepositoryParams == [state : {"present", "absent"}, force : BOOLEAN, src : Nat]
HelmPluginParams == [state : {"present", "absent", "latest"}]
ChartParams == [cafile : BOOLEAN, skiptls : BOOLEAN, untar : BOOLEAN, url : BOOLEAN, ver : Nat]
TemplateParams ==
    [update : BOOLEAN, outdir : BOOLEAN, set : UserValues, json : BOOLEAN, url : BOOLEAN, ver : Nat]
HelmParamsOf(mod) ==
    CASE mod = "helm" -> HelmParams [] mod = "helm_repository" -> RepositoryParams
      [] mod = "helm_plugin" -> HelmPluginParams [] mod = "helm_pull" -> ChartParams
      [] mod = "helm_template" -> TemplateParams
      [] mod = "helm_info" -> [conn : {"plain", "ca", "insecure"}] [] mod = "helm_plugin_info" -> {None}

\* User values: a number per key, 0 where a key is not set; those of y win.
Unset == [k \in {"a", "b"} |-> 0]
Over(x, y) == [k \in DOMAIN x |-> IF y[k] # 0 THEN y[k] ELSE x[k]]

\* deploy: files, then release_values, then set_values.
GivenValues(p) == Over(Over(p.files, p.vals), p.set)

\* What helm makes of the values of a task for a release that has old.
HelmValues(p, reset, old) ==
    CASE reset -> GivenValues(p)
      [] ~reset /\ p.reuse -> Over(old, GivenValues(p))
      [] ~reset /\ ~p.reuse -> IF GivenValues(p) = Unset THEN old ELSE GivenValues(p)

\* _prepare_helm_environment and write_temp_kubeconfig: how an older helm is
\* told about certificates in a kubeconfig and a newer one by its environment.
HelmEnvironment(p, helm) ==
    LET inFile == (p.conn = "ca" /\ helm < 5) \/ (p.conn = "insecure" /\ helm < 10)
    IN  [kubeconfig |-> IF inFile THEN {p.conn} ELSE {},
         env |-> IF p.conn # "plain" /\ ~inFile THEN {p.conn} ELSE {}]

\* run_helm_command fails the module if the server is not trusted.
Reaches(p, w) ==
    LET e == HelmEnvironment(p, w.helm) IN ~w.private \/ e.kubeconfig \cup e.env # {}

\* get_helm_set_values_args: JSON values need helm 3.10.
SetValuesRefused(p, w) == p.set # Unset /\ p.json /\ w.helm < 10

\* helm list shows deployed and failed releases, with --all every one.
Listed(w, all) ==
    IF w.rel = None THEN None ELSE IF all \/ w.rel.status \in {"deployed", "failed"} THEN w.rel ELSE None

\* fetch_chart_info: the version a chart reference stands for, 0 if none.
ChartVersion(p, w) ==
    LET newest == IF p.url THEN w.up ELSE w.cache
    IN  IF p.ver = 0 THEN newest ELSE IF p.ver <= newest THEN p.ver ELSE 0

\* default_check: with values files, release_values are not looked at, and
\* set_values never are.
DefaultCheck(p, rel, chart) ==
    \/ rel.vals # (IF p.files # Unset THEN p.files ELSE p.vals)
    \/ rel.chart # chart

\* helmdiff_check compares what would be deployed with the release there is.
HelmDiffCheck(p, w) ==
    \/ w.rel.vals # HelmValues(p, p.reset /\ ~p.replace, w.rel.vals)
    \/ w.rel.chart # ChartVersion(p, w)

\* Helm diff knows --repo since 3.4.1, here version 2.
DiffUsable(p, w) == w.diff # 0 /\ (p.url => w.diff >= 2)

-----------------------------------------------------------------------------
\* run_repo_update, in check mode too.
UpdateRepoCache ==
    /\ task.mod \in {"helm", "helm_template"} /\ task.pc = "start"
    /\ IF task.p.update THEN Do(Goto(task, "list"), [world EXCEPT !.cache = world.up]) ELSE Look(Goto(task, "list"))

\* get_release_status, and the decision if the release shall be absent.
GetReleaseStatus ==
    /\ At("helm", "list")
    /\ LET absent == task.p.state = "absent"
           rel == Listed(world, absent)
           t == [task EXCEPT !.loc = [rel |-> rel]]
       IN  Look(CASE ~Reaches(task.p, world) -> Fail(task)
                  [] Reaches(task.p, world) /\ ~absent -> Goto(t, "chart")
                  [] Reaches(task.p, world) /\ absent ->
                       IF rel = None \/ (rel # None /\ rel.status = "uninstalled") THEN Exit(t)
                       ELSE IF task.p.replace THEN Fail(t)
                       ELSE Unless(Changed(t), "uninstall", Exit(Changed(t))))

\* fetch_chart_info and run_dep_update, which fetches in check mode too.
FetchChart ==
    /\ At("helm", "chart")
    /\ LET p == task.p
           outdated == p.dep /\ world.deps # "none"
       IN  IF ChartVersion(p, world) = 0 \/ (outdated /\ p.url /\ ~p.replace) \/ SetValuesRefused(p, world)
           THEN Look(Fail(task))
           ELSE Do(Goto([task EXCEPT !.loc = [rel |-> @.rel, chart |-> ChartVersion(p, world)]], "decide"),
                   IF outdated /\ ~p.url THEN [world EXCEPT !.deps = "fetched"] ELSE world)

\* main: a release that is missing is deployed, another one if it would change.
DecideRelease ==
    /\ At("helm", "decide")
    /\ LET p == task.p
           diff == DiffUsable(p, world)
           would == IF diff THEN HelmDiffCheck(p, world) ELSE DefaultCheck(p, task.loc.rel, task.loc.chart)
       IN  Look(IF task.loc.rel = None THEN Unless(Changed(task), "deploy", Exit(Changed(task)))
                ELSE IF diff /\ world.rel = None THEN Fail(task)
                ELSE IF p.force \/ would THEN Unless(Changed(task), "deploy", Exit(Changed(task)))
                ELSE Exit(task))

\* What helm install and helm upgrade -i refuse.
DeployRefused(p, w) ==
    \/ ChartVersion(p, w) = 0
    \/ w.rel = None /\ ~w.ns /\ ~p.createns
    \/ w.rel # None /\ (w.rel.status = "pending" \/ (p.replace /\ w.rel.status = "deployed"))
    \/ w.rel # None /\ w.rel.status = "uninstalled" /\ ~p.replace /\ w.helm < 11

\* deploy: the command is run with the chart the repository has by now.
Deployed(p, w, status) ==
    LET fresh == w.rel = None \/ p.replace \/ (w.rel # None /\ w.rel.status = "uninstalled")
    IN  [chart |-> ChartVersion(p, w), status |-> status,
         vals |-> IF fresh THEN GivenValues(p) ELSE HelmValues(p, p.reset, w.rel.vals)]

Deploy ==
    /\ At("helm", "deploy")
    /\ LET p == task.p IN
         IF DeployRefused(p, world) THEN Look(Fail(task))
         ELSE Do(Exit(task), [world EXCEPT !.rel = Deployed(p, world, "deployed"), !.ns = TRUE])

\* The release does not come up: --atomic undoes the deployment, otherwise a
\* failed release stays.  Without --wait helm does not notice.
DeployBreaks ==
    /\ At("helm", "deploy") /\ others > 0
    /\ LET p == task.p IN
         /\ p.wait \/ p.atomic
         /\ ~DeployRefused(p, world)
         /\ others' = others - 1
         /\ task' = [Fail(task) EXCEPT !.calm = FALSE, !.wrote = TRUE]
         /\ world' = IF p.atomic THEN world ELSE [world EXCEPT !.rel = Deployed(p, world, "failed"), !.ns = TRUE]

\* delete.
Uninstall ==
    /\ At("helm", "uninstall")
    /\ IF world.rel = None THEN Look(Fail(task))
       ELSE Do(Exit(task), IF task.p.purge THEN [world EXCEPT !.rel = None]
                           ELSE [world EXCEPT !.rel.status = "uninstalled"])

\* get_repository_status, install_repository and delete_repository.
CheckRepository ==
    /\ At("helm_repository", "start")
    /\ LET p == task.p IN
         Look(IF p.state = "absent"
              THEN IF world.repo = 0 THEN Exit(task) ELSE Unless(Changed(task), "repo", Exit(Changed(task)))
              ELSE IF world.repo = 0 \/ p.force THEN Unless(Changed(task), "repo", Exit(Changed(task)))
              ELSE IF world.repo # p.src THEN Fail(task)
              ELSE Exit(task))

AlterRepository ==
    /\ At("helm_repository", "repo")
    /\ LET p == task.p IN
         IF p.state = "absent"
         THEN IF world.repo = 0 THEN Look(Fail(task)) ELSE Do(Exit(task), [world EXCEPT !.repo = 0])
         ELSE IF world.repo \notin {0, p.src} /\ ~p.force THEN Look(Fail(task))
         ELSE Do(Exit(task), [world EXCEPT !.repo = p.src])

\* helm_plugin: present installs without a look, absent and latest look first.
CheckPlugin ==
    /\ At("helm_plugin", "start")
    /\ LET state == task.p.state IN
         Look(IF state # "present" /\ world.plugin = 0 THEN Exit(task)
              ELSE Unless(task, "plugin", Exit(Changed(task))))

AlterPlugin ==
    /\ At("helm_plugin", "plugin")
    /\ LET state == task.p.state IN
         CASE state = "present" /\ world.plugin # 0 -> Look(Exit(task))
           [] state = "present" /\ world.plugin = 0 -> Do(Exit(Changed(task)), [world EXCEPT !.plugin = 2])
           [] state # "present" /\ world.plugin = 0 -> Look(Fail(task))
           [] state = "absent" /\ world.plugin # 0 -> Do(Exit(Changed(task)), [world EXCEPT !.plugin = 0])
           [] state = "latest" /\ world.plugin # 0 -> Do(Exit(Changed(task)), [world EXCEPT !.plugin = 3])

\* helm_pull: options have the helm version they need; an unpacked chart is not
\* overwritten.
PullChart ==
    /\ At("helm_pull", "start")
    /\ LET p == task.p
           tooOld == (p.cafile /\ world.helm < 1) \/ (p.skiptls /\ world.helm < 3)
       IN  IF tooOld THEN Look(Fail(task))
           ELSE IF Check(task) THEN Look(Exit(Changed(task)))
           ELSE IF ChartVersion(p, world) = 0 \/ (p.untar /\ world.out # 0) THEN Look(Fail(task))
           ELSE Do(Exit(Changed(task)), [world EXCEPT !.out = ChartVersion(p, world)])

\* helm_template, with or without an output directory.
TemplateChart ==
    /\ At("helm_template", "list")
    /\ LET p == task.p IN
         IF SetValuesRefused(p, world) THEN Look(Fail(task))
         ELSE IF Check(task) THEN Look(Exit(Changed(task)))
         ELSE IF ChartVersion(p, world) = 0 THEN Look(Fail(task))
         ELSE Do(Exit(Changed(task)), IF p.outdir THEN [world EXCEPT !.out = ChartVersion(p, world)] ELSE world)

\* helm_info tells of the release it lists, helm_plugin_info that it changed
\* something.
ReadRelease == At("helm_info", "start") /\ Look(IF Reaches(task.p, world) THEN Exit(task) ELSE Fail(task))
ReadPlugins == At("helm_plugin_info", "start") /\ Look(Exit(Changed(task)))

\* A chart is published, or somebody else deploys or uninstalls the release,
\* adds another repository under the name, or installs the plugin.
OthersAlterHelm ==
    /\ task.mod \in HelmModules /\ task.pc # "over"
    /\ \/ OthersMake([world EXCEPT !.up = 3, !.cache = 3])
       \/ OthersMake([world EXCEPT !.rel = [chart |-> 1, vals |-> Unset, status |-> "deployed"]])
       \/ OthersMake([world EXCEPT !.rel = None])
       \/ OthersMake([world EXCEPT !.repo = IF @ = 0 THEN 2 ELSE 0, !.plugin = IF @ = 0 THEN 2 ELSE 0])

HelmNext ==
    \/ UpdateRepoCache \/ GetReleaseStatus \/ FetchChart \/ DecideRelease \/ Deploy \/ DeployBreaks \/ Uninstall
    \/ CheckRepository \/ AlterRepository \/ CheckPlugin \/ AlterPlugin \/ PullChart \/ TemplateChart
    \/ ReadRelease \/ ReadPlugins \/ OthersAlterHelm

-----------------------------------------------------------------------------
\* Without helm diff, values that are merged or set one by one are compared with
\* something else than what the release got.
HelmCoarse(p, w) ==
    ~DiffUsable(p, w) /\ ((p.files # Unset /\ p.vals # Unset) \/ p.set # Unset \/ ~p.reset)

\* The goal of a task.  A failed release counts as present.
HelmGoal(mod, p, w) ==
    CASE mod = "helm" ->
           IF p.state = "absent" THEN w.rel = None \/ w.rel.status = "uninstalled"
           ELSE \/ HelmCoarse(p, w)
                \/ /\ w.rel # None /\ w.rel.status \in {"deployed", "failed"}
                   /\ w.rel.chart = ChartVersion(p, w)
                   /\ w.rel.vals = HelmValues(p, p.reset, w.rel.vals)
      [] mod = "helm_repository" -> w.repo = (IF p.state = "absent" THEN 0 ELSE p.src)
      [] mod = "helm_plugin" ->
           w.plugin \in [present |-> {1, 2, 3}, absent |-> {0}, latest |-> {0, 3}][p.state]
      [] mod \in {"helm_pull", "helm_template"} -> (mod = "helm_pull" \/ p.outdir) => w.out = ChartVersion(p, w)
      [] mod \in {"helm_info", "helm_plugin_info"} -> TRUE

\* Tasks that report a change every time.
HelmForced(mod, p, w) ==
    \/ mod = "helm" /\ (p.force \/ HelmCoarse(p, w))
    \/ mod = "helm_repository" /\ p.state = "present" /\ p.force
    \/ mod = "helm_plugin" /\ p.state = "latest"
    \/ mod \in {"helm_pull", "helm_template", "helm_plugin_info"}

\* The index of a repository and the dependencies of a chart are fetched in
\* check mode too, and before it is known whether the release will change.
HelmFetches(mod, p) == mod \in {"helm", "helm_template"} /\ (p.update \/ (mod = "helm" /\ p.dep))
\* The installation of a plugin is foretold without a look.
HelmGuesses(mod, p) == mod = "helm_plugin" /\ p.state = "present"
=============================================================================
