---------------------------- MODULE DockerEngine ----------------------------
(***************************************************************************)
(* docker_volume, docker_plugin, docker_login, docker_prune and            *)
(* docker_container_exec, one action per request to the daemon, to the     *)
(* registry or to the file of credentials.                                 *)
(***************************************************************************)
EXTENDS TaskRuns

EngineModules == {"docker_volume", "docker_plugin", "docker_login", "docker_prune", "docker_container_exec"}

\* The parameters of each module.
VolumeParams ==
    [state : {"present", "absent"}, driver : STRING, opt : STRING, label : STRING,
     recreate : {"never", "options-changed", "always"}]
PluginParams == [state : {"present", "absent", "enable", "disable"}, opt : STRING, force : BOOLEAN]
LoginParams == [state : {"present", "absent"}, cred : Nat \X Nat, reauth : BOOLEAN]
PruneParams ==
    [kinds : SUBSET {"containers", "images", "networks", "volumes", "builder_cache"}, size : {"none", "bad"}]
ExecParams == [detach : BOOLEAN, stdin : BOOLEAN]
EngineParamsOf(mod) ==
    CASE mod = "docker_volume" -> VolumeParams [] mod = "docker_plugin" -> PluginParams
      [] mod = "docker_login" -> LoginParams [] mod = "docker_prune" -> PruneParams
      [] mod = "docker_container_exec" -> ExecParams

\* The task goes on at pc and reports a change; a check ends here.
ToChange(pc) == Unless(Changed(task), pc, Exit(Changed(task)))

-----------------------------------------------------------------------------
(* docker_volume: w.vol is the volume, w.used that a container mounts it.   *)
(* An option or a label is "unset", empty or has a value.                   *)

\* has_different_config: an option without a value always differs.
VolumeDiffers(p, v) ==
    \/ p.driver # v.driver
    \/ p.opt # "unset" /\ (v.opt \in {"unset", ""} \/ p.opt # v.opt)
    \/ p.label # "unset" /\ p.label # v.label

\* get_existing_volume and the decisions of present and absent.
FindVolume ==
    /\ At("docker_volume", "start")
    /\ LET p == task.p
           v == world.vol
       IN  Look(CASE v = None /\ p.state = "absent" -> Exit(task)
                  [] v = None /\ p.state = "present" -> ToChange("create")
                  [] v # None /\ p.state = "absent" -> ToChange("remove")
                  [] v # None /\ p.state = "present" ->
                       IF p.recreate = "always" \/ (p.recreate = "options-changed" /\ VolumeDiffers(p, v))
                       THEN ToChange("remove") ELSE Exit(task))

\* remove_volume; a volume that is gone or in use is not removed.
RemoveVolume ==
    /\ At("docker_volume", "remove")
    /\ IF world.vol = None \/ world.used THEN Look(Fail(task))
       ELSE Do(IF task.p.state = "absent" THEN Exit(task) ELSE Goto(task, "create"), [world EXCEPT !.vol = None])

\* create_volume; the daemon answers with a volume of this name and driver
\* that has appeared meanwhile.
CreateVolume ==
    /\ At("docker_volume", "create")
    /\ LET p == task.p IN
         CASE world.vol = None ->
                Do(Exit(task), [world EXCEPT !.vol = [driver |-> p.driver, opt |-> p.opt, label |-> p.label]])
           [] world.vol # None -> Look(IF world.vol.driver = p.driver THEN Exit(task) ELSE Fail(task))

VolumeMet(p, w) ==
    IF p.state = "absent" THEN w.vol = None
    ELSE w.vol # None /\ (p.recreate # "never" => ~VolumeDiffers(p, w.vol) \/ p.opt = "")

-----------------------------------------------------------------------------
(* docker_plugin: w.plug is the plugin with its option, w.remote says that  *)
(* the registry has it.                                                     *)

\* has_different_config: an option without a value always differs.
PluginDiffers(p, g) == p.opt # "unset" /\ (p.opt = "" \/ p.opt # g.opt)

\* get_existing_plugin, and present, absent, enable or disable.
FindPlugin ==
    /\ At("docker_plugin", "start")
    /\ LET p == task.p
           g == world.plug
       IN  Look(CASE g = None ->
                       (CASE p.state \in {"present", "enable"} -> ToChange("pull")
                          [] p.state = "absent" -> Exit(task)
                          [] p.state = "disable" -> Fail(task))
                  [] g # None ->
                       (CASE p.state = "present" -> IF PluginDiffers(p, g) THEN ToChange("set") ELSE Exit(task)
                          [] p.state = "absent" -> ToChange("delete")
                          [] p.state \in {"enable", "disable"} ->
                               IF g.on = (p.state = "enable") THEN Exit(task) ELSE ToChange("switch")))

\* What follows the installation.
Installed(t) == IF t.p.state = "enable" THEN Goto(t, "switch") ELSE Exit(t)

\* install_plugin: the plugin is pulled, with its options as they come.
PullPlugin ==
    /\ At("docker_plugin", "pull")
    /\ IF ~world.remote \/ world.plug # None THEN Look(Fail(task))
       ELSE Do(IF task.p.opt # "unset" THEN Goto(task, "set") ELSE Installed(task),
               [world EXCEPT !.plug = [on |-> FALSE, opt |-> "default"]])

\* The options are set, at the end of install_plugin and in update_plugin; the
\* daemon refuses that for a plugin that is enabled.
SetPlugin ==
    /\ At("docker_plugin", "set")
    /\ IF world.plug = None \/ (world.plug # None /\ world.plug.on) THEN Look(Fail(task))
       ELSE Do(Installed(task), [world EXCEPT !.plug.opt = task.p.opt])

\* enable and disable; the daemon refuses what has been done already.
SwitchPlugin ==
    /\ At("docker_plugin", "switch")
    /\ LET on == task.p.state = "enable" IN
         IF world.plug = None \/ (world.plug # None /\ world.plug.on = on) THEN Look(Fail(task))
         ELSE Do(Exit(task), [world EXCEPT !.plug.on = on])

\* remove_plugin; an enabled plugin has to be forced out.
DeletePlugin ==
    /\ At("docker_plugin", "delete")
    /\ IF world.plug = None \/ (world.plug # None /\ world.plug.on /\ ~task.p.force) THEN Look(Fail(task))
       ELSE Do(Exit(task), [world EXCEPT !.plug = None])

PluginMet(p, w) ==
    CASE p.state = "absent" -> w.plug = None
      [] p.state = "present" -> w.plug # None /\ (p.opt = "unset" \/ w.plug.opt = p.opt)
      [] p.state \in {"enable", "disable"} -> w.plug # None /\ w.plug.on = (p.state = "enable")

-----------------------------------------------------------------------------
(* docker_login: w.file is the file of credentials ("none", "bad" when it   *)
(* cannot be parsed, or "good"), with the entry for the registry under the  *)
(* name the task uses (mine), under its host name (host), and one for       *)
(* another registry (other); w.helper is what a credential helper keeps, if *)
(* the file names one (w.file.helper).  An entry is a user and a password,  *)
(* <<0, 0>> if there is none; w.accepts are those the registry accepts.     *)

NoEntry == <<0, 0>>
EmptyFile == [kind |-> "good", helper |-> FALSE, mine |-> NoEntry, host |-> NoEntry, other |-> NoEntry]

\* load_config: an unreadable file is an empty one.
LoadConfig(f) == IF f.kind = "good" THEN f ELSE EmptyFile

\* resolve_authconfig, as _login uses it: the entry of a helper has capitalised
\* keys, in which _login finds no user; the host name is looked up first.
ResolveAuth(c, helper) ==
    IF c.helper /\ helper # NoEntry THEN NoEntry ELSE IF c.host # NoEntry THEN c.host ELSE c.mine

\* _login: credentials of this user spare the request to the registry, unless
\* the password differs; logout asks nobody.
ReadAuth ==
    /\ At("docker_login", "start")
    /\ LET p == task.p
           c == ResolveAuth(LoadConfig(world.file), world.helper)
       IN  Look(Goto(task, IF p.state = "present" /\ (p.reauth \/ c # p.cred) THEN "auth" ELSE "store"))

\* The registry is asked, in check mode too.
Authenticate ==
    /\ At("docker_login", "auth")
    /\ Look(IF task.p.cred \in world.accepts THEN Goto(task, "store") ELSE Fail(task))

\* get_credential_store_instance and get: the helper or the whole file as it is
\* now; update_credentials and logout decide.
ReadStore ==
    /\ At("docker_login", "store")
    /\ LET p == task.p
           c == LoadConfig(world.file)
           found == IF c.helper THEN world.helper ELSE c.mine
           t == [task EXCEPT !.loc = c]
       IN  Look(IF IF p.state = "present" THEN found # p.cred \/ p.reauth ELSE found # NoEntry
                THEN Unless(Changed(t), "write", Exit(Changed(t))) ELSE Exit(t))

\* store and erase: the helper changes its entry, the file is written anew as
\* it was read.
WriteStore ==
    /\ At("docker_login", "write")
    /\ LET cred == IF task.p.state = "present" THEN task.p.cred ELSE NoEntry IN
         Do(Exit(task), IF task.loc.helper THEN [world EXCEPT !.helper = cred]
                        ELSE [world EXCEPT !.file = [task.loc EXCEPT !.mine = cred]])

LoginMet(p, w) ==
    (IF LoadConfig(w.file).helper THEN w.helper ELSE LoadConfig(w.file).mine) =
        (IF p.state = "present" THEN p.cred ELSE NoEntry)

-----------------------------------------------------------------------------
(* docker_prune: w.garbage are the kinds of which something is unused,      *)
(* w.held those of which a stopped container uses something.                *)

PruneOrder == <<"containers", "images", "networks", "volumes", "builder_cache">>

\* The requests that are left, in the order of main.
PruneLeft(p, n) == {i \in n + 1 .. Len(PruneOrder) : PruneOrder[i] \in p.kinds}

\* main: without a check mode; the size to keep must be one.
StartPrune ==
    /\ At("docker_prune", "start")
    /\ Look(IF Check(task) THEN Skip(task)
            ELSE IF task.p.size = "bad" THEN Fail(task)
            ELSE Remember(task, [done |-> 0], "prune"))

\* Mutant: only what the last request removes counts.
PruneLastCounts ==
    /\ At("docker_prune", "prune")
    /\ LET left == PruneLeft(task.p, task.loc.done) IN
         IF left = {} THEN Look(Exit(task))
         ELSE LET i == CHOOSE x \in left : \A y \in left : x <= y
                  kind == PruneOrder[i]
                  t == [task EXCEPT !.loc.done = i, !.changed = kind \in world.garbage]
                  freed == IF kind = "containers" THEN world.held ELSE {}
              IN  IF kind \in world.garbage
                  THEN Do(t, [world EXCEPT !.garbage = (@ \ {kind}) \cup freed, !.held = @ \ freed])
                  ELSE Look(t)

\* One request per kind; what it removes counts as a change.
Prune ==
    /\ At("docker_prune", "prune")
    /\ LET left == PruneLeft(task.p, task.loc.done) IN
         IF left = {} THEN Look(Exit(task))
         ELSE LET i == CHOOSE x \in left : \A y \in left : x <= y
                  kind == PruneOrder[i]
                  t == [task EXCEPT !.loc.done = i]
                  freed == IF kind = "containers" THEN world.held ELSE {}
              IN  IF kind \in world.garbage
                  THEN Do(Changed(t), [world EXCEPT !.garbage = (@ \ {kind}) \cup freed, !.held = @ \ freed])
                  ELSE Look(t)

\* Everything asked for is gone, what only a stopped container kept included.
PruneMet(p, w) == w.garbage \cap p.kinds = {}

-----------------------------------------------------------------------------
(* docker_container_exec: w.cont is the container, w.ran counts what it was *)
(* made to run.                                                             *)

\* main: the parameters, and the request that prepares the command.
CreateExec ==
    /\ At("docker_container_exec", "start")
    /\ Look(IF Check(task) THEN Skip(task)
            ELSE IF (task.p.detach /\ task.p.stdin) \/ world.cont # "running" THEN Fail(task)
            ELSE Goto(task, "exec"))

\* The request that starts it; unless detached its outcome is asked for.
StartExec ==
    /\ At("docker_container_exec", "exec")
    /\ IF world.cont # "running" THEN Look(Fail(task))
       ELSE Do(IF task.p.detach THEN Exit(Changed(task)) ELSE Goto(task, "result"), [world EXCEPT !.ran = @ + 1])

InspectExec ==
    /\ At("docker_container_exec", "result")
    /\ Look(IF world.cont = "none" THEN Fail(task) ELSE Exit(Changed(task)))

-----------------------------------------------------------------------------
\* Others remove and create the volume or the plugin, store credentials of
\* theirs, leave garbage, pause or remove the container.
OthersUseEngine ==
    /\ task.pc # "over"
    /\ CASE task.mod = "docker_volume" ->
              \/ OthersMake([world EXCEPT !.vol = None])
              \/ OthersMake([world EXCEPT !.vol = [driver |-> "nfs", opt |-> "unset", label |-> "unset"]])
         [] task.mod = "docker_plugin" ->
              \/ OthersMake([world EXCEPT !.plug = None])
              \/ OthersMake([world EXCEPT !.plug = [on |-> TRUE, opt |-> "y"]])
         [] task.mod = "docker_login" ->
              \/ OthersMake([world EXCEPT !.file = [LoadConfig(@) EXCEPT !.other = <<2, 1>>]])
              \/ OthersMake([world EXCEPT !.accepts = {}])
         [] task.mod = "docker_prune" -> OthersMake([world EXCEPT !.garbage = @ \cup {"images"}])
         [] task.mod = "docker_container_exec" ->
              \E c \in {"paused", "none"} : OthersMake([world EXCEPT !.cont = c])
         [] task.mod \notin EngineModules -> FALSE

EngineNext ==
    \/ FindVolume \/ RemoveVolume \/ CreateVolume
    \/ FindPlugin \/ PullPlugin \/ SetPlugin \/ SwitchPlugin \/ DeletePlugin
    \/ ReadAuth \/ Authenticate \/ ReadStore \/ WriteStore
    \/ StartPrune \/ Prune \/ CreateExec \/ StartExec \/ InspectExec \/ OthersUseEngine

EngineGoal(mod, p, w) ==
    CASE mod = "docker_volume" -> VolumeMet(p, w)
      [] mod = "docker_plugin" -> PluginMet(p, w)
      [] mod = "docker_login" -> LoginMet(p, w)
      [] mod = "docker_prune" -> PruneMet(p, w)
      [] mod = "docker_container_exec" -> w.ran > 0

\* Options without a value differ every time, a forced login and a command are
\* repeated.
EngineForced(mod, p) ==
    CASE mod = "docker_volume" -> p.recreate = "always" \/ p.opt = ""
      [] mod = "docker_plugin" -> p.opt = ""
      [] mod = "docker_login" -> p.reauth
      [] mod = "docker_prune" -> FALSE
      [] mod = "docker_container_exec" -> TRUE
=============================================================================
