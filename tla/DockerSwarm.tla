---------------------------- MODULE DockerSwarm ----------------------------
(***************************************************************************)
(* The swarm modules of community.docker: docker_secret and docker_config, *)
(* docker_node, docker_swarm and docker_swarm_service.                     *)
(*                                                                         *)
(* Names are numbers: 0 is the name s of the task, n > 0 its version s_vn, *)
(* and Vault a name of somebody else that also begins with s_v.  Options   *)
(* with the same rule of comparison are one option.  The managers of the   *)
(* swarm are not code of this repository: they keep one version number per *)
(* object and refuse an update that names another, refuse to remove what   *)
(* is in use, and merge the options of a swarm but replace those of a      *)
(* service.                                                                *)
(***************************************************************************)
EXTENDS TaskRuns, ServiceOptions

Vault == -1
Objects == {"docker_secret", "docker_config"}
MaxVersions == 4        \* bound on the versions of a secret

OldestOf(S) == CHOOSE o \in S : \A x \in S : o.ver <= x.ver
NewestOf(S) == CHOOSE o \in S : \A x \in S : x.ver <= o.ver

-----------------------------------------------------------------------------
(***************************************************************************)
(* docker_secret and docker_config.  An object has a name, the version of  *)
(* its label ansible_version (0: none), the data its label ansible_key     *)
(* tells (0: no label), other labels, and for a config a template driver.  *)
(***************************************************************************)

\* The parameters; dict tells of the library that is installed.
SecretParams ==
    [state : {"present", "absent"}, data : Nat, lab : Nat, force : BOOLEAN, rolling : BOOLEAN, keep : Int, tpl : {0},
     dict : BOOLEAN]
ConfigParams ==
    [state : {"present", "absent"}, data : Nat, lab : Nat, force : BOOLEAN, rolling : BOOLEAN, keep : Int, tpl : Nat,
     dict : BOOLEAN]

AtObject(pc) == task.mod \in Objects /\ task.pc = pc

\* get_secret, get_config: the list that the filter by name leaves.
FoundObjects(p, w) == {o \in w.objs : IF p.rolling THEN o.name # 0 ELSE o.name = 0}

\* present: does the newest object differ from the parameters?
ObjectDiffers(p, o) ==
    \/ o.key # 0 /\ o.key # p.data
    \/ p.lab # 0 /\ p.lab # o.lab
ConfigDiffers(p, o) == ObjectDiffers(p, o) \/ o.tpl # p.tpl

\* Mutant: a check removes old versions too.
TrimInCheck(t) == IF t.p.rolling /\ t.p.keep >= 0 THEN Goto(t, "trim") ELSE Exit(t)
\* remove_old_versions comes last, except in check mode.
Trim(t) == IF t.p.rolling /\ t.p.keep >= 0 /\ ~Check(t) THEN Goto(t, "trim") ELSE Exit(t)

\* __call__ up to the first request that changes anything.
ListObjects ==
    /\ AtObject("start")
    /\ LET p == task.p
           S == FoundObjects(p, world)
           t == [task EXCEPT !.loc = [list |-> S, todo |-> S, ver |-> IF S = {} THEN 0 ELSE NewestOf(S).ver]]
           remove == Unless(Changed(t), "remove", Exit(Changed(t)))
           create == Unless(Changed(t), "create", Exit(Changed(t)))
           differs == IF task.mod = "docker_config" THEN ConfigDiffers(p, NewestOf(S)) ELSE ObjectDiffers(p, NewestOf(S))
       IN  Look(IF p.state = "absent" THEN IF S = {} THEN Exit(t) ELSE remove
                ELSE IF S = {} THEN create
                ELSE IF differs \/ p.force
                THEN IF p.rolling THEN create ELSE remove
                ELSE Trim(t))

\* remove_secret, remove_config: what is gone or in use is an error.
RemovableIn(o, w) == o \in w.objs /\ ~o.used

\* absent: the objects found are removed one after the other.
RemoveObject ==
    /\ AtObject("remove")
    /\ LET o == OldestOf(task.loc.todo)
           t == [task EXCEPT !.loc.todo = @ \ {o}]
       IN  IF ~RemovableIn(o, world) THEN Look(Fail(task))
           ELSE Do(IF t.loc.todo # {} THEN t ELSE IF t.p.state = "absent" THEN Exit(t) ELSE Goto(t, "create"),
                   [world EXCEPT !.objs = @ \ {o}])

\* create_secret: the version after the newest one, with its labels.
NewObject(p, v) == [name |-> v, ver |-> v, key |-> p.data, lab |-> p.lab, used |-> FALSE, tpl |-> p.tpl]

\* create_secret, create_config.  The library may answer with a dictionary
\* (p.dict), which the filter by id that follows does not match.
CreateObject ==
    /\ AtObject("create")
    /\ LET p == task.p
           v == IF p.rolling THEN task.loc.ver + 1 ELSE 0
           o == NewObject(p, v)
       IN  IF \E x \in world.objs : x.name = v THEN Look(Fail(task))
           ELSE Do(Trim([task EXCEPT !.loc.list = IF p.dict THEN @ ELSE @ \cup {o}]),
                   [world EXCEPT !.objs = @ \cup {o}])

\* remove_old_versions.
TrimObjects ==
    /\ AtObject("trim")
    /\ LET S == task.loc.list
           o == OldestOf(S)
           enough == IF task.p.keep > 1 THEN task.p.keep ELSE 1
       IN  IF Cardinality(S) <= enough THEN Look(Exit(task))
           ELSE IF ~RemovableIn(o, world) THEN Look(Fail(task))
           ELSE Do([task EXCEPT !.loc.list = @ \ {o}], [world EXCEPT !.objs = @ \ {o}])

\* Somebody else removes a version, or makes the next one.
OthersAlterObjects ==
    /\ task.mod \in Objects
    /\ \/ \E o \in world.objs : OthersMake([world EXCEPT !.objs = @ \ {o}])
       \/ \E n \in 1 .. MaxVersions :
             /\ \A o \in world.objs : o.name < n
             /\ OthersMake([world EXCEPT !.objs = @ \cup
                    {[name |-> n, ver |-> n, key |-> 2, lab |-> 0, used |-> FALSE, tpl |-> 0]}])

ObjectMet(p, w) ==
    LET S == FoundObjects(p, w)
    IN  IF p.state = "absent" THEN S = {}
        ELSE S # {} /\ NewestOf(S).key \in {0, p.data} /\ p.lab \in {0, NewestOf(S).lab}

-----------------------------------------------------------------------------
(***************************************************************************)
(* docker_node.  A label has a value, is empty (""), or is not there       *)
(* ("none"); p.labels says "none" of the labels it does not mention.       *)
(***************************************************************************)

NodeParams ==
    [role : {"", "manager", "worker"}, av : {"", "active", "pause", "drain"}, mode : {"merge", "replace"}, given : BOOLEAN,
     labels : [{"a", "b"} -> STRING], remove : SUBSET {"a", "b"}]

Truthy(v) == v \notin {"none", ""}

\* node_update: the labels the node is to have.
NodeLabels(p, old) ==
    IF p.mode = "replace" THEN [k \in DOMAIN old |-> IF p.given THEN p.labels[k] ELSE "none"]
    ELSE [k \in DOMAIN old |->
             LET v == IF p.given /\ p.labels[k] # "none" THEN p.labels[k] ELSE old[k]
             IN  IF k \in p.remove /\ ~(p.given /\ Truthy(p.labels[k])) /\ Truthy(v) THEN "none" ELSE v]

NodeWanted(p, n) ==
    [role |-> IF p.role = "" THEN n.role ELSE p.role, av |-> IF p.av = "" THEN n.av ELSE p.av,
     labels |-> NodeLabels(p, n.labels)]

\* The node is inspected; only a manager is asked, and only while the node it
\* runs on is not down.
InspectNode ==
    /\ At("docker_node", "start")
    /\ LET n == world.node
           want == NodeWanted(task.p, n)
           t == Remember(task, n, "put")
       IN  Look(IF ~world.manager \/ world.down \/ n = None THEN Fail(task)
                ELSE IF want = [role |-> n.role, av |-> n.av, labels |-> n.labels] THEN Exit(t)
                ELSE IF Check(t) THEN Exit(Changed(t)) ELSE Changed(t))

\* update_node with the version that was read.
UpdateNode ==
    /\ At("docker_node", "put")
    /\ LET want == NodeWanted(task.p, task.loc)
       IN  IF world.node = None \/ world.node.ver # task.loc.ver THEN Look(Fail(task))
           ELSE Do(Exit(task), [world EXCEPT !.node = [role |-> want.role, av |-> want.av, labels |-> want.labels,
                                                       ver |-> @.ver + 1]])

OthersAlterNode ==
    /\ task.mod = "docker_node"
    /\ world.node # None
    /\ \/ OthersMake([world EXCEPT !.node.labels["a"] = "y", !.node.ver = @ + 1])
       \/ OthersMake([world EXCEPT !.node = None])

NodeMet(p, w) ==
    /\ p.role \in {"", w.node.role} /\ p.av \in {"", w.node.av}
    /\ p.given => \A k \in DOMAIN p.labels : p.labels[k] \in {"none", w.node.labels[k]}
    /\ \A k \in p.remove : p.mode = "merge" /\ ~(p.given /\ Truthy(p.labels[k])) => ~Truthy(w.node.labels[k])

-----------------------------------------------------------------------------
(***************************************************************************)
(* docker_swarm.  What the host is in the swarm (st), the options that are *)
(* compared (conf), and the state of another node (peer).                  *)
(***************************************************************************)

SwarmParams ==
    [state : {"present", "join", "absent", "remove"}, force : BOOLEAN, conf : Nat, ca : BOOLEAN, rotate : BOOLEAN]

AsChanged(t, pc) == Unless(Changed(t), pc, Exit(Changed(t)))

\* compare_to_active: certificates are never read back, tokens are rotated on
\* demand, both count as differences.
SwarmDiffers(p, s) == p.conf \notin {0, s.conf} \/ p.ca \/ p.rotate

\* __call__: init_swarm, __update_swarm, join and leave look at the swarm.
LookAtSwarm ==
    /\ At("docker_swarm", "start")
    /\ LET p == task.p
           s == world.swarm
           t == [task EXCEPT !.loc = [ver |-> s.ver, tries |-> 5]]
       IN  Look(CASE p.state = "present" ->
                       IF p.force \/ s.st # "manager" THEN AsChanged(t, "init")
                       ELSE IF SwarmDiffers(p, s) THEN AsChanged(t, "update") ELSE Exit(t)
                  [] p.state = "join" -> IF s.st # "none" THEN Exit(t) ELSE AsChanged(t, "join")
                  [] p.state = "absent" -> IF s.st = "none" THEN Exit(t) ELSE AsChanged(t, "leave")
                  [] p.state = "remove" -> IF s.st # "manager" THEN Fail(t) ELSE Goto(t, "peer"))

InitSwarm ==
    /\ At("docker_swarm", "init")
    /\ IF world.swarm.st = "worker" \/ (world.swarm.st = "manager" /\ ~task.p.force) THEN Look(Fail(task))
       ELSE Do(Exit(task), [world EXCEPT !.swarm = [st |-> "manager", conf |-> task.p.conf, ver |-> @.ver + 1]])

\* update_swarm, with the version read and the options given.
UpdateSwarm ==
    /\ At("docker_swarm", "update")
    /\ IF world.swarm.st # "manager" \/ world.swarm.ver # task.loc.ver THEN Look(Fail(task))
       ELSE Do(Exit(task), [world EXCEPT !.swarm.ver = @ + 1,
                                         !.swarm.conf = IF task.p.conf = 0 THEN @ ELSE task.p.conf])

JoinOrLeaveSwarm ==
    \/ /\ At("docker_swarm", "join")
       /\ IF world.swarm.st # "none" THEN Look(Fail(task))
          ELSE Do(Exit(task), [world EXCEPT !.swarm.st = "worker"])
    \/ /\ At("docker_swarm", "leave")
       /\ IF world.swarm.st = "none" \/ (world.swarm.st = "manager" /\ ~task.p.force) THEN Look(Fail(task))
          ELSE Do(Exit(task), [world EXCEPT !.swarm = [@ EXCEPT !.st = "none", !.conf = 0]])

\* check_if_swarm_node_is_down with five looks.
LookAtPeer ==
    /\ At("docker_swarm", "peer")
    /\ Look(IF world.peer = "gone" THEN Fail(task)
            ELSE IF world.peer = "down" THEN AsChanged(task, "expel")
            ELSE IF task.loc.tries > 1 THEN [task EXCEPT !.loc.tries = @ - 1]
            ELSE Fail(task))

\* remove_node: a node that is up again needs force.
ExpelPeer ==
    /\ At("docker_swarm", "expel")
    /\ IF world.peer = "gone" \/ (world.peer = "ready" /\ ~task.p.force) THEN Look(Fail(task))
       ELSE Do(Exit(task), [world EXCEPT !.peer = "gone"])

OthersAlterSwarm ==
    /\ task.mod = "docker_swarm"
    /\ \/ world.swarm.st = "manager" /\ OthersMake([world EXCEPT !.swarm.ver = @ + 1, !.swarm.conf = 3])
       \/ \E s \in {"ready", "down"} \ {world.peer} : OthersMake([world EXCEPT !.peer = s])

SwarmMet(p, w) ==
    CASE p.state = "present" -> w.swarm.st = "manager" /\ p.conf \in {0, w.swarm.conf}
      [] p.state = "join" -> w.swarm.st # "none"
      [] p.state = "absent" -> w.swarm.st = "none"
      [] p.state = "remove" -> w.peer = "gone"

-----------------------------------------------------------------------------
(***************************************************************************)
(* docker_swarm_service.  An option is compared as a value (plain), as a   *)
(* list, which may be given and empty (lst), as the healthcheck, as the    *)
(* networks or as the secrets and configs, which are named in the          *)
(* parameters and stored by id; the others are those of ServiceOptions,    *)
(* p.opt.  A service that is global has -1 replicas.                       *)
(***************************************************************************)

ServiceParams ==
    [state : {"present", "absent"}, img : Nat, resolve : BOOLEAN, plain : Nat, lst : STRING,
     health : {"omitted", "disabled", "set"}, secret : BOOLEAN,
     mode : {"replicated", "global"}, reps : Int, force : BOOLEAN, netup : BOOLEAN]
\* Without the networks, which are missing or tell the aliases of each network,
\* and the options of ServiceOptions.
ServiceAccepted(p) == [o \in DOMAIN p \ {"nets", "opt"} |-> p[o]] \in ServiceParams

AtService(pc) == At("docker_swarm_service", pc)

\* get_image_digest: the digest the registry has for the tag, if asked for.
\* Before it, AnsibleDockerClient refuses options the API is too old for.
ResolveImage ==
    /\ AtService("start")
    /\ LET tries == IF task.loc = None THEN 2 ELSE task.loc.tries
       IN  Look(IF NeededApi(task.p.opt) > world.api THEN Fail(task)
                ELSE Remember(task, [dig |-> IF task.p.resolve THEN world.tag ELSE 0, tries |-> tries], "get"))

\* get_service.
GetService ==
    /\ AtService("get")
    /\ Look(Remember(task, [dig |-> task.loc.dig, tries |-> task.loc.tries, svc |-> world.svc], "ids"))

\* from_ansible_params: the service the parameters describe.
FromParams(p, dig, old, secret) ==
    [img |-> p.img, dig |-> dig, plain |-> p.plain, lst |-> p.lst, health |-> p.health, nets |-> p.nets,
     secret |-> IF p.secret THEN secret ELSE 0, mode |-> p.mode, opt |-> OptionsOf(p.opt),
     reps |-> IF p.reps # -1 THEN p.reps ELSE IF old = None THEN 1 ELSE old.reps]

\* has_list_changed, has_healthcheck_changed, have_networks_changed and
\* has_image_changed.
ListChanged(new, old) == new # "omitted" /\ (IF new = "empty" THEN old # "none" ELSE new # old)
HealthChanged(new, old) ==
    CASE new = "omitted" -> old # "none"
      [] new = "disabled" -> old = "set"
      [] new = "set" -> old # "set"
NetworksChanged(new, old) ==
    \E n \in new : DOMAIN n # DOMAIN old \/ \E x \in DOMAIN n : n[x] # {} /\ n[x] # {old[x]}
ImageChanged(n, o) == n.img # o.img \/ (n.dig # 0 /\ n.dig # o.dig)

\* compare: are there differences, and is a new service needed?  A difference
\* of the networks overrides what a difference of the mode has said.
ServiceDiffers(n, o) ==
    \/ n.plain \notin {0, o.plain}
    \/ ListChanged(n.lst, o.lst)
    \/ HealthChanged(n.health, o.health)
    \/ NetworksChanged(n.nets, o.nets)
    \/ n.secret \notin {0, o.secret}
    \/ n.mode # o.mode
    \/ n.reps # o.reps
    \/ ImageChanged(n, o)
    \/ OptionsDiffer(n.opt, ReadService(o.spec))
NeedsRebuild(p, n, o) == IF NetworksChanged(n.nets, o.nets) THEN ~p.netup ELSE n.mode # o.mode

\* build_networks, and the mode a service gets.
BuildNetworks(nets) ==
    LET f == CHOOSE f \in OrEmpty(nets) : TRUE
    IN  [x \in DOMAIN f |-> UNION f[x]]
BuildMode(n) == [mode |-> n.mode, reps |-> IF n.mode = "global" THEN -1 ELSE n.reps]

\* build_docker_service: what is not given is left out of the specification,
\* and so are an empty list and no networks.
Build(n, ver) ==
    [img |-> n.img, dig |-> n.dig, plain |-> n.plain, lst |-> IF n.lst \in {"omitted", "empty"} THEN "none" ELSE n.lst,
     health |-> CASE n.health = "omitted" -> "none" [] n.health = "disabled" -> "NONE" [] n.health = "set" -> "set",
     nets |-> BuildNetworks(n.nets), secret |-> n.secret, mode |-> BuildMode(n).mode, reps |-> BuildMode(n).reps,
     spec |-> Stored(BuildDockerService(n.opt)), ver |-> ver]

\* get_missing_secret_ids, get_missing_config_ids and get_networks_names_ids,
\* and what run decides then.
DecideService ==
    /\ AtService("ids")
    /\ LET p == task.p
           old == task.loc.svc
           n == FromParams(p, task.loc.dig, old, world.secret)
           t == Remember(task, [tries |-> task.loc.tries, svc |-> old, new |-> n], "ids")
       IN  Look(IF (p.secret /\ world.secret = 0) \/ UnknownNetworks(p.nets, world.nets) # {} \/ Malformed(p.opt) THEN Fail(task)
                ELSE IF p.state = "absent" THEN IF old = None THEN Exit(t) ELSE AsChanged(t, "remove")
                ELSE IF old = None THEN AsChanged(t, "create")
                ELSE IF ~ServiceDiffers(n, old) /\ ~p.force THEN Exit(t)
                ELSE AsChanged(t, IF NeedsRebuild(p, n, old) THEN "remove" ELSE "update"))

\* The swarm knows the secret the specification names.
SecretKnown(n) == n.secret \in {0, world.secret}

RemoveService ==
    /\ AtService("remove")
    /\ IF world.svc = None THEN Look(Fail(task))
       ELSE Do(IF task.p.state = "absent" THEN Exit(task) ELSE Goto(task, "create"), [world EXCEPT !.svc = None])

\* create_service: a negative number of replicas cannot be stored.
CreateService ==
    /\ AtService("create")
    /\ LET n == task.loc.new
       IN  IF world.svc # None \/ ~SecretKnown(n) \/ (n.mode = "replicated" /\ n.reps = -1) THEN Look(Fail(task))
           ELSE Do(Exit(task), [world EXCEPT !.svc = Build(n, 1)])

\* update_service, and run_safe if it was out of sequence.
UpdateService ==
    /\ AtService("update")
    /\ LET n == task.loc.new
           o == world.svc
       IN  IF o # None /\ o.ver # task.loc.svc.ver
           THEN Look(IF task.loc.tries > 0
                     THEN [task EXCEPT !.pc = "start", !.loc.tries = @ - 1, !.changed = FALSE] ELSE Fail(task))
           ELSE IF o = None \/ n.mode # o.mode \/ ~SecretKnown(n) THEN Look(Fail(task))
           ELSE Do(Exit(task), [world EXCEPT !.svc = Build(n, o.ver + 1)])

\* The service is updated by others (plain), the registry has a new image, or
\* the secret is made anew.
OthersAlterService ==
    /\ task.mod = "docker_swarm_service"
    /\ \/ world.svc # None /\ OthersMake([world EXCEPT !.svc.plain = 3, !.svc.ver = @ + 1])
       \/ world.svc # None /\ OthersMake([world EXCEPT !.svc = None])
       \/ OthersMake([world EXCEPT !.tag = 2])
       \/ world.secret # 0 /\ OthersMake([world EXCEPT !.secret = @ + 1])

\* The service is there and has what the parameters ask for.
ServiceMet(p, w) ==
    IF p.state = "absent" THEN w.svc = None
    ELSE /\ w.svc # None
         /\ w.svc.img = p.img /\ w.svc.mode = p.mode
         /\ p.resolve => w.svc.dig = w.tag
         /\ p.plain \in {0, w.svc.plain}
         /\ p.lst \in {"omitted", w.svc.lst} \/ (p.lst = "empty" /\ w.svc.lst = "none")
         /\ p.health = "set" <=> w.svc.health = "set"
         /\ \A f \in p.nets : DOMAIN f = DOMAIN w.svc.nets /\ \A x \in DOMAIN f : f[x] \subseteq {w.svc.nets[x]}
         /\ p.secret => w.svc.secret = w.secret
         /\ p.mode = "replicated" => p.reps \in {-1, w.svc.reps}
         /\ OptionsMet(p.opt, w.svc.spec)

-----------------------------------------------------------------------------
SwarmNext ==
    \/ ListObjects \/ RemoveObject \/ CreateObject \/ TrimObjects \/ OthersAlterObjects
    \/ InspectNode \/ UpdateNode \/ OthersAlterNode
    \/ LookAtSwarm \/ InitSwarm \/ UpdateSwarm \/ JoinOrLeaveSwarm \/ LookAtPeer \/ ExpelPeer \/ OthersAlterSwarm
    \/ ResolveImage \/ GetService \/ DecideService \/ RemoveService \/ CreateService \/ UpdateService
    \/ OthersAlterService

\* The goal of a task is met in the world w.
SwarmGoal(mod, p, w) ==
    CASE mod \in Objects -> ObjectMet(p, w)
      [] mod = "docker_node" -> NodeMet(p, w)
      [] mod = "docker_swarm" -> SwarmMet(p, w)
      [] mod = "docker_swarm_service" -> ServiceMet(p, w)
\* The parameters of each module.
SwarmParamsOf(mod) ==
    CASE mod = "docker_secret" -> SecretParams
      [] mod = "docker_config" -> ConfigParams
      [] mod = "docker_node" -> NodeParams
      [] mod = "docker_swarm" -> SwarmParams
SwarmModules == Objects \cup {"docker_node", "docker_swarm", "docker_swarm_service"}

\* Parameters that ask for a change every time, and a global service with a
\* number of replicas, which is never read back.
SwarmForced(mod, p) ==
    CASE mod \in Objects -> p.force
      [] mod = "docker_swarm" -> p.force \/ p.ca \/ p.rotate
      [] mod = "docker_swarm_service" -> p.force \/ (p.mode = "global" /\ p.reps # -1) \/ NeverReadBack(p.opt)
      [] mod = "docker_node" -> FALSE
=============================================================================
