----------------------------- MODULE DockerHost -----------------------------
(***************************************************************************)
(* A docker_container task and a docker_network task of                    *)
(* community.docker, at work on one Docker host at the same time.          *)
(*                                                                         *)
(* One action per request that changes the host or whose answer the task   *)
(* works on later: ContainerManager (module_utils/module_container) looks  *)
(* at the container, its image and its network, decides, and then stops,   *)
(* removes, waits, creates, updates, connects and starts, always on the    *)
(* container it last inspected; DockerNetworkManager removes and creates   *)
(* the network and reconnects what it had found there.  The container may  *)
(* exit, and other users act, between any two requests.                    *)
(*                                                                         *)
(* There is one container name ("c"), a second container "o" of somebody   *)
(* else, one network "web" beside the default "bridge", and one image tag. *)
(* The options of a container are one that forces a new container when it  *)
(* differs (conf), one that can be updated in place (lim), the network     *)
(* mode, and the endpoints with their options (alias).  The daemon is not  *)
(* code of this repository; it is modelled as the modules use it.          *)
(***************************************************************************)
EXTENDS Integers, FiniteSets

CONSTANTS
    ContainerTasks,     \* the parameters of docker_container considered
    NetworkTasks,       \* the parameters of docker_network considered
    FirstContainers,    \* what the container may be like at first, Nothing included
    MaxIds,             \* bound on containers and networks created
    MaxMoves            \* bound on acts of others and failures

VARIABLES
    con,        \* the container named "c"
    net,        \* the network named "web"
    local,      \* the image the tag stands for on the host (0: none)
    remote,     \* the image the tag stands for in the registry
    ids,        \* ids given out
    ctask,      \* the docker_container task
    ntask,      \* the docker_network task
    moves       \* acts of others left

daemonVars == <<con, net, local, remote, ids>>
hostVars == <<daemonVars, ctask, ntask, moves>>

Nothing == [none |-> TRUE]

\* The constants are what the modules and the daemon deal in: the options are those of
\* the argument specifications, a container on its way out has no endpoints, and there
\* are two containers to connect.
HostParam ==
    [state : {"present", "started", "healthy", "stopped", "absent"}, conf : Nat, lim : Nat,
     net : {"omitted", "empty", "web"}, alias : Nat, cli : BOOLEAN, cmp : {"strict", "allow", "ignore"},
     pull : {"never", "missing", "always"}, recreate : BOOLEAN, restart : BOOLEAN,
     paused : {"unset", "yes", "no"}, detach : BOOLEAN, cleanup : BOOLEAN, kill : BOOLEAN, check : BOOLEAN]
ContainerFields == {"id", "st", "hl", "conf", "lim", "img", "mode", "ends"}
ASSUME HostAssumption ==
    /\ ContainerTasks \subseteq HostParam
    /\ \A k \in FirstContainers \ {Nothing} :
          DOMAIN k = ContainerFields /\ (k.st = "removing" => "web" \notin DOMAIN k.ends)
    /\ \A p \in NetworkTasks : p.connected \subseteq {"c", "o"}

NoTask == [pc |-> "idle", p |-> Nothing, k |-> Nothing, img |-> 0, nid |-> 0, created |-> FALSE,
           changed |-> FALSE, next |-> "", todo |-> {}, calm |-> TRUE, before |-> Nothing]
NoNetworkTask == [pc |-> "idle", p |-> Nothing, ex |-> Nothing, want |-> {}, todo |-> {}, changed |-> FALSE,
                  lost |-> {}, had |-> {}]

\* Container.running and Container.paused of the answer to an inspect.
Running(k) == k # Nothing /\ k.st \in {"running", "paused"}
Paused(k) == k # Nothing /\ k.st = "paused"

Endpoint(id, alias) == [id |-> id, alias |-> alias]

\* Whether container x has an endpoint in the present network "web", and the
\* containers its inspection lists: those with a live endpoint.
Connected(x) ==
    /\ net # Nothing
    /\ \/ x = "o" /\ net.other
       \/ x = "c" /\ con # Nothing /\ "web" \in DOMAIN con.ends /\ con.ends["web"].id = net.id
Members == {x \in {"c", "o"} : Connected(x) /\ (x = "c" => Running(con))}

Drop(k, n) == [k EXCEPT !.ends = [m \in DOMAIN @ \ {n} |-> @[m]]]
Attach(k, n, e) == [k EXCEPT !.ends = [m \in DOMAIN @ \cup {n} |-> IF m = n THEN e ELSE @[m]]]

-----------------------------------------------------------------------------
(***************************************************************************)
(* What a docker_container task decides from what it has read.  Each of    *)
(* these operators takes the task's variables t to those it goes on with;  *)
(* t.pc names the next request.                                            *)
(***************************************************************************)

\* _update_params: with networks_cli_compatible the first network is the mode.
ModeOf(p) == IF p.cli /\ p.net = "web" THEN "web" ELSE "unset"

has_different_configuration(p, k) ==
    \/ p.conf # 0 /\ p.conf # k.conf
    \/ ModeOf(p) # "unset" /\ ModeOf(p) # k.mode

image_is_different(t) == t.img # 0 /\ t.img # t.k.img

has_different_resource_limits(p, k) == p.lim # 0 /\ p.lim # k.lim

has_network_differences(p, k) ==
    /\ p.net = "web"
    /\ "web" \in DOMAIN k.ends => p.alias # 0 /\ p.alias # k.ends["web"].alias

has_extra_networks(p, k) ==
    IF p.cmp = "strict" /\ p.net # "omitted"
    THEN DOMAIN k.ends \ (IF p.net = "web" THEN {"web"} ELSE {}) ELSE {}

\* The task inspects the container again and goes on with nxt.
Reget(t, nxt) == [t EXCEPT !.pc = "reget", !.next = nxt]

CFail(t) == [t EXCEPT !.pc = "failed"]

Finish(t) == [t EXCEPT !.pc = IF t.p.state = "healthy" /\ ~t.p.check THEN "healthy" ELSE "done"]

Wants(p) == p.state \in {"started", "healthy"}

\* The end of present: pause or unpause.
PauseIfAsked(t) ==
    IF Wants(t.p) /\ t.p.paused # "unset" /\ Paused(t.k) # (t.p.paused = "yes")
    THEN IF t.p.check THEN Finish([t EXCEPT !.changed = TRUE])
                      ELSE [t EXCEPT !.pc = "pause"]
    ELSE Finish(t)

\* Start, restart or stop, as the state asks for it.
StartOrStop(t) ==
    LET act == IF Wants(t.p) THEN IF ~Running(t.k) THEN "start" ELSE IF t.p.restart THEN "restart" ELSE "no"
               ELSE IF t.p.state = "stopped" /\ Running(t.k) THEN "stop" ELSE "no"
    IN  IF act = "no" THEN PauseIfAsked(t)
        ELSE IF t.p.check THEN Reget([t EXCEPT !.changed = TRUE], "pause")
        ELSE [t EXCEPT !.pc = act]

\* The networks of the container are looked at.
Compares(t) ==
    \/ t.p.net = "web" /\ (t.p.cmp # "ignore" \/ t.created)
    \/ t.p.net # "omitted" /\ t.p.cmp = "strict"

\* update_networks compares with the container as it was inspected before.
update_networks(t) ==
    LET differs == (t.p.cmp # "ignore" \/ t.created) /\ has_network_differences(t.p, t.k)
        extra == has_extra_networks(t.p, t.k)
        u == [t EXCEPT !.todo = extra, !.changed = @ \/ differs \/ extra # {}]
    IN  IF t.k = Nothing /\ Compares(t) THEN CFail(t)
        ELSE IF ~differs /\ extra = {} THEN StartOrStop(t)
        ELSE IF t.p.check THEN Reget(u, "state")
        ELSE IF ~differs THEN [u EXCEPT !.pc = "purge"]
        ELSE [u EXCEPT !.pc = IF "web" \in DOMAIN t.k.ends THEN "disconnect" ELSE "connect"]

update_limits(t) ==
    IF has_different_resource_limits(t.p, t.k) /\ ~t.p.check
    THEN [t EXCEPT !.pc = "update"] ELSE update_networks(t)

\* present, once the image is known: a new container, another one, or this one.
Decide(t) ==
    LET new == t.k = Nothing \/ t.k.st = "removing"
        u == [t EXCEPT !.changed = TRUE, !.created = TRUE]
    IN  IF new
        THEN IF t.p.check THEN IF t.k = Nothing THEN [u EXCEPT !.pc = "done"] ELSE update_limits(u)
             ELSE [u EXCEPT !.pc = IF t.k = Nothing THEN "create" ELSE "gone"]
        ELSE IF has_different_configuration(t.p, t.k) \/ image_is_different(t) \/ t.p.recreate
        THEN IF t.p.check THEN update_limits(u)
             ELSE [u EXCEPT !.pc = IF Running(t.k) THEN "stop" ELSE "remove"]
        ELSE update_limits(t)

-----------------------------------------------------------------------------
\* The container the task has inspected is still there.
Same == con # Nothing /\ ctask.k # Nothing /\ con.id = ctask.k.id

\* A request of the task on that container: it succeeds where the daemon lets it.
Request(pc, ok, changed, then) ==
    /\ ctask.pc = pc
    /\ IF ok THEN con' = changed /\ ctask' = then ELSE con' = con /\ ctask' = CFail(ctask)
    /\ UNCHANGED <<net, local, remote, ids, moves>>

\* History: a container the docker_network task may find disconnected by somebody else.
Loses(x) == IF ntask.pc \in {"idle", "read", "over"} THEN ntask ELSE [ntask EXCEPT !.lost = @ \cup {x}]
LosesIfChanged == ntask' = IF con' # con THEN Loses("c") ELSE ntask

StartContainerTask ==
    /\ ctask.pc = "idle"
    /\ \E p \in ContainerTasks :
          ctask' = [ctask EXCEPT !.pc = IF p.state = "absent" THEN "inspect" ELSE "collect", !.p = p,
                                 !.calm = TRUE]
    /\ UNCHANGED <<daemonVars, ntask, moves>>

\* _collect_params resolves the name of the network; then the container is inspected.
CollectParams ==
    /\ ctask.pc = "collect"
    /\ ctask' = IF ctask.p.net = "web" /\ net = Nothing THEN CFail(ctask)
                ELSE [ctask EXCEPT !.pc = "inspect", !.nid = IF net = Nothing THEN 0 ELSE net.id]
    /\ UNCHANGED <<daemonVars, ntask, moves>>

Inspect ==
    /\ ctask.pc = "inspect"
    /\ LET t == [ctask EXCEPT !.k = con, !.before = [con |-> con, local |-> local]] IN
       ctask' = IF t.p.state # "absent" THEN [t EXCEPT !.pc = "image"]
                ELSE IF con = Nothing \/ t.p.check THEN [t EXCEPT !.pc = "done", !.changed = con # Nothing]
                ELSE [t EXCEPT !.pc = IF Running(con) THEN "stop" ELSE "remove"]
    /\ UNCHANGED <<daemonVars, ntask, moves>>

\* _get_image; a check claims a pull only when there is no image at all.
GetImage ==
    /\ ctask.pc = "image"
    /\ LET t == [ctask EXCEPT !.img = local] IN
       ctask' = IF local = 0 /\ t.p.pull = "never" THEN CFail(t)
                ELSE IF (local = 0 \/ t.p.pull = "always") /\ ~t.p.check THEN [t EXCEPT !.pc = "pull"]
                ELSE Decide([t EXCEPT !.changed = local = 0])
    /\ UNCHANGED <<daemonVars, ntask, moves>>

\* Mutant: a pull counts as a change although the host had that image already.
PullAlwaysChanges ==
    /\ ctask.pc = "pull"
    /\ local' = remote
    /\ ctask' = Decide([ctask EXCEPT !.img = remote, !.changed = TRUE])
    /\ UNCHANGED <<con, net, remote, ids, ntask, moves>>

PullImage ==
    /\ ctask.pc = "pull"
    /\ local' = remote
    /\ ctask' = Decide([ctask EXCEPT !.img = remote, !.changed = local # remote])
    /\ UNCHANGED <<con, net, remote, ids, ntask, moves>>

PullFails ==
    /\ ctask.pc = "pull" /\ moves > 0
    /\ moves' = moves - 1 /\ ctask' = CFail(ctask)
    /\ UNCHANGED <<daemonVars, ntask>>

\* container_stop and container_kill: before a removal, or for state=stopped.
ContainerStop ==
    /\ Request("stop", Same /\ con.st # "removing" /\ (ctask.p.kill => Running(con)),
               [con EXCEPT !.st = "exited"],
               LET t == [ctask EXCEPT !.changed = TRUE] IN
               IF t.created \/ t.p.state = "absent" THEN [t EXCEPT !.pc = "remove"] ELSE Reget(t, "pause"))
    /\ LosesIfChanged

\* A daemon that refuses to stop a paused container: the driver unpauses it and tries again.
UnpauseToStop ==
    /\ ctask.pc = "stop" /\ ~ctask.p.kill /\ Same /\ Paused(con)
    /\ con' = [con EXCEPT !.st = "running"]
    /\ UNCHANGED <<net, local, remote, ids, ctask, ntask, moves>>

\* container_remove: a container that is gone, or going, is as good as removed.  The
\* one that is removed may take a while to go.
ContainerRemove ==
    /\ ctask.pc = "remove"
    /\ IF Same /\ Running(con) /\ ctask.next # "clean"
       THEN con' = con /\ ctask' = CFail(ctask)
       ELSE /\ IF Same THEN con' \in {Nothing, [con EXCEPT !.st = "removing", !.ends = << >>]} ELSE con' = con
            /\ ctask' = LET t == [ctask EXCEPT !.changed = TRUE] IN
                        IF t.p.state = "absent" THEN [t EXCEPT !.pc = "done"]
                        ELSE IF t.next = "clean" THEN Reget(t, "pause") ELSE [t EXCEPT !.pc = "gone"]
    /\ LosesIfChanged
    /\ UNCHANGED <<net, local, remote, ids, moves>>

\* wait_for_state until the container is gone, or for removal_wait_timeout.
AwaitGone ==
    /\ ctask.pc = "gone" /\ ~Same
    /\ ctask' = [ctask EXCEPT !.pc = "create"]
    /\ UNCHANGED <<daemonVars, ntask, moves>>

WaitTimeout ==
    /\ ctask.pc \in {"gone", "healthy"} /\ Same /\ moves > 0
    /\ moves' = moves - 1 /\ ctask' = CFail(ctask)
    /\ UNCHANGED <<daemonVars, ntask>>

\* The container container_create asks for; networks are named, not resolved, here.
NewContainer(p, img) ==
    [id |-> ids + 1, st |-> "created", hl |-> "none", conf |-> p.conf, lim |-> p.lim, img |-> img,
     mode |-> IF ModeOf(p) = "web" THEN "web" ELSE "bridge",
     ends |-> IF ModeOf(p) = "web" THEN [n \in {"web"} |-> Endpoint(net.id, p.alias)]
                                   ELSE [n \in {"bridge"} |-> Endpoint(0, 0)]]

ContainerCreate ==
    /\ ctask.pc = "create" /\ ids < MaxIds
    /\ IF con = Nothing /\ (ModeOf(ctask.p) = "web" => net # Nothing) /\ local # 0
       THEN con' = NewContainer(ctask.p, local) /\ ids' = ids + 1
            /\ ctask' = Reget([ctask EXCEPT !.k = con'], "limits")
       ELSE UNCHANGED <<con, ids>> /\ ctask' = CFail(ctask)
    /\ UNCHANGED <<net, local, remote, ntask, moves>>

\* _get_container by id.  The task goes on with a container that vanished: requests on
\* its id fail, and so does a comparison of its networks.
GetContainer ==
    /\ ctask.pc = "reget"
    /\ LET t == [ctask EXCEPT !.k = IF Same THEN con ELSE Nothing] IN
       ctask' = CASE t.next = "limits" -> IF t.k = Nothing THEN Finish(t) ELSE update_limits(t)
                  [] t.next = "networks" -> update_networks(t)
                  [] t.next = "state" -> StartOrStop(t)
                  [] t.next = "pause" -> PauseIfAsked(t)
                  [] OTHER -> Finish(t)
    /\ UNCHANGED <<daemonVars, ntask, moves>>

ContainerUpdate ==
    /\ Request("update", Same /\ con.st # "removing", [con EXCEPT !.lim = ctask.p.lim],
               Reget([ctask EXCEPT !.changed = TRUE], "networks"))
    /\ UNCHANGED ntask

\* _add_networks works with the id the network had when the task began.
NetworkThere == net # Nothing /\ net.id = ctask.nid

DisconnectToReconnect ==
    /\ Request("disconnect", Same /\ NetworkThere /\ Connected("c"), Drop(con, "web"), [ctask EXCEPT !.pc = "connect"])
    /\ LosesIfChanged

ConnectNetwork ==
    /\ Request("connect", Same /\ con.st # "removing" /\ NetworkThere /\ "web" \notin DOMAIN con.ends,
               Attach(con, "web", Endpoint(ctask.nid, ctask.p.alias)),
               IF ctask.todo # {} THEN [ctask EXCEPT !.pc = "purge"] ELSE Reget(ctask, "state"))
    /\ UNCHANGED ntask

\* _purge_networks disconnects by name.
PurgeNetwork ==
    \E n \in ctask.todo :
       /\ Request("purge", Same /\ n \in DOMAIN con.ends /\ (n = "web" => Connected("c")), Drop(con, n),
                  LET t == [ctask EXCEPT !.todo = @ \ {n}] IN
                  IF t.todo # {} THEN t ELSE Reget(t, "state"))
       /\ LosesIfChanged

\* container_start, with the wait for the end of a container that is not detached.  It
\* is configuration 2 that has a health check.
ContainerStart ==
    /\ Request("start", Same /\ con.st \in {"created", "exited"} /\ ("web" \in DOMAIN con.ends => Connected("c")),
               [con EXCEPT !.st = "running", !.hl = IF con.conf = 2 THEN "starting" ELSE "none"],
               LET t == [ctask EXCEPT !.changed = TRUE] IN
               IF t.p.detach THEN Reget(t, "pause") ELSE [t EXCEPT !.pc = "wait"])
    /\ UNCHANGED ntask

WaitForContainer ==
    /\ ctask.pc = "wait" /\ ~(Same /\ Running(con))
    /\ ctask' = IF ~Same THEN CFail(ctask)
                ELSE IF ctask.p.cleanup THEN [ctask EXCEPT !.pc = "remove", !.next = "clean"] ELSE Reget(ctask, "pause")
    /\ UNCHANGED <<daemonVars, ntask, moves>>

ContainerRestart ==
    /\ Request("restart", Same /\ con.st # "removing" /\ ("web" \in DOMAIN con.ends => Connected("c")),
               [con EXCEPT !.st = "running"], Reget([ctask EXCEPT !.changed = TRUE], "pause"))
    /\ UNCHANGED ntask

SetPaused ==
    /\ Request("pause", Same /\ con.st = (IF ctask.p.paused = "yes" THEN "running" ELSE "paused"),
               [con EXCEPT !.st = IF ctask.p.paused = "yes" THEN "paused" ELSE "running"],
               Reget([ctask EXCEPT !.changed = TRUE], "finish"))
    /\ UNCHANGED ntask

\* wait_for_state until the health check answers; a container without one is healthy.
AwaitHealthy ==
    /\ ctask.pc = "healthy" /\ (Same => con.hl # "starting")
    /\ ctask' = IF Same THEN [ctask EXCEPT !.pc = "done"] ELSE CFail(ctask)
    /\ UNCHANGED <<daemonVars, ntask, moves>>

\* The process ends, and what it knew is gone.
TasksExit ==
    \/ /\ ctask.pc \in {"done", "failed"}
       /\ ctask' = [NoTask EXCEPT !.pc = "over"]
       /\ UNCHANGED <<daemonVars, ntask, moves>>
    \/ /\ ntask.pc \in {"done", "failed"}
       /\ ntask' = [NoNetworkTask EXCEPT !.pc = "over"]
       /\ UNCHANGED <<daemonVars, ctask, moves>>

ContainerTask ==
    \/ StartContainerTask \/ CollectParams \/ Inspect \/ GetImage \/ PullImage \/ PullFails
    \/ ContainerStop \/ UnpauseToStop \/ ContainerRemove \/ AwaitGone \/ WaitTimeout \/ ContainerCreate
    \/ GetContainer \/ ContainerUpdate \/ DisconnectToReconnect \/ ConnectNetwork \/ PurgeNetwork
    \/ ContainerStart \/ WaitForContainer \/ ContainerRestart \/ SetPaused \/ AwaitHealthy

-----------------------------------------------------------------------------
(***************************************************************************)
(* The docker_network task.  Only its writes disturb the other one.        *)
(***************************************************************************)

\* The answer to an inspection of the network.
Snapshot == IF net = Nothing THEN Nothing ELSE [id |-> net.id, conf |-> net.conf, members |-> Members]

Disturbed == IF ctask.pc \in {"idle", "over"} THEN ctask ELSE [ctask EXCEPT !.calm = FALSE]

NFail(u) == [u EXCEPT !.pc = "failed"]

\* disconnect_missing.
disconnect_missing(u) ==
    LET extra == IF u.p.appends \/ u.ex = Nothing THEN {} ELSE u.ex.members \ u.want IN
    IF extra = {} THEN [u EXCEPT !.pc = "done"]
    ELSE IF u.p.check THEN [u EXCEPT !.pc = "done", !.changed = TRUE]
    ELSE [u EXCEPT !.pc = "missing", !.todo = extra]

\* connect_containers: those the last inspection does not list.
connect_containers(u) ==
    LET new == u.want \ (IF u.ex = Nothing THEN {} ELSE u.ex.members) IN
    IF new = {} THEN disconnect_missing(u)
    ELSE IF u.p.check THEN disconnect_missing([u EXCEPT !.changed = TRUE])
    ELSE [u EXCEPT !.pc = "connect", !.todo = new]

create_network(u) ==
    IF u.ex # Nothing THEN connect_containers(u)
    ELSE IF u.p.check THEN connect_containers([u EXCEPT !.changed = TRUE])
    ELSE [u EXCEPT !.pc = "create"]

\* Mutant: the network that was removed is still taken for the present one.
RemovedKept(u) ==
    LET v == [u EXCEPT !.changed = TRUE] IN
    IF u.p.state = "present" THEN create_network(v) ELSE [v EXCEPT !.pc = "done"]

\* What follows the removal of the network.
Removed(u) ==
    LET v == [u EXCEPT !.changed = TRUE, !.ex = Nothing] IN
    IF u.p.state = "present" THEN create_network(v) ELSE [v EXCEPT !.pc = "done"]

StartNetworkTask ==
    /\ ntask.pc = "idle"
    /\ \E p \in NetworkTasks : ntask' = [ntask EXCEPT !.pc = "read", !.p = p]
    /\ UNCHANGED <<daemonVars, ctask, moves>>

\* The containers a task without a list of its own keeps: those it finds connected.
WantedFrom(p, ex) == IF p.connected = {} /\ ex # Nothing THEN ex.members ELSE p.connected

\* DockerNetworkManager: the network is read once, at first.
ReadNetwork ==
    /\ ntask.pc = "read"
    /\ LET ex == Snapshot
           u == [ntask EXCEPT !.ex = ex, !.lost = {}, !.had = IF ex = Nothing THEN {} ELSE ex.members,
                              !.want = WantedFrom(ntask.p, ex)]
       IN  ntask' = IF u.p.state = "absent"
                    THEN [u EXCEPT !.pc = IF ex = Nothing THEN "done" ELSE "list"]
                    ELSE IF ex # Nothing /\ (u.p.force \/ u.p.conf # ex.conf) THEN [u EXCEPT !.pc = "list"]
                    ELSE create_network(u)
    /\ UNCHANGED <<daemonVars, ctask, moves>>

\* disconnect_all_containers reads the network again.
ListToDisconnect ==
    /\ ntask.pc = "list"
    /\ ntask' = IF net = Nothing THEN NFail(ntask)
                ELSE IF ntask.p.check THEN Removed(ntask)
                ELSE [ntask EXCEPT !.pc = IF Members = {} THEN "delete" ELSE "disconnect", !.todo = Members]
    /\ UNCHANGED <<daemonVars, ctask, moves>>

\* disconnect_container, of all of them or of those that are not wanted.
Disconnect(x) ==
    IF x = "o" THEN con' = con /\ net' = [net EXCEPT !.other = FALSE]
               ELSE con' = Drop(con, "web") /\ net' = net

DisconnectContainer ==
    /\ ntask.pc \in {"disconnect", "missing"}
    /\ \E x \in ntask.todo :
          IF Connected(x)
          THEN /\ Disconnect(x) /\ ctask' = Disturbed
               /\ LET left == ntask.todo \ {x} IN
                  ntask' = [ntask EXCEPT !.todo = left, !.changed = TRUE,
                               !.pc = IF left # {} THEN @ ELSE IF @ = "missing" THEN "done" ELSE "delete"]
          ELSE ntask' = NFail(ntask) /\ UNCHANGED <<con, net, ctask>>
    /\ UNCHANGED <<local, remote, ids, moves>>

\* The daemon does not delete a network with live endpoints.
DeleteNetwork ==
    /\ ntask.pc = "delete"
    /\ IF net # Nothing /\ Members = {}
       THEN net' = Nothing /\ ntask' = Removed(ntask) /\ ctask' = Disturbed
       ELSE ntask' = NFail(ntask) /\ UNCHANGED <<net, ctask>>
    /\ UNCHANGED <<con, local, remote, ids, moves>>

CreateNetwork ==
    /\ ntask.pc = "create" /\ ids < MaxIds
    /\ IF net = Nothing
       THEN /\ net' = [id |-> ids + 1, conf |-> ntask.p.conf, other |-> FALSE] /\ ids' = ids + 1
            /\ ntask' = [ntask EXCEPT !.changed = TRUE, !.pc = "created"] /\ ctask' = Disturbed
       ELSE ntask' = NFail(ntask) /\ UNCHANGED <<net, ids, ctask>>
    /\ UNCHANGED <<con, local, remote, moves>>

\* create_network inspects the network it has created.
ReadCreated ==
    /\ ntask.pc = "created"
    /\ ntask' = connect_containers([ntask EXCEPT !.ex = Snapshot])
    /\ UNCHANGED <<daemonVars, ctask, moves>>

ConnectContainer ==
    /\ ntask.pc = "connect"
    /\ \E x \in ntask.todo :
          IF net # Nothing /\ ~Connected(x) /\ (x = "c" => con # Nothing /\ con.st # "removing" /\ "web" \notin DOMAIN con.ends)
          THEN /\ IF x = "o" THEN con' = con /\ net' = [net EXCEPT !.other = TRUE]
                             ELSE con' = Attach(con, "web", Endpoint(net.id, 0)) /\ net' = net
               /\ ctask' = Disturbed
               /\ LET u == [ntask EXCEPT !.todo = @ \ {x}, !.changed = TRUE] IN
                  ntask' = IF u.todo # {} THEN u ELSE disconnect_missing(u)
          ELSE ntask' = NFail(ntask) /\ UNCHANGED <<con, net, ctask>>
    /\ UNCHANGED <<local, remote, ids, moves>>

NetworkTask ==
    \/ StartNetworkTask \/ ReadNetwork \/ ListToDisconnect \/ DisconnectContainer \/ DeleteNetwork
    \/ CreateNetwork \/ ReadCreated \/ ConnectContainer

-----------------------------------------------------------------------------
(***************************************************************************)
(* The daemon on its own, and other users.                                 *)
(***************************************************************************)

RemovalCompletes ==
    /\ con # Nothing /\ con.st = "removing"
    /\ con' = Nothing
    /\ UNCHANGED <<net, local, remote, ids, ctask, ntask, moves>>

HealthCheck ==
    /\ con # Nothing /\ con.hl = "starting"
    /\ con' = [con EXCEPT !.hl = "healthy"]
    /\ UNCHANGED <<net, local, remote, ids, ctask, ntask, moves>>

Other ==
    /\ moves > 0 /\ moves' = moves - 1
    /\ ctask' = Disturbed

ContainerExits ==
    /\ Other /\ con # Nothing /\ con.st = "running"
    /\ con' = [con EXCEPT !.st = "exited"]
    /\ LosesIfChanged
    /\ UNCHANGED <<net, local, remote, ids>>

OtherRemoves ==
    /\ Other /\ con # Nothing
    /\ con' = Nothing
    /\ LosesIfChanged
    /\ UNCHANGED <<net, local, remote, ids>>

OtherStarts ==
    /\ Other /\ con # Nothing
    /\ \/ con.st = "exited" /\ con' = [con EXCEPT !.st = "running"]
       \/ con.st = "running" /\ con' = [con EXCEPT !.st = "paused"]
    /\ UNCHANGED <<net, local, remote, ids, ntask>>

OtherConnects ==
    /\ Other
    /\ IF net # Nothing
       THEN /\ net' = [net EXCEPT !.other = ~@] /\ ids' = ids
            /\ ntask' = IF net.other THEN Loses("o") ELSE ntask
       ELSE /\ ids < MaxIds /\ ids' = ids + 1
            /\ net' = [id |-> ids + 1, conf |-> 1, other |-> TRUE] /\ ntask' = ntask
    /\ UNCHANGED <<con, local, remote>>

HostInit ==
    /\ con \in FirstContainers
    /\ net \in IF con # Nothing /\ "web" \in DOMAIN con.ends
               THEN {[id |-> 1, conf |-> 1, other |-> TRUE]} ELSE {Nothing, [id |-> 1, conf |-> 1, other |-> TRUE]}
    /\ local \in {0, 1} /\ remote \in IF local = 0 THEN {1} ELSE {1, 2}
    /\ ids = 2 /\ moves = MaxMoves
    /\ ctask = NoTask /\ ntask = NoNetworkTask

HostNext ==
    \/ ContainerTask \/ NetworkTask \/ TasksExit
    \/ RemovalCompletes \/ HealthCheck
    \/ ContainerExits \/ OtherRemoves \/ OtherStarts \/ OtherConnects

HostSpec == HostInit /\ [][HostNext]_hostVars

-----------------------------------------------------------------------------
(***************************************************************************)
(* What the tasks promise.                                                 *)
(***************************************************************************)

\* What the parameters p say of a container c and of the image l on the host, when
\* the registry has r: the meaning of the options, apart from how they are checked.
Settled(c, l, r, p) ==
    IF p.state = "absent" THEN c = Nothing
    ELSE /\ c # Nothing /\ c.st # "removing"
         /\ p.conf \in {0, c.conf} /\ p.lim \in {0, c.lim}
         /\ ModeOf(p) \in {"unset", c.mode}
         /\ l # 0 /\ c.img = l /\ (p.pull = "always" => l = r)
         /\ p.net = "web" /\ p.cmp # "ignore" =>
               "web" \in DOMAIN c.ends /\ p.alias \in {0, c.ends["web"].alias}
         /\ p.net = "web" /\ p.cmp = "strict" => DOMAIN c.ends = {"web"}
         /\ p.net = "empty" /\ p.cmp = "strict" => DOMAIN c.ends = {}
         /\ Wants(p) => Running(c) /\ (p.paused = "unset" \/ Paused(c) = (p.paused = "yes"))
         /\ p.state = "stopped" => ~Running(c)

\* What a task does even where all is settled.
Repeats(p) == p.state # "absent" /\ (p.recreate \/ (Wants(p) /\ p.restart))

\* A docker_container task that nobody disturbs and that ends well has brought about
\* what its parameters say, and reports a change exactly if it was not so before (or
\* recreate or restart ask for one): a second run reports none.  A check leaves all as
\* it is and foretells the same, but for limits that can be updated in place and for
\* newer images (ContainerManager.present, absent).
ResultsTrue ==
    [][ctask.pc # "done" /\ ctask'.pc = "done" /\ ctask'.calm =>
         LET p == ctask.p
             b == ctask'.before
         IN  IF p.check
             THEN /\ local' = b.local
                  /\ con' = b.con \/ (b.con # Nothing /\ (b.con.st = "removing" \/ b.con.hl = "starting"))
                  /\ ctask'.changed <=> ~Settled(b.con, b.local, b.local, [p EXCEPT !.lim = 0]) \/ Repeats(p)
             ELSE /\ Settled(con', local', remote', p) \/ (p.state = "absent" /\ con' # Nothing /\ con'.st = "removing")
                  /\ ctask'.changed <=> ~Settled(b.con, b.local, remote', p) \/ Repeats(p)]_hostVars

\* A docker_network task that ends well, although it may have removed the network and
\* created it again, leaves every container of its list connected, unless somebody else has
\* disconnected it meanwhile (DockerNetworkManager.present).  What it makes of an empty list
\* is not asked: the documentation says that it "will leave no containers connected", the
\* code fills it with those found connected (docker_network.py:141 and :387).
ConnectionsSurvive ==
    ntask.pc = "done" /\ ntask.p.state = "present" /\ ~ntask.p.check =>
       \A x \in ntask.p.connected \ ntask.lost : Connected(x)
=============================================================================
