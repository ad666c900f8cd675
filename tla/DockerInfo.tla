----------------------------- MODULE DockerInfo -----------------------------
(***************************************************************************)
(* How the Docker modules reach a daemon, and the modules that only ask.   *)
(* Three clients are in use: the collection's own (common_api.py), the     *)
(* Docker SDK for Python (common.py, swarm.py) and the command line        *)
(* (common_cli.py).  world.at maps the names of hosts to their daemons, "" *)
(* is the local socket; world.env is the environment of the module.        *)
(***************************************************************************)
EXTENDS TaskRuns, SequencesExt

ApiInfo == {"docker_host_info", "docker_container_info", "docker_network_info", "docker_volume_info", "docker_image_info"}
SdkInfo == {"docker_swarm_info", "docker_node_info", "docker_swarm_service_info"}
CliInfo == {"docker_stack_info", "docker_stack_task_info"}
InfoModules == ApiInfo \cup SdkInfo \cup CliInfo

NoHost == [proto |-> "unset", name |-> "", port |-> FALSE]
LocalSocket == [proto |-> "unix", name |-> "", port |-> FALSE]
Else(x, y, unset) == IF x # unset THEN x ELSE y

-----------------------------------------------------------------------------
(* Which daemon is spoken to, and how.                                      *)

\* The argument spec of every module: a parameter, the environment, a default.
CommonArgs(c, e) ==
    [c EXCEPT !.host = Else(Else(@, e.host, NoHost), LocalSocket, NoHost), !.hostname = Else(@, e.hostname, "unset"),
              !.version = Else(Else(@, e.version, -1), 0, -1), !.ssl = Else(@, e.ssl, "unset"),
              !.tls = Else(Else(@, e.tls, "unset"), "false", "unset"), !.verify = Else(Else(@, e.verify, "unset"), "false", "unset")]

\* _get_value: certificates that are not given are looked for where the
\* environment says.
GetCertificates(c, e) == [c EXCEPT !.ca = Else(@, e.certs, "unset"), !.cert = Else(@, e.certs, "unset")]

\* update_tls_hostname: the certificate is expected to name the host of the URL.
UpdateTlsHostname(a) == [a EXCEPT !.hostname = Else(@, a.host.name, "unset")]

AuthParams(c, e) == UpdateTlsHostname(GetCertificates(CommonArgs(c, e), e))
\* The SDK's client has the same precedence.
SdkAuthParams(c, e) == AuthParams(c, e)

IsUsingTls(a) == "true" \in {a.tls, a.verify}

\* get_connect_params: TLS with verification, without, or none.
TlsOf(a) ==
    CASE a.verify = "true" -> [verify |-> TRUE, hostname |-> a.hostname, ca |-> a.ca, cert |-> a.cert]
      [] a.verify # "true" /\ a.tls = "true" -> [verify |-> FALSE, hostname |-> "unset", ca |-> "unset", cert |-> a.cert]
      [] ~IsUsingTls(a) -> None
ConnectHost(a) == IF IsUsingTls(a) /\ a.host.proto = "tcp" THEN [a.host EXCEPT !.proto = "https"] ELSE a.host

\* TLSConfig: the files it names have to exist.
TlsRefused(t, files) == t # None /\ (t.cert \notin files \cup {"unset"} \/ (t.verify /\ t.ca \notin files \cup {"unset"}))

\* From version 7 on the SDK takes neither an SSL version nor a host name.
SdkTlsRefused(a, sdk) == IsUsingTls(a) /\ sdk >= 70 /\ (a.ssl # "unset" \/ TlsOf(a).hostname # "unset")
SdkConnectRefused(a, sdk) == a.ssh /\ sdk < 44
SdkMinimum(mod) == CASE mod = "docker_swarm_info" -> 18 [] mod = "docker_node_info" -> 24 [] mod = "docker_swarm_service_info" -> 20
\* Both SDKs at once, none, or one that is too old.
SdkRefused(mod, w) == w.both \/ w.sdk = 0 \/ w.sdk < SdkMinimum(mod)
\* _get_minimal_versions: an option that is used and not supported.
OptionRefused(mod, p, w) == mod = "docker_swarm_info" /\ w.sdk < 27 /\ "key" \in p.ask

\* parse_host.
HostRefused(h) ==
    \/ h.proto \notin {"tcp", "http", "https", "unix", "http+unix", "npipe", "ssh"}
    \/ h.proto \in {"tcp", "http", "https"} /\ (h.name = "" \/ ~h.port)
ParseHost(h, tls) ==
    [name |-> h.name,
     proto |-> CASE h.proto \in {"http", "https"} -> h.proto
                 [] h.proto = "tcp" -> IF tls THEN "https" ELSE "http"
                 [] h.proto \in {"unix", "http+unix"} -> "http+unix"
                 [] h.proto \in {"npipe", "ssh"} -> h.proto]

\* APIClient: the adapter that fits the URL.  TLS is configured only for a host
\* that is reached by http; an https host without TLS parameters is verified
\* against the public authorities.
AdapterRefused(h, a, w) == h.proto = "npipe" \/ (h.proto = "ssh" /\ ~w.paramiko /\ ~a.ssh)
\* configure_client and the SSL adapter.
Verification(t, name) ==
    CASE t = None -> [verify |-> TRUE, ca |-> "public", hostname |-> name]
      [] t # None -> [verify |-> t.verify, ca |-> Else(t.ca, "public", "unset"), hostname |-> t.hostname]
ApiLink(a) ==
    LET t == TlsOf(a)
        u == ParseHost(ConnectHost(a), t # None)
        https == u.proto = "https"
    IN  [name |-> u.name, secure |-> https, direct |-> https \/ u.proto = "http", version |-> a.version]
        @@ (IF https THEN Verification(t, u.name) ELSE [verify |-> FALSE, ca |-> "", hostname |-> ""])
ApiRefused(a, w) ==
    TlsRefused(TlsOf(a), w.files) \/ HostRefused(ConnectHost(a)) \/ AdapterRefused(a.host, a, w)

\* The command line: its own flags, its own context, the certificate has to
\* name the host.
CliArgs(c, e) ==
    [CommonArgs(c, e) EXCEPT !.host = IF Else(c.host, e.host, NoHost) = NoHost /\ c.context # "unset"
                                      THEN [proto |-> "tcp", name |-> c.context, port |-> TRUE] ELSE @]
CliRefused(c, e, w) ==
    \/ w.cli = "none" \/ (Else(c.host, e.host, NoHost) # NoHost /\ c.context # "unset")
    \/ CliArgs(c, e).host.proto \notin {"tcp", "unix", "ssh"}
CliLink(c, e) ==
    LET a == GetCertificates(CliArgs(c, e), e)
        tcp == a.host.proto = "tcp"
    IN  [name |-> a.host.name, secure |-> tcp /\ IsUsingTls(a), direct |-> tcp, verify |-> tcp /\ a.verify = "true",
         ca |-> Else(a.ca, "public", "unset"), hostname |-> a.host.name, version |-> a.version]

\* The daemon answers.
Reachable(l, w) ==
    LET d == w.at[l.name] IN
    /\ d # None
    /\ l.direct => d.tls = l.secure
    /\ l.verify => d.ca = l.ca /\ d.cn = l.hostname

\* The version is asked for unless it is given; one that is too old is refused
\* by the client, one that is too new by the daemon.
Version(l, d) == IF l.version = 0 THEN d.api ELSE l.version
VersionRefused(l, d) == Version(l, d) < 25 \/ Version(l, d) > d.api
CliVersionRefused(d, w) == w.cli = "podman" \/ d.api < 25

InfoLink(mod, c, w) == IF mod \in CliInfo THEN CliLink(c, w.env) ELSE ApiLink(AuthParams(c, w.env))
ClientRefused(mod, p, w) ==
    CASE mod \in ApiInfo -> ApiRefused(AuthParams(p.conn, w.env), w)
      [] mod \in SdkInfo ->
           LET a == SdkAuthParams(p.conn, w.env)
           IN  \/ SdkRefused(mod, w) \/ SdkTlsRefused(a, w.sdk) \/ SdkConnectRefused(a, w.sdk)
               \/ ApiRefused(a, w) \/ OptionRefused(mod, p, w)
      [] mod \in CliInfo -> CliRefused(p.conn, w.env, w)

FirstStep(mod) == IF mod \in SdkInfo THEN "manager" ELSE "ask"

ConnectClient ==
    /\ task.mod \in InfoModules /\ task.pc = "start"
    /\ LET l == InfoLink(task.mod, task.p.conn, world)
           refused == \/ ClientRefused(task.mod, task.p, world) \/ ~Reachable(l, world)
                      \/ IF task.mod \in CliInfo THEN CliVersionRefused(world.at[l.name], world) ELSE VersionRefused(l, world.at[l.name])
       IN  Look(IF refused THEN Fail(task) ELSE Remember(task, [link |-> l, found |-> << >>, left |-> << >>], FirstStep(task.mod)))

Daemon == world.at[task.loc.link.name]
AtInfo(mod, pc) == At(mod, pc) /\ Daemon # None
Answer(found) == Exit([task EXCEPT !.loc.found = found])
Ask(left, pc) == [task EXCEPT !.loc.left = left, !.pc = pc]
Learn(found, left, pc) == [task EXCEPT !.loc.found = @ \o found, !.loc.left = left, !.pc = pc]

-----------------------------------------------------------------------------
(* Containers, networks and volumes.  prefix are the names with which the   *)
(* id of an object begins.                                                  *)

\* The first of the list that has the name, or an id that begins with it.
FirstMatch(list, name) == SelectInSeq(list, LAMBDA x : x.name = name \/ name \in x.prefix)
Inspected(list, id) == SelectSeq(list, LAMBDA x : x.id = id)

ListContainers ==
    /\ AtInfo("docker_container_info", "ask")
    /\ LET i == FirstMatch(Daemon.containers, task.p.ask)
       IN  Look(IF i = 0 THEN Answer(<< >>) ELSE Ask(<<Daemon.containers[i].id>>, "inspect"))
\* get_container_by_id: a container that is gone by now does not exist.
InspectContainer ==
    /\ AtInfo("docker_container_info", "inspect")
    /\ Look(Answer(Inspected(Daemon.containers, task.loc.left[1])))

ListNetworks ==
    /\ AtInfo("docker_network_info", "ask")
    /\ LET i == FirstMatch(Daemon.networks, task.p.ask)
       IN  Look(IF i = 0 THEN Answer(<< >>) ELSE Ask(<<Daemon.networks[i].id>>, "inspect"))
InspectNetwork ==
    /\ AtInfo("docker_network_info", "inspect")
    /\ Look(Answer(Inspected(Daemon.networks, task.loc.left[1])))

InspectVolume ==
    /\ AtInfo("docker_volume_info", "ask")
    /\ Look(Answer(SelectSeq(Daemon.volumes, LAMBDA v : v.name = task.p.ask)))

-----------------------------------------------------------------------------
(* docker_image_info.  A name has a registry, the directory library/ and    *)
(* the rest; an image has the names the daemon shows.                       *)

\* The names that find_image tries one after the other.
Lookups(n) ==
    LET short == [n EXCEPT !.reg = ""]
    IN  <<n>> \o (IF n.reg \notin {"", "docker.io"} THEN << >> ELSE
            <<short>> \o (IF n.lib THEN <<[short EXCEPT !.lib = FALSE]>> ELSE << >>)
            \o <<[n EXCEPT !.reg = "docker.io"]>> \o (IF n.lib THEN << >> ELSE <<[n EXCEPT !.reg = "docker.io", !.lib = TRUE]>>))

\* All images, or those asked for one after the other, by id or by name.
ListImages ==
    /\ AtInfo("docker_image_info", "ask")
    /\ Look(IF task.p.ask # << >> THEN Ask(task.p.ask, "next")
            ELSE Ask([i \in DOMAIN Daemon.images |-> Daemon.images[i].id], "every"))
TakeImage ==
    /\ AtInfo("docker_image_info", "next")
    /\ LET left == task.loc.left
       IN  Look(IF left = << >> THEN Exit(task)
                ELSE IF Head(left).id # 0
                THEN Learn(Inspected(Daemon.images, Head(left).id), Tail(left), "next")
                ELSE [Ask(Tail(left), "lookup") EXCEPT !.loc = [tries |-> Lookups(Head(left).name)] @@ @])
LookUpImage ==
    /\ AtInfo("docker_image_info", "lookup")
    /\ LET tries == task.loc.tries
           i == IF tries = << >> THEN 0 ELSE SelectInSeq(Daemon.images, LAMBDA x : Head(tries) \in x.names)
       IN  Look(CASE tries = << >> -> Goto(task, "next")
                  [] tries # << >> /\ i = 0 -> [task EXCEPT !.loc.tries = Tail(@)]
                  [] tries # << >> /\ i # 0 -> [task EXCEPT !.loc.tries = <<Daemon.images[i].id>>, !.pc = "inspect"])
InspectImage ==
    /\ AtInfo("docker_image_info", "inspect")
    /\ Look(Learn(Inspected(Daemon.images, task.loc.tries[1]), task.loc.left, "next"))
\* An image that is gone by now is reported as None.
InspectEvery ==
    /\ AtInfo("docker_image_info", "every")
    /\ LET left == task.loc.left
           image == Inspected(Daemon.images, Head(left))
       IN  Look(IF left = << >> THEN Exit(task)
                ELSE Learn(IF image = << >> THEN <<None>> ELSE image, Tail(left), "every"))

-----------------------------------------------------------------------------
(* docker_host_info: the host, then what is asked for, in this order.       *)

HostKinds == <<"disk_usage", "volumes", "networks", "containers", "images">>
InspectHost ==
    /\ AtInfo("docker_host_info", "ask")
    /\ Look(Ask(SelectSeq(HostKinds, LAMBDA k : k \in task.p.ask), "list"))
\* get_docker_items_list.
HostItems(d, k) ==
    CASE k = "volumes" -> d.volumes [] k = "networks" -> d.networks [] k = "containers" -> d.containers
      [] k = "images" -> d.images [] k = "disk_usage" -> << >>
ListHostItems ==
    /\ AtInfo("docker_host_info", "list")
    /\ LET left == task.loc.left
       IN  Look(IF left = << >> THEN Exit(task) ELSE Learn(HostItems(Daemon, Head(left)), Tail(left), "list"))

-----------------------------------------------------------------------------
(* The swarm.                                                               *)

\* fail_task_if_not_swarm_manager.
CheckManager ==
    /\ task.mod \in SdkInfo /\ task.pc = "manager" /\ Daemon # None
    /\ Look(IF Daemon.role = "manager" THEN Goto(task, "ask") ELSE Fail(task))

\* get_node_inspect: a leader is given the address that the managers know.
NodeFacts(n) == IF n.leader /\ n.known # "" THEN [n EXCEPT !.addr = n.known] ELSE n
NodesCalled(d, name) == SelectSeq(d.nodes, LAMBDA n : name \in {n.name, n.id})

AllNodes(d) == d.nodes
\* get_swarm_node_id: "" outside of a swarm.
SelfId(d) == IF d.role = "none" THEN "" ELSE d.self

\* The node itself, all of them, or those asked for by name.
AskNodes ==
    /\ AtInfo("docker_node_info", "ask")
    /\ LET ask == task.p.ask
       IN  Look(CASE ask.self -> IF SelfId(Daemon) = "" THEN Fail(task) ELSE Ask(<<SelfId(Daemon)>>, "self")
                  [] ~ask.self /\ ask.names = << >> -> Answer(AllNodes(Daemon))
                  [] ~ask.self /\ ask.names # << >> -> Ask(ask.names, "node"))
InspectSelf ==
    /\ AtInfo("docker_node_info", "self")
    /\ LET nodes == NodesCalled(Daemon, task.loc.left[1])
       IN  Look(IF nodes = << >> THEN Fail(task) ELSE Answer(<<NodeFacts(nodes[1])>>))
InspectNodes ==
    /\ AtInfo("docker_node_info", "node")
    /\ LET left == task.loc.left
           nodes == NodesCalled(Daemon, Head(left))
       IN  Look(IF left = << >> THEN Exit(task)
                ELSE Learn(IF nodes = << >> THEN << >> ELSE <<NodeFacts(nodes[1])>>, Tail(left), "node"))

\* get_service_inspect: nothing if there is no such service.
ServicesCalled(d, name) == SelectSeq(d.services, LAMBDA s : s.name = name)
InspectSwarmService ==
    /\ AtInfo("docker_swarm_service_info", "ask")
    /\ Look(Answer(ServicesCalled(Daemon, task.p.ask)))

\* docker_swarm_info: the swarm, then what is asked for, in this order.
SwarmKinds == <<"tasks", "services", "nodes", "key">>
InspectSwarm ==
    /\ AtInfo("docker_swarm_info", "ask")
    /\ Look(Ask(SelectSeq(SwarmKinds, LAMBDA k : k \in task.p.ask), "list"))

\* get_essential_facts_services: a global service is given the number of the
\* services in the list for its replicas.
ServiceFacts(services, s) == [name |-> s.name, mode |-> s.mode, reps |-> IF s.mode = "global" THEN Len(services) ELSE s.reps]
ManagerStatus(n) == CASE n.leader -> "Leader" [] ~n.leader /\ n.manager -> "reachable" [] ~n.leader /\ ~n.manager -> "none"
NodeEssentials(n) == [id |-> n.id, manager |-> ManagerStatus(n)]
SwarmItems(d, k) ==
    CASE k = "services" -> [i \in DOMAIN d.services |-> ServiceFacts(d.services, d.services[i])]
      [] k = "nodes" -> [i \in DOMAIN d.nodes |-> NodeEssentials(d.nodes[i])]
      [] k = "key" -> <<d.key>>

\* get_docker_items_list; for tasks each node is asked for its name afterwards.
ListSwarmItems ==
    /\ AtInfo("docker_swarm_info", "list")
    /\ LET left == task.loc.left
       IN  Look(CASE left = << >> -> Exit(task)
                  [] left # << >> /\ Head(left) = "tasks" -> [Ask(Tail(left), "node") EXCEPT !.loc = [tasks |-> Daemon.tasks] @@ @]
                  [] left # << >> /\ Head(left) # "tasks" -> Learn(SwarmItems(Daemon, Head(left)), Tail(left), "list"))
\* get_essential_facts_tasks: a task without a container, and a task on a node
\* that has left, make the module fail.
TaskBreaks(t, nodes) == ~t.started \/ nodes = << >>
NameNodes ==
    /\ AtInfo("docker_swarm_info", "node")
    /\ LET tasks == task.loc.tasks
           nodes == NodesCalled(Daemon, Head(tasks).node)
       IN  Look(IF tasks = << >> THEN Goto(task, "list")
                ELSE IF TaskBreaks(Head(tasks), nodes) THEN Fail(task)
                ELSE [Learn(<<[id |-> Head(tasks).id, node |-> nodes[1].name]>>, task.loc.left, "node") EXCEPT !.loc.tasks = Tail(@)])

-----------------------------------------------------------------------------
(* Stacks.                                                                  *)

\* call_cli_json_stream: the lines of the output that begin a JSON object.
JsonLines(out) == SelectSeq(out, LAMBDA line : line.json)
ListStacks ==
    /\ AtInfo("docker_stack_info", "ask")
    /\ Look(IF Daemon.role = "manager" THEN Answer(JsonLines(Daemon.stacks)) ELSE Fail(task))
ListStackTasks ==
    /\ AtInfo("docker_stack_task_info", "ask")
    /\ LET stack == SelectSeq(JsonLines(Daemon.stacks), LAMBDA s : s.name = task.p.ask)
       IN  Look(IF Daemon.role = "manager" /\ stack # << >> THEN Answer(stack[1].tasks) ELSE Fail(task))

\* Others replace a container or take away an image or a node.
OthersAlterDaemon ==
    /\ task.mod \in InfoModules
    /\ \E h \in DOMAIN world.at :
        /\ world.at[h] # None
        /\ \/ world.at[h].containers # << >> /\ OthersMake([world EXCEPT !.at[h].containers[1].id = 9])
           \/ world.at[h].images # << >> /\ OthersMake([world EXCEPT !.at[h].images = Tail(@)])
           \/ world.at[h].nodes # << >> /\ OthersMake([world EXCEPT !.at[h].nodes = Tail(@)])
           \/ OthersMake([world EXCEPT !.at[h] = None])
\* The daemon has gone away.
DaemonGone ==
    /\ task.mod \in InfoModules /\ task.pc \notin {"start", "over"} /\ Daemon = None
    /\ Look(Fail(task))

InfoNext ==
    \/ ConnectClient \/ ListContainers \/ InspectContainer \/ ListNetworks \/ InspectNetwork \/ InspectVolume
    \/ ListImages \/ TakeImage \/ LookUpImage \/ InspectImage \/ InspectEvery \/ InspectHost \/ ListHostItems
    \/ CheckManager \/ AskNodes \/ InspectSelf \/ InspectNodes \/ InspectSwarmService \/ InspectSwarm \/ ListSwarmItems
    \/ NameNodes \/ ListStacks \/ ListStackTasks \/ OthersAlterDaemon \/ DaemonGone

-----------------------------------------------------------------------------
\* The connection that the parameters, or else the environment, ask for.
Wanted(c, e, f) == IF c[f] \in {"unset"} THEN e[f] ELSE c[f]
RightDaemon(mod, c, e, l) ==
    LET h == IF c.host # NoHost THEN c.host ELSE IF mod \in CliInfo /\ c.context # "unset" THEN [NoHost EXCEPT !.name = c.context] ELSE e.host
        ca == IF c.ca # "unset" THEN c.ca ELSE IF e.certs # "unset" THEN e.certs ELSE "public"
    IN  /\ l.name = h.name
        /\ Wanted(c, e, "verify") = "true" /\ l.direct /\ h.proto # "http" =>
              l.secure /\ l.verify /\ l.ca = ca /\ (mod \in CliInfo \/ l.hostname = Else(Wanted(c, e, "hostname"), h.name, "unset"))
        /\ Wanted(c, e, "tls") = "true" /\ l.direct /\ h.proto # "http" => l.secure

\* Two names of one image.
SameImage(n, m) == n.base = m.base /\ (n = m \/ {n.reg, m.reg} \subseteq {"", "docker.io"})

\* A module that asks tells what there is at the daemon it was sent to.
InfoGoal(mod, p, w) ==
    LET d == w.at[task.loc.link.name]
        found == ToSet(task.loc.found)
        one(list) == {x \in ToSet(list) : x.name = p.ask \/ p.ask \in x.prefix}
        all(k) == ToSet(CASE k \in ToSet(HostKinds) -> HostItems(d, k))
    IN  /\ RightDaemon(mod, p.conn, w.env, task.loc.link)
        /\ CASE mod = "docker_container_info" -> IF one(d.containers) = {} THEN found = {} ELSE \E x \in one(d.containers) : found = {x}
             [] mod = "docker_network_info" -> IF one(d.networks) = {} THEN found = {} ELSE \E x \in one(d.networks) : found = {x}
             [] mod = "docker_volume_info" -> found = {v \in ToSet(d.volumes) : v.name = p.ask}
             [] mod = "docker_image_info" ->
                  IF p.ask = << >> THEN found = ToSet(d.images)
                  ELSE found = {i \in ToSet(d.images) : \E a \in ToSet(p.ask) : a.id = i.id \/ (a.id = 0 /\ \E n \in i.names : SameImage(n, a.name))}
             [] mod = "docker_host_info" -> found = UNION {all(k) : k \in p.ask}
             [] mod = "docker_node_info" -> \A x \in found : \E n \in ToSet(d.nodes) : n.id = x.id /\ (~n.leader => n = x)
             [] mod = "docker_swarm_service_info" -> found = {s \in ToSet(d.services) : s.name = p.ask}
             [] mod = "docker_swarm_info" -> Len(task.loc.found) =
                  (IF "tasks" \in p.ask THEN Len(d.tasks) ELSE 0) + (IF "services" \in p.ask THEN Len(d.services) ELSE 0)
                  + (IF "nodes" \in p.ask THEN Len(d.nodes) ELSE 0) + (IF "key" \in p.ask THEN 1 ELSE 0)
             [] mod = "docker_stack_info" -> found = {l \in ToSet(d.stacks) : l.json}
             [] mod = "docker_stack_task_info" -> \E s \in ToSet(d.stacks) : s.json /\ s.name = p.ask /\ found = ToSet(s.tasks)

\* What a module accepts.
InfoAccepted(mod, p) == p.conn.version >= -1 /\ p.conn.tls \in {"unset", "true", "false"} /\ p.conn.verify \in {"unset", "true", "false"}
=============================================================================
