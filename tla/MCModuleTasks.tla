--------------------------- MODULE MCModuleTasks ---------------------------
(***************************************************************************)
(* The tasks and worlds in which TLC checks ModuleTasks.                   *)
(***************************************************************************)
EXTENDS ModuleTasks

On(mod, ps, ws) == {<<mod, p, w>> : p \in ps, w \in ws}

\* docker_secret and docker_config.
Plain == [name |-> 0, ver |-> 0, key |-> 1, lab |-> 0, used |-> FALSE, tpl |-> 0]
V(n) == [Plain EXCEPT !.name = n, !.ver = n]
Stores == {[objs |-> S] : S \in {{}, {Plain}, {[Plain EXCEPT !.key = 2]}, {[Plain EXCEPT !.used = TRUE, !.lab = 1]},
           {[Plain EXCEPT !.key = 0]}, {V(1), V(2)}, {V(1), V(2), V(3)}, {[V(1) EXCEPT !.used = TRUE], V(2)},
           {[V(1) EXCEPT !.name = Vault, !.ver = 0, !.key = 0], V(2)}}}
Secret == [state |-> "present", data |-> 1, lab |-> 0, force |-> FALSE, rolling |-> FALSE, keep |-> 2, tpl |-> 0,
           dict |-> FALSE]
SecretTasks == {[Secret EXCEPT !.state = s, !.rolling = r] : s \in {"present", "absent"}, r \in BOOLEAN}
    \cup {[Secret EXCEPT !.lab = 1, !.data = 2], [Secret EXCEPT !.force = TRUE], [Secret EXCEPT !.tpl = 1],
          [Secret EXCEPT !.rolling = TRUE, !.data = 2], [Secret EXCEPT !.rolling = TRUE, !.data = 2, !.keep = 0],
          [Secret EXCEPT !.rolling = TRUE, !.data = 2, !.keep = -1], [Secret EXCEPT !.rolling = TRUE, !.lab = 1, !.dict = TRUE]}

\* docker_node.
Labels == [k \in {"a", "b"} |-> "none"]
Node == [role |-> "worker", av |-> "active", labels |-> [Labels EXCEPT !["a"] = "x"], ver |-> 1]
NodeWorld == [node |-> Node, manager |-> TRUE, down |-> FALSE]
NodeWorlds == {NodeWorld, [NodeWorld EXCEPT !.manager = FALSE], [NodeWorld EXCEPT !.down = TRUE],
               [NodeWorld EXCEPT !.node = None], [NodeWorld EXCEPT !.node.labels["b"] = ""]}
NodeTask == [role |-> "", av |-> "", mode |-> "merge", given |-> FALSE, labels |-> Labels, remove |-> {}]
NodeTasks == {[NodeTask EXCEPT !.role = "manager"], [NodeTask EXCEPT !.av = "drain", !.remove = {"a", "b"}]}
    \cup {[NodeTask EXCEPT !.mode = m, !.given = TRUE, !.labels = [Labels EXCEPT ![k] = v], !.remove = r] :
             m \in {"merge", "replace"}, k \in {"a", "b"}, v \in {"", "x", "y"}, r \in {{}, {"a"}}}

\* docker_swarm.
SwarmWorld == [swarm |-> [st |-> "manager", conf |-> 1, ver |-> 1], peer |-> "ready"]
SwarmWorlds == {[SwarmWorld EXCEPT !.peer = s] : s \in {"ready", "down", "gone"}}
    \cup {[SwarmWorld EXCEPT !.swarm.st = s, !.swarm.conf = 0] : s \in {"none", "worker"}}
SwarmTasks == [state : {"present", "join", "absent", "remove"}, force : BOOLEAN, conf : {1, 2}, ca : {FALSE}, rotate : {FALSE}]
    \cup [state : {"present"}, force : {FALSE}, conf : {0, 1}, ca : BOOLEAN, rotate : BOOLEAN]

\* docker_swarm_service.
NoOptions ==
    [env |-> {}, env_files |-> {}, labels |-> {}, container_labels |-> {}, hosts |-> {}, publish |-> {}, mounts |-> {},
     init |-> {}, read_only |-> {}, update_config |-> {}, restart_config |-> {}, rollback_config |-> {}, logging |-> {},
     limits |-> {}, reservations |-> {}, placement |-> {}, malformed |-> FALSE]
NoMount == [source |-> {}, type |-> Tmpfs, readonly |-> {}, tmpfs_size |-> {}]
Text(n) == [text |-> TRUE, n |-> n]
Number(n) == [text |-> FALSE, n |-> n]
OptionSets ==
    {[NoOptions EXCEPT !.env = {"A" :> "1"}, !.env_files = {<<("A" :> "2") @@ ("B" :> "2"), "B" :> "3">>},
                       !.labels = {"k" :> "1"}, !.publish = {<<80, 8080>> :> "host" @@ <<-1, 81>> :> ""}],
     [NoOptions EXCEPT !.env_files = {<< >>}, !.labels = {<< >>}, !.container_labels = {"k" :> "1"},
                       !.publish = {<<80, 8080>> :> ""}, !.hosts = {"h" :> "v4"}],
     [NoOptions EXCEPT !.publish = {<<0, 81>> :> ""}], [NoOptions EXCEPT !.publish = {<< >>}, !.hosts = {"h" :> "v6"}],
     [NoOptions EXCEPT !.mounts = {("/a" :> NoMount) @@ ("/b" :> [NoMount EXCEPT !.source = {1}, !.type = Bind, !.readonly = {0}])},
                       !.init = {0}, !.read_only = {1}],
     [NoOptions EXCEPT !.mounts = {"/a" :> [NoMount EXCEPT !.type = Bind]}],
     [NoOptions EXCEPT !.mounts = {"/a" :> [NoMount EXCEPT !.tmpfs_size = {[n |-> 1, unit |-> "K"]}, !.readonly = {1}]},
                       !.init = {1}],
     [NoOptions EXCEPT !.update_config = {[parallelism |-> {0}, delay |-> {Text(1)}]},
                       !.restart_config = {[condition |-> {"any"}, delay |-> {Number(0)}]},
                       !.rollback_config = {[parallelism |-> {}, delay |-> {Number(0)}]}],
     [NoOptions EXCEPT !.update_config = {[parallelism |-> {}, delay |-> {Number(0)}]}, !.rollback_config =
                       {[parallelism |-> {}, delay |-> {}]}],
     [NoOptions EXCEPT !.logging = {[driver |-> {"syslog"}, options |-> {<< >>}]},
                       !.limits = {[cpus |-> {1}, memory |-> {[n |-> 2, unit |-> "K"]}]},
                       !.reservations = {[cpus |-> {}, memory |-> {[n |-> 1, unit |-> ""]}]},
                       !.placement = {[constraints |-> {<<"c1", "c2">>}, preferences |-> {<<"p">>}, replicas_max_per_node |-> {1}]}],
     [NoOptions EXCEPT !.limits = {[cpus |-> {}, memory |-> {[n |-> 0, unit |-> ""]}]},
                       !.placement = {[constraints |-> {<< >>}, preferences |-> {}, replicas_max_per_node |-> {}]}],
     [NoOptions EXCEPT !.malformed = TRUE], [NoOptions EXCEPT !.read_only = {0}]}
Svc == [img |-> 1, dig |-> 0, plain |-> 1, lst |-> "a", health |-> "none", nets |-> << >>, secret |-> 0,
        mode |-> "replicated", reps |-> 2, spec |-> Stored(BuildDockerService(OptionsOf(NoOptions))), ver |-> 1]
SvcWorld == [svc |-> Svc, tag |-> 1, nets |-> {"web"}, secret |-> 1, api |-> 41]
SvcWorlds == {SvcWorld, [SvcWorld EXCEPT !.svc = None], [SvcWorld EXCEPT !.svc = [Svc EXCEPT !.mode = "global", !.reps = -1]],
              [SvcWorld EXCEPT !.svc = [Svc EXCEPT !.health = "set", !.nets = "web" :> {}, !.secret = 1, !.dig = 1]],
              [SvcWorld EXCEPT !.svc = [Svc EXCEPT !.health = "NONE"], !.nets = {}, !.secret = 0]}
SvcTask == [state |-> "present", img |-> 1, resolve |-> FALSE, plain |-> 0, lst |-> "omitted", health |-> "omitted",
            nets |-> {}, secret |-> FALSE, mode |-> "replicated", reps |-> -1, force |-> FALSE, netup |-> TRUE,
            opt |-> NoOptions]
OnWebNet == {"web" :> {}}
SvcTasks == {[SvcTask EXCEPT !.state = "absent"], [SvcTask EXCEPT !.plain = 2, !.lst = "empty"], [SvcTask EXCEPT !.lst = "b"],
             [SvcTask EXCEPT !.health = "set"], [SvcTask EXCEPT !.health = "disabled", !.resolve = TRUE],
             [SvcTask EXCEPT !.nets = OnWebNet], [SvcTask EXCEPT !.nets = {<< >>}, !.netup = FALSE],
             [SvcTask EXCEPT !.nets = {"web" :> {{"a"}}}], [SvcTask EXCEPT !.secret = TRUE],
             [SvcTask EXCEPT !.mode = "global"], [SvcTask EXCEPT !.mode = "global", !.reps = 2],
             [SvcTask EXCEPT !.mode = "global", !.nets = OnWebNet], [SvcTask EXCEPT !.reps = 1], [SvcTask EXCEPT !.force = TRUE]}
OptTasks == {[SvcTask EXCEPT !.opt = o] : o \in OptionSets}
OptWorlds == {SvcWorld, [SvcWorld EXCEPT !.api = 36]}
    \cup {[SvcWorld EXCEPT !.svc.spec = Stored(BuildDockerService(OptionsOf(o)))] :
             o \in {o \in OptionSets : o.limits # {} \/ o.mounts # {} \/ o.env # {}}}

\* The image modules.
Images == [local |-> [n \in {"n", "r", "s"} |-> 0], remote |-> [n \in {"n", "r", "s"} |-> 0], file |-> None,
           tar |-> [id |-> 2, name |-> "n"], src |-> 2, used |-> FALSE]
ImageWorlds ==
    {[Images EXCEPT !.local["n"] = a, !.local["r"] = b, !.remote["n"] = c, !.file = f, !.used = (b = 0)] :
        a \in {0, 1, 2}, b \in {0, 1}, c \in {0, 2}, f \in {None, Archive(1), Archive(2)}}
    \cup {[Images EXCEPT !.tar = None], [Images EXCEPT !.tar.name = "s"]}
Image == [state |-> "present", source |-> "pull", plat |-> 0, force |-> FALSE, archive |-> FALSE, repo |-> FALSE,
          push |-> FALSE, retag |-> FALSE]
ImageTasks == {[Image EXCEPT !.state = "absent", !.force = f] : f \in BOOLEAN}
    \cup {[Image EXCEPT !.source = s, !.force = f] : s \in {"pull", "build", "load", "local"}, f \in BOOLEAN}
    \cup {[Image EXCEPT !.archive = TRUE], [Image EXCEPT !.repo = TRUE, !.push = TRUE], [Image EXCEPT !.repo = TRUE, !.retag = TRUE],
          [Image EXCEPT !.archive = TRUE, !.push = TRUE, !.source = "build"]}
ImageScenes ==
    On("docker_image", ImageTasks, ImageWorlds)
    \cup On("docker_image_pull", [mode : {"always", "not_present"}, plat : {0, 1}, source : {"pull"}], ImageWorlds)
    \cup On("docker_image_build", [mode : {"always", "never"}, source : {"build"}], ImageWorlds)
    \cup On("docker_image_load", [source : {"load"}], ImageWorlds)
    \cup On("docker_image_remove", [force : BOOLEAN], ImageWorlds)
    \cup On("docker_image_push", {None}, ImageWorlds)
    \cup On("docker_image_tag", [keep : BOOLEAN], ImageWorlds)
    \cup On("docker_image_export", [force : BOOLEAN], ImageWorlds)

\* The helm modules.
Rel(c, v, s) == [chart |-> c, vals |-> v, status |-> s]
A(n) == [Unset EXCEPT !["a"] = n]
B(n) == [Unset EXCEPT !["b"] = n]
HelmWorld == [rel |-> None, up |-> 2, cache |-> 2, repo |-> 1, plugin |-> 1, diff |-> 0, helm |-> 12, deps |-> "none",
              ns |-> TRUE, private |-> FALSE, out |-> 0]
HelmWorlds ==
    {[HelmWorld EXCEPT !.rel = r, !.diff = d] : d \in {0, 1, 2},
        r \in {None, Rel(2, A(1), "deployed"), Rel(1, A(1), "deployed"), Rel(2, Over(A(1), B(2)), "deployed"),
               Rel(2, A(1), "failed"), Rel(2, A(1), "pending"), Rel(2, A(1), "uninstalled")}}
    \cup {[HelmWorld EXCEPT !.ns = FALSE], [HelmWorld EXCEPT !.cache = 1, !.deps = "outdated"],
          [HelmWorld EXCEPT !.cache = 0, !.repo = 0, !.plugin = 0, !.out = 1]}
    \cup {[HelmWorld EXCEPT !.private = TRUE, !.helm = h] : h \in {4, 8, 12}}
    \cup {[HelmWorld EXCEPT !.rel = Rel(2, A(1), "uninstalled"), !.helm = 8, !.repo = 2]}
Helm == [state |-> "present", ver |-> 0, url |-> FALSE, update |-> FALSE, dep |-> FALSE, vals |-> A(1), files |-> Unset,
         set |-> Unset, json |-> FALSE, reuse |-> FALSE, reset |-> TRUE, force |-> FALSE, replace |-> FALSE,
         atomic |-> FALSE, wait |-> FALSE, purge |-> TRUE, createns |-> FALSE, conn |-> "plain"]
HelmTaskSet ==
    {Helm, [Helm EXCEPT !.ver = 1, !.url = TRUE], [Helm EXCEPT !.ver = 3], [Helm EXCEPT !.update = TRUE, !.dep = TRUE],
     [Helm EXCEPT !.url = TRUE, !.dep = TRUE], [Helm EXCEPT !.url = TRUE, !.dep = TRUE, !.replace = TRUE],
     [Helm EXCEPT !.files = B(2)], [Helm EXCEPT !.files = A(1), !.vals = Unset], [Helm EXCEPT !.set = B(2), !.json = TRUE],
     [Helm EXCEPT !.vals = B(1), !.reset = FALSE, !.reuse = TRUE], [Helm EXCEPT !.vals = Unset, !.reset = FALSE],
     [Helm EXCEPT !.force = TRUE], [Helm EXCEPT !.replace = TRUE], [Helm EXCEPT !.wait = TRUE, !.conn = "ca"],
     [Helm EXCEPT !.atomic = TRUE, !.createns = TRUE, !.conn = "insecure"], [Helm EXCEPT !.state = "absent"],
     [Helm EXCEPT !.state = "absent", !.purge = FALSE], [Helm EXCEPT !.state = "absent", !.replace = TRUE]}
HelmScenes ==
    On("helm", HelmTaskSet, HelmWorlds)
    \cup On("helm_repository", [state : {"present", "absent"}, force : BOOLEAN, src : {1}], HelmWorlds)
    \cup On("helm_plugin", [state : {"present", "absent", "latest"}], HelmWorlds)
    \cup On("helm_pull", [cafile : {TRUE}, skiptls : {TRUE}, untar : BOOLEAN, url : BOOLEAN, ver : {0}],
            {w \in HelmWorlds : w.rel = None} \cup {[HelmWorld EXCEPT !.helm = 2]})
    \cup On("helm_template", [update : BOOLEAN, outdir : BOOLEAN, set : {Unset, A(1)}, json : {TRUE}, url : {FALSE},
                              ver : {0, 2}], {w \in HelmWorlds : w.rel = None})
    \cup On("helm_info", [conn : {"plain", "ca"}], HelmWorlds) \cup On("helm_plugin_info", {None}, {HelmWorld})

\* Compose projects and stacks.
Cont(n, up, c, i) == [n |-> n, up |-> up, conf |-> c, img |-> i]
Both(x) == [s \in Services |-> x]
Project == [cont |-> Both(NoContainer), conf |-> Both(1), local |-> Both(1), remote |-> Both(1), orphan |-> "none",
            compose |-> 30, files |-> TRUE, stack |-> Both(0), left |-> FALSE]
Projects ==
    {[Project EXCEPT !.cont["a"] = a, !.cont["b"] = b, !.compose = c] : c \in {20, 30}, b \in {NoContainer, Cont(1, TRUE, 1, 1)},
        a \in {NoContainer, Cont(1, TRUE, 1, 1), Cont(1, FALSE, 1, 1), Cont(1, TRUE, 2, 1), Cont(2, TRUE, 1, 1)}}
    \cup {[Project EXCEPT !.local = Both(0)], [Project EXCEPT !.local = Both(0), !.remote = Both(0)],
          [Project EXCEPT !.remote = Both(2), !.cont = Both(Cont(1, TRUE, 1, 1))],
          [Project EXCEPT !.orphan = "running", !.cont = Both(Cont(1, TRUE, 1, 1))], [Project EXCEPT !.orphan = "stopped"],
          [Project EXCEPT !.compose = 17], [Project EXCEPT !.files = FALSE]}
ComposeV2 == [state |-> "present", services |-> {}, deps |-> TRUE, pull |-> "never", recreate |-> "auto", orphans |-> FALSE,
              checkfiles |-> TRUE]
ComposeV2Tasks ==
    {[ComposeV2 EXCEPT !.state = s, !.services = n, !.orphans = (n = {})] :
        s \in {"present", "stopped", "restarted", "absent"}, n \in {{}, {"a"}}}
    \cup {[ComposeV2 EXCEPT !.pull = u, !.recreate = r] : u \in {"always", "policy"}, r \in {"always", "never", "auto"}}
    \cup {[ComposeV2 EXCEPT !.deps = FALSE, !.services = {"a"}, !.checkfiles = FALSE]}
ComposeV1 == [state |-> "present", services |-> {}, deps |-> TRUE, pull |-> FALSE, recreate |-> "auto", orphans |-> FALSE,
              stopped |-> FALSE, restarted |-> FALSE, scale |-> Both(-1)]
ComposeV1Tasks ==
    {[ComposeV1 EXCEPT !.services = n, !.stopped = s, !.pull = u] : n \in {{}, {"a"}}, s \in BOOLEAN, u \in BOOLEAN}
    \cup {[ComposeV1 EXCEPT !.state = "absent"], [ComposeV1 EXCEPT !.orphans = TRUE], [ComposeV1 EXCEPT !.restarted = TRUE],
          [ComposeV1 EXCEPT !.recreate = "always"], [ComposeV1 EXCEPT !.recreate = "never"],
          [ComposeV1 EXCEPT !.scale["a"] = 2], [ComposeV1 EXCEPT !.scale["a"] = 0]}
Stacks == {[Project EXCEPT !.stack["a"] = a, !.stack["b"] = b, !.left = (b # 0)] : a \in {0, 1, 2}, b \in {0, 1}}
StackTasks == [state : {"present"}, in : {{"a"}, {"a", "b"}}, prune : BOOLEAN, retries : {0}]
    \cup [state : {"absent"}, in : {{}}, prune : {FALSE}, retries : {0, 2}]
ComposeScenes ==
    On("docker_compose_v2", ComposeV2Tasks, Projects) \cup On("docker_compose", ComposeV1Tasks, Projects)
    \cup On("docker_compose_v2_pull", [policy : {"always", "missing"}, services : {{}, {"a"}}, checkfiles : {TRUE}], Projects)
    \cup On("docker_stack", StackTasks, Stacks)

\* docker_container_copy_into.
Container == [fs |-> [x |-> NoFile, y |-> NoFile], local |-> File(1, 1, 1, 0), ids |-> 0, paused |-> FALSE]
Containers ==
    {[Container EXCEPT !.fs["x"] = n] :
        n \in {NoFile, File(1, 1, 1, 0), File(1, 2, 1, 0), File(2, 1, 1, 0), File(1, 1, 2, 0), File(1, 1, 1, 1), [kind |-> "dir"]}}
    \cup {[Container EXCEPT !.fs["x"] = Link("y"), !.fs["y"] = n, !.paused = (n = NoFile)] :
             n \in {NoFile, File(1, 1, 1, 0), File(1, 2, 1, 0), Link("x")}}
    \cup {[Container EXCEPT !.local = l, !.fs["x"] = n] :
             l \in {NoFile, [kind |-> "dir"], [kind |-> "link", to |-> "y", mode |-> 1, file |-> File(1, 1, 1, 0)]},
             n \in {NoFile, Link("y"), File(1, 1, 1, 0)}}
CopyTask == [source |-> "file", follow |-> FALSE, lfollow |-> TRUE, ids |-> -1, mode |-> -1, force |-> "none"]
CopyText == [source |-> "content", follow |-> FALSE, ids |-> -1, mode |-> 1, force |-> "none", size |-> 1, data |-> 1]
CopyTasks ==
    {[CopyTask EXCEPT !.follow = f, !.force = o] : f \in BOOLEAN, o \in {"none", "yes", "no"}}
    \cup {[CopyTask EXCEPT !.lfollow = FALSE, !.ids = 1], [CopyTask EXCEPT !.lfollow = FALSE, !.follow = TRUE, !.mode = 2]}
    \cup {[CopyText EXCEPT !.follow = f, !.force = o] : f \in BOOLEAN, o \in {"none", "no"}}

\* docker_volume, docker_plugin, docker_login, docker_prune and docker_container_exec.
VolumeWorlds ==
    [vol : {None} \cup [driver : {"local", "nfs"}, opt : {"unset", "", "x"}, label : {"unset", "l"}], used : BOOLEAN]
VolumeTasks == [state : {"present"}, driver : {"local"}, opt : {"unset", "", "x"}, label : {"unset", "l"},
                recreate : {"never", "options-changed", "always"}]
    \cup [state : {"absent"}, driver : {"local"}, opt : {"unset"}, label : {"unset"}, recreate : {"never"}]
PluginWorlds == [plug : {None} \cup [on : BOOLEAN, opt : {"default", "x"}], remote : BOOLEAN]
PluginTasks == [state : {"present", "absent", "enable", "disable"}, opt : {"unset", "", "x"}, force : BOOLEAN]
LoginFiles == {EmptyFile, [EmptyFile EXCEPT !.kind = "none"], [EmptyFile EXCEPT !.kind = "bad"]}
    \cup {[EmptyFile EXCEPT !.helper = h, !.mine = c, !.other = <<1, 2>>] : h \in BOOLEAN, c \in {<<1, 1>>, <<1, 2>>, <<2, 1>>}}
    \cup {[EmptyFile EXCEPT !.host = <<1, 2>>]}
LoginWorlds == [file : LoginFiles, helper : {NoEntry, <<1, 1>>, <<1, 2>>}, accepts : {{}, {<<1, 1>>}}]
LoginTasks == [state : {"present"}, cred : {<<1, 1>>}, reauth : BOOLEAN] \cup [state : {"absent"}, cred : {NoEntry}, reauth : {FALSE}]
PruneWorlds == [garbage : {{}, {"containers"}, {"images", "networks"}}, held : {{}}]
    \cup [garbage : {{"containers", "builder_cache"}}, held : {{"images", "volumes"}}]
PruneTasks == [kinds : {{}, {"containers"}, {"containers", "images", "volumes"}, {"networks", "volumes", "builder_cache"}},
               size : {"none"}] \cup [kinds : {{"builder_cache"}}, size : {"bad"}]
EngineScenes ==
    On("docker_volume", VolumeTasks, VolumeWorlds) \cup On("docker_plugin", PluginTasks, PluginWorlds)
    \cup On("docker_login", LoginTasks, LoginWorlds) \cup On("docker_prune", PruneTasks, PruneWorlds)
    \cup On("docker_container_exec", [detach : BOOLEAN, stdin : BOOLEAN],
             [cont : {"running", "paused", "none"}, ran : {0}])

\* The options of docker_container.
Options == [given |-> << >>, by |-> << >>, star |-> "unset", handling |-> "correct", compat |-> FALSE, mismatch |-> "ignore",
            ip |-> "unset", cli |-> FALSE]
Words1 == << <<"run", "fast">>, <<"now">> >>
Port(ip, host, cont, proto) == [ip |-> ip, host |-> host, cont |-> cont, proto |-> proto]
GivenSets ==
    {<< >>, [command |-> [str |-> FALSE, v |-> Words1]], [command |-> [str |-> TRUE, v |-> Words1], entrypoint |-> [str |-> FALSE, v |-> << >>]],
     [env |-> ("A" :> "2") @@ ("C" :> "3")], [env |-> ("A" :> "2"), env_file |-> ("A" :> "9") @@ ("D" :> "4")],
     [env |-> ("A" :> NotText)], [labels |-> ("l" :> "2")], [labels |-> ("i" :> "1") @@ ("l" :> "2")],
     [memory |-> <<2, "k">>, memory_swap |-> <<0, "unlimited">>], [memory |-> <<2, "bad">>], [shm_size |-> <<1, "m">>, cpus |-> 5],
     [healthcheck |-> [test |-> "cmd", interval |-> "5s", cli |-> "false"]], [healthcheck |-> [interval |-> "1m5s", cli |-> "false"]],
     [healthcheck |-> [interval |-> "5s", cli |-> "true"]], [healthcheck |-> [test |-> "", cli |-> "true"]],
     [healthcheck |-> [test |-> "cmd", interval |-> "0s", cli |-> "false"]], [healthcheck |-> [interval |-> "5", cli |-> "false"]],
     [volumes |-> {<<"/data">>, <<"./h", "/x">>, <<"v", "/y", "ro">>}], [volumes |-> {<<"/data", "ro">>, <<"v", "/y">>}],
     [volumes |-> {<<"v", "/y", "often">>}], [volumes |-> {<<"./h", "/y", "z">>}, mounts |-> {[target |-> "/y", type |-> "tmpfs"]}],
     [mounts |-> {[target |-> "/m", type |-> "volume", source |-> "v", no_copy |-> "false", volume_options |-> "o"],
                  [target |-> "/t", type |-> "tmpfs", tmpfs_size |-> <<1, "k">>]}],
     [mounts |-> {[target |-> "/m", type |-> "bind"]}], [mounts |-> {[target |-> "/m", type |-> "volume", volume_driver |-> "d", volume_options |-> "o", no_copy |-> "true"]}],
     [published_ports |-> <<Port("", <<8080, 8080>>, <<80, 80>>, ""), Port("", <<5001, 5002>>, <<1, 3>>, "udp"), Port("9.9.9.9", << >>, <<7, 7>>, "tcp")>>],
     [published_ports |-> <<Port("", <<8080, 8080>>, <<80, 80>>, ""), Port("", <<8081, 8081>>, <<80, 80>>, "")>>],
     [published_ports |-> <<Port("1.1.1.1", <<8080, 8089>>, <<80, 80>>, ""), Port("9.9.9.9", <<8081, 8081>>, <<80, 80>>, "")>>],
     [published_ports |-> <<Port("9.9.9.9", << >>, <<80, 80>>, ""), Port("9.9.9.9", <<8081, 8081>>, <<80, 80>>, "")>>],
     [published_ports |-> <<Port("hostname", <<1, 1>>, <<80, 80>>, "")>>], [published_ports |-> <<Port("", << >>, <<80, 80>>, "")>>, networks |-> <<"web", "own">>],
     [exposed_ports |-> {<<80, 90, "tcp">>, <<7, 7, "udp">>}, published_ports |-> <<Port("", << >>, <<81, 82>>, "")>>, publish_all_ports |-> "false"],
     [publish_all_ports |-> "true"], [networks |-> <<"own">>], [networks |-> <<"nowhere">>], [network_mode |-> <<"net", "default">>],
     [network_mode |-> <<"container", "x">>, pid_mode |-> <<"container", "gone">>, ipc_mode |-> <<"net", "host">>],
     [log_driver |-> "syslog", log_options |-> ("max" :> 3)], [log_options |-> ("max" :> 3)], [log_driver |-> "syslog"],
     [restart_policy |-> "on-failure", restart_retries |-> 3], [restart_policy |-> "always"], [restart_retries |-> 3],
     [detach |-> "true", interactive |-> "true"], [detach |-> "false"], [platform |-> <<"", "amd64">>], [platform |-> <<"linux", "arm64">>],
     [capabilities |-> {"a"}, cap_drop |-> {"b"}], [dns_servers |-> <<"1.1.1.1", "2.2.2.2">>], [stop_timeout |-> 5],
     [devices |-> {<<"/d">>, <<"/e", "/f">>, <<"/g", "/h", "r">>}, device_read_bps |-> {<<"/d", <<1, "k">> >>}, device_write_iops |-> {<<"/d", 5>>}],
     [device_requests |-> {[driver |-> "n", count |-> 1]}, etc_hosts |-> ("h" :> "1.1.1.1"), links |-> {<<"x">>, <<"x", "y">>}],
     [sysctls |-> ("s" :> 1), tmpfs |-> {<<"/t">>, <<"/u", "size=1">>}, ulimits |-> {<<"nofile", 1>>, <<"nproc", 1, 2>>}],
     [mac_address |-> <<"1", "-", "2">>, cpuset_cpus |-> "0,1", blkio_weight |-> 10, privileged |-> "true"]}
OptionTasks ==
    {[Options EXCEPT !.given = g] : g \in GivenSets} \cup {[Options EXCEPT !.given = g, !.handling = "compatibility", !.compat = TRUE] : g \in GivenSets}
    \cup {[Options EXCEPT !.given = [labels |-> "l" :> "2"], !.by = [labels |-> "strict"], !.mismatch = m] : m \in {"ignore", "fail"}}
    \cup {[Options EXCEPT !.star = s] : s \in {"strict", "ignore", "allow_more_present"}}
    \cup {[Options EXCEPT !.given = [dns_servers |-> <<"2.2.2.2">>, capabilities |-> {"a"}], !.by = [dns_servers |-> m]] : m \in {"allow_more_present", "ignore"}}
    \cup {[Options EXCEPT !.by = b] : b \in {[memory |-> "allow_more_present"], [ports |-> "ignore"]}}
    \cup {[Options EXCEPT !.given = [devices |-> {<<"/d">>}, stop_timeout |-> 5], !.by = [devices |-> "strict", stop_timeout |-> "strict"]],
           [Options EXCEPT !.given = [networks |-> <<"web">>], !.cli = TRUE], [Options EXCEPT !.ip = "hostname"],
           [Options EXCEPT !.given = [published_ports |-> <<Port("", << >>, <<80, 80>>, "")>>], !.ip = "8.8.8.8"],
           [Options EXCEPT !.given = [volumes |-> {<<"v", "/y">>}], !.by = [volumes |-> "strict"]],
           [Options EXCEPT !.given = [command |-> [str |-> TRUE, v |-> << >>]]]}
BareImage == [Env |-> {}, Labels |-> << >>, ExposedPorts |-> {}, Volumes |-> {}, Healthcheck |-> {}, Platform |-> <<"linux", "amd64">>]
FullImage == [BareImage EXCEPT !.Env = {<<"A", "1">>, <<"B", "1">>}, !.Labels = ("i" :> "1"), !.ExposedPorts = {<<443, 443, "tcp">>},
                               !.Volumes = {<<"/data">>}, !.Healthcheck = {("Test" :> "image")}]
Data(p) == CreateData(Values([Options EXCEPT !.given = p]))
Made(p, i) == [cfg |-> Completed(Data(p), i)]
OptionWorlds ==
    {[con |-> c, image |-> i, api |-> 44, os |-> "linux", nets |-> [web |-> "", own |-> "7.7.7.7"], peers |-> [x |-> "id1"]] :
        i \in {BareImage}, c \in {None, Made(<< >>, BareImage),
            Made([env |-> ("A" :> "2") @@ ("Z" :> "3"), memory |-> <<1, "k">>, dns_servers |-> <<"2.2.2.2">>, capabilities |-> {"a", "z"}], BareImage)}}
    \cup {[con |-> c, image |-> FullImage, api |-> 27, os |-> "linux", nets |-> [web |-> "", own |-> ""], peers |-> << >>] :
        c \in {None, Made([labels |-> ("i" :> "2") @@ ("z" :> "2"), healthcheck |-> [cli |-> "false"], volumes |-> {<<"v", "/y", "rw">>}], FullImage)}}

\* The modules that ask.
Conn == [host |-> NoHost, hostname |-> "unset", version |-> -1, ca |-> "unset", cert |-> "unset", ssl |-> "unset",
         tls |-> "unset", verify |-> "unset", ssh |-> FALSE, context |-> "unset"]
Env == [host |-> NoHost, hostname |-> "unset", version |-> -1, certs |-> "unset", ssl |-> "unset", tls |-> "unset", verify |-> "unset"]
Tcp == [proto |-> "tcp", name |-> "h", port |-> TRUE]
Conns == {Conn, [Conn EXCEPT !.host = Tcp, !.tls = "true", !.verify = "false"], [Conn EXCEPT !.host = Tcp, !.verify = "true", !.ca = "mine"],
          [Conn EXCEPT !.host = Tcp, !.verify = "true", !.hostname = "other", !.ca = "mine", !.cert = "mine"],
          [Conn EXCEPT !.verify = "true", !.cert = "lost"], [Conn EXCEPT !.version = 50], [Conn EXCEPT !.version = 24], [Conn EXCEPT !.context = "h"]}
    \cup {[Conn EXCEPT !.host = [Tcp EXCEPT !.proto = x], !.ssh = (x = "ssh")] : x \in {"http", "https", "fd", "npipe", "ssh"}}
    \cup {[Conn EXCEPT !.host = [Tcp EXCEPT !.port = FALSE]], [Conn EXCEPT !.host = [Tcp EXCEPT !.proto = "ssh"]]}
Ref(reg, lib) == [reg |-> reg, lib |-> lib, base |-> "x"]
Obj(i, n, p) == [id |-> i, name |-> n, prefix |-> p]
SwarmNode(n, l, m) == [id |-> n, name |-> n, leader |-> l, manager |-> m, addr |-> "0", known |-> IF l THEN "1" ELSE ""]
Dockerd == [tls |-> FALSE, ca |-> "", cn |-> "", api |-> 44, role |-> "manager", self |-> "n", key |-> "k", volumes |-> <<[name |-> "web"]>>,
            containers |-> <<Obj(1, "db", {}), Obj(2, "web", {})>>, networks |-> <<Obj(3, "own", {"web"}), Obj(4, "web", {})>>,
            images |-> <<[id |-> 5, names |-> {Ref("", FALSE)}], [id |-> 6, names |-> {Ref("quay.io", FALSE)}]>>,
            nodes |-> <<SwarmNode("n", TRUE, TRUE), SwarmNode("m", FALSE, TRUE), SwarmNode("o", FALSE, FALSE)>>,
            services |-> <<[name |-> "web", mode |-> "replicated", reps |-> 2], [name |-> "log", mode |-> "global", reps |-> 0]>>,
            tasks |-> <<[id |-> 7, node |-> "n", started |-> TRUE], [id |-> 8, node |-> "o", started |-> TRUE]>>,
            stacks |-> <<[json |-> FALSE], [json |-> TRUE, name |-> "web", tasks |-> <<7, 8>>]>>]
Bare == [Dockerd EXCEPT !.role = "none", !.self = "", !.containers = << >>, !.networks = << >>, !.volumes = << >>, !.nodes = << >>,
                        !.images = <<[id |-> 5, names |-> {Ref("docker.io", TRUE)}]>>]
Remote == [Dockerd EXCEPT !.tls = TRUE, !.ca = "mine", !.cn = "h", !.containers = <<Obj(6, "web", {})>>]
HostWorld == [env |-> Env, files |-> {"mine", "env"}, sdk |-> 50, both |-> FALSE, cli |-> "docker", paramiko |-> FALSE,
              at |-> ("" :> Dockerd) @@ ("h" :> Remote)]
HostWorlds ==
    {HostWorld, [HostWorld EXCEPT !.sdk = 70, !.at["h"].cn = "other", !.paramiko = TRUE], [HostWorld EXCEPT !.sdk = 20, !.cli = "podman"],
     [HostWorld EXCEPT !.at[""] = Bare, !.cli = "none", !.both = TRUE], [HostWorld EXCEPT !.at[""].api = 24, !.at["h"].ca = "public"],
     [HostWorld EXCEPT !.at[""] = Bare], [HostWorld EXCEPT !.at[""].tasks[1].started = FALSE, !.at["h"].tls = FALSE, !.sdk = 0],
     [HostWorld EXCEPT !.at[""].tasks[1].started = FALSE, !.at["h"] = None], [HostWorld EXCEPT !.env.tls = "true", !.env.verify = "true"],
     [HostWorld EXCEPT !.env = [Env EXCEPT !.host = Tcp, !.verify = "true", !.certs = "env", !.hostname = "x"], !.at["h"].ca = "env", !.at["h"].cn = "x"],
     [HostWorld EXCEPT !.env = [Env EXCEPT !.host = Tcp, !.tls = "true", !.ssl = "v1", !.certs = "env"]]}
InfoScenes ==
    LET on(mod, asks) == On(mod, [conn : Conns, ask : asks], HostWorlds)
        plain(mod, asks) == On(mod, [conn : {Conn}, ask : asks], HostWorlds)
    IN  on("docker_container_info", {"web"}) \cup plain("docker_network_info", {"web", "none"}) \cup plain("docker_volume_info", {"web"})
        \cup plain("docker_image_info", {<< >>, <<[id |-> 6, name |-> Ref("", FALSE)]>>, <<[id |-> 0, name |-> Ref("quay.io", FALSE)], [id |-> 0, name |-> Ref("", TRUE)]>>}
                       \cup {<<[id |-> 0, name |-> Ref(r, l)]>> : r \in {"", "docker.io"}, l \in BOOLEAN})
        \cup plain("docker_host_info", {{}, {"disk_usage", "volumes", "networks"}, {"containers", "images"}})
        \cup plain("docker_swarm_info", {{}, {"tasks"}, {"services", "nodes", "key"}}) \cup on("docker_swarm_service_info", {"web"})
        \cup plain("docker_node_info", [self : {TRUE}, names : {<< >>}] \cup [self : {FALSE}, names : {<< >>, <<"n", "gone", "m">>}])
        \cup on("docker_stack_info", {"all"}) \cup plain("docker_stack_task_info", {"web", "none"})

MCScenes ==
    InfoScenes \cup
    On("docker_container", OptionTasks, OptionWorlds) \cup
    EngineScenes \cup
    On("docker_container_copy_into", CopyTasks, Containers) \cup
    ImageScenes \cup HelmScenes \cup ComposeScenes \cup
    On("docker_secret", {p \in SecretTasks : p.tpl = 0}, Stores) \cup On("docker_config", SecretTasks, Stores)
    \cup On("docker_node", NodeTasks, NodeWorlds) \cup On("docker_swarm", SwarmTasks, SwarmWorlds)
    \cup On("docker_swarm_service", SvcTasks, SvcWorlds) \cup On("docker_swarm_service", OptTasks, OptWorlds)
=============================================================================
