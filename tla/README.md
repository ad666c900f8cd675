# A TLA+ model of the Ansible operator

This directory models and verifies two bodies of code of the repository:

- the **operator**: the Go program under `internal/ansible` and `internal/cmd/ansible-operator`
  that reconciles custom resources (CRs) by running Ansible roles and playbooks, with the plugin
  `ansible_runner_http` that reports their events;
- the **collections** under `openshift/release/ansible/ansible_collections` that those roles call:
  `kubernetes.core`, `community.docker` and `cloud.common`, which are Python and make up most of the
  code.

`PROJECT.json` lists components, runs, mutants, hazards, findings and theorems, and maps every
definition that models code to its lines.

## 1. Inventory of the system

The operator is one process. Its long-lived parts are a controller-runtime manager with one
controller per entry of `watches.yaml`, an HTTP proxy on localhost:8888 through which Ansible talks
to the API server, and a metrics API on localhost:5050. Each reconcile starts one `ansible-runner`
process and one HTTP server on a unix socket that receives its events. The roles of that process
call modules of the collections, each a short-lived client of an API server, a Docker daemon or a
command-line program.

| component | source (under `internal/ansible` unless said) | state | operations | talks to |
|---|---|---|---|---|
| event API | `runner/eventapi` | `stopped`, RWMutex, channel `Events`, HTTP server | `New`, `handleEvents`, `Close` | ansible-runner's plugin posts to it; Reconcile reads its channel; `runner.Run` closes it |
| runner | `runner/runner.go`, `runner/internal/inputdir` | input directory per CR, artifacts, `latest` link | `Run`, `isFinalizerRun`, `Write` | called by Reconcile; starts ansible-runner |
| reconciler | `controller/reconcile.go` | the local copy `u` of the CR, `deleted`, `statusEvent`, `failureMessages` | `Reconcile`, `markRunning`, `markError`, `markDone` | API server (cached and uncached reads, updates), runner, work queue |
| controller setup | `controller/controller.go` | predicates, `ControllerMap` entry | `Add` | manager, proxy |
| status | `controller/status` | list of conditions plus custom status | `SetCondition`, `GetCondition`, `CreateFromMap` | reconciler |
| proxy | `proxy/proxy.go`, `cache_response.go`, `inject_owner.go`, `kubectl.go` | `ControllerMap`, watch maps, REST mapper cache | cache lookups, owner injection, dependent watches | Ansible, informer cache, controllers |
| kubeconfig | `proxy/kubeconfig` | one temporary file per run | `Create` | reconciler, proxy |
| metrics | `metrics`, `apiserver` | collectors, `userMetrics` map | `HandleUserMetric` | Ansible modules, reconciler |
| start-up and helpers | `flags`, `watches`, `paramconv`, `handler`, `events`, `proxy/requestfactory` | none at run time, or fixed at start-up | parsing, conversion, logging | everything |
| kubernetes.core: objects | `module_utils/k8s`, `apply.py`, `common.py`, `k8s`, `k8s_scale`, `k8s_json_patch`, `k8s_info` | the process of one task | create, apply, patch, replace, delete, scale, wait | API server, which others use too |
| kubernetes.core: nodes | `k8s_drain`, `k8s_taint` | the process of one task | cordon, list, evict, wait, taint | API server; scheduler and kubelet act meanwhile |
| kubernetes.core: helm | `helm*`, `module_utils/helm.py` | the process of one task | install, upgrade, uninstall, repositories, plugins | the helm program |
| cloud.common: turbo | `turbo/server.py`, `turbo/common.py`, `turbo/module.py` | a daemon behind a socket, its jobs, its timer | bind, serve, run, expire | modules and lookups of several processes |
| community.docker | 36 modules (all but `current_container_facts` are modelled), their three clients and their option tables | the process of one task | see section 2 | Docker daemon, registry, swarm managers, docker CLI |

What is hard here, and what makes each part right:

- **event API**: handlers overlap `Close`; the channel may be full because Reconcile left its loop.
  Nothing is sent on the closed channel; what was answered 204 is what Reconcile saw, in order, once;
  closing terminates.
- **reconciler**: the cached object is stale, the object is deleted (and perhaps re-created) between
  two API calls, updates conflict, calls fail, the operator restarts. The finalizer is removed only
  after a finalizer run; a deletion is eventually finalized; the newest generation is eventually run;
  the status never claims success and failure at once.
- **runner**: `requeue_after` makes Reconcile leave a run that goes on, and the next run writes the same
  directory. Every run reads its own inputs and ends.
- **status**: condition lists come from users and earlier versions; marks repeat at any point.
- **proxy**: two requests for a new kind race to add a watch; adding it may fail; a restart forgets.
  Every dependent object of a CR is watched.
- **tasks on objects and nodes**: read, compare and write are separate requests, answers get lost, status
  lags behind. A task that ends well did what it says and left the rest alone.
- **turbo**: two clients start two daemons on one path; a timer stops a daemon that may just have accepted
  a job. A module runs at most once, in its own environment, and every client comes back.
- **docker and helm tasks**: what a check foretells, what a run does, what it reports and what a second
  run finds are computed along four different paths in the code. They must tell one story.

## 2. Modules and how they correspond to the code

| module | models |
|---|---|
| `EventReceiver` | `eventapi.go`, the closing goroutine of `runner.Run`, the event loop of `Reconcile` as a reader that may leave, the plugin `events.py` as the poster |
| `EventPipe` | the abstract promise of the event API, a sealed pipe; `EventReceiver` is shown to implement it |
| `Verdicts` | what `markRunning`, `markError` and `markDone` make of the statuses of the three conditions |
| `StatusConditions` | `controller/status` and the marks, on lists of conditions; shown to compute `Verdicts` |
| `Reconciler` | `Reconcile`, the start of `runner.Run`, the predicates of `controller.Add`, with an API server, an informer and a work queue; uses `Verdicts` |
| `RunLifecycle` | `runner.Run` and `inputdir.Write` file by file, the kubeconfig, the `latest` link, for overlapping runs |
| `DependentWatches` | `injectOwnerReferenceHandler`, `cacheResponseHandler` on single objects, `recoverDependentWatches`, `addWatchToController`, `WatchMap` |
| `K8sObject` | `k8s` in both implementations, `k8s_scale`, `k8s_json_patch`, `k8s_info` on one object |
| `K8sNode` | `k8s_drain`, `k8s_taint` |
| `TurboServer` | the client and the daemon of turbo mode |
| `DockerHost` | one `docker_container` and one `docker_network` task on one host at the same time |
| `TaskRuns` | the playbook around a task: check, run, run again, with others in between |
| `DockerSwarm`, `ServiceOptions` | `docker_secret`, `docker_config`, `docker_node`, `docker_swarm`, `docker_swarm_service`, and the options of the last one to the API and back |
| `DockerImages` | `docker_image` and the seven `docker_image_*` modules that change something |
| `HelmTasks` | `helm`, `helm_repository`, `helm_plugin`, `helm_pull`, `helm_template`, `helm_info`, `helm_plugin_info` |
| `ComposeTasks` | `docker_compose_v2`, `docker_compose_v2_pull`, `docker_compose`, `docker_stack` |
| `ContainerCopy` | `docker_container_copy_into` |
| `DockerEngine` | `docker_volume`, `docker_plugin`, `docker_login`, `docker_prune`, `docker_container_exec` |
| `ContainerOptions` | the option table of `docker_container` (`base.py`, `docker_api.py`): preprocessing, sending, reading back, comparing |
| `DockerInfo` | how the three clients find a daemon and TLS, and the ten modules that only report |
| `ModuleTasks` | the union of the task families and the four properties they share |
| `Selections` | the loops that keep the items of a list with a property, for `StatusConditions` and `K8sNode` |
| `*Proofs` | theorems; each extends its component, and `ReconcilerProofs` both `Reconciler` and `StatusConditions` |
| `MC*` | the instances that TLC checks; `MCModuleTasks` has the scenes of the task families, `MCCollections` puts them beside `DockerHost` |

### EventReceiver

A *client* is a connection that posts events one after the other; ansible-runner is one client, the
receiver is written for any number. `pc[c]` is the program point of the handler goroutine of the
client's last POST: `Post` → `Decode` (or `Reject`) → `RLock` → `Gone`, or `DropStatus`, or
`StartSend` → `Send` or `SendTimeout` → `Return`, which runs the deferred `RUnlock`. `readers` and
`stopped` are the RWMutex and the flag it guards; a pending writer blocks new readers as in Go. The
goroutine of `runner.Run` goes through `RunnerExits`, `Stop` (Lock, `stopped = true`, Unlock),
`CloseServer`, `CloseEvents`, `ReceiveErr`. Unlocking an RWMutex nobody holds is a fatal error of
the Go runtime: it sets `crashed`, after which nothing moves. The five rejecting status codes are
collapsed into one.

### StatusConditions and Verdicts

`StatusConditions` starts from any stored list (complete entries, entries with missing keys, entries
that are not maps) and applies the marks in any order. Times and messages are step numbers, so that
"the latest" is meaningful. `Verdicts` is the view of such a list that `Reconciler` needs: the
status of each of the three conditions. `MarksAreVerdicts` shows that the two agree, so `Reconciler`
need not carry lists.

### Reconciler

One action per call that leaves the process, because between two such calls anything may happen:
`GetCached` (from line 72), `AddFinalizer`, `MarkRunningGet/Put`, `StartRun`/`RunRefused`, the run
(`RunFinishes`, `RunRequeues`, `RunAborts`, `RunSilent`), `RefreshAfterRun`, `RemoveFinalizer`,
`MarkDoneGet/Put`, `MarkErrorGet/Put`. `Conflict` and `CallFails` are the error returns of these
calls; an update may also be applied with its answer lost. `local` holds the local variables; `fresh`
stands for "the resourceVersion of `u` is the current one". `versions` is the history of the resource
from the version the informer cache shows (head) to the one the API server has (last); `Sync` advances
the cache and passes the event through the predicates. `options` is the entry of `watches.yaml`, and whether its
role may ask to be requeued after zero, chosen once at the start.

### RunLifecycle

Reconciliations of one resource follow each other, their runs overlap. `pc` is where Reconcile is in
its own code and that of `runner.Run`: the kubeconfig, the receiver, the directories, then the files one
by one, each truncated (`Truncate`) and filled (`Fill`), or left out (`Omit`). `files[f]` is the run that
wrote `f`, or that it is torn. `proc[r]` is the process of run `r` and the goroutine that waits for it:
reading its inputs, playing, closing the receiver, moving the link in the three steps of `runner.go`.

### DependentWatches

Resources are a kind and a namespace. A POST takes the steps of `addWatchToController` (`Lookup`,
`Store`, `Watch`) before `Forward`; a GET answered from the cache starts a goroutine that takes the
same steps without forwarding. The two `WatchMap`s are `recorded["owner"]` and
`recorded["annotation"]`. `Restart` loses the maps and the watches and keeps the resources.

### K8sObject, K8sNode

Each request of a task is one action and each answer may be an error; other writers, the object's
controller, the scheduler, the kubelet, an administrator and the node controller act in between. An
object has two fields, the last-applied annotation, a generation with the observed one, and a uid.
A patch is tried twice, as a strategic merge and then, should that fail or its
answer get lost, as a merge (`PatchRequests`); a create that meets a conflict goes on as in the code, and
`Converged` leaves it out (section 4). `perform_action` decides as `runner.py` does; the `Mixin*` actions are the older implementation in
`common.py`, which the other modules still share. A drain goes through `ReadNode`, `PatchNode` (cordon),
`ListPods` with the filter, `EvictPod`, `WaitPod`, and `RevertNodePatch` where the code takes the cordon back.

### TurboServer

The daemon is one asyncio loop, an action is what happens between two awaits. `file` is whose socket the
path leads to, which is how two daemons rob each other. `ghost_killer` is `Expire`; `Hour` lets a noted job
become old. A module whose `main` is no coroutine is the case in which nothing comes between `Begin` and
`End`.

### DockerHost

`Decide` is the body of `ContainerManager.present` between the inspection and the first change; after it
the task stops, removes, awaits, creates, updates, connects, starts and pauses, with another inspection
(`GetContainer`) after each step as in the code. The network task remembers who was connected
(`WantedFrom`), and disconnects, removes, creates and connects. Ids tell a container or a network from one
made later under the same name. `ctask` is the running task, `moves` what others may still change or make fail
(`MaxMoves` at first), and `Nothing` stands for a container that is not there.

### TaskRuns and the task families

`task` is the module's process: its parameters, where it is, what it remembers from earlier requests
(`loc`), whether it is going to report a change, and whether it has made one (`wrote`, history). `world` is
what it works on. Every family has one action per request of its modules; `OthersMake` lets somebody else
change the world between two of them, `Refused` makes any request fail. A playbook plays the task three
times: in check mode, for real, and again. `Scenes` are the tasks considered, each with its parameters and
the world it finds; `ScenesAssumption` has TLC check that the modules' argument specifications accept the
parameters. Values are numbers or names from small sets; a value that may be missing is a set of at most
one element; texts with separators are tuples of their parts.

The option tables are modelled by what they do. `ContainerOptions` and `ServiceOptions` translate parameters
into what is sent, say what the daemon stores, translate that back as the code does and compare; the goal
of a task is stated separately, on what the daemon stores, so that a mistake in either direction shows.

## 3. Runs

| run | instance | distinct states | question and answer |
|---|---|---|---|
| `receiver` | 2 clients, 2 posts each, channel of capacity 1 | 78 150 | safety, refinement of `EventPipe` and termination of the event API: all hold |
| `receiver_gone` | 1 client | violated | does a POST after `stopped` get its 410? No: the double unlock ends the process |
| `conditions` | all lists of up to 3 of 11 entries, 5 marks | 15 629 | do the marks on lists compute the verdicts, and is the shortcut of `SetCondition` harmless? Yes |
| `reconcile_safety` | 3 creations, lag 3, 1 fault, 1 restart, every option, another controller's finalizer | 2 085 272 | safety against deletion, re-creation, stale reads, failures: holds |
| `reconcile_live` | 1 resource, 1 edit of the spec and 1 of the annotation, 1 fault, 1 restart, every option | 618 974 | is every deletion finalized, the newest generation run, success reported? Yes, unless the annotation cannot be parsed; where a role asks to be requeued after zero, which is no requeue for the work queue, only generations are sure to be run |
| `lifecycle` | 3 runs, 1 failure | 218 804 | does every run read its own inputs, is its kubeconfig there until Reconcile is done with it, does it end? Yes |
| `watches` | 2 requests, one kind in two namespaces, one out of scope, 1 restart, failing watches | 242 631 | do maps and watches agree, is nothing watched out of scope, is every dependent watched in the end? Yes |
| `watches_core` | owner of the core group | violated | is the watch recovered after a restart? No |
| `k8s_object` | 2 tasks in a row of 94 kinds on one object, 4 ways to find it, 1 act of others | 1 178 093 | convergence, no stale readiness, check and repetition tell the truth, foreign fields stay: hold |
| `k8s_node` | every drain, cordon and taint task on 6 pods of all categories, 1 act of others | 933 642 | nobody slips in behind a drain, only one's own cordon and known taints are undone, the task ends: hold |
| `turbo` | 2 clients, 2 attempts, 1 fault | 82 094 | at most once, own environment, no recent work cut off, clients return, idle daemons stop: hold |
| `collections` | 6 084 scenes of 41 modules played three times, 1 act of others; and 22 container tasks beside 6 network tasks on 6 initial containers | 4 341 624 | one story of check, run and repetition; networks get the containers of their list back: hold, with the exceptions below |

Each property of a passing run has a mutant in `PROJECT.json`: a definition that models code, changed as a
plausible bug would change it, after which TLC finds the property violated.

**The properties of the collections run.**
`CheckForetells`: in check mode a module writes nothing, and what it foretells is what the run then
reports. `ChangeReported`: a task that reports no change has made none, whatever others do; one that
reports a change has made one. `GoalReached`: a task that nobody disturbs and that does not fail has brought about
what its parameters say. `RepetitionSettles`: played again, it changes nothing and says so.
`ResultsTrue` says all of this of a container task on a host where other things happen, and
`ConnectionsSurvive` that a network made again gets the containers of its list back; what becomes of an empty list is in section 4.

They hold for all tasks but the ones that `ModuleTasks` names, each with what the code does. `StackGivesUp`
(exception of `GoalReached`): a `docker_stack` removed with retries whose last try still finds something, see section 4. `Forced`:
tasks that report a change every time, either because they are asked to (`force`, `recreate`,
`restarted`, `exec`) or because something never compares equal (an option with an empty value,
`NeverReadBack` options of a service, a scale of zero). `Silent`: tasks that change something unreported
(old versions of rolling secrets, steps of `docker_image` whose report a later step overwrites, images
pulled for containers that are kept). `Stale`: tasks that compare before with after whoever made
the difference. `Guesses`: tasks whose check only guesses (pulls, builds, plugins, limits updated in place).
`HelmFetches`: tasks that write in check mode too. The exceptions are part of what the run shows: with any single
disjunct of these definitions left out TLC finds a counterexample.

**Deadlock** is not checked where the system may stop by itself: the event API ends with its run, the
condition marks end at their step bound, tasks end, and the reconciler is idle when there is no work and the
users have used up their bounds. `RunLifecycle` and `DependentWatches` are checked for deadlock.

**Bounds.** Two clients and a channel of one reach every state of the lock that matters: a reader
waiting on a full channel, a second one queued behind the pending writer, a send racing the closing.
Three creations are one more than the confusion of a resource with its successor needs. A lag of three lets
the cache show a resource while the API server has already removed it and created the next. One fault
and one restart fall at every place of every behaviour; since the properties are about the states in between,
two faults repeat the same retries. Two requests race for a watch; `WatchesStayBounded` proves the
bound on duplicate watches for any number. Three runs leave two behind while a third starts. Two turbo clients
are two daemons racing for the path and two modules in one daemon. In the collections a single act of others
falls between any two requests; the worlds and parameters are chosen per module so that every branch of
every comparison is taken (every action and every disjunct fires), with options that are treated alike represented
by one of them. `MaxVersions` bounds the versions of a rolling secret, `MaxIds` the containers and networks
created.

**Fairness.** Goroutines are scheduled and timers fire (`Handle`, `Close`, `Consume`, `TimerFires`);
`http.Server.Serve` returns once closed; the informer delivers, workers take requests and Reconcile
goes on (`Sync`, `Dequeue`, `Reconcile`), and a playbook run ends. Nothing obliges users, ansible-runner
or the network. In `RunLifecycle` Reconcile, each ansible-runner and each waiting goroutine go on. In
`K8sNode` the task takes its steps, whether or not its requests are refused, and the kubelet ends pods that are
terminating. In `TurboServer` processes are scheduled, plugins come to an end and time passes. In
`DependentWatches` a role reads each of its resources in every run and the owner is reconciled again and
again (at every start and after its period), which makes a GET of an existing resource happen infinitely often
if it can: strong fairness of `Get`, the only place where it is used.

## 4. Findings

1. `eventapi.go:152` unlocks explicitly although `RUnlock` is deferred: a POST that is handled after
   `stopped` is set kills the operator (`receiver_gone`). `CloseCompletes` and `LoopReleased` therefore
   say "or crashed".
2. `cache_response.go:234` compares `"Kind."` with `"Kind"` for owners in the core group, so watches of
   annotated dependents are not recovered after a restart (`watches_core`).

In three places the code does what its own documentation or comment denies. The model does what the code does, and
the property that meets the case names it as an exception:

- *Empty list of containers.* "An empty list will leave no containers connected to the network", and "it does not try to
  reconnect containers, except the ones listed", says `docker_network` (lines 141 and 178). Line 387 fills an
  empty list with the containers found connected: they stay connected, and are connected again to the network made
  anew. `ConnectionsSurvive` speaks only of the containers that the task lists.
- *Retries of a removal.* "If the last try still reports the stack as not completely removed the module will fail", says
  `docker_stack` (line 77). `docker_stack_rm` (lines 223-231) gives up and returns the exit code of the last try, and
  `main` (lines 317-333) ends with a change if that is zero. `GoalReached` asks that nothing of the stack is left, except
  where `StackGivesUp`.
- *Conflict of a create.* "In this case we'll mark it as unchanged and warn the user", says the comment at
  `service.py:345`. The service returns an empty dict, and `perform_action` reports a change for every create.
  `Converged` leaves a task out whose create met a conflict, for it has written nothing.

Noted besides while modelling, again with the exception in the statement of the property where it would fail.

*Operator.* With the finalizer in a manifest (`Preset = TRUE`) `reconcile.go:249` can take it off a
re-created resource whose finalizer never ran. A `requeue_after` of zero is never retried
(`reconcile.go:199`). Two racing requests start two watches (`proxy.go:233`). The kind stored before
`Controller.Watch` fails stays stored (`proxy.go:239`; the vendored controller-runtime does not fail there). A
resource re-created while the cache shows its predecessor is run for without the finalizer. A finalizer may
run twice, after a conflict or a restart. A failed `requeue_after` task without a `period` panics at
`reconcile.go:194`. A run without a stats event returns an error without `markError`, while a bad period
annotation writes the status even with `manageStatus: false` and blocks finalization. The receiver is not
closed when `Run` fails after `eventapi.New`, and the kubeconfig file is left when `Create` fails late.

*kubernetes.core.* A drain without `wait_timeout` does not wait as the text of the option has it, and the pod of a
StatefulSet, which comes back under its name, keeps an unlimited wait from ending (`LooksForever`). A taint patch wipes out
taints set since the read. `helm` updates repositories and dependencies in check mode too; its built-in
comparison ignores `release_values` when `values_files` are given and `set_values` always; a failed
release counts as present; `purge` does not purge a release uninstalled earlier; `helm_plugin` with
`latest` ends well for a missing plugin; `helm_plugin_info` reports a change.

*cloud.common.* A turbo daemon whose socket another one removed never stops itself.

*Containers and networks.* A check never foretells limits updated in place. One container port on several host ports
keeps the unresolved placeholder for the default IP (`docker_api.py:1245`), so that the creation is refused
after the old container was removed. Two anonymous volumes with the same permission suffix collide; ports `80`
and `80/tcp` overwrite each other; `volume_options` without `volume_driver` is dropped; a `tmpfs` size or mode
of zero never settles; a health check without a test disables it. Containers connected between the first
look at a network and the disconnection are lost when it is recreated.

*Swarm.* `needs_rebuild` is overwritten at `docker_swarm_service.py:1725`, so that a change of mode together with
networks is sent as an update and fails. A service rebuilt from global to replicated without `replicas` is removed, then the
creation fails. Limits, delays and replicas of zero, `read_only: false`, an empty `rollback_config`, a
published port of zero and IPv6 hosts never compare equal. Rolling versions are removed silently, and a name
that merely begins like a version (`s_vault`) counts as one. `docker_node` looks at the local node to see whether
another is down, and never removes labels with an empty value. The CA options of `docker_swarm` are never read back.

*Images, Compose, the rest.* Later steps of `docker_image` overwrite `changed`; a forced pull is compared with a stale
image; `docker_image_build` reads `src` of a secret of type `env` (line 415). With Compose 2, stopping a subset while another
service runs always reports a change, images pulled with `recreate: never` go unreported, and a check does not
foretell a recreation after a pull; with Compose 1 a scale of zero creates and removes each time.
`docker_stack` takes the changes of others for its own. `docker_container_copy_into` follows next time a link it has just
copied, and pads a file that shrinks meanwhile. An empty option of a volume or a plugin always differs; options of
an enabled plugin cannot be set. `docker_login` writes back the whole file it read, and asks the registry in check mode too.
With SDK 7 and certificate validation the SDK client always fails, for a TLS host name is always set
(`common.py:124`, `util.py:117`); a host given as `http://` is contacted in clear although TLS was asked for. A container
whose id begins with the name asked for wins over a later one of that name, and one recreated between list and inspect is
told absent (`common_api.py:245`). `docker_swarm_info` gives a global service the number of services as its replicas.

## 5. Theorems

All theorems hold for every value of the constants that satisfies the named assumptions of their
modules. These ask only for types, finiteness and that there is a task to run (`ClientsAssumption`,
`BoundsAssumption`, `OptionsAssumption`, `RequestsAssumption`, `ResourcesAssumption`, `RestartsAssumption`,
`ReconcilerAssumption`, `LifecycleAssumption`, `TurboAssumption`, `ParamsAssumption`, `NodeAssumption`,
`EntriesAssumption`, `HostAssumption`); TLC evaluates
them in every run. Where a theorem asks for more, the table says so: `Preset = FALSE` means that users do not write the
operator's finalizer into their own manifests, and `ImplementationsAgree` that a patch by force is
always asked of the same implementation of `k8s`. That one is needed: the service replaces whenever `force` is set
(`k8s/runner.py:189`), the mixin only for `state: present` (`common.py:1312`), and TLC finds a check by the one refuted by
a run of the other. TLC evaluates it for the tasks of the run `k8s_object` (`MCAgree`).

| theorem | statement | argument |
|---|---|---|
| `EventReceiverProofs!LockSafety` | `Spec => [](TypeOK /\ LockInv)` | `SafetyInv`: types, sequence numbers of posts, `LockInv`. The read lock counts exactly the handlers between `RLock` and return until `stopped` is set, so `Stop` finds none; afterwards none enters the select. The count needs the lemmas `HoldersEnter/Leave/Stay` on cardinalities. |
| `EventReceiverProofs!ChannelSafety` | `Spec => []NoSendOnClosed` | from `LockInv`: `closed => stopped`, and `stopped` excludes a handler in the select |
| `EventReceiverProofs!Delivery` | `Spec => []AcceptedDelivered` | `PipeInv`: what was answered 204 is in `received \o events`, the events of one client are in the order of its posts, a post not yet sent is newer than all of them, and the loop ends by itself only over a channel that is closed and drained |
| `EventReceiverProofs!PipeRefinement` | `Spec => ImplementsPipe` | step by step: `Send` is `Accept`, `CloseEvents` is `Seal`, the loop's receives are `Deliver`, its end is `End`, all else stutters; `PipeInv` and `NoSendOnClosed` give the guards |
| `RunLifecycleProofs!InputsAreOwn` | `Spec => []OwnInputs` | see below |
| `RunLifecycleProofs!KubeconfigLifetime` | `Spec => []KubeconfigKept` | see below |
| `DependentWatchesProofs!WatchOrder` | `Spec => [](RecordedBeforeCreated /\ WatchedIsRecorded)` | `Inv`: types, what is marked inside `addWatchToController`, and the two properties. `Store` precedes `Watch` and `Forward` in every request, and records are only lost by a restart, which ends all requests. |
| `DependentWatchesProofs!RecordsHold` | `Spec => []RecordedIsWatched` | the request that recorded a kind stays about to start its watch until it does or fails |
| `DependentWatchesProofs!WatchesStayBounded` | `Spec => []WatchesBounded` | `WatchesBounded` is not inductive: a request may still be on its way to `Store`. `BoundInv` also counts those (`Committed`); once a kind is recorded nobody joins them, and who starts a watch leaves them. |
| `DependentWatchesProofs!ScopeHolds` | `Spec => []WatchesInScope` | `ScopeInv`: marks on resources and in requests are genuine, and a request is in `addWatchToController` only within the watched namespaces. POST looks at the request, GET at the cached resource: two code paths, one invariant. |
| `ReconcilerProofs!InvHolds` | with `Preset = FALSE`: `Spec => [](TypeOK /\ Inv)` | see below |
| `ReconcilerProofs!RemovalSafety` | with `Preset = FALSE`: `Spec => FinalizedFirst` | see below |
| `ReconcilerProofs!VerdictSafety` | `Spec => []VerdictsExclusive` | inductive with the type of `status`, for every configuration |
| `ReconcilerProofs!ProtectionHolds` | with `Preset = FALSE`: `Spec => []RunProtected` | see below |
| `ReconcilerProofs!WorkIsRemembered` | with `Preset = FALSE`: `Spec => []WorkRemembered` | see below |
| `TurboServerProofs!OnceForAll` | `Spec => []AtMostOnce` | see below |
| `TurboServerProofs!EnvironmentIsOwn` | `Spec => []OwnEnvironment` | see below |
| `TurboServerProofs!WorkIsFinished` | `Spec => NoWorkCutOff` | see below |
| `K8sObjectProofs!TasksConverge` | `Spec => []Converged` | see below |
| `K8sObjectProofs!WaitsAreSound` | `Spec => []ReadyIsNotStale` | see below |
| `K8sObjectProofs!OthersFieldsStay` | `Spec => ForeignFieldsStay` | see below |
| `K8sObjectProofs!ChecksPredict` | with `ImplementationsAgree`: `Spec => []CheckPredicts` | see below |
| `K8sObjectProofs!RunsAreIdempotent` | with `ImplementationsAgree`: `Spec => []Idempotent` | see below |
| `K8sNodeProofs!NobodySlipsIn` | `Spec => []NobodyLeftUnasked` | see below |
| `K8sNodeProofs!UndoesOnlyItsOwn` | `Spec => OnlyOwnUndone` | see below |
| `ReconcilerProofs!ListsCarryVerdicts` | `ConditionsSpec => MarksAreVerdicts` | see below |
| `ReconcilerProofs!TimesAndMessagesHold` | `ConditionsSpec => ShortcutHarmless` | see below |
| `DockerHostProofs!ConnectionsAreKept` | `HostSpec => []ConnectionsSurvive` | see below |
| `DockerHostProofs!ResultsAreTrue` | `HostSpec => ResultsTrue` | see below |

**Why the finalizer is safe.** `FinalizedFirst` is about one step; what makes that step right happened
several calls earlier, on a copy of the resource that may be stale, and the name may meanwhile belong
to another resource. The invariant of `ReconcilerProofs` has four parts.
`VersionsInv`: along the versions from the cache to the API server the resource never becomes an older
one and a deletion is never taken back (`Ordered`), and the finalizer is only on resources that no
version precedes (`AddedToCached`): Reconcile adds it by an update that succeeds only if the cached
copy was current. `OriginInv`: relative to the resource Reconcile started from, no version is older and
none that is newer carries the finalizer, so the only resource that can carry it is that one.
`CopyInv`: the copy `u` is that resource, unless it is gone for good, and an update of the finalizer
with a fresh copy works on the current version. `RunInv`: a run for a deleted resource is a finalizer
run. Together: if the decision is to remove the finalizer, then a current version that has it is the
resource Reconcile started from, `u` was that resource, it was deleted, and so the successful run was
its finalizer run. The step where `Preset = FALSE` is needed is `UserCreate`.

**Why work is protected and not forgotten.** `WorkInv` builds on that invariant. `VersionFacts`: along the versions a
finalizer stays until the resource is deleted, a deletion shows in the generation, neighbours are one resource unless one
of them is its absence. `ProtectedInv` follows the copy `u` from `AddFinalizer` to the run: it has the
finalizer, or is deleted (then `Run` refuses it), or belongs to a resource re-created under the name. `WorkRemembered`
speaks of the moments when nobody is busy and the cache is up to date; `NothingForgotten` says for every state where
the work is: queued, on a timer, announced by an event the cache has yet to pass (`EventPending`), or in the hands of a Reconcile
that will still look at it or return an error (`Handled`). The delicate steps are `Sync`, where the predicates drop
events that change no generation, and the ends of Reconcile, which read a copy that may be stale.

**Why overlapping runs do not mix.** The directory is shared and Reconcile may leave a run, so
`OwnInputs` is not inductive. `LifeInv` adds that Reconcile cannot leave a run before it has reported an event, and
so has read its inputs (`ReadersAreHeard`): the only run that still reads is the one under way. While it reads,
every file that is written for its kind of watch is its own (`WrittenSoFar`), files that are not written are absent
(`OmittedAbsent`), runs to come have done nothing (`NotYet`), and the kubeconfig is there as long as Reconcile is in the run
(`KubeconfigInv`).

**Why daemons that race do no harm.** `TurboInv`: a client that still connects has been nowhere, and has a daemon of its own
only if it noted so (`StartedOnce`); connections lead to daemons that have listened (`Connected`); a run is counted when
the job begins, and it does not begin twice (`RunsCounted`); and what `handle` has written down in the daemon by the time it waits:
the job in `jobs_ongoing` (`JobNoted`), the archive on `sys.path` and the environment's owner as the holder of the lock
(`ModuleLoaded`).

**Why tasks on objects do what they say.** `K8sObject` has 22 actions of tasks, 7 of others and two histories. A step is taken
apart into what the server does (`Moves`: uids are given once, generations grow) and what the task makes of the answer (it
fails, concludes, waits, chooses a method), and each action is shown to be such a pair (`Follows`). The invariant says
which request comes next and that nothing was written before it (`Planned`), that the task's own write is not newer than
the object of the same uid (`Versioned`), and that what was written or found to need no change has matched at some
instant (`Recorded`). For `apply` this needs what `apply_patch` computes from an old read (`ApplyWanted`): a
field of the patch gets its value, and a field outside the patch had it when the object was read. An object that a
wait for deletion found absent does not come back, for a uid is never given again.

**Why a check foretells the run, and a second run changes nothing.** Both properties compare the answers of two tasks, and both
implementations look at the object in different ways. `Predicted(p, o)` says in one formula what a task with the parameters
`p` answers if it finds `o` and nobody else writes: something is created, deleted, or differs in a field that this way of
writing would set. `AnswerInv` follows such a task from its first request to its end: before its write it is still
going to answer what is predicted (`Foretold`), after it the object is one for which the same task predicts no change
(`Fulfilled`), and at its end it has answered it. Because a check leaves the object alone, the next task's prediction is the
check's; because a run fulfils, the next prediction is "no change". `Expected` in `prev` carries this from task to task.
The lemmas about the operators (`PatchedFacts`, `ApplyWanted`, `PredictedWays`) say that what is compared before a
write in `perform_action` is what is different after it, for each of the ways to write.

**Why lists of conditions can be forgotten.** `Reconciler` knows three verdicts where the code keeps a list of entries with
times, reasons and messages. `ConditionsInv` says that the list never gets a second entry of a type
(`OneEntryPerType`) and that a `Failure` which is true carries the latest message (`LatestFailure`). For such a list the loops of
`status/utils.go` depend only on the set of its entries (`GetFacts`, `ViewFacts`), and `SetCondition` changes one type
only (`SetFacts`); each mark is then a composition of two or three of these (`RunningMarks`, `ErrorMarks`,
`SuccessMarks`, `FailureMarks`). What a selection from a list contains is a statement about a recursive function; `OnlySelects`
shows it by the absence of a least counterexample, as `K8sNodeProofs` does. The stored list the operator starts from may have
any entries, incomplete and malformed ones included, but no two of one type (`CreateFacts`).

**Why a network that is made again gets the containers of its list back.** The `docker_network` task reads the network once, and works on
what it read while containers come and go. `HostInv` has what the daemon guarantees (a container on its way out has no
endpoint), what the task has planned (`Planned`: from its decision on, what it wants is what it owes, and what it
disconnects as superfluous is not among that), and `ConnectedInv`: from the first connection on, everything owed is connected,
on the list of what is still to connect, or noted as disconnected by somebody else. Every step of the other
task, of the daemon and of users is shown to leave connections alone or to be noted (`Noted`), and `NotedKeeps` does the rest.

**Why a container task reports the truth.** `ResultsTrue` compares the end of a task with what it found many requests
before. `Settled`, the meaning of the parameters, is the conjunction of five steps (`SettledParts`: image and
configuration, limits, networks, life, pause), and the task takes them in this order. `PcInv` says, for each request that
may be next, which steps are done and that a change claimed was due; the loose end is the container itself, which is removed,
made again and changed between the inspections. `Account` carries the argument through the
decisions: what counts as a change was due, and where none was claimed the container is as it was found (`Alike`: but for a removal or a
health check that the daemon completes). Hence a difference found later was there from the beginning (`MissingIsDue`), and with no
difference left there was none (`NothingIsDue`). A check finds its first change and goes on without
changing anything (`Foregone`). One lemma per decision (`DecideFacts` to `FinishFacts`), one per request, and `OthersKeepCalm`
for the rest of the host. The theorem speaks of tasks that nobody disturbs, of any parameters that the argument specifications admit
(`HostParam`) and any initial container, where the run takes 22 and 6; a container that is not detached never
gets to its end undisturbed, for its exit is one of the acts of others.

**Why nobody slips in behind a drain.** Two arguments meet. From the cordon on the node stays cordoned unless somebody
uncordons it (`Cordoned`), so the scheduler adds no pod to those that the list shows. And what the list shows is all
dealt with: `ToDeleteHasAll` says that if `filter_pods` reports no error, every listed pod is in `to_delete`, is a mirror pod
or has a DaemonSet as owner. Then every pod that still runs has been asked or is yet to be (`AskedInv`), which at the end of
`evict_pods` is `NobodyLeftUnasked`. `Phases` says what a task knows in each phase; `OnlyOwnUndone` follows from it and from
the definition of `NewTaints`. `to_delete` is a concatenation over the list, which is a recursive function. The library's
induction theorems cannot be instantiated here, so its properties are shown by the absence of a least counterexample
(`LeastElement`, from the well-foundedness of the natural numbers): `AccumulationExists` for the recursion itself,
`FlattenHasAll` for what it computes. For this the model selects from lists by `Only`, which uses the same concatenation.

**Only model-checked.** Liveness (`CloseCompletes`, `LoopReleased`, `DeletionFinalized`, `GenerationRun`,
`SuccessReported`, `DependentsWatched`, `RunEnds`, `TaskEnds`, `ClientsReturn`, `UnlessRobbedStops`) is out of the
prover's reach. The task families (`CheckForetells`, `ChangeReported`, `GoalReached`, `RepetitionSettles`)
are checked on scenes: which parameters meet which world is what matters there, and what holds differs from
module to module.

## 6. Plan

Done, in this order: the event API with its abstract specification, the conditions, the reconciler, the dependent
watches and their proofs; then the runs of ansible-runner with their proofs, the modules of `kubernetes.core`
on objects and nodes, turbo mode, the Docker host, and the task families of `community.docker` and helm; then the proofs
of the safety of the event pipe, of the reconciler's work, of turbo mode, and of the tasks on objects and nodes; last the
proofs that checks predict and runs are idempotent, that the conditions are the verdicts, and that tasks on a Docker host keep connections and report the truth.

Next, in this order:

1. `EventLoop`: the fold of the events of a run into `statusEvent`, `failureMessages` and the result,
   against a reference definition; it justifies the outcomes `Run*` of `Reconciler`.
2. `EnqueueOwner`: from events of dependents to requests of owners; composed with `DependentWatches`,
   a deletion of a dependent leads to a reconciliation.
3. `ApiResources`: the discovery cache behind `IsVirtualResource`.
4. The predicates of `controller.Add` in full; `RequestInfo`, `Watches`, `ParamConv` and the round trip of
   the owner reference through the kubeconfig's user name as pure operators.

## 7. What is not modelled

Scaffolding (`pkg/plugins`, `hack`) generates projects and is not part of the operator process. `kubectl.go`
is a stateless filter and forwarder adapted from kubectl. Event logging prints. `flags` and `cmd.go` wire the
parts together once; what they give a start (fresh maps, an informer list) is in the actions `Restart`. The map of
user metrics has no lock; two handlers that meet there end the process, which the other modules see as a restart. The race on the
discovery cache only decides whether a request is answered from the cache.

Of the collections, about half of the lines are documentation strings, examples and argument specifications, which hold no
behaviour. `community.docker`'s `_api` is an adaptation of the Docker SDK's HTTP client; its connection plugins and
inventories keep no state between requests. `k8s_exec`, `k8s_cp`, `k8s_log` and the lookups are one request or stream each
and compare nothing. The parts of `operator_sdk.util` are seen through their events. Contents of charts, images,
archives, certificates and playbooks are data that no property distinguishes.
