--------------------------- MODULE ServiceOptions ---------------------------
(***************************************************************************)
(* The options of docker_swarm_service on their way: from the parameters   *)
(* into a DockerService, from there into the specification that is sent to *)
(* the swarm, and back from what the swarm tells into a DockerService that *)
(* the next run is compared with.                                          *)
(*                                                                         *)
(* A value that may be missing (None) is a set of at most one element.     *)
(* Numbers stand for values, 0 for the one Python takes for false; lists   *)
(* and dictionaries are sequences and functions; lists whose order does    *)
(* not count are written in their order.  Options that are treated alike   *)
(* are represented by one of them.                                         *)
(***************************************************************************)
EXTENDS Integers, Sequences, FiniteSets, TLC
LOCAL INSTANCE SequencesExt

Second == 1000000000
Bind == 1
Tmpfs == 2

OrEmpty(v) == IF v = {} THEN {<< >>} ELSE v

-----------------------------------------------------------------------------
(* From the parameters to a DockerService.                                 *)

\* Mutant: the first file that sets a variable wins.
ServiceEnvFirstFile(env, files) ==
    LET read == {FoldLeft(LAMBDA sofar, more : sofar @@ more, << >>, f) : f \in files}
    IN  IF env = {} /\ files = {} THEN {}
        ELSE {over @@ under : over \in OrEmpty(env), under \in OrEmpty(read)}

\* get_docker_environment: later files win over earlier ones, env over files.
ServiceEnv(env, files) ==
    LET read == {FoldLeft(LAMBDA sofar, more : more @@ sofar, << >>, f) : f \in files}
    IN  IF env = {} /\ files = {} THEN {}
        ELSE {over @@ under : over \in OrEmpty(env), under \in OrEmpty(read)}

\* get_docker_networks: the aliases of each network, by the network's id.  An
\* unknown name is an error.
UnknownNetworks(nets, known) == UNION {DOMAIN f : f \in nets} \ known

\* get_value of an option in a group of options that may be missing itself.
GetValue(key, values) == UNION {r[key] : r \in values}

\* get_nanoseconds_from_raw_option: a number, or a text with a unit.
Nanoseconds(v) == {IF d.text THEN d.n * Second ELSE d.n : d \in v}
\* human_to_bytes.
HumanToBytes(v) == {IF m.unit = "K" THEN m.n * 1024 ELSE m.n : m \in v}

RestartConfig(p) ==
    [restart_policy |-> GetValue("condition", p.restart_config),
     restart_policy_delay |-> Nanoseconds(GetValue("delay", p.restart_config))]
UpdateConfig(p) ==
    [update_parallelism |-> GetValue("parallelism", p.update_config),
     update_delay |-> Nanoseconds(GetValue("delay", p.update_config))]
RollbackConfig(p) ==
    [rollback_config |-> {[parallelism |-> r.parallelism, delay |-> Nanoseconds(r.delay)] : r \in p.rollback_config}]
LoggingConfig(p) ==
    [log_driver |-> GetValue("driver", p.logging), log_driver_options |-> GetValue("options", p.logging)]
LimitsConfig(p) ==
    [limit_cpu |-> GetValue("cpus", p.limits), limit_memory |-> HumanToBytes(GetValue("memory", p.limits))]
ReservationsConfig(p) ==
    [reserve_cpu |-> GetValue("cpus", p.reservations),
     reserve_memory |-> HumanToBytes(GetValue("memory", p.reservations))]
PlacementConfig(p) ==
    [constraints |-> GetValue("constraints", p.placement),
     placement_preferences |-> GetValue("preferences", p.placement),
     replicas_max_per_node |-> GetValue("replicas_max_per_node", p.placement)]

\* The mounts by their targets; only a tmpfs needs no source.
MountConfig(m) == [source |-> IF m.source = {} THEN {0} ELSE m.source, type |-> {m.type}, readonly |-> m.readonly,
                   tmpfs_size |-> HumanToBytes(m.tmpfs_size)]
MountsConfig(mounts) == {[t \in DOMAIN f |-> MountConfig(f[t])] : f \in mounts}
\* Parameters that are refused: an entry of command or env with a wrong form,
\* and a mount without its source.
Malformed(p) ==
    \/ p.malformed
    \/ \E f \in p.mounts : \E t \in DOMAIN f : f[t].source = {} /\ f[t].type # Tmpfs

\* from_ansible_params, of these options.
OptionsOf(p) ==
    [env |-> ServiceEnv(p.env, p.env_files), labels |-> p.labels, container_labels |-> p.container_labels,
     hosts |-> p.hosts, publish |-> p.publish, mounts |-> MountsConfig(p.mounts), init |-> p.init,
     read_only |-> p.read_only]
    @@ RestartConfig(p) @@ UpdateConfig(p) @@ RollbackConfig(p) @@ LoggingConfig(p) @@ LimitsConfig(p)
    @@ ReservationsConfig(p) @@ PlacementConfig(p)

-----------------------------------------------------------------------------
(* From a DockerService to the specification.                              *)

\* A part of the specification is left out when none of its options is given.
Part(s, options) == IF \A o \in options : s[o] = {} THEN {} ELSE {[o \in options |-> s[o]]}

BuildContainerSpec(s) == [o \in {"env", "container_labels", "hosts", "mounts", "init", "read_only"} |-> s[o]]
BuildPlacement(s) == Part(s, {"constraints", "placement_preferences", "replicas_max_per_node"})
BuildUpdateConfig(s) == Part(s, {"update_parallelism", "update_delay"})
BuildLogDriver(s) == Part(s, {"log_driver", "log_driver_options"})
BuildRestartPolicy(s) == Part(s, {"restart_policy", "restart_policy_delay"})
BuildRollbackConfig(s) ==
    IF s.rollback_config = {} THEN {}
    ELSE LET r == CHOOSE r \in s.rollback_config : TRUE IN Part(r, {"parallelism", "delay"})
BuildResources(s) == Part(s, {"limit_cpu", "limit_memory", "reserve_cpu", "reserve_memory"})
BuildTaskTemplate(s) ==
    [container |-> BuildContainerSpec(s), placement |-> BuildPlacement(s), log |-> BuildLogDriver(s),
     restart |-> BuildRestartPolicy(s), resources |-> BuildResources(s)]
\* A port is published under no number (-1) unless one other than 0 is given.
BuildEndpointSpec(s) ==
    {LET sent(k) == IF k[1] = 0 THEN <<-1, k[2]>> ELSE k
     IN  [k \in {sent(x) : x \in DOMAIN f} |-> f[CHOOSE x \in DOMAIN f : sent(x) = k]] : f \in s.publish}
BuildDockerService(s) ==
    [task |-> BuildTaskTemplate(s), update |-> BuildUpdateConfig(s), rollback |-> BuildRollbackConfig(s),
     ports |-> BuildEndpointSpec(s), labels |-> s.labels \ {<< >>}]

\* What the swarm makes of it: it stores no empty list or dictionary and
\* leaves out of its answers numbers that are zero, except the parallelism of
\* updates and the delay of restarts; a port without a mode gets "ingress".
Unzero(v) == v \ {0}
Unempty(v) == v \ {<< >>}
Stored(spec) ==
    LET c == spec.task.container
        mounts == {[t \in DOMAIN f |-> [o \in DOMAIN f[t] |-> Unzero(f[t][o])]] : f \in c.mounts}
    IN  [task |->
           [container |-> [c EXCEPT !.env = Unempty(@), !.container_labels = Unempty(@), !.hosts = Unempty(@),
                                    !.mounts = Unempty(mounts), !.read_only = Unzero(@)],
            placement |-> {[r EXCEPT !.constraints = Unempty(@), !.placement_preferences = Unempty(@),
                                     !.replicas_max_per_node = Unzero(@)] : r \in spec.task.placement},
            log |-> {[r EXCEPT !.log_driver_options = Unempty(@)] : r \in spec.task.log},
            restart |-> spec.task.restart,
            resources |-> {[o \in DOMAIN r |-> Unzero(r[o])] : r \in spec.task.resources}],
         update |-> {[r EXCEPT !.update_delay = Unzero(@)] : r \in spec.update},
         rollback |-> {[o \in DOMAIN r |-> Unzero(r[o])] : r \in spec.rollback},
         ports |-> Unempty({[k \in DOMAIN f |-> IF f[k] = "" THEN "ingress" ELSE f[k]] : f \in spec.ports}),
         labels |-> spec.labels]

-----------------------------------------------------------------------------
(* From the swarm's answer to a DockerService.                             *)

ReadUpdate(spec) == [o \in {"update_parallelism", "update_delay"} |-> GetValue(o, spec.update)]
ReadPlacement(spec) ==
    [o \in {"constraints", "placement_preferences", "replicas_max_per_node"} |-> GetValue(o, spec.task.placement)]
ReadRestart(spec) == [o \in {"restart_policy", "restart_policy_delay"} |-> GetValue(o, spec.task.restart)]
\* Limits and reservations of zero are not read.
ReadResources(spec) ==
    [o \in {"limit_cpu", "limit_memory", "reserve_cpu", "reserve_memory"} |-> Unzero(GetValue(o, spec.task.resources))]
ReadLog(spec) == [o \in {"log_driver", "log_driver_options"} |-> GetValue(o, spec.task.log)]
\* The hosts are told as "address name" and split at a colon if there is one:
\* the name and address of an IPv6 entry are cut in the middle of the address.
ReadHosts(hosts) ==
    {[n \in {IF f[x] = "v6" THEN "cut" ELSE x : x \in DOMAIN f} |-> IF n = "cut" THEN "rest" ELSE f[n]] : f \in hosts}
ReadMounts(mounts) ==
    {[t \in DOMAIN f |-> [f[t] EXCEPT !.source = IF @ = {} THEN {0} ELSE @]] : f \in mounts}
ReadService(spec) ==
    LET c == spec.task.container
    IN  [env |-> c.env, labels |-> spec.labels, container_labels |-> c.container_labels, hosts |-> ReadHosts(c.hosts),
         publish |-> spec.ports, mounts |-> ReadMounts(c.mounts), init |-> IF c.init = {} THEN {0} ELSE c.init,
         read_only |-> c.read_only, rollback_config |-> spec.rollback]
        @@ ReadUpdate(spec) @@ ReadPlacement(spec) @@ ReadRestart(spec) @@ ReadResources(spec) @@ ReadLog(spec)

-----------------------------------------------------------------------------
(* The comparison.                                                         *)

\* has_dict_changed: missing options do not count, nor does false for missing.
DictChanged(new, old) ==
    \E o \in DOMAIN new : new[o] # {} /\ ~(new[o] \subseteq {0} /\ old[o] \subseteq {0}) /\ new[o] # old[o]
RollbackChanged(new, old) ==
    \E n \in new : old = {} \/ \E o \in old : DictChanged(n, o)
MountsChanged(new, old) ==
    \E n \in new : \E o \in OrEmpty(old) : DOMAIN n # DOMAIN o \/ \E t \in DOMAIN n : DictChanged(n[t], o[t])
\* has_publish_changed: the mode counts only if it is given.
PublishChanged(new, old) ==
    \E n \in new : \E o \in OrEmpty(old) : DOMAIN n # DOMAIN o \/ \E k \in DOMAIN n : n[k] \notin {"", o[k]}

Scalars == {"init", "read_only", "restart_policy", "restart_policy_delay", "update_parallelism", "update_delay",
            "log_driver", "limit_cpu", "limit_memory", "reserve_cpu", "reserve_memory", "replicas_max_per_node"}
ListsAndDicts == {"env", "labels", "container_labels", "hosts", "log_driver_options", "constraints", "placement_preferences"}

OptionsDiffer(s, o) ==
    \/ \E a \in Scalars : s[a] # {} /\ s[a] # o[a]
    \/ \E a \in ListsAndDicts : s[a] # {} /\ s[a] # OrEmpty(o[a])
    \/ PublishChanged(s.publish, o.publish)
    \/ MountsChanged(s.mounts, o.mounts)
    \/ RollbackChanged(s.rollback_config, o.rollback_config)

-----------------------------------------------------------------------------
(* What the options ask for.                                               *)

\* Every option that is given is in force in the specification.
OptionsMet(p, spec) ==
    LET c == spec.task.container
        value(n) == IF \E e \in p.env : n \in DOMAIN e THEN (CHOOSE e \in p.env : TRUE)[n]
                    ELSE LET f == CHOOSE f \in p.env_files : TRUE
                             last == CHOOSE i \in DOMAIN f : n \in DOMAIN f[i] /\ \A j \in DOMAIN f : n \in DOMAIN f[j] => j <= i
                         IN  f[last][n]
        names == UNION {DOMAIN e : e \in p.env \cup UNION {{f[i] : i \in DOMAIN f} : f \in p.env_files}}
    IN  /\ \A e \in OrEmpty(c.env) :
              (p.env # {} \/ p.env_files # {}) => DOMAIN e = names /\ \A n \in names : e[n] = value(n)
        /\ \A l \in p.labels : OrEmpty(spec.labels) = {l}
        /\ \A h \in p.hosts : OrEmpty(c.hosts) = {h}
        /\ \A f \in p.publish : \A k \in DOMAIN f :
              \E g \in spec.ports : \E x \in DOMAIN g :
                  x[2] = k[2] /\ (k[1] > 0 => x[1] = k[1]) /\ f[k] \in {"", g[x]}
        /\ \A f \in p.mounts : \A t \in DOMAIN f :
              \E g \in c.mounts : t \in DOMAIN g /\ g[t].type = {f[t].type} /\ Unzero(f[t].readonly) = g[t].readonly
        /\ \A u \in p.update_config : \A d \in u.delay :
              LET ns == IF d.text THEN d.n * Second ELSE d.n
              IN  ns # 0 => \E r \in spec.update : r.update_delay = {ns}
        /\ \A l \in p.limits : \A m \in l.memory :
              LET bytes == IF m.unit = "K" THEN m.n * 1024 ELSE m.n
              IN  bytes # 0 => \E r \in spec.task.resources : r.limit_memory = {bytes}
        /\ \A l \in p.placement : \A cs \in l.constraints :
              \E r \in spec.task.placement : OrEmpty(r.constraints) = {cs}

\* Options that differ from what is read back however often they are applied:
\* zeros that are not told, a rollback_config without any option, a published
\* port 0 and the address of a host that is cut.
NeverReadBack(p) ==
    \/ \E o \in {"update_delay", "limit_cpu", "limit_memory", "reserve_cpu", "reserve_memory",
                 "replicas_max_per_node", "read_only"} : OptionsOf(p)[o] = {0}
    \/ \E r \in p.rollback_config : r.parallelism = {} /\ r.delay = {}
    \/ \E f \in p.publish : \E k \in DOMAIN f : k[1] = 0
    \/ \E f \in p.hosts : \E n \in DOMAIN f : f[n] = "v6"

\* option_minimal_versions: the version of the API an option needs.
NeededApi(p) ==
    LET needs(set, version) == IF set THEN version ELSE 0
        versions == {needs(p.read_only # {}, 28), needs(p.rollback_config # {}, 28), needs(p.init # {}, 37),
                     needs(GetValue("preferences", p.placement) # {}, 27),
                     needs(GetValue("replicas_max_per_node", p.placement) # {}, 40)}
    IN  CHOOSE v \in versions : \A u \in versions : u <= v
=============================================================================
