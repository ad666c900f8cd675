-------------------------- MODULE ContainerOptions --------------------------
(***************************************************************************)
(* The options of docker_container: how module_container/base.py and       *)
(* docker_api.py turn what a task gives into what the API takes, read back *)
(* what a container has, and decide from the two whether the container is  *)
(* kept, updated in place or made anew.  DockerHost models the requests    *)
(* around it, and what else happens on the host.                           *)
(*                                                                         *)
(* Texts with colons, slashes and dashes are tuples of their parts, a list *)
(* whose order does not matter is a set, a dictionary a function, a        *)
(* Boolean "true" or "false".  An option that may be missing is {} or {v}. *)
(***************************************************************************)
EXTENDS TaskRuns, SequencesExt

\* The options and how they are compared: the table of base.py.
OptionsA ==
    [auto_remove |-> "value", blkio_weight |-> "value", capabilities |-> "set", cap_drop |-> "set",
     cgroupns_mode |-> "value", cgroup_parent |-> "value", command |-> "list", cpu_period |-> "value",
     cpu_quota |-> "value", cpuset_cpus |-> "value", cpuset_mems |-> "value", cpu_shares |-> "value",
     entrypoint |-> "list", cpus |-> "value", detach |-> "value", interactive |-> "value",
     devices |-> "set(dict)", device_read_bps |-> "set(dict)", device_write_bps |-> "set(dict)",
     device_read_iops |-> "set(dict)", device_write_iops |-> "set(dict)", device_requests |-> "set(dict)",
     device_cgroup_rules |-> "list", dns_servers |-> "list", dns_opts |-> "set", dns_search_domains |-> "list",
     domainname |-> "value"]
OptionsB ==
    [env |-> "set", etc_hosts |-> "set", groups |-> "set", healthcheck |-> "dict", hostname |-> "value",
     image |-> "value", init |-> "value", ipc_mode |-> "value", kernel_memory |-> "value", labels |-> "dict",
     links |-> "set", log_driver |-> "value", log_options |-> "dict", mac_address |-> "value", memory |-> "value",
     memory_reservation |-> "value", memory_swap |-> "value", memory_swappiness |-> "value",
     stop_timeout |-> "value", network_mode |-> "value", networks |-> "set(dict)", oom_killer |-> "value",
     oom_score_adj |-> "value", pid_mode |-> "value", pids_limit |-> "value", platform |-> "value",
     privileged |-> "value", read_only |-> "value"]
OptionsC ==
    [restart_policy |-> "value", restart_retries |-> "value", runtime |-> "value", security_opts |-> "set",
     shm_size |-> "value", stop_signal |-> "value", storage_opts |-> "dict", sysctls |-> "dict", tmpfs |-> "dict",
     tty |-> "value", ulimits |-> "set(dict)", user |-> "value", userns_mode |-> "value", uts |-> "value",
     volume_driver |-> "value", volumes_from |-> "set", working_dir |-> "value", mounts |-> "set(dict)",
     volumes |-> "set", volume_binds |-> "set", exposed_ports |-> "set", publish_all_ports |-> "value",
     published_ports |-> "dict", ports |-> "set"]
OptionType == OptionsA @@ OptionsB @@ OptionsC
\* Derived options, which no task gives, and those that only help others.
Derived == {"volume_binds", "ports"}
GivenOnly == {"env_file"}

\* The comparison an option begins with.
DefaultComparison(o) ==
    IF o \in {"stop_timeout", "ports"} THEN "ignore"
    ELSE IF OptionType[o] \in {"list", "value"} THEN "strict" ELSE "allow_more_present"

\* How an option of its own field is sent, updated in place, and since when.
Field(api) == [api |-> api, upd |-> FALSE, min |-> 0]
Since(api, min) == [api |-> api, upd |-> FALSE, min |-> min]
Updatable(api) == [api |-> api, upd |-> TRUE, min |-> 0]

EngineA ==
    [auto_remove |-> Field("AutoRemove"), blkio_weight |-> Updatable("BlkioWeight"), capabilities |-> Field("CapAdd"),
     cap_drop |-> Field("CapDrop"), cgroupns_mode |-> Since("CgroupnsMode", 41), cgroup_parent |-> Field("CgroupParent"),
     command |-> Field("Cmd"), cpu_period |-> Updatable("CpuPeriod"), cpu_quota |-> Updatable("CpuQuota"),
     cpuset_cpus |-> Updatable("CpusetCpus"), cpuset_mems |-> Updatable("CpusetMems"),
     cpu_shares |-> Updatable("CpuShares"), entrypoint |-> Field("Entrypoint"), cpus |-> Field("NanoCpus"),
     devices |-> Field("Devices"), device_read_bps |-> Field("BlkioDeviceReadBps"),
     device_write_bps |-> Field("BlkioDeviceWriteBps"), device_read_iops |-> Field("BlkioDeviceReadIOps"),
     device_write_iops |-> Field("BlkioDeviceWriteIOps"), device_requests |-> Since("DeviceRequests", 40),
     device_cgroup_rules |-> Since("DeviceCgroupRules", 28), dns_servers |-> Field("Dns"),
     dns_opts |-> Field("DnsOptions"), dns_search_domains |-> Field("DnsSearch"), domainname |-> Field("Domainname"),
     env |-> Field("Env"), etc_hosts |-> Field("ExtraHosts"), groups |-> Field("GroupAdd"),
     healthcheck |-> Field("Healthcheck"), hostname |-> Field("Hostname"), init |-> Field("Init"),
     ipc_mode |-> Field("IpcMode"), kernel_memory |-> Updatable("KernelMemory"), labels |-> Field("Labels"),
     links |-> Field("Links"), mac_address |-> Field("MacAddress"), memory |-> Updatable("Memory"),
     memory_reservation |-> Updatable("MemoryReservation"), memory_swap |-> Updatable("MemorySwap"),
     memory_swappiness |-> Field("MemorySwappiness"), stop_timeout |-> Field("StopTimeout"),
     network_mode |-> Field("NetworkMode"), oom_killer |-> Field("OomKillDisable"),
     oom_score_adj |-> Field("OomScoreAdj"), pid_mode |-> Field("PidMode"), pids_limit |-> Field("PidsLimit")]
EngineB ==
    [platform |-> Since("Platform", 41), privileged |-> Field("Privileged"), read_only |-> Field("ReadonlyRootfs"),
     runtime |-> Field("Runtime"), security_opts |-> Field("SecurityOpt"), shm_size |-> Field("ShmSize"),
     stop_signal |-> Field("StopSignal"), storage_opts |-> Field("StorageOpt"), sysctls |-> Field("Sysctls"),
     tmpfs |-> Field("Tmpfs"), tty |-> Field("Tty"), ulimits |-> Field("Ulimits"), user |-> Field("User"),
     userns_mode |-> Field("UsernsMode"), uts |-> Field("UTSMode"), volume_driver |-> Field("VolumeDriver"),
     volumes_from |-> Field("VolumesFrom"), working_dir |-> Field("WorkingDir")]
Engine == EngineA @@ EngineB
CanUpdate(o) == o \in {"restart_policy", "restart_retries"} \/ (o \in DOMAIN Engine /\ Engine[o].upd)

\* The names a task may give, and the numbers, sizes, ranges and names it gives.
OptionsAccepted(p) ==
    /\ DOMAIN p.given \subseteq (DOMAIN OptionType \ Derived) \cup GivenOnly
    /\ p.handling \in {"compatibility", "correct"} /\ p.mismatch \in {"ignore", "fail"}
    /\ p.compat \in BOOLEAN /\ p.cli \in BOOLEAN /\ p.star \in {"unset", "strict", "ignore", "allow_more_present"}

-----------------------------------------------------------------------------
(***************************************************************************)
(* Comparing.                                                              *)
(***************************************************************************)
Get(f, o) == IF o \in DOMAIN f THEN {f[o]} ELSE {}
The(m) == CHOOSE v \in m : TRUE
Or(f, o, default) == IF o \in DOMAIN f THEN f[o] ELSE default

\* compare_dict_allow_more_present
DictWithin(a, b) == \A k \in DOMAIN a : k \in DOMAIN b /\ b[k] = a[k]
\* The order is kept, but there may be more between.
ListWithin(a, b) ==
    \E f \in [1..Len(a) -> 1..Len(b)] :
        \A i \in 1..Len(a) : b[f[i]] = a[i] /\ \A j \in 1..(i - 1) : f[j] < f[i]
Missing(v, type) == IF type \in {"set", "set(dict)"} THEN v = {} ELSE DOMAIN v = {}

compare_generic(a, b, method, type) ==
    \/ method = "ignore"
    \/ /\ a = {} \/ b = {}
       /\ \/ a = b
          \/ type # "value" /\ (IF a = {} THEN method = "allow_more_present" \/ Missing(The(b), type)
                                ELSE Missing(The(a), type))
    \/ /\ a # {} /\ b # {}
       /\ LET x == The(a)
              y == The(b)
          IN  CASE type = "value" \/ (method = "strict" /\ type \in {"list", "dict", "set"}) -> x = y
                [] type = "list" -> ListWithin(x, y)
                [] type = "dict" -> DictWithin(x, y)
                [] type = "set" -> x \subseteq y
                [] type = "set(dict)" ->
                     /\ \A v \in x : \E u \in y : DictWithin(v, u)
                     /\ method = "strict" => \A u \in y : \E v \in x : DictWithin(v, u)

\* _parse_comparisons: "*" first, then the options named, then the derived one.
Comparison(p, o) ==
    LET main == IF o = "volume_binds" THEN "volumes" ELSE o IN
    IF main \in DOMAIN p.by THEN p.by[main]
    ELSE IF p.star # "unset" /\ ~(o = "networks" /\ "networks" \notin DOMAIN p.given) THEN p.star
    ELSE DefaultComparison(main)

ComparisonsRefused(p) ==
    \/ p.star = "allow_more_present"
    \/ \E o \in DOMAIN p.by : o \notin DOMAIN OptionType \ Derived
                              \/ (p.by[o] = "allow_more_present" /\ OptionType[o] = "value")

-----------------------------------------------------------------------------
(***************************************************************************)
(* What a task gives, turned into values.                                  *)
(***************************************************************************)

\* container_default_behavior=compatibility, and the first network as the mode.
UpdatedParams(p) ==
    LET g == p.given
        mode == IF p.cli /\ "networks" \in DOMAIN g /\ g.networks # << >> THEN "network_mode" :> <<"net", Head(g.networks)>>
                ELSE << >>
        old == [auto_remove |-> "false", detach |-> "true", init |-> "false", interactive |-> "false",
                memory |-> <<0, "">>, privileged |-> "false", read_only |-> "false", tty |-> "false"]
    IN  g @@ mode @@ (IF p.compat THEN old ELSE << >>)

\* shlex.split of the words put together; a list stays as it is when handled correctly.
Words(v) == [i \in DOMAIN FlattenSeq(v) |-> <<FlattenSeq(v)[i]>>]
CommandValue(p, g, o) ==
    IF o \notin DOMAIN g THEN << >>
    ELSE IF p.handling = "correct" THEN o :> (IF g[o].str THEN Words(g[o].v) ELSE g[o].v)
    ELSE IF g[o].v # << >> THEN o :> Words(g[o].v) ELSE << >>

NotText == "not a text"
EnvValue(g) ==
    IF {"env", "env_file"} \cap DOMAIN g = {} THEN << >>
    ELSE LET final == Or(g, "env", << >>)
                      @@ Or(g, "env_file", << >>)
         IN  "env" :> {<<k, final[k]>> : k \in DOMAIN final}

\* human_to_bytes; a size is a number and its unit.
Units == ("" :> 1) @@ ("k" :> 1024) @@ ("m" :> 1048576)
Sized == {"kernel_memory", "memory", "memory_reservation", "memory_swap", "shm_size"}
Unlimited == {<<0, "unlimited">>, <<-1, "">>}
SizeRefused(o, v) == ~(o = "memory_swap" /\ v \in Unlimited) /\ (v[1] < 0 \/ v[2] \notin DOMAIN Units)
Bytes(o, v) == IF o = "memory_swap" /\ v \in Unlimited THEN -1 ELSE v[1] * Units[v[2]]

TmpfsValue(specs) ==
    [t \in {s[1] : s \in specs} |-> LET s == CHOOSE s \in specs : s[1] = t IN IF Len(s) > 1 THEN s[2] ELSE ""]
UlimitValue(s) == [Name |-> s[1], Soft |-> s[2], Hard |-> s[Len(s)]]

VolumeModes == {"rw", "ro", "z", "rshared", "nocopy"}
Absolute(host) == IF host = "./h" THEN "/here/h" ELSE host
\* A volume of two parts is a path and its permissions, or a host path and a path.
Anonymous(v) == Len(v) = 1 \/ (Len(v) = 2 /\ v[2] \in VolumeModes)
VolumeValue(v) ==
    IF Len(v) = 3 THEN <<Absolute(v[1]), v[2], v[3]>>
    ELSE IF Len(v) = 2 /\ ~Anonymous(v) /\ v[1] = "./h" THEN <<Absolute(v[1]), v[2], "rw">> ELSE v
BindOf(v) == IF Len(v) = 3 THEN v ELSE <<v[1], v[2], "rw">>
\* What check_collision looks at.
MountPoint(v) == IF Len(v) = 1 THEN v[1] ELSE v[2]

MountOptionTypes == [volume_driver |-> "volume", volume_options |-> "volume", no_copy |-> "volume", tmpfs_size |-> "tmpfs"]
MountRefused(m) ==
    \/ "source" \notin DOMAIN m /\ m.type \notin {"tmpfs", "volume"}
    \/ \E o \in DOMAIN MountOptionTypes \cap DOMAIN m : MountOptionTypes[o] # m.type
    \/ "tmpfs_size" \in DOMAIN m /\ SizeRefused("tmpfs_size", m.tmpfs_size)
\* Options of a volume without a driver are dropped.
MountValue(m) ==
    [o \in DOMAIN m \ (IF "volume_driver" \in DOMAIN m THEN {} ELSE {"volume_options"}) |->
        IF o = "tmpfs_size" THEN Bytes(o, m[o]) ELSE m[o]]

\* The mount points of mounts and volumes must be distinct.
Collide(g) ==
    LET ms == Or(g, "mounts", {})
        vs == Or(g, "volumes", {})
    IN  \/ \E m, n \in ms : m # n /\ m.target = n.target
        \/ \E v, u \in vs : v # u /\ MountPoint(v) = MountPoint(u)
        \/ \E m \in ms, v \in vs : m.target = MountPoint(v)

MountsValue(g) ==
    (IF "mounts" \in DOMAIN g THEN "mounts" :> {MountValue(m) : m \in g.mounts} ELSE << >>)
    @@ (IF "volumes" \notin DOMAIN g THEN << >>
        ELSE LET vols == {VolumeValue(v) : v \in g.volumes} IN
             [volumes |-> vols, volume_binds |-> {BindOf(v) : v \in {v \in vols : ~Anonymous(v)}}])

\* Published ports: [ip, host, cont, proto] with ranges <<first, last>>.
DefaultIp == "[[DEFAULT_IP]]"
Ports(r) == [i \in 1..(r[2] - r[1] + 1) |-> r[1] + i - 1]
PortRefused(s) ==
    \/ s.cont[2] < s.cont[1] \/ s.ip = "hostname"
    \/ s.host # << >> /\ s.cont[1] < s.cont[2] /\ s.host[2] < s.host[1]
\* Where the ports of a specification are bound; a range of hosts for one port is left to the daemon.
PortBinds(s) ==
    LET n == Len(Ports(s.cont))
        ip == IF s.ip = "" THEN DefaultIp ELSE s.ip
    IN  IF s.host = << >> THEN [i \in 1..n |-> <<ip>>]
        ELSE IF n = 1 THEN << <<ip, s.host>> >>
        ELSE [i \in DOMAIN Ports(s.host) |-> <<ip, <<Ports(s.host)[i], Ports(s.host)[i]>> >>]
Bound(s) ==
    LET m == IF Len(PortBinds(s)) < Len(Ports(s.cont)) THEN Len(PortBinds(s)) ELSE Len(Ports(s.cont))
    IN  [i \in 1..m |-> <<<<Ports(s.cont)[i], s.proto>>, PortBinds(s)[i]>>]
\* All binds of a port, in the order given.
Published(specs) ==
    LET all == FlattenSeq([i \in DOMAIN specs |-> Bound(specs[i])])
        of(k) == SelectSeq(all, LAMBDA b : b[1] = k)
    IN  [k \in {all[i][1] : i \in DOMAIN all} |-> [i \in DOMAIN of(k) |-> of(k)[i][2]]]
Proto(k) == IF k[2] = "" THEN "tcp" ELSE k[2]
\* Published ports are exposed too, unless a range that is exposed has them.
Exposed(g, published) ==
    LET given == Or(g, "exposed_ports", {}) IN
    given \cup {<<k[1], k[1], Proto(k)>> : k \in {k \in DOMAIN published :
                    ~\E e \in given : e[1] < e[2] /\ k[1] \in e[1]..e[2] /\ e[3] = Proto(k)}}
PortsValue(g) ==
    LET published == IF "published_ports" \in DOMAIN g THEN Published(g.published_ports) ELSE << >>
    IN  ("ports" :> Exposed(g, published))
        @@ (IF "published_ports" \in DOMAIN g THEN "published_ports" :> published ELSE << >>)
        @@ (IF "publish_all_ports" \in DOMAIN g THEN "publish_all_ports" :> g.publish_all_ports ELSE << >>)

\* log_options go with a log_driver.
LogValue(g) ==
    IF "log_driver" \notin DOMAIN g THEN << >>
    ELSE ("log_driver" :> g.log_driver)
         @@ (IF "log_options" \in DOMAIN g THEN "log_options" :> [k \in DOMAIN g.log_options |-> ToString(g.log_options[k])]
             ELSE << >>)

\* convert_duration_to_nanosecond, normalize_healthcheck, and the test an option without one stands for.
Durations == ("0s" :> 0) @@ ("5s" :> 5) @@ ("1m5s" :> 65)
HealthRefused(h) == "interval" \in DOMAIN h /\ h.interval \notin DOMAIN Durations
NormalHealth(h) ==
    [o \in {o \in DOMAIN h : CASE o = "interval" -> Durations[h[o]] # 0
                               [] o = "test" -> h[o] # "" \/ h.cli = "true"
                               [] o = "cli" -> h[o] = "true"} |-> h[o]]
HealthValue(h) ==
    LET n == NormalHealth(h)
        test == IF "test" \in DOMAIN n THEN {n.test} ELSE {}
    IN  IF ~(test \notin {{}, {""}} \/ ("cli" \in DOMAIN n /\ test = {})) THEN "Test" :> "NONE"
        ELSE (IF test # {} THEN "Test" :> n.test ELSE << >>)
             @@ (IF "interval" \in DOMAIN n THEN "Interval" :> ToString(Durations[n.interval]) ELSE << >>)
HealthRead(m) == IF m = {} \/ (\E h \in m : "Test" \in DOMAIN h /\ h.Test = "NONE") THEN {"Test" :> "NONE"} ELSE m

DeviceValue(d) ==
    [PathOnHost |-> d[1], PathInContainer |-> IF Len(d) = 1 THEN d[1] ELSE d[2],
     CgroupPermissions |-> IF Len(d) = 3 THEN d[3] ELSE "rwm"]
RateBps(d) == [Path |-> d[1], Rate |-> Bytes("rate", d[2])]
RateIops(d) == [Path |-> d[1], Rate |-> d[2]]
RequestValue(r) == [Driver |-> r.driver, Count |-> r.count]
LinkValue(l) == <<l[1], "c", l[Len(l)]>>

\* The preprocessing of the other options of a single value.
Converted(o, v) ==
    CASE o \in Sized -> Bytes(o, v)
      [] o = "cpus" -> v * 100000000
      [] o = "devices" -> {DeviceValue(d) : d \in v}
      [] o \in {"device_read_bps", "device_write_bps"} -> {RateBps(d) : d \in v}
      [] o \in {"device_read_iops", "device_write_iops"} -> {RateIops(d) : d \in v}
      [] o = "device_requests" -> {RequestValue(r) : r \in v}
      [] o = "etc_hosts" -> {<<k, v[k]>> : k \in DOMAIN v}
      [] o = "healthcheck" -> HealthValue(v)
      [] o = "links" -> {LinkValue(l) : l \in v}
      [] o = "mac_address" -> [i \in DOMAIN v |-> IF v[i] = "-" THEN ":" ELSE v[i]]
      [] o = "sysctls" -> [k \in DOMAIN v |-> ToString(v[k])]
      [] o = "tmpfs" -> TmpfsValue(v)
      [] o = "ulimits" -> {UlimitValue(s) : s \in v}
      [] OTHER -> v

Grouped == {"command", "entrypoint", "env", "env_file", "log_driver", "log_options", "mounts", "volumes",
            "exposed_ports", "published_ports", "publish_all_ports"}
\* _collect_params, as far as it needs no daemon.
Values(p) ==
    LET g == UpdatedParams(p) IN
    [o \in DOMAIN g \ Grouped |-> Converted(o, g[o])]
    @@ CommandValue(p, g, "command") @@ CommandValue(p, g, "entrypoint") @@ EnvValue(g) @@ LogValue(g)
    @@ MountsValue(g) @@ PortsValue(g)

\* fail_json, an exception, or an argument that the client refuses.
OptionsRefused(p, w) ==
    LET g == UpdatedParams(p) IN
    \/ ComparisonsRefused(p)
    \/ \E o \in DOMAIN g \cap DOMAIN Engine : w.api < Engine[o].min
    \/ "log_options" \in DOMAIN g /\ "log_driver" \notin DOMAIN g
    \/ "restart_retries" \in DOMAIN g /\ "restart_policy" \notin DOMAIN g
    \/ p.ip = "hostname"
    \/ "env" \in DOMAIN g /\ \E k \in DOMAIN g.env : g.env[k] = NotText
    \/ \E o \in Sized \cap DOMAIN g : SizeRefused(o, g[o])
    \/ "healthcheck" \in DOMAIN g /\ HealthRefused(g.healthcheck)
    \/ "mounts" \in DOMAIN g /\ \E m \in g.mounts : MountRefused(m)
    \/ "volumes" \in DOMAIN g /\ \E v \in g.volumes : Len(v) = 3 /\ v[3] \notin VolumeModes
    \/ Collide(g)
    \/ "published_ports" \in DOMAIN g /\ \E i \in DOMAIN g.published_ports : PortRefused(g.published_ports[i])

\* "container:name" becomes "container:id", if there is such a container.
ContainerName(v, w) == IF v[1] = "container" /\ v[2] \in DOMAIN w.peers THEN <<"container", w.peers[v[2]]>> ELSE v
\* The address ports are published on by default.
DefaultHostIp(p, w) ==
    LET nets == Or(p.given, "networks", << >>)
        own == {i \in DOMAIN nets : w.nets[nets[i]] # ""}
    IN  IF p.ip # "unset" THEN p.ip
        ELSE IF own = {} THEN "0.0.0.0" ELSE w.nets[nets[CHOOSE i \in own : \A j \in own : i <= j]]
\* Only a port with a single bind gets it; of several the first is looked at, and it is no text.
FillDefaultIp(p, w, published) ==
    [k \in DOMAIN published |->
        IF Len(published[k]) = 1 /\ published[k][1][1] = DefaultIp
        THEN << <<DefaultHostIp(p, w)>> \o Tail(published[k][1]) >> ELSE published[k]]
Resolved(p, w, vals) ==
    [o \in DOMAIN vals |->
        CASE o \in {"network_mode", "ipc_mode", "pid_mode"} -> ContainerName(vals[o], w)
          [] o = "published_ports" -> FillDefaultIp(p, w, vals[o])
          [] OTHER -> vals[o]]

-----------------------------------------------------------------------------
(***************************************************************************)
(* What is sent, what a container has, and what it should have.            *)
(***************************************************************************)
FieldOf(api) == CHOOSE o \in DOMAIN Engine : Engine[o].api = api
PlainData(vals) == [a \in {Engine[o].api : o \in DOMAIN vals \cap DOMAIN Engine} |-> vals[FieldOf(a)]]

AttachData(vals) ==
    [OpenStdin |-> Or(vals, "interactive", "false"),
     AttachStdout |-> IF Or(vals, "detach", "false") = "true" THEN "false" ELSE "true"]
AttachRead(cfg) == [interactive |-> cfg.OpenStdin, detach |-> IF cfg.AttachStdout = "true" THEN "false" ELSE "true"]

LogData(vals) ==
    IF "log_driver" \notin DOMAIN vals THEN << >>
    ELSE "LogConfig" :> [type |-> vals.log_driver, config |-> Or(vals, "log_options", << >>)]
LogRead(cfg) == [log_driver |-> cfg.LogConfig.type, log_options |-> cfg.LogConfig.config]

RestartData(vals) ==
    IF "restart_policy" \notin DOMAIN vals THEN << >>
    ELSE "RestartPolicy" :> <<vals.restart_policy, Or(vals, "restart_retries", 0)>>
RestartRead(cfg) == [restart_policy |-> cfg.RestartPolicy[1], restart_retries |-> cfg.RestartPolicy[2]]

MountData(m) ==
    [o \in {o \in DOMAIN m : CASE o = "no_copy" -> m[o] = "true"
                               [] o = "tmpfs_size" -> m[o] # 0
                               [] OTHER -> TRUE} |-> m[o]]
MountsData(vals) ==
    (IF "mounts" \in DOMAIN vals THEN "Mounts" :> {MountData(m) : m \in vals.mounts} ELSE << >>)
    @@ (IF "volumes" \in DOMAIN vals
        THEN [Volumes |-> {v \in vals.volumes : Anonymous(v)}, Binds |-> vals.volume_binds] ELSE << >>)
MountRead(m) == m @@ [read_only |-> "false", no_copy |-> "false"]
MountsRead(cfg) ==
    (IF "Mounts" \in DOMAIN cfg THEN "mounts" :> {MountRead(m) : m \in cfg.Mounts} ELSE << >>)
    @@ (IF "Volumes" \in DOMAIN cfg THEN "volumes" :> cfg.Volumes ELSE << >>)
    @@ (IF "Binds" \in DOMAIN cfg THEN "volume_binds" :> cfg.Binds ELSE << >>)
MountsExpected(vals, image) ==
    LET vols == image.Volumes \cup {v \in Or(vals, "volumes", {}) : Anonymous(v)} IN
    (IF "mounts" \in DOMAIN vals THEN "mounts" :> vals.mounts ELSE << >>)
    @@ (IF vols # {} THEN "volumes" :> vols ELSE << >>)
    @@ ("volume_binds" :> Or(vals, "volume_binds", {}))

\* convert_port_bindings, and the form _get_expected_values_ports expects.
PortBinding(b) == [ip |-> b[1], port |-> IF Len(b) = 1 THEN << >> ELSE b[2]]
PortBindings(published) ==
    [k \in {<<k[1], Proto(k)>> : k \in DOMAIN published} |->
        LET j == CHOOSE j \in DOMAIN published : <<j[1], Proto(j)>> = k IN
        [i \in DOMAIN published[j] |-> PortBinding(published[j][i])]]
PortsData(vals) ==
    ("ExposedPorts" :> vals.ports)
    @@ (IF "published_ports" \in DOMAIN vals THEN "PortBindings" :> PortBindings(vals.published_ports) ELSE << >>)
    @@ (IF "publish_all_ports" \in DOMAIN vals /\ vals.publish_all_ports = "true" THEN "PublishAllPorts" :> "true" ELSE << >>)
PortsRead(cfg) ==
    ("exposed_ports" :> cfg.ExposedPorts) @@ ("publish_all_ports" :> cfg.PublishAllPorts)
    @@ (IF "PortBindings" \in DOMAIN cfg THEN "published_ports" :> cfg.PortBindings ELSE << >>)
PortsExpected(vals, image) ==
    ("exposed_ports" :> image.ExposedPorts \cup vals.ports)
    @@ (IF "published_ports" \in DOMAIN vals THEN "published_ports" :> PortBindings(vals.published_ports) ELSE << >>)
    @@ (IF "publish_all_ports" \in DOMAIN vals THEN "publish_all_ports" :> vals.publish_all_ports ELSE << >>)
\* Several binds of a port are taken apart as pairs of an address and a port.
PortsBreak(vals) ==
    "published_ports" \in DOMAIN vals /\
       \E k \in DOMAIN vals.published_ports : LET bs == vals.published_ports[k] IN
          Len(bs) > 1 /\ \E i \in DOMAIN bs : Len(bs[i]) = 1

\* Mutant: the environment of the image is not part of what is expected.
EnvExpectedAlone(vals, image) == Or(vals, "env", {})
\* The environment of the image, with what the task gives over it.
EnvExpected(vals, image) ==
    LET own == Or(vals, "env", {}) IN
    own \cup {e \in image.Env : ~\E f \in own : f[1] = e[1]}
LabelsExpected(p, vals, image) ==
    IF "labels" \notin DOMAIN vals THEN << >>
    ELSE "labels" :> (IF p.mismatch = "ignore" THEN vals.labels @@ image.Labels ELSE vals.labels)
PlatformExpected(vals, w) ==
    IF "platform" \notin DOMAIN vals THEN << >>
    ELSE "platform" :> (IF vals.platform[1] = "" THEN <<w.os, vals.platform[2]>> ELSE vals.platform)

\* _compose_create_parameters
CreateData(vals) ==
    PlainData(vals) @@ AttachData(vals) @@ LogData(vals) @@ RestartData(vals) @@ MountsData(vals) @@ PortsData(vals)

Read(cfg, image) ==
    [o \in {o \in DOMAIN Engine : Engine[o].api \in DOMAIN cfg} |-> cfg[Engine[o].api]]
    @@ AttachRead(cfg) @@ LogRead(cfg) @@ RestartRead(cfg) @@ MountsRead(cfg) @@ PortsRead(cfg)

Expected(p, vals, w) ==
    MountsExpected(vals, w.image) @@ PortsExpected(vals, w.image) @@ ("env" :> EnvExpected(vals, w.image))
    @@ LabelsExpected(p, vals, w.image) @@ PlatformExpected(vals, w)
    @@ [o \in DOMAIN vals \ {"ports", "volumes", "image"} |-> vals[o]]

ContainerValue(o, cfg, image) ==
    CASE o = "healthcheck" -> HealthRead(Get(cfg, "Healthcheck"))
      [] o = "platform" -> {image.Platform}
      [] OTHER -> Get(Read(cfg, image), o)

\* networks are handled apart; the daemon says bridge for default.
IgnoredMismatch(o, want, have, w) ==
    \/ o = "networks"
    \/ o = "network_mode" /\ want = <<"net", "default">> /\ have = {<<"net", "bridge">>} /\ w.os = "linux"

\* _record_differences
Differences(p, vals, w) ==
    LET exp == Expected(p, vals, w)
        cfg == w.con.cfg
    IN  {o \in DOMAIN exp :
           LET have == ContainerValue(o, cfg, w.image) IN
           /\ ~IgnoredMismatch(o, exp[o], have, w)
           /\ ~compare_generic({exp[o]}, have, Comparison(p, o), OptionType[o])}
\* image_label_mismatch=fail: labels of the image that should go.
LabelsFail(p, w, diff) ==
    /\ "labels" \in diff /\ Comparison(p, "labels") = "strict" /\ p.mismatch = "fail"
    /\ DOMAIN w.image.Labels \ DOMAIN p.given.labels # {}

-----------------------------------------------------------------------------
(***************************************************************************)
(* The daemon, as far as it keeps and completes what it is sent.           *)
(***************************************************************************)
DaemonDefaults ==
    [AutoRemove |-> "false", Privileged |-> "false", ReadonlyRootfs |-> "false", Tty |-> "false", Memory |-> 0,
     NetworkMode |-> <<"net", "bridge">>, LogConfig |-> [type |-> "json-file", config |-> << >>],
     RestartPolicy |-> <<"no", 0>>, PublishAllPorts |-> "false"]

DaemonRefuses(data, w) ==
    \/ "PortBindings" \in DOMAIN data /\ \E k \in DOMAIN data.PortBindings : \E i \in DOMAIN data.PortBindings[k] :
          data.PortBindings[k][i].ip = DefaultIp
    \/ "NetworkMode" \in DOMAIN data /\ data.NetworkMode[1] = "net" /\ data.NetworkMode[2] \notin DOMAIN w.nets \cup {"default", "bridge"}
    \/ "Platform" \in DOMAIN data /\ data.Platform[2] # w.image.Platform[2]

Completed(data, image) ==
    LET health == IF "Healthcheck" \notin DOMAIN data THEN image.Healthcheck
                  ELSE IF "Test" \in DOMAIN data.Healthcheck THEN {data.Healthcheck}
                  ELSE {data.Healthcheck @@ h : h \in image.Healthcheck \cup (IF image.Healthcheck = {} THEN {<< >>} ELSE {})}
        env == Or(data, "Env", {})
        full == [Env |-> env \cup {e \in image.Env : ~\E f \in env : f[1] = e[1]},
                 Labels |-> Or(data, "Labels", << >>) @@ image.Labels,
                 ExposedPorts |-> data.ExposedPorts \cup image.ExposedPorts,
                 NetworkMode |-> IF "NetworkMode" \in DOMAIN data /\ data.NetworkMode # <<"net", "default">>
                                 THEN data.NetworkMode ELSE <<"net", "bridge">>]
        vols == image.Volumes \cup Or(data, "Volumes", {})
    IN  full @@ (IF health = {} THEN << >> ELSE "Healthcheck" :> The(health))
        @@ (IF vols = {} THEN << >> ELSE "Volumes" :> vols)
        @@ [f \in DOMAIN data \ {"Healthcheck", "Volumes"} |-> data[f]] @@ DaemonDefaults

-----------------------------------------------------------------------------
CollectOptions ==
    /\ At("docker_container", "start")
    /\ Look(IF OptionsRefused(task.p, world) THEN Fail(task) ELSE Remember(task, Values(task.p), "resolve"))

ResolveOptions ==
    /\ At("docker_container", "resolve")
    /\ Look(IF ToSet(Or(task.p.given, "networks", << >>)) \subseteq DOMAIN world.nets
            THEN Remember(task, Resolved(task.p, world, task.loc), "inspect") ELSE Fail(task))

\* update_limits; a check goes on without a word.
Limits(t, diff) ==
    IF diff = {} THEN Exit(t) ELSE Unless(t, "update", Exit(t))

InspectOptions ==
    /\ At("docker_container", "inspect")
    /\ LET diff == Differences(task.p, task.loc, world)
           anew == {o \in diff : ~CanUpdate(o)}
       IN  Look(IF world.con = None THEN Unless(Changed(task), "create", Exit(Changed(task)))
                ELSE IF PortsBreak(task.loc) \/ LabelsFail(task.p, world, diff) THEN Fail(task)
                ELSE IF anew # {} THEN Unless(Changed(task), "remove", Exit(Changed(task)))
                ELSE Limits(task, diff))

RemoveDifferent ==
    /\ At("docker_container", "remove")
    /\ Do(Goto(task, "create"), [world EXCEPT !.con = None])

CreateWithOptions ==
    /\ At("docker_container", "create")
    /\ IF world.con # None \/ DaemonRefuses(CreateData(task.loc), world) THEN Look(Fail(task))
       ELSE Do(Goto(task, "limits"), [world EXCEPT !.con = [cfg |-> Completed(CreateData(task.loc), world.image)]])

\* The container is looked at again after it was created.
InspectLimits ==
    /\ At("docker_container", "limits")
    /\ Look(IF world.con = None THEN Exit(task)
            ELSE IF PortsBreak(task.loc) THEN Fail(task)
            ELSE Limits(task, {o \in Differences(task.p, task.loc, world) : CanUpdate(o)}))

UpdateInPlace ==
    /\ At("docker_container", "update")
    /\ IF world.con = None THEN Look(Fail(task))
       ELSE LET vals == [o \in {o \in DOMAIN task.loc : CanUpdate(o)} |-> task.loc[o]]
                data == PlainData(vals) @@ RestartData(vals)
            IN  Do(Exit(Changed(task)), [world EXCEPT !.con.cfg = data @@ @])

OthersAlterContainer ==
    /\ task.mod = "docker_container"
    /\ \/ world.con # None /\ OthersMake([world EXCEPT !.con = None])
       \/ world.con # None /\ OthersMake([world EXCEPT !.con.cfg.Memory = 77])
       \/ OthersMake([world EXCEPT !.peers = [n \in DOMAIN @ |-> "id2"]])

OptionsNext ==
    \/ CollectOptions \/ ResolveOptions \/ InspectOptions \/ RemoveDifferent \/ CreateWithOptions \/ InspectLimits
    \/ UpdateInPlace \/ OthersAlterContainer

-----------------------------------------------------------------------------
\* What options that are compared mean for the container cfg.
Means(p, o, v, w, cfg) ==
    CASE o = "env" -> \A k \in DOMAIN v : <<k, v[k]>> \in cfg.Env
      [] o = "labels" -> DictWithin(v, cfg.Labels) /\ (Comparison(p, o) = "strict" => DOMAIN cfg.Labels \subseteq DOMAIN v \cup DOMAIN w.image.Labels)
      [] o \in {"command", "entrypoint"} ->
           IF p.handling = "correct" /\ ~v.str THEN cfg[Engine[o].api] = v.v
           ELSE v.v = << >> \/ FlattenSeq(cfg[Engine[o].api]) = FlattenSeq(v.v)
      [] o \in Sized -> cfg[Engine[o].api] = Bytes(o, v)
      [] o = "healthcheck" -> Or(v, "cli", "false") = "true" \/ The(HealthRead(Get(cfg, "Healthcheck"))).Test = (IF Or(v, "test", "") # "" THEN v.test ELSE "NONE")
      [] o = "volumes" -> \A x \in v : IF Anonymous(x) THEN x \in cfg.Volumes
                                       ELSE \E b \in cfg.Binds : b[1] = Absolute(x[1]) /\ b[2] = x[2] /\ b[3] = (IF Len(x) = 3 THEN x[3] ELSE "rw")
      [] o = "mounts" -> \A m \in v : \E n \in cfg.Mounts : n.target = m.target /\ n.type = m.type
      [] o = "published_ports" ->
           \A i \in DOMAIN v : \A q \in v[i].cont[1]..v[i].cont[2] :
              LET k == <<q, IF v[i].proto = "" THEN "tcp" ELSE v[i].proto>> IN
              \/ v[i].host # << >> /\ v[i].host[2] - v[i].host[1] < q - v[i].cont[1]
              \/ k \in DOMAIN cfg.PortBindings /\ (\E e \in cfg.ExposedPorts : q \in e[1]..e[2] /\ e[3] = k[2])
                 /\ \E j \in DOMAIN cfg.PortBindings[k] : v[i].ip \in {"", cfg.PortBindings[k][j].ip}
      [] o = "exposed_ports" -> v \subseteq cfg.ExposedPorts
      [] o = "restart_policy" -> cfg.RestartPolicy[1] = v
      [] o = "log_driver" -> cfg.LogConfig.type = v
      [] o = "detach" -> (cfg.AttachStdout = "true") # (v = "true")
      [] o = "capabilities" -> v \subseteq cfg.CapAdd
      [] o = "cap_drop" -> v \subseteq cfg.CapDrop
      [] o = "dns_servers" -> cfg.Dns = v \/ Comparison(p, o) # "strict"
      [] OTHER -> TRUE
OptionsGoal(p, w) ==
    /\ w.con # None
    /\ \A o \in DOMAIN p.given \ GivenOnly : Comparison(p, o) = "ignore" \/ Means(p, o, p.given[o], w, w.con.cfg)

\* A check says nothing of what would be updated in place.
OptionsGuess(p) == \E o \in DOMAIN UpdatedParams(p) : CanUpdate(o)
=============================================================================
