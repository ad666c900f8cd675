--------------------------- MODULE MCCollections ---------------------------
(***************************************************************************)
(* The vendored collections as TLC checks them: one task of any module     *)
(* played three times (ModuleTasks), or a docker_container task beside a   *)
(* docker_network task on one host (DockerHost).  The two have no state in *)
(* common; a behaviour is of the one or the other from the beginning.      *)
(***************************************************************************)
EXTENDS MCModuleTasks, DockerHost

Base == [state |-> "started", conf |-> 1, lim |-> 0, net |-> "omitted", alias |-> 0, cli |-> TRUE, cmp |-> "allow",
         pull |-> "missing", recreate |-> FALSE, restart |-> FALSE, paused |-> "unset", detach |-> TRUE,
         cleanup |-> FALSE, kill |-> FALSE, check |-> FALSE]
Web == [Base EXCEPT !.net = "web"]

RealTasks ==
    {[Base EXCEPT !.state = s, !.conf = 0] : s \in {"present", "stopped", "absent"}}
    \cup {[Base EXCEPT !.state = "healthy", !.conf = 2, !.pull = "never", !.restart = TRUE],
          [Base EXCEPT !.pull = "always", !.paused = "no"],
          [Base EXCEPT !.recreate = TRUE, !.paused = "yes", !.kill = TRUE],
          [Base EXCEPT !.conf = 2, !.lim = 2, !.detach = FALSE], [Base EXCEPT !.detach = FALSE, !.cleanup = TRUE],
          [Web EXCEPT !.alias = 1], [Web EXCEPT !.cli = FALSE, !.cmp = "strict", !.alias = 1, !.lim = 2],
          [Web EXCEPT !.cli = FALSE, !.cmp = "ignore", !.conf = 2],
          [Base EXCEPT !.net = "empty", !.cmp = "strict"]}
HostContainerTasks == RealTasks \cup {[p EXCEPT !.check = TRUE] : p \in {p \in RealTasks : p.detach}}

AnyNetwork == [state |-> "present", conf |-> 1, connected |-> {}, force |-> FALSE, appends |-> FALSE, check |-> FALSE]
HostNetworkTasks ==
    {[AnyNetwork EXCEPT !.conf = 2], [AnyNetwork EXCEPT !.connected = {"c"}, !.appends = TRUE],
     [AnyNetwork EXCEPT !.connected = {"c"}, !.conf = 2, !.appends = TRUE],
     [AnyNetwork EXCEPT !.connected = {"c"}], [AnyNetwork EXCEPT !.state = "absent"],
     [AnyNetwork EXCEPT !.connected = {"c"}, !.force = TRUE, !.check = TRUE]}

Bridge == [n \in {"bridge"} |-> [id |-> 0, alias |-> 0]]
OnWeb == [n \in {"web"} |-> [id |-> 1, alias |-> 0]]
First == [id |-> 2, st |-> "running", hl |-> "none", conf |-> 1, lim |-> 1, img |-> 1, mode |-> "bridge", ends |-> Bridge]
HostContainers ==
    {Nothing, First, [First EXCEPT !.st = "removing", !.ends = << >>],
     [First EXCEPT !.mode = "web", !.ends = OnWeb],
     [First EXCEPT !.ends = [n \in {"bridge", "web"} |-> IF n = "web" THEN [id |-> 1, alias |-> 0] ELSE [id |-> 0, alias |-> 0]]],
     [First EXCEPT !.st = "created", !.conf = 2, !.lim = 2, !.img = 2]}

\* Nothing happens on the host, or no module is played.
HostAlone == task.mod = "none"
Nobody == [NewTask("none", None) EXCEPT !.turn = 0, !.pc = "over"]

Init ==
    \/ /\ TaskInit
       /\ con = Nothing /\ net = Nothing /\ local = 0 /\ remote = 0 /\ ids = 0 /\ moves = 0
       /\ ctask = NoTask /\ ntask = NoNetworkTask
    \/ /\ HostInit
       /\ world = None /\ task = Nobody /\ others = 0

Next ==
    \/ ~HostAlone /\ TaskNext /\ UNCHANGED hostVars
    \/ HostAlone /\ HostNext /\ UNCHANGED taskVars

Spec == Init /\ [][Next]_<<taskVars, hostVars>>
=============================================================================
