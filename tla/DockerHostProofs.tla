-------------------------- MODULE DockerHostProofs --------------------------
(***************************************************************************)
(* Two tasks on one Docker host.                                           *)
(*                                                                         *)
(* A docker_network task that removes its network and makes it again       *)
(* connects every container that it owes a connection, whatever the        *)
(* docker_container task, the daemon and other users do meanwhile.         *)
(*                                                                         *)
(* A docker_container task that nobody disturbs brings about what its      *)
(* parameters say, and reports a change exactly if there was one to make.  *)
(***************************************************************************)
EXTENDS DockerHost, TLAPS

----------------------------------------------------------------------------
(* The invariant.                                                          *)

(* A container that is on its way out has no endpoint in the network.      *)
ContainerInv ==
    con # Nothing =>
        DOMAIN con = ContainerFields /\ (con.st = "removing" => "web" \notin DOMAIN con.ends)

NetInv == net # Nothing => DOMAIN net = {"id", "conf", "other"} /\ net.other \in BOOLEAN

TaskFields == {"pc", "p", "ex", "want", "todo", "changed", "lost", "had"}

(* The containers the task u connects: those of its list or, the list      *)
(* being empty, those it found connected.                                  *)
Owed(u) == IF u.p.connected = {} THEN u.had ELSE u.p.connected

Keeps(u) == u.p.state = "present" /\ ~u.p.check

Decided == {"list", "disconnect", "delete", "create", "created", "connect", "missing"}

(* What a task knows when it has read the network, apart from whether the  *)
(* containers are connected.                                               *)
Planned(u) ==
    /\ DOMAIN u = TaskFields
    /\ u.pc \notin {"idle", "over"} => u.p.connected \subseteq {"c", "o"}
    /\ u.pc \in Decided => u.want = Owed(u) /\ Owed(u) \subseteq {"c", "o"}
    /\ u.pc = "connect" => u.todo \subseteq Owed(u)
    /\ Keeps(u) /\ u.pc = "missing" => u.todo \cap Owed(u) = {}

(* From the first connection on, what is owed is connected, or still on    *)
(* the list, or somebody else has disconnected it.                         *)
OwesNothing(u, x) == Connected(x) \/ (u.pc = "connect" /\ x \in u.todo)

ConnectedInv ==
    Keeps(ntask) /\ ntask.pc \in {"connect", "missing", "done"} =>
        \A x \in Owed(ntask) \ ntask.lost : OwesNothing(ntask, x)

HostInv == ContainerInv /\ NetInv /\ Planned(ntask) /\ ConnectedInv

----------------------------------------------------------------------------
(* What others do to the connections.                                      *)

Quiet == {"idle", "read", "over"}

(* Whoever is disconnected by others is noted as lost.                     *)
Noted ==
    /\ ntask' = ntask \/ \E x : ntask' = [ntask EXCEPT !.lost = @ \cup {x}]
    /\ ntask.pc \notin Quiet => \A x : Connected(x) => Connected(x)' \/ x \in ntask'.lost

(* What is noted as lost is no longer owed, so the task's part of the      *)
(* invariant holds on.                                                     *)
LEMMA NotedKeeps ==
    ASSUME HostInv, Noted
    PROVE  Planned(ntask)' /\ ConnectedInv'
  <1>1. /\ DOMAIN ntask' = DOMAIN ntask /\ ntask'.pc = ntask.pc /\ ntask'.p = ntask.p
        /\ ntask'.want = ntask.want /\ ntask'.todo = ntask.todo /\ ntask'.had = ntask.had
        /\ ntask.lost \subseteq ntask'.lost
    BY DEF Noted, HostInv, Planned, TaskFields
  <1>2. Owed(ntask)' = Owed(ntask) /\ (Keeps(ntask)' <=> Keeps(ntask))
    BY <1>1 DEF Owed, Keeps
  <1>3. Planned(ntask)'
    BY <1>1, <1>2 DEF HostInv, Planned
  <1>4. ConnectedInv'
    <2>1. SUFFICES ASSUME Keeps(ntask), ntask.pc \in {"connect", "missing", "done"},
                          NEW x \in Owed(ntask), x \notin ntask'.lost
                   PROVE  OwesNothing(ntask, x)'
      BY <1>1, <1>2 DEF ConnectedInv
    <2>2. OwesNothing(ntask, x)
      BY <1>1, <2>1 DEF HostInv, ConnectedInv
    <2>3. Connected(x) => Connected(x)'
      BY <2>1 DEF Noted, Quiet
    <2> QED
      BY <1>1, <2>2, <2>3 DEF OwesNothing
  <1> QED
    BY <1>3, <1>4

(* Changes to the container that are noted, or leave its endpoints alone.  *)
LEMMA ContainerNoted ==
    ASSUME HostInv, net' = net,
           \/ con' = con /\ ntask' = ntask
           \/ LosesIfChanged
           \/ ntask' = ntask /\ (con = Nothing \/ con.st = "removing" \/ "web" \notin DOMAIN con.ends)
           \/ ntask' = ntask /\ con # Nothing /\ con' # Nothing /\ con'.ends = con.ends
    PROVE  Noted
  <1>1. Connected("o")' <=> Connected("o")
    BY DEF Connected
  <1>2. \A x : x \notin {"c", "o"} => ~Connected(x)
    BY DEF Connected
  <1>3. CASE con' = con /\ ntask' = ntask
    BY <1>3 DEF Noted, Connected
  <1>4. CASE LosesIfChanged
    <2>1. CASE con' = con
      BY <1>4, <2>1 DEF Noted, Connected, LosesIfChanged
    <2>2. CASE con' # con
      <3>1. ntask' = Loses("c")
        BY <1>4, <2>2 DEF LosesIfChanged
      <3>2. DOMAIN ntask = TaskFields
        BY DEF HostInv, Planned
      <3>3. ntask.pc \notin Quiet => ntask' = [ntask EXCEPT !.lost = @ \cup {"c"}]
        BY <3>1 DEF Loses, Quiet
      <3>4. ntask.pc \notin Quiet => "c" \in ntask'.lost
        BY <3>2, <3>3 DEF TaskFields
      <3>5. ntask' = ntask \/ ntask' = [ntask EXCEPT !.lost = @ \cup {"c"}]
        BY <3>1 DEF Loses
      <3>6. ntask.pc \notin Quiet => \A x : Connected(x) => Connected(x)' \/ x \in ntask'.lost
        BY <1>1, <1>2, <3>4
      <3> QED
        BY <3>5, <3>6 DEF Noted
    <2> QED
      BY <2>1, <2>2
  <1>5. CASE ntask' = ntask /\ (con = Nothing \/ con.st = "removing" \/ "web" \notin DOMAIN con.ends)
    <2>1. ~Connected("c")
      BY <1>5 DEF Connected, HostInv, ContainerInv
    <2> QED
      BY <1>1, <1>2, <1>5, <2>1 DEF Noted
  <1>6. CASE ntask' = ntask /\ con # Nothing /\ con' # Nothing /\ con'.ends = con.ends
    <2>1. Connected("c")' <=> Connected("c")
      BY <1>6 DEF Connected
    <2> QED
      BY <1>1, <1>2, <1>6, <2>1 DEF Noted
  <1> QED
    BY <1>3, <1>4, <1>5, <1>6

----------------------------------------------------------------------------
(* The docker_container task.                                              *)

(* Only the container changes, and its endpoints only if that is noted.    *)
Disturbs == net' = net /\ ContainerInv' /\ Noted

(* The steps of the task that do not touch the container.                  *)
LEMMA TaskReads ==
    ASSUME HostInv,
           \/ StartContainerTask \/ CollectParams \/ Inspect \/ GetImage \/ PullImage \/ PullFails
           \/ AwaitGone \/ WaitTimeout \/ GetContainer \/ WaitForContainer \/ AwaitHealthy
    PROVE  Disturbs
  <1>1. con' = con /\ net' = net /\ ntask' = ntask
    BY DEF StartContainerTask, CollectParams, Inspect, GetImage, PullImage, PullFails, AwaitGone,
           WaitTimeout, GetContainer, WaitForContainer, AwaitHealthy, daemonVars
  <1>2. ContainerInv'
    BY <1>1 DEF HostInv, ContainerInv
  <1> QED
    BY <1>1, <1>2, ContainerNoted DEF Disturbs

(* The steps that change the container and not its endpoints.              *)
LEMMA ContainerKeepsEnds ==
    ASSUME HostInv,
           \/ UnpauseToStop \/ ContainerUpdate \/ ContainerStart \/ ContainerRestart \/ SetPaused
    PROVE  Disturbs
  <1>1. net' = net /\ ntask' = ntask
    BY DEF UnpauseToStop, ContainerUpdate, ContainerStart, ContainerRestart, SetPaused, Request
  <1>2. \/ con' = con
        \/ con # Nothing /\ con.st # "removing" /\ \E x : con' = [con EXCEPT !.lim = x]
        \/ con # Nothing /\ \E x : con' = [con EXCEPT !.st = "running", !.hl = x]
        \/ con # Nothing /\ \E x \in {"running", "paused"} : con' = [con EXCEPT !.st = x]
    <2>1. CASE UnpauseToStop
      BY <2>1 DEF UnpauseToStop, Same
    <2>2. CASE ContainerUpdate
      BY <2>2 DEF ContainerUpdate, Request, Same
    <2>3. CASE ContainerStart
      BY <2>3 DEF ContainerStart, Request, Same
    <2>4. CASE ContainerRestart
      BY <2>4 DEF ContainerRestart, Request, Same
    <2>5. CASE SetPaused
      BY <2>5 DEF SetPaused, Request, Same
    <2> QED
      BY <2>1, <2>2, <2>3, <2>4, <2>5
  <1>3. CASE con' = con
    BY <1>1, <1>3, ContainerNoted DEF Disturbs, HostInv, ContainerInv
  <1>4. CASE con' # con
    <2>1. con # Nothing /\ DOMAIN con = ContainerFields
      BY <1>2, <1>4 DEF HostInv, ContainerInv
    <2>2. /\ DOMAIN con' = ContainerFields /\ con'.ends = con.ends
          /\ con'.st = "removing" => con.st = "removing"
      BY <1>2, <1>4, <2>1 DEF ContainerFields
    <2>3. con' # Nothing
      BY <2>2 DEF Nothing, ContainerFields
    <2>4. ContainerInv'
      BY <2>1, <2>2 DEF HostInv, ContainerInv
    <2> QED
      BY <1>1, <2>1, <2>2, <2>3, <2>4, ContainerNoted DEF Disturbs
  <1> QED
    BY <1>3, <1>4

(* The steps that change the endpoints, or remove the container.           *)
LEMMA ContainerLosesEnds ==
    ASSUME HostInv,
           ContainerStop \/ ContainerRemove \/ DisconnectToReconnect \/ PurgeNetwork
    PROVE  Disturbs
  <1>1. net' = net /\ LosesIfChanged
    BY DEF ContainerStop, ContainerRemove, DisconnectToReconnect, PurgeNetwork, Request
  <1>2. \/ con' = con \/ con' = Nothing
        \/ con # Nothing /\ con' = [con EXCEPT !.st = "exited"]
        \/ con # Nothing /\ con' = [con EXCEPT !.st = "removing", !.ends = << >>]
        \/ con # Nothing /\ \E n : con' = Drop(con, n)
    BY DEF ContainerStop, ContainerRemove, DisconnectToReconnect, PurgeNetwork, Request, Same
  <1>3. ContainerInv'
    <2>1. CASE con' = con \/ con' = Nothing
      BY <2>1 DEF HostInv, ContainerInv
    <2>2. CASE con # Nothing /\ con' = [con EXCEPT !.st = "exited"]
      BY <2>2 DEF HostInv, ContainerInv, ContainerFields
    <2>3. CASE con # Nothing /\ con' = [con EXCEPT !.st = "removing", !.ends = << >>]
      BY <2>3 DEF HostInv, ContainerInv, ContainerFields
    <2>4. CASE con # Nothing /\ \E n : con' = Drop(con, n)
      BY <2>4 DEF HostInv, ContainerInv, ContainerFields, Drop
    <2> QED
      BY <1>2, <2>1, <2>2, <2>3, <2>4
  <1> QED
    BY <1>1, <1>3, ContainerNoted DEF Disturbs

(* A container is created where there was none.                            *)
LEMMA ContainerIsNew ==
    ASSUME HostInv, ContainerCreate
    PROVE  Disturbs
  <1>1. net' = net /\ ntask' = ntask
    BY DEF ContainerCreate
  <1>2. con' = con \/ (con = Nothing /\ con' = NewContainer(ctask.p, local))
    BY DEF ContainerCreate
  <1>3. ContainerInv'
    BY <1>2 DEF HostInv, ContainerInv, NewContainer, ContainerFields
  <1> QED
    BY <1>1, <1>2, <1>3, ContainerNoted DEF Disturbs

(* It is connected where it was not.                                       *)
LEMMA ContainerJoins ==
    ASSUME HostInv, ConnectNetwork
    PROVE  Disturbs
  <1>1. net' = net /\ ntask' = ntask
    BY DEF ConnectNetwork, Request
  <1>2. \/ con' = con
        \/ /\ con # Nothing /\ con.st # "removing" /\ "web" \notin DOMAIN con.ends
           /\ \E e : con' = Attach(con, "web", e)
    BY DEF ConnectNetwork, Request, Same
  <1>3. ContainerInv'
    BY <1>2 DEF HostInv, ContainerInv, Attach, ContainerFields
  <1> QED
    BY <1>1, <1>2, <1>3, ContainerNoted DEF Disturbs

----------------------------------------------------------------------------
(* The daemon and other users.                                             *)

(* What the daemon does on its own.                                      *)
LEMMA DaemonActs ==
    ASSUME HostInv, RemovalCompletes \/ HealthCheck \/ OtherStarts
    PROVE  Disturbs
  <1>1. net' = net /\ ntask' = ntask
    BY DEF RemovalCompletes, HealthCheck, OtherStarts
  <1>2. CASE RemovalCompletes
    BY <1>1, <1>2, ContainerNoted DEF RemovalCompletes, HostInv, ContainerInv, Disturbs
  <1>3. CASE HealthCheck \/ OtherStarts
    <2>1. con # Nothing /\ DOMAIN con = ContainerFields
      BY <1>3 DEF HealthCheck, OtherStarts, HostInv, ContainerInv
    <2>2. \/ con' = [con EXCEPT !.hl = "healthy"]
          \/ con' = [con EXCEPT !.st = "running"] \/ con' = [con EXCEPT !.st = "paused"]
      BY <1>3 DEF HealthCheck, OtherStarts
    <2>3. /\ DOMAIN con' = ContainerFields /\ con'.ends = con.ends
          /\ con'.st = "removing" => con.st = "removing"
      BY <2>1, <2>2 DEF ContainerFields
    <2>4. con' # Nothing
      BY <2>3 DEF Nothing, ContainerFields
    <2>5. ContainerInv'
      BY <2>1, <2>3 DEF HostInv, ContainerInv
    <2> QED
      BY <1>1, <2>1, <2>3, <2>4, <2>5, ContainerNoted DEF Disturbs
  <1> QED
    BY <1>2, <1>3

(* A container that exits, or that somebody else removes.                  *)
LEMMA OthersDisturb ==
    ASSUME HostInv, ContainerExits \/ OtherRemoves
    PROVE  Disturbs
  <1>1. net' = net /\ LosesIfChanged
    BY DEF ContainerExits, OtherRemoves
  <1>2. con' = Nothing \/ (con # Nothing /\ con' = [con EXCEPT !.st = "exited"])
    BY DEF ContainerExits, OtherRemoves
  <1>3. ContainerInv'
    BY <1>2 DEF HostInv, ContainerInv, ContainerFields
  <1> QED
    BY <1>1, <1>3, ContainerNoted DEF Disturbs

(* Others connect or disconnect the second container, or make a network.   *)
LEMMA OthersConnect ==
    ASSUME HostInv, OtherConnects
    PROVE  con' = con /\ NetInv' /\ Noted
  <1>1. con' = con
    BY DEF OtherConnects
  <1>2. CASE net # Nothing
    <2>1. /\ net' = [net EXCEPT !.other = ~@]
          /\ ntask' = IF net.other THEN Loses("o") ELSE ntask
      BY <1>2 DEF OtherConnects
    <2>2. /\ DOMAIN net' = DOMAIN net /\ net'.id = net.id /\ net'.other = ~net.other
          /\ DOMAIN net = {"id", "conf", "other"} /\ net.other \in BOOLEAN
      BY <1>2, <2>1 DEF HostInv, NetInv
    <2>3. NetInv' /\ net' # Nothing
      BY <2>2 DEF NetInv, Nothing
    <2>4. Connected("c")' <=> Connected("c")
      BY <1>1, <1>2, <2>2, <2>3 DEF Connected
    <2>5. \A x : x \notin {"c", "o"} => ~Connected(x)
      BY DEF Connected
    <2>6. Connected("o") => net.other
      BY DEF Connected
    <2>7. DOMAIN ntask = TaskFields
      BY DEF HostInv, Planned
    <2>8. ntask.pc \notin Quiet => Loses("o") = [ntask EXCEPT !.lost = @ \cup {"o"}]
      BY DEF Loses, Quiet
    <2>9. net.other /\ ntask.pc \notin Quiet => "o" \in ntask'.lost
      BY <2>1, <2>7, <2>8 DEF TaskFields
    <2>10. ntask' = ntask \/ ntask' = [ntask EXCEPT !.lost = @ \cup {"o"}]
      BY <2>1 DEF Loses
    <2>11. ntask.pc \notin Quiet => \A x : Connected(x) => Connected(x)' \/ x \in ntask'.lost
      BY <2>4, <2>5, <2>6, <2>9
    <2> QED
      BY <1>1, <2>3, <2>10, <2>11 DEF Noted
  <1>3. CASE net = Nothing
    <2>1. /\ net' = [id |-> ids + 1, conf |-> 1, other |-> TRUE] /\ ntask' = ntask
      BY <1>3 DEF OtherConnects
    <2>2. NetInv'
      BY <2>1 DEF NetInv
    <2>3. \A x : ~Connected(x)
      BY <1>3 DEF Connected
    <2> QED
      BY <1>1, <2>1, <2>2, <2>3 DEF Noted
  <1> QED
    BY <1>2, <1>3

----------------------------------------------------------------------------
(* The docker_network task.                                                *)

(* A task that has read what it works on, and what it decides then.        *)
WellRead(u) ==
    /\ DOMAIN u = TaskFields
    /\ u.p.connected \subseteq {"c", "o"}
    /\ u.want = Owed(u) /\ Owed(u) \subseteq {"c", "o"}

GoesOn(u, r) == Planned(r) /\ r.p = u.p /\ r.had = u.had /\ r.lost = u.lost

Listed(u) == IF u.ex = Nothing THEN {} ELSE u.ex.members

(* disconnect_missing leaves out what the task wants connected.            *)
LEMMA MissingFacts ==
    ASSUME NEW u, WellRead(u)
    PROVE  GoesOn(u, disconnect_missing(u)) /\ disconnect_missing(u).pc \in {"done", "missing"}
  <1> DEFINE extra == IF u.p.appends \/ u.ex = Nothing THEN {} ELSE u.ex.members \ u.want
             r == disconnect_missing(u)
  <1>1. \/ r = [u EXCEPT !.pc = "done"]
        \/ r = [u EXCEPT !.pc = "done", !.changed = TRUE]
        \/ r = [u EXCEPT !.pc = "missing", !.todo = extra]
    BY DEF disconnect_missing
  <1>2. extra \cap u.want = {}
    OBVIOUS
  <1> HIDE DEF r, extra
  <1>3. CASE r = [u EXCEPT !.pc = "done"] \/ r = [u EXCEPT !.pc = "done", !.changed = TRUE]
    <2>1. /\ DOMAIN r = TaskFields /\ r.pc = "done" /\ r.p = u.p /\ r.had = u.had /\ r.lost = u.lost
      BY <1>3 DEF WellRead, TaskFields
    <2>2. Planned(r)
      BY <2>1 DEF Planned, WellRead, Decided
    <2> QED
      BY <2>1, <2>2 DEF GoesOn, r
  <1>4. CASE r = [u EXCEPT !.pc = "missing", !.todo = extra]
    <2>1. /\ DOMAIN r = TaskFields /\ r.pc = "missing" /\ r.todo = extra /\ r.want = u.want
          /\ r.p = u.p /\ r.had = u.had /\ r.lost = u.lost
      BY <1>4 DEF WellRead, TaskFields
    <2>2. Owed(r) = Owed(u)
      BY <2>1 DEF Owed
    <2>3. Planned(r)
      BY <1>2, <2>1, <2>2 DEF Planned, WellRead
    <2> QED
      BY <2>1, <2>3 DEF GoesOn, r
  <1> QED
    BY <1>1, <1>3, <1>4

(* connect_containers connects what is wanted and not listed.              *)
LEMMA ConnectFacts ==
    ASSUME NEW u, WellRead(u)
    PROVE  /\ GoesOn(u, connect_containers(u))
           /\ connect_containers(u).pc \in {"connect", "missing", "done"}
           /\ ~u.p.check => \A x \in Owed(u) :
                x \in Listed(u) \/ (connect_containers(u).pc = "connect" /\ x \in connect_containers(u).todo)
  <1> DEFINE new == u.want \ Listed(u)
             r == connect_containers(u)
  <1>1. r = IF new = {} THEN disconnect_missing(u)
            ELSE IF u.p.check THEN disconnect_missing([u EXCEPT !.changed = TRUE])
            ELSE [u EXCEPT !.pc = "connect", !.todo = new]
    BY DEF connect_containers, Listed
  <1>2. \A x \in Owed(u) : x \in Listed(u) \/ x \in new
    BY DEF WellRead
  <1> HIDE DEF r, new
  <1>3. CASE new = {}
    BY <1>1, <1>2, <1>3, MissingFacts DEF r
  <1>4. CASE new # {} /\ u.p.check
    <2> DEFINE v == [u EXCEPT !.changed = TRUE]
    <2>1. WellRead(v) /\ v.p = u.p /\ v.had = u.had /\ v.lost = u.lost
      BY DEF WellRead, TaskFields, Owed
    <2>2. r = disconnect_missing(v)
      BY <1>1, <1>4
    <2> HIDE DEF v
    <2>3. GoesOn(v, r) /\ r.pc \in {"done", "missing"}
      BY <2>1, <2>2, MissingFacts
    <2> QED
      BY <1>4, <2>1, <2>3 DEF GoesOn, r
  <1>5. CASE new # {} /\ ~u.p.check
    <2>1. /\ DOMAIN r = TaskFields /\ r.pc = "connect" /\ r.todo = new /\ r.want = u.want
          /\ r.p = u.p /\ r.had = u.had /\ r.lost = u.lost
      BY <1>1, <1>5 DEF WellRead, TaskFields
    <2>2. Owed(r) = Owed(u)
      BY <2>1 DEF Owed
    <2>3. Planned(r)
      BY <2>1, <2>2 DEF Planned, WellRead, new
    <2> QED
      BY <1>2, <2>1, <2>3 DEF GoesOn, r
  <1> QED
    BY <1>3, <1>4, <1>5

(* create_network goes on with the network that is there, or asks for one. *)
LEMMA CreateFacts ==
    ASSUME NEW u, WellRead(u)
    PROVE  /\ GoesOn(u, create_network(u))
           /\ create_network(u).pc \in {"create", "connect", "missing", "done"}
           /\ ~u.p.check /\ create_network(u).pc # "create" => \A x \in Owed(u) :
                x \in Listed(u) \/ (create_network(u).pc = "connect" /\ x \in create_network(u).todo)
  <1> DEFINE r == create_network(u)
  <1>1. CASE u.ex # Nothing
    <2>1. r = connect_containers(u)
      BY <1>1 DEF create_network
    <2> QED
      BY <2>1, ConnectFacts
  <1>2. CASE u.ex = Nothing /\ u.p.check
    <2> DEFINE v == [u EXCEPT !.changed = TRUE]
    <2>1. WellRead(v) /\ v.p = u.p /\ v.had = u.had /\ v.lost = u.lost
      BY DEF WellRead, TaskFields, Owed
    <2>2. r = connect_containers(v)
      BY <1>2 DEF create_network
    <2> HIDE DEF v, r
    <2>3. GoesOn(v, r) /\ r.pc \in {"connect", "missing", "done"}
      BY <2>1, <2>2, ConnectFacts
    <2> QED
      BY <1>2, <2>1, <2>3 DEF GoesOn, r
  <1>3. CASE u.ex = Nothing /\ ~u.p.check
    <2>1. r = [u EXCEPT !.pc = "create"]
      BY <1>3 DEF create_network
    <2> HIDE DEF r
    <2>2. /\ DOMAIN r = TaskFields /\ r.pc = "create" /\ r.want = u.want
          /\ r.p = u.p /\ r.had = u.had /\ r.lost = u.lost
      BY <2>1 DEF WellRead, TaskFields
    <2>3. Owed(r) = Owed(u)
      BY <2>2 DEF Owed
    <2>4. Planned(r)
      BY <2>2, <2>3 DEF Planned, WellRead
    <2> QED
      BY <2>2, <2>4 DEF GoesOn, r
  <1> QED
    BY <1>1, <1>2, <1>3

(* What the answer to an inspection lists is connected.                    *)
LEMMA SnapshotFacts ==
    /\ Members \subseteq {"c", "o"} /\ \A x \in Members : Connected(x)
    /\ net = Nothing <=> Snapshot = Nothing
    /\ net # Nothing => Snapshot.members = Members
  <1>1. net # Nothing => Snapshot = [id |-> net.id, conf |-> net.conf, members |-> Members]
    BY DEF Snapshot
  <1>2. net # Nothing => Snapshot # Nothing
    BY <1>1 DEF Nothing
  <1>3. net = Nothing => Snapshot = Nothing
    BY DEF Snapshot
  <1>4. Members \subseteq {"c", "o"} /\ \A x \in Members : Connected(x)
    BY DEF Members
  <1> QED
    BY <1>1, <1>2, <1>3, <1>4

(* While the host stays as it is, only the task's own part matters.        *)
LEMMA HostStays ==
    ASSUME HostInv, con' = con, net' = net, Planned(ntask'), ConnectedInv'
    PROVE  HostInv'
  BY DEF HostInv, ContainerInv, NetInv, Planned, Owed, Keeps

(* A task that has failed owes nothing.                                    *)
LEMMA FailedPlan ==
    ASSUME HostInv, ntask' = NFail(ntask), ntask.pc \notin {"idle", "over"}
    PROVE  Planned(ntask') /\ ConnectedInv'
  <1>1. DOMAIN ntask' = TaskFields /\ ntask'.pc = "failed" /\ ntask'.p = ntask.p
    BY DEF HostInv, Planned, NFail, TaskFields
  <1> QED
    BY <1>1 DEF HostInv, Planned, ConnectedInv, Decided

(* The task is given its parameters.                                       *)
LEMMA TaskStarts ==
    ASSUME HostInv, StartNetworkTask
    PROVE  HostInv'
  <1>1. PICK p \in NetworkTasks : ntask' = [ntask EXCEPT !.pc = "read", !.p = p]
    BY DEF StartNetworkTask
  <1>2. con' = con /\ net' = net
    BY DEF StartNetworkTask, daemonVars
  <1>3. DOMAIN ntask' = TaskFields /\ ntask'.pc = "read" /\ ntask'.p = p
    BY <1>1 DEF HostInv, Planned, TaskFields
  <1>4. Planned(ntask') /\ ConnectedInv'
    BY <1>3, HostAssumption DEF Planned, ConnectedInv, Decided
  <1> QED
    BY <1>2, <1>4, HostStays

(* The network is read, and those connected are noted.                     *)
LEMMA TaskReadsNetwork ==
    ASSUME HostInv, ReadNetwork
    PROVE  HostInv'
  <1> DEFINE had == IF Snapshot = Nothing THEN {} ELSE Snapshot.members
             u == [ntask EXCEPT !.ex = Snapshot, !.lost = {}, !.had = had,
                                !.want = WantedFrom(ntask.p, Snapshot)]
  <1>1. /\ con' = con /\ net' = net /\ ntask.pc = "read"
        /\ ntask' = IF u.p.state = "absent"
                    THEN [u EXCEPT !.pc = IF Snapshot = Nothing THEN "done" ELSE "list"]
                    ELSE IF Snapshot # Nothing /\ (u.p.force \/ u.p.conf # Snapshot.conf) THEN [u EXCEPT !.pc = "list"]
                    ELSE create_network(u)
    BY DEF ReadNetwork, daemonVars
  <1>2. had \subseteq {"c", "o"} /\ \A x \in had : Connected(x)
    BY SnapshotFacts
  <1>3. /\ DOMAIN u = TaskFields /\ u.p = ntask.p /\ u.had = had /\ u.ex = Snapshot
        /\ u.want = WantedFrom(ntask.p, Snapshot)
    BY DEF HostInv, Planned, TaskFields
  <1>4. u.p.connected \subseteq {"c", "o"}
    BY <1>1, <1>3 DEF HostInv, Planned
  <1>5. u.want = Owed(u) /\ Owed(u) \subseteq {"c", "o"}
    BY <1>2, <1>3, <1>4 DEF WantedFrom, Owed
  <1>6. WellRead(u) /\ Listed(u) = had
    BY <1>3, <1>4, <1>5 DEF WellRead, Listed
  <1> HIDE DEF u, had
  <1>7. CASE \/ u.p.state = "absent" /\ ntask' = [u EXCEPT !.pc = "done"]
             \/ ntask' = [u EXCEPT !.pc = "list"]
    <2>1. /\ DOMAIN ntask' = TaskFields /\ ntask'.p = u.p
          /\ ntask'.pc = "list" \/ (ntask'.pc = "done" /\ u.p.state = "absent")
          /\ ntask'.want = u.want /\ ntask'.had = u.had
      BY <1>3, <1>7 DEF TaskFields
    <2>2. Owed(ntask') = Owed(u)
      BY <2>1 DEF Owed
    <2>3. Planned(ntask')
      BY <1>6, <2>1, <2>2 DEF Planned, WellRead
    <2>4. ConnectedInv'
      BY <2>1 DEF ConnectedInv, Keeps
    <2> QED
      BY <1>1, <2>3, <2>4, HostStays
  <1>8. CASE ntask' = create_network(u)
    <2>1. /\ GoesOn(u, ntask')
          /\ ~u.p.check /\ ntask'.pc # "create" => \A x \in Owed(u) :
               x \in Listed(u) \/ (ntask'.pc = "connect" /\ x \in ntask'.todo)
      BY <1>6, <1>8, CreateFacts
    <2>2. Owed(ntask') = Owed(u) /\ ntask'.p = u.p
      BY <2>1 DEF GoesOn, Owed
    <2>3. \A x \in had : Connected(x)'
      BY <1>1, <1>2 DEF Connected
    <2>4. ConnectedInv'
      BY <1>6, <2>1, <2>2, <2>3 DEF ConnectedInv, Keeps, OwesNothing, Owed
    <2> QED
      BY <1>1, <2>1, <2>4, HostStays DEF GoesOn
  <1> QED
    BY <1>1, <1>7, <1>8

(* The network has been removed, or a check takes it for removed.          *)
LEMMA RemovedPlan ==
    ASSUME HostInv, ntask.pc \in Decided, ntask' = Removed(ntask)
    PROVE  Planned(ntask') /\ ConnectedInv'
  <1> DEFINE v == [ntask EXCEPT !.changed = TRUE, !.ex = Nothing]
  <1>1. /\ DOMAIN v = TaskFields /\ v.p = ntask.p /\ v.had = ntask.had /\ v.ex = Nothing
        /\ v.want = ntask.want
    BY DEF HostInv, Planned, TaskFields
  <1>2. WellRead(v) /\ Listed(v) = {}
    <2>1. Owed(v) = Owed(ntask)
      BY <1>1 DEF Owed
    <2> QED
      BY <1>1, <2>1 DEF HostInv, Planned, WellRead, Listed, Decided
  <1>3. ntask' = IF v.p.state = "present" THEN create_network(v) ELSE [v EXCEPT !.pc = "done"]
    BY <1>1 DEF Removed
  <1> HIDE DEF v
  <1>4. CASE v.p.state = "present"
    <2>1. /\ GoesOn(v, ntask')
          /\ ~v.p.check /\ ntask'.pc # "create" => \A x \in Owed(v) :
               x \in Listed(v) \/ (ntask'.pc = "connect" /\ x \in ntask'.todo)
      BY <1>2, <1>3, <1>4, CreateFacts
    <2>2. Owed(ntask') = Owed(v) /\ ntask'.p = v.p
      BY <2>1 DEF GoesOn, Owed
    <2> QED
      BY <1>2, <2>1, <2>2 DEF ConnectedInv, Keeps, OwesNothing, Owed, GoesOn
  <1>5. CASE v.p.state # "present"
    <2>1. DOMAIN ntask' = TaskFields /\ ntask'.pc = "done" /\ ntask'.p = v.p
      BY <1>1, <1>3, <1>5 DEF TaskFields
    <2> QED
      BY <1>2, <1>5, <2>1 DEF Planned, ConnectedInv, Keeps, Decided, WellRead
  <1> QED
    BY <1>4, <1>5

(* The members of the network are read again, to be disconnected.          *)
LEMMA TaskLists ==
    ASSUME HostInv, ListToDisconnect
    PROVE  HostInv'
  <1>1. con' = con /\ net' = net /\ ntask.pc = "list"
    BY DEF ListToDisconnect, daemonVars
  <1>2. CASE ntask' = NFail(ntask)
    BY <1>1, <1>2, FailedPlan, HostStays
  <1>3. CASE ntask' = Removed(ntask)
    BY <1>1, <1>3, RemovedPlan, HostStays DEF Decided
  <1>4. CASE ntask' = [ntask EXCEPT !.pc = IF Members = {} THEN "delete" ELSE "disconnect", !.todo = Members]
    <2>1. /\ DOMAIN ntask' = TaskFields /\ ntask'.pc \in {"delete", "disconnect"} /\ ntask'.p = ntask.p
          /\ ntask'.want = ntask.want /\ ntask'.had = ntask.had
      BY <1>4 DEF HostInv, Planned, TaskFields
    <2>2. Owed(ntask') = Owed(ntask)
      BY <2>1 DEF Owed
    <2>3. Planned(ntask')
      BY <1>1, <2>1, <2>2 DEF HostInv, Planned, Decided
    <2>4. ConnectedInv'
      BY <2>1 DEF ConnectedInv
    <2> QED
      BY <1>1, <2>3, <2>4, HostStays
  <1> QED
    BY <1>2, <1>3, <1>4 DEF ListToDisconnect

(* One connection is ended, and no other.                                  *)
LEMMA OneDisconnected ==
    ASSUME HostInv, NEW x \in {"c", "o"}, Connected(x), Disconnect(x)
    PROVE  /\ ContainerInv' /\ NetInv'
           /\ \A y : y # x /\ Connected(y) => Connected(y)'
  <1>1. \A y : Connected(y) => y \in {"c", "o"}
    BY DEF Connected
  <1>2. CASE x = "o"
    <2>1. con' = con /\ net' = [net EXCEPT !.other = FALSE] /\ net # Nothing
      BY <1>2 DEF Disconnect, Connected
    <2>2. DOMAIN net' = {"id", "conf", "other"} /\ net'.id = net.id /\ net'.other = FALSE
      BY <2>1 DEF HostInv, NetInv
    <2>3. NetInv' /\ net' # Nothing
      <3>1. net'.other \in BOOLEAN
        BY <2>2
      <3> QED
        BY <2>2, <3>1 DEF NetInv, Nothing
    <2>4. ContainerInv'
      BY <2>1 DEF HostInv, ContainerInv
    <2>5. Connected("c") => Connected("c")'
      BY <2>1, <2>2, <2>3 DEF Connected
    <2> QED
      BY <1>1, <1>2, <2>3, <2>4, <2>5
  <1>3. CASE x = "c"
    <2>1. con' = Drop(con, "web") /\ net' = net /\ con # Nothing
      BY <1>3 DEF Disconnect, Connected
    <2>2. ContainerInv'
      BY <2>1 DEF HostInv, ContainerInv, ContainerFields, Drop
    <2>3. NetInv'
      BY <2>1 DEF HostInv, NetInv
    <2>4. Connected("o") => Connected("o")'
      BY <2>1 DEF Connected
    <2> QED
      BY <1>1, <1>3, <2>2, <2>3, <2>4
  <1> QED
    BY <1>2, <1>3

(* Only containers that exist are in the list of what is to be ended.      *)
LEMMA TaskDisconnects ==
    ASSUME HostInv, DisconnectContainer
    PROVE  HostInv'
  <1>1. ntask.pc \in {"disconnect", "missing"}
    BY DEF DisconnectContainer
  <1>2. PICK x \in ntask.todo :
          IF Connected(x)
          THEN /\ Disconnect(x) /\ ctask' = Disturbed
               /\ LET left == ntask.todo \ {x} IN
                  ntask' = [ntask EXCEPT !.todo = left, !.changed = TRUE,
                               !.pc = IF left # {} THEN @ ELSE IF @ = "missing" THEN "done" ELSE "delete"]
          ELSE ntask' = NFail(ntask) /\ UNCHANGED <<con, net, ctask>>
    BY DEF DisconnectContainer
  <1>3. CASE ~Connected(x)
    BY <1>1, <1>2, <1>3, FailedPlan, HostStays
  <1>4. CASE Connected(x)
    <2> DEFINE left == ntask.todo \ {x}
    <2>1. ntask' = [ntask EXCEPT !.todo = left, !.changed = TRUE,
                       !.pc = IF left # {} THEN @ ELSE IF @ = "missing" THEN "done" ELSE "delete"]
      BY <1>2, <1>4
    <2>2. x \in {"c", "o"}
      BY <1>4 DEF Connected
    <2>3. /\ ContainerInv' /\ NetInv'
          /\ \A y : y # x /\ Connected(y) => Connected(y)'
      BY <1>2, <1>4, <2>2, OneDisconnected
    <2> HIDE DEF left
    <2>4. /\ DOMAIN ntask' = TaskFields /\ ntask'.p = ntask.p /\ ntask'.todo = left
          /\ ntask'.want = ntask.want /\ ntask'.had = ntask.had /\ ntask'.lost = ntask.lost
      BY <2>1 DEF HostInv, Planned, TaskFields
    <2>5. /\ ntask.pc = "missing" => ntask'.pc \in {"missing", "done"}
          /\ ntask.pc = "disconnect" => ntask'.pc \in {"disconnect", "delete"}
      BY <2>1 DEF HostInv, Planned, TaskFields
    <2>6. Owed(ntask') = Owed(ntask) /\ (Keeps(ntask') <=> Keeps(ntask))
      BY <2>4 DEF Owed, Keeps
    <2>7. Keeps(ntask) /\ ntask.pc = "missing" => x \notin Owed(ntask) /\ left \cap Owed(ntask) = {}
      BY <1>2 DEF HostInv, Planned, left
    <2>8. Planned(ntask')
      BY <1>1, <2>4, <2>5, <2>6, <2>7 DEF HostInv, Planned, Decided
    <2>9. ConnectedInv'
      <3>1. SUFFICES ASSUME Keeps(ntask), ntask'.pc \in {"connect", "missing", "done"},
                            NEW y \in Owed(ntask), y \notin ntask.lost
                     PROVE  Connected(y)'
        BY <2>4, <2>6 DEF ConnectedInv, OwesNothing, Owed, Keeps
      <3>2. ntask.pc = "missing"
        BY <1>1, <2>5, <3>1
      <3>3. Connected(y) /\ y # x
        BY <2>7, <3>1, <3>2 DEF HostInv, ConnectedInv, OwesNothing
      <3> QED
        BY <2>3, <3>3
    <2> QED
      BY <2>3, <2>8, <2>9 DEF HostInv, Planned, Owed
  <1> QED
    BY <1>3, <1>4

(* The network is deleted, and made again.                                 *)
LEMMA TaskDeletes ==
    ASSUME HostInv, DeleteNetwork
    PROVE  HostInv'
  <1>1. con' = con /\ ntask.pc = "delete"
    BY DEF DeleteNetwork
  <1>2. CASE ntask' = NFail(ntask) /\ net' = net
    BY <1>1, <1>2, FailedPlan, HostStays
  <1>3. CASE ntask' = Removed(ntask) /\ net' = Nothing
    <2>1. Planned(ntask') /\ ConnectedInv'
      BY <1>1, <1>3, RemovedPlan DEF Decided
    <2> QED
      BY <1>1, <1>3, <2>1 DEF HostInv, ContainerInv, NetInv, Planned, Owed
  <1> QED
    BY <1>2, <1>3 DEF DeleteNetwork

(* The network is made again, with nobody connected.                       *)
LEMMA TaskCreates ==
    ASSUME HostInv, CreateNetwork
    PROVE  HostInv'
  <1>1. con' = con /\ ntask.pc = "create"
    BY DEF CreateNetwork
  <1>2. CASE ntask' = NFail(ntask) /\ net' = net
    BY <1>1, <1>2, FailedPlan, HostStays
  <1>3. CASE /\ net' = [id |-> ids + 1, conf |-> ntask.p.conf, other |-> FALSE]
             /\ ntask' = [ntask EXCEPT !.changed = TRUE, !.pc = "created"]
    <2>1. /\ DOMAIN ntask' = TaskFields /\ ntask'.pc = "created" /\ ntask'.p = ntask.p
          /\ ntask'.want = ntask.want /\ ntask'.had = ntask.had
      BY <1>3 DEF HostInv, Planned, TaskFields
    <2>2. Owed(ntask') = Owed(ntask)
      BY <2>1 DEF Owed
    <2>3. Planned(ntask')
      BY <1>1, <2>1, <2>2 DEF HostInv, Planned, Decided
    <2>4. ConnectedInv'
      BY <2>1 DEF ConnectedInv
    <2>5. NetInv'
      BY <1>3 DEF NetInv
    <2> QED
      BY <1>1, <2>3, <2>4, <2>5 DEF HostInv, ContainerInv, Planned, Owed
  <1> QED
    BY <1>2, <1>3 DEF CreateNetwork

(* The new network is read, and what it does not list is to be connected.  *)
LEMMA TaskReadsCreated ==
    ASSUME HostInv, ReadCreated
    PROVE  HostInv'
  <1> DEFINE u == [ntask EXCEPT !.ex = Snapshot]
  <1>1. con' = con /\ net' = net /\ ntask.pc = "created" /\ ntask' = connect_containers(u)
    BY DEF ReadCreated, daemonVars
  <1>2. /\ DOMAIN u = TaskFields /\ u.p = ntask.p /\ u.had = ntask.had /\ u.ex = Snapshot
        /\ u.want = ntask.want
    BY DEF HostInv, Planned, TaskFields
  <1>3. Owed(u) = Owed(ntask)
    BY <1>2 DEF Owed
  <1>4. WellRead(u)
    BY <1>1, <1>2, <1>3 DEF HostInv, Planned, WellRead, Decided
  <1>5. \A x \in Listed(u) : Connected(x)'
    <2>1. \A x \in Listed(u) : Connected(x)
      BY <1>2, SnapshotFacts DEF Listed
    <2> QED
      BY <1>1, <2>1 DEF Connected
  <1> HIDE DEF u
  <1>6. /\ GoesOn(u, ntask')
        /\ ~u.p.check => \A x \in Owed(u) : x \in Listed(u) \/ (ntask'.pc = "connect" /\ x \in ntask'.todo)
    BY <1>1, <1>4, ConnectFacts
  <1>7. Owed(ntask') = Owed(u) /\ ntask'.p = u.p
    BY <1>6 DEF GoesOn, Owed
  <1>8. ConnectedInv'
    BY <1>5, <1>6, <1>7 DEF ConnectedInv, Keeps, OwesNothing, Owed
  <1> QED
    BY <1>1, <1>6, <1>8, HostStays DEF GoesOn

(* One connection is made, and none is ended.                              *)
LEMMA OneConnected ==
    ASSUME HostInv, NEW x \in {"c", "o"}, net # Nothing, ~Connected(x),
           x = "c" => con # Nothing /\ con.st # "removing" /\ "web" \notin DOMAIN con.ends,
           IF x = "o" THEN con' = con /\ net' = [net EXCEPT !.other = TRUE]
                      ELSE con' = Attach(con, "web", Endpoint(net.id, 0)) /\ net' = net
    PROVE  /\ ContainerInv' /\ NetInv' /\ Connected(x)'
           /\ \A y : Connected(y) => Connected(y)'
  <1>1. \A y : Connected(y) => y \in {"c", "o"}
    BY DEF Connected
  <1>2. CASE x = "o"
    <2>1. con' = con /\ net' = [net EXCEPT !.other = TRUE]
      BY <1>2
    <2>2. DOMAIN net' = {"id", "conf", "other"} /\ net'.id = net.id /\ net'.other = TRUE
      BY <2>1 DEF HostInv, NetInv
    <2>3. NetInv' /\ net' # Nothing
      BY <2>2 DEF NetInv, Nothing
    <2>4. ContainerInv'
      BY <2>1 DEF HostInv, ContainerInv
    <2>5. Connected("c") => Connected("c")'
      BY <2>1, <2>2, <2>3 DEF Connected
    <2>6. Connected("o")'
      BY <2>2, <2>3 DEF Connected
    <2> QED
      BY <1>1, <1>2, <2>3, <2>4, <2>5, <2>6
  <1>3. CASE x = "c"
    <2>1. con' = Attach(con, "web", Endpoint(net.id, 0)) /\ net' = net /\ con # Nothing /\ con.st # "removing"
      BY <1>3
    <2>2. DOMAIN con' = ContainerFields /\ con'.st = con.st
      BY <2>1 DEF HostInv, ContainerInv, ContainerFields, Attach
    <2>3. "web" \in DOMAIN con'.ends /\ con'.ends["web"] = Endpoint(net.id, 0)
      BY <2>1 DEF HostInv, ContainerInv, ContainerFields, Attach
    <2>4. ContainerInv' /\ con' # Nothing
      BY <2>1, <2>2 DEF ContainerInv, ContainerFields, Nothing
    <2>5. NetInv'
      BY <2>1 DEF HostInv, NetInv
    <2>6. Connected("c")'
      BY <2>1, <2>3, <2>4 DEF Connected, Endpoint
    <2>7. Connected("o") => Connected("o")'
      BY <2>1 DEF Connected
    <2> QED
      BY <1>1, <1>3, <2>4, <2>5, <2>6, <2>7
  <1> QED
    BY <1>2, <1>3

(* A container is connected, and the list gets shorter.                    *)
LEMMA TaskConnects ==
    ASSUME HostInv, ConnectContainer
    PROVE  HostInv'
  <1>1. ntask.pc = "connect"
    BY DEF ConnectContainer
  <1>2. PICK x \in ntask.todo :
          IF net # Nothing /\ ~Connected(x) /\ (x = "c" => con # Nothing /\ con.st # "removing" /\ "web" \notin DOMAIN con.ends)
          THEN /\ IF x = "o" THEN con' = con /\ net' = [net EXCEPT !.other = TRUE]
                             ELSE con' = Attach(con, "web", Endpoint(net.id, 0)) /\ net' = net
               /\ ctask' = Disturbed
               /\ LET u == [ntask EXCEPT !.todo = @ \ {x}, !.changed = TRUE] IN
                  ntask' = IF u.todo # {} THEN u ELSE disconnect_missing(u)
          ELSE ntask' = NFail(ntask) /\ UNCHANGED <<con, net, ctask>>
    BY DEF ConnectContainer
  <1>3. CASE ntask' = NFail(ntask) /\ con' = con /\ net' = net
    BY <1>1, <1>3, FailedPlan, HostStays
  <1>4. CASE net # Nothing /\ ~Connected(x) /\ (x = "c" => con # Nothing /\ con.st # "removing" /\ "web" \notin DOMAIN con.ends)
    <2> DEFINE u == [ntask EXCEPT !.todo = @ \ {x}, !.changed = TRUE]
    <2>1. x \in {"c", "o"}
      BY <1>1 DEF HostInv, Planned, Decided
    <2>2. /\ ContainerInv' /\ NetInv' /\ Connected(x)'
          /\ \A y : Connected(y) => Connected(y)'
      BY <1>2, <1>4, <2>1, OneConnected
    <2>3. ntask' = IF u.todo # {} THEN u ELSE disconnect_missing(u)
      BY <1>2, <1>4
    <2>4. /\ DOMAIN u = TaskFields /\ u.pc = "connect" /\ u.p = ntask.p /\ u.todo = ntask.todo \ {x}
          /\ u.want = ntask.want /\ u.had = ntask.had /\ u.lost = ntask.lost
      BY <1>1 DEF HostInv, Planned, TaskFields
    <2> HIDE DEF u
    <2>5. Owed(u) = Owed(ntask) /\ (Keeps(u) <=> Keeps(ntask))
      BY <2>4 DEF Owed, Keeps
    <2>6. WellRead(u) /\ Planned(u)
      BY <1>1, <2>4, <2>5 DEF HostInv, Planned, WellRead, Decided
    <2>7. /\ GoesOn(u, ntask')
          /\ \/ u.todo # {} /\ ntask' = u
             \/ u.todo = {} /\ ntask'.pc \in {"done", "missing"}
      <3>1. CASE u.todo # {}
        BY <2>3, <2>6, <3>1 DEF GoesOn
      <3>2. CASE u.todo = {}
        BY <2>3, <2>6, <3>2, MissingFacts
      <3> QED
        BY <3>1, <3>2
    <2>8. Owed(ntask') = Owed(u) /\ ntask'.p = u.p /\ ntask'.lost = ntask.lost
      BY <2>4, <2>7 DEF GoesOn, Owed
    <2>9. ConnectedInv'
      <3>1. SUFFICES ASSUME Keeps(ntask), NEW y \in Owed(ntask), y \notin ntask.lost
                     PROVE  OwesNothing(ntask, y)'
        BY <2>4, <2>5, <2>8 DEF ConnectedInv, Owed, Keeps
      <3>2. Connected(y) \/ y \in ntask.todo
        BY <1>1, <3>1 DEF HostInv, ConnectedInv, OwesNothing
      <3>3. Connected(y)' \/ y \in u.todo
        BY <2>2, <2>4, <3>2
      <3> QED
        BY <2>4, <2>7, <3>3 DEF OwesNothing
    <2> QED
      BY <2>2, <2>7, <2>9 DEF HostInv, Planned, Owed, GoesOn
  <1> QED
    BY <1>2, <1>3, <1>4

(* The task ends.                                                          *)
LEMMA TaskExits ==
    ASSUME HostInv, TasksExit
    PROVE  HostInv'
  <1>1. con' = con /\ net' = net
    BY DEF TasksExit, daemonVars
  <1>2. CASE ntask' = ntask
    BY <1>1, <1>2 DEF HostInv, ContainerInv, NetInv, Planned, Owed, Keeps, ConnectedInv, OwesNothing, Connected
  <1>3. CASE ntask' = [NoNetworkTask EXCEPT !.pc = "over"]
    <2>1. DOMAIN ntask' = TaskFields /\ ntask'.pc = "over"
      BY <1>3 DEF NoNetworkTask, TaskFields
    <2>2. Planned(ntask') /\ ConnectedInv'
      BY <2>1 DEF Planned, ConnectedInv, Decided
    <2> QED
      BY <1>1, <2>2, HostStays
  <1> QED
    BY <1>2, <1>3 DEF TasksExit

----------------------------------------------------------------------------
(* The theorem.                                                            *)

(* The invariant holds at first.                                           *)
LEMMA HostStarts ==
    ASSUME HostInit
    PROVE  HostInv
  <1>1. ContainerInv
    BY HostAssumption DEF HostInit, ContainerInv
  <1>2. NetInv
    <2>1. net = Nothing \/ net = [id |-> 1, conf |-> 1, other |-> TRUE]
      BY DEF HostInit
    <2>2. CASE net = [id |-> 1, conf |-> 1, other |-> TRUE]
      BY <2>2 DEF NetInv
    <2> QED
      BY <2>1, <2>2 DEF NetInv
  <1>3. DOMAIN ntask = TaskFields /\ ntask.pc = "idle"
    BY DEF HostInit, NoNetworkTask, TaskFields
  <1>4. Planned(ntask) /\ ConnectedInv
    BY <1>3 DEF Planned, ConnectedInv, Decided
  <1> QED
    BY <1>1, <1>2, <1>4 DEF HostInv

(* Every step keeps it.                                                    *)
LEMMA HostSteps ==
    ASSUME HostInv, [HostNext]_hostVars
    PROVE  HostInv'
  <1>1. CASE Disturbs
    BY <1>1, NotedKeeps DEF Disturbs, HostInv, NetInv
  <1>2. CASE OtherConnects
    BY <1>2, OthersConnect, NotedKeeps DEF HostInv, ContainerInv
  <1>3. CASE ContainerTask
    BY <1>1, <1>3, TaskReads, ContainerKeepsEnds, ContainerLosesEnds, ContainerIsNew, ContainerJoins
       DEF ContainerTask
  <1>4. CASE NetworkTask
    BY <1>4, TaskStarts, TaskReadsNetwork, TaskLists, TaskDisconnects, TaskDeletes, TaskCreates,
       TaskReadsCreated, TaskConnects
       DEF NetworkTask
  <1>5. CASE TasksExit
    BY <1>5, TaskExits
  <1>6. CASE RemovalCompletes \/ HealthCheck \/ ContainerExits \/ OtherRemoves \/ OtherStarts
    BY <1>1, <1>6, DaemonActs, OthersDisturb
  <1>7. CASE UNCHANGED hostVars
    BY <1>7 DEF hostVars, daemonVars, HostInv, ContainerInv, NetInv, Planned, Owed, Keeps, ConnectedInv,
                OwesNothing, Connected
  <1> QED
    BY <1>2, <1>3, <1>4, <1>5, <1>6, <1>7 DEF HostNext

(* A docker_network task that ends well, although it may have removed the  *)
(* network and created it again, has every container of its list           *)
(* connected, unless somebody else has disconnected it meanwhile.          *)
THEOREM ConnectionsAreKept == HostSpec => []ConnectionsSurvive
  <1>1. HostInit => HostInv
    BY HostStarts
  <1>2. HostInv /\ [HostNext]_hostVars => HostInv'
    BY HostSteps
  <1>3. HostInv => ConnectionsSurvive
    BY DEF HostInv, ConnectedInv, ConnectionsSurvive, OwesNothing, Owed, Keeps
  <1> QED
    BY <1>1, <1>2, <1>3, PTL DEF HostSpec

----------------------------------------------------------------------------
(* The results of a docker_container task.                                 *)

(* The container c is as b was, but that a removal may have come to its    *)
(* end, or a health check.                                                 *)
LikeBut(c, b) == \A f \in ContainerFields \ {"hl"} : c[f] = b[f]

Alike(c, b) ==
    \/ c = b
    \/ /\ b # Nothing /\ (b.st = "removing" \/ b.hl = "starting")
       /\ IF c = Nothing THEN b.st = "removing" ELSE LikeBut(c, b)

(* What the meaning of the parameters comes down to, step by step.         *)
ImageOk(t, l) == l # 0 /\ (t.p.pull = "always" /\ ~t.p.check => l = remote)

BaseOk(t, c, l) ==
    /\ c # Nothing /\ c.st # "removing"
    /\ t.p.conf \in {0, c.conf} /\ ModeOf(t.p) \in {"unset", c.mode}
    /\ ImageOk(t, l) /\ c.img = l

LimitsOk(t, c) == t.p.check \/ t.p.lim \in {0, c.lim}

JoinedOk(p, c) ==
    p.net = "web" /\ p.cmp # "ignore" => "web" \in DOMAIN c.ends /\ p.alias \in {0, c.ends["web"].alias}

NetsOk(p, c) ==
    /\ JoinedOk(p, c)
    /\ p.net = "web" /\ p.cmp = "strict" => DOMAIN c.ends = {"web"}
    /\ p.net = "empty" /\ p.cmp = "strict" => DOMAIN c.ends = {}

LiveOk(p, c) == (Wants(p) => Running(c)) /\ (p.state = "stopped" => ~Running(c))

PausedOk(p, c) == Wants(p) => p.paused = "unset" \/ (Paused(c) <=> p.paused = "yes")

(* What a check leaves out, and what there is to change.                   *)
Asked(p) == IF p.check THEN [p EXCEPT !.lim = 0] ELSE p

Due(t) ==
    \/ ~Settled(t.before.con, t.before.local, IF t.p.check THEN t.before.local ELSE remote, Asked(t.p))
    \/ Repeats(t.p)

(* The answer of a task that ends well.                                    *)
Final(t, c, l) ==
    /\ t.changed <=> Due(t)
    /\ t.p.check => l = t.before.local /\ Alike(c, t.before.con)
    /\ ~t.p.check => Settled(c, l, remote, t.p) \/ (t.p.state = "absent" /\ c # Nothing /\ c.st = "removing")

ContainerTaskFields ==
    {"pc", "p", "k", "img", "nid", "created", "changed", "next", "todo", "calm", "before"}

Typed(t) ==
    /\ DOMAIN t = ContainerTaskFields /\ t.p \in HostParam
    /\ t.created \in BOOLEAN /\ t.changed \in BOOLEAN

(* A new container has not been started yet.                               *)
Young(t, c) == t.created /\ ~t.p.check => c.st = "created"

(* Before anything is decided, and once it is that the container goes.     *)
Fresh(t) == ~t.changed /\ ~t.created /\ t.next = ""

Untouched(t, c, l) ==
    /\ Fresh(t) /\ t.p.state # "absent"
    /\ t.k = t.before.con /\ Alike(c, t.k) /\ l = t.before.local

Replaced(t, l) ==
    /\ ~t.p.check /\ t.p.state # "absent"
    /\ t.created /\ t.changed /\ Due(t) /\ ImageOk(t, l) /\ t.next = ""

Leaving(t, c) ==
    /\ ~t.p.check /\ t.p.state = "absent" /\ t.next = ""
    /\ t.before.con # Nothing /\ t.k # Nothing /\ (c # Nothing => c.id = t.k.id)

(* Once it is decided that the container stays or is new.                  *)
Working(t, c, l) == ~t.p.check /\ t.p.state # "absent" /\ t.next # "clean" /\ Due(t) /\ BaseOk(t, c, l)

Limited(t, c, l) == Working(t, c, l) /\ LimitsOk(t, c)

Joining(t, c, l) ==
    /\ Limited(t, c, l) /\ Young(t, c) /\ t.changed
    /\ t.todo = has_extra_networks(t.p, c)

Joined(t, c, l) == Limited(t, c, l) /\ NetsOk(t.p, c)

(* What a task that nobody disturbs knows, request by request.             *)
PcInv(t, c, l) ==
    /\ Typed(t)
    /\ t.pc \in {"collect", "inspect", "image", "pull", "stop", "remove", "gone", "create", "reget", "update",
                 "disconnect", "connect", "purge", "start", "restart", "wait", "pause", "healthy", "failed"}
    /\ t.pc \in {"collect", "inspect"} => Fresh(t)
    /\ t.pc = "image" => Untouched(t, c, l)
    /\ t.pc = "pull" => Untouched(t, c, l) /\ ~t.p.check /\ (l = 0 \/ t.p.pull = "always")
    /\ t.pc = "stop" =>
          \/ Leaving(t, c) \/ Replaced(t, l)
          \/ Joined(t, c, l) /\ ~t.created /\ t.p.state = "stopped"
    /\ t.pc = "remove" => Leaving(t, c) \/ Replaced(t, l)
    /\ t.pc \in {"gone", "create"} => Replaced(t, l)
    /\ t.pc = "update" => Working(t, c, l) /\ Young(t, c)
    /\ t.pc \in {"disconnect", "connect"} => Joining(t, c, l) /\ t.p.net = "web"
    /\ t.pc = "purge" => Joining(t, c, l) /\ JoinedOk(t.p, c)
    /\ t.pc \in {"start", "restart"} => Joined(t, c, l) /\ Wants(t.p)
    /\ t.pc = "wait" => c # Nothing /\ t.k # Nothing /\ c.id = t.k.id /\ Running(c)
    /\ t.pc = "pause" => Joined(t, c, l) /\ LiveOk(t.p, c) /\ Wants(t.p) /\ t.p.paused # "unset"
    /\ t.pc = "healthy" => Settled(c, l, remote, t.p) /\ ~t.p.check /\ t.p.state # "absent" /\ (t.changed <=> Due(t))
    /\ t.pc = "reget" =>
          /\ t.changed /\ Due(t) /\ t.p.state # "absent"
          /\ t.next \in {"limits", "networks", "state", "pause", "finish"}
          /\ t.p.check => Alike(c, t.before.con) /\ l = t.before.local
          /\ ~t.p.check =>
                /\ BaseOk(t, c, l) /\ t.k # Nothing /\ c.id = t.k.id
                /\ t.next # "limits" => LimitsOk(t, c)
                /\ t.next \in {"limits", "networks", "state"} => Young(t, c)
                /\ t.next \in {"state", "pause", "finish"} => NetsOk(t.p, c)
                /\ t.next \in {"pause", "finish"} => LiveOk(t.p, c)
                /\ t.next = "finish" => PausedOk(t.p, c)

Good(t, c, l) == IF t.pc = "done" THEN Final(t, c, l) ELSE PcInv(t, c, l)

----------------------------------------------------------------------------
(* What the task decides.                                                  *)

(* The account of what has been found so far: what is a change was due,    *)
(* and without one all is as it was.                                       *)
Account(t, c, l) ==
    /\ Typed(t) /\ t.p.state # "absent" /\ t.next # "clean"
    /\ t.changed => Due(t)
    /\ t.created => t.changed
    /\ ~t.changed => Alike(c, t.before.con) /\ l = t.before.local /\ ~t.p.recreate
    /\ t.p.check => Alike(c, t.before.con) /\ l = t.before.local

(* A check that has found a change has nothing more to find out.           *)
Foregone(t) == t.p.check /\ t.changed

Sees(t, c) == t.k # Nothing /\ c # Nothing /\ LikeBut(t.k, c)

(* Settled is the conjunction of the steps.                                *)
LEMMA SettledParts ==
    ASSUME NEW t, NEW c, NEW l, t.p \in HostParam, t.p.state # "absent"
    PROVE  /\ ~t.p.check =>
                (Settled(c, l, remote, t.p) <=>
                   BaseOk(t, c, l) /\ LimitsOk(t, c) /\ NetsOk(t.p, c) /\ LiveOk(t.p, c) /\ PausedOk(t.p, c))
           /\ t.p.check =>
                (Settled(c, l, l, Asked(t.p)) <=>
                   BaseOk(t, c, l) /\ LimitsOk(t, c) /\ NetsOk(t.p, c) /\ LiveOk(t.p, c) /\ PausedOk(t.p, c))
  <1>1. ASSUME ~t.p.check
        PROVE  Settled(c, l, remote, t.p) <=>
                   BaseOk(t, c, l) /\ LimitsOk(t, c) /\ NetsOk(t.p, c) /\ LiveOk(t.p, c) /\ PausedOk(t.p, c)
    BY <1>1 DEF Settled, BaseOk, ImageOk, LimitsOk, NetsOk, JoinedOk, LiveOk, PausedOk, Paused
  <1>2. ASSUME t.p.check
        PROVE  Settled(c, l, l, Asked(t.p)) <=>
                   BaseOk(t, c, l) /\ LimitsOk(t, c) /\ NetsOk(t.p, c) /\ LiveOk(t.p, c) /\ PausedOk(t.p, c)
    <2> DEFINE q == Asked(t.p)
    <2>1. /\ q.state = t.p.state /\ q.conf = t.p.conf /\ q.lim = 0 /\ q.net = t.p.net /\ q.alias = t.p.alias
          /\ q.cli = t.p.cli /\ q.cmp = t.p.cmp /\ q.pull = t.p.pull /\ q.paused = t.p.paused
      BY <1>2 DEF Asked, HostParam
    <2>2. ModeOf(q) = ModeOf(t.p) /\ (Wants(q) <=> Wants(t.p))
      BY <2>1 DEF ModeOf, Wants
    <2> HIDE DEF q
    <2>3. Settled(c, l, l, q) <=>
             BaseOk(t, c, l) /\ LimitsOk(t, c) /\ NetsOk(t.p, c) /\ LiveOk(t.p, c) /\ PausedOk(t.p, c)
      BY <1>2, <2>1, <2>2 DEF Settled, BaseOk, ImageOk, LimitsOk, NetsOk, JoinedOk, LiveOk, PausedOk, Paused
    <2> QED
      BY <2>3 DEF q
  <1> QED
    BY <1>1, <1>2

(* None of the steps depends on the health of the container.               *)
LEMMA LikeParts ==
    ASSUME NEW t, NEW c, NEW d, NEW l, c # Nothing, d # Nothing, LikeBut(c, d)
    PROVE  /\ BaseOk(t, c, l) <=> BaseOk(t, d, l)
           /\ LimitsOk(t, c) <=> LimitsOk(t, d)
           /\ NetsOk(t.p, c) <=> NetsOk(t.p, d)
           /\ JoinedOk(t.p, c) <=> JoinedOk(t.p, d)
           /\ LiveOk(t.p, c) <=> LiveOk(t.p, d)
           /\ PausedOk(t.p, c) <=> PausedOk(t.p, d)
           /\ Running(c) <=> Running(d)
           /\ Paused(c) <=> Paused(d)
           /\ has_extra_networks(t.p, c) = has_extra_networks(t.p, d)
           /\ c.id = d.id /\ c.st = d.st /\ c.lim = d.lim /\ c.ends = d.ends
  <1>1. /\ c.id = d.id /\ c.st = d.st /\ c.lim = d.lim /\ c.ends = d.ends
        /\ c.conf = d.conf /\ c.img = d.img /\ c.mode = d.mode
    BY DEF LikeBut, ContainerFields
  <1>2. (Running(c) <=> Running(d)) /\ (Paused(c) <=> Paused(d))
    BY <1>1 DEF Running, Paused
  <1>3. BaseOk(t, c, l) <=> BaseOk(t, d, l)
    BY <1>1 DEF BaseOk
  <1>4. LimitsOk(t, c) <=> LimitsOk(t, d)
    BY <1>1 DEF LimitsOk
  <1>5. (NetsOk(t.p, c) <=> NetsOk(t.p, d)) /\ (JoinedOk(t.p, c) <=> JoinedOk(t.p, d))
    BY <1>1 DEF NetsOk, JoinedOk
  <1>6. (LiveOk(t.p, c) <=> LiveOk(t.p, d)) /\ (PausedOk(t.p, c) <=> PausedOk(t.p, d))
    BY <1>2 DEF LiveOk, PausedOk
  <1>7. has_extra_networks(t.p, c) = has_extra_networks(t.p, d)
    BY <1>1 DEF has_extra_networks
  <1> QED
    BY <1>1, <1>2, <1>3, <1>4, <1>5, <1>6, <1>7

(* If no change was found, what is missing in the container was missing    *)
(* from the beginning.                                                     *)
LEMMA MissingIsDue ==
    ASSUME NEW t, NEW c, NEW l, Account(t, c, l),
           ~(BaseOk(t, c, l) /\ LimitsOk(t, c) /\ NetsOk(t.p, c) /\ LiveOk(t.p, c) /\ PausedOk(t.p, c))
    PROVE  Due(t)
  <1> DEFINE b == t.before.con
             r == IF t.p.check THEN l ELSE remote
  <1>1. CASE t.changed
    BY <1>1 DEF Account
  <1>2. CASE ~t.changed
    <2>1. Alike(c, b) /\ l = t.before.local /\ t.p \in HostParam /\ t.p.state # "absent"
      BY <1>2 DEF Account, Typed
    <2>2. ~(BaseOk(t, b, l) /\ LimitsOk(t, b) /\ NetsOk(t.p, b) /\ LiveOk(t.p, b) /\ PausedOk(t.p, b))
      <3>1. CASE c = b
        BY <3>1
      <3>2. CASE c = Nothing /\ b # Nothing /\ b.st = "removing"
        BY <3>2 DEF BaseOk
      <3>3. CASE c # Nothing /\ b # Nothing /\ LikeBut(c, b)
        BY <3>3, LikeParts
      <3> QED
        BY <2>1, <3>1, <3>2, <3>3 DEF Alike
    <2>3. ~Settled(b, l, r, Asked(t.p))
      <3>1. CASE t.p.check
        BY <2>1, <2>2, <3>1, SettledParts
      <3>2. CASE ~t.p.check
        BY <2>1, <2>2, <3>2, SettledParts DEF Asked
      <3> QED
        BY <3>1, <3>2
    <2> QED
      BY <2>1, <2>3 DEF Due
  <1> QED
    BY <1>1, <1>2 DEF Account, Typed

(* If nothing is missing in the end, and nothing was changed, nothing was. *)
LEMMA NothingIsDue ==
    ASSUME NEW t, NEW c, NEW l, Account(t, c, l), ~t.changed, ~(Wants(t.p) /\ t.p.restart),
           BaseOk(t, c, l), LimitsOk(t, c), NetsOk(t.p, c), LiveOk(t.p, c), PausedOk(t.p, c)
    PROVE  ~Due(t)
  <1> DEFINE b == t.before.con
             r == IF t.p.check THEN l ELSE remote
  <1>1. Alike(c, b) /\ l = t.before.local /\ t.p \in HostParam /\ t.p.state # "absent" /\ ~t.p.recreate
    BY DEF Account, Typed
  <1>2. BaseOk(t, b, l) /\ LimitsOk(t, b) /\ NetsOk(t.p, b) /\ LiveOk(t.p, b) /\ PausedOk(t.p, b)
    <2>1. CASE c = b
      BY <2>1
    <2>2. CASE c # Nothing /\ b # Nothing /\ LikeBut(c, b)
      BY <2>2, LikeParts
    <2> QED
      BY <1>1, <2>1, <2>2 DEF Alike, BaseOk
  <1>3. Settled(b, l, r, Asked(t.p))
    BY <1>1, <1>2, SettledParts DEF Asked
  <1>4. ~Repeats(t.p)
    BY <1>1 DEF Repeats
  <1> QED
    BY <1>1, <1>3, <1>4 DEF Due

(* What a decision may change of a task.                                   *)
SameWork(u, t) ==
    /\ Typed(u) /\ u.p = t.p /\ u.before = t.before /\ u.created = t.created /\ u.k = t.k

(* What was due stays due.                                               *)
LEMMA SameDue ==
    ASSUME NEW u, NEW t, u.p = t.p, u.before = t.before
    PROVE  Due(u) <=> Due(t)
  BY DEF Due

(* The end, if all that was asked for is so.                               *)
LEMMA FinishFacts ==
    ASSUME NEW t, NEW c, NEW l, Account(t, c, l),
           \/ Foregone(t)
           \/ /\ ~t.changed => ~(Wants(t.p) /\ t.p.restart)
              /\ BaseOk(t, c, l) /\ LimitsOk(t, c) /\ NetsOk(t.p, c) /\ LiveOk(t.p, c) /\ PausedOk(t.p, c)
    PROVE  Good(Finish(t), c, l)
  <1> DEFINE u == Finish(t)
  <1>1. u = [t EXCEPT !.pc = IF t.p.state = "healthy" /\ ~t.p.check THEN "healthy" ELSE "done"]
    BY DEF Finish
  <1> HIDE DEF u
  <1>2. /\ SameWork(u, t) /\ u.changed = t.changed
        /\ u.pc = "done" \/ (u.pc = "healthy" /\ ~t.p.check)
    BY <1>1 DEF Account, Typed, SameWork, ContainerTaskFields
  <1>3. Due(u) <=> Due(t)
    BY <1>2, SameDue DEF SameWork
  <1>4. t.p \in HostParam /\ t.p.state # "absent" /\ (t.p.check => Alike(c, t.before.con) /\ l = t.before.local)
    BY DEF Account, Typed
  <1>5. CASE Foregone(t)
    <2>1. Due(u) /\ u.changed /\ u.pc = "done"
      BY <1>2, <1>3, <1>5 DEF Foregone, Account
    <2>2. Final(u, c, l)
      BY <1>2, <1>4, <1>5, <2>1 DEF Final, SameWork, Foregone
    <2> QED
      BY <2>1, <2>2 DEF Good, u
  <1>6. CASE /\ ~t.changed => ~(Wants(t.p) /\ t.p.restart)
             /\ BaseOk(t, c, l) /\ LimitsOk(t, c) /\ NetsOk(t.p, c) /\ LiveOk(t.p, c) /\ PausedOk(t.p, c)
    <2>1. t.changed <=> Due(t)
      BY <1>6, NothingIsDue DEF Account
    <2>2. ~t.p.check => Settled(c, l, remote, t.p)
      BY <1>4, <1>6, SettledParts
    <2>3. u.pc = "done" => Final(u, c, l)
      BY <1>2, <1>3, <1>4, <2>1, <2>2 DEF Final, SameWork
    <2>4. u.pc = "healthy" => PcInv(u, c, l)
      BY <1>2, <1>3, <1>4, <2>1, <2>2 DEF PcInv, SameWork
    <2> QED
      BY <1>2, <2>3, <2>4 DEF Good, u
  <1> QED
    BY <1>5, <1>6

(* A change is claimed, and was due.                                       *)
LEMMA ClaimFacts ==
    ASSUME NEW t, NEW c, NEW l, Account(t, c, l), Due(t), t.p.check
    PROVE  LET u == [t EXCEPT !.changed = TRUE]
           IN  Account(u, c, l) /\ Foregone(u) /\ u.k = t.k /\ SameWork(u, t)
  <1> DEFINE u == [t EXCEPT !.changed = TRUE]
  <1>1. /\ SameWork(u, t) /\ u.changed = TRUE /\ u.next = t.next
    BY DEF Account, Typed, SameWork, ContainerTaskFields
  <1> HIDE DEF u
  <1>2. Due(u)
    BY <1>1, SameDue DEF SameWork
  <1>3. Account(u, c, l) /\ Foregone(u)
    BY <1>1, <1>2 DEF Account, SameWork, Foregone
  <1> QED
    BY <1>1, <1>3 DEF SameWork, u

(* What is to be paused or not.                                            *)
LEMMA PauseFacts ==
    ASSUME NEW t, NEW c, NEW l, Account(t, c, l),
           \/ Foregone(t)
           \/ /\ ~t.changed => ~(Wants(t.p) /\ t.p.restart)
              /\ BaseOk(t, c, l) /\ LimitsOk(t, c) /\ NetsOk(t.p, c) /\ LiveOk(t.p, c) /\ Sees(t, c)
    PROVE  Good(PauseIfAsked(t), c, l)
  <1> DEFINE asks == Wants(t.p) /\ t.p.paused # "unset" /\ Paused(t.k) # (t.p.paused = "yes")
             u == [t EXCEPT !.changed = TRUE]
             v == [t EXCEPT !.pc = "pause"]
  <1>1. PauseIfAsked(t) = IF asks THEN IF t.p.check THEN Finish(u) ELSE v ELSE Finish(t)
    BY DEF PauseIfAsked
  <1>2. CASE Foregone(t)
    <2>1. Good(Finish(t), c, l)
      BY <1>2, FinishFacts
    <2>2. t.p.check /\ Due(t)
      BY <1>2 DEF Foregone, Account
    <2>3. Account(u, c, l) /\ Foregone(u)
      BY <2>2, ClaimFacts
    <2>4. Good(Finish(u), c, l)
      BY <2>3, FinishFacts
    <2> QED
      BY <1>1, <2>1, <2>2, <2>4
  <1>3. CASE /\ ~t.changed => ~(Wants(t.p) /\ t.p.restart)
             /\ BaseOk(t, c, l) /\ LimitsOk(t, c) /\ NetsOk(t.p, c) /\ LiveOk(t.p, c) /\ Sees(t, c)
    <2>1. Paused(t.k) <=> Paused(c)
      BY <1>3, LikeParts DEF Sees
    <2>2. CASE asks
      <3>1. ~PausedOk(t.p, c)
        BY <2>1, <2>2 DEF PausedOk, Paused
      <3>2. Due(t)
        BY <3>1, MissingIsDue
      <3>3. CASE t.p.check
        <4>1. Account(u, c, l) /\ Foregone(u)
          BY <3>2, <3>3, ClaimFacts
        <4> QED
          BY <1>1, <2>2, <3>3, <4>1, FinishFacts
      <3>4. CASE ~t.p.check
        <4>1. /\ SameWork(v, t) /\ v.pc = "pause" /\ v.next = t.next
          BY DEF Account, Typed, SameWork, ContainerTaskFields
        <4> HIDE DEF v
        <4>2. Due(v)
          BY <3>2, <4>1, SameDue DEF SameWork
        <4>3. BaseOk(v, c, l) /\ LimitsOk(v, c)
          BY <1>3, <4>1 DEF BaseOk, ImageOk, LimitsOk, SameWork
        <4>4. Joined(v, c, l)
          BY <1>3, <3>4, <4>1, <4>2, <4>3 DEF Joined, Limited, Working, SameWork, Account
        <4>5. PcInv(v, c, l)
          BY <1>3, <2>2, <4>1, <4>4 DEF PcInv, SameWork
        <4> QED
          BY <1>1, <2>2, <3>4, <4>1, <4>5 DEF Good
      <3> QED
        BY <3>3, <3>4
    <2>3. CASE ~asks
      <3>1. PausedOk(t.p, c)
        BY <2>1, <2>3 DEF PausedOk, Paused
      <3> QED
        BY <1>1, <1>3, <2>3, <3>1, FinishFacts
    <2> QED
      BY <2>2, <2>3
  <1> QED
    BY <1>2, <1>3

(* What is to be started, restarted or stopped.                            *)
LEMMA StartFacts ==
    ASSUME NEW t, NEW c, NEW l, Account(t, c, l),
           \/ Foregone(t)
           \/ /\ BaseOk(t, c, l) /\ LimitsOk(t, c) /\ NetsOk(t.p, c) /\ Sees(t, c) /\ Young(t, c)
    PROVE  Good(StartOrStop(t), c, l)
  <1> DEFINE act == IF Wants(t.p) THEN IF ~Running(t.k) THEN "start" ELSE IF t.p.restart THEN "restart" ELSE "no"
                    ELSE IF t.p.state = "stopped" /\ Running(t.k) THEN "stop" ELSE "no"
             u == [t EXCEPT !.changed = TRUE]
             v == Reget(u, "pause")
             w == [t EXCEPT !.pc = act]
  <1>1. StartOrStop(t) = IF act = "no" THEN PauseIfAsked(t) ELSE IF t.p.check THEN v ELSE w
    BY DEF StartOrStop
  <1>2. act = "no" \/ act \in {"start", "restart", "stop"}
    OBVIOUS
  <1>3. ASSUME Account(u, c, l), Foregone(u)
        PROVE  Good(v, c, l)
    <2>1. SameWork(v, u) /\ v.pc = "reget" /\ v.changed = u.changed /\ v.next = "pause"
      BY <1>3 DEF Account, Typed, SameWork, ContainerTaskFields, Reget
    <2> HIDE DEF u, v
    <2>2. Due(v)
      BY <1>3, <2>1, SameDue DEF SameWork, Account, Foregone
    <2>3. PcInv(v, c, l)
      BY <1>3, <2>1, <2>2 DEF PcInv, SameWork, Account, Foregone
    <2> QED
      BY <2>1, <2>3 DEF Good
  <1>4. CASE Foregone(t)
    <2>1. Good(PauseIfAsked(t), c, l)
      BY <1>4, PauseFacts
    <2>2. t.p.check /\ Due(t)
      BY <1>4 DEF Foregone, Account
    <2>3. Account(u, c, l) /\ Foregone(u)
      BY <2>2, ClaimFacts
    <2> QED
      BY <1>1, <1>3, <2>1, <2>2, <2>3
  <1>5. CASE BaseOk(t, c, l) /\ LimitsOk(t, c) /\ NetsOk(t.p, c) /\ Sees(t, c) /\ Young(t, c)
    <2>1. (Running(t.k) <=> Running(c)) /\ t.k.st = c.st
      BY <1>5, LikeParts DEF Sees
    <2>2. CASE act = "no"
      <3>1. LiveOk(t.p, c) /\ ~(Wants(t.p) /\ t.p.restart)
        <4>1. CASE Wants(t.p)
          BY <2>1, <2>2, <4>1 DEF LiveOk, Wants
        <4>2. CASE ~Wants(t.p)
          BY <2>1, <2>2, <4>2 DEF LiveOk
        <4> QED
          BY <4>1, <4>2
      <3> QED
        BY <1>1, <1>5, <2>2, <3>1, PauseFacts
    <2>3. CASE act # "no"
      <3>1. Due(t)
        <4>1. CASE act = "restart"
          <5>1. Repeats(t.p)
            BY <4>1 DEF Repeats, Account
          <5> QED
            BY <5>1 DEF Due
        <4>2. CASE act # "restart"
          <5>1. ~LiveOk(t.p, c)
            BY <1>2, <2>1, <2>3, <4>2 DEF LiveOk
          <5> QED
            BY <5>1, MissingIsDue
        <4> QED
          BY <4>1, <4>2
      <3>2. CASE t.p.check
        BY <1>1, <1>3, <2>3, <3>1, <3>2, ClaimFacts
      <3>3. CASE ~t.p.check
        <4>1. SameWork(w, t) /\ w.pc = act /\ w.next = t.next
          BY DEF Account, Typed, SameWork, ContainerTaskFields
        <4>2. /\ act = "stop" => t.p.state = "stopped" /\ ~t.created
              /\ act \in {"start", "restart"} => Wants(t.p)
          BY <1>5, <2>1, <3>3 DEF Young, Running
        <4> HIDE DEF w, act
        <4>3. Due(w)
          BY <3>1, <4>1, SameDue DEF SameWork
        <4>4. BaseOk(w, c, l) /\ LimitsOk(w, c)
          BY <1>5, <4>1 DEF BaseOk, ImageOk, LimitsOk, SameWork
        <4>5. Joined(w, c, l)
          BY <1>5, <3>3, <4>1, <4>3, <4>4 DEF Joined, Limited, Working, SameWork, Account
        <4>6. PcInv(w, c, l)
          BY <1>2, <2>3, <4>1, <4>2, <4>5 DEF PcInv, SameWork
        <4> QED
          BY <1>1, <1>2, <2>3, <3>3, <4>1, <4>6 DEF Good
      <3> QED
        BY <3>2, <3>3
    <2> QED
      BY <2>2, <2>3
  <1> QED
    BY <1>4, <1>5

(* What is to be connected, and what is not.                               *)
LEMMA NetworkFacts ==
    ASSUME NEW t, NEW c, NEW l, Account(t, c, l),
           \/ Foregone(t)
           \/ BaseOk(t, c, l) /\ LimitsOk(t, c) /\ Sees(t, c) /\ Young(t, c)
    PROVE  Good(update_networks(t), c, l)
  <1> DEFINE differs == (t.p.cmp # "ignore" \/ t.created) /\ has_network_differences(t.p, t.k)
             extra == has_extra_networks(t.p, t.k)
             u == [t EXCEPT !.todo = extra, !.changed = @ \/ differs \/ extra # {}]
             w == [u EXCEPT !.pc = IF ~differs THEN "purge"
                                   ELSE IF "web" \in DOMAIN t.k.ends THEN "disconnect" ELSE "connect"]
  <1>1. update_networks(t) =
            IF t.k = Nothing /\ Compares(t) THEN CFail(t)
            ELSE IF ~differs /\ extra = {} THEN StartOrStop(t)
            ELSE IF t.p.check THEN Reget(u, "state") ELSE w
    BY DEF update_networks
  <1>2. ASSUME differs \/ extra # {}, Due(t), t.p.check
        PROVE  Good(Reget(u, "state"), c, l)
    <2> DEFINE v == Reget(u, "state")
    <2>1. SameWork(v, t) /\ v.pc = "reget" /\ v.changed = TRUE /\ v.next = "state"
      BY <1>2 DEF Account, Typed, SameWork, ContainerTaskFields, Reget
    <2> HIDE DEF v
    <2>2. Due(v)
      BY <1>2, <2>1, SameDue DEF SameWork
    <2>3. PcInv(v, c, l)
      BY <1>2, <2>1, <2>2 DEF PcInv, SameWork, Account
    <2> QED
      BY <2>1, <2>3 DEF Good, v
  <1>3. CASE Foregone(t)
    <2>1. t.p.check /\ Due(t)
      BY <1>3 DEF Foregone, Account
    <2>2. Good(StartOrStop(t), c, l)
      BY <1>3, StartFacts
    <2>3. Good(CFail(t), c, l)
      <3>1. Typed(CFail(t)) /\ CFail(t).pc = "failed"
        BY DEF Account, Typed, ContainerTaskFields, CFail
      <3> QED
        BY <3>1 DEF Good, PcInv
    <2> QED
      BY <1>1, <1>2, <2>1, <2>2, <2>3
  <1>4. CASE BaseOk(t, c, l) /\ LimitsOk(t, c) /\ Sees(t, c) /\ Young(t, c)
    <2>1. t.k.ends = c.ends /\ extra = has_extra_networks(t.p, c) /\ t.k # Nothing
      BY <1>4, LikeParts DEF Sees
    <2>2. CASE ~differs /\ extra = {}
      <3>1. JoinedOk(t.p, c)
        BY <2>1, <2>2 DEF JoinedOk, has_network_differences, Account, Typed, HostParam
      <3>2. NetsOk(t.p, c)
        BY <2>1, <2>2, <3>1 DEF NetsOk, JoinedOk, has_extra_networks
      <3> QED
        BY <1>1, <1>4, <2>1, <2>2, <3>2, StartFacts
    <2>3. CASE differs \/ extra # {}
      <3>1. Due(t)
        <4>1. CASE t.changed
          BY <4>1 DEF Account
        <4>2. CASE t.p.cmp # "ignore" \/ extra # {}
          <5>1. ~NetsOk(t.p, c)
            BY <2>1, <2>3, <4>2 DEF NetsOk, JoinedOk, has_network_differences, has_extra_networks, Account, Typed, HostParam
          <5> QED
            BY <5>1, MissingIsDue
        <4> QED
          BY <2>3, <4>1, <4>2 DEF Account
      <3>2. CASE t.p.check
        BY <1>1, <1>2, <2>1, <2>3, <3>1, <3>2
      <3>3. CASE ~t.p.check
        <4>1. /\ SameWork(w, t) /\ w.next = t.next /\ w.todo = extra /\ w.changed = TRUE
              /\ w.pc = IF ~differs THEN "purge" ELSE IF "web" \in DOMAIN t.k.ends THEN "disconnect" ELSE "connect"
          BY <2>3 DEF Account, Typed, SameWork, ContainerTaskFields
        <4>2. /\ differs => t.p.net = "web"
              /\ ~differs => JoinedOk(t.p, c)
          BY <2>1 DEF JoinedOk, has_network_differences, Account, Typed, HostParam
        <4> HIDE DEF w, differs, extra
        <4>3. Due(w)
          BY <3>1, <4>1, SameDue DEF SameWork
        <4>4. BaseOk(w, c, l) /\ LimitsOk(w, c)
          BY <1>4, <4>1 DEF BaseOk, ImageOk, LimitsOk, SameWork
        <4>5. Joining(w, c, l)
          BY <1>4, <2>1, <3>3, <4>1, <4>3, <4>4 DEF Joining, Limited, Working, SameWork, Account, Young
        <4>6. PcInv(w, c, l)
          BY <4>1, <4>2, <4>5 DEF PcInv, SameWork
        <4> QED
          BY <1>1, <2>1, <2>3, <3>3, <4>1, <4>6 DEF Good
      <3> QED
        BY <3>2, <3>3
    <2> QED
      BY <2>2, <2>3
  <1> QED
    BY <1>3, <1>4

(* What can be updated in place.                                           *)
LEMMA LimitFacts ==
    ASSUME NEW t, NEW c, NEW l, Account(t, c, l),
           \/ Foregone(t)
           \/ BaseOk(t, c, l) /\ Sees(t, c) /\ Young(t, c)
    PROVE  Good(update_limits(t), c, l)
  <1> DEFINE differs == has_different_resource_limits(t.p, t.k)
             w == [t EXCEPT !.pc = "update"]
  <1>1. update_limits(t) = IF differs /\ ~t.p.check THEN w ELSE update_networks(t)
    BY DEF update_limits
  <1>2. CASE Foregone(t)
    BY <1>1, <1>2, NetworkFacts DEF Foregone
  <1>3. CASE BaseOk(t, c, l) /\ Sees(t, c) /\ Young(t, c)
    <2>1. t.k.lim = c.lim
      BY <1>3, LikeParts DEF Sees
    <2>2. (differs /\ ~t.p.check) <=> ~LimitsOk(t, c)
      BY <2>1 DEF LimitsOk, has_different_resource_limits
    <2>3. CASE LimitsOk(t, c)
      BY <1>1, <1>3, <2>2, <2>3, NetworkFacts
    <2>4. CASE ~LimitsOk(t, c)
      <3>1. Due(t)
        BY <2>4, MissingIsDue
      <3>2. SameWork(w, t) /\ w.pc = "update" /\ w.next = t.next
        BY DEF Account, Typed, SameWork, ContainerTaskFields
      <3> HIDE DEF w
      <3>3. Due(w)
        BY <3>1, <3>2, SameDue DEF SameWork
      <3>4. BaseOk(w, c, l)
        BY <1>3, <3>2 DEF BaseOk, ImageOk, SameWork
      <3>5. Working(w, c, l) /\ Young(w, c)
        BY <1>3, <2>2, <2>4, <3>2, <3>3, <3>4 DEF Working, SameWork, Account, Young
      <3>6. PcInv(w, c, l)
        BY <3>2, <3>5 DEF PcInv, SameWork
      <3> QED
        BY <1>1, <2>2, <2>4, <3>2, <3>6 DEF Good
    <2> QED
      BY <2>3, <2>4
  <1> QED
    BY <1>2, <1>3

(* What an image that was pulled makes due.                                *)
LEMMA ImageIsDue ==
    ASSUME NEW t, t.p \in HostParam, t.p.state # "absent",
           \/ t.before.local = 0
           \/ ~t.p.check /\ t.p.pull = "always" /\ t.before.local # remote
    PROVE  Due(t)
  <1> DEFINE q == Asked(t.p)
  <1>1. q.state # "absent" /\ q.pull = t.p.pull
    BY DEF Asked, HostParam
  <1> HIDE DEF q
  <1>2. ~Settled(t.before.con, t.before.local, IF t.p.check THEN t.before.local ELSE remote, q)
    BY <1>1 DEF Settled
  <1> QED
    BY <1>2 DEF Due, q

(* A container that is not there, or has to make room, is due to be made.  *)
LEMMA NewIsDue ==
    ASSUME NEW t, NEW c, NEW l, t.p \in HostParam, t.p.state # "absent", l = t.before.local,
           \/ t.p.recreate
           \/ ~BaseOk(t, t.before.con, l)
    PROVE  Due(t)
  <1>1. CASE t.p.recreate
    BY <1>1 DEF Due, Repeats
  <1>2. CASE ~BaseOk(t, t.before.con, l)
    <2>1. CASE t.p.check
      BY <1>2, <2>1, SettledParts DEF Due
    <2>2. CASE ~t.p.check
      BY <1>2, <2>2, SettledParts DEF Due, Asked
    <2> QED
      BY <2>1, <2>2
  <1> QED
    BY <1>1, <1>2

(* The first decision: a new container, another one, or this one.          *)
LEMMA DecideFacts ==
    ASSUME NEW t, NEW c, NEW l, Typed(t), t.p.state # "absent", ~t.created, t.next = "",
           t.k = t.before.con, Alike(c, t.k), t.img = l,
           t.changed => Due(t), ~t.changed => l = t.before.local,
           t.p.check => l = t.before.local,
           l = 0 => t.changed /\ t.p.check,
           ~t.p.check => ImageOk(t, l)
    PROVE  Good(Decide(t), c, l)
  <1> DEFINE new == t.k = Nothing \/ t.k.st = "removing"
             other == has_different_configuration(t.p, t.k) \/ image_is_different(t) \/ t.p.recreate
             u == [t EXCEPT !.changed = TRUE, !.created = TRUE]
             w == [u EXCEPT !.pc = IF t.k = Nothing THEN "create" ELSE IF new THEN "gone"
                                   ELSE IF Running(t.k) THEN "stop" ELSE "remove"]
             d == [u EXCEPT !.pc = "done"]
  <1>1. Decide(t) = IF new \/ other
                    THEN IF t.p.check THEN IF t.k = Nothing THEN d ELSE update_limits(u) ELSE w
                    ELSE update_limits(t)
    BY DEF Decide
  <1>2. t.p \in HostParam
    BY DEF Typed
  <1>3. new \/ other => Due(t)
    <2>1. CASE t.changed
      BY <2>1
    <2>2. CASE ~t.changed /\ (new \/ other)
      <3>1. l = t.before.local
        BY <2>2
      <3>2. t.p.recreate \/ ~BaseOk(t, t.k, l)
        BY <2>2 DEF BaseOk, has_different_configuration, image_is_different, Typed, HostParam
      <3> QED
        BY <1>2, <3>1, <3>2, NewIsDue
    <2> QED
      BY <2>1, <2>2
  <1>4. CASE new \/ other
    <2>1. /\ Typed(u) /\ u.p = t.p /\ u.before = t.before /\ u.k = t.k /\ u.changed = TRUE /\ u.created = TRUE
          /\ u.next = ""
      BY DEF Typed, ContainerTaskFields
    <2>2. Due(u)
      BY <1>3, <1>4, <2>1, SameDue
    <2>3. CASE t.p.check /\ t.k = Nothing
      <3>1. Typed(d) /\ d.p = t.p /\ d.before = t.before /\ d.changed = TRUE /\ d.pc = "done"
        BY <2>1 DEF Typed, ContainerTaskFields
      <3> HIDE DEF d
      <3>2. Due(d)
        BY <1>3, <1>4, <3>1, SameDue
      <3>3. Final(d, c, l)
        BY <2>3, <3>1, <3>2 DEF Final
      <3> QED
        BY <1>1, <1>4, <2>3, <3>1, <3>3 DEF Good
    <2>4. CASE t.p.check /\ t.k # Nothing
      <3> HIDE DEF u
      <3>1. Account(u, c, l) /\ Foregone(u)
        BY <2>1, <2>2, <2>4 DEF Account, Foregone
      <3> QED
        BY <1>1, <1>4, <2>4, <3>1, LimitFacts
    <2>5. CASE ~t.p.check
      <3>1. /\ Typed(w) /\ w.p = t.p /\ w.before = t.before /\ w.changed = TRUE /\ w.created = TRUE
            /\ w.next = "" /\ w.pc \in {"create", "gone", "stop", "remove"}
        BY <2>1 DEF Typed, ContainerTaskFields
      <3> HIDE DEF w
      <3>2. Due(w)
        BY <1>3, <1>4, <3>1, SameDue
      <3>3. Replaced(w, l)
        BY <2>5, <3>1, <3>2 DEF Replaced, ImageOk
      <3>4. PcInv(w, c, l)
        BY <3>1, <3>3 DEF PcInv
      <3> QED
        BY <1>1, <1>4, <2>5, <3>1, <3>4 DEF Good
    <2> QED
      BY <2>3, <2>4, <2>5
  <1>5. CASE ~new /\ ~other
    <2>1. Account(t, c, l)
      BY <1>5 DEF Account
    <2>2. c # Nothing /\ Sees(t, c) /\ t.k # Nothing /\ t.k.st # "removing"
      BY <1>5 DEF Alike, Sees, LikeBut
    <2>3. CASE l = 0
      BY <1>1, <1>5, <2>1, <2>3, LimitFacts DEF Foregone
    <2>4. CASE l # 0
      <3>1. BaseOk(t, t.k, l)
        BY <1>5, <2>2, <2>4 DEF BaseOk, has_different_configuration, image_is_different, Typed, HostParam, ImageOk
      <3>2. BaseOk(t, c, l)
        BY <2>2, <3>1, LikeParts DEF Sees
      <3>3. Young(t, c)
        BY DEF Young
      <3> QED
        BY <1>1, <1>5, <2>1, <2>2, <3>2, <3>3, LimitFacts
    <2> QED
      BY <2>3, <2>4
  <1> QED
    BY <1>4, <1>5

----------------------------------------------------------------------------
(* The requests.                                                           *)

Undisturbed == ctask.calm /\ ctask.pc \notin {"idle", "over", "done"}

CalmInv ==
    /\ remote # 0 /\ DOMAIN ctask = ContainerTaskFields
    /\ ctask.pc = "idle" => ctask = NoTask
    /\ Undisturbed => PcInv(ctask, con, local)

(* No decision makes a disturbed task an undisturbed one.                  *)
Steady(u, t) == DOMAIN u = ContainerTaskFields /\ u.calm = t.calm /\ u.p = t.p /\ u.pc # "idle"

(* Every decision is steady.                                             *)
LEMMA DecisionsAreSteady ==
    ASSUME NEW t, DOMAIN t = ContainerTaskFields, t.pc # "idle"
    PROVE  /\ Steady(CFail(t), t) /\ \A x : Steady(Reget(t, x), t)
           /\ Steady(Finish(t), t) /\ Steady(PauseIfAsked(t), t) /\ Steady(StartOrStop(t), t)
           /\ Steady(update_networks(t), t) /\ Steady(update_limits(t), t) /\ Steady(Decide(t), t)
  <1>1. ASSUME NEW u, Steady(u, t)
        PROVE  /\ Steady(CFail(u), t) /\ Steady(Finish(u), t)
               /\ \A x : Steady(Reget(u, x), t) /\ (x # "idle" => Steady([u EXCEPT !.pc = x], t))
               /\ \A x : Steady([u EXCEPT !.changed = x], t) /\ Steady([u EXCEPT !.created = x], t)
               /\ \A x : Steady([u EXCEPT !.todo = x], t)
    BY <1>1 DEF Steady, CFail, Finish, Reget, ContainerTaskFields
  <1>2. ASSUME NEW u, Steady(u, t)
        PROVE  Steady(PauseIfAsked(u), t)
    BY <1>1, <1>2 DEF PauseIfAsked
  <1>3. ASSUME NEW u, Steady(u, t)
        PROVE  Steady(StartOrStop(u), t)
    BY <1>1, <1>2, <1>3 DEF StartOrStop
  <1>4. ASSUME NEW u, Steady(u, t)
        PROVE  Steady(update_networks(u), t)
    <2> DEFINE extra == has_extra_networks(u.p, u.k)
               differs == (u.p.cmp # "ignore" \/ u.created) /\ has_network_differences(u.p, u.k)
               v == [u EXCEPT !.todo = extra, !.changed = @ \/ differs \/ extra # {}]
    <2>1. Steady(v, t)
      BY <1>4 DEF Steady, ContainerTaskFields
    <2>2. \/ update_networks(u) = CFail(u) \/ update_networks(u) = StartOrStop(u)
          \/ update_networks(u) = Reget(v, "state") \/ \E x : x # "idle" /\ update_networks(u) = [v EXCEPT !.pc = x]
      BY DEF update_networks
    <2> HIDE DEF v
    <2>3. Steady(CFail(u), t) /\ Steady(StartOrStop(u), t)
      BY <1>1, <1>3, <1>4
    <2>4. Steady(Reget(v, "state"), t) /\ \A x : x # "idle" => Steady([v EXCEPT !.pc = x], t)
      BY <1>1, <2>1
    <2> QED
      BY <2>2, <2>3, <2>4
  <1>5. ASSUME NEW u, Steady(u, t)
        PROVE  Steady(update_limits(u), t)
    BY <1>1, <1>4, <1>5 DEF update_limits
  <1>6. Steady(t, t)
    BY DEF Steady
  <1>7. Steady(Decide(t), t)
    <2> DEFINE u == [t EXCEPT !.changed = TRUE, !.created = TRUE]
    <2>1. Steady(u, t)
      BY DEF Steady, ContainerTaskFields
    <2>2. \/ \E x : x # "idle" /\ Decide(t) = [u EXCEPT !.pc = x]
          \/ Decide(t) = update_limits(u) \/ Decide(t) = update_limits(t)
      BY DEF Decide
    <2> HIDE DEF u
    <2> QED
      BY <1>1, <1>5, <1>6, <2>1, <2>2
  <1> QED
    BY <1>1, <1>2, <1>3, <1>4, <1>5, <1>6, <1>7

(* A task that has failed.                                                 *)
LEMMA FailIsGood ==
    ASSUME NEW t, Typed(t), NEW c, NEW l
    PROVE  Good(CFail(t), c, l)
  <1>1. Typed(CFail(t)) /\ CFail(t).pc = "failed"
    BY DEF Typed, ContainerTaskFields, CFail
  <1> QED
    BY <1>1 DEF Good, PcInv

(* Its parameters are read, then the container.                            *)
LEMMA CollectIsGood ==
    ASSUME CollectParams, PcInv(ctask, con, local)
    PROVE  Good(ctask', con', local')
  <1>1. Typed(ctask) /\ Fresh(ctask) /\ con' = con /\ local' = local
    BY DEF CollectParams, PcInv, daemonVars
  <1>2. CASE ctask' = CFail(ctask)
    BY <1>1, <1>2, FailIsGood
  <1>3. CASE ctask' = [ctask EXCEPT !.pc = "inspect", !.nid = IF net = Nothing THEN 0 ELSE net.id]
    <2>1. Typed(ctask') /\ Fresh(ctask') /\ ctask'.pc = "inspect"
      BY <1>1, <1>3 DEF Typed, Fresh, ContainerTaskFields
    <2> QED
      BY <2>1 DEF Good, PcInv
  <1> QED
    BY <1>2, <1>3 DEF CollectParams

(* The container is read, and what it is now is remembered.              *)
LEMMA InspectIsGood ==
    ASSUME Inspect, PcInv(ctask, con, local)
    PROVE  Good(ctask', con', local')
  <1> DEFINE t == [ctask EXCEPT !.k = con, !.before = [con |-> con, local |-> local]]
             d == [t EXCEPT !.pc = "done", !.changed = con # Nothing]
             w == [t EXCEPT !.pc = IF Running(con) THEN "stop" ELSE "remove"]
             i == [t EXCEPT !.pc = "image"]
  <1>1. Typed(ctask) /\ Fresh(ctask) /\ con' = con /\ local' = local
    BY DEF Inspect, PcInv, daemonVars
  <1>2. ctask' = IF t.p.state # "absent" THEN i ELSE IF con = Nothing \/ t.p.check THEN d ELSE w
    BY DEF Inspect
  <1>3. /\ Typed(t) /\ t.p = ctask.p /\ t.k = con /\ Fresh(t)
        /\ t.before = [con |-> con, local |-> local] /\ t.before.con = con /\ t.before.local = local
    BY <1>1 DEF Typed, Fresh, ContainerTaskFields
  <1> HIDE DEF t
  <1>4. CASE t.p.state # "absent"
    <2>1. /\ Typed(i) /\ i.p = t.p /\ i.k = con /\ i.before = t.before /\ Fresh(i) /\ i.pc = "image"
      BY <1>3 DEF Typed, Fresh, ContainerTaskFields
    <2> HIDE DEF i
    <2>2. Untouched(i, con, local)
      BY <1>3, <1>4, <2>1 DEF Untouched, Alike
    <2> QED
      BY <1>1, <1>2, <1>4, <2>1, <2>2 DEF Good, PcInv
  <1>5. CASE t.p.state = "absent" /\ (con = Nothing \/ t.p.check)
    <2>1. Typed(d) /\ d.p = t.p /\ d.before = t.before /\ d.pc = "done" /\ (d.changed <=> con # Nothing)
      BY <1>3 DEF Typed, ContainerTaskFields
    <2> HIDE DEF d
    <2>2. Asked(d.p).state = "absent" /\ ~Repeats(d.p)
      BY <1>5, <2>1 DEF Asked, Repeats, Typed, HostParam
    <2>3. d.changed <=> Due(d)
      BY <1>3, <2>1, <2>2 DEF Due, Settled
    <2>4. Final(d, con, local)
      BY <1>3, <1>5, <2>1, <2>3 DEF Final, Alike, Settled
    <2> QED
      BY <1>1, <1>2, <1>5, <2>1, <2>4 DEF Good
  <1>6. CASE t.p.state = "absent" /\ con # Nothing /\ ~t.p.check
    <2>1. /\ Typed(w) /\ w.p = t.p /\ w.k = con /\ w.before = t.before /\ w.next = ""
          /\ w.pc \in {"stop", "remove"}
      BY <1>3 DEF Typed, Fresh, ContainerTaskFields
    <2> HIDE DEF w
    <2>2. w.before.con = con
      BY <1>3, <2>1
    <2>3. Leaving(w, con)
      BY <1>6, <2>1, <2>2 DEF Leaving
    <2> QED
      BY <1>1, <1>2, <1>6, <2>1, <2>3 DEF Good, PcInv
  <1> QED
    BY <1>4, <1>5, <1>6

(* The image is looked for.                                                *)
LEMMA ImageIsGood ==
    ASSUME GetImage, PcInv(ctask, con, local)
    PROVE  Good(ctask', con', local')
  <1> DEFINE t == [ctask EXCEPT !.img = local]
             u == [t EXCEPT !.changed = local = 0]
             w == [t EXCEPT !.pc = "pull"]
  <1>1. Typed(ctask) /\ Untouched(ctask, con, local) /\ con' = con /\ local' = local
    BY DEF GetImage, PcInv, daemonVars
  <1>2. ctask' = IF local = 0 /\ t.p.pull = "never" THEN CFail(t)
                ELSE IF (local = 0 \/ t.p.pull = "always") /\ ~t.p.check THEN w ELSE Decide(u)
    BY DEF GetImage
  <1>3. /\ Typed(t) /\ t.p = ctask.p /\ t.k = ctask.k /\ t.before = ctask.before /\ Fresh(t) /\ t.img = local
    BY <1>1 DEF Untouched, Typed, Fresh, ContainerTaskFields
  <1> HIDE DEF t
  <1>4. Untouched(t, con, local)
    BY <1>1, <1>3 DEF Untouched
  <1>5. CASE ctask' = CFail(t)
    BY <1>3, <1>5, FailIsGood
  <1>6. CASE ctask' = w /\ (local = 0 \/ t.p.pull = "always") /\ ~t.p.check
    <2>1. /\ Typed(w) /\ w.p = t.p /\ w.k = t.k /\ w.before = t.before /\ Fresh(w) /\ w.pc = "pull"
      BY <1>3 DEF Typed, Fresh, ContainerTaskFields
    <2> HIDE DEF w
    <2>2. Untouched(w, con, local)
      BY <1>4, <2>1 DEF Untouched
    <2> QED
      BY <1>1, <1>6, <2>1, <2>2 DEF Good, PcInv
  <1>7. CASE ctask' = Decide(u) /\ ~((local = 0 \/ t.p.pull = "always") /\ ~t.p.check)
    <2>1. /\ Typed(u) /\ u.p = t.p /\ u.k = t.k /\ u.before = t.before /\ u.img = local /\ (u.changed <=> local = 0)
          /\ ~u.created /\ u.next = ""
      BY <1>3 DEF Typed, Fresh, ContainerTaskFields
    <2> HIDE DEF u
    <2>2. /\ u.p.state # "absent" /\ u.k = u.before.con /\ Alike(con, u.k) /\ local = u.before.local
      BY <1>4, <2>1 DEF Untouched
    <2>3. u.changed => Due(u)
      BY <2>1, <2>2, ImageIsDue DEF Typed
    <2>4. ~u.p.check => ImageOk(u, local)
      BY <1>7, <2>1 DEF ImageOk
    <2> QED
      BY <1>1, <1>7, <2>1, <2>2, <2>3, <2>4, DecideFacts
  <1> QED
    BY <1>2, <1>5, <1>6, <1>7

(* The image is pulled.                                                  *)
LEMMA PullIsGood ==
    ASSUME PullImage, PcInv(ctask, con, local), remote # 0
    PROVE  Good(ctask', con', local')
  <1> DEFINE u == [ctask EXCEPT !.img = remote, !.changed = local # remote]
  <1>1. /\ Typed(ctask) /\ Untouched(ctask, con, local) /\ con' = con /\ local' = remote /\ ctask' = Decide(u)
        /\ ~ctask.p.check /\ (local = 0 \/ ctask.p.pull = "always")
    BY DEF PullImage, PcInv
  <1>2. /\ Typed(u) /\ u.p = ctask.p /\ u.k = ctask.k /\ u.before = ctask.before /\ u.img = remote
        /\ (u.changed <=> local # remote) /\ ~u.created /\ u.next = ""
    BY <1>1 DEF Typed, Untouched, Fresh, ContainerTaskFields
  <1> HIDE DEF u
  <1>3. /\ u.p.state # "absent" /\ u.k = u.before.con /\ Alike(con, u.k) /\ local = u.before.local
    BY <1>1, <1>2 DEF Untouched
  <1>4. u.changed => Due(u)
    BY <1>1, <1>2, <1>3, ImageIsDue DEF Typed
  <1>5. ImageOk(u, remote)
    BY DEF ImageOk
  <1> QED
    BY <1>1, <1>2, <1>3, <1>4, <1>5, DecideFacts

(* The requests that stop and remove the container.                        *)
LEMMA StopIsGood ==
    ASSUME ContainerStop, PcInv(ctask, con, local), ContainerInv
    PROVE  Good(ctask', con', local')
  <1> DEFINE t == [ctask EXCEPT !.changed = TRUE]
             r == [t EXCEPT !.pc = "remove"]
             g == Reget(t, "pause")
  <1>1. /\ Typed(ctask) /\ ctask.pc = "stop" /\ local' = local
        /\ \/ Leaving(ctask, con) \/ Replaced(ctask, local)
           \/ (Joined(ctask, con, local) /\ ~ctask.created /\ ctask.p.state = "stopped")
    BY DEF ContainerStop, Request, PcInv
  <1>2. \/ con' = con /\ ctask' = CFail(ctask)
        \/ /\ con # Nothing /\ ctask.k # Nothing /\ con.id = ctask.k.id /\ con.st # "removing"
           /\ con' = [con EXCEPT !.st = "exited"]
           /\ ctask' = IF t.created \/ t.p.state = "absent" THEN r ELSE g
    BY DEF ContainerStop, Request, Same
  <1>3. CASE ctask' = CFail(ctask)
    BY <1>1, <1>3, FailIsGood
  <1>4. CASE /\ con # Nothing /\ ctask.k # Nothing /\ con.id = ctask.k.id /\ con.st # "removing"
             /\ con' = [con EXCEPT !.st = "exited"]
             /\ ctask' = IF t.created \/ t.p.state = "absent" THEN r ELSE g
    <2>1. DOMAIN con = ContainerFields
      BY <1>4 DEF ContainerInv
    <2>2. /\ DOMAIN con' = ContainerFields /\ con'.id = con.id /\ con'.st = "exited"
          /\ con'.conf = con.conf /\ con'.lim = con.lim /\ con'.img = con.img /\ con'.mode = con.mode
          /\ con'.ends = con.ends
      BY <1>4, <2>1 DEF ContainerFields
    <2>3. con' # Nothing
      BY <2>2 DEF ContainerFields, Nothing
    <2>4. /\ Typed(t) /\ t.p = ctask.p /\ t.k = ctask.k /\ t.before = ctask.before /\ t.created = ctask.created
          /\ t.changed = TRUE /\ t.next = ctask.next
      BY <1>1 DEF Typed, ContainerTaskFields
    <2> HIDE DEF t
    <2>5. CASE t.created \/ t.p.state = "absent"
      <3>1. /\ Typed(r) /\ r.p = ctask.p /\ r.k = ctask.k /\ r.before = ctask.before /\ r.created = ctask.created
            /\ r.changed = TRUE /\ r.next = ctask.next /\ r.pc = "remove"
        BY <2>4 DEF Typed, ContainerTaskFields
      <3>2. ctask' = r
        BY <1>4, <2>5
      <3> HIDE DEF r
      <3>3. Leaving(r, con') \/ Replaced(r, local)
        <4>1. CASE Leaving(ctask, con)
          BY <1>4, <2>2, <3>1, <4>1 DEF Leaving
        <4>2. CASE Replaced(ctask, local)
          <5>1. Due(r)
            BY <3>1, <4>2, SameDue DEF Replaced
          <5> QED
            BY <3>1, <4>2, <5>1 DEF Replaced, ImageOk
        <4> QED
          BY <1>1, <2>4, <2>5, <4>1, <4>2
      <3> QED
        BY <1>1, <3>1, <3>2, <3>3 DEF Good, PcInv
    <2>6. CASE ~(t.created \/ t.p.state = "absent")
      <3>1. /\ Typed(g) /\ g.p = ctask.p /\ g.k = ctask.k /\ g.before = ctask.before /\ g.created = ctask.created
            /\ g.changed = TRUE /\ g.next = "pause" /\ g.pc = "reget"
        BY <2>4 DEF Typed, ContainerTaskFields, Reget
      <3>2. ctask' = g
        BY <1>4, <2>6
      <3> HIDE DEF g
      <3>3. Joined(ctask, con, local) /\ ctask.p.state = "stopped"
        BY <1>1, <2>4, <2>6 DEF Leaving, Replaced
      <3>4. Due(g)
        BY <3>1, <3>3, SameDue DEF Joined, Limited, Working
      <3>5. BaseOk(g, con', local) /\ LimitsOk(g, con') /\ NetsOk(g.p, con')
        BY <2>2, <2>3, <3>1, <3>3 DEF Joined, Limited, Working, BaseOk, ImageOk, LimitsOk, NetsOk, JoinedOk
      <3>6. LiveOk(g.p, con')
        BY <2>2, <3>1, <3>3 DEF LiveOk, Wants, Running
      <3>7. PcInv(g, con', local)
        BY <1>4, <2>2, <3>1, <3>3, <3>4, <3>5, <3>6 DEF PcInv, Joined, Limited, Working
      <3> QED
        BY <1>1, <3>1, <3>2, <3>7 DEF Good
    <2> QED
      BY <2>5, <2>6
  <1> QED
    BY <1>2, <1>3, <1>4

(* The container is removed.                                             *)
LEMMA RemoveIsGood ==
    ASSUME ContainerRemove, PcInv(ctask, con, local), ContainerInv
    PROVE  Good(ctask', con', local')
  <1> DEFINE t == [ctask EXCEPT !.changed = TRUE]
             d == [t EXCEPT !.pc = "done"]
             g == [t EXCEPT !.pc = "gone"]
  <1>1. /\ Typed(ctask) /\ local' = local
        /\ Leaving(ctask, con) \/ Replaced(ctask, local)
    BY DEF ContainerRemove, PcInv
  <1>2. ctask.next = ""
    BY <1>1 DEF Leaving, Replaced
  <1>3. /\ Typed(t) /\ t.p = ctask.p /\ t.k = ctask.k /\ t.before = ctask.before /\ t.created = ctask.created
        /\ t.changed = TRUE /\ t.next = ctask.next
    BY <1>1 DEF Typed, ContainerTaskFields
  <1>4. \/ con' = con /\ ctask' = CFail(ctask)
        \/ /\ \/ ~Same /\ con' = con
              \/ Same /\ con' \in {Nothing, [con EXCEPT !.st = "removing", !.ends = << >>]}
           /\ ctask' = IF t.p.state = "absent" THEN d ELSE g
    BY <1>2, <1>3 DEF ContainerRemove
  <1> HIDE DEF t
  <1>5. CASE ctask' = CFail(ctask)
    BY <1>1, <1>5, FailIsGood
  <1>6. CASE /\ ctask' = d /\ t.p.state = "absent"
             /\ \/ ~Same /\ con' = con
                \/ Same /\ con' \in {Nothing, [con EXCEPT !.st = "removing", !.ends = << >>]}
    <2>1. /\ Typed(d) /\ d.p = ctask.p /\ d.before = ctask.before /\ d.changed = TRUE /\ d.pc = "done"
      BY <1>3 DEF Typed, ContainerTaskFields
    <2> HIDE DEF d
    <2>2. Leaving(ctask, con)
      BY <1>1, <1>3, <1>6 DEF Replaced
    <2>3. con' = Nothing \/ (con' # Nothing /\ con'.st = "removing")
      <3>1. CASE con' = con /\ ~Same
        BY <2>2, <3>1 DEF Leaving, Same
      <3>2. CASE Same /\ con' = [con EXCEPT !.st = "removing", !.ends = << >>]
        <4>1. DOMAIN con = ContainerFields
          BY <3>2 DEF ContainerInv, Same
        <4>2. DOMAIN con' = ContainerFields /\ con'.st = "removing"
          BY <3>2, <4>1 DEF ContainerFields
        <4> QED
          BY <4>2
      <3> QED
        BY <1>6, <3>1, <3>2
    <2>4. Due(d)
      <3>1. Asked(d.p).state = "absent"
        BY <1>1, <2>1, <2>2 DEF Asked, Leaving, Typed, HostParam
      <3> QED
        BY <2>1, <2>2, <3>1 DEF Due, Settled, Leaving
    <2>5. Final(d, con', local)
      BY <2>1, <2>2, <2>3, <2>4 DEF Final, Settled, Leaving
    <2> QED
      BY <1>1, <1>6, <2>1, <2>5 DEF Good
  <1>7. CASE ctask' = g /\ t.p.state # "absent"
    <2>1. /\ Typed(g) /\ g.p = ctask.p /\ g.k = ctask.k /\ g.before = ctask.before /\ g.created = ctask.created
          /\ g.changed = TRUE /\ g.next = ctask.next /\ g.pc = "gone"
      BY <1>3 DEF Typed, ContainerTaskFields
    <2> HIDE DEF g
    <2>2. Replaced(ctask, local)
      BY <1>1, <1>3, <1>7 DEF Leaving
    <2>3. Due(g)
      BY <2>1, <2>2, SameDue DEF Replaced
    <2>4. Replaced(g, local)
      BY <2>1, <2>2, <2>3 DEF Replaced, ImageOk
    <2> QED
      BY <1>1, <1>7, <2>1, <2>4 DEF Good, PcInv
  <1> QED
    BY <1>4, <1>5, <1>6, <1>7

(* The next one is created when it is gone.                                *)
LEMMA GoneIsGood ==
    ASSUME AwaitGone, PcInv(ctask, con, local)
    PROVE  Good(ctask', con', local')
  <1>1. /\ Typed(ctask) /\ Replaced(ctask, local) /\ con' = con /\ local' = local
        /\ ctask' = [ctask EXCEPT !.pc = "create"]
    BY DEF AwaitGone, PcInv, daemonVars
  <1>2. /\ Typed(ctask') /\ ctask'.p = ctask.p /\ ctask'.before = ctask.before /\ ctask'.created = ctask.created
        /\ ctask'.changed = ctask.changed /\ ctask'.next = ctask.next /\ ctask'.pc = "create"
    BY <1>1 DEF Typed, ContainerTaskFields
  <1>3. Due(ctask')
    BY <1>1, <1>2, SameDue DEF Replaced
  <1>4. Replaced(ctask', local)
    BY <1>1, <1>2, <1>3 DEF Replaced, ImageOk
  <1> QED
    BY <1>1, <1>2, <1>4 DEF Good, PcInv

(* The new container is created.                                         *)
LEMMA CreateIsGood ==
    ASSUME ContainerCreate, PcInv(ctask, con, local)
    PROVE  Good(ctask', con', local')
  <1> DEFINE n == NewContainer(ctask.p, local)
             t == [ctask EXCEPT !.k = n]
             g == Reget(t, "limits")
  <1>1. Typed(ctask) /\ Replaced(ctask, local) /\ local' = local
    BY DEF ContainerCreate, PcInv
  <1>2. \/ ctask' = CFail(ctask)
        \/ con' = n /\ local # 0 /\ ctask' = g
    BY DEF ContainerCreate
  <1>3. CASE ctask' = CFail(ctask)
    BY <1>1, <1>3, FailIsGood
  <1>4. CASE con' = n /\ ctask' = g
    <2>1. /\ n.st = "created" /\ n.conf = ctask.p.conf /\ n.img = local
          /\ n.mode = IF ModeOf(ctask.p) = "web" THEN "web" ELSE "bridge"
      BY DEF NewContainer
    <2>2. n # Nothing
      BY DEF NewContainer, Nothing
    <2> HIDE DEF n
    <2>3. /\ Typed(g) /\ g.p = ctask.p /\ g.k = n /\ g.before = ctask.before /\ g.created = ctask.created
          /\ g.changed = ctask.changed /\ g.next = "limits" /\ g.pc = "reget"
      BY <1>1 DEF Typed, ContainerTaskFields, Reget
    <2> HIDE DEF g
    <2>4. Due(g)
      BY <1>1, <2>3, SameDue DEF Replaced
    <2>5. BaseOk(g, n, local)
      BY <1>1, <2>1, <2>2, <2>3 DEF BaseOk, Replaced, ImageOk, ModeOf
    <2>6. PcInv(g, n, local)
      BY <1>1, <2>1, <2>2, <2>3, <2>4, <2>5 DEF PcInv, Replaced, Young
    <2> QED
      BY <1>1, <1>4, <2>3, <2>6 DEF Good
  <1> QED
    BY <1>2, <1>3, <1>4

(* The container is inspected again.                                       *)
LEMMA RegetIsGood ==
    ASSUME GetContainer, PcInv(ctask, con, local)
    PROVE  Good(ctask', con', local')
  <1> DEFINE t == [ctask EXCEPT !.k = IF Same THEN con ELSE Nothing]
  <1>1. /\ Typed(ctask) /\ con' = con /\ local' = local
        /\ ctask.changed /\ Due(ctask) /\ ctask.p.state # "absent"
        /\ ctask.next \in {"limits", "networks", "state", "pause", "finish"}
        /\ ctask.p.check => Alike(con, ctask.before.con) /\ local = ctask.before.local
    BY DEF GetContainer, PcInv, daemonVars
  <1>2. ctask' = CASE t.next = "limits" -> IF t.k = Nothing THEN Finish(t) ELSE update_limits(t)
                  [] t.next = "networks" -> update_networks(t)
                  [] t.next = "state" -> StartOrStop(t)
                  [] t.next = "pause" -> PauseIfAsked(t)
                  [] OTHER -> Finish(t)
    BY DEF GetContainer
  <1>3. /\ Typed(t) /\ t.p = ctask.p /\ t.before = ctask.before /\ t.created = ctask.created
        /\ t.changed = ctask.changed /\ t.next = ctask.next /\ t.k = IF Same THEN con ELSE Nothing
    BY <1>1 DEF Typed, ContainerTaskFields
  <1> HIDE DEF t
  <1>4. Due(t)
    BY <1>1, <1>3, SameDue
  <1>5. Account(t, con, local)
    BY <1>1, <1>3, <1>4 DEF Account
  <1>6. CASE ctask.p.check
    <2>1. Foregone(t)
      BY <1>1, <1>3, <1>6 DEF Foregone
    <2> QED
      BY <1>1, <1>2, <1>5, <2>1, FinishFacts, LimitFacts, NetworkFacts, StartFacts, PauseFacts
  <1>7. CASE ~ctask.p.check
    <2>1. /\ BaseOk(ctask, con, local) /\ ctask.k # Nothing /\ con.id = ctask.k.id
          /\ ctask.next # "limits" => LimitsOk(ctask, con)
          /\ ctask.next \in {"limits", "networks", "state"} => Young(ctask, con)
          /\ ctask.next \in {"state", "pause", "finish"} => NetsOk(ctask.p, con)
          /\ ctask.next \in {"pause", "finish"} => LiveOk(ctask.p, con)
          /\ ctask.next = "finish" => PausedOk(ctask.p, con)
      BY <1>7 DEF GetContainer, PcInv
    <2>2. Same /\ t.k = con
      BY <1>3, <2>1 DEF Same, BaseOk
    <2>3. Sees(t, con) /\ BaseOk(t, con, local)
      BY <1>3, <2>1, <2>2 DEF Sees, LikeBut, BaseOk, ImageOk
    <2>4. /\ t.next # "limits" => LimitsOk(t, con)
          /\ t.next \in {"limits", "networks", "state"} => Young(t, con)
          /\ t.next \in {"state", "pause", "finish"} => NetsOk(t.p, con)
          /\ t.next \in {"pause", "finish"} => LiveOk(t.p, con)
          /\ t.next = "finish" => PausedOk(t.p, con)
      BY <1>3, <2>1 DEF LimitsOk, Young
    <2>5. CASE t.next = "limits"
      BY <1>1, <1>2, <1>5, <2>3, <2>4, <2>5, LimitFacts DEF Sees
    <2>6. CASE t.next = "networks"
      BY <1>1, <1>2, <1>5, <2>3, <2>4, <2>6, NetworkFacts
    <2>7. CASE t.next = "state"
      BY <1>1, <1>2, <1>5, <2>3, <2>4, <2>7, StartFacts
    <2>8. CASE t.next = "pause"
      BY <1>1, <1>2, <1>3, <1>5, <2>3, <2>4, <2>8, PauseFacts
    <2>9. CASE t.next = "finish"
      BY <1>1, <1>2, <1>3, <1>5, <2>3, <2>4, <2>9, FinishFacts
    <2> QED
      BY <1>1, <1>3, <2>5, <2>6, <2>7, <2>8, <2>9
  <1> QED
    BY <1>6, <1>7

(* What a request does not change.                                         *)
LEMMA StillWorking ==
    ASSUME NEW t, NEW u, NEW c, NEW d, NEW l, u.p = t.p, u.before = t.before, Working(t, c, l),
           d # Nothing, d.st # "removing", d.conf = c.conf, d.mode = c.mode, d.img = c.img
    PROVE  Due(u) /\ BaseOk(u, d, l) /\ (u.next # "clean" => Working(u, d, l))
  <1>1. Due(u)
    BY SameDue DEF Working
  <1>2. BaseOk(u, d, l)
    BY DEF Working, BaseOk, ImageOk
  <1> QED
    BY <1>1, <1>2 DEF Working

(* A limit is updated.                                                     *)
LEMMA UpdateIsGood ==
    ASSUME ContainerUpdate, PcInv(ctask, con, local), ContainerInv
    PROVE  Good(ctask', con', local')
  <1> DEFINE t == [ctask EXCEPT !.changed = TRUE]
             g == Reget(t, "networks")
  <1>1. Typed(ctask) /\ Working(ctask, con, local) /\ Young(ctask, con) /\ local' = local
    BY DEF ContainerUpdate, Request, PcInv
  <1>2. \/ ctask' = CFail(ctask)
        \/ /\ con # Nothing /\ ctask.k # Nothing /\ con.id = ctask.k.id /\ con.st # "removing"
           /\ con' = [con EXCEPT !.lim = ctask.p.lim] /\ ctask' = g
    BY DEF ContainerUpdate, Request, Same
  <1>3. CASE ctask' = CFail(ctask)
    BY <1>1, <1>3, FailIsGood
  <1>4. CASE /\ con # Nothing /\ ctask.k # Nothing /\ con.id = ctask.k.id /\ con.st # "removing"
             /\ con' = [con EXCEPT !.lim = ctask.p.lim] /\ ctask' = g
    <2>1. DOMAIN con = ContainerFields
      BY <1>4 DEF ContainerInv
    <2>2. /\ DOMAIN con' = ContainerFields /\ con'.id = con.id /\ con'.st = con.st
          /\ con'.conf = con.conf /\ con'.lim = ctask.p.lim /\ con'.img = con.img /\ con'.mode = con.mode
      BY <1>4, <2>1 DEF ContainerFields
    <2>3. con' # Nothing
      BY <2>2 DEF ContainerFields, Nothing
    <2>4. /\ Typed(g) /\ g.p = ctask.p /\ g.k = ctask.k /\ g.before = ctask.before /\ g.created = ctask.created
          /\ g.changed = TRUE /\ g.next = "networks" /\ g.pc = "reget"
      BY <1>1 DEF Typed, ContainerTaskFields, Reget
    <2> HIDE DEF g
    <2>5. Working(g, con', local)
      <3>1. Working(ctask, con, local) /\ con'.st # "removing"
        BY <1>1, <1>4, <2>2
      <3> QED
        BY <2>2, <2>3, <2>4, <3>1, StillWorking
    <2>6. LimitsOk(g, con') /\ Young(g, con')
      BY <1>1, <2>2, <2>4 DEF LimitsOk, Young
    <2>7. PcInv(g, con', local)
      BY <1>1, <1>4, <2>2, <2>4, <2>5, <2>6 DEF PcInv, Working
    <2> QED
      BY <1>1, <1>4, <2>4, <2>7 DEF Good
  <1> QED
    BY <1>2, <1>3, <1>4

(* The network is left, and joined with the right options.                 *)
LEMMA DisconnectIsGood ==
    ASSUME DisconnectToReconnect, PcInv(ctask, con, local), ContainerInv
    PROVE  Good(ctask', con', local')
  <1> DEFINE g == [ctask EXCEPT !.pc = "connect"]
  <1>1. Typed(ctask) /\ Joining(ctask, con, local) /\ ctask.p.net = "web" /\ local' = local
    BY DEF DisconnectToReconnect, Request, PcInv
  <1>2. \/ ctask' = CFail(ctask)
        \/ /\ con # Nothing /\ con' = Drop(con, "web") /\ ctask' = g
    BY DEF DisconnectToReconnect, Request, Same
  <1>3. CASE ctask' = CFail(ctask)
    BY <1>1, <1>3, FailIsGood
  <1>4. CASE con # Nothing /\ con' = Drop(con, "web") /\ ctask' = g
    <2>1. DOMAIN con = ContainerFields
      BY <1>4 DEF ContainerInv
    <2>2. /\ DOMAIN con' = ContainerFields /\ con'.id = con.id /\ con'.st = con.st
          /\ con'.conf = con.conf /\ con'.lim = con.lim /\ con'.img = con.img /\ con'.mode = con.mode
          /\ DOMAIN con'.ends = DOMAIN con.ends \ {"web"}
      BY <1>4, <2>1 DEF ContainerFields, Drop
    <2>3. con' # Nothing
      BY <2>2 DEF ContainerFields, Nothing
    <2>4. /\ Typed(g) /\ g.p = ctask.p /\ g.k = ctask.k /\ g.before = ctask.before /\ g.created = ctask.created
          /\ g.changed = ctask.changed /\ g.next = ctask.next /\ g.pc = "connect" /\ g.todo = ctask.todo
      BY <1>1 DEF Typed, ContainerTaskFields
    <2> HIDE DEF g
    <2>5. Working(g, con', local)
      BY <1>1, <2>2, <2>3, <2>4, StillWorking DEF Joining, Limited, Working, BaseOk
    <2>6. LimitsOk(g, con') /\ Young(g, con')
      BY <1>1, <2>2, <2>4 DEF LimitsOk, Young, Joining, Limited
    <2>7. g.todo = has_extra_networks(g.p, con')
      BY <1>1, <2>2, <2>4 DEF Joining, has_extra_networks
    <2>8. PcInv(g, con', local)
      BY <1>1, <2>4, <2>5, <2>6, <2>7 DEF PcInv, Joining, Limited
    <2> QED
      BY <1>1, <1>4, <2>4, <2>8 DEF Good
  <1> QED
    BY <1>2, <1>3, <1>4

(* The container is connected.                                             *)
LEMMA ConnectIsGood ==
    ASSUME ConnectNetwork, PcInv(ctask, con, local), ContainerInv
    PROVE  Good(ctask', con', local')
  <1> DEFINE e == Endpoint(ctask.nid, ctask.p.alias)
             w == [ctask EXCEPT !.pc = "purge"]
             g == Reget(ctask, "state")
  <1>1. Typed(ctask) /\ Joining(ctask, con, local) /\ ctask.p.net = "web" /\ local' = local
    BY DEF ConnectNetwork, Request, PcInv
  <1>2. \/ ctask' = CFail(ctask)
        \/ /\ con # Nothing /\ ctask.k # Nothing /\ con.id = ctask.k.id /\ "web" \notin DOMAIN con.ends
           /\ con' = Attach(con, "web", e) /\ ctask' = IF ctask.todo # {} THEN w ELSE g
    BY DEF ConnectNetwork, Request, Same
  <1>3. CASE ctask' = CFail(ctask)
    BY <1>1, <1>3, FailIsGood
  <1>4. CASE /\ con # Nothing /\ ctask.k # Nothing /\ con.id = ctask.k.id /\ "web" \notin DOMAIN con.ends
             /\ con' = Attach(con, "web", e) /\ ctask' = IF ctask.todo # {} THEN w ELSE g
    <2>1. DOMAIN con = ContainerFields /\ e.alias = ctask.p.alias
      BY <1>4 DEF ContainerInv, Endpoint
    <2> HIDE DEF e
    <2>2. /\ DOMAIN con' = ContainerFields /\ con'.id = con.id /\ con'.st = con.st
          /\ con'.conf = con.conf /\ con'.lim = con.lim /\ con'.img = con.img /\ con'.mode = con.mode
          /\ DOMAIN con'.ends = DOMAIN con.ends \cup {"web"} /\ con'.ends["web"] = e
      BY <1>4, <2>1 DEF ContainerFields, Attach
    <2>3. con' # Nothing
      BY <2>2 DEF ContainerFields, Nothing
    <2>4. JoinedOk(ctask.p, con')
      BY <2>1, <2>2 DEF JoinedOk
    <2>5. ctask.todo = has_extra_networks(ctask.p, con')
      BY <1>1, <1>4, <2>2 DEF Joining, has_extra_networks
    <2>6. Working(ctask, con, local) /\ con.st # "removing" /\ ctask.changed
      BY <1>1 DEF Joining, Limited, Working, BaseOk
    <2>7. CASE ctask.todo # {}
      <3>1. /\ Typed(w) /\ w.p = ctask.p /\ w.k = ctask.k /\ w.before = ctask.before /\ w.created = ctask.created
            /\ w.changed = ctask.changed /\ w.next = ctask.next /\ w.pc = "purge" /\ w.todo = ctask.todo
        BY <1>1 DEF Typed, ContainerTaskFields
      <3>2. ctask' = w
        BY <1>4, <2>7
      <3> HIDE DEF w
      <3>3. w.next # "clean"
        BY <2>6, <3>1 DEF Working
      <3>4. Working(w, con', local)
        BY <2>2, <2>3, <2>6, <3>1, <3>3, StillWorking
      <3>5. LimitsOk(w, con') /\ Young(w, con')
        BY <1>1, <2>2, <3>1 DEF LimitsOk, Young, Joining, Limited
      <3>6. Joining(w, con', local)
        BY <2>5, <2>6, <3>1, <3>4, <3>5 DEF Joining, Limited
      <3>7. PcInv(w, con', local)
        BY <2>4, <3>1, <3>6 DEF PcInv
      <3> QED
        BY <1>1, <3>1, <3>2, <3>7 DEF Good
    <2>8. CASE ctask.todo = {}
      <3>1. /\ Typed(g) /\ g.p = ctask.p /\ g.k = ctask.k /\ g.before = ctask.before /\ g.created = ctask.created
            /\ g.changed = ctask.changed /\ g.next = "state" /\ g.pc = "reget"
        BY <1>1 DEF Typed, ContainerTaskFields, Reget
      <3>2. ctask' = g
        BY <1>4, <2>8
      <3> HIDE DEF g
      <3>3. Working(g, con', local)
        BY <2>2, <2>3, <2>6, <3>1, StillWorking
      <3>4. LimitsOk(g, con') /\ Young(g, con')
        BY <1>1, <2>2, <3>1 DEF LimitsOk, Young, Joining, Limited
      <3>5. NetsOk(g.p, con')
        BY <1>1, <2>2, <2>4, <2>5, <2>8, <3>1 DEF NetsOk, has_extra_networks
      <3>6. PcInv(g, con', local)
        BY <1>4, <2>2, <2>6, <3>1, <3>3, <3>4, <3>5 DEF PcInv, Working
      <3> QED
        BY <1>1, <3>1, <3>2, <3>6 DEF Good
    <2> QED
      BY <2>7, <2>8
  <1> QED
    BY <1>2, <1>3, <1>4

(* What is not wanted is disconnected.                                     *)
LEMMA PurgeIsGood ==
    ASSUME PurgeNetwork, PcInv(ctask, con, local), ContainerInv
    PROVE  Good(ctask', con', local')
  <1>1. PICK n \in ctask.todo :
           Request("purge", Same /\ n \in DOMAIN con.ends /\ (n = "web" => Connected("c")), Drop(con, n),
                  LET t == [ctask EXCEPT !.todo = @ \ {n}] IN
                  IF t.todo # {} THEN t ELSE Reget(t, "state"))
    BY DEF PurgeNetwork
  <1> DEFINE w == [ctask EXCEPT !.todo = @ \ {n}]
             g == Reget(w, "state")
  <1>2. Typed(ctask) /\ Joining(ctask, con, local) /\ JoinedOk(ctask.p, con) /\ local' = local /\ ctask.pc = "purge"
    BY <1>1 DEF Request, PcInv
  <1>3. \/ ctask' = CFail(ctask)
        \/ /\ con # Nothing /\ ctask.k # Nothing /\ con.id = ctask.k.id
           /\ con' = Drop(con, n) /\ ctask' = IF w.todo # {} THEN w ELSE g
    BY <1>1 DEF Request, Same
  <1>4. CASE ctask' = CFail(ctask)
    BY <1>2, <1>4, FailIsGood
  <1>5. CASE /\ con # Nothing /\ ctask.k # Nothing /\ con.id = ctask.k.id
             /\ con' = Drop(con, n) /\ ctask' = IF w.todo # {} THEN w ELSE g
    <2>1. DOMAIN con = ContainerFields
      BY <1>5 DEF ContainerInv
    <2>2. /\ DOMAIN con' = ContainerFields /\ con'.id = con.id /\ con'.st = con.st
          /\ con'.conf = con.conf /\ con'.lim = con.lim /\ con'.img = con.img /\ con'.mode = con.mode
          /\ DOMAIN con'.ends = DOMAIN con.ends \ {n}
          /\ \A m \in DOMAIN con.ends \ {n} : con'.ends[m] = con.ends[m]
      BY <1>5, <2>1 DEF ContainerFields, Drop
    <2>3. con' # Nothing
      BY <2>2 DEF ContainerFields, Nothing
    <2>4. /\ Typed(w) /\ w.p = ctask.p /\ w.k = ctask.k /\ w.before = ctask.before /\ w.created = ctask.created
          /\ w.changed = ctask.changed /\ w.next = ctask.next /\ w.pc = "purge" /\ w.todo = ctask.todo \ {n}
      BY <1>2 DEF Typed, ContainerTaskFields
    <2> HIDE DEF w
    <2>5. ctask.todo = has_extra_networks(ctask.p, con)
      BY <1>2 DEF Joining
    <2>6. /\ ctask.p.cmp = "strict" /\ ctask.p.net # "omitted"
          /\ ctask.todo = DOMAIN con.ends \ (IF ctask.p.net = "web" THEN {"web"} ELSE {})
      BY <2>5 DEF has_extra_networks
    <2>7. ctask.p.net = "web" => n # "web"
      BY <2>6
    <2>8. JoinedOk(ctask.p, con')
      BY <1>2, <2>2, <2>7 DEF JoinedOk
    <2>9. w.todo = has_extra_networks(ctask.p, con')
      BY <2>2, <2>4, <2>6 DEF has_extra_networks
    <2>10. Working(ctask, con, local) /\ con.st # "removing" /\ ctask.changed /\ ctask.next # "clean"
      BY <1>2 DEF Joining, Limited, Working, BaseOk
    <2>11. CASE w.todo # {}
      <3>1. Working(w, con', local)
        BY <2>2, <2>3, <2>4, <2>10, StillWorking
      <3>2. LimitsOk(w, con') /\ Young(w, con')
        BY <1>2, <2>2, <2>4 DEF LimitsOk, Young, Joining, Limited
      <3>3. Joining(w, con', local)
        BY <2>4, <2>9, <2>10, <3>1, <3>2 DEF Joining, Limited
      <3>4. PcInv(w, con', local)
        BY <2>4, <2>8, <3>3 DEF PcInv
      <3> QED
        BY <1>2, <1>5, <2>4, <2>11, <3>4 DEF Good
    <2>12. CASE w.todo = {}
      <3>1. /\ Typed(g) /\ g.p = ctask.p /\ g.k = ctask.k /\ g.before = ctask.before /\ g.created = ctask.created
            /\ g.changed = ctask.changed /\ g.next = "state" /\ g.pc = "reget"
        BY <2>4 DEF Typed, ContainerTaskFields, Reget
      <3> HIDE DEF g
      <3>2. Working(g, con', local)
        BY <2>2, <2>3, <2>10, <3>1, StillWorking
      <3>3. LimitsOk(g, con') /\ Young(g, con')
        BY <1>2, <2>2, <3>1 DEF LimitsOk, Young, Joining, Limited
      <3>4. NetsOk(g.p, con')
        BY <2>2, <2>6, <2>8, <2>9, <2>12, <3>1 DEF NetsOk, JoinedOk, has_extra_networks
      <3>5. PcInv(g, con', local)
        BY <1>5, <2>2, <2>10, <3>1, <3>2, <3>3, <3>4 DEF PcInv, Working
      <3> QED
        BY <1>2, <1>5, <2>12, <3>1, <3>5 DEF Good
    <2> QED
      BY <2>11, <2>12
  <1> QED
    BY <1>3, <1>4, <1>5

(* The container is alive again, and otherwise as it was; the task is to   *)
(* look at it.                                                             *)
Relives(d) ==
    /\ DOMAIN d = ContainerFields /\ d.st \in {"running", "paused"}
    /\ d.id = con.id /\ d.conf = con.conf /\ d.lim = con.lim /\ d.img = con.img /\ d.mode = con.mode
    /\ d.ends = con.ends

Rereads(g) ==
    /\ Typed(g) /\ g.p = ctask.p /\ g.k = ctask.k /\ g.before = ctask.before
    /\ g.changed = TRUE /\ g.pc = "reget"

(* The container is inspected again once it has been started, restarted,   *)
(* paused or unpaused.                                                     *)
LEMMA RereadIsGood ==
    ASSUME NEW g, NEW d, Joined(ctask, con, local), Wants(ctask.p),
           ctask.k # Nothing, con.id = ctask.k.id, Relives(d), Rereads(g),
           g.next = "pause" \/ (g.next = "finish" /\ PausedOk(g.p, d))
    PROVE  Good(g, d, local)
  <1>1. /\ DOMAIN d = ContainerFields /\ d.st \in {"running", "paused"} /\ d.id = con.id /\ d.conf = con.conf
        /\ d.lim = con.lim /\ d.img = con.img /\ d.mode = con.mode /\ d.ends = con.ends
        /\ Typed(g) /\ g.p = ctask.p /\ g.k = ctask.k /\ g.before = ctask.before /\ g.changed = TRUE
        /\ g.pc = "reget"
    BY DEF Relives, Rereads
  <1>2. d # Nothing
    BY <1>1 DEF ContainerFields, Nothing
  <1>3. Working(ctask, con, local)
    BY DEF Joined, Limited
  <1>4. Working(g, d, local)
    BY <1>1, <1>2, <1>3, StillWorking
  <1>5. LimitsOk(g, d) /\ NetsOk(g.p, d)
    BY <1>1 DEF Joined, Limited, LimitsOk, NetsOk, JoinedOk
  <1>6. LiveOk(g.p, d)
    BY <1>1, <1>2 DEF LiveOk, Wants, Running
  <1>7. PcInv(g, d, local)
    BY <1>1, <1>2, <1>3, <1>4, <1>5, <1>6 DEF PcInv, Working
  <1> QED
    BY <1>1, <1>7 DEF Good

(* The container is started.                                             *)
LEMMA StartIsGood ==
    ASSUME ContainerStart, PcInv(ctask, con, local), ContainerInv
    PROVE  Good(ctask', con', local')
  <1> DEFINE t == [ctask EXCEPT !.changed = TRUE]
             g == Reget(t, "pause")
             w == [t EXCEPT !.pc = "wait"]
  <1>1. Typed(ctask) /\ Joined(ctask, con, local) /\ Wants(ctask.p) /\ local' = local
    BY DEF ContainerStart, Request, PcInv
  <1>2. \/ ctask' = CFail(ctask)
        \/ /\ con # Nothing /\ ctask.k # Nothing /\ con.id = ctask.k.id
           /\ con' = [con EXCEPT !.st = "running", !.hl = IF con.conf = 2 THEN "starting" ELSE "none"]
           /\ ctask' = g \/ ctask' = w
    BY DEF ContainerStart, Request, Same
  <1>3. CASE ctask' = CFail(ctask)
    BY <1>1, <1>3, FailIsGood
  <1>4. CASE /\ con # Nothing /\ ctask.k # Nothing /\ con.id = ctask.k.id
             /\ con' = [con EXCEPT !.st = "running", !.hl = IF con.conf = 2 THEN "starting" ELSE "none"]
             /\ ctask' = g \/ ctask' = w
    <2>1. DOMAIN con = ContainerFields
      BY <1>4 DEF ContainerInv
    <2>2. /\ DOMAIN con' = ContainerFields /\ con'.id = con.id /\ con'.st = "running"
          /\ con'.conf = con.conf /\ con'.lim = con.lim /\ con'.img = con.img /\ con'.mode = con.mode
          /\ con'.ends = con.ends
      BY <1>4, <2>1 DEF ContainerFields
    <2>3. CASE ctask' = g
      <3>1. /\ Typed(g) /\ g.p = ctask.p /\ g.k = ctask.k /\ g.before = ctask.before
            /\ g.changed = TRUE /\ g.next = "pause" /\ g.pc = "reget"
        BY <1>1 DEF Typed, ContainerTaskFields, Reget
      <3> HIDE DEF g
      <3>2. Rereads(g) /\ Relives(con')
        BY <2>2, <3>1 DEF Rereads, Relives
      <3>3. Good(g, con', local)
        BY <1>1, <1>4, <3>1, <3>2, RereadIsGood
      <3> QED
        BY <1>1, <2>3, <3>3
    <2>4. CASE ctask' = w
      <3>1. Typed(w) /\ w.k = ctask.k /\ w.pc = "wait"
        BY <1>1 DEF Typed, ContainerTaskFields
      <3> HIDE DEF w
      <3>2. con' # Nothing /\ Running(con')
        BY <2>2 DEF ContainerFields, Nothing, Running
      <3>3. PcInv(w, con', local)
        BY <1>4, <2>2, <3>1, <3>2 DEF PcInv
      <3> QED
        BY <1>1, <2>4, <3>1, <3>3 DEF Good
    <2> QED
      BY <1>4, <2>3, <2>4
  <1> QED
    BY <1>2, <1>3, <1>4

(* The container is restarted.                                           *)
LEMMA RestartIsGood ==
    ASSUME ContainerRestart, PcInv(ctask, con, local), ContainerInv
    PROVE  Good(ctask', con', local')
  <1> DEFINE t == [ctask EXCEPT !.changed = TRUE]
             g == Reget(t, "pause")
  <1>1. Typed(ctask) /\ Joined(ctask, con, local) /\ Wants(ctask.p) /\ local' = local
    BY DEF ContainerRestart, Request, PcInv
  <1>2. \/ ctask' = CFail(ctask)
        \/ /\ con # Nothing /\ ctask.k # Nothing /\ con.id = ctask.k.id
           /\ con' = [con EXCEPT !.st = "running"] /\ ctask' = g
    BY DEF ContainerRestart, Request, Same
  <1>3. CASE ctask' = CFail(ctask)
    BY <1>1, <1>3, FailIsGood
  <1>4. CASE /\ con # Nothing /\ ctask.k # Nothing /\ con.id = ctask.k.id
             /\ con' = [con EXCEPT !.st = "running"] /\ ctask' = g
    <2>1. DOMAIN con = ContainerFields
      BY <1>4 DEF ContainerInv
    <2>2. /\ DOMAIN con' = ContainerFields /\ con'.id = con.id /\ con'.st = "running"
          /\ con'.conf = con.conf /\ con'.lim = con.lim /\ con'.img = con.img /\ con'.mode = con.mode
          /\ con'.ends = con.ends
      BY <1>4, <2>1 DEF ContainerFields
    <2>3. /\ Typed(g) /\ g.p = ctask.p /\ g.k = ctask.k /\ g.before = ctask.before
          /\ g.changed = TRUE /\ g.next = "pause" /\ g.pc = "reget"
      BY <1>1 DEF Typed, ContainerTaskFields, Reget
    <2> HIDE DEF g
    <2>4. Rereads(g) /\ Relives(con')
      BY <2>2, <2>3 DEF Rereads, Relives
    <2>5. Good(g, con', local)
      BY <1>1, <1>4, <2>3, <2>4, RereadIsGood
    <2> QED
      BY <1>1, <1>4, <2>5
  <1> QED
    BY <1>2, <1>3, <1>4

(* The container is paused, or unpaused.                                 *)
LEMMA PauseIsGood ==
    ASSUME SetPaused, PcInv(ctask, con, local), ContainerInv
    PROVE  Good(ctask', con', local')
  <1> DEFINE t == [ctask EXCEPT !.changed = TRUE]
             g == Reget(t, "finish")
             st == IF ctask.p.paused = "yes" THEN "paused" ELSE "running"
  <1>1. Typed(ctask) /\ Joined(ctask, con, local) /\ Wants(ctask.p) /\ local' = local
    BY DEF SetPaused, Request, PcInv
  <1>2. \/ ctask' = CFail(ctask)
        \/ /\ con # Nothing /\ ctask.k # Nothing /\ con.id = ctask.k.id
           /\ con' = [con EXCEPT !.st = st] /\ ctask' = g
    BY DEF SetPaused, Request, Same
  <1>3. CASE ctask' = CFail(ctask)
    BY <1>1, <1>3, FailIsGood
  <1>4. CASE /\ con # Nothing /\ ctask.k # Nothing /\ con.id = ctask.k.id
             /\ con' = [con EXCEPT !.st = st] /\ ctask' = g
    <2>1. DOMAIN con = ContainerFields
      BY <1>4 DEF ContainerInv
    <2>2. /\ DOMAIN con' = ContainerFields /\ con'.id = con.id /\ con'.st = st
          /\ con'.conf = con.conf /\ con'.lim = con.lim /\ con'.img = con.img /\ con'.mode = con.mode
          /\ con'.ends = con.ends
      BY <1>4, <2>1 DEF ContainerFields
    <2>3. /\ Typed(g) /\ g.p = ctask.p /\ g.k = ctask.k /\ g.before = ctask.before
          /\ g.changed = TRUE /\ g.next = "finish" /\ g.pc = "reget"
      BY <1>1 DEF Typed, ContainerTaskFields, Reget
    <2> HIDE DEF g
    <2>4. PausedOk(g.p, con') /\ con'.st \in {"running", "paused"}
      BY <2>2, <2>3 DEF PausedOk, Paused, ContainerFields, Nothing
    <2>5. Rereads(g) /\ Relives(con')
      BY <2>2, <2>3, <2>4 DEF Rereads, Relives
    <2>6. Good(g, con', local)
      BY <1>1, <1>4, <2>3, <2>4, <2>5, RereadIsGood
    <2> QED
      BY <1>1, <1>4, <2>6
  <1> QED
    BY <1>2, <1>3, <1>4

(* The waits, and what fails.                                              *)
LEMMA HealthyIsGood ==
    ASSUME AwaitHealthy, PcInv(ctask, con, local)
    PROVE  Good(ctask', con', local')
  <1> DEFINE d == [ctask EXCEPT !.pc = "done"]
  <1>1. /\ Typed(ctask) /\ con' = con /\ local' = local /\ (ctask' = d \/ ctask' = CFail(ctask))
        /\ Settled(con, local, remote, ctask.p) /\ ~ctask.p.check /\ (ctask.changed <=> Due(ctask))
    BY DEF AwaitHealthy, PcInv, daemonVars
  <1>2. CASE ctask' = CFail(ctask)
    BY <1>1, <1>2, FailIsGood
  <1>3. CASE ctask' = d
    <2>1. /\ d.p = ctask.p /\ d.before = ctask.before /\ d.changed = ctask.changed /\ d.pc = "done"
      BY <1>1 DEF Typed, ContainerTaskFields
    <2> HIDE DEF d
    <2>2. Due(d) <=> Due(ctask)
      BY <2>1, SameDue
    <2>3. Final(d, con, local)
      BY <1>1, <2>1, <2>2 DEF Final
    <2> QED
      BY <1>1, <1>3, <2>1, <2>3 DEF Good
  <1> QED
    BY <1>1, <1>2, <1>3

(* What fails, what waits, and the second attempt to stop.               *)
LEMMA WaitIsGood ==
    ASSUME \/ PullFails \/ WaitTimeout \/ UnpauseToStop \/ WaitForContainer,
           PcInv(ctask, con, local), ContainerInv
    PROVE  Good(ctask', con', local')
  <1>1. Typed(ctask) /\ local' = local
    BY DEF PullFails, WaitTimeout, UnpauseToStop, WaitForContainer, PcInv, daemonVars
  <1>2. CASE PullFails \/ WaitTimeout
    BY <1>1, <1>2, FailIsGood DEF PullFails, WaitTimeout
  <1>3. CASE WaitForContainer
    BY <1>3 DEF WaitForContainer, PcInv, Same
  <1>4. CASE UnpauseToStop
    <2>1. DOMAIN con = ContainerFields /\ con # Nothing /\ ctask' = ctask /\ ctask.pc = "stop" /\ con.st = "paused"
      BY <1>4 DEF UnpauseToStop, Same, ContainerInv, Paused
    <2>2. /\ DOMAIN con' = ContainerFields /\ con'.id = con.id /\ con'.st = "running"
          /\ con'.conf = con.conf /\ con'.lim = con.lim /\ con'.img = con.img /\ con'.mode = con.mode
          /\ con'.ends = con.ends
      BY <1>4, <2>1 DEF UnpauseToStop, ContainerFields
    <2>3. con' # Nothing
      BY <2>2 DEF ContainerFields, Nothing
    <2>4. CASE Leaving(ctask, con)
      <3>1. Leaving(ctask, con')
        BY <2>1, <2>2, <2>4 DEF Leaving
      <3> QED
        BY <1>1, <2>1, <3>1 DEF Good, PcInv
    <2>5. CASE Replaced(ctask, local)
      BY <1>1, <2>1, <2>5 DEF Good, PcInv
    <2>6. CASE Joined(ctask, con, local) /\ ~ctask.created /\ ctask.p.state = "stopped"
      <3>1. Working(ctask, con, local) /\ ctask.next # "clean"
        BY <2>6 DEF Joined, Limited, Working
      <3>2. Working(ctask, con', local)
        BY <2>2, <2>3, <3>1, StillWorking
      <3>3. LimitsOk(ctask, con') /\ NetsOk(ctask.p, con')
        BY <2>2, <2>6 DEF Joined, Limited, LimitsOk, NetsOk, JoinedOk
      <3>4. Joined(ctask, con', local)
        BY <3>2, <3>3 DEF Joined, Limited
      <3> QED
        BY <1>1, <2>1, <2>6, <3>4 DEF Good, PcInv
    <2> QED
      BY <2>1, <2>4, <2>5, <2>6 DEF PcInv
  <1> QED
    BY <1>2, <1>3, <1>4

(* What every request leaves as it was.                                    *)
LEMMA SteadyAgain ==
    ASSUME NEW u, NEW v, NEW t, Steady(u, t), Steady(v, u)
    PROVE  Steady(v, t)
  BY DEF Steady

(* Every request is steady.                                              *)
LEMMA RequestsAreSteady ==
    ASSUME ContainerTask, ~StartContainerTask, DOMAIN ctask = ContainerTaskFields, ctask.pc # "idle"
    PROVE  Steady(ctask', ctask)
  <1>1. ASSUME NEW u, Steady(u, ctask)
        PROVE  /\ Steady(CFail(u), ctask) /\ \A x : Steady(Reget(u, x), ctask)
               /\ Steady(Finish(u), ctask) /\ Steady(PauseIfAsked(u), ctask) /\ Steady(StartOrStop(u), ctask)
               /\ Steady(update_networks(u), ctask) /\ Steady(update_limits(u), ctask) /\ Steady(Decide(u), ctask)
    <2>1. DOMAIN u = ContainerTaskFields /\ u.pc # "idle"
      BY <1>1 DEF Steady
    <2>2. /\ Steady(CFail(u), u) /\ \A x : Steady(Reget(u, x), u)
          /\ Steady(Finish(u), u) /\ Steady(PauseIfAsked(u), u) /\ Steady(StartOrStop(u), u)
          /\ Steady(update_networks(u), u) /\ Steady(update_limits(u), u) /\ Steady(Decide(u), u)
      BY <2>1, DecisionsAreSteady
    <2>3. \A v : Steady(v, u) => Steady(v, ctask)
      BY <1>1, SteadyAgain
    <2> QED
      BY <2>2, <2>3
  <1>2. CASE CollectParams \/ PullFails \/ AwaitGone \/ WaitTimeout \/ UnpauseToStop \/ AwaitHealthy \/ WaitForContainer
    <2>1. CASE UnpauseToStop
      BY <2>1 DEF UnpauseToStop, Steady
    <2>2. CASE PullFails \/ WaitTimeout \/ AwaitGone \/ AwaitHealthy
      BY <2>2 DEF PullFails, WaitTimeout, AwaitGone, AwaitHealthy, Steady, CFail, ContainerTaskFields
    <2>3. CASE CollectParams
      BY <2>3 DEF CollectParams, Steady, CFail, ContainerTaskFields
    <2>4. CASE WaitForContainer
      BY <2>4 DEF WaitForContainer, Steady, CFail, Reget, ContainerTaskFields
    <2> QED
      BY <1>2, <2>1, <2>2, <2>3, <2>4
  <1>3. CASE Inspect
    BY <1>3 DEF Inspect, Steady, ContainerTaskFields
  <1>4. CASE GetImage
    <2> DEFINE t == [ctask EXCEPT !.img = local]
               u == [t EXCEPT !.changed = local = 0]
               w == [t EXCEPT !.pc = "pull"]
    <2>1. Steady(t, ctask) /\ Steady(u, ctask) /\ Steady(w, ctask)
      BY DEF Steady, ContainerTaskFields
    <2>2. ctask' = CFail(t) \/ ctask' = w \/ ctask' = Decide(u)
      BY <1>4 DEF GetImage
    <2> HIDE DEF t, u, w
    <2> QED
      BY <1>1, <2>1, <2>2
  <1>5. CASE PullImage
    <2> DEFINE u == [ctask EXCEPT !.img = remote, !.changed = local # remote]
    <2>1. Steady(u, ctask)
      BY DEF Steady, ContainerTaskFields
    <2>2. ctask' = Decide(u)
      BY <1>5 DEF PullImage
    <2> HIDE DEF u
    <2> QED
      BY <1>1, <2>1, <2>2
  <1>6. CASE GetContainer
    <2> DEFINE t == [ctask EXCEPT !.k = IF Same THEN con ELSE Nothing]
    <2>1. Steady(t, ctask)
      BY DEF Steady, ContainerTaskFields
    <2>2. \/ ctask' = Finish(t) \/ ctask' = update_limits(t) \/ ctask' = update_networks(t)
          \/ ctask' = StartOrStop(t) \/ ctask' = PauseIfAsked(t)
      BY <1>6 DEF GetContainer
    <2> HIDE DEF t
    <2> QED
      BY <1>1, <2>1, <2>2
  <1>7. CASE ContainerStop
    BY <1>7 DEF ContainerStop, Request, Steady, CFail, Reget, ContainerTaskFields
  <1>8. CASE ContainerRemove
    BY <1>8 DEF ContainerRemove, Steady, CFail, Reget, ContainerTaskFields
  <1>9. CASE ContainerCreate
    BY <1>9 DEF ContainerCreate, Steady, CFail, Reget, ContainerTaskFields
  <1>10. CASE ContainerUpdate \/ ContainerRestart \/ SetPaused
    BY <1>10 DEF ContainerUpdate, ContainerRestart, SetPaused, Request, Steady, CFail, Reget, ContainerTaskFields
  <1>11. CASE DisconnectToReconnect \/ ConnectNetwork
    BY <1>11 DEF DisconnectToReconnect, ConnectNetwork, Request, Steady, CFail, Reget, ContainerTaskFields
  <1>12. CASE PurgeNetwork
    BY <1>12 DEF PurgeNetwork, Request, Steady, CFail, Reget, ContainerTaskFields
  <1>13. CASE ContainerStart
    BY <1>13 DEF ContainerStart, Request, Steady, CFail, Reget, ContainerTaskFields
  <1> QED
    BY <1>2, <1>3, <1>4, <1>5, <1>6, <1>7, <1>8, <1>9, <1>10, <1>11, <1>12, <1>13 DEF ContainerTask

(* A request of an undisturbed task.                                       *)
LEMMA RequestsAreGood ==
    ASSUME ContainerTask, ~StartContainerTask, PcInv(ctask, con, local), ContainerInv, remote # 0
    PROVE  Good(ctask', con', local')
  BY CollectIsGood, InspectIsGood, ImageIsGood, PullIsGood, StopIsGood, RemoveIsGood, GoneIsGood, CreateIsGood,
     RegetIsGood, UpdateIsGood, DisconnectIsGood, ConnectIsGood, PurgeIsGood, StartIsGood, RestartIsGood,
     PauseIsGood, HealthyIsGood, WaitIsGood
     DEF ContainerTask

(* The first step of a task.                                               *)
LEMMA StartsAreFresh ==
    ASSUME StartContainerTask, ctask = NoTask
    PROVE  PcInv(ctask', con', local') /\ DOMAIN ctask' = ContainerTaskFields
  <1>1. PICK p \in ContainerTasks :
          ctask' = [ctask EXCEPT !.pc = IF p.state = "absent" THEN "inspect" ELSE "collect", !.p = p, !.calm = TRUE]
    BY DEF StartContainerTask
  <1>2. p \in HostParam
    BY HostAssumption
  <1>3. DOMAIN ctask = ContainerTaskFields /\ Fresh(ctask) /\ ctask.created = FALSE /\ ctask.changed = FALSE
    BY DEF NoTask, ContainerTaskFields, Fresh
  <1>4. /\ Typed(ctask') /\ Fresh(ctask') /\ ctask'.pc \in {"collect", "inspect"}
    BY <1>1, <1>2, <1>3 DEF Typed, Fresh, ContainerTaskFields
  <1> QED
    BY <1>4 DEF PcInv, Typed

(* The daemon ends a removal, or has an answer of a health check.          *)
LEMMA DaemonKeepsCalm ==
    ASSUME PcInv(ctask, con, local), NEW d, con # Nothing,
           \/ d = Nothing /\ con.st = "removing"
           \/ d # Nothing /\ LikeBut(d, con) /\ con.hl = "starting"
    PROVE  PcInv(ctask, d, local)
  <1>1. ASSUME NEW b, Alike(con, b)
        PROVE  Alike(d, b)
    <2>1. CASE con = b
      BY <2>1 DEF Alike
    <2>2. CASE b # Nothing /\ (b.st = "removing" \/ b.hl = "starting") /\ LikeBut(con, b)
      <3>1. b.st = con.st /\ (LikeBut(d, con) => LikeBut(d, b))
        BY <2>2 DEF LikeBut, ContainerFields
      <3> QED
        BY <2>2, <3>1 DEF Alike
    <2> QED
      BY <1>1, <2>1, <2>2 DEF Alike
  <1>2. CASE d = Nothing /\ con.st = "removing"
    <2>1. ~BaseOk(ctask, con, local) /\ ~Running(con) /\ ~Working(ctask, con, local) /\ ~Limited(ctask, con, local)
          /\ ~Joined(ctask, con, local) /\ ~Joining(ctask, con, local)
      BY <1>2 DEF BaseOk, Running, Working, Limited, Joined, Joining
    <2>2. Leaving(ctask, con) => Leaving(ctask, d)
      BY <1>2 DEF Leaving
    <2>3. Untouched(ctask, con, local) => Untouched(ctask, d, local)
      BY <1>1 DEF Untouched
    <2>4. ctask.pc # "healthy"
      BY <1>2 DEF PcInv, Settled
    <2> QED
      BY <1>1, <2>1, <2>2, <2>3, <2>4 DEF PcInv
  <1>3. CASE d # Nothing /\ LikeBut(d, con)
    <2>1. /\ BaseOk(ctask, con, local) <=> BaseOk(ctask, d, local)
          /\ LimitsOk(ctask, con) <=> LimitsOk(ctask, d)
          /\ NetsOk(ctask.p, con) <=> NetsOk(ctask.p, d)
          /\ JoinedOk(ctask.p, con) <=> JoinedOk(ctask.p, d)
          /\ LiveOk(ctask.p, con) <=> LiveOk(ctask.p, d)
          /\ PausedOk(ctask.p, con) <=> PausedOk(ctask.p, d)
          /\ Running(con) <=> Running(d)
          /\ has_extra_networks(ctask.p, con) = has_extra_networks(ctask.p, d)
          /\ con.id = d.id /\ con.st = d.st
      BY <1>3, LikeParts
    <2>2. /\ Working(ctask, con, local) <=> Working(ctask, d, local)
          /\ Limited(ctask, con, local) <=> Limited(ctask, d, local)
          /\ Joined(ctask, con, local) <=> Joined(ctask, d, local)
          /\ Young(ctask, con) <=> Young(ctask, d)
      BY <2>1 DEF Working, Limited, Joined, Young
    <2>3. Joining(ctask, con, local) <=> Joining(ctask, d, local)
      BY <2>1, <2>2 DEF Joining
    <2>4. Leaving(ctask, con) <=> Leaving(ctask, d)
      BY <1>3, <2>1 DEF Leaving
    <2>5. Untouched(ctask, con, local) => Untouched(ctask, d, local)
      BY <1>1 DEF Untouched
    <2>6. ctask.p \in HostParam
      BY DEF PcInv, Typed
    <2>7. ctask.pc = "healthy" =>
             Settled(d, local, remote, ctask.p) /\ ~ctask.p.check /\ ctask.p.state # "absent" /\ (ctask.changed <=> Due(ctask))
      BY <2>1, <2>6, SettledParts DEF PcInv
    <2> QED
      BY <1>1, <1>3, <2>1, <2>2, <2>3, <2>4, <2>5, <2>7 DEF PcInv
  <1> QED
    BY <1>2, <1>3

(* What is known of a task outlives a step, as the registry does not       *)
(* change.                                                                 *)
LEMMA KnownAfterwards ==
    ASSUME remote' = remote, PcInv(ctask', con', local')
    PROVE  PcInv(ctask, con, local)'
  <1>1. Due(ctask)' <=> Due(ctask')
    BY DEF Due
  <1>2. BaseOk(ctask, con, local)' <=> BaseOk(ctask', con', local')
    BY DEF BaseOk, ImageOk
  <1>3. /\ Typed(ctask)' <=> Typed(ctask')
        /\ Fresh(ctask)' <=> Fresh(ctask')
        /\ Untouched(ctask, con, local)' <=> Untouched(ctask', con', local')
        /\ Leaving(ctask, con)' <=> Leaving(ctask', con')
        /\ Young(ctask, con)' <=> Young(ctask', con')
        /\ LimitsOk(ctask, con)' <=> LimitsOk(ctask', con')
    BY DEF Typed, Fresh, Untouched, Leaving, Young, LimitsOk
  <1>4. /\ Replaced(ctask, local)' <=> Replaced(ctask', local')
        /\ Working(ctask, con, local)' <=> Working(ctask', con', local')
    BY <1>1, <1>2 DEF Replaced, Working, ImageOk
  <1>5. Limited(ctask, con, local)' <=> Limited(ctask', con', local')
    BY <1>3, <1>4 DEF Limited
  <1>6. /\ Joined(ctask, con, local)' <=> Joined(ctask', con', local')
        /\ Joining(ctask, con, local)' <=> Joining(ctask', con', local')
    BY <1>3, <1>5 DEF Joined, Joining
  <1> QED
    BY <1>1, <1>2, <1>3, <1>4, <1>5, <1>6 DEF PcInv

(* The steps of the others leave the task alone, or disturb it.            *)
LEMMA OthersLeaveTask ==
    ASSUME \/ NetworkTask \/ ContainerExits \/ OtherRemoves \/ OtherStarts \/ OtherConnects
           \/ RemovalCompletes \/ HealthCheck \/ TasksExit \/ UNCHANGED hostVars
    PROVE  /\ remote' = remote /\ local' = local
           /\ \/ ctask' = ctask /\ (con' = con \/ RemovalCompletes \/ HealthCheck)
              \/ ctask' = Disturbed
              \/ ctask' = [NoTask EXCEPT !.pc = "over"]
  <1>1. CASE NetworkTask
    <2>1. CASE StartNetworkTask \/ ReadNetwork \/ ListToDisconnect \/ ReadCreated
      BY <2>1 DEF StartNetworkTask, ReadNetwork, ListToDisconnect, ReadCreated, daemonVars
    <2>2. CASE DisconnectContainer
      BY <2>2 DEF DisconnectContainer
    <2>3. CASE DeleteNetwork \/ CreateNetwork
      BY <2>3 DEF DeleteNetwork, CreateNetwork
    <2>4. CASE ConnectContainer
      BY <2>4 DEF ConnectContainer
    <2> QED
      BY <1>1, <2>1, <2>2, <2>3, <2>4 DEF NetworkTask
  <1>2. CASE ContainerExits \/ OtherRemoves \/ OtherStarts \/ OtherConnects
    BY <1>2 DEF ContainerExits, OtherRemoves, OtherStarts, OtherConnects, Other
  <1>3. CASE RemovalCompletes \/ HealthCheck
    BY <1>3 DEF RemovalCompletes, HealthCheck
  <1>4. CASE TasksExit \/ UNCHANGED hostVars
    BY <1>4 DEF TasksExit, hostVars, daemonVars
  <1> QED
    BY <1>1, <1>2, <1>3, <1>4

(* What a task reports that ends well; the registry stays as it is.        *)
ReportsTrue ==
    /\ remote' = remote
    /\ ctask.pc # "done" /\ ctask'.pc = "done" /\ ctask'.calm => ctask'.p = ctask.p /\ Final(ctask', con', local')

(* The steps of the task itself.                                           *)
LEMMA TaskStaysCalm ==
    ASSUME ContainerInv, CalmInv, ContainerTask
    PROVE  CalmInv' /\ ReportsTrue
  <1>1. remote' = remote
    BY DEF ContainerTask, StartContainerTask, CollectParams, Inspect, GetImage, PullImage, PullFails, ContainerStop,
           UnpauseToStop, ContainerRemove, AwaitGone, WaitTimeout, ContainerCreate, GetContainer, ContainerUpdate,
           DisconnectToReconnect, ConnectNetwork, PurgeNetwork, ContainerStart, WaitForContainer, ContainerRestart,
           SetPaused, AwaitHealthy, Request, daemonVars
  <1>2. CASE StartContainerTask
    <2>1. ctask = NoTask
      BY <1>2 DEF StartContainerTask, CalmInv
    <2>2. PcInv(ctask', con', local') /\ DOMAIN ctask' = ContainerTaskFields
      BY <1>2, <2>1, StartsAreFresh
    <2>3. ctask'.pc # "idle" /\ ctask'.pc # "done"
      BY <2>2 DEF PcInv
    <2> QED
      BY <1>1, <2>2, <2>3, KnownAfterwards DEF CalmInv, ReportsTrue
  <1>3. CASE ~StartContainerTask
    <2>1. ctask.pc \notin {"idle", "over", "done"}
      BY <1>3 DEF ContainerTask, CollectParams, Inspect, GetImage, PullImage, PullFails, ContainerStop,
           UnpauseToStop, ContainerRemove, AwaitGone, WaitTimeout, ContainerCreate, GetContainer, ContainerUpdate,
           DisconnectToReconnect, ConnectNetwork, PurgeNetwork, ContainerStart, WaitForContainer, ContainerRestart,
           SetPaused, AwaitHealthy, Request
    <2>2. Steady(ctask', ctask)
      BY <1>3, <2>1, RequestsAreSteady DEF CalmInv
    <2>3. ctask'.calm => Good(ctask', con', local')
      BY <1>3, <2>1, <2>2, RequestsAreGood DEF CalmInv, Undisturbed, Steady
    <2>4. ReportsTrue
      BY <1>1, <2>2, <2>3 DEF ReportsTrue, Good, Steady
    <2>5. ctask'.calm /\ ctask'.pc # "done" => PcInv(ctask, con, local)'
      BY <1>1, <2>3, KnownAfterwards DEF Good
    <2> QED
      BY <1>1, <2>2, <2>4, <2>5 DEF CalmInv, Steady, Undisturbed
  <1> QED
    BY <1>2, <1>3

(* The steps of the others.                                                *)
LEMMA OthersKeepCalm ==
    ASSUME ContainerInv, CalmInv,
           \/ NetworkTask \/ ContainerExits \/ OtherRemoves \/ OtherStarts \/ OtherConnects
           \/ RemovalCompletes \/ HealthCheck \/ TasksExit \/ UNCHANGED hostVars
    PROVE  CalmInv' /\ ReportsTrue
  <1>1. remote' = remote /\ local' = local
    BY OthersLeaveTask
  <1>2. CASE ctask' = ctask /\ con' = con
    <2>1. Undisturbed' => PcInv(ctask', con', local')
      BY <1>1, <1>2 DEF CalmInv, Undisturbed
    <2> QED
      BY <1>1, <1>2, <2>1, KnownAfterwards DEF CalmInv, ReportsTrue
  <1>3. CASE ctask' = ctask /\ (RemovalCompletes \/ HealthCheck)
    <2>1. /\ con # Nothing
          /\ \/ con' = Nothing /\ con.st = "removing"
             \/ con' # Nothing /\ LikeBut(con', con) /\ con.hl = "starting"
      <3>1. CASE RemovalCompletes
        BY <3>1 DEF RemovalCompletes
      <3>2. CASE HealthCheck
        <4>1. con # Nothing /\ con.hl = "starting" /\ con' = [con EXCEPT !.hl = "healthy"] /\ DOMAIN con = ContainerFields
          BY <3>2 DEF HealthCheck, ContainerInv
        <4>2. DOMAIN con' = ContainerFields /\ \A f \in ContainerFields \ {"hl"} : con'[f] = con[f]
          BY <4>1
        <4> QED
          BY <4>1, <4>2 DEF LikeBut, ContainerFields, Nothing
      <3> QED
        BY <1>3, <3>1, <3>2
    <2>2. Undisturbed' => PcInv(ctask', con', local')
      BY <1>1, <1>3, <2>1, DaemonKeepsCalm DEF CalmInv, Undisturbed
    <2> QED
      BY <1>1, <1>3, <2>2, KnownAfterwards DEF CalmInv, ReportsTrue
  <1>4. CASE ctask' = Disturbed
    <2>1. CASE ctask.pc \in {"idle", "over"}
      BY <1>1, <1>4, <2>1 DEF Disturbed, CalmInv, Undisturbed, ReportsTrue
    <2>2. CASE ctask.pc \notin {"idle", "over"}
      <3>1. ctask' = [ctask EXCEPT !.calm = FALSE] /\ DOMAIN ctask = ContainerTaskFields
        BY <1>4, <2>2 DEF Disturbed, CalmInv
      <3>2. DOMAIN ctask' = ContainerTaskFields /\ ctask'.pc = ctask.pc /\ ctask'.calm = FALSE
        BY <3>1 DEF ContainerTaskFields
      <3> QED
        BY <1>1, <2>2, <3>2 DEF CalmInv, Undisturbed, ReportsTrue
    <2> QED
      BY <2>1, <2>2
  <1>5. CASE ctask' = [NoTask EXCEPT !.pc = "over"]
    <2>1. DOMAIN ctask' = ContainerTaskFields /\ ctask'.pc = "over"
      BY <1>5 DEF NoTask, ContainerTaskFields
    <2> QED
      BY <1>1, <2>1 DEF CalmInv, Undisturbed, ReportsTrue
  <1> QED
    BY <1>2, <1>3, <1>4, <1>5, OthersLeaveTask

(* The invariant holds at first.                                         *)
LEMMA CalmStarts == HostInit => CalmInv
  <1> SUFFICES ASSUME HostInit
               PROVE  CalmInv
    OBVIOUS
  <1>1. remote # 0 /\ ctask = NoTask
    BY DEF HostInit
  <1>2. DOMAIN ctask = ContainerTaskFields /\ ctask.pc = "idle"
    BY <1>1 DEF NoTask, ContainerTaskFields
  <1> QED
    BY <1>1, <1>2 DEF CalmInv, Undisturbed

(* Every step keeps it, and reports the truth.                           *)
LEMMA CalmSteps ==
    ASSUME HostInv, CalmInv, [HostNext]_hostVars
    PROVE  CalmInv' /\ ReportsTrue
  BY TaskStaysCalm, OthersKeepCalm DEF HostInv, HostNext

(* The answer is the one the parameters ask for.                           *)
TrueStep ==
    ctask.pc # "done" /\ ctask'.pc = "done" /\ ctask'.calm =>
         LET p == ctask.p
             b == ctask'.before
         IN  IF p.check
             THEN /\ local' = b.local
                  /\ con' = b.con \/ (b.con # Nothing /\ (b.con.st = "removing" \/ b.con.hl = "starting"))
                  /\ ctask'.changed <=> ~Settled(b.con, b.local, b.local, [p EXCEPT !.lim = 0]) \/ Repeats(p)
             ELSE /\ Settled(con', local', remote', p) \/ (p.state = "absent" /\ con' # Nothing /\ con'.st = "removing")
                  /\ ctask'.changed <=> ~Settled(b.con, b.local, remote', p) \/ Repeats(p)

(* What was accounted for is what the parameters ask for.                *)
LEMMA ReportsAreTrue ==
    ASSUME ReportsTrue
    PROVE  TrueStep
  <1>1. SUFFICES ASSUME ctask.pc # "done", ctask'.pc = "done", ctask'.calm
                 PROVE  LET p == ctask.p
                            b == ctask'.before
                        IN  IF p.check
                            THEN /\ local' = b.local
                                 /\ con' = b.con \/ (b.con # Nothing /\ (b.con.st = "removing" \/ b.con.hl = "starting"))
                                 /\ ctask'.changed <=> ~Settled(b.con, b.local, b.local, [p EXCEPT !.lim = 0]) \/ Repeats(p)
                            ELSE /\ \/ Settled(con', local', remote', p)
                                    \/ (p.state = "absent" /\ con' # Nothing /\ con'.st = "removing")
                                 /\ ctask'.changed <=> ~Settled(b.con, b.local, remote', p) \/ Repeats(p)
    BY DEF TrueStep
  <1>2. ctask'.p = ctask.p /\ Final(ctask', con', local') /\ remote' = remote
    BY <1>1 DEF ReportsTrue
  <1>3. CASE ctask.p.check
    BY <1>2, <1>3 DEF Final, Due, Asked, Alike
  <1>4. CASE ~ctask.p.check
    BY <1>2, <1>4 DEF Final, Due, Asked
  <1> QED
    BY <1>3, <1>4

(* A docker_container task that nobody disturbs and that ends well has     *)
(* brought about what its parameters say, and reports a change exactly if  *)
(* there was one to make; a check changes nothing and foretells the same   *)
(* (ContainerManager.present, absent).                                     *)
THEOREM ResultsAreTrue == HostSpec => ResultsTrue
  <1>1. HostInit => HostInv /\ CalmInv
    BY HostStarts, CalmStarts
  <1>2. HostInv /\ CalmInv /\ [HostNext]_hostVars => HostInv' /\ CalmInv' /\ ReportsTrue
    BY HostSteps, CalmSteps
  <1>3. HostInv /\ CalmInv /\ [HostNext]_hostVars => [TrueStep]_hostVars
    BY <1>2, ReportsAreTrue
  <1> QED
    BY <1>1, <1>2, <1>3, PTL DEF HostSpec, ResultsTrue, TrueStep
=============================================================================
