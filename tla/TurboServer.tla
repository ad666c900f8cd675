----------------------------- MODULE TurboServer -----------------------------
(***************************************************************************)
(* The turbo mode of cloud.common: a module or a lookup plugin does not    *)
(* run in its own process but asks a daemon, which the first one to need   *)
(* it starts and which stops itself when it is idle.                       *)
(*                                                                         *)
(* The daemon is one asyncio loop: a step below is what happens between    *)
(* two awaits.  A module whose main is no coroutine runs through without   *)
(* an await and is the special case in which nothing else happens between  *)
(* Begin and End.  A daemon is named after the client that started it, for *)
(* a client starts at most one.                                            *)
(***************************************************************************)
EXTENDS Naturals, FiniteSets

CONSTANTS
    Clients,       \* processes that call bind() and communicate()
    NoOne,
    MaxAttempts,   \* bound: attempts to connect after the first (100)
    MaxFaults      \* bound: signals, crashes, killed clients, bad results

ASSUME TurboAssumption ==
    /\ NoOne \notin Clients
    /\ MaxAttempts \in Nat
    /\ MaxFaults \in Nat

VARIABLES
    file,     \* whose socket the socket path leads to
    daemon,   \* the daemons
    client,   \* the clients
    job,      \* how far handle() has come for each client
    faults,
    runs,     \* history: how often the client's plugin was run
    robbed    \* history: daemons whose socket another daemon removed

vars == <<file, daemon, client, job, faults, runs, robbed>>

(* st: "removed" is a daemon between the two steps of start_unix_server;   *)
(* watcher: the ghost_killer task is alive; jobs: jobs_ongoing; old: the   *)
(* jobs that began an hour ago; env: whose variables os.environ holds and  *)
(* whose parameters sys.stdin; holder: of env_lock; path: the archives     *)
(* that load() added to sys.path                                           *)
Daemon == [st : {"none", "starting", "removed", "serving", "stopped"}, watcher : BOOLEAN,
           jobs : SUBSET Clients, old : SUBSET Clients, env : Clients \cup {NoOne},
           holder : Clients \cup {NoOne}, path : SUBSET Clients]

(* plugin: what self._plugin asks the daemon to run; at: the daemon that   *)
(* it is connected to; running: it has started a daemon                    *)
Client == [plugin : {"module", "lookup"},
           pc : {"bind", "connected", "sent", "answered", "failed", "gone"},
           at : Clients \cup {NoOne}, attempt : 0..MaxAttempts, running : BOOLEAN]

Process(st) == [st |-> st, watcher |-> FALSE, jobs |-> {}, old |-> {}, env |-> NoOne,
                holder |-> NoOne, path |-> {}]

Active == {"reading", "locking", "running"}

----------------------------------------------------------------------------
(* AnsibleTurboSocket *)

(* The path leads to a socket that somebody listens on.                    *)
Listening == file # NoOne /\ daemon[file].st = "serving"

Connect(c) ==
    /\ client[c].pc = "bind"
    /\ Listening
    /\ client' = [client EXCEPT ![c].pc = "connected", ![c].at = file,
                                ![c].attempt = 0, ![c].running = FALSE]
    /\ UNCHANGED <<file, daemon, job, faults, runs, robbed>>

(* FileNotFoundError or ConnectionRefusedError: the first one starts a     *)
(* daemon (start_server returns when it has forked), the last is raised.   *)
ConnectFails(c) ==
    /\ client[c].pc = "bind"
    /\ ~Listening
    /\ client' = [client EXCEPT
           ![c].running = TRUE,
           ![c].pc = IF client[c].attempt = 0 THEN "failed" ELSE "bind",
           ![c].attempt = IF @ = 0 THEN 0 ELSE @ - 1]
    /\ daemon' = IF client[c].running THEN daemon ELSE [daemon EXCEPT ![c] = Process("starting")]
    /\ UNCHANGED <<file, job, faults, runs, robbed>>

(* communicate: sendall and shutdown                                       *)
Send(c) ==
    /\ client[c].pc = "connected"
    /\ daemon[client[c].at].st = "serving"
    /\ client' = [client EXCEPT ![c].pc = "sent"]
    /\ UNCHANGED <<file, daemon, job, faults, runs, robbed>>

(* Mutant: an empty answer is no reason to stop receiving.                 *)
NoAnswerAwaited(c) ==
    /\ client[c].pc = "connected"
    /\ daemon[client[c].at].st = "stopped"
    /\ client' = [client EXCEPT ![c].pc = "failed"]
    /\ UNCHANGED <<file, daemon, job, faults, runs, robbed>>

(* The daemon is gone: the send fails, or the answer is empty and cannot   *)
(* be decoded.                                                             *)
NoAnswer(c) ==
    /\ client[c].pc \in {"connected", "sent"}
    /\ daemon[client[c].at].st = "stopped"
    /\ client' = [client EXCEPT ![c].pc = "failed"]
    /\ UNCHANGED <<file, daemon, job, faults, runs, robbed>>

(* The client is killed before it has sent anything.                       *)
Killed(c) ==
    /\ faults < MaxFaults
    /\ client[c].pc = "connected"
    /\ client' = [client EXCEPT ![c].pc = "gone"]
    /\ faults' = faults + 1
    /\ UNCHANGED <<file, daemon, job, runs, robbed>>

----------------------------------------------------------------------------
(* The daemon *)

Serving(d) == daemon[d].st = "serving"

(* The socket path is unlinked, whoever it leads to.                       *)
Unlink(d) ==
    /\ file' = NoOne
    /\ robbed' = robbed \cup {e \in Clients \ {d} : e = file /\ daemon[e].st = "serving"}

(* stop: unlink, then end the loop.  If there is nothing to unlink the     *)
(* exception keeps the loop going, and ends the task that called stop.     *)
StopBy(d, watcher) ==
    IF file = NoOne
    THEN /\ daemon' = [daemon EXCEPT ![d].watcher = watcher]
         /\ UNCHANGED <<file, robbed>>
    ELSE /\ daemon' = [daemon EXCEPT ![d] = Process("stopped")]
         /\ Unlink(d)

(* start, as far as start_unix_server: a socket that is there is removed.  *)
RemoveSocket(d) ==
    /\ daemon[d].st = "starting"
    /\ daemon' = [daemon EXCEPT ![d].st = "removed", ![d].watcher = TRUE]
    /\ Unlink(d)
    /\ UNCHANGED <<client, job, faults, runs>>

(* It binds and listens.  If another daemon was faster the address is in   *)
(* use, and handle_exception stops this one, which unlinks the path.       *)
Bind(d) ==
    /\ daemon[d].st = "removed"
    /\ IF file = NoOne
       THEN /\ file' = d
            /\ daemon' = [daemon EXCEPT ![d].st = "serving"]
            /\ UNCHANGED robbed
       ELSE /\ daemon' = [daemon EXCEPT ![d] = Process("stopped")]
            /\ Unlink(d)
    /\ UNCHANGED <<client, job, faults, runs>>

(* Mutant: the job is not noted before the request has been read.          *)
HandleUnnoted(d, c) ==
    /\ Serving(d) /\ client[c].at = d /\ job[c] = "none"
    /\ job' = [job EXCEPT ![c] = "reading"]
    /\ daemon' = [daemon EXCEPT ![d].watcher = TRUE]
    /\ UNCHANGED <<file, client, faults, runs, robbed>>

(* Mutant: the watcher is cancelled and not created again.                 *)
HandleUnwatched(d, c) ==
    /\ Serving(d) /\ client[c].at = d /\ job[c] = "none"
    /\ job' = [job EXCEPT ![c] = "reading"]
    /\ daemon' = [daemon EXCEPT ![d].watcher = FALSE, ![d].jobs = @ \cup {c}]
    /\ UNCHANGED <<file, client, faults, runs, robbed>>

(* handle, down to the read: a new ghost_killer, and the job is noted      *)
Handle(d, c) ==
    /\ Serving(d) /\ client[c].at = d /\ job[c] = "none"
    /\ job' = [job EXCEPT ![c] = "reading"]
    /\ daemon' = [daemon EXCEPT ![d].watcher = TRUE, ![d].jobs = @ \cup {c}]
    /\ UNCHANGED <<file, client, faults, runs, robbed>>

(* The read returns nothing: handle returns, and the job stays noted.      *)
ReadNothing(d, c) ==
    /\ Serving(d) /\ client[c].at = d /\ job[c] = "reading"
    /\ client[c].pc = "gone"
    /\ job' = [job EXCEPT ![c] = "ended"]
    /\ UNCHANGED <<file, daemon, client, faults, runs, robbed>>

(* The request of a module: load() under sys_path_lock, which nobody can   *)
(* hold at an await                                                        *)
Load(d, c) ==
    /\ Serving(d) /\ client[c].at = d /\ job[c] = "reading"
    /\ client[c].pc = "sent" /\ client[c].plugin = "module"
    /\ job' = [job EXCEPT ![c] = "locking"]
    /\ daemon' = [daemon EXCEPT ![d].path = @ \cup {c}]
    /\ UNCHANGED <<file, client, faults, runs, robbed>>

(* The answer of a job that is over                                        *)
Terminate(d, c) ==
    /\ job' = [job EXCEPT ![c] = "ended"]
    /\ client' = [client EXCEPT ![c].pc = "answered"]

(* The archive cannot be imported: the client is told so, and the archive  *)
(* stays on sys.path.                                                      *)
LoadFails(d, c) ==
    /\ Serving(d) /\ client[c].at = d /\ job[c] = "reading"
    /\ client[c].pc = "sent" /\ client[c].plugin = "module"
    /\ Terminate(d, c)
    /\ daemon' = [daemon EXCEPT ![d].path = @ \cup {c}, ![d].jobs = @ \ {c}]
    /\ UNCHANGED <<file, faults, runs, robbed>>

(* Mutant: the environment is set before the lock is taken.                *)
BeginUnlocked(d, c) ==
    /\ Serving(d) /\ client[c].at = d /\ job[c] = "locking"
    /\ job' = [job EXCEPT ![c] = "running"]
    /\ daemon' = [daemon EXCEPT ![d].env = c,
                                ![d].holder = IF @ = NoOne THEN c ELSE @]
    /\ runs' = [runs EXCEPT ![c] = @ + 1]
    /\ UNCHANGED <<file, client, faults, robbed>>

(* env_lock is free: environment and parameters are set, the module runs   *)
Begin(d, c) ==
    /\ Serving(d) /\ client[c].at = d /\ job[c] = "locking"
    /\ daemon[d].holder = NoOne
    /\ job' = [job EXCEPT ![c] = "running"]
    /\ daemon' = [daemon EXCEPT ![d].env = c, ![d].holder = c]
    /\ runs' = [runs EXCEPT ![c] = @ + 1]
    /\ UNCHANGED <<file, client, faults, robbed>>

(* run_as_lookup_plugin takes no lock.                                     *)
BeginLookup(d, c) ==
    /\ Serving(d) /\ client[c].at = d /\ job[c] = "reading"
    /\ client[c].pc = "sent" /\ client[c].plugin = "lookup"
    /\ job' = [job EXCEPT ![c] = "running"]
    /\ runs' = [runs EXCEPT ![c] = @ + 1]
    /\ UNCHANGED <<file, daemon, client, faults, robbed>>

(* The lock is released, unload() takes the archive off sys.path.          *)
Unloaded(d, c) ==
    [daemon[d] EXCEPT !.holder = IF @ = c THEN NoOne ELSE @, !.path = @ \ {c}]

(* Mutant: a module that failed is tried once more.                        *)
EndRetries(d, c) ==
    /\ Serving(d) /\ client[c].at = d /\ job[c] = "running"
    /\ \/ /\ Terminate(d, c)
          /\ daemon' = [daemon EXCEPT ![d] = [Unloaded(d, c) EXCEPT !.jobs = @ \ {c}]]
       \/ /\ job' = [job EXCEPT ![c] = "locking"]
          /\ daemon' = [daemon EXCEPT ![d].holder = NoOne]
          /\ UNCHANGED client
    /\ UNCHANGED <<file, faults, runs, robbed>>

(* The plugin has run.                                                     *)
End(d, c) ==
    /\ Serving(d) /\ client[c].at = d /\ job[c] = "running"
    /\ Terminate(d, c)
    /\ daemon' = [daemon EXCEPT ![d] = [Unloaded(d, c) EXCEPT !.jobs = @ \ {c}]]
    /\ UNCHANGED <<file, faults, runs, robbed>>

(* The result cannot be encoded: handle_exception stops the daemon, with   *)
(* whatever else it is doing; if it cannot, the job stays noted.           *)
EndsBadly(d, c) ==
    /\ faults < MaxFaults
    /\ Serving(d) /\ client[c].at = d /\ job[c] = "running"
    /\ job' = [job EXCEPT ![c] = "ended"]
    /\ IF file = NoOne
       THEN /\ daemon' = [daemon EXCEPT ![d] = Unloaded(d, c)]
            /\ client' = [client EXCEPT ![c].pc = "failed"]
            /\ UNCHANGED <<file, robbed>>
       ELSE /\ daemon' = [daemon EXCEPT ![d] = Process("stopped")]
            /\ Unlink(d)
            /\ UNCHANGED client
    /\ faults' = faults + 1
    /\ UNCHANGED runs

(* ghost_killer wakes up and finds no job that is less than an hour old.   *)
Expire(d) ==
    /\ Serving(d) /\ daemon[d].watcher
    /\ daemon[d].jobs \subseteq daemon[d].old
    /\ StopBy(d, FALSE)
    /\ UNCHANGED <<client, job, faults, runs>>

(* A job gets an hour old.                                                 *)
Hour(d, c) ==
    /\ Serving(d) /\ c \in daemon[d].jobs \ daemon[d].old
    /\ daemon' = [daemon EXCEPT ![d].old = @ \cup {c}]
    /\ UNCHANGED <<file, client, job, faults, runs, robbed>>

(* SIGTERM                                                                 *)
Signal(d) ==
    /\ faults < MaxFaults
    /\ Serving(d)
    /\ StopBy(d, daemon[d].watcher)
    /\ faults' = faults + 1
    /\ UNCHANGED <<client, job, runs>>

(* The process ends without stop(): it is killed, or an import exits.  The *)
(* socket stays behind.                                                    *)
Crash(d) ==
    /\ faults < MaxFaults
    /\ daemon[d].st \in {"starting", "removed", "serving"}
    /\ daemon' = [daemon EXCEPT ![d] = Process("stopped")]
    /\ faults' = faults + 1
    /\ UNCHANGED <<file, client, job, runs, robbed>>

----------------------------------------------------------------------------

Init ==
    /\ file = NoOne
    /\ daemon = [d \in Clients |-> Process("none")]
    /\ \E p \in {"module", "lookup"} :   \* which have sockets of their own
           client = [c \in Clients |-> [plugin |-> p, pc |-> "bind", at |-> NoOne,
                                        attempt |-> MaxAttempts, running |-> FALSE]]
    /\ job = [c \in Clients |-> "none"]
    /\ faults = 0
    /\ runs = [c \in Clients |-> 0]
    /\ robbed = {}

ClientStep(c) == Connect(c) \/ ConnectFails(c) \/ Send(c) \/ NoAnswer(c)

(* The steps of a daemon about a client                                    *)
JobStep(d, c) ==
    \/ Handle(d, c) \/ ReadNothing(d, c) \/ Load(d, c) \/ LoadFails(d, c)
    \/ Begin(d, c) \/ BeginLookup(d, c) \/ End(d, c)

StartStep(d) == RemoveSocket(d) \/ Bind(d)

Next ==
    \/ \E c \in Clients : ClientStep(c) \/ Killed(c)
    \/ \E d, c \in Clients : JobStep(d, c) \/ EndsBadly(d, c) \/ Hour(d, c)
    \/ \E d \in Clients : StartStep(d) \/ Expire(d) \/ Signal(d) \/ Crash(d)

(* Processes are scheduled, plugins come to an end, and time passes.       *)
Fairness ==
    /\ \A c \in Clients : WF_vars(ClientStep(c))
    /\ \A d, c \in Clients : WF_vars(JobStep(d, c)) /\ WF_vars(Hour(d, c))
    /\ \A d \in Clients : WF_vars(StartStep(d)) /\ WF_vars(Expire(d))

Spec == Init /\ [][Next]_vars /\ Fairness

----------------------------------------------------------------------------
(* Properties *)

TypeOK ==
    /\ file \in Clients \cup {NoOne}
    /\ daemon \in [Clients -> Daemon]
    /\ client \in [Clients -> Client]
    /\ job \in [Clients -> {"none", "ended"} \cup Active]
    /\ faults \in 0..MaxFaults
    /\ runs \in [Clients -> Nat]
    /\ robbed \subseteq Clients

(* A module that runs in the daemon, perhaps with awaits at which others   *)
(* are served, has its own environment, parameters and archive.            *)
OwnEnvironment ==
    \A c \in Clients :
        (job[c] = "running" /\ client[c].plugin = "module" /\ Serving(client[c].at))
            => LET d == daemon[client[c].at] IN d.env = c /\ d.holder = c /\ c \in d.path

(* A plugin is run once at most, however many daemons race and whichever   *)
(* of them fails: nothing is asked twice.                                  *)
AtMostOnce == \A c \in Clients : runs[c] <= 1

(* A daemon that stops of its own accord leaves no job unfinished that     *)
(* began within the hour.                                                  *)
NoWorkCutOff ==
    [][\A d, c \in Clients :
           (Serving(d) /\ daemon'[d].st = "stopped" /\ faults' = faults
              /\ client[c].at = d /\ job[c] \in Active)
            => c \in daemon[d].old]_vars

(* Every client gets an answer or an error: none waits for ever.           *)
ClientsReturn == \A c \in Clients : <>(client[c].pc \in {"answered", "failed", "gone"})

(* A daemon stops once it has nothing to do, also after an abandoned       *)
(* connection, provided that no other one has removed its socket.          *)
UnlessRobbedStops == \A d \in Clients : Serving(d) ~> (~Serving(d) \/ d \in robbed)
=============================================================================
