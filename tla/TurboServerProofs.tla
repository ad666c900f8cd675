-------------------------- MODULE TurboServerProofs --------------------------
(***************************************************************************)
(* AtMostOnce, OwnEnvironment and NoWorkCutOff for any number of clients   *)
(* and of daemons that race for the socket path.                           *)
(*                                                                         *)
(* None of the three is inductive.  What they rest on is that a client     *)
(* connects once and starts at most one daemon, that nobody is connected   *)
(* to a daemon that does not listen yet, and what handle() has written     *)
(* down in the daemon by the time it waits: the job in jobs_ongoing, the   *)
(* archive on sys.path, and the owner of the environment as the holder of  *)
(* env_lock.                                                               *)
(***************************************************************************)
EXTENDS TurboServer, TLAPS

(* A client that is still connecting has not been anywhere, and a daemon   *)
(* of its own only if it has noted so: a daemon is not started twice.      *)
StartedOnce ==
    \A c \in Clients :
        client[c].pc = "bind" =>
            /\ client[c].at = NoOne
            /\ ~client[c].running => daemon[c].st = "none"

(* Clients are connected to daemons that have listened, and only what a    *)
(* connection has brought is worked on.                                    *)
Connected ==
    \A c \in Clients :
        /\ \A d \in Clients : client[c].at = d => daemon[d].st \in {"serving", "stopped"}
        /\ job[c] # "none" => client[c].at # NoOne

(* The run is counted when the job begins to run, which it does not twice. *)
RunsCounted ==
    \A c \in Clients :
        /\ job[c] \in {"none", "reading", "locking"} => runs[c] = 0
        /\ runs[c] <= 1

(* What a daemon that serves knows of a job that is not over.              *)
JobNoted ==
    \A d, c \in Clients :
        (client[c].at = d /\ Serving(d) /\ job[c] \in Active) => c \in daemon[d].jobs

ModuleLoaded ==
    \A d, c \in Clients :
        client[c].at = d /\ Serving(d) =>
            /\ job[c] = "locking" => c \in daemon[d].path
            /\ job[c] = "running" /\ client[c].plugin = "module" =>
                   c \in daemon[d].path /\ daemon[d].env = c /\ daemon[d].holder = c

TurboInv == TypeOK /\ StartedOnce /\ Connected /\ RunsCounted /\ JobNoted /\ ModuleLoaded

----------------------------------------------------------------------------
(* The steps *)

(* Fields of the records, which a step replaces one by one.                *)
LEMMA DaemonFields ==
  ASSUME NEW d \in Daemon
  PROVE  /\ \A s \in {"none", "starting", "removed", "serving", "stopped"} :
              [d EXCEPT !.st = s] \in Daemon
         /\ \A w \in BOOLEAN : [d EXCEPT !.watcher = w] \in Daemon
         /\ \A X \in SUBSET Clients :
              /\ [d EXCEPT !.jobs = X] \in Daemon
              /\ [d EXCEPT !.old = X] \in Daemon
              /\ [d EXCEPT !.path = X] \in Daemon
         /\ \A h \in Clients \cup {NoOne} :
              /\ [d EXCEPT !.env = h] \in Daemon
              /\ [d EXCEPT !.holder = h] \in Daemon
  BY DEF Daemon

(* The same for two fields at once                                         *)
LEMMA DaemonFieldPairs ==
  ASSUME NEW d \in Daemon, NEW J \in SUBSET Clients, NEW P \in SUBSET Clients,
         NEW w \in BOOLEAN, NEW h \in Clients \cup {NoOne}
  PROVE  /\ [d EXCEPT !.watcher = w, !.jobs = J] \in Daemon
         /\ [d EXCEPT !.path = P, !.jobs = J] \in Daemon
         /\ [d EXCEPT !.holder = h, !.path = P] \in Daemon
  BY DEF Daemon

(* What is taken back after a module leaves the rest of the daemon alone.  *)
LEMMA UnloadedFacts ==
  ASSUME TypeOK, NEW d \in Clients, NEW c \in Clients
  PROVE  /\ Unloaded(d, c) \in Daemon
         /\ Unloaded(d, c).st = daemon[d].st /\ Unloaded(d, c).env = daemon[d].env
         /\ Unloaded(d, c).jobs = daemon[d].jobs
         /\ Unloaded(d, c).holder = IF daemon[d].holder = c THEN NoOne ELSE daemon[d].holder
         /\ Unloaded(d, c).path = daemon[d].path \ {c}
  <1>1. daemon[d] \in Daemon
    BY DEF TypeOK
  <1>2. /\ (IF daemon[d].holder = c THEN NoOne ELSE daemon[d].holder) \in Clients \cup {NoOne}
        /\ daemon[d].path \ {c} \in SUBSET Clients
    BY <1>1 DEF Daemon
  <1>3. Unloaded(d, c) \in Daemon
    BY <1>1, <1>2, DaemonFieldPairs DEF Unloaded
  <1> QED
    BY <1>1, <1>3 DEF Unloaded, Daemon

(* The daemon after End                                                    *)
LEMMA EndFacts ==
  ASSUME TypeOK, NEW d \in Clients, NEW c \in Clients, End(d, c)
  PROVE  /\ daemon'[d] \in Daemon
         /\ daemon'[d].st = daemon[d].st /\ daemon'[d].env = daemon[d].env
         /\ daemon'[d].jobs = daemon[d].jobs \ {c}
         /\ daemon'[d].holder = IF daemon[d].holder = c THEN NoOne ELSE daemon[d].holder
         /\ daemon'[d].path = daemon[d].path \ {c}
  <1> DEFINE U == Unloaded(d, c)
  <1>1. U \in Daemon /\ daemon'[d] = [U EXCEPT !.jobs = U.jobs \ {c}]
    BY UnloadedFacts DEF TypeOK, End
  <1>2. /\ U.st = daemon[d].st /\ U.env = daemon[d].env /\ U.jobs = daemon[d].jobs
        /\ U.holder = IF daemon[d].holder = c THEN NoOne ELSE daemon[d].holder
        /\ U.path = daemon[d].path \ {c}
    BY UnloadedFacts
  <1> HIDE DEF U
  <1>3. U.jobs \ {c} \in SUBSET Clients
    BY <1>1 DEF Daemon
  <1>4. daemon'[d] \in Daemon
    BY <1>1, <1>3, DaemonFields
  <1> QED
    BY <1>1, <1>2, <1>4 DEF Daemon

(* A process that has just been started, or has ended, is a daemon.        *)
LEMMA ProcessIsDaemon ==
  ASSUME NEW s \in {"none", "starting", "removed", "serving", "stopped"}
  PROVE  Process(s) \in Daemon
  BY DEF Process, Daemon

(* The initial states                                                      *)
LEMMA TurboInit == Init => TurboInv
  <1> SUFFICES ASSUME Init PROVE TurboInv
    OBVIOUS
  <1>1. \A c \in Clients : /\ daemon[c] = Process("none") /\ job[c] = "none" /\ runs[c] = 0
                           /\ client[c].pc = "bind" /\ client[c].at = NoOne
                           /\ ~client[c].running
    BY DEF Init
  <1>2. TypeOK
    BY TurboAssumption, ProcessIsDaemon DEF Init, TypeOK, Client
  <1>3. StartedOnce /\ Connected /\ RunsCounted /\ JobNoted /\ ModuleLoaded
    BY <1>1, TurboAssumption
    DEF StartedOnce, Connected, RunsCounted, JobNoted, ModuleLoaded, Active, Process
  <1> QED
    BY <1>2, <1>3 DEF TurboInv

(* What a client does: it changes its own record, and the daemon that it   *)
(* starts is one that was not there.                                       *)
LEMMA ClientKeeps ==
  ASSUME TurboInv, NEW c \in Clients,
         Connect(c) \/ ConnectFails(c) \/ Send(c) \/ NoAnswer(c) \/ Killed(c)
  PROVE  TurboInv'
  <1>1. CASE Connect(c)
    <2>1. TypeOK'
      <3>1. file \in Clients /\ 0 \in 0..MaxAttempts /\ client[c] \in Client
        BY <1>1, TurboAssumption DEF TurboInv, TypeOK, Connect, Listening
      <3>2. [client[c] EXCEPT !.pc = "connected", !.at = file, !.attempt = 0,
                              !.running = FALSE] \in Client
        BY <3>1 DEF Client
      <3> QED
        BY <1>1, <3>2 DEF TurboInv, TypeOK, Connect
    <2>2. StartedOnce'
      BY <1>1 DEF TurboInv, TypeOK, Connect, StartedOnce, Client
    <2>3. Connected' /\ RunsCounted'
      BY <1>1, TurboAssumption
      DEF TurboInv, TypeOK, Connect, Listening, StartedOnce, Connected, RunsCounted, Client
    <2>4. JobNoted' /\ ModuleLoaded'
      BY <1>1, TurboAssumption
      DEF TurboInv, TypeOK, Connect, Listening, StartedOnce, Connected, JobNoted, ModuleLoaded,
          Active, Client, Serving
    <2> QED
      BY <2>1, <2>2, <2>3, <2>4 DEF TurboInv
  <1>2. CASE ConnectFails(c)
    <2>1. TypeOK'
      BY <1>2, TurboAssumption, ProcessIsDaemon DEF TurboInv, TypeOK, ConnectFails, Client
    <2>2. /\ \A e \in Clients : e # c => client'[e] = client[e] /\ daemon'[e] = daemon[e]
          /\ client[c].pc = "bind" /\ client[c].at = NoOne
          /\ client'[c].running = TRUE /\ client'[c].at = NoOne
          /\ client[c].running \/ daemon[c].st = "none"
          /\ daemon'[c] = daemon[c] \/ daemon'[c].st = "starting"
          /\ UNCHANGED <<job, runs>>
      BY <1>2 DEF TurboInv, TypeOK, ConnectFails, StartedOnce, Client, Process
    <2>3. \A e \in Clients : client[e].at = c => daemon'[c] = daemon[c]
      BY <1>2, <2>2 DEF TurboInv, TypeOK, ConnectFails, Connected, Client
    <2>4. StartedOnce' /\ Connected' /\ RunsCounted'
      BY <2>2, <2>3, TurboAssumption DEF TurboInv, StartedOnce, Connected, RunsCounted
    <2>5. JobNoted' /\ ModuleLoaded'
      BY <2>2, <2>3, TurboAssumption DEF TurboInv, JobNoted, ModuleLoaded, Serving
    <2> QED
      BY <2>1, <2>4, <2>5 DEF TurboInv
  <1>3. CASE Send(c) \/ NoAnswer(c) \/ Killed(c)
    <2>1. /\ \A e \in Clients : /\ client'[e].at = client[e].at
                                /\ client'[e].plugin = client[e].plugin
                                /\ client'[e].pc = "bind" => client'[e] = client[e]
          /\ UNCHANGED <<daemon, job, runs>>
      BY <1>3 DEF TurboInv, TypeOK, Send, NoAnswer, Killed, Client
    <2>2. TypeOK'
      BY <1>3, TurboAssumption DEF TurboInv, TypeOK, Send, NoAnswer, Killed, Client
    <2>3. StartedOnce' /\ Connected' /\ RunsCounted'
      BY <2>1 DEF TurboInv, StartedOnce, Connected, RunsCounted
    <2>4. JobNoted' /\ ModuleLoaded'
      BY <2>1 DEF TurboInv, JobNoted, ModuleLoaded, Serving
    <2> QED
      BY <2>2, <2>3, <2>4 DEF TurboInv
  <1> QED
    BY <1>1, <1>2, <1>3

(* A daemon that starts changes its own record only, and nobody is         *)
(* connected to it.                                                        *)
LEMMA StartKeeps ==
  ASSUME TurboInv, NEW d \in Clients, RemoveSocket(d) \/ Bind(d)
  PROVE  TurboInv'
  <1>1. /\ \A e \in Clients : e # d => daemon'[e] = daemon[e]
        /\ daemon[d].st \in {"starting", "removed"} /\ daemon'[d].st # "none"
        /\ UNCHANGED <<client, job, runs>>
    BY DEF TurboInv, TypeOK, RemoveSocket, Bind, Daemon, Process
  <1>2. TypeOK'
    <2>1. daemon'[d] \in Daemon
      <3>1. CASE RemoveSocket(d)
        <4>1. /\ daemon[d] \in Daemon
              /\ daemon'[d] = [daemon[d] EXCEPT !.st = "removed", !.watcher = TRUE]
          BY <3>1 DEF TurboInv, TypeOK, RemoveSocket
        <4> QED
          BY <4>1 DEF Daemon
      <3>2. CASE Bind(d)
        <4>1. /\ daemon[d] \in Daemon /\ Process("stopped") \in Daemon
              /\ \/ daemon'[d] = [daemon[d] EXCEPT !.st = "serving"]
                 \/ daemon'[d] = Process("stopped")
          BY <3>2, ProcessIsDaemon DEF TurboInv, TypeOK, Bind
        <4>2. [daemon[d] EXCEPT !.st = "serving"] \in Daemon
          BY <4>1, DaemonFields
        <4> QED
          BY <4>1, <4>2
      <3> QED
        BY <3>1, <3>2
    <2>2. daemon' \in [Clients -> Daemon]
      BY <2>1 DEF TurboInv, TypeOK, RemoveSocket, Bind
    <2> QED
      BY <2>2 DEF TurboInv, TypeOK, RemoveSocket, Bind, Unlink
  <1>3. \A c \in Clients : client[c].at # d
    BY <1>1 DEF TurboInv, Connected
  <1>4. StartedOnce' /\ Connected' /\ RunsCounted'
    BY <1>1, <1>3 DEF TurboInv, StartedOnce, Connected, RunsCounted
  <1>5. JobNoted' /\ ModuleLoaded'
    BY <1>1, <1>3 DEF TurboInv, JobNoted, ModuleLoaded, Serving
  <1> QED
    BY <1>2, <1>4, <1>5 DEF TurboInv

(* A daemon that stops, or whose watcher ends, and a job that gets an hour *)
(* old: no job is forgotten by a daemon that goes on.                      *)
LEMMA StopKeeps ==
  ASSUME TurboInv, NEW d \in Clients,
         Expire(d) \/ Signal(d) \/ Crash(d) \/ \E c \in Clients : Hour(d, c)
  PROVE  TurboInv'
  <1>1. /\ \A e \in Clients : e # d => daemon'[e] = daemon[e]
        /\ UNCHANGED <<client, job, runs>>
        /\ daemon[d].st \in {"starting", "removed", "serving"}
        /\ \/ daemon'[d].st = "stopped"
           \/ /\ daemon'[d].st = daemon[d].st /\ daemon'[d].jobs = daemon[d].jobs
              /\ daemon'[d].path = daemon[d].path /\ daemon'[d].env = daemon[d].env
              /\ daemon'[d].holder = daemon[d].holder
    BY DEF TurboInv, TypeOK, Expire, Signal, Crash, Hour, StopBy, Serving, Daemon, Process
  <1>2. TypeOK'
    <2>1. daemon'[d] \in Daemon
      <3>1. CASE Expire(d) \/ Signal(d)
        <4>1. PICK w \in BOOLEAN : StopBy(d, w)
          BY <3>1 DEF TurboInv, TypeOK, Expire, Signal, Daemon
        <4>2. daemon[d] \in Daemon
          BY DEF TurboInv, TypeOK
        <4>3. daemon'[d] \in {[daemon[d] EXCEPT !.watcher = w], Process("stopped")}
          BY <4>1 DEF TurboInv, TypeOK, StopBy
        <4> QED
          BY <4>2, <4>3, DaemonFields, ProcessIsDaemon
      <3>2. CASE Crash(d)
        BY <3>2, ProcessIsDaemon DEF TurboInv, TypeOK, Crash
      <3>3. CASE \E c \in Clients : Hour(d, c)
        <4>1. PICK c \in Clients : Hour(d, c)
          BY <3>3
        <4>2. /\ daemon[d] \in Daemon /\ daemon[d].old \cup {c} \in SUBSET Clients
              /\ daemon'[d] = [daemon[d] EXCEPT !.old = daemon[d].old \cup {c}]
          BY <4>1 DEF TurboInv, TypeOK, Hour, Daemon
        <4> QED
          BY <4>2, DaemonFields
      <3> QED
        BY <3>1, <3>2, <3>3
    <2>2. daemon' \in [Clients -> Daemon]
      BY <2>1 DEF TurboInv, TypeOK, Expire, Signal, Crash, Hour, StopBy
    <2> QED
      BY <2>2, TurboAssumption DEF TurboInv, TypeOK, Expire, Signal, Crash, Hour, StopBy, Unlink
  <1>3. StartedOnce' /\ Connected' /\ RunsCounted'
    BY <1>1 DEF TurboInv, StartedOnce, Connected, RunsCounted
  <1>4. JobNoted' /\ ModuleLoaded'
    BY <1>1 DEF TurboInv, JobNoted, ModuleLoaded, Serving
  <1> QED
    BY <1>2, <1>3, <1>4 DEF TurboInv

(* A job that begins: it is noted before the daemon waits for the request. *)
LEMMA HandleKeeps ==
  ASSUME TurboInv, NEW d \in Clients, NEW c \in Clients,
         Handle(d, c) \/ ReadNothing(d, c) \/ Load(d, c)
  PROVE  TurboInv'
  <1>1. /\ \A e \in Clients : e # d => daemon'[e] = daemon[e]
        /\ \A e \in Clients : e # c => job'[e] = job[e]
        /\ UNCHANGED <<file, client, faults, runs, robbed>>
        /\ client[c].at = d /\ daemon[d].st = "serving" /\ daemon'[d].st = "serving"
        /\ daemon'[d].env = daemon[d].env /\ daemon'[d].holder = daemon[d].holder
        /\ daemon[d].jobs \subseteq daemon'[d].jobs /\ daemon[d].path \subseteq daemon'[d].path
        /\ \/ job[c] = "none" /\ job'[c] = "reading" /\ c \in daemon'[d].jobs
           \/ job[c] = "reading" /\ job'[c] = "ended"
           \/ job[c] = "reading" /\ job'[c] = "locking" /\ c \in daemon'[d].path
    <2>1. CASE Handle(d, c)
      BY <2>1 DEF TurboInv, TypeOK, Handle, Serving, Daemon
    <2>2. CASE ReadNothing(d, c)
      BY <2>2 DEF TurboInv, TypeOK, ReadNothing, Serving
    <2>3. CASE Load(d, c)
      BY <2>3 DEF TurboInv, TypeOK, Load, Serving, Daemon
    <2> QED
      BY <2>1, <2>2, <2>3
  <1>2. TypeOK'
    <2>1. daemon'[d] \in Daemon
      <3>1. CASE Handle(d, c)
        <4>1. /\ daemon[d] \in Daemon
              /\ daemon'[d] = [daemon[d] EXCEPT !.watcher = TRUE, !.jobs = @ \cup {c}]
          BY <3>1 DEF TurboInv, TypeOK, Handle
        <4>2. daemon[d].jobs \cup {c} \in SUBSET Clients
          BY <4>1 DEF Daemon
        <4> QED
          BY <4>1, <4>2, DaemonFieldPairs
      <3>2. CASE ReadNothing(d, c)
        BY <3>2 DEF TurboInv, TypeOK, ReadNothing
      <3>3. CASE Load(d, c)
        <4>1. /\ daemon[d] \in Daemon
              /\ daemon'[d] = [daemon[d] EXCEPT !.path = @ \cup {c}]
          BY <3>3 DEF TurboInv, TypeOK, Load
        <4> QED
          BY <4>1 DEF Daemon
      <3> QED
        BY <3>1, <3>2, <3>3
    <2>2. /\ daemon' \in [Clients -> Daemon]
          /\ job' \in [Clients -> {"none", "ended"} \cup Active]
      BY <2>1 DEF TurboInv, TypeOK, Handle, ReadNothing, Load, Active
    <2> QED
      BY <1>1, <2>2 DEF TurboInv, TypeOK
  <1>3. StartedOnce' /\ Connected' /\ RunsCounted'
    BY <1>1, TurboAssumption DEF TurboInv, StartedOnce, Connected, RunsCounted
  <1>4. JobNoted'
    BY <1>1 DEF TurboInv, JobNoted, Serving, Active
  <1>5. ModuleLoaded'
    BY <1>1 DEF TurboInv, ModuleLoaded, Serving
  <1> QED
    BY <1>2, <1>3, <1>4, <1>5 DEF TurboInv

(* A plugin that begins to run.  A module takes the lock only if no other  *)
(* module of the daemon runs, for that one would hold it.                  *)
LEMMA BeginKeeps ==
  ASSUME TurboInv, NEW d \in Clients, NEW c \in Clients, Begin(d, c) \/ BeginLookup(d, c)
  PROVE  TurboInv'
  <1>1. /\ \A e \in Clients : e # d => daemon'[e] = daemon[e]
        /\ \A e \in Clients : e # c => job'[e] = job[e] /\ runs'[e] = runs[e]
        /\ UNCHANGED <<file, client, faults, robbed>>
        /\ client[c].at = d /\ daemon[d].st = "serving" /\ daemon'[d].st = "serving"
        /\ daemon'[d].jobs = daemon[d].jobs /\ daemon'[d].path = daemon[d].path
        /\ job[c] \in {"reading", "locking"} /\ job'[c] = "running"
        /\ runs[c] = 0 /\ runs'[c] = 1
    BY DEF TurboInv, TypeOK, Begin, BeginLookup, Serving, Daemon, RunsCounted
  <1>2. TypeOK'
    <2>1. daemon'[d] \in Daemon
      BY DEF TurboInv, TypeOK, Begin, BeginLookup, Daemon
    <2>2. /\ daemon' \in [Clients -> Daemon]
          /\ job' \in [Clients -> {"none", "ended"} \cup Active]
          /\ runs' \in [Clients -> Nat]
      BY <2>1 DEF TurboInv, TypeOK, Begin, BeginLookup, Active
    <2> QED
      BY <1>1, <2>2 DEF TurboInv, TypeOK
  <1>3. StartedOnce' /\ Connected' /\ RunsCounted'
    BY <1>1, TurboAssumption DEF TurboInv, StartedOnce, Connected, RunsCounted
  <1>4. JobNoted'
    BY <1>1 DEF TurboInv, JobNoted, Serving, Active
  <1>5. ModuleLoaded'
    <2>1. CASE Begin(d, c)
      <3>1. /\ daemon[d].holder = NoOne /\ job[c] = "locking"
            /\ daemon'[d].env = c /\ daemon'[d].holder = c
        BY <2>1 DEF TurboInv, TypeOK, Begin, Daemon
      <3>2. \A e \in Clients :
              ~(client[e].at = d /\ job[e] = "running" /\ client[e].plugin = "module")
        BY <1>1, <3>1, TurboAssumption DEF TurboInv, ModuleLoaded, Serving
      <3> QED
        BY <1>1, <3>1, <3>2 DEF TurboInv, ModuleLoaded, Serving
    <2>2. CASE BeginLookup(d, c)
      BY <1>1, <2>2 DEF TurboInv, ModuleLoaded, BeginLookup, Serving
    <2> QED
      BY <2>1, <2>2
  <1> QED
    BY <1>2, <1>3, <1>4, <1>5 DEF TurboInv

(* A job that is over gives back what is its own, and only that; or the    *)
(* daemon stops with it.                                                   *)
LEMMA EndKeeps ==
  ASSUME TurboInv, NEW d \in Clients, NEW c \in Clients,
         LoadFails(d, c) \/ End(d, c) \/ EndsBadly(d, c)
  PROVE  TurboInv'
  <1>1. /\ \A e \in Clients : e # d => daemon'[e] = daemon[e]
        /\ \A e \in Clients : e # c => job'[e] = job[e] /\ client'[e] = client[e]
        /\ UNCHANGED runs
        /\ client[c].at = d /\ daemon[d].st = "serving"
        /\ client'[c].at = d /\ job'[c] = "ended"
    BY DEF TurboInv, TypeOK, LoadFails, End, EndsBadly, Terminate, Serving, Client
  <1>2. client'[c].pc # "bind"
    BY <1>1, TurboAssumption
    DEF TurboInv, TypeOK, LoadFails, End, EndsBadly, Terminate, Client, StartedOnce
  <1>3. \/ daemon'[d].st = "stopped"
        \/ /\ daemon'[d].st = "serving" /\ daemon'[d].env = daemon[d].env
           /\ daemon'[d].holder \in {daemon[d].holder, NoOne}
           /\ daemon'[d].holder = NoOne => daemon[d].holder \in {c, NoOne}
           /\ daemon[d].jobs \subseteq daemon'[d].jobs \cup {c}
           /\ daemon[d].path \subseteq daemon'[d].path \cup {c}
    <2>1. CASE LoadFails(d, c)
      BY <2>1 DEF TurboInv, TypeOK, LoadFails, Serving, Daemon
    <2>2. CASE End(d, c)
      BY <1>1, <2>2, EndFacts DEF TurboInv
    <2>3. CASE EndsBadly(d, c)
      <3>1. daemon'[d] \in {Unloaded(d, c), Process("stopped")}
        BY <2>3 DEF TurboInv, TypeOK, EndsBadly
      <3> QED
        BY <1>1, <3>1, UnloadedFacts DEF TurboInv, Process
    <2> QED
      BY <2>1, <2>2, <2>3
  <1>4. TypeOK'
    <2>1. daemon'[d] \in Daemon
      <3>1. CASE LoadFails(d, c)
        <4>1. /\ daemon[d] \in Daemon
              /\ daemon'[d] = [daemon[d] EXCEPT !.path = @ \cup {c}, !.jobs = @ \ {c}]
          BY <3>1 DEF TurboInv, TypeOK, LoadFails
        <4>2. daemon[d].path \cup {c} \in SUBSET Clients /\ daemon[d].jobs \ {c} \in SUBSET Clients
          BY <4>1 DEF Daemon
        <4>3. [daemon[d] EXCEPT !.path = daemon[d].path \cup {c}, !.jobs = daemon[d].jobs \ {c}]
                \in Daemon
          BY <4>1, <4>2, DaemonFieldPairs, Zenon
        <4> QED
          BY <4>1, <4>3
      <3>2. CASE End(d, c)
        BY <3>2, EndFacts DEF TurboInv
      <3>3. CASE EndsBadly(d, c)
        BY <3>3, ProcessIsDaemon, UnloadedFacts DEF TurboInv, TypeOK, EndsBadly
      <3> QED
        BY <3>1, <3>2, <3>3
    <2>2. client'[c] \in Client
      BY DEF TurboInv, TypeOK, LoadFails, End, EndsBadly, Terminate, Client
    <2>3. /\ daemon' \in [Clients -> Daemon]
          /\ client' \in [Clients -> Client]
          /\ job' \in [Clients -> {"none", "ended"} \cup Active]
      BY <2>1, <2>2 DEF TurboInv, TypeOK, LoadFails, End, EndsBadly, Terminate
    <2> QED
      BY <2>3, TurboAssumption DEF TurboInv, TypeOK, LoadFails, End, EndsBadly, Unlink
  <1>5. StartedOnce' /\ Connected' /\ RunsCounted'
    BY <1>1, <1>2, <1>3, TurboAssumption DEF TurboInv, StartedOnce, Connected, RunsCounted
  <1>6. JobNoted'
    BY <1>1, <1>3 DEF TurboInv, JobNoted, Serving, Active
  <1>7. ModuleLoaded'
    BY <1>1, <1>3, TurboAssumption DEF TurboInv, ModuleLoaded, Serving
  <1> QED
    BY <1>4, <1>5, <1>6, <1>7 DEF TurboInv

(* Every step keeps the invariant.                                         *)
LEMMA TurboStep == TurboInv /\ [Next]_vars => TurboInv'
  <1> SUFFICES ASSUME TurboInv, [Next]_vars PROVE TurboInv'
    OBVIOUS
  <1>1. CASE UNCHANGED vars
    BY <1>1 DEF vars, TurboInv, TypeOK, StartedOnce, Connected, RunsCounted, JobNoted,
       ModuleLoaded, Serving
  <1>2. CASE \E c \in Clients : ClientStep(c) \/ Killed(c)
    BY <1>2, ClientKeeps DEF ClientStep
  <1>3. CASE \E d, c \in Clients : JobStep(d, c) \/ EndsBadly(d, c) \/ Hour(d, c)
    <2>1. PICK d \in Clients, c \in Clients : JobStep(d, c) \/ EndsBadly(d, c) \/ Hour(d, c)
      BY <1>3
    <2>2. CASE Handle(d, c) \/ ReadNothing(d, c) \/ Load(d, c)
      BY <2>2, HandleKeeps
    <2>3. CASE Begin(d, c) \/ BeginLookup(d, c)
      BY <2>3, BeginKeeps
    <2>4. CASE LoadFails(d, c) \/ End(d, c) \/ EndsBadly(d, c)
      BY <2>4, EndKeeps
    <2>5. CASE Hour(d, c)
      BY <2>5, StopKeeps
    <2> QED
      BY <2>1, <2>2, <2>3, <2>4, <2>5 DEF JobStep
  <1>4. CASE \E d \in Clients : StartStep(d) \/ Expire(d) \/ Signal(d) \/ Crash(d)
    BY <1>4, StartKeeps, StopKeeps DEF StartStep
  <1> QED
    BY <1>1, <1>2, <1>3, <1>4 DEF Next

----------------------------------------------------------------------------
(* The theorems *)

(* For any number of clients, daemons and failures: the daemons run what a *)
(* client asks for at most once.                                           *)
THEOREM OnceForAll == Spec => []AtMostOnce
  <1>1. TurboInv => AtMostOnce
    BY DEF TurboInv, RunsCounted, AtMostOnce
  <1> QED
    BY <1>1, TurboInit, TurboStep, PTL DEF Spec

(* A module that runs in a daemon has its own environment, parameters and  *)
(* archive, whatever else the daemon serves meanwhile: set_env under       *)
(* env_lock is enough, for the lookup plugins, which take no lock, leave   *)
(* the environment alone.                                                  *)
THEOREM EnvironmentIsOwn == Spec => []OwnEnvironment
  <1>1. TurboInv => OwnEnvironment
    <2> SUFFICES ASSUME TurboInv, NEW c \in Clients, job[c] = "running",
                        client[c].plugin = "module", Serving(client[c].at)
                 PROVE  /\ daemon[client[c].at].env = c /\ daemon[client[c].at].holder = c
                        /\ c \in daemon[client[c].at].path
      BY DEF OwnEnvironment
    <2>1. client[c].at \in Clients
      BY DEF TurboInv, TypeOK, Client, Connected
    <2> QED
      BY <2>1 DEF TurboInv, ModuleLoaded
  <1> QED
    BY <1>1, TurboInit, TurboStep, PTL DEF Spec

(* A daemon that ghost_killer stops leaves no job unfinished that began    *)
(* within the hour: every such job is in jobs_ongoing.                     *)
THEOREM WorkIsFinished == Spec => NoWorkCutOff
  <1> DEFINE Kept ==
        \A d, c \in Clients :
           (Serving(d) /\ daemon'[d].st = "stopped" /\ faults' = faults
              /\ client[c].at = d /\ job[c] \in Active)
            => c \in daemon[d].old
  <1>1. TurboInv /\ [Next]_vars => [Kept]_vars
    <2> SUFFICES ASSUME TurboInv, Next, NEW d \in Clients, NEW c \in Clients, Serving(d),
                        daemon'[d].st = "stopped", faults' = faults,
                        client[c].at = d, job[c] \in Active
                 PROVE  c \in daemon[d].old
      OBVIOUS
    <2>1. c \in daemon[d].jobs
      BY DEF TurboInv, JobNoted
    <2>2. CASE Expire(d)
      BY <2>1, <2>2 DEF Expire
    <2>3. CASE ~Expire(d)
      <3>1. \A e \in Clients : ~(Signal(e) \/ Crash(e) \/ Killed(e))
        BY DEF TurboInv, TypeOK, Signal, Crash, Killed
      <3>2. \A e, f \in Clients : ~EndsBadly(e, f)
        BY DEF TurboInv, TypeOK, EndsBadly
      <3>3. \A e \in Clients : ~ClientStep(e)
        BY DEF TurboInv, TypeOK, ClientStep, Connect, ConnectFails, Send, NoAnswer, Serving, Process
      <3>4. \A e, f \in Clients : ~JobStep(e, f) /\ ~Hour(e, f)
        <4>1. \A e, f \in Clients : ~Handle(e, f) /\ ~ReadNothing(e, f) /\ ~Load(e, f)
          BY DEF TurboInv, TypeOK, Handle, ReadNothing, Load, Serving, Daemon
        <4>2. \A e, f \in Clients : ~LoadFails(e, f) /\ ~Begin(e, f) /\ ~BeginLookup(e, f)
          BY DEF TurboInv, TypeOK, LoadFails, Begin, BeginLookup, Serving, Daemon
        <4>3. \A e, f \in Clients : ~Hour(e, f)
          BY DEF TurboInv, TypeOK, Hour, Serving, Daemon
        <4>4. ASSUME NEW e \in Clients, NEW f \in Clients, End(e, f) PROVE FALSE
          <5>1. daemon'[e].st = daemon[e].st /\ \A g \in Clients : g # e => daemon'[g] = daemon[g]
            BY <4>4, EndFacts DEF TurboInv, TypeOK, End
          <5> QED
            BY <5>1 DEF Serving
        <4> QED
          BY <4>1, <4>2, <4>3, <4>4 DEF JobStep
      <3>5. \A e \in Clients : ~StartStep(e)
        BY DEF TurboInv, TypeOK, StartStep, RemoveSocket, Bind, Serving, Daemon
      <3>6. \A e \in Clients : ~Expire(e)
        BY <2>3 DEF TurboInv, TypeOK, Expire, StopBy, Serving
      <3> QED
        BY <3>1, <3>2, <3>3, <3>4, <3>5, <3>6 DEF Next
    <2> QED
      BY <2>2, <2>3
  <1> QED
    BY <1>1, TurboInit, TurboStep, PTL DEF Spec, NoWorkCutOff
=============================================================================
