--------------------------- MODULE EventReceiver ---------------------------
(***************************************************************************)
(* The event API of one ansible-runner execution:                          *)
(*                                                                         *)
(*  - the handler goroutines of EventReceiver.handleEvents, one per POST   *)
(*    (internal/ansible/runner/eventapi/eventapi.go);                      *)
(*  - the goroutine of runner.Run that waits for ansible-runner to exit,   *)
(*    closes the receiver and collects the result of the HTTP server       *)
(*    (internal/ansible/runner/runner.go);                                 *)
(*  - the loop "for event := range result.Events()" of Reconcile, which    *)
(*    may be left early (internal/ansible/controller/reconcile.go);        *)
(*  - the plugin of ansible-runner that posts one event at a time and      *)
(*    waits for its answer (images/.../ansible_runner_http/events.py).     *)
(*                                                                         *)
(* A client is a connection that posts sequentially.  ansible-runner is    *)
(* one; the receiver is written for any number of them.  The payload of    *)
(* an event is abstracted to its client, its sequence number and whether   *)
(* it has a uuid ("job") or not ("status").                                *)
(***************************************************************************)
EXTENDS Integers, Sequences, FiniteSets

CONSTANTS
    Clients,    \* connections that post events
    MaxPosts,   \* bound on the posts of one client
    EventsCap   \* capacity of the channel Events (1000 in the code)

ASSUME ClientsAssumption == IsFiniteSet(Clients)
ASSUME BoundsAssumption  == MaxPosts \in Nat /\ EventsCap \in Nat \ {0}

VARIABLES
    pc,        \* where the handler of the client's last post is
    posts,     \* number of events each client has posted
    kind,      \* "job" or "status": whether that event has a uuid
    resp,      \* the status written for it, 0 before WriteHeader
    acked,     \* history: the job events answered 204
    readers,   \* RWMutex: readers holding the lock
    stopped,   \* EventReceiver.stopped
    events,    \* the buffered contents of the channel Events
    closed,    \* the channel Events has been closed
    received,  \* history: the events the Reconcile loop has taken
    consumer,  \* the Reconcile loop: "reading", "ended" or "left"
    closer,    \* the goroutine of runner.Run
    serving,   \* srv.Serve has not returned
    errChan,   \* number of results in errChan
    crashed    \* the Go runtime has aborted the operator process

handlerVars == <<pc, posts, kind, resp, acked>>
lockVars    == <<readers, stopped>>
chanVars    == <<events, closed, received, consumer>>
runVars     == <<closer, serving, errChan>>
vars == <<handlerVars, lockVars, chanVars, runVars, crashed>>

Event == [client : Clients, n : 1..MaxPosts]

PCs == {"idle", "reading", "decoded", "locked", "sending", "gone", "returning"}

\* Program points of the goroutine of runner.Run, in order: ansible-runner runs;
\* Close waits for the write lock; stopped is set; the server is closed and the
\* socket removed; the channel is closed; errChan has been received from.
CloserPCs == {"running", "lock", "stopped", "srvClosed", "chanClosed", "done"}

TypeOK ==
    /\ pc \in [Clients -> PCs]
    /\ posts \in [Clients -> 0..MaxPosts]
    /\ kind \in [Clients -> {"job", "status"}]
    /\ resp \in [Clients -> {0, 204, 400, 410, 500}]
    /\ acked \subseteq Event
    /\ readers \in 0..Cardinality(Clients)
    /\ stopped \in BOOLEAN
    /\ events \in Seq(Event) /\ Len(events) <= EventsCap
    /\ closed \in BOOLEAN
    /\ received \in Seq(Event)
    /\ consumer \in {"reading", "ended", "left"}
    /\ closer \in CloserPCs
    /\ serving \in BOOLEAN
    /\ errChan \in {0, 1}
    /\ crashed \in BOOLEAN

\* New: the socket listens, the server is started, the channel is empty.
Init ==
    /\ pc = [c \in Clients |-> "idle"]
    /\ posts = [c \in Clients |-> 0]
    /\ kind = [c \in Clients |-> "job"]
    /\ resp = [c \in Clients |-> 0]
    /\ acked = {}
    /\ readers = 0
    /\ stopped = FALSE
    /\ events = <<>>
    /\ closed = FALSE
    /\ received = <<>>
    /\ consumer = "reading"
    /\ closer = "running"
    /\ serving = TRUE
    /\ errChan = 0
    /\ crashed = FALSE

Current(c) == [client |-> c, n |-> posts[c]]

Goto(c, label) == pc' = [pc EXCEPT ![c] = label]

WriteHeader(c, code) == resp' = [resp EXCEPT ![c] = code]

----------------------------------------------------------------------------
(* The handlers.                                                           *)

\* send_request: the plugin posts its next event, once the previous one was
\* answered, while ansible-runner lives and the server accepts connections.
Post(c) ==
    /\ ~crashed
    /\ closer = "running" /\ serving
    /\ pc[c] = "idle" /\ posts[c] < MaxPosts
    /\ posts' = [posts EXCEPT ![c] = @ + 1]
    /\ \E k \in {"job", "status"} : kind' = [kind EXCEPT ![c] = k]
    /\ WriteHeader(c, 0)
    /\ Goto(c, "reading")
    /\ UNCHANGED <<acked, lockVars, chanVars, runVars, crashed>>

\* The request is not an event: wrong path, method or content type, a body
\* that cannot be read (the connection is gone) or decoded.  The codes 404, 405,
\* 415, 500 and 400 are told apart by nothing and collapsed into 400.
Reject(c) ==
    /\ ~crashed
    /\ pc[c] = "reading"
    /\ WriteHeader(c, 400)
    /\ Goto(c, "idle")
    /\ UNCHANGED <<posts, kind, acked, lockVars, chanVars, runVars, crashed>>

\* The body has been read and decoded.
Decode(c) ==
    /\ ~crashed
    /\ pc[c] = "reading"
    /\ Goto(c, "decoded")
    /\ UNCHANGED <<posts, kind, resp, acked, lockVars, chanVars, runVars, crashed>>

\* e.mutex.RLock(): blocks behind a writer that is waiting in Lock.
RLock(c) ==
    /\ ~crashed
    /\ pc[c] = "decoded"
    /\ closer # "lock"
    /\ readers' = readers + 1
    /\ Goto(c, "locked")
    /\ UNCHANGED <<posts, kind, resp, acked, stopped, chanVars, runVars, crashed>>

\* e.mutex.RUnlock(): with no reader left the runtime reports the fatal error
\* "RUnlock of unlocked RWMutex" and the whole process dies on the spot.
RUnlock(c, label) ==
    \/ /\ readers > 0
       /\ readers' = readers - 1
       /\ Goto(c, label)
       /\ UNCHANGED crashed
    \/ /\ readers = 0
       /\ crashed' = TRUE
       /\ UNCHANGED <<readers, pc>>

\* stopped is set: the lock is released here and once more on return.
Gone(c) ==
    /\ ~crashed
    /\ pc[c] = "locked" /\ stopped
    /\ RUnlock(c, "gone")
    /\ WriteHeader(c, IF crashed' THEN 0 ELSE 410)
    /\ UNCHANGED <<posts, kind, acked, stopped, chanVars, runVars>>

\* An event without a uuid is dropped and answered 204.
DropStatus(c) ==
    /\ ~crashed
    /\ pc[c] = "locked" /\ ~stopped /\ kind[c] = "status"
    /\ WriteHeader(c, 204)
    /\ Goto(c, "returning")
    /\ UNCHANGED <<posts, kind, acked, lockVars, chanVars, runVars, crashed>>

\* A job event enters the select, still holding the read lock.
StartSend(c) ==
    /\ ~crashed
    /\ pc[c] = "locked" /\ ~stopped /\ kind[c] = "job"
    /\ Goto(c, "sending")
    /\ UNCHANGED <<posts, kind, resp, acked, lockVars, chanVars, runVars, crashed>>

\* The select takes "e.Events <- event": there is room in the channel.
Send(c) ==
    /\ ~crashed
    /\ pc[c] = "sending" /\ Len(events) < EventsCap
    /\ events' = Append(events, Current(c))
    /\ acked' = acked \cup {Current(c)}
    /\ WriteHeader(c, 204)
    /\ Goto(c, "returning")
    /\ UNCHANGED <<posts, kind, lockVars, closed, received, consumer, runVars, crashed>>

\* Mutant: the timeout falls through to the final WriteHeader(204).
SendTimeoutAcks(c) ==
    /\ ~crashed
    /\ pc[c] = "sending" /\ Len(events) = EventsCap
    /\ acked' = acked \cup {Current(c)}
    /\ WriteHeader(c, 204)
    /\ Goto(c, "returning")
    /\ UNCHANGED <<posts, kind, lockVars, chanVars, runVars, crashed>>

\* Mutant: a plain send without a timer.
SendTimeoutNever(c) == FALSE

\* The select takes the timer: the channel stayed full for 10 seconds.
SendTimeout(c) ==
    /\ ~crashed
    /\ pc[c] = "sending" /\ Len(events) = EventsCap
    /\ WriteHeader(c, 500)
    /\ Goto(c, "returning")
    /\ UNCHANGED <<posts, kind, acked, lockVars, chanVars, runVars, crashed>>

\* The handler returns: the deferred RUnlock runs, the answer is flushed.
Return(c) ==
    /\ ~crashed
    /\ pc[c] \in {"gone", "returning"}
    /\ RUnlock(c, "idle")
    /\ UNCHANGED <<posts, kind, resp, acked, stopped, chanVars, runVars>>

----------------------------------------------------------------------------
(* The goroutine of runner.Run and the server.                             *)

\* Mutant: the channel is closed as soon as ansible-runner has exited.
RunnerExitsClosing ==
    /\ ~crashed
    /\ closer = "running"
    /\ closer' = "lock"
    /\ closed' = TRUE
    /\ UNCHANGED <<handlerVars, lockVars, events, received, consumer, serving, errChan, crashed>>

\* dc.CombinedOutput() returns: ansible-runner has exited or was killed, even
\* with a POST under way.  The goroutine calls Close, which waits in Lock.
RunnerExits ==
    /\ ~crashed
    /\ closer = "running"
    /\ closer' = "lock"
    /\ UNCHANGED <<handlerVars, lockVars, chanVars, serving, errChan, crashed>>

\* Mutant: stopped is set without taking the write lock.
StopUnlocked ==
    /\ ~crashed
    /\ closer = "lock"
    /\ stopped' = TRUE
    /\ closer' = "stopped"
    /\ UNCHANGED <<handlerVars, readers, chanVars, serving, errChan, crashed>>

\* Lock is granted once no reader holds the lock; stopped is set; Unlock.
Stop ==
    /\ ~crashed
    /\ closer = "lock" /\ readers = 0
    /\ stopped' = TRUE
    /\ closer' = "stopped"
    /\ UNCHANGED <<handlerVars, readers, chanVars, serving, errChan, crashed>>

\* e.server.Close() and os.Remove(e.SocketPath).
CloseServer ==
    /\ ~crashed
    /\ closer = "stopped"
    /\ closer' = "srvClosed"
    /\ UNCHANGED <<handlerVars, lockVars, chanVars, serving, errChan, crashed>>

\* Mutant: Close forgets to close the channel.
CloseEventsForgotten ==
    /\ ~crashed
    /\ closer = "srvClosed"
    /\ closer' = "chanClosed"
    /\ UNCHANGED <<handlerVars, lockVars, chanVars, serving, errChan, crashed>>

\* close(e.Events): Close returns.
CloseEvents ==
    /\ ~crashed
    /\ closer = "srvClosed"
    /\ closed' = TRUE
    /\ closer' = "chanClosed"
    /\ UNCHANGED <<handlerVars, lockVars, events, received, consumer, serving, errChan, crashed>>

\* srv.Serve returns, because Accept failed or the server was closed; its
\* result is sent to errChan, which has room for one.
ServeReturns ==
    /\ ~crashed
    /\ serving
    /\ errChan = 0
    /\ serving' = FALSE
    /\ errChan' = 1
    /\ UNCHANGED <<handlerVars, lockVars, chanVars, closer, crashed>>

\* err = <-errChan.
ReceiveErr ==
    /\ ~crashed
    /\ closer = "chanClosed" /\ errChan = 1
    /\ errChan' = 0
    /\ closer' = "done"
    /\ UNCHANGED <<handlerVars, lockVars, chanVars, serving, crashed>>

----------------------------------------------------------------------------
(* The loop over result.Events() in Reconcile.                             *)

Receive ==
    /\ ~crashed
    /\ consumer = "reading" /\ events # <<>>
    /\ received' = Append(received, Head(events))
    /\ events' = Tail(events)
    /\ UNCHANGED <<handlerVars, lockVars, closed, consumer, runVars, crashed>>

\* The event just received makes Reconcile return (a requeue_after task, or an
\* event it cannot convert): nobody reads the channel any more.
Leave ==
    /\ ~crashed
    /\ consumer = "reading" /\ events # <<>>
    /\ received' = Append(received, Head(events))
    /\ events' = Tail(events)
    /\ consumer' = "left"
    /\ UNCHANGED <<handlerVars, lockVars, closed, runVars, crashed>>

\* The channel is closed and drained: the range loop ends.
RangeEnds ==
    /\ ~crashed
    /\ consumer = "reading" /\ closed /\ events = <<>>
    /\ consumer' = "ended"
    /\ UNCHANGED <<handlerVars, lockVars, events, closed, received, runVars, crashed>>

----------------------------------------------------------------------------
Handle(c) ==
    \/ Decode(c) \/ RLock(c) \/ Gone(c) \/ DropStatus(c)
    \/ StartSend(c) \/ Send(c) \/ SendTimeout(c) \/ Return(c)

Close == Stop \/ CloseServer \/ CloseEvents \/ ReceiveErr

Consume == Receive \/ Leave \/ RangeEnds

\* The operator runs until everything has returned or it has crashed.
Next ==
    \/ \E c \in Clients : Post(c) \/ Reject(c) \/ Handle(c)
    \/ RunnerExits
    \/ Close
    \/ ServeReturns
    \/ Consume

\* Goroutines are scheduled and timers fire; http.Server makes Serve return
\* once it is closed.  Nothing obliges ansible-runner to post or to exit.
Fairness ==
    /\ \A c \in Clients : WF_vars(Reject(c) \/ Handle(c))
    /\ WF_vars(Close)
    /\ WF_vars(Consume)
    /\ WF_vars(closer = "chanClosed" /\ ServeReturns)

Spec == Init /\ [][Next]_vars /\ Fairness

----------------------------------------------------------------------------
(* Properties.                                                             *)

\* The handlers between RLock and the deferred RUnlock.
Holders == {c \in Clients : pc[c] \in {"locked", "sending", "gone", "returning"}}

\* The lock discipline behind handleEvents and Close.  Until stopped is set
\* every handler in its critical section holds the read lock exactly once, so
\* Lock waits for all of them; afterwards a handler may have released more than
\* it took, and none is left that could send.
LockInv ==
    /\ readers <= Cardinality(Holders)
    /\ ~stopped => /\ readers = Cardinality(Holders)
                   /\ \A c \in Clients : pc[c] # "gone"
    /\ stopped => \A c \in Clients : pc[c] \notin {"sending", "returning"}
    /\ stopped <=> closer \notin {"running", "lock"}
    /\ closed => stopped

\* "Guarantee that the Events channel will not be written to if stopped == true,
\* because in that case the channel has been closed" (handleEvents): no handler
\* is in the select, ready to send, once Close has closed the channel; the send
\* would panic.
NoSendOnClosed == closed => \A c \in Clients : pc[c] # "sending"

\* What the plugin was told and what Reconcile saw agree: when the range loop
\* ends by itself, every job event answered 204 has been received, and each
\* once.  Reconcile decides from them whether the run was successful.
AcceptedDelivered ==
    consumer = "ended" =>
        /\ \A e \in acked : \E i \in 1..Len(received) : received[i] = e
        /\ \A i, j \in 1..Len(received) : received[i] = received[j] => i = j

\* Once ansible-runner has exited the goroutine of runner.Run finishes, however
\* full the channel is and whoever still reads it, unless the process dies.
CloseCompletes == (closer # "running") ~> (closer = "done" \/ crashed)

\* Once ansible-runner has exited Reconcile leaves its loop: it never waits for
\* an event that cannot come any more.
LoopReleased == (closer # "running") ~> (consumer # "reading" \/ crashed)

\* The receiver implements the pipe of module EventPipe: the channel and what
\* was taken from it are the accepted events, closing it seals the pipe.  Close
\* and a late handler are the hard part: an event accepted after the channel is
\* closed, or accepted twice or out of the plugin's order, is not a step of it.
Pipe == INSTANCE EventPipe WITH
            accepted  <- received \o events,
            delivered <- Len(received),
            sealed    <- closed,
            reader    <- consumer

ImplementsPipe == Pipe!PipeSpec

\* The documentation of EventReceiver.stopped: "When true, requests to POST an
\* event will receive a 410 Gone response".
StoppedAnswersGone ==
    \A c \in Clients :
        (pc[c] = "locked" /\ stopped) ~> (pc[c] = "idle" /\ resp[c] = 410)

============================================================================
