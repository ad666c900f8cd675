------------------------ MODULE EventReceiverProofs ------------------------
(***************************************************************************)
(* Proofs about the event API for any number of clients, any number of     *)
(* posts and any capacity of the channel.                                  *)
(***************************************************************************)
EXTENDS EventReceiver, FiniteSetTheorems, TLAPS

\* A post in progress has a sequence number.
PostInv == \A c \in Clients : pc[c] # "idle" => posts[c] >= 1

SafetyInv == TypeOK /\ PostInv /\ LockInv

\* The set of handlers in their critical section is finite, and a handler that
\* enters or leaves it changes its size by one.
LEMMA HoldersFinite == IsFiniteSet(Holders) /\ Cardinality(Holders) \in Nat
                       /\ Cardinality(Holders) <= Cardinality(Clients)
  BY ClientsAssumption, FS_Subset, FS_CardinalityType DEF Holders

\* A handler takes the read lock.
LEMMA HoldersEnter ==
  ASSUME NEW c \in Clients, pc \in [Clients -> PCs], c \notin Holders,
         NEW l \in {"locked", "sending", "gone", "returning"},
         Goto(c, l)
  PROVE  Cardinality(Holders') = Cardinality(Holders) + 1
  <1>1. Holders' = Holders \cup {c}
    BY DEF Holders, Goto, PCs
  <1> QED
    BY <1>1, HoldersFinite, FS_AddElement

\* A handler returns and its deferred RUnlock runs.
LEMMA HoldersLeave ==
  ASSUME NEW c \in Clients, pc \in [Clients -> PCs], c \in Holders,
         Goto(c, "idle")
  PROVE  Cardinality(Holders') = Cardinality(Holders) - 1
  <1>1. Holders' = Holders \ {c}
    BY DEF Holders, Goto, PCs
  <1> QED
    BY <1>1, HoldersFinite, FS_RemoveElement

\* A step within the critical section, or outside it, does not change the set.
LEMMA HoldersStay ==
  ASSUME NEW c \in Clients, pc \in [Clients -> PCs], NEW l \in PCs,
         c \in Holders <=> l \in {"locked", "sending", "gone", "returning"},
         Goto(c, l)
  PROVE  Holders' = Holders
  BY DEF Holders, Goto, PCs

\* The two outcomes of RUnlock keep the types.
LEMMA RUnlockTypes ==
  ASSUME TypeOK, NEW c \in Clients, NEW l \in PCs, RUnlock(c, l)
  PROVE  /\ readers' \in 0..Cardinality(Clients)
         /\ pc' \in [Clients -> PCs]
         /\ crashed' \in BOOLEAN
  <1>1. CASE /\ readers > 0 /\ readers' = readers - 1
             /\ Goto(c, l) /\ crashed' = crashed
    <2>1. Cardinality(Clients) \in Nat
      BY ClientsAssumption, FS_CardinalityType
    <2>2. readers' \in 0..Cardinality(Clients)
      BY <1>1, <2>1 DEF TypeOK
    <2>3. pc' \in [Clients -> PCs]
      BY <1>1 DEF TypeOK, Goto
    <2>4. crashed' \in BOOLEAN
      BY <1>1, Zenon DEF TypeOK
    <2> QED
      BY <2>2, <2>3, <2>4
  <1>2. CASE /\ readers = 0 /\ crashed' = TRUE
             /\ readers' = readers /\ pc' = pc
    BY <1>2 DEF TypeOK
  <1> QED
    BY <1>1, <1>2, Zenon DEF RUnlock

----------------------------------------------------------------------------
\* At the start nobody holds the lock and nothing is closed.
LEMMA SafetyInit == Init => SafetyInv
  <1> SUFFICES ASSUME Init PROVE SafetyInv
    OBVIOUS
  <1>1. Holders = {}
    BY DEF Init, Holders
  <1>2. Cardinality(Holders) = 0
    BY <1>1, FS_EmptySet
  <1>3. Cardinality(Clients) \in Nat
    BY ClientsAssumption, FS_CardinalityType
  <1>4. TypeOK
    <2>1. readers \in 0..Cardinality(Clients) /\ Len(events) <= EventsCap
      BY <1>3, BoundsAssumption DEF Init
    <2>2. events \in Seq(Event) /\ received \in Seq(Event)
      BY DEF Init
    <2>3. posts \in [Clients -> 0..MaxPosts]
      BY BoundsAssumption DEF Init
    <2> QED
      BY <2>1, <2>2, <2>3 DEF Init, TypeOK, PCs, CloserPCs
  <1> QED
    BY <1>2, <1>4 DEF Init, SafetyInv, PostInv, LockInv

\* Types and sequence numbers are preserved by every step; the bound on readers
\* is the part of TypeOK that needs the lock discipline.
LEMMA SafetyStep == SafetyInv /\ [Next]_vars => SafetyInv'
  <1> SUFFICES ASSUME SafetyInv, [Next]_vars PROVE SafetyInv'
    OBVIOUS
  <1> USE DEF SafetyInv, handlerVars, lockVars, chanVars, runVars
  <1>0. /\ pc \in [Clients -> PCs] /\ readers \in Nat
        /\ Cardinality(Holders) \in Nat /\ Cardinality(Holders) <= Cardinality(Clients)
        /\ Cardinality(Clients) \in Nat
    BY HoldersFinite, ClientsAssumption, FS_CardinalityType DEF TypeOK
  <1>1. ASSUME NEW c \in Clients, Post(c) PROVE SafetyInv'
    <2>1. Holders' = Holders
      BY <1>1, <1>0 DEF Post, Goto, Holders, PCs
    <2>2. TypeOK' /\ PostInv'
      <3>1. posts' \in [Clients -> 0..MaxPosts] /\ posts'[c] >= 1
        BY <1>1, BoundsAssumption DEF Post, TypeOK
      <3>2. pc' \in [Clients -> PCs] /\ kind' \in [Clients -> {"job", "status"}]
            /\ resp' \in [Clients -> {0, 204, 400, 410, 500}]
        BY <1>1 DEF Post, Goto, WriteHeader, TypeOK, PCs
      <3>3. TypeOK'
        BY <1>1, <3>1, <3>2 DEF Post, TypeOK
      <3> QED
        BY <1>1, <3>1, <3>3 DEF Post, Goto, TypeOK, PostInv
    <2> QED
      BY <1>1, <2>1, <2>2 DEF Post, Goto, LockInv, TypeOK, PCs
  <1>2. ASSUME NEW c \in Clients, Reject(c) PROVE SafetyInv'
    <2>1. Holders' = Holders
      BY <1>2, <1>0 DEF Reject, Goto, Holders, PCs
    <2>2. TypeOK' /\ PostInv'
      BY <1>2 DEF Reject, Goto, WriteHeader, TypeOK, PostInv, PCs
    <2> QED
      BY <1>2, <2>1, <2>2 DEF Reject, Goto, LockInv, TypeOK, PCs
  <1>3. ASSUME NEW c \in Clients, Decode(c) PROVE SafetyInv'
    <2>1. Holders' = Holders
      BY <1>3, <1>0 DEF Decode, Goto, Holders, PCs
    <2>2. TypeOK' /\ PostInv'
      BY <1>3 DEF Decode, Goto, TypeOK, PostInv, PCs
    <2> QED
      BY <1>3, <2>1, <2>2 DEF Decode, Goto, LockInv, TypeOK, PCs
  <1>4. ASSUME NEW c \in Clients, RLock(c) PROVE SafetyInv'
    <2>1. Cardinality(Holders') = Cardinality(Holders) + 1
      <3>1. c \notin Holders /\ Goto(c, "locked")
        BY <1>4 DEF RLock, Holders
      <3> QED
        BY <3>1, <1>0, HoldersEnter
    <2>2. LockInv' /\ PostInv'
      BY <1>4, <1>0, <2>1 DEF RLock, Goto, LockInv, PostInv, PCs
    <2>3. Cardinality(Holders)' <= Cardinality(Clients)
      BY <2>1, ClientsAssumption, FS_Subset DEF Holders
    <2>4. TypeOK'
      BY <1>4, <1>0, <2>1, <2>2, <2>3 DEF RLock, Goto, LockInv, TypeOK, PCs
    <2> QED
      BY <2>2, <2>4
  <1>5. ASSUME NEW c \in Clients, Gone(c) PROVE SafetyInv'
    <2>1. Holders' = Holders
      BY <1>5, <1>0 DEF Gone, RUnlock, Goto, Holders, PCs
    <2>2. TypeOK' /\ PostInv'
      <3>1. RUnlock(c, "gone") /\ "gone" \in PCs
        BY <1>5 DEF Gone, PCs
      <3>2. resp' \in [Clients -> {0, 204, 400, 410, 500}]
        BY <1>5 DEF Gone, WriteHeader, TypeOK
      <3>3. TypeOK'
        BY <1>5, <3>1, <3>2, RUnlockTypes DEF Gone, TypeOK
      <3> QED
        BY <1>5, <1>0, <3>3 DEF Gone, RUnlock, Goto, PostInv
    <2> QED
      BY <1>5, <1>0, <2>1, <2>2 DEF Gone, RUnlock, Goto, LockInv, TypeOK, PCs
  <1>6. ASSUME NEW c \in Clients, DropStatus(c) PROVE SafetyInv'
    <2>1. Holders' = Holders
      BY <1>6, <1>0 DEF DropStatus, Goto, Holders, PCs
    <2>2. TypeOK' /\ PostInv'
      BY <1>6 DEF DropStatus, Goto, WriteHeader, TypeOK, PostInv, PCs
    <2> QED
      BY <1>6, <2>1, <2>2 DEF DropStatus, Goto, LockInv, TypeOK, PCs
  <1>7. ASSUME NEW c \in Clients, StartSend(c) PROVE SafetyInv'
    <2>1. Holders' = Holders
      BY <1>7, <1>0 DEF StartSend, Goto, Holders, PCs
    <2>2. TypeOK' /\ PostInv'
      BY <1>7 DEF StartSend, Goto, TypeOK, PostInv, PCs
    <2> QED
      BY <1>7, <2>1, <2>2 DEF StartSend, Goto, LockInv, TypeOK, PCs
  <1>8. ASSUME NEW c \in Clients, Send(c) PROVE SafetyInv'
    <2>1. Holders' = Holders
      BY <1>8, <1>0 DEF Send, Goto, Holders, PCs
    <2>2. Current(c) \in Event
      BY <1>8 DEF Send, Current, Event, TypeOK, PostInv
    <2>3. TypeOK' /\ PostInv'
      BY <1>8, <2>2, BoundsAssumption DEF Send, Goto, WriteHeader, TypeOK, PostInv, PCs
    <2> QED
      BY <1>8, <2>1, <2>3 DEF Send, Goto, LockInv, TypeOK, PCs
  <1>9. ASSUME NEW c \in Clients, SendTimeout(c) PROVE SafetyInv'
    <2>1. Holders' = Holders
      BY <1>9, <1>0 DEF SendTimeout, Goto, Holders, PCs
    <2>2. TypeOK' /\ PostInv'
      BY <1>9 DEF SendTimeout, Goto, WriteHeader, TypeOK, PostInv, PCs
    <2> QED
      BY <1>9, <2>1, <2>2 DEF SendTimeout, Goto, LockInv, TypeOK, PCs
  <1>10. ASSUME NEW c \in Clients, Return(c) PROVE SafetyInv'
    <2>1. TypeOK' /\ PostInv'
      <3>1. RUnlock(c, "idle") /\ "idle" \in PCs
        BY <1>10 DEF Return, PCs
      <3>3. TypeOK'
        BY <1>10, <3>1, RUnlockTypes DEF Return, TypeOK
      <3> QED
        BY <1>10, <1>0, <3>3 DEF Return, RUnlock, Goto, PostInv
    <2>2. CASE readers = 0
      <3>1. Holders' = Holders
        BY <1>10, <2>2 DEF Return, RUnlock, Holders
      <3> QED
        BY <1>10, <2>1, <2>2, <3>1 DEF Return, RUnlock, LockInv
    <2>3. CASE readers > 0
      <3>1. c \in Holders /\ Goto(c, "idle") /\ readers' = readers - 1
        BY <1>10, <2>3 DEF Return, RUnlock, Holders
      <3>2. Cardinality(Holders') = Cardinality(Holders) - 1
        BY <3>1, <1>0, HoldersLeave
      <3> QED
        BY <1>10, <1>0, <2>1, <2>3, <3>1, <3>2 DEF Return, Goto, LockInv, PCs
    <2> QED
      BY <2>2, <2>3, <1>0
  <1>11. CASE RunnerExits
    <2>1. Holders' = Holders
      BY <1>11 DEF RunnerExits, Holders
    <2> QED
      BY <1>11, <2>1 DEF RunnerExits, TypeOK, PostInv, LockInv, CloserPCs
  <1>12. CASE Stop
    <2>1. Holders' = Holders
      BY <1>12 DEF Stop, Holders
    <2>2. Holders = {}
      <3>1. Cardinality(Holders) = 0
        BY <1>12, <1>0 DEF Stop, LockInv
      <3> QED
        BY <3>1, HoldersFinite, FS_EmptySet
    <2>3. \A c \in Clients : pc[c] \notin {"sending", "returning"}
      BY <2>2 DEF Holders
    <2> QED
      BY <1>12, <2>1, <2>3 DEF Stop, TypeOK, PostInv, LockInv, CloserPCs
  <1>13. CASE CloseServer
    <2>1. Holders' = Holders
      BY <1>13 DEF CloseServer, Holders
    <2> QED
      BY <1>13, <2>1 DEF CloseServer, TypeOK, PostInv, LockInv, CloserPCs
  <1>14. CASE CloseEvents
    <2>1. Holders' = Holders
      BY <1>14 DEF CloseEvents, Holders
    <2> QED
      BY <1>14, <2>1 DEF CloseEvents, TypeOK, PostInv, LockInv, CloserPCs
  <1>15. CASE ReceiveErr
    <2>1. Holders' = Holders
      BY <1>15 DEF ReceiveErr, Holders
    <2> QED
      BY <1>15, <2>1 DEF ReceiveErr, TypeOK, PostInv, LockInv, CloserPCs
  <1>16. CASE ServeReturns
    <2>1. Holders' = Holders
      BY <1>16 DEF ServeReturns, Holders
    <2> QED
      BY <1>16, <2>1 DEF ServeReturns, TypeOK, PostInv, LockInv
  <1>17. CASE Receive \/ Leave
    <2>1. Holders' = Holders
      BY <1>17 DEF Receive, Leave, Holders
    <2>2. Head(events) \in Event /\ Tail(events) \in Seq(Event) /\ Len(Tail(events)) <= EventsCap
      BY <1>17, BoundsAssumption DEF Receive, Leave, TypeOK
    <2>3. received' \in Seq(Event) /\ events' \in Seq(Event) /\ Len(events') <= EventsCap
      <3>1. received' = Append(received, Head(events)) /\ events' = Tail(events)
        BY <1>17 DEF Receive, Leave
      <3>2. received \in Seq(Event)
        BY DEF TypeOK
      <3> QED
        BY <2>2, <3>1, <3>2
    <2>4. consumer' \in {"reading", "ended", "left"}
      BY <1>17 DEF Receive, Leave, TypeOK
    <2>5. UNCHANGED <<pc, posts, kind, resp, acked, readers, stopped, closed, closer, serving, errChan, crashed>>
      BY <1>17 DEF Receive, Leave
    <2>6. TypeOK'
      BY <2>3, <2>4, <2>5 DEF TypeOK
    <2> QED
      BY <2>1, <2>5, <2>6 DEF PostInv, LockInv
  <1>18. CASE RangeEnds
    <2>1. Holders' = Holders
      BY <1>18 DEF RangeEnds, Holders
    <2> QED
      BY <1>18, <2>1 DEF RangeEnds, TypeOK, PostInv, LockInv
  <1>19. CASE UNCHANGED vars
    <2>1. Holders' = Holders
      BY <1>19 DEF vars, Holders
    <2> QED
      BY <1>19, <2>1 DEF vars, TypeOK, PostInv, LockInv
  <1> QED
    BY <1>1, <1>2, <1>3, <1>4, <1>5, <1>6, <1>7, <1>8, <1>9, <1>10, <1>11, <1>12,
       <1>13, <1>14, <1>15, <1>16, <1>17, <1>18, <1>19
    DEF Next, Handle, Close, Consume

\* The variables keep their types and the read lock is held as LockInv says:
\* in particular Close sets stopped only when no handler is between RLock and
\* its return.
THEOREM LockSafety == Spec => [](TypeOK /\ LockInv)
  <1>1. SafetyInv => TypeOK /\ LockInv
    BY DEF SafetyInv
  <1> QED
    BY <1>1, SafetyInit, SafetyStep, PTL DEF Spec

\* No handler ever sends on the closed channel.
THEOREM ChannelSafety == Spec => []NoSendOnClosed
  <1>1. SafetyInv => NoSendOnClosed
    BY DEF SafetyInv, LockInv, NoSendOnClosed
  <1> QED
    BY <1>1, SafetyInit, SafetyStep, PTL DEF Spec
----------------------------------------------------------------------------
(* The pipe: what was accepted, in which order, and what became of it.     *)

\* The events that have entered the channel, in order.
Accepted == received \o events

\* An answer of 204 means that the event is in the pipe.
AckedInside == \A e \in acked : \E i \in 1..Len(Accepted) : Accepted[i] = e

\* The events of one client are in the order in which it posted them.
ClientOrder ==
    \A i, j \in 1..Len(Accepted) :
        (i < j /\ Accepted[i].client = Accepted[j].client) => Accepted[i].n < Accepted[j].n

\* No event is newer than the client's last post, and a post that has not
\* been sent yet is newer than all of them.
PostNewest ==
    \A i \in 1..Len(Accepted) :
        /\ Accepted[i].n <= posts[Accepted[i].client]
        /\ pc[Accepted[i].client] \in {"reading", "decoded", "locked", "sending"}
               => Accepted[i].n < posts[Accepted[i].client]

\* The loop ends by itself only over a channel that is closed and drained.
EndedDrained == consumer = "ended" => (closed /\ events = <<>>)

\* The channel is closed by CloseEvents and by nothing else, so it is never
\* closed twice (which would panic).
ClosedOnce == closed <=> closer \in {"chanClosed", "done"}

PipeInv == AckedInside /\ ClientOrder /\ PostNewest /\ EndedDrained /\ ClosedOnce

\* The elements of a sequence of events are events.
LEMMA EventSeq ==
  ASSUME NEW s \in Seq(Event)
  PROVE  /\ Len(s) \in Nat
         /\ \A i \in 1..Len(s) : s[i] \in Event /\ s[i].client \in Clients /\ s[i].n \in Nat
  <1>1. Len(s) \in Nat /\ \A i \in 1..Len(s) : s[i] \in Event
    OBVIOUS
  <1>2. \A e \in Event : e.client \in Clients /\ e.n \in Nat
    BY BoundsAssumption DEF Event
  <1> QED
    BY <1>1, <1>2

\* What is taken from the channel stays in the pipe.
LEMMA TakeKeepsAll ==
  ASSUME NEW S, NEW r \in Seq(S), NEW q \in Seq(S), q # <<>>
  PROVE  Append(r, Head(q)) \o Tail(q) = r \o q
  <1> DEFINE a == Append(r, Head(q)) \o Tail(q)
             b == r \o q
  <1>1. /\ Len(q) \in Nat /\ Len(q) >= 1 /\ Tail(q) \in Seq(S) /\ Len(Tail(q)) = Len(q) - 1
        /\ Head(q) = q[1] /\ Head(q) \in S
    OBVIOUS
  <1>2. a \in Seq(S) /\ b \in Seq(S) /\ Len(a) = Len(b)
    BY <1>1
  <1>3. ASSUME NEW i \in 1..Len(a) PROVE a[i] = b[i]
    <2>1. CASE i <= Len(r)
      BY <1>1, <1>3, <2>1
    <2>2. CASE i > Len(r)
      BY <1>1, <1>3, <2>2
    <2> QED
      BY <2>1, <2>2
  <1> HIDE DEF a, b
  <1>4. a = b
    BY <1>2, <1>3
  <1> QED
    BY <1>4 DEF a, b

\* A send appends to the pipe.
LEMMA SendAppends ==
  ASSUME NEW S, NEW r \in Seq(S), NEW q \in Seq(S), NEW e \in S
  PROVE  r \o Append(q, e) = Append(r \o q, e)
  <1> DEFINE a == r \o Append(q, e)
             b == Append(r \o q, e)
  <1>2. a \in Seq(S) /\ b \in Seq(S) /\ Len(a) = Len(b)
    OBVIOUS
  <1>3. ASSUME NEW i \in 1..Len(a) PROVE a[i] = b[i]
    <2>1. CASE i <= Len(r)
      BY <1>3, <2>1
    <2>2. CASE i > Len(r)
      BY <1>3, <2>2
    <2> QED
      BY <2>1, <2>2
  <1> HIDE DEF a, b
  <1>4. a = b
    BY <1>2, <1>3
  <1> QED
    BY <1>4 DEF a, b

\* How a step changes the pipe: a send appends the client's current post, a
\* receive only moves the boundary, all others leave channel and loop alone.
LEMMA AcceptedStep ==
  ASSUME TypeOK, PostInv
  PROVE  /\ Accepted \in Seq(Event)
         /\ \A c \in Clients : Send(c) => /\ Current(c) \in Event
                                          /\ Accepted' = Append(Accepted, Current(c))
         /\ (Receive \/ Leave) => Accepted' = Accepted
  <1>0. received \in Seq(Event) /\ events \in Seq(Event)
    BY DEF TypeOK
  <1>1. Accepted \in Seq(Event)
    BY <1>0 DEF Accepted
  <1>2. ASSUME NEW c \in Clients, Send(c)
        PROVE  Current(c) \in Event /\ Accepted' = Append(Accepted, Current(c))
    <2>1. Current(c) \in Event
      BY <1>2 DEF Send, Current, Event, TypeOK, PostInv
    <2>2. received' = received /\ events' = Append(events, Current(c))
      BY <1>2 DEF Send
    <2> QED
      BY <1>0, <2>1, <2>2, SendAppends DEF Accepted
  <1>3. ASSUME Receive \/ Leave PROVE Accepted' = Accepted
    <2>1. /\ events # <<>>
          /\ received' = Append(received, Head(events)) /\ events' = Tail(events)
      BY <1>3 DEF Receive, Leave
    <2> QED
      BY <1>0, <2>1, TakeKeepsAll DEF Accepted
  <1> QED
    BY <1>1, <1>2, <1>3

\* The pipe keeps its order whatever the handlers, Close and the loop do.
LEMMA PipeStep == SafetyInv /\ PipeInv /\ [Next]_vars => PipeInv'
  <1> SUFFICES ASSUME SafetyInv, PipeInv, [Next]_vars PROVE PipeInv'
    OBVIOUS
  <1> USE DEF handlerVars, lockVars, chanVars, runVars
  <1>0. /\ TypeOK /\ PostInv
        /\ Accepted \in Seq(Event) /\ Len(Accepted) \in Nat
        /\ \A i \in 1..Len(Accepted) : /\ Accepted[i] \in Event
                                       /\ Accepted[i].client \in Clients
                                       /\ Accepted[i].n \in Nat
    <2>1. TypeOK /\ PostInv
      BY DEF SafetyInv
    <2>2. Accepted \in Seq(Event)
      BY <2>1, AcceptedStep
    <2> QED
      BY <2>1, <2>2, EventSeq
  <1>1. /\ pc \in [Clients -> PCs] /\ posts \in [Clients -> 0..MaxPosts]
        /\ \A c \in Clients : posts[c] \in Nat
    BY <1>0, BoundsAssumption DEF TypeOK
  \* Everything but a send, a receive and the end of the loop
  <1>2. ASSUME UNCHANGED <<events, received, consumer, acked>>, closed => closed',
               ClosedOnce',
               \A c \in Clients :
                   /\ posts'[c] \in Nat /\ posts[c] <= posts'[c]
                   /\ pc'[c] \in {"reading", "decoded", "locked", "sending"}
                          => \/ posts'[c] > posts[c]
                             \/ pc[c] \in {"reading", "decoded", "locked", "sending"}
        PROVE  PipeInv'
    <2>1. Accepted' = Accepted
      BY <1>2 DEF Accepted
    <2>2. AckedInside' /\ ClientOrder'
      BY <1>2, <2>1 DEF PipeInv, AckedInside, ClientOrder
    <2>3. PostNewest'
      BY <1>0, <1>1, <1>2, <2>1 DEF PipeInv, PostNewest
    <2>4. EndedDrained'
      BY <1>2 DEF PipeInv, EndedDrained
    <2> QED
      BY <1>2, <2>2, <2>3, <2>4 DEF PipeInv
  <1>22. ASSUME UNCHANGED <<closed, closer>> PROVE ClosedOnce'
    BY <1>22 DEF PipeInv, ClosedOnce
  <1>3. ASSUME NEW c \in Clients, Post(c) PROVE PipeInv'
    BY <1>1, <1>2, <1>22, <1>3 DEF Post, Goto
  <1>4. ASSUME NEW c \in Clients,
               \/ Reject(c) \/ Decode(c) \/ RLock(c) \/ DropStatus(c) \/ StartSend(c) \/ SendTimeout(c)
        PROVE  PipeInv'
    <2>1. /\ UNCHANGED <<events, received, consumer, acked, posts, closed, closer>>
          /\ pc[c] \in {"reading", "decoded", "locked", "sending"}
          /\ \E l \in PCs : pc' = [pc EXCEPT ![c] = l]
      BY <1>4 DEF Reject, Decode, RLock, DropStatus, StartSend, SendTimeout, Goto, PCs
    <2> QED
      BY <1>1, <1>2, <1>22, <2>1
  <1>5. ASSUME NEW c \in Clients, Gone(c) \/ Return(c) PROVE PipeInv'
    <2>1. /\ UNCHANGED <<events, received, consumer, acked, posts, closed, closer>>
          /\ pc' = pc \/ pc' = [pc EXCEPT ![c] = "gone"] \/ pc' = [pc EXCEPT ![c] = "idle"]
      BY <1>5 DEF Gone, Return, RUnlock, Goto
    <2> QED
      BY <1>1, <1>2, <1>22, <2>1
  <1>6. ASSUME NEW c \in Clients, Send(c) PROVE PipeInv'
    <2> DEFINE e == Current(c)
    <2>1. e \in Event /\ Accepted' = Append(Accepted, e)
      BY <1>0, <1>6, AcceptedStep
    <2>2. e.client = c /\ e.n = posts[c]
      BY DEF Current
    <2>3. /\ pc[c] = "sending" /\ pc' = [pc EXCEPT ![c] = "returning"] /\ posts' = posts
          /\ acked' = acked \cup {e} /\ consumer' = consumer /\ UNCHANGED <<closed, closer>>
      BY <1>6 DEF Send, Goto
    <2> HIDE DEF e
    <2>4. /\ Len(Accepted') = Len(Accepted) + 1
          /\ \A i \in 1..Len(Accepted) : Accepted'[i] = Accepted[i]
          /\ Accepted'[Len(Accepted) + 1] = e
      BY <1>0, <2>1
    <2>5. \A i \in 1..Len(Accepted) : Accepted[i].client = c => Accepted[i].n < posts[c]
      BY <2>3 DEF PipeInv, PostNewest
    <2>6. AckedInside'
      <3> SUFFICES ASSUME NEW f \in acked' PROVE \E i \in 1..Len(Accepted') : Accepted'[i] = f
        BY DEF AckedInside
      <3>1. CASE f = e
        BY <1>0, <2>4, <3>1
      <3>2. CASE f \in acked
        <4>1. PICK i \in 1..Len(Accepted) : Accepted[i] = f
          BY <3>2 DEF PipeInv, AckedInside
        <4> QED
          BY <1>0, <2>4, <4>1
      <3> QED
        BY <2>3, <3>1, <3>2
    <2>7. ClientOrder'
      <3> SUFFICES ASSUME NEW i \in 1..Len(Accepted'), NEW j \in 1..Len(Accepted'), i < j,
                          Accepted'[i].client = Accepted'[j].client
                   PROVE  Accepted'[i].n < Accepted'[j].n
        BY DEF ClientOrder
      <3>1. CASE j \in 1..Len(Accepted)
        BY <1>0, <2>4, <3>1 DEF PipeInv, ClientOrder
      <3>2. CASE j = Len(Accepted) + 1
        BY <1>0, <2>2, <2>4, <2>5, <3>2
      <3> QED
        BY <1>0, <2>4, <3>1, <3>2
    <2>8. PostNewest'
      <3> SUFFICES ASSUME NEW i \in 1..Len(Accepted')
                   PROVE  /\ Accepted'[i].n <= posts'[Accepted'[i].client]
                          /\ pc'[Accepted'[i].client] \in {"reading", "decoded", "locked", "sending"}
                                 => Accepted'[i].n < posts'[Accepted'[i].client]
        BY DEF PostNewest
      <3>1. CASE i \in 1..Len(Accepted)
        BY <1>0, <1>1, <2>3, <2>4, <3>1 DEF PipeInv, PostNewest
      <3>2. CASE i = Len(Accepted) + 1
        BY <1>1, <2>2, <2>3, <2>4, <3>2
      <3> QED
        BY <1>0, <2>4, <3>1, <3>2
    <2>9. EndedDrained'
      <3>1. ~closed
        BY <1>6, <2>3 DEF SafetyInv, LockInv
      <3> QED
        BY <2>3, <3>1 DEF PipeInv, EndedDrained
    <2> QED
      BY <1>22, <2>3, <2>6, <2>7, <2>8, <2>9 DEF PipeInv
  <1>7. CASE RunnerExits \/ Stop \/ CloseServer \/ CloseEvents \/ ReceiveErr \/ ServeReturns
    <2>1. /\ UNCHANGED <<events, received, consumer, acked, posts, pc>>
          /\ closed' = closed \/ closed' = TRUE
      BY <1>7 DEF RunnerExits, Stop, CloseServer, CloseEvents, ReceiveErr, ServeReturns
    <2>2. ClosedOnce'
      BY <1>7 DEF RunnerExits, Stop, CloseServer, CloseEvents, ReceiveErr, ServeReturns,
                  PipeInv, ClosedOnce
    <2> QED
      BY <1>1, <1>2, <2>1, <2>2
  <1>8. CASE Receive \/ Leave
    <2>1. Accepted' = Accepted
      BY <1>0, <1>8, AcceptedStep
    <2>2. UNCHANGED <<acked, posts, pc, closed, closer>> /\ consumer' \in {"reading", "left"}
      BY <1>8 DEF Receive, Leave
    <2> QED
      BY <2>1, <2>2 DEF PipeInv, AckedInside, ClientOrder, PostNewest, EndedDrained, ClosedOnce
  <1>9. CASE RangeEnds
    <2>1. /\ UNCHANGED <<events, received, acked, posts, pc, closed, closer>>
          /\ closed /\ events = <<>>
      BY <1>9 DEF RangeEnds
    <2>2. Accepted' = Accepted
      BY <2>1 DEF Accepted
    <2> QED
      BY <2>1, <2>2 DEF PipeInv, AckedInside, ClientOrder, PostNewest, EndedDrained, ClosedOnce
  <1>10. CASE UNCHANGED vars
    BY <1>1, <1>2, <1>22, <1>10 DEF vars
  <1> QED
    BY <1>3, <1>4, <1>5, <1>6, <1>7, <1>8, <1>9, <1>10 DEF Next, Handle, Close, Consume

\* At the start the pipe is empty.
LEMMA PipeInit == Init => PipeInv
  <1> SUFFICES ASSUME Init PROVE PipeInv
    OBVIOUS
  <1>1. Accepted = <<>> /\ Len(Accepted) = 0 /\ acked = {} /\ consumer = "reading" /\ ClosedOnce
    BY DEF Init, Accepted, ClosedOnce
  <1> QED
    BY <1>1 DEF PipeInv, AckedInside, ClientOrder, PostNewest, EndedDrained

\* When the loop over result.Events() ends by itself, every job event answered
\* 204 has been received, and each once.
THEOREM Delivery == Spec => []AcceptedDelivered
  <1>1. SafetyInv /\ PipeInv => AcceptedDelivered
    <2> SUFFICES ASSUME SafetyInv, PipeInv, consumer = "ended"
                 PROVE  /\ \A e \in acked : \E i \in 1..Len(received) : received[i] = e
                        /\ \A i, j \in 1..Len(received) : received[i] = received[j] => i = j
      BY DEF AcceptedDelivered
    <2>1. received \in Seq(Event) /\ events = <<>>
      BY DEF SafetyInv, TypeOK, PipeInv, EndedDrained
    <2>2. Accepted = received
      BY <2>1 DEF Accepted
    <2>3. \A i \in 1..Len(received) : received[i].n \in Nat
      BY <2>1, EventSeq
    <2>4. \A e \in acked : \E i \in 1..Len(received) : received[i] = e
      BY <2>2 DEF PipeInv, AckedInside
    <2>5. ASSUME NEW i \in 1..Len(received), NEW j \in 1..Len(received), received[i] = received[j]
          PROVE  i = j
      <3>1. ~(i < j) /\ ~(j < i)
        BY <2>2, <2>3, <2>5 DEF PipeInv, ClientOrder
      <3> QED
        BY <3>1, <2>1
    <2> QED
      BY <2>4, <2>5
  <1> QED
    BY <1>1, SafetyInit, SafetyStep, PipeInit, PipeStep, PTL DEF Spec

\* The receiver implements the pipe of module EventPipe, for any number of
\* clients, posts and any capacity: sending is Accept, closing the channel is
\* Seal, the loop's receives are Deliver and its end is End; every other step
\* of the handlers, of Close and of the server is a stutter.
THEOREM PipeRefinement == Spec => ImplementsPipe
  <1> USE DEF handlerVars, lockVars, chanVars, runVars
  <1>1. Init => Pipe!Init
    BY DEF Init, Pipe!Init
  <1>2. SafetyInv /\ PipeInv /\ [Next]_vars => [Pipe!Next]_(Pipe!pipeVars)
    <2> SUFFICES ASSUME SafetyInv, PipeInv, [Next]_vars PROVE [Pipe!Next]_(Pipe!pipeVars)
      OBVIOUS
    <2>0. TypeOK /\ PostInv /\ received \in Seq(Event) /\ events \in Seq(Event)
      BY DEF SafetyInv, TypeOK
    <2>1. ASSUME UNCHANGED <<events, received, consumer, closed>>
          PROVE  UNCHANGED Pipe!pipeVars
      BY <2>1 DEF Pipe!pipeVars
    <2>2. ASSUME NEW c \in Clients,
                 \/ Post(c) \/ Reject(c) \/ Decode(c) \/ RLock(c) \/ Gone(c) \/ DropStatus(c)
                 \/ StartSend(c) \/ SendTimeout(c) \/ Return(c)
          PROVE  UNCHANGED Pipe!pipeVars
      BY <2>1, <2>2 DEF Post, Reject, Decode, RLock, Gone, DropStatus, StartSend, SendTimeout, Return
    <2>3. ASSUME NEW c \in Clients, Send(c) PROVE Pipe!Accept(c)
      <3>1. Current(c) \in Event /\ Accepted' = Append(Accepted, Current(c))
        BY <2>0, <2>3, AcceptedStep
      <3>2. /\ posts[c] \in 1..MaxPosts /\ Current(c) = [client |-> c, n |-> posts[c]]
            /\ pc[c] = "sending" /\ UNCHANGED <<received, closed, consumer>>
        BY <2>0, <2>3, <3>1 DEF Send, Current, Event, TypeOK
      <3>3. ~closed
        BY <3>2 DEF SafetyInv, LockInv
      <3>4. Pipe!Newer([client |-> c, n |-> posts[c]])
        BY <3>2 DEF PipeInv, PostNewest, Accepted, Pipe!Newer
      <3> QED
        BY <3>1, <3>2, <3>3, <3>4 DEF Pipe!Accept, Accepted
    <2>4. ASSUME Receive \/ Leave PROVE Pipe!Deliver
      <3>1. Accepted' = Accepted
        BY <2>0, <2>4, AcceptedStep
      <3>2. /\ consumer = "reading" /\ consumer' \in {"reading", "left"} /\ closed' = closed
            /\ events # <<>> /\ received' = Append(received, Head(events))
        BY <2>4 DEF Receive, Leave
      <3>3. Len(received') = Len(received) + 1 /\ Len(received) < Len(received \o events)
        BY <2>0, <3>2
      <3> QED
        BY <3>1, <3>2, <3>3 DEF Pipe!Deliver, Accepted
    <2>5. ASSUME CloseEvents PROVE Pipe!Seal
      <3>1. ~closed
        BY <2>5 DEF CloseEvents, PipeInv, ClosedOnce
      <3> QED
        BY <2>5, <3>1 DEF CloseEvents, Pipe!Seal
    <2>6. ASSUME RangeEnds PROVE Pipe!End
      <3>1. Len(received) = Len(received \o events)
        BY <2>0, <2>6 DEF RangeEnds
      <3> QED
        BY <2>6, <3>1 DEF RangeEnds, Pipe!End
    <2>7. ASSUME \/ RunnerExits \/ Stop \/ CloseServer \/ ReceiveErr \/ ServeReturns
                 \/ UNCHANGED vars
          PROVE  UNCHANGED Pipe!pipeVars
      BY <2>1, <2>7 DEF RunnerExits, Stop, CloseServer, ReceiveErr, ServeReturns, vars
    <2> QED
      BY <2>2, <2>3, <2>4, <2>5, <2>6, <2>7 DEF Next, Handle, Close, Consume, Pipe!Next
  <1> QED
    BY <1>1, <1>2, SafetyInit, SafetyStep, PipeInit, PipeStep, PTL
    DEF Spec, ImplementsPipe, Pipe!PipeSpec
============================================================================
