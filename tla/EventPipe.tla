----------------------------- MODULE EventPipe -----------------------------
(***************************************************************************)
(* What the event API promises, without locks, handlers or a server: the   *)
(* job events it accepts form a pipe.  Reconcile takes them in the order   *)
(* in which they were accepted, none twice and none left out, and its loop *)
(* ends only when the pipe has been sealed and is drained.  EventReceiver  *)
(* implements this module.                                                 *)
(***************************************************************************)
EXTENDS Integers, Sequences

CONSTANTS
    Clients,   \* those who post events
    MaxPosts   \* bound on the events of one client

VARIABLES
    accepted,   \* every job event answered 204, in order
    delivered,  \* how many of them the reader has taken
    sealed,     \* no event is accepted any more
    reader      \* "reading", "ended" or "left"

pipeVars == <<accepted, delivered, sealed, reader>>

Init ==
    /\ accepted = <<>>
    /\ delivered = 0
    /\ sealed = FALSE
    /\ reader = "reading"

\* e is newer than every accepted event of the same client, which rules out
\* both duplicates and reordering.
Newer(e) ==
    \A i \in 1..Len(accepted) :
        accepted[i].client = e.client => accepted[i].n < e.n

Accept(c) ==
    /\ ~sealed
    /\ \E n \in 1..MaxPosts :
         LET e == [client |-> c, n |-> n]
         IN  Newer(e) /\ accepted' = Append(accepted, e)
    /\ UNCHANGED <<delivered, sealed, reader>>

\* The reader takes the next event, and may leave because of it.
Deliver ==
    /\ reader = "reading" /\ delivered < Len(accepted)
    /\ delivered' = delivered + 1
    /\ reader' \in {"reading", "left"}
    /\ UNCHANGED <<accepted, sealed>>

Seal ==
    /\ ~sealed
    /\ sealed' = TRUE
    /\ UNCHANGED <<accepted, delivered, reader>>

End ==
    /\ reader = "reading" /\ sealed /\ delivered = Len(accepted)
    /\ reader' = "ended"
    /\ UNCHANGED <<accepted, delivered, sealed>>

Next == (\E c \in Clients : Accept(c)) \/ Deliver \/ Seal \/ End

PipeSpec == Init /\ [][Next]_pipeVars
============================================================================
