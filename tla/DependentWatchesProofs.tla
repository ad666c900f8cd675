----------------------- MODULE DependentWatchesProofs -----------------------
(***************************************************************************)
(* Proofs about DependentWatches, for any number of requests and resources *)
(* and every configuration of the owner.                                   *)
(***************************************************************************)
EXTENDS DependentWatches, FiniteSetTheorems, TLAPS

\* addWatchToController is entered for marked resources only.
MarkedInside ==
    \A r \in Requests : pc[r] \in {"lookup", "store", "watch"} => req[r].mark \in Marks

Inv == TypeOK /\ MarkedInside /\ WatchedIsRecorded /\ RecordedBeforeCreated

\* The placeholder in req of a request that is not under way is well typed.
LEMMA NoRequestType == NoRequest \in Request
  BY ResourcesAssumption DEF NoRequest, Request

\* The kind of a resource is one of the kinds.
LEMMA KindOf == ASSUME NEW n \in Resources PROVE n.kind \in Kinds
  BY DEF Kinds

\* MarkOf gives one of the two marks.
LEMMA MarkOfType == ASSUME NEW n \in Resources PROVE MarkOf(n) \in Marks
  BY DEF MarkOf, Marks

\* Empty maps, no watches and no request under way.
LEMMA InvInit == Init => Inv
  <1> SUFFICES ASSUME Init PROVE Inv
    OBVIOUS
  <1>1. TypeOK
    <2>1. /\ watches \in [Marks -> [Kinds -> Nat]] /\ recorded \in [Marks -> SUBSET Kinds]
          /\ failed \in [Marks -> SUBSET Kinds]
      BY DEF Init, NoWatches
    <2>2. restarts \in 0..MaxRestarts
      BY RestartsAssumption DEF Init
    <2>3. objects \in [Resources -> Marks \cup {"none", "plain"}]
      BY DEF Init
    <2>4. /\ pc \in [Requests -> {"idle", "lookup", "store", "watch", "forward"}]
          /\ req \in [Requests -> Request]
      BY NoRequestType DEF Init
    <2> QED
      BY <2>1, <2>2, <2>3, <2>4 DEF TypeOK
  <1>2. MarkedInside /\ RecordedBeforeCreated
    BY DEF Init, MarkedInside, RecordedBeforeCreated
  <1>3. WatchedIsRecorded
    BY DEF Init, WatchedIsRecorded, Starting, NoWatches
  <1> QED
    BY <1>1, <1>2, <1>3 DEF Inv

\* Every action keeps the types and the marks inside addWatchToController.
LEMMA TypeStep == TypeOK /\ MarkedInside /\ [Next]_vars => TypeOK' /\ MarkedInside'
  <1> SUFFICES ASSUME TypeOK, MarkedInside, [Next]_vars PROVE TypeOK' /\ MarkedInside'
    OBVIOUS
  <1> USE NoRequestType, RestartsAssumption DEF TypeOK, MarkedInside
  <1>1. ASSUME NEW r \in Requests, Post(r) PROVE TypeOK' /\ MarkedInside'
    <2> PICK n \in Resources, mark \in Marks \cup {"plain"} :
          /\ req' = [req EXCEPT ![r] = [name |-> n, mark |-> mark, via |-> "post"]]
          /\ pc' = [pc EXCEPT ![r] = IF mark # "plain" /\ InWatchedNamespaces(n)
                                     THEN "lookup" ELSE "forward"]
      BY <1>1 DEF Post, Goto
    <2> QED
      BY <1>1 DEF Post, Request
  <1>2. ASSUME NEW r \in Requests, NEW n \in Resources, Get(r, n)
        PROVE  TypeOK' /\ MarkedInside'
    BY <1>2 DEF Get, Goto, Request
  <1>3. ASSUME NEW r \in Requests, Lookup(r) PROVE TypeOK' /\ MarkedInside'
    BY <1>3 DEF Lookup, Proceed, Finish, Goto
  <1>4. ASSUME NEW r \in Requests, Store(r) PROVE TypeOK' /\ MarkedInside'
    <2>1. req[r].mark \in Marks /\ req[r].name.kind \in Kinds
      BY <1>4, KindOf DEF Store, Request
    <2>2. recorded' \in [Marks -> SUBSET Kinds]
      BY <1>4, <2>1 DEF Store
    <2> QED
      BY <1>4, <2>2 DEF Store, Goto
  <1>5. ASSUME NEW r \in Requests, Watch(r) PROVE TypeOK' /\ MarkedInside'
    <2>1. req[r].mark \in Marks /\ req[r].name.kind \in Kinds
      BY <1>5, KindOf DEF Watch, Request
    <2> DEFINE m == req[r].mark
               k == req[r].name.kind
    <2>2. [watches[m] EXCEPT ![k] = @ + 1] \in [Kinds -> Nat]
      BY <2>1
    <2>3. watches' = watches \/ watches' = [watches EXCEPT ![m] = [watches[m] EXCEPT ![k] = @ + 1]]
      <3>1. \/ watches' = [watches EXCEPT ![m][k] = @ + 1]
            \/ UNCHANGED watches
        BY <1>5 DEF Watch
      <3> QED
        BY <3>1
    <2>4. watches' \in [Marks -> [Kinds -> Nat]]
      BY <2>1, <2>2, <2>3
    <2>5. failed' \in [Marks -> SUBSET Kinds]
      BY <1>5, <2>1 DEF Watch
    <2>6. \/ pc' = [pc EXCEPT ![r] = "forward"] /\ UNCHANGED req
          \/ pc' = [pc EXCEPT ![r] = "idle"] /\ req' = [req EXCEPT ![r] = NoRequest]
      BY <1>5 DEF Watch, Proceed, Finish, Goto
    <2>7. /\ pc' \in [Requests -> {"idle", "lookup", "store", "watch", "forward"}]
          /\ req' \in [Requests -> Request]
      BY <2>6
    <2>8. MarkedInside'
      BY <2>6
    <2> QED
      BY <1>5, <2>4, <2>5, <2>7, <2>8 DEF Watch
  <1>6. ASSUME NEW r \in Requests, Forward(r) PROVE TypeOK' /\ MarkedInside'
    <2>1. objects' \in [Resources -> Marks \cup {"none", "plain"}]
      BY <1>6 DEF Forward, Request
    <2> QED
      BY <1>6, <2>1 DEF Forward, Finish, Goto
  <1>7. ASSUME NEW n \in Resources, UserDelete(n) PROVE TypeOK' /\ MarkedInside'
    BY <1>7 DEF UserDelete
  <1>8. CASE Restart
    <2>1. /\ watches' \in [Marks -> [Kinds -> Nat]] /\ recorded' \in [Marks -> SUBSET Kinds]
          /\ failed' \in [Marks -> SUBSET Kinds]
      BY <1>8 DEF Restart, NoWatches
    <2>2. restarts' \in 0..MaxRestarts
      BY <1>8 DEF Restart
    <2> QED
      BY <1>8, <2>1, <2>2 DEF Restart
  <1>9. CASE UNCHANGED vars
    BY <1>9 DEF vars
  <1> QED
    BY <1>1, <1>2, <1>3, <1>4, <1>5, <1>6, <1>7, <1>8, <1>9 DEF Next, Serve

\* A step that neither touches the maps nor starts a watch, and after which the
\* requests about to start one are the same, keeps both relations between the
\* maps and the watches.
LEMMA SameWatches ==
  ASSUME UNCHANGED <<recorded, watches, failed>>,
         \A m \in Marks, k \in Kinds : Starting(m, k)' = Starting(m, k)
  PROVE  /\ WatchedIsRecorded => WatchedIsRecorded'
         /\ TypeOK /\ RecordedIsWatched => RecordedIsWatched'
  <1>1. WatchedIsRecorded => WatchedIsRecorded'
    BY DEF WatchedIsRecorded
  <1>2. TypeOK /\ RecordedIsWatched => RecordedIsWatched'
    BY DEF RecordedIsWatched, TypeOK
  <1> QED
    BY <1>1, <1>2

\* The actions other than Store, Watch and Restart are such steps.
LEMMA QuietStep ==
  ASSUME TypeOK,
         \/ \E r \in Requests : Post(r) \/ Lookup(r) \/ Forward(r)
         \/ \E r \in Requests, n \in Resources : Get(r, n)
         \/ \E n \in Resources : UserDelete(n)
         \/ UNCHANGED vars
  PROVE  /\ UNCHANGED <<recorded, watches, failed>>
         /\ \A m \in Marks, k \in Kinds : Starting(m, k)' = Starting(m, k)
  <1>1. ASSUME NEW r \in Requests, Post(r)
        PROVE  /\ UNCHANGED <<recorded, watches, failed>>
               /\ \A m \in Marks, k \in Kinds : Starting(m, k)' = Starting(m, k)
    BY <1>1 DEF Post, Goto, Starting, TypeOK
  <1>2. ASSUME NEW r \in Requests, Lookup(r)
        PROVE  /\ UNCHANGED <<recorded, watches, failed>>
               /\ \A m \in Marks, k \in Kinds : Starting(m, k)' = Starting(m, k)
    BY <1>2 DEF Lookup, Proceed, Finish, Goto, Starting, TypeOK
  <1>3. ASSUME NEW r \in Requests, Forward(r)
        PROVE  /\ UNCHANGED <<recorded, watches, failed>>
               /\ \A m \in Marks, k \in Kinds : Starting(m, k)' = Starting(m, k)
    BY <1>3 DEF Forward, Finish, Goto, Starting, TypeOK
  <1>4. ASSUME NEW r \in Requests, NEW n \in Resources, Get(r, n)
        PROVE  /\ UNCHANGED <<recorded, watches, failed>>
               /\ \A m \in Marks, k \in Kinds : Starting(m, k)' = Starting(m, k)
    BY <1>4 DEF Get, Goto, Starting, TypeOK
  <1>5. ASSUME NEW n \in Resources, UserDelete(n)
        PROVE  /\ UNCHANGED <<recorded, watches, failed>>
               /\ \A m \in Marks, k \in Kinds : Starting(m, k)' = Starting(m, k)
    BY <1>5 DEF UserDelete, Starting
  <1>6. CASE UNCHANGED vars
    BY <1>6 DEF vars, Starting
  <1> QED
    BY <1>1, <1>2, <1>3, <1>4, <1>5, <1>6

\* WatchedIsRecorded is inductive: Store comes before Watch in every request.
LEMMA WatchedStep == Inv /\ [Next]_vars => WatchedIsRecorded'
  <1> SUFFICES ASSUME Inv, [Next]_vars PROVE WatchedIsRecorded'
    OBVIOUS
  <1> USE DEF Inv
  <1>1. ASSUME NEW r \in Requests, Store(r) PROVE WatchedIsRecorded'
    <2> SUFFICES ASSUME NEW m \in Marks, NEW k \in Kinds,
                        watches'[m][k] > 0 \/ Starting(m, k)' # {}
                 PROVE  k \in recorded'[m]
      BY DEF WatchedIsRecorded
    <2>1. watches' = watches /\ recorded[m] \subseteq recorded'[m]
      BY <1>1 DEF Store, TypeOK
    <2>2. CASE req[r].mark = m /\ req[r].name.kind = k
      BY <1>1, <2>2 DEF Store, TypeOK
    <2>3. CASE ~(req[r].mark = m /\ req[r].name.kind = k)
      <3>1. Starting(m, k)' = Starting(m, k)
        BY <1>1, <2>3 DEF Store, Goto, Starting, TypeOK
      <3> QED
        BY <2>1, <3>1 DEF WatchedIsRecorded
    <2> QED
      BY <2>2, <2>3
  <1>2. ASSUME NEW r \in Requests, Watch(r) PROVE WatchedIsRecorded'
    <2> SUFFICES ASSUME NEW m \in Marks, NEW k \in Kinds,
                        watches'[m][k] > 0 \/ Starting(m, k)' # {}
                 PROVE  k \in recorded'[m]
      BY DEF WatchedIsRecorded
    <2>1. recorded' = recorded
      BY <1>2 DEF Watch
    <2>2. CASE r \in Starting(m, k)
      BY <2>1, <2>2 DEF WatchedIsRecorded
    <2>3. CASE r \notin Starting(m, k)
      <3>1. Starting(m, k)' = Starting(m, k)
        BY <1>2, <2>3 DEF Watch, Proceed, Finish, Goto, Starting, TypeOK
      <3>2. watches'[m][k] = watches[m][k]
        BY <1>2, <2>3 DEF Watch, Starting, TypeOK
      <3> QED
        BY <2>1, <3>1, <3>2 DEF WatchedIsRecorded
    <2> QED
      BY <2>2, <2>3
  <1>3. CASE Restart
    BY <1>3 DEF Restart, WatchedIsRecorded, Starting, NoWatches
  <1>4. CASE \/ \E r \in Requests : Post(r) \/ Lookup(r) \/ Forward(r)
             \/ \E r \in Requests, n \in Resources : Get(r, n)
             \/ \E n \in Resources : UserDelete(n)
             \/ UNCHANGED vars
    BY <1>4, QuietStep, SameWatches
  <1> QED
    BY <1>1, <1>2, <1>3, <1>4 DEF Next, Serve

\* RecordedBeforeCreated is inductive with WatchedIsRecorded: a request leaves
\* addWatchToController for the API server from the lookup that found the kind
\* recorded, or after its own Store.
LEMMA BeforeCreatedStep == Inv /\ [Next]_vars => RecordedBeforeCreated'
  <1> SUFFICES ASSUME Inv, [Next]_vars PROVE RecordedBeforeCreated'
    OBVIOUS
  <1> USE DEF Inv
  <1> DEFINE Fine(r) ==
        /\ pc[r] = "forward" /\ req[r].mark # "plain"
        /\ InWatchedNamespaces(req[r].name) /\ NeedsWatch(req[r].name, req[r].mark)
        => req[r].name.kind \in recorded[req[r].mark]
  <1>0. \A r \in Requests : Fine(r)
    BY DEF RecordedBeforeCreated
  <1> SUFFICES \A q \in Requests : Fine(q)'
    BY DEF RecordedBeforeCreated
  <1>1. ASSUME NEW r \in Requests, Post(r) PROVE \A q \in Requests : Fine(q)'
    BY <1>0, <1>1 DEF Post, Goto, TypeOK
  <1>2. ASSUME NEW r \in Requests, NEW n \in Resources, Get(r, n)
        PROVE  \A q \in Requests : Fine(q)'
    BY <1>0, <1>2 DEF Get, Goto, TypeOK
  <1>3. ASSUME NEW r \in Requests, Lookup(r) PROVE \A q \in Requests : Fine(q)'
    BY <1>0, <1>3 DEF Lookup, Proceed, Finish, Goto, TypeOK
  <1>4. ASSUME NEW r \in Requests, Store(r) PROVE \A q \in Requests : Fine(q)'
    <2>1. \A m \in Marks : recorded[m] \subseteq recorded'[m]
      BY <1>4 DEF Store, TypeOK
    <2>2. req' = req /\ \A q \in Requests : pc'[q] = "forward" => pc[q] = "forward"
      BY <1>4 DEF Store, Goto, TypeOK
    <2>3. \A q \in Requests : req[q].mark \in Marks \cup {"plain"}
      BY DEF TypeOK, Request
    <2> QED
      BY <1>0, <2>1, <2>2, <2>3
  <1>5. ASSUME NEW r \in Requests, Watch(r) PROVE \A q \in Requests : Fine(q)'
    <2>1. req[r].mark \in Marks /\ req[r].name.kind \in Kinds
      BY <1>5, KindOf DEF Watch, TypeOK, MarkedInside, Request
    <2>2. req[r].name.kind \in recorded[req[r].mark]
      BY <1>5, <2>1 DEF Watch, WatchedIsRecorded, Starting
    <2> QED
      BY <1>0, <1>5, <2>2 DEF Watch, Proceed, Finish, Goto, TypeOK
  <1>6. ASSUME NEW r \in Requests, Forward(r) PROVE \A q \in Requests : Fine(q)'
    BY <1>0, <1>6 DEF Forward, Finish, Goto, TypeOK
  <1>7. ASSUME NEW n \in Resources, UserDelete(n) PROVE \A q \in Requests : Fine(q)'
    BY <1>0, <1>7 DEF UserDelete
  <1>8. CASE Restart
    BY <1>8 DEF Restart
  <1>9. CASE UNCHANGED vars
    BY <1>0, <1>9 DEF vars
  <1> QED
    BY <1>1, <1>2, <1>3, <1>4, <1>5, <1>6, <1>7, <1>8, <1>9 DEF Next, Serve

\* RecordedIsWatched is inductive too: the request that stored the kind starts
\* its watch or is told that it failed.
LEMMA RecordedStep == Inv /\ RecordedIsWatched /\ [Next]_vars => RecordedIsWatched'
  <1> SUFFICES ASSUME Inv, RecordedIsWatched, [Next]_vars PROVE RecordedIsWatched'
    OBVIOUS
  <1> USE DEF Inv
  <1>1. ASSUME NEW r \in Requests, Store(r) PROVE RecordedIsWatched'
    <2> SUFFICES ASSUME NEW m \in Marks, NEW k \in recorded'[m]
                 PROVE  watches'[m][k] > 0 \/ Starting(m, k)' # {} \/ k \in failed'[m]
      BY DEF RecordedIsWatched
    <2>1. CASE k \in recorded[m]
      <3>1. Starting(m, k) \subseteq Starting(m, k)'
        BY <1>1 DEF Store, Goto, Starting, TypeOK
      <3> QED
        BY <1>1, <2>1, <3>1 DEF Store, RecordedIsWatched
    <2>2. CASE k \notin recorded[m]
      <3>1. req[r].mark = m /\ req[r].name.kind = k
        BY <1>1, <2>2 DEF Store, TypeOK
      <3>2. r \in Starting(m, k)'
        BY <1>1, <3>1 DEF Store, Goto, Starting, TypeOK
      <3> QED
        BY <3>2
    <2> QED
      BY <2>1, <2>2
  <1>2. ASSUME NEW r \in Requests, Watch(r) PROVE RecordedIsWatched'
    <2> SUFFICES ASSUME NEW m \in Marks, NEW k \in recorded'[m]
                 PROVE  watches'[m][k] > 0 \/ Starting(m, k)' # {} \/ k \in failed'[m]
      BY DEF RecordedIsWatched
    <2>1. k \in recorded[m] /\ k \in Kinds
      BY <1>2 DEF Watch, TypeOK
    <2>2. \/ /\ watches' = [watches EXCEPT ![req[r].mark][req[r].name.kind] = @ + 1]
             /\ failed' = failed
          \/ /\ watches' = watches
             /\ failed' = [failed EXCEPT ![req[r].mark] = @ \cup {req[r].name.kind}]
      BY <1>2 DEF Watch
    <2>3. CASE r \in Starting(m, k)
      <3>1. watches[m][k] \in Nat
        BY <2>1 DEF TypeOK
      <3>2. watches'[m][k] = watches[m][k] + 1 \/ k \in failed'[m]
        BY <2>1, <2>2, <2>3 DEF Starting, TypeOK
      <3> QED
        BY <3>1, <3>2
    <2>4. CASE r \notin Starting(m, k)
      <3>1. Starting(m, k)' = Starting(m, k)
        BY <1>2, <2>4 DEF Watch, Proceed, Finish, Goto, Starting, TypeOK
      <3>2. watches'[m][k] = watches[m][k] /\ failed[m] \subseteq failed'[m]
        BY <1>2, <2>1, <2>2, <2>4 DEF Watch, Starting, TypeOK
      <3> QED
        BY <2>1, <3>1, <3>2 DEF RecordedIsWatched
    <2> QED
      BY <2>3, <2>4
  <1>3. CASE Restart
    BY <1>3 DEF Restart, RecordedIsWatched
  <1>4. CASE \/ \E r \in Requests : Post(r) \/ Lookup(r) \/ Forward(r)
             \/ \E r \in Requests, n \in Resources : Get(r, n)
             \/ \E n \in Resources : UserDelete(n)
             \/ UNCHANGED vars
    BY <1>4, QuietStep, SameWatches
  <1> QED
    BY <1>1, <1>2, <1>3, <1>4 DEF Next, Serve

\* For any number of requests and any configuration, also if Controller.Watch
\* fails: no marked resource reaches the API server before its watch is
\* recorded, and no watch is started that the maps do not know.
THEOREM WatchOrder == Spec => [](RecordedBeforeCreated /\ WatchedIsRecorded)
  <1>1. Inv /\ [Next]_vars => Inv'
    BY TypeStep, WatchedStep, BeforeCreatedStep DEF Inv
  <1>2. Inv => RecordedBeforeCreated /\ WatchedIsRecorded
    BY DEF Inv
  <1> QED
    BY InvInit, <1>1, <1>2, PTL DEF Spec

\* The maps never claim a watch that neither exists nor is about to be started,
\* unless Controller.Watch failed for the kind (with the vendored controller-
\* runtime it cannot, for the arguments it is given).
THEOREM RecordsHold == Spec => []RecordedIsWatched
  <1>1. Inv /\ RecordedIsWatched /\ [Next]_vars => (Inv /\ RecordedIsWatched)'
    BY TypeStep, WatchedStep, BeforeCreatedStep, RecordedStep DEF Inv
  <1>2. Init => RecordedIsWatched
    BY DEF Init, RecordedIsWatched
  <1> QED
    BY InvInit, <1>1, <1>2, PTL DEF Spec

----------------------------------------------------------------------------
(* How many watches two racing requests can start.                         *)

\* The requests that have found the kind missing and will start a watch.
Committed(m, k) ==
    {r \in Requests : pc[r] \in {"store", "watch"} /\ req[r].mark = m /\ req[r].name.kind = k}

\* The watches started and still to be started; only requests that found the
\* kind missing count, and once it is recorded there are no new ones.
BoundInv ==
    \A m \in Marks, k \in Kinds :
        watches[m][k] + Cardinality(Committed(m, k)) <= Cardinality(Requests)

\* There are only as many committed requests as requests.
LEMMA CommittedFinite ==
  ASSUME NEW m, NEW k
  PROVE  /\ IsFiniteSet(Committed(m, k))
         /\ Cardinality(Committed(m, k)) \in Nat
         /\ Cardinality(Committed(m, k)) <= Cardinality(Requests)
         /\ Cardinality(Requests) \in Nat
  BY RequestsAssumption, FS_Subset, FS_CardinalityType DEF Committed

\* Once a kind is recorded no request joins those committed to it, and each that
\* starts a watch leaves them.
LEMMA CommittedStep ==
  ASSUME TypeOK, MarkedInside, [Next]_vars, NEW m \in Marks, NEW k \in recorded[m],
         k \in recorded'[m]
  PROVE  \/ watches'[m][k] = watches[m][k] /\ Committed(m, k)' \subseteq Committed(m, k)
         \/ \E r \in Committed(m, k) :
              /\ watches'[m][k] = watches[m][k] + 1
              /\ Committed(m, k)' \subseteq Committed(m, k) \ {r}
  <1> DEFINE Goal == \/ watches'[m][k] = watches[m][k] /\ Committed(m, k)' \subseteq Committed(m, k)
                     \/ \E r \in Committed(m, k) :
                          /\ watches'[m][k] = watches[m][k] + 1
                          /\ Committed(m, k)' \subseteq Committed(m, k) \ {r}
  <1> SUFFICES Goal
    OBVIOUS
  <1>0. k \in Kinds
    BY DEF TypeOK
  <1>1. ASSUME NEW r \in Requests, Post(r) PROVE Goal
    BY <1>1 DEF Post, Goto, Committed, TypeOK
  <1>2. ASSUME NEW r \in Requests, NEW n \in Resources, Get(r, n) PROVE Goal
    BY <1>2 DEF Get, Goto, Committed, TypeOK
  <1>3. ASSUME NEW r \in Requests, Lookup(r) PROVE Goal
    BY <1>3 DEF Lookup, Proceed, Finish, Goto, Committed, TypeOK
  <1>4. ASSUME NEW r \in Requests, Store(r) PROVE Goal
    BY <1>4 DEF Store, Goto, Committed, TypeOK
  <1>5. ASSUME NEW r \in Requests, Watch(r) PROVE Goal
    <2>1. Committed(m, k)' \subseteq Committed(m, k) \ {r}
      BY <1>5 DEF Watch, Proceed, Finish, Goto, Committed, TypeOK
    <2>2. CASE watches' = watches
      BY <2>1, <2>2
    <2>3. CASE /\ watches' = [watches EXCEPT ![req[r].mark][req[r].name.kind] = @ + 1]
               /\ r \in Committed(m, k)
      <3>1. watches'[m][k] = watches[m][k] + 1
        BY <1>0, <2>3 DEF Committed, TypeOK
      <3> QED
        BY <2>1, <2>3, <3>1
    <2>4. CASE /\ watches' = [watches EXCEPT ![req[r].mark][req[r].name.kind] = @ + 1]
               /\ r \notin Committed(m, k)
      <3>1. watches'[m][k] = watches[m][k]
        BY <1>0, <1>5, <2>4 DEF Watch, Committed, TypeOK
      <3> QED
        BY <2>1, <3>1
    <2> QED
      BY <1>5, <2>2, <2>3, <2>4 DEF Watch
  <1>6. ASSUME NEW r \in Requests, Forward(r) PROVE Goal
    BY <1>6 DEF Forward, Finish, Goto, Committed, TypeOK
  <1>7. ASSUME NEW n \in Resources, UserDelete(n) PROVE Goal
    BY <1>7 DEF UserDelete, Committed
  <1>8. CASE Restart
    BY <1>8 DEF Restart
  <1>9. CASE UNCHANGED vars
    BY <1>9 DEF vars, Committed
  <1> QED
    BY <1>1, <1>2, <1>3, <1>4, <1>5, <1>6, <1>7, <1>8, <1>9 DEF Next, Serve

\* A watch started is a request less that is committed to start one.
LEMMA BoundStep == Inv /\ Inv' /\ BoundInv /\ [Next]_vars => BoundInv'
  <1> SUFFICES ASSUME Inv, Inv', BoundInv, [Next]_vars, NEW m \in Marks, NEW k \in Kinds
               PROVE  watches'[m][k] + Cardinality(Committed(m, k)') <= Cardinality(Requests)
    BY DEF BoundInv
  <1>1. /\ IsFiniteSet(Committed(m, k)') /\ Cardinality(Committed(m, k)') \in Nat
        /\ Cardinality(Committed(m, k)') <= Cardinality(Requests)
        /\ Cardinality(Requests) \in Nat
    BY RequestsAssumption, FS_Subset, FS_CardinalityType DEF Committed
  <1>2. watches[m][k] \in Nat /\ watches'[m][k] \in Nat
    BY DEF Inv, TypeOK
  <1>3. CASE k \notin recorded'[m]
    <2>1. watches'[m][k] = 0
      BY <1>2, <1>3 DEF Inv, WatchedIsRecorded
    <2> QED
      BY <1>1, <2>1
  <1>4. CASE k \notin recorded[m] /\ k \in recorded'[m]
    <2>1. watches[m][k] = 0
      BY <1>2, <1>4 DEF Inv, WatchedIsRecorded
    <2>2. watches' = watches
      BY <1>4 DEF Next, Serve, Post, Get, Lookup, Store, Watch, Forward, UserDelete, Restart, vars
    <2> QED
      BY <1>1, <2>1, <2>2
  <1>5. CASE k \in recorded[m] /\ k \in recorded'[m]
    <2>1. watches[m][k] + Cardinality(Committed(m, k)) <= Cardinality(Requests)
      BY DEF BoundInv
    <2>2. IsFiniteSet(Committed(m, k)) /\ Cardinality(Committed(m, k)) \in Nat
      BY CommittedFinite
    <2>3. CASE watches'[m][k] = watches[m][k] /\ Committed(m, k)' \subseteq Committed(m, k)
      <3>1. Cardinality(Committed(m, k)') <= Cardinality(Committed(m, k))
        BY <2>2, <2>3, FS_Subset
      <3> QED
        BY <1>1, <1>2, <2>1, <2>2, <2>3, <3>1
    <2>4. ASSUME NEW r \in Committed(m, k),
                 watches'[m][k] = watches[m][k] + 1,
                 Committed(m, k)' \subseteq Committed(m, k) \ {r}
          PROVE  watches'[m][k] + Cardinality(Committed(m, k)') <= Cardinality(Requests)
      <3>1. /\ IsFiniteSet(Committed(m, k) \ {r})
            /\ Cardinality(Committed(m, k) \ {r}) = Cardinality(Committed(m, k)) - 1
        BY <2>2, FS_RemoveElement
      <3>2. Cardinality(Committed(m, k)') <= Cardinality(Committed(m, k) \ {r})
        BY <2>4, <3>1, FS_Subset
      <3> QED
        BY <1>1, <1>2, <2>1, <2>2, <2>4, <3>1, <3>2
    <2> QED
      BY <1>5, <2>3, <2>4, CommittedStep DEF Inv
  <1> QED
    BY <1>3, <1>4, <1>5

\* The race between the lookup and Store costs at most one watch per request
\* that was under way at once: the number of watches of a kind stays bounded for
\* the life of the operator.
THEOREM WatchesStayBounded == Spec => []WatchesBounded
  <1>1. Inv /\ [Next]_vars => Inv'
    BY TypeStep, WatchedStep, BeforeCreatedStep DEF Inv
  <1>2. Init => BoundInv
    <2> SUFFICES ASSUME Init, NEW m \in Marks, NEW k \in Kinds
                 PROVE  watches[m][k] + Cardinality(Committed(m, k)) <= Cardinality(Requests)
      BY DEF BoundInv
    <2>1. watches[m][k] = 0
      BY DEF Init, NoWatches
    <2> QED
      BY <2>1, CommittedFinite
  <1>3. Inv /\ BoundInv => WatchesBounded
    <2> SUFFICES ASSUME Inv, BoundInv, NEW m \in Marks, NEW k \in Kinds
                 PROVE  watches[m][k] + Cardinality(Starting(m, k)) <= Cardinality(Requests)
      BY DEF WatchesBounded
    <2>1. Starting(m, k) \subseteq Committed(m, k)
      BY DEF Starting, Committed
    <2>2. /\ Cardinality(Starting(m, k)) <= Cardinality(Committed(m, k))
          /\ Cardinality(Starting(m, k)) \in Nat
      BY <2>1, CommittedFinite, FS_Subset, FS_CardinalityType
    <2>3. watches[m][k] + Cardinality(Committed(m, k)) <= Cardinality(Requests)
      BY DEF BoundInv
    <2>4. watches[m][k] \in Nat
      BY DEF Inv, TypeOK
    <2> QED
      BY <2>2, <2>3, <2>4, CommittedFinite
  <1> QED
    BY InvInit, BoundStep, <1>1, <1>2, <1>3, PTL DEF Spec

----------------------------------------------------------------------------
(* What is watched.                                                        *)

\* A mark in the cluster or in a request is the one the proxy gives.
Genuine(n, mark) == mark \in Marks => MarkOf(n) = mark /\ n.kind \notin Virtual

ObjectsGenuine == \A n \in Resources : Genuine(n, objects[n])

RequestsGenuine == \A r \in Requests : Genuine(req[r].name, req[r].mark)

\* A request enters addWatchToController within the watched namespaces only,
\* and passes its checks only if the resource is to be watched.
RequestsInScope ==
    \A r \in Requests :
        /\ pc[r] \in {"lookup", "store", "watch"} => InWatchedNamespaces(req[r].name)
        /\ pc[r] \in {"store", "watch"} => NeedsWatch(req[r].name, req[r].mark)

ScopeInv == ObjectsGenuine /\ RequestsGenuine /\ RequestsInScope /\ WatchesInScope

\* Both handlers look at the namespaces, POST at the request and GET at the
\* cached resource, so a watch is in scope whichever of them starts it.
LEMMA ScopeStep == Inv /\ ScopeInv /\ [Next]_vars => ScopeInv'
  <1> SUFFICES ASSUME Inv, ScopeInv, [Next]_vars PROVE ScopeInv'
    OBVIOUS
  <1>0. TypeOK /\ MarkedInside
    BY DEF Inv
  <1>01. Genuine(NoRequest.name, NoRequest.mark)
    BY DEF NoRequest, Genuine, Marks
  \* Every action but Watch and Restart leaves the watches alone.
  <1>02. ASSUME watches' = watches PROVE WatchesInScope'
    BY <1>02 DEF ScopeInv, WatchesInScope
  <1>1. ASSUME NEW r \in Requests, Post(r) PROVE ScopeInv'
    <2>1. PICK n \in Resources, mark \in Marks \cup {"plain"} :
            /\ mark \in {"plain", MarkOf(n)}
            /\ n.kind \in Virtual => mark = "plain"
            /\ req' = [req EXCEPT ![r] = [name |-> n, mark |-> mark, via |-> "post"]]
            /\ pc' = [pc EXCEPT ![r] = IF mark # "plain" /\ InWatchedNamespaces(n)
                                       THEN "lookup" ELSE "forward"]
      BY <1>1 DEF Post, Goto
    <2>2. Genuine(n, mark)
      BY <2>1 DEF Genuine, Marks
    <2>3. UNCHANGED <<objects, watches>>
      BY <1>1 DEF Post
    <2>4. RequestsGenuine' /\ RequestsInScope'
      BY <1>0, <2>1, <2>2 DEF TypeOK, ScopeInv, RequestsGenuine, RequestsInScope
    <2> QED
      BY <1>02, <2>3, <2>4 DEF ScopeInv, ObjectsGenuine
  <1>2. ASSUME NEW r \in Requests, NEW n \in Resources, Get(r, n) PROVE ScopeInv'
    <2>1. /\ UNCHANGED <<objects, watches>> /\ InWatchedNamespaces(n)
          /\ req' = [req EXCEPT ![r] = [name |-> n, mark |-> objects[n], via |-> "get"]]
          /\ pc' = [pc EXCEPT ![r] = "lookup"]
      BY <1>2 DEF Get, Goto, FromCache
    <2>2. Genuine(n, objects[n])
      BY DEF ScopeInv, ObjectsGenuine
    <2>3. RequestsGenuine' /\ RequestsInScope'
      BY <1>0, <2>1, <2>2 DEF TypeOK, ScopeInv, RequestsGenuine, RequestsInScope
    <2> QED
      BY <1>02, <2>1, <2>3 DEF ScopeInv, ObjectsGenuine
  <1>3. ASSUME NEW r \in Requests, Lookup(r) PROVE ScopeInv'
    <2>1. /\ UNCHANGED <<objects, watches>> /\ pc[r] = "lookup"
          /\ \/ /\ NeedsWatch(req[r].name, req[r].mark)
                /\ pc' = [pc EXCEPT ![r] = "store"] /\ req' = req
             \/ pc' = [pc EXCEPT ![r] = "forward"] /\ req' = req
             \/ pc' = [pc EXCEPT ![r] = "idle"] /\ req' = [req EXCEPT ![r] = NoRequest]
      BY <1>3 DEF Lookup, Proceed, Finish, Goto
    <2>2. RequestsGenuine' /\ RequestsInScope'
      BY <1>0, <1>01, <2>1 DEF TypeOK, ScopeInv, RequestsGenuine, RequestsInScope
    <2> QED
      BY <1>02, <2>1, <2>2 DEF ScopeInv, ObjectsGenuine
  <1>4. ASSUME NEW r \in Requests, Store(r) PROVE ScopeInv'
    <2>1. /\ UNCHANGED <<objects, watches, req>> /\ pc[r] = "store"
          /\ pc' = [pc EXCEPT ![r] = "watch"]
      BY <1>4 DEF Store, Goto
    <2>2. RequestsGenuine' /\ RequestsInScope'
      BY <1>0, <2>1 DEF TypeOK, ScopeInv, RequestsGenuine, RequestsInScope
    <2> QED
      BY <1>02, <2>1, <2>2 DEF ScopeInv, ObjectsGenuine
  <1>5. ASSUME NEW r \in Requests, Watch(r) PROVE ScopeInv'
    <2> DEFINE n == req[r].name
               mark == req[r].mark
    <2>1. n \in Resources /\ mark \in Marks /\ n.kind \in Kinds
      BY <1>0, <1>5, KindOf DEF Watch, TypeOK, MarkedInside, Request
    <2>2. /\ MarkOf(n) = mark /\ n.kind \notin Virtual
          /\ InWatchedNamespaces(n) /\ NeedsWatch(n, mark)
      BY <1>5, <2>1 DEF Watch, ScopeInv, RequestsGenuine, RequestsInScope, Genuine
    <2>3. /\ objects' = objects
          /\ watches' = watches \/ watches' = [watches EXCEPT ![mark][n.kind] = @ + 1]
          /\ \/ pc' = [pc EXCEPT ![r] = "forward"] /\ req' = req
             \/ pc' = [pc EXCEPT ![r] = "idle"] /\ req' = [req EXCEPT ![r] = NoRequest]
      BY <1>5 DEF Watch, Proceed, Finish, Goto
    <2>4. RequestsGenuine' /\ RequestsInScope'
      BY <1>0, <1>01, <2>3 DEF TypeOK, ScopeInv, RequestsGenuine, RequestsInScope
    <2>5. WatchesInScope'
      <3> SUFFICES ASSUME NEW m \in Marks, NEW k \in Kinds, watches'[m][k] > 0
                   PROVE  \E x \in Resources :
                             /\ x.kind = k /\ k \notin Virtual /\ MarkOf(x) = m
                             /\ InWatchedNamespaces(x) /\ NeedsWatch(x, m)
        BY DEF WatchesInScope
      <3>1. CASE m = mark /\ k = n.kind
        BY <2>1, <2>2, <3>1
      <3>2. CASE ~(m = mark /\ k = n.kind)
        <4>1. watches'[m][k] = watches[m][k]
          BY <1>0, <2>3, <3>2 DEF TypeOK
        <4> QED
          BY <4>1 DEF ScopeInv, WatchesInScope
      <3> QED
        BY <3>1, <3>2
    <2> QED
      BY <2>3, <2>4, <2>5 DEF ScopeInv, ObjectsGenuine
  <1>6. ASSUME NEW r \in Requests, Forward(r) PROVE ScopeInv'
    <2>1. /\ watches' = watches
          /\ objects' = objects \/ objects' = [objects EXCEPT ![req[r].name] = req[r].mark]
          /\ pc' = [pc EXCEPT ![r] = "idle"] /\ req' = [req EXCEPT ![r] = NoRequest]
      BY <1>6 DEF Forward, Finish, Goto
    <2>2. RequestsGenuine' /\ RequestsInScope'
      BY <1>0, <1>01, <2>1 DEF TypeOK, ScopeInv, RequestsGenuine, RequestsInScope
    <2>3. ObjectsGenuine'
      BY <1>0, <2>1 DEF TypeOK, ScopeInv, ObjectsGenuine, RequestsGenuine
    <2> QED
      BY <1>02, <2>1, <2>2, <2>3 DEF ScopeInv
  <1>7. ASSUME NEW n \in Resources, UserDelete(n) PROVE ScopeInv'
    <2>1. UNCHANGED <<watches, pc, req>> /\ objects' = [objects EXCEPT ![n] = "none"]
      BY <1>7 DEF UserDelete
    <2>2. Genuine(n, "none")
      BY DEF Genuine, Marks
    <2>3. ObjectsGenuine'
      BY <1>0, <2>1, <2>2 DEF TypeOK, ScopeInv, ObjectsGenuine
    <2> QED
      BY <1>02, <2>1, <2>3 DEF ScopeInv, RequestsGenuine, RequestsInScope
  <1>8. CASE Restart
    <2>1. WatchesInScope'
      BY <1>8 DEF Restart, NoWatches, WatchesInScope
    <2> QED
      BY <1>01, <1>8, <2>1 DEF Restart, ScopeInv, ObjectsGenuine, RequestsGenuine, RequestsInScope
  <1>9. CASE UNCHANGED vars
    BY <1>02, <1>9 DEF vars, ScopeInv, ObjectsGenuine, RequestsGenuine, RequestsInScope
  <1> QED
    BY <1>1, <1>2, <1>3, <1>4, <1>5, <1>6, <1>7, <1>8, <1>9 DEF Next, Serve

\* For every configuration: whether a POST starts the watch or the goroutine
\* of a GET recovers it after a restart, its kind has a resource inside the
\* watched namespaces that carries the mark, is not virtual and not blacklisted.
THEOREM ScopeHolds == Spec => []WatchesInScope
  <1>1. Inv /\ [Next]_vars => Inv'
    BY TypeStep, WatchedStep, BeforeCreatedStep DEF Inv
  <1>2. Init => ScopeInv
    <2> SUFFICES ASSUME Init PROVE ScopeInv
      OBVIOUS
    <2>1. Genuine(NoRequest.name, NoRequest.mark) /\ \A n : Genuine(n, "none")
      BY DEF NoRequest, Genuine, Marks
    <2>2. WatchesInScope
      BY DEF Init, NoWatches, WatchesInScope
    <2> QED
      BY <2>1, <2>2 DEF Init, ScopeInv, ObjectsGenuine, RequestsGenuine, RequestsInScope
  <1>3. ScopeInv => WatchesInScope
    BY DEF ScopeInv
  <1> QED
    BY InvInit, ScopeStep, <1>1, <1>2, <1>3, PTL DEF Spec
=============================================================================
