-------------------------- MODULE DependentWatches --------------------------
(***************************************************************************)
(* The watches that the proxy adds to the controller of one owner kind for *)
(* the resources its roles create (internal/ansible/proxy):                *)
(*                                                                         *)
(*  - a POST of a role goes through injectOwnerReferenceHandler: the       *)
(*    resource is marked with its owner, its kind is watched, and only     *)
(*    then is the request forwarded to the API server;                     *)
(*  - a GET of a role goes through cacheResponseHandler: the answer comes  *)
(*    from the informer cache, and a goroutine recovers the watch, which   *)
(*    is needed after a restart of the operator.                           *)
(*                                                                         *)
(* Requests are served concurrently; addWatchToController looks its kind   *)
(* up in a WatchMap, stores it there and starts the watch, in three steps  *)
(* that no lock makes one.                                                 *)
(*                                                                         *)
(* A resource is a kind and a namespace, "" for a cluster-scoped kind.     *)
(***************************************************************************)
EXTENDS Integers, FiniteSets

CONSTANTS
    Requests,       \* requests, or goroutines of earlier ones, under way at once
    Resources,      \* the resources roles create: records of a kind and an ns
    Clustered,      \* the cluster-scoped kinds
    Virtual,        \* the kinds without get, list and watch
    Blacklist,      \* the kinds that watches.yaml blacklists for the owner
    Watched,        \* watchedNamespaces; {""} is all namespaces
    OwnerNamespace, \* the namespace of the owner, "" if its kind is cluster-scoped
    OwnerCore,      \* the owner's kind is in the core API group
    WatchDependentResources,
    WatchClusterScopedResources,
    MaxRestarts     \* bound on restarts of the operator

ASSUME OptionsAssumption ==
    {OwnerCore, WatchDependentResources, WatchClusterScopedResources} \subseteq BOOLEAN
ASSUME RequestsAssumption == IsFiniteSet(Requests)
ASSUME ResourcesAssumption ==
    /\ Resources # {}
    /\ \A n \in Resources : (n.ns = "") <=> (n.kind \in Clustered)
ASSUME RestartsAssumption == MaxRestarts \in Nat

Kinds == {n.kind : n \in Resources}

\* How a resource points to its owner; which of the two maps records the kind.
Marks == {"owner", "annotation"}

VARIABLES
    objects,   \* "none", "plain" or the mark, for every resource
    recorded,  \* OwnerWatchMap and AnnotationWatchMap
    watches,   \* number of watches started, by mark and kind
    pc,        \* where each request is
    req,       \* the resource, the mark and the method of each request
    restarts,  \* restarts left
    failed     \* history: for which kinds Controller.Watch has returned an error

vars == <<objects, recorded, watches, pc, req, restarts, failed>>

----------------------------------------------------------------------------
(* Decisions that depend on the configuration only.                        *)

\* SupportsOwnerReference.
SupportsOwnerReference(n) ==
    OwnerNamespace = "" \/ (n.kind \notin Clustered /\ n.ns = OwnerNamespace)

MarkOf(n) == IF SupportsOwnerReference(n) THEN "owner" ELSE "annotation"

\* allNsPresent || reqNsPresent.
InWatchedNamespaces(n) == "" \in Watched \/ n.ns \in Watched

\* Whether addWatchToController reaches one of its two cases.
NeedsWatch(n, mark) ==
    /\ WatchDependentResources /\ n.kind \notin Blacklist
    /\ mark = "owner" \/ n.kind \notin Clustered \/ WatchClusterScopedResources

\* Mutant: the watched namespaces are not looked at.
FromCacheAnywhere(n) == n.kind \notin Blacklist /\ n.kind \notin Virtual

\* skipCacheLookup and IsVirtualResource.
FromCache(n) ==
    n.kind \notin Blacklist /\ n.kind \notin Virtual /\ InWatchedNamespaces(n)

\* The type annotation is the owner's GroupKind.String(), without a dot in the
\* core group; recoverDependentWatches compares it with "Kind." there.
Recoverable(mark) == mark = "owner" \/ (mark = "annotation" /\ ~OwnerCore)

----------------------------------------------------------------------------
(* The handlers.                                                           *)

NoRequest == [name |-> CHOOSE n \in Resources : TRUE, mark |-> "plain", via |-> "get"]

Goto(r, label) == pc' = [pc EXCEPT ![r] = label]

Finish(r) == Goto(r, "idle") /\ req' = [req EXCEPT ![r] = NoRequest]

\* injectOwnerReferenceHandler up to addWatchToController.  A request without
\* an owner in its user name, or for a virtual kind, is forwarded as it is.
Post(r) ==
    /\ pc[r] = "idle"
    /\ \E n \in Resources, mark \in Marks \cup {"plain"} :
         /\ mark \in {"plain", MarkOf(n)}
         /\ n.kind \in Virtual => mark = "plain"
         /\ req' = [req EXCEPT ![r] = [name |-> n, mark |-> mark, via |-> "post"]]
         /\ Goto(r, IF mark # "plain" /\ InWatchedNamespaces(n) THEN "lookup" ELSE "forward")
    /\ UNCHANGED <<objects, recorded, watches, restarts, failed>>

\* cacheResponseHandler on a resource the cache holds, read by the role of its
\* owner: the goroutine of recoverDependentWatches starts with a copy of it.
\* Every other GET changes nothing.
Get(r, n) ==
    /\ pc[r] = "idle"
    /\ FromCache(n) /\ objects[n] \in Marks /\ Recoverable(objects[n])
    /\ req' = [req EXCEPT ![r] = [name |-> n, mark |-> objects[n], via |-> "get"]]
    /\ Goto(r, "lookup")
    /\ UNCHANGED <<objects, recorded, watches, restarts, failed>>

\* addWatchToController is left without an error: a POST is forwarded, the
\* goroutine of a GET ends.
Proceed(r) ==
    IF req[r].via = "post" THEN Goto(r, "forward") /\ UNCHANGED req ELSE Finish(r)

\* Mutant: one map for both marks.
LookupShared(r) ==
    /\ pc[r] = "lookup"
    /\ LET kind == req[r].name.kind
       IN  IF NeedsWatch(req[r].name, req[r].mark) /\ \A m \in Marks : kind \notin recorded[m]
           THEN Goto(r, "store") /\ UNCHANGED req
           ELSE Proceed(r)
    /\ UNCHANGED <<objects, recorded, watches, restarts, failed>>

\* The checks of addWatchToController, down to owMap.Get or awMap.Get.
Lookup(r) ==
    /\ pc[r] = "lookup"
    /\ IF NeedsWatch(req[r].name, req[r].mark)
          /\ req[r].name.kind \notin recorded[req[r].mark]
       THEN Goto(r, "store") /\ UNCHANGED req
       ELSE Proceed(r)
    /\ UNCHANGED <<objects, recorded, watches, restarts, failed>>

\* owMap.Store or awMap.Store.
Store(r) ==
    /\ pc[r] = "store"
    /\ recorded' = [recorded EXCEPT ![req[r].mark] = @ \cup {req[r].name.kind}]
    /\ Goto(r, "watch")
    /\ UNCHANGED <<objects, watches, req, restarts, failed>>

\* Mutant: the goroutine of a GET records the kind only.
WatchOnPostOnly(r) ==
    /\ pc[r] = "watch"
    /\ IF req[r].via = "post"
       THEN watches' = [watches EXCEPT ![req[r].mark][req[r].name.kind] = @ + 1]
       ELSE UNCHANGED watches
    /\ Proceed(r)
    /\ UNCHANGED <<objects, recorded, restarts, failed>>

\* Controller.Watch.  If it fails the kind stays recorded, and a POST is
\* answered with an error instead of being forwarded.
Watch(r) ==
    /\ pc[r] = "watch"
    /\ \/ /\ watches' = [watches EXCEPT ![req[r].mark][req[r].name.kind] = @ + 1]
          /\ Proceed(r)
          /\ UNCHANGED failed
       \/ /\ failed' = [failed EXCEPT ![req[r].mark] = @ \cup {req[r].name.kind}]
          /\ Finish(r)
          /\ UNCHANGED watches
    /\ UNCHANGED <<objects, recorded, restarts>>

\* next.ServeHTTP: the API server creates the resource, or refuses it.
Forward(r) ==
    /\ pc[r] = "forward"
    /\ \/ /\ objects[req[r].name] = "none"
          /\ objects' = [objects EXCEPT ![req[r].name] = req[r].mark]
       \/ UNCHANGED objects
    /\ Finish(r)
    /\ UNCHANGED <<recorded, watches, restarts, failed>>

----------------------------------------------------------------------------
(* Everybody else.                                                         *)

UserDelete(n) ==
    /\ objects[n] # "none"
    /\ objects' = [objects EXCEPT ![n] = "none"]
    /\ UNCHANGED <<recorded, watches, pc, req, restarts, failed>>

NoWatches == [m \in Marks |-> [k \in Kinds |-> 0]]

\* The operator starts: NewWatchMap twice, controllers without child watches.
Restart ==
    /\ restarts > 0
    /\ restarts' = restarts - 1
    /\ recorded' = [m \in Marks |-> {}]
    /\ watches' = NoWatches
    /\ pc' = [r \in Requests |-> "idle"]
    /\ req' = [r \in Requests |-> NoRequest]
    /\ failed' = [m \in Marks |-> {}]
    /\ UNCHANGED objects

----------------------------------------------------------------------------
Init ==
    /\ objects = [n \in Resources |-> "none"]
    /\ recorded = [m \in Marks |-> {}]
    /\ watches = NoWatches
    /\ pc = [r \in Requests |-> "idle"]
    /\ req = [r \in Requests |-> NoRequest]
    /\ restarts = MaxRestarts
    /\ failed = [m \in Marks |-> {}]

Serve(r) == Lookup(r) \/ Store(r) \/ Watch(r) \/ Forward(r)

Next ==
    \/ \E r \in Requests : Post(r) \/ Serve(r) \/ \E n \in Resources : Get(r, n)
    \/ \E n \in Resources : UserDelete(n)
    \/ Restart

\* Requests are served.  A role reads each of its resources in every run, and
\* the owner is reconciled at every start and again after its period.
Fairness ==
    /\ \A r \in Requests : WF_vars(Serve(r))
    /\ \A n \in Resources : SF_vars(\E r \in Requests : Get(r, n))

Spec == Init /\ [][Next]_vars /\ Fairness

----------------------------------------------------------------------------
(* Properties.                                                             *)

Request == [name : Resources, mark : Marks \cup {"plain"}, via : {"post", "get"}]

TypeOK ==
    /\ objects \in [Resources -> Marks \cup {"none", "plain"}]
    /\ recorded \in [Marks -> SUBSET Kinds]
    /\ watches \in [Marks -> [Kinds -> Nat]]
    /\ pc \in [Requests -> {"idle", "lookup", "store", "watch", "forward"}]
    /\ req \in [Requests -> Request]
    /\ restarts \in 0..MaxRestarts
    /\ failed \in [Marks -> SUBSET Kinds]

\* The requests that are about to start a watch for the mark and the kind.
Starting(m, k) ==
    {r \in Requests : pc[r] = "watch" /\ req[r].mark = m /\ req[r].name.kind = k}

\* "Determines if resource is being watched already" (WatchMap): a kind that a
\* map records is watched, or a request is about to start its watch, unless
\* Controller.Watch failed for it.  A request that finds it recorded goes on
\* without one, so a record that nobody stands behind leaves the kind unwatched.
RecordedIsWatched ==
    \A m \in Marks : \A k \in recorded[m] :
        watches[m][k] > 0 \/ Starting(m, k) # {} \/ k \in failed[m]

\* And nothing is watched that the maps do not know, so that the lookups which
\* keep the number of watches down cannot miss one.
WatchedIsRecorded ==
    \A m \in Marks : \A k \in Kinds :
        watches[m][k] > 0 \/ Starting(m, k) # {} => k \in recorded[m]

\* When the proxy hands a marked resource to the API server, the watch that
\* will report its deletion is recorded: no resource exists before that.
RecordedBeforeCreated ==
    \A r \in Requests :
        /\ pc[r] = "forward" /\ req[r].mark # "plain"
        /\ InWatchedNamespaces(req[r].name) /\ NeedsWatch(req[r].name, req[r].mark)
        => req[r].name.kind \in recorded[req[r].mark]

\* Two requests may both find the kind missing, but no more watches are started
\* for it than there are requests under way at once.
WatchesBounded ==
    \A m \in Marks, k \in Kinds :
        watches[m][k] + Cardinality(Starting(m, k)) <= Cardinality(Requests)

\* "This is making sure we are not attempting to watch a resource outside of the
\* namespaces that the cache can watch" (inject_owner.go), also when the watch
\* is recovered: a watch is started for a kind only if it has a resource within
\* them that carries the mark, is not virtual and is not blacklisted.
WatchesInScope ==
    \A m \in Marks, k \in Kinds :
        watches[m][k] > 0 =>
            \E n \in Resources :
                /\ n.kind = k /\ k \notin Virtual /\ MarkOf(n) = m
                /\ InWatchedNamespaces(n) /\ NeedsWatch(n, m)

\* "Once we get the resource, we are going to attempt to recover the dependent
\* watches here" (getObjectFromCache): every marked resource that a watch is
\* meant for is watched eventually, after a restart too, while it exists, or
\* Controller.Watch fails for its kind.
DependentsWatched ==
    \A n \in Resources :
        (objects[n] = MarkOf(n) /\ FromCache(n) /\ NeedsWatch(n, MarkOf(n)))
            ~> (watches[MarkOf(n)][n.kind] > 0 \/ objects[n] # MarkOf(n)
                  \/ n.kind \in failed[MarkOf(n)])
=============================================================================
