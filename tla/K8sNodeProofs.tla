---------------------------- MODULE K8sNodeProofs ----------------------------
(***************************************************************************)
(* Proofs about the tasks on a node.  What filter_pods selects is a        *)
(* concatenation over the list of pods, so the first part is about         *)
(* FlattenSeq: it is defined by recursion, and its properties are shown    *)
(* by induction, in the form "there is no least counterexample".           *)
(***************************************************************************)
EXTENDS K8sNode, FiniteSetTheorems, WellFoundedInduction, TLAPS

----------------------------------------------------------------------------
(* Concatenation *)

(* Every set of natural numbers that is not empty has a least element.     *)
LEMMA LeastElement ==
    ASSUME NEW S, S \subseteq Nat, S # {}
    PROVE  \E m \in S : \A k \in S : m <= k
<1>1. PICK m \in S : \A k \in S : <<k, m>> \notin OpToRel(<, Nat)
    BY NatLessThanWellFounded, WFMin
<1>2. SUFFICES ASSUME NEW k \in S PROVE m <= k
    OBVIOUS
<1>3. <<k, m>> \notin {ss \in Nat \X Nat : ss[1] < ss[2]}
    BY <1>1 DEF OpToRel
<1>4. m \in Nat /\ k \in Nat
    OBVIOUS
<1>5. ~(k < m)
    BY <1>3, <1>4
<1> QED BY <1>4, <1>5

(* g[i] is the concatenation of the first i sequences of s.                *)
Accumulates(s, g, n) == g = [i \in 1..n |-> IF i = 1 THEN s[i] ELSE g[i - 1] \o s[i]]

(* The recursion in FlattenSeq defines a function.                         *)
LEMMA AccumulationExists ==
    ASSUME NEW s, NEW n \in Nat
    PROVE  \E g : Accumulates(s, g, n)
<1> DEFINE Bad == {k \in Nat : ~\E g : Accumulates(s, g, k)}
<1>1. SUFFICES ASSUME Bad # {} PROVE FALSE
    OBVIOUS
<1>2. PICK k \in Bad : \A j \in Bad : k <= j
    BY <1>1, LeastElement
<1>3. k # 0
    <2> DEFINE g == [i \in 1..0 |-> s[i]]
    <2>1. g = [i \in 1..0 |-> IF i = 1 THEN s[i] ELSE g[i - 1] \o s[i]]
        OBVIOUS
    <2> QED BY <2>1, <1>2 DEF Accumulates
<1>4. PICK g : Accumulates(s, g, k - 1)
    BY <1>2, <1>3
<1> DEFINE last == IF k = 1 THEN s[k] ELSE g[k - 1] \o s[k]
           h == [i \in 1..k |-> IF i = k THEN last ELSE g[i]]
<1>5. k \in Nat
    BY <1>2
<1>6. DOMAIN h = 1..k /\ h[k] = last /\ \A i \in 1..(k - 1) : h[i] = g[i]
    <2>1. k \in 1..k /\ \A i \in 1..(k - 1) : i \in 1..k /\ i # k
        BY <1>3, <1>5
    <2> HIDE DEF last
    <2> QED BY <2>1
<1>7. \A i \in 1..(k - 1) : g[i] = IF i = 1 THEN s[i] ELSE g[i - 1] \o s[i]
    BY <1>4, <1>5 DEF Accumulates
<1>8. ASSUME NEW i \in 1..k
      PROVE  h[i] = IF i = 1 THEN s[i] ELSE h[i - 1] \o s[i]
    <2>1. CASE i = k /\ k = 1
        BY <2>1, <1>6
    <2>2. CASE i = k /\ k # 1
        <3>1. h[k - 1] = g[k - 1]
            BY <2>2, <1>6, <1>5, <1>3
        <3> QED BY <2>2, <1>6, <3>1
    <2>3. CASE i # k
        <3>1. i \in 1..(k - 1) /\ (i # 1 => i - 1 \in 1..(k - 1))
            BY <2>3, <1>5
        <3>2. h[i] = g[i] /\ (i # 1 => h[i - 1] = g[i - 1])
            BY <3>1, <1>6
        <3> HIDE DEF h
        <3> QED BY <3>1, <3>2, <1>7
    <2> QED BY <2>1, <2>2, <2>3
<1>9. h = [i \in 1..k |-> h[i]]
    OBVIOUS
<1>10. Accumulates(s, h, k)
    <2> HIDE DEF h
    <2> QED BY <1>8, <1>9 DEF Accumulates
<1> QED BY <1>2, <1>10

(* What FlattenSeq computes                                                *)
LEMMA FlattenAccumulates ==
    ASSUME NEW s, Len(s) \in Nat, Len(s) # 0
    PROVE  \E g : Accumulates(s, g, Len(s)) /\ FlattenSeq(s) = g[Len(s)]
<1>1. PICK g : Accumulates(s, g, Len(s))
    BY AccumulationExists
<1> DEFINE flatten == CHOOSE f : Accumulates(s, f, Len(s))
<1>2. Accumulates(s, flatten, Len(s))
    BY <1>1
<1>3. FlattenSeq(s) = flatten[Len(s)]
    BY DEF FlattenSeq, Accumulates
<1> QED BY <1>2, <1>3

(* A sequence put behind another one keeps the members of both.            *)
LEMMA RangeOfConcat ==
    ASSUME NEW S, NEW s \in Seq(S), NEW t \in Seq(S)
    PROVE  s \o t \in Seq(S) /\ Range(s) \subseteq Range(s \o t) /\ Range(t) \subseteq Range(s \o t)
<1>1. s \o t \in Seq(S)
    OBVIOUS
<1>2. \A i \in DOMAIN s : i \in DOMAIN (s \o t) /\ (s \o t)[i] = s[i]
    OBVIOUS
<1>3. \A i \in DOMAIN t : i + Len(s) \in DOMAIN (s \o t) /\ (s \o t)[i + Len(s)] = t[i]
    OBVIOUS
<1>4. Range(s) \subseteq Range(s \o t)
    BY <1>2 DEF Range
<1>5. Range(t) \subseteq Range(s \o t)
    BY <1>3 DEF Range
<1> QED BY <1>1, <1>4, <1>5

(* The concatenation of sequences over S is a sequence over S that has the *)
(* members of all of them.                                                 *)
LEMMA FlattenHasAll ==
    ASSUME NEW S, NEW s \in Seq(Seq(S))
    PROVE  /\ FlattenSeq(s) \in Seq(S)
           /\ \A i \in DOMAIN s : Range(s[i]) \subseteq Range(FlattenSeq(s))
<1> DEFINE n == Len(s)
<1>1. n \in Nat /\ DOMAIN s = 1..n /\ \A i \in 1..n : s[i] \in Seq(S)
    OBVIOUS
<1>2. CASE n = 0
    <2>1. s = <<>> /\ FlattenSeq(s) = s
        BY <1>2 DEF FlattenSeq
    <2>2. DOMAIN s = {}
        BY <1>1, <1>2
    <2>3. <<>> \in Seq(S)
        OBVIOUS
    <2> QED BY <2>1, <2>2, <2>3
<1>3. CASE n # 0
    <2>1. PICK g : Accumulates(s, g, n) /\ FlattenSeq(s) = g[n]
        BY <1>1, <1>3, FlattenAccumulates
    <2> DEFINE Right(k) == g[k] \in Seq(S) /\ \A i \in 1..k : Range(s[i]) \subseteq Range(g[k])
               Bad == {k \in 1..n : ~Right(k)}
    <2>2. Bad = {}
        <3>1. SUFFICES ASSUME Bad # {} PROVE FALSE
            OBVIOUS
        <3>2. Bad \subseteq Nat
            BY <1>1
        <3>3. PICK k \in Bad : \A j \in Bad : k <= j
            BY <3>1, <3>2, LeastElement
        <3>4. k \in 1..n /\ ~Right(k)
            BY <3>3
        <3>5. g[k] = IF k = 1 THEN s[k] ELSE g[k - 1] \o s[k]
            BY <2>1, <3>4 DEF Accumulates
        <3>6. CASE k = 1
            BY <3>4, <3>5, <3>6, <1>1
        <3>7. CASE k # 1
            <4>1. k - 1 \in 1..n /\ k - 1 < k
                BY <3>4, <3>7, <1>1
            <4>2. k - 1 \notin Bad
                <5>1. \A j \in Bad : j \in Nat /\ k <= j
                    BY <3>2, <3>3
                <5>2. k \in Nat
                    BY <3>4, <1>1
                <5> HIDE DEF Bad
                <5> QED BY <4>1, <5>1, <5>2
            <4>3. Right(k - 1)
                BY <4>1, <4>2
            <4>4. /\ g[k] \in Seq(S)
                  /\ Range(g[k - 1]) \subseteq Range(g[k])
                  /\ Range(s[k]) \subseteq Range(g[k])
                <5>1. g[k - 1] \in Seq(S) /\ s[k] \in Seq(S) /\ g[k] = g[k - 1] \o s[k]
                    BY <4>3, <3>5, <3>7, <3>4, <1>1
                <5> QED BY <5>1, RangeOfConcat
            <4>5. \A i \in 1..k : i = k \/ i \in 1..(k - 1)
                BY <3>4, <1>1
            <4>6. \A i \in 1..k : Range(s[i]) \subseteq Range(g[k])
                <5>1. TAKE i \in 1..k
                <5>2. CASE i = k
                    BY <5>2, <4>4
                <5>3. CASE i \in 1..(k - 1)
                    BY <5>3, <4>3, <4>4
                <5> QED BY <5>2, <5>3, <4>5
            <4> QED BY <4>4, <4>6, <3>4
        <3> QED BY <3>6, <3>7
    <2>3. n \in 1..n
        BY <1>1, <1>3
    <2>4. Right(n)
        <3> HIDE DEF n
        <3> QED BY <2>2, <2>3
    <2> HIDE DEF n
    <2> QED BY <2>1, <2>4, <1>1
<1> QED BY <1>2, <1>3

(* The part of a list that is in a set has the members of the list that    *)
(* are in the set.                                                         *)
LEMMA OnlyHasAll ==
    ASSUME NEW S, NEW list \in Seq(S), NEW T
    PROVE  Only(list, T) \in Seq(S) /\ Range(list) \cap T \subseteq Range(Only(list, T))
<1> DEFINE parts == [i \in DOMAIN list |-> IF list[i] \in T THEN <<list[i]>> ELSE <<>>]
<1>1. parts \in Seq(Seq(S))
    <2>1. Len(list) \in Nat /\ DOMAIN list = 1..Len(list) /\ \A i \in DOMAIN list : list[i] \in S
        OBVIOUS
    <2>2. \A x \in S : <<x>> \in Seq(S)
        OBVIOUS
    <2>3. \A i \in DOMAIN list : (IF list[i] \in T THEN <<list[i]>> ELSE <<>>) \in Seq(S)
        BY <2>1, <2>2
    <2>4. parts \in [1..Len(list) -> Seq(S)]
        BY <2>1, <2>3
    <2> QED BY <2>1, <2>4
<1>2. Only(list, T) = FlattenSeq(parts)
    BY DEF Only
<1>3. ASSUME NEW x \in Range(list) \cap T PROVE x \in Range(FlattenSeq(parts))
    <2>1. PICK i \in DOMAIN list : list[i] = x
        BY <1>3 DEF Range
    <2>2. i \in DOMAIN parts /\ parts[i] = <<x>>
        BY <2>1, <1>3
    <2>3. x \in Range(<<x>>)
        <3>1. 1 \in DOMAIN <<x>> /\ <<x>>[1] = x
            OBVIOUS
        <3> QED BY <3>1 DEF Range
    <2> HIDE DEF parts
    <2> QED BY <1>1, <2>2, <2>3, FlattenHasAll
<1> HIDE DEF parts
<1> QED BY <1>1, <1>2, <1>3, FlattenHasAll

----------------------------------------------------------------------------
(* filter_pods *)

(* A pod is listed among its copies if it has finished, or if it has an    *)
(* owner and none of its owners is a DaemonSet.                            *)
LEMMA CopiesHaveIt ==
    ASSUME NEW x \in Pod
    PROVE  /\ Copies(x) \in Seq(Pod)
           /\ Finished(x) => x \in Range(Copies(x))
           /\ (Checked(x) /\ ~Unmanaged(x) /\ ~DaemonSet(x)) => x \in Range(Copies(x))
<1> DEFINE O == PodInfo[x].owners \ {"DaemonSet"}
           n == Cardinality(O)
<1>1. PodInfo[x].owners \subseteq {"DaemonSet", "ReplicaSet", "StatefulSet"}
    BY NodeAssumption DEF Info
<1>2. IsFiniteSet(O)
    <2>1. IsFiniteSet({"DaemonSet", "ReplicaSet", "StatefulSet"})
        <3>1. IsFiniteSet({"DaemonSet"})
            BY FS_Singleton
        <3>2. IsFiniteSet({"DaemonSet"} \cup {"ReplicaSet"})
            BY <3>1, FS_AddElement
        <3>3. IsFiniteSet(({"DaemonSet"} \cup {"ReplicaSet"}) \cup {"StatefulSet"})
            BY <3>2, FS_AddElement
        <3>4. {"DaemonSet", "ReplicaSet", "StatefulSet"}
                 = ({"DaemonSet"} \cup {"ReplicaSet"}) \cup {"StatefulSet"}
            OBVIOUS
        <3> QED BY <3>3, <3>4
    <2> QED BY <1>1, <2>1, FS_Subset
<1>3. n \in Nat /\ (O # {} => n # 0)
    BY <1>2, FS_CardinalityType, FS_EmptySet
<1>4. [i \in 1..n |-> x] \in Seq(Pod) /\ <<x>> \in Seq(Pod) /\ <<>> \in Seq(Pod)
    <2> HIDE DEF n
    <2>1. [i \in 1..n |-> x] \in [1..n -> Pod]
        OBVIOUS
    <2> QED BY <1>3, <2>1
<1>5. ~(Finished(x) /\ Checked(x))
    BY DEF Finished, Checked
<1>6. CASE Finished(x)
    <2>1. Copies(x) = <<x>>
        BY <1>5, <1>6 DEF Copies
    <2>2. 1 \in DOMAIN <<x>> /\ <<x>>[1] = x
        OBVIOUS
    <2> QED BY <1>4, <1>5, <1>6, <2>1, <2>2 DEF Range
<1>7. CASE Checked(x)
    <2>1. Copies(x) = [i \in 1..n |-> x]
        BY <1>5, <1>7 DEF Copies
    <2>2. (~Unmanaged(x) /\ ~DaemonSet(x)) => O # {}
        BY <1>7 DEF Unmanaged, DaemonSet
    <2>3. O # {} => (1 \in 1..n /\ [i \in 1..n |-> x][1] = x)
        <3> HIDE DEF n
        <3> QED BY <1>3
    <2> HIDE DEF n
    <2> QED BY <1>4, <1>5, <1>7, <2>1, <2>2, <2>3 DEF Range
<1>8. CASE ~Finished(x) /\ ~Checked(x)
    BY <1>4, <1>8 DEF Copies
<1> QED BY <1>6, <1>7, <1>8

(* If there are no errors, every pod of the list is to be evicted, but the *)
(* mirror pods and the ones of a DaemonSet.                                *)
LEMMA ToDeleteHasAll ==
    ASSUME NEW p, NEW list \in Seq(Pod), ~errors(p, list)
    PROVE  /\ to_delete(p, list) \in Seq(Pod)
           /\ \A x \in Range(list) : x \in Range(to_delete(p, list)) \/ Mirror(x) \/ DaemonSet(x)
<1> DEFINE parts == [i \in DOMAIN list |-> Copies(list[i])]
           A == FlattenSeq(parts)
           B == IF p.force THEN Only(list, {x \in Pod : Unmanaged(x)}) ELSE <<>>
           C == IF p.delete_emptydir THEN Only(list, {x \in Pod : LocalStorage(x)}) ELSE <<>>
<1>1. Len(list) \in Nat /\ DOMAIN list = 1..Len(list) /\ \A i \in DOMAIN list : list[i] \in Pod
    OBVIOUS
<1>2. parts \in Seq(Seq(Pod))
    <2>1. parts \in [1..Len(list) -> Seq(Pod)]
        BY <1>1, CopiesHaveIt
    <2> QED BY <1>1, <2>1
<1>3. A \in Seq(Pod) /\ \A i \in DOMAIN list : Range(Copies(list[i])) \subseteq Range(A)
    <2>1. DOMAIN parts = DOMAIN list /\ \A i \in DOMAIN list : parts[i] = Copies(list[i])
        OBVIOUS
    <2> HIDE DEF parts
    <2> QED BY <1>2, <2>1, FlattenHasAll
<1>4. <<>> \in Seq(Pod)
    OBVIOUS
<1>5. B \in Seq(Pod) /\ C \in Seq(Pod)
    BY <1>4, OnlyHasAll
<1>6. to_delete(p, list) = (A \o B) \o C
    BY DEF to_delete
<1> HIDE DEF A, B, C
<1>7. /\ A \o B \in Seq(Pod) /\ Range(A) \subseteq Range(A \o B) /\ Range(B) \subseteq Range(A \o B)
    BY <1>3, <1>5, RangeOfConcat
<1>8. /\ to_delete(p, list) \in Seq(Pod)
      /\ Range(A \o B) \subseteq Range(to_delete(p, list))
      /\ Range(C) \subseteq Range(to_delete(p, list))
    BY <1>5, <1>6, <1>7, RangeOfConcat
<1>9. ASSUME NEW x \in Range(list)
      PROVE  x \in Range(to_delete(p, list)) \/ Mirror(x) \/ DaemonSet(x)
    <2>1. PICK i \in DOMAIN list : list[i] = x
        BY DEF Range
    <2>2. x \in Pod /\ Range(Copies(x)) \subseteq Range(to_delete(p, list))
        BY <2>1, <1>1, <1>3, <1>7, <1>8
    <2>3. CASE Finished(x) \/ (Checked(x) /\ ~Unmanaged(x) /\ ~DaemonSet(x))
        BY <2>2, <2>3, CopiesHaveIt
    <2>4. CASE Unmanaged(x)
        <3>1. p.force
            BY <2>4 DEF errors
        <3>2. x \in Range(B)
            BY <3>1, <2>2, <2>4, OnlyHasAll DEF B
        <3> QED BY <3>2, <1>7, <1>8
    <2>5. CASE LocalStorage(x)
        <3>1. p.delete_emptydir
            BY <2>5 DEF errors
        <3>2. x \in Range(C)
            BY <3>1, <2>2, <2>5, OnlyHasAll DEF C
        <3> QED BY <3>2, <1>8
    <2>6. Mirror(x) \/ Finished(x) \/ LocalStorage(x) \/ Checked(x)
        BY DEF Checked
    <2> QED BY <2>3, <2>4, <2>5, <2>6
<1> QED BY <1>8, <1>9

(* Every pod that runs on the node is listed.                              *)
LEMMA OnNodeHasAll ==
    /\ OnNode \in Seq(Pod)
    /\ \A x \in Pod : podState[x] = "running" => x \in Range(OnNode)
<1> DEFINE T == {x \in Pod : podState[x] \in {"running", "terminating"}}
<1>1. OnNode = Only(Pods, T)
    BY DEF OnNode
<1>2. Pods \in Seq(Pod) /\ Range(Pods) = Pod
    BY NodeAssumption DEF Pod
<1>3. \A x \in Pod : podState[x] = "running" => x \in T
    OBVIOUS
<1> HIDE DEF T
<1> QED BY <1>1, <1>2, <1>3, OnlyHasAll

----------------------------------------------------------------------------
(* The invariant *)

(* The drain has seen or made the node cordoned and has not failed since.  *)
Through(t) == t.p.op = "drain" /\ (t.pc \in {"list", "evict", "wait"} \/ (t.pc = "ended" /\ t.ok))

(* What a task knows and has done in each of its phases                    *)
Phases(t) ==
    /\ t.pc \in {"read", "cordon", "list", "revert", "patch"} => t.asked = {}
    /\ t.pc \in {"read", "cordon"} => ~t.changed
    /\ (t.pc = "cordon" /\ t.p.op = "drain") => ~t.found
    /\ (t.pc = "list" /\ t.changed) => (t.marked /\ ~t.found)
    /\ t.pc = "revert" => (t.marked /\ ~t.found)
    /\ t.pc \in {"list", "revert", "evict", "wait"} => t.p.op = "drain"
    /\ t.pc = "patch" => t.p.op # "drain"
    /\ t.pc = "evict" => (t.todo # <<>> /\ t.pods # <<>>)

(* The node stays cordoned behind a drain, unless somebody uncordons it:   *)
(* no pod is scheduled any more.                                           *)
Cordoned == (Through(task) /\ ~uncordoned) => unschedulable

(* The pods that a drain has asked to go or is about to ask                *)
ToAsk(t) == t.asked \cup (IF t.pc = "evict" THEN Range(t.todo) ELSE {})

(* A pod that no drain asks to go                                          *)
Spared(x) == PodInfo[x].mirror \/ "DaemonSet" \in PodInfo[x].owners

(* After the list, every pod that still runs is asked or about to be.      *)
Covered(t, ps) == \A x \in Pod : ps[x] = "running" => (x \in ToAsk(t) \/ Spared(x))

AskedInv == (Through(task) /\ task.pc # "list" /\ ~uncordoned) => Covered(task, podState)

NodeInv == TypeOK /\ Phases(task) /\ Cordoned /\ AskedInv

----------------------------------------------------------------------------
(* What the task's record becomes *)

(* A task that fails                                                       *)
LEMMA FailedTask ==
    ASSUME NEW t \in Task, NEW s, s = Failed(t)
    PROVE  s \in Task /\ s.pc = "ended" /\ ~s.ok /\ Phases(s) /\ ~Through(s)
<1>1. s \in Task /\ s.pc = "ended" /\ s.ok = FALSE
    BY DEF Failed, Task
<1> QED BY <1>1 DEF Phases, Through

(* A task that ends well                                                   *)
LEMMA EndedTask ==
    ASSUME NEW t \in Task, NEW c \in BOOLEAN, NEW s, s = Ended(t, c)
    PROVE  s \in Task /\ s.pc = "ended" /\ s.p = t.p /\ s.asked = t.asked /\ s.todo = t.todo /\ Phases(s)
<1>1. s \in Task /\ s.pc = "ended" /\ s.p = t.p /\ s.asked = t.asked /\ s.todo = t.todo
    BY DEF Ended, Task
<1> QED BY <1>1 DEF Phases

(* The type of the initial state of a task                                 *)
LEMMA FirstTask ==
    ASSUME NEW p \in Param, NEW s, s = [Idle EXCEPT !.p = p, !.pc = "read"]
    PROVE  s \in Task /\ s.pc = "read" /\ Phases(s) /\ ~Through(s)
<1>1. <<>> \in Seq(Pod) /\ {} \in SUBSET Pod /\ {} \in SUBSET Taint /\ "none" \in Pod \cup {"none"}
    OBVIOUS
<1>2. s \in Task /\ s.pc = "read" /\ s.asked = {} /\ s.changed = FALSE
    BY <1>1 DEF Idle, Task
<1> QED BY <1>2 DEF Phases, Through

(* What follows from the state of the node: a drain goes on to the list    *)
(* only if it found the node cordoned.                                     *)
LEMMA ReadTask ==
    ASSUME NEW t \in Task, t.pc = "read", Phases(t), t.p.op \in {"drain", "cordon", "uncordon"},
           NEW b \in BOOLEAN, NEW s, s = AfterRead([t EXCEPT !.found = b])
    PROVE  s \in Task /\ Phases(s) /\ (Through(s) => (b /\ s.pc = "list"))
<1> DEFINE r == [t EXCEPT !.found = b]
<1>1. r \in Task /\ r.found = b /\ r.p = t.p /\ r.asked = {} /\ r.changed = FALSE
    <2>1. t.asked = {} /\ ~t.changed
        BY DEF Phases
    <2> QED BY <2>1 DEF Task
<1> HIDE DEF r
<1>2. s = AfterRead(r)
    BY DEF r
<1>3. CASE s = [r EXCEPT !.pc = "list"] /\ b /\ t.p.op = "drain"
    <2>1. s \in Task /\ s.pc = "list" /\ s.p = t.p /\ s.asked = {} /\ s.changed = FALSE
        BY <1>1, <1>3 DEF Task
    <2> QED BY <2>1, <1>3 DEF Phases, Through
<1>4. CASE s = [r EXCEPT !.pc = "cordon"] /\ (t.p.op = "drain" => ~b)
    <2>1. s \in Task /\ s.pc = "cordon" /\ s.p = t.p /\ s.asked = {} /\ s.changed = FALSE /\ s.found = b
        BY <1>1, <1>4 DEF Task
    <2> QED BY <2>1, <1>4 DEF Phases, Through
<1>5. CASE s = Ended(r, FALSE) /\ t.p.op # "drain"
    <2>1. s \in Task /\ Phases(s) /\ s.p = t.p
        BY <1>1, <1>5, EndedTask
    <2> QED BY <2>1, <1>5 DEF Through
<1> QED BY <1>1, <1>2, <1>3, <1>4, <1>5 DEF AfterRead

(* The cordon has been made by the drain.                                  *)
LEMMA MarkedTask ==
    ASSUME NEW t \in Task, t.pc = "cordon", Phases(t), t.p.op = "drain",
           NEW s, s = [t EXCEPT !.pc = "list", !.marked = TRUE, !.changed = TRUE]
    PROVE  s \in Task /\ Phases(s) /\ s.pc = "list"
<1>1. t.asked = {} /\ ~t.found
    BY DEF Phases
<1>2. /\ s \in Task /\ s.pc = "list" /\ s.p = t.p /\ s.asked = {} /\ s.marked = TRUE
      /\ s.found = FALSE
    BY <1>1 DEF Task
<1> QED BY <1>2 DEF Phases

(* The cordon is to be undone, if the task made it.                        *)
LEMMA UndoneTask ==
    ASSUME NEW t \in Task, t.pc = "list", Phases(t), NEW s, s = Undone(t)
    PROVE  s \in Task /\ Phases(s) /\ ~Through(s)
<1>1. CASE t.changed
    <2>1. t.asked = {} /\ t.marked /\ ~t.found /\ t.p.op = "drain"
        BY <1>1 DEF Phases
    <2>2. s = [t EXCEPT !.pc = "revert", !.changed = FALSE]
        BY <1>1 DEF Undone
    <2>3. s \in Task /\ s.pc = "revert" /\ s.p = t.p /\ s.asked = {} /\ s.marked = TRUE /\ s.found = FALSE
        BY <2>1, <2>2 DEF Task
    <2> QED BY <2>1, <2>3 DEF Phases, Through
<1>2. CASE ~t.changed
    BY <1>2, FailedTask DEF Undone
<1> QED BY <1>1, <1>2

(* The pods to evict are known.                                            *)
Lists(t, pods) == [t EXCEPT !.pc = "evict", !.pods = pods, !.todo = pods]

(* Their list is not empty.                                                *)
LEMMA ListedTask ==
    ASSUME NEW t \in Task, t.pc = "list", Phases(t), NEW pods \in Seq(Pod), pods # <<>>,
           NEW s, s = Lists(t, pods)
    PROVE  s \in Task /\ Phases(s) /\ s.pc = "evict" /\ s.p = t.p /\ s.todo = pods
<1>1. s \in Task /\ s.pc = "evict" /\ s.p = t.p /\ s.todo = pods /\ s.pods = pods
    BY DEF Task, Lists
<1>2. t.p.op = "drain"
    BY DEF Phases
<1> QED BY <1>1, <1>2 DEF Phases

(* All but the last member of a sequence, and the last one                 *)
LEMMA FrontAndLast ==
    ASSUME NEW S, NEW q \in Seq(S), q # <<>>
    PROVE  Front(q) \in Seq(S) /\ Last(q) \in S
BY DEF Front, Last

(* One pod has been asked to go.                                           *)
Asks(t, b) == [t EXCEPT !.todo = Tail(@), !.asked = @ \cup {Head(t.todo)}, !.changed = @ \/ b]

(* One pod has been asked to go: nobody who was to be asked is forgotten.  *)
LEMMA AskedTask ==
    ASSUME NEW t \in Task, t.pc = "evict", Phases(t), NEW b,
           NEW r, r = Asks(t, b),
           NEW s, s = IF r.todo = <<>> THEN Evicted(r) ELSE r
    PROVE  /\ Head(t.todo) \in Pod
           /\ s \in Task /\ Phases(s) /\ s.p = t.p
           /\ s.pc # "list" /\ ToAsk(t) \subseteq ToAsk(s)
<1>1. t.todo \in Seq(Pod) /\ t.pods \in Seq(Pod) /\ t.asked \subseteq Pod /\ t.changed \in BOOLEAN
    BY DEF Task
<1>2. t.p.op = "drain" /\ t.todo # <<>> /\ t.pods # <<>>
    BY DEF Phases
<1> DEFINE x == Head(t.todo)
<1>3. x \in Pod /\ Tail(t.todo) \in Seq(Pod) /\ Range(t.todo) \subseteq {x} \cup Range(Tail(t.todo))
    <2>1. x \in Pod /\ Tail(t.todo) \in Seq(Pod)
        BY <1>1, <1>2
    <2>2. ASSUME NEW y \in Range(t.todo) PROVE y = x \/ y \in Range(Tail(t.todo))
        <3>1. PICK i \in DOMAIN t.todo : y = t.todo[i]
            BY <2>2 DEF Range
        <3>2. CASE i = 1
            BY <3>1, <3>2, <1>1, <1>2
        <3>3. CASE i # 1
            <4>1. i - 1 \in DOMAIN Tail(t.todo) /\ Tail(t.todo)[i - 1] = y
                BY <3>1, <3>3, <1>1, <1>2
            <4> QED BY <4>1 DEF Range
        <3> QED BY <3>2, <3>3
    <2> QED BY <2>1, <2>2
<1>4. t.asked \cup {x} \in SUBSET Pod /\ (t.changed \/ b) \in BOOLEAN
    BY <1>1, <1>3
<1>5. /\ r \in Task /\ r.pc = "evict" /\ r.p = t.p /\ r.todo = Tail(t.todo) /\ r.pods = t.pods
      /\ r.asked = t.asked \cup {x} /\ r.changed \in BOOLEAN
    <2> HIDE DEF x
    <2>1. r = [t EXCEPT !.todo = Tail(t.todo), !.asked = t.asked \cup {x}, !.changed = t.changed \/ b]
        BY DEF x, Task, Asks
    <2> DEFINE d == Tail(t.todo)
               a == t.asked \cup {x}
               c == t.changed \/ b
    <2>2. d \in Seq(Pod) /\ a \in SUBSET Pod /\ c \in BOOLEAN
        BY <1>3, <1>4
    <2>3. r = [t EXCEPT !.todo = d, !.asked = a, !.changed = c]
        BY <2>1
    <2> HIDE DEF d, a, c
    <2>4. /\ r \in Task /\ r.pc = "evict" /\ r.p = t.p /\ r.todo = d /\ r.pods = t.pods
          /\ r.asked = a /\ r.changed \in BOOLEAN
        BY <2>2, <2>3 DEF Task
    <2> QED BY <2>4 DEF d, a
<1> HIDE DEF x
<1>6. ToAsk(t) \subseteq r.asked \cup Range(r.todo)
    BY <1>3, <1>5 DEF ToAsk
<1>7. CASE r.todo # <<>>
    <2>1. s = r
        BY <1>7
    <2>2. Phases(s)
        BY <2>1, <1>2, <1>5, <1>7 DEF Phases
    <2>3. ToAsk(s) = r.asked \cup Range(r.todo)
        BY <2>1, <1>5 DEF ToAsk
    <2> QED BY <2>1, <2>2, <2>3, <1>3, <1>5, <1>6 DEF x
<1>8. CASE r.todo = <<>>
    <2>1. Range(r.todo) = {}
        BY <1>8 DEF Range
    <2>2. s = Evicted(r)
        BY <1>8
    <2>3. s \in Task /\ Phases(s) /\ s.p = t.p /\ s.pc # "list" /\ s.asked = r.asked
        <3>1. CASE r.p.wait # "no"
            <4>1. Front(r.pods) \in Seq(Pod) /\ Last(r.pods) \in Pod
                BY <1>1, <1>2, <1>5, FrontAndLast
            <4>2. s = [r EXCEPT !.pc = "wait", !.todo = Front(r.pods), !.pod = Last(r.pods)]
                BY <2>2, <3>1 DEF Evicted
            <4>3. s \in Task /\ s.pc = "wait" /\ s.p = t.p /\ s.asked = r.asked
                BY <4>1, <4>2, <1>5 DEF Task
            <4> QED BY <4>3, <1>2 DEF Phases
        <3>2. CASE ~(r.p.wait # "no")
            <4>1. s = Ended(r, r.changed)
                BY <2>2, <3>2 DEF Evicted
            <4>2. r \in Task /\ r.changed \in BOOLEAN /\ r.p = t.p
                BY <1>5
            <4>3. s \in Task /\ s.pc = "ended" /\ s.p = r.p /\ s.asked = r.asked /\ Phases(s)
                BY <4>1, <4>2, EndedTask
            <4> QED BY <4>2, <4>3
        <3> QED BY <3>1, <3>2
    <2> QED BY <2>1, <2>3, <1>3, <1>6 DEF ToAsk, x
<1> QED BY <1>7, <1>8

(* A turn of the loop that waits                                           *)
Waits(t, q, x) == [t EXCEPT !.todo = q, !.pod = x]

(* It keeps what has been asked.                                           *)
LEMMA WaitedTask ==
    ASSUME NEW t \in Task, t.pc = "wait", Phases(t), NEW q \in Seq(Pod), NEW x \in Pod \cup {"none"},
           NEW s, s = Waits(t, q, x)
    PROVE  s \in Task /\ s.pc = "wait" /\ s.p = t.p /\ s.asked = t.asked /\ Phases(s)
<1>1. s \in Task /\ s.pc = "wait" /\ s.p = t.p /\ s.asked = t.asked
    BY DEF Task, Waits
<1> QED BY <1>1 DEF Phases

----------------------------------------------------------------------------
(* The steps *)

(* The initial states satisfy the invariant.                               *)
LEMMA NodeInit == Init => NodeInv
<1> SUFFICES ASSUME Init PROVE NodeInv
    OBVIOUS
<1>1. PICK p \in Params : task = [Idle EXCEPT !.p = p, !.pc = "read"]
    BY DEF Init
<1>2. p \in Param
    BY NodeAssumption
<1>3. task \in Task /\ Phases(task) /\ ~Through(task)
    BY <1>1, <1>2, FirstTask
<1>4. taints \subseteq Taint
    BY NodeAssumption DEF Init
<1>5. podState \in [Pod -> {"away", "running", "terminating", "gone", "elsewhere"}]
    BY DEF Init
<1>6. others \in 0..MaxOthers /\ unschedulable \in BOOLEAN /\ uncordoned \in BOOLEAN
    <2>1. others = 0 /\ unschedulable \in BOOLEAN /\ uncordoned = FALSE
        BY DEF Init
    <2>2. 0 \in 0..MaxOthers
        BY NodeAssumption
    <2> QED BY <2>1, <2>2
<1> QED BY <1>3, <1>4, <1>5, <1>6 DEF NodeInv, TypeOK, Cordoned, AskedInv

(* The taints that a task sets are taints.                                 *)
LEMMA NewTaintsType ==
    ASSUME NEW t \in Task
    PROVE  NewTaints(t) \subseteq Taint
<1>1. t.seen \subseteq Taint /\ t.p.taints \subseteq Taint
    BY DEF Task, Param
<1> QED BY <1>1 DEF NewTaints, get_difference

(* It suffices to look at the task, the cordon and the pods that run.      *)
LEMMA TaskPreserves ==
    ASSUME NodeInv, task' \in Task, Phases(task)', UNCHANGED envVars,
           unschedulable' \in BOOLEAN, taints' \subseteq Taint,
           podState' \in [Pod -> {"away", "running", "terminating", "gone", "elsewhere"}],
           (Through(task') /\ ~uncordoned) => unschedulable',
           (Through(task') /\ task'.pc # "list" /\ ~uncordoned) => Covered(task', podState')
    PROVE  NodeInv'
<1>1. TypeOK'
    BY DEF NodeInv, TypeOK, envVars
<1>2. Cordoned'
    BY DEF Cordoned, envVars
<1>3. AskedInv'
    BY DEF AskedInv, envVars
<1> QED BY <1>1, <1>2, <1>3 DEF NodeInv

(* A task that has failed is covered by nothing and needs nothing.         *)
LEMMA FailsPreserves ==
    ASSUME NodeInv, task' = Failed(task), UNCHANGED <<taints, podState, envVars>>,
           unschedulable' \in BOOLEAN
    PROVE  NodeInv'
<1>1. task' \in Task /\ Phases(task)' /\ ~Through(task')
    BY FailedTask DEF NodeInv, TypeOK
<1> QED BY <1>1, TaskPreserves DEF NodeInv, TypeOK

(* What remains to be asked of the pods that run stays covered while the   *)
(* task goes on.                                                           *)
LEMMA CoveredStays ==
    ASSUME NEW t, NEW s, NEW ps, NEW qs, Covered(t, ps), ToAsk(t) \subseteq ToAsk(s),
           \A x \in Pod : qs[x] = "running" => ps[x] = "running"
    PROVE  Covered(s, qs)
BY DEF Covered

(* read_node                                                               *)
LEMMA ReadNodePreserves ==
    ASSUME NodeInv, ReadNode, UNCHANGED envVars
    PROVE  NodeInv'
<1>1. CASE Fails
    BY <1>1, FailsPreserves DEF Fails, NodeInv, TypeOK
<1>2. CASE /\ task' = AfterRead([task EXCEPT !.found = unschedulable])
           /\ UNCHANGED <<unschedulable, taints, podState>>
    <2>1. task \in Task /\ unschedulable \in BOOLEAN /\ Phases(task)
        BY DEF NodeInv, TypeOK
    <2>2. /\ task' \in Task /\ Phases(task')
          /\ Through(task') => (unschedulable /\ task'.pc = "list")
        BY <1>2, <2>1, ReadTask DEF ReadNode
    <2> QED BY <1>2, <2>2, TaskPreserves DEF NodeInv, TypeOK
<1> QED BY <1>1, <1>2 DEF ReadNode

(* patch_node of cordon and uncordon                                       *)
LEMMA PatchNodePreserves ==
    ASSUME NodeInv, PatchNode, UNCHANGED envVars
    PROVE  NodeInv'
<1>1. CASE Fails
    BY <1>1, FailsPreserves DEF Fails, NodeInv, TypeOK
<1>2. CASE ~Fails
    <2>1. task \in Task /\ Phases(task) /\ task.pc = "cordon"
        BY DEF NodeInv, TypeOK, PatchNode
    <2>2. unschedulable' = (task.p.op # "uncordon") /\ UNCHANGED <<taints, podState>>
        BY <1>2 DEF PatchNode
    <2>3. CASE task.p.op = "drain"
        <3>1. task' = [task EXCEPT !.pc = "list", !.marked = TRUE, !.changed = TRUE]
            BY <1>2, <2>3 DEF PatchNode
        <3>2. task' \in Task /\ Phases(task') /\ task'.pc = "list"
            BY <2>1, <2>3, <3>1, MarkedTask
        <3>3. unschedulable' = TRUE
            BY <2>2, <2>3
        <3> QED BY <2>2, <3>2, <3>3, TaskPreserves DEF NodeInv, TypeOK
    <2>4. CASE task.p.op # "drain"
        <3>1. task' = Ended(task, TRUE)
            BY <1>2, <2>4 DEF PatchNode
        <3>2. task' \in Task /\ Phases(task') /\ task'.p = task.p
            BY <2>1, <3>1, EndedTask
        <3>3. ~Through(task')
            BY <3>2, <2>4 DEF Through
        <3>4. unschedulable' \in BOOLEAN
            BY <2>2
        <3> QED BY <2>2, <3>2, <3>3, <3>4, TaskPreserves DEF NodeInv, TypeOK
    <2> QED BY <2>3, <2>4
<1> QED BY <1>1, <1>2

(* list_pods and filter_pods: what the list does not show cannot come any  *)
(* more.                                                                   *)
LEMMA ListPodsPreserves ==
    ASSUME NodeInv, ListPods, UNCHANGED envVars
    PROVE  NodeInv'
<1> DEFINE pods == to_delete(task.p, OnNode)
<1>1. task \in Task /\ Phases(task) /\ task.pc = "list" /\ unschedulable \in BOOLEAN
    BY DEF NodeInv, TypeOK, ListPods
<1>2. UNCHANGED <<unschedulable, taints, podState>>
    BY DEF ListPods
<1>3. CASE task' = Failed(task)
    BY <1>1, <1>2, <1>3, FailsPreserves
<1>4. CASE task' = Undone(task)
    <2>1. task' \in Task /\ Phases(task') /\ ~Through(task')
        BY <1>1, <1>4, UndoneTask
    <2> QED BY <1>2, <2>1, TaskPreserves DEF NodeInv, TypeOK
<1>5. CASE ~errors(task.p, OnNode)
           /\ task' = IF pods = <<>> THEN Ended(task, task.changed)
                      ELSE [task EXCEPT !.pc = "evict", !.pods = pods, !.todo = pods]
    <2>1. pods \in Seq(Pod) /\ \A x \in Range(OnNode) : x \in Range(pods) \/ Mirror(x) \/ DaemonSet(x)
        BY <1>5, OnNodeHasAll, ToDeleteHasAll
    <2>2. \A x \in Pod : podState[x] = "running" => (x \in Range(pods) \/ Spared(x))
        BY <2>1, OnNodeHasAll DEF Mirror, DaemonSet, Spared
    <2>3. Through(task) /\ (~uncordoned => unschedulable)
        <3>1. Through(task)
            BY <1>1 DEF Through, Phases
        <3> QED BY <3>1 DEF NodeInv, Cordoned
    <2> HIDE DEF pods
    <2>4. task' \in Task /\ Phases(task') /\ Range(pods) \subseteq ToAsk(task')
        <3>1. CASE pods = <<>>
            <4>1. task' = Ended(task, task.changed) /\ task.changed \in BOOLEAN
                BY <1>1, <1>5, <3>1 DEF Task
            <4>2. Range(pods) = {}
                BY <3>1 DEF Range
            <4> QED BY <4>1, <4>2, <1>1, EndedTask
        <3>2. CASE pods # <<>>
            <4>1. task' = Lists(task, pods)
                BY <1>5, <3>2 DEF Lists
            <4>2. task' \in Task /\ Phases(task') /\ task'.pc = "evict" /\ task'.todo = pods
                BY <4>1, <1>1, <2>1, <3>2, ListedTask
            <4> QED BY <4>2 DEF ToAsk
        <3> QED BY <3>1, <3>2
    <2>5. Covered(task', podState')
        BY <1>2, <2>2, <2>4 DEF Covered
    <2> QED BY <1>2, <2>3, <2>4, <2>5, TaskPreserves DEF NodeInv, TypeOK
<1> QED BY <1>3, <1>4, <1>5 DEF ListPods

(* evict_pods                                                              *)
LEMMA EvictPodPreserves ==
    ASSUME NodeInv, EvictPod, UNCHANGED envVars
    PROVE  NodeInv'
<1> DEFINE x == Head(task.todo)
           b == podState[x] # "gone"
           r == Asks(task, b)
<1>1. task \in Task /\ Phases(task) /\ task.pc = "evict" /\ unschedulable \in BOOLEAN
    BY DEF NodeInv, TypeOK, EvictPod
<1>2. /\ UNCHANGED <<unschedulable, taints>>
      /\ task' = IF r.todo = <<>> THEN Evicted(r) ELSE r
      /\ podState' = IF podState[x] \in {"gone", "elsewhere"} THEN podState
                     ELSE [podState EXCEPT ![x] = "terminating"]
    BY DEF EvictPod, Asks
<1>3. /\ x \in Pod
      /\ task' \in Task /\ Phases(task') /\ task'.p = task.p /\ task'.pc # "list"
      /\ ToAsk(task) \subseteq ToAsk(task')
    <2> HIDE DEF b
    <2>1. task' = IF Asks(task, b).todo = <<>> THEN Evicted(Asks(task, b)) ELSE Asks(task, b)
        BY <1>2
    <2> QED BY <1>1, <2>1, AskedTask DEF x
<1> HIDE DEF x, b, r
<1>4. /\ podState' \in [Pod -> {"away", "running", "terminating", "gone", "elsewhere"}]
      /\ \A y \in Pod : podState'[y] = "running" => podState[y] = "running"
    <2>1. podState \in [Pod -> {"away", "running", "terminating", "gone", "elsewhere"}]
        BY DEF NodeInv, TypeOK
    <2> QED BY <1>2, <1>3, <2>1
<1>5. Through(task)
    BY <1>1 DEF Through, Phases
<1>6. ~uncordoned => (unschedulable /\ Covered(task, podState))
    BY <1>1, <1>5 DEF NodeInv, Cordoned, AskedInv
<1>7. ~uncordoned => Covered(task', podState')
    BY <1>3, <1>4, <1>6, CoveredStays
<1> QED BY <1>2, <1>3, <1>4, <1>6, <1>7, TaskPreserves DEF NodeInv, TypeOK

(* The turns and the end of wait_for_pod_deletion                          *)
LEMMA WaitPreserves ==
    ASSUME NodeInv, WaitPod \/ WaitEnds, UNCHANGED envVars
    PROVE  NodeInv'
<1>1. /\ task \in Task /\ Phases(task) /\ task.pc = "wait" /\ unschedulable \in BOOLEAN
      /\ task.todo \in Seq(Pod) /\ task.pod \in Pod \cup {"none"} /\ task.changed \in BOOLEAN
    BY DEF NodeInv, TypeOK, WaitPod, WaitEnds, Task
<1>2. UNCHANGED <<unschedulable, taints, podState>>
    BY DEF WaitPod, WaitEnds
<1>3. task' \in Task /\ Phases(task') /\ task'.asked = task.asked
    <2>1. CASE WaitPod
        <3> DEFINE x == IF task.pod = "none" THEN Last(task.todo) ELSE task.pod
                   rest == IF task.pod = "none" THEN Front(task.todo) ELSE task.todo
                   y == IF podState[x] = "gone" THEN "none" ELSE x
        <3>1. Front(task.todo) \in Seq(Pod) /\ Last(task.todo) \in Pod
            BY <1>1, <2>1, FrontAndLast DEF WaitPod
        <3>2. rest \in Seq(Pod) /\ y \in Pod \cup {"none"}
            BY <1>1, <3>1
        <3>3. task' = Waits(task, rest, y)
            BY <2>1 DEF WaitPod, Waits
        <3> HIDE DEF rest, y
        <3> QED BY <1>1, <3>2, <3>3, WaitedTask
    <2>2. CASE WaitEnds
        <3> DEFINE e == Ended(task, task.changed)
                   w == (task.todo # <<>>)
        <3>1. e \in Task /\ e.pc = "ended" /\ e.asked = task.asked
            BY <1>1, EndedTask
        <3>2. task' = [e EXCEPT !.warned = w] /\ w \in BOOLEAN
            BY <2>2 DEF WaitEnds
        <3> HIDE DEF e, w
        <3>3. task' \in Task /\ task'.pc = "ended" /\ task'.asked = task.asked
            BY <3>1, <3>2 DEF Task
        <3> QED BY <3>3 DEF Phases
    <2> QED BY <2>1, <2>2
<1>4. Through(task)
    BY <1>1 DEF Through, Phases
<1>5. ~uncordoned => (unschedulable /\ Covered(task, podState))
    BY <1>1, <1>4 DEF NodeInv, Cordoned, AskedInv
<1>6. ToAsk(task) \subseteq ToAsk(task')
    BY <1>1, <1>3 DEF ToAsk
<1>7. ~uncordoned => Covered(task', podState')
    BY <1>2, <1>5, <1>6, CoveredStays
<1> QED BY <1>2, <1>3, <1>5, <1>7, TaskPreserves DEF NodeInv, TypeOK

(* k8s_taint                                                               *)
LEMMA TaintPreserves ==
    ASSUME NodeInv, GetNode \/ PatchTaints, UNCHANGED envVars
    PROVE  NodeInv'
<1>1. task \in Task /\ Phases(task) /\ unschedulable \in BOOLEAN
    BY DEF NodeInv, TypeOK
<1>2. CASE Fails
    BY <1>1, <1>2, FailsPreserves DEF Fails
<1>3. CASE GetNode /\ ~Fails
    <2> DEFINE t == [task EXCEPT !.seen = taints]
    <2>1. t \in Task /\ t.p = task.p /\ t.asked = {}
        <3>1. taints \in SUBSET Taint /\ task.asked = {}
            BY <1>3 DEF NodeInv, TypeOK, Phases, GetNode
        <3> QED BY <1>1, <3>1 DEF Task
    <2> HIDE DEF t
    <2>2. /\ UNCHANGED <<unschedulable, taints, podState>>
          /\ \/ task' = Ended(t, FALSE)
             \/ task' = Ended(t, TRUE)
             \/ task' = [t EXCEPT !.pc = "patch"]
        <3>1. task' = CASE ~TaintsDiffer(t) -> Ended(t, FALSE)
                        [] TaintsDiffer(t) /\ t.p.check -> Ended(t, TRUE)
                        [] OTHER -> [t EXCEPT !.pc = "patch"]
            BY <1>3 DEF GetNode, t
        <3> QED BY <1>3, <3>1 DEF GetNode
    <2>3. task' \in Task /\ Phases(task') /\ task'.p = task.p
        <3>1. CASE task' = [t EXCEPT !.pc = "patch"]
            <4>1. task' \in Task /\ task'.pc = "patch" /\ task'.p = task.p /\ task'.asked = {}
                BY <2>1, <3>1 DEF Task
            <4>2. task.p.op # "drain"
                BY <1>3 DEF GetNode
            <4> QED BY <4>1, <4>2 DEF Phases
        <3>2. CASE task' = Ended(t, FALSE) \/ task' = Ended(t, TRUE)
            BY <2>1, <3>2, EndedTask
        <3> QED BY <2>2, <3>1, <3>2
    <2>4. ~Through(task')
        BY <1>3, <2>3 DEF Through, GetNode
    <2> QED BY <1>1, <2>2, <2>3, <2>4, TaskPreserves DEF NodeInv, TypeOK
<1>4. CASE PatchTaints /\ ~Fails
    <2>1. /\ taints' = NewTaints(task) /\ task' = Ended(task, TRUE)
          /\ UNCHANGED <<unschedulable, podState>>
        BY <1>4 DEF PatchTaints
    <2>2. task' \in Task /\ Phases(task') /\ task'.p = task.p
        BY <1>1, <2>1, EndedTask
    <2>3. ~Through(task')
        BY <1>1, <1>4, <2>2 DEF Through, Phases, PatchTaints
    <2>4. taints' \subseteq Taint
        BY <1>1, <2>1, NewTaintsType
    <2> QED BY <1>1, <2>1, <2>2, <2>3, <2>4, TaskPreserves DEF NodeInv, TypeOK
<1> QED BY <1>2, <1>3, <1>4

(* The others: they start no pod behind a cordon and do not touch the task. *)
LEMMA EnvironmentPreserves ==
    ASSUME NodeInv, Environment
    PROVE  NodeInv'
<1>1. TypeOK /\ task' = task /\ Phases(task) /\ (uncordoned => uncordoned')
    BY DEF NodeInv, Environment, Schedule, Terminate, Recreate, OtherDelete, Admin, NodeController,
           envVars, TypeOK
<1>2. TypeOK'
    <2>1. CASE Schedule \/ Terminate \/ Recreate
        BY <1>1, <2>1 DEF TypeOK, Schedule, Terminate, Recreate, envVars
    <2>2. CASE OtherDelete
        BY <1>1, <2>2, NodeAssumption DEF TypeOK, OtherDelete
    <2>3. CASE Admin
        BY <1>1, <2>3, NodeAssumption DEF TypeOK, Admin
    <2>4. CASE NodeController
        BY <1>1, <2>4, NodeAssumption DEF TypeOK, NodeController
    <2> QED BY <2>1, <2>2, <2>3, <2>4 DEF Environment
<1>3. (unschedulable /\ ~uncordoned') => (unschedulable' /\ ~Schedule)
    BY <1>1 DEF Environment, Schedule, Terminate, Recreate, OtherDelete, Admin, NodeController,
                envVars, TypeOK
<1>4. ~Schedule => \A x \in Pod : podState'[x] = "running" => podState[x] = "running"
    BY <1>1 DEF Environment, Terminate, Recreate, OtherDelete, Admin, NodeController, TypeOK
<1>5. Cordoned'
    BY <1>1, <1>3 DEF NodeInv, Cordoned
<1>6. AskedInv'
    <2>1. SUFFICES ASSUME Through(task), task.pc # "list", ~uncordoned'
                   PROVE  Covered(task, podState')
        BY <1>1 DEF AskedInv
    <2>2. unschedulable /\ Covered(task, podState)
        BY <1>1, <2>1 DEF NodeInv, Cordoned, AskedInv
    <2>3. \A x \in Pod : podState'[x] = "running" => podState[x] = "running"
        BY <1>3, <1>4, <2>1, <2>2
    <2> QED BY <2>2, <2>3, CoveredStays
<1> QED BY <1>1, <1>2, <1>5, <1>6 DEF NodeInv

(* Every step preserves the invariant.                                     *)
LEMMA NodeStep == NodeInv /\ [Next]_vars => NodeInv'
<1> SUFFICES ASSUME NodeInv, [Next]_vars PROVE NodeInv'
    OBVIOUS
<1>1. CASE TaskStep /\ UNCHANGED envVars
    <2>1. CASE RevertNodePatch
        <3>1. task' = Failed(task) /\ unschedulable' \in BOOLEAN /\ UNCHANGED <<taints, podState>>
            BY <2>1 DEF RevertNodePatch, NodeInv, TypeOK
        <3> QED BY <1>1, <3>1, FailsPreserves
    <2>2. CASE EvictRefused \/ WaitFails
        BY <1>1, <2>2, FailsPreserves DEF EvictRefused, WaitFails, Fails, NodeInv, TypeOK
    <2> QED BY <1>1, <2>1, <2>2, ReadNodePreserves, PatchNodePreserves, ListPodsPreserves,
               EvictPodPreserves, WaitPreserves, TaintPreserves DEF TaskStep
<1>2. CASE Environment
    BY <1>2, EnvironmentPreserves
<1>3. CASE UNCHANGED vars
    BY <1>3 DEF vars, NodeInv, TypeOK, Phases, Cordoned, AskedInv, Through, Covered, ToAsk
<1> QED BY <1>1, <1>2, <1>3 DEF Next

(* The invariant holds in every reachable state.                           *)
THEOREM NodeInvariant == Spec => []NodeInv
BY NodeInit, NodeStep, PTL DEF Spec

----------------------------------------------------------------------------
(* The properties *)

(* A drain that ended well has asked every pod of the node to go but the   *)
(* mirror pods and the ones of a DaemonSet, for every list of pods, all    *)
(* options and any number of changes by others.                            *)
THEOREM NobodySlipsIn == Spec => []NobodyLeftUnasked
<1>1. NodeInv => NobodyLeftUnasked
    <2> SUFFICES ASSUME NodeInv, task.pc = "ended", task.ok, task.p.op = "drain", ~uncordoned,
                        NEW x \in Pod, podState[x] = "running"
                 PROVE  x \in task.asked \/ PodInfo[x].mirror \/ "DaemonSet" \in PodInfo[x].owners
        BY DEF NobodyLeftUnasked
    <2>1. Covered(task, podState)
        BY DEF NodeInv, AskedInv, Through
    <2>2. ToAsk(task) = task.asked
        BY DEF ToAsk
    <2> QED BY <2>1, <2>2 DEF Covered, Spared
<1> QED BY <1>1, NodeInvariant, PTL

(* A drain takes back only its own cordon, and only before it has asked a  *)
(* pod to go; the patch of k8s_taint removes no taint that it has seen and *)
(* was not asked to remove or to replace.                                  *)
THEOREM UndoesOnlyItsOwn == Spec => OnlyOwnUndone
<1> DEFINE Undoes ==
        /\ (task.p.op = "drain" /\ others' = others /\ unschedulable /\ ~unschedulable')
              => (task.marked /\ ~task.found /\ task.asked = {})
        /\ \A t \in taints :
              (others' = others /\ t \notin taints')
                  => \/ t \notin task.seen
                     \/ \E w \in task.p.taints : equal_dicts(t, w)
                     \/ task.p.replace
<1>1. NodeInv /\ [Next]_vars => [Undoes]_vars
    <2> SUFFICES ASSUME NodeInv, Next PROVE Undoes
        BY DEF vars
    <2>1. ASSUME task.p.op = "drain", others' = others, unschedulable, ~unschedulable'
          PROVE  task.marked /\ ~task.found /\ task.asked = {}
        <3>1. RevertNodePatch
            <4>1. unschedulable' # unschedulable
                BY <2>1, Zenon
            <4>2. others' # others + 1
                <5>1. others \in Nat
                    BY NodeAssumption DEF NodeInv, TypeOK
                <5> QED BY <2>1, <5>1
            <4>3. ~Environment
                BY <4>1, <4>2, Zenon DEF Environment, Schedule, Terminate, Recreate, OtherDelete, Admin,
                                         NodeController
            <4>4. ~PatchNode
                BY <2>1 DEF PatchNode, Fails
            <4> QED BY <4>1, <4>3, <4>4 DEF Next, TaskStep, ReadNode, ListPods, EvictPod, EvictRefused,
                       WaitPod, WaitFails, WaitEnds, GetNode, PatchTaints, Fails
        <3> QED BY <3>1 DEF RevertNodePatch, NodeInv, Phases
    <2>2. ASSUME NEW t \in taints, others' = others, t \notin taints', t \in task.seen,
                 ~task.p.replace, ~\E w \in task.p.taints : equal_dicts(t, w)
          PROVE  FALSE
        <3>1. taints' = NewTaints(task)
            <4>1. ~Environment
                BY <2>2 DEF Environment, Schedule, Terminate, Recreate, OtherDelete, Admin, NodeController,
                            NodeInv, TypeOK, envVars
            <4>2. taints' # taints
                BY <2>2
            <4> QED BY <4>1, <4>2 DEF Next, TaskStep, ReadNode, PatchNode, ListPods, RevertNodePatch,
                       EvictPod, EvictRefused, WaitPod, WaitFails, WaitEnds, GetNode, PatchTaints, Fails
        <3>2. t \in get_difference(task.seen, task.p.taints)
            BY <2>2 DEF get_difference
        <3>3. t \in NewTaints(task)
            BY <2>2, <3>2 DEF NewTaints
        <3> QED BY <2>2, <3>1, <3>3
    <2> QED BY <2>1, <2>2
<1> QED BY <1>1, NodeInvariant, PTL DEF Spec, OnlyOwnUndone
=============================================================================
