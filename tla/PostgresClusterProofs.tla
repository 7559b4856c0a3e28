------------------------ MODULE PostgresClusterProofs ------------------------
(***************************************************************************)
(* Proofs about PostgresCluster, for all instances, specs and bounds:      *)
(*   TypeCorrect          every reachable state is well typed;             *)
(*   NothingBeforehand    there is no child before the finalizer is        *)
(*                        stored;                                          *)
(*   EditsAreKept         the controller only fills an empty instance list;*)
(*   CleanupIsComplete    the finalizer goes after the children it guards. *)
(***************************************************************************)
EXTENDS PostgresCluster, SequenceTheorems, TLAPS

\* What a pass knows at each of its steps, of the copy it works on.
PassTyped ==
  /\ pc # "idle" => snap \in Clusters
  /\ k > 0 /\ (pc \in {"idle", "finalize", "default"} => k = 1)
  /\ pc \in {"default", "apply", "status", "cleanup"} => snap.finalizer
  /\ pc = "default" => snap.spec.instances = <<>>
  /\ pc = "cleanup" => snap.deleting

\* What comparing resourceVersions guarantees: a copy that is fresh differs from
\* what is stored at most in the status.
SameButStatus(copy, stored) ==
  /\ copy.spec = stored.spec /\ copy.deleting = stored.deleting
  /\ copy.foreground = stored.foreground /\ copy.finalizer = stored.finalizer

Versions ==
  /\ cFresh => cCluster = cluster
  /\ fresh => cluster # Absent /\ snap # Absent /\ SameButStatus(snap, cluster)

\* The finalizer of a cluster is given up only when it is being deleted: once a
\* copy has it, the cluster has it, or is being deleted, or is gone.
Guarded == cluster = Absent \/ cluster.finalizer \/ cluster.deleting
Guarding ==
  /\ cluster # Absent /\ cluster.foreground => cluster.deleting
  /\ cCluster # Absent /\ cCluster.finalizer => Guarded
  /\ snap # Absent /\ snap.finalizer => Guarded
  /\ ~NoChild => Guarded

\* The cleanup leaves nothing behind it.
Swept == pc = "cleanup" => \A n \in 1 .. Len(Cleanup(snap.spec)) :
                             n < k => child[Cleanup(snap.spec)[n]] = Absent

IInv == TypeOK /\ PassTyped /\ Versions /\ Guarding /\ Swept

-----------------------------------------------------------------------------
(* The children of a spec *)

LEMMA ClusterParts ==
  ASSUME NEW c \in Clusters
  PROVE  /\ c # Absent /\ c.spec \in ClusterSpecs /\ c.spec.instances \in Seq(InstanceSpecs)
         /\ c.spec.replicas \in Nat /\ c.spec.storage \in Storages
         /\ c.status \in Statuses
         /\ c.deleting \in BOOLEAN /\ c.foreground \in BOOLEAN /\ c.finalizer \in BOOLEAN
<1>1. c.spec \in ClusterSpecs /\ c.status \in Statuses
  BY DEF Clusters
<1> QED BY <1>1, AbsentAssumption DEF Clusters, ClusterSpecs

LEMMA InstanceTypes ==
  ASSUME NEW spec \in ClusterSpecs, NEW n \in 1 .. 2 * Len(spec.instances)
  PROVE  /\ spec.instances[(n + 1) \div 2] \in InstanceSpecs
         /\ spec.instances[(n + 1) \div 2].name \in Instances
<1>1. spec.instances \in Seq(InstanceSpecs)
  BY DEF ClusterSpecs
<1>2. Len(spec.instances) \in Nat
  BY <1>1
<1>3. (n + 1) \div 2 \in 1 .. Len(spec.instances)
  BY <1>2
<1>4. spec.instances[(n + 1) \div 2] \in InstanceSpecs
  BY <1>1, <1>3
<1> QED BY <1>4 DEF InstanceSpecs

\* The middle part of Work and the first part of Cleanup.
WorkItems(spec) ==
  [n \in 1 .. 2 * Len(spec.instances) |->
     LET i == spec.instances[(n + 1) \div 2].name
     IN  IF n % 2 = 1 THEN Service(i) ELSE StatefulSet(i)]
CleanupItems(spec) ==
  [n \in 1 .. 2 * Len(spec.instances) |->
     LET i == spec.instances[(n + 1) \div 2].name
     IN  IF n % 2 = 1 THEN StatefulSet(i) ELSE Service(i)]

LEMMA ItemsType ==
  ASSUME NEW spec \in ClusterSpecs
  PROVE  /\ WorkItems(spec) \in Seq(Children) /\ CleanupItems(spec) \in Seq(Children)
         /\ Len(WorkItems(spec)) = 2 * Len(spec.instances)
         /\ Len(CleanupItems(spec)) = 2 * Len(spec.instances)
<1>1. 2 * Len(spec.instances) \in Nat
  BY DEF ClusterSpecs
<1>2. \A n \in 1 .. 2 * Len(spec.instances) : spec.instances[(n + 1) \div 2].name \in Instances
  BY InstanceTypes
<1>3. /\ WorkItems(spec) \in [1 .. 2 * Len(spec.instances) -> Children]
      /\ CleanupItems(spec) \in [1 .. 2 * Len(spec.instances) -> Children]
  BY <1>2 DEF WorkItems, CleanupItems, Children
<1> QED BY <1>1, <1>3

LEMMA Joined ==
  ASSUME NEW S, NEW s \in Seq(S), NEW t \in Seq(S)
  PROVE  /\ s \o t \in Seq(S) /\ Len(s \o t) = Len(s) + Len(t)
         /\ \A i \in 1 .. Len(s) : (s \o t)[i] = s[i]
         /\ \A i \in 1 .. Len(t) : (s \o t)[Len(s) + i] = t[i]
OBVIOUS

LEMMA WorkProperties ==
  ASSUME NEW spec \in ClusterSpecs, NEW n \in 1 .. Len(Work(spec))
  PROVE  /\ Work(spec)[n] \in Children
         /\ Work(spec)[n][1] \in {"service", "sts"} => InstanceAt(spec, n) \in InstanceSpecs
<1> DEFINE head == <<Config, Secret>>
           last == IF spec.monitoring THEN <<Metrics>> ELSE <<>>
           L    == Len(spec.instances)
<1>1. head \in Seq(Children) /\ Len(head) = 2 /\ head[1] = Config /\ head[2] = Secret
  BY DEF Children
<1>2. last \in Seq(Children) /\ Len(last) \in Nat /\ \A m \in 1 .. Len(last) : last[m] = Metrics
  <2>1. CASE spec.monitoring
    BY <2>1 DEF Children
  <2>2. CASE ~spec.monitoring
    BY <2>2
  <2> QED BY <2>1, <2>2
<1>3. WorkItems(spec) \in Seq(Children) /\ Len(WorkItems(spec)) = 2 * L /\ L \in Nat /\ 2 * L \in Nat
  BY ItemsType DEF ClusterSpecs
<1>4. Work(spec) = (head \o WorkItems(spec)) \o last
  BY DEF Work, WorkItems
<1> HIDE DEF head, last
<1>5. /\ head \o WorkItems(spec) \in Seq(Children) /\ Len(head \o WorkItems(spec)) = 2 + 2 * L
      /\ \A m \in 1 .. 2 : (head \o WorkItems(spec))[m] = head[m]
  <2>1. head \in Seq(Children) /\ WorkItems(spec) \in Seq(Children)
    BY <1>1, <1>3
  <2>2. /\ head \o WorkItems(spec) \in Seq(Children)
        /\ Len(head \o WorkItems(spec)) = Len(head) + Len(WorkItems(spec))
        /\ \A m \in 1 .. Len(head) : (head \o WorkItems(spec))[m] = head[m]
    BY <2>1, Joined
  <2> QED BY <1>1, <1>3, <2>2
<1>6. /\ Work(spec) \in Seq(Children) /\ Len(Work(spec)) = (2 + 2 * L) + Len(last)
      /\ \A m \in 1 .. 2 + 2 * L : Work(spec)[m] = (head \o WorkItems(spec))[m]
      /\ \A m \in 1 .. Len(last) : Work(spec)[(2 + 2 * L) + m] = last[m]
  <2> DEFINE front == head \o WorkItems(spec)
  <2>1. front \in Seq(Children) /\ last \in Seq(Children)
    BY <1>2, <1>5
  <2> HIDE DEF front
  <2>2. /\ front \o last \in Seq(Children) /\ Len(front \o last) = Len(front) + Len(last)
        /\ \A m \in 1 .. Len(front) : (front \o last)[m] = front[m]
        /\ \A m \in 1 .. Len(last) : (front \o last)[Len(front) + m] = last[m]
    BY <2>1, Joined
  <2>3. Len(front) = 2 + 2 * L
    BY <1>5 DEF front
  <2>4. Work(spec) = front \o last
    BY <1>4 DEF front
  <2>5. \A m \in 1 .. Len(last) : Work(spec)[(2 + 2 * L) + m] = last[m]
    BY <2>2, <2>3, <2>4
  <2>6. \A m \in 1 .. 2 + 2 * L : Work(spec)[m] = front[m]
    BY <2>2, <2>3, <2>4
  <2> QED BY <2>2, <2>3, <2>4, <2>5, <2>6 DEF front
<1> HIDE DEF L
<1>7. Work(spec)[n] \in Children
  BY <1>6
<1>8. CASE n \in 1 .. 2
  <2>1. Work(spec)[n] \in {Config, Secret}
    <3>1. n \in 1 .. 2 + 2 * L
      BY <1>3, <1>8
    <3>2. Work(spec)[n] = head[n]
      BY <1>5, <1>6, <1>8, <3>1
    <3> QED BY <1>1, <1>8, <3>2
  <2> QED BY <1>7, <2>1 DEF Config, Secret
<1>9. CASE n - 2 \in 1 .. 2 * L
  <2>1. spec.instances[((n - 2) + 1) \div 2] \in InstanceSpecs
    BY <1>9, InstanceTypes DEF L
  <2>2. (n - 2) + 1 = n - 1
    BY <1>9
  <2> QED BY <1>7, <2>1, <2>2 DEF InstanceAt
<1>10. CASE n - (2 + 2 * L) \in 1 .. Len(last)
  <2>1. (2 + 2 * L) + (n - (2 + 2 * L)) = n
    BY <1>3, <1>10
  <2>2. Work(spec)[n] = Metrics
    BY <1>2, <1>6, <1>10, <2>1
  <2> QED BY <1>7, <2>2 DEF Metrics
<1>11. n \in 1 .. 2 \/ n - 2 \in 1 .. 2 * L \/ n - (2 + 2 * L) \in 1 .. Len(last)
  BY <1>2, <1>3, <1>6
<1> QED BY <1>8, <1>9, <1>10, <1>11

LEMMA CleanupProperties ==
  ASSUME NEW spec \in ClusterSpecs
  PROVE  /\ Len(Cleanup(spec)) = 2 * Len(spec.instances) + 2
         /\ \A n \in 1 .. Len(Cleanup(spec)) : Cleanup(spec)[n] \in Children
         /\ \A j \in 1 .. Len(spec.instances) :
              /\ Cleanup(spec)[2 * j - 1] = StatefulSet(spec.instances[j].name)
              /\ Cleanup(spec)[2 * j] = Service(spec.instances[j].name)
         /\ Cleanup(spec)[2 * Len(spec.instances) + 1] = Config
         /\ Cleanup(spec)[2 * Len(spec.instances) + 2] = Secret
<1> DEFINE last == <<Config, Secret>>
           L == Len(spec.instances)
<1>1. last \in Seq(Children) /\ Len(last) = 2 /\ last[1] = Config /\ last[2] = Secret
  BY DEF Children
<1>2. CleanupItems(spec) \in Seq(Children) /\ Len(CleanupItems(spec)) = 2 * L /\ L \in Nat
  BY ItemsType DEF ClusterSpecs
<1>3. Cleanup(spec) = CleanupItems(spec) \o last
  BY DEF Cleanup, CleanupItems
<1> HIDE DEF last
<1>4. /\ Cleanup(spec) \in Seq(Children) /\ Len(Cleanup(spec)) = 2 * L + 2
      /\ \A m \in 1 .. 2 * L : Cleanup(spec)[m] = CleanupItems(spec)[m]
      /\ \A m \in 1 .. 2 : Cleanup(spec)[2 * L + m] = last[m]
  <2> DEFINE items == CleanupItems(spec)
  <2>1. items \in Seq(Children) /\ last \in Seq(Children)
    BY <1>1, <1>2
  <2> HIDE DEF items
  <2>2. /\ items \o last \in Seq(Children) /\ Len(items \o last) = Len(items) + Len(last)
        /\ \A m \in 1 .. Len(items) : (items \o last)[m] = items[m]
        /\ \A m \in 1 .. Len(last) : (items \o last)[Len(items) + m] = last[m]
    BY <2>1, Joined
  <2>3. Len(items) = 2 * L /\ Cleanup(spec) = items \o last
    BY <1>2, <1>3 DEF items
  <2> QED BY <1>1, <2>2, <2>3 DEF items
<1>5. ASSUME NEW j \in 1 .. L
      PROVE  /\ CleanupItems(spec)[2 * j - 1] = StatefulSet(spec.instances[j].name)
             /\ CleanupItems(spec)[2 * j] = Service(spec.instances[j].name)
             /\ 2 * j - 1 \in 1 .. 2 * L /\ 2 * j \in 1 .. 2 * L
  <2>1. 2 * j - 1 \in 1 .. 2 * L /\ 2 * j \in 1 .. 2 * L
    BY <1>2
  <2>2. /\ ((2 * j - 1) + 1) \div 2 = j /\ (2 * j - 1) % 2 = 1
        /\ (2 * j + 1) \div 2 = j /\ (2 * j) % 2 = 0
    BY <1>2
  <2> QED BY <2>1, <2>2 DEF CleanupItems
<1> HIDE DEF L
<1>6. \A n \in 1 .. Len(Cleanup(spec)) : Cleanup(spec)[n] \in Children
  BY <1>4
<1>7. \A j \in 1 .. L : /\ Cleanup(spec)[2 * j - 1] = CleanupItems(spec)[2 * j - 1]
                        /\ Cleanup(spec)[2 * j] = CleanupItems(spec)[2 * j]
  BY <1>2, <1>4, <1>5
<1>8. Cleanup(spec)[2 * L + 1] = last[1] /\ Cleanup(spec)[2 * L + 2] = last[2]
  BY <1>4
<1> QED BY <1>1, <1>4, <1>5, <1>6, <1>7, <1>8 DEF L

-----------------------------------------------------------------------------
(* Typing, grouped as the handlers change the variables *)

ChildTyped ==
  DOMAIN child = Children /\ \A c \in Children : child[c] \in Contents(c) \cup {Absent}
CachesTyped ==
  /\ cCluster \in Clusters \cup {Absent} /\ cFresh \in BOOLEAN
  /\ known \subseteq Children /\ current \subseteq Children /\ cReady \in [Instances -> Nat]
LocalsTyped ==
  /\ snap \in Clusters \cup {Absent} /\ fresh \in BOOLEAN
  /\ pc \in Steps /\ k \in Nat /\ tally \in [ready : Nat, expected : Nat]
BudgetTyped == budget \in [faults : Nat, edits : Nat]

LEMMA TypeParts ==
  /\ TypeOK <=> /\ cluster \in Clusters \cup {Absent} /\ ChildTyped
                /\ CachesTyped /\ LocalsTyped /\ BudgetTyped
  /\ TypeOK' <=> /\ cluster' \in Clusters \cup {Absent} /\ ChildTyped'
                 /\ CachesTyped' /\ LocalsTyped' /\ BudgetTyped'
BY DEF TypeOK, ChildTyped, CachesTyped, LocalsTyped, BudgetTyped

LEMMA FaultType ==
  ASSUME BudgetTyped, Fault \/ UNCHANGED budget
  PROVE  BudgetTyped'
BY DEF BudgetTyped, Fault

LEMMA DesiredType ==
  ASSUME NEW spec \in ClusterSpecs, NEW n \in 1 .. Len(Work(spec)),
         NEW old \in Contents(Work(spec)[n]) \cup {Absent},
         NEW new \in Desired(spec, n, old)
  PROVE  new \in Contents(Work(spec)[n])
<1> DEFINE c == Work(spec)[n]
           x == InstanceAt(spec, n)
<1>1. c \in Children /\ (c[1] \in {"service", "sts"} => x \in InstanceSpecs)
  BY WorkProperties
<1>2. spec.settings \in Nat /\ spec.storage \in Storages
  BY DEF ClusterSpecs
<1> HIDE DEF c, x
<1>3. CASE c = Config
  <2>1. c[1] # "service" /\ c[1] # "sts" /\ c # Secret /\ c # Metrics
    BY <1>3 DEF Config, Secret, Metrics
  <2>2. Contents(c) = [settings : Nat, order : Nat]
    BY <1>3, <2>1 DEF Contents
  <2>3. new \in {[settings |-> spec.settings, order |-> o] :
                  o \in IF spec.settings > 1 THEN {1, 2} ELSE {1}}
    BY <1>3, <2>1 DEF Desired, c
  <2>4. PICK o \in {1, 2} : new = [settings |-> spec.settings, order |-> o]
    BY <2>3
  <2>5. o \in Nat
    BY <2>4
  <2>6. new \in [settings : Nat, order : Nat]
    BY <1>2, <2>4, <2>5
  <2> QED BY <2>2, <2>6 DEF c
<1>4. CASE c = Secret
  BY <1>4 DEF Desired, Contents, Config, Secret, c
<1>5. CASE c = Metrics
  BY <1>5 DEF Desired, Contents, Config, Secret, Metrics, c
<1>6. ASSUME NEW i \in Instances, c = Service(i) PROVE new \in Contents(c)
  <2>1. c[1] = "service" /\ c # Config /\ c # Secret /\ c # Metrics
    BY <1>6 DEF Service, Config, Secret, Metrics
  <2>2. x.role \in {"primary", "replica"}
    BY <1>1, <2>1 DEF InstanceSpecs
  <2> QED BY <2>1, <2>2 DEF Desired, Contents, c, x
<1>7. ASSUME NEW i \in Instances, c = StatefulSet(i) PROVE new \in Contents(c)
  <2>1. c[1] = "sts" /\ c # Config /\ c # Secret /\ c # Metrics
    BY <1>7 DEF StatefulSet, Config, Secret, Metrics
  <2>2. Contents(c) = [replicas : Nat, storage : Storages, ready : Nat]
    BY <2>1 DEF Contents
  <2>3. ReadyOf(old) \in Nat
    BY <2>2 DEF ReadyOf, c
  <2>4. ReplicasOf(x) \in Nat /\ StorageOf(spec, x) \in Storages
    BY <1>1, <1>2, <2>1 DEF InstanceSpecs, ReplicasOf, StorageOf
  <2>5. new = [replicas |-> ReplicasOf(x), storage |-> StorageOf(spec, x), ready |-> ReadyOf(old)]
    BY <2>1 DEF Desired, c, x
  <2> QED BY <2>2, <2>3, <2>4, <2>5
<1> QED BY <1>1, <1>3, <1>4, <1>5, <1>6, <1>7 DEF Children, c

LEMMA StatefulSetType ==
  ASSUME ChildTyped, NEW i \in Instances
  PROVE  /\ StatefulSet(i) \in Children
         /\ Contents(StatefulSet(i)) = [replicas : Nat, storage : Storages, ready : Nat]
         /\ child[StatefulSet(i)] \in [replicas : Nat, storage : Storages, ready : Nat] \cup {Absent}
         /\ ReadyOf(child[StatefulSet(i)]) \in Nat
<1>1. StatefulSet(i) \in Children
  BY DEF Children
<1>2. Contents(StatefulSet(i)) = [replicas : Nat, storage : Storages, ready : Nat]
  BY DEF Contents, StatefulSet, Config, Secret, Metrics
<1>3. child[StatefulSet(i)] \in [replicas : Nat, storage : Storages, ready : Nat] \cup {Absent}
  BY <1>1, <1>2 DEF ChildTyped
<1> QED BY <1>1, <1>2, <1>3 DEF ReadyOf

LEMMA SetChildKeeps ==
  ASSUME ChildTyped, CachesTyped, NEW c \in Children, NEW new \in Contents(c) \cup {Absent},
         SetChild(c, new)
  PROVE  /\ ChildTyped' /\ CachesTyped' /\ UNCHANGED <<cluster, cCluster, cFresh>>
         /\ child'[c] = new /\ \A other \in Children \ {c} : child'[other] = child[other]
<1>1. /\ child' = [child EXCEPT ![c] = new] /\ current' \subseteq Children
      /\ UNCHANGED <<cluster, cCluster, cFresh, known, cReady>>
  BY DEF SetChild, CachesTyped
<1>2. child'[c] = new /\ \A other \in Children \ {c} : child'[other] = child[other]
  BY <1>1 DEF ChildTyped
<1>3. DOMAIN child' = Children
  BY <1>1 DEF ChildTyped
<1>4. ChildTyped'
  BY <1>2, <1>3 DEF ChildTyped
<1> QED BY <1>1, <1>2, <1>4 DEF CachesTyped

-----------------------------------------------------------------------------
(* The invariant holds at first, and when a pass starts or ends *)

LEMMA InitEstablishes == Init => IInv
<1> SUFFICES ASSUME Init PROVE IInv
  OBVIOUS
<1>1. PICK spec \in Specs :
        cluster = [spec |-> spec, deleting |-> FALSE, foreground |-> FALSE,
                   finalizer |-> FALSE, status |-> [phase |-> "", primary |-> Absent]]
  BY DEF Init
<1>2. cluster \in Clusters /\ ~cluster.finalizer /\ ~cluster.foreground
  BY <1>1, SpecsAssumption DEF Clusters, Statuses
<1>3. /\ child = [c \in Children |-> Absent] /\ cCluster = cluster /\ cFresh = TRUE
      /\ known = {} /\ current = Children /\ cReady = [i \in Instances |-> 0]
      /\ pc = "idle" /\ snap = Absent /\ fresh = FALSE
      /\ k = 1 /\ tally = [ready |-> 0, expected |-> 0]
  BY DEF Init
<1>4. ChildTyped /\ CachesTyped /\ LocalsTyped
  BY <1>2, <1>3 DEF ChildTyped, CachesTyped, LocalsTyped, Steps
<1>5. BudgetTyped
  BY BoundsAssumption DEF Init, BudgetTyped
<1>6. PassTyped /\ Versions /\ Guarding /\ Swept
  BY <1>2, <1>3 DEF PassTyped, Versions, Guarding, Swept, NoChild
<1> QED BY <1>2, <1>4, <1>5, <1>6, TypeParts DEF IInv

\* A pass that ends knows nothing.
LEMMA EndPassType ==
  ASSUME EndPass, cFresh' => cCluster' = cluster'
  PROVE  LocalsTyped' /\ PassTyped' /\ Versions' /\ Swept' /\ snap' = Absent
<1>1. /\ pc' = "idle" /\ snap' = Absent /\ fresh' = FALSE /\ k' = 1
      /\ tally' = [ready |-> 0, expected |-> 0]
  BY DEF EndPass
<1>2. LocalsTyped'
  BY <1>1 DEF LocalsTyped, Steps
<1>3. PassTyped' /\ Swept'
  BY <1>1 DEF PassTyped, Swept
<1>4. Versions'
  BY <1>1 DEF Versions
<1> QED BY <1>1, <1>2, <1>3, <1>4

\* What a step has to keep for Guarding.
LEMMA GuardingKept ==
  ASSUME Guarding, Guarded => Guarded',
         cluster' # Absent /\ cluster'.foreground => cluster'.deleting,
         cCluster' \in {cCluster, cluster},
         \/ snap' \in {Absent, cCluster}
         \/ snap # Absent /\ snap'.finalizer = snap.finalizer
         \/ Guarded',
         \/ \A c \in Children : child[c] = Absent => child'[c] = Absent
         \/ Guarded'
  PROVE  Guarding'
<1>1. cCluster' # Absent /\ cCluster'.finalizer => Guarded'
  BY DEF Guarding, Guarded
<1>2. snap' # Absent /\ snap'.finalizer => Guarded'
  BY DEF Guarding
<1>3. ~NoChild' => Guarded'
  BY DEF Guarding, NoChild
<1> QED BY <1>1, <1>2, <1>3 DEF Guarding

LEMMA BeginPreserves == ASSUME IInv, Begin PROVE IInv'
<1>1. ChildTyped /\ CachesTyped /\ LocalsTyped /\ BudgetTyped /\ cluster \in Clusters \cup {Absent}
      /\ Versions /\ Guarding /\ PassTyped
  BY TypeParts DEF IInv
<1>2. /\ UNCHANGED <<cluster, child, cCluster, cFresh, known, current, cReady, k, tally, budget>>
      /\ snap' = cCluster /\ fresh' = cFresh /\ cCluster # Absent /\ pc = "idle"
      /\ pc' = IF cCluster.finalizer THEN Route(cCluster) ELSE "finalize"
  BY DEF Begin, caches
<1>3. cCluster \in Clusters
  BY <1>1, <1>2 DEF CachesTyped
<1>4. /\ pc' \in {"finalize", "cleanup", "default", "apply"}
      /\ pc' # "finalize" => cCluster.finalizer
      /\ pc' = "default" => cCluster.spec.instances = <<>>
      /\ pc' = "cleanup" => cCluster.deleting
  BY <1>2 DEF Route
<1>5. /\ cluster' \in Clusters \cup {Absent} /\ ChildTyped' /\ CachesTyped' /\ BudgetTyped'
      /\ LocalsTyped'
  BY <1>1, <1>2, <1>3, <1>4 DEF ChildTyped, CachesTyped, BudgetTyped, LocalsTyped, Steps
<1>6. PassTyped'
  BY <1>1, <1>2, <1>3, <1>4 DEF PassTyped
<1>7. Versions'
  BY <1>1, <1>2 DEF Versions, SameButStatus
<1>8. Guarding'
  <2>1. Guarded => Guarded'
    BY <1>2 DEF Guarded
  <2> QED BY <1>1, <1>2, <2>1, GuardingKept DEF Guarding
<1>9. Swept'
  BY <1>1, <1>2, <1>4 DEF Swept, LocalsTyped, PassTyped
<1> QED BY <1>5, <1>6, <1>7, <1>8, <1>9, TypeParts DEF IInv

-----------------------------------------------------------------------------
(* The writes of the cluster *)

\* A version of the cluster the worker may store.
Storable(new) ==
  new # Absent => (new.finalizer \/ new.deleting) /\ (new.foreground => new.deleting)

LEMMA WriteKeeps ==
  ASSUME IInv, NEW new \in Clusters \cup {Absent}, fresh => Storable(new),
         Accepted(new) \/ Refused \/ ReplyLost(new)
  PROVE  /\ cluster' \in Clusters \cup {Absent} /\ ChildTyped' /\ CachesTyped' /\ BudgetTyped'
         /\ cFresh' => cCluster' = cluster'
         /\ Guarded => Guarded'
         /\ cluster' # Absent /\ cluster'.foreground => cluster'.deleting
         /\ UNCHANGED <<cCluster, child>>
         /\ cluster' # cluster => fresh /\ cluster' = new
<1>1. ChildTyped /\ CachesTyped /\ BudgetTyped /\ cluster \in Clusters \cup {Absent}
      /\ Versions /\ Guarding
  BY TypeParts DEF IInv
<1>2. BudgetTyped'
  BY <1>1, FaultType DEF Accepted, Refused, ReplyLost
<1>3. CASE fresh /\ Commit(new)
  <2>1. /\ cluster' = new /\ UNCHANGED <<child, cCluster, known, current, cReady>>
        /\ cFresh' = FALSE \/ (new = cluster /\ cFresh' = cFresh)
    BY <1>3 DEF Commit
  <2>2. CachesTyped' /\ (cFresh' => cCluster' = cluster')
    <3>1. CASE cFresh' = FALSE
      BY <1>1, <2>1, <3>1 DEF CachesTyped
    <3>2. CASE new = cluster /\ cFresh' = cFresh
      BY <1>1, <2>1, <3>2 DEF CachesTyped, Versions
    <3> QED BY <2>1, <3>1, <3>2
  <2>3. ChildTyped'
    BY <1>1, <2>1 DEF ChildTyped
  <2>4. Guarded'
    BY <1>3, <2>1 DEF Storable, Guarded
  <2>5. cluster' # Absent /\ cluster'.foreground => cluster'.deleting
    BY <1>3, <2>1 DEF Storable
  <2> QED BY <1>2, <1>3, <2>1, <2>2, <2>3, <2>4, <2>5
<1>4. CASE UNCHANGED <<cluster, child, caches>>
  <2>1. UNCHANGED <<cluster, child, cCluster, cFresh, known, current, cReady>>
    BY <1>4 DEF caches
  <2> QED BY <1>1, <1>2, <2>1 DEF ChildTyped, CachesTyped, Versions, Guarding, Guarded
<1> QED BY <1>3, <1>4 DEF Accepted, Refused, ReplyLost

LEMMA LastWriteKeeps ==
  ASSUME IInv, NEW new \in Clusters \cup {Absent}, fresh => Storable(new),
         Accepted(new) \/ Refused \/ ReplyLost(new), EndPass
  PROVE  IInv'
<1>1. /\ cluster' \in Clusters \cup {Absent} /\ ChildTyped' /\ CachesTyped' /\ BudgetTyped'
      /\ cFresh' => cCluster' = cluster'
      /\ Guarded => Guarded'
      /\ cluster' # Absent /\ cluster'.foreground => cluster'.deleting
      /\ UNCHANGED <<cCluster, child>>
  BY WriteKeeps
<1>2. LocalsTyped' /\ PassTyped' /\ Versions' /\ Swept' /\ snap' = Absent
  BY <1>1, EndPassType
<1>3. Guarding'
  BY <1>1, <1>2, GuardingKept DEF IInv
<1> QED BY <1>1, <1>2, <1>3, TypeParts DEF IInv

\* The copy of the pass, and the versions made from it.
LEMMA DefaultSpecType ==
  ASSUME NEW spec \in ClusterSpecs PROVE WithDefaultInstance(spec) \in ClusterSpecs
<1> DEFINE n == DefaultReplicas(spec.replicas)
           x == [name |-> DefaultName, role |-> "primary", replicas |-> n, storage |-> spec.storage]
<1>1. n \in Nat
  BY DEF DefaultReplicas, ClusterSpecs
<1>2. x \in InstanceSpecs
  BY <1>1, NamesAssumption DEF InstanceSpecs, ClusterSpecs
<1> HIDE DEF x, n
<1>3. <<x>> \in Seq(InstanceSpecs)
  BY <1>2
<1>4. WithDefaultInstance(spec) = [spec EXCEPT !.replicas = n, !.instances = <<x>>]
  BY DEF WithDefaultInstance, x, n
<1> QED BY <1>1, <1>3, <1>4 DEF ClusterSpecs

LEMMA CopyTypes ==
  ASSUME NEW c \in Clusters
  PROVE  /\ [c EXCEPT !.finalizer = TRUE] \in Clusters
         /\ [c EXCEPT !.finalizer = FALSE] \in Clusters
         /\ \A spec \in ClusterSpecs : [c EXCEPT !.spec = spec] \in Clusters
         /\ \A phase \in {"Running", "Degraded", "Pending"} :
              [c EXCEPT !.status.phase = phase] \in Clusters
         /\ \A i \in Instances : [c EXCEPT !.status.primary = i] \in Clusters
         /\ [c EXCEPT !.deleting = TRUE] \in Clusters
         /\ [c EXCEPT !.foreground = FALSE] \in Clusters
         /\ \A b \in BOOLEAN : [c EXCEPT !.deleting = TRUE, !.foreground = b] \in Clusters
BY DEF Clusters, Statuses

LEMMA LastWritesPreserve ==
  ASSUME IInv, SetDefaultInstance \/ WriteStatus \/ RemoveFinalizer PROVE IInv'
<1>1. PassTyped /\ Versions /\ Guarding
  BY DEF IInv
<1>2. snap \in Clusters /\ snap.finalizer /\ snap.spec \in ClusterSpecs
  <2>1. snap \in Clusters /\ snap.finalizer
    BY <1>1 DEF SetDefaultInstance, WriteStatus, RemoveFinalizer, PassTyped
  <2> QED BY <2>1, ClusterParts
<1>3. fresh => (snap.foreground => snap.deleting)
  BY <1>1 DEF Versions, SameButStatus, Guarding
<1>4. CASE SetDefaultInstance
  <2> DEFINE new == [snap EXCEPT !.spec = WithDefaultInstance(snap.spec)]
  <2>1. new \in Clusters
    BY <1>2, DefaultSpecType, CopyTypes
  <2>2. fresh => Storable(new)
    BY <1>2, <1>3 DEF Storable, Clusters
  <2>3. (Accepted(new) \/ Refused \/ ReplyLost(new)) /\ EndPass
    BY <1>4 DEF SetDefaultInstance
  <2> QED BY <2>1, <2>2, <2>3, LastWriteKeeps
<1>5. CASE WriteStatus
  <2> DEFINE new == [snap EXCEPT !.status.phase = PhaseOf(tally)]
  <2>1. PhaseOf(tally) \in {"Running", "Degraded", "Pending"}
    BY DEF PhaseOf
  <2>2. new \in Clusters
    BY <1>2, <2>1, CopyTypes
  <2>3. fresh => Storable(new)
    BY <1>2, <1>3 DEF Storable, Clusters
  <2>4. (Accepted(new) \/ Refused \/ ReplyLost(new)) /\ EndPass
    BY <1>5 DEF WriteStatus
  <2> QED BY <2>2, <2>3, <2>4, LastWriteKeeps
<1>6. CASE RemoveFinalizer
  <2> DEFINE new == IF snap.foreground THEN [snap EXCEPT !.finalizer = FALSE] ELSE Absent
  <2>1. new \in Clusters \cup {Absent}
    BY <1>2, CopyTypes
  <2>2. snap.deleting
    BY <1>1, <1>6 DEF RemoveFinalizer, PassTyped
  <2>3. Storable(new)
    BY <1>2, <2>2 DEF Storable, Clusters
  <2>4. (Accepted(new) \/ Refused \/ ReplyLost(new)) /\ EndPass
    BY <1>6 DEF RemoveFinalizer
  <2> QED BY <2>1, <2>3, <2>4, LastWriteKeeps
<1> QED BY <1>4, <1>5, <1>6

LEMMA AddFinalizerPreserves == ASSUME IInv, AddFinalizer PROVE IInv'
<1> DEFINE new == [snap EXCEPT !.finalizer = TRUE]
<1>1. ChildTyped /\ CachesTyped /\ LocalsTyped /\ BudgetTyped /\ cluster \in Clusters \cup {Absent}
      /\ Versions /\ Guarding /\ PassTyped
  BY TypeParts DEF IInv
<1>2. pc = "finalize" /\ snap \in Clusters /\ k = 1
  BY <1>1 DEF AddFinalizer, PassTyped
<1>3. new \in Clusters /\ new.finalizer /\ new.spec = snap.spec /\ new.deleting = snap.deleting
      /\ new.foreground = snap.foreground
  BY <1>2, CopyTypes DEF Clusters
<1>4. fresh => Storable(new)
  BY <1>1, <1>3 DEF Versions, SameButStatus, Guarding, Storable
<1> HIDE DEF new
<1>5. CASE Accepted(new) /\ ~snap.deleting /\ pc' = Route(new) /\ snap' = new /\ fresh' = TRUE
           /\ UNCHANGED <<k, tally>>
  <2>1. /\ cluster' \in Clusters \cup {Absent} /\ ChildTyped' /\ CachesTyped' /\ BudgetTyped'
        /\ cFresh' => cCluster' = cluster'
        /\ Guarded => Guarded'
        /\ cluster' # Absent /\ cluster'.foreground => cluster'.deleting
        /\ UNCHANGED <<cCluster, child>>
    BY <1>3, <1>4, <1>5, WriteKeeps
  <2>2. cluster' = new
    BY <1>5 DEF Accepted, Commit
  <2>3. /\ pc' \in {"default", "apply"}
        /\ pc' = "default" => new.spec.instances = <<>>
    BY <1>3, <1>5 DEF Route
  <2>4. LocalsTyped' /\ PassTyped' /\ Swept'
    <3>1. LocalsTyped'
      BY <1>1, <1>3, <1>5, <2>3 DEF LocalsTyped, Steps
    <3>2. PassTyped'
      BY <1>2, <1>3, <1>5, <2>3 DEF PassTyped
    <3>3. Swept'
      BY <2>3 DEF Swept
    <3> QED BY <3>1, <3>2, <3>3
  <2>5. Versions'
    BY <1>3, <1>5, <2>1, <2>2, ClusterParts DEF Versions, SameButStatus
  <2>6. Guarding'
    <3>1. Guarded'
      BY <1>3, <2>2 DEF Guarded
    <3> QED BY <2>1, <3>1 DEF Guarding
  <2> QED BY <2>1, <2>4, <2>5, <2>6, TypeParts DEF IInv
<1>6. CASE (Refused \/ ReplyLost(new)) /\ EndPass
  BY <1>3, <1>4, <1>6, LastWriteKeeps
<1>7. CASE UNCHANGED <<cluster, child, caches, budget>> /\ EndPass
  <2>1. UNCHANGED <<cluster, child, cCluster, cFresh, known, current, cReady, budget>>
    BY <1>7 DEF caches
  <2>2. LocalsTyped' /\ PassTyped' /\ Versions' /\ Swept' /\ snap' = Absent
    BY <1>1, <1>7, <2>1, EndPassType DEF Versions
  <2>3. ChildTyped' /\ CachesTyped' /\ BudgetTyped' /\ cluster' \in Clusters \cup {Absent}
    BY <1>1, <2>1 DEF ChildTyped, CachesTyped, BudgetTyped
  <2>4. Guarding'
    BY <1>1, <2>1, <2>2 DEF Guarding, Guarded, NoChild
  <2> QED BY <2>2, <2>3, <2>4, TypeParts DEF IInv
<1> QED BY <1>5, <1>6, <1>7 DEF AddFinalizer, new

-----------------------------------------------------------------------------
(* The children *)

\* A pass that ends, having written at most one child.
LEMMA PassEndsWithChild ==
  ASSUME IInv, EndPass, ChildTyped', CachesTyped', BudgetTyped',
         UNCHANGED <<cluster, cCluster, cFresh>>,
         \/ \A c \in Children : child[c] = Absent => child'[c] = Absent
         \/ Guarded
  PROVE  IInv'
<1>1. cluster \in Clusters \cup {Absent} /\ Versions /\ Guarding
  BY TypeParts DEF IInv
<1>2. LocalsTyped' /\ PassTyped' /\ Versions' /\ Swept' /\ snap' = Absent
  BY <1>1, EndPassType DEF Versions
<1>3. Guarded' <=> Guarded
  BY DEF Guarded
<1>4. Guarding'
  BY <1>1, <1>2, <1>3 DEF Guarding, NoChild
<1> QED BY <1>1, <1>2, <1>4, TypeParts DEF IInv

LEMMA ApplyChildPreserves == ASSUME IInv, ApplyChild PROVE IInv'
<1> DEFINE c == Work(snap.spec)[k]
<1>1. ChildTyped /\ CachesTyped /\ LocalsTyped /\ BudgetTyped /\ cluster \in Clusters \cup {Absent}
      /\ Versions /\ Guarding /\ PassTyped
  BY TypeParts DEF IInv
<1>2. pc = "apply" /\ snap \in Clusters /\ snap.spec \in ClusterSpecs
      /\ Guarded
  <2>1. pc = "apply" /\ snap \in Clusters /\ snap.finalizer
    BY <1>1 DEF ApplyChild, PassTyped
  <2> QED BY <1>1, <2>1, ClusterParts DEF Guarding
<1>3. k \in 1 .. Len(Work(snap.spec)) /\ c \in Children
  <2>1. Len(Work(snap.spec)) \in Nat
    BY <1>2, WorkProperties
  <2>2. k \in 1 .. Len(Work(snap.spec))
    BY <1>1, <2>1 DEF ApplyChild, LocalsTyped, PassTyped
  <2> QED BY <1>2, <2>2, WorkProperties
<1>4. \A new \in Desired(snap.spec, k, child[c]) : new \in Contents(c) \cup {Absent}
  BY <1>1, <1>2, <1>3, DesiredType DEF ChildTyped
<1>5. ASSUME UNCHANGED <<cluster, child, caches>>, Fault \/ UNCHANGED budget, EndPass
      PROVE  IInv'
  <2>1. UNCHANGED <<cluster, child, cCluster, cFresh, known, current, cReady>>
    BY <1>5 DEF caches
  <2>2. ChildTyped' /\ CachesTyped' /\ BudgetTyped'
    BY <1>1, <1>5, <2>1, FaultType DEF ChildTyped, CachesTyped
  <2> QED BY <1>2, <1>5, <2>1, <2>2, PassEndsWithChild
<1>6. ASSUME NEW new \in Desired(snap.spec, k, child[c]), SetChild(c, new),
             Fault \/ UNCHANGED budget,
             EndPass \/ (k' = k + 1 /\ UNCHANGED <<pc, snap, fresh, tally>>)
      PROVE  IInv'
  <2>1. ChildTyped' /\ CachesTyped' /\ UNCHANGED <<cluster, cCluster, cFresh>> /\ BudgetTyped'
    <3>1. new \in Contents(c) \cup {Absent}
      BY <1>4
    <3> HIDE DEF c
    <3> QED BY <1>1, <1>3, <1>6, <3>1, SetChildKeeps, FaultType
  <2>2. CASE EndPass
    BY <1>2, <2>1, <2>2, PassEndsWithChild
  <2>3. CASE k' = k + 1 /\ UNCHANGED <<pc, snap, fresh, tally>>
    <3>1. LocalsTyped' /\ PassTyped' /\ Versions' /\ Swept'
      BY <1>1, <1>2, <2>1, <2>3 DEF LocalsTyped, PassTyped, Versions, Swept, SameButStatus
    <3>2. Guarding'
      BY <1>1, <1>2, <2>1, <2>3 DEF Guarding, Guarded
    <3> QED BY <1>1, <2>1, <3>1, <3>2, TypeParts DEF IInv
  <2> QED BY <1>6, <2>2, <2>3
<1> HIDE DEF c
<1>7. \/ UNCHANGED <<cluster, child, caches>> /\ (Fault \/ UNCHANGED budget) /\ EndPass
      \/ \E new \in Desired(snap.spec, k, child[c]) :
           /\ SetChild(c, new) /\ (Fault \/ UNCHANGED budget)
           /\ EndPass \/ (k' = k + 1 /\ UNCHANGED <<pc, snap, fresh, tally>>)
  BY DEF ApplyChild, c
<1> QED BY <1>5, <1>6, <1>7

LEMMA CountingPreserves == ASSUME IInv, StartStatus \/ CountInstance PROVE IInv'
<1>1. ChildTyped /\ CachesTyped /\ LocalsTyped /\ BudgetTyped /\ cluster \in Clusters \cup {Absent}
      /\ Versions /\ Guarding /\ PassTyped
  BY TypeParts DEF IInv
<1>2. UNCHANGED <<cluster, child, cCluster, cFresh, known, current, cReady, fresh, budget>>
  BY DEF StartStatus, CountInstance, caches
<1>3. snap \in Clusters /\ snap.finalizer /\ pc \in {"apply", "status"} /\ pc' = "status"
  BY <1>1 DEF StartStatus, CountInstance, PassTyped
<1>4. /\ k' \in Nat /\ k' > 0 /\ tally' \in [ready : Nat, expected : Nat]
      /\ snap' \in Clusters /\ SameButStatus(snap', snap)
  <2>1. CASE StartStatus
    <3>1. k' = 1 /\ snap' = snap /\ tally' = tally
      BY <2>1 DEF StartStatus
    <3>2. SameButStatus(snap, snap)
      BY DEF SameButStatus
    <3> QED BY <1>1, <1>3, <3>1, <3>2 DEF LocalsTyped
  <2>2. CASE CountInstance
    <3> DEFINE x == snap.spec.instances[k]
    <3>1. snap.spec.instances \in Seq(InstanceSpecs)
      BY <1>3, ClusterParts
    <3>2. x \in InstanceSpecs
      BY <1>1, <2>2, <3>1 DEF CountInstance, LocalsTyped, PassTyped
    <3>3. x.name \in Instances /\ ReplicasOf(x) \in Nat
      BY <3>2 DEF InstanceSpecs, ReplicasOf
    <3>4. cReady[x.name] \in Nat
      BY <1>1, <3>3 DEF CachesTyped
    <3>5. [snap EXCEPT !.status.primary = x.name] \in Clusters
          /\ SameButStatus([snap EXCEPT !.status.primary = x.name], snap)
      BY <1>3, <3>3, CopyTypes DEF Clusters, SameButStatus
    <3>6. SameButStatus(snap, snap)
      BY DEF SameButStatus
    <3> HIDE DEF x
    <3>7. /\ tally' = [ready    |-> tally.ready + cReady[x.name],
                       expected |-> tally.expected + ReplicasOf(x)]
          /\ snap' \in {snap, [snap EXCEPT !.status.primary = x.name]}
          /\ k' = k + 1
      BY <2>2 DEF CountInstance, x
    <3>8. tally' \in [ready : Nat, expected : Nat]
      BY <1>1, <3>3, <3>4, <3>7 DEF LocalsTyped
    <3> QED BY <1>1, <1>3, <3>5, <3>6, <3>7, <3>8 DEF LocalsTyped
  <2> QED BY <2>1, <2>2
<1>5. LocalsTyped' /\ PassTyped' /\ Swept'
  BY <1>1, <1>2, <1>3, <1>4 DEF LocalsTyped, PassTyped, Swept, Steps, SameButStatus
<1>6. Versions'
  BY <1>1, <1>2, <1>4, ClusterParts DEF Versions, SameButStatus
<1>7. Guarding'
  BY <1>1, <1>2, <1>3, <1>4, ClusterParts DEF Guarding, Guarded, NoChild, SameButStatus
<1>8. ChildTyped' /\ CachesTyped' /\ BudgetTyped'
  BY <1>1, <1>2 DEF ChildTyped, CachesTyped, BudgetTyped
<1> QED BY <1>1, <1>2, <1>5, <1>6, <1>7, <1>8, TypeParts DEF IInv

\* A step of the environment that leaves the pass and the cluster alone, and
\* creates no child.
LEMMA PassUntouched ==
  ASSUME IInv, ChildTyped', CachesTyped', BudgetTyped',
         UNCHANGED <<cluster, pc, snap, fresh, k, tally>>,
         cFresh' => cCluster' = cluster, cCluster' \in {cCluster, cluster},
         \A c \in Children : child[c] = Absent => child'[c] = Absent
  PROVE  IInv'
<1>1. /\ cluster \in Clusters \cup {Absent} /\ LocalsTyped /\ PassTyped
      /\ Versions /\ Guarding /\ Swept
  BY TypeParts DEF IInv
<1>2. LocalsTyped' /\ PassTyped'
  BY <1>1 DEF LocalsTyped, PassTyped
<1>3. Versions'
  BY <1>1 DEF Versions, SameButStatus
<1>4. Guarding'
  BY <1>1 DEF Guarding, Guarded, NoChild
<1>5. Swept'
  <2>1. CASE pc = "cleanup"
    <3>1. snap.spec \in ClusterSpecs
      BY <1>1, <2>1, ClusterParts DEF PassTyped
    <3>2. \A n \in 1 .. Len(Cleanup(snap.spec)) : Cleanup(snap.spec)[n] \in Children
      BY <3>1, CleanupProperties
    <3> QED BY <1>1, <2>1, <3>2 DEF Swept
  <2>2. CASE pc # "cleanup"
    BY <2>2 DEF Swept
  <2> QED BY <2>1, <2>2
<1> QED BY <1>1, <1>2, <1>3, <1>4, <1>5, TypeParts DEF IInv

LEMMA DeleteChildPreserves == ASSUME IInv, DeleteChild PROVE IInv'
<1> DEFINE c == Cleanup(snap.spec)[k]
<1>1. ChildTyped /\ CachesTyped /\ LocalsTyped /\ BudgetTyped /\ cluster \in Clusters \cup {Absent}
      /\ Versions /\ Guarding /\ PassTyped /\ Swept
  BY TypeParts DEF IInv
<1>2. pc = "cleanup" /\ snap \in Clusters /\ snap.spec \in ClusterSpecs
  <2>1. pc = "cleanup" /\ snap \in Clusters
    BY <1>1 DEF DeleteChild, PassTyped
  <2> QED BY <2>1, ClusterParts
<1>3. /\ k \in 1 .. Len(Cleanup(snap.spec)) /\ c \in Children
      /\ \A n \in 1 .. Len(Cleanup(snap.spec)) : Cleanup(snap.spec)[n] \in Children
  <2>1. Len(Cleanup(snap.spec)) \in Nat
    BY <1>2, CleanupProperties DEF ClusterSpecs
  <2>2. k \in 1 .. Len(Cleanup(snap.spec))
    BY <1>1, <2>1 DEF DeleteChild, LocalsTyped, PassTyped
  <2> QED BY <1>2, <2>2, CleanupProperties
<1>4. ASSUME SetChild(c, Absent)
      PROVE  /\ ChildTyped' /\ CachesTyped' /\ UNCHANGED <<cluster, cCluster, cFresh>>
             /\ child'[c] = Absent
             /\ \A other \in Children : child[other] = Absent => child'[other] = Absent
  <2> HIDE DEF c
  <2>1. Absent \in Contents(c) \cup {Absent}
    OBVIOUS
  <2>2. /\ ChildTyped' /\ CachesTyped' /\ UNCHANGED <<cluster, cCluster, cFresh>>
        /\ child'[c] = Absent /\ \A other \in Children \ {c} : child'[other] = child[other]
    BY <1>1, <1>3, <1>4, <2>1, SetChildKeeps
  <2> QED BY <2>2
<1> HIDE DEF c
<1>5. CASE SetChild(c, Absent) /\ k' = k + 1 /\ UNCHANGED <<pc, snap, fresh, tally, budget>>
  <2>1. LocalsTyped' /\ PassTyped' /\ BudgetTyped'
    BY <1>1, <1>2, <1>5 DEF LocalsTyped, PassTyped, BudgetTyped
  <2>2. Versions'
    BY <1>1, <1>4, <1>5 DEF Versions, SameButStatus
  <2>3. Guarding'
    BY <1>1, <1>4, <1>5 DEF Guarding, Guarded, NoChild
  <2>4. Swept'
    <3> SUFFICES ASSUME NEW n \in 1 .. Len(Cleanup(snap.spec)), n < k + 1
                 PROVE  child'[Cleanup(snap.spec)[n]] = Absent
      BY <1>5 DEF Swept
    <3>1. CASE n = k
      BY <1>4, <1>5, <3>1 DEF c
    <3>2. CASE n # k
      <4>1. n < k
        BY <1>3, <3>2
      <4> QED BY <1>1, <1>2, <1>3, <1>4, <1>5, <4>1 DEF Swept
    <3> QED BY <3>1, <3>2
  <2> QED BY <1>1, <1>4, <1>5, <2>1, <2>2, <2>3, <2>4, TypeParts DEF IInv
<1>6. CASE Fault /\ EndPass /\ SetChild(c, Absent)
  BY <1>1, <1>4, <1>6, FaultType, PassEndsWithChild
<1>7. CASE Fault /\ EndPass /\ UNCHANGED <<cluster, child, caches>>
  <2>1. UNCHANGED <<cluster, child, cCluster, cFresh, known, current, cReady>>
    BY <1>7 DEF caches
  <2>2. ChildTyped' /\ CachesTyped' /\ BudgetTyped'
    BY <1>1, <1>7, <2>1, FaultType DEF ChildTyped, CachesTyped
  <2> QED BY <1>7, <2>1, <2>2, PassEndsWithChild
<1> QED BY <1>5, <1>6, <1>7 DEF DeleteChild, c

-----------------------------------------------------------------------------
(* The environment *)

LEMMA CrashPreserves == ASSUME IInv, Crash PROVE IInv'
<1>1. ChildTyped /\ CachesTyped /\ BudgetTyped
  BY TypeParts DEF IInv
<1>2. UNCHANGED <<cluster, child, cCluster, cFresh, known, current, cReady>> /\ Fault /\ EndPass
  BY DEF Crash, caches
<1>3. ChildTyped' /\ CachesTyped' /\ BudgetTyped'
  BY <1>1, <1>2, FaultType DEF ChildTyped, CachesTyped
<1> QED BY <1>2, <1>3, PassEndsWithChild

LEMMA InformersPreserve ==
  ASSUME IInv, SyncCluster \/ \E kind \in Kinds : SyncChildren(kind) PROVE IInv'
<1>1. /\ cluster \in Clusters \cup {Absent} /\ ChildTyped /\ CachesTyped /\ BudgetTyped /\ Versions
  BY TypeParts DEF IInv
<1>2. UNCHANGED <<cluster, child, pc, snap, fresh, k, tally, budget>>
  BY DEF SyncCluster, SyncChildren, pass
<1>3. CachesTyped' /\ (cFresh' => cCluster' = cluster) /\ cCluster' \in {cCluster, cluster}
  <2>1. CASE SyncCluster
    BY <1>1, <2>1 DEF SyncCluster, CachesTyped
  <2>2. ASSUME NEW kind \in Kinds, SyncChildren(kind)
        PROVE  CachesTyped' /\ UNCHANGED <<cCluster, cFresh>>
    <3>1. known' \subseteq Children /\ current' \subseteq Children /\ UNCHANGED <<cCluster, cFresh>>
      BY <1>1, <2>2 DEF SyncChildren, CachesTyped
    <3>2. cReady' \in [Instances -> Nat]
      <4>1. [i \in Instances |-> ReadyOf(child[StatefulSet(i)])] \in [Instances -> Nat]
        BY <1>1, StatefulSetType
      <4> QED BY <1>1, <2>2, <4>1 DEF SyncChildren, CachesTyped
    <3> QED BY <1>1, <3>1, <3>2 DEF CachesTyped
  <2> QED BY <1>1, <2>1, <2>2 DEF Versions
<1>4. ChildTyped' /\ BudgetTyped'
  BY <1>1, <1>2 DEF ChildTyped, BudgetTyped
<1> QED BY <1>2, <1>3, <1>4, PassUntouched

LEMMA ChildrenPreserve ==
  ASSUME IInv,
         \/ \E i \in Instances : RunPods(i) \/ LosePod(i)
         \/ \E c \in Children : CollectChild(c)
  PROVE  IInv'
<1>1. ChildTyped /\ CachesTyped /\ BudgetTyped /\ Versions
  BY TypeParts DEF IInv
<1>2. ASSUME NEW c \in Children, NEW new \in Contents(c) \cup {Absent}, SetChild(c, new),
             child[c] # Absent, UNCHANGED pass, Fault \/ UNCHANGED budget
      PROVE  IInv'
  <2>1. /\ ChildTyped' /\ CachesTyped' /\ UNCHANGED <<cluster, cCluster, cFresh>>
        /\ \A other \in Children \ {c} : child'[other] = child[other]
    BY <1>1, <1>2, SetChildKeeps
  <2>2. BudgetTyped' /\ UNCHANGED <<pc, snap, fresh, k, tally>>
    BY <1>1, <1>2, FaultType DEF pass
  <2>3. \A other \in Children : child[other] = Absent => child'[other] = Absent
    BY <1>2, <2>1
  <2> QED BY <1>1, <2>1, <2>2, <2>3, PassUntouched DEF Versions
<1>3. ASSUME NEW i \in Instances, RunPods(i) \/ LosePod(i) PROVE IInv'
  <2> DEFINE s == child[StatefulSet(i)]
  <2>1. s # Absent /\ (Fault \/ UNCHANGED budget)
        /\ \/ s.ready < s.replicas /\ SetReady(i, s.ready + 1)
           \/ s.ready > s.replicas /\ SetReady(i, s.ready - 1)
           \/ s.ready > 0 /\ SetReady(i, s.ready - 1)
    BY <1>3 DEF RunPods, LosePod
  <2>2. s \in [replicas : Nat, storage : Storages, ready : Nat]
    BY <1>1, <2>1, StatefulSetType
  <2>3. PICK n \in Nat : SetReady(i, n)
    <3>1. s.ready \in Nat /\ s.replicas \in Nat
      BY <2>2
    <3>2. CASE SetReady(i, s.ready + 1)
      BY <3>1, <3>2
    <3>3. CASE s.ready > 0 /\ SetReady(i, s.ready - 1)
      BY <3>1, <3>3
    <3>4. s.ready > s.replicas => s.ready > 0
      BY <3>1
    <3> HIDE DEF s
    <3> QED BY <2>1, <3>2, <3>3, <3>4
  <2>4. [s EXCEPT !.ready = n] \in Contents(StatefulSet(i)) \cup {Absent}
    BY <1>1, <2>2, StatefulSetType
  <2>5. /\ SetChild(StatefulSet(i), [s EXCEPT !.ready = n]) /\ UNCHANGED pass
        /\ StatefulSet(i) \in Children
    BY <1>1, <2>3, StatefulSetType DEF SetReady
  <2> QED BY <1>2, <2>1, <2>4, <2>5
<1>4. ASSUME NEW c \in Children, CollectChild(c) PROVE IInv'
  <2>1. Absent \in Contents(c) \cup {Absent}
    OBVIOUS
  <2> QED BY <1>2, <1>4, <2>1 DEF CollectChild
<1> QED BY <1>3, <1>4

\* A user, or the garbage collector, writes the cluster.
LEMMA UserWriteKeeps ==
  ASSUME IInv, NEW new \in Clusters \cup {Absent}, UserWrite(new), BudgetTyped',
         Guarded => (new = Absent \/ new.finalizer \/ new.deleting),
         new # Absent /\ new.foreground => new.deleting
  PROVE  IInv'
<1>1. /\ ChildTyped /\ CachesTyped /\ LocalsTyped /\ PassTyped /\ Guarding /\ Swept
  BY TypeParts DEF IInv
<1>2. /\ cluster' = new /\ cFresh' = FALSE /\ fresh' = FALSE
      /\ UNCHANGED <<child, cCluster, known, current, cReady, pc, snap, k, tally>>
  BY DEF UserWrite
<1>3. ChildTyped' /\ CachesTyped' /\ LocalsTyped'
  BY <1>1, <1>2 DEF ChildTyped, CachesTyped, LocalsTyped
<1>4. PassTyped' /\ Versions' /\ Swept'
  BY <1>1, <1>2 DEF PassTyped, Versions, Swept
<1>5. Guarding'
  <2>1. Guarded => Guarded'
    BY <1>2 DEF Guarded
  <2> QED BY <1>1, <1>2, <2>1 DEF Guarding, NoChild
<1> QED BY <1>2, <1>3, <1>4, <1>5, TypeParts DEF IInv

LEMMA UsersPreserve ==
  ASSUME IInv, CollectCluster \/ EditSpec \/ DeleteCluster PROVE IInv'
<1>1. cluster \in Clusters /\ BudgetTyped /\ Guarding
  BY TypeParts DEF IInv, CollectCluster, EditSpec, DeleteCluster
<1>2. cluster.foreground => cluster.deleting
  BY <1>1, ClusterParts DEF Guarding
<1>3. BudgetTyped'
  <2>1. CASE UNCHANGED budget
    BY <1>1, <2>1 DEF BudgetTyped
  <2>2. CASE budget.edits > 0 /\ budget' = [budget EXCEPT !.edits = @ - 1]
    BY <1>1, <2>2 DEF BudgetTyped
  <2> QED BY <2>1, <2>2 DEF CollectCluster, EditSpec, DeleteCluster
<1>4. CASE CollectCluster
  <2> DEFINE new == IF cluster.finalizer THEN [cluster EXCEPT !.foreground = FALSE] ELSE Absent
  <2>1. /\ new \in Clusters \cup {Absent}
        /\ new # Absent => new.finalizer /\ ~new.foreground
    BY <1>1, CopyTypes DEF Clusters
  <2>2. UserWrite(new)
    BY <1>4 DEF CollectCluster
  <2> HIDE DEF new
  <2> QED BY <1>3, <2>1, <2>2, UserWriteKeeps
<1>5. CASE EditSpec
  <2>1. PICK spec \in Specs : UserWrite([cluster EXCEPT !.spec = spec])
    BY <1>5 DEF EditSpec
  <2> DEFINE new == [cluster EXCEPT !.spec = spec]
  <2>2. new \in Clusters /\ new.finalizer = cluster.finalizer /\ new.deleting = cluster.deleting
        /\ new.foreground = cluster.foreground
    BY <1>1, SpecsAssumption, CopyTypes DEF Clusters
  <2>3. Guarded => new.finalizer \/ new.deleting
    BY <1>1, <2>2, ClusterParts DEF Guarded
  <2>4. UserWrite(new)
    BY <2>1
  <2> HIDE DEF new
  <2> QED BY <1>2, <1>3, <2>2, <2>3, <2>4, UserWriteKeeps
<1>6. CASE DeleteCluster
  <2>1. PICK cascade \in Cascades :
          LET foreground == cascade = "foreground"
          IN  UserWrite(IF cluster.finalizer \/ foreground
                        THEN [cluster EXCEPT !.deleting = TRUE, !.foreground = foreground]
                        ELSE Absent)
    BY <1>6 DEF DeleteCluster
  <2> DEFINE f   == cascade = "foreground"
             new == IF cluster.finalizer \/ f
                    THEN [cluster EXCEPT !.deleting = TRUE, !.foreground = f] ELSE Absent
  <2>2. f \in BOOLEAN
    OBVIOUS
  <2>3. /\ new \in Clusters \cup {Absent}
        /\ new # Absent => new.deleting
    BY <1>1, <2>2, CopyTypes DEF Clusters
  <2>4. UserWrite(new)
    BY <2>1
  <2> HIDE DEF new
  <2> QED BY <1>3, <2>3, <2>4, UserWriteKeeps
<1> QED BY <1>4, <1>5, <1>6

-----------------------------------------------------------------------------
(* The theorems *)

LEMMA StepPreserves == IInv /\ [Next]_vars => IInv'
<1> SUFFICES ASSUME IInv, [Next]_vars PROVE IInv'
  OBVIOUS
<1>1. CASE Reconcile
  BY <1>1, BeginPreserves, AddFinalizerPreserves, LastWritesPreserve, ApplyChildPreserves,
     CountingPreserves, DeleteChildPreserves DEF Reconcile
<1>2. CASE Environment
  BY <1>2, CrashPreserves, InformersPreserve, ChildrenPreserve, UsersPreserve DEF Environment
<1>3. CASE UNCHANGED vars
  <2>1. UNCHANGED <<cluster, child, cCluster, cFresh, known, current, cReady,
                    pc, snap, fresh, k, tally, budget>>
    BY <1>3 DEF vars, caches, pass
  <2>2. ChildTyped' /\ CachesTyped' /\ BudgetTyped' /\ (cFresh' => cCluster' = cluster)
    BY <2>1, TypeParts DEF IInv, ChildTyped, CachesTyped, BudgetTyped, Versions
  <2> QED BY <2>1, <2>2, PassUntouched
<1> QED BY <1>1, <1>2, <1>3 DEF Next

\* The invariant behind the theorems below.
THEOREM Invariance == Spec => []IInv
BY InitEstablishes, StepPreserves, PTL DEF Spec

\* Every reachable state is well typed: no loop index of reconcileCluster,
\* updateStatus or handleDeletion goes past its list, and every child that exists
\* has contents of its kind.
THEOREM TypeCorrect == Spec => []TypeOK
<1>1. IInv => TypeOK
  BY DEF IInv
<1> QED BY <1>1, Invariance, PTL

\* There is no child of a cluster that has no finalizer stored and is not being
\* deleted: whatever copy a pass works from, it creates children only after it has
\* seen the finalizer, and only a deletion takes that away.
THEOREM NothingBeforehand == Spec => []ChildrenUnderFinalizer
<1>1. IInv => ChildrenUnderFinalizer
  BY DEF IInv, Guarding, Guarded, ChildrenUnderFinalizer
<1> QED BY <1>1, Invariance, PTL

\* What a write of the worker stores is made from a copy that is still current.
LEMMA WorkerWrites ==
  ASSUME IInv, NEW new, Accepted(new) \/ Refused \/ ReplyLost(new), cluster' # cluster
  PROVE  /\ fresh /\ cluster' = new /\ cluster # Absent /\ UNCHANGED child
         /\ snap.spec = cluster.spec /\ budget'.edits = budget.edits
BY DEF IInv, TypeOK, Versions, SameButStatus, Accepted, Refused, ReplyLost, Commit, Fault

KeepsEdits ==
  (/\ cluster # Absent /\ cluster' # Absent
   /\ cluster'.spec # cluster.spec /\ budget'.edits = budget.edits)
    => cluster.spec.instances = <<>> /\ cluster'.spec = WithDefaultInstance(cluster.spec)

LEMMA StepKeepsEdits == IInv /\ [Next]_vars => KeepsEdits
<1> SUFFICES ASSUME IInv, [Next]_vars, cluster # Absent, cluster' # Absent,
                    cluster'.spec # cluster.spec, budget'.edits = budget.edits
             PROVE  cluster.spec.instances = <<>> /\ cluster'.spec = WithDefaultInstance(cluster.spec)
  BY DEF KeepsEdits
<1>1. PassTyped /\ cluster \in Clusters /\ budget.edits \in Nat /\ cluster' # cluster
  BY DEF IInv, TypeOK
<1>2. CASE SetDefaultInstance
  <2> DEFINE new == [snap EXCEPT !.spec = WithDefaultInstance(snap.spec)]
  <2>1. snap \in Clusters /\ snap.spec.instances = <<>>
    BY <1>1, <1>2 DEF SetDefaultInstance, PassTyped
  <2>2. new.spec = WithDefaultInstance(snap.spec)
    BY <2>1 DEF Clusters
  <2>3. Accepted(new) \/ Refused \/ ReplyLost(new)
    BY <1>2 DEF SetDefaultInstance
  <2> HIDE DEF new
  <2>4. cluster' = new /\ snap.spec = cluster.spec
    BY <1>1, <2>3, WorkerWrites
  <2> QED BY <2>1, <2>2, <2>4
<1>3. CASE AddFinalizer
  <2> DEFINE new == [snap EXCEPT !.finalizer = TRUE]
  <2>1. snap \in Clusters
    BY <1>1, <1>3 DEF AddFinalizer, PassTyped
  <2>2. new.spec = snap.spec
    BY <2>1 DEF Clusters
  <2>3. Accepted(new) \/ Refused \/ ReplyLost(new)
    BY <1>1, <1>3 DEF AddFinalizer
  <2> HIDE DEF new
  <2> QED BY <1>1, <2>2, <2>3, WorkerWrites
<1>4. CASE WriteStatus
  <2> DEFINE new == [snap EXCEPT !.status.phase = PhaseOf(tally)]
  <2>1. snap \in Clusters
    BY <1>1, <1>4 DEF WriteStatus, PassTyped
  <2>2. new.spec = snap.spec
    BY <2>1 DEF Clusters
  <2>3. Accepted(new) \/ Refused \/ ReplyLost(new)
    BY <1>4 DEF WriteStatus
  <2> HIDE DEF new
  <2> QED BY <1>1, <2>2, <2>3, WorkerWrites
<1>5. CASE RemoveFinalizer
  <2> DEFINE new == IF snap.foreground THEN [snap EXCEPT !.finalizer = FALSE] ELSE Absent
  <2>1. snap \in Clusters
    BY <1>1, <1>5 DEF RemoveFinalizer, PassTyped
  <2>2. new = Absent \/ new.spec = snap.spec
    BY <2>1 DEF Clusters
  <2>3. Accepted(new) \/ Refused \/ ReplyLost(new)
    BY <1>5 DEF RemoveFinalizer
  <2> HIDE DEF new
  <2> QED BY <1>1, <2>2, <2>3, WorkerWrites
<1>6. CASE EditSpec
  BY <1>1, <1>6 DEF EditSpec, IInv, TypeOK
<1>7. CASE CollectCluster \/ DeleteCluster
  BY <1>1, <1>7 DEF CollectCluster, DeleteCluster, UserWrite, Clusters
<1>8. CASE \/ Begin \/ ApplyChild \/ StartStatus \/ CountInstance \/ DeleteChild \/ Crash
           \/ SyncCluster \/ (\E kind \in Kinds : SyncChildren(kind))
           \/ (\E i \in Instances : RunPods(i) \/ LosePod(i))
           \/ (\E c \in Children : CollectChild(c)) \/ UNCHANGED vars
  BY <1>1, <1>8 DEF Begin, ApplyChild, StartStatus, CountInstance, DeleteChild, Crash,
       SyncCluster, SyncChildren, RunPods, LosePod, SetReady, CollectChild, SetChild, vars
<1> QED BY <1>2, <1>3, <1>4, <1>5, <1>6, <1>7, <1>8 DEF Next, Reconcile, Environment

\* A pass changes the stored spec only to give an empty instance list the default
\* instance, and then nothing but that: with any number of edits and faults, from
\* a cache however old, no edit of a user is undone.
THEOREM EditsAreKept == Spec => EditsSurvive
<1>1. IInv /\ [Next]_vars => [KeepsEdits]_vars
  BY StepKeepsEdits
<1>2. Spec => [][KeepsEdits]_vars
  BY <1>1, Invariance, PTL DEF Spec
<1> QED BY <1>2 DEF KeepsEdits, EditsSurvive

\* The children that handleDeletion is there to delete are gone.
LEMMA CleanedUp ==
  ASSUME IInv, pc = "cleanup", k > Len(Cleanup(snap.spec))
  PROVE  /\ child[Config] = Absent /\ child[Secret] = Absent
         /\ \A j \in DOMAIN snap.spec.instances :
              LET i == snap.spec.instances[j].name
              IN  child[Service(i)] = Absent /\ child[StatefulSet(i)] = Absent
<1> DEFINE L == Len(snap.spec.instances)
<1>1. snap.spec \in ClusterSpecs /\ snap.spec.instances \in Seq(InstanceSpecs)
  BY ClusterParts DEF IInv, PassTyped
<1>2. L \in Nat /\ DOMAIN snap.spec.instances = 1 .. L
  BY <1>1
<1>3. Len(Cleanup(snap.spec)) = 2 * L + 2
  BY <1>1, CleanupProperties
<1>4. k \in Nat
  BY DEF IInv, TypeOK
<1>5. \A n \in 1 .. 2 * L + 2 : child[Cleanup(snap.spec)[n]] = Absent
  <2> HIDE DEF L
  <2>1. \A n \in 1 .. 2 * L + 2 : n < k
    BY <1>2, <1>3, <1>4
  <2> QED BY <1>3, <2>1 DEF IInv, Swept
<1>6. child[Config] = Absent /\ child[Secret] = Absent
  <2>1. 2 * L + 1 \in 1 .. 2 * L + 2 /\ 2 * L + 2 \in 1 .. 2 * L + 2
    BY <1>2
  <2>2. Cleanup(snap.spec)[2 * L + 1] = Config /\ Cleanup(snap.spec)[2 * L + 2] = Secret
    BY <1>1, CleanupProperties
  <2> QED BY <1>5, <2>1, <2>2
<1>7. ASSUME NEW j \in 1 .. L
      PROVE  /\ child[Service(snap.spec.instances[j].name)] = Absent
             /\ child[StatefulSet(snap.spec.instances[j].name)] = Absent
  <2>1. 2 * j - 1 \in 1 .. 2 * L + 2 /\ 2 * j \in 1 .. 2 * L + 2
    BY <1>2
  <2>2. /\ Cleanup(snap.spec)[2 * j - 1] = StatefulSet(snap.spec.instances[j].name)
        /\ Cleanup(snap.spec)[2 * j] = Service(snap.spec.instances[j].name)
    BY <1>1, CleanupProperties
  <2> QED BY <1>5, <2>1, <2>2
<1> QED BY <1>2, <1>6, <1>7

CoversCleanup ==
  (cluster # Absent /\ cluster.finalizer
   /\ (cluster' = Absent \/ ~cluster'.finalizer))
    => /\ child[Config] = Absent /\ child[Secret] = Absent
       /\ \A j \in DOMAIN cluster.spec.instances :
            LET i == cluster.spec.instances[j].name
            IN  child[Service(i)] = Absent /\ child[StatefulSet(i)] = Absent

LEMMA StepCoversCleanup == IInv /\ [Next]_vars => CoversCleanup
<1> SUFFICES ASSUME IInv, [Next]_vars, cluster # Absent, cluster.finalizer,
                    cluster' = Absent \/ ~cluster'.finalizer
             PROVE  CoversCleanup
  BY DEF CoversCleanup
<1>1. PassTyped /\ cluster \in Clusters
  BY DEF IInv, TypeOK
<1>2. cluster' # cluster
  OBVIOUS
<1>3. CASE RemoveFinalizer
  <2>1. pc = "cleanup" /\ k > Len(Cleanup(snap.spec))
    BY <1>3 DEF RemoveFinalizer
  <2> DEFINE new == IF snap.foreground THEN [snap EXCEPT !.finalizer = FALSE] ELSE Absent
  <2>2. Accepted(new) \/ Refused \/ ReplyLost(new)
    BY <1>3 DEF RemoveFinalizer
  <2> HIDE DEF new
  <2>3. snap.spec = cluster.spec
    BY <1>2, <2>2, WorkerWrites
  <2> QED BY <2>1, <2>3, CleanedUp DEF CoversCleanup
<1>4. CASE AddFinalizer
  <2> DEFINE new == [snap EXCEPT !.finalizer = TRUE]
  <2>1. snap \in Clusters
    BY <1>1, <1>4 DEF AddFinalizer, PassTyped
  <2>2. new \in Clusters /\ new.finalizer
    BY <2>1 DEF Clusters
  <2>3. Accepted(new) \/ Refused \/ ReplyLost(new)
    BY <1>2, <1>4 DEF AddFinalizer
  <2> HIDE DEF new
  <2> QED BY <1>2, <2>2, <2>3, WorkerWrites, ClusterParts
<1>5. CASE SetDefaultInstance
  <2> DEFINE new == [snap EXCEPT !.spec = WithDefaultInstance(snap.spec)]
  <2>1. snap \in Clusters /\ snap.finalizer
    BY <1>1, <1>5 DEF SetDefaultInstance, PassTyped
  <2>2. new \in Clusters /\ new.finalizer
    BY <2>1, ClusterParts, DefaultSpecType, CopyTypes DEF Clusters
  <2>3. Accepted(new) \/ Refused \/ ReplyLost(new)
    BY <1>5 DEF SetDefaultInstance
  <2> HIDE DEF new
  <2> QED BY <1>2, <2>2, <2>3, WorkerWrites, ClusterParts
<1>6. CASE WriteStatus
  <2> DEFINE new == [snap EXCEPT !.status.phase = PhaseOf(tally)]
  <2>1. snap \in Clusters /\ snap.finalizer
    BY <1>1, <1>6 DEF WriteStatus, PassTyped
  <2>2. new \in Clusters /\ new.finalizer
    BY <2>1, CopyTypes DEF Clusters, PhaseOf
  <2>3. Accepted(new) \/ Refused \/ ReplyLost(new)
    BY <1>6 DEF WriteStatus
  <2> HIDE DEF new
  <2> QED BY <1>2, <2>2, <2>3, WorkerWrites, ClusterParts
<1>7. CASE EditSpec
  <2>1. \A spec \in ClusterSpecs : /\ [cluster EXCEPT !.spec = spec] # Absent
                                   /\ [cluster EXCEPT !.spec = spec].finalizer
    <3>1. \A spec \in ClusterSpecs : [cluster EXCEPT !.spec = spec] \in Clusters
      BY <1>1, CopyTypes
    <3> QED BY <1>1, <3>1, ClusterParts DEF Clusters
  <2> QED BY <1>7, <2>1, SpecsAssumption DEF EditSpec, UserWrite
<1>8. CASE CollectCluster \/ DeleteCluster
  <2>1. /\ [cluster EXCEPT !.foreground = FALSE] \in Clusters
        /\ \A f \in BOOLEAN : [cluster EXCEPT !.deleting = TRUE, !.foreground = f] \in Clusters
    BY <1>1, CopyTypes
  <2>2. /\ [cluster EXCEPT !.foreground = FALSE].finalizer
        /\ \A f \in BOOLEAN : [cluster EXCEPT !.deleting = TRUE, !.foreground = f].finalizer
    BY <1>1 DEF Clusters
  <2> QED BY <1>8, <2>1, <2>2, AbsentAssumption DEF CollectCluster, DeleteCluster, UserWrite
<1>9. CASE \/ Begin \/ ApplyChild \/ StartStatus \/ CountInstance \/ DeleteChild \/ Crash
           \/ SyncCluster \/ (\E kind \in Kinds : SyncChildren(kind))
           \/ (\E i \in Instances : RunPods(i) \/ LosePod(i))
           \/ (\E c \in Children : CollectChild(c)) \/ UNCHANGED vars
  BY <1>2, <1>9 DEF Begin, ApplyChild, StartStatus, CountInstance, DeleteChild, Crash,
       SyncCluster, SyncChildren, RunPods, LosePod, SetReady, CollectChild, SetChild, vars
<1> QED BY <1>3, <1>4, <1>5, <1>6, <1>7, <1>8, <1>9 DEF Next, Reconcile, Environment

\* The step that takes the finalizer off finds the children of the stored spec
\* deleted: handleDeletion stops at the first error and starts again from the first
\* child, nothing is created meanwhile, and an edit made during the cleanup makes
\* the last write fail.
THEOREM CleanupIsComplete == Spec => FinalizerCoversCleanup
<1>1. IInv /\ [Next]_vars => [CoversCleanup]_vars
  BY StepCoversCleanup
<1>2. Spec => [][CoversCleanup]_vars
  BY <1>1, Invariance, PTL DEF Spec
<1> QED BY <1>2 DEF CoversCleanup, FinalizerCoversCleanup
=============================================================================
