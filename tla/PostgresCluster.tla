-------------------------- MODULE PostgresCluster --------------------------
(***************************************************************************)
(* The PostgresCluster controller: one worker that reconciles one          *)
(* PostgresCluster object into its children (a ConfigMap, a Secret, a      *)
(* Service and a StatefulSet per instance, a metrics Service), the API     *)
(* server that stores them, the informer caches the worker reads, the pods *)
(* of the StatefulSets and the garbage collector.                          *)
(*                                                                         *)
(* As in PostgresRestore, a resourceVersion is modelled by what comparing  *)
(* it with the stored one gives: cFresh and fresh for the cluster, and for *)
(* the children the set current of those whose cached version is stored.   *)
(* Of a cached child only two things are ever looked at: whether there is  *)
(* one (known), and the ready replicas of a StatefulSet (cReady).          *)
(***************************************************************************)
EXTENDS Naturals, Sequences

CONSTANTS
  Instances,        \* the names instances may have
  DefaultName,      \* "primary", the name of the instance the controller adds
  Specs,            \* the specs users give the cluster
  Storages,         \* storage and resource settings
  BadQuantity,      \* the setting with a quantity that does not parse
  Passwords,        \* generated passwords
  Absent,           \* there is no such object
  Unset,            \* an optional field is nil
  Cascades,         \* how users delete: "background", "foreground"
  MaxFaults,        \* bound: failing API calls, crashes of the manager, pod outages
  MaxEdits          \* bound: edits of the spec

InstanceSpecs == [name : Instances, role : {"primary", "replica"},
                  replicas : Nat \cup {Unset}, storage : Storages \cup {Unset}]
ClusterSpecs  == [instances : Seq(InstanceSpecs), replicas : Nat, storage : Storages,
                  monitoring : BOOLEAN, settings : Nat]

ASSUME NamesAssumption == DefaultName \in Instances /\ BadQuantity \in Storages
ASSUME SpecsAssumption == Specs \subseteq ClusterSpecs
ASSUME CascadesAssumption == Cascades \subseteq {"background", "foreground"}
ASSUME BoundsAssumption == MaxFaults \in Nat /\ MaxEdits \in Nat

VARIABLES
  cluster, child,             \* what the API server stores
  cCluster, cFresh, known, current, cReady,   \* the informer caches
  pc, snap, fresh, k, tally,  \* the pass in flight: program counter, its copy of
                              \* the cluster, loop index, replicas counted so far
  budget                      \* what is left of the bounds

caches == <<cCluster, cFresh, known, current, cReady>>
pass   == <<pc, snap, fresh, k, tally>>
vars   == <<cluster, child, caches, pass, budget>>

Config   == <<"config", Absent>>
Secret   == <<"secret", Absent>>
Metrics  == <<"metrics", Absent>>
Service(i)     == <<"service", i>>
StatefulSet(i) == <<"sts", i>>
Children == {Config, Secret, Metrics} \cup {Service(i) : i \in Instances}
                                      \cup {StatefulSet(i) : i \in Instances}

Statuses == [phase : {"", "Running", "Degraded", "Pending"}, primary : Instances \cup {Absent}]
Clusters == [spec : ClusterSpecs, deleting : BOOLEAN, foreground : BOOLEAN,
             finalizer : BOOLEAN, status : Statuses]
Contents(c) ==
  CASE c = Config  -> [settings : Nat, order : Nat]
    [] c = Secret  -> Passwords
    [] c = Metrics -> {"metrics"}
    [] c[1] = "service" -> {"primary", "replica"}
    [] c[1] = "sts"     -> [replicas : Nat, storage : Storages, ready : Nat]
Steps == {"idle", "finalize", "default", "apply", "status", "cleanup"}

ASSUME AbsentAssumption == Absent \notin Clusters

TypeOK ==
  /\ cluster \in Clusters \cup {Absent}
  /\ cCluster \in Clusters \cup {Absent}
  /\ snap \in Clusters \cup {Absent}
  /\ DOMAIN child = Children
  /\ \A c \in Children : child[c] \in Contents(c) \cup {Absent}
  /\ known \subseteq Children /\ current \subseteq Children
  /\ cReady \in [Instances -> Nat]
  /\ cFresh \in BOOLEAN /\ fresh \in BOOLEAN
  /\ pc \in Steps /\ k \in Nat
  /\ tally \in [ready : Nat, expected : Nat]
  /\ budget \in [faults : Nat, edits : Nat]

-----------------------------------------------------------------------------
(* Building blocks of the handlers *)

\* setDefaults and the default instance: with an empty instance list, one
\* instance that takes the replicas and the storage of the cluster.
DefaultReplicas(n) == IF n = 0 THEN 1 ELSE n

WithDefaultInstance(spec) ==
  LET n == DefaultReplicas(spec.replicas)
  IN  [spec EXCEPT !.replicas = n,
                   !.instances = <<[name |-> DefaultName, role |-> "primary",
                                    replicas |-> n, storage |-> spec.storage]>>]

\* reconcileCluster handles these children, in this order: the ConfigMap, the
\* Secret, for each instance its Service and its StatefulSet, the metrics Service.
Work(spec) ==
  <<Config, Secret>>
  \o [n \in 1 .. 2 * Len(spec.instances) |->
        LET i == spec.instances[(n + 1) \div 2].name
        IN  IF n % 2 = 1 THEN Service(i) ELSE StatefulSet(i)]
  \o IF spec.monitoring THEN <<Metrics>> ELSE <<>>

\* handleDeletion deletes these; the metrics Service, and the children of
\* instances no longer in the spec, are left to the garbage collector.
Cleanup(spec) ==
  [n \in 1 .. 2 * Len(spec.instances) |->
     LET i == spec.instances[(n + 1) \div 2].name
     IN  IF n % 2 = 1 THEN StatefulSet(i) ELSE Service(i)]
  \o <<Config, Secret>>

\* The instance the n-th child of Work(spec) belongs to.
InstanceAt(spec, n) == spec.instances[(n - 1) \div 2]

\* Mutant: the nil check is forgotten.
ReplicasSet(x) == x.replicas

StorageOf(spec, x) == IF x.storage = Unset THEN spec.storage ELSE x.storage
ReplicasOf(x)      == IF x.replicas = Unset THEN 1 ELSE x.replicas

ReadyOf(s) == IF s = Absent THEN 0 ELSE s.ready

\* Mutant: a child that exists is left alone.
DesiredOnce(spec, n, old) ==
  LET c == Work(spec)[n]
      x == InstanceAt(spec, n)
  IN  CASE old # Absent -> {old}
        [] old = Absent /\ c = Config  -> {[settings |-> spec.settings, order |-> 1]}
        [] old = Absent /\ c = Secret  -> Passwords
        [] old = Absent /\ c = Metrics -> {"metrics"}
        [] old = Absent /\ c[1] = "service" -> {x.role}
        [] old = Absent /\ c[1] = "sts" ->
             {[replicas |-> ReplicasOf(x), storage |-> StorageOf(spec, x), ready |-> 0]}

\* What the n-th child of Work(spec) may be made to contain, given what it
\* contains now.  generatePostgresConfig ranges over a map, so several settings
\* come in any order; the passwords of the Secret are generated anew; the status
\* of a StatefulSet is not the controller's to write.
Desired(spec, n, old) ==
  LET c == Work(spec)[n]
      x == InstanceAt(spec, n)
  IN  CASE c = Config  -> {[settings |-> spec.settings, order |-> o] :
                             o \in IF spec.settings > 1 THEN {1, 2} ELSE {1}}
        [] c = Secret  -> Passwords \ {old}
        [] c = Metrics -> {"metrics"}
        [] c[1] = "service" -> {x.role}
        [] c[1] = "sts"     -> {[replicas |-> ReplicasOf(x), storage |-> StorageOf(spec, x),
                                 ready |-> ReadyOf(old)]}

\* The quantities of the n-th child parse.
Parses(spec, n) ==
  Work(spec)[n][1] = "sts" => StorageOf(spec, InstanceAt(spec, n)) # BadQuantity

\* The API server refuses to change the volumeClaimTemplates of a StatefulSet.
Mutable(c, old, new) == c[1] = "sts" => old.storage = new.storage

EndPass == pc' = "idle" /\ snap' = Absent /\ fresh' = FALSE /\ k' = 1
           /\ tally' = [ready |-> 0, expected |-> 0]

\* Where a pass goes with this copy of the cluster once it has the finalizer.
Route(c) == IF c.deleting THEN "cleanup"
            ELSE IF c.spec.instances = <<>> THEN "default" ELSE "apply"

\* A new version of the cluster makes the cached one stale; a write that leaves
\* the modelled fields alone may keep the resourceVersion, or touch others.
Commit(new) ==
  /\ cluster' = new
  /\ \/ cFresh' = FALSE
     \/ new = cluster /\ cFresh' = cFresh
  /\ UNCHANGED <<child, cCluster, known, current, cReady>>

\* So does a new version of a child; a write that changes nothing keeps it.
SetChild(c, new) ==
  /\ child' = [child EXCEPT ![c] = new]
  /\ current' = IF new = child[c] THEN current ELSE current \ {c}
  /\ UNCHANGED <<cluster, cCluster, cFresh, known, cReady>>

Fault == budget.faults > 0 /\ budget' = [budget EXCEPT !.faults = @ - 1]

\* Used by mutants: a write without a resourceVersion (a merge patch).
Unversioned(new) == cluster # Absent /\ Commit(new) /\ UNCHANGED budget

\* Update and Status().Update of the cluster: accepted, an error, or served with
\* the reply lost.
Accepted(new) == fresh /\ Commit(new) /\ UNCHANGED budget
Refused ==
  /\ UNCHANGED <<cluster, child, caches>>
  /\ \/ ~fresh /\ UNCHANGED budget
     \/ Fault
ReplyLost(new) == fresh /\ Commit(new) /\ Fault

-----------------------------------------------------------------------------
(* Reconcile *)

\* Mutant: a cluster whose phase has been reported is left alone until deleted.
BeginUntilReported ==
  /\ pc = "idle" /\ cCluster # Absent
  /\ cCluster.deleting \/ cCluster.status.phase = ""
  /\ snap' = cCluster /\ fresh' = cFresh
  /\ pc' = IF cCluster.finalizer THEN Route(cCluster) ELSE "finalize"
  /\ UNCHANGED <<cluster, child, caches, k, tally, budget>>

\* A pass starts whenever the worker is free: on an event of the cluster or of a
\* child, after a requeue, an error's back-off, or a resync.
Begin ==
  /\ pc = "idle" /\ cCluster # Absent
  /\ snap' = cCluster /\ fresh' = cFresh
  /\ pc' = IF cCluster.finalizer THEN Route(cCluster) ELSE "finalize"
  /\ UNCHANGED <<cluster, child, caches, k, tally, budget>>

\* Mutant: the error of the update is logged and the pass goes on.
AddFinalizerOrGoOn ==
  /\ pc = "finalize"
  /\ LET new == [snap EXCEPT !.finalizer = TRUE]
     IN  /\ (~snap.deleting /\ Accepted(new)) \/ Refused
         /\ pc' = Route(new) /\ snap' = new /\ fresh' = fresh
         /\ UNCHANGED <<k, tally>>

\* The finalizer comes before the look at the deletion timestamp.  The API server
\* accepts no new finalizer on an object that is being deleted.
AddFinalizer ==
  /\ pc = "finalize"
  /\ LET new == [snap EXCEPT !.finalizer = TRUE]
     IN  \/ /\ ~snap.deleting /\ Accepted(new)
            /\ pc' = Route(new) /\ snap' = new /\ fresh' = TRUE
            /\ UNCHANGED <<k, tally>>
         \/ ~snap.deleting /\ (Refused \/ ReplyLost(new)) /\ EndPass
         \/ snap.deleting /\ UNCHANGED <<cluster, child, caches, budget>> /\ EndPass

\* Mutant: the default instance is written without a resourceVersion.
SetDefaultInstanceUnversioned ==
  /\ pc = "default"
  /\ LET new == [snap EXCEPT !.spec = WithDefaultInstance(snap.spec)]
     IN  Unversioned(new) \/ Refused \/ ReplyLost(new)
  /\ EndPass

\* An empty instance list gets the default instance; the next pass goes on.
SetDefaultInstance ==
  /\ pc = "default"
  /\ LET new == [snap EXCEPT !.spec = WithDefaultInstance(snap.spec)]
     IN  Accepted(new) \/ Refused \/ ReplyLost(new)
  /\ EndPass

\* k8s.CreateOrUpdate is served when the cache knows of no child and there is
\* none, or when the cached child is the stored version and the change allowed.
Servable(c, new) ==
  IF c \in known THEN c \in current /\ Mutable(c, child[c], new)
                 ELSE child[c] = Absent

\* reconcileCluster, one child at a time; the first error ends the pass.
ApplyChild ==
  /\ pc = "apply" /\ k <= Len(Work(snap.spec))
  /\ LET c == Work(snap.spec)[k] IN
     \/ /\ ~Parses(snap.spec, k)
        /\ EndPass /\ UNCHANGED <<cluster, child, caches, budget>>
     \/ /\ Parses(snap.spec, k)
        /\ \E new \in Desired(snap.spec, k, child[c]) :
             \/ /\ Servable(c, new) /\ SetChild(c, new)
                /\ k' = k + 1 /\ UNCHANGED <<pc, snap, fresh, tally, budget>>
             \/ /\ ~Servable(c, new) /\ EndPass
                /\ UNCHANGED <<cluster, child, caches, budget>>
             \/ /\ Fault /\ EndPass
                /\ \/ UNCHANGED <<cluster, child, caches>>
                   \/ Servable(c, new) /\ SetChild(c, new)

StartStatus ==
  /\ pc = "apply" /\ k > Len(Work(snap.spec))
  /\ pc' = "status" /\ k' = 1
  /\ UNCHANGED <<cluster, child, caches, snap, fresh, tally, budget>>

\* updateStatus reads the StatefulSets one by one from the cache; a primary that
\* has a ready replica becomes the current primary.
CountInstance ==
  /\ pc = "status" /\ k <= Len(snap.spec.instances)
  /\ LET x     == snap.spec.instances[k]
         ready == cReady[x.name]
     IN  /\ tally' = [ready    |-> tally.ready + ready,
                      expected |-> tally.expected + ReplicasOf(x)]
         /\ snap' = IF x.role = "primary" /\ ready > 0
                    THEN [snap EXCEPT !.status.primary = x.name] ELSE snap
  /\ k' = k + 1
  /\ UNCHANGED <<cluster, child, caches, pc, fresh, budget>>

\* The phase compares the sums over all instances.
PhaseOf(t) == IF t.ready = t.expected THEN "Running"
              ELSE IF t.ready > 0 THEN "Degraded" ELSE "Pending"

WriteStatus ==
  /\ pc = "status" /\ k > Len(snap.spec.instances)
  /\ LET new == [snap EXCEPT !.status.phase = PhaseOf(tally)]
     IN  Accepted(new) \/ Refused \/ ReplyLost(new)
  /\ EndPass

\* Mutant: NotFound is an error like any other.
DeleteChildFound ==
  /\ pc = "cleanup" /\ k <= Len(Cleanup(snap.spec))
  /\ LET c == Cleanup(snap.spec)[k]
     IN  \/ /\ child[c] # Absent /\ SetChild(c, Absent)
            /\ k' = k + 1 /\ UNCHANGED <<pc, snap, fresh, tally, budget>>
         \/ child[c] = Absent /\ EndPass /\ UNCHANGED <<cluster, child, caches, budget>>

\* Mutant: an error is logged and the cleanup goes on.
DeleteChildOrGoOn ==
  /\ pc = "cleanup" /\ k <= Len(Cleanup(snap.spec))
  /\ LET c == Cleanup(snap.spec)[k]
     IN  \/ SetChild(c, Absent) /\ UNCHANGED budget
         \/ Fault /\ UNCHANGED <<cluster, child, caches>>
  /\ k' = k + 1 /\ UNCHANGED <<pc, snap, fresh, tally>>

\* handleDeletion, one child at a time; an error other than NotFound ends the
\* pass.
DeleteChild ==
  /\ pc = "cleanup" /\ k <= Len(Cleanup(snap.spec))
  /\ LET c == Cleanup(snap.spec)[k]
     IN  \/ SetChild(c, Absent) /\ k' = k + 1 /\ UNCHANGED <<pc, snap, fresh, tally, budget>>
         \/ Fault /\ EndPass /\ (SetChild(c, Absent) \/ UNCHANGED <<cluster, child, caches>>)

\* Without its last finalizer the object goes; the finalizer of a foreground
\* deletion keeps it until the garbage collector is done.
RemoveFinalizer ==
  /\ pc = "cleanup" /\ k > Len(Cleanup(snap.spec))
  /\ LET new == IF snap.foreground THEN [snap EXCEPT !.finalizer = FALSE] ELSE Absent
     IN  Accepted(new) \/ Refused \/ ReplyLost(new)
  /\ EndPass

Reconcile ==
  \/ Begin \/ AddFinalizer \/ SetDefaultInstance \/ ApplyChild \/ StartStatus
  \/ CountInstance \/ WriteStatus \/ DeleteChild \/ RemoveFinalizer

-----------------------------------------------------------------------------
(* The environment *)

\* The manager stops between two steps and starts again.
Crash == pc # "idle" /\ Fault /\ EndPass /\ UNCHANGED <<cluster, child, caches>>

\* An informer catches up with its kind of object; kinds lag independently.
SyncCluster ==
  /\ ~cFresh
  /\ cCluster' = cluster /\ cFresh' = TRUE
  /\ UNCHANGED <<cluster, child, known, current, cReady, pass, budget>>

Kinds == {"config", "secret", "service", "sts"}
KindOf(c) == IF c = Metrics THEN "service" ELSE c[1]
SyncChildren(kind) ==
  LET of == {c \in Children : KindOf(c) = kind}
  IN  /\ ~(of \subseteq current)
      /\ known' = (known \ of) \cup {c \in of : child[c] # Absent}
      /\ current' = current \cup of
      /\ cReady' = IF kind = "sts" THEN [i \in Instances |-> ReadyOf(child[StatefulSet(i)])] ELSE cReady
      /\ UNCHANGED <<cluster, child, cCluster, cFresh, pass, budget>>

\* The StatefulSet controller: pods become ready, superfluous ones go; and a pod
\* may become unready by itself.
SetReady(i, n) ==
  /\ SetChild(StatefulSet(i), [child[StatefulSet(i)] EXCEPT !.ready = n])
  /\ UNCHANGED pass

RunPods(i) ==
  LET s == child[StatefulSet(i)]
  IN  /\ s # Absent
      /\ \/ s.ready < s.replicas /\ SetReady(i, s.ready + 1)
         \/ s.ready > s.replicas /\ SetReady(i, s.ready - 1)
      /\ UNCHANGED budget

LosePod(i) ==
  LET s == child[StatefulSet(i)]
  IN  s # Absent /\ s.ready > 0 /\ SetReady(i, s.ready - 1) /\ Fault

\* The garbage collector deletes the children of a cluster that is gone or being
\* deleted in the foreground, and takes its own finalizer (foreground) off the
\* latter when none is left.
CollectChild(c) ==
  /\ child[c] # Absent
  /\ cluster # Absent => cluster.foreground
  /\ SetChild(c, Absent) /\ UNCHANGED <<pass, budget>>

UserWrite(new) ==
  /\ cluster' = new /\ cFresh' = FALSE /\ fresh' = FALSE
  /\ UNCHANGED <<child, cCluster, known, current, cReady, pc, snap, k, tally>>

NoChild == \A c \in Children : child[c] = Absent

CollectCluster ==
  /\ cluster # Absent /\ cluster.foreground /\ NoChild
  /\ UserWrite(IF cluster.finalizer THEN [cluster EXCEPT !.foreground = FALSE] ELSE Absent)
  /\ UNCHANGED budget

\* A user edits the spec, or deletes the cluster.
EditSpec ==
  /\ cluster # Absent
  /\ budget.edits > 0 /\ budget' = [budget EXCEPT !.edits = @ - 1]
  /\ \E spec \in Specs \ {cluster.spec} : UserWrite([cluster EXCEPT !.spec = spec])

DeleteCluster ==
  /\ cluster # Absent /\ ~cluster.deleting
  /\ \E cascade \in Cascades :
       LET foreground == cascade = "foreground"
       IN  UserWrite(IF cluster.finalizer \/ foreground
                     THEN [cluster EXCEPT !.deleting = TRUE, !.foreground = foreground]
                     ELSE Absent)
  /\ UNCHANGED budget

Environment ==
  \/ Crash \/ SyncCluster \/ CollectCluster \/ EditSpec \/ DeleteCluster
  \/ \E kind \in Kinds : SyncChildren(kind)
  \/ \E i \in Instances : RunPods(i) \/ LosePod(i)
  \/ \E c \in Children : CollectChild(c)

-----------------------------------------------------------------------------
\* A user has just created the cluster, and the caches are in sync.
Init ==
  /\ \E spec \in Specs :
       cluster = [spec |-> spec, deleting |-> FALSE, foreground |-> FALSE,
                  finalizer |-> FALSE, status |-> [phase |-> "", primary |-> Absent]]
  /\ child = [c \in Children |-> Absent]
  /\ cCluster = cluster /\ cFresh = TRUE
  /\ known = {} /\ current = Children /\ cReady = [i \in Instances |-> 0]
  /\ pc = "idle" /\ snap = Absent /\ fresh = FALSE
  /\ k = 1 /\ tally = [ready |-> 0, expected |-> 0]
  /\ budget = [faults |-> MaxFaults, edits |-> MaxEdits]

Next == Reconcile \/ Environment

Spec == Init /\ [][Next]_vars

\* The worker keeps reconciling, the informers and the garbage collector keep up,
\* and pods get ready.  Nobody has to edit, delete, crash or fail.
Fairness ==
  /\ WF_vars(Reconcile) /\ WF_vars(SyncCluster) /\ WF_vars(CollectCluster)
  /\ \A kind \in Kinds : WF_vars(SyncChildren(kind))
  /\ \A i \in Instances : WF_vars(RunPods(i))
  /\ \A c \in Children : WF_vars(CollectChild(c))

FairSpec == Spec /\ Fairness

-----------------------------------------------------------------------------
(* Properties *)

\* Nothing is created for a cluster before its finalizer is stored, so no
\* deletion can miss a child.
ChildrenUnderFinalizer ==
  (cluster # Absent /\ ~cluster.deleting /\ ~cluster.finalizer) => NoChild

\* The step that gives up the finalizer finds the ConfigMap, the Secret and all
\* children of the instances of the stored spec deleted: also when the spec was
\* edited during the cleanup, and whatever failed before.
FinalizerCoversCleanup ==
  [][(cluster # Absent /\ cluster.finalizer
      /\ (cluster' = Absent \/ ~cluster'.finalizer))
       => /\ child[Config] = Absent /\ child[Secret] = Absent
          /\ \A j \in DOMAIN cluster.spec.instances :
               LET i == cluster.spec.instances[j].name
               IN  child[Service(i)] = Absent /\ child[StatefulSet(i)] = Absent]_vars

\* The controller writes to the spec only to fill an empty instance list: no edit
\* of a user is undone by a pass that started from an older copy.
EditsSurvive ==
  [][(/\ cluster # Absent /\ cluster' # Absent
      /\ cluster'.spec # cluster.spec /\ budget'.edits = budget.edits)
       => cluster.spec.instances = <<>> /\ cluster'.spec = WithDefaultInstance(cluster.spec)]_vars

\* What the spec asks for is there.
InstanceApplied(x) ==
  LET s == child[StatefulSet(x.name)]
  IN  /\ child[Service(x.name)] = x.role
      /\ s # Absent
      /\ s.replicas = ReplicasOf(x) /\ s.storage = StorageOf(cluster.spec, x)

Applied ==
  /\ cluster.spec.instances # <<>>
  /\ child[Config] # Absent /\ child[Config].settings = cluster.spec.settings
  /\ child[Secret] # Absent
  /\ \A j \in DOMAIN cluster.spec.instances : InstanceApplied(cluster.spec.instances[j])
  /\ cluster.spec.monitoring => child[Metrics] # Absent

\* The controller can only apply a spec whose quantities parse and that keeps the
\* storage the StatefulSets were created with.
Acceptable ==
  \A j \in DOMAIN cluster.spec.instances :
    LET x == cluster.spec.instances[j]
        s == child[StatefulSet(x.name)]
    IN  /\ StorageOf(cluster.spec, x) # BadQuantity
        /\ s # Absent => s.storage = StorageOf(cluster.spec, x)

\* "Ensures the desired state matches the actual state": the children follow such
\* a spec in the end, unless the cluster is deleted.
ValidSpecIsApplied ==
  []<>(cluster = Absent \/ cluster.deleting \/ ~Acceptable \/ Applied)

\* A cluster whose StatefulSets all have the replicas of the spec ready is
\* reported Running in the end, if its spec is one that can be applied.
AllReady ==
  \A j \in DOMAIN cluster.spec.instances :
    LET x == cluster.spec.instances[j]
        s == child[StatefulSet(x.name)]
    IN  s # Absent /\ s.ready = ReplicasOf(x)

ReadyIsReported ==
  []<>(cluster = Absent \/ cluster.deleting \/ ~Acceptable \/ ~AllReady
       \/ cluster.status.phase = "Running")

\* A deleted cluster is gone eventually, with all its children.
DeletionTerminates ==
  (cluster # Absent /\ cluster.deleting) ~> (cluster = Absent /\ NoChild)

\* "Performs idempotent operations": once the credentials exist, later passes
\* leave the passwords alone, as the databases were initialised with them.
PasswordsAreKept ==
  [][(child[Secret] # Absent /\ child'[Secret] # Absent) => child'[Secret] = child[Secret]]_vars
=============================================================================
