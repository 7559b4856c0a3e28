-------------------------- MODULE PostgresRestore --------------------------
(***************************************************************************)
(* The PostgresRestore controller: one worker that reconciles one          *)
(* PostgresRestore object, the API server that stores it, the informer     *)
(* caches the worker reads, and the jobs it starts.                        *)
(*                                                                         *)
(* Reads (client.Get) come from the caches, which lag behind the API       *)
(* server.  Writes go to the API server and carry the resourceVersion of   *)
(* the copy that was read.  A resourceVersion is only ever compared with   *)
(* the stored one, so it is modelled by what that comparison gives: cFresh *)
(* says that the cached restore is the stored version, fresh that the copy *)
(* held by the pass in flight is.                                          *)
(*                                                                         *)
(* A job is named after its instance ("<restore>-<instance>-restore"), so  *)
(* jobs are a function of instance names.                                  *)
(***************************************************************************)
EXTENDS InstanceSelection, BackupTypes

CONSTANTS
  Instances,        \* the names instances may have
  ClusterSpecs,     \* the spec.instances lists users give the cluster
  BackupSpecs,      \* the specs users give the backup
  Selector,         \* spec.instances of the restore
  Absent,           \* there is no such object
  MaxRestores,      \* bound: restores created one after the other under one name
  MaxFaults,        \* bound: failing API calls and crashes of the manager
  MaxEdits,         \* bound: edits of the cluster and of the backup
  MaxJobDeletions   \* bound: jobs deleted by somebody else (kubectl, a TTL)

InstanceSpecs == [name : Instances, role : {"primary", "replica"}, volume : BOOLEAN]

\* What TLAPS needs to know of the constants, and TLC evaluates.
ASSUME BoundsAssumption == MaxRestores \in Nat \ {0} /\ MaxFaults \in Nat
                           /\ MaxEdits \in Nat /\ MaxJobDeletions \in Nat
ASSUME ClusterAssumption == Absent \notin ClusterSpecs /\ Absent \notin BackupSpecs
ASSUME TargetsAssumption ==
  \A c \in ClusterSpecs :
    \/ TargetInstances(c, Selector) = NoTargets
    \/ TargetInstances(c, Selector) \in Seq(InstanceSpecs)
ASSUME NoTargetsAssumption == NoTargets \notin Seq(InstanceSpecs)

VARIABLES
  restore, cluster, backup, jobs,        \* the objects the API server stores
  marked,        \* the instances whose job was deleted and waits for the garbage
                 \* collector
  cRestore, cFresh, cCluster, cBackup, cJobs,          \* the informer caches
  pc, snap, fresh, seen, k, job,         \* the pass in flight: program counter,
                 \* its copy of the restore, of the objects it refers to, loop
                 \* index, and the instance whose job the loop body looks at
  restored,      \* history: <<uid, instance>> of the jobs that succeeded
  budget         \* what is left of the bounds

stored == <<restore, cluster, backup, jobs, marked>>
caches == <<cRestore, cFresh, cCluster, cBackup, cJobs>>
pass   == <<pc, snap, fresh, seen, k, job>>
vars   == <<stored, caches, pass, restored, budget>>

Phases         == {"", "Pending", "Running", "Failed", "Completed"}
InstancePhases == {"Pending", "Running", "Failed", "Completed"}
InstanceStatus == [inst : Instances, phase : InstancePhases]
Restores       == [uid : Nat, deleting : BOOLEAN, finalizer : BOOLEAN,
                   phase : Phases, insts : Seq(InstanceStatus)]
JobStates      == {"none", "new", "active", "succeeded", "failed"}
Jobs           == [Instances -> [state : JobStates, uid : Nat]]
Steps          == {"idle", "finalize", "init", "loop", "observe", "fail", "cleanup"}

ASSUME AbsentAssumption == Absent \notin Restores

NoJob      == [state |-> "none", uid |-> 0]
Unread     == [cluster |-> Absent, backup |-> Absent]
NewRestore(uid) == [uid |-> uid, deleting |-> FALSE, finalizer |-> FALSE,
                    phase |-> "", insts |-> <<>>]

TypeOK ==
  /\ restore \in Restores \cup {Absent}
  /\ cluster \in ClusterSpecs \cup {Absent}
  /\ backup \in BackupSpecs \cup {Absent}
  /\ jobs \in Jobs /\ marked \subseteq Instances
  /\ cRestore \in Restores \cup {Absent}
  /\ cFresh \in BOOLEAN
  /\ cCluster \in ClusterSpecs \cup {Absent}
  /\ cBackup \in BackupSpecs \cup {Absent}
  /\ cJobs \in Jobs
  /\ pc \in Steps
  /\ snap \in Restores \cup {Absent}
  /\ fresh \in BOOLEAN
  /\ seen \in [cluster : ClusterSpecs \cup {Absent}, backup : BackupSpecs \cup {Absent}]
  /\ k \in Nat
  /\ job \in Instances \cup {Absent}
  /\ restored \subseteq Nat \X Instances
  /\ budget \in [restores : Nat, faults : Nat, edits : Nat, deletions : Nat]

-----------------------------------------------------------------------------
(* Building blocks of the handlers *)

\* What the pass in flight restores.
Goal == TargetInstances(seen.cluster, Selector)

\* AddBackupVolumeToJob accepts the storage of the backup.
UsableStorage(b) == b.storage = "s3" \/ (b.storage = "local" /\ b.pvcName)

\* createRestoreJob returns a job, not an error: instance.volume tells whether
\* the storage spec that applies to the instance names a volume.
Buildable(instance, b) ==
  /\ Supported(b.type)
  /\ NormalizeBackupType(b.type) = "physical" => instance.volume
  /\ UsableStorage(b)

PendingStatuses(goal) ==
  [i \in DOMAIN goal |-> [inst |-> goal[i].name, phase |-> "Pending"]]

\* Mutant: a job that is no longer active counts as done.
ObservedEnded(state, old) ==
  CASE state \in {"succeeded", "failed"} -> "Completed"
    [] state = "active"                 -> "Running"
    [] OTHER                            -> old

\* Mutant: the state of the job is recorded as it is.
ObservedState(state, old) == IF state = "none" THEN old ELSE state

\* updateJobStatus: the phase an instance gets from the cached job, if there is one.
ObservedPhase(state, old) ==
  CASE state = "succeeded" -> "Completed"
    [] state = "failed"    -> "Failed"
    [] state = "active"    -> "Running"
    [] OTHER               -> old

\* updateRestoreStatus: the phase of the restore from those of its instances.
OverallPhase(insts) ==
  LET Some(p) == \E i \in DOMAIN insts : insts[i].phase = p
  IN  CASE Some("Failed") -> "Failed"
        [] ~Some("Failed") /\ \A i \in DOMAIN insts : insts[i].phase = "Completed" -> "Completed"
        [] OTHER -> IF Some("Running") THEN "Running" ELSE "Pending"

\* The end of Reconcile: the locals are dead.
EndPass ==
  /\ pc' = "idle" /\ snap' = Absent /\ fresh' = FALSE
  /\ seen' = Unread /\ k' = 1 /\ job' = Absent

\* The API server stores a new version of the restore, and the cached copy is
\* stale; a write that changes nothing may keep the resourceVersion.
Commit(new) ==
  /\ restore' = new
  /\ \/ cFresh' = FALSE
     \/ new = restore /\ cFresh' = cFresh
  /\ UNCHANGED <<cluster, backup, jobs, marked, cRestore, cCluster, cBackup, cJobs>>

Fault == budget.faults > 0 /\ budget' = [budget EXCEPT !.faults = @ - 1]

\* Used by mutants: a write without a resourceVersion.
Unversioned(new) == restore # Absent /\ Commit(new) /\ UNCHANGED budget

\* Update and Status().Update of the restore are accepted only when the copy
\* of the pass is the stored version.
Accepted(new) == fresh /\ Commit(new) /\ UNCHANGED budget

\* They return an error and store nothing when it is not (conflict, or not
\* found), or when the call fails ...
Refused ==
  /\ UNCHANGED <<stored, caches>>
  /\ \/ ~fresh /\ UNCHANGED budget
     \/ Fault

\* ... and a call whose reply is lost returns an error though it was served.
ReplyLost(new) == fresh /\ Commit(new) /\ Fault

-----------------------------------------------------------------------------
(* Reconcile *)

\* A pass starts whenever the worker is free: on an event of the restore or of a
\* job it owns, after a requeue, an error's back-off, or a resync.
Begin ==
  /\ pc = "idle" /\ cRestore # Absent
  /\ fresh' = cFresh /\ k' = 1 /\ job' = job
  /\ UNCHANGED <<stored, caches, restored, budget>>

\* Mutants: the deletion is looked at only once the restore is Completed, and a
\* restore that once failed is left alone.
WorkLeftLate == cRestore.finalizer /\ cRestore.phase # "Completed"
WorkLeftOnce == ~cRestore.deleting /\ cRestore.finalizer
                /\ cRestore.phase \notin {"Completed", "Failed"}

\* The early returns of Reconcile before any work is done.
WorkLeft == ~cRestore.deleting /\ cRestore.finalizer /\ cRestore.phase # "Completed"

BeginDeletion ==
  /\ Begin
  /\ cRestore.deleting
  /\ pc' = "cleanup" /\ snap' = cRestore /\ seen' = seen

BeginFinalizer ==
  /\ Begin
  /\ ~cRestore.deleting /\ ~cRestore.finalizer
  /\ pc' = "finalize" /\ snap' = cRestore /\ seen' = seen

\* A restore that is Completed is skipped; otherwise the pass reads the cluster
\* and the backup, selects the instances, and resets the recorded instance
\* statuses when their number is not that of the instances.
BeginRestore ==
  /\ Begin
  /\ WorkLeft
  /\ seen' = [cluster |-> cCluster, backup |-> cBackup]
  /\ LET goal == IF cCluster = Absent \/ cBackup = Absent THEN NoTargets
                 ELSE TargetInstances(cCluster, Selector)
     IN  \/ /\ goal = NoTargets
            /\ pc' = "fail" /\ snap' = cRestore
         \/ /\ goal # NoTargets /\ Len(cRestore.insts) # Len(goal)
            /\ pc' = "init" /\ snap' = [cRestore EXCEPT !.insts = PendingStatuses(goal)]
         \/ /\ goal # NoTargets /\ Len(cRestore.insts) = Len(goal)
            /\ pc' = "loop" /\ snap' = cRestore

\* Update with the finalizer added; the next pass goes on, whatever the reply.
AddFinalizer ==
  /\ pc = "finalize"
  /\ LET new == [snap EXCEPT !.finalizer = TRUE]
     IN  Accepted(new) \/ Refused \/ ReplyLost(new)
  /\ EndPass
  /\ UNCHANGED restored

\* Mutant: the statuses are initialised in memory only.
InitStatusesInMemory ==
  /\ pc = "init" /\ pc' = "loop"
  /\ UNCHANGED <<stored, caches, snap, fresh, seen, k, job, restored, budget>>

\* The instance statuses, with the names of the jobs, are stored before any job
\* is created.
InitStatuses ==
  /\ pc = "init"
  /\ \/ Accepted(snap) /\ pc' = "loop" /\ fresh' = TRUE
     \/ Refused /\ pc' = "fail" /\ fresh' = fresh
     \/ ReplyLost(snap) /\ pc' = "fail" /\ fresh' = FALSE
  /\ UNCHANGED <<snap, seen, k, job, restored>>

\* The body of the loop over the instances looks at the status with the index
\* of the instance, whatever instance that status names.
InLoop == pc = "loop" /\ k <= Len(Goal)

SkipCompleted ==
  /\ InLoop
  /\ snap.insts[k].phase = "Completed"
  /\ k' = k + 1
  /\ UNCHANGED <<stored, caches, pc, snap, fresh, seen, job, restored, budget>>

FindJob ==
  /\ InLoop
  /\ snap.insts[k].phase # "Completed"
  /\ cJobs[snap.insts[k].inst].state # "none"
  /\ pc' = "observe" /\ job' = snap.insts[k].inst
  /\ UNCHANGED <<stored, caches, snap, fresh, seen, k, restored, budget>>

\* No job of the recorded name in the cache: Create one, named after the
\* instance of the cluster.  AlreadyExists is an error like any other.
StartJob(i) == jobs' = [jobs EXCEPT ![i] = [state |-> "new", uid |-> snap.uid]]

CreateJob ==
  /\ InLoop
  /\ snap.insts[k].phase # "Completed"
  /\ cJobs[snap.insts[k].inst].state = "none"
  /\ LET i == Goal[k].name
     IN  \/ /\ Buildable(Goal[k], seen.backup) /\ jobs[i].state = "none"
            /\ StartJob(i)
            /\ snap' = [snap EXCEPT !.insts[k].phase = "Running"]
            /\ pc' = "observe" /\ job' = i
            /\ UNCHANGED budget
         \/ /\ ~Buildable(Goal[k], seen.backup) \/ jobs[i].state # "none"
            /\ pc' = "fail"
            /\ UNCHANGED <<jobs, snap, job, budget>>
         \/ /\ Buildable(Goal[k], seen.backup) /\ Fault
            /\ jobs' = jobs \/ (jobs[i].state = "none" /\ StartJob(i))
            /\ pc' = "fail"
            /\ UNCHANGED <<snap, job>>
  /\ UNCHANGED <<restore, cluster, backup, marked, caches, fresh, seen, k, restored>>

\* updateJobStatus reads the job again, from the cache.
ObserveJob ==
  /\ pc = "observe"
  /\ snap' = [snap EXCEPT !.insts[k].phase = ObservedPhase(cJobs[job].state, @)]
  /\ pc' = "loop" /\ k' = k + 1 /\ job' = Absent
  /\ UNCHANGED <<stored, caches, fresh, seen, restored, budget>>

\* updateRestoreStatus, after the last instance.
SaveStatus ==
  /\ pc = "loop" /\ k > Len(Goal)
  /\ LET new == [snap EXCEPT !.phase = OverallPhase(snap.insts)]
     IN  \/ Accepted(new) /\ EndPass
         \/ /\ \/ Refused /\ fresh' = fresh
               \/ ReplyLost(new) /\ fresh' = FALSE
            /\ pc' = "fail"
            /\ UNCHANGED <<snap, seen, k, job>>
  /\ UNCHANGED restored

\* Mutant: the phase is written without a resourceVersion (a merge patch).
ReportFailureUnversioned ==
  /\ pc = "fail"
  /\ LET new == [snap EXCEPT !.phase = "Failed"]
     IN  Unversioned(new) \/ Refused \/ ReplyLost(new)
  /\ EndPass
  /\ UNCHANGED restored

\* handleError: store the phase Failed, with the statuses as far as the pass got.
ReportFailure ==
  /\ pc = "fail"
  /\ LET new == [snap EXCEPT !.phase = "Failed"]
     IN  Accepted(new) \/ Refused \/ ReplyLost(new)
  /\ EndPass
  /\ UNCHANGED restored

\* Delete, without a propagation policy: for a job of batch/v1 this means that its
\* pods are orphaned.  They run on, and the job stays, marked, until the garbage
\* collector has detached them.
Delete(i) == marked' = IF jobs[i].state = "none" THEN marked ELSE marked \cup {i}

\* Mutant: an error is logged and the loop goes on.
DeleteJobOrGoOn ==
  /\ pc = "cleanup" /\ k <= Len(snap.insts)
  /\ k' = k + 1
  /\ \/ Delete(snap.insts[k].inst) /\ UNCHANGED budget
     \/ marked' = marked /\ Fault
  /\ UNCHANGED <<restore, cluster, backup, jobs, caches, pc, snap, fresh, seen, job, restored>>

\* Mutant: NotFound is an error like any other.
DeleteJobFound ==
  /\ pc = "cleanup" /\ k <= Len(snap.insts)
  /\ LET i == snap.insts[k].inst
     IN  \/ /\ jobs[i].state # "none" /\ Delete(i)
            /\ k' = k + 1 /\ UNCHANGED <<pc, snap, fresh, seen, job, budget>>
         \/ jobs[i].state = "none" /\ marked' = marked /\ EndPass /\ UNCHANGED budget
  /\ UNCHANGED <<restore, cluster, backup, jobs, caches, restored>>

\* handleDeletion: delete the recorded jobs one after the other; an error other
\* than NotFound ends the pass.
DeleteJob ==
  /\ pc = "cleanup" /\ k <= Len(snap.insts)
  /\ LET i == snap.insts[k].inst
     IN  \/ /\ Delete(i) /\ k' = k + 1
            /\ UNCHANGED <<pc, snap, fresh, seen, job, budget>>
         \/ Fault /\ (Delete(i) \/ marked' = marked) /\ EndPass
  /\ UNCHANGED <<restore, cluster, backup, jobs, caches, restored>>

\* With its only finalizer gone, the object is removed.
RemoveFinalizer ==
  /\ pc = "cleanup" /\ k > Len(snap.insts)
  /\ Accepted(Absent) \/ Refused \/ ReplyLost(Absent)
  /\ EndPass
  /\ UNCHANGED restored

Reconcile ==
  \/ BeginDeletion \/ BeginFinalizer \/ BeginRestore \/ AddFinalizer \/ InitStatuses
  \/ SkipCompleted \/ FindJob \/ CreateJob \/ ObserveJob \/ SaveStatus \/ ReportFailure
  \/ DeleteJob \/ RemoveFinalizer

-----------------------------------------------------------------------------
(* The environment *)

\* The manager stops between two steps and starts again.
Crash ==
  /\ pc # "idle" /\ Fault /\ EndPass
  /\ UNCHANGED <<stored, caches, restored>>

\* An informer catches up with its kind of object; kinds lag independently.
SyncRestore ==
  /\ ~cFresh
  /\ cRestore' = restore /\ cFresh' = TRUE
  /\ UNCHANGED <<cCluster, cBackup, cJobs>>
SyncCluster == cCluster # cluster /\ cCluster' = cluster /\ UNCHANGED <<cRestore, cFresh, cBackup, cJobs>>
SyncBackup == cBackup # backup /\ cBackup' = backup /\ UNCHANGED <<cRestore, cFresh, cCluster, cJobs>>
SyncJobs == cJobs # jobs /\ cJobs' = jobs /\ UNCHANGED <<cRestore, cFresh, cCluster, cBackup>>
Informers ==
  /\ SyncRestore \/ SyncCluster \/ SyncBackup \/ SyncJobs
  /\ UNCHANGED <<stored, pass, restored, budget>>

\* A job that starts, and ends one way or the other; also when it is marked.
RunJob(i) ==
  /\ \E to \in JobStates :
       /\ <<jobs[i].state, to>> \in {<<"new", "active">>, <<"active", "succeeded">>, <<"active", "failed">>}
       /\ jobs' = [jobs EXCEPT ![i].state = to]
       /\ restored' = IF to = "succeeded" THEN restored \cup {<<jobs[i].uid, i>>} ELSE restored
  /\ UNCHANGED <<restore, cluster, backup, marked, caches, pass, budget>>

\* The garbage collector removes a job that is marked.
CollectJob(i) ==
  /\ i \in marked
  /\ jobs' = [jobs EXCEPT ![i] = NoJob] /\ marked' = marked \ {i}
  /\ UNCHANGED <<restore, cluster, backup, caches, pass, restored, budget>>

\* Somebody else removes a job with its pods, or the garbage collector one whose
\* owner is gone.
LoseJob(i) ==
  /\ jobs[i].state # "none" /\ i \notin marked
  /\ jobs' = [jobs EXCEPT ![i] = NoJob]
  /\ IF restore # Absent /\ restore.uid = jobs[i].uid
     THEN budget.deletions > 0 /\ budget' = [budget EXCEPT !.deletions = @ - 1]
     ELSE UNCHANGED budget
  /\ UNCHANGED <<restore, cluster, backup, marked, caches, pass, restored>>

\* A user edits, creates or deletes the cluster or the backup.
Edit ==
  /\ budget.edits > 0 /\ budget' = [budget EXCEPT !.edits = @ - 1]
  /\ \/ cluster' \in (ClusterSpecs \cup {Absent}) \ {cluster} /\ backup' = backup
     \/ backup' \in (BackupSpecs \cup {Absent}) \ {backup} /\ cluster' = cluster
  /\ UNCHANGED <<restore, jobs, marked, caches, pass, restored>>

\* A user deletes the restore: it stays, marked, as long as it has the finalizer.
DeleteRestore ==
  /\ restore # Absent /\ ~restore.deleting
  /\ restore' = IF restore.finalizer THEN [restore EXCEPT !.deleting = TRUE] ELSE Absent
  /\ cFresh' = FALSE /\ fresh' = FALSE
  /\ UNCHANGED <<cluster, backup, jobs, marked, cRestore, cCluster, cBackup, cJobs,
                 pc, snap, seen, k, job, restored, budget>>

\* A user creates a restore of the same name again; its uid is new (they count
\* down, from MaxRestores).
CreateRestore ==
  /\ restore = Absent
  /\ budget.restores > 0 /\ budget' = [budget EXCEPT !.restores = @ - 1]
  /\ restore' = NewRestore(budget.restores)
  /\ cFresh' = FALSE
  /\ UNCHANGED <<cluster, backup, jobs, marked, cRestore, cCluster, cBackup, cJobs, pass, restored>>

Environment ==
  \/ Crash \/ Informers \/ Edit \/ DeleteRestore \/ CreateRestore
  \/ \E i \in Instances : RunJob(i) \/ CollectJob(i) \/ LoseJob(i)

-----------------------------------------------------------------------------
\* A user has just created the restore, and the caches are in sync.
Init ==
  /\ restore = NewRestore(MaxRestores)
  /\ cluster \in ClusterSpecs \cup {Absent} /\ backup \in BackupSpecs \cup {Absent}
  /\ jobs = [i \in Instances |-> NoJob] /\ marked = {}
  /\ cRestore = restore /\ cFresh = TRUE
  /\ cCluster = cluster /\ cBackup = backup /\ cJobs = jobs
  /\ pc = "idle" /\ snap = Absent /\ fresh = FALSE
  /\ seen = Unread /\ k = 1 /\ job = Absent
  /\ restored = {}
  /\ budget = [restores |-> MaxRestores - 1, faults |-> MaxFaults,
               edits |-> MaxEdits, deletions |-> MaxJobDeletions]

Next == Reconcile \/ Environment

Spec == Init /\ [][Next]_vars

\* The worker keeps reconciling, the informers and the garbage collector keep up,
\* and jobs that were started end.  Nobody has to edit, delete, crash or fail.
Fairness ==
  /\ WF_vars(Reconcile)
  /\ WF_vars(Informers /\ SyncRestore) /\ WF_vars(Informers /\ SyncCluster)
  /\ WF_vars(Informers /\ SyncBackup) /\ WF_vars(Informers /\ SyncJobs)
  /\ \A i \in Instances : WF_vars(RunJob(i)) /\ WF_vars(CollectJob(i))

FairSpec == Spec /\ Fairness

-----------------------------------------------------------------------------
(* Properties *)

\* "All instances restored successfully": a step that stores the phase Completed
\* does so only when, for every instance the pass was to restore, a job of this
\* very restore has succeeded.
CompletionMeansRestored ==
  [][(/\ restore # Absent /\ restore.phase # "Completed"
      /\ restore' # Absent /\ restore'.phase = "Completed")
       => \A i \in DOMAIN Goal : <<snap.uid, Goal[i].name>> \in restored]_vars

\* A Completed restore stays Completed until it is gone, whatever stale copies
\* passes start from.
CompletedIsFinal ==
  [][(restore # Absent /\ restore.phase = "Completed" /\ restore' # Absent)
       => restore'.phase = "Completed"]_vars

\* Every job of a restore is named in its stored status, where handleDeletion
\* will look for it: also when the manager crashed right after creating it.
JobsAreRecorded ==
  \A i \in Instances :
    (jobs[i].state # "none" /\ restore # Absent /\ jobs[i].uid = restore.uid)
      => \E j \in DOMAIN restore.insts : restore.insts[j].inst = i

\* A restore that is gone has left no job behind but those it has deleted.  They go
\* for good; any other would run on until its owner is found to be gone.
GoneLeavesNoJob ==
  restore = Absent => \A i \in Instances : jobs[i].state # "none" => i \in marked

\* A deleted restore is gone eventually: the finalizer never blocks it for good.
DeletionTerminates ==
  (restore # Absent /\ restore.deleting) ~> (restore = Absent)

\* When the jobs of all selected instances have succeeded, and are not deleted
\* again, the restore ends up Completed (or deleted).
AllSucceeded ==
  /\ cluster # Absent /\ backup # Absent
  /\ LET goal == TargetInstances(cluster, Selector)
     IN  goal # NoTargets /\ \A i \in DOMAIN goal : jobs[goal[i].name].state = "succeeded"

SuccessIsReported ==
  []<>(~AllSucceeded \/ restore = Absent \/ restore.deleting \/ restore.phase = "Completed")
=============================================================================
