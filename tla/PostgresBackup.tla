--------------------------- MODULE PostgresBackup ---------------------------
(***************************************************************************)
(* The PostgresBackup controller: one worker that reconciles one           *)
(* PostgresBackup object, the API server that stores it and its job, the   *)
(* informer caches the worker reads, the job controller, the garbage       *)
(* collector and the users.                                                *)
(*                                                                         *)
(* As in PostgresRestore, a resourceVersion is modelled by what comparing  *)
(* it with the stored one gives: cFresh for the cached backup, fresh for   *)
(* the copy of the pass in flight.                                         *)
(***************************************************************************)
EXTENDS InstanceSelection, BackupTypes

CONSTANTS
  Instances,        \* the names instances may have
  PrimaryName,      \* "primary", the instance a backup without a list is of
  ClusterSpecs,     \* the specs users give the cluster
  BackupSpecs,      \* the specs users give the backup
  Absent,           \* there is no such object
  ClusterWide,      \* no instance: the job is for the cluster as a whole
  Unset,            \* an optional field is nil
  MaxFaults,        \* bound: failing API calls, crashes of the manager, and jobs
                    \* deleted by somebody else (kubectl, a TTL)
  MaxEdits          \* bound: edits of the cluster and of the backup, and backups
                    \* created again under the name

ASSUME BackupBounds == MaxFaults \in Nat /\ MaxEdits \in Nat
ASSUME PrimaryAssumption == PrimaryName \in Instances

VARIABLES
  backup, cluster, job,             \* the objects the API server stores
  marked,                           \* the job was deleted, and waits for the garbage
                                    \* collector
  cBackup, cFresh, cCluster, cJob,  \* the informer caches
  pc, snap, fresh, aim,             \* the pass in flight: program counter, its
                                    \* copy of the backup, and what it is to back up
  saved,                            \* history: <<uid, target>> of the jobs that succeeded
  budget                            \* what is left of the bounds

stored == <<backup, cluster, job, marked>>
caches == <<cBackup, cFresh, cCluster, cJob>>
pass   == <<pc, snap, fresh, aim>>
vars   == <<stored, caches, pass, saved, budget>>

Phases    == {"", "Pending", "Running", "Failed", "Completed"}
Aims      == Instances \cup {ClusterWide}
Backups   == [uid : Nat, spec : BackupSpecs, deleting : BOOLEAN, finalizer : BOOLEAN,
              phase : Phases, jobName : BOOLEAN, target : Instances \cup {Unset}]
JobStates == {"none", "new", "active", "retried", "succeeded", "failed"}
Jobs      == [state : JobStates, uid : Nat, aim : Aims]
Steps     == {"idle", "finalize", "apply", "observe", "fail", "cleanup", "release"}

ASSUME AbsentAssumption == Absent \notin Backups /\ Absent \notin ClusterSpecs

NoJob == [state |-> "none", uid |-> 0, aim |-> ClusterWide]
NewBackup(uid, spec) == [uid |-> uid, spec |-> spec, deleting |-> FALSE, finalizer |-> FALSE,
                         phase |-> "", jobName |-> FALSE, target |-> Unset]

TypeOK ==
  /\ backup \in Backups \cup {Absent}
  /\ cluster \in ClusterSpecs \cup {Absent}
  /\ job \in Jobs /\ marked \in BOOLEAN
  /\ cBackup \in Backups \cup {Absent} /\ cFresh \in BOOLEAN
  /\ cCluster \in ClusterSpecs \cup {Absent}
  /\ cJob \in Jobs
  /\ pc \in Steps /\ fresh \in BOOLEAN
  /\ snap \in Backups \cup {Absent}
  /\ aim \in Aims \cup {Unset}
  /\ saved \subseteq Nat \X Aims
  /\ budget \in [faults : Nat, edits : Nat]

-----------------------------------------------------------------------------
(* Building blocks of the handlers *)

\* getTargetInstance: the cluster as a whole when it lists no instances, else the
\* first of the wanted names that it has.
BackupTarget(c, spec) ==
  LET wanted == IF spec.names = <<>> THEN <<PrimaryName>> ELSE spec.names
      found  == SelectSeq(wanted, LAMBDA name : HasInstance(c.instances, name))
  IN  CASE c.instances = <<>> -> ClusterWide
        [] c.instances # <<>> /\ found # <<>> -> Head(found)
        [] OTHER -> NoTargets

ASSUME TargetAssumption ==
  \A c \in ClusterSpecs, spec \in BackupSpecs :
    BackupTarget(c, spec) \in Aims \cup {NoTargets}

\* CreateBackupJob returns a job, not an error.
Buildable(c, spec) == c.pvcName /\ Supported(spec.type)

\* The instance that the status names for this target.
Named(target) == IF target = ClusterWide THEN PrimaryName ELSE target

\* updateBackupStatus: the phase the cached job gives the backup.  A job with a
\* failed pod counts as failed, also when it goes on with another one.
ObservedPhase(state) ==
  CASE state = "succeeded" -> "Completed"
    [] state \in {"retried", "failed"} -> "Failed"
    [] state = "active"    -> "Running"
    [] OTHER               -> "Pending"

EndPass == pc' = "idle" /\ snap' = Absent /\ fresh' = FALSE /\ aim' = Unset

\* The API server stores a new version of the backup, and the cached copy is
\* stale; a write that changes nothing may keep the resourceVersion.
Commit(new) ==
  /\ backup' = new
  /\ \/ cFresh' = FALSE
     \/ new = backup /\ cFresh' = cFresh
  /\ UNCHANGED <<cluster, job, marked, cBackup, cCluster, cJob>>

Fault == budget.faults > 0 /\ budget' = [budget EXCEPT !.faults = @ - 1]

\* Update and Status().Update of the backup: accepted, an error, or served with
\* the reply lost.
Accepted(new) == fresh /\ Commit(new) /\ UNCHANGED budget
Refused ==
  /\ UNCHANGED <<stored, caches>>
  /\ \/ ~fresh /\ UNCHANGED budget
     \/ Fault
ReplyLost(new) == fresh /\ Commit(new) /\ Fault

-----------------------------------------------------------------------------
(* Reconcile *)

\* A pass starts whenever the worker is free: on an event of the backup or of its
\* job, after a requeue, an error's back-off, or a resync.
Begin ==
  /\ pc = "idle" /\ cBackup # Absent
  /\ snap' = cBackup /\ fresh' = cFresh
  /\ UNCHANGED <<stored, caches, saved, budget>>

BeginFinalizer ==
  /\ Begin
  /\ ~cBackup.finalizer
  /\ pc' = "finalize" /\ aim' = aim

BeginDeletion ==
  /\ Begin
  /\ cBackup.finalizer /\ cBackup.deleting
  /\ pc' = "cleanup" /\ aim' = aim

\* Mutant: the error of getTargetInstance is overlooked.
BeginBackupAnyway ==
  /\ Begin
  /\ cBackup.finalizer /\ ~cBackup.deleting
  /\ LET built == cCluster # Absent /\ Buildable(cCluster, cBackup.spec)
     IN  \/ built /\ pc' = "apply" /\ aim' = BackupTarget(cCluster, cBackup.spec)
         \/ ~built /\ pc' = "fail" /\ aim' = aim

\* The cluster is read, the target chosen and the job built; a missing cluster,
\* instance or volume ends in the phase Failed, as an error does.
BeginBackup ==
  /\ Begin
  /\ cBackup.finalizer /\ ~cBackup.deleting
  /\ LET target == BackupTarget(cCluster, cBackup.spec)
         built  == /\ cCluster # Absent
                   /\ target # NoTargets
                   /\ Buildable(cCluster, cBackup.spec)
     IN  \/ built /\ pc' = "apply" /\ aim' = target
         \/ ~built /\ pc' = "fail" /\ aim' = aim

\* Update with the finalizer added; the next pass goes on, whatever the reply.
AddFinalizer ==
  /\ pc = "finalize"
  /\ LET new == [snap EXCEPT !.finalizer = TRUE]
     IN  Accepted(new) \/ Refused \/ ReplyLost(new)
  /\ EndPass
  /\ UNCHANGED saved

\* CreateOrUpdate with no job of the name in the cache: Create one.
\* AlreadyExists is an error like any other.
CreateJob ==
  /\ pc = "apply" /\ cJob.state = "none"
  /\ LET Created == /\ job.state = "none"
                    /\ job' = [state |-> "new", uid |-> snap.uid, aim |-> aim]
     IN  \/ Created /\ pc' = "observe" /\ UNCHANGED budget
         \/ job.state # "none" /\ pc' = "fail" /\ UNCHANGED <<job, budget>>
         \/ Fault /\ (Created \/ job' = job) /\ pc' = "fail"
  /\ UNCHANGED <<backup, cluster, marked, caches, snap, fresh, aim, saved>>

\* Mutant: a job that exists is left alone.
KeepJob ==
  /\ pc = "apply" /\ cJob.state # "none"
  /\ pc' = "observe"
  /\ UNCHANGED <<stored, caches, snap, fresh, aim, saved, budget>>

\* CreateOrUpdate with a job in the cache: Update it.  The API server refuses
\* this: the new object has no selector and a pod template without the labels
\* that the stored job was given, and both are immutable.
UpdateJob ==
  /\ pc = "apply" /\ cJob.state # "none"
  /\ pc' = "fail"
  /\ UNCHANGED <<stored, caches, snap, fresh, aim, saved, budget>>

\* updateBackupStatus reads the job back, from the cache, which may not have it
\* yet; an error leads to another attempt to store the status, as Failed.
SaveStatus ==
  /\ pc = "observe"
  /\ LET new == [snap EXCEPT !.phase = ObservedPhase(cJob.state),
                             !.jobName = TRUE, !.target = Named(aim)]
     IN  \/ /\ cJob.state = "none"
            /\ pc' = "fail"
            /\ UNCHANGED <<stored, caches, snap, fresh, aim, budget>>
         \/ cJob.state # "none" /\ Accepted(new) /\ EndPass
         \/ /\ cJob.state # "none"
            /\ \/ Refused /\ fresh' = fresh
               \/ ReplyLost(new) /\ fresh' = FALSE
            /\ pc' = "fail" /\ snap' = new /\ aim' = aim
  /\ UNCHANGED saved

\* Mutant: the error is returned without being stored.
LogFailure ==
  /\ pc = "fail"
  /\ EndPass
  /\ UNCHANGED <<stored, caches, saved, budget>>

\* Store the phase Failed.
ReportFailure ==
  /\ pc = "fail"
  /\ LET new == [snap EXCEPT !.phase = "Failed"]
     IN  Accepted(new) \/ Refused \/ ReplyLost(new)
  /\ EndPass
  /\ UNCHANGED saved

\* Delete, without a propagation policy: as in PostgresRestore, the pods run on,
\* and the job stays, marked, until the garbage collector has detached them.
Delete == marked' = (job.state # "none")

\* Mutant: the deletion waits until the cache shows the recorded job.
DeleteJobFound ==
  /\ pc = "cleanup"
  /\ \/ /\ ~snap.jobName /\ pc' = "release"
        /\ UNCHANGED <<marked, snap, fresh, aim, budget>>
     \/ /\ snap.jobName /\ cJob.state # "none" /\ Delete /\ pc' = "release"
        /\ UNCHANGED <<snap, fresh, aim, budget>>
     \/ snap.jobName /\ cJob.state = "none" /\ marked' = marked /\ EndPass /\ UNCHANGED budget
  /\ UNCHANGED <<backup, cluster, job, caches, saved>>

\* handleDeletion: delete the recorded job if the cache has it; an error other
\* than NotFound ends the pass.
DeleteJob ==
  /\ pc = "cleanup"
  /\ LET Listed == snap.jobName /\ cJob.state # "none"
     IN  \/ /\ (Listed /\ Delete) \/ (~Listed /\ marked' = marked)
            /\ pc' = "release" /\ UNCHANGED <<snap, fresh, aim, budget>>
         \/ Listed /\ Fault /\ (Delete \/ marked' = marked) /\ EndPass
  /\ UNCHANGED <<backup, cluster, job, caches, saved>>

\* With its only finalizer gone, the object is removed.
RemoveFinalizer ==
  /\ pc = "release"
  /\ Accepted(Absent) \/ Refused \/ ReplyLost(Absent)
  /\ EndPass
  /\ UNCHANGED saved

Reconcile ==
  \/ BeginFinalizer \/ BeginDeletion \/ BeginBackup \/ AddFinalizer \/ CreateJob
  \/ UpdateJob \/ SaveStatus \/ ReportFailure \/ DeleteJob \/ RemoveFinalizer

-----------------------------------------------------------------------------
(* The environment *)

\* The manager stops between two steps and starts again.
Crash == pc # "idle" /\ Fault /\ EndPass /\ UNCHANGED <<stored, caches, saved>>

\* An informer catches up with its kind of object; kinds lag independently.
SyncBackup  == ~cFresh /\ cBackup' = backup /\ cFresh' = TRUE /\ UNCHANGED <<cCluster, cJob>>
SyncCluster == cCluster # cluster /\ cCluster' = cluster /\ UNCHANGED <<cBackup, cFresh, cJob>>
SyncJob     == cJob # job /\ cJob' = job /\ UNCHANGED <<cBackup, cFresh, cCluster>>
Informers ==
  /\ SyncBackup \/ SyncCluster \/ SyncJob
  /\ UNCHANGED <<stored, pass, saved, budget>>

\* A job starts; a pod of it may fail and be replaced; it ends one way or the
\* other; also when it is marked.
RunJob ==
  /\ \E to \in JobStates :
       /\ <<job.state, to>> \in {<<"new", "active">>, <<"active", "retried">>}
            \cup {"active", "retried"} \X {"succeeded", "failed"}
       /\ job' = [job EXCEPT !.state = to]
       /\ saved' = IF to = "succeeded" THEN saved \cup {<<job.uid, job.aim>>} ELSE saved
  /\ UNCHANGED <<backup, cluster, marked, caches, pass, budget>>

OwnJob == job.state # "none" /\ backup # Absent /\ backup.uid = job.uid

\* The garbage collector removes a job that is marked, or whose owner is gone ...
CollectJob ==
  /\ marked \/ (job.state # "none" /\ ~OwnJob)
  /\ job' = NoJob /\ marked' = FALSE
  /\ UNCHANGED <<backup, cluster, caches, pass, saved, budget>>

\* ... and somebody else may remove any other.
LoseJob ==
  /\ OwnJob /\ ~marked /\ Fault
  /\ job' = NoJob
  /\ UNCHANGED <<backup, cluster, marked, caches, pass, saved>>

\* A user edits, creates or deletes the cluster, or edits the spec of the backup.
Spend == budget.edits > 0 /\ budget' = [budget EXCEPT !.edits = @ - 1]

EditCluster ==
  /\ Spend
  /\ cluster' \in (ClusterSpecs \cup {Absent}) \ {cluster}
  /\ UNCHANGED <<backup, job, marked, caches, pass, saved>>

UserWrite(new) ==
  /\ backup' = new /\ cFresh' = FALSE /\ fresh' = FALSE
  /\ UNCHANGED <<cluster, job, marked, cBackup, cCluster, cJob, pc, snap, aim, saved>>

EditBackup ==
  /\ Spend
  /\ backup # Absent
  /\ \E spec \in BackupSpecs \ {backup.spec} : UserWrite([backup EXCEPT !.spec = spec])

\* A user deletes the backup: it stays, marked, as long as it has the finalizer.
DeleteBackup ==
  /\ backup # Absent /\ ~backup.deleting
  /\ UserWrite(IF backup.finalizer THEN [backup EXCEPT !.deleting = TRUE] ELSE Absent)
  /\ UNCHANGED budget

\* A user creates a backup of the same name again; its uid is new (they count
\* down, from MaxEdits + 1).
CreateBackup ==
  /\ Spend
  /\ backup = Absent
  /\ \E spec \in BackupSpecs : UserWrite(NewBackup(budget.edits, spec))

Environment ==
  \/ Crash \/ Informers \/ RunJob \/ CollectJob \/ LoseJob
  \/ EditCluster \/ EditBackup \/ DeleteBackup \/ CreateBackup

-----------------------------------------------------------------------------
\* A user has just created the backup, and the caches are in sync.
Init ==
  /\ \E spec \in BackupSpecs : backup = NewBackup(MaxEdits + 1, spec)
  /\ cluster \in ClusterSpecs \cup {Absent}
  /\ job = NoJob /\ marked = FALSE
  /\ cBackup = backup /\ cFresh = TRUE /\ cCluster = cluster /\ cJob = job
  /\ pc = "idle" /\ snap = Absent /\ fresh = FALSE /\ aim = Unset
  /\ saved = {}
  /\ budget = [faults |-> MaxFaults, edits |-> MaxEdits]

Next == Reconcile \/ Environment

Spec == Init /\ [][Next]_vars

\* The worker keeps reconciling, the informers and the garbage collector keep up,
\* and jobs that were started end.  Nobody has to edit, delete, crash or fail.
Fairness ==
  /\ WF_vars(Reconcile)
  /\ WF_vars(Informers /\ SyncBackup) /\ WF_vars(Informers /\ SyncCluster)
  /\ WF_vars(Informers /\ SyncJob)
  /\ WF_vars(RunJob) /\ WF_vars(CollectJob)

FairSpec == Spec /\ Fairness

-----------------------------------------------------------------------------
(* Properties *)

\* A job of this uid succeeded, for the instance of this name.
BackedUp(uid, name) == \E target \in Aims : <<uid, target>> \in saved /\ name = Named(target)

\* "Backup completed successfully": the phase becomes Completed only after a job
\* of this very backup succeeded, and the status names the instance that job
\* was for, however the specs were edited and the name was used before.
CompletionMeansBackedUp ==
  [][(/\ backup # Absent /\ backup.phase # "Completed"
      /\ backup' # Absent /\ backup'.phase = "Completed")
       => BackedUp(backup.uid, backup'.target)]_vars

\* A deletion always comes to its end: the backup goes, and every job, recorded or
\* not, goes with the backup it was for.
DeletionTerminates ==
  []<>(~(backup # Absent /\ backup.deleting) /\ (job.state = "none" \/ OwnJob))

\* A backup that cannot be taken, for want of a cluster, of the instance or of a
\* volume, and one whose job failed, is reported Failed in the end.
Open == backup # Absent /\ ~backup.deleting

Hopeless ==
  \/ cluster = Absent
  \/ BackupTarget(cluster, backup.spec) = NoTargets
  \/ ~Buildable(cluster, backup.spec)
  \/ OwnJob /\ job.state = "failed"

TroubleIsReported == []<>(~Open \/ ~Hopeless \/ backup.phase = "Failed")

\* "Backup completed successfully": a backup whose job succeeded is reported
\* Completed in the end.
SuccessIsReported ==
  []<>(~Open \/ ~(OwnJob /\ job.state = "succeeded") \/ backup.phase = "Completed")
=============================================================================
