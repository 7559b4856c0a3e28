----------------------- MODULE RestoreRefinementProofs -----------------------
(***************************************************************************)
(* Proof that PostgresRestore implements RestoreContract, step by step.    *)
(***************************************************************************)
EXTENDS RestoreCompletionProofs

\* The conditions of the contract: the cluster keeps its instances, the name of
\* the restore is used once, and nobody else deletes jobs.
Undisturbed == SameNames /\ MaxRestores = 1 /\ MaxJobDeletions = 0

\* The invariant of the mapping: a job that succeeded is there until the restore
\* closes; a restore is Completed when all jobs have succeeded; a cleanup goes
\* with a cache that shows the deletion; and no job is deleted before that.
Mapped ==
  /\ Stage \notin {"closing", "gone"} =>
       \A i \in Targets : <<MaxRestores, i>> \in restored => jobs[i].state = "succeeded"
  /\ restore # Absent /\ restore.phase = "Completed" =>
       restore.finalizer /\ \A i \in Targets : <<MaxRestores, i>> \in restored
  /\ pc = "cleanup" /\ restore # Absent => cRestore.deleting
  /\ restore # Absent => cRestore # Absent
  /\ Stage \notin {"closing", "gone"} => marked = {}
  /\ budget.deletions = 0

Facts == IInv /\ Lineage /\ Recorded /\ Succeeded /\ Mapped

\* The cache shows no deletion that is not stored, and a pass that restores and
\* whose copy is the stored version knows of none.
LEMMA DeletionShown ==
  ASSUME Facts, restore # Absent
  PROVE  /\ cRestore.deleting => restore.deleting
         /\ fresh /\ pc \in {"finalize", "init", "loop", "observe", "fail"} => ~restore.deleting
<1>1. cRestore # Absent /\ cRestore.uid = restore.uid
  BY DEF Facts, Mapped, Succeeded, OneRestore
<1>2. cRestore.deleting => restore.deleting
  BY <1>1 DEF Facts, Lineage, StoredLine, Earlier
<1>3. fresh /\ pc \in {"finalize", "init", "loop", "observe", "fail"} => ~restore.deleting
  BY DEF Facts, Lineage, PassLine, SameLine
<1> QED BY <1>2, <1>3

\* The contract's view of a step that leaves the states of the jobs alone.
JobView == [i \in Targets |-> Counted(i)]

LEMMA SameJobs ==
  ASSUME \A i \in Instances : Counted(i)' = Counted(i)
  PROVE  JobView' = JobView
<1>1. Targets \subseteq Instances /\ Targets' = Targets
  BY DEF Targets
<1> QED BY <1>1 DEF JobView

\* A step after which the worker is idle, or the cache shows the deletion, at most
\* closes the restore.
LEMMA StutterOrClose ==
  ASSUME Facts, UNCHANGED restore, \A i \in Instances : Counted(i)' = Counted(i),
         Stage = "closing" => Stage' = "closing"
  PROVE  [Contract!Next]_(Contract!vars)
<1>1. JobView' = JobView
  BY SameJobs
<1>2. Stage' = Stage \/ (Stage \in {"open", "completed"} /\ Stage' = "closing")
  BY DEF Stage
<1>3. CASE Stage' = Stage
  BY <1>1, <1>3 DEF Contract!vars, JobView
<1>4. CASE Stage \in {"open", "completed"} /\ Stage' = "closing"
  BY <1>1, <1>4 DEF Contract!Next, Contract!Close, JobView
<1> QED BY <1>2, <1>3, <1>4

LEMMA BeginMaps ==
  ASSUME Facts, BeginDeletion \/ BeginFinalizer \/ BeginRestore
  PROVE  [Contract!Next]_(Contract!vars)
<1>1. UNCHANGED <<restore, jobs, marked, cRestore>> /\ pc = "idle"
  BY DEF BeginDeletion, BeginFinalizer, BeginRestore, Begin, stored, caches
<1>2. pc' = "cleanup" \/ ~cRestore.deleting
  BY DEF BeginDeletion, BeginFinalizer, BeginRestore, WorkLeft
<1>3. Stage' = Stage
  BY <1>1, <1>2 DEF Stage
<1> QED BY <1>1, <1>3, StutterOrClose DEF Counted

\* When the phase Completed is stored, every target has been restored.
LEMMA CompletesTargets ==
  ASSUME SameNames, Facts, [Next]_vars,
         restore # Absent, restore.phase # "Completed",
         restore' # Absent, restore'.phase = "Completed",
         NEW i \in Targets
  PROVE  <<MaxRestores, i>> \in restored
<1>1. SaveStatus /\ snap \in Restores /\ OverallPhase(snap.insts) = "Completed"
  BY CompletedBySave DEF Facts
<1>2. /\ StatusesTrue(snap, restored) /\ snap.uid = MaxRestores /\ Goal \in Seq(InstanceSpecs)
      /\ NamedAfter(snap.insts, Goal) /\ seen.cluster \in ClusterSpecs /\ Goal # NoTargets
  BY <1>1 DEF SaveStatus, Facts, Succeeded, OneRestore, Recorded, Names, IInv, PassTyped
<1>3. PICK d \in ClusterSpecs :
        Selected(d) # NoTargets /\ \E j \in DOMAIN Selected(d) : Selected(d)[j].name = i
  BY DEF Targets, Selected
<1>4. PICK j \in DOMAIN Selected(d) : Selected(d)[j].name = i
  BY <1>3
<1>5. j \in 1 .. Len(Selected(d))
  BY <1>3, <1>4, SelectedType
<1>6. Goal = Selected(seen.cluster)
  BY DEF Goal, Selected
<1>7. j \in 1 .. Len(Goal) /\ Goal[j].name = i
  BY <1>2, <1>3, <1>4, <1>5, <1>6 DEF SameNames
<1>8. j \in 1 .. Len(snap.insts) /\ snap.insts[j].inst = i /\ snap.insts \in Seq(InstanceStatus)
  BY <1>1, <1>2, <1>7 DEF NamedAfter, Restores
<1>9. snap.insts[j].phase = "Completed"
  BY <1>1, <1>8, OverallCompleted
<1> QED BY <1>2, <1>8, <1>9 DEF StatusesTrue

LEMMA WritesMap ==
  ASSUME SameNames, Facts, AddFinalizer \/ InitStatuses \/ SaveStatus \/ ReportFailure
  PROVE  [Contract!Next]_(Contract!vars)
<1>1. PICK new \in Restores : snap \in Restores /\ pc # "idle" /\ Writes(new)
  BY WriteSteps DEF Facts
<1>2. /\ restore' = restore \/ (fresh /\ restore' = new /\ restore # Absent)
      /\ cRestore' = cRestore /\ UNCHANGED <<jobs, marked>>
  BY <1>1, WritesLine DEF Facts
<1>3. pc \in {"finalize", "init", "loop", "fail"}
  BY DEF AddFinalizer, InitStatuses, SaveStatus, ReportFailure
<1>4. CASE restore' = restore
  <2>1. Stage # "closing"
    BY <1>3 DEF Stage
  <2> QED BY <1>2, <1>4, <2>1, StutterOrClose DEF Counted
<1>5. CASE fresh /\ restore' = new /\ restore # Absent
  <2>1. ~cRestore.deleting
    BY <1>3, <1>5, DeletionShown
  <2>2. restore' # Absent
    BY <1>5, AbsentAssumption
  <2>3. /\ Stage = IF restore.phase = "Completed" THEN "completed" ELSE "open"
        /\ Stage' = IF restore'.phase = "Completed" THEN "completed" ELSE "open"
    BY <1>2, <1>5, <2>1, <2>2 DEF Stage
  <2>4. [Next]_vars
    BY DEF Next, Reconcile
  <2>5. JobView' = JobView
    BY <1>2, SameJobs DEF Counted
  <2>6. restore.phase = "Completed" => restore'.phase = "Completed"
    BY <1>5, <2>2, <2>4, StepFinal DEF Facts, StaysCompleted
  <2>7. CASE restore.phase # "Completed" /\ restore'.phase = "Completed"
    <3>1. \A i \in Targets : <<MaxRestores, i>> \in restored
      BY <1>5, <2>2, <2>4, <2>7, CompletesTargets
    <3>2. \A i \in Targets : jobs[i].state = "succeeded"
      BY <2>3, <2>7, <3>1 DEF Facts, Mapped
    <3>3. \A i \in Targets : JobView[i] = "succeeded"
      BY <2>3, <2>7, <3>2 DEF Facts, Mapped, Counted, JobView
    <3>4. Contract!Complete
      BY <2>3, <2>5, <2>7, <3>3 DEF Contract!Complete, JobView
    <3> QED BY <3>4 DEF Contract!Next
  <2>8. CASE ~(restore.phase # "Completed" /\ restore'.phase = "Completed")
    BY <2>3, <2>5, <2>6, <2>8 DEF Contract!vars, JobView
  <2> QED BY <2>7, <2>8
<1> QED BY <1>2, <1>4, <1>5

\* A pass starts a job only of an open restore: a stale one finds the jobs of a
\* Completed restore in its way.
LEMMA LaunchMaps ==
  ASSUME Facts, InLoop, NEW i \in Targets, i = Goal[k].name, jobs[i].state = "none",
         StartJob(i), UNCHANGED <<restore, cRestore, marked>>, pc' \in {"observe", "fail"}
  PROVE  [Contract!Next]_(Contract!vars)
<1>1. pc = "loop" /\ restore # Absent
  BY LoopStored DEF InLoop, Facts
<1>2. Stage' = Stage /\ Stage \in {"open", "completed"}
  BY <1>1 DEF Stage
<1>3. Stage = "open"
  <2>1. <<MaxRestores, i>> \notin restored
    BY <1>2 DEF Facts, Mapped
  <2>2. restore.phase # "Completed"
    BY <1>1, <2>1 DEF Facts, Mapped
  <2> QED BY <1>1, <1>2, <2>2 DEF Stage
<1>4. Targets \subseteq Instances /\ Targets' = Targets
  BY DEF Targets
<1>5. \A x \in Instances : jobs'[x].state = IF x = i THEN "new" ELSE jobs[x].state
  BY <1>4 DEF StartJob, Facts, IInv, TypeOK, Jobs
<1>6. JobView' = [JobView EXCEPT ![i] = "new"] /\ JobView[i] = "none"
  <2>1. marked = {} /\ marked' = {}
    BY <1>3 DEF Facts, Mapped
  <2>2. \A x \in Instances :
          Counted(x) = jobs[x].state /\ Counted(x)' = IF x = i THEN "new" ELSE jobs[x].state
    BY <1>5, <2>1 DEF Counted
  <2> QED BY <1>4, <2>2 DEF JobView
<1>7. Contract!Launch(i)
  BY <1>2, <1>3, <1>6 DEF Contract!Launch, JobView
<1> QED BY <1>7 DEF Contract!Next

LEMMA LoopMaps ==
  ASSUME Facts, SkipCompleted \/ FindJob \/ CreateJob \/ ObserveJob
  PROVE  [Contract!Next]_(Contract!vars)
<1>1. /\ UNCHANGED <<restore, cRestore>> /\ pc \in {"loop", "observe"}
      /\ pc' \in {"loop", "observe", "fail"}
  BY LoopSteps DEF Facts
<1>2. Stage' = Stage /\ marked' = marked
  BY <1>1 DEF Stage, SkipCompleted, FindJob, CreateJob, ObserveJob, stored
<1>3. CASE jobs' = jobs
  BY <1>1, <1>2, <1>3, StutterOrClose DEF Counted
<1>4. CASE CreateJob /\ jobs' # jobs
  <2> DEFINE i == Goal[k].name
  <2>1. InLoop /\ i \in Targets
    BY <1>4, GoalTargets DEF CreateJob, Facts, Recorded
  <2>2. jobs[i].state = "none" /\ StartJob(i) /\ pc' \in {"observe", "fail"}
    BY <1>4 DEF CreateJob
  <2> QED BY <1>1, <1>2, <2>1, <2>2, LaunchMaps
<1> QED BY <1>3, <1>4 DEF SkipCompleted, FindJob, ObserveJob, stored

\* Without its restore, or its finalizer, there is no job but a deleted one.
LEMMA DeleteJobMaps ==
  ASSUME Facts, DeleteJob
  PROVE  [Contract!Next]_(Contract!vars)
<1> DEFINE i == snap.insts[k].inst
<1>1. /\ UNCHANGED <<restore, jobs, cRestore>> /\ pc = "cleanup" /\ k <= Len(snap.insts)
      /\ pc' \in {"idle", "cleanup"}
      /\ marked' = marked \/ (jobs[i].state # "none" /\ marked' = marked \cup {i})
  BY DEF DeleteJob, Delete, caches, EndPass
<1>2. Stage' = Stage
  BY <1>1 DEF Stage
<1>3. i \in Instances
  <2>1. k \in 1 .. Len(snap.insts) /\ snap.insts \in Seq(InstanceStatus)
    BY <1>1 DEF Facts, IInv, TypeOK, PassTyped, Restores
  <2>2. snap.insts[k] \in InstanceStatus
    BY <2>1
  <2> QED BY <2>2 DEF InstanceStatus
<1>4. PICK x \in Instances : x = i
  BY <1>3
<1> HIDE DEF i
<1>5. CASE marked' = marked
  BY <1>1, <1>2, <1>5, StutterOrClose DEF Counted
<1>6. CASE x \notin marked /\ jobs[x].state # "none" /\ marked' = marked \cup {x}
  <2>1. x \in Targets /\ restore # Absent
    BY <1>6 DEF Facts, Recorded, JobsOwned, Owned, Outlived
  <2>2. Stage = "closing"
    BY <1>1, <2>1 DEF Facts, Mapped, Stage
  <2>3. Targets \subseteq Instances /\ Targets' = Targets
    BY DEF Targets
  <2>4. \A y \in Instances : Counted(y)' = IF y = x THEN "none" ELSE Counted(y)
    BY <1>1, <1>6 DEF Counted
  <2>5. JobView' = [JobView EXCEPT ![x] = "none"] /\ JobView[x] # "none"
    BY <1>6, <2>1, <2>3, <2>4 DEF JobView, Counted
  <2>6. Contract!Withdraw(x)
    BY <1>2, <2>2, <2>5 DEF Contract!Withdraw, JobView
  <2> QED BY <2>1, <2>6 DEF Contract!Next
<1> QED BY <1>1, <1>4, <1>5, <1>6

LEMMA RemoveFinalizerMaps ==
  ASSUME SameNames, Facts, RemoveFinalizer
  PROVE  [Contract!Next]_(Contract!vars)
<1>1. /\ pc = "cleanup" /\ pc' = "idle" /\ UNCHANGED <<cRestore, jobs, marked>>
      /\ restore' = restore \/ (fresh /\ restore' = Absent)
  BY DEF RemoveFinalizer, EndPass, Accepted, Refused, ReplyLost, Commit, stored, caches
<1>2. CASE restore' = restore
  <2>1. Stage' = Stage
    BY <1>1, <1>2 DEF Stage
  <2> QED BY <1>1, <1>2, <2>1, StutterOrClose DEF Counted
<1>3. CASE fresh /\ restore' = Absent
  <2>1. restore # Absent
    BY <1>3 DEF Facts, IInv, Versions
  <2>2. Stage = "closing" /\ Stage' = "gone"
    BY <1>1, <1>3, <2>1 DEF Facts, Mapped, Stage
  <2>3. \A i \in Targets : Counted(i) = "none"
    BY <1>3, NothingLeft DEF Facts, Targets, Withdrawn, Counted
  <2>4. JobView' = JobView
    BY <1>1, SameJobs DEF Counted
  <2>6. \A i \in Targets : JobView[i] = "none"
    BY <2>3 DEF JobView
  <2>5. Contract!Vanish
    BY <2>2, <2>4, <2>6 DEF Contract!Vanish, JobView
  <2> QED BY <2>5 DEF Contract!Next
<1> QED BY <1>1, <1>2, <1>3

LEMMA CrashMaps ==
  ASSUME Facts, Crash
  PROVE  [Contract!Next]_(Contract!vars)
<1>1. UNCHANGED <<restore, jobs, marked, cRestore>> /\ pc' = "idle"
  BY DEF Crash, EndPass, stored, caches
<1>2. Stage = "closing" => Stage' = "closing"
  BY <1>1 DEF Stage
<1> QED BY <1>1, <1>2, StutterOrClose DEF Counted

LEMMA InformersMap ==
  ASSUME Facts, Informers \/ Edit \/ UNCHANGED vars
  PROVE  [Contract!Next]_(Contract!vars)
<1>1. UNCHANGED <<restore, jobs, marked, pc>> /\ (cRestore' = cRestore \/ cRestore' = restore)
  BY DEF Informers, SyncRestore, SyncCluster, SyncBackup, SyncJobs, Edit, vars, stored, caches, pass
<1>2. Stage = "closing" => Stage' = "closing"
  <2>1. CASE restore = Absent
    BY <1>1, <2>1 DEF Stage
  <2>2. CASE restore # Absent
    BY <1>1, <2>2, DeletionShown DEF Stage
  <2> QED BY <2>1, <2>2
<1> QED BY <1>1, <1>2, StutterOrClose DEF Counted

LEMMA RunJobMaps ==
  ASSUME Facts, NEW i \in Instances, RunJob(i)
  PROVE  [Contract!Next]_(Contract!vars)
<1>1. PICK to \in JobStates :
        /\ <<jobs[i].state, to>> \in {<<"new", "active">>, <<"active", "succeeded">>, <<"active", "failed">>}
        /\ jobs' = [jobs EXCEPT ![i].state = to]
  BY DEF RunJob
<1>2. UNCHANGED <<restore, cRestore, pc, marked>>
  BY DEF RunJob, caches, pass
<1>3. Stage' = Stage
  BY <1>2 DEF Stage
<1>4. \A x \in Instances : jobs'[x].state = IF x = i THEN to ELSE jobs[x].state
  <2>1. jobs \in Jobs /\ jobs[i] \in [state : JobStates, uid : Nat]
    BY DEF Facts, IInv, TypeOK, Jobs
  <2> QED BY <1>1, <2>1 DEF Jobs
<1>5. CASE i \in marked
  <2>1. \A x \in Instances : Counted(x)' = Counted(x)
    BY <1>2, <1>4, <1>5 DEF Counted
  <2> QED BY <1>2, <1>3, <2>1, StutterOrClose
<1>6. CASE i \notin marked
  <2>1. i \in Targets /\ Targets \subseteq Instances /\ Targets' = Targets
    BY <1>1, <1>6 DEF Facts, Recorded, JobsOwned, Owned, Outlived, Targets
  <2>2. \A x \in Instances : Counted(x)' = IF x = i THEN to ELSE Counted(x)
    BY <1>2, <1>4, <1>6 DEF Counted
  <2>3. JobView' = [JobView EXCEPT ![i] = to] /\ JobView[i] = jobs[i].state
    BY <1>6, <2>1, <2>2 DEF JobView, Counted
  <2>4. \/ JobView[i] = "new" /\ JobView' = [JobView EXCEPT ![i] = "active"]
        \/ /\ JobView[i] = "active"
           /\ \E end \in {"succeeded", "failed"} : JobView' = [JobView EXCEPT ![i] = end]
    BY <1>1, <2>3
  <2>6. Contract!Run(i)
    BY <1>3, <2>4 DEF Contract!Run, JobView
  <2> QED BY <2>1, <2>6 DEF Contract!Next
<1> QED BY <1>5, <1>6

LEMMA CollectJobMaps ==
  ASSUME Facts, NEW i \in Instances, CollectJob(i)
  PROVE  [Contract!Next]_(Contract!vars)
<1>1. /\ UNCHANGED <<restore, cRestore, pc>> /\ i \in marked /\ marked' = marked \ {i}
      /\ jobs' = [jobs EXCEPT ![i] = NoJob]
  BY DEF CollectJob, caches, pass
<1>2. Stage' = Stage
  BY <1>1 DEF Stage
<1>3. \A x \in Instances : jobs'[x].state = IF x = i THEN "none" ELSE jobs[x].state
  BY <1>1 DEF Facts, IInv, TypeOK, Jobs, NoJob
<1>4. \A x \in Instances : Counted(x)' = Counted(x)
  BY <1>1, <1>3 DEF Counted
<1> QED BY <1>1, <1>2, <1>4, StutterOrClose

\* All jobs belong to the restore, or were deleted, and nobody else deletes those.
LEMMA NoLoss ==
  ASSUME Facts, NEW i \in Instances, LoseJob(i) PROVE FALSE
BY DEF LoseJob, Facts, Recorded, JobsOwned, Owned, Outlived, Mapped

LEMMA DeleteRestoreMaps ==
  ASSUME Facts, DeleteRestore
  PROVE  [Contract!Next]_(Contract!vars)
<1>1. /\ UNCHANGED <<cRestore, jobs, marked, pc>> /\ restore \in Restores /\ restore # Absent
      /\ ~restore.deleting
      /\ restore' = IF restore.finalizer THEN [restore EXCEPT !.deleting = TRUE] ELSE Absent
  BY DEF DeleteRestore, Facts, IInv, TypeOK
<1>2. JobView' = JobView
  BY <1>1, SameJobs DEF Counted
<1>3. CASE restore.finalizer
  <2>1. restore' # Absent /\ restore'.phase = restore.phase
    BY <1>1, <1>3, AbsentAssumption DEF Restores
  <2>2. Stage' = Stage
    BY <1>1, <2>1 DEF Stage
  <2> QED BY <1>2, <2>2 DEF Contract!vars, JobView
<1>4. CASE ~restore.finalizer
  <2>1. Stage = "open" /\ Stage' = "gone"
    BY <1>1, <1>4, DeletionShown DEF Facts, Mapped, Stage
  <2>2. \A i \in Targets : Counted(i) = "none"
    BY <1>4 DEF Facts, Recorded, JobsOwned, Owned, Outlived, Targets, Counted
  <2>3. \A i \in Targets : JobView[i] = "none"
    BY <2>2 DEF JobView
  <2>4. Contract!Abandon
    BY <1>2, <2>1, <2>3 DEF Contract!Abandon, JobView
  <2> QED BY <2>4 DEF Contract!Next
<1> QED BY <1>3, <1>4

LEMMA StepMaps ==
  ASSUME SameNames, Facts, [Next]_vars
  PROVE  [Contract!Next]_(Contract!vars)
<1>1. CASE BeginDeletion \/ BeginFinalizer \/ BeginRestore  BY <1>1, BeginMaps
<1>2. CASE AddFinalizer \/ InitStatuses \/ SaveStatus \/ ReportFailure  BY <1>2, WritesMap
<1>3. CASE SkipCompleted \/ FindJob \/ CreateJob \/ ObserveJob  BY <1>3, LoopMaps
<1>4. CASE DeleteJob        BY <1>4, DeleteJobMaps
<1>5. CASE RemoveFinalizer  BY <1>5, RemoveFinalizerMaps
<1>6. CASE Crash            BY <1>6, CrashMaps
<1>7. CASE Informers \/ Edit \/ UNCHANGED vars  BY <1>7, InformersMap
<1>8. CASE \E i \in Instances : RunJob(i)   BY <1>8, RunJobMaps
<1>9. CASE \E i \in Instances : LoseJob(i)  BY <1>9, NoLoss
<1>10. CASE DeleteRestore   BY <1>10, DeleteRestoreMaps
<1>11. CASE CreateRestore
  BY <1>11 DEF CreateRestore, Facts, Succeeded, OneRestore
<1>12. CASE \E i \in Instances : CollectJob(i)  BY <1>12, CollectJobMaps
<1> QED BY <1>1, <1>2, <1>3, <1>4, <1>5, <1>6, <1>7, <1>8, <1>9, <1>10, <1>11, <1>12
        DEF Next, Reconcile, Environment

-----------------------------------------------------------------------------
(* The invariant of the mapping *)

LEMMA InitMapped ==
  ASSUME Undisturbed, Init PROVE Mapped
<1>1. /\ restore = NewRestore(MaxRestores) /\ cRestore = restore /\ pc = "idle" /\ restored = {}
      /\ budget.deletions = MaxJobDeletions /\ marked = {}
  BY DEF Init
<1>2. NewRestore(MaxRestores) \in Restores
  BY BoundsAssumption DEF NewRestore, Restores, Phases
<1>3. restore.phase = ""
  BY <1>1 DEF NewRestore
<1> QED BY <1>1, <1>2, <1>3, AbsentAssumption DEF Undisturbed, Mapped

\* The contract never goes back.
LEMMA NoReturn ==
  ASSUME [Contract!Next]_(Contract!vars), Stage' \notin {"closing", "gone"}
  PROVE  Stage \notin {"closing", "gone"}
BY DEF Contract!Next, Contract!vars, Contract!Complete, Contract!Close, Contract!Vanish,
       Contract!Abandon, Contract!Launch, Contract!Run, Contract!Withdraw

\* Only jobs that run succeed, and only a cleanup touches one that has.
LEMMA SucceededStay ==
  ASSUME Facts, [Next]_vars, Stage' \notin {"closing", "gone"}, NEW i \in Instances
  PROVE  /\ jobs[i].state = "succeeded" => jobs'[i].state = "succeeded"
         /\ <<MaxRestores, i>> \in restored' \ restored => jobs'[i].state = "succeeded"
<1>1. CASE jobs' = jobs /\ restored' = restored
  BY <1>1
<1>2. CASE CreateJob
  <2>1. /\ restored' = restored /\ Goal[k].name \in Instances
        /\ jobs' = jobs \/ (StartJob(Goal[k].name) /\ jobs[Goal[k].name].state = "none")
    BY <1>2, InLoopType DEF CreateJob, Facts
  <2>2. jobs'[i] = jobs[i] \/ jobs[i].state = "none"
    BY <2>1 DEF StartJob, Facts, IInv, TypeOK, Jobs
  <2> QED BY <2>1, <2>2
<1>3. CASE DeleteJob
  <2>1. restored' = restored /\ pc = "cleanup" /\ pc' \in {"idle", "cleanup"}
        /\ UNCHANGED <<restore, cRestore>>
    BY <1>3 DEF DeleteJob, EndPass, caches
  <2> QED BY <2>1 DEF Facts, Mapped, Stage
<1>4. ASSUME NEW j \in Instances, RunJob(j)
      PROVE  /\ jobs[i].state = "succeeded" => jobs'[i].state = "succeeded"
             /\ <<MaxRestores, i>> \in restored' \ restored => jobs'[i].state = "succeeded"
  <2>1. PICK to \in JobStates :
          /\ <<jobs[j].state, to>> \in {<<"new", "active">>, <<"active", "succeeded">>, <<"active", "failed">>}
          /\ jobs' = [jobs EXCEPT ![j].state = to]
          /\ restored' = IF to = "succeeded" THEN restored \cup {<<jobs[j].uid, j>>} ELSE restored
    BY <1>4 DEF RunJob
  <2>2. jobs \in Jobs /\ jobs[j] \in [state : JobStates, uid : Nat]
    BY DEF Facts, IInv, TypeOK, Jobs
  <2>3. jobs'[i].state = IF i = j THEN to ELSE jobs[i].state
    BY <2>1, <2>2 DEF Jobs
  <2> QED BY <2>1, <2>3
<1>5. CASE \E j \in Instances : LoseJob(j)
  BY <1>5, NoLoss
<1>7. CASE \E j \in Instances : CollectJob(j)
  <2>1. PICK j \in Instances : CollectJob(j)
    BY <1>7
  <2>2. Stage' = Stage /\ j \in marked
    BY <2>1 DEF CollectJob, Stage, caches, pass
  <2> QED BY <2>2 DEF Facts, Mapped
<1>6. CASE \/ BeginDeletion \/ BeginFinalizer \/ BeginRestore \/ AddFinalizer \/ InitStatuses
           \/ SkipCompleted \/ FindJob \/ ObserveJob \/ SaveStatus \/ ReportFailure
           \/ RemoveFinalizer \/ Crash \/ Informers \/ Edit \/ DeleteRestore \/ CreateRestore
           \/ UNCHANGED vars
  BY <1>1, <1>6 DEF BeginDeletion, BeginFinalizer, BeginRestore, Begin, AddFinalizer, InitStatuses,
       SkipCompleted, FindJob, ObserveJob, SaveStatus, ReportFailure, RemoveFinalizer, Crash,
       Informers, Edit, DeleteRestore, CreateRestore, Accepted, Refused, ReplyLost, Commit,
       vars, stored
<1> QED BY <1>2, <1>3, <1>4, <1>5, <1>6, <1>7 DEF Next, Reconcile, Environment

\* What steps do to the finalizer, the cached restore, the cleanup and the budget.
LEMMA FinalizerStays ==
  ASSUME IInv, Lineage, [Next]_vars, restore # Absent, restore.finalizer,
         restore' # Absent, budget.restores = 0
  PROVE  restore'.finalizer
<1>1. CASE AddFinalizer \/ InitStatuses \/ SaveStatus \/ ReportFailure
  <2>1. Successor(restore, restore')
    BY <1>1, WriteSteps, WritesLine
  <2> QED BY <2>1 DEF Successor
<1>2. CASE RemoveFinalizer
  BY <1>2 DEF RemoveFinalizer, Accepted, Refused, ReplyLost, Commit, stored
<1>3. CASE DeleteRestore
  BY <1>3 DEF DeleteRestore, IInv, TypeOK, Restores
<1>4. CASE CreateRestore
  BY <1>4 DEF CreateRestore
<1>5. CASE \/ BeginDeletion \/ BeginFinalizer \/ BeginRestore \/ SkipCompleted \/ FindJob
           \/ CreateJob \/ ObserveJob \/ DeleteJob \/ Crash \/ Informers \/ Edit
           \/ (\E i \in Instances : RunJob(i) \/ CollectJob(i) \/ LoseJob(i)) \/ UNCHANGED vars
  BY <1>5 DEF BeginDeletion, BeginFinalizer, BeginRestore, Begin, SkipCompleted, FindJob,
     CreateJob, ObserveJob, DeleteJob, Crash, Informers, Edit, RunJob, CollectJob, LoseJob, vars, stored
<1> QED BY <1>1, <1>2, <1>3, <1>4, <1>5 DEF Next, Reconcile, Environment

LEMMA CacheSteps ==
  ASSUME [Next]_vars PROVE cRestore' = cRestore \/ (cRestore' = restore /\ Informers)
BY DEF Next, Reconcile, Environment, BeginDeletion, BeginFinalizer, BeginRestore, Begin,
       AddFinalizer, InitStatuses, SkipCompleted, FindJob, CreateJob, ObserveJob, SaveStatus,
       ReportFailure, DeleteJob, RemoveFinalizer, Crash, Informers, SyncRestore, SyncCluster,
       SyncBackup, SyncJobs, Edit, DeleteRestore, CreateRestore, RunJob, CollectJob, LoseJob,
       Accepted, Refused, ReplyLost, Commit, vars, caches

LEMMA CleanupSteps ==
  ASSUME [Next]_vars, pc' = "cleanup" PROVE pc = "cleanup" \/ (BeginDeletion /\ cRestore.deleting)
BY DEF Next, Reconcile, Environment, BeginDeletion, BeginFinalizer, BeginRestore,
       AddFinalizer, InitStatuses, SkipCompleted, FindJob, CreateJob, ObserveJob, SaveStatus,
       ReportFailure, DeleteJob, RemoveFinalizer, EndPass, Crash, Informers, Edit, DeleteRestore,
       CreateRestore, RunJob, CollectJob, LoseJob, vars, pass

LEMMA MarkedSteps ==
  ASSUME [Next]_vars
  PROVE  marked' = marked \/ DeleteJob \/ \E i \in Instances : i \in marked
BY DEF Next, Reconcile, Environment, BeginDeletion, BeginFinalizer, BeginRestore, Begin,
       AddFinalizer, InitStatuses, SkipCompleted, FindJob, CreateJob, ObserveJob, SaveStatus,
       ReportFailure, RemoveFinalizer, Crash, Informers, Edit, DeleteRestore, CreateRestore,
       RunJob, CollectJob, LoseJob, Accepted, Refused, ReplyLost, Commit, vars, stored

LEMMA DeletionsLeft ==
  ASSUME Facts, [Next]_vars PROVE budget'.deletions = budget.deletions
<1>1. (Fault \/ UNCHANGED budget) => budget'.deletions = budget.deletions
  BY FaultLeaves DEF Facts, IInv
<1>2. CASE AddFinalizer \/ InitStatuses \/ SaveStatus \/ ReportFailure \/ RemoveFinalizer
  BY <1>1, <1>2 DEF AddFinalizer, InitStatuses, SaveStatus, ReportFailure, RemoveFinalizer,
       Accepted, Refused, ReplyLost
<1>3. CASE \/ BeginDeletion \/ BeginFinalizer \/ BeginRestore \/ SkipCompleted \/ FindJob
           \/ CreateJob \/ ObserveJob \/ DeleteJob \/ Crash \/ Informers \/ DeleteRestore
           \/ (\E i \in Instances : RunJob(i) \/ CollectJob(i)) \/ UNCHANGED vars
  BY <1>1, <1>3 DEF BeginDeletion, BeginFinalizer, BeginRestore, Begin, SkipCompleted, FindJob,
       CreateJob, ObserveJob, DeleteJob, Crash, Informers, DeleteRestore, RunJob, CollectJob,
       vars
<1>4. CASE Edit \/ CreateRestore
  BY <1>4 DEF Edit, CreateRestore, Facts, IInv, TypeOK
<1>5. CASE \E i \in Instances : LoseJob(i)
  BY <1>5, NoLoss
<1> QED BY <1>2, <1>3, <1>4, <1>5 DEF Next, Reconcile, Environment

LEMMA StepMapped ==
  ASSUME SameNames, Facts, IInv', Lineage', [Next]_vars
  PROVE  Mapped'
<1>0. \A i \in Targets : i \in Instances
  BY DEF Targets
<1>1. Targets' = Targets
  BY DEF Targets
<1>2. ASSUME Stage' \notin {"closing", "gone"}, NEW i \in Targets, <<MaxRestores, i>> \in restored'
      PROVE  jobs'[i].state = "succeeded"
  <2>1. Stage \notin {"closing", "gone"}
    BY <1>2, StepMaps, NoReturn
  <2> QED BY <1>0, <1>2, <2>1, SucceededStay DEF Facts, Mapped
<1>3. restored \subseteq restored'
  BY DEF Next, Reconcile, Environment, BeginDeletion, BeginFinalizer, BeginRestore, Begin,
       AddFinalizer, InitStatuses, SkipCompleted, FindJob, CreateJob, ObserveJob, SaveStatus,
       ReportFailure, DeleteJob, RemoveFinalizer, Crash, Informers, Edit, DeleteRestore,
       CreateRestore, RunJob, CollectJob, LoseJob, vars
<1>4. restore' # Absent => restore # Absent
  <2>1. ~CreateRestore
    BY DEF CreateRestore, Facts, Succeeded, OneRestore
  <2>2. CASE AddFinalizer \/ InitStatuses \/ SaveStatus \/ ReportFailure
    BY <2>2, WriteSteps, WritesLine DEF Facts
  <2>3. CASE RemoveFinalizer
    BY <2>3 DEF RemoveFinalizer, Accepted, Refused, ReplyLost, Commit, stored
  <2>4. CASE DeleteRestore
    BY <2>4 DEF DeleteRestore
  <2>5. CASE \/ BeginDeletion \/ BeginFinalizer \/ BeginRestore \/ SkipCompleted \/ FindJob
             \/ CreateJob \/ ObserveJob \/ DeleteJob \/ Crash \/ Informers \/ Edit
             \/ (\E i \in Instances : RunJob(i) \/ CollectJob(i) \/ LoseJob(i)) \/ UNCHANGED vars
    BY <2>5 DEF BeginDeletion, BeginFinalizer, BeginRestore, Begin, SkipCompleted, FindJob,
       CreateJob, ObserveJob, DeleteJob, Crash, Informers, Edit, RunJob, CollectJob, LoseJob, vars, stored
  <2> QED BY <2>1, <2>2, <2>3, <2>4, <2>5 DEF Next, Reconcile, Environment
<1>5. ASSUME restore' # Absent, restore'.phase = "Completed"
      PROVE  restore'.finalizer /\ \A i \in Targets : <<MaxRestores, i>> \in restored'
  <2>1. CASE restore.phase # "Completed"
    <3>1. \A i \in Targets : <<MaxRestores, i>> \in restored
      BY <1>4, <1>5, <2>1, CompletesTargets
    <3>2. /\ SaveStatus /\ snap \in Restores
          /\ restore' = [snap EXCEPT !.phase = OverallPhase(snap.insts)]
      BY <1>4, <1>5, <2>1, CompletedBySave DEF Facts
    <3>3. snap.finalizer
      BY <3>2 DEF SaveStatus, Facts, Lineage, PassLine
    <3>4. restore'.finalizer
      BY <3>2, <3>3 DEF Restores
    <3> QED BY <1>3, <3>1, <3>4
  <2>2. CASE restore.phase = "Completed"
    <3>1. restore.finalizer /\ \A i \in Targets : <<MaxRestores, i>> \in restored
      BY <1>4, <1>5, <2>2 DEF Facts, Mapped
    <3> QED BY <1>3, <1>4, <1>5, <3>1, FinalizerStays DEF Facts, Succeeded, OneRestore
  <2> QED BY <2>1, <2>2
<1>6. /\ pc' = "cleanup" /\ restore' # Absent => cRestore'.deleting
      /\ restore' # Absent => cRestore' # Absent
  <2>1. restore # Absent => cRestore # Absent /\ (cRestore.deleting => restore.deleting)
    BY DeletionShown DEF Facts, Mapped
  <2>2. cRestore' = cRestore \/ (cRestore' = restore /\ Informers)
    BY CacheSteps
  <2>3. pc' = "cleanup" => pc = "cleanup" \/ (BeginDeletion /\ cRestore.deleting)
    BY CleanupSteps
  <2>4. CASE cRestore' = cRestore
    BY <1>4, <2>1, <2>3, <2>4 DEF Facts, Mapped
  <2>5. CASE cRestore' = restore /\ Informers
    <3>1. restore' = restore /\ pc' = pc
      BY <2>5 DEF Informers, stored, pass
    <3> QED BY <2>1, <2>5, <3>1 DEF Facts, Mapped
  <2> QED BY <2>2, <2>4, <2>5
<1>7. budget'.deletions = 0
  BY DeletionsLeft DEF Facts, Mapped
<1>8. ASSUME Stage' \notin {"closing", "gone"}
      PROVE  marked' = {}
  <2>1. Stage \notin {"closing", "gone"}
    BY <1>8, StepMaps, NoReturn
  <2>2. marked = {}
    BY <2>1 DEF Facts, Mapped
  <2>3. ~DeleteJob
    <3>1. DeleteJob => pc = "cleanup"
      BY DEF DeleteJob
    <3> QED BY <2>1, <3>1 DEF Facts, Mapped, Stage
  <2> QED BY <2>2, <2>3, MarkedSteps
<1> QED BY <1>1, <1>2, <1>5, <1>6, <1>7, <1>8 DEF Mapped

LEMMA MappedInvariance ==
  ASSUME Undisturbed PROVE Spec => []Facts
<1>1. SameNames /\ ConsistentNames /\ MaxRestores = 1
  BY SameNamesConsistent DEF Undisturbed
<1>2. Spec => [](IInv /\ Lineage /\ Recorded /\ Succeeded)
  BY <1>1, Invariance, VersionsOrdered, RecordedInvariance, SucceededInvariance, PTL
<1>3. Init => Mapped
  BY InitMapped
<1>4. /\ IInv /\ Lineage /\ Recorded /\ Succeeded /\ Mapped
      /\ IInv' /\ Lineage' /\ [Next]_vars
      => Mapped'
  BY <1>1, StepMapped DEF Facts
<1>5. Spec => []Mapped
  BY <1>2, <1>3, <1>4, PTL DEF Spec
<1>6. IInv /\ Lineage /\ Recorded /\ Succeeded /\ Mapped => Facts
  BY DEF Facts
<1> QED BY <1>2, <1>5, <1>6, PTL

LEMMA InitMaps ==
  ASSUME Init PROVE Contract!Init
<1>1. /\ restore = NewRestore(MaxRestores) /\ cRestore = restore
      /\ \A i \in Instances : jobs[i].state = "none"
  BY DEF Init, NoJob
<1>2. NewRestore(MaxRestores) \in Restores
  BY BoundsAssumption DEF NewRestore, Restores, Phases
<1>3. Stage = "open"
  BY <1>1, <1>2, AbsentAssumption DEF Stage, NewRestore
<1>4. [i \in Targets |-> Counted(i)] = [i \in Targets |-> "none"]
  BY <1>1 DEF Targets, Counted
<1> QED BY <1>3, <1>4 DEF Contract!Init

\* Seen through the mapping, every behaviour of the controller is one of the
\* contract: one job per instance, run at most once; completion only after all
\* of them succeeded; no job started after the deletion is noticed, and every one
\* deleted when the restore is gone; however calls fail, caches lag and passes crash.
THEOREM ContractImplemented ==
  ASSUME Undisturbed PROVE Spec => ImplementsContract
<1>1. Init => Contract!Init
  BY InitMaps
<1>2. SameNames
  BY DEF Undisturbed
<1>3. Facts /\ [Next]_vars => [Contract!Next]_(Contract!vars)
  BY <1>2, StepMaps
<1> QED BY <1>1, <1>3, MappedInvariance, PTL DEF Spec, ImplementsContract, Contract!Spec

-----------------------------------------------------------------------------
(* What the contract says of the controller *)

\* A job appears only while the restore is open and is deleted only while it
\* closes, and no stage comes back: a job that ran is not created again.
RunsOnce ==
  /\ \A i \in Targets :
       /\ Counted(i) = "none" /\ Counted(i)' # "none" => Stage = "open"
       /\ Counted(i) # "none" /\ Counted(i)' = "none" => Stage = "closing"
       /\ Counted(i) \in {"succeeded", "failed"} => Counted(i)' \in {Counted(i), "none"}
  /\ Stage # "open" => Stage' # "open"
  /\ Stage = "closing" => Stage' \in {"closing", "gone"}
  /\ Stage = "gone" => Stage' = "gone"

\* A job that is created counts: it is not one that was deleted before.
NewJobsCount ==
  \A i \in Targets : jobs[i].state = "none" /\ jobs'[i].state # "none" =>
                        Counted(i) = "none" /\ Counted(i)' # "none"

\* While a restore counts as completed, all its jobs are there and have
\* succeeded; when it is gone, every one has been deleted.
Promise ==
  /\ Stage = "completed" => \A i \in Targets : Counted(i) = "succeeded"
  /\ Stage = "gone" => \A i \in Targets : Counted(i) = "none"

LEMMA ContractSteps ==
  ASSUME [Contract!Next]_(Contract!vars)
  PROVE  RunsOnce /\ (Promise => Promise')
<1> DEFINE J == [i \in Targets |-> Counted(i)]
<1>0. /\ \A i \in Targets : J[i] = Counted(i)
      /\ \A i \in Targets : J'[i] = Counted(i)'
      /\ Targets' = Targets
  BY DEF Targets
<1>1. CASE Contract!Complete \/ Contract!Close \/ Contract!Vanish \/ Contract!Abandon
  BY <1>0, <1>1 DEF Contract!Complete, Contract!Close, Contract!Vanish, Contract!Abandon,
                    RunsOnce, Promise
<1>2. CASE \E i \in Targets : Contract!Launch(i)
  BY <1>0, <1>2 DEF Contract!Launch, RunsOnce, Promise
<1>3. CASE \E i \in Targets : Contract!Run(i)
  BY <1>0, <1>3 DEF Contract!Run, RunsOnce, Promise
<1>4. CASE \E i \in Targets : Contract!Withdraw(i)
  BY <1>0, <1>4 DEF Contract!Withdraw, RunsOnce, Promise
<1>5. CASE UNCHANGED Contract!vars
  BY <1>0, <1>5 DEF Contract!vars, RunsOnce, Promise
<1> QED BY <1>1, <1>2, <1>3, <1>4, <1>5 DEF Contract!Next

LEMMA StepCounts ==
  ASSUME Facts, [Next]_vars PROVE NewJobsCount
<1> SUFFICES ASSUME NEW i \in Targets, jobs[i].state = "none", jobs'[i].state # "none"
             PROVE  Counted(i) = "none" /\ Counted(i)' # "none"
  BY DEF NewJobsCount
<1>1. i \in Instances /\ jobs \in Jobs
  BY DEF Targets, Facts, IInv, TypeOK
<1>2. CASE CreateJob
  <2>1. pc = "loop" /\ restore # Absent /\ marked' = marked
    BY <1>2, LoopStored DEF CreateJob, InLoop, Facts
  <2>2. marked = {}
    BY <2>1 DEF Stage, Facts, Mapped
  <2> QED BY <2>1, <2>2 DEF Counted
<1>3. ASSUME NEW j \in Instances, RunJob(j) \/ CollectJob(j) \/ LoseJob(j) PROVE FALSE
  <2>1. CASE RunJob(j)
    <3>1. jobs[j].state # "none" /\ \E to \in JobStates : jobs' = [jobs EXCEPT ![j].state = to]
      BY <2>1 DEF RunJob
    <3> QED BY <1>1, <3>1 DEF Jobs
  <2>2. CASE CollectJob(j) \/ LoseJob(j)
    BY <1>1, <2>2 DEF CollectJob, LoseJob, Jobs, NoJob
  <2> QED BY <1>3, <2>1, <2>2
<1>4. CASE jobs' = jobs
  BY <1>4
<1>5. jobs' = jobs \/ CreateJob \/ \E j \in Instances : RunJob(j) \/ CollectJob(j) \/ LoseJob(j)
  BY DEF Next, Reconcile, Environment, BeginDeletion, BeginFinalizer, BeginRestore, Begin,
       AddFinalizer, InitStatuses, SkipCompleted, FindJob, ObserveJob, SaveStatus, ReportFailure,
       DeleteJob, RemoveFinalizer, Crash, Informers, Edit, DeleteRestore, CreateRestore,
       Accepted, Refused, ReplyLost, Commit, vars, stored
<1> QED BY <1>2, <1>3, <1>4, <1>5

\* No pass, however stale or repeated, creates the job of an instance a second
\* time, nor one at all once the deletion is noticed.
THEOREM JobsRunOnce ==
  ASSUME Undisturbed PROVE Spec => [][RunsOnce /\ NewJobsCount]_vars
<1>1. SameNames
  BY DEF Undisturbed
<1>2. Facts /\ [Next]_vars => RunsOnce /\ NewJobsCount
  BY <1>1, StepMaps, ContractSteps, StepCounts
<1> QED BY <1>2, MappedInvariance, PTL DEF Spec

\* The jobs of a Completed restore have all succeeded and stay until it is
\* deleted; a restore that is gone has deleted every one.
THEOREM PromiseKept ==
  ASSUME Undisturbed PROVE Spec => []Promise
<1>1. SameNames
  BY DEF Undisturbed
<1>2. Init => Promise
  <2>1. ASSUME Init PROVE Promise
    BY <2>1, InitMaps DEF Contract!Init, Promise
  <2> QED BY <2>1
<1>3. Facts /\ Promise /\ [Next]_vars => Promise'
  BY <1>1, StepMaps, ContractSteps
<1> QED BY <1>2, <1>3, MappedInvariance, PTL DEF Spec
==============================================================================
