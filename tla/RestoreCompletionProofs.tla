----------------------- MODULE RestoreCompletionProofs -----------------------
(***************************************************************************)
(* Proof that a PostgresRestore is Completed only when every instance has  *)
(* been restored.  It needs two conditions: instances are not renamed (the *)
(* run restore_renamed shows what happens otherwise), and the name of the  *)
(* restore is used once (jobs are looked up by name, not by owner, so that *)
(* those of an earlier restore count).                                     *)
(***************************************************************************)
EXTENDS RestoreJobsProofs

\* There is one restore, all jobs are its own.
OneRestore ==
  /\ budget.restores = 0
  /\ restore # Absent => restore.uid = MaxRestores
  /\ cRestore # Absent => cRestore.uid = MaxRestores
  /\ pc # "idle" => snap.uid = MaxRestores
  /\ \A i \in Instances : jobs[i].state # "none" => jobs[i].uid = MaxRestores

\* Jobs that have succeeded did restore their instance, also those of which only
\* the cache knows.
JobsTrue ==
  \A i \in Instances :
    jobs[i].state = "succeeded" \/ cJobs[i].state = "succeeded" => <<MaxRestores, i>> \in restored

\* The instances that v reports as restored are in done.
StatusesTrue(v, done) ==
  \A j \in 1 .. Len(v.insts) : v.insts[j].phase = "Completed" => <<v.uid, v.insts[j].inst>> \in done

Succeeded ==
  /\ OneRestore /\ JobsTrue
  /\ restore # Absent => StatusesTrue(restore, restored)
  /\ cRestore # Absent => StatusesTrue(cRestore, restored)
  /\ pc # "idle" => StatusesTrue(snap, restored)

LEMMA StatusesTrueMore ==
  ASSUME NEW v, NEW w, NEW done, NEW more, StatusesTrue(v, done), done \subseteq more,
         w.insts = v.insts, w.uid = v.uid
  PROVE  StatusesTrue(w, more)
BY DEF StatusesTrue

LEMMA InitSucceeded ==
  ASSUME MaxRestores = 1, Init PROVE Succeeded
<1>1. /\ restore.insts = <<>> /\ restore.uid = MaxRestores /\ cRestore = restore /\ pc = "idle"
      /\ budget.restores = MaxRestores - 1 /\ cJobs = jobs
  BY DEF Init, NewRestore
<1>2. \A i \in Instances : jobs[i].state = "none"
  BY DEF Init, NoJob
<1> QED BY <1>1, <1>2 DEF Succeeded, OneRestore, JobsTrue, StatusesTrue

LEMMA BeginSucceeded ==
  ASSUME IInv, IInv', Succeeded, BeginDeletion \/ BeginFinalizer \/ BeginRestore
  PROVE  Succeeded'
<1>1. Begin /\ cRestore \in Restores /\ cRestore # Absent
  BY DEF BeginDeletion, BeginFinalizer, BeginRestore, Begin, IInv, TypeOK
<1>2. UNCHANGED <<restore, cRestore, jobs, cJobs, restored, budget>>
  BY <1>1 DEF Begin, stored, caches
<1>3. snap' = cRestore \/ \E goal : snap' = [cRestore EXCEPT !.insts = PendingStatuses(goal)]
  BY DEF BeginDeletion, BeginFinalizer, BeginRestore
<1>4. snap'.uid = cRestore.uid
  BY <1>1, <1>3 DEF Restores
<1>5. StatusesTrue(snap', restored')
  <2>1. CASE snap' = cRestore
    BY <1>1, <1>2, <2>1 DEF Succeeded
  <2>2. ASSUME NEW goal, snap' = [cRestore EXCEPT !.insts = PendingStatuses(goal)]
        PROVE  StatusesTrue(snap', restored')
    <3>1. snap'.insts = PendingStatuses(goal)
      BY <1>1, <2>2 DEF Restores
    <3>2. snap' \in Restores
      <4>1. pc' # "idle"
        BY DEF BeginDeletion, BeginFinalizer, BeginRestore
      <4> QED BY <4>1 DEF IInv, PassTyped
    <3>3. \A j \in 1 .. Len(snap'.insts) : j \in DOMAIN snap'.insts
      BY <3>2 DEF Restores
    <3>4. \A j \in 1 .. Len(snap'.insts) : snap'.insts[j].phase = "Pending"
      BY <3>1, <3>3 DEF PendingStatuses
    <3> QED BY <3>4 DEF StatusesTrue
  <2> QED BY <1>3, <2>1, <2>2
<1> QED BY <1>1, <1>2, <1>4, <1>5 DEF Succeeded, OneRestore, JobsTrue

LEMMA WritesSucceeded ==
  ASSUME IInv, Lineage, Succeeded, AddFinalizer \/ InitStatuses \/ SaveStatus \/ ReportFailure
  PROVE  Succeeded'
<1>1. PICK new \in Restores : snap \in Restores /\ pc # "idle" /\ Writes(new)
  BY WriteSteps
<1>2. /\ restore' = restore \/ (fresh /\ restore' = new /\ restore # Absent)
      /\ cRestore' = cRestore /\ UNCHANGED <<jobs, cJobs, restored>>
      /\ budget'.restores = budget.restores
  BY <1>1, WritesLine
<1>3. new.uid = snap.uid /\ StatusesTrue(new, restored)
  BY <1>1, StatusesTrueMore DEF Writes, Succeeded
<1>4. restore' # Absent => restore'.uid = MaxRestores /\ StatusesTrue(restore', restored')
  BY <1>1, <1>2, <1>3 DEF Succeeded, OneRestore
<1>5. pc' = "idle" \/ (pc # "idle" /\ snap' = snap)
  BY <1>1 DEF Writes, EndPass
<1> QED BY <1>2, <1>4, <1>5 DEF Succeeded, OneRestore, JobsTrue

\* The loop records an instance as restored only when its job has succeeded.
LEMMA LoopPhases ==
  ASSUME IInv, SkipCompleted \/ FindJob \/ CreateJob \/ ObserveJob,
         NEW j \in 1 .. Len(snap.insts), snap'.insts[j].phase = "Completed"
  PROVE  \/ snap.insts[j].phase = "Completed"
         \/ ObserveJob /\ j = k /\ cJobs[job].state = "succeeded"
<1>1. snap \in Restores /\ k \in 1 .. Len(snap.insts)
  BY LoopSteps
<1>2. snap.insts \in Seq(InstanceStatus) /\ snap.insts[k] \in InstanceStatus
  BY <1>1 DEF Restores
<1>3. CASE snap' = snap
  BY <1>3
<1>4. ASSUME NEW p, snap' = [snap EXCEPT !.insts[k].phase = p]
      PROVE  snap'.insts[j].phase = IF j = k THEN p ELSE snap.insts[j].phase
  <2> DEFINE t == [snap.insts EXCEPT ![k].phase = p]
  <2>1. snap'.insts = t
    BY <1>1, <1>4 DEF Restores
  <2>2. t[j].phase = IF j = k THEN p ELSE snap.insts[j].phase
    BY <1>1, <1>2 DEF InstanceStatus
  <2> QED BY <2>1, <2>2
<1>5. CASE CreateJob /\ snap' # snap
  <2>1. snap' = [snap EXCEPT !.insts[k].phase = "Running"]
    BY <1>5 DEF CreateJob
  <2> QED BY <1>4, <2>1
<1>6. CASE ObserveJob
  <2>1. snap' = [snap EXCEPT !.insts[k].phase = ObservedPhase(cJobs[job].state, snap.insts[k].phase)]
    BY <1>6 DEF ObserveJob
  <2>2. j = k => ObservedPhase(cJobs[job].state, snap.insts[k].phase) = "Completed"
    BY <1>4, <2>1
  <2>3. j # k => snap.insts[j].phase = "Completed"
    BY <1>4, <2>1
  <2> QED BY <1>6, <2>2, <2>3 DEF ObservedPhase
<1> QED BY <1>3, <1>5, <1>6 DEF SkipCompleted, FindJob

LEMMA LoopSucceeded ==
  ASSUME IInv, Lineage, Names, Succeeded, SkipCompleted \/ FindJob \/ CreateJob \/ ObserveJob
  PROVE  Succeeded'
<1>1. /\ snap \in Restores /\ k \in 1 .. Len(snap.insts) /\ pc # "idle"
      /\ SameInsts(snap'.insts, snap.insts)
      /\ UNCHANGED <<restore, cRestore, cJobs, restored>> /\ (Fault \/ UNCHANGED budget)
  BY LoopSteps
<1>2. snap'.uid = snap.uid
  BY LoopLine DEF SameLine
<1>3. budget'.restores = budget.restores
  BY <1>1, FaultLeaves DEF IInv
<1>4. ASSUME NEW j \in 1 .. Len(snap'.insts), snap'.insts[j].phase = "Completed"
      PROVE  <<snap'.uid, snap'.insts[j].inst>> \in restored'
  <2>1. j \in 1 .. Len(snap.insts) /\ snap'.insts[j].inst = snap.insts[j].inst
    BY <1>1 DEF SameInsts
  <2>2. CASE snap.insts[j].phase = "Completed"
    BY <1>1, <1>2, <2>1, <2>2 DEF Succeeded, StatusesTrue
  <2>3. CASE ObserveJob /\ j = k /\ cJobs[job].state = "succeeded"
    <3>1. job = snap.insts[j].inst /\ job \in Instances
      BY <2>3 DEF ObserveJob, Names, IInv, PassTyped
    <3>2. <<MaxRestores, job>> \in restored
      BY <2>3, <3>1 DEF Succeeded, JobsTrue
    <3> QED BY <1>1, <1>2, <2>1, <3>1, <3>2 DEF Succeeded, OneRestore
  <2> QED BY <1>4, <2>1, <2>2, <2>3, LoopPhases
<1>5. StatusesTrue(snap', restored')
  BY <1>4 DEF StatusesTrue
<1>6. \A x \in Instances : jobs'[x] = jobs[x] \/ jobs'[x] = [state |-> "new", uid |-> snap.uid]
  <2>1. CASE CreateJob
    <3>1. jobs' = jobs \/ StartJob(Goal[k].name)
      BY <2>1 DEF CreateJob
    <3> QED BY <3>1 DEF StartJob, IInv, TypeOK, Jobs
  <2>2. CASE jobs' = jobs
    BY <2>2
  <2> QED BY <2>1, <2>2 DEF SkipCompleted, FindJob, ObserveJob, stored
<1>7. OneRestore'
  BY <1>1, <1>2, <1>3, <1>6 DEF Succeeded, OneRestore
<1>8. JobsTrue'
  BY <1>1, <1>6 DEF Succeeded, JobsTrue
<1> QED BY <1>1, <1>5, <1>7, <1>8 DEF Succeeded

LEMMA CleanupSucceeded ==
  ASSUME IInv, Succeeded, DeleteJob \/ RemoveFinalizer \/ Crash
  PROVE  Succeeded'
<1>1. /\ cRestore' = cRestore /\ cJobs' = cJobs /\ restored' = restored
      /\ restore' \in {restore, Absent} /\ (Fault \/ UNCHANGED budget)
  BY DEF DeleteJob, RemoveFinalizer, Crash, Accepted, Refused, ReplyLost, Commit, stored, caches
<1>2. EndPass \/ (pc = "cleanup" /\ UNCHANGED <<pc, snap>>)
  BY DEF DeleteJob, RemoveFinalizer, Crash
<1>3. budget'.restores = budget.restores
  BY <1>1, FaultLeaves DEF IInv
<1>4. jobs' = jobs
  BY DEF DeleteJob, RemoveFinalizer, Crash, Accepted, Refused, ReplyLost, Commit, stored
<1> QED BY <1>1, <1>2, <1>3, <1>4 DEF EndPass, Succeeded, OneRestore, JobsTrue

LEMMA JobStepsSucceeded ==
  ASSUME IInv, Succeeded, NEW i \in Instances, RunJob(i) \/ CollectJob(i) \/ LoseJob(i)
  PROVE  Succeeded'
<1>1. UNCHANGED <<restore, cRestore, cJobs, pc, snap>> /\ budget'.restores = budget.restores
  BY DEF RunJob, CollectJob, LoseJob, caches, pass, IInv, TypeOK
<1>2. jobs \in Jobs /\ jobs[i] \in [state : JobStates, uid : Nat]
  BY DEF IInv, TypeOK, Jobs
<1>3. /\ restored \subseteq restored'
      /\ \A x \in Instances :
           /\ jobs'[x].state # "none" => jobs[x].state # "none" /\ jobs'[x].uid = jobs[x].uid
           /\ jobs'[x].state = "succeeded" =>
                jobs[x].state = "succeeded" \/ <<jobs[x].uid, x>> \in restored'
  <2>1. CASE RunJob(i)
    <3>1. PICK to \in JobStates :
            /\ <<jobs[i].state, to>> \in {<<"new", "active">>, <<"active", "succeeded">>, <<"active", "failed">>}
            /\ jobs' = [jobs EXCEPT ![i].state = to]
            /\ restored' = IF to = "succeeded" THEN restored \cup {<<jobs[i].uid, i>>} ELSE restored
      BY <2>1 DEF RunJob
    <3>2. \A x \in Instances : jobs'[x] = IF x = i THEN [jobs[i] EXCEPT !.state = to] ELSE jobs[x]
      BY <1>2, <3>1 DEF Jobs
    <3>3. jobs'[i].state = to /\ jobs'[i].uid = jobs[i].uid /\ jobs[i].state # "none"
      BY <1>2, <3>1, <3>2
    <3> QED BY <3>1, <3>2, <3>3
  <2>2. CASE CollectJob(i) \/ LoseJob(i)
    BY <1>2, <2>2 DEF CollectJob, LoseJob, Jobs, NoJob
  <2> QED BY <2>1, <2>2
<1>4. OneRestore'
  BY <1>1, <1>3 DEF Succeeded, OneRestore
<1>5. JobsTrue'
  BY <1>1, <1>3 DEF Succeeded, OneRestore, JobsTrue
<1>6. \A v : StatusesTrue(v, restored) => StatusesTrue(v, restored')
  BY <1>3 DEF StatusesTrue
<1> QED BY <1>1, <1>4, <1>5, <1>6 DEF Succeeded

LEMMA EnvironmentSucceeded ==
  ASSUME IInv, Succeeded, Informers \/ Edit \/ DeleteRestore \/ UNCHANGED vars
  PROVE  Succeeded'
<1>1. UNCHANGED <<jobs, pc, snap, restored>> /\ budget'.restores = budget.restores
  BY DEF Informers, Edit, DeleteRestore, vars, stored, pass, IInv, TypeOK
<1>2. cRestore' \in {cRestore, restore} /\ cJobs' \in {cJobs, jobs}
  BY DEF Informers, SyncRestore, SyncCluster, SyncBackup, SyncJobs, Edit, DeleteRestore, vars,
         stored, caches
<1>3. restore' \in {restore, Absent} \/ (restore \in Restores /\ restore' = [restore EXCEPT !.deleting = TRUE])
  BY DEF Informers, Edit, DeleteRestore, vars, stored, IInv, TypeOK
<1>4. restore' # Absent => restore'.uid = MaxRestores /\ StatusesTrue(restore', restored)
  <2>1. CASE restore' \in {restore, Absent}
    BY <2>1 DEF Succeeded, OneRestore
  <2>2. CASE restore \in Restores /\ restore' = [restore EXCEPT !.deleting = TRUE]
    <3>1. restore # Absent /\ restore'.uid = restore.uid /\ restore'.insts = restore.insts
      BY <2>2, AbsentAssumption DEF Restores
    <3> QED BY <3>1 DEF Succeeded, OneRestore, StatusesTrue
  <2> QED BY <1>3, <2>1, <2>2
<1>5. cRestore' # Absent => cRestore'.uid = MaxRestores /\ StatusesTrue(cRestore', restored)
  BY <1>2 DEF Succeeded, OneRestore
<1> QED BY <1>1, <1>2, <1>4, <1>5 DEF Succeeded, OneRestore, JobsTrue

LEMMA StepSucceeded ==
  ASSUME IInv, IInv', Lineage, Names, Succeeded, [Next]_vars
  PROVE  Succeeded'
<1>1. CASE BeginDeletion \/ BeginFinalizer \/ BeginRestore  BY <1>1, BeginSucceeded
<1>2. CASE AddFinalizer \/ InitStatuses \/ SaveStatus \/ ReportFailure  BY <1>2, WritesSucceeded
<1>3. CASE SkipCompleted \/ FindJob \/ CreateJob \/ ObserveJob  BY <1>3, LoopSucceeded
<1>4. CASE DeleteJob \/ RemoveFinalizer \/ Crash  BY <1>4, CleanupSucceeded
<1>5. CASE Informers \/ Edit \/ DeleteRestore \/ UNCHANGED vars  BY <1>5, EnvironmentSucceeded
<1>6. CASE \E i \in Instances : RunJob(i) \/ CollectJob(i) \/ LoseJob(i)  BY <1>6, JobStepsSucceeded
<1>7. CASE CreateRestore
  \* The name is not used again.
  BY <1>7 DEF CreateRestore, Succeeded, OneRestore
<1> QED BY <1>1, <1>2, <1>3, <1>4, <1>5, <1>6, <1>7 DEF Next, Reconcile, Environment

LEMMA NamesInvariance ==
  ASSUME ConsistentNames PROVE Spec => []Names
<1>1. Init => Names
  BY InitNames
<1>2. IInv /\ IInv' /\ Lineage /\ Names /\ [Next]_vars => Names'
  BY StepNames
<1> QED BY <1>1, <1>2, Invariance, VersionsOrdered, PTL DEF Spec

LEMMA SucceededInvariance ==
  ASSUME ConsistentNames, MaxRestores = 1 PROVE Spec => []Succeeded
<1>1. Init => Succeeded
  BY InitSucceeded
<1>2. IInv /\ IInv' /\ Lineage /\ Names /\ Succeeded /\ [Next]_vars => Succeeded'
  BY StepSucceeded
<1> QED BY <1>1, <1>2, Invariance, VersionsOrdered, NamesInvariance, PTL DEF Spec

\* A step that stores the phase Completed, seen from the pass that takes it.
CompletesRestored ==
  (/\ restore # Absent /\ restore.phase # "Completed"
   /\ restore' # Absent /\ restore'.phase = "Completed")
    => \A i \in DOMAIN Goal : <<snap.uid, Goal[i].name>> \in restored

\* Only updateRestoreStatus stores the phase Completed.
LEMMA CompletedBySave ==
  ASSUME IInv, [Next]_vars,
         restore # Absent, restore.phase # "Completed",
         restore' # Absent, restore'.phase = "Completed"
  PROVE  /\ SaveStatus /\ fresh /\ snap \in Restores
         /\ restore' = [snap EXCEPT !.phase = OverallPhase(snap.insts)]
         /\ OverallPhase(snap.insts) = "Completed"
<1>0. restore' # restore /\ restore \in Restores
  BY DEF IInv, TypeOK
<1>1. fresh => snap.phase # "Completed"
  BY DEF IInv, Versions
<1>2. ASSUME AddFinalizer PROVE FALSE
  <2>1. snap \in Restores
    BY <1>2 DEF AddFinalizer, IInv, PassTyped
  <2>2. fresh /\ restore' = [snap EXCEPT !.finalizer = TRUE]
    BY <1>0, <1>2 DEF AddFinalizer, Accepted, Refused, ReplyLost, Commit, stored
  <2> QED BY <1>1, <2>1, <2>2 DEF Restores
<1>3. ASSUME InitStatuses PROVE FALSE
  <2>1. fresh /\ restore' = snap
    BY <1>0, <1>3 DEF InitStatuses, Accepted, Refused, ReplyLost, Commit, stored
  <2> QED BY <1>1, <2>1
<1>4. ASSUME ReportFailure PROVE FALSE
  <2>1. snap \in Restores
    BY <1>4 DEF ReportFailure, IInv, PassTyped
  <2>2. restore' = [snap EXCEPT !.phase = "Failed"]
    BY <1>0, <1>4 DEF ReportFailure, Accepted, Refused, ReplyLost, Commit, stored
  <2> QED BY <2>1, <2>2 DEF Restores
<1>5. ASSUME RemoveFinalizer PROVE FALSE
  BY <1>0, <1>5 DEF RemoveFinalizer, Accepted, Refused, ReplyLost, Commit, stored
<1>6. ASSUME DeleteRestore PROVE FALSE
  BY <1>0, <1>6 DEF DeleteRestore, Restores
<1>7. ASSUME CreateRestore PROVE FALSE
  BY <1>7 DEF CreateRestore
<1>8. ~(\/ BeginDeletion \/ BeginFinalizer \/ BeginRestore \/ SkipCompleted \/ FindJob
        \/ CreateJob \/ ObserveJob \/ DeleteJob \/ Crash \/ Informers \/ Edit
        \/ (\E i \in Instances : RunJob(i) \/ CollectJob(i) \/ LoseJob(i)) \/ UNCHANGED vars)
  BY <1>0 DEF BeginDeletion, BeginFinalizer, BeginRestore, Begin, SkipCompleted, FindJob,
       CreateJob, ObserveJob, DeleteJob, Crash, Informers, Edit, RunJob, CollectJob, LoseJob,
       vars, stored
<1>9. SaveStatus
  BY <1>2, <1>3, <1>4, <1>5, <1>6, <1>7, <1>8 DEF Next, Reconcile, Environment
<1>10. snap \in Restores
  BY <1>9 DEF SaveStatus, IInv, PassTyped
<1>11. fresh /\ restore' = [snap EXCEPT !.phase = OverallPhase(snap.insts)]
  BY <1>0, <1>9 DEF SaveStatus, Accepted, Refused, ReplyLost, Commit, stored
<1>12. OverallPhase(snap.insts) = "Completed"
  BY <1>10, <1>11 DEF Restores
<1> QED BY <1>9, <1>10, <1>11, <1>12

LEMMA OverallCompleted ==
  ASSUME NEW insts, OverallPhase(insts) = "Completed"
  PROVE  \A i \in DOMAIN insts : insts[i].phase = "Completed"
BY DEF OverallPhase

LEMMA StepCompletes ==
  IInv /\ Names /\ Succeeded /\ [Next]_vars => CompletesRestored
<1> SUFFICES ASSUME IInv, Names, Succeeded, [Next]_vars,
                    restore # Absent, restore.phase # "Completed",
                    restore' # Absent, restore'.phase = "Completed",
                    NEW i \in DOMAIN Goal
             PROVE  <<snap.uid, Goal[i].name>> \in restored
  BY DEF CompletesRestored
<1>1. SaveStatus /\ snap \in Restores /\ OverallPhase(snap.insts) = "Completed"
  BY CompletedBySave
<1>2. Goal \in Seq(InstanceSpecs) /\ NamedAfter(snap.insts, Goal) /\ StatusesTrue(snap, restored)
  BY <1>1 DEF SaveStatus, IInv, PassTyped, Names, Succeeded
<1>3. i \in 1 .. Len(Goal) /\ snap.insts \in Seq(InstanceStatus)
  BY <1>1, <1>2 DEF Restores
<1>4. i \in 1 .. Len(snap.insts) /\ i \in DOMAIN snap.insts /\ snap.insts[i].inst = Goal[i].name
  BY <1>2, <1>3 DEF NamedAfter
<1>5. snap.insts[i].phase = "Completed"
  BY <1>1, <1>4, OverallCompleted
<1> QED BY <1>2, <1>4, <1>5 DEF StatusesTrue

\* "All instances restored successfully" holds, whatever the caches lag, calls
\* fail, passes crash and users edit the cluster, as long as instances are not
\* renamed and the name of the restore is not used again.
THEOREM CompletionIsEarned ==
  ASSUME ConsistentNames, MaxRestores = 1
  PROVE  Spec => CompletionMeansRestored
<1>1. IInv /\ Names /\ Succeeded /\ [Next]_vars => [CompletesRestored]_vars
  BY StepCompletes
<1>2. Spec => [][CompletesRestored]_vars
  BY <1>1, Invariance, NamesInvariance, SucceededInvariance, PTL DEF Spec
<1> QED BY <1>2 DEF CompletesRestored, CompletionMeansRestored
==============================================================================
