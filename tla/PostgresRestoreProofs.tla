----------------------- MODULE PostgresRestoreProofs -----------------------
(***************************************************************************)
(* Proofs about PostgresRestore, for all clusters, backups, selectors,     *)
(* bounds and instance names:                                              *)
(*   TypeCorrect      every reachable state is well typed;                 *)
(*   CompletionFinal  a restore that is Completed stays Completed.         *)
(***************************************************************************)
EXTENDS PostgresRestore, TLAPS

\* The copy a pass works on: there is one while a pass is in flight; it has one
\* status per selected instance in the loop; and the loop index stays in range.
PassTyped ==
  /\ pc # "idle" => snap \in Restores
  /\ pc \in {"init", "loop", "observe"} =>
       Goal \in Seq(InstanceSpecs) /\ Len(snap.insts) = Len(Goal)
  /\ pc = "observe" => k <= Len(Goal) /\ job \in Instances
  /\ k # 0

\* What comparing resourceVersions guarantees: a cached restore that counts as
\* the stored version is; a pass whose copy counts as the stored version has its
\* phase; and no pass that may store a phase started from a Completed copy.
Versions ==
  /\ cFresh => cRestore = restore
  /\ fresh => restore # Absent /\ snap # Absent /\ snap.phase = restore.phase
  /\ pc \in {"init", "loop", "observe", "fail"} => snap.phase # "Completed"

IInv == TypeOK /\ PassTyped /\ Versions

-----------------------------------------------------------------------------
(* The operators the handlers are built from *)

\* The statuses that updateRestoreStatus initialises: one per instance.
LEMMA PendingStatusesType ==
  ASSUME NEW goal \in Seq(InstanceSpecs)
  PROVE  /\ PendingStatuses(goal) \in Seq(InstanceStatus)
         /\ Len(PendingStatuses(goal)) = Len(goal)
<1>0. \A i \in 1 .. Len(goal) : goal[i] \in InstanceSpecs
  OBVIOUS
<1>1. \A i \in 1 .. Len(goal) : goal[i].name \in Instances
  BY <1>0 DEF InstanceSpecs
<1>2. PendingStatuses(goal) = [i \in 1 .. Len(goal) |-> [inst |-> goal[i].name, phase |-> "Pending"]]
  BY DEF PendingStatuses
<1>3. \A i \in 1 .. Len(goal) :
        [inst |-> goal[i].name, phase |-> "Pending"] \in InstanceStatus
  BY <1>1 DEF InstanceStatus, InstancePhases
<1> QED BY <1>2, <1>3

\* A copy of the restore with the phase of one instance set.
LEMMA SetPhaseType ==
  ASSUME NEW s \in Restores, NEW i \in 1 .. Len(s.insts), NEW p \in InstancePhases
  PROVE  /\ [s EXCEPT !.insts[i].phase = p] \in Restores
         /\ Len([s EXCEPT !.insts[i].phase = p].insts) = Len(s.insts)
         /\ [s EXCEPT !.insts[i].phase = p].phase = s.phase
<1> DEFINE t == [s.insts EXCEPT ![i].phase = p]
<1>1. s.insts \in Seq(InstanceStatus) /\ s.insts[i] \in InstanceStatus
  BY DEF Restores
<1>2. [s.insts[i] EXCEPT !.phase = p] \in InstanceStatus
  BY <1>1 DEF InstanceStatus
<1>3. t \in Seq(InstanceStatus) /\ Len(t) = Len(s.insts)
  BY <1>1, <1>2
<1>4. [s EXCEPT !.insts[i].phase = p] = [s EXCEPT !.insts = t]
  OBVIOUS
<1> HIDE DEF t
<1> QED BY <1>3, <1>4 DEF Restores

LEMMA OverallPhaseType ==
  ASSUME NEW insts PROVE OverallPhase(insts) \in Phases
BY DEF OverallPhase, Phases

LEMMA ObservedPhaseType ==
  ASSUME NEW state, NEW old \in InstancePhases
  PROVE  ObservedPhase(state, old) \in InstancePhases
BY DEF ObservedPhase, InstancePhases

\* What the API server stores on an accepted write.
LEMMA CommitType ==
  ASSUME IInv, NEW new \in Restores \cup {Absent}, Commit(new)
  PROVE  /\ restore' = new /\ cFresh' \in BOOLEAN
         /\ cFresh' => cRestore' = restore'
         /\ UNCHANGED <<cluster, backup, jobs, marked, cRestore, cCluster, cBackup, cJobs>>
<1>1. restore' = new /\ UNCHANGED <<cluster, backup, jobs, marked, cRestore, cCluster, cBackup, cJobs>>
  BY DEF Commit
<1>2. CASE cFresh' = FALSE
  BY <1>1, <1>2
<1>3. CASE new = restore /\ cFresh' = cFresh
  <2>1. cFresh' \in BOOLEAN
    BY <1>3 DEF IInv, TypeOK
  <2>2. cFresh' => cRestore' = restore'
    BY <1>1, <1>3 DEF IInv, Versions
  <2> QED BY <1>1, <2>1, <2>2
<1> QED BY <1>2, <1>3 DEF Commit

LEMMA FaultType ==
  ASSUME TypeOK, Fault \/ UNCHANGED budget
  PROVE  budget' \in [restores : Nat, faults : Nat, edits : Nat, deletions : Nat]
BY DEF TypeOK, Fault

\* An Update or Status().Update of the restore, whatever becomes of it.
LEMMA WriteType ==
  ASSUME IInv, NEW new \in Restores \cup {Absent},
         Accepted(new) \/ Refused \/ ReplyLost(new)
  PROVE  /\ restore' \in Restores \cup {Absent} /\ cFresh' \in BOOLEAN
         /\ cFresh' => cRestore' = restore'
         /\ budget' \in [restores : Nat, faults : Nat, edits : Nat, deletions : Nat]
         /\ UNCHANGED <<cluster, backup, jobs, marked, cRestore, cCluster, cBackup, cJobs>>
<1>0. Fault \/ UNCHANGED budget
  BY DEF Accepted, Refused, ReplyLost
<1>1. budget' \in [restores : Nat, faults : Nat, edits : Nat, deletions : Nat]
  BY <1>0, FaultType DEF IInv
<1>2. CASE Commit(new)
  BY <1>1, <1>2, CommitType
<1>3. CASE UNCHANGED <<stored, caches>>
  BY <1>1, <1>3 DEF IInv, TypeOK, Versions, stored, caches
<1> QED BY <1>2, <1>3 DEF Accepted, Refused, ReplyLost

-----------------------------------------------------------------------------
(* The invariant *)

LEMMA InitEstablishes == Init => IInv
<1> SUFFICES ASSUME Init PROVE IInv
  OBVIOUS
<1>1. NewRestore(MaxRestores) \in Restores
  BY BoundsAssumption DEF NewRestore, Restores, Phases
<1>2. [i \in Instances |-> NoJob] \in Jobs
  BY DEF Jobs, NoJob, JobStates
<1>a. budget \in [restores : Nat, faults : Nat, edits : Nat, deletions : Nat]
  BY BoundsAssumption DEF Init
<1>b. seen \in [cluster : ClusterSpecs \cup {Absent}, backup : BackupSpecs \cup {Absent}]
  BY DEF Init, Unread
<1>c. restored \subseteq Nat \X Instances
  BY DEF Init
<1>3. TypeOK
  BY <1>1, <1>2, <1>a, <1>b, <1>c DEF Init, TypeOK, Steps
<1>4. PassTyped
  BY DEF Init, PassTyped
<1>5. Versions
  BY DEF Init, Versions
<1> QED BY <1>3, <1>4, <1>5 DEF IInv

\* The typing of the variables, grouped as the handlers change them.
StoredTyped ==
  /\ restore \in Restores \cup {Absent}
  /\ cluster \in ClusterSpecs \cup {Absent} /\ backup \in BackupSpecs \cup {Absent}
  /\ jobs \in Jobs /\ marked \subseteq Instances
CachesTyped ==
  /\ cRestore \in Restores \cup {Absent} /\ cFresh \in BOOLEAN
  /\ cCluster \in ClusterSpecs \cup {Absent} /\ cBackup \in BackupSpecs \cup {Absent}
  /\ cJobs \in Jobs
LocalsTyped ==
  /\ pc \in Steps /\ snap \in Restores \cup {Absent} /\ fresh \in BOOLEAN
  /\ seen \in [cluster : ClusterSpecs \cup {Absent}, backup : BackupSpecs \cup {Absent}]
  /\ k \in Nat /\ job \in Instances \cup {Absent}
GhostsTyped ==
  /\ restored \subseteq Nat \X Instances
  /\ budget \in [restores : Nat, faults : Nat, edits : Nat, deletions : Nat]

LEMMA TypeParts ==
  /\ TypeOK <=> StoredTyped /\ CachesTyped /\ LocalsTyped /\ GhostsTyped
  /\ TypeOK' <=> StoredTyped' /\ CachesTyped' /\ LocalsTyped' /\ GhostsTyped'
BY DEF TypeOK, StoredTyped, CachesTyped, LocalsTyped, GhostsTyped

\* A pass that ends keeps the invariant whatever it did to the objects.
LEMMA EndPassType ==
  ASSUME EndPass, cFresh' => cRestore' = restore'
  PROVE  LocalsTyped' /\ PassTyped' /\ Versions'
<1>1. seen' \in [cluster : ClusterSpecs \cup {Absent}, backup : BackupSpecs \cup {Absent}]
  BY DEF EndPass, Unread
<1>2. LocalsTyped'
  BY <1>1 DEF EndPass, LocalsTyped, Steps
<1>3. PassTyped' /\ Versions'
  BY DEF EndPass, PassTyped, Versions
<1> QED BY <1>2, <1>3

LEMMA BeginPreserves ==
  ASSUME IInv, BeginDeletion \/ BeginFinalizer \/ BeginRestore
  PROVE  IInv'
<1>1. StoredTyped /\ CachesTyped /\ LocalsTyped /\ GhostsTyped
  BY TypeParts DEF IInv
<1>2. Begin
  BY DEF BeginDeletion, BeginFinalizer, BeginRestore
<1>3. cRestore \in Restores /\ cRestore # Absent
  BY <1>1, <1>2 DEF Begin, CachesTyped
<1>4. StoredTyped' /\ CachesTyped' /\ GhostsTyped'
  BY <1>1, <1>2 DEF Begin, StoredTyped, CachesTyped, GhostsTyped, stored, caches
<1>5. /\ fresh' = cFresh /\ fresh' \in BOOLEAN /\ k' = 1 /\ job' \in Instances \cup {Absent}
      /\ restore' = restore /\ cFresh' = cFresh /\ cRestore' = cRestore
  BY <1>1, <1>2 DEF Begin, CachesTyped, LocalsTyped, stored, caches
<1>6. cFresh => cRestore = restore
  BY DEF IInv, Versions
<1>7. CASE BeginDeletion \/ BeginFinalizer
  <2>1. snap' = cRestore /\ seen' = seen /\ pc' \in {"cleanup", "finalize"}
    BY <1>7 DEF BeginDeletion, BeginFinalizer
  <2>2. LocalsTyped'
    BY <2>1, <1>1, <1>3, <1>5 DEF LocalsTyped, Steps
  <2>3. PassTyped' /\ Versions'
    BY <2>1, <1>3, <1>5, <1>6 DEF PassTyped, Versions
  <2> QED BY <1>4, <2>2, <2>3, TypeParts DEF IInv
<1>8. CASE BeginRestore
  <2> DEFINE goal == IF cCluster = Absent \/ cBackup = Absent THEN NoTargets
                     ELSE TargetInstances(cCluster, Selector)
  <2>1. cRestore.phase # "Completed" /\ seen' = [cluster |-> cCluster, backup |-> cBackup]
    BY <1>8 DEF BeginRestore, WorkLeft
  <2>2. goal = NoTargets \/ (goal \in Seq(InstanceSpecs) /\ Goal' = goal)
    <3>1. CASE cCluster = Absent \/ cBackup = Absent
      BY <3>1
    <3>2. CASE ~(cCluster = Absent \/ cBackup = Absent)
      <4>1. cCluster \in ClusterSpecs
        BY <3>2, <1>1 DEF CachesTyped
      <4> QED BY <4>1, <3>2, <2>1, TargetsAssumption DEF Goal
    <3> QED BY <3>1, <3>2
  <2>3. \/ goal = NoTargets /\ pc' = "fail" /\ snap' = cRestore
        \/ /\ goal # NoTargets /\ pc' = "init"
           /\ snap' = [cRestore EXCEPT !.insts = PendingStatuses(goal)]
        \/ /\ goal # NoTargets /\ Len(cRestore.insts) = Len(goal)
           /\ pc' = "loop" /\ snap' = cRestore
    BY <1>8 DEF BeginRestore
  <2> HIDE DEF goal
  <2>4. /\ snap' \in Restores /\ snap'.phase = cRestore.phase
        /\ pc' \in {"init", "loop"} =>
             Goal' \in Seq(InstanceSpecs) /\ Len(snap'.insts) = Len(Goal')
        /\ pc' \in {"init", "loop", "fail"}
    <3>1. CASE goal = NoTargets /\ pc' = "fail" /\ snap' = cRestore
      BY <3>1, <1>3
    <3>2. CASE /\ goal # NoTargets /\ Len(cRestore.insts) = Len(goal)
               /\ pc' = "loop" /\ snap' = cRestore
      BY <3>2, <2>2, <1>3
    <3>3. CASE /\ goal # NoTargets /\ pc' = "init"
               /\ snap' = [cRestore EXCEPT !.insts = PendingStatuses(goal)]
      <4>1. /\ PendingStatuses(goal) \in Seq(InstanceStatus)
            /\ Len(PendingStatuses(goal)) = Len(goal)
        BY <3>3, <2>2, PendingStatusesType
      <4>2. snap' \in Restores /\ snap'.insts = PendingStatuses(goal) /\ snap'.phase = cRestore.phase
        BY <4>1, <3>3, <1>3 DEF Restores
      <4> QED BY <4>1, <4>2, <3>3, <2>2
    <3> QED BY <3>1, <3>2, <3>3, <2>3
  <2>5. seen' \in [cluster : ClusterSpecs \cup {Absent}, backup : BackupSpecs \cup {Absent}]
    BY <2>1, <1>1 DEF CachesTyped
  <2>6. LocalsTyped'
    BY <2>4, <2>5, <1>5 DEF LocalsTyped, Steps
  <2>7. snap' # Absent
    BY <2>4, AbsentAssumption
  <2>8. PassTyped' /\ Versions'
    BY <2>1, <2>4, <2>7, <1>3, <1>5, <1>6 DEF PassTyped, Versions
  <2> QED BY <1>4, <2>6, <2>8, TypeParts DEF IInv
<1> QED BY <1>7, <1>8

\* The steps that write the restore.
LEMMA WriteKeeps ==
  ASSUME IInv, NEW new \in Restores \cup {Absent},
         Accepted(new) \/ Refused \/ ReplyLost(new), UNCHANGED restored
  PROVE  /\ StoredTyped' /\ CachesTyped' /\ GhostsTyped'
         /\ cFresh' => cRestore' = restore'
BY WriteType, TypeParts DEF IInv, StoredTyped, CachesTyped, GhostsTyped

\* Those that end the pass with the write.
LEMMA LastWriteKeeps ==
  ASSUME IInv, NEW new \in Restores \cup {Absent},
         Accepted(new) \/ Refused \/ ReplyLost(new), EndPass, UNCHANGED restored
  PROVE  IInv'
BY WriteKeeps, EndPassType, TypeParts DEF IInv

LEMMA AddFinalizerPreserves ==
  ASSUME IInv, AddFinalizer PROVE IInv'
<1>1. snap \in Restores
  BY DEF AddFinalizer, IInv, PassTyped
<1>2. [snap EXCEPT !.finalizer = TRUE] \in Restores \cup {Absent}
  BY <1>1 DEF Restores
<1> QED BY <1>2, LastWriteKeeps DEF AddFinalizer

LEMMA ReportFailurePreserves ==
  ASSUME IInv, ReportFailure PROVE IInv'
<1>1. snap \in Restores
  BY DEF ReportFailure, IInv, PassTyped
<1>2. [snap EXCEPT !.phase = "Failed"] \in Restores \cup {Absent}
  BY <1>1 DEF Restores, Phases
<1> QED BY <1>2, LastWriteKeeps DEF ReportFailure

LEMMA RemoveFinalizerPreserves ==
  ASSUME IInv, RemoveFinalizer PROVE IInv'
BY LastWriteKeeps DEF RemoveFinalizer

LEMMA InitStatusesPreserves ==
  ASSUME IInv, InitStatuses PROVE IInv'
<1>1. LocalsTyped /\ PassTyped /\ Versions
  BY TypeParts DEF IInv
<1>2. /\ pc = "init" /\ snap \in Restores /\ snap.phase # "Completed"
      /\ Goal \in Seq(InstanceSpecs) /\ Len(snap.insts) = Len(Goal)
  BY <1>1 DEF InitStatuses, PassTyped, Versions
<1>3. Accepted(snap) \/ Refused \/ ReplyLost(snap)
  BY DEF InitStatuses
<1>4. UNCHANGED <<snap, seen, k, job, restored>>
  BY DEF InitStatuses
<1>5. StoredTyped' /\ CachesTyped' /\ GhostsTyped' /\ (cFresh' => cRestore' = restore')
  BY <1>2, <1>3, <1>4, WriteKeeps
<1>6. Goal' = Goal
  BY <1>4 DEF Goal
<1>7. CASE Accepted(snap) /\ pc' = "loop" /\ fresh' = TRUE
  <2>1. restore' = snap
    BY <1>7 DEF Accepted, Commit
  <2>2. LocalsTyped'
    BY <1>1, <1>4, <1>7 DEF LocalsTyped, Steps
  <2>3. PassTyped' /\ Versions'
    BY <1>1, <1>2, <1>4, <1>5, <1>6, <1>7, <2>1, AbsentAssumption DEF PassTyped, Versions
  <2> QED BY <1>5, <2>2, <2>3, TypeParts DEF IInv
<1>8. CASE Refused /\ pc' = "fail" /\ fresh' = fresh
  <2>1. restore' = restore
    BY <1>8 DEF Refused, stored
  <2>2. LocalsTyped'
    BY <1>1, <1>4, <1>8 DEF LocalsTyped, Steps
  <2>3. PassTyped' /\ Versions'
    BY <1>1, <1>2, <1>4, <1>5, <1>8, <2>1 DEF PassTyped, Versions
  <2> QED BY <1>5, <2>2, <2>3, TypeParts DEF IInv
<1>9. CASE ReplyLost(snap) /\ pc' = "fail" /\ fresh' = FALSE
  <2>1. LocalsTyped'
    BY <1>1, <1>4, <1>9 DEF LocalsTyped, Steps
  <2>2. PassTyped' /\ Versions'
    BY <1>1, <1>2, <1>4, <1>5, <1>9 DEF PassTyped, Versions
  <2> QED BY <1>5, <2>1, <2>2, TypeParts DEF IInv
<1> QED BY <1>7, <1>8, <1>9 DEF InitStatuses

LEMMA SaveStatusPreserves ==
  ASSUME IInv, SaveStatus PROVE IInv'
<1> DEFINE new == [snap EXCEPT !.phase = OverallPhase(snap.insts)]
<1>1. LocalsTyped /\ PassTyped /\ Versions
  BY TypeParts DEF IInv
<1>2. pc = "loop" /\ snap \in Restores /\ snap.phase # "Completed"
  BY <1>1 DEF SaveStatus, PassTyped, Versions
<1>3. new \in Restores \cup {Absent}
  BY <1>2, OverallPhaseType DEF Restores
<1>4. CASE Accepted(new) /\ EndPass
  BY <1>3, <1>4, LastWriteKeeps DEF SaveStatus
<1>5. CASE /\ (Refused /\ fresh' = fresh) \/ (ReplyLost(new) /\ fresh' = FALSE)
           /\ pc' = "fail" /\ UNCHANGED <<snap, seen, k, job>>
  <2>1. UNCHANGED restored
    BY DEF SaveStatus
  <2>2. StoredTyped' /\ CachesTyped' /\ GhostsTyped' /\ (cFresh' => cRestore' = restore')
    BY <1>3, <1>5, <2>1, WriteKeeps
  <2>3. fresh' => fresh /\ restore' = restore
    BY <1>5 DEF Refused, stored
  <2>4. LocalsTyped'
    BY <1>1, <1>5 DEF LocalsTyped, Steps
  <2>5. PassTyped' /\ Versions'
    BY <1>1, <1>2, <1>5, <2>2, <2>3 DEF PassTyped, Versions
  <2> QED BY <2>2, <2>4, <2>5, TypeParts DEF IInv
<1> QED BY <1>4, <1>5 DEF SaveStatus

\* The body of the loop: the copy, the jobs and the locals change, the restore
\* and the caches do not.
LEMMA InLoopType ==
  ASSUME IInv, InLoop
  PROVE  /\ snap \in Restores /\ k \in 1 .. Len(snap.insts)
         /\ snap.insts[k] \in InstanceStatus
         /\ Goal \in Seq(InstanceSpecs) /\ Goal[k].name \in Instances
         /\ Len(snap.insts) = Len(Goal) /\ snap.phase # "Completed"
<1>1. /\ snap \in Restores /\ Goal \in Seq(InstanceSpecs) /\ Len(snap.insts) = Len(Goal)
      /\ snap.phase # "Completed" /\ k \in Nat \ {0} /\ k <= Len(Goal)
  BY DEF InLoop, IInv, TypeOK, PassTyped, Versions
<1>2. snap.insts \in Seq(InstanceStatus) /\ k \in 1 .. Len(snap.insts)
  BY <1>1 DEF Restores
<1>3. snap.insts[k] \in InstanceStatus /\ Goal[k] \in InstanceSpecs
  BY <1>1, <1>2
<1> QED BY <1>1, <1>2, <1>3 DEF InstanceSpecs

LEMMA SkipCompletedPreserves ==
  ASSUME IInv, SkipCompleted PROVE IInv'
<1>1. StoredTyped /\ CachesTyped /\ LocalsTyped /\ GhostsTyped /\ PassTyped /\ Versions
  BY TypeParts DEF IInv
<1>2. /\ UNCHANGED <<restore, cluster, backup, jobs, marked, cRestore, cFresh, cCluster, cBackup, cJobs>>
      /\ UNCHANGED <<pc, snap, fresh, seen, job, restored, budget>>
      /\ k' = k + 1 /\ pc = "loop"
  BY DEF SkipCompleted, InLoop, stored, caches
<1>3. StoredTyped' /\ CachesTyped' /\ LocalsTyped' /\ GhostsTyped'
  BY <1>1, <1>2 DEF StoredTyped, CachesTyped, LocalsTyped, GhostsTyped
<1>4. PassTyped' /\ Versions'
  BY <1>1, <1>2 DEF PassTyped, Versions, LocalsTyped, Goal
<1> QED BY <1>3, <1>4, TypeParts DEF IInv

LEMMA FindJobPreserves ==
  ASSUME IInv, FindJob PROVE IInv'
<1>1. StoredTyped /\ CachesTyped /\ LocalsTyped /\ GhostsTyped /\ PassTyped /\ Versions
  BY TypeParts DEF IInv
<1>2. /\ UNCHANGED <<restore, cluster, backup, jobs, marked, cRestore, cFresh, cCluster, cBackup, cJobs>>
      /\ UNCHANGED <<snap, fresh, seen, k, restored, budget>>
      /\ pc' = "observe" /\ job' = snap.insts[k].inst /\ InLoop
  BY DEF FindJob, stored, caches
<1>3. /\ snap \in Restores /\ snap.phase # "Completed" /\ k <= Len(Goal)
      /\ Goal \in Seq(InstanceSpecs) /\ Len(snap.insts) = Len(Goal) /\ job' \in Instances
  BY <1>2, InLoopType DEF InLoop, InstanceStatus
<1>4. StoredTyped' /\ CachesTyped' /\ LocalsTyped' /\ GhostsTyped'
  BY <1>1, <1>2, <1>3 DEF StoredTyped, CachesTyped, LocalsTyped, GhostsTyped, Steps
<1>5. Goal' = Goal
  BY <1>2 DEF Goal
<1>6. PassTyped' /\ Versions'
  BY <1>1, <1>2, <1>3, <1>5 DEF PassTyped, Versions
<1> QED BY <1>4, <1>6, TypeParts DEF IInv

LEMMA StartJobType ==
  ASSUME StoredTyped, snap \in Restores, NEW i \in Instances,
         StartJob(i) \/ jobs' = jobs
  PROVE  jobs' \in Jobs
<1>1. [state |-> "new", uid |-> snap.uid] \in [state : JobStates, uid : Nat]
  BY DEF Restores, JobStates
<1> QED BY <1>1 DEF StartJob, StoredTyped, Jobs

LEMMA CreateJobPreserves ==
  ASSUME IInv, CreateJob PROVE IInv'
<1> DEFINE i == Goal[k].name
<1>1. StoredTyped /\ CachesTyped /\ LocalsTyped /\ GhostsTyped /\ PassTyped /\ Versions
  BY TypeParts DEF IInv
<1>2. /\ UNCHANGED <<restore, cluster, backup, marked, cRestore, cFresh, cCluster, cBackup, cJobs>>
      /\ UNCHANGED <<fresh, seen, k, restored>> /\ InLoop
  BY DEF CreateJob, caches
<1>3. /\ snap \in Restores /\ snap.phase # "Completed" /\ k <= Len(Goal)
      /\ Goal \in Seq(InstanceSpecs) /\ Len(snap.insts) = Len(Goal)
      /\ i \in Instances /\ k \in 1 .. Len(snap.insts)
  BY <1>2, InLoopType DEF InLoop
<1>4. Goal' = Goal
  BY <1>2 DEF Goal
<1>5. Fault \/ UNCHANGED budget
  BY DEF CreateJob
<1>6. StartJob(i) \/ jobs' = jobs
  BY DEF CreateJob
<1>7. StoredTyped' /\ CachesTyped' /\ GhostsTyped'
  <2>1. jobs' \in Jobs
    BY <1>1, <1>3, <1>6, StartJobType
  <2>2. budget' \in [restores : Nat, faults : Nat, edits : Nat, deletions : Nat]
    BY <1>5, FaultType DEF IInv
  <2> QED BY <1>1, <1>2, <2>1, <2>2 DEF StoredTyped, CachesTyped, GhostsTyped
<1>8. \/ pc' = "observe" /\ snap' = [snap EXCEPT !.insts[k].phase = "Running"] /\ job' = i
      \/ pc' = "fail" /\ UNCHANGED <<snap, job>>
  BY DEF CreateJob
<1>9. /\ snap' \in Restores /\ Len(snap'.insts) = Len(snap.insts) /\ snap'.phase = snap.phase
      /\ job' \in Instances \cup {Absent} /\ pc' \in {"observe", "fail"}
      /\ pc' = "observe" => job' \in Instances
  <2>1. "Running" \in InstancePhases
    BY DEF InstancePhases
  <2>2. CASE pc' = "observe" /\ snap' = [snap EXCEPT !.insts[k].phase = "Running"] /\ job' = i
    <3>1. /\ snap' \in Restores /\ Len(snap'.insts) = Len(snap.insts)
          /\ snap'.phase = snap.phase
      BY <1>3, <2>1, <2>2, SetPhaseType
    <3> QED BY <1>3, <2>2, <3>1
  <2>3. CASE pc' = "fail" /\ UNCHANGED <<snap, job>>
    BY <1>1, <1>3, <2>3 DEF LocalsTyped
  <2> QED BY <1>8, <2>2, <2>3
<1>10. LocalsTyped'
  BY <1>1, <1>2, <1>9 DEF LocalsTyped, Steps
<1>11. PassTyped' /\ Versions'
  BY <1>1, <1>2, <1>3, <1>4, <1>9, AbsentAssumption DEF PassTyped, Versions
<1> QED BY <1>7, <1>10, <1>11, TypeParts DEF IInv

LEMMA ObserveJobPreserves ==
  ASSUME IInv, ObserveJob PROVE IInv'
<1>1. StoredTyped /\ CachesTyped /\ LocalsTyped /\ GhostsTyped /\ PassTyped /\ Versions
  BY TypeParts DEF IInv
<1>2. /\ UNCHANGED <<restore, cluster, backup, jobs, marked, cRestore, cFresh, cCluster, cBackup, cJobs>>
      /\ UNCHANGED <<fresh, seen, restored, budget>>
      /\ pc = "observe" /\ pc' = "loop" /\ k' = k + 1 /\ job' = Absent
      /\ snap' = [snap EXCEPT !.insts[k].phase =
                    ObservedPhase(cJobs[job].state, snap.insts[k].phase)]
  BY DEF ObserveJob, stored, caches
<1>3. /\ snap \in Restores /\ snap.phase # "Completed" /\ k <= Len(Goal) /\ k # 0 /\ k \in Nat
      /\ Goal \in Seq(InstanceSpecs) /\ Len(snap.insts) = Len(Goal)
  BY <1>1, <1>2 DEF PassTyped, Versions, LocalsTyped
<1>4. k \in 1 .. Len(snap.insts) /\ snap.insts[k].phase \in InstancePhases
  <2>1. k \in 1 .. Len(snap.insts) /\ snap.insts \in Seq(InstanceStatus)
    BY <1>3 DEF Restores
  <2>2. snap.insts[k] \in InstanceStatus
    BY <2>1
  <2> QED BY <2>1, <2>2 DEF InstanceStatus
<1>5. snap' \in Restores /\ Len(snap'.insts) = Len(snap.insts) /\ snap'.phase = snap.phase
  BY <1>2, <1>3, <1>4, ObservedPhaseType, SetPhaseType
<1>6. StoredTyped' /\ CachesTyped' /\ LocalsTyped' /\ GhostsTyped'
  BY <1>1, <1>2, <1>3, <1>5 DEF StoredTyped, CachesTyped, LocalsTyped, GhostsTyped, Steps
<1>7. Goal' = Goal
  BY <1>2 DEF Goal
<1>8. snap' # Absent
  BY <1>5, AbsentAssumption
<1>9. Versions'
  BY <1>1, <1>2, <1>3, <1>5, <1>8 DEF Versions
<1>10. PassTyped'
  <2>1. Goal' \in Seq(InstanceSpecs) /\ Len(snap'.insts) = Len(Goal')
    BY <1>3, <1>5, <1>7
  <2>2. k' # 0
    BY <1>2, <1>3
  <2> QED BY <1>2, <1>5, <2>1, <2>2 DEF PassTyped
<1> QED BY <1>6, <1>9, <1>10, TypeParts DEF IInv

LEMMA DeleteJobPreserves ==
  ASSUME IInv, DeleteJob PROVE IInv'
<1>1. StoredTyped /\ CachesTyped /\ LocalsTyped /\ GhostsTyped /\ PassTyped /\ Versions
  BY TypeParts DEF IInv
<1>2. /\ UNCHANGED <<restore, cluster, backup, jobs, cRestore, cFresh, cCluster, cBackup, cJobs>>
      /\ UNCHANGED restored /\ pc = "cleanup" /\ k <= Len(snap.insts)
  BY DEF DeleteJob, caches
<1>3. snap.insts[k].inst \in Instances
  <2>1. snap \in Restores /\ k \in 1 .. Len(snap.insts)
    BY <1>1, <1>2 DEF PassTyped, LocalsTyped
  <2>2. snap.insts[k] \in InstanceStatus
    BY <2>1 DEF Restores
  <2> QED BY <2>2 DEF InstanceStatus
<1>4. marked' \subseteq Instances
  BY <1>1, <1>3 DEF DeleteJob, Delete, StoredTyped
<1>5. Fault \/ UNCHANGED budget
  BY DEF DeleteJob
<1>6. StoredTyped' /\ CachesTyped' /\ GhostsTyped'
  BY <1>1, <1>2, <1>4, <1>5, FaultType DEF IInv, StoredTyped, CachesTyped, GhostsTyped
<1>7. CASE k' = k + 1 /\ UNCHANGED <<pc, snap, fresh, seen, job>>
  <2>1. LocalsTyped'
    BY <1>1, <1>7 DEF LocalsTyped
  <2>2. PassTyped' /\ Versions'
    BY <1>1, <1>2, <1>7 DEF PassTyped, Versions, LocalsTyped
  <2> QED BY <1>6, <2>1, <2>2, TypeParts DEF IInv
<1>8. CASE EndPass
  <2>1. cFresh' => cRestore' = restore'
    BY <1>1, <1>2 DEF Versions
  <2> QED BY <1>6, <1>8, <2>1, EndPassType, TypeParts DEF IInv
<1> QED BY <1>7, <1>8 DEF DeleteJob

-----------------------------------------------------------------------------
(* The environment *)

LEMMA CrashPreserves ==
  ASSUME IInv, Crash PROVE IInv'
<1>1. StoredTyped /\ CachesTyped /\ GhostsTyped /\ Versions
  BY TypeParts DEF IInv
<1>2. UNCHANGED <<restore, cluster, backup, jobs, marked, restored>> /\ EndPass
      /\ UNCHANGED <<cRestore, cFresh, cCluster, cBackup, cJobs>>
  BY DEF Crash, stored, caches
<1>3. StoredTyped' /\ CachesTyped' /\ GhostsTyped'
  BY <1>1, <1>2, FaultType DEF Crash, IInv, StoredTyped, CachesTyped, GhostsTyped
<1>4. cFresh' => cRestore' = restore'
  BY <1>1, <1>2 DEF Versions
<1> QED BY <1>2, <1>3, <1>4, EndPassType, TypeParts DEF IInv

\* Steps that leave the pass in flight alone, and change the restore or its
\* cached copy only in ways the resourceVersions show.
LEMMA PassUntouched ==
  ASSUME IInv, UNCHANGED <<pc, snap, seen, k, job>>,
         fresh' = fresh \/ fresh' = FALSE,
         fresh' => restore' = restore,
         cFresh' => cRestore' = restore'
  PROVE  LocalsTyped' /\ PassTyped' /\ Versions'
<1>1. LocalsTyped /\ PassTyped /\ Versions
  BY TypeParts DEF IInv
<1>2. Goal' = Goal
  BY DEF Goal
<1>3. LocalsTyped'
  BY <1>1 DEF LocalsTyped
<1>4. PassTyped'
  BY <1>1, <1>2 DEF PassTyped
<1>5. fresh' => fresh
  OBVIOUS
<1>6. Versions'
  BY <1>1, <1>5 DEF Versions
<1> QED BY <1>3, <1>4, <1>6

LEMMA InformersPreserve ==
  ASSUME IInv, Informers PROVE IInv'
<1>1. StoredTyped /\ CachesTyped /\ GhostsTyped /\ Versions
  BY TypeParts DEF IInv
<1>2. UNCHANGED <<restore, cluster, backup, jobs, marked, pc, snap, fresh, seen, k, job, restored, budget>>
  BY DEF Informers, stored, pass
<1>3. StoredTyped' /\ GhostsTyped'
  BY <1>1, <1>2 DEF StoredTyped, GhostsTyped
<1>4. CachesTyped' /\ (cFresh' => cRestore' = restore')
  <2>1. CASE SyncRestore
    BY <1>1, <1>2, <2>1 DEF SyncRestore, StoredTyped, CachesTyped
  <2>2. CASE SyncCluster
    BY <1>1, <1>2, <2>2 DEF SyncCluster, StoredTyped, CachesTyped, Versions
  <2>3. CASE SyncBackup
    BY <1>1, <1>2, <2>3 DEF SyncBackup, StoredTyped, CachesTyped, Versions
  <2>4. CASE SyncJobs
    BY <1>1, <1>2, <2>4 DEF SyncJobs, StoredTyped, CachesTyped, Versions
  <2> QED BY <2>1, <2>2, <2>3, <2>4 DEF Informers
<1>5. LocalsTyped' /\ PassTyped' /\ Versions'
  BY <1>2, <1>4, PassUntouched
<1> QED BY <1>3, <1>4, <1>5, TypeParts DEF IInv

LEMMA JobStepsPreserve ==
  ASSUME IInv, NEW i \in Instances, RunJob(i) \/ CollectJob(i) \/ LoseJob(i) PROVE IInv'
<1>1. StoredTyped /\ CachesTyped /\ GhostsTyped /\ Versions
  BY TypeParts DEF IInv
<1>2. /\ UNCHANGED <<restore, cluster, backup, cRestore, cFresh, cCluster, cBackup, cJobs>>
      /\ UNCHANGED <<pc, snap, fresh, seen, k, job>>
  BY DEF RunJob, CollectJob, LoseJob, caches, pass
<1>3. jobs[i] \in [state : JobStates, uid : Nat]
  BY <1>1 DEF StoredTyped, Jobs
<1>4. jobs' \in Jobs /\ marked' \subseteq Instances /\ GhostsTyped'
  <2>1. CASE RunJob(i)
    <3>1. PICK to \in JobStates :
            /\ jobs' = [jobs EXCEPT ![i].state = to]
            /\ restored' = IF to = "succeeded" THEN restored \cup {<<jobs[i].uid, i>>} ELSE restored
      BY <2>1 DEF RunJob
    <3>2. jobs' \in Jobs
      BY <1>1, <3>1 DEF StoredTyped, Jobs
    <3>3. restored' \subseteq Nat \X Instances /\ budget' = budget
      BY <1>1, <1>3, <2>1, <3>1 DEF RunJob, GhostsTyped
    <3>4. marked' = marked
      BY <2>1 DEF RunJob
    <3> QED BY <1>1, <3>2, <3>3, <3>4 DEF StoredTyped, GhostsTyped
  <2>2. CASE CollectJob(i) \/ LoseJob(i)
    <3>1. NoJob \in [state : JobStates, uid : Nat]
      BY DEF NoJob, JobStates
    <3>2. jobs' \in Jobs
      BY <1>1, <2>2, <3>1 DEF CollectJob, LoseJob, StoredTyped, Jobs
    <3>3. GhostsTyped'
      BY <1>1, <2>2 DEF CollectJob, LoseJob, GhostsTyped
    <3>4. marked' \subseteq Instances
      BY <1>1, <2>2 DEF CollectJob, LoseJob, StoredTyped
    <3> QED BY <3>2, <3>3, <3>4
  <2> QED BY <2>1, <2>2
<1>5. StoredTyped' /\ CachesTyped'
  BY <1>1, <1>2, <1>4 DEF StoredTyped, CachesTyped
<1>6. LocalsTyped' /\ PassTyped' /\ Versions'
  BY <1>1, <1>2, PassUntouched DEF Versions
<1> QED BY <1>4, <1>5, <1>6, TypeParts DEF IInv

LEMMA EditPreserves ==
  ASSUME IInv, Edit PROVE IInv'
<1>1. StoredTyped /\ CachesTyped /\ GhostsTyped /\ Versions
  BY TypeParts DEF IInv
<1>2. /\ UNCHANGED <<restore, jobs, marked, cRestore, cFresh, cCluster, cBackup, cJobs>>
      /\ UNCHANGED <<pc, snap, fresh, seen, k, job, restored>>
  BY DEF Edit, caches, pass
<1>3. StoredTyped' /\ CachesTyped' /\ GhostsTyped'
  BY <1>1, <1>2 DEF Edit, StoredTyped, CachesTyped, GhostsTyped
<1>4. LocalsTyped' /\ PassTyped' /\ Versions'
  BY <1>1, <1>2, PassUntouched DEF Versions
<1> QED BY <1>3, <1>4, TypeParts DEF IInv

LEMMA DeleteRestorePreserves ==
  ASSUME IInv, DeleteRestore PROVE IInv'
<1>1. StoredTyped /\ CachesTyped /\ GhostsTyped
  BY TypeParts DEF IInv
<1>2. /\ UNCHANGED <<cluster, backup, jobs, marked, cRestore, cCluster, cBackup, cJobs>>
      /\ UNCHANGED <<pc, snap, seen, k, job, restored, budget>>
      /\ cFresh' = FALSE /\ fresh' = FALSE
  BY DEF DeleteRestore
<1>3. restore' \in Restores \cup {Absent}
  <2>1. restore \in Restores
    BY <1>1 DEF DeleteRestore, StoredTyped
  <2> QED BY <2>1 DEF DeleteRestore, Restores
<1>4. StoredTyped' /\ CachesTyped' /\ GhostsTyped'
  BY <1>1, <1>2, <1>3 DEF StoredTyped, CachesTyped, GhostsTyped
<1>5. LocalsTyped' /\ PassTyped' /\ Versions'
  BY <1>2, PassUntouched
<1> QED BY <1>4, <1>5, TypeParts DEF IInv

LEMMA CreateRestorePreserves ==
  ASSUME IInv, CreateRestore PROVE IInv'
<1>1. StoredTyped /\ CachesTyped /\ GhostsTyped /\ Versions
  BY TypeParts DEF IInv
<1>2. /\ UNCHANGED <<cluster, backup, jobs, marked, cRestore, cCluster, cBackup, cJobs>>
      /\ UNCHANGED <<pc, snap, fresh, seen, k, job, restored>>
      /\ cFresh' = FALSE /\ restore = Absent
  BY DEF CreateRestore, pass
<1>3. restore' \in Restores /\ budget' \in [restores : Nat, faults : Nat, edits : Nat, deletions : Nat]
  <2>1. budget.restores \in Nat
    BY <1>1 DEF GhostsTyped
  <2>2. \A uid \in Nat : NewRestore(uid) \in Restores
    BY DEF NewRestore, Restores, Phases
  <2>3. restore' \in Restores
    BY <2>1, <2>2 DEF CreateRestore
  <2>4. budget' \in [restores : Nat, faults : Nat, edits : Nat, deletions : Nat]
    BY <1>1 DEF CreateRestore, GhostsTyped
  <2> QED BY <2>3, <2>4
<1>4. StoredTyped' /\ CachesTyped' /\ GhostsTyped'
  BY <1>1, <1>2, <1>3 DEF StoredTyped, CachesTyped, GhostsTyped
<1>5. ~fresh'
  BY <1>1, <1>2 DEF Versions
<1>6. LocalsTyped' /\ PassTyped' /\ Versions'
  BY <1>2, <1>5, PassUntouched
<1> QED BY <1>4, <1>6, TypeParts DEF IInv

-----------------------------------------------------------------------------
(* The theorems *)

LEMMA StepPreserves == IInv /\ [Next]_vars => IInv'
<1> SUFFICES ASSUME IInv, [Next]_vars PROVE IInv'
  OBVIOUS
<1>1. CASE BeginDeletion \/ BeginFinalizer \/ BeginRestore  BY <1>1, BeginPreserves
<1>2. CASE AddFinalizer     BY <1>2, AddFinalizerPreserves
<1>3. CASE InitStatuses     BY <1>3, InitStatusesPreserves
<1>4. CASE SkipCompleted    BY <1>4, SkipCompletedPreserves
<1>5. CASE FindJob          BY <1>5, FindJobPreserves
<1>6. CASE CreateJob        BY <1>6, CreateJobPreserves
<1>7. CASE ObserveJob       BY <1>7, ObserveJobPreserves
<1>8. CASE SaveStatus       BY <1>8, SaveStatusPreserves
<1>9. CASE ReportFailure    BY <1>9, ReportFailurePreserves
<1>10. CASE DeleteJob       BY <1>10, DeleteJobPreserves
<1>11. CASE RemoveFinalizer BY <1>11, RemoveFinalizerPreserves
<1>12. CASE Crash           BY <1>12, CrashPreserves
<1>13. CASE Informers       BY <1>13, InformersPreserve
<1>14. CASE Edit            BY <1>14, EditPreserves
<1>15. CASE DeleteRestore   BY <1>15, DeleteRestorePreserves
<1>16. CASE CreateRestore   BY <1>16, CreateRestorePreserves
<1>17. CASE \E i \in Instances : RunJob(i) \/ CollectJob(i) \/ LoseJob(i)
  BY <1>17, JobStepsPreserve
<1>18. CASE UNCHANGED vars
  <2>1. /\ UNCHANGED <<restore, cluster, backup, jobs, marked, cRestore, cFresh, cCluster, cBackup, cJobs>>
        /\ UNCHANGED <<pc, snap, fresh, seen, k, job, restored, budget>>
    BY <1>18 DEF vars, stored, caches, pass
  <2>2. StoredTyped' /\ CachesTyped' /\ GhostsTyped'
    BY <2>1, TypeParts DEF IInv, StoredTyped, CachesTyped, GhostsTyped
  <2>3. LocalsTyped' /\ PassTyped' /\ Versions'
    BY <2>1, PassUntouched DEF IInv, Versions
  <2> QED BY <2>2, <2>3, TypeParts DEF IInv
<1> QED BY <1>1, <1>2, <1>3, <1>4, <1>5, <1>6, <1>7, <1>8, <1>9, <1>10, <1>11, <1>12,
           <1>13, <1>14, <1>15, <1>16, <1>17, <1>18 DEF Next, Reconcile, Environment

\* IInv is an inductive invariant of the controller and its environment.
THEOREM Invariance == Spec => []IInv
BY InitEstablishes, StepPreserves, PTL DEF Spec

\* Type correctness: above all, the loop of reconcileRestore never looks at an
\* instance status that is not there.
THEOREM TypeCorrect == Spec => []TypeOK
<1>1. IInv => TypeOK
  BY DEF IInv
<1> QED BY <1>1, Invariance, PTL

\* A write of the restore keeps a Completed phase when what it writes does not
\* come from a copy with another phase.
LEMMA WriteFinal ==
  ASSUME NEW new, Accepted(new) \/ Refused \/ ReplyLost(new),
         fresh /\ restore # Absent /\ restore.phase = "Completed" /\ new # Absent
           => new.phase = "Completed"
  PROVE  (restore # Absent /\ restore.phase = "Completed" /\ restore' # Absent)
           => restore'.phase = "Completed"
BY DEF Accepted, Refused, ReplyLost, Commit, stored

StaysCompleted ==
  (restore # Absent /\ restore.phase = "Completed" /\ restore' # Absent)
    => restore'.phase = "Completed"

LEMMA StepFinal == IInv /\ [Next]_vars => StaysCompleted
<1> SUFFICES ASSUME IInv, [Next]_vars PROVE StaysCompleted
  OBVIOUS
<1>0. Versions /\ PassTyped
  BY DEF IInv
<1>1. CASE AddFinalizer
  <2>1. snap \in Restores
    BY <1>0, <1>1 DEF AddFinalizer, PassTyped
  <2>2. [snap EXCEPT !.finalizer = TRUE].phase = snap.phase
    BY <2>1 DEF Restores
  <2> QED BY <1>0, <1>1, <2>2, WriteFinal DEF AddFinalizer, Versions, StaysCompleted
<1>2. CASE InitStatuses
  BY <1>0, <1>2, WriteFinal DEF InitStatuses, Versions, StaysCompleted
<1>3. CASE SaveStatus
  \* The copy is not Completed, so it is not the stored version.
  BY <1>0, <1>3, WriteFinal DEF SaveStatus, Versions, StaysCompleted
<1>4. CASE ReportFailure
  BY <1>0, <1>4, WriteFinal DEF ReportFailure, Versions, StaysCompleted
<1>5. CASE RemoveFinalizer
  BY <1>5, WriteFinal DEF RemoveFinalizer, StaysCompleted
<1>6. CASE DeleteRestore
  <2>1. restore \in Restores
    BY <1>6 DEF DeleteRestore, IInv, TypeOK
  <2> QED BY <1>6, <2>1 DEF DeleteRestore, Restores, StaysCompleted
<1>7. CASE CreateRestore
  BY <1>7 DEF CreateRestore, StaysCompleted
<1>8. CASE restore' = restore
  BY <1>8 DEF StaysCompleted
<1>9. CASE \/ BeginDeletion \/ BeginFinalizer \/ BeginRestore \/ SkipCompleted \/ FindJob
           \/ CreateJob \/ ObserveJob \/ DeleteJob \/ Crash \/ Informers \/ Edit
           \/ (\E i \in Instances : RunJob(i) \/ CollectJob(i) \/ LoseJob(i)) \/ UNCHANGED vars
  BY <1>8, <1>9 DEF BeginDeletion, BeginFinalizer, BeginRestore, Begin, SkipCompleted, FindJob,
       CreateJob, ObserveJob, DeleteJob, Crash, Informers, Edit, RunJob, CollectJob, LoseJob,
       vars, stored
<1> QED BY <1>1, <1>2, <1>3, <1>4, <1>5, <1>6, <1>7, <1>9 DEF Next, Reconcile, Environment

\* A Completed restore stays Completed until it is gone: resourceVersions keep
\* passes that started from an older copy from storing another phase, however
\* calls fail, caches lag and users edit.
THEOREM CompletionFinal == Spec => CompletedIsFinal
<1>1. IInv /\ [Next]_vars => [StaysCompleted]_vars
  BY StepFinal
<1>2. Spec => [][StaysCompleted]_vars
  BY <1>1, Invariance, PTL DEF Spec
<1> QED BY <1>2 DEF StaysCompleted, CompletedIsFinal

=============================================================================
