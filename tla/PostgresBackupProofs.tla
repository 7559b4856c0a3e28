------------------------ MODULE PostgresBackupProofs ------------------------
(***************************************************************************)
(* Proofs about PostgresBackup, for all instances, specs and bounds:       *)
(*   TypeCorrect       every reachable state is well typed;                *)
(*   CompletionIsTrue  a backup becomes Completed only after a job of its  *)
(*                     own succeeded, for the instance the status names.   *)
(***************************************************************************)
EXTENDS PostgresBackup, TLAPS

\* What a pass knows at each of its steps.
PassTyped ==
  /\ pc # "idle" => snap \in Backups
  /\ pc \in {"apply", "observe"} => aim \in Aims

\* What comparing resourceVersions guarantees.  A pass on its way to report a
\* failure may hold a copy with a phase that was not stored.
Versions ==
  /\ cFresh => cBackup = backup
  /\ fresh => /\ backup # Absent /\ snap # Absent /\ snap.uid = backup.uid
              /\ pc # "fail" => snap.phase = backup.phase

\* A job that counts as succeeded did so.
JobsTrue ==
  /\ job.state = "succeeded" => <<job.uid, job.aim>> \in saved
  /\ cJob.state = "succeeded" => <<cJob.uid, cJob.aim>> \in saved

\* Once a pass has created its job, whatever job there is, stored or cached, is
\* that one: only the worker creates jobs.
Observed(j) == j.state = "none" \/ (j.uid = snap.uid /\ j.aim = aim)
ObservesOwnJob == pc = "observe" => Observed(job) /\ Observed(cJob)

IInv == TypeOK /\ PassTyped /\ Versions /\ JobsTrue /\ ObservesOwnJob

-----------------------------------------------------------------------------
(* Typing, grouped as the handlers change the variables *)

StoredTyped ==
  /\ backup \in Backups \cup {Absent} /\ cluster \in ClusterSpecs \cup {Absent}
  /\ job \in Jobs /\ marked \in BOOLEAN
CachesTyped ==
  /\ cBackup \in Backups \cup {Absent} /\ cFresh \in BOOLEAN
  /\ cCluster \in ClusterSpecs \cup {Absent} /\ cJob \in Jobs
LocalsTyped ==
  /\ pc \in Steps /\ fresh \in BOOLEAN
  /\ snap \in Backups \cup {Absent} /\ aim \in Aims \cup {Unset}
GhostsTyped ==
  /\ saved \subseteq Nat \X Aims
  /\ budget \in [faults : Nat, edits : Nat]

LEMMA TypeParts ==
  /\ TypeOK <=> StoredTyped /\ CachesTyped /\ LocalsTyped /\ GhostsTyped
  /\ TypeOK' <=> StoredTyped' /\ CachesTyped' /\ LocalsTyped' /\ GhostsTyped'
BY DEF TypeOK, StoredTyped, CachesTyped, LocalsTyped, GhostsTyped

LEMMA FaultType ==
  ASSUME GhostsTyped, Fault \/ UNCHANGED budget
  PROVE  budget' \in [faults : Nat, edits : Nat]
BY DEF GhostsTyped, Fault

LEMMA NoJobType == NoJob \in Jobs /\ NoJob.state = "none"
BY DEF NoJob, Jobs, JobStates, Aims

LEMMA NewBackupType ==
  ASSUME NEW uid \in Nat, NEW spec \in BackupSpecs
  PROVE  NewBackup(uid, spec) \in Backups /\ NewBackup(uid, spec).phase = ""
BY DEF NewBackup, Backups, Phases

LEMMA NamedType == \A a \in Aims : Named(a) \in Instances
BY PrimaryAssumption DEF Named, Aims

LEMMA ObservedPhaseType ==
  \A state \in JobStates : ObservedPhase(state) \in Phases
                           /\ (ObservedPhase(state) = "Completed" => state = "succeeded")
BY DEF ObservedPhase, JobStates, Phases

-----------------------------------------------------------------------------
(* The invariant *)

LEMMA InitEstablishes == Init => IInv
<1> SUFFICES ASSUME Init PROVE IInv
  OBVIOUS
<1>0. MaxEdits + 1 \in Nat
  BY BackupBounds
<1>1. PICK spec \in BackupSpecs : backup = NewBackup(MaxEdits + 1, spec)
  BY DEF Init
<1>2. backup \in Backups /\ job \in Jobs /\ job.state = "none"
  BY <1>0, <1>1, NewBackupType, NoJobType DEF Init
<1>3. budget \in [faults : Nat, edits : Nat]
  <2>1. budget = [faults |-> MaxFaults, edits |-> MaxEdits]
    BY DEF Init
  <2> QED BY <2>1, BackupBounds
<1>4. StoredTyped /\ CachesTyped
  BY <1>2 DEF Init, StoredTyped, CachesTyped
<1>5. LocalsTyped /\ GhostsTyped
  BY <1>3 DEF Init, LocalsTyped, GhostsTyped, Steps
<1>6. PassTyped /\ Versions /\ JobsTrue /\ ObservesOwnJob
  BY <1>2 DEF Init, PassTyped, Versions, JobsTrue, ObservesOwnJob
<1> QED BY <1>4, <1>5, <1>6, TypeParts DEF IInv

\* A pass that ends knows nothing.
LEMMA EndPassType ==
  ASSUME EndPass, cFresh' => cBackup' = backup'
  PROVE  LocalsTyped' /\ PassTyped' /\ Versions' /\ ObservesOwnJob'
BY DEF EndPass, LocalsTyped, PassTyped, Versions, ObservesOwnJob, Steps

LEMMA BeginPreserves ==
  ASSUME IInv, BeginFinalizer \/ BeginDeletion \/ BeginBackup PROVE IInv'
<1>1. StoredTyped /\ CachesTyped /\ LocalsTyped /\ GhostsTyped /\ Versions /\ JobsTrue
  BY TypeParts DEF IInv
<1>2. Begin
  BY DEF BeginFinalizer, BeginDeletion, BeginBackup
<1>3. /\ UNCHANGED <<backup, cluster, job, marked, cBackup, cFresh, cCluster, cJob, saved, budget>>
      /\ pc = "idle" /\ snap' = cBackup /\ fresh' = cFresh /\ cBackup # Absent
  BY <1>2 DEF Begin, stored, caches
<1>4. cBackup \in Backups
  BY <1>1, <1>3 DEF CachesTyped
<1>5. /\ pc' \in {"finalize", "cleanup", "fail", "apply"}
      /\ aim' = aim \/ aim' \in Aims
      /\ pc' = "apply" => aim' \in Aims
  <2>1. CASE BeginFinalizer \/ BeginDeletion
    BY <2>1 DEF BeginFinalizer, BeginDeletion
  <2>2. CASE BeginBackup
    <3>1. cBackup.spec \in BackupSpecs
      BY <1>4 DEF Backups
    <3>2. cCluster # Absent => cCluster \in ClusterSpecs
      BY <1>1 DEF CachesTyped
    <3> QED BY <2>2, <3>1, <3>2, TargetAssumption DEF BeginBackup
  <2> QED BY <2>1, <2>2
<1>6. StoredTyped' /\ CachesTyped' /\ GhostsTyped' /\ LocalsTyped'
  BY <1>1, <1>3, <1>4, <1>5 DEF StoredTyped, CachesTyped, GhostsTyped, LocalsTyped, Steps
<1>7. PassTyped' /\ Versions' /\ JobsTrue' /\ ObservesOwnJob'
  BY <1>1, <1>3, <1>4, <1>5 DEF PassTyped, Versions, JobsTrue, ObservesOwnJob
<1> QED BY <1>6, <1>7, TypeParts DEF IInv

\* A write of the backup, whatever becomes of it.
LEMMA WriteKeeps ==
  ASSUME IInv, NEW new \in Backups \cup {Absent},
         Accepted(new) \/ Refused \/ ReplyLost(new), UNCHANGED saved
  PROVE  /\ StoredTyped' /\ CachesTyped' /\ GhostsTyped' /\ JobsTrue'
         /\ cFresh' => cBackup' = backup'
         /\ UNCHANGED <<job, cJob>>
         /\ Refused => UNCHANGED backup
<1>1. StoredTyped /\ CachesTyped /\ GhostsTyped /\ Versions /\ JobsTrue
  BY TypeParts DEF IInv
<1>2. Fault \/ UNCHANGED budget
  BY DEF Accepted, Refused, ReplyLost
<1>3. GhostsTyped'
  BY <1>1, <1>2, FaultType DEF GhostsTyped
<1>4. CASE Commit(new)
  <2>1. /\ backup' = new /\ UNCHANGED <<cluster, job, marked, cBackup, cCluster, cJob>>
        /\ cFresh' = FALSE \/ (new = backup /\ cFresh' = cFresh)
    BY <1>4 DEF Commit
  <2>2. StoredTyped' /\ JobsTrue'
    BY <1>1, <2>1 DEF StoredTyped, JobsTrue
  <2>3. CachesTyped' /\ (cFresh' => cBackup' = backup')
    <3>1. CASE cFresh' = FALSE
      BY <1>1, <2>1, <3>1 DEF CachesTyped
    <3>2. CASE new = backup /\ cFresh' = cFresh
      BY <1>1, <2>1, <3>2 DEF CachesTyped, Versions
    <3> QED BY <2>1, <3>1, <3>2
  <2>4. Refused => UNCHANGED backup
    BY DEF Refused, stored
  <2> QED BY <1>3, <2>1, <2>2, <2>3, <2>4
<1>5. CASE UNCHANGED <<stored, caches>>
  BY <1>1, <1>3, <1>5 DEF StoredTyped, CachesTyped, JobsTrue, Versions, stored, caches
<1> QED BY <1>4, <1>5 DEF Accepted, Refused, ReplyLost

LEMMA LastWriteKeeps ==
  ASSUME IInv, NEW new \in Backups \cup {Absent},
         Accepted(new) \/ Refused \/ ReplyLost(new), EndPass, UNCHANGED saved
  PROVE  IInv'
BY WriteKeeps, EndPassType, TypeParts DEF IInv

LEMMA LastWritesPreserve ==
  ASSUME IInv, AddFinalizer \/ ReportFailure \/ RemoveFinalizer PROVE IInv'
<1>1. snap \in Backups
  BY DEF AddFinalizer, ReportFailure, RemoveFinalizer, IInv, PassTyped
<1>2. /\ [snap EXCEPT !.finalizer = TRUE] \in Backups \cup {Absent}
      /\ [snap EXCEPT !.phase = "Failed"] \in Backups \cup {Absent}
  BY <1>1 DEF Backups, Phases
<1>3. CASE AddFinalizer
  BY <1>2, <1>3, LastWriteKeeps DEF AddFinalizer
<1>4. CASE ReportFailure
  BY <1>2, <1>4, LastWriteKeeps DEF ReportFailure
<1>5. CASE RemoveFinalizer
  BY <1>5, LastWriteKeeps DEF RemoveFinalizer
<1> QED BY <1>3, <1>4, <1>5

LEMMA CreateJobPreserves ==
  ASSUME IInv, CreateJob PROVE IInv'
<1>1. /\ StoredTyped /\ CachesTyped /\ LocalsTyped /\ GhostsTyped
      /\ PassTyped /\ Versions /\ JobsTrue
  BY TypeParts DEF IInv
<1>2. /\ UNCHANGED <<backup, cluster, marked, cBackup, cFresh, cCluster, cJob>>
      /\ UNCHANGED <<snap, fresh, aim, saved>>
      /\ pc = "apply" /\ cJob.state = "none"
  BY DEF CreateJob, caches
<1>3. snap \in Backups /\ aim \in Aims
  BY <1>1, <1>2 DEF PassTyped
<1> DEFINE new == [state |-> "new", uid |-> snap.uid, aim |-> aim]
<1>4. new \in Jobs /\ new.state = "new" /\ new.uid = snap.uid /\ new.aim = aim
  BY <1>3 DEF Jobs, JobStates, Backups
<1>5. /\ job' = job \/ job' = new
      /\ pc' = "fail" \/ (pc' = "observe" /\ job' = new)
  BY DEF CreateJob
<1>6. Fault \/ UNCHANGED budget
  BY DEF CreateJob
<1> HIDE DEF new
<1>7. StoredTyped' /\ CachesTyped' /\ LocalsTyped'
  BY <1>1, <1>2, <1>4, <1>5 DEF StoredTyped, CachesTyped, LocalsTyped, Steps
<1>8. GhostsTyped'
  BY <1>1, <1>2, <1>6, FaultType DEF GhostsTyped
<1>9. PassTyped' /\ Versions'
  BY <1>1, <1>2, <1>3, <1>5 DEF PassTyped, Versions
<1>10. JobsTrue' /\ ObservesOwnJob'
  BY <1>1, <1>2, <1>4, <1>5 DEF JobsTrue, ObservesOwnJob, Observed
<1> QED BY <1>7, <1>8, <1>9, <1>10, TypeParts DEF IInv

LEMMA UpdateJobPreserves ==
  ASSUME IInv, UpdateJob PROVE IInv'
<1>1. /\ StoredTyped /\ CachesTyped /\ LocalsTyped /\ GhostsTyped
      /\ PassTyped /\ Versions /\ JobsTrue
  BY TypeParts DEF IInv
<1>2. /\ UNCHANGED <<backup, cluster, job, marked, cBackup, cFresh, cCluster, cJob>>
      /\ UNCHANGED <<snap, fresh, aim, saved, budget>>
      /\ pc = "apply" /\ pc' = "fail"
  BY DEF UpdateJob, stored, caches
<1>3. StoredTyped' /\ CachesTyped' /\ LocalsTyped' /\ GhostsTyped'
  BY <1>1, <1>2 DEF StoredTyped, CachesTyped, LocalsTyped, GhostsTyped, Steps
<1>4. PassTyped' /\ Versions' /\ JobsTrue' /\ ObservesOwnJob'
  BY <1>1, <1>2 DEF PassTyped, Versions, JobsTrue, ObservesOwnJob
<1> QED BY <1>3, <1>4, TypeParts DEF IInv

\* The copy with the result of the job.
LEMMA SavedCopyType ==
  ASSUME IInv, pc = "observe"
  PROVE  LET new == [snap EXCEPT !.phase = ObservedPhase(cJob.state),
                                 !.jobName = TRUE, !.target = Named(aim)]
         IN  /\ new \in Backups /\ new.uid = snap.uid /\ new.target = Named(aim)
             /\ new.phase = ObservedPhase(cJob.state)
<1>1. snap \in Backups /\ aim \in Aims /\ cJob.state \in JobStates
  BY DEF IInv, PassTyped, TypeOK, Jobs
<1>2. ObservedPhase(cJob.state) \in Phases /\ Named(aim) \in Instances
  BY <1>1, ObservedPhaseType, NamedType
<1> QED BY <1>1, <1>2 DEF Backups

LEMMA SaveStatusPreserves ==
  ASSUME IInv, SaveStatus PROVE IInv'
<1> DEFINE new == [snap EXCEPT !.phase = ObservedPhase(cJob.state),
                               !.jobName = TRUE, !.target = Named(aim)]
<1>1. /\ StoredTyped /\ CachesTyped /\ LocalsTyped /\ GhostsTyped
      /\ PassTyped /\ Versions /\ JobsTrue /\ pc = "observe" /\ saved' = saved
  BY TypeParts DEF IInv, SaveStatus
<1>2. new \in Backups /\ new.uid = snap.uid /\ snap \in Backups
  BY <1>1, SavedCopyType DEF PassTyped
<1>3. \/ pc' = "fail" /\ UNCHANGED <<stored, caches, snap, fresh, aim, budget>>
      \/ Accepted(new) /\ EndPass
      \/ /\ (Refused /\ fresh' = fresh) \/ (ReplyLost(new) /\ fresh' = FALSE)
         /\ pc' = "fail" /\ snap' = new /\ aim' = aim
  BY DEF SaveStatus
<1> HIDE DEF new
<1>4. CASE pc' = "fail" /\ UNCHANGED <<stored, caches, snap, fresh, aim, budget>>
  <2>1. UNCHANGED <<backup, cluster, job, marked, cBackup, cFresh, cCluster, cJob>>
    BY <1>4 DEF stored, caches
  <2>2. StoredTyped' /\ CachesTyped' /\ LocalsTyped' /\ GhostsTyped'
    BY <1>1, <1>4, <2>1 DEF StoredTyped, CachesTyped, LocalsTyped, GhostsTyped, Steps
  <2>3. PassTyped' /\ Versions' /\ JobsTrue' /\ ObservesOwnJob'
    BY <1>1, <1>2, <1>4, <2>1 DEF PassTyped, Versions, JobsTrue, ObservesOwnJob
  <2> QED BY <2>2, <2>3, TypeParts DEF IInv
<1>5. CASE Accepted(new) /\ EndPass
  BY <1>1, <1>2, <1>5, LastWriteKeeps
<1>6. CASE /\ (Refused /\ fresh' = fresh) \/ (ReplyLost(new) /\ fresh' = FALSE)
           /\ pc' = "fail" /\ snap' = new /\ aim' = aim
  <2>1. /\ StoredTyped' /\ CachesTyped' /\ GhostsTyped' /\ JobsTrue'
        /\ cFresh' => cBackup' = backup'
        /\ Refused => UNCHANGED backup
    BY <1>1, <1>2, <1>6, WriteKeeps
  <2>2. LocalsTyped' /\ PassTyped' /\ ObservesOwnJob'
    BY <1>1, <1>2, <1>6 DEF LocalsTyped, PassTyped, ObservesOwnJob, Steps
  <2>3. new # Absent
    BY <1>2, AbsentAssumption
  <2>4. Versions'
    BY <1>1, <1>2, <1>6, <2>1, <2>3 DEF Versions
  <2> QED BY <2>1, <2>2, <2>4, TypeParts DEF IInv
<1> QED BY <1>3, <1>4, <1>5, <1>6

LEMMA DeleteJobPreserves ==
  ASSUME IInv, DeleteJob PROVE IInv'
<1>1. /\ StoredTyped /\ CachesTyped /\ LocalsTyped /\ GhostsTyped
      /\ PassTyped /\ Versions /\ JobsTrue
  BY TypeParts DEF IInv
<1>2. /\ UNCHANGED <<backup, cluster, job, cBackup, cFresh, cCluster, cJob, saved>>
      /\ pc = "cleanup" /\ marked' \in {marked, job.state # "none"} /\ (Fault \/ UNCHANGED budget)
  BY DEF DeleteJob, Delete, caches
<1>3. StoredTyped' /\ CachesTyped' /\ JobsTrue'
  BY <1>1, <1>2 DEF StoredTyped, CachesTyped, JobsTrue
<1>4. GhostsTyped'
  BY <1>1, <1>2, FaultType DEF GhostsTyped
<1>5. CASE pc' = "release" /\ UNCHANGED <<snap, fresh, aim>>
  BY <1>1, <1>2, <1>3, <1>4, <1>5, TypeParts
     DEF IInv, LocalsTyped, PassTyped, Versions, ObservesOwnJob, Steps
<1>6. CASE EndPass
  <2>1. cFresh' => cBackup' = backup'
    BY <1>1, <1>2 DEF Versions
  <2> QED BY <1>3, <1>4, <1>6, <2>1, EndPassType, TypeParts DEF IInv
<1> QED BY <1>5, <1>6 DEF DeleteJob

-----------------------------------------------------------------------------
(* The environment *)

LEMMA CrashPreserves ==
  ASSUME IInv, Crash PROVE IInv'
<1>1. StoredTyped /\ CachesTyped /\ GhostsTyped /\ Versions /\ JobsTrue
  BY TypeParts DEF IInv
<1>2. /\ UNCHANGED <<backup, cluster, job, marked, cBackup, cFresh, cCluster, cJob, saved>>
      /\ Fault /\ EndPass
  BY DEF Crash, stored, caches
<1>3. StoredTyped' /\ CachesTyped' /\ JobsTrue' /\ (cFresh' => cBackup' = backup')
  BY <1>1, <1>2 DEF StoredTyped, CachesTyped, JobsTrue, Versions
<1>4. GhostsTyped'
  BY <1>1, <1>2, FaultType DEF GhostsTyped
<1> QED BY <1>2, <1>3, <1>4, EndPassType, TypeParts DEF IInv

\* Steps that leave the pass in flight alone, and do to the versions and the jobs
\* only what these show.
LEMMA PassUntouched ==
  ASSUME IInv, UNCHANGED <<pc, snap, aim>>,
         fresh' = fresh \/ fresh' = FALSE,
         fresh' => backup' = backup,
         cFresh' => cBackup' = backup',
         pc = "observe" => /\ job'.state = "none" \/ (job'.uid = job.uid /\ job'.aim = job.aim
                                                      /\ job.state # "none")
                           /\ cJob' \in {cJob, job}
  PROVE  LocalsTyped' /\ PassTyped' /\ Versions' /\ ObservesOwnJob'
<1>1. LocalsTyped /\ PassTyped /\ Versions /\ ObservesOwnJob
  BY TypeParts DEF IInv
<1>2. LocalsTyped' /\ PassTyped'
  BY <1>1 DEF LocalsTyped, PassTyped
<1>3. Versions'
  BY <1>1 DEF Versions
<1>4. ObservesOwnJob'
  BY <1>1 DEF ObservesOwnJob, Observed
<1> QED BY <1>2, <1>3, <1>4

LEMMA InformersPreserve ==
  ASSUME IInv, Informers PROVE IInv'
<1>1. StoredTyped /\ CachesTyped /\ GhostsTyped /\ Versions /\ JobsTrue
  BY TypeParts DEF IInv
<1>2. UNCHANGED <<backup, cluster, job, marked, pc, snap, fresh, aim, saved, budget>>
  BY DEF Informers, stored, pass
<1>3. StoredTyped' /\ GhostsTyped'
  BY <1>1, <1>2 DEF StoredTyped, GhostsTyped
<1>4. CachesTyped' /\ (cFresh' => cBackup' = backup') /\ cJob' \in {cJob, job}
  <2>1. CASE SyncBackup
    BY <1>1, <1>2, <2>1 DEF SyncBackup, StoredTyped, CachesTyped
  <2>2. CASE SyncCluster
    BY <1>1, <1>2, <2>2 DEF SyncCluster, StoredTyped, CachesTyped, Versions
  <2>3. CASE SyncJob
    BY <1>1, <1>2, <2>3 DEF SyncJob, StoredTyped, CachesTyped, Versions
  <2> QED BY <2>1, <2>2, <2>3 DEF Informers
<1>5. JobsTrue'
  BY <1>1, <1>2, <1>4 DEF JobsTrue
<1>6. LocalsTyped' /\ PassTyped' /\ Versions' /\ ObservesOwnJob'
  <2>1. pc = "observe" => job'.state = "none" \/ (job'.uid = job.uid /\ job'.aim = job.aim
                                                  /\ job.state # "none")
    BY <1>2
  <2> QED BY <1>2, <1>4, <2>1, PassUntouched
<1> QED BY <1>3, <1>4, <1>5, <1>6, TypeParts DEF IInv

LEMMA JobStepsPreserve ==
  ASSUME IInv, RunJob \/ CollectJob \/ LoseJob PROVE IInv'
<1>1. StoredTyped /\ CachesTyped /\ GhostsTyped /\ Versions /\ JobsTrue
  BY TypeParts DEF IInv
<1>2. /\ UNCHANGED <<backup, cluster, cBackup, cFresh, cCluster, cJob, pc, snap, fresh, aim>>
      /\ Fault \/ UNCHANGED budget
  BY DEF RunJob, CollectJob, LoseJob, caches, pass
<1>3. budget' \in [faults : Nat, edits : Nat]
  BY <1>1, <1>2, FaultType
<1>4. /\ job' \in Jobs /\ marked' \in BOOLEAN /\ saved' \subseteq Nat \X Aims /\ saved \subseteq saved'
      /\ job'.state = "succeeded" => <<job'.uid, job'.aim>> \in saved'
      /\ job'.state = "none" \/ (job'.uid = job.uid /\ job'.aim = job.aim /\ job.state # "none")
  <2>1. CASE RunJob
    <3>1. PICK to \in JobStates :
            /\ job.state \in {"new", "active", "retried"}
            /\ job' = [job EXCEPT !.state = to]
            /\ saved' = IF to = "succeeded" THEN saved \cup {<<job.uid, job.aim>>} ELSE saved
      BY <2>1 DEF RunJob
    <3>2. job \in Jobs /\ saved \subseteq Nat \X Aims
      BY <1>1 DEF StoredTyped, GhostsTyped
    <3>3. job' \in Jobs /\ job'.state = to /\ job'.uid = job.uid /\ job'.aim = job.aim
      BY <3>1, <3>2 DEF Jobs
    <3>4. job.uid \in Nat /\ job.aim \in Aims
      BY <3>2 DEF Jobs
    <3>5. marked' = marked
      BY <2>1 DEF RunJob
    <3> QED BY <1>1, <3>1, <3>2, <3>3, <3>4, <3>5 DEF StoredTyped
  <2>2. CASE CollectJob \/ LoseJob
    BY <1>1, <2>2, NoJobType DEF CollectJob, LoseJob, StoredTyped, GhostsTyped
  <2> QED BY <2>1, <2>2
<1>5. StoredTyped' /\ CachesTyped' /\ GhostsTyped' /\ JobsTrue'
  BY <1>1, <1>2, <1>3, <1>4 DEF StoredTyped, CachesTyped, GhostsTyped, JobsTrue
<1>6. LocalsTyped' /\ PassTyped' /\ Versions' /\ ObservesOwnJob'
  <2>1. fresh' => backup' = backup
    BY <1>2
  <2>2. cFresh' => cBackup' = backup'
    BY <1>1, <1>2 DEF Versions
  <2> QED BY <1>2, <1>4, <2>1, <2>2, PassUntouched
<1> QED BY <1>5, <1>6, TypeParts DEF IInv

LEMMA EditsPreserve ==
  ASSUME IInv, EditCluster \/ EditBackup \/ DeleteBackup \/ CreateBackup PROVE IInv'
<1>1. StoredTyped /\ CachesTyped /\ GhostsTyped /\ Versions /\ JobsTrue
  BY TypeParts DEF IInv
<1>2. /\ UNCHANGED <<job, marked, cBackup, cCluster, cJob, pc, snap, aim, saved>>
      /\ \/ UNCHANGED <<backup, cFresh, fresh>>
         \/ cFresh' = FALSE /\ fresh' = FALSE
  BY DEF EditCluster, EditBackup, DeleteBackup, CreateBackup, UserWrite, caches, pass
<1>3. /\ budget' \in [faults : Nat, edits : Nat]
      /\ cluster' \in ClusterSpecs \cup {Absent}
  BY <1>1 DEF EditCluster, EditBackup, DeleteBackup, CreateBackup, UserWrite, Spend,
              GhostsTyped, StoredTyped
<1>4. backup' \in Backups \cup {Absent}
  <2>1. backup # Absent => backup \in Backups
    BY <1>1 DEF StoredTyped
  <2>2. CASE EditCluster
    BY <1>1, <2>2 DEF EditCluster, StoredTyped
  <2>3. CASE EditBackup
    BY <2>1, <2>3 DEF EditBackup, UserWrite, Backups
  <2>4. CASE DeleteBackup
    BY <2>1, <2>4 DEF DeleteBackup, UserWrite, Backups
  <2>5. CASE CreateBackup
    <3>1. budget.edits \in Nat
      BY <1>1 DEF GhostsTyped
    <3> QED BY <2>5, <3>1, NewBackupType DEF CreateBackup, UserWrite
  <2> QED BY <2>2, <2>3, <2>4, <2>5
<1>5. StoredTyped' /\ CachesTyped' /\ GhostsTyped' /\ JobsTrue'
  BY <1>1, <1>2, <1>3, <1>4 DEF StoredTyped, CachesTyped, GhostsTyped, JobsTrue
<1>6. LocalsTyped' /\ PassTyped' /\ Versions' /\ ObservesOwnJob'
  <2>1. fresh' => backup' = backup
    BY <1>2
  <2>2. cFresh' => cBackup' = backup'
    BY <1>1, <1>2 DEF Versions
  <2>3. ObservesOwnJob'
    BY <1>2 DEF IInv, ObservesOwnJob, Observed
  <2>4. LocalsTyped' /\ PassTyped'
    BY <1>2, TypeParts DEF IInv, LocalsTyped, PassTyped
  <2>5. Versions'
    BY <1>1, <1>2, <2>1, <2>2 DEF Versions
  <2> QED BY <2>3, <2>4, <2>5
<1> QED BY <1>5, <1>6, TypeParts DEF IInv

-----------------------------------------------------------------------------
(* The theorems *)

LEMMA StepPreserves == IInv /\ [Next]_vars => IInv'
<1> SUFFICES ASSUME IInv, [Next]_vars PROVE IInv'
  OBVIOUS
<1>1. CASE BeginFinalizer \/ BeginDeletion \/ BeginBackup   BY <1>1, BeginPreserves
<1>2. CASE AddFinalizer \/ ReportFailure \/ RemoveFinalizer BY <1>2, LastWritesPreserve
<1>3. CASE CreateJob   BY <1>3, CreateJobPreserves
<1>4. CASE UpdateJob   BY <1>4, UpdateJobPreserves
<1>5. CASE SaveStatus  BY <1>5, SaveStatusPreserves
<1>6. CASE DeleteJob   BY <1>6, DeleteJobPreserves
<1>7. CASE Crash       BY <1>7, CrashPreserves
<1>8. CASE Informers   BY <1>8, InformersPreserve
<1>9. CASE RunJob \/ CollectJob \/ LoseJob
  BY <1>9, JobStepsPreserve
<1>10. CASE EditCluster \/ EditBackup \/ DeleteBackup \/ CreateBackup
  BY <1>10, EditsPreserve
<1>11. CASE UNCHANGED vars
  <2>1. /\ UNCHANGED <<backup, cluster, job, marked, cBackup, cFresh, cCluster, cJob>>
        /\ UNCHANGED <<pc, snap, fresh, aim, saved, budget>>
    BY <1>11 DEF vars, stored, caches, pass
  <2>2. StoredTyped' /\ CachesTyped' /\ LocalsTyped' /\ GhostsTyped'
    BY <2>1, TypeParts DEF IInv, StoredTyped, CachesTyped, LocalsTyped, GhostsTyped
  <2>3. PassTyped' /\ Versions' /\ JobsTrue' /\ ObservesOwnJob'
    BY <2>1 DEF IInv, PassTyped, Versions, JobsTrue, ObservesOwnJob, Observed
  <2> QED BY <2>2, <2>3, TypeParts DEF IInv
<1> QED BY <1>1, <1>2, <1>3, <1>4, <1>5, <1>6, <1>7, <1>8, <1>9, <1>10, <1>11
        DEF Next, Reconcile, Environment

\* IInv is an inductive invariant of the controller and its environment.
THEOREM Invariance == Spec => []IInv
BY InitEstablishes, StepPreserves, PTL DEF Spec

\* Type correctness: in particular, no job is built for an error of
\* getTargetInstance, and the status names an instance.
THEOREM TypeCorrect == Spec => []TypeOK
<1>1. IInv => TypeOK
  BY DEF IInv
<1> QED BY <1>1, Invariance, PTL

BecomesCompletedTruly ==
  (/\ backup # Absent /\ backup.phase # "Completed"
   /\ backup' # Absent /\ backup'.phase = "Completed")
    => BackedUp(backup.uid, backup'.target)

LEMMA StepCompletesTruly == IInv /\ [Next]_vars => BecomesCompletedTruly
<1> SUFFICES ASSUME IInv, [Next]_vars,
                    backup # Absent, backup.phase # "Completed",
                    backup' # Absent, backup'.phase = "Completed"
             PROVE  BackedUp(backup.uid, backup'.target)
  BY DEF BecomesCompletedTruly
<1>1. PassTyped /\ Versions /\ JobsTrue /\ ObservesOwnJob /\ backup \in Backups
  BY DEF IInv, TypeOK
<1>2. backup' # backup
  OBVIOUS
<1>3. CASE SaveStatus
  <2> DEFINE new == [snap EXCEPT !.phase = ObservedPhase(cJob.state),
                                 !.jobName = TRUE, !.target = Named(aim)]
  <2>1. /\ new.phase = ObservedPhase(cJob.state) /\ new.target = Named(aim)
        /\ aim \in Aims /\ pc = "observe" /\ cJob.state \in JobStates
    BY <1>1, <1>3, SavedCopyType DEF SaveStatus, PassTyped, IInv, TypeOK, Jobs
  <2>2. fresh /\ backup' = new
    BY <1>2, <1>3 DEF SaveStatus, Accepted, ReplyLost, Refused, Commit, stored
  <2>3. cJob.state = "succeeded"
    BY <2>1, <2>2, ObservedPhaseType
  <2>4. cJob.uid = snap.uid /\ cJob.aim = aim /\ <<cJob.uid, cJob.aim>> \in saved
    BY <1>1, <2>1, <2>3 DEF ObservesOwnJob, Observed, JobsTrue
  <2>5. snap.uid = backup.uid
    BY <1>1, <2>2 DEF Versions
  <2> HIDE DEF new
  <2> QED BY <2>1, <2>2, <2>4, <2>5 DEF BackedUp
<1>4. CASE AddFinalizer
  <2>1. snap \in Backups /\ pc = "finalize"
    BY <1>1, <1>4 DEF AddFinalizer, PassTyped
  <2>2. fresh /\ backup' = [snap EXCEPT !.finalizer = TRUE]
    BY <1>2, <1>4 DEF AddFinalizer, Accepted, ReplyLost, Refused, Commit, stored
  <2>3. backup'.phase = snap.phase
    BY <2>1, <2>2 DEF Backups
  <2> QED BY <1>1, <2>1, <2>2, <2>3 DEF Versions
<1>5. CASE ReportFailure
  <2>1. snap \in Backups
    BY <1>1, <1>5 DEF ReportFailure, PassTyped
  <2>2. backup' = [snap EXCEPT !.phase = "Failed"]
    BY <1>2, <1>5 DEF ReportFailure, Accepted, ReplyLost, Refused, Commit, stored
  <2> QED BY <2>1, <2>2 DEF Backups
<1>6. CASE RemoveFinalizer
  BY <1>2, <1>6 DEF RemoveFinalizer, Accepted, ReplyLost, Refused, Commit, stored
<1>7. CASE EditBackup \/ DeleteBackup
  <2>1. /\ [backup EXCEPT !.deleting = TRUE].phase = backup.phase
        /\ \A spec \in BackupSpecs : [backup EXCEPT !.spec = spec].phase = backup.phase
    BY <1>1 DEF Backups
  <2> QED BY <1>7, <2>1 DEF EditBackup, DeleteBackup, UserWrite
<1>8. CASE \/ BeginFinalizer \/ BeginDeletion \/ BeginBackup \/ CreateJob \/ UpdateJob
           \/ DeleteJob \/ Crash \/ Informers \/ RunJob \/ CollectJob \/ LoseJob
           \/ EditCluster \/ CreateBackup \/ UNCHANGED vars
  BY <1>2, <1>8 DEF BeginFinalizer, BeginDeletion, BeginBackup, Begin, CreateJob, UpdateJob,
       DeleteJob, Crash, Informers, RunJob, CollectJob, LoseJob, EditCluster, CreateBackup,
       vars, stored
<1> QED BY <1>3, <1>4, <1>5, <1>6, <1>7, <1>8 DEF Next, Reconcile, Environment

\* A backup becomes Completed only after a job of this very backup succeeded, for
\* the instance the status then names: a job left over from an older backup of the
\* name, a stale cache or an edit of the specs cannot stand in for it.
THEOREM CompletionIsTrue == Spec => CompletionMeansBackedUp
<1>1. IInv /\ [Next]_vars => [BecomesCompletedTruly]_vars
  BY StepCompletesTruly
<1>2. Spec => [][BecomesCompletedTruly]_vars
  BY <1>1, Invariance, PTL DEF Spec
<1> QED BY <1>2 DEF BecomesCompletedTruly, CompletionMeansBackedUp
=============================================================================
