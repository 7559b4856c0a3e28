-------------------------- MODULE RestoreJobsProofs --------------------------
(***************************************************************************)
(* Proofs about the jobs of a PostgresRestore: that its stored statuses    *)
(* name every one of them, and that it leaves none behind.                 *)
(***************************************************************************)
EXTENDS PostgresRestoreProofs, RestoreRefinement

-----------------------------------------------------------------------------
(* The versions of a restore *)

\* v is an earlier version of r, or a version of a restore that is gone: then
\* a pass that starts from it has nothing to restore.  Uids above left are used.
Earlier(v, r, left) ==
  /\ v.uid > left
  /\ IF r # Absent /\ r.uid = v.uid
     THEN (v.deleting => r.deleting) /\ (v.finalizer => r.finalizer)
     ELSE v.deleting \/ ~v.finalizer

\* r may be stored in the place of q.
Successor(q, r) ==
  \/ r = q
  \/ /\ q # Absent /\ r # Absent /\ r.uid = q.uid
     /\ (q.deleting => r.deleting) /\ (q.finalizer => r.finalizer)

SameLine(v, w) == v.uid = w.uid /\ v.deleting = w.deleting /\ v.finalizer = w.finalizer

StoredLine ==
  /\ restore # Absent => restore.uid > budget.restores
  /\ cRestore # Absent => Earlier(cRestore, restore, budget.restores)

\* The copy of a pass is an earlier version; a pass that restores had its
\* finalizer, and one that cleans up was to delete it; and a copy that counts as
\* the stored version agrees with it.
PassLine ==
  /\ pc # "idle" => Earlier(snap, restore, budget.restores)
  /\ pc \in {"init", "loop", "observe", "fail"} => snap.finalizer /\ ~snap.deleting
  /\ pc = "finalize" => ~snap.finalizer /\ ~snap.deleting
  /\ pc = "cleanup" => snap.deleting /\ (fresh => cFresh)
  /\ fresh => SameLine(snap, restore)

Lineage == StoredLine /\ PassLine

LEMMA EarlierKept ==
  ASSUME NEW v, NEW q, NEW r, NEW left, Earlier(v, q, left), Successor(q, r)
  PROVE  Earlier(v, r, left)
BY DEF Earlier, Successor

LEMMA EarlierLine ==
  ASSUME NEW v, NEW w, NEW r, NEW left, Earlier(v, r, left), SameLine(w, v)
  PROVE  Earlier(w, r, left)
BY DEF Earlier, SameLine

LEMMA EndPassLine == ASSUME EndPass PROVE PassLine'
BY DEF EndPass, PassLine

\* Uids are only used up by CreateRestore.
LEMMA FaultLeaves ==
  ASSUME TypeOK, Fault \/ UNCHANGED budget
  PROVE  budget'.restores = budget.restores /\ budget'.deletions = budget.deletions
BY DEF TypeOK, Fault

\* The stored restore is replaced by a successor, its cached copy is not.
LEMMA SuccessorLine ==
  ASSUME IInv, Lineage, Successor(restore, restore'), cRestore' = cRestore,
         budget'.restores = budget.restores
  PROVE  StoredLine'
<1>1. restore' # Absent => restore'.uid > budget.restores
  BY DEF Lineage, StoredLine, Successor
<1>2. cRestore # Absent => Earlier(cRestore, restore', budget.restores)
  BY EarlierKept DEF Lineage, StoredLine
<1> QED BY <1>1, <1>2 DEF StoredLine

\* An Update of the restore by a pass: what it writes is in line with its copy.
LEMMA WriteLine ==
  ASSUME IInv, Lineage, NEW new \in Restores,
         new.uid = snap.uid, new.deleting = snap.deleting, snap.finalizer => new.finalizer,
         Accepted(new) \/ Refused \/ ReplyLost(new)
  PROVE  /\ Successor(restore, restore')
         /\ restore' = restore \/ (fresh /\ restore' = new)
         /\ cRestore' = cRestore /\ UNCHANGED <<jobs, marked, cJobs>>
         /\ budget'.restores = budget.restores /\ budget'.deletions = budget.deletions
         /\ StoredLine'
<1>1. /\ restore' = restore \/ (fresh /\ restore' = new)
      /\ cRestore' = cRestore /\ UNCHANGED <<jobs, marked, cJobs>>
  BY DEF Accepted, Refused, ReplyLost, Commit, stored, caches
<1>2. Fault \/ UNCHANGED budget
  BY DEF Accepted, Refused, ReplyLost
<1>3. budget'.restores = budget.restores /\ budget'.deletions = budget.deletions
  BY <1>2, FaultLeaves DEF IInv
<1>4. fresh => restore # Absent /\ SameLine(snap, restore)
  BY DEF IInv, Versions, Lineage, PassLine
<1>5. Successor(restore, restore')
  BY <1>1, <1>4, AbsentAssumption DEF Successor, SameLine
<1>6. StoredLine'
  BY <1>1, <1>3, <1>5, SuccessorLine
<1> QED BY <1>1, <1>3, <1>5, <1>6

LEMMA InitLine == Init => Lineage
<1> SUFFICES ASSUME Init PROVE Lineage
  OBVIOUS
<1>1. MaxRestores \in Nat /\ restore = NewRestore(MaxRestores) /\ restore.uid = MaxRestores
  BY BoundsAssumption DEF Init, NewRestore
<1>2. restore.uid > budget.restores
  BY <1>1 DEF Init
<1>3. cRestore = restore
  BY DEF Init
<1>4. StoredLine
  BY <1>1, <1>2, <1>3 DEF StoredLine, Earlier, NewRestore
<1> QED BY <1>4 DEF Init, Lineage, PassLine

LEMMA BeginLine ==
  ASSUME IInv, Lineage, BeginDeletion \/ BeginFinalizer \/ BeginRestore
  PROVE  Lineage'
<1>1. Begin /\ cRestore \in Restores
  BY DEF BeginDeletion, BeginFinalizer, BeginRestore, Begin, IInv, TypeOK
<1>2. /\ fresh' = cFresh /\ cFresh' = cFresh
      /\ UNCHANGED <<restore, cRestore, budget>>
      /\ Earlier(cRestore, restore, budget.restores)
      /\ cFresh => cRestore = restore
  BY <1>1 DEF Begin, stored, caches, Lineage, StoredLine, IInv, Versions
<1>3. StoredLine'
  BY <1>2 DEF Lineage, StoredLine
<1>4. \/ pc' = "cleanup" /\ cRestore.deleting /\ snap' = cRestore
      \/ pc' = "finalize" /\ ~cRestore.deleting /\ ~cRestore.finalizer /\ snap' = cRestore
      \/ /\ pc' \in {"fail", "init", "loop"} /\ ~cRestore.deleting /\ cRestore.finalizer
         /\ \/ snap' = cRestore
            \/ \E insts : snap' = [cRestore EXCEPT !.insts = insts]
  BY DEF BeginDeletion, BeginFinalizer, BeginRestore, WorkLeft
<1>5. SameLine(snap', cRestore)
  BY <1>1, <1>4 DEF SameLine, Restores
<1>6. Earlier(snap', restore', budget'.restores)
  BY <1>2, <1>5, EarlierLine
<1>7. fresh' => SameLine(snap', restore')
  BY <1>2, <1>5
<1>8. PassLine'
  BY <1>2, <1>4, <1>5, <1>6, <1>7 DEF PassLine, SameLine
<1> QED BY <1>3, <1>8 DEF Lineage

\* The steps of a pass that leave the restore alone.
LEMMA LocalLine ==
  ASSUME IInv, Lineage, UNCHANGED <<restore, cRestore, cFresh, fresh>>,
         Fault \/ UNCHANGED budget, SameLine(snap', snap),
         pc' = pc \/ (pc \in {"loop", "observe"} /\ pc' \in {"loop", "observe", "fail"})
  PROVE  Lineage'
<1>1. budget'.restores = budget.restores
  BY FaultLeaves DEF IInv
<1>2. StoredLine'
  BY <1>1 DEF Lineage, StoredLine
<1>3. pc' # "idle" => Earlier(snap', restore', budget'.restores)
  BY <1>1, EarlierLine DEF Lineage, PassLine
<1>4. PassLine'
  BY <1>3 DEF Lineage, PassLine, SameLine
<1> QED BY <1>2, <1>4 DEF Lineage

LEMMA LoopLine ==
  ASSUME IInv, Lineage, SkipCompleted \/ FindJob \/ CreateJob \/ ObserveJob
  PROVE  Lineage' /\ SameLine(snap', snap)
<1>1. /\ UNCHANGED <<restore, cRestore, cFresh, fresh>> /\ (Fault \/ UNCHANGED budget)
      /\ pc \in {"loop", "observe"} /\ pc' \in {"loop", "observe", "fail"}
  BY DEF SkipCompleted, FindJob, CreateJob, ObserveJob, InLoop, stored, caches
<1>2. snap \in Restores
  BY <1>1 DEF IInv, PassTyped
<1>3. snap' = snap \/ \E p : snap' = [snap EXCEPT !.insts[k].phase = p]
  BY DEF SkipCompleted, FindJob, CreateJob, ObserveJob
<1>4. SameLine(snap', snap)
  <2>1. CASE snap' = snap
    BY <2>1 DEF SameLine
  <2>2. CASE \E p : snap' = [snap EXCEPT !.insts[k].phase = p]
    BY <1>2, <2>2 DEF SameLine, Restores
  <2> QED BY <1>3, <2>1, <2>2
<1> QED BY <1>1, <1>4, LocalLine

\* How the steps of a pass that update the restore go on: with what they wrote,
\* and with the copy they keep, if the pass does not end.
Writes(new) ==
  /\ Accepted(new) \/ Refused \/ ReplyLost(new)
  /\ new.uid = snap.uid /\ new.deleting = snap.deleting /\ new.insts = snap.insts
  /\ snap.finalizer => new.finalizer
  /\ \/ EndPass
     \/ /\ UNCHANGED <<snap, seen, k, job>>
        /\ \/ pc = "init" /\ pc' = "loop" /\ Accepted(new) /\ new = snap /\ fresh' = TRUE
           \/ pc \in {"init", "loop"} /\ pc' = "fail" /\ Refused /\ fresh' = fresh
           \/ pc \in {"init", "loop"} /\ pc' = "fail" /\ fresh' = FALSE
  /\ UNCHANGED restored

LEMMA WriteSteps ==
  ASSUME IInv, AddFinalizer \/ InitStatuses \/ SaveStatus \/ ReportFailure
  PROVE  snap \in Restores /\ pc # "idle" /\ \E new \in Restores : Writes(new)
<1>1. snap \in Restores /\ pc # "idle"
  BY DEF AddFinalizer, InitStatuses, SaveStatus, ReportFailure, IInv, PassTyped
<1>2. CASE AddFinalizer
  <2> DEFINE w == [snap EXCEPT !.finalizer = TRUE]
  <2>1. /\ w \in Restores /\ w.uid = snap.uid /\ w.deleting = snap.deleting /\ w.finalizer
        /\ w.insts = snap.insts
    BY <1>1 DEF Restores
  <2> HIDE DEF w
  <2>2. EndPass /\ (Accepted(w) \/ Refused \/ ReplyLost(w)) /\ UNCHANGED restored
    BY <1>2 DEF AddFinalizer, w
  <2> QED BY <1>1, <2>1, <2>2 DEF Writes
<1>3. CASE InitStatuses
  BY <1>1, <1>3 DEF InitStatuses, Writes
<1>4. CASE SaveStatus
  <2> DEFINE w == [snap EXCEPT !.phase = OverallPhase(snap.insts)]
  <2>1. /\ w \in Restores /\ w.uid = snap.uid /\ w.deleting = snap.deleting
        /\ w.finalizer = snap.finalizer /\ w.insts = snap.insts
    BY <1>1, OverallPhaseType DEF Restores
  <2> HIDE DEF w
  <2>2. /\ pc = "loop" /\ UNCHANGED restored
        /\ \/ Accepted(w) /\ EndPass
           \/ /\ (Refused /\ fresh' = fresh) \/ (ReplyLost(w) /\ fresh' = FALSE)
              /\ pc' = "fail" /\ UNCHANGED <<snap, seen, k, job>>
    BY <1>4 DEF SaveStatus, w
  <2> QED BY <1>1, <2>1, <2>2 DEF Writes
<1>5. CASE ReportFailure
  <2> DEFINE w == [snap EXCEPT !.phase = "Failed"]
  <2>1. /\ w \in Restores /\ w.uid = snap.uid /\ w.deleting = snap.deleting
        /\ w.finalizer = snap.finalizer /\ w.insts = snap.insts
    BY <1>1 DEF Restores, Phases
  <2> HIDE DEF w
  <2>2. EndPass /\ (Accepted(w) \/ Refused \/ ReplyLost(w)) /\ UNCHANGED restored
    BY <1>5 DEF ReportFailure, w
  <2> QED BY <1>1, <2>1, <2>2 DEF Writes
<1> QED BY <1>1, <1>2, <1>3, <1>4, <1>5

LEMMA WritesLine ==
  ASSUME IInv, Lineage, snap \in Restores, pc # "idle", NEW new \in Restores, Writes(new)
  PROVE  /\ Lineage' /\ Successor(restore, restore')
         /\ restore' = restore \/ (fresh /\ restore' = new /\ restore # Absent)
         /\ cRestore' = cRestore /\ UNCHANGED <<jobs, marked, cJobs, restored>>
         /\ budget'.restores = budget.restores /\ budget'.deletions = budget.deletions
<1>1. /\ Successor(restore, restore')
      /\ restore' = restore \/ (fresh /\ restore' = new)
      /\ cRestore' = cRestore /\ UNCHANGED <<jobs, marked, cJobs, restored>>
      /\ budget'.restores = budget.restores /\ budget'.deletions = budget.deletions
      /\ StoredLine'
  BY WriteLine DEF Writes
<1>2. fresh => restore # Absent
  BY DEF IInv, Versions
<1>3. PassLine'
  <2>1. CASE EndPass
    BY <2>1, EndPassLine
  <2>2. CASE /\ pc \in {"init", "loop"} /\ pc' \in {"loop", "fail"} /\ snap' = snap
             /\ \/ Accepted(new) /\ new = snap /\ fresh' = TRUE
                \/ Refused /\ fresh' = fresh
                \/ fresh' = FALSE
    <3>1. Earlier(snap', restore', budget'.restores)
      <4>1. Earlier(snap, restore, budget.restores)
        BY <2>2 DEF Lineage, PassLine
      <4>2. Earlier(snap, restore', budget.restores)
        BY <1>1, <4>1, EarlierKept
      <4> QED BY <1>1, <2>2, <4>2
    <3>2. fresh' => SameLine(snap', restore')
      BY <2>2 DEF Lineage, PassLine, SameLine, Accepted, Commit, Refused, stored
    <3>3. pc' \in {"loop", "fail"} /\ snap'.finalizer /\ ~snap'.deleting
      BY <2>2 DEF Lineage, PassLine
    <3> QED BY <3>1, <3>2, <3>3 DEF PassLine
  <2> QED BY <2>1, <2>2 DEF Writes
<1> QED BY <1>1, <1>2, <1>3 DEF Lineage

\* The finalizer is removed from a restore that the cache shows as deleted: no
\* later pass will start from a version that is not.
LEMMA RemoveFinalizerLine ==
  ASSUME IInv, Lineage, RemoveFinalizer PROVE Lineage'
<1>1. PassLine'
  BY EndPassLine DEF RemoveFinalizer
<1>2. Fault \/ UNCHANGED budget
  BY DEF RemoveFinalizer, Accepted, Refused, ReplyLost
<1>3. budget'.restores = budget.restores
  BY <1>2, FaultLeaves DEF IInv
<1>4. cRestore' = cRestore /\ (restore' = restore \/ (fresh /\ restore' = Absent))
  BY DEF RemoveFinalizer, Accepted, Refused, ReplyLost, Commit, stored, caches
<1>5. CASE restore' = restore
  BY <1>3, <1>4, <1>5, SuccessorLine, <1>1 DEF Successor, Lineage
<1>6. CASE fresh /\ restore' = Absent
  <2>1. cRestore = restore /\ restore # Absent /\ restore.deleting
    BY <1>6 DEF RemoveFinalizer, IInv, Versions, Lineage, PassLine, SameLine
  <2>2. cRestore.uid > budget.restores
    BY <2>1 DEF Lineage, StoredLine
  <2> QED BY <1>1, <1>3, <1>4, <1>6, <2>1, <2>2 DEF Lineage, StoredLine, Earlier
<1> QED BY <1>4, <1>5, <1>6

LEMMA DeleteJobLine ==
  ASSUME IInv, Lineage, DeleteJob PROVE Lineage'
<1>1. UNCHANGED <<restore, cRestore, cFresh>> /\ (Fault \/ UNCHANGED budget)
  BY DEF DeleteJob, caches
<1>2. CASE UNCHANGED <<pc, snap, fresh>>
  BY <1>1, <1>2, LocalLine DEF SameLine
<1>3. CASE EndPass
  <2>1. StoredLine'
    BY <1>1, FaultLeaves, SuccessorLine DEF IInv, Successor
  <2> QED BY <1>3, <2>1, EndPassLine DEF Lineage
<1> QED BY <1>2, <1>3 DEF DeleteJob

LEMMA CrashLine ==
  ASSUME IInv, Lineage, Crash PROVE Lineage'
<1>1. UNCHANGED <<restore, cRestore>> /\ Fault /\ EndPass
  BY DEF Crash, stored, caches
<1>2. StoredLine'
  BY <1>1, FaultLeaves, SuccessorLine DEF IInv, Successor
<1> QED BY <1>1, <1>2, EndPassLine DEF Lineage

LEMMA InformersLine ==
  ASSUME IInv, Lineage, Informers PROVE Lineage'
<1>1. UNCHANGED <<restore, pc, snap, fresh, budget>>
  BY DEF Informers, stored, pass
<1>2. (cRestore' = cRestore /\ cFresh' = cFresh) \/ (cRestore' = restore /\ cFresh' = TRUE)
  BY DEF Informers, SyncRestore, SyncCluster, SyncBackup, SyncJobs
<1>3. StoredLine'
  BY <1>1, <1>2 DEF Lineage, StoredLine, Earlier
<1>4. PassLine'
  <2>1. (pc = "cleanup" => snap.deleting /\ (fresh => cFresh))'
    BY <1>1, <1>2 DEF Lineage, PassLine
  <2> QED BY <1>1, <2>1 DEF Lineage, PassLine, SameLine
<1> QED BY <1>3, <1>4 DEF Lineage

\* Jobs, the cluster and the backup have no part in it.
LEMMA ElsewhereLine ==
  ASSUME Lineage, UNCHANGED <<restore, cRestore, cFresh, pc, snap, fresh>>,
         budget'.restores = budget.restores
  PROVE  Lineage'
BY DEF Lineage, StoredLine, PassLine

LEMMA OthersLine ==
  ASSUME IInv, Lineage, Edit \/ (\E i \in Instances : RunJob(i) \/ CollectJob(i) \/ LoseJob(i)) \/ UNCHANGED vars
  PROVE  Lineage'
<1>1. UNCHANGED <<restore, cRestore, cFresh, pc, snap, fresh>>
  BY DEF Edit, RunJob, CollectJob, LoseJob, vars, stored, caches, pass
<1>2. budget'.restores = budget.restores
  BY DEF Edit, RunJob, CollectJob, LoseJob, vars, IInv, TypeOK
<1> QED BY <1>1, <1>2, ElsewhereLine

\* A restore that goes without its finalizer was never begun.
LEMMA DeleteRestoreLine ==
  ASSUME IInv, Lineage, DeleteRestore PROVE Lineage'
<1>1. /\ UNCHANGED <<cRestore, pc, snap, budget>> /\ fresh' = FALSE
      /\ restore # Absent /\ restore \in Restores
      /\ restore' = IF restore.finalizer THEN [restore EXCEPT !.deleting = TRUE] ELSE Absent
  BY DEF DeleteRestore, IInv, TypeOK
<1>2. \A v : Earlier(v, restore, budget.restores) => Earlier(v, restore', budget.restores)
  <2>1. CASE restore.finalizer
    <3>1. Successor(restore, restore')
      BY <1>1, <2>1, AbsentAssumption DEF Restores, Successor
    <3> QED BY <3>1, EarlierKept
  <2>2. CASE ~restore.finalizer
    BY <1>1, <2>2 DEF Earlier
  <2> QED BY <2>1, <2>2
<1>3. restore' # Absent => restore'.uid > budget.restores
  BY <1>1 DEF Lineage, StoredLine, Restores
<1>4. StoredLine'
  BY <1>1, <1>2, <1>3 DEF Lineage, StoredLine
<1>5. PassLine'
  BY <1>1, <1>2 DEF Lineage, PassLine
<1> QED BY <1>4, <1>5 DEF Lineage

LEMMA CreateRestoreLine ==
  ASSUME IInv, Lineage, CreateRestore PROVE Lineage'
<1>1. /\ UNCHANGED <<cRestore, pc, snap, fresh>> /\ restore = Absent
      /\ restore' = NewRestore(budget.restores)
      /\ budget.restores > 0 /\ budget' = [budget EXCEPT !.restores = @ - 1]
  BY DEF CreateRestore, pass
<1>2. budget.restores \in Nat /\ budget'.restores = budget.restores - 1
  BY <1>1 DEF IInv, TypeOK
<1>3. restore'.uid = budget.restores /\ restore' # Absent
  <2>1. NewRestore(budget.restores) \in Restores
    BY <1>2 DEF NewRestore, Restores, Phases
  <2> QED BY <1>1, <2>1, AbsentAssumption DEF NewRestore
<1>4. \A v \in Restores : Earlier(v, restore, budget.restores) => Earlier(v, restore', budget'.restores)
  BY <1>1, <1>2, <1>3 DEF Earlier, Restores
<1>5. ~fresh
  BY <1>1 DEF IInv, Versions
<1>6. StoredLine'
  BY <1>1, <1>2, <1>3, <1>4 DEF Lineage, StoredLine, IInv, TypeOK
<1>7. PassLine'
  BY <1>1, <1>4, <1>5 DEF Lineage, PassLine, IInv, PassTyped
<1> QED BY <1>6, <1>7 DEF Lineage

LEMMA StepLine == IInv /\ Lineage /\ [Next]_vars => Lineage'
<1> SUFFICES ASSUME IInv, Lineage, [Next]_vars PROVE Lineage'
  OBVIOUS
<1>1. CASE BeginDeletion \/ BeginFinalizer \/ BeginRestore  BY <1>1, BeginLine
<1>2. CASE AddFinalizer \/ InitStatuses \/ SaveStatus \/ ReportFailure  BY <1>2, WriteSteps, WritesLine
<1>3. CASE SkipCompleted \/ FindJob \/ CreateJob \/ ObserveJob  BY <1>3, LoopLine
<1>4. CASE DeleteJob        BY <1>4, DeleteJobLine
<1>5. CASE RemoveFinalizer  BY <1>5, RemoveFinalizerLine
<1>6. CASE Crash            BY <1>6, CrashLine
<1>7. CASE Informers        BY <1>7, InformersLine
<1>8. CASE DeleteRestore    BY <1>8, DeleteRestoreLine
<1>9. CASE CreateRestore    BY <1>9, CreateRestoreLine
<1>10. CASE Edit \/ (\E i \in Instances : RunJob(i) \/ CollectJob(i) \/ LoseJob(i)) \/ UNCHANGED vars
  BY <1>10, OthersLine
<1> QED BY <1>1, <1>2, <1>3, <1>4, <1>5, <1>6, <1>7, <1>8, <1>9, <1>10
        DEF Next, Reconcile, Environment

-----------------------------------------------------------------------------
(* The names in the instance statuses *)

\* What the restore selects of a cluster; NoTargets if it selects nothing.
Selected(c) == TargetInstances(c, Selector)

\* Users do not rename instances: two clusters with as many selected instances
\* have the same ones, in the same order.  The run restore_renamed shows what
\* happens otherwise.
ConsistentNames ==
  \A c, d \in ClusterSpecs :
    /\ Selected(c) # NoTargets /\ Selected(d) # NoTargets
    /\ Len(Selected(c)) = Len(Selected(d))
    => \A j \in 1 .. Len(Selected(c)) : Selected(c)[j].name = Selected(d)[j].name

NamedAfter(insts, goal) ==
  Len(insts) = Len(goal) /\ \A j \in 1 .. Len(goal) : insts[j].inst = goal[j].name

SameInsts(x, y) == Len(x) = Len(y) /\ \A j \in 1 .. Len(y) : x[j].inst = y[j].inst

\* Statuses name the instances that are selected of some cluster.
Listed(insts) ==
  insts # <<>> => \E c \in ClusterSpecs : Selected(c) # NoTargets /\ NamedAfter(insts, Selected(c))

\* The statuses of a pass that restores name the instances it restores.
Names ==
  /\ restore # Absent => Listed(restore.insts)
  /\ cRestore # Absent => Listed(cRestore.insts)
  /\ pc # "idle" => Listed(snap.insts)
  /\ pc \in {"init", "loop", "observe"} =>
       seen.cluster \in ClusterSpecs /\ Goal # NoTargets /\ NamedAfter(snap.insts, Goal)
  /\ pc = "observe" => job = snap.insts[k].inst

LEMMA SelectedType ==
  ASSUME NEW c \in ClusterSpecs, Selected(c) # NoTargets
  PROVE  Selected(c) \in Seq(InstanceSpecs)
BY TargetsAssumption DEF Selected

LEMMA NamedPending ==
  ASSUME NEW goal \in Seq(InstanceSpecs)
  PROVE  NamedAfter(PendingStatuses(goal), goal)
<1>1. Len(PendingStatuses(goal)) = Len(goal)
  BY PendingStatusesType
<1>2. \A j \in 1 .. Len(goal) : PendingStatuses(goal)[j].inst = goal[j].name
  BY DEF PendingStatuses
<1> QED BY <1>1, <1>2 DEF NamedAfter

\* Statuses as many as the selected instances are those of these instances.
LEMMA ListedNamed ==
  ASSUME ConsistentNames, NEW c \in ClusterSpecs, Selected(c) # NoTargets,
         NEW insts \in Seq(InstanceStatus), Listed(insts), Len(insts) = Len(Selected(c))
  PROVE  NamedAfter(insts, Selected(c))
<1>1. CASE insts = <<>>
  <2>1. Len(insts) = 0
    BY <1>1
  <2>2. Len(Selected(c)) = 0
    BY <2>1
  <2> QED BY <2>2 DEF NamedAfter
<1>2. CASE insts # <<>>
  <2>1. PICK d \in ClusterSpecs : Selected(d) # NoTargets /\ NamedAfter(insts, Selected(d))
    BY <1>2 DEF Listed
  <2>2. Len(Selected(d)) = Len(Selected(c))
    BY <2>1 DEF NamedAfter
  <2>3. \A j \in 1 .. Len(Selected(c)) : Selected(c)[j].name = Selected(d)[j].name
    BY <2>1, <2>2 DEF ConsistentNames
  <2> QED BY <2>1, <2>2, <2>3 DEF NamedAfter
<1> QED BY <1>1, <1>2

LEMMA SameInstsNamed ==
  ASSUME NEW x, NEW y, NEW goal, SameInsts(x, y), NamedAfter(y, goal)
  PROVE  NamedAfter(x, goal)
BY DEF SameInsts, NamedAfter

LEMMA SameInstsListed ==
  ASSUME NEW x \in Seq(InstanceStatus), NEW y \in Seq(InstanceStatus), SameInsts(x, y), Listed(y)
  PROVE  Listed(x)
<1> SUFFICES ASSUME x # <<>>
             PROVE  \E c \in ClusterSpecs : Selected(c) # NoTargets /\ NamedAfter(x, Selected(c))
  BY DEF Listed
<1>1. Len(x) # 0
  OBVIOUS
<1>2. y # <<>>
  BY <1>1 DEF SameInsts
<1>3. PICK c \in ClusterSpecs : Selected(c) # NoTargets /\ NamedAfter(y, Selected(c))
  BY <1>2 DEF Listed
<1>4. NamedAfter(x, Selected(c))
  BY <1>3, SameInstsNamed
<1> QED BY <1>3, <1>4

LEMMA SetPhaseInsts ==
  ASSUME NEW s \in Restores, NEW i \in 1 .. Len(s.insts), NEW p
  PROVE  SameInsts([s EXCEPT !.insts[i].phase = p].insts, s.insts)
<1> DEFINE t == [s.insts EXCEPT ![i].phase = p]
<1>1. s.insts \in Seq(InstanceStatus) /\ \A j \in 1 .. Len(s.insts) : s.insts[j] \in InstanceStatus
  BY DEF Restores
<1>2. [s EXCEPT !.insts[i].phase = p].insts = t
  BY DEF Restores
<1>3. DOMAIN t = 1 .. Len(s.insts) /\ Len(t) = Len(s.insts)
  BY <1>1
<1>4. \A j \in 1 .. Len(s.insts) : t[j].inst = s.insts[j].inst
  BY <1>1 DEF InstanceStatus
<1> HIDE DEF t
<1> QED BY <1>2, <1>3, <1>4 DEF SameInsts

\* The steps of the loop: the copy keeps its names, the index and the job of the
\* loop body go on.
LEMMA LoopSteps ==
  ASSUME IInv, SkipCompleted \/ FindJob \/ CreateJob \/ ObserveJob
  PROVE  /\ snap \in Restores /\ k \in 1 .. Len(snap.insts) /\ pc \in {"loop", "observe"}
         /\ SameInsts(snap'.insts, snap.insts) /\ pc' \in {"loop", "observe", "fail"}
         /\ UNCHANGED <<restore, cRestore, cFresh, cJobs, fresh, seen, restored>>
         /\ Fault \/ UNCHANGED budget
<1>1. /\ UNCHANGED <<restore, cRestore, cFresh, cJobs, fresh, seen, restored>>
      /\ Fault \/ UNCHANGED budget
      /\ pc \in {"loop", "observe"} /\ pc' \in {"loop", "observe", "fail"}
  BY DEF SkipCompleted, FindJob, CreateJob, ObserveJob, InLoop, stored, caches
<1>2. snap \in Restores /\ k \in 1 .. Len(snap.insts)
  <2>1. CASE InLoop
    BY <2>1, InLoopType
  <2>2. CASE ObserveJob
    BY <2>2 DEF ObserveJob, IInv, TypeOK, PassTyped
  <2> QED BY <2>1, <2>2 DEF SkipCompleted, FindJob, CreateJob
<1>3. snap' = snap \/ \E p : snap' = [snap EXCEPT !.insts[k].phase = p]
  BY DEF SkipCompleted, FindJob, CreateJob, ObserveJob
<1>4. SameInsts(snap'.insts, snap.insts)
  <2>1. CASE snap' = snap
    BY <2>1 DEF SameInsts
  <2>2. CASE \E p : snap' = [snap EXCEPT !.insts[k].phase = p]
    BY <1>2, <2>2, SetPhaseInsts
  <2> QED BY <1>3, <2>1, <2>2
<1> QED BY <1>1, <1>2, <1>4

LEMMA InitNames == Init => Names
<1> SUFFICES ASSUME Init PROVE Names
  OBVIOUS
<1>1. restore.insts = <<>> /\ cRestore = restore /\ pc = "idle"
  BY DEF Init, NewRestore
<1> QED BY <1>1 DEF Names, Listed

LEMMA BeginNames ==
  ASSUME ConsistentNames, IInv, Names, BeginDeletion \/ BeginFinalizer \/ BeginRestore
  PROVE  Names'
<1>1. Begin /\ cRestore \in Restores /\ cRestore # Absent /\ cRestore.insts \in Seq(InstanceStatus)
  BY DEF BeginDeletion, BeginFinalizer, BeginRestore, Begin, IInv, TypeOK, Restores
<1>2. UNCHANGED <<restore, cRestore>> /\ Listed(cRestore.insts)
  BY <1>1 DEF Begin, stored, caches, Names
<1>3. CASE BeginDeletion \/ BeginFinalizer
  <2>1. snap' = cRestore /\ pc' \in {"cleanup", "finalize"}
    BY <1>3 DEF BeginDeletion, BeginFinalizer
  <2> QED BY <1>2, <2>1 DEF Names
<1>4. CASE BeginRestore
  <2> DEFINE goal == IF cCluster = Absent \/ cBackup = Absent THEN NoTargets
                     ELSE TargetInstances(cCluster, Selector)
  <2>1. \/ goal = NoTargets /\ pc' = "fail" /\ snap' = cRestore
        \/ /\ goal # NoTargets /\ pc' = "init"
           /\ snap' = [cRestore EXCEPT !.insts = PendingStatuses(goal)]
        \/ /\ goal # NoTargets /\ Len(cRestore.insts) = Len(goal)
           /\ pc' = "loop" /\ snap' = cRestore
    BY <1>4 DEF BeginRestore
  <2>2. goal # NoTargets =>
          /\ cCluster \in ClusterSpecs /\ goal = Selected(cCluster) /\ Selected(cCluster) # NoTargets
          /\ seen'.cluster = cCluster /\ Goal' = goal
    BY <1>4 DEF BeginRestore, Goal, Selected, IInv, TypeOK
  <2> HIDE DEF goal
  <2>3. CASE goal = NoTargets
    BY <1>2, <2>1, <2>3 DEF Names
  <2>4. CASE goal # NoTargets
    <3>1. cCluster \in ClusterSpecs /\ Selected(cCluster) # NoTargets /\ goal \in Seq(InstanceSpecs)
      BY <2>2, <2>4, SelectedType
    <3>2. NamedAfter(snap'.insts, goal)
      <4>1. CASE pc' = "init"
        <5>1. snap'.insts = PendingStatuses(goal)
          BY <1>1, <2>1, <4>1 DEF Restores
        <5> QED BY <3>1, <5>1, NamedPending
      <4>2. CASE pc' = "loop"
        <5>1. snap' = cRestore /\ Len(cRestore.insts) = Len(Selected(cCluster))
          BY <2>1, <2>2, <2>4, <4>2
        <5> QED BY <1>1, <1>2, <2>2, <2>4, <3>1, <5>1, ListedNamed
      <4> QED BY <2>1, <2>4, <4>1, <4>2
    <3>3. Listed(snap'.insts)
      BY <2>2, <2>4, <3>2 DEF Listed
    <3>4. pc' \in {"init", "loop"}
      BY <2>1, <2>4
    <3> QED BY <1>2, <2>2, <2>4, <3>2, <3>3, <3>4 DEF Names
  <2> QED BY <2>3, <2>4
<1> QED BY <1>3, <1>4

LEMMA LoopNames ==
  ASSUME IInv, IInv', Names, SkipCompleted \/ FindJob \/ CreateJob \/ ObserveJob
  PROVE  Names'
<1>1. /\ snap \in Restores /\ pc \in {"loop", "observe"}
      /\ SameInsts(snap'.insts, snap.insts) /\ pc' \in {"loop", "observe", "fail"}
      /\ UNCHANGED <<restore, cRestore, seen>> /\ k \in 1 .. Len(snap.insts)
  BY LoopSteps
<1>2. /\ Listed(snap.insts) /\ seen.cluster \in ClusterSpecs /\ Goal # NoTargets
      /\ NamedAfter(snap.insts, Goal)
  BY <1>1 DEF Names
<1>3. snap' \in Restores
  BY <1>1 DEF IInv, PassTyped
<1>4. snap.insts \in Seq(InstanceStatus) /\ snap'.insts \in Seq(InstanceStatus)
  BY <1>1, <1>3 DEF Restores
<1>5. Listed(snap'.insts)
  BY <1>1, <1>2, <1>4, SameInstsListed
<1>6. Goal' = Goal
  BY <1>1 DEF Goal
<1>7. NamedAfter(snap'.insts, Goal')
  BY <1>1, <1>2, <1>6, SameInstsNamed
<1>8. pc' = "observe" => job' = snap.insts[k].inst /\ k' = k
  <2>1. CASE CreateJob
    <3>1. pc' = "observe" => job' = Goal[k].name /\ k' = k
      BY <2>1 DEF CreateJob
    <3>2. snap.insts[k].inst = Goal[k].name
      BY <1>1, <1>2 DEF NamedAfter
    <3> QED BY <3>1, <3>2
  <2> QED BY <2>1, <1>1 DEF SkipCompleted, FindJob, ObserveJob, InLoop
<1>9. pc' = "observe" => job' = snap'.insts[k'].inst
  BY <1>1, <1>8 DEF SameInsts
<1> QED BY <1>1, <1>2, <1>5, <1>6, <1>7, <1>9 DEF Names

LEMMA WritesNames ==
  ASSUME IInv, Lineage, Names, AddFinalizer \/ InitStatuses \/ SaveStatus \/ ReportFailure
  PROVE  Names'
<1>1. PICK new \in Restores : snap \in Restores /\ pc # "idle" /\ Writes(new)
  BY WriteSteps
<1>2. restore' = restore \/ (restore' = new /\ restore # Absent)
  BY <1>1, WritesLine
<1>3. cRestore' = cRestore
  BY <1>1, WritesLine
<1>4. restore' # Absent => Listed(restore'.insts)
  BY <1>1, <1>2 DEF Writes, Names
<1>5. CASE EndPass
  BY <1>3, <1>4, <1>5 DEF EndPass, Names
<1>6. CASE /\ UNCHANGED <<snap, seen, k, job>> /\ pc \in {"init", "loop"}
           /\ pc' \in {"loop", "fail"}
  BY <1>3, <1>4, <1>6 DEF Names, Goal
<1> QED BY <1>1, <1>5, <1>6 DEF Writes

LEMMA CleanupNames ==
  ASSUME IInv, Names, DeleteJob \/ RemoveFinalizer \/ Crash
  PROVE  Names'
<1>1. cRestore' = cRestore /\ (restore' = restore \/ restore' = Absent)
  BY DEF DeleteJob, RemoveFinalizer, Crash, Accepted, Refused, ReplyLost, Commit, stored, caches
<1>2. EndPass \/ (pc = "cleanup" /\ UNCHANGED <<pc, snap>>)
  BY DEF DeleteJob, RemoveFinalizer, Crash
<1> QED BY <1>1, <1>2 DEF Names, EndPass

LEMMA EnvironmentNames ==
  ASSUME IInv, Names,
         \/ Informers \/ Edit \/ DeleteRestore \/ CreateRestore
         \/ (\E i \in Instances : RunJob(i) \/ CollectJob(i) \/ LoseJob(i)) \/ UNCHANGED vars
  PROVE  Names'
<1>1. UNCHANGED <<pc, snap, seen, k, job>>
  BY DEF Informers, Edit, DeleteRestore, CreateRestore, RunJob, CollectJob, LoseJob, vars, pass
<1>2. cRestore' = cRestore \/ cRestore' = restore
  BY DEF Informers, SyncRestore, SyncCluster, SyncBackup, SyncJobs, Edit, DeleteRestore,
         CreateRestore, RunJob, CollectJob, LoseJob, vars, caches
<1>4. restore' # Absent => Listed(restore'.insts)
  <2>1. CASE restore' \in {restore, Absent}
    BY <2>1 DEF Names
  <2>2. CASE \E uid : restore' = NewRestore(uid)
    <3>1. PICK uid : restore' = NewRestore(uid)
      BY <2>2
    <3>2. restore'.insts = <<>>
      BY <3>1 DEF NewRestore
    <3> QED BY <3>2 DEF Listed
  <2>3. CASE restore' = [restore EXCEPT !.deleting = TRUE] /\ restore \in Restores
    <3>1. restore'.insts = restore.insts /\ restore # Absent
      BY <2>3, AbsentAssumption DEF Restores
    <3> QED BY <3>1 DEF Names
  <2>4. CASE DeleteRestore
    BY <2>1, <2>3, <2>4 DEF DeleteRestore, IInv, TypeOK
  <2>5. CASE ~DeleteRestore
    <3>1. restore' \in {restore, Absent} \/ \E uid : restore' = NewRestore(uid)
      BY <2>5 DEF Informers, Edit, CreateRestore, RunJob, CollectJob, LoseJob, vars, stored
    <3> QED BY <2>1, <2>2, <3>1
  <2> QED BY <2>4, <2>5
<1>5. cRestore' # Absent => Listed(cRestore'.insts)
  BY <1>2 DEF Names
<1>6. Goal' = Goal
  BY <1>1 DEF Goal
<1> QED BY <1>1, <1>4, <1>5, <1>6 DEF Names

LEMMA StepNames ==
  ASSUME ConsistentNames, IInv, IInv', Lineage, Names, [Next]_vars
  PROVE  Names'
<1>1. CASE BeginDeletion \/ BeginFinalizer \/ BeginRestore  BY <1>1, BeginNames
<1>2. CASE AddFinalizer \/ InitStatuses \/ SaveStatus \/ ReportFailure  BY <1>2, WritesNames
<1>3. CASE SkipCompleted \/ FindJob \/ CreateJob \/ ObserveJob  BY <1>3, LoopNames
<1>4. CASE DeleteJob \/ RemoveFinalizer \/ Crash  BY <1>4, CleanupNames
<1>5. CASE \/ Informers \/ Edit \/ DeleteRestore \/ CreateRestore
           \/ (\E i \in Instances : RunJob(i) \/ CollectJob(i) \/ LoseJob(i)) \/ UNCHANGED vars
  BY <1>5, EnvironmentNames
<1> QED BY <1>1, <1>2, <1>3, <1>4, <1>5 DEF Next, Reconcile, Environment

-----------------------------------------------------------------------------
(* The jobs *)

\* The instances that are selected of the cluster are always the same ones,
\* whether the cluster is there or not.  Without that, statuses that are reset
\* forget jobs: only the garbage collector ends those.
SameNames ==
  \A c, d \in ClusterSpecs :
    Selected(c) # NoTargets /\ Selected(d) # NoTargets =>
      /\ Len(Selected(c)) = Len(Selected(d))
      /\ \A j \in 1 .. Len(Selected(c)) : Selected(c)[j].name = Selected(d)[j].name

\* Where v has statuses, r has.
Keeps(v, r) == r # Absent /\ v.uid = r.uid /\ v.insts # <<>> => r.insts # <<>>

\* Statuses that were stored are never dropped again, so that a pass that may
\* create jobs works on statuses that are stored.
Lists ==
  /\ cRestore # Absent => Keeps(cRestore, restore)
  /\ pc \in {"loop", "observe"} => Keeps(snap, restore)
  /\ fresh => (restore.insts # <<>> => snap.insts # <<>>)

\* A job belongs to the stored restore, which has its finalizer and statuses, or
\* it is left, deleted, from an earlier one.
Owned(i) ==
  /\ restore # Absent /\ jobs[i].uid = restore.uid /\ restore.finalizer
  /\ restore.insts # <<>> /\ i \in Targets
Outlived(i) == i \in marked /\ (restore = Absent \/ jobs[i].uid # restore.uid)
JobsOwned ==
  \A i \in Instances :
    jobs[i].state # "none" => jobs[i].uid > budget.restores /\ (Owned(i) \/ Outlived(i))

\* The job of an instance, if there is one, has been deleted.
Withdrawn(i) == jobs[i].state # "none" => i \in marked

\* What a cleanup has deleted stays deleted.
CleanedUp ==
  pc = "cleanup" /\ fresh =>
    \A j \in 1 .. Len(snap.insts) : j < k => Withdrawn(snap.insts[j].inst)

Recorded == Names /\ Lists /\ JobsOwned /\ CleanedUp

LEMMA SameNamesConsistent == SameNames => ConsistentNames
BY DEF SameNames, ConsistentNames

\* Statuses that there are name every target.
LEMMA ListedTargets ==
  ASSUME SameNames, NEW insts, Listed(insts), insts # <<>>, NEW i \in Targets
  PROVE  \E j \in 1 .. Len(insts) : insts[j].inst = i
<1>1. PICK c \in ClusterSpecs : Selected(c) # NoTargets /\ NamedAfter(insts, Selected(c))
  BY DEF Listed
<1>2. PICK d \in ClusterSpecs :
        Selected(d) # NoTargets /\ \E j \in DOMAIN Selected(d) : Selected(d)[j].name = i
  BY DEF Targets, Selected
<1>3. PICK j \in DOMAIN Selected(d) : Selected(d)[j].name = i
  BY <1>2
<1>4. Selected(d) \in Seq(InstanceSpecs)
  BY <1>2, SelectedType
<1>5. j \in 1 .. Len(Selected(d))
  BY <1>3, <1>4
<1>6. Len(Selected(d)) = Len(Selected(c)) /\ Selected(d)[j].name = Selected(c)[j].name
  BY <1>1, <1>2, <1>5 DEF SameNames
<1> QED BY <1>1, <1>3, <1>5, <1>6 DEF NamedAfter

\* What a pass restores are targets.
LEMMA GoalTargets ==
  ASSUME IInv, Names, InLoop
  PROVE  Goal[k].name \in Targets /\ snap.insts # <<>>
<1>1. /\ seen.cluster \in ClusterSpecs /\ Goal = Selected(seen.cluster)
      /\ Selected(seen.cluster) # NoTargets
  BY DEF InLoop, Names, Goal, Selected
<1>2. /\ k \in 1 .. Len(snap.insts) /\ Goal \in Seq(InstanceSpecs) /\ Len(snap.insts) = Len(Goal)
      /\ Goal[k].name \in Instances
  BY InLoopType
<1>3. k \in DOMAIN Goal
  BY <1>2
<1>4. Goal[k].name \in Targets
  BY <1>1, <1>2, <1>3 DEF Targets, Selected
<1>5. snap.insts # <<>>
  BY <1>2
<1> QED BY <1>4, <1>5

\* A pass that restores has a restore with its finalizer to restore.
LEMMA LoopStored ==
  ASSUME Lineage, pc \in {"init", "loop", "observe", "fail"}
  PROVE  restore # Absent /\ restore.uid = snap.uid /\ restore.finalizer
BY DEF Lineage, PassLine, Earlier

LEMMA InitRecorded == Init => Recorded
<1> SUFFICES ASSUME Init PROVE Recorded
  OBVIOUS
<1>1. restore.insts = <<>> /\ cRestore = restore /\ pc = "idle" /\ ~fresh
  BY DEF Init, NewRestore
<1>2. \A i \in Instances : jobs[i].state = "none"
  BY DEF Init, NoJob
<1> QED BY <1>1, <1>2, InitNames DEF Recorded, Lists, Keeps, JobsOwned, CleanedUp

LEMMA BeginRecorded ==
  ASSUME SameNames, IInv, IInv', Names', Recorded, BeginDeletion \/ BeginFinalizer \/ BeginRestore
  PROVE  Recorded'
<1>1. Begin /\ cRestore \in Restores /\ cRestore # Absent
  BY DEF BeginDeletion, BeginFinalizer, BeginRestore, Begin, IInv, TypeOK
<1>2. /\ UNCHANGED <<restore, cRestore, jobs, marked, budget>> /\ fresh' = cFresh /\ k' = 1
      /\ cFresh => cRestore = restore
      /\ Keeps(cRestore, restore)
  BY <1>1 DEF Begin, stored, caches, IInv, Versions, Recorded, Lists
<1>3. \/ snap' = cRestore
      \/ pc' = "init" /\ Len(cRestore.insts) # Len(snap'.insts)
    <2>1. CASE snap' = cRestore
      BY <2>1
    <2>2. CASE BeginRestore /\ snap' # cRestore
      <3> DEFINE goal == TargetInstances(cCluster, Selector)
      <3>1. /\ pc' = "init" /\ snap' = [cRestore EXCEPT !.insts = PendingStatuses(goal)]
            /\ Len(cRestore.insts) # Len(goal) /\ seen'.cluster = cCluster
        BY <2>2 DEF BeginRestore
      <3>2. Goal' = goal
        BY <3>1 DEF Goal
      <3>3. Len(snap'.insts) = Len(Goal')
        BY <3>1 DEF IInv, PassTyped
      <3> QED BY <3>1, <3>2, <3>3
    <2> QED BY <2>1, <2>2 DEF BeginDeletion, BeginFinalizer
<1>4. cRestore.insts # <<>> => snap'.insts # <<>>
  <2>1. CASE snap' = cRestore
    BY <2>1
  <2>2. CASE pc' = "init" /\ Len(cRestore.insts) # Len(snap'.insts) /\ cRestore.insts # <<>>
    <3>1. PICK c \in ClusterSpecs : Selected(c) # NoTargets /\ NamedAfter(cRestore.insts, Selected(c))
      BY <1>1, <2>2 DEF Recorded, Names, Listed
    <3>2. /\ seen'.cluster \in ClusterSpecs /\ Selected(seen'.cluster) # NoTargets
          /\ NamedAfter(snap'.insts, Selected(seen'.cluster))
      BY <2>2 DEF Names, Goal, Selected
    <3>3. Len(Selected(c)) = Len(Selected(seen'.cluster))
      BY <3>1, <3>2 DEF SameNames
    <3> QED BY <2>2, <3>1, <3>2, <3>3 DEF NamedAfter
  <2> QED BY <1>3, <2>1, <2>2
<1>5. pc' \in {"loop", "observe"} => snap' = cRestore
  BY <1>3
<1>6. Lists'
  BY <1>2, <1>4, <1>5 DEF Recorded, Lists, Keeps
<1>7. JobsOwned'
  BY <1>2 DEF Recorded, JobsOwned, Owned, Outlived
<1>8. CleanedUp'
  BY <1>2, <1>1 DEF CleanedUp
<1> QED BY <1>6, <1>7, <1>8 DEF Recorded

LEMMA WritesRecorded ==
  ASSUME IInv, Lineage, Names', Recorded, AddFinalizer \/ InitStatuses \/ SaveStatus \/ ReportFailure
  PROVE  Recorded'
<1>1. PICK new \in Restores : snap \in Restores /\ pc # "idle" /\ Writes(new)
  BY WriteSteps
<1>2. /\ Successor(restore, restore')
      /\ restore' = restore \/ (fresh /\ restore' = new /\ restore # Absent)
      /\ cRestore' = cRestore /\ UNCHANGED <<jobs, marked>>
      /\ budget'.restores = budget.restores
  BY <1>1, WritesLine
<1>3. restore # Absent /\ restore.insts # <<>> =>
        restore' # Absent /\ restore'.insts # <<>>
  <2>1. CASE restore' = restore
    BY <2>1
  <2>2. CASE fresh /\ restore' = new
    BY <1>1, <2>2, AbsentAssumption DEF Recorded, Lists, Writes
  <2> QED BY <1>2, <2>1, <2>2
<1>4. /\ restore' # Absent => restore # Absent /\ restore'.uid = restore.uid
      /\ restore # Absent /\ restore.finalizer => restore'.finalizer
  BY <1>2 DEF Successor
<1>5. \A v : Keeps(v, restore) => Keeps(v, restore')
  BY <1>3, <1>4 DEF Keeps
<1>6. Lists'
  <2>1. cRestore' # Absent => Keeps(cRestore', restore')
    BY <1>2, <1>5 DEF Recorded, Lists
  <2>2. CASE EndPass
    BY <2>1, <2>2 DEF EndPass, Lists
  <2>3. CASE pc = "init" /\ snap' = snap /\ pc' = "loop" /\ Accepted(new) /\ new = snap /\ fresh' = TRUE
    <3>1. restore' = snap'
      BY <2>3 DEF Accepted, Commit
    <3> QED BY <2>1, <3>1 DEF Lists, Keeps
  <2>4. CASE snap' = snap /\ pc' = "fail" /\ Refused /\ fresh' = fresh
    <3>1. restore' = restore
      BY <2>4 DEF Refused, stored
    <3> QED BY <2>1, <2>4, <3>1 DEF Recorded, Lists
  <2>5. CASE pc' = "fail" /\ fresh' = FALSE
    BY <2>1, <2>5 DEF Lists
  <2> QED BY <1>1, <2>2, <2>3, <2>4, <2>5 DEF Writes
<1>7. JobsOwned'
  BY <1>2, <1>3, <1>4 DEF Recorded, JobsOwned, Owned, Outlived
<1>8. pc' # "cleanup"
  BY <1>1 DEF Writes, EndPass
<1>9. CleanedUp'
  BY <1>8 DEF CleanedUp
<1> QED BY <1>6, <1>7, <1>9 DEF Recorded

LEMMA LoopRecorded ==
  ASSUME IInv, IInv', Lineage, Names', Recorded, SkipCompleted \/ FindJob \/ CreateJob \/ ObserveJob
  PROVE  Recorded'
<1>1. /\ snap \in Restores /\ pc \in {"loop", "observe"}
      /\ SameInsts(snap'.insts, snap.insts) /\ pc' \in {"loop", "observe", "fail"}
      /\ UNCHANGED <<restore, cRestore, fresh>> /\ budget'.restores = budget.restores
  BY LoopSteps, FaultLeaves DEF IInv
<1>2. SameLine(snap', snap) /\ marked' = marked
  BY LoopLine DEF SkipCompleted, FindJob, CreateJob, ObserveJob, stored
<1>3. snap' \in Restores
  BY <1>1 DEF IInv, PassTyped
<1>4. snap'.insts # <<>> <=> snap.insts # <<>>
  <2>1. snap.insts \in Seq(InstanceStatus) /\ snap'.insts \in Seq(InstanceStatus)
    BY <1>1, <1>3 DEF Restores
  <2>2. Len(snap'.insts) = Len(snap.insts)
    BY <1>1 DEF SameInsts
  <2>3. snap'.insts # <<>> <=> Len(snap'.insts) # 0
    BY <2>1
  <2>4. snap.insts # <<>> <=> Len(snap.insts) # 0
    BY <2>1
  <2> QED BY <2>2, <2>3, <2>4
<1>5. Lists'
  BY <1>1, <1>2, <1>4 DEF Recorded, Lists, Keeps, SameLine
<1>6. JobsOwned'
  <2>1. CASE CreateJob
    <3> DEFINE i == Goal[k].name
    <3>1. i \in Targets /\ snap.insts # <<>> /\ i \in Instances
      BY <2>1, GoalTargets, InLoopType DEF CreateJob, Recorded
    <3>2. /\ restore # Absent /\ restore.uid = snap.uid /\ restore.finalizer
          /\ restore.insts # <<>> /\ restore.uid > budget.restores
      BY <1>1, <3>1, LoopStored DEF Recorded, Lists, Keeps, Lineage, StoredLine
    <3>3. jobs' = jobs \/ StartJob(i)
      BY <2>1 DEF CreateJob
    <3> HIDE DEF i
    <3>4. \A x \in Instances : jobs'[x] = jobs[x] \/ (x = i /\ jobs'[x].uid = snap.uid)
      BY <3>1, <3>3 DEF StartJob, IInv, TypeOK, Jobs
    <3> QED BY <1>1, <1>2, <3>1, <3>2, <3>4 DEF Recorded, JobsOwned, Owned, Outlived
  <2>2. CASE jobs' = jobs
    BY <1>1, <1>2, <2>2 DEF Recorded, JobsOwned, Owned, Outlived
  <2> QED BY <2>1, <2>2 DEF SkipCompleted, FindJob, ObserveJob, stored
<1>7. CleanedUp'
  BY <1>1 DEF CleanedUp
<1> QED BY <1>5, <1>6, <1>7 DEF Recorded

\* The jobs that are there after a step that starts none.
LEMMA FewerJobs ==
  ASSUME JobsOwned, UNCHANGED restore, budget'.restores = budget.restores,
         \A i \in Instances : jobs'[i].state # "none" =>
            jobs[i].state # "none" /\ jobs'[i].uid = jobs[i].uid /\ (i \in marked => i \in marked')
  PROVE  JobsOwned'
BY DEF JobsOwned, Owned, Outlived

LEMMA DeleteJobRecorded ==
  ASSUME IInv, Names', Recorded, DeleteJob PROVE Recorded'
<1> DEFINE i == snap.insts[k].inst
<1>1. /\ UNCHANGED <<restore, jobs, cRestore>> /\ pc = "cleanup" /\ k <= Len(snap.insts)
      /\ Delete(i) \/ marked' = marked
      /\ Fault \/ UNCHANGED budget
  BY DEF DeleteJob, caches
<1>2. snap \in Restores /\ k \in 1 .. Len(snap.insts)
  BY <1>1 DEF IInv, TypeOK, PassTyped
<1>3. snap.insts \in Seq(InstanceStatus) /\ \A j \in 1 .. Len(snap.insts) : snap.insts[j].inst \in Instances
  <2>1. snap.insts \in Seq(InstanceStatus)
    BY <1>2 DEF Restores
  <2>2. \A j \in 1 .. Len(snap.insts) : snap.insts[j] \in InstanceStatus
    BY <2>1
  <2> QED BY <2>1, <2>2 DEF InstanceStatus
<1>4. marked \subseteq marked' /\ budget'.restores = budget.restores
  BY <1>1, FaultLeaves DEF Delete, IInv
<1>5. JobsOwned'
  BY <1>1, <1>4, FewerJobs DEF Recorded
<1>6. CASE EndPass
  BY <1>1, <1>5, <1>6 DEF EndPass, Recorded, Lists, CleanedUp
<1>7. CASE Delete(i) /\ k' = k + 1 /\ UNCHANGED <<pc, snap, fresh>>
  <2>1. Lists'
    BY <1>1, <1>7 DEF Recorded, Lists
  <2>2. jobs[i].state # "none" => i \in marked'
    BY <1>7 DEF Delete
  <2>3. ASSUME pc = "cleanup", fresh, NEW j \in 1 .. Len(snap.insts), j < k + 1
        PROVE  jobs[snap.insts[j].inst].state # "none" => snap.insts[j].inst \in marked'
    <3>1. CASE j = k
      BY <2>2, <3>1
    <3>2. CASE j # k
      <4>1. j < k
        BY <1>2, <2>3, <3>2
      <4>2. Withdrawn(snap.insts[j].inst)
        BY <2>3, <4>1 DEF Recorded, CleanedUp
      <4> QED BY <1>4, <4>2 DEF Withdrawn
    <3> QED BY <3>1, <3>2
  <2>4. CleanedUp'
    BY <1>1, <1>7, <2>3 DEF CleanedUp, Withdrawn
  <2> QED BY <1>5, <2>1, <2>4 DEF Recorded
<1> QED BY <1>6, <1>7 DEF DeleteJob

\* When the finalizer is removed from the stored version, every job has been
\* deleted: its statuses name them all.
LEMMA NothingLeft ==
  ASSUME SameNames, IInv, Recorded, RemoveFinalizer, fresh, NEW i \in Instances
  PROVE  Withdrawn(i)
<1> SUFFICES ASSUME jobs[i].state # "none", i \notin marked PROVE FALSE
  BY DEF Withdrawn
<1>1. pc = "cleanup" /\ k > Len(snap.insts) /\ snap \in Restores /\ k \in Nat
  BY DEF RemoveFinalizer, IInv, TypeOK, PassTyped
<1>2. i \in Targets /\ snap.insts # <<>>
  BY DEF Recorded, JobsOwned, Owned, Outlived, Lists
<1>3. Listed(snap.insts)
  BY <1>1 DEF Recorded, Names
<1>4. PICK j \in 1 .. Len(snap.insts) : snap.insts[j].inst = i
  BY <1>2, <1>3, ListedTargets
<1>5. j < k
  BY <1>1, <1>4 DEF Restores
<1> QED BY <1>1, <1>4, <1>5 DEF Recorded, CleanedUp, Withdrawn

LEMMA RemoveFinalizerRecorded ==
  ASSUME SameNames, IInv, Names', Recorded, RemoveFinalizer PROVE Recorded'
<1>1. /\ EndPass /\ UNCHANGED <<cRestore, jobs, marked>> /\ (Fault \/ UNCHANGED budget)
      /\ restore' = restore \/ (fresh /\ restore' = Absent)
  BY DEF RemoveFinalizer, Accepted, Refused, ReplyLost, Commit, stored, caches
<1>5. budget'.restores = budget.restores
  BY <1>1, FaultLeaves DEF IInv
<1>2. Lists' /\ CleanedUp'
  BY <1>1 DEF EndPass, Recorded, Lists, Keeps, CleanedUp
<1>3. CASE restore' = restore
  BY <1>1, <1>2, <1>3, <1>5, FewerJobs DEF Recorded
<1>4. CASE fresh /\ restore' = Absent
  <2>1. JobsOwned'
    BY <1>1, <1>4, <1>5, NothingLeft DEF Recorded, JobsOwned, Outlived, Withdrawn
  <2> QED BY <1>2, <2>1 DEF Recorded
<1> QED BY <1>1, <1>3, <1>4

LEMMA EnvironmentRecorded ==
  ASSUME IInv, Names', Recorded,
         \/ Crash \/ Informers \/ Edit
         \/ (\E i \in Instances : RunJob(i) \/ CollectJob(i) \/ LoseJob(i)) \/ UNCHANGED vars
  PROVE  Recorded'
<1>1. /\ restore' = restore /\ (cRestore' = cRestore \/ cRestore' = restore)
      /\ EndPass \/ UNCHANGED <<pc, snap, fresh, k>>
  BY DEF Crash, Informers, SyncRestore, SyncCluster, SyncBackup, SyncJobs, Edit, RunJob,
         CollectJob, LoseJob, vars, stored, caches, pass
<1>7. budget'.restores = budget.restores
  <2>1. CASE Crash
    BY <2>1, FaultLeaves DEF Crash, IInv
  <2>2. CASE ~Crash
    BY <2>2 DEF Informers, Edit, RunJob, CollectJob, LoseJob, vars, IInv, TypeOK
  <2> QED BY <2>1, <2>2
<1>2. \A x \in Instances :
        jobs'[x].state # "none" =>
          jobs[x].state # "none" /\ jobs'[x].uid = jobs[x].uid /\ (x \in marked => x \in marked')
  <2>1. CASE UNCHANGED <<jobs, marked>>
    BY <2>1
  <2>2. ASSUME NEW i \in Instances, RunJob(i) \/ CollectJob(i) \/ LoseJob(i)
        PROVE  /\ marked \ {i} \subseteq marked'
               /\ \/ jobs' = [jobs EXCEPT ![i] = NoJob]
                  \/ /\ jobs[i].state # "none" /\ marked' = marked
                     /\ \E to \in JobStates : jobs' = [jobs EXCEPT ![i].state = to]
    BY <2>2 DEF RunJob, CollectJob, LoseJob
  <2>3. CASE \E i \in Instances : RunJob(i) \/ CollectJob(i) \/ LoseJob(i)
    <3>1. PICK i \in Instances :
            /\ marked \ {i} \subseteq marked'
            /\ \/ jobs' = [jobs EXCEPT ![i] = NoJob]
               \/ /\ jobs[i].state # "none" /\ marked' = marked
                  /\ \E to \in JobStates : jobs' = [jobs EXCEPT ![i].state = to]
      BY <2>2, <2>3
    <3>2. jobs \in Jobs /\ jobs[i] \in [state : JobStates, uid : Nat]
      BY DEF IInv, TypeOK, Jobs
    <3>3. CASE jobs' = [jobs EXCEPT ![i] = NoJob]
      BY <3>1, <3>2, <3>3 DEF Jobs, NoJob
    <3>4. CASE /\ jobs[i].state # "none" /\ marked' = marked
               /\ \E to \in JobStates : jobs' = [jobs EXCEPT ![i].state = to]
      BY <3>2, <3>4 DEF Jobs
    <3> QED BY <3>1, <3>3, <3>4
  <2> QED BY <2>1, <2>3 DEF Crash, Informers, Edit, vars, stored
<1>3. JobsOwned'
  BY <1>1, <1>2, <1>7, FewerJobs DEF Recorded
<1>4. cRestore' # Absent => Keeps(cRestore', restore')
  BY <1>1 DEF Recorded, Lists, Keeps
<1>5. CASE EndPass
  BY <1>3, <1>4, <1>5 DEF EndPass, Recorded, Lists, CleanedUp
<1>6. CASE UNCHANGED <<pc, snap, fresh, k>>
  <2>1. Lists'
    BY <1>1, <1>4, <1>6 DEF Recorded, Lists
  <2>2. pc = "cleanup" => \A j \in 1 .. Len(snap.insts) : snap.insts[j].inst \in Instances
    <3>1. pc = "cleanup" => snap.insts \in Seq(InstanceStatus)
      BY DEF IInv, PassTyped, Restores
    <3>2. pc = "cleanup" => \A j \in 1 .. Len(snap.insts) : snap.insts[j] \in InstanceStatus
      BY <3>1
    <3> QED BY <3>2 DEF InstanceStatus
  <2>3. CleanedUp'
    BY <1>2, <1>6, <2>2 DEF Recorded, CleanedUp, Withdrawn
  <2> QED BY <1>3, <2>1, <2>3 DEF Recorded
<1> QED BY <1>1, <1>5, <1>6

LEMMA DeleteRestoreRecorded ==
  ASSUME IInv, Lineage, Names', Recorded, DeleteRestore PROVE Recorded'
<1>1. /\ UNCHANGED <<cRestore, jobs, marked, pc, snap, k, budget>> /\ fresh' = FALSE
      /\ restore \in Restores
      /\ restore' = IF restore.finalizer THEN [restore EXCEPT !.deleting = TRUE] ELSE Absent
  BY DEF DeleteRestore, IInv, TypeOK
<1>2. \/ restore' = Absent /\ ~restore.finalizer
      \/ /\ restore' \in Restores /\ restore'.uid = restore.uid /\ restore'.insts = restore.insts
         /\ restore'.finalizer
  BY <1>1 DEF Restores
<1>3. \A v : Keeps(v, restore) => Keeps(v, restore')
  BY <1>1, <1>2, AbsentAssumption DEF Keeps
<1>4. Lists' /\ CleanedUp'
  BY <1>1, <1>3 DEF Recorded, Lists, CleanedUp
<1>5. JobsOwned'
  BY <1>1, <1>2, AbsentAssumption DEF Recorded, JobsOwned, Owned, Outlived
<1> QED BY <1>4, <1>5 DEF Recorded

LEMMA CreateRestoreRecorded ==
  ASSUME IInv, Lineage, Names', Recorded, CreateRestore PROVE Recorded'
<1>1. /\ UNCHANGED <<cRestore, jobs, marked, pc, snap, fresh, k>> /\ restore = Absent
      /\ restore'.uid = budget.restores /\ ~fresh
      /\ budget.restores \in Nat /\ budget'.restores = budget.restores - 1
  BY DEF CreateRestore, pass, IInv, TypeOK, Versions, NewRestore
<1>2. /\ cRestore # Absent => cRestore.uid # budget.restores
      /\ pc # "idle" => snap.uid # budget.restores
  <2>1. budget.restores \in Nat
    BY DEF IInv, TypeOK
  <2>2. \A v \in Restores : Earlier(v, restore, budget.restores) => v.uid # budget.restores
    BY <2>1 DEF Earlier, Restores
  <2> QED BY <2>2 DEF Lineage, StoredLine, PassLine, IInv, TypeOK, PassTyped
<1>3. Lists' /\ CleanedUp'
  BY <1>1, <1>2 DEF Lists, Keeps, CleanedUp
<1>4. JobsOwned'
  <2>1. \A i \in Instances : jobs[i].uid \in Nat
    BY DEF IInv, TypeOK, Jobs
  <2>2. \A i \in Instances : jobs[i].state # "none" => jobs[i].uid > budget.restores /\ i \in marked
    BY <1>1 DEF Recorded, JobsOwned, Owned, Outlived
  <2>3. \A i \in Instances :
          jobs[i].uid > budget.restores =>
            jobs[i].uid > budget'.restores /\ jobs[i].uid # restore'.uid
    BY <1>1, <2>1
  <2> QED BY <1>1, <2>2, <2>3 DEF JobsOwned, Outlived
<1> QED BY <1>3, <1>4 DEF Recorded

LEMMA StepRecorded ==
  ASSUME SameNames, IInv, IInv', Lineage, Recorded, [Next]_vars
  PROVE  Recorded'
<1>0. Names'
  BY SameNamesConsistent, StepNames DEF Recorded
<1>1. CASE BeginDeletion \/ BeginFinalizer \/ BeginRestore  BY <1>0, <1>1, BeginRecorded
<1>2. CASE AddFinalizer \/ InitStatuses \/ SaveStatus \/ ReportFailure  BY <1>0, <1>2, WritesRecorded
<1>3. CASE SkipCompleted \/ FindJob \/ CreateJob \/ ObserveJob  BY <1>0, <1>3, LoopRecorded
<1>4. CASE DeleteJob        BY <1>0, <1>4, DeleteJobRecorded
<1>5. CASE RemoveFinalizer  BY <1>0, <1>5, RemoveFinalizerRecorded
<1>6. CASE \/ Crash \/ Informers \/ Edit
           \/ (\E i \in Instances : RunJob(i) \/ CollectJob(i) \/ LoseJob(i)) \/ UNCHANGED vars
  BY <1>0, <1>6, EnvironmentRecorded
<1>7. CASE DeleteRestore    BY <1>0, <1>7, DeleteRestoreRecorded
<1>8. CASE CreateRestore    BY <1>0, <1>8, CreateRestoreRecorded
<1> QED BY <1>1, <1>2, <1>3, <1>4, <1>5, <1>6, <1>7, <1>8 DEF Next, Reconcile, Environment

-----------------------------------------------------------------------------
(* The theorems *)

\* Whatever users do: neither the cache nor the copy of a pass shows a finalizer
\* or a deletion that the stored restore with that uid does not have, and what
\* they show of a restore that is gone gives a pass nothing to restore.
THEOREM VersionsOrdered == Spec => []Lineage
<1>1. Init => Lineage
  BY InitLine
<1>2. IInv /\ Lineage /\ [Next]_vars => Lineage'
  BY StepLine
<1> QED BY <1>1, <1>2, Invariance, PTL DEF Spec

LEMMA RecordedInvariance ==
  ASSUME SameNames PROVE Spec => []Recorded
<1>1. Init => Recorded
  BY InitRecorded
<1>2. IInv /\ IInv' /\ Lineage /\ Recorded /\ [Next]_vars => Recorded'
  BY StepRecorded
<1> QED BY <1>1, <1>2, Invariance, VersionsOrdered, PTL DEF Spec

\* As long as the cluster keeps its instances, every job of a restore is named
\* in the stored statuses of that restore, however often the manager crashes,
\* calls fail, jobs are lost and the name of the restore is used again.
THEOREM JobsRecorded ==
  ASSUME SameNames PROVE Spec => []JobsAreRecorded
<1>1. IInv /\ Recorded => JobsAreRecorded
  <2> SUFFICES ASSUME IInv, Recorded, NEW i \in Instances, jobs[i].state # "none",
                      restore # Absent, jobs[i].uid = restore.uid
               PROVE  \E j \in DOMAIN restore.insts : restore.insts[j].inst = i
    BY DEF JobsAreRecorded
  <2>1. restore.insts # <<>> /\ i \in Targets
    BY DEF Recorded, JobsOwned, Owned, Outlived
  <2>2. Listed(restore.insts)
    BY <2>1 DEF Recorded, Names
  <2>3. \E j \in 1 .. Len(restore.insts) : restore.insts[j].inst = i
    BY <2>1, <2>2, ListedTargets
  <2>4. restore.insts \in Seq(InstanceStatus)
    BY <2>1 DEF IInv, TypeOK, Restores
  <2> QED BY <2>3, <2>4
<1> QED BY <1>1, Invariance, RecordedInvariance, PTL

\* Under the same condition, a restore that is gone has left no job behind but
\* those it has deleted: no job is left that only its owner's absence would end.
THEOREM NothingLeftBehind ==
  ASSUME SameNames PROVE Spec => []GoneLeavesNoJob
<1>1. Recorded => GoneLeavesNoJob
  BY DEF Recorded, JobsOwned, Owned, Outlived, GoneLeavesNoJob
<1> QED BY <1>1, RecordedInvariance, PTL
==============================================================================
