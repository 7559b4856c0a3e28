------------------------- MODULE RestoreRefinement -------------------------
(***************************************************************************)
(* PostgresRestore implements RestoreContract as long as the cluster keeps *)
(* its instances, nobody else deletes jobs and the name is not used twice. *)
(***************************************************************************)
EXTENDS PostgresRestore

\* The instances the restore is about, if the cluster and the backup are there.
Targets == {i \in Instances : \E c \in ClusterSpecs :
              /\ TargetInstances(c, Selector) # NoTargets
              /\ \E j \in DOMAIN TargetInstances(c, Selector) :
                   TargetInstances(c, Selector)[j].name = i}

\* The restore is closing as soon as every further pass is bound to handle the
\* deletion: the cache shows it, and no earlier pass is in flight.
Stage ==
  IF restore = Absent THEN "gone"
  ELSE IF cRestore.deleting /\ pc \in {"idle", "cleanup"} THEN "closing"
  ELSE IF restore.phase = "Completed" THEN "completed"
  ELSE "open"

\* A job that was deleted no longer counts, though it may be there, and run, until
\* the garbage collector has removed it.
Counted(i) == IF i \in marked THEN "none" ELSE jobs[i].state

Contract == INSTANCE RestoreContract WITH
              stage <- Stage, job <- [i \in Targets |-> Counted(i)]

\* Every behaviour of the controller, seen through this mapping, is one of the
\* contract.
ImplementsContract == Contract!Spec
=============================================================================
