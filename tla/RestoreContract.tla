-------------------------- MODULE RestoreContract --------------------------
(***************************************************************************)
(* What the PostgresRestore controller promises about one restore of a     *)
(* fixed set of instances: one job per instance, run at most once;         *)
(* completion only after all of them succeeded; and after a deletion no    *)
(* new job, and every job withdrawn when the restore is gone.  There are   *)
(* no caches, versions, passes, failures or crashes here.                  *)
(***************************************************************************)
CONSTANT Targets   \* the instances the restore is about

VARIABLES stage,   \* "open", "completed", "closing" or "gone"
          job      \* the state of the job of each instance

vars == <<stage, job>>

Init == stage = "open" /\ job = [i \in Targets |-> "none"]

\* The job of an instance is created, once; it starts; it ends.
Launch(i) ==
  /\ stage = "open" /\ job[i] = "none"
  /\ job' = [job EXCEPT ![i] = "new"] /\ stage' = stage

Run(i) ==
  /\ \/ job[i] = "new" /\ job' = [job EXCEPT ![i] = "active"]
     \/ job[i] = "active" /\ \E end \in {"succeeded", "failed"} : job' = [job EXCEPT ![i] = end]
  /\ stage' = stage

\* Every instance has been restored.
Complete ==
  /\ stage = "open" /\ \A i \in Targets : job[i] = "succeeded"
  /\ stage' = "completed" /\ job' = job

\* The restore is deleted; its jobs are withdrawn; then it goes itself.
Close == stage \in {"open", "completed"} /\ stage' = "closing" /\ job' = job
Withdraw(i) ==
  /\ stage = "closing" /\ job[i] # "none"
  /\ job' = [job EXCEPT ![i] = "none"] /\ stage' = stage
Vanish ==
  /\ stage = "closing" /\ \A i \in Targets : job[i] = "none"
  /\ stage' = "gone" /\ job' = job

\* A restore may also go before anything was started.
Abandon ==
  /\ stage = "open" /\ \A i \in Targets : job[i] = "none"
  /\ stage' = "gone" /\ job' = job

Next ==
  \/ Complete \/ Close \/ Vanish \/ Abandon
  \/ \E i \in Targets : Launch(i) \/ Run(i) \/ Withdraw(i)

Spec == Init /\ [][Next]_vars

=============================================================================
