# TLA+ models of the PostgreSQL cluster operator

This directory holds TLA+ models of the controllers in `src/controllers`, the TLC
runs that check them on small instances, and proofs that TLAPS checks for all
instances. It is kept beside the code: every definition names, in `PROJECT.json`
("map"), the lines it stands for.

## The system

The operator is one process (`src/main.go`) with four controllers. Each has one
worker and one handler, `Reconcile`, which is called with the name of an object
after an event, after a requeue or an error's back-off, and on resyncs. The
controllers share nothing in memory: they interact through the objects stored by
the Kubernetes API server.

| Component | State it keeps (in the API server) | Operations | Interacts with |
|---|---|---|---|
| PostgresCluster controller (`postgrescluster_controller.go`) | spec, finalizer and status (phase, current primary) of the cluster; a ConfigMap, a Secret, a Service and a StatefulSet per instance, a metrics Service | add finalizer, set the default instance, create or update children, count ready replicas, write the status, clean up | StatefulSet controller (pods), garbage collector, users |
| PostgresRestore controller (`postgresrestore_controller.go`) | finalizer and status (phase, one status per instance) of the restore; one Job per instance | add finalizer, select instances, initialise statuses, find, create and observe jobs, save the status, report an error, clean up | clusters and backups (read only), Job controller, garbage collector, users |
| PostgresBackup controller (`postgresbackup_controller.go`) | finalizer and status of the backup; one Job | select an instance, create or update the job, write the status, clean up | clusters (read only), Job controller |
| PostgresUser controller (`postgresuser_controller.go`) | finalizer and status of the user; a password Secret | add finalizer, select instances, rotate the password, try to set it on each instance, write the status, report an error, release the user | clusters (read only), PostgreSQL servers, garbage collector, users |
| `internal/k8s` | none | `CreateOrUpdate` | used by the cluster, the backup and the user controller |
| `internal/postgres` | none | build jobs and commands; SQL client | used by the backup, restore and user controllers |

What makes this hard, and what the models therefore contain:

* **Stale reads.** `mgr.GetClient()` reads from informer caches, which lag behind
  the API server, each kind of object on its own. Writes go to the API server and
  carry the resourceVersion of what was read; a write from an old copy is refused.
* **Interleaving.** A pass is many API calls; users, the garbage collector, the
  job and StatefulSet controllers act between any two of them.
* **Several objects.** The user controller writes a password into a Secret, and
  that it did so into its status; the restore controller creates a Job, and names it
  in its status. Each pass can stop, or fail, between the two.
* **Failure.** Any call can fail, or be served without its reply arriving; the
  process can stop between any two calls. Errors end the pass, some after another
  attempt to store the phase `Failed`.
* **Deletion.** Objects with a finalizer stay, marked, until the controller has
  cleaned up; in a foreground deletion the garbage collector has a finalizer, too.

What makes each component correct:

* cluster: nothing exists without the finalizer; the finalizer goes only after the
  cleanup; no user edit is undone; a spec that can be applied is applied in the
  end; what is ready is reported; a deletion ends; credentials that are in use are
  kept; `Running` means that every instance is ready.
* restore: `Completed` means that every selected instance was restored by this
  restore, is final, and is reached when the jobs have succeeded; each job is
  recorded; a deletion ends and leaves no job that is not deleted, too.
* backup: `Completed` means that a job of this backup succeeded, and is reached then;
  what cannot be backed up is reported; a deletion ends and leaves no job.
* user: a password change that the status records has happened, and is not forgotten; a
  rotation that is due happens, and a password is not replaced without one, however
  often passes fail; the status tells in the end how things stand; a deletion ends and
  leaves no generated Secret.

## Modules

| Module | What it models |
|---|---|
| `InstanceSelection` | selection from a list of instances by names, role or labels, as `getTargetInstances` of the restore controller does it; the other controllers' selections are built from it |
| `BackupTypes` | the types of backups that both kinds of jobs know |
| `PostgresRestore` | the restore controller, its caches, the jobs, the API server, users |
| `RestoreContract` | the abstract specification of one restore: each job runs at most once, completion after all of them, every job withdrawn before the restore goes |
| `RestoreRefinement` | the mapping under which `PostgresRestore` implements `RestoreContract` |
| `PostgresRestoreProofs` | theorems about `PostgresRestore`: typing, and that completion is final |
| `RestoreJobsProofs` | theorems about its versions and its jobs: recorded, and none left behind |
| `RestoreCompletionProofs` | theorem that completion is earned |
| `RestoreRefinementProofs` | theorem that `PostgresRestore` implements `RestoreContract`, and what follows |
| `PostgresCluster` | the cluster controller, its children and caches, pods, the garbage collector, users |
| `PostgresBackup` | the backup controller, its caches, its job, the API server, users |
| `PostgresClusterProofs`, `PostgresBackupProofs`, `PostgresUserProofs` | theorems about the other three controllers |
| `PostgresUser` | the user controller, its Secrets and caches, rotation intervals, the garbage collector, users |
| `MCPostgresRestore`, `MCPostgresCluster`, `MCPostgresBackup`, `MCPostgresUser` | the small instances for TLC |

### State and actions

`restore` and `cluster` (and `backup`, `user`, `secret`, `job`, `jobs`, `child`) are what the API server
stores. The variables that begin with `c`, and `known` and `current`, are the
informer caches. The rest is the pass in flight: `pc`, its copy `snap` of the
object it reconciles, the loop index `k` and other locals; a pass that ends, or a
process that stops, forgets them. A handler is one action per API call: what it
computes between two calls depends on local state only and belongs to the
action of the call before or after. `PostgresCluster` reads the StatefulSets for
the status one by one (`CountInstance`), as the code does, since the cache may
change between two of these reads.
In `PostgresUser` a turn of the loop over the instances is one step (`ConfigureInstance`),
which always fails. It does so wherever the code gets to: `NewClientForInstance` may find no
server, or one that refuses its credentials or its demand for TLS (`client.go:41`); if it
connects, `CreateOrUpdateUser` sends `CREATE USER` or `ALTER USER` with a parameter, `$1`, for
the password (`client.go:98`, `:104`). PostgreSQL takes parameters in queries only and refuses
both statements with a syntax error, whatever its version and whoever asks. So the controller
never changes a database, and a database has no state in the model; the `GRANT`s, the
connection limit and the drops of ready users, which come after a password was set, are
never sent and have no actions. `todo` and `tried` are the instances the loop has yet to take
and those it has failed on, `why` the error that the status is to report.

**Deletion of jobs.** Both controllers call `Delete` without a propagation policy, which for a
Job of `batch/v1` means that its pods are orphaned. So `Delete` only puts the job into
`marked` (in `PostgresBackup` sets it). A marked job still is there: its name is taken, caches show it, its
pods run on and may end (`RunJob`), and a status can still be read off it. It goes when the garbage
collector has detached the pods (`CollectJob`). `GoneLeavesNoJob` therefore says that a
restore that is gone has left no job but marked ones, and the refinement mapping takes
a marked job for one that is withdrawn (`Counted`). That its pods may restore on
afterwards is what the code does. Deletions by others (`LoseJob`) are taken to remove
the job with its pods.

**Versions.** A resourceVersion is only ever compared with the stored one. So the
models keep, instead of numbers, the result of the comparison: `cFresh` (the cached
object is the stored version), `fresh` (the copy of the pass is), and, for
children, the set `current` of those whose cached version is the stored one. Each
write makes them false, except that a write that changes nothing may keep the
version (the API server does not write it) or not (a field that is not modelled
changed). This keeps the state finite without a bound on the number of versions.
In `PostgresUser` the difference matters. A report of the same error once more is
a write of equal bytes, which keeps the version; only the status of a loop over
instances, whose messages may quote addresses and ports, may get a new one. If every report did, two caches
that are stale in turn could make passes undo each other's progress for ever. So
the status keeps which error it reports (`message`).

**Errors.** Each write has three outcomes. `Accepted`; `Refused`, with a fresh copy
only if a fault is spent, with a stale one always; and `ReplyLost`, where the write
is stored and the pass sees an error. `Create` and `Delete` have the same outcomes.

**The environment.** Informers catch up with one kind of object at a time. Jobs
start and end; the garbage collector removes jobs that are marked or whose owner is gone,
and others delete some, too. StatefulSets get or lose one ready pod at a time. Users edit,
delete and create objects. The garbage collector deletes children of a cluster
that is gone or deleted in the foreground, and the Secret of a user that is gone. Time is a count of rotation intervals (`Tick`): a password set
in an earlier interval is due.

**Abstractions.** A child has the fields the properties tell apart: the ConfigMap the
number and the order of its settings, the Secret one password, a Service a role, a
StatefulSet replicas, storage and ready replicas. `storage` stands for all
settings of an instance with a quantity in them, one value for one that does not
parse. `monitoring` is true when both `monitoring.enabled` and
`monitoring.prometheus.enabled` are. Types of backups are taken as already trimmed
and in lower case. Not modelled are conditions, messages, timestamps, labels, and the
texts of commands. In `PostgresRestore` the job of a restore is named by its
instance, as in the code the names differ when the instances do; two
restores at once, whose names and instances could give the same job name, are not
modelled. In `PostgresBackup` a target is an
instance or the cluster as a whole, and the job keeps its target and its owner; the host
names in its command, the databases and the volumes are not modelled, `pvcName`
only as given or not. Its job is not controlled by a pod count, but one state
(`retried`) stands for jobs that go on after a pod failed. The controllers' Update of an
existing job is always refused: the object they build has no selector and no
`controller-uid` label in its pod template, the stored one has both, and both are immutable.
In `PostgresUser` privileges and the connection limit are not in the spec: what the code does with
them comes after the statement that fails. The provided Secret
(`secretRef`) is one object that others edit, the generated one another, and the
controller checks the presence of the first and reads both from the cache. A new
generated password differs from the old one; a password of length 0 or without
symbols is not told from others.
A stale cache shows the state at some earlier time, never an older one
after a newer one, except that a re-created object is seen like any other.

## Runs

Bounds are constants of the models: failing calls, crashes and pod outages
(`MaxFaults`), edits (`MaxEdits`, for backups also backups created again under the name; in
`PostgresUser` one bound, `MaxTroubles`, for faults and edits, and `MaxTicks` for rotation
intervals), restores or users under one name (`MaxRestores`, `MaxUsers`), deletions of jobs by others (`MaxJobDeletions`; for backups they are
faults). Passes, conflicts, cache lag and job and pod
steps are not bounded. One or two faults and edits are enough for the orders that
matter: a handler has no counter, and forgets everything at the end of a pass, so
that a second fault meets the same situations as the first. Two instances are
enough for one to be done and the other not. Larger instances than those of the runs were
checked, too, with the same result: `backup_lifecycle` with two edits, for a cluster that has both instances or only `b` and no
volume (5.0 million states), and
`user_lifecycle` with two users of one name and one rotation interval (1.5 million). Deadlock is not checked, because a
Completed restore, or an object that is gone, rightly leaves nothing to do.

| Run | Shows |
|---|---|
| `restore_fixed` | Cluster with a fixed list of a primary and a replica, or no cluster; logical or physical backup (for which the replica has no volume, so that one job of two cannot be built), or none; one fault. `JobsAreRecorded`: whatever fails, each job of the restore is in its stored status, where the cleanup looks. `GoneLeavesNoJob`: also for a restore deleted while a pass is creating jobs. `ImplementsContract`: refinement. |
| `restore_resized` | The replica leaves and comes back, the cluster and the backup go and come, twice. `CompletionMeansRestored` and `CompletedIsFinal`. |
| `restore_progress` | Fairness; the restore names one instance, which the cluster has or (not yet) has not; one fault, one deleted job, two restores. `DeletionTerminates`, `SuccessIsReported`. |
| `cluster_edits` | Two instances or the default one; one fault (call, crash, pod) and one edit. `ChildrenUnderFinalizer`, `FinalizerCoversCleanup`, `EditsSurvive`. |
| `cluster_foreground` | Fairness; one instance without pods; background and foreground deletion at any time, also before the first pass. `DeletionTerminates`. |
| `cluster_progress` | Fairness; edits between no instances, a quantity that does not parse, and metrics with two settings. `ReadyIsReported`, `ValidSpecIsApplied`: although each pass rewrites the Secret and maybe the ConfigMap, and so makes its own next reads stale, passes get through. |
| `backup_lifecycle` | Fairness; a cluster with both instances, with one, or with one and without a volume for backups, or no cluster; a backup of the primary, of `b` or else `a`, or of an unsupported type; one edit of either spec, which can move the target to the other instance, or leave it without a volume, or a second backup of the name; and one failing call, crash or lost job. `CompletionMeansBackedUp`, also for a job made for the target of an earlier pass; `TroubleIsReported`, for a missing cluster, target or volume and for an unsupported type; `DeletionTerminates` (with the job, recorded or not: the cleanup only finds jobs that are recorded and cached, the others are left to the garbage collector). |
| `user_lifecycle` | Fairness; a user on all instances with a generated password that rotates, on the replica with a provided one, or without a configured password, created at any time; the cluster lists no or two instances, or is missing; one edit, failing call or crash; up to two rotation intervals. `ChangeIsReal`, `ChangesAreKept`; `RotationHappens`, `RotationsEnd`: with passes that fail, and are retried, for ever; `StatusSettles`: `Failed`, with all its instances, for every user that selects any; `DeletionTerminates`. |
| `restore_renamed`, `cluster_passwords`, `backup_reported`, `user_recreated` | findings, see below |

`MCPostgresCluster` declares the two passwords symmetric in the run without liveness
properties. Passwords are only compared for equality.

**Fairness.** `Reconcile` is weakly fair: each event, error, and the five minutes'
requeue starts a new pass, and a pass goes on with its next call. Informers, the
garbage collector, the job and the StatefulSet controllers are weakly fair: they are
level-triggered loops of Kubernetes. Time may stand still. Nothing is assumed of the servers. A job that is running ends, either way. Nothing
obliges users to act or calls to fail.
A restore that has failed for good makes no more events, but each
error returned by `Reconcile` is retried after a back-off, so weak fairness of
`Reconcile` is justified there, too, and for users, which all end in such an error. A backup whose cluster is missing is not retried once
`Failed` is stored, and that is all `TroubleIsReported` asks for; a Completed restore is left alone because its
passes do nothing (`WorkLeft`).

**Mutants.** For each property of a passing run `PROJECT.json` names a plausible bug
of the code that violates it; the operators for them are in the modules, in front
of the definitions they replace, under the word "Mutant".

## Findings

* `restore_renamed`: statuses are matched with instances by index, and reset only
  when their number changes. An instance list edited to as many others lets the
  `Completed` of one that is gone count for one that was never restored.
* `cluster_passwords`: every pass replaces the passwords in the Secret. The
  databases keep those they were initialised with.
* `backup_reported`: a pass that finds the job of the backup updates it, which is
  refused, and stores `Failed`. Only the pass that creates the job gets as far as the
  switch over the state of the job, and only if the cache shows the job by then.
  So a backup ends as `Failed` even when its job succeeded.
* `user_recreated`: the first password of a new user is written into whatever Secret has
  the name. If that is the Secret of a deleted user, it keeps its old owner and the
  garbage collector deletes it; `LastPasswordChange` is set by then, so that, without
  a rotation policy, no pass creates another, and the user has no password for ever.

Seen while modelling, but without a run:

* cluster: `Running` compares sums over all instances, so that a surplus replica of one
  makes up for the missing one of another; the children of an instance that left the
  spec stay until the cluster goes; an edit of the storage makes every pass fail at the
  StatefulSet; `spec.replicas` without an instance list gives one "primary"
  StatefulSet with that many independent servers; `CurrentPrimary` is never cleared.
* restore: a job that was deleted but not yet collected is found by the next restore of the name, too; jobs are looked up by name, not by owner, so that the finished job of a
  deleted restore completes the next one of the same name; a restore that reads the
  cluster before its default instance is there selects no instance, and 0 of 0 is
  `Completed`; a pass that starts from a copy older than `Completed` creates the job
  again if the finished one was deleted (a TTL, kubectl); after an instance was renamed
  the job is looked up under one name and created under another, and each later
  pass fails.
* backup: a backup whose job was deleted runs again; job names are cut at 63 characters.
* user: `CREATE USER` and `ALTER USER` are sent with a bind parameter for the password, which
  PostgreSQL refuses in these statements (`client.go:98`, `:104`). So a user with
  instances is never `Ready`, although the message for one says "User successfully configured"
  (`postgresuser_controller.go:238`); `StatusSettles` states what happens instead. No `GRANT`, connection limit or
  drop is ever sent; were the statement mended, a deleted user would be dropped only if its last
  phase was `Ready`, and privileges that leave the spec would stay. Before that, the client
  may fail to log in: it asks for TLS, and its credentials are those of the
  cluster's Secret, which the cluster controller replaces (`cluster_passwords`). With no
  target instance a user is `Ready`, with the instances of an older status; a pass from a stale copy
  rotates a password a second time in the same interval; rotation that is enabled without
  an interval replaces the password on every pass.
* manifests: `config/rbac/role.yaml` names the resource `postgresrestore`, in the singular, so
  that a deployed operator may not be allowed to read restores; the models take calls as permitted.

## Proofs

Each theorem holds for every set of instance names and specs and for all bounds: any
number of faults, edits, objects of one name and (where there are any) rotation intervals. Four
theorems on restores and what follows from them have conditions, which are in their statements
and are explained below. What is assumed of the constants are the ASSUMEs of the modules, which TLC evaluates in each
run: bounds are natural numbers; `Absent` is not an object; a selection from a
list of instances (`SelectInstances`, `Targets`, `BackupTarget`, which are made of
`SelectSeq`) is an error or a list of instances, or a target; the specs of clusters are
records with a sequence of instances.

In each module `Invariance` proves an inductive `IInv`; there is one lemma per action, or
per group of actions that change the same variables, and
`EndPassType`, `WriteKeeps`, `LastWriteKeeps` and `PassUntouched` are what actions have in common.
Typing is not inductive by itself, since what a pass does with its copy is safe only because
of what it has looked at before: `PassTyped` says what that is at each program counter.
`Versions` says what equal resourceVersions mean: a cached object that counts as the
stored version is it, and a copy that does agrees with the stored object in every field
the pass has not set since. The action properties rest on it: a write that is accepted
was made from what is stored.

* `PostgresRestoreProofs`. `TypeCorrect`: in the loop of `reconcileRestore` there is one
  status per selected instance, so that the index, which is one for both lists, never leaves
  the second. `CompletionFinal`: `Spec => CompletedIsFinal`; a pass that may store a phase
  started from a copy that was not `Completed`.
* `RestoreJobsProofs`. `VersionsOrdered`: `Spec => []Lineage`, without a condition. A copy that
  is not the stored version is an `Earlier` one: it shows no deletion and no finalizer that the
  stored restore with its uid does not have, and if that restore is gone the copy is being
  deleted or has no finalizer. So a pass that creates jobs, which has seen the finalizer and no
  deletion, works for a restore that is still stored: `RemoveFinalizer` is the only step that ends
  a restore with a finalizer, and it is the last step of the one worker's own pass.
  `JobsRecorded`: `Spec => []JobsAreRecorded`, and `NothingLeftBehind`: `Spec =>
  []GoneLeavesNoJob`, under `SameNames`: all cluster specs of which instances are selected give
  the same names. The invariant `Recorded` adds four things. `Names`: statuses, stored, cached or
  in a pass, name the instances selected of some spec. `Lists`: statuses that were stored are
  never dropped, so that in the loop they are stored. `JobsOwned`: a job belongs to the
  stored restore, which has its finalizer and statuses (`Owned`), or is marked and left from an earlier
  one (`Outlived`). `CleanedUp`: what a cleanup whose copy is
  the stored version has passed is gone or marked, and the removal of the finalizer fails from any other.
  Jobs may be lost and names used again; without `SameNames` the property is not the code's (a
  reset list forgets jobs, which the garbage collector ends).
* `RestoreCompletionProofs`. `CompletionIsEarned`: `Spec => CompletionMeansRestored`, under
  `ConsistentNames` (two specs that give as many selected instances give the same ones: the
  case of `restore_resized`) and one restore of the name. Neither can be left out. Without the
  first there is `restore_renamed`. With a second restore and neither faults nor edits TLC finds that
  the finished job of the first, which is found by name, completes the second. In
  the invariant `Succeeded` a job that has succeeded, stored or cached, and a status that says so
  have restored their instance; the step that stores `Completed` is `SaveStatus`
  (`CompletedBySave`), and the names of the statuses it counts are those of the selection.
* `RestoreRefinementProofs`. `ContractImplemented`: `Spec => ImplementsContract`, under
  `Undisturbed`: `SameNames`, one restore of the name, and no job deleted by others (a
  deleted job is created again, which the contract excludes). `InitMaps` and `StepMaps` are the
  simulation; there is one lemma per group of actions that says which action of the contract
  they are, or that they are a stutter: creating a job is `Launch`, storing
  `Completed` is `Complete`, the deletion of a job `Withdraw`, the step in which the last earlier
  pass ends or the cache shows the deletion `Close`, the removal of the finalizer
  `Vanish`, the deletion of a restore that has none yet `Abandon`. It needs the invariants above and `Mapped`: jobs that have succeeded stay, and none is marked, until the
  restore closes, `Completed` goes with the finalizer and with all targets restored, and a
  cleanup goes with a cache that shows the deletion. Two consequences are stated for the
  controller itself: `JobsRunOnce` (`Spec => [][RunsOnce /\ NewJobsCount]_vars`: no job comes twice, none
  once the restore closes; `NewJobsCount` adds that no job that comes is hidden from
  that by a mark) and `PromiseKept` (`Spec => []Promise`: the jobs of a completed
  restore are there and have succeeded, those of one that is gone are deleted).
* `PostgresClusterProofs`. `TypeCorrect`, with the lemmas `WorkProperties` and
  `CleanupProperties` on the lists of children for any number of instances.
  `NothingBeforehand`: `Spec => []ChildrenUnderFinalizer`; children are created under an old
  copy, so the invariant (`Guarding`) is that once any copy has the finalizer, the cluster
  has it, is being deleted, or is gone. `EditsAreKept`: `Spec => EditsSurvive`.
  `CleanupIsComplete`: `Spec => FinalizerCoversCleanup`; the invariant (`Swept`) is that
  the children before the loop index of the cleanup are gone, which holds on because only the worker
  creates children; an edit of the instance list makes the copy stale and the last write fail.
* `PostgresBackupProofs`. `TypeCorrect`; `CompletionIsTrue`: `Spec =>
  CompletionMeansBackedUp`. `ObservesOwnJob` says that after `CreateJob` the job,
  stored or cached, is the one of this pass or there is none: a job that was there before would have
  been found, or made the creation fail. `JobsTrue` relates a job that counts as
  succeeded with the history.
* `PostgresUserProofs`. `TypeCorrect`; `ChangesAreReal`: `Spec => ChangeIsReal`;
  `ChangesAreRemembered`: `Spec => ChangesAreKept`. `CopyKnown` says that a copy of the stored
  version has the time that is stored, unless the pass has just rotated the password, which
  `rotations` then shows, and `Timely` that no time lies in the future; so what a pass
  writes is never earlier than what it overwrites.

TLC checked these invariants, on instances of the restore runs, before they were
proved. Every invariant, safety action property and refinement that a passing run checks is
stated by a theorem. Only model-checked are the liveness properties (`DeletionTerminates`,
`SuccessIsReported`, `ReadyIsReported`, `ValidSpecIsApplied`, `TroubleIsReported`,
`RotationHappens`, `RotationsEnd`, `StatusSettles`): liveness under fairness is out of the
prover's reach.
`user_lifecycle` follows one user; for any number of users the safety properties are proved.

## Not modelled

Wiring (`main.go`), scheme registration, generated deep copies, manifests; the
randomness of passwords; `CreateBackupPVC`, `ListBackups`, `DeleteBackup`,
`GrantDatabaseAccess`, `RevokeDatabaseAccess` and `GetDatabaseStats`, which have no caller;
the compositions in the plan.

## Plan

1. `PostgresUser`: when the password statement is mended, the databases get a state (roles,
   privileges, limits), and a composition relates the client's credentials with the Secret that the
   cluster controller writes.
2. `PostgresBackup`: several backups whose cut job names are the same.
3. `InstanceSelection`: the selections of the three controllers compared with one
   reference definition over bounded inputs.
4. `ClusterAndRestore`: the restore with the instance list that the cluster
   controller fills, to state what becomes of a restore that comes before the default instance.
5. Proofs: the safety half of what the liveness properties rest on, such as that a finalizer
   stays until its controller removes it, for all four controllers.
