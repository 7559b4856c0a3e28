---------------------------- MODULE PostgresUser ----------------------------
(***************************************************************************)
(* The PostgresUser controller: one worker that reconciles one             *)
(* PostgresUser object, whose password is in a Secret, on the instances it *)
(* selects; the API server that stores the user and the Secrets, the       *)
(* informer caches the worker reads, the garbage collector and the people  *)
(* who edit.                                                               *)
(*                                                                         *)
(* The databases have no state here, because the controller never changes  *)
(* them: CREATE USER and ALTER USER are sent with a parameter in the place *)
(* of the password, PostgreSQL takes parameters in queries only, and       *)
(* refuses both (ConfigureInstance).                                       *)
(*                                                                         *)
(* As in PostgresRestore, a resourceVersion is modelled by what comparing  *)
(* it with the stored one gives: cFresh for the cached user, fresh for the *)
(* copy of the pass in flight, sFresh for the cached generated Secret.     *)
(***************************************************************************)
EXTENDS InstanceSelection, Integers

CONSTANTS
  Instances,        \* the names instances may have
  Clusters,         \* what the status of the cluster may list: sequences of instances
  Specs,            \* the specs users give the user
  Passwords,        \* generated and provided passwords
  Absent,           \* there is no such object
  Unset,            \* an optional field is nil
  MaxUsers,         \* bound: users created one after the other under one name
  MaxTroubles,      \* bound: failing calls, crashes, edits of the cluster, the user
                    \* and the provided Secret
  MaxTicks          \* bound: rotation intervals that pass

ASSUME UserBounds == MaxUsers \in Nat \ {0} /\ MaxTroubles \in Nat /\ MaxTicks \in Nat

VARIABLES
  user, secret, cluster,            \* the objects the API server stores
  cUser, cFresh, cSecret, sFresh, cCluster,   \* the informer caches
  pc, snap, fresh, todo, tried, why,   \* the pass in flight: program counter, its
                                    \* copy of the user, instances to go, those
                                    \* it has failed on, the error to report
  now,                              \* the time, in rotation intervals
  rotations,                        \* history: who got a generated password when
  budget                            \* what is left of the bounds

stored  == <<user, secret, cluster>>
caches  == <<cUser, cFresh, cSecret, sFresh, cCluster>>
pass    == <<pc, snap, fresh, todo, tried, why>>
vars    == <<stored, caches, pass, now, rotations, budget>>

Sources  == {"secretRef", "generate"}
Times    == 0 .. MaxTicks
Errors   == {"", "cluster", "targets", "source", "exists", "conflict", "call", "no secret", "server"}
Statuses == [phase : {"", "Ready", "Failed"}, message : Errors, instances : Seq(Instances),
             changed : Times \cup {Unset}]
Users    == [uid : 1 .. MaxUsers, spec : Specs, deleting : BOOLEAN, finalizer : BOOLEAN,
             status : Statuses]
Secrets  == [password : Passwords, owner : 0 .. MaxUsers]
Steps    == {"idle", "finalize", "rotate", "read", "configure", "save", "fail", "release"}

ASSUME AbsentAssumption == Absent \notin Users /\ Absent \notin Secrets /\ Absent \notin Clusters
ASSUME UnsetAssumption == Unset \notin Times

NewUser(uid, spec) ==
  [uid |-> uid, spec |-> spec, deleting |-> FALSE, finalizer |-> FALSE,
   status |-> [phase |-> "", message |-> "", instances |-> <<>>, changed |-> Unset]]

TypeOK ==
  /\ user \in Users \cup {Absent} /\ cUser \in Users \cup {Absent} /\ snap \in Users \cup {Absent}
  /\ secret \in [Sources -> Secrets \cup {Absent}] /\ cSecret \in [Sources -> Secrets \cup {Absent}]
  /\ cluster \in Clusters \cup {Absent} /\ cCluster \in Clusters \cup {Absent}
  /\ cFresh \in BOOLEAN /\ sFresh \in BOOLEAN /\ fresh \in BOOLEAN
  /\ pc \in Steps
  /\ todo \in Seq(Instances) /\ tried \in Seq(Instances) /\ why \in Errors
  /\ now \in Times /\ rotations \subseteq (1 .. MaxUsers) \X Times
  /\ budget \in [users : Nat, troubles : Nat]

-----------------------------------------------------------------------------
(* Building blocks of the handlers *)

\* getTargetInstances: listed names are taken unseen; the rest is chosen from the
\* instances in the status of the cluster, and to choose none is an error unless
\* the selector is empty.
NamesOf(instances) == [j \in DOMAIN instances |-> instances[j].name]

Targets(listed, selector) ==
  LET chosen == IF selector.role # "" THEN SelectRole(listed, selector.role)
                                      ELSE SelectLabels(listed, selector.labels)
  IN  CASE selector.names # <<>> -> selector.names
        [] selector.names = <<>> /\ selector.role = "" /\ selector.labels = NoLabels ->
             NamesOf(listed)
        [] OTHER -> IF chosen \in {NoTargets, <<>>} THEN NoTargets ELSE NamesOf(chosen)

ASSUME SpecsAssumption ==
  \A spec \in Specs, listed \in Clusters :
    Targets(listed, spec.selector) \in Seq(Instances) \cup {NoTargets}
ASSUME NoTargetsAssumption == NoTargets \notin Seq(Instances)

\* Mutant: the rotation policy is not looked at.
DueOnce(u) == u.status.changed = Unset

\* shouldRotatePassword
Due(u) == \/ u.status.changed = Unset
          \/ u.spec.rotation /\ u.status.changed < now

EndPass == /\ pc' = "idle" /\ snap' = Absent /\ fresh' = FALSE
           /\ todo' = <<>> /\ tried' = <<>> /\ why' = ""

\* The API server stores a new version of the user, and the cached copy is stale.
\* A write that changes nothing keeps the version: the same error once more does;
\* the errors of the instances may, or not, for the addresses in their texts.
Commit(new) ==
  /\ user' = new
  /\ \/ (new # user \/ pc = "save") /\ cFresh' = FALSE
     \/ new = user /\ cFresh' = cFresh
  /\ UNCHANGED <<secret, cluster, cUser, cSecret, sFresh, cCluster>>

Trouble == budget.troubles > 0 /\ budget' = [budget EXCEPT !.troubles = @ - 1]

\* Update and Status().Update of the user: accepted, an error, or served with the
\* reply lost.
Accepted(new) == fresh /\ Commit(new) /\ UNCHANGED budget
Refused ==
  /\ UNCHANGED <<stored, caches>>
  /\ \/ ~fresh /\ UNCHANGED budget
     \/ Trouble
ReplyLost(new) == fresh /\ Commit(new) /\ Trouble

\* The last call of a pass.
LastWrite(new) ==
  /\ Accepted(new) \/ Refused \/ ReplyLost(new)
  /\ EndPass
  /\ UNCHANGED <<now, rotations>>

-----------------------------------------------------------------------------
(* Reconcile *)

\* A pass starts whenever the worker is free: on an event of the user or of its
\* Secret, after thirty minutes, or an error's back-off.
Begin ==
  /\ pc = "idle" /\ cUser # Absent
  /\ snap' = cUser /\ fresh' = cFresh
  /\ UNCHANGED <<stored, caches, tried, now, rotations, budget>>

BeginFinalizer ==
  /\ Begin
  /\ ~cUser.finalizer
  /\ pc' = "finalize" /\ UNCHANGED <<todo, why>>

\* Mutant: a cluster that is not found is an error, and the next pass tries again.
BeginDeletionWithCluster ==
  /\ Begin
  /\ cUser.finalizer /\ cUser.deleting /\ cCluster # Absent
  /\ pc' = "release" /\ UNCHANGED <<todo, why>>

\* handleDeletion drops the role from the instances that are listed as ready.  As
\* ConfigureInstance lists none, only the finalizer is left to remove, whatever
\* the last phase was and whether the cluster is found or not.
BeginDeletion ==
  /\ Begin
  /\ cUser.finalizer /\ cUser.deleting
  /\ pc' = "release" /\ UNCHANGED <<todo, why>>

\* Mutant: the error of getTargetInstances is overlooked.
BeginUserAnyway ==
  /\ Begin
  /\ cUser.finalizer /\ ~cUser.deleting /\ cCluster # Absent
  /\ todo' = Targets(cCluster, cUser.spec.selector)
  /\ pc' = IF cUser.spec.source = "generate" /\ Due(cUser) THEN "rotate" ELSE "read"
  /\ why' = why

\* The cluster, the targets and the configuration of the password, in this order;
\* each error of them ends in the phase Failed.
BeginUser ==
  /\ Begin
  /\ cUser.finalizer /\ ~cUser.deleting
  /\ LET targets == Targets(cCluster, cUser.spec.selector)
         source  == cUser.spec.source
         error   == CASE cCluster = Absent -> "cluster"
                      [] cCluster # Absent /\ targets = NoTargets -> "targets"
                      [] cCluster # Absent /\ targets # NoTargets
                         /\ (source \notin Sources \/ (source = "secretRef" /\ cSecret[source] = Absent))
                           -> "source"
                      [] OTHER -> ""
     IN  /\ why' = error
         /\ \/ /\ error = "" /\ todo' = targets
               /\ pc' = IF source = "generate" /\ Due(cUser) THEN "rotate" ELSE "read"
            \/ error # "" /\ todo' = todo /\ pc' = "fail"

\* Update with the finalizer added; the next pass goes on, whatever the reply.
AddFinalizer ==
  /\ pc = "finalize"
  /\ LastWrite([snap EXCEPT !.finalizer = TRUE])

\* CreateOrUpdate of the generated Secret, with a password that is new.  It is
\* served when neither cache nor API server has one, or when the cached one is
\* the stored version.
SecretServable ==
  IF cSecret["generate"] = Absent THEN secret["generate"] = Absent ELSE sFresh

StoreSecret ==
  LET old == secret["generate"]
  IN  /\ SecretServable /\ sFresh' = FALSE
      /\ \E password \in Passwords :
           /\ old # Absent => password # old.password
           /\ secret' = [secret EXCEPT !["generate"] =
                [password |-> password, owner |-> IF old = Absent THEN snap.uid ELSE old.owner]]
      /\ rotations' = rotations \cup {<<snap.uid, now>>}

SecretRefused ==
  /\ UNCHANGED <<secret, sFresh, rotations>>
  /\ \/ /\ ~SecretServable /\ UNCHANGED budget
        /\ why' = IF cSecret["generate"] = Absent THEN "exists" ELSE "conflict"
     \/ Trouble /\ why' = "call"

\* Mutant: the time is noted before the Secret is written.
RotatePasswordEarly ==
  /\ pc = "rotate"
  /\ \/ StoreSecret /\ pc' = "read" /\ UNCHANGED <<why, budget>>
     \/ SecretRefused /\ pc' = "fail"
  /\ snap' = [snap EXCEPT !.status.changed = now]
  /\ UNCHANGED <<user, cluster, cUser, cFresh, cSecret, cCluster,
                 fresh, todo, tried, now>>

\* Mutant: the copy of the status does not get the time.
RotatePasswordUnnoted ==
  /\ pc = "rotate"
  /\ \/ StoreSecret /\ pc' = "read" /\ UNCHANGED <<why, budget>>
     \/ SecretRefused /\ pc' = "fail"
  /\ UNCHANGED <<user, cluster, cUser, cFresh, cSecret, cCluster, snap,
                 fresh, todo, tried, now>>

\* The copy of the status gets the time once the Secret is written.
RotatePassword ==
  /\ pc = "rotate"
  /\ \/ /\ StoreSecret /\ UNCHANGED <<why, budget>>
        /\ snap' = [snap EXCEPT !.status.changed = now] /\ pc' = "read"
     \/ /\ SecretRefused \/ (StoreSecret /\ Trouble /\ why' = "call")
        /\ snap' = snap /\ pc' = "fail"
  /\ UNCHANGED <<user, cluster, cUser, cFresh, cSecret, cCluster,
                 fresh, todo, tried, now>>

\* getPasswordFromSecret reads the cache, also right after the Secret was written.
ReadPassword ==
  /\ pc = "read"
  /\ LET found == cSecret[snap.spec.source] # Absent
     IN  \/ ~found /\ pc' = "fail" /\ why' = "no secret"
         \/ found /\ pc' = (IF todo = <<>> THEN "save" ELSE "configure") /\ why' = why
  /\ UNCHANGED <<stored, caches, snap, fresh, todo, tried, now, rotations, budget>>

\* One turn of the loop over the instances.  Either NewClientForInstance fails, or
\* CreateOrUpdateUser does when it creates the role or sets its password: it sends
\* "WITH PASSWORD $1", which PostgreSQL always refuses.  The instance is noted as
\* not ready, and the loop goes on; what would come next, the GRANTs and the
\* connection limit, is never sent.
ConfigureInstance ==
  /\ pc = "configure"
  /\ tried' = Append(tried, Head(todo))
  /\ todo' = Tail(todo)
  /\ pc' = IF Tail(todo) = <<>> THEN "save" ELSE pc
  /\ UNCHANGED <<stored, caches, snap, fresh, why, now, rotations, budget>>

\* The phase is Ready only when there was no instance to configure; updateStatus
\* then keeps the instances of the old status.
SaveStatus ==
  /\ pc = "save"
  /\ LastWrite([snap EXCEPT !.status.phase = IF tried = <<>> THEN "Ready" ELSE "Failed",
                            !.status.message = IF tried = <<>> THEN "" ELSE "server",
                            !.status.instances = IF tried = <<>> THEN @ ELSE tried])

\* Mutant: the error is returned without being stored.
LogFailure ==
  /\ pc = "fail" /\ EndPass
  /\ UNCHANGED <<stored, caches, now, rotations, budget>>

\* Mutant: the new status does not take the time of the last change along.
ReportFailureAlone ==
  /\ pc = "fail"
  /\ LastWrite([snap EXCEPT !.status.phase = "Failed", !.status.message = why,
                            !.status.changed = Unset])

\* The status of an error; updateStatus keeps the other fields of the old one.
ReportFailure ==
  /\ pc = "fail"
  /\ LastWrite([snap EXCEPT !.status.phase = "Failed", !.status.message = why])

\* With its only finalizer gone, the object is removed.
RemoveFinalizer ==
  /\ pc = "release"
  /\ LastWrite(Absent)

Reconcile ==
  \/ BeginFinalizer \/ BeginDeletion \/ BeginUser \/ AddFinalizer \/ RotatePassword
  \/ ReadPassword \/ ConfigureInstance \/ SaveStatus \/ ReportFailure \/ RemoveFinalizer

-----------------------------------------------------------------------------
(* The environment *)

\* The manager stops between two steps and starts again.
Crash ==
  /\ pc # "idle" /\ Trouble /\ EndPass
  /\ UNCHANGED <<stored, caches, now, rotations>>

\* An informer catches up with its kind of object; kinds lag independently.
SyncUser    == ~cFresh /\ cUser' = user /\ cFresh' = TRUE /\ UNCHANGED <<cSecret, sFresh, cCluster>>
SyncSecrets == /\ ~sFresh \/ cSecret # secret
               /\ cSecret' = secret /\ sFresh' = TRUE /\ UNCHANGED <<cUser, cFresh, cCluster>>
SyncCluster == cCluster # cluster /\ cCluster' = cluster /\ UNCHANGED <<cUser, cFresh, cSecret, sFresh>>
Informers ==
  /\ SyncUser \/ SyncSecrets \/ SyncCluster
  /\ UNCHANGED <<stored, pass, now, rotations, budget>>

\* A rotation interval passes: a password set before is due to be replaced.
Tick ==
  /\ now < MaxTicks /\ now' = now + 1
  /\ UNCHANGED <<stored, caches, pass, rotations, budget>>

\* The garbage collector deletes the generated Secret of a user that is gone.
CollectSecret ==
  /\ secret["generate"] # Absent
  /\ ~(user # Absent /\ user.uid = secret["generate"].owner)
  /\ secret' = [secret EXCEPT !["generate"] = Absent] /\ sFresh' = FALSE
  /\ UNCHANGED <<user, cluster, cUser, cFresh, cSecret, cCluster, pass, now, rotations, budget>>

\* The cluster controller, or a user, changes the cluster; somebody the Secret that
\* holds a password that is not generated.
EditCluster ==
  /\ Trouble
  /\ cluster' \in (Clusters \cup {Absent}) \ {cluster}
  /\ UNCHANGED <<user, secret, caches, pass, now, rotations>>

EditSecret ==
  /\ Trouble
  /\ \E new \in [password : Passwords, owner : {0}] \cup {Absent} :
       new # secret["secretRef"] /\ secret' = [secret EXCEPT !["secretRef"] = new]
  /\ UNCHANGED <<user, cluster, caches, pass, now, rotations>>

UserWrite(new) ==
  /\ user' = new /\ cFresh' = FALSE /\ fresh' = FALSE
  /\ UNCHANGED <<secret, cluster, cUser, cSecret, sFresh, cCluster,
                 pc, snap, todo, tried, why, now, rotations>>

EditUser ==
  /\ Trouble
  /\ user # Absent
  /\ \E spec \in Specs \ {user.spec} : UserWrite([user EXCEPT !.spec = spec])

\* A user deletes the object: it stays, marked, as long as it has the finalizer.
DeleteUser ==
  /\ user # Absent /\ ~user.deleting
  /\ UserWrite(IF user.finalizer THEN [user EXCEPT !.deleting = TRUE] ELSE Absent)
  /\ UNCHANGED budget

\* A user creates the object, or one of the same name again; its uid is new.
CreateUser ==
  /\ user = Absent
  /\ budget.users > 0 /\ budget' = [budget EXCEPT !.users = @ - 1]
  /\ \E spec \in Specs : UserWrite(NewUser(budget.users, spec))

Environment ==
  \/ Crash \/ Informers \/ Tick \/ CollectSecret
  \/ EditCluster \/ EditSecret \/ EditUser \/ DeleteUser \/ CreateUser

-----------------------------------------------------------------------------
\* Nobody has created the object yet, and the caches are in sync.
Init ==
  /\ user = Absent
  /\ cluster \in Clusters
  /\ secret = [source \in Sources |-> Absent]
  /\ cUser = user /\ cFresh = TRUE /\ cSecret = secret /\ sFresh = TRUE /\ cCluster = cluster
  /\ pc = "idle" /\ snap = Absent /\ fresh = FALSE
  /\ todo = <<>> /\ tried = <<>> /\ why = ""
  /\ now = 0 /\ rotations = {}
  /\ budget = [users |-> MaxUsers, troubles |-> MaxTroubles]

Next == Reconcile \/ Environment

Spec == Init /\ [][Next]_vars

\* The worker keeps reconciling, the informers and the garbage collector keep up.
\* Nobody has to edit, delete, crash or fail, and time may stand still.
Fairness ==
  /\ WF_vars(Reconcile)
  /\ WF_vars(Informers /\ SyncUser) /\ WF_vars(Informers /\ SyncSecrets)
  /\ WF_vars(Informers /\ SyncCluster)
  /\ WF_vars(CollectSecret)

FairSpec == Spec /\ Fairness

-----------------------------------------------------------------------------
(* Properties *)

Open == user # Absent /\ ~user.deleting

\* The status never records a change of the password that did not take place for
\* this very user: a rotation that failed half-way, or was done for a user of the
\* same name that is gone, is due again.
ChangeIsReal ==
  [][(user # Absent /\ user' # Absent /\ user'.status.changed # user.status.changed)
       => <<user.uid, user'.status.changed>> \in rotations]_vars

\* A change that is recorded is not forgotten and not taken back by a later error,
\* or by a pass that worked from an older copy: it would rotate for nothing.
ChangesAreKept ==
  [][(user # Absent /\ user' # Absent /\ user.status.changed # Unset)
       => user'.status.changed # Unset /\ user'.status.changed >= user.status.changed]_vars

\* The instances can be determined, and the password as well.
Configurable ==
  /\ cluster # Absent /\ Targets(cluster, user.spec.selector) # NoTargets
  /\ user.spec.source \in Sources
  /\ user.spec.source = "secretRef" => secret["secretRef"] # Absent

\* A password that is due to be rotated is rotated, and that is recorded.
RotationHappens ==
  []<>(~Open \/ ~Configurable \/ user.spec.source # "generate" \/ ~user.spec.rotation
       \/ (<<user.uid, now>> \in rotations /\ user.status.changed = now))

\* Although every pass of a user with instances fails and is retried, the password
\* that an application has to use is not replaced over and over.
RotationsEnd == <>[][secret'["generate"] = secret["generate"]]_vars

\* In the end the status tells how things stand, whatever failed, was edited or
\* came late on the way.  A user that selects instances is Failed and lists them
\* all; it is Ready only when it has a password and its cluster no instances yet.
StatusSettles ==
  <>[](~Open \/
       LET targets  == Targets(cluster, user.spec.selector)
           complete == Configurable /\ secret[user.spec.source] # Absent
       IN  IF complete /\ targets = <<>>
           THEN user.status.phase = "Ready"
           ELSE /\ user.status.phase = "Failed"
                /\ complete => user.status.instances = targets)

\* A deleted user is gone eventually, and so is its generated Secret: no cluster
\* that is missing can hold it up.
DeletionTerminates ==
  \A uid \in 1 .. MaxUsers :
    (user # Absent /\ user.uid = uid /\ user.deleting)
      ~> ((user = Absent \/ user.uid # uid)
          /\ (secret["generate"] = Absent \/ secret["generate"].owner # uid))

\* "Ensures the desired state matches the actual state": a user with a generated
\* password has the Secret in the end.
SecretIsThere ==
  []<>(~Open \/ ~Configurable \/ user.spec.source # "generate" \/ secret["generate"] # Absent)
=============================================================================
