------------------------- MODULE PostgresUserProofs -------------------------
(***************************************************************************)
(* Proofs about PostgresUser, for all instances, clusters, specs,          *)
(* passwords and bounds:                                                   *)
(*   TypeCorrect          every reachable state is well typed;             *)
(*   ChangesAreReal       the status records only changes that happened;   *)
(*   ChangesAreRemembered and does not forget them.                        *)
(***************************************************************************)
EXTENDS PostgresUser, SequenceTheorems, TLAPS

\* What a pass knows at each of its steps.
PassTyped ==
  /\ pc # "idle" => snap \in Users
  /\ pc \in {"rotate", "read"} => snap.spec.source \in Sources
  /\ pc = "configure" => todo # <<>>

\* The resourceVersion of the cached user is the stored one: so is the user.
CacheKnown == cFresh => cUser = user

\* The resourceVersion of the copy is the stored one: it is of the same user, and
\* has the time that is stored, or a later one at which this pass rotated.
CopyKnown ==
  fresh =>
    /\ user # Absent /\ snap.uid = user.uid
    /\ \/ snap.status.changed = user.status.changed
       \/ /\ <<snap.uid, snap.status.changed>> \in rotations
          /\ snap.status.changed \in Times /\ snap.status.changed <= now
          /\ user.status.changed # Unset => user.status.changed <= snap.status.changed

\* No change is recorded before its time.
Timely == user # Absent /\ user.status.changed # Unset => user.status.changed <= now

IInv == /\ TypeOK /\ budget.users <= MaxUsers
        /\ PassTyped /\ CacheKnown /\ CopyKnown /\ Timely

\* What ChangeIsReal and ChangesAreKept say of a step.
ChangedTruly ==
  (user # Absent /\ user' # Absent /\ user'.status.changed # user.status.changed)
    => <<user.uid, user'.status.changed>> \in rotations

ChangedForward ==
  (user # Absent /\ user' # Absent /\ user.status.changed # Unset)
    => user'.status.changed # Unset /\ user'.status.changed >= user.status.changed

-----------------------------------------------------------------------------
(* Typing, grouped as the handlers change the variables *)

StoredTyped ==
  /\ user \in Users \cup {Absent}
  /\ secret \in [Sources -> Secrets \cup {Absent}]
  /\ cluster \in Clusters \cup {Absent}
CachesTyped ==
  /\ cUser \in Users \cup {Absent} /\ cFresh \in BOOLEAN
  /\ cSecret \in [Sources -> Secrets \cup {Absent}] /\ sFresh \in BOOLEAN
  /\ cCluster \in Clusters \cup {Absent}
LocalsTyped ==
  /\ pc \in Steps /\ snap \in Users \cup {Absent} /\ fresh \in BOOLEAN
  /\ todo \in Seq(Instances) /\ tried \in Seq(Instances) /\ why \in Errors
GhostsTyped ==
  /\ now \in Times /\ rotations \subseteq (1 .. MaxUsers) \X Times
  /\ budget \in [users : Nat, troubles : Nat] /\ budget.users <= MaxUsers

LEMMA Parts ==
  /\ IInv <=> /\ StoredTyped /\ CachesTyped /\ LocalsTyped /\ GhostsTyped
              /\ PassTyped /\ CacheKnown /\ CopyKnown /\ Timely
  /\ IInv' <=> /\ StoredTyped' /\ CachesTyped' /\ LocalsTyped' /\ GhostsTyped'
               /\ PassTyped' /\ CacheKnown' /\ CopyKnown' /\ Timely'
BY DEF IInv, TypeOK, StoredTyped, CachesTyped, LocalsTyped, GhostsTyped

LEMMA TimesAreNumbers ==
  /\ Times \subseteq Nat /\ Unset \notin Times
  /\ \A t \in Times \cup {Unset} : t # Unset => t \in Nat
BY UserBounds, UnsetAssumption DEF Times

LEMMA UserFields ==
  ASSUME NEW u \in Users
  PROVE  /\ u # Absent /\ u.uid \in 1 .. MaxUsers /\ u.spec \in Specs /\ u.status \in Statuses
         /\ u.status.instances \in Seq(Instances) /\ u.status.changed \in Times \cup {Unset}
<1>1. u.uid \in 1 .. MaxUsers /\ u.spec \in Specs /\ u.status \in Statuses
  BY DEF Users
<1>2. u.status.instances \in Seq(Instances) /\ u.status.changed \in Times \cup {Unset}
  BY <1>1 DEF Statuses
<1> QED BY <1>1, <1>2, AbsentAssumption

LEMMA Unmoved ==
  ASSUME IInv, user' = user PROVE ChangedTruly /\ ChangedForward
<1>1. ASSUME user # Absent, user.status.changed # Unset
      PROVE  user.status.changed \in Nat
  <2>1. user \in Users
    BY <1>1, Parts DEF StoredTyped
  <2>2. user.status.changed \in Times \cup {Unset}
    BY <2>1, UserFields
  <2> QED BY <1>1, <2>2, TimesAreNumbers
<1>2. ChangedTruly
  BY DEF ChangedTruly
<1>3. ChangedForward
  BY <1>1 DEF ChangedForward
<1> QED BY <1>2, <1>3

LEMMA TroubleType ==
  ASSUME GhostsTyped, Trouble \/ UNCHANGED budget
  PROVE  budget' \in [users : Nat, troubles : Nat] /\ budget'.users <= MaxUsers
BY DEF GhostsTyped, Trouble

-----------------------------------------------------------------------------
(* The invariant holds at first *)

LEMMA InitEstablishes == Init => IInv
<1> SUFFICES ASSUME Init PROVE IInv
  OBVIOUS
<1>1. <<>> \in Seq(Instances) /\ 0 \in Times
  BY UserBounds DEF Times
<1>2. StoredTyped /\ CachesTyped
  BY DEF Init, StoredTyped, CachesTyped
<1>3. LocalsTyped
  BY <1>1 DEF Init, LocalsTyped, Steps, Errors
<1>4. GhostsTyped
  <2>1. budget = [users |-> MaxUsers, troubles |-> MaxTroubles] /\ now = 0 /\ rotations = {}
    BY DEF Init
  <2> QED BY <1>1, <2>1, UserBounds DEF GhostsTyped
<1>5. PassTyped /\ CacheKnown /\ CopyKnown /\ Timely
  BY DEF Init, PassTyped, CacheKnown, CopyKnown, Timely
<1> QED BY <1>2, <1>3, <1>4, <1>5, Parts

-----------------------------------------------------------------------------
(* A pass starts *)

LEMMA BeginPreserves ==
  ASSUME IInv, BeginFinalizer \/ BeginDeletion \/ BeginUser
  PROVE  IInv'
<1>1. /\ StoredTyped /\ CachesTyped /\ LocalsTyped /\ GhostsTyped
      /\ PassTyped /\ CacheKnown /\ CopyKnown /\ Timely
  BY Parts
<1>2. Begin
  BY DEF BeginFinalizer, BeginDeletion, BeginUser
<1>3. /\ UNCHANGED <<user, secret, cluster, cUser, cFresh, cSecret, sFresh, cCluster>>
      /\ UNCHANGED <<tried, now, rotations, budget>>
      /\ snap' = cUser /\ fresh' = cFresh /\ cUser # Absent
  BY <1>2 DEF Begin, stored, caches
<1>4. cUser \in Users
  BY <1>1, <1>3 DEF CachesTyped
<1>5. LocalsTyped' /\ PassTyped'
  <2>1. CASE BeginFinalizer \/ BeginDeletion
    <3>1. pc' \in {"finalize", "release"} /\ UNCHANGED <<todo, why>>
      BY <2>1 DEF BeginFinalizer, BeginDeletion
    <3> QED BY <1>1, <1>3, <1>4, <3>1 DEF LocalsTyped, CachesTyped, PassTyped, Steps
  <2>2. CASE BeginUser
    <3> DEFINE targets == Targets(cCluster, cUser.spec.selector)
               source  == cUser.spec.source
               error   == CASE cCluster = Absent -> "cluster"
                            [] cCluster # Absent /\ targets = NoTargets -> "targets"
                            [] cCluster # Absent /\ targets # NoTargets
                               /\ (source \notin Sources
                                   \/ (source = "secretRef" /\ cSecret[source] = Absent)) -> "source"
                            [] OTHER -> ""
    <3>1. /\ why' = error
          /\ \/ error = "" /\ todo' = targets /\ pc' \in {"rotate", "read"}
             \/ todo' = todo /\ pc' = "fail"
      BY <2>2 DEF BeginUser
    <3>2. error \in Errors
      BY DEF Errors
    <3>3. error = "" => cCluster # Absent /\ targets # NoTargets /\ source \in Sources
      OBVIOUS
    <3>4. error = "" => targets \in Seq(Instances)
      <4>1. cUser.spec \in Specs
        BY <1>4, UserFields
      <4>2. cCluster # Absent => cCluster \in Clusters
        BY <1>1 DEF CachesTyped
      <4> QED BY <3>3, <4>1, <4>2, SpecsAssumption
    <3> HIDE DEF error, targets
    <3>5. LocalsTyped'
      BY <1>1, <1>3, <1>4, <3>1, <3>2, <3>4 DEF LocalsTyped, CachesTyped, Steps
    <3>6. PassTyped'
      BY <1>3, <1>4, <3>1, <3>3 DEF PassTyped
    <3> QED BY <3>5, <3>6
  <2> QED BY <2>1, <2>2
<1>6. StoredTyped' /\ CachesTyped' /\ GhostsTyped' /\ CacheKnown' /\ Timely'
  BY <1>1, <1>3 DEF StoredTyped, CachesTyped, GhostsTyped, CacheKnown, Timely
<1>7. CopyKnown'
  BY <1>1, <1>3 DEF CacheKnown, CopyKnown
<1> QED BY <1>5, <1>6, <1>7, Parts

-----------------------------------------------------------------------------
(* The writes of the user *)

\* A pass that is over says nothing that could be wrong.
LEMMA EndPassType ==
  ASSUME EndPass
  PROVE  LocalsTyped' /\ PassTyped' /\ CopyKnown'
<1>1. /\ pc' = "idle" /\ snap' = Absent /\ fresh' = FALSE
      /\ todo' = <<>> /\ tried' = <<>> /\ why' = ""
  BY DEF EndPass
<1>2. <<>> \in Seq(Instances)
  OBVIOUS
<1>3. LocalsTyped'
  BY <1>1, <1>2 DEF LocalsTyped, Steps, Errors
<1>4. PassTyped' /\ CopyKnown'
  BY <1>1 DEF PassTyped, CopyKnown
<1> QED BY <1>3, <1>4

\* A write that ends the pass stores the time of the copy, or ends the user.
LEMMA LastWriteKeeps ==
  ASSUME IInv, NEW new \in Users \cup {Absent}, LastWrite(new),
         new # Absent => new.status.changed = snap.status.changed
  PROVE  IInv' /\ ChangedTruly /\ ChangedForward
<1>1. /\ StoredTyped /\ CachesTyped /\ LocalsTyped /\ GhostsTyped
      /\ CacheKnown /\ CopyKnown /\ Timely
  BY Parts
<1>2. EndPass /\ UNCHANGED <<now, rotations>>
  BY DEF LastWrite
<1>3. Trouble \/ UNCHANGED budget
  BY DEF LastWrite, Accepted, Refused, ReplyLost
<1>4. LocalsTyped' /\ PassTyped' /\ CopyKnown'
  BY <1>2, EndPassType
<1>5. GhostsTyped'
  BY <1>1, <1>2, <1>3, TroubleType DEF GhostsTyped
<1>6. CASE UNCHANGED <<stored, caches>>
  <2>1. UNCHANGED <<user, secret, cluster, cUser, cFresh, cSecret, sFresh, cCluster>>
    BY <1>6 DEF stored, caches
  <2>2. StoredTyped' /\ CachesTyped' /\ CacheKnown' /\ Timely'
    BY <1>1, <1>2, <2>1 DEF StoredTyped, CachesTyped, CacheKnown, Timely
  <2>3. ChangedTruly /\ ChangedForward
    BY <2>1, Unmoved
  <2> QED BY <1>4, <1>5, <2>2, <2>3, Parts
<1>7. CASE fresh /\ Commit(new)
  <2>1. user' = new /\ UNCHANGED <<secret, cluster, cUser, cSecret, sFresh, cCluster>>
    BY <1>7 DEF Commit
  <2>2. cFresh' \in BOOLEAN /\ (cFresh' => cUser' = user')
    <3>1. CASE cFresh' = FALSE
      BY <3>1
    <3>2. CASE new = user /\ cFresh' = cFresh
      BY <1>1, <2>1, <3>2 DEF CachesTyped, CacheKnown
    <3> QED BY <1>7, <3>1, <3>2 DEF Commit
  <2>3. user \in Users
    BY <1>1, <1>7 DEF CopyKnown, StoredTyped
  <2>4. user.status.changed \in Times \cup {Unset}
    BY <2>3, UserFields
  <2>5. StoredTyped' /\ CachesTyped' /\ CacheKnown'
    BY <1>1, <2>1, <2>2 DEF StoredTyped, CachesTyped, CacheKnown
  <2>6. Timely' /\ ChangedTruly /\ ChangedForward
    <3>1. CASE new = Absent
      BY <2>1, <3>1 DEF Timely, ChangedTruly, ChangedForward
    <3>2. CASE new # Absent /\ snap.status.changed = user.status.changed
      <4>1. user'.status.changed = user.status.changed
        BY <2>1, <3>2
      <4> QED BY <1>1, <1>2, <2>3, <2>4, <4>1, TimesAreNumbers, AbsentAssumption
              DEF Timely, ChangedTruly, ChangedForward
    <3>3. CASE /\ new # Absent
               /\ snap.uid = user.uid /\ <<snap.uid, snap.status.changed>> \in rotations
               /\ snap.status.changed \in Times /\ snap.status.changed <= now
               /\ user.status.changed # Unset => user.status.changed <= snap.status.changed
      <4>1. user'.status.changed = snap.status.changed
        BY <2>1, <3>3
      <4> QED BY <1>2, <2>4, <3>3, <4>1, TimesAreNumbers
              DEF Timely, ChangedTruly, ChangedForward
    <3> QED BY <1>1, <1>7, <3>1, <3>2, <3>3 DEF CopyKnown
  <2> QED BY <1>4, <1>5, <2>5, <2>6, Parts
<1> QED BY <1>6, <1>7 DEF LastWrite, Accepted, Refused, ReplyLost

LEMMA AddFinalizerKeeps ==
  ASSUME IInv, AddFinalizer PROVE IInv' /\ ChangedTruly /\ ChangedForward
<1> DEFINE new == [snap EXCEPT !.finalizer = TRUE]
<1>1. snap \in Users /\ LastWrite(new)
  BY Parts DEF AddFinalizer, PassTyped
<1>2. new \in Users /\ new.status = snap.status
  BY <1>1 DEF Users
<1> HIDE DEF new
<1> QED BY <1>1, <1>2, LastWriteKeeps

LEMMA ReportFailureKeeps ==
  ASSUME IInv, ReportFailure PROVE IInv' /\ ChangedTruly /\ ChangedForward
<1> DEFINE status == [snap.status EXCEPT !.phase = "Failed", !.message = why]
           new    == [snap EXCEPT !.status = status]
<1>1. snap \in Users /\ why \in Errors
  BY Parts DEF ReportFailure, PassTyped, LocalsTyped
<1>2. [snap EXCEPT !.status.phase = "Failed", !.status.message = why] = new
  BY <1>1 DEF Users
<1>3. LastWrite(new)
  BY <1>2 DEF ReportFailure
<1>4. snap.status \in Statuses
  BY <1>1, UserFields
<1>5. status \in Statuses /\ status.changed = snap.status.changed
  BY <1>1, <1>4 DEF Statuses
<1> HIDE DEF status
<1>6. new \in Users /\ new.status = status
  BY <1>1, <1>5 DEF Users
<1> HIDE DEF new
<1> QED BY <1>3, <1>5, <1>6, LastWriteKeeps

LEMMA SaveStatusKeeps ==
  ASSUME IInv, SaveStatus PROVE IInv' /\ ChangedTruly /\ ChangedForward
<1> DEFINE phase     == IF tried = <<>> THEN "Ready" ELSE "Failed"
           message   == IF tried = <<>> THEN "" ELSE "server"
           instances == IF tried = <<>> THEN snap.status.instances ELSE tried
           status == [snap.status EXCEPT !.phase = phase, !.message = message,
                                         !.instances = instances]
           new    == [snap EXCEPT !.status = status]
<1>1. snap \in Users /\ tried \in Seq(Instances)
  BY Parts DEF SaveStatus, PassTyped, LocalsTyped
<1>2. snap.status \in Statuses /\ snap.status.instances \in Seq(Instances)
  BY <1>1, UserFields
<1>3. LastWrite([snap EXCEPT !.status.phase = phase, !.status.message = message,
                             !.status.instances = instances])
  BY <1>1, <1>2 DEF SaveStatus, Users, Statuses
<1>4. phase \in {"", "Ready", "Failed"} /\ message \in Errors /\ instances \in Seq(Instances)
  BY <1>1, <1>2 DEF Errors
<1> HIDE DEF phase, message, instances
<1>5. LastWrite(new)
  BY <1>1, <1>2, <1>3 DEF Users, Statuses
<1>6. status \in Statuses /\ status.changed = snap.status.changed
  BY <1>2, <1>4 DEF Statuses
<1> HIDE DEF status
<1>7. new \in Users /\ new.status = status
  BY <1>1, <1>6 DEF Users
<1> HIDE DEF new
<1> QED BY <1>5, <1>6, <1>7, LastWriteKeeps

LEMMA RemoveFinalizerKeeps ==
  ASSUME IInv, RemoveFinalizer PROVE IInv' /\ ChangedTruly /\ ChangedForward
BY LastWriteKeeps DEF RemoveFinalizer

-----------------------------------------------------------------------------
(* The steps inside a pass *)

LEMMA StoreSecretType ==
  ASSUME IInv, snap \in Users, StoreSecret
  PROVE  /\ secret' \in [Sources -> Secrets \cup {Absent}]
         /\ rotations' = rotations \cup {<<snap.uid, now>>}
         /\ rotations' \subseteq (1 .. MaxUsers) \X Times
<1> DEFINE old   == secret["generate"]
           owner == IF old = Absent THEN snap.uid ELSE old.owner
<1>1. PICK password \in Passwords :
        secret' = [secret EXCEPT !["generate"] = [password |-> password, owner |-> owner]]
  BY DEF StoreSecret
<1>2. /\ secret \in [Sources -> Secrets \cup {Absent}] /\ "generate" \in Sources
      /\ now \in Times /\ rotations \subseteq (1 .. MaxUsers) \X Times
  BY Parts DEF StoredTyped, GhostsTyped, Sources
<1>3. snap.uid \in 1 .. MaxUsers /\ snap.uid \in 0 .. MaxUsers
  <2>1. snap.uid \in 1 .. MaxUsers
    BY UserFields
  <2> QED BY <2>1, UserBounds
<1>4. owner \in 0 .. MaxUsers
  BY <1>2, <1>3 DEF Secrets
<1> HIDE DEF owner
<1>5. [password |-> password, owner |-> owner] \in Secrets
  BY <1>1, <1>4 DEF Secrets
<1>6. secret' \in [Sources -> Secrets \cup {Absent}]
  BY <1>1, <1>2, <1>5
<1> QED BY <1>2, <1>3, <1>6 DEF StoreSecret

LEMMA RotatePasswordPreserves ==
  ASSUME IInv, RotatePassword PROVE IInv'
<1>1. /\ StoredTyped /\ CachesTyped /\ LocalsTyped /\ GhostsTyped
      /\ PassTyped /\ CacheKnown /\ CopyKnown /\ Timely
  BY Parts
<1>2. /\ UNCHANGED <<user, cluster, cUser, cFresh, cSecret, cCluster>>
      /\ UNCHANGED <<fresh, todo, tried, now>>
      /\ pc = "rotate"
  BY DEF RotatePassword
<1>3. snap \in Users /\ snap.spec.source \in Sources
  BY <1>1, <1>2 DEF PassTyped
<1>4. /\ secret' \in [Sources -> Secrets \cup {Absent}] /\ sFresh' \in BOOLEAN
      /\ why' \in Errors /\ rotations \subseteq rotations'
      /\ rotations' \subseteq (1 .. MaxUsers) \X Times
  <2>1. CASE StoreSecret /\ (why' = why \/ why' = "call")
    BY <1>1, <1>3, <2>1, StoreSecretType DEF StoreSecret, LocalsTyped, Errors
  <2>2. CASE SecretRefused
    BY <1>1, <2>2 DEF SecretRefused, StoredTyped, CachesTyped, GhostsTyped, Errors
  <2> QED BY <2>1, <2>2 DEF RotatePassword
<1>5. Trouble \/ UNCHANGED budget
  BY DEF RotatePassword, SecretRefused
<1>6. /\ snap' \in Users /\ snap'.spec = snap.spec /\ CopyKnown'
      /\ pc' = "read" \/ pc' = "fail"
  <2>1. CASE StoreSecret /\ snap' = [snap EXCEPT !.status.changed = now] /\ pc' = "read"
    <3> DEFINE status == [snap.status EXCEPT !.changed = now]
    <3>1. now \in Times /\ now \in Nat
      BY <1>1, TimesAreNumbers DEF GhostsTyped
    <3>2. snap.status \in Statuses
      BY <1>3, UserFields
    <3>3. status \in Statuses /\ status.changed = now
      BY <3>1, <3>2 DEF Statuses
    <3>4. snap' = [snap EXCEPT !.status = status]
      BY <1>3, <2>1 DEF Users
    <3> HIDE DEF status
    <3>5. /\ snap' \in Users /\ snap'.spec = snap.spec /\ snap'.uid = snap.uid
          /\ snap'.status.changed = now
      BY <1>3, <3>3, <3>4 DEF Users
    <3>6. <<snap'.uid, now>> \in rotations'
      BY <1>3, <2>1, <3>5, StoreSecretType
    <3>7. CopyKnown'
      BY <1>1, <1>2, <3>1, <3>5, <3>6 DEF CopyKnown, Timely
    <3> QED BY <2>1, <3>5, <3>7
  <2>2. CASE snap' = snap /\ pc' = "fail"
    BY <1>1, <1>2, <1>3, <1>4, <2>2 DEF CopyKnown
  <2> QED BY <2>1, <2>2 DEF RotatePassword
<1>7. budget' \in [users : Nat, troubles : Nat] /\ budget'.users <= MaxUsers
  BY <1>1, <1>5, TroubleType
<1>8. StoredTyped' /\ CachesTyped' /\ LocalsTyped' /\ GhostsTyped'
  BY <1>1, <1>2, <1>4, <1>6, <1>7
     DEF StoredTyped, CachesTyped, LocalsTyped, GhostsTyped, Steps
<1>9. PassTyped' /\ CacheKnown' /\ Timely'
  BY <1>1, <1>2, <1>3, <1>6 DEF PassTyped, CacheKnown, Timely
<1> QED BY <1>6, <1>8, <1>9, Parts

\* The steps that only go on.
LEMMA GoOnPreserves ==
  ASSUME IInv, ReadPassword \/ ConfigureInstance PROVE IInv'
<1>1. /\ StoredTyped /\ CachesTyped /\ LocalsTyped /\ GhostsTyped
      /\ PassTyped /\ CacheKnown /\ CopyKnown /\ Timely
  BY Parts
<1>2. /\ UNCHANGED <<user, secret, cluster, cUser, cFresh, cSecret, sFresh, cCluster>>
      /\ UNCHANGED <<snap, fresh, now, rotations, budget>>
  BY DEF ReadPassword, ConfigureInstance, stored, caches
<1>3. snap \in Users
  BY <1>1 DEF PassTyped, ReadPassword, ConfigureInstance
<1>4. /\ pc' \in {"save", "configure", "fail"} /\ why' \in Errors
      /\ todo' \in Seq(Instances) /\ tried' \in Seq(Instances)
      /\ pc' = "configure" => todo' # <<>>
  <2>1. CASE ReadPassword
    BY <1>1, <2>1 DEF ReadPassword, LocalsTyped, Errors
  <2>2. CASE ConfigureInstance
    <3>1. todo \in Seq(Instances) /\ todo # <<>> /\ tried \in Seq(Instances)
      BY <1>1, <2>2 DEF ConfigureInstance, LocalsTyped, PassTyped
    <3>2. Head(todo) \in Instances /\ Tail(todo) \in Seq(Instances)
      BY <3>1, HeadTailProperties
    <3>3. Append(tried, Head(todo)) \in Seq(Instances)
      BY <3>1, <3>2, AppendProperties
    <3> QED BY <1>1, <2>2, <3>2, <3>3 DEF ConfigureInstance, LocalsTyped
  <2> QED BY <2>1, <2>2
<1>5. StoredTyped' /\ CachesTyped' /\ LocalsTyped' /\ GhostsTyped'
  BY <1>1, <1>2, <1>4 DEF StoredTyped, CachesTyped, LocalsTyped, GhostsTyped, Steps
<1>6. PassTyped' /\ CacheKnown' /\ CopyKnown' /\ Timely'
  BY <1>1, <1>2, <1>3, <1>4 DEF PassTyped, CacheKnown, CopyKnown, Timely
<1> QED BY <1>5, <1>6, Parts

-----------------------------------------------------------------------------
(* The environment *)

LEMMA CrashPreserves ==
  ASSUME IInv, Crash PROVE IInv'
<1>1. /\ StoredTyped /\ CachesTyped /\ GhostsTyped /\ CacheKnown /\ Timely
  BY Parts
<1>2. /\ UNCHANGED <<user, secret, cluster, cUser, cFresh, cSecret, sFresh, cCluster>>
      /\ UNCHANGED <<now, rotations>> /\ EndPass /\ Trouble
  BY DEF Crash, stored, caches
<1>3. StoredTyped' /\ CachesTyped' /\ GhostsTyped' /\ CacheKnown' /\ Timely'
  BY <1>1, <1>2, TroubleType DEF StoredTyped, CachesTyped, GhostsTyped, CacheKnown, Timely
<1> QED BY <1>2, <1>3, EndPassType, Parts

\* Those who leave the user and the pass alone.
LEMMA BystandersPreserve ==
  ASSUME IInv,
         \/ Informers \/ Tick \/ CollectSecret \/ EditCluster \/ EditSecret
         \/ UNCHANGED vars
  PROVE  IInv'
<1>1. /\ StoredTyped /\ CachesTyped /\ LocalsTyped /\ GhostsTyped
      /\ PassTyped /\ CacheKnown /\ CopyKnown /\ Timely
  BY Parts
<1>2. /\ UNCHANGED <<user, pc, snap, fresh, todo, tried, why, rotations>>
      /\ Trouble \/ UNCHANGED budget
  BY DEF Informers, Tick, CollectSecret, EditCluster, EditSecret, vars, stored, pass
<1>3. now' \in Times /\ now' >= now
  <2>1. now \in 0 .. MaxTicks /\ MaxTicks \in Nat
    BY <1>1, UserBounds DEF GhostsTyped, Times
  <2>2. now' = now \/ (now < MaxTicks /\ now' = now + 1)
    BY DEF Informers, Tick, CollectSecret, EditCluster, EditSecret, vars
  <2> QED BY <2>1, <2>2 DEF Times
<1>4. secret' \in [Sources -> Secrets \cup {Absent}]
  <2>1. CASE EditSecret
    <3>1. PICK new \in [password : Passwords, owner : {0}] \cup {Absent} :
            secret' = [secret EXCEPT !["secretRef"] = new]
      BY <2>1 DEF EditSecret
    <3>2. new \in Secrets \cup {Absent}
      BY <3>1, UserBounds DEF Secrets
    <3> QED BY <1>1, <3>1, <3>2 DEF StoredTyped
  <2>2. CASE CollectSecret
    BY <1>1, <2>2 DEF CollectSecret, StoredTyped
  <2>3. CASE UNCHANGED secret
    BY <1>1, <2>3 DEF StoredTyped
  <2> QED BY <2>1, <2>2, <2>3 DEF Informers, Tick, EditCluster, vars, stored
<1>5. cluster' \in Clusters \cup {Absent}
  BY <1>1 DEF StoredTyped, Informers, Tick, CollectSecret, EditCluster, EditSecret, vars, stored
<1>6. CachesTyped' /\ CacheKnown'
  <2>1. CASE Informers /\ SyncUser
    BY <1>1, <1>2, <2>1 DEF SyncUser, StoredTyped, CachesTyped, CacheKnown
  <2>2. CASE Informers /\ SyncSecrets
    BY <1>1, <1>2, <2>2 DEF SyncSecrets, StoredTyped, CachesTyped, CacheKnown
  <2>3. CASE Informers /\ SyncCluster
    BY <1>1, <1>2, <2>3 DEF SyncCluster, StoredTyped, CachesTyped, CacheKnown
  <2>4. CASE Tick \/ CollectSecret \/ EditCluster \/ EditSecret \/ UNCHANGED vars
    <3>1. UNCHANGED <<cUser, cFresh, cSecret, cCluster>> /\ (sFresh' = sFresh \/ sFresh' = FALSE)
      BY <2>4 DEF Tick, CollectSecret, EditCluster, EditSecret, vars, caches
    <3> QED BY <1>1, <1>2, <3>1 DEF CachesTyped, CacheKnown
  <2> QED BY <2>1, <2>2, <2>3, <2>4 DEF Informers
<1>7. StoredTyped' /\ LocalsTyped' /\ GhostsTyped'
  BY <1>1, <1>2, <1>3, <1>4, <1>5, TroubleType DEF StoredTyped, LocalsTyped, GhostsTyped
<1>8. PassTyped' /\ CopyKnown' /\ Timely'
  <2>1. now \in Nat /\ now' \in Nat
    BY <1>1, <1>3, TimesAreNumbers DEF GhostsTyped
  <2>2. user # Absent => user.status.changed \in Times \cup {Unset}
    BY <1>1, UserFields DEF StoredTyped
  <2>3. PassTyped'
    BY <1>1, <1>2 DEF PassTyped
  <2>4. CopyKnown'
    <3>1. \A t \in Times : t <= now => t <= now'
      BY <1>3, <2>1, TimesAreNumbers
    <3>2. UNCHANGED <<fresh, user, snap, rotations>> /\ CopyKnown
      BY <1>1, <1>2
    <3> QED BY <3>1, <3>2 DEF CopyKnown
  <2>5. Timely'
    <3>1. UNCHANGED user /\ Timely
      BY <1>1, <1>2
    <3> SUFFICES ASSUME user # Absent, user.status.changed # Unset
                 PROVE  user.status.changed <= now'
      BY <3>1 DEF Timely
    <3>2. user.status.changed \in Nat /\ user.status.changed <= now
      BY <2>2, <3>1, TimesAreNumbers DEF Timely
    <3> QED BY <1>3, <2>1, <3>2
  <2> QED BY <2>3, <2>4, <2>5
<1> QED BY <1>6, <1>7, <1>8, Parts

\* What people do to the object makes every copy of it stale, and leaves the time
\* of the last change alone.
LEMMA UserWriteKeeps ==
  ASSUME IInv, NEW new \in Users \cup {Absent}, UserWrite(new),
         budget' \in [users : Nat, troubles : Nat], budget'.users <= MaxUsers,
         \/ new = Absent
         \/ new.status.changed = Unset /\ user = Absent
         \/ user # Absent /\ new.status.changed = user.status.changed
  PROVE  IInv' /\ ChangedTruly /\ ChangedForward
<1>1. /\ StoredTyped /\ CachesTyped /\ LocalsTyped /\ GhostsTyped
      /\ PassTyped /\ CacheKnown /\ CopyKnown /\ Timely
  BY Parts
<1>2. /\ UNCHANGED <<secret, cluster, cUser, cSecret, sFresh, cCluster>>
      /\ UNCHANGED <<pc, snap, todo, tried, why, now, rotations>>
      /\ user' = new /\ cFresh' = FALSE /\ fresh' = FALSE
  BY DEF UserWrite
<1>3. StoredTyped' /\ CachesTyped' /\ LocalsTyped' /\ GhostsTyped'
  BY <1>1, <1>2 DEF StoredTyped, CachesTyped, LocalsTyped, GhostsTyped
<1>4. PassTyped' /\ CacheKnown' /\ CopyKnown' /\ Timely'
  BY <1>1, <1>2 DEF PassTyped, CacheKnown, CopyKnown, Timely
<1>5. user # Absent => user.status.changed \in Times \cup {Unset}
  BY <1>1, UserFields DEF StoredTyped
<1>6. ChangedTruly /\ ChangedForward
  BY <1>2, <1>5, TimesAreNumbers DEF ChangedTruly, ChangedForward
<1> QED BY <1>3, <1>4, <1>6, Parts

LEMMA EditUserKeeps ==
  ASSUME IInv, EditUser PROVE IInv' /\ ChangedTruly /\ ChangedForward
<1>1. StoredTyped /\ GhostsTyped
  BY Parts
<1>2. PICK spec \in Specs : UserWrite([user EXCEPT !.spec = spec])
  BY DEF EditUser
<1> DEFINE new == [user EXCEPT !.spec = spec]
<1>3. user # Absent /\ user \in Users /\ Trouble
  BY <1>1 DEF EditUser, StoredTyped
<1>4. new \in Users /\ new.status = user.status
  BY <1>3 DEF Users
<1>5. budget' \in [users : Nat, troubles : Nat] /\ budget'.users <= MaxUsers
  BY <1>1, <1>3, TroubleType
<1>6. UserWrite(new)
  BY <1>2
<1> HIDE DEF new
<1> QED BY <1>3, <1>4, <1>5, <1>6, UserWriteKeeps

LEMMA DeleteUserKeeps ==
  ASSUME IInv, DeleteUser PROVE IInv' /\ ChangedTruly /\ ChangedForward
<1>1. StoredTyped /\ GhostsTyped
  BY Parts
<1>2. user # Absent /\ user \in Users /\ UNCHANGED budget
  BY <1>1 DEF DeleteUser, StoredTyped
<1>3. budget' \in [users : Nat, troubles : Nat] /\ budget'.users <= MaxUsers
  BY <1>1, <1>2, TroubleType
<1>4. CASE user.finalizer
  <2> DEFINE new == [user EXCEPT !.deleting = TRUE]
  <2>1. UserWrite(new)
    BY <1>4 DEF DeleteUser
  <2>2. new \in Users /\ new.status = user.status
    BY <1>2 DEF Users
  <2> HIDE DEF new
  <2> QED BY <1>2, <1>3, <2>1, <2>2, UserWriteKeeps
<1>5. CASE ~user.finalizer
  <2>1. UserWrite(Absent)
    BY <1>5 DEF DeleteUser
  <2> QED BY <1>3, <2>1, UserWriteKeeps
<1> QED BY <1>4, <1>5

LEMMA CreateUserKeeps ==
  ASSUME IInv, CreateUser PROVE IInv' /\ ChangedTruly /\ ChangedForward
<1>1. GhostsTyped
  BY Parts
<1>2. PICK spec \in Specs : UserWrite(NewUser(budget.users, spec))
  BY DEF CreateUser
<1>3. user = Absent /\ budget.users > 0 /\ budget' = [budget EXCEPT !.users = @ - 1]
  BY DEF CreateUser
<1>4. /\ budget.users \in 1 .. MaxUsers /\ budget' \in [users : Nat, troubles : Nat]
      /\ budget'.users <= MaxUsers
  BY <1>1, <1>3, UserBounds DEF GhostsTyped
<1> DEFINE status == [phase |-> "", message |-> "", instances |-> <<>>, changed |-> Unset]
           new    == NewUser(budget.users, spec)
<1>5. status \in Statuses
  <2>1. <<>> \in Seq(Instances)
    OBVIOUS
  <2> QED BY <2>1 DEF Statuses, Errors
<1>6. new \in Users /\ new.status.changed = Unset
  BY <1>4, <1>5 DEF NewUser, Users
<1> HIDE DEF new
<1> QED BY <1>2, <1>3, <1>4, <1>6, UserWriteKeeps DEF new

-----------------------------------------------------------------------------
(* The theorems *)

LEMMA StepKeeps == IInv /\ [Next]_vars => IInv' /\ ChangedTruly /\ ChangedForward
<1> SUFFICES ASSUME IInv, [Next]_vars PROVE IInv' /\ ChangedTruly /\ ChangedForward
  OBVIOUS
<1>1. ASSUME user' = user PROVE ChangedTruly /\ ChangedForward
  BY <1>1, Unmoved
<1>2. CASE BeginFinalizer \/ BeginDeletion \/ BeginUser
  <2>1. user' = user
    BY <1>2 DEF BeginFinalizer, BeginDeletion, BeginUser, Begin, stored
  <2> QED BY <1>1, <1>2, <2>1, BeginPreserves
<1>3. CASE RotatePassword
  BY <1>1, <1>3, RotatePasswordPreserves DEF RotatePassword
<1>4. CASE ReadPassword \/ ConfigureInstance
  <2>1. user' = user
    BY <1>4 DEF ReadPassword, ConfigureInstance, stored
  <2> QED BY <1>1, <1>4, <2>1, GoOnPreserves
<1>5. CASE AddFinalizer     BY <1>5, AddFinalizerKeeps
<1>6. CASE SaveStatus       BY <1>6, SaveStatusKeeps
<1>7. CASE ReportFailure    BY <1>7, ReportFailureKeeps
<1>8. CASE RemoveFinalizer  BY <1>8, RemoveFinalizerKeeps
<1>9. CASE Crash
  BY <1>1, <1>9, CrashPreserves DEF Crash, stored
<1>10. CASE \/ Informers \/ Tick \/ CollectSecret \/ EditCluster \/ EditSecret
            \/ UNCHANGED vars
  <2>1. user' = user
    BY <1>10 DEF Informers, Tick, CollectSecret, EditCluster, EditSecret, vars, stored
  <2> QED BY <1>1, <1>10, <2>1, BystandersPreserve
<1>11. CASE EditUser        BY <1>11, EditUserKeeps
<1>12. CASE DeleteUser      BY <1>12, DeleteUserKeeps
<1>13. CASE CreateUser      BY <1>13, CreateUserKeeps
<1> QED BY <1>2, <1>3, <1>4, <1>5, <1>6, <1>7, <1>8, <1>9, <1>10, <1>11, <1>12, <1>13
        DEF Next, Reconcile, Environment

\* IInv is an inductive invariant of the controller and its environment.
THEOREM Invariance == Spec => []IInv
BY InitEstablishes, StepKeeps, PTL DEF Spec

\* Type correctness: above all, no pass looks at an instance or a Secret that is
\* not there.
THEOREM TypeCorrect == Spec => []TypeOK
<1>1. IInv => TypeOK
  BY DEF IInv
<1> QED BY <1>1, Invariance, PTL

\* The status never records a change of the password that did not take place for
\* this very user: the copy gets the time only after the Secret was written, and is
\* stored only if the user is still the one that was read.
THEOREM ChangesAreReal == Spec => ChangeIsReal
<1>1. IInv /\ [Next]_vars => [ChangedTruly]_vars
  BY StepKeeps
<1>2. Spec => [][ChangedTruly]_vars
  BY <1>1, Invariance, PTL DEF Spec
<1> QED BY <1>2 DEF ChangedTruly, ChangeIsReal

\* A change that is recorded stays recorded until a later one: updateStatus takes
\* the time along in each of its uses, and a pass from an older copy stores nothing.
THEOREM ChangesAreRemembered == Spec => ChangesAreKept
<1>1. IInv /\ [Next]_vars => [ChangedForward]_vars
  BY StepKeeps
<1>2. Spec => [][ChangedForward]_vars
  BY <1>1, Invariance, PTL DEF Spec
<1> QED BY <1>2 DEF ChangedForward, ChangesAreKept

=============================================================================
