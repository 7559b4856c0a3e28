------------------------- MODULE InstanceSelection -------------------------
(***************************************************************************)
(* Which instances of a PostgresCluster a PostgresRestore is about: the    *)
(* pure function getTargetInstances of the restore controller.             *)
(*                                                                         *)
(* An instance of a cluster spec is a record with (at least) the fields    *)
(* name and role; a cluster spec lists them in order.  A selector has      *)
(*   given   : FALSE iff spec.instances is nil                             *)
(*   names   : the listed names, <<>> when none                            *)
(*   role    : "" when unset                                               *)
(*   labels  : the set of <<name, role>> pairs its label selector matches, *)
(*             NoLabels when there is none, NoTargets when it is invalid   *)
(***************************************************************************)
EXTENDS Naturals, Sequences

CONSTANT NoLabels,   \* the label selector is nil
         NoTargets   \* getTargetInstances returned an error

\* The first instance of the list that has this name, and whether there is one.
HasInstance(instances, name) == \E k \in DOMAIN instances : instances[k].name = name
InstanceNamed(instances, name) ==
  instances[CHOOSE k \in DOMAIN instances :
              /\ instances[k].name = name
              /\ \A j \in 1 .. k - 1 : instances[j].name # name]

\* One instance per listed name, in the order of the names: an error as soon as
\* one name is unknown.
SelectNames(instances, names) ==
  IF \A k \in DOMAIN names : HasInstance(instances, names[k])
  THEN [k \in DOMAIN names |-> InstanceNamed(instances, names[k])]
  ELSE NoTargets

\* Selecting nobody by role is an error ...
SelectRole(instances, role) ==
  LET chosen == SelectSeq(instances, LAMBDA x : x.role = role)
  IN  IF chosen = <<>> THEN NoTargets ELSE chosen

\* ... selecting nobody by label is not.
SelectLabels(instances, labels) ==
  IF labels = NoTargets THEN NoTargets
  ELSE SelectSeq(instances, LAMBDA x : <<x.name, x.role>> \in labels)

TargetInstances(instances, selector) ==
  CASE ~selector.given -> instances
    [] selector.given /\ selector.names # <<>> -> SelectNames(instances, selector.names)
    [] selector.given /\ selector.names = <<>> /\ selector.role # "" ->
         SelectRole(instances, selector.role)
    [] selector.given /\ selector.names = <<>> /\ selector.role = ""
         /\ selector.labels # NoLabels -> SelectLabels(instances, selector.labels)
    [] OTHER -> instances
=============================================================================
