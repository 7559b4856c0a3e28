------------------------- MODULE MCPostgresCluster -------------------------
(* Small instances of PostgresCluster for TLC. *)
EXTENDS PostgresCluster, TLC

CONSTANTS a, b,              \* instance names; a is "primary"
          small, bad,        \* storage settings
          p, q               \* passwords

Instance(name, role, replicas) ==
  [name |-> name, role |-> role, replicas |-> replicas, storage |-> Unset]
SpecOf(instances) ==
  [instances |-> instances, replicas |-> 0, storage |-> small, monitoring |-> FALSE, settings |-> 1]

Primary == Instance(a, "primary", 1)
Replica == Instance(b, "replica", Unset)

\* One instance, two instances, and none: the controller is to add the default.
Single == SpecOf(<<Primary>>)
Pair   == SpecOf(<<Primary, Replica>>)
Empty  == SpecOf(<<>>)

\* With metrics, and several settings in postgresql.conf.
Watched == [Single EXCEPT !.monitoring = TRUE, !.settings = 2]

\* A quantity that does not parse.
Broken == [Single EXCEPT !.storage = bad]

\* A cluster that is parked, with no pods.
Parked == SpecOf(<<Instance(a, "primary", 0)>>)

OnlyParked  == {Parked}
OnlySingle  == {Single}
EmptyOrPair == {Empty, Pair}
Mended      == {Empty, Broken, Watched}

Anonymous == Permutations({p, q})

Background == {"background"}
AnyCascade == {"background", "foreground"}
=============================================================================
