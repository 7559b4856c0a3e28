-------------------------- MODULE MCPostgresBackup --------------------------
(* Small instances of PostgresBackup for TLC. *)
EXTENDS PostgresBackup

CONSTANTS a, b               \* instance names; a is "primary"

Cluster(names, pvcName) ==
  [instances |-> [j \in DOMAIN names |-> [name |-> names[j]]], pvcName |-> pvcName]

\* A cluster with both instances; one without the primary; one without a volume
\* for backups; and one before the cluster controller has set the default instance.
Both  == Cluster(<<a, b>>, TRUE)
JustB == Cluster(<<b>>, TRUE)
Bare  == Cluster(<<b>>, FALSE)
Empty == Cluster(<<>>, TRUE)

Changing == {Both, JustB, Bare}
Healthy  == {Both, Empty}

\* Of the primary; of b, or else of a; of a type that is not supported.
OfPrimary == [names |-> <<>>, type |-> "full"]
OfB       == [names |-> <<b, a>>, type |-> "logical"]
Odd       == [names |-> <<b, a>>, type |-> "incremental"]

GoodBackup == {OfPrimary, OfB}
AnyBackup  == {OfPrimary, OfB, Odd}
=============================================================================
