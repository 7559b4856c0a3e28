------------------------- MODULE MCPostgresRestore -------------------------
(* Small instances of PostgresRestore for TLC. *)
EXTENDS RestoreRefinement

CONSTANTS a, b

Instance(name, role, volume) == [name |-> name, role |-> role, volume |-> volume]

\* A primary with a volume of its own and a replica without: a physical restore
\* of the replica cannot be built.
Pair == <<Instance(a, "primary", TRUE), Instance(b, "replica", FALSE)>>

\* The cluster without the replica, with another only instance, and as users may
\* create it, before the cluster controller has set the default instance.
Single  == <<Instance(a, "primary", TRUE)>>
Renamed == <<Instance(b, "primary", TRUE)>>
Empty   == <<>>

FixedCluster   == {Pair}
ResizedCluster == {Pair, Single}
RenamedCluster == {Single, Renamed}
NewCluster     == {Empty, Single}

LogicalBackup  == [type |-> "logical", storage |-> "local", pvcName |-> TRUE]
PhysicalBackup == [type |-> "full", storage |-> "s3", pvcName |-> FALSE]

OneBackup  == {LogicalBackup}
TwoBackups == {LogicalBackup, PhysicalBackup}

\* spec.instances is not given, or names one instance.
EveryInstance == [given |-> FALSE, names |-> <<>>, role |-> "", labels |-> NoLabels]
OnlyA == [given |-> TRUE, names |-> <<a>>, role |-> "", labels |-> NoLabels]
=============================================================================
