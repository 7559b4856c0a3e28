--------------------------- MODULE MCPostgresUser ---------------------------
(* Small instances of PostgresUser for TLC. *)
EXTENDS PostgresUser

CONSTANTS a, b,              \* instance names
          p, q               \* passwords

Instance(name, kind) == [name |-> name, role |-> kind]

\* What the cluster controller reports: a primary, with or without a replica, or
\* nothing yet.
One  == <<Instance(a, "primary")>>
Pair == <<Instance(a, "primary"), Instance(b, "replica")>>

JustOne == {One}
AnyList == {<<>>, Pair}

All     == [names |-> <<>>, role |-> "", labels |-> NoLabels]
Replica == [All EXCEPT !.role = "replica"]

User(selector, source, rotation) ==
  [selector |-> selector, source |-> source, rotation |-> rotation]

\* Everywhere, with a generated password that is rotated, or that is not; on the
\* replica, with a password that is provided; and without any password.
Rotated  == User(All, "generate", TRUE)
Steady   == User(All, "generate", FALSE)
Provided == User(Replica, "secretRef", FALSE)
Lacking  == User(All, "none", FALSE)

JustSteady == {Steady}
Switching  == {Rotated, Provided, Lacking}
=============================================================================
