--------------------------- MODULE MCPostgresStore ---------------------------
(* PostgresStore for TLC: claims, releases and subscriptions race with        *)
(* workers that record deliveries.                                            *)
EXTENDS PostgresStore, TLC

Perms == Permutations(Requests) \cup Permutations(Workers)
=============================================================================
