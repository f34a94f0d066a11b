---------------------------- MODULE MCMigrations -----------------------------
(* Two new binaries and an old one on each backend. *)
EXTENDS Migrations

CONSTANTS old, new1, new2

MCKnown == [p \in Processes |-> IF p = old THEN 1 ELSE 2]
=============================================================================
