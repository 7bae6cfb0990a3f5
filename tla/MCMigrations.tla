---------------------------- MODULE MCMigrations ----------------------------
(* The instance of Migrations on its own. *)
EXTENDS Migrations

CONSTANTS p1, p2

TwoRunners == {p1, p2}
=============================================================================
