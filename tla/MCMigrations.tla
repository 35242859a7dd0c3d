--------------------------- MODULE MCMigrations ---------------------------
(* Migrations on small instances; the configurations give the constants.   *)
EXTENDS Migrations
=============================================================================
