---------------------------- MODULE MCMigrations ----------------------------
(* Two callers, two lost connections. *)
EXTENDS Migrations
=============================================================================
