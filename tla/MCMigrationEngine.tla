-------------------------- MODULE MCMigrationEngine --------------------------
(* MigrationEngine on two pods, with the console enabled (its default),   *)
(* and three failed store calls or restarts.                              *)
EXTENDS MigrationEngine

CONSTANTS p1, p2

MCPods == {p1, p2}
MCMaxFaults == 3
=============================================================================
