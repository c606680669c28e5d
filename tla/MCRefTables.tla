---------------------------- MODULE MCRefTables ----------------------------
(* Instances of RefTables for TLC. *)
EXTENDS RefTables
============================================================================
