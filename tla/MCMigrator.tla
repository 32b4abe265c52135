------------------------------ MODULE MCMigrator ------------------------------
(* Small instances of Migrator for TLC. *)
EXTENDS Migrator, TLC

MigratorSymmetry == Permutations(Migrators)
==============================================================================
