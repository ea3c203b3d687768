------------------------- MODULE MCMigrationJournal -------------------------
(* Instances of the migration journal for TLC. *)
EXTENDS MigrationJournal

\* Two epochs: one that equals and one that exceeds the provisioned one.
MCEpochs == 0..1
=============================================================================
