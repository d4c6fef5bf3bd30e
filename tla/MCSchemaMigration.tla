------------------------- MODULE MCSchemaMigration -------------------------
(* Instances of SchemaMigration for TLC. *)
EXTENDS SchemaMigration

CONSTANTS poller, executor

\* No file yet, or one past the first migration: MigrateInterrupted starts at 0.
AnyStart == (-1..SCHEMA_VERSION) \ {0}
=============================================================================
