-------------------------- MODULE SchemaMigration --------------------------
(***************************************************************************)
(* TelemetryDB.initialize() on a database file that the poller and the     *)
(* executor both open: telemetry/migrations.py, schema.sql and the version *)
(* stamp, with crashes in between.  A step is one SQLite transaction:      *)
(* executescript() commits the open one and then runs in autocommit, so    *)
(* the first two migrations take a step per statement, the others one.     *)
(***************************************************************************)
EXTENDS Integers, Sequences, FiniteSets

CONSTANTS
  Procs,          \* the processes that open the file
  StartVersions,  \* user_version of the databases it may start from, -1: no file yet
  SharedFrom,     \* the least of them that two processes open at the same time
  MaxCrashes,     \* bound: crashes inside initialize()
  MaxOpens        \* bound: calls of initialize() per process

SCHEMA_VERSION == 6

ASSUME MigrationConstants ==
  /\ StartVersions \subseteq -1..SCHEMA_VERSION
  /\ SharedFrom \in Int /\ MaxCrashes \in Nat /\ MaxOpens \in Nat
  /\ IsFiniteSet(Procs)

VARIABLES
  db,       \* the file
  pc, loc,  \* where each process is in initialize(), and what it remembers
  opens, crashes,
  openers,  \* the processes at work in this behaviour
  start     \* history: the version found at first; from 0 on the file held latency rows

setting == <<openers, start>>
vars == <<db, pc, loc, opens, crashes, setting>>

-----------------------------------------------------------------------------
(* The database file.                                                      *)

FillColumns == {"fill_count", "remaining_count", "average_fill_price", "average_fee_paid"}
OrderColumns == FillColumns \cup {"correlation_group", "post_only"}

\* latency_events with its CHECK on stage ("checked") or without ("free"), and
\* whether it holds the rows of old; the table it is rebuilt into; the columns
\* orders_fired has beyond its first ones; and the two younger tables.
Missing ==
  [version |-> 0, latency |-> "absent", rows |-> FALSE, scratch |-> "absent",
   orders |-> "absent", columns |-> {}, snapshots |-> "absent", fills |-> FALSE]

\* A database that version v of the program left behind.
OfVersion(v, snapshots) ==
  [version |-> v, latency |-> IF v >= 1 THEN "free" ELSE "checked", rows |-> TRUE,
   scratch |-> "absent", orders |-> "there",
   columns |-> { c \in OrderColumns : \/ v >= 2 /\ c \in FillColumns
                                      \/ v >= 3 /\ c = "correlation_group"
                                      \/ v >= 5 /\ c = "post_only" },
   snapshots |-> IF v >= 4 /\ snapshots # "absent" THEN "net" ELSE snapshots,
   fills |-> v >= 6]

\* Migration m has taken effect.
Applied(m) ==
  CASE m = 1 -> db.latency = "free"
    [] m = 2 -> FillColumns \subseteq db.columns
    [] m = 3 -> "correlation_group" \in db.columns
    [] m = 4 -> db.snapshots # "gross"
    [] m = 5 -> "post_only" \in db.columns
    [] m = 6 -> db.fills

Init ==
  /\ start \in StartVersions /\ openers \in (SUBSET Procs) \ {{}}
  /\ Cardinality(openers) > 1 => start >= SharedFrom
  /\ \/ start >= 0 /\ \E s \in {"absent", "gross"} : db = OfVersion(start, s)
     \/ start = -1 /\ db = Missing
  /\ pc = [p \in Procs |-> "closed"]
  /\ loc = [p \in Procs |-> [version |-> 0, step |-> 1, fresh |-> FALSE]]
  /\ opens = [p \in Procs |-> 0] /\ crashes = 0

-----------------------------------------------------------------------------
(* The migrations.                                                         *)

\* The statements of the migrations that use executescript().
Script(m) ==
  IF m = 1 THEN <<"create", "copy", "drop", "rename">>
  ELSE <<"fill_count", "remaining_count", "average_fill_price", "average_fee_paid">>

\* SQLite refuses the statement.
StatementFails(s) ==
  CASE s = "create" -> db.scratch # "absent"
    [] s = "copy" -> db.scratch = "absent" \/ db.latency = "absent"
    [] s = "drop" -> db.latency = "absent"
    [] s = "rename" -> db.scratch = "absent" \/ db.latency # "absent"
    [] OTHER -> db.orders = "absent" \/ s \in db.columns

\* What it does otherwise.
StatementEffect(s) ==
  CASE s = "create" -> [db EXCEPT !.scratch = "empty"]
    [] s = "copy" -> [db EXCEPT !.scratch = IF db.rows THEN "copied" ELSE "empty"]
    [] s = "drop" -> [db EXCEPT !.latency = "absent", !.rows = FALSE]
    [] s = "rename" -> [db EXCEPT !.latency = "free", !.rows = db.scratch = "copied",
                                  !.scratch = "absent"]
    [] OTHER -> [db EXCEPT !.columns = @ \cup {s}]

\* A migration that runs in its transaction: its column is there already.
MigrationFails(m) ==
  CASE m = 3 -> "correlation_group" \in db.columns
    [] m = 4 -> db.snapshots = "net"
    [] m = 5 -> "post_only" \in db.columns
    [] OTHER -> FALSE

MigrationEffect(m) ==
  CASE m = 3 -> [db EXCEPT !.columns = @ \cup {"correlation_group"}]
    [] m = 4 -> [db EXCEPT !.snapshots = IF @ = "gross" THEN "net" ELSE @]
    [] m = 5 -> [db EXCEPT !.columns = @ \cup {"post_only"}]
    [] OTHER -> [db EXCEPT !.fills = TRUE]

Goto(p, l) == pc' = [pc EXCEPT ![p] = l]

\* _has_tables() decides between migrating and creating.
Open(p) ==
  /\ p \in openers /\ pc[p] \in {"closed", "failed"} /\ opens[p] < MaxOpens
  /\ opens' = [opens EXCEPT ![p] = @ + 1]
  /\ loc' = [loc EXCEPT ![p] = [version |-> 0, step |-> 1, fresh |-> db.latency = "absent"]]
  /\ Goto(p, IF db.latency = "absent" THEN "schema" ELSE "read")
  /\ UNCHANGED <<db, crashes, setting>>

\* apply_migrations reads user_version once.
ReadVersion(p) ==
  /\ pc[p] = "read"
  /\ loc' = [loc EXCEPT ![p].version = db.version]
  /\ Goto(p, IF db.version >= SCHEMA_VERSION THEN "schema" ELSE "migrate")
  /\ UNCHANGED <<db, opens, crashes, setting>>

NextMigration(p) == loc[p].version + 1
AfterMigration(p) == IF NextMigration(p) = SCHEMA_VERSION THEN "schema" ELSE "migrate"

\* One statement of an executescript() migration.
ScriptStatement(p) ==
  /\ pc[p] = "migrate" /\ NextMigration(p) \in {1, 2}
  /\ LET script == Script(NextMigration(p)) IN
       /\ loc[p].step <= Len(script)
       /\ \/ /\ StatementFails(script[loc[p].step])
             /\ Goto(p, "failed")
             /\ UNCHANGED <<db, loc>>
          \/ /\ ~StatementFails(script[loc[p].step])
             /\ db' = StatementEffect(script[loc[p].step])
             /\ loc' = [loc EXCEPT ![p].step = @ + 1]
             /\ UNCHANGED pc
  /\ UNCHANGED <<opens, crashes, setting>>

\* After the script the version is bumped in a transaction of its own.
BumpVersion(p) ==
  /\ pc[p] = "migrate" /\ NextMigration(p) \in {1, 2}
  /\ loc[p].step > Len(Script(NextMigration(p)))
  /\ db' = [db EXCEPT !.version = NextMigration(p)]
  /\ loc' = [loc EXCEPT ![p].version = @ + 1, ![p].step = 1]
  /\ UNCHANGED <<pc, opens, crashes, setting>>

\* The version bumped, and the crash comes before the migration's own change.
MigrateVersionFirst(p) ==
  /\ pc[p] = "migrate" /\ NextMigration(p) > 2
  /\ \/ /\ db.version < NextMigration(p)
        /\ db' = [db EXCEPT !.version = NextMigration(p)]
        /\ UNCHANGED <<pc, loc>>
     \/ /\ db.version >= NextMigration(p)
        /\ db' = MigrationEffect(NextMigration(p))
        /\ loc' = [loc EXCEPT ![p].version = @ + 1]
        /\ Goto(p, AfterMigration(p))
  /\ UNCHANGED <<opens, crashes, setting>>

\* The migration committed, and the version bumped in a second transaction.
MigrateVersionLast(p) ==
  /\ pc[p] = "migrate" /\ NextMigration(p) > 2
  /\ \/ /\ MigrationFails(NextMigration(p)) /\ loc[p].step = 1
        /\ Goto(p, "failed")
        /\ UNCHANGED <<db, loc>>
     \/ /\ ~MigrationFails(NextMigration(p)) /\ loc[p].step = 1
        /\ db' = MigrationEffect(NextMigration(p))
        /\ loc' = [loc EXCEPT ![p].step = 2]
        /\ UNCHANGED pc
     \/ /\ loc[p].step = 2
        /\ db' = [db EXCEPT !.version = NextMigration(p)]
        /\ loc' = [loc EXCEPT ![p].version = @ + 1, ![p].step = 1]
        /\ Goto(p, AfterMigration(p))
  /\ UNCHANGED <<opens, crashes, setting>>

\* A migration and its version bump in one transaction, rolled back if it fails.
Migrate(p) ==
  /\ pc[p] = "migrate" /\ NextMigration(p) > 2
  /\ \/ /\ MigrationFails(NextMigration(p))
        /\ Goto(p, "failed")
        /\ UNCHANGED <<db, loc>>
     \/ /\ ~MigrationFails(NextMigration(p))
        /\ db' = [MigrationEffect(NextMigration(p)) EXCEPT !.version = NextMigration(p)]
        /\ loc' = [loc EXCEPT ![p].version = @ + 1]
        /\ Goto(p, AfterMigration(p))
  /\ UNCHANGED <<opens, crashes, setting>>

\* The tables of schema.sql, in its order, each CREATE TABLE IF NOT EXISTS.
CreateTables(p) ==
  /\ pc[p] = "schema"
  /\ db' = CASE loc[p].step = 1 ->
                  (IF db.orders = "absent"
                     THEN [db EXCEPT !.orders = "there", !.columns = OrderColumns] ELSE db)
             [] loc[p].step = 2 ->
                  (IF db.latency = "absent" THEN [db EXCEPT !.latency = "free"] ELSE db)
             [] loc[p].step = 3 ->
                  [db EXCEPT !.snapshots = IF @ = "absent" THEN "net" ELSE @, !.fills = TRUE]
  /\ IF loc[p].step < 3
       THEN loc' = [loc EXCEPT ![p].step = @ + 1] /\ UNCHANGED pc
       ELSE Goto(p, IF loc[p].fresh THEN "stamp" ELSE "ready") /\ UNCHANGED loc
  /\ UNCHANGED <<opens, crashes, setting>>

stamp_current_version(p) ==
  /\ pc[p] = "stamp"
  /\ db' = [db EXCEPT !.version = SCHEMA_VERSION]
  /\ Goto(p, "ready")
  /\ UNCHANGED <<loc, opens, crashes, setting>>

\* The process is killed inside initialize().
Crash(p) ==
  /\ pc[p] \notin {"closed", "ready", "failed"} /\ crashes < MaxCrashes
  /\ crashes' = crashes + 1
  /\ Goto(p, "closed")
  /\ UNCHANGED <<db, loc, opens, setting>>

Step(p) == Open(p) \/ ReadVersion(p) \/ ScriptStatement(p) \/ BumpVersion(p) \/ Migrate(p)
             \/ CreateTables(p) \/ stamp_current_version(p)

Next == \E p \in Procs : Step(p) \/ Crash(p)

Spec == Init /\ [][Next]_vars

-----------------------------------------------------------------------------
(* What initialize() promises.                                             *)

\* user_version never claims a migration that has not taken effect.
VersionNeverAhead == \A m \in 1..SCHEMA_VERSION : db.version >= m => Applied(m)

\* A process that initialize() let start works on the current schema, with the
\* rows the database held before.
ReadyMeansCurrent ==
  (\E p \in Procs : pc[p] = "ready")
    => /\ \A m \in 1..SCHEMA_VERSION : Applied(m)
       /\ start >= 0 => db.rows

\* The version is true at every moment, and so is what a started process relies on.
VersionHonest == VersionNeverAhead /\ ReadyMeansCurrent

\* A database left by version 2 or later that one process opens is never refused,
\* however often the opening is interrupted: what was done is not tried again.
NeverRefuses ==
  (start >= 2 /\ Cardinality(openers) = 1) => \A p \in Procs : pc[p] # "failed"

\* "an interrupted migration rolls back whole and re-runs on the next open rather
\* than leaving a half-applied schema": with no process inside initialize(), the
\* database has the shape its version names.
WholeOrNothing ==
  (\A p \in Procs : pc[p] \in {"closed", "ready", "failed"})
    => /\ db.scratch = "absent"
       /\ db.latency # "absent" => (db.version >= 1 <=> db.latency = "free")
       /\ db.version < 2 => db.columns = {}

=============================================================================
