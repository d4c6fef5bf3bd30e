----------------------- MODULE SchemaMigrationProofs -----------------------
(* Machine-checked proofs about SchemaMigration: for any processes, any      *)
(* number of openings and crashes, any file the program may find.            *)
EXTENDS SchemaMigration, FiniteSetTheorems, TLAPS

-----------------------------------------------------------------------------
(* The inductive invariant.                                                *)

Migrations == 1..SCHEMA_VERSION

Places == {"closed", "read", "migrate", "schema", "stamp", "ready", "failed"}

DbType ==
  [version: Nat, latency: {"absent", "checked", "free"}, rows: BOOLEAN,
   scratch: {"absent", "empty", "copied"}, orders: {"absent", "there"},
   columns: SUBSET OrderColumns, snapshots: {"absent", "gross", "net"}, fills: BOOLEAN]
LocType == [version: Nat, step: Nat \ {0}, fresh: BOOLEAN]

Typed ==
  /\ db \in DbType
  /\ pc \in [Procs -> Places]
  /\ loc \in [Procs -> LocType]

\* Who takes part, and what it can have found.
Setting ==
  /\ start \in StartVersions /\ openers \subseteq Procs
  /\ Cardinality(openers) > 1 => start >= SharedFrom
  /\ \A p \in Procs : pc[p] # "closed" => p \in openers

\* Where a process is in the statements of a script or the tables of schema.sql.
Paced(p) ==
  /\ pc[p] = "read" => loc[p].step = 1
  /\ pc[p] = "migrate" => /\ loc[p].version < SCHEMA_VERSION /\ loc[p].step \in 1..5
                          /\ loc[p].version >= 2 => loc[p].step = 1
  /\ pc[p] = "schema" => loc[p].step \in 1..3

\* A file past the first migration, whoever is at work on it: a process knows the
\* version it read and the columns it added, and others can only have added more.
Knows(p) ==
  /\ pc[p] \notin {"closed", "failed"} => loc[p].fresh = FALSE
  /\ pc[p] # "stamp"
  /\ pc[p] = "migrate" =>
       /\ loc[p].version >= start
       /\ \A m \in Migrations : loc[p].version >= m => Applied(m)
       /\ loc[p].version = 1 =>
            \A k \in 1..4 : k < loc[p].step => Script(2)[k] \in db.columns
  /\ pc[p] \in {"schema", "ready"} => \A m \in Migrations : Applied(m)

Upgraded ==
  start >= 1 =>
    /\ db.latency = "free" /\ db.rows = TRUE /\ db.version >= start /\ VersionNeverAhead
    /\ \A p \in Procs : Knows(p)

\* A file this process creates: until it is stamped its version is 0, or 1 after a
\* crash, and then the second migration fails on a column that is there already.
Shape == /\ db.orders = "there" /\ db.columns = OrderColumns /\ db.latency = "free"
         /\ db.snapshots = "net" /\ db.fills = TRUE

Creates(p) ==
  /\ pc[p] = "read" => db.orders = "there" /\ loc[p].fresh = FALSE
  /\ pc[p] = "migrate" =>
       /\ db.orders = "there" /\ loc[p].fresh = FALSE
       /\ loc[p].version = db.version /\ db.version # SCHEMA_VERSION
       /\ db.version = 0 /\ loc[p].step > 4 => db.latency = "free"
       /\ db.version = 1 => loc[p].step = 1
  /\ pc[p] = "schema" =>
       IF loc[p].fresh = TRUE THEN /\ db.version = 0
                                   /\ loc[p].step > 1 => db.orders = "there"
                                   /\ loc[p].step > 2 => db.latency = "free"
       ELSE db.version = SCHEMA_VERSION
  /\ pc[p] = "stamp" => Shape
  /\ pc[p] = "ready" => db.version = SCHEMA_VERSION

FileCreated ==
  /\ db.version \in {0, 1, SCHEMA_VERSION}
  /\ db.version = SCHEMA_VERSION => Shape
  /\ db.version = 1 => db.latency = "free"
  /\ db.snapshots # "gross"
  /\ db.orders = "there" => db.columns = OrderColumns
  /\ db.latency # "absent" => db.orders = "there" /\ db.latency = "free"

Created ==
  start = -1 /\ ~(Cardinality(openers) > 1) => FileCreated /\ \A p \in openers : Creates(p)

\* A file of version 2 or later in the hands of one process: what a migration adds
\* is not there before its version is.
NotYet ==
  /\ db.version >= 2
  /\ db.version < 3 => "correlation_group" \notin db.columns
  /\ db.version < 4 => db.snapshots # "net"
  /\ db.version < 5 => "post_only" \notin db.columns

KeepsUp(p) ==
  /\ pc[p] = "migrate" => loc[p].version = db.version
  /\ pc[p] = "schema" => db.version >= SCHEMA_VERSION
  /\ pc[p] # "failed"

Alone == start >= 2 /\ Cardinality(openers) = 1 => NotYet /\ \A p \in openers : KeepsUp(p)

IInv == Typed /\ Setting /\ (\A p \in Procs : Paced(p)) /\ Upgraded /\ Created /\ Alone

-----------------------------------------------------------------------------
(* The pieces the steps are made of.                                       *)

\* One process moves: the others stay where they are, with what they remember.
Moves(p) ==
  /\ \A q \in Procs : q # p => pc'[q] = pc[q] /\ loc'[q] = loc[q]
  /\ start' = start /\ openers' = openers

\* The schema only grows.
Grows == /\ db'.latency = db.latency /\ db'.rows = db.rows /\ db.columns \subseteq db'.columns
         /\ db'.snapshots = db.snapshots \/ db'.snapshots = "net"
         /\ db.fills = TRUE => db'.fills = TRUE

LEMMA GrowingApplies ==
  ASSUME Grows, NEW m \in Migrations, Applied(m)
  PROVE  Applied(m)'
<1>1. m \in {1, 2, 3, 4, 5, 6}
  BY DEF Migrations, SCHEMA_VERSION
<1>2. CASE m = 1
  BY <1>2 DEF Applied, Grows
<1>3. CASE m = 2
  BY <1>3 DEF Applied, Grows
<1>4. CASE m = 3
  BY <1>4 DEF Applied, Grows
<1>5. CASE m = 4
  BY <1>5 DEF Applied, Grows
<1>6. CASE m = 5
  BY <1>6 DEF Applied, Grows
<1>7. CASE m = 6
  BY <1>7 DEF Applied, Grows
<1> QED BY <1>1, <1>2, <1>3, <1>4, <1>5, <1>6, <1>7

\* Records of the two types stay so field by field.
LEMMA FieldByField ==
  /\ \A d \in DbType : /\ \A v \in Nat : [d EXCEPT !.version = v] \in DbType
                       /\ \A c \in SUBSET OrderColumns : [d EXCEPT !.columns = c] \in DbType
                       /\ \A n \in {"absent", "gross", "net"} : [d EXCEPT !.snapshots = n] \in DbType
                       /\ [d EXCEPT !.fills = TRUE] \in DbType
  /\ \A v \in Nat, k \in Nat \ {0}, b \in BOOLEAN : [version |-> v, step |-> k, fresh |-> b] \in LocType
  /\ \A e \in LocType : /\ \A v \in Nat : [e EXCEPT !.version = v] \in LocType
                        /\ \A k \in Nat \ {0} : [e EXCEPT !.step = k] \in LocType
                        /\ e.version \in Nat /\ e.step \in Nat \ {0} /\ e.fresh \in BOOLEAN
BY DEF DbType, LocType

\* The statements of the first two migrations, one by one.
LEMMA Scripts ==
  /\ Len(Script(1)) = 4 /\ Len(Script(2)) = 4
  /\ Script(1)[1] = "create" /\ Script(1)[2] = "copy" /\ Script(1)[3] = "drop" /\ Script(1)[4] = "rename"
  /\ Script(2)[1] = "fill_count" /\ Script(2)[2] = "remaining_count"
  /\ Script(2)[3] = "average_fill_price" /\ Script(2)[4] = "average_fee_paid"
BY DEF Script

\* Nobody shares the work of one opener.
LEMMA OneOpener ==
  ASSUME Setting, ~(Cardinality(openers) > 1), NEW p \in openers, NEW q \in openers
  PROVE  p = q
<1>1. IsFiniteSet(openers)
  BY MigrationConstants, FS_Subset DEF Setting
<1> SUFFICES ASSUME p # q PROVE FALSE
  OBVIOUS
<1>2. {p, q} \subseteq openers
  OBVIOUS
<1>3. Cardinality({p}) = 1 /\ IsFiniteSet({p}) /\ {p} \cup {q} = {p, q} /\ q \notin {p}
  BY FS_Singleton
<1>4. Cardinality({p, q}) = 2
  BY <1>3, FS_AddElement
<1>5. Cardinality({p, q}) <= Cardinality(openers) /\ Cardinality(openers) \in Nat
  BY <1>1, <1>2, FS_Subset, FS_CardinalityType
<1> QED BY <1>4, <1>5
\* What is to be shown of the step of one process.
LEMMA StepKeeps ==
  ASSUME IInv, NEW p \in openers, Moves(p), Typed', Paced(p)',
         start >= 1 => Grows /\ db'.version >= start /\ VersionNeverAhead' /\ Knows(p)',
         start = -1 /\ ~(Cardinality(openers) > 1) => FileCreated' /\ Creates(p)',
         start >= 2 /\ Cardinality(openers) = 1 => NotYet' /\ KeepsUp(p)'
  PROVE  IInv'
<1>0. openers' = openers /\ start' = start /\ p \in Procs
  BY DEF Moves, IInv, Setting
<1>1. Setting'
  BY <1>0 DEF Moves, IInv, Setting
<1>5. \A q \in Procs : Paced(q)'
  <2> SUFFICES ASSUME NEW q \in Procs, q # p PROVE Paced(q)'
    OBVIOUS
  <2> QED BY DEF Moves, IInv, Paced
<1>2. Upgraded'
  <2> SUFFICES ASSUME start >= 1, NEW q \in Procs, q # p PROVE Knows(q)'
    BY <1>0 DEF IInv, Upgraded, Grows
  <2>1. pc'[q] = pc[q] /\ loc'[q] = loc[q]
    BY DEF Moves
  <2>2. \A m \in Migrations : Applied(m) => Applied(m)'
    BY GrowingApplies
  <2>3. Knows(q) /\ db.columns \subseteq db'.columns
    BY DEF IInv, Upgraded, Grows
  <2> QED BY <1>0, <2>1, <2>2, <2>3 DEF Knows
<1>3. Created'
  BY <1>0, OneOpener DEF IInv, Created
<1>4. Alone'
  BY <1>0, OneOpener DEF IInv, Alone
<1> QED BY <1>1, <1>2, <1>3, <1>4, <1>5 DEF IInv

\* The same of a step that leaves the file alone.
LEMMA FileAlone ==
  ASSUME IInv, db' = db
  PROVE  /\ Grows /\ (start >= 1 => db'.version >= start /\ VersionNeverAhead')
         /\ start = -1 /\ ~(Cardinality(openers) > 1) => FileCreated'
         /\ start >= 2 /\ Cardinality(openers) = 1 => NotYet'
         /\ \A m \in Migrations : Applied(m)' <=> Applied(m)
         /\ Shape' <=> Shape
<1>1. \A m \in Migrations : Applied(m)' <=> Applied(m)
  BY DEF Applied
<1>2. VersionNeverAhead' <=> VersionNeverAhead
  BY <1>1 DEF VersionNeverAhead, Migrations
<1>3. FileCreated' <=> FileCreated
  BY DEF FileCreated, Shape
<1>4. NotYet' <=> NotYet
  BY DEF NotYet
<1>5. Shape' <=> Shape
  BY DEF Shape
<1>6. Grows
  BY DEF Grows
<1> QED BY <1>1, <1>2, <1>3, <1>4, <1>5, <1>6 DEF IInv, Upgraded, Created, Alone
LEMMA OpenKeeps ==
  ASSUME IInv, NEW p \in Procs, Open(p)
  PROVE  IInv'
<1>0. /\ p \in openers /\ db' = db /\ start' = start /\ openers' = openers
      /\ pc' = [pc EXCEPT ![p] = IF db.latency = "absent" THEN "schema" ELSE "read"]
      /\ loc' = [loc EXCEPT ![p] = [version |-> 0, step |-> 1, fresh |-> db.latency = "absent"]]
  BY DEF Open, Goto, setting
<1>1. Typed
  BY DEF IInv
<1>2. /\ pc'[p] = (IF db.latency = "absent" THEN "schema" ELSE "read")
      /\ loc'[p] = [version |-> 0, step |-> 1, fresh |-> db.latency = "absent"]
      /\ Moves(p)
  BY <1>0, <1>1 DEF Typed, DbType, LocType, Moves
<1>3. Typed'
  <2>1. [version |-> 0, step |-> 1, fresh |-> db.latency = "absent"] \in LocType
    <3>1. (db.latency = "absent") \in BOOLEAN /\ 0 \in Nat /\ 1 \in Nat \ {0}
      OBVIOUS
    <3> QED BY <3>1 DEF LocType
  <2>2. loc' \in [Procs -> LocType]
    BY <1>0, <1>1, <2>1 DEF Typed, DbType, LocType
  <2> QED BY <1>0, <1>1, <2>2 DEF Typed, DbType, LocType, Places
<1>4. /\ loc'[p].step = 1
      /\ db.latency = "absent" => pc'[p] = "schema" /\ loc'[p].fresh = TRUE
      /\ db.latency # "absent" => pc'[p] = "read" /\ loc'[p].fresh = FALSE
  <2>1. CASE db.latency = "absent"
    <3>1. loc'[p] = [version |-> 0, step |-> 1, fresh |-> TRUE]
      BY <1>2, <2>1
    <3> QED BY <1>2, <2>1, <3>1
  <2>2. CASE db.latency # "absent"
    <3>1. loc'[p] = [version |-> 0, step |-> 1, fresh |-> FALSE]
      BY <1>2, <2>2
    <3> QED BY <1>2, <2>2, <3>1
  <2> QED BY <2>1, <2>2
<1>5. start >= 1 => Knows(p)'
  BY <1>4 DEF IInv, Upgraded, Knows
<1>6. start = -1 /\ ~(Cardinality(openers) > 1) => Creates(p)'
  <2> SUFFICES ASSUME start = -1, ~(Cardinality(openers) > 1) PROVE Creates(p)'
    OBVIOUS
  <2>1. FileCreated
    BY DEF IInv, Created
  <2>2. db.latency = "absent" => db.version = 0
    BY <2>1 DEF FileCreated, Shape
  <2> QED BY <1>0, <1>4, <2>1, <2>2 DEF Creates, FileCreated
<1>7. start >= 2 /\ Cardinality(openers) = 1 => KeepsUp(p)'
  <2>1. start >= 2 => start >= 1
    BY MigrationConstants DEF IInv, Setting
  <2> QED BY <1>4, <2>1 DEF KeepsUp, IInv, Upgraded
<1>8. Paced(p)'
  BY <1>4 DEF Paced
<1> QED BY <1>0, <1>2, <1>3, <1>5, <1>6, <1>7, <1>8, FileAlone, StepKeeps

LEMMA ReadKeeps ==
  ASSUME IInv, NEW p \in Procs, ReadVersion(p)
  PROVE  IInv'
<1>0. /\ p \in openers /\ db' = db /\ start' = start /\ openers' = openers /\ pc[p] = "read"
      /\ pc' = [pc EXCEPT ![p] = IF db.version >= SCHEMA_VERSION THEN "schema" ELSE "migrate"]
      /\ loc' = [loc EXCEPT ![p].version = db.version]
  BY DEF ReadVersion, Goto, setting, IInv, Setting
<1>1. Typed
  BY DEF IInv
<1>2. /\ pc'[p] = (IF db.version >= SCHEMA_VERSION THEN "schema" ELSE "migrate")
      /\ loc'[p].version = db.version /\ loc'[p].fresh = loc[p].fresh /\ loc'[p].step = loc[p].step
      /\ Moves(p)
  BY <1>0, <1>1 DEF Typed, DbType, LocType, Moves
<1>3. Typed'
  BY <1>0, <1>1 DEF Typed, DbType, LocType, Places
<1>4. db.version \in Nat /\ loc'[p].step = 1
  BY <1>0, <1>1, <1>2 DEF Typed, DbType, LocType, IInv, Paced
<1>5. Paced(p)'
  BY <1>2, <1>4 DEF Paced, SCHEMA_VERSION
<1>6. start >= 1 => Knows(p)'
  <2> SUFFICES ASSUME start >= 1 PROVE Knows(p)'
    OBVIOUS
  <2>1. VersionNeverAhead /\ db.version >= 1 /\ db.version >= start /\ Knows(p)
    BY <1>4, MigrationConstants DEF IInv, Upgraded, Setting
  <2>2. \A m \in Migrations : Applied(m)' <=> Applied(m)
    BY <1>0, FileAlone
  <2>3. \A m \in Migrations : db.version >= m => Applied(m)'
    BY <2>1, <2>2 DEF VersionNeverAhead, Migrations
  <2>4. \A m \in Migrations : m <= SCHEMA_VERSION /\ m \in Nat
    BY DEF Migrations, SCHEMA_VERSION
  <2>5. db.version >= SCHEMA_VERSION => \A m \in Migrations : Applied(m)'
    BY <1>4, <2>3, <2>4 DEF SCHEMA_VERSION
  <2>6. \A k \in 1..4 : ~(k < loc'[p].step)
    BY <1>4
  <2>7. loc'[p].fresh = FALSE
    BY <1>0, <1>2, <2>1 DEF Knows
  <2> QED BY <1>0, <1>2, <2>1, <2>3, <2>5, <2>6, <2>7 DEF Knows
<1>7. start = -1 /\ ~(Cardinality(openers) > 1) => Creates(p)'
  <2> SUFFICES ASSUME start = -1, ~(Cardinality(openers) > 1) PROVE Creates(p)'
    OBVIOUS
  <2>1. FileCreated /\ Creates(p)
    BY <1>0 DEF IInv, Created
  <2> QED BY <1>0, <1>2, <1>4, <2>1 DEF Creates, FileCreated, SCHEMA_VERSION
<1>8. start >= 2 /\ Cardinality(openers) = 1 => KeepsUp(p)'
  BY <1>0, <1>2 DEF KeepsUp
<1> QED BY <1>0, <1>2, <1>3, <1>5, <1>6, <1>7, <1>8, FileAlone, StepKeeps

\* A crash or an error ends the attempt.
LEMMA EndKeeps ==
  ASSUME IInv, NEW p \in Procs, NEW l \in {"closed", "failed"}, pc[p] # "closed",
         db' = db, loc' = loc, pc' = [pc EXCEPT ![p] = l], start' = start, openers' = openers,
         l = "failed" => ~(start >= 2 /\ Cardinality(openers) = 1)
  PROVE  IInv'
<1>1. Typed /\ p \in openers
  BY DEF IInv, Setting
<1>2. pc'[p] = l /\ Moves(p)
  BY <1>1 DEF Typed, DbType, LocType, Moves
<1>3. Typed'
  BY <1>1 DEF Typed, DbType, LocType, Places
<1>4. Paced(p)' /\ Knows(p)' /\ Creates(p)'
  BY <1>2 DEF Paced, Knows, Creates
<1>5. start >= 2 /\ Cardinality(openers) = 1 => KeepsUp(p)'
  BY <1>2 DEF KeepsUp
<1> QED BY <1>1, <1>2, <1>3, <1>4, <1>5, FileAlone, StepKeeps
\* A statement of the second migration adds its column.
LEMMA ColumnAdded ==
  ASSUME Typed, NEW s \in FillColumns, ~StatementFails(s), db' = StatementEffect(s)
  PROVE  /\ s \notin db.columns /\ db.orders = "there"
         /\ db' = [db EXCEPT !.columns = db.columns \cup {s}]
         /\ db'.columns = db.columns \cup {s} /\ db'.version = db.version /\ Grows
         /\ db' \in DbType
<1>1. s \notin {"create", "copy", "drop", "rename"} /\ s \in OrderColumns
  BY DEF FillColumns, OrderColumns
<1>2. db' = [db EXCEPT !.columns = db.columns \cup {s}]
  BY <1>1 DEF StatementEffect
<1>3. s \notin db.columns /\ db.orders = "there"
  BY <1>1 DEF StatementFails, Typed, DbType, LocType
<1>4. db.columns \cup {s} \in SUBSET OrderColumns
  BY <1>1 DEF Typed, DbType, LocType
<1>5. /\ db'.columns = db.columns \cup {s} /\ db'.version = db.version
      /\ db'.latency = db.latency /\ db'.rows = db.rows /\ db'.snapshots = db.snapshots
      /\ db'.fills = db.fills
      /\ db' \in DbType
  BY <1>2, <1>4 DEF Typed, DbType, LocType
<1> QED BY <1>2, <1>3, <1>5 DEF Grows

\* A statement of the first migration rebuilds latency_events.
LEMMA TableRebuilt ==
  ASSUME Typed, NEW s \in {"create", "copy", "drop", "rename"}, db' = StatementEffect(s)
  PROVE  /\ db'.version = db.version /\ db'.orders = db.orders /\ db'.columns = db.columns
         /\ db'.latency \in {db.latency, "absent", "free"} /\ db'.snapshots = db.snapshots
         /\ s = "rename" => db'.latency = "free"
         /\ db' \in DbType
<1>1. CASE s = "create"
  <2>1. db' = [db EXCEPT !.scratch = "empty"]
    BY <1>1 DEF StatementEffect
  <2> QED BY <1>1, <2>1 DEF Typed, DbType, LocType
<1>2. CASE s = "copy"
  <2>1. db' = [db EXCEPT !.scratch = IF db.rows THEN "copied" ELSE "empty"]
    BY <1>2 DEF StatementEffect
  <2>2. (IF db.rows THEN "copied" ELSE "empty") \in {"absent", "empty", "copied"}
    OBVIOUS
  <2> QED BY <1>2, <2>1, <2>2 DEF Typed, DbType, LocType
<1>3. CASE s = "drop"
  <2>1. db' = [db EXCEPT !.latency = "absent", !.rows = FALSE]
    BY <1>3 DEF StatementEffect
  <2> QED BY <1>3, <2>1 DEF Typed, DbType, LocType
<1>4. CASE s = "rename"
  <2>1. PICK b \in BOOLEAN : db' = [db EXCEPT !.latency = "free", !.rows = b, !.scratch = "absent"]
    BY <1>4 DEF StatementEffect
  <2> QED BY <1>4, <2>1 DEF Typed, DbType, LocType
<1> QED BY <1>1, <1>2, <1>3, <1>4

LEMMA ScriptKeeps ==
  ASSUME IInv, NEW p \in Procs, ScriptStatement(p)
  PROVE  IInv'
<1> DEFINE m == NextMigration(p)
           k == loc[p].step
           s == Script(NextMigration(p))[loc[p].step]
<1>0. /\ pc[p] = "migrate" /\ m \in {1, 2} /\ k <= Len(Script(m)) /\ start' = start /\ openers' = openers
      /\ \/ StatementFails(s) /\ pc' = [pc EXCEPT ![p] = "failed"] /\ db' = db /\ loc' = loc
         \/ /\ ~StatementFails(s) /\ db' = StatementEffect(s) /\ pc' = pc
            /\ loc' = [loc EXCEPT ![p].step = loc[p].step + 1]
  BY DEF ScriptStatement, Goto, setting
<1>1. Typed /\ p \in openers /\ loc[p].version \in Nat /\ k \in Nat \ {0} /\ m = loc[p].version + 1
  BY <1>0 DEF IInv, Setting, Typed, DbType, LocType, NextMigration
<1>2. k \in 1..4 /\ loc[p].version \in {0, 1}
  BY <1>0, <1>1, Scripts
<1>3. m = 1 => s \in {"create", "copy", "drop", "rename"} /\ (k = 4 => s = "rename")
  BY <1>2, Scripts
<1>4. m = 2 => s \in FillColumns /\ (k = 1 => s = "fill_count")
  BY <1>2, Scripts DEF FillColumns
<1>5. ~(start >= 2 /\ Cardinality(openers) = 1)
  BY <1>0, <1>1, <1>2 DEF IInv, Alone, NotYet, KeepsUp
<1>6. CASE pc' = [pc EXCEPT ![p] = "failed"] /\ db' = db /\ loc' = loc
  BY <1>0, <1>5, <1>6, EndKeeps
<1>7. CASE /\ ~StatementFails(s) /\ db' = StatementEffect(s) /\ pc' = pc
           /\ loc' = [loc EXCEPT ![p].step = loc[p].step + 1]
  <2>1. /\ loc'[p].step = k + 1 /\ loc'[p].version = loc[p].version /\ loc'[p].fresh = loc[p].fresh
        /\ pc'[p] = "migrate" /\ Moves(p)
        /\ loc' \in [Procs -> LocType]
    <3>1. loc' = [loc EXCEPT ![p].step = k + 1] /\ pc' = pc /\ k + 1 \in Nat \ {0}
          /\ loc \in [Procs -> LocType] /\ pc[p] = "migrate"
          /\ start' = start /\ openers' = openers
      BY <1>0, <1>1, <1>7 DEF Typed, DbType, LocType
    <3> HIDE DEF k, m, s
    <3>2. /\ loc' \in [Procs -> LocType]
          /\ loc'[p].step = k + 1 /\ loc'[p].version = loc[p].version /\ loc'[p].fresh = loc[p].fresh
      <4>1. loc[p] \in LocType
        BY <3>1
      <4>2. loc'[p] = [loc[p] EXCEPT !.step = k + 1] /\ \A q \in Procs : q # p => loc'[q] = loc[q]
        BY <3>1
      <4>3. loc'[p] \in LocType /\ loc' = [q \in Procs |-> loc'[q]]
        BY <3>1, <4>1, <4>2, FieldByField
      <4> QED BY <3>1, <4>1, <4>2, <4>3 DEF LocType
    <3>3. Moves(p)
      BY <3>1 DEF Moves
    <3> QED BY <3>1, <3>2, <3>3
  <2> HIDE DEF s
  <2>2. db' \in DbType
    BY <1>0, <1>1, <1>3, <1>4, <1>7, ColumnAdded, TableRebuilt
  <2>3. Typed'
    BY <1>1, <1>7, <2>1, <2>2 DEF Typed, DbType, LocType
  <2>4. Paced(p)'
    BY <1>2, <2>1 DEF Paced, SCHEMA_VERSION
  <2>5. start >= 1 => Grows /\ db'.version >= start /\ VersionNeverAhead' /\ Knows(p)'
    <3> SUFFICES ASSUME start >= 1 PROVE Grows /\ db'.version >= start /\ VersionNeverAhead' /\ Knows(p)'
      OBVIOUS
    <3>1. Knows(p) /\ VersionNeverAhead /\ db.version >= start /\ loc[p].version = 1 /\ m = 2
      BY <1>0, <1>1, <1>2, MigrationConstants DEF IInv, Upgraded, Knows, Setting
    <3>2. Grows /\ db'.version = db.version /\ db'.columns = db.columns \cup {s}
      BY <1>1, <1>4, <1>7, <3>1, ColumnAdded
    <3>3. \A i \in Migrations : Applied(i) => Applied(i)'
      BY <3>2, GrowingApplies
    <3>4. VersionNeverAhead'
      BY <3>1, <3>2, <3>3 DEF VersionNeverAhead, Migrations
    <3>5. \A i \in 1..4 : i < k + 1 => Script(2)[i] \in db'.columns
      <4> SUFFICES ASSUME NEW i \in 1..4, i < k + 1 PROVE Script(2)[i] \in db'.columns
        OBVIOUS
      <4>1. CASE i = k
        BY <3>1, <3>2, <4>1 DEF s
      <4>2. CASE i < k
        BY <1>0, <3>1, <3>2, <4>2 DEF Knows
      <4> QED BY <1>2, <4>1, <4>2
    <3> QED BY <1>0, <2>1, <3>1, <3>2, <3>3, <3>4, <3>5 DEF Knows
  <2>6. start = -1 /\ ~(Cardinality(openers) > 1) => FileCreated' /\ Creates(p)'
    <3> SUFFICES ASSUME start = -1, ~(Cardinality(openers) > 1) PROVE FileCreated' /\ Creates(p)'
      OBVIOUS
    <3>1. FileCreated /\ Creates(p)
      BY <1>1 DEF IInv, Created
    <3>2. loc[p].version = db.version /\ db.orders = "there" /\ db.columns = OrderColumns
          /\ db.version # SCHEMA_VERSION
      BY <1>0, <3>1 DEF Creates, FileCreated
    <3>3. m = 1
      <4> SUFFICES ASSUME m = 2 PROVE FALSE
        BY <1>0
      <4>1. k = 1
        BY <1>0, <1>1, <3>1, <3>2 DEF Creates
      <4>2. s = "fill_count" /\ s \in db.columns
        BY <1>4, <3>2, <4>1 DEF FillColumns, OrderColumns
      <4> QED BY <1>1, <1>4, <1>7, <4>2, ColumnAdded
    <3>4. /\ db.version = 0 /\ db'.version = 0 /\ db'.orders = "there" /\ db'.columns = OrderColumns
          /\ db'.snapshots = db.snapshots
          /\ db'.latency \in {db.latency, "absent", "free"} /\ (k = 4 => db'.latency = "free")
      BY <1>1, <1>3, <1>7, <3>2, <3>3, TableRebuilt
    <3>5. FileCreated'
      BY <3>1, <3>4 DEF FileCreated, SCHEMA_VERSION
    <3>6. k + 1 > 4 => k = 4
      BY <1>2
    <3> QED BY <1>0, <2>1, <3>1, <3>2, <3>4, <3>5, <3>6 DEF Creates, SCHEMA_VERSION
  <2> QED BY <1>1, <1>5, <2>1, <2>3, <2>4, <2>5, <2>6, StepKeeps
<1> QED BY <1>0, <1>6, <1>7
\* The version of a finished script.
LEMMA BumpKeeps ==
  ASSUME IInv, NEW p \in Procs, BumpVersion(p)
  PROVE  IInv'
<1> DEFINE m == NextMigration(p)
<1>0. /\ pc[p] = "migrate" /\ m \in {1, 2} /\ loc[p].step > Len(Script(m)) /\ start' = start
      /\ openers' = openers /\ pc' = pc /\ db' = [db EXCEPT !.version = m]
      /\ loc' = [loc EXCEPT ![p].version = loc[p].version + 1, ![p].step = 1]
  BY DEF BumpVersion, setting
<1>1. Typed /\ p \in openers /\ loc[p].version \in Nat /\ m = loc[p].version + 1 /\ m \in Nat
  BY <1>0 DEF IInv, Setting, Typed, DbType, LocType, NextMigration
<1> HIDE DEF m
<1>2. loc[p].step = 5 /\ loc[p].version \in {0, 1}
  <2>1. loc[p].step \in 1..5 /\ loc[p].step > 4
    BY <1>0, Scripts DEF IInv, Paced
  <2> QED BY <1>0, <1>1, <2>1
<1>3. /\ loc' \in [Procs -> LocType]
      /\ loc'[p].step = 1 /\ loc'[p].version = m /\ loc'[p].fresh = loc[p].fresh
  <2>1. loc \in [Procs -> LocType] /\ loc[p] \in LocType
    BY <1>1 DEF Typed
  <2>2. /\ loc'[p] = [[loc[p] EXCEPT !.version = m] EXCEPT !.step = 1]
        /\ \A q \in Procs : q # p => loc'[q] = loc[q]
        /\ loc' = [q \in Procs |-> loc'[q]]
    BY <1>0, <1>1, <2>1
  <2>3. loc'[p] \in LocType
    <3>1. PICK e \in LocType : e = [loc[p] EXCEPT !.version = m]
      BY <1>1, <2>1, FieldByField
    <3>2. 1 \in Nat \ {0}
      OBVIOUS
    <3>3. [e EXCEPT !.step = 1] \in LocType
      BY <3>1, <3>2, FieldByField
    <3> QED BY <2>2, <3>1, <3>3
  <2>4. loc' \in [Procs -> LocType]
    BY <2>1, <2>2, <2>3
  <2>5. loc'[p].step = 1 /\ loc'[p].version = m /\ loc'[p].fresh = loc[p].fresh
    BY <2>1, <2>2 DEF LocType
  <2> QED BY <2>4, <2>5
<1>4. /\ db'.version = m /\ db'.orders = db.orders /\ db'.columns = db.columns
      /\ db'.latency = db.latency /\ db'.rows = db.rows /\ db'.snapshots = db.snapshots
      /\ db'.fills = db.fills
      /\ db' \in DbType
  BY <1>0, <1>1 DEF Typed, DbType, LocType
<1>5. Typed' /\ Moves(p) /\ Grows
  BY <1>0, <1>1, <1>3, <1>4 DEF Typed, DbType, LocType, Moves, Grows
<1>6. Paced(p)'
  BY <1>0, <1>3 DEF Paced, SCHEMA_VERSION
<1>7. ~(start >= 2 /\ Cardinality(openers) = 1)
  BY <1>0, <1>1, <1>2 DEF IInv, Alone, NotYet, KeepsUp
<1>8. start >= 1 => Grows /\ db'.version >= start /\ VersionNeverAhead' /\ Knows(p)'
  <2> SUFFICES ASSUME start >= 1 PROVE db'.version >= start /\ VersionNeverAhead' /\ Knows(p)'
    BY <1>5
  <2>1. Knows(p) /\ loc[p].version = 1 /\ m = 2 /\ start = 1
    <3>1. Upgraded
      BY <1>1 DEF IInv
    <3>2. Knows(p) /\ db.version >= start
      BY <1>0, <3>1 DEF Upgraded
    <3>3. start \in StartVersions
      BY DEF IInv, Setting
    <3>4. loc[p].version = 1
      BY <1>0, <1>2, <3>2, <3>3, MigrationConstants DEF Knows
    <3> QED BY <1>0, <1>1, <3>2, <3>3, <3>4, MigrationConstants DEF Knows
  <2>2. \A i \in Migrations : Applied(i) => Applied(i)'
    BY <1>5, GrowingApplies
  <2>3. Applied(1)'
    BY <1>0, <2>1, <2>2 DEF Knows, Migrations, SCHEMA_VERSION
  <2>4. Applied(2)'
    <3>1. \A i \in 1..4 : Script(2)[i] \in db.columns
      BY <1>0, <1>2, <2>1 DEF Knows
    <3>2. FillColumns \subseteq db.columns
      BY <3>1, Scripts DEF FillColumns
    <3> QED BY <1>4, <3>2 DEF Applied
  <2>5. \A i \in Migrations : 2 >= i => i \in {1, 2}
    BY DEF Migrations, SCHEMA_VERSION
  <2>6. \A i \in Migrations : 2 >= i => Applied(i)'
    BY <2>3, <2>4, <2>5
  <2> QED BY <1>0, <1>3, <1>4, <2>1, <2>6 DEF Knows, VersionNeverAhead, Migrations
<1>9. start = -1 /\ ~(Cardinality(openers) > 1) => FileCreated' /\ Creates(p)'
  <2> SUFFICES ASSUME start = -1, ~(Cardinality(openers) > 1) PROVE FileCreated' /\ Creates(p)'
    OBVIOUS
  <2>1. FileCreated /\ Creates(p)
    BY <1>1 DEF IInv, Created
  <2>2. db.version = 0 /\ m = 1 /\ db.latency = "free"
    BY <1>0, <1>1, <1>2, <2>1 DEF Creates
  <2> QED BY <1>0, <1>3, <1>4, <2>1, <2>2 DEF Creates, FileCreated, Shape, SCHEMA_VERSION
<1> QED BY <1>1, <1>5, <1>6, <1>7, <1>8, <1>9, StepKeeps

\* What a migration in its own transaction does to the file.
LEMMA Migrated ==
  ASSUME Typed, NEW m \in {3, 4, 5, 6}, db' = [MigrationEffect(m) EXCEPT !.version = m]
  PROVE  /\ db'.version = m /\ Grows /\ Applied(m)'
         /\ db' \in DbType
         /\ m = 3 => db'.snapshots = db.snapshots /\ db'.columns = db.columns \cup {"correlation_group"}
         /\ m = 4 => db'.columns = db.columns
<1>1. {"correlation_group", "post_only"} \subseteq OrderColumns /\ db.columns \subseteq OrderColumns
  BY DEF OrderColumns, Typed, DbType, LocType
<1>2. CASE m = 3
  <2>1. MigrationEffect(3) = [db EXCEPT !.columns = db.columns \cup {"correlation_group"}]
    BY DEF MigrationEffect
  <2>2. db' = [db EXCEPT !.columns = db.columns \cup {"correlation_group"}, !.version = 3]
    BY <1>2, <2>1 DEF Typed, DbType, LocType
  <2>3. /\ db'.version = m /\ db'.latency = db.latency /\ db'.rows = db.rows
        /\ db'.snapshots = db.snapshots /\ db'.fills = db.fills
        /\ db'.columns = db.columns \cup {"correlation_group"}
    BY <1>2, <2>2 DEF Typed, DbType, LocType
  <2>4. db' \in DbType
    <3>1. db \in DbType /\ db.columns \cup {"correlation_group"} \in SUBSET OrderColumns
      BY <1>1 DEF Typed, DbType
    <3>2. MigrationEffect(3) \in DbType
      BY <2>1, <3>1, FieldByField
    <3> QED BY <1>2, <3>2, FieldByField
  <2>5. Applied(m)'
    BY <1>2, <2>3 DEF Applied
  <2>6. Grows
    BY <2>3 DEF Grows
  <2> QED BY <1>2, <2>3, <2>4, <2>5, <2>6
<1>3. CASE m = 4
  <2>1. MigrationEffect(4) = [db EXCEPT !.snapshots = IF db.snapshots = "gross" THEN "net" ELSE db.snapshots]
    BY DEF MigrationEffect
  <2>2. db' = [db EXCEPT !.snapshots = IF db.snapshots = "gross" THEN "net" ELSE db.snapshots, !.version = 4]
    BY <1>3, <2>1 DEF Typed, DbType, LocType
  <2>3. /\ db'.version = m /\ db'.latency = db.latency /\ db'.rows = db.rows
        /\ db'.columns = db.columns /\ db'.fills = db.fills
        /\ db'.snapshots = (IF db.snapshots = "gross" THEN "net" ELSE db.snapshots)
    BY <1>3, <2>2 DEF Typed, DbType, LocType
  <2>4. db' \in DbType
    <3>1. db \in DbType /\ (IF db.snapshots = "gross" THEN "net" ELSE db.snapshots) \in {"absent", "gross", "net"}
      BY <1>1 DEF Typed, DbType
    <3>2. MigrationEffect(4) \in DbType
      BY <2>1, <3>1, FieldByField
    <3> QED BY <1>3, <3>2, FieldByField
  <2>5. Applied(m)'
    BY <1>3, <2>3 DEF Applied
  <2>6. Grows
    BY <2>3 DEF Grows
  <2> QED BY <1>3, <2>3, <2>4, <2>5, <2>6
<1>4. CASE m = 5
  <2>1. MigrationEffect(5) = [db EXCEPT !.columns = db.columns \cup {"post_only"}]
    BY DEF MigrationEffect
  <2>2. db' = [db EXCEPT !.columns = db.columns \cup {"post_only"}, !.version = 5]
    BY <1>4, <2>1 DEF Typed, DbType, LocType
  <2>3. /\ db'.version = m /\ db'.latency = db.latency /\ db'.rows = db.rows
        /\ db'.snapshots = db.snapshots /\ db'.fills = db.fills
        /\ db'.columns = db.columns \cup {"post_only"}
    BY <1>4, <2>2 DEF Typed, DbType, LocType
  <2>4. db' \in DbType
    <3>1. db \in DbType /\ db.columns \cup {"post_only"} \in SUBSET OrderColumns
      BY <1>1 DEF Typed, DbType
    <3>2. MigrationEffect(5) \in DbType
      BY <2>1, <3>1, FieldByField
    <3> QED BY <1>4, <3>2, FieldByField
  <2>5. Applied(m)'
    BY <1>4, <2>3 DEF Applied
  <2>6. Grows
    BY <2>3 DEF Grows
  <2> QED BY <1>4, <2>3, <2>4, <2>5, <2>6
<1>5. CASE m = 6
  <2>1. MigrationEffect(6) = [db EXCEPT !.fills = TRUE]
    BY DEF MigrationEffect
  <2>2. db' = [db EXCEPT !.fills = TRUE, !.version = 6]
    BY <1>5, <2>1 DEF Typed, DbType, LocType
  <2>3. /\ db'.version = m /\ db'.latency = db.latency /\ db'.rows = db.rows
        /\ db'.columns = db.columns /\ db'.snapshots = db.snapshots
        /\ db'.fills = TRUE
    BY <1>5, <2>2 DEF Typed, DbType, LocType
  <2>4. db' \in DbType
    <3>1. db \in DbType
      BY DEF Typed
    <3>2. MigrationEffect(6) \in DbType
      BY <2>1, <3>1, FieldByField
    <3> QED BY <1>5, <3>2, FieldByField
  <2>5. Applied(m)'
    BY <1>5, <2>3 DEF Applied
  <2>6. Grows
    BY <2>3 DEF Grows
  <2> QED BY <1>5, <2>3, <2>4, <2>5, <2>6
<1> QED BY <1>2, <1>3, <1>4, <1>5

LEMMA MigrateKeeps ==
  ASSUME IInv, NEW p \in Procs, Migrate(p)
  PROVE  IInv'
<1>0. /\ pc[p] = "migrate" /\ NextMigration(p) > 2 /\ start' = start /\ openers' = openers
  BY DEF Migrate, setting
<1>1. PICK m \in {3, 4, 5, 6} :
        /\ m = NextMigration(p) /\ Typed /\ p \in openers /\ loc[p].version \in Nat
        /\ m = loc[p].version + 1 /\ loc[p].step = 1
  <2>1. Typed /\ p \in openers /\ loc[p].version \in Nat /\ NextMigration(p) = loc[p].version + 1
    BY <1>0, FieldByField DEF IInv, Setting, Typed, NextMigration
  <2>2. loc[p].version < 6 /\ (loc[p].version >= 2 => loc[p].step = 1)
    BY <1>0 DEF IInv, Paced, SCHEMA_VERSION
  <2>3. NextMigration(p) \in {3, 4, 5, 6} /\ loc[p].step = 1
    BY <1>0, <2>1, <2>2
  <2> QED BY <2>1, <2>3
<1>2. CASE MigrationFails(m) /\ pc' = [pc EXCEPT ![p] = "failed"] /\ db' = db /\ loc' = loc
  <2>1. ~(start >= 2 /\ Cardinality(openers) = 1)
    <3> SUFFICES ASSUME start >= 2 /\ Cardinality(openers) = 1 PROVE FALSE
      OBVIOUS
    <3>1. NotYet /\ loc[p].version = db.version
      BY <1>0, <1>1 DEF IInv, Alone, KeepsUp
    <3> QED BY <1>1, <1>2, <3>1 DEF NotYet, MigrationFails
  <2> QED BY <1>0, <1>2, <2>1, EndKeeps
<1>3. CASE /\ ~MigrationFails(m) /\ db' = [MigrationEffect(m) EXCEPT !.version = m]
           /\ loc' = [loc EXCEPT ![p].version = loc[p].version + 1]
           /\ pc' = [pc EXCEPT ![p] = IF m = SCHEMA_VERSION THEN "schema" ELSE "migrate"]
  <2>1. /\ db'.version = m /\ Grows /\ Applied(m)'
        /\ db' \in DbType
        /\ (m = 3 => db'.snapshots = db.snapshots /\ db'.columns = db.columns \cup {"correlation_group"})
        /\ (m = 4 => db'.columns = db.columns)
    BY <1>1, <1>3, Migrated
  <2>2. /\ loc' \in [Procs -> LocType]
        /\ loc'[p].step = 1 /\ loc'[p].version = m /\ loc'[p].fresh = loc[p].fresh
    <3>1. loc' = [loc EXCEPT ![p].version = m] /\ m \in Nat
      BY <1>1, <1>3
    <3> QED BY <1>1, <3>1 DEF Typed, DbType, LocType
  <2>3. /\ pc' \in [Procs -> Places]
        /\ (m = 6 => pc'[p] = "schema") /\ (m # 6 => pc'[p] = "migrate")
        /\ \A q \in Procs : q # p => pc'[q] = pc[q] /\ loc'[q] = loc[q]
    BY <1>1, <1>3 DEF Typed, DbType, LocType, Places, SCHEMA_VERSION
  <2>4. Typed' /\ Moves(p)
    BY <1>0, <2>1, <2>2, <2>3 DEF Typed, DbType, LocType, Moves
  <2>5. Paced(p)'
    BY <1>1, <2>2, <2>3 DEF Paced, SCHEMA_VERSION
  <2>6. start >= 1 => Grows /\ db'.version >= start /\ VersionNeverAhead' /\ Knows(p)'
    <3> SUFFICES ASSUME start >= 1 PROVE db'.version >= start /\ VersionNeverAhead' /\ Knows(p)'
      BY <2>1
    <3>1. Knows(p) /\ loc[p].version >= start /\ start \in Int
      BY <1>0, <1>1, MigrationConstants DEF IInv, Upgraded, Knows, Setting
    <3>2. \A i \in Migrations : Applied(i) => Applied(i)'
      BY <2>1, GrowingApplies
    <3>3. \A i \in Migrations : i \in Nat /\ (m >= i => i = m \/ loc[p].version >= i)
      BY <1>1 DEF Migrations, SCHEMA_VERSION
    <3>4. \A i \in Migrations : m >= i => Applied(i)'
      BY <1>0, <2>1, <3>1, <3>2, <3>3 DEF Knows
    <3>5. \A i \in Migrations : 6 >= i
      BY DEF Migrations, SCHEMA_VERSION
    <3>6. VersionNeverAhead' /\ m >= start
      BY <1>1, <2>1, <3>1, <3>4 DEF VersionNeverAhead, Migrations
    <3>7. Knows(p)'
      BY <1>0, <1>1, <2>2, <2>3, <3>1, <3>4, <3>5, <3>6 DEF Knows
    <3> QED BY <2>1, <3>6, <3>7
  <2>7. start = -1 /\ ~(Cardinality(openers) > 1) => FileCreated' /\ Creates(p)'
    BY <1>0, <1>1 DEF IInv, Created, Creates, FileCreated, SCHEMA_VERSION
  <2>8. start >= 2 /\ Cardinality(openers) = 1 => NotYet' /\ KeepsUp(p)'
    <3> SUFFICES ASSUME start >= 2 /\ Cardinality(openers) = 1 PROVE NotYet' /\ KeepsUp(p)'
      OBVIOUS
    <3>1. NotYet /\ loc[p].version = db.version
      BY <1>0, <1>1 DEF IInv, Alone, KeepsUp
    <3>2. NotYet'
      BY <1>1, <2>1, <3>1 DEF NotYet
    <3> QED BY <2>1, <2>2, <2>3, <3>2 DEF KeepsUp, SCHEMA_VERSION
  <2> QED BY <1>1, <2>4, <2>5, <2>6, <2>7, <2>8, StepKeeps
<1> QED BY <1>1, <1>2, <1>3 DEF Migrate, Goto, AfterMigration
\* What one table of schema.sql does to the file.
LEMMA TableCreated ==
  ASSUME Typed, NEW p \in Procs, CreateTables(p), loc[p].step \in 1..3
  PROVE  /\ db' \in DbType /\ db'.version = db.version /\ db'.rows = db.rows
         /\ (loc[p].step # 1 => db'.orders = db.orders /\ db'.columns = db.columns)
         /\ (loc[p].step # 2 => db'.latency = db.latency)
         /\ (loc[p].step # 3 => db'.snapshots = db.snapshots /\ db'.fills = db.fills)
         /\ (loc[p].step = 1 =>
              /\ db'.orders = "there"
              /\ db'.columns = IF db.orders = "absent" THEN OrderColumns ELSE db.columns)
         /\ (loc[p].step = 2 => db'.latency = IF db.latency = "absent" THEN "free" ELSE db.latency)
         /\ (loc[p].step = 3 =>
              /\ db'.snapshots = IF db.snapshots = "absent" THEN "net" ELSE db.snapshots
              /\ db'.fills = TRUE)
<1>1. CASE loc[p].step = 1
  <2>1. CASE db.orders = "absent"
    <3>1. db' = [db EXCEPT !.orders = "there", !.columns = OrderColumns]
      BY <1>1, <2>1 DEF CreateTables
    <3>2. /\ db'.orders = "there" /\ db'.columns = OrderColumns
          /\ db'.version = db.version /\ db'.latency = db.latency /\ db'.rows = db.rows /\ db'.scratch = db.scratch
          /\ db'.snapshots = db.snapshots /\ db'.fills = db.fills
      BY <3>1 DEF Typed, DbType
    <3>3. db' \in DbType
      BY <3>1 DEF Typed, DbType
    <3> QED BY <1>1, <2>1, <3>2, <3>3
  <2>2. CASE db.orders # "absent"
    <3>1. db' = db
      BY <1>1, <2>2 DEF CreateTables
    <3> QED BY <1>1, <2>2, <3>1 DEF Typed, DbType
  <2> QED BY <2>1, <2>2
<1>2. CASE loc[p].step = 2
  <2>1. CASE db.latency = "absent"
    <3>1. db' = [db EXCEPT !.latency = "free"]
      BY <1>2, <2>1 DEF CreateTables
    <3>2. /\ db'.latency = "free"
          /\ db'.version = db.version /\ db'.rows = db.rows /\ db'.scratch = db.scratch /\ db'.orders = db.orders
          /\ db'.columns = db.columns /\ db'.snapshots = db.snapshots /\ db'.fills = db.fills
      BY <3>1 DEF Typed, DbType
    <3>3. db' \in DbType
      BY <3>1 DEF Typed, DbType
    <3> QED BY <1>2, <2>1, <3>2, <3>3
  <2>2. CASE db.latency # "absent"
    <3>1. db' = db
      BY <1>2, <2>2 DEF CreateTables
    <3> QED BY <1>2, <2>2, <3>1 DEF Typed, DbType
  <2> QED BY <2>1, <2>2
<1>3. CASE loc[p].step = 3
  <2>1. db' = [db EXCEPT !.snapshots = IF db.snapshots = "absent" THEN "net" ELSE db.snapshots,
                         !.fills = TRUE]
    BY <1>3 DEF CreateTables
  <2>2. /\ db'.snapshots = (IF db.snapshots = "absent" THEN "net" ELSE db.snapshots) /\ db'.fills = TRUE
        /\ db'.version = db.version /\ db'.latency = db.latency /\ db'.rows = db.rows /\ db'.scratch = db.scratch
        /\ db'.orders = db.orders /\ db'.columns = db.columns
    BY <2>1 DEF Typed, DbType
  <2>3. db' \in DbType
    BY <2>1 DEF Typed, DbType
  <2>4. /\ (loc[p].step # 1 => db'.orders = db.orders /\ db'.columns = db.columns)
        /\ (loc[p].step # 2 => db'.latency = db.latency)
        /\ (loc[p].step # 3 => db'.snapshots = db.snapshots /\ db'.fills = db.fills)
    BY <1>3, <2>2
  <2>5. (loc[p].step = 1 =>
              /\ db'.orders = "there"
              /\ db'.columns = IF db.orders = "absent" THEN OrderColumns ELSE db.columns)
    BY <1>3
  <2>6. (loc[p].step = 2 => db'.latency = IF db.latency = "absent" THEN "free" ELSE db.latency)
    BY <1>3
  <2>7. (loc[p].step = 3 =>
              /\ db'.snapshots = IF db.snapshots = "absent" THEN "net" ELSE db.snapshots
              /\ db'.fills = TRUE)
    BY <2>2
  <2> QED BY <2>2, <2>3, <2>4, <2>5, <2>6, <2>7
<1>4. loc[p].step = 1 \/ loc[p].step = 2 \/ loc[p].step = 3
  OBVIOUS
<1> QED BY <1>1, <1>2, <1>3, <1>4

LEMMA CreateKeeps ==
  ASSUME IInv, NEW p \in Procs, CreateTables(p)
  PROVE  IInv'
<1> DEFINE k == loc[p].step
<1>0. pc[p] = "schema" /\ start' = start /\ openers' = openers
  BY DEF CreateTables, setting
<1>1. Typed /\ p \in openers /\ k \in 1..3 /\ k + 1 \in Nat \ {0} /\ loc[p] \in LocType
  BY <1>0 DEF IInv, Setting, Paced, Typed
<1>2. /\ db' \in DbType /\ db'.version = db.version /\ db'.rows = db.rows
      /\ (k # 1 => db'.orders = db.orders /\ db'.columns = db.columns)
      /\ (k # 2 => db'.latency = db.latency)
      /\ (k # 3 => db'.snapshots = db.snapshots /\ db'.fills = db.fills)
      /\ (k = 1 => /\ db'.orders = "there"
                   /\ db'.columns = IF db.orders = "absent" THEN OrderColumns ELSE db.columns)
      /\ (k = 2 => db'.latency = IF db.latency = "absent" THEN "free" ELSE db.latency)
      /\ (k = 3 => /\ db'.snapshots = IF db.snapshots = "absent" THEN "net" ELSE db.snapshots
                   /\ db'.fills = TRUE)
  BY <1>1, TableCreated
<1>3. /\ loc' \in [Procs -> LocType] /\ pc' \in [Procs -> Places]
      /\ loc'[p].version = loc[p].version /\ loc'[p].fresh = loc[p].fresh
      /\ (k < 3 => loc'[p].step = k + 1 /\ pc'[p] = "schema")
      /\ (k = 3 => pc'[p] = IF loc[p].fresh THEN "stamp" ELSE "ready")
      /\ \A q \in Procs : q # p => pc'[q] = pc[q] /\ loc'[q] = loc[q]
  <2>1. CASE k < 3
    <3>1. loc' = [loc EXCEPT ![p].step = k + 1] /\ pc' = pc
      BY <2>1 DEF CreateTables
    <3> HIDE DEF k
    <3>2. /\ loc \in [Procs -> LocType] /\ pc \in [Procs -> Places]
          /\ loc'[p] = [loc[p] EXCEPT !.step = k + 1]
          /\ \A q \in Procs : q # p => loc'[q] = loc[q]
          /\ loc' = [q \in Procs |-> loc'[q]]
      BY <1>1, <3>1 DEF Typed
    <3>3. loc'[p] \in LocType
      BY <1>1, <3>2, FieldByField
    <3>4. loc' \in [Procs -> LocType]
      BY <3>2, <3>3
    <3>5. loc'[p].step = k + 1 /\ loc'[p].version = loc[p].version /\ loc'[p].fresh = loc[p].fresh
      BY <1>1, <3>2 DEF LocType
    <3> QED BY <1>0, <2>1, <3>1, <3>2, <3>4, <3>5
  <2>2. CASE k = 3
    <3>1. loc' = loc /\ pc' = [pc EXCEPT ![p] = IF loc[p].fresh THEN "stamp" ELSE "ready"]
      BY <2>2 DEF CreateTables, Goto
    <3> QED BY <1>1, <2>2, <3>1 DEF Typed, Places
  <2> QED BY <1>1, <2>1, <2>2
<1>4. k = 1 \/ k = 2 \/ k = 3
  BY <1>1
<1> HIDE DEF k
<1>5. Typed' /\ Moves(p)
  BY <1>0, <1>2, <1>3 DEF Typed, Moves
<1>6. pc'[p] \in {"schema", "stamp", "ready"} /\ (pc'[p] = "schema" => k < 3)
  BY <1>3, <1>4
<1>7. Paced(p)'
  BY <1>3, <1>4, <1>6 DEF Paced
<1>8. start >= 1 => Grows /\ db'.version >= start /\ VersionNeverAhead' /\ Knows(p)'
  <2> SUFFICES ASSUME start >= 1 PROVE Grows /\ db'.version >= start /\ VersionNeverAhead' /\ Knows(p)'
    OBVIOUS
  <2>1. /\ Knows(p) /\ db.latency = "free" /\ db.version >= start /\ VersionNeverAhead
        /\ db.columns \subseteq OrderColumns /\ loc[p].fresh = FALSE
    BY <1>0, <1>1 DEF IInv, Upgraded, Knows, Typed, DbType
  <2>2. Grows
    BY <1>2, <1>4, <2>1 DEF Grows
  <2>3. \A i \in Migrations : Applied(i) => Applied(i)'
    BY <2>2, GrowingApplies
  <2>4. \A i \in Migrations : Applied(i)'
    BY <1>0, <2>1, <2>3 DEF Knows
  <2>5. VersionNeverAhead'
    BY <2>4 DEF VersionNeverAhead, Migrations
  <2>6. pc'[p] # "stamp"
    BY <1>3, <1>4, <2>1
  <2> QED BY <1>2, <1>3, <1>6, <2>1, <2>2, <2>4, <2>5, <2>6 DEF Knows
<1>9. start = -1 /\ ~(Cardinality(openers) > 1) => FileCreated' /\ Creates(p)'
  <2> SUFFICES ASSUME start = -1, ~(Cardinality(openers) > 1) PROVE FileCreated' /\ Creates(p)'
    OBVIOUS
  <2>1. FileCreated /\ Creates(p)
    BY <1>1 DEF IInv, Created
  <2>2. CASE loc[p].fresh = TRUE
    <3>1. db.version = 0 /\ (k > 1 => db.orders = "there") /\ (k > 2 => db.latency = "free")
      BY <1>0, <2>1, <2>2 DEF Creates, k
    <3>2. /\ db'.version = 0 /\ db'.orders = "there" /\ db'.columns = OrderColumns
          /\ db'.snapshots # "gross" /\ (k > 1 => db'.latency = "free")
          /\ (db'.latency # "absent" => db'.latency = "free")
      BY <1>1, <1>2, <1>4, <2>1, <3>1 DEF FileCreated, Typed, DbType
    <3>3. FileCreated'
      BY <3>2 DEF FileCreated, SCHEMA_VERSION
    <3>4. k = 3 => Shape' /\ pc'[p] = "stamp"
      BY <1>1, <1>2, <1>3, <2>1, <2>2, <3>2 DEF Shape, FileCreated, Typed, DbType
    <3>5. loc'[p].step > 2 /\ pc'[p] = "schema" => k > 1
      BY <1>3, <1>4, <1>6
    <3> QED BY <1>3, <1>4, <1>6, <2>2, <3>2, <3>3, <3>4, <3>5 DEF Creates
  <2>3. CASE loc[p].fresh # TRUE
    <3>1. db.version = SCHEMA_VERSION /\ Shape /\ loc[p].fresh = FALSE
      BY <1>0, <1>1, <2>1, <2>3 DEF Creates, FileCreated, LocType
    <3>2. Shape' /\ db'.version = SCHEMA_VERSION
      BY <1>2, <1>4, <3>1 DEF Shape
    <3>3. FileCreated'
      BY <3>2 DEF FileCreated, Shape
    <3> QED BY <1>3, <1>4, <1>6, <3>1, <3>2, <3>3 DEF Creates
  <2> QED BY <2>2, <2>3
<1>10. start >= 2 /\ Cardinality(openers) = 1 => NotYet' /\ KeepsUp(p)'
  <2> SUFFICES ASSUME start >= 2 /\ Cardinality(openers) = 1 PROVE NotYet' /\ KeepsUp(p)'
    OBVIOUS
  <2>1. db.version >= 6 /\ db.version \in Nat
    BY <1>0, <1>1 DEF IInv, Alone, KeepsUp, SCHEMA_VERSION, Typed, DbType
  <2> QED BY <1>2, <1>6, <2>1 DEF NotYet, KeepsUp, SCHEMA_VERSION
<1> QED BY <1>1, <1>5, <1>7, <1>8, <1>9, <1>10, StepKeeps

\* A new file gets its version last.
LEMMA StampKeeps ==
  ASSUME IInv, NEW p \in Procs, stamp_current_version(p)
  PROVE  IInv'
<1>0. /\ pc[p] = "stamp" /\ start' = start /\ openers' = openers /\ loc' = loc
      /\ pc' = [pc EXCEPT ![p] = "ready"] /\ db' = [db EXCEPT !.version = SCHEMA_VERSION]
  BY DEF stamp_current_version, Goto, setting
<1>1. Typed /\ p \in openers
  BY <1>0 DEF IInv, Setting
<1>2. pc'[p] = "ready" /\ Moves(p)
  BY <1>0, <1>1 DEF Typed, Moves
<1>3. Typed' /\ db'.version = SCHEMA_VERSION
  <2>1. db' \in DbType /\ db'.version = SCHEMA_VERSION
    BY <1>0, <1>1 DEF Typed, DbType, SCHEMA_VERSION
  <2> QED BY <1>0, <1>1, <2>1 DEF Typed, Places
<1>4. Paced(p)'
  BY <1>2 DEF Paced
<1>5. ~(start >= 1)
  BY <1>0 DEF IInv, Upgraded, Knows
<1>6. start = -1 /\ ~(Cardinality(openers) > 1) => FileCreated' /\ Creates(p)'
  <2> SUFFICES ASSUME start = -1, ~(Cardinality(openers) > 1) PROVE FileCreated' /\ Creates(p)'
    OBVIOUS
  <2>1. Shape
    BY <1>0, <1>1 DEF IInv, Created, Creates
  <2>2. Shape'
    BY <1>0, <1>1, <2>1 DEF Shape, Typed, DbType
  <2>3. FileCreated'
    BY <1>3, <2>2 DEF FileCreated, Shape, SCHEMA_VERSION
  <2> QED BY <1>2, <1>3, <2>3 DEF Creates
<1>7. ~(start >= 2)
  BY <1>5, MigrationConstants DEF IInv, Setting
<1> QED BY <1>1, <1>2, <1>3, <1>4, <1>5, <1>6, <1>7, StepKeeps

-----------------------------------------------------------------------------
(* The invariant, from the file that is found to every later step.          *)

\* A file the program left behind has the migrations of its version, no others.
LEMMA LeftBehind ==
  ASSUME NEW v \in 0..SCHEMA_VERSION, NEW s \in {"absent", "gross"}, db = OfVersion(v, s)
  PROVE  /\ db \in DbType /\ db.version = v /\ db.rows = TRUE
         /\ (v >= 1 => db.latency = "free" /\ VersionNeverAhead)
         /\ (v >= 2 => NotYet)
<1>1. /\ db.version = v /\ db.latency = (IF v >= 1 THEN "free" ELSE "checked") /\ db.rows = TRUE
      /\ db.scratch = "absent" /\ db.orders = "there"
      /\ db.snapshots = (IF v >= 4 /\ s # "absent" THEN "net" ELSE s) /\ db.fills = (v >= 6)
  BY DEF OfVersion
<1>2. db.columns = { c \in OrderColumns : \/ v >= 2 /\ c \in FillColumns
                                          \/ v >= 3 /\ c = "correlation_group"
                                          \/ v >= 5 /\ c = "post_only" }
  BY DEF OfVersion
<1>3. db \in DbType
  <2>1. v \in Nat /\ (v >= 6) \in BOOLEAN
    BY DEF SCHEMA_VERSION
  <2>2. (IF v >= 4 /\ s # "absent" THEN "net" ELSE s) \in {"absent", "gross", "net"}
    OBVIOUS
  <2>3. { c \in OrderColumns : \/ v >= 2 /\ c \in FillColumns
                               \/ v >= 3 /\ c = "correlation_group"
                               \/ v >= 5 /\ c = "post_only" } \in SUBSET OrderColumns
    OBVIOUS
  <2>4. (IF v >= 1 THEN "free" ELSE "checked") \in {"absent", "checked", "free"}
    OBVIOUS
  <2> QED BY <2>1, <2>2, <2>3, <2>4 DEF OfVersion, DbType
<1>4. FillColumns \subseteq OrderColumns /\ "correlation_group" \in OrderColumns
      /\ "post_only" \in OrderColumns /\ "correlation_group" \notin FillColumns
      /\ "post_only" \notin FillColumns
  BY DEF FillColumns, OrderColumns
<1>5. VersionNeverAhead
  <2> SUFFICES ASSUME NEW m \in Migrations, v >= m PROVE Applied(m)
    BY <1>1 DEF VersionNeverAhead, Migrations
  <2>1. m \in {1, 2, 3, 4, 5, 6} /\ v \in Nat
    BY DEF Migrations, SCHEMA_VERSION
  <2>2. CASE m = 1
    BY <1>1, <2>1, <2>2 DEF Applied
  <2>3. CASE m = 2
    <3>1. FillColumns \subseteq db.columns
      BY <1>2, <1>4, <2>3
    <3> QED BY <2>3, <3>1 DEF Applied
  <2>4. CASE m = 3
    BY <1>2, <1>4, <2>4 DEF Applied
  <2>5. CASE m = 4
    BY <1>1, <2>5 DEF Applied
  <2>6. CASE m = 5
    BY <1>2, <1>4, <2>6 DEF Applied
  <2>7. CASE m = 6
    <3>1. (v >= 6) = TRUE
      BY <2>7
    <3>2. db.fills
      BY <1>1, <3>1, Zenon
    <3> QED BY <2>7, <3>2 DEF Applied
  <2> QED BY <2>1, <2>2, <2>3, <2>4, <2>5, <2>6, <2>7
<1>6. v >= 2 => NotYet
  <2>1. v < 3 => "correlation_group" \notin db.columns
    BY <1>2, <1>4 DEF SCHEMA_VERSION
  <2>2. v < 5 => "post_only" \notin db.columns
    BY <1>2, <1>4 DEF SCHEMA_VERSION
  <2>3. v < 4 => db.snapshots # "net"
    BY <1>1 DEF SCHEMA_VERSION
  <2> QED BY <1>1, <2>1, <2>2, <2>3 DEF NotYet
<1> QED BY <1>1, <1>3, <1>5, <1>6

LEMMA InvInit ==
  ASSUME Init
  PROVE  IInv
<1>0. /\ start \in StartVersions /\ openers \in (SUBSET Procs) \ {{}}
      /\ (Cardinality(openers) > 1 => start >= SharedFrom)
      /\ pc = [p \in Procs |-> "closed"]
      /\ loc = [p \in Procs |-> [version |-> 0, step |-> 1, fresh |-> FALSE]]
      /\ start \in -1..SCHEMA_VERSION
  BY MigrationConstants DEF Init
<1>1. \A p \in Procs : pc[p] = "closed"
  BY <1>0
<1>2. CASE start = -1
  <2>1. db = Missing
    BY <1>2 DEF Init
  <2>2. /\ db.version = 0 /\ db.latency = "absent" /\ db.orders = "absent"
        /\ db.snapshots = "absent"
    BY <2>1 DEF Missing
  <2>3. db \in DbType
    BY <2>1 DEF Missing, DbType, OrderColumns
  <2>4. FileCreated
    BY <2>2 DEF FileCreated, SCHEMA_VERSION
  <2>5. ~(start >= 1) /\ ~(start >= 2)
    BY <1>2
  <2>6. Created
    BY <1>1, <2>4, <1>0 DEF Created, Creates
  <2>7. Typed
    BY <1>0, <2>3 DEF Typed, LocType, Places
  <2>8. Setting
    BY <1>0, <1>1 DEF Setting
  <2>9. Upgraded /\ Alone /\ \A p \in Procs : Paced(p)
    BY <1>1, <2>5 DEF Upgraded, Alone, Paced
  <2> QED BY <2>6, <2>7, <2>8, <2>9 DEF IInv
<1>3. CASE start >= 0
  <2>1. PICK s \in {"absent", "gross"} : db = OfVersion(start, s)
    BY <1>3, <1>0 DEF Init
  <2>2. start \in 0..SCHEMA_VERSION
    BY <1>0, <1>3 DEF SCHEMA_VERSION
  <2>3. /\ db \in DbType /\ db.version = start /\ db.rows = TRUE
        /\ (start >= 1 => db.latency = "free" /\ VersionNeverAhead)
        /\ (start >= 2 => NotYet)
    BY <2>1, <2>2, LeftBehind
  <2>4. Typed
    BY <1>0, <2>3 DEF Typed, LocType, Places
  <2>5. Setting
    BY <1>0, <1>1 DEF Setting
  <2>6. \A p \in Procs : Paced(p) /\ KeepsUp(p)
    BY <1>1 DEF Paced, KeepsUp
  <2>7. Upgraded
    <3>1. \A p \in Procs : Knows(p)
      <4> SUFFICES ASSUME NEW p \in Procs PROVE Knows(p)
        OBVIOUS
      <4>1. pc[p] = "closed"
        BY <1>1
      <4> QED BY <4>1 DEF Knows
    <3> QED BY <2>2, <2>3, <3>1 DEF Upgraded, SCHEMA_VERSION
  <2>8. Created
    BY <1>3, <1>0 DEF Created
  <2>9. Alone
    BY <1>0, <2>3, <2>6 DEF Alone
  <2> QED BY <2>4, <2>5, <2>6, <2>7, <2>8, <2>9 DEF IInv
<1> QED BY <1>0, <1>2, <1>3 DEF SCHEMA_VERSION

LEMMA InvNext ==
  ASSUME IInv, [Next]_vars
  PROVE  IInv'
<1>1. CASE UNCHANGED vars
  <2>1. /\ db' = db /\ pc' = pc /\ loc' = loc /\ start' = start /\ openers' = openers
    BY <1>1 DEF vars, setting
  <2>2. \A m \in Migrations : Applied(m)' <=> Applied(m)
    BY <2>1, FileAlone
  <2>3. VersionNeverAhead' <=> VersionNeverAhead
    BY <2>1, <2>2 DEF VersionNeverAhead, Migrations
  <2>4. \A p \in Procs : /\ Paced(p)' <=> Paced(p)
                         /\ Knows(p)' <=> Knows(p)
    BY <2>1, <2>2 DEF Paced, Knows
  <2>5. /\ FileCreated' <=> FileCreated
        /\ NotYet' <=> NotYet
    BY <2>1 DEF FileCreated, Shape, NotYet
  <2>6. \A p : /\ Creates(p)' <=> Creates(p)
               /\ KeepsUp(p)' <=> KeepsUp(p)
    BY <2>1 DEF Creates, Shape, KeepsUp
  <2>7. Typed' /\ Setting'
    BY <2>1 DEF IInv, Typed, Setting
  <2>8. Upgraded' /\ \A p \in Procs : Paced(p)'
    BY <2>1, <2>3, <2>4 DEF IInv, Upgraded
  <2>9. Created' /\ Alone'
    BY <2>1, <2>5, <2>6 DEF IInv, Created, Alone
  <2> QED BY <2>7, <2>8, <2>9 DEF IInv
<1>2. ASSUME NEW p \in Procs, Open(p) PROVE IInv'
  BY <1>2, OpenKeeps
<1>3. ASSUME NEW p \in Procs, ReadVersion(p) PROVE IInv'
  BY <1>3, ReadKeeps
<1>4. ASSUME NEW p \in Procs, ScriptStatement(p) PROVE IInv'
  BY <1>4, ScriptKeeps
<1>5. ASSUME NEW p \in Procs, BumpVersion(p) PROVE IInv'
  BY <1>5, BumpKeeps
<1>6. ASSUME NEW p \in Procs, Migrate(p) PROVE IInv'
  BY <1>6, MigrateKeeps
<1>7. ASSUME NEW p \in Procs, CreateTables(p) PROVE IInv'
  BY <1>7, CreateKeeps
<1>8. ASSUME NEW p \in Procs, stamp_current_version(p) PROVE IInv'
  BY <1>8, StampKeeps
<1>9. ASSUME NEW p \in Procs, Crash(p) PROVE IInv'
  <2>1. /\ pc[p] # "closed" /\ pc' = [pc EXCEPT ![p] = "closed"] /\ db' = db /\ loc' = loc
        /\ start' = start /\ openers' = openers
    BY <1>9 DEF Crash, Goto, setting
  <2>2. "closed" # "failed" /\ "closed" \in {"closed", "failed"}
    OBVIOUS
  <2> QED BY <2>1, <2>2, EndKeeps
<1> QED BY <1>1, <1>2, <1>3, <1>4, <1>5, <1>6, <1>7, <1>8, <1>9 DEF Next, Step

-----------------------------------------------------------------------------
(* What initialize() promises, for any processes, openings and crashes.     *)

\* Migrations.apply_migrations and TelemetryDB.initialize: whatever the interleaving of
\* the openings and wherever they are killed, user_version never claims a migration the
\* file does not have, and a process that was let start works on the current schema with
\* the rows it had.  Version 0 is excepted, whose first migration drops a table between
\* two commits, and so is a new file in the hands of two processes at once.
THEOREM VersionIsHonest ==
  ASSUME 0 \notin StartVersions, SharedFrom >= 1
  PROVE  Spec => []VersionHonest
<1>1. IInv => VersionHonest
  <2> SUFFICES ASSUME IInv PROVE VersionHonest
    OBVIOUS
  <2>1. start = -1 \/ start >= 1
    BY MigrationConstants DEF IInv, Setting, SCHEMA_VERSION
  <2>2. CASE start >= 1
    <3>1. VersionNeverAhead /\ db.rows = TRUE /\ \A p \in Procs : Knows(p)
      BY <2>2 DEF IInv, Upgraded
    <3> QED BY <3>1 DEF VersionHonest, ReadyMeansCurrent, Knows, Migrations
  <2>3. CASE start = -1
    <3>1. ~(Cardinality(openers) > 1) /\ ~(start >= 0)
      BY <2>3, MigrationConstants DEF IInv, Setting
    <3>2. FileCreated /\ \A p \in openers : Creates(p)
      BY <2>3, <3>1 DEF IInv, Created
    <3>3. db.version = SCHEMA_VERSION => \A m \in Migrations : Applied(m)
      <4> SUFFICES ASSUME db.version = SCHEMA_VERSION, NEW m \in Migrations PROVE Applied(m)
        OBVIOUS
      <4>1. Shape /\ m \in {1, 2, 3, 4, 5, 6}
        BY <3>2 DEF FileCreated, Migrations, SCHEMA_VERSION
      <4>2. FillColumns \subseteq OrderColumns /\ {"correlation_group", "post_only"} \subseteq OrderColumns
        BY DEF OrderColumns
      <4>3. /\ (m = 1 => Applied(m)) /\ (m = 2 => Applied(m)) /\ (m = 3 => Applied(m))
        BY <4>1, <4>2 DEF Shape, Applied
      <4>4. /\ (m = 4 => Applied(m)) /\ (m = 5 => Applied(m)) /\ (m = 6 => Applied(m))
        BY <4>1, <4>2 DEF Shape, Applied
      <4> QED BY <4>1, <4>3, <4>4
    <3>4. VersionNeverAhead
      <4> SUFFICES ASSUME NEW m \in Migrations, db.version >= m PROVE Applied(m)
        BY DEF VersionNeverAhead, Migrations
      <4>1. db.version \in {0, 1, 6} /\ m \in Nat /\ m >= 1
        BY <3>2 DEF FileCreated, Migrations, SCHEMA_VERSION
      <4>2. CASE db.version = 1
        <5>1. m = 1
          BY <4>1, <4>2
        <5> QED BY <3>2, <4>2, <5>1 DEF FileCreated, Applied
      <4>3. CASE db.version = 6
        BY <3>3, <4>3 DEF SCHEMA_VERSION
      <4>4. ~(0 >= m)
        BY <4>1
      <4>5. db.version = 1 \/ db.version = 6
        BY <4>1, <4>4
      <4> QED BY <4>2, <4>3, <4>5
    <3>5. ReadyMeansCurrent
      <4> SUFFICES ASSUME NEW p \in Procs, pc[p] = "ready" PROVE \A m \in Migrations : Applied(m)
        BY <3>1 DEF ReadyMeansCurrent, Migrations
      <4>1. p \in openers
        BY DEF IInv, Setting
      <4> QED BY <3>2, <3>3, <4>1 DEF Creates
    <3> QED BY <3>4, <3>5 DEF VersionHonest
  <2> QED BY <2>1, <2>2, <2>3
<1> QED BY <1>1, InvInit, InvNext, PTL DEF Spec

\* One process that opens a file of version 2 or later is never refused, however often
\* it is killed half way: each of those migrations commits with its version, so none is
\* tried on a file that has it.
THEOREM UpgradeIsNeverRefused == Spec => []NeverRefuses
<1>1. IInv => NeverRefuses
  BY DEF IInv, Setting, Alone, KeepsUp, NeverRefuses
<1> QED BY <1>1, InvInit, InvNext, PTL DEF Spec

=============================================================================
