----------------------------- MODULE Retention -----------------------------
(***************************************************************************)
(* Age-based pruning of the telemetry database beside its writers: the     *)
(* chunked deletes of prune(), the orphan sweep of correlations, the       *)
(* writers' transactions, and SQLite's one write lock between them.  The   *)
(* executor's scheduled prune and the operator's script may run together;  *)
(* any process may die between two statements.                             *)
(*                                                                         *)
(* A statement that finds the lock taken waits for busy_timeout: here it   *)
(* waits (the statement is not enabled) or raises (PruneBusy).             *)
(***************************************************************************)
EXTENDS Integers, Sequences, FiniteSets

CONSTANTS
  Tables,              \* the child tables of correlations
  Pruned,              \* _RETENTION's keys, in its order
  Days,                \* [Range(Pruned) -> days a row is kept]
  CHUNK,               \* _CHUNK_SIZE
  Corrs,               \* correlation ids
  Writers,             \* writer threads, one per process
  Scheduled, Script,   \* prune_periodically and scripts/prune_telemetry.py
  NoOne,               \* nobody holds the write lock
  MaxDelay,            \* days a row may wait in the queue before it is inserted
  MaxRows, MaxTime, MaxCrashes, MaxManual   \* bounds of the model

ASSUME RetentionConstants ==
  /\ Pruned \in Seq(Tables) /\ Days \in [Tables -> Nat]
  /\ CHUNK \in Nat \ {0} /\ MaxDelay \in Nat
  /\ MaxRows \in Nat /\ MaxTime \in Nat /\ MaxCrashes \in Nat /\ MaxManual \in Nat
  /\ NoOne \notin Writers \cup {Scheduled, Script}
  /\ Scheduled \notin Writers /\ Script \notin Writers     \* each has a connection of its own

Pruners == {Scheduled, Script}
PrunedTables == { Pruned[i] : i \in 1..Len(Pruned) }

VARIABLES
  now,          \* clock, in days
  disk,         \* the committed database: its child rows and its correlations
  view,         \* what the holder of the write lock sees; disk when nobody holds it
  lock,         \* who holds SQLite's write lock
  nextId,       \* next primary key; one counter stands for all tables
  half,         \* [Writers -> the row whose correlation is there, {} if none]
  prune,        \* [Pruners -> where its prune is]
  crashes, manual,
  fkFailed      \* history: a statement broke a foreign key

dbVars == <<disk, view, lock>>
vars == <<now, dbVars, nextId, half, prune, crashes, manual, fkFailed>>

Row == [id: 1..MaxRows, table: Tables, corr: Corrs, ts: 0..MaxTime]
Idle == [pc |-> "idle", i |-> 0, at |-> 0, count |-> 0]

Init ==
  /\ now = 0
  /\ disk = [rows |-> {}, corrs |-> {}]
  /\ view = disk /\ lock = NoOne
  /\ nextId = 1
  /\ half = [w \in Writers |-> {}]
  /\ prune = [p \in Pruners |-> Idle]
  /\ crashes = 0 /\ manual = 0
  /\ fkFailed = FALSE

-----------------------------------------------------------------------------
(* Transactions: the first statement that writes takes the lock.           *)

MayWrite(a) == lock \in {NoOne, a}
Execute(a, db) == MayWrite(a) /\ lock' = a /\ view' = db /\ UNCHANGED disk
Commit(a) == lock = a /\ lock' = NoOne /\ disk' = view /\ UNCHANGED view
\* The open transaction of a, if it has one, is undone.
Rollback(a) ==
  /\ lock' = IF lock = a THEN NoOne ELSE lock
  /\ view' = IF lock = a THEN disk ELSE view
  /\ UNCHANGED disk

-----------------------------------------------------------------------------
(* The writers.                                                            *)

NewRow(t, c, ts) == [id |-> nextId, table |-> t, corr |-> c, ts |-> ts]

\* The parent row in a transaction of its own.
InsertParentAlone(w, row) ==
  /\ half[w] = {} /\ nextId <= MaxRows /\ lock = NoOne
  /\ disk' = [disk EXCEPT !.corrs = @ \cup {row.corr}] /\ view' = disk'
  /\ half' = [half EXCEPT ![w] = {row}]
  /\ nextId' = nextId + 1
  /\ UNCHANGED <<now, lock, prune, crashes, manual, fkFailed>>

\* _insert: INSERT OR IGNORE INTO correlations, in the batch's transaction.
InsertParent(w, row) ==
  /\ half[w] = {} /\ nextId <= MaxRows
  /\ Execute(w, [view EXCEPT !.corrs = @ \cup {row.corr}])
  /\ half' = [half EXCEPT ![w] = {row}]
  /\ nextId' = nextId + 1
  /\ UNCHANGED <<now, prune, crashes, manual, fkFailed>>

\* _insert: the row itself; without its correlation it is refused and rolled back.
InsertChild(w, row) ==
  /\ row \in half[w] /\ MayWrite(w)
  /\ half' = [half EXCEPT ![w] = {}]
  /\ IF row.corr \in view.corrs
       THEN Execute(w, [view EXCEPT !.rows = @ \cup {row}]) /\ UNCHANGED fkFailed
       ELSE Rollback(w) /\ fkFailed' = TRUE
  /\ UNCHANGED <<now, nextId, prune, crashes, manual>>

CommitBatch(w) ==
  /\ half[w] = {} /\ Commit(w)
  /\ UNCHANGED <<now, nextId, half, prune, crashes, manual, fkFailed>>

\* The process dies, or an error rolls its batch back.
CrashWriter(w) ==
  /\ crashes < MaxCrashes /\ crashes' = crashes + 1
  /\ lock = w /\ Rollback(w)
  /\ half' = [half EXCEPT ![w] = {}]
  /\ UNCHANGED <<now, nextId, prune, manual, fkFailed>>

-----------------------------------------------------------------------------
(* The pruners.                                                            *)

\* prune_now: the connection is opened and the clock read, once for all tables.
StartPrune(p) ==
  /\ prune[p].pc = "idle"
  /\ IF p = Script THEN manual < MaxManual /\ manual' = manual + 1 ELSE UNCHANGED manual
  /\ prune' = [prune EXCEPT ![p] = [pc |-> "next", i |-> 1, at |-> now, count |-> 0]]
  /\ UNCHANGED <<now, dbVars, nextId, half, crashes, fkFailed>>

\* One period for every table, the market tape's.
CutoffOfTape(p, t) == prune[p].at - (CHOOSE d \in { Days[u] : u \in PrunedTables } :
                                       \A u \in PrunedTables : d <= Days[u])
Cutoff(p, t) == prune[p].at - Days[t]

Expired(p, t) == { r \in view.rows : r.table = t /\ r.ts < Cutoff(p, t) }

\* The sets a subquery ORDER BY ts LIMIT CHUNK may select.
OldestChunks(S) ==
  { C \in SUBSET S : /\ Cardinality(C) = (IF Cardinality(S) < CHUNK THEN Cardinality(S) ELSE CHUNK)
                     /\ \A r \in C, s \in S \ C : r.ts <= s.ts }

\* _delete_older_than, one chunk: the DELETE.
DeleteChunk(p) ==
  /\ prune[p].pc = "next" /\ prune[p].i <= Len(Pruned)
  /\ \E C \in OldestChunks(Expired(p, Pruned[prune[p].i])) :
       /\ Execute(p, [view EXCEPT !.rows = @ \ C])
       /\ prune' = [prune EXCEPT ![p].pc = "open", ![p].count = Cardinality(C)]
  /\ UNCHANGED <<now, nextId, half, crashes, manual, fkFailed>>

References(c) == { r \in view.rows : r.corr = c }
\* A child table forgotten in _CHILD_TABLES: the one that is never pruned.
ReferencedByPruned(c) == \E r \in References(c) : r.table \in PrunedTables
Referenced(c) == References(c) # {}

\* _delete_orphan_correlations, one chunk; a sweep that takes a correlation still
\* in use breaks the foreign key, and the prune ends with the error.
SweepChunk(p) ==
  /\ prune[p].pc = "next" /\ prune[p].i = Len(Pruned) + 1
  /\ LET orphans == { c \in view.corrs : ~Referenced(c) } IN
     \E C \in SUBSET orphans :
       /\ Cardinality(C) = (IF Cardinality(orphans) < CHUNK THEN Cardinality(orphans) ELSE CHUNK)
       /\ IF \A c \in C : References(c) = {}
            THEN /\ Execute(p, [view EXCEPT !.corrs = @ \ C])
                 /\ prune' = [prune EXCEPT ![p].pc = "open", ![p].count = Cardinality(C)]
                 /\ UNCHANGED fkFailed
            ELSE /\ MayWrite(p) /\ Rollback(p)
                 /\ prune' = [prune EXCEPT ![p] = Idle]
                 /\ fkFailed' = TRUE
  /\ UNCHANGED <<now, nextId, half, crashes, manual>>

\* conn.commit(): on to the next chunk, the next table, the sweep, or the end.
CommitChunk(p) ==
  /\ prune[p].pc = "open" /\ Commit(p)
  /\ prune' = [prune EXCEPT ![p] =
       IF @.count > 0 THEN [@ EXCEPT !.pc = "next", !.count = 0]
       ELSE IF @.i <= Len(Pruned) THEN [@ EXCEPT !.pc = "next", !.i = prune[p].i + 1]
       ELSE Idle]
  /\ UNCHANGED <<now, nextId, half, crashes, manual, fkFailed>>

\* The exception leaves prune_periodically's loop.
PruneEnds(p) == [Idle EXCEPT !.pc = "dead"]
\* prune_periodically logs the exception and sleeps until the next interval.
PruneFails(p) == Idle

\* busy_timeout runs out on somebody else's transaction.
PruneBusy(p) ==
  /\ prune[p].pc = "next" /\ ~MayWrite(p)
  /\ prune' = [prune EXCEPT ![p] = PruneFails(p)]
  /\ UNCHANGED <<now, dbVars, nextId, half, crashes, manual, fkFailed>>

\* The pruning process dies and is started again.
CrashPruner(p) ==
  /\ crashes < MaxCrashes /\ crashes' = crashes + 1
  /\ prune[p].pc \in {"next", "open"} /\ Rollback(p)
  /\ prune' = [prune EXCEPT ![p] = Idle]
  /\ UNCHANGED <<now, nextId, half, manual, fkFailed>>

Tick ==
  /\ now < MaxTime /\ now' = now + 1
  /\ UNCHANGED <<dbVars, nextId, half, prune, crashes, manual, fkFailed>>

-----------------------------------------------------------------------------
WriterStep(w) ==
  \/ \E row \in half[w] : InsertChild(w, row)
  \/ CommitBatch(w)

PruneStep(p) == DeleteChunk(p) \/ SweepChunk(p) \/ CommitChunk(p)

Next ==
  \/ \E w \in Writers :
       \/ \E t \in Tables, c \in Corrs, late \in 0..MaxDelay :
            late <= now /\ InsertParent(w, NewRow(t, c, now - late))
       \/ WriterStep(w) \/ CrashWriter(w)
  \/ \E p \in Pruners : StartPrune(p) \/ PruneStep(p) \/ PruneBusy(p) \/ CrashPruner(p)
  \/ Tick

Spec == Init /\ [][Next]_vars

\* A transaction or a prune that was begun goes on, and prune_periodically comes
\* back for ever, whatever became of the prune before; nobody need run the script.
FairSpec ==
  /\ Spec
  /\ \A w \in Writers : WF_vars(WriterStep(w))
  /\ \A p \in Pruners : WF_vars(PruneStep(p))
  /\ WF_vars(StartPrune(Scheduled))

-----------------------------------------------------------------------------
(* What retention promises.                                                *)

\* Types, and what the lock means: without a holder there is no uncommitted
\* change, and a prune that has run a DELETE holds it.
TypeOK ==
  /\ now \in 0..MaxTime /\ nextId \in 1..(MaxRows + 1)
  /\ disk.rows \subseteq Row /\ disk.corrs \subseteq Corrs
  /\ view.rows \subseteq Row /\ view.corrs \subseteq Corrs
  /\ lock \in {NoOne} \cup Writers \cup Pruners
  /\ lock = NoOne => view = disk
  /\ \A w \in Writers : half[w] \subseteq Row /\ (half[w] # {} => lock = w)
  /\ \A p \in Pruners : prune[p].pc = "open" <=> lock = p

\* Neither a writer's row nor a sweep ever meets a missing parent or a living
\* child, and no committed row is without its correlation: a correlation found or
\* created by a batch cannot be swept before the batch commits, and an order's is
\* never swept at all.
ReferencesHold ==
  /\ ~fkFailed
  /\ \A r \in disk.rows : r.corr \in disk.corrs

\* A committed deletion takes only rows whose own table's period is over, the
\* oldest of them first, and never one of a table that is kept for ever: neither
\* the prune's old clock reading nor a second prune beside it changes that.
OnlyExpiredRowsGo ==
  [][\A r \in disk.rows \ disk.rows' :
       /\ r.table \in PrunedTables /\ r.ts < now - Days[r.table]
       /\ \A s \in disk'.rows : s.table = r.table => r.ts <= s.ts]_vars

\* A row that has outlived its period and a correlation that nothing refers to
\* any more do not stay, whatever made a prune fail in between.
EverythingExpiredGoes ==
  /\ \A id \in 1..MaxRows :
       (\E r \in disk.rows : r.id = id /\ r.table \in PrunedTables /\ r.ts < now - Days[r.table])
         ~> (\A r \in disk.rows : r.id # id)
  /\ \A c \in Corrs :
       (c \in disk.corrs /\ \A r \in disk.rows : r.corr # c)
         ~> (c \notin disk.corrs \/ \E r \in disk.rows : r.corr = c)
=============================================================================
