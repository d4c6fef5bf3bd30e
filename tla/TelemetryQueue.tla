--------------------------- MODULE TelemetryQueue ---------------------------
(***************************************************************************)
(* TelemetryDB's write path (telemetry/db.py): the bounded queue, the      *)
(* threads that put rows on it, and the writer thread that batches them    *)
(* into SQLite.  The event loop puts the pending row of an order before it *)
(* is sent (non-blocking), its resolution after (blocking, with a          *)
(* timeout), and latency rows; pool threads put the rejected rows          *)
(* (blocking); the loop finally calls close().                             *)
(***************************************************************************)
EXTENDS Integers, Sequences, FiniteSets

CONSTANTS
  Fires,        \* orders the dispatcher sends: a pending and a resolution job each
  Rejects,      \* fires the executor refuses: one job each, from a pool thread
  Samples,      \* latency_events rows
  Bad,          \* orders whose row breaks a CHECK of schema.sql
  MaxQueue,     \* _MAX_QUEUE_SIZE
  MaxBatch,     \* _MAX_BATCH_SIZE
  MaxErrors,    \* bound: SQLITE_BUSY and other transient errors
  MayCrash,     \* whether the process may die
  MayClose      \* whether the owner may call close()

ASSUME QueueConstants ==
  /\ MaxQueue \in Nat \ {0} /\ MaxBatch \in Nat \ {0} /\ MaxErrors \in Nat
  /\ Fires \cap Rejects = {} /\ Samples \cap (Fires \cup Rejects) = {}
  /\ Bad \subseteq Fires \cup Rejects
  /\ MayCrash \in BOOLEAN /\ MayClose \in BOOLEAN

Pending(f) == [table |-> "orders_fired", id |-> f]
Resolution(f) == [table |-> "orders_fired__resolution", id |-> f]
Rejected(r) == [table |-> "orders_fired", id |-> r]
Latency(s) == [table |-> "latency_events", id |-> s]
Stop == [table |-> "stop", id |-> "stop"]      \* the sentinel None

Jobs == { Pending(f) : f \in Fires } \cup { Resolution(f) : f \in Fires }
          \cup { Rejected(r) : r \in Rejects } \cup { Latency(s) : s \in Samples }
Orders == Fires \cup Rejects

VARIABLES
  queue,     \* _queue
  dropped,   \* _dropped
  loop,      \* the event-loop thread: where it is, and the job it blocks on
  pool,      \* [Rejects -> where the pool thread that enqueues it is]
  fire,      \* [Fires -> where its dispatch() is]
  writer,    \* the writer thread: where it is in _run_writer
  batch,     \* the rows it has drained
  db, txn,   \* orders_fired as committed, and as the open transaction sees it
  errors,    \* transient errors so far
  fate,      \* history: what became of each job
  closing    \* history: the jobs on the queue when close() was called

vars == <<queue, dropped, loop, pool, fire, writer, batch, db, txn, errors, fate, closing>>

-----------------------------------------------------------------------------
(* Putting a row on the queue.                                             *)

\* One row too many.
FullOffByOne == Len(queue) > MaxQueue
Full == Len(queue) >= MaxQueue
Alive == loop.at # "dead"
Closed == loop.at \in {"closed", "dead"}

Put(j) ==
  /\ queue' = Append(queue, j)
  /\ fate' = [fate EXCEPT ![j] = "queued"]
  /\ UNCHANGED dropped

_record_drop(j) ==
  /\ dropped' = dropped + 1
  /\ fate' = [fate EXCEPT ![j] = "dropped"]
  /\ UNCHANGED queue

\* _enqueue for a droppable table, or with blocking=False: it never waits.
EnqueueNow(j) == IF Full THEN _record_drop(j) ELSE Put(j)

Init ==
  /\ queue = <<>> /\ dropped = 0 /\ errors = 0
  /\ loop = [at |-> "free", job |-> Stop]
  /\ pool = [r \in Rejects |-> "new"]
  /\ fire = [f \in Fires |-> "new"]
  /\ writer = [at |-> "get", next |-> 1] /\ batch = <<>>
  /\ db = [i \in Orders |-> "absent"] /\ txn = db
  /\ fate = [j \in Jobs |-> "unborn"]
  /\ closing = {}

writerVars == <<writer, batch, db, txn, errors>>

\* dispatch() up to the request: the pending row is offered without blocking.
BeginDispatch(f) ==
  /\ loop.at = "free" /\ fire[f] = "new"
  /\ fire' = [fire EXCEPT ![f] = "sent"]
  /\ EnqueueNow(Pending(f))
  /\ UNCHANGED <<loop, pool, writerVars, closing>>

\* The finally block of dispatch(): record_order_resolution() blocks the event
\* loop while the queue is full.
record_order_resolution(f) ==
  /\ loop.at = "free" /\ fire[f] = "sent"
  /\ fire' = [fire EXCEPT ![f] = "ended"]
  /\ IF Full
       THEN loop' = [at |-> "put", job |-> Resolution(f)] /\ UNCHANGED <<queue, dropped, fate>>
       ELSE Put(Resolution(f)) /\ UNCHANGED loop
  /\ UNCHANGED <<pool, writerVars, closing>>

\* Space arrives while the loop waits.
LoopPut ==
  /\ loop.at = "put" /\ ~Full
  /\ Put(loop.job)
  /\ loop' = [at |-> "free", job |-> Stop]
  /\ UNCHANGED <<pool, fire, writerVars, closing>>

\* _UNDROPPABLE_ENQUEUE_TIMEOUT_SECONDS pass and it is still full.
LoopTimeout ==
  /\ loop.at = "put" /\ Full
  /\ _record_drop(loop.job)
  /\ loop' = [at |-> "free", job |-> Stop]
  /\ UNCHANGED <<pool, fire, writerVars, closing>>

record_latency_event(s) ==
  /\ loop.at = "free" /\ fate[Latency(s)] = "unborn"
  /\ EnqueueNow(Latency(s))
  /\ UNCHANGED <<loop, pool, fire, writerVars, closing>>

\* _record_rejected hands the row to the default thread pool.
_record_rejected(r) ==
  /\ loop.at = "free" /\ pool[r] = "new"
  /\ pool' = [pool EXCEPT ![r] = "submitted"]
  /\ UNCHANGED <<queue, dropped, loop, fire, writerVars, fate, closing>>

\* The pool thread runs _enqueue: after close() it raises.
PoolEnqueue(r) ==
  /\ Alive /\ pool[r] = "submitted"
  /\ \/ /\ Closed
        /\ pool' = [pool EXCEPT ![r] = "done"]
        /\ fate' = [fate EXCEPT ![Rejected(r)] = "raised"]
        /\ UNCHANGED <<queue, dropped>>
     \/ /\ ~Closed /\ ~Full
        /\ pool' = [pool EXCEPT ![r] = "done"]
        /\ Put(Rejected(r))
     \/ /\ ~Closed /\ Full
        /\ pool' = [pool EXCEPT ![r] = "put"]
        /\ UNCHANGED <<queue, dropped, fate>>
  /\ UNCHANGED <<loop, fire, writerVars, closing>>

PoolPut(r) ==
  /\ Alive /\ pool[r] = "put" /\ ~Full
  /\ pool' = [pool EXCEPT ![r] = "done"]
  /\ Put(Rejected(r))
  /\ UNCHANGED <<loop, fire, writerVars, closing>>

PoolTimeout(r) ==
  /\ Alive /\ pool[r] = "put" /\ Full
  /\ pool' = [pool EXCEPT ![r] = "done"]
  /\ _record_drop(Rejected(r))
  /\ UNCHANGED <<loop, fire, writerVars, closing>>

-----------------------------------------------------------------------------
(* close(): put the sentinel, join the writer.                             *)

Members(s) == { s[k] : k \in DOMAIN s }

close ==
  /\ MayClose /\ loop.at = "free"
  /\ loop' = [at |-> "closing", job |-> Stop]
  /\ closing' = Members(queue) \cup Members(batch)
  /\ UNCHANGED <<queue, dropped, pool, fire, writerVars, fate>>

PutSentinel ==
  /\ loop.at = "closing" /\ ~Full
  /\ queue' = Append(queue, Stop)
  /\ loop' = [loop EXCEPT !.at = "joining"]
  /\ UNCHANGED <<dropped, pool, fire, writerVars, fate, closing>>

Join ==
  /\ loop.at = "joining" /\ writer.at \in {"stopped", "died"}
  /\ loop' = [loop EXCEPT !.at = "closed"]
  /\ UNCHANGED <<queue, dropped, pool, fire, writerVars, fate, closing>>

-----------------------------------------------------------------------------
(* The writer thread.                                                      *)

producers == <<loop, pool, fire, closing>>

\* _drain_batch: the blocking get.
DrainFirst ==
  /\ Alive /\ writer.at = "get" /\ queue # <<>>
  /\ queue' = Tail(queue)
  /\ \/ /\ Head(queue) = Stop
        /\ writer' = [writer EXCEPT !.at = "stopped"]
        /\ UNCHANGED batch
     \/ /\ Head(queue) # Stop
        /\ writer' = [writer EXCEPT !.at = "drain"]
        /\ batch' = <<Head(queue)>>
  /\ UNCHANGED <<dropped, producers, db, txn, errors, fate>>

\* get_nowait until the batch is full, the queue is empty or the sentinel is met.
DrainMore ==
  /\ Alive /\ writer.at = "drain" /\ Len(batch) < MaxBatch /\ queue # <<>>
  /\ queue' = Tail(queue)
  /\ \/ /\ Head(queue) = Stop
        /\ writer' = [writer EXCEPT !.at = "requeue"]
        /\ UNCHANGED batch
     \/ /\ Head(queue) # Stop
        /\ batch' = Append(batch, Head(queue))
        /\ UNCHANGED writer
  /\ UNCHANGED <<dropped, producers, db, txn, errors, fate>>

DrainEnd ==
  /\ Alive /\ writer.at = "drain" /\ (Len(batch) = MaxBatch \/ queue = <<>>)
  /\ writer' = [at |-> "batch", next |-> 1]
  /\ UNCHANGED <<queue, dropped, producers, batch, db, txn, errors, fate>>

\* The sentinel met inside a batch taken as the end: the batch is never written.
RequeueStops ==
  /\ Alive /\ writer.at = "requeue"
  /\ writer' = [writer EXCEPT !.at = "stopped"]
  /\ UNCHANGED <<queue, dropped, producers, batch, db, txn, errors, fate>>

\* The sentinel met inside a batch and not put back.
RequeueForgets ==
  /\ Alive /\ writer.at = "requeue"
  /\ writer' = [at |-> "batch", next |-> 1]
  /\ UNCHANGED <<queue, dropped, producers, batch, db, txn, errors, fate>>

\* put_nowait(None): another thread may have taken the place the sentinel left,
\* and then queue.Full ends the thread and the drained rows with it.
Requeue ==
  /\ Alive /\ writer.at = "requeue"
  /\ \/ /\ ~Full
        /\ queue' = Append(queue, Stop)
        /\ writer' = [at |-> "batch", next |-> 1]
     \/ /\ Full
        /\ writer' = [writer EXCEPT !.at = "died"]
        /\ UNCHANGED queue
  /\ UNCHANGED <<dropped, producers, batch, db, txn, errors, fate>>

\* _insert raises: the row breaks a CHECK, or a plain INSERT meets its key.
Refused(j, t) ==
  /\ j.id \in Orders
  /\ \/ j.id \in Bad
     \/ j.table = "orders_fired" /\ t[j.id] # "absent"

\* A bare UPDATE in place of the upsert.
InsertUpdates(j, t) ==
  CASE j.id \notin Orders -> t
    [] j.id \in Orders /\ j.table = "orders_fired" ->
         [t EXCEPT ![j.id] = IF j.id \in Rejects THEN "rejected" ELSE "pending"]
    [] OTHER -> [t EXCEPT ![j.id] = IF @ = "absent" THEN "absent" ELSE "resolved"]

\* The row before the request written with a final status.
InsertOptimistic(j, t) ==
  IF j.id \in Orders
    THEN [t EXCEPT ![j.id] = IF j.id \in Rejects THEN "rejected" ELSE "resolved"] ELSE t

\* _insert and _upsert_order: orders_fired as the transaction then sees it.
_insert(j, t) ==
  CASE j.id \notin Orders -> t
    [] j.id \in Orders /\ j.table = "orders_fired" ->
         [t EXCEPT ![j.id] = IF j.id \in Rejects THEN "rejected" ELSE "pending"]
    [] OTHER -> [t EXCEPT ![j.id] = "resolved"]

MoreRows == writer.next <= Len(batch)
Row == batch[writer.next]

\* _write_batch: every row in one transaction.
InsertInBatch ==
  /\ Alive /\ writer.at = "batch" /\ MoreRows
  /\ ~Refused(Row, txn)
  /\ txn' = _insert(Row, txn)
  /\ writer' = [writer EXCEPT !.next = @ + 1]
  /\ UNCHANGED <<queue, dropped, producers, batch, db, errors, fate>>

CommitBatch ==
  /\ Alive /\ writer.at = "batch" /\ ~MoreRows
  /\ db' = txn
  /\ fate' = [j \in Jobs |-> IF j \in Members(batch) THEN "written" ELSE fate[j]]
  /\ writer' = [at |-> "get", next |-> 1] /\ batch' = <<>>
  /\ UNCHANGED <<queue, dropped, producers, txn, errors>>

\* The failed batch given up instead of retried row by row.
BatchFailsForGood ==
  /\ Alive /\ writer.at = "batch"
  /\ \/ MoreRows /\ Refused(Row, txn) /\ UNCHANGED errors
     \/ errors < MaxErrors /\ errors' = errors + 1
  /\ txn' = db
  /\ writer' = [at |-> "get", next |-> 1] /\ batch' = <<>>
  /\ UNCHANGED <<queue, dropped, producers, db, fate>>

\* No rollback before the rows are retried.
BatchFailsNoRollback ==
  /\ Alive /\ writer.at = "batch"
  /\ \/ MoreRows /\ Refused(Row, txn) /\ UNCHANGED errors
     \/ errors < MaxErrors /\ errors' = errors + 1
  /\ writer' = [at |-> "rows", next |-> 1]
  /\ UNCHANGED <<queue, dropped, producers, batch, db, txn, fate>>

\* A row is refused, or a statement or the commit fails: rollback, then row by row.
BatchFails ==
  /\ Alive /\ writer.at = "batch"
  /\ \/ MoreRows /\ Refused(Row, txn) /\ UNCHANGED errors
     \/ errors < MaxErrors /\ errors' = errors + 1
  /\ txn' = db
  /\ writer' = [at |-> "rows", next |-> 1]
  /\ UNCHANGED <<queue, dropped, producers, batch, db, fate>>

\* _write_row, one transaction per row.
_write_row ==
  /\ Alive /\ writer.at = "rows" /\ MoreRows
  /\ ~Refused(Row, txn)
  /\ txn' = _insert(Row, txn) /\ db' = txn'
  /\ fate' = [fate EXCEPT ![Row] = "written"]
  /\ writer' = [writer EXCEPT !.next = @ + 1]
  /\ UNCHANGED <<queue, dropped, producers, batch, errors>>

WriteRowFails ==
  /\ Alive /\ writer.at = "rows" /\ MoreRows
  /\ \/ Refused(Row, txn) /\ fate' = [fate EXCEPT ![Row] = "refused"] /\ UNCHANGED errors
     \/ /\ errors < MaxErrors /\ errors' = errors + 1
        /\ fate' = [fate EXCEPT ![Row] = "failed"]
  /\ txn' = db
  /\ writer' = [writer EXCEPT !.next = @ + 1]
  /\ UNCHANGED <<queue, dropped, producers, batch, db>>

RowsDone ==
  /\ Alive /\ writer.at = "rows" /\ ~MoreRows
  /\ writer' = [at |-> "get", next |-> 1] /\ batch' = <<>>
  /\ UNCHANGED <<queue, dropped, producers, db, txn, errors, fate>>

\* The process is killed: queue, batch and open transaction are gone with it.
Crash ==
  /\ MayCrash /\ Alive /\ loop.at # "closed"
  /\ loop' = [at |-> "dead", job |-> Stop]
  /\ queue' = <<>> /\ batch' = <<>> /\ txn' = db
  /\ fate' = [j \in Jobs |-> IF fate[j] = "queued" THEN "lost" ELSE fate[j]]
  /\ UNCHANGED <<dropped, pool, fire, writer, db, errors, closing>>

Writer == DrainFirst \/ DrainMore \/ DrainEnd \/ Requeue \/ InsertInBatch \/ CommitBatch
            \/ BatchFails \/ _write_row \/ WriteRowFails \/ RowsDone
Loop == LoopPut \/ LoopTimeout \/ close \/ PutSentinel \/ Join
          \/ (\E f \in Fires : BeginDispatch(f) \/ record_order_resolution(f))
          \/ (\E s \in Samples : record_latency_event(s))
          \/ (\E r \in Rejects : _record_rejected(r))
Pool(r) == PoolEnqueue(r) \/ PoolPut(r) \/ PoolTimeout(r)

Next == Writer \/ Loop \/ (\E r \in Rejects : Pool(r)) \/ Crash

Spec == Init /\ [][Next]_vars

\* The writer and the pool threads are scheduled, and a wait that can end ends.
FairSpec == Spec /\ WF_vars(Writer) /\ WF_vars(LoopPut \/ LoopTimeout)
                 /\ WF_vars(PutSentinel \/ Join) /\ \A r \in Rejects : WF_vars(Pool(r))

-----------------------------------------------------------------------------
(* What the write path promises.                                           *)

Fates == {"unborn", "queued", "written", "refused", "failed", "dropped", "raised", "lost"}

\* The state has its type; the queue never exceeds its bound, nor a batch its own.
TypeOK ==
  /\ queue \in Seq(Jobs \cup {Stop}) /\ Len(queue) <= MaxQueue
  /\ batch \in Seq(Jobs) /\ Len(batch) <= MaxBatch
  /\ dropped \in Nat /\ errors \in 0..MaxErrors
  /\ loop \in [at: {"free", "put", "closing", "joining", "closed", "dead"}, job: Jobs \cup {Stop}]
  /\ pool \in [Rejects -> {"new", "submitted", "put", "done"}]
  /\ fire \in [Fires -> {"new", "sent", "ended"}]
  /\ writer \in [at: {"get", "drain", "requeue", "batch", "rows", "stopped", "died"}, next: Nat \ {0}]
  /\ db \in [Orders -> {"absent", "pending", "resolved", "rejected"}]
  /\ txn \in [Orders -> {"absent", "pending", "resolved", "rejected"}]
  /\ fate \in [Jobs -> Fates]
  /\ closing \subseteq Jobs

\* Where a row the queue accepted can still be found: on the queue, or among
\* the drained rows the writer has not decided.
InHand(j) ==
  \/ \E k \in DOMAIN queue : queue[k] = j
  \/ \E k \in DOMAIN batch : batch[k] = j /\ (writer.at = "rows" => k >= writer.next)

\* The writer will come to it.
OnItsWay(j) == writer.at \notin {"stopped", "died"} /\ InHand(j)

\* A pool thread put it on the queue after the sentinel, and the writer has stopped.
Stranded(j) ==
  /\ writer.at = "stopped" /\ j \notin closing
  /\ \E k \in DOMAIN queue : queue[k] = j
  /\ \E r \in Rejects : j = Rejected(r)

\* Where an accepted row can be lost undecided and unlogged, and nowhere else: in a
\* crash, which takes no more than the queue and one batch; with a writer that ended
\* at a queue too full for its sentinel; and behind the sentinel of a writer that
\* stopped, where only rows of pool threads that were not there when close() was
\* called can be.  Not while a batch is cut off at its limit, at an empty queue or at
\* the sentinel, and not when a batch falls back to single rows.
NoSilentLoss ==
  /\ \A j \in Jobs : fate[j] = "queued" => OnItsWay(j) \/ Stranded(j) \/ writer.at = "died"
  /\ Cardinality({ j \in Jobs : fate[j] = "lost" }) <= MaxQueue + MaxBatch

\* A resolution that SQLite committed leaves a resolved row, also when the full
\* queue had dropped the pending row it supersedes, or the database refused it.
ResolutionStands == \A f \in Fires : fate[Resolution(f)] = "written" => db[f] = "resolved"

\* The fallback to single rows costs exactly the malformed rows: no good row is
\* refused, in particular not for a key its own rolled-back insert left behind.
OnlyBadRowsRefused == \A j \in Jobs : fate[j] = "refused" => j.id \in Bad

\* Once close() has returned from a writer that stopped at the sentinel, each
\* row that was on the queue or in its hands when close() was called has been
\* decided, also when the sentinel was met inside a batch and put back.
CloseFlushes ==
  (loop.at = "closed" /\ writer.at = "stopped")
    => \A j \in closing : fate[j] \in {"written", "refused", "failed"}

\* close() returns, unless the process dies: the sentinel finds a place and the
\* writer meets it, also when it met it inside a batch and had to put it back.
CloseReturns == (loop.at = "closing") ~> (loop.at \in {"closed", "dead"})

\* "close() never discards work that was already enqueued", as _drain_batch says
\* of the sentinel it puts back: CloseFlushes however the writer ended.
CloseDiscardsNothing ==
  loop.at = "closed" => \A j \in closing : fate[j] \in {"written", "refused", "failed"}

\* The table keeps the promises of AuditTrail for the orders that were sent.
Trail == INSTANCE AuditTrail WITH
  Ids <- Fires,
  stage <- fire,
  trail <- [f \in Fires |-> db[f]]

\* The queue, the threads and the writer implement AuditTrail: whatever is dropped,
\* refused or lost, what the table says of an order is true and never goes back.
TrailSpec == Trail!Spec

=============================================================================
