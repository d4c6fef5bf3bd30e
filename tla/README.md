# A formal model of the order executor

This directory is a TLA+ development beside `kalshi_bot`, the execution half of a
prediction-market bot: a poller decides to fire, a second process (the executor) turns the
decision into an order, and a telemetry database records what was done. The modules model the
parts in which an interleaving, a crash or a boundary decides whether money is put at risk or
the record of it is lost. TLC checks them on small instances, TLAPS proves the results listed
below for every value of the constants. Line numbers refer to `src/src/kalshi_bot/` unless a
path says otherwise.

## The system

| Component | State it keeps | Operations | Talks to |
|---|---|---|---|
| Poller client (`ipc/poller_client.py`) | bounded queue of wakes, one connection | `send_wake`, connect/write/reconnect loop | executor, over a Unix socket |
| Executor server (`ipc/executor_server.py`) | one handler per connection, one task per fire | read a frame, ack it, spawn `_handle_fire` | poller; kill switch, gate, dispatcher |
| Kill switch (`runtime/killswitch.py`) | a file, and a cached answer with its age | `engage`, `release`, `is_engaged` | operator's process, executor |
| Risk gate (`execution/risk.py`) | deques of attempts and fills, cooldowns, reconciled positions, a dispatch counter | `check`, `record_attempt`, `record_fill`, `begin/end_dispatch`, `reconcile_open_positions`, `warm_start` | executor, account monitor, `orders_fired` |
| Dispatcher (`execution/order_dispatcher.py`) | none of its own | `dispatch` (pending row, request, resolution row), `cancel`, `decrease` | REST client, telemetry |
| REST client and retry policy (`transport/rest_client.py`, `retry.py`) | session, `RequestTimings` per post | `_request`, `with_retries` | rate limiter, exchange |
| Rate limiter (`transport/rate_limit.py`) | tokens, time of the last refill, a FIFO lock | `acquire` | every request |
| Telemetry (`telemetry/db.py`) | bounded queue, drop counter, writer thread | `record_*`, `close`, batch write with row-by-row fallback | every component, SQLite |
| Migrations (`telemetry/migrations.py`, `schema.sql`) | `user_version`, the tables | `apply_migrations`, `stamp_current_version` | both processes open the same file |
| Sizing and price grid (`execution/position_sizing.py`, `executor_server.py:74`) | none | `size_position`, `_snap_to_grid`, the clamp to the resting size | executor |
| Fees (`crossvenue/fees.py`) | none | fee models from three venues' payloads, fees of a fill | matcher's consumers |
| Matching (`crossvenue/matching.py`, `normalize.py`, `text.py`) | none | token weights, index, candidates, settlement terms, score, settlement gate | two venues' listings |
| Retention (`telemetry/retention.py`) | none of its own | `prune` (chunked deletes, orphan sweep), `prune_periodically` | the same database file as the writers and the operator's script |
| Configuration (`config.py`) | none | `load_config`, host and credentials, the two environment guards | every entry point |
| Single-instance lock, WebSocket client and others | see `PROJECT.json` | | not modelled |

What is hard about it: the executor suspends many dispatches at once and each was admitted
against a position that contains none of the others; the position poll is issued, answered and
landed at three different times; orders time out at the client while the exchange executes them;
the audit rows travel through a queue that may be full, to a thread that may fail, in a process
that may die; and the two processes open, create and migrate one database file without a lock
between them. `PROJECT.json` lists each of these hazards at its line with the properties that
would catch it going wrong.

What makes each component correct:

- **Risk gate**: the caps and the cooldown hold of the orders that were *sent*, in every rolling
  window and across restarts, not only of what the process remembers; the position it checks
  understates the account by no more than what neither an answer nor a snapshot told it.
- **Telemetry**: an accepted row is decided, unless a crash takes it, the writer died at its sentinel,
  or it came behind the sentinel of one that stopped; a committed resolution is never lost or undone,
  one malformed row costs only itself, `close()` flushes and returns.
- **Order path**: one order per fire whatever the network does, nothing leaves that was not
  counted, what a row says of its order is true (except "error" after a request went unanswered), the
  switch is honoured within its time-to-live, what `cancel()` and `decrease()` report is so, every task
  ends.
- **Retention**: nothing goes before its time, the orders never, no reference is broken by a sweep
  beside a writer, and a failed prune is made good by a later one.
- **Configuration**: orders leave the host that the demo variable names only when one variable names
  production and another says yes; what host the demo variable names is checked by nothing. The gate is
  off only where its variable is set to something that is no plain yes: one setting takes the caps away.
- **Wake channel**: at most one fire per wake, in order within a connection, real wakes not stuck
  behind shadow ones.
- **Migrations**: the version never claims more than the schema has, and a process that starts
  works on the current schema with the old rows.
- **Rate limiter**: no interval is granted more than burst plus earnings; every waiter is served
  or cancelled.
- **Sizing, grid, fees**: stakes stay under both ceilings, prices on the market's grid, fees within
  a cent of the schedule, whatever binary fractions do at a boundary.
- **Matching**: two markets called identical pay the same whatever happens, if four things are so
  that the matcher takes for granted (a possible draw is worded, a shared source token is a shared
  authority, a question is about Kalshi's contestant, a title stands for yes); a market worded like
  another is found among the candidates.

## Modules

`AuditTrail` is the abstract specification of `orders_fired`: for each order, where its dispatch
is (new, sent, ended) and what the table says (absent, pending, resolved). A row may appear only
for a sent order, a final status only for an ended dispatch, and none goes back. `TelemetryQueue`
is shown to implement it. A warm start rests on that contract; `RiskGate`'s `CommitRow` states what it
takes from it, and that statement is read against `AuditTrail`, not checked.

**`RiskGate`** (`risk.py`; the stretch of `_handle_fire` from `check` to the suspended dispatch).
Orders are numbered as they are admitted; `orders`, `phase`, `fill` and `row` hold what was asked
for, what the executor knows, what the exchange executed and what the database says. The deques
`_attempts` and `_fills` are sets of order numbers and of records: with a clock that never steps
back they are sorted by time stamp, so popping old heads and dropping old members are the same.
`check`, `record_attempt` and `begin_dispatch` are one step, because the code has no `await`
between them; the three `_now_ms()` readings of that stretch are one tick. The event baseline of
`_reconciled_position_by_event` is the sum of the ticker baselines, which is how it is computed;
the group baseline is kept apart, because it depends on the groups known when the poll lands.
Prices and counts are small naturals. `TimeInForce` is the configured one: under `fill_or_kill` and
`immediate_or_cancel` an order is executed once and answered when the exchange is through with it
(`Takes`, `Respond`); under `good_till_canceled` it stays in `live`, is answered at any point and goes
on executing after its answer, which `record_fill` never hears of. `fill` is what was executed, `told`
what the response said: an absent or unparseable `fill_count` is recorded as 0
(executor_server.py:440-444). The exchange (`Execute`, `Settle`), the account poll
(`PollIssue`, `PollRead`, `PollLand`, `PollFail`) and the clock are the environment; `Restart`
loses queue and dispatches and runs `warm_start` on the committed rows.

**`TelemetryQueue`** (`db.py`). The event loop, the pool threads that write rejected rows and the
writer thread are separate processes; each get, put, insert and commit is a step. The droppable
tables stand for one another (`latency_events`). `Bad` rows break a CHECK. A crash takes queue, batch
and open transaction with it (fate "lost"). `closing` and `fate` are history variables.

**`OrderPath`** (`_handle_fire`, `dispatch`, `post`, `with_retries`, `killswitch.py`). A fire's
task runs from await to await. The gate's verdict is a free choice here, the audit rows arrive at
once (`TelemetryQueue` models their journey), and the rate limiter only delays (`TokenBucket`).
`kind` is what a wake is: a real fire that may go out, one without a tradeable price, one whose
book is empty, one that `assert_orders_permitted` bars, or a shadow fire; or what a call of
`cancel()` or `decrease()` is (`reduce_to`, `reduce_by`, or misused and refused). Both share the
request, retry and back-off steps; a fire ends in a row and a released slot, a change in what its
caller gets (`returned`). The exchange accepts one order per `client_order_id` and keeps one resting
order of `RESTING` contracts, which changes shrink and others fill; a request that timed out or whose
connection broke may still be received. An order is executed at once or not (`filled`, `nofill`), and
its answer may lack a readable `fill_count` (`mute`); under `good_till_canceled` it may execute later
(`Trade`). `StatusOf` is `_resolved_status` with its three outcomes of a successful answer and the
`error` of a failed one. Failed answers are `unavailable` (5xx, retryable), `refused` (4xx, also the
duplicate of a known `client_order_id`) or `gone` (the 404 of an order that no longer rests).

**`Retention`** (`retention.py`; `_insert` and `_write_batch` of `db.py`). The committed database
(`disk`), what the holder of SQLite's write lock sees (`view`), and the lock. A writer's batch
inserts a correlation and its row in two statements of one transaction; a prune runs one `DELETE`
and one commit per chunk, over the tables in `_RETENTION`'s order and then the orphans. Two prunes
may run beside each other (the executor's and the script's), rows arrive up to `MaxDelay` late, a
statement may find the lock taken until `busy_timeout`, and any process may die with its
transaction. Deferred to SQLite: a transaction that reads first and fails to upgrade its lock.

**`WakeChannel`** (`poller_client.py`, `_handle_connection`). The queue, each socket with the
frames it holds, and one handler per connection; connections break at either end, the executor
may crash and come back. An undecodable frame (`Garbled`) is answered (`HandlerReject`) and skipped;
sending either answer may fail (`HandlerAckFails`) and ends the connection.

**`SchemaMigration`** (`migrations.py`, `TelemetryDB.initialize`, `schema.sql`). The file is a
record of what the migrations change. A step is one SQLite transaction: `executescript()` commits
the open one and runs in autocommit, so migrations 1 and 2 take a step per statement and bump the
version afterwards; the others are one step with their version. Processes may crash anywhere.
`start` is the version the file had (-1: no file) and `openers` the processes that open it; two
open it together from version `SharedFrom` on.

**`TokenBucket`** (`rate_limit.py`). One bucket with its FIFO lock; the holder sleeps inside it.
The unit of time is one tick, of tokens one token, so that the deficit's sleep is a rounded-up
division. Waiters may be cancelled, also while they sleep.

**`Matching`**, **`Candidates`**, **`Fees`**, **`Sizing`**, **`Configuration`** (definitions only). Pure
calculations as operators over small records and scaled integers. Wording is reduced to what the matcher
takes from it (overlap, qualifiers, mention of a sport that draws, comparison, number, units, labels with
the title that may take their place, the tokens of the sources). Which contests can really end in a draw
is a constant of its own (`Drawable`), independent of anyone's wording, and who settles a market
(`about.authority`) is not the tokens that name sources. In `Candidates` a market is the set of its
tokens, logarithms are a constant (in the runs 1000 times the natural one, rounded), and a score is a
fraction; in `Configuration` the process environment is a function from the variables that are set to
their texts, hosts and credentials being any text (two spellings of "true" and one of "yes" stand for all
with capitals or spaces). Where the exact result lies on a rounding boundary the code's binary fractions
decide the side, and the operator yields both outcomes. Each module ends with its reference: what the two
contracts pay for every value of the fact (`PaysAlike`), what the schedule owes (`Owed`), which prices a
market accepts (`OnGrid`), by which tokens a twin can be found (`Finders`).

**`Calculations`** makes them one specification: its constants are the inputs, a behaviour takes one
and computes its answer in one step, and each property compares the answer with a reference. Its named
assumptions say what the inputs are (see the proofs below); `MCOperators` only draws bounded inputs
that satisfy them.

Each `MC*` module extends a component and gives the model values and definitions that its `.cfg`
files use. Definitions that precede a mapped one and carry a comment such as "One row too many"
are its mutated forms, by which each property is shown to depend on the code.

## Runs

| Run | Instance | What it shows |
|---|---|---|
| `gate_attempts` | 2 strikes of one event, 3 orders, 2 in flight, 3 wakes (one without a group, one for an unknown shard), hour = 1, day = 2, cooldown = 1 tick, 4 ticks, 1 failure, 1 restart, no poll, `fill_or_kill` | the hourly, daily and notional caps, the cooldown and the concurrency cap hold of what was sent; how far beyond a position cap the account can get |
| `gate_ledger` | wakes for both sides of one of two strikes, 2 orders, 2 polls, 1 failure, no restart, 1 settlement, day = 1, `good_till_canceled` | reported fills are layered over the right snapshot, positions understated by no more than what was not told; exact when quiet |
| `queue` | 1 order, 2 refusals, one of them malformed, 1 latency row, queue and batch of 2, 1 SQLite error, crash, close | where a row can be lost, the fallback, `AuditTrail`, `close()` |
| `queue_sentinel` (violation) | 1 order, 2 refusals, queue of 2 | the writer can die with its batch while `close()` returns |
| `path` | 2 tasks: fires of every pair of kinds, or changes of every pair of kinds on an order of 2 contracts (target 1, step 1); 2 requests each (one retry; the code allows two), ttl = 1, 2 ticks, 3 operator actions; all under `fill_or_kill`, and a real fire beside every other kind of fire under `good_till_canceled`; 531,414 states | one order per fire, counted orders only, truthful rows, the switch honoured in time, changes as reported, no retry after a timeout, every task ends |
| `wake` | 5 wakes (2 shadow, 1 garbled), queue of 2, 3 connections, 1 crash | at most once, in order, shadow wakes yield, every wake settles |
| `migrate` | one process on no file or on versions 1 to 6, two on versions 1 to 6, 3 crashes, 4 openings | a version that never claims too much, who starts has the whole schema and the old rows, no refusal alone from version 2 on |
| `migrate_interrupted` (violation) | one process, version 0, 1 crash | migrations 1 and 2 can be left half applied |
| `bucket` | rate 2, burst 7, cost 3, 5 requests, 2 of them cancellable | window budget, progress |
| `operators` | all inputs below, in 758,795 states: levels with every comparison, thresholds of 1 to 3 ticks, units stated or not; contests on three games of two days that can be drawn or not, with and without starts, sources (authorities' names and a word that any may use) and mention of draws, titles on either side; fills of one and two levels; stakes at the ends of every range; 882 prices on three grids; corpora of two and three markets over four tokens, 2 seeds and 1 candidate each; environments with every combination of switches, with hosts and any of the credentials set, among them a demo host that is production's, blank credentials and one environment's in another's variable | the pure calculations agree with their references |
| `match_units` (violation) | the same inputs | levels with unread units can be identical |
| `retention` | a table kept for ever, one kept a day, one kept less; 2 rows, 1 correlation, chunks of 1, one writer, scheduled and manual prune, rows up to 1 day late, 2 days, 1 crash | references hold, only expired rows go, oldest first, and in the end all of them and every orphan |

Why the bounds suffice: windows are expressed in ticks, so a day of two ticks already has orders inside,
on and beyond its edge; caps of two and three are reached and exceeded by three orders; two polls give one
that replaces another; a queue and a batch of two make it possible for a queue to be full, a batch to be
cut at its limit, at the empty queue and at the sentinel. Rate, cost and burst have no common factor, so
that sleeps round. One retry is enough for a first request that was received and not answered to meet a
second. A resting order of two contracts tells one step from two and both from a target; the theorem about
`ChangesHold` is for every size. Two rows of one correlation and chunks of one give a sweep that runs
between two chunks of another prune and inside a writer's batch, and a correlation that loses its last row
while another arrives. `gate_attempts` has no position poll: what a poll may do to the compared position
is `gate_ledger`'s question, and `PositionNotUnderstated` there is what `OvershootBounded` rests on.
`gate_ledger` in turn has no restart (one makes it twelve times as large) and `gate_attempts` has no
orders that rest; the theorems about these properties are for every `TimeInForce` and number of restarts.
With one candidate per market and two seeds a twin competes for its place on equal and on unequal terms.
Each property is violated in its run by a mutated definition listed under `mutants`.

Deadlock is not checked: in every instance the fires, orders, wakes or openings run out, and a
state in which all is done has no successor. That everything ends in such a state is what the
liveness properties say.

### Fairness

- `TelemetryQueue`: the writer and each pool thread are scheduled by the operating system, and a
  put with a timeout ends by space or by the timeout. Nothing says that dispatches begin, or that
  anyone calls `close()`.
- `OrderPath`: weak fairness of each task. A waiting request is enabled to time out, which
  `ORDER_TIMEOUT` guarantees, so the exchange needs no fairness.
- `WakeChannel`: both loops run, a dead connection is noticed, a supervisor restarts a crashed
  executor. `EveryWakeSettles` assumes that connections have not run out, which is a bound of the
  model; connections may break for ever.
- `Retention`: a transaction and a prune that were begun go on, and `prune_periodically` starts again
  for ever, which its loop and its `except Exception` guarantee. Nobody need run the script. Writers
  are not required to write, and their rows are finitely many; a writer that never released the lock
  would keep every prune busy.
- `TokenBucket`: the holder wakes after its sleep (late is allowed), the lock is handed on, time
  passes while somebody sleeps.

### Where code and documents disagree

Three disagreements are runs with findings: `queue_sentinel` (`db.py:556`), `migrate_interrupted`
(`migrations.py:258`) and `match_units` (`matching.py:651`). The following were met while modelling; the
properties are stated so that they say what does hold, and the hazards' notes say where:

- risk.py:183-186 says of the per-event position cap that it "actually bounds the loss"; orders in
  flight are not part of the compared position, nor is what no answer told (a failed dispatch, a
  missing `fill_count`). `OvershootBounded` gives the real bound.
- executor_server.py:440-444 records a fill that cannot be read as none at all: until the next poll the
  position caps take the order for one that was not executed. It is in the slack of
  `PositionNotUnderstated` and `OvershootBounded`.
- `docs/configuration.md:112-115` warns that under `good_till_canceled` nothing tracks a resting order.
  For the caps that means that the whole unreported remainder of every such order is beyond what a
  position cap bounds, which is the slack `UntoldOn` of `OvershootBounded`.
- A row "error" need not mean that there is no order (order_dispatcher.py:306 and 362: the row says what
  the last request came to). A request that timed out may have opened one; and so may one that
  ended in a 5xx or a broken connection, whose retry is then refused as a duplicate.
  `RowsTruthful` says that it takes an unanswered request.
- risk.py:15-17 "State survives restart": the pending row is only queued before the request, and a
  crash before its commit erases the attempt. `CooldownKept` excepts exactly those orders.
- risk.py:177-178 "same live reconciliation as the per-ticker cap": a position on a ticker whose
  group is not known when the poll lands is missing from its group's baseline.
- db.py:86-87 "a crash loses at most this many rows": the queue behind the batch is lost too.
  `NoSilentLoss` bounds what is lost by both together.
- db.py:101-105, of undroppable rows: one that a pool thread puts on the queue after the writer took the
  sentinel is never written, and nothing is logged (`Stranded` in `NoSilentLoss`).
- db.py:101-102, 328-331: with a queue that stays full, the pending row is dropped at once and the
  resolution after two seconds; the order then has no row.
- `README.md:56`, `docs/GUIDE.md:357` "Every refusal writes a row": a fire refused for its wire
  price, and one refused by `assert_orders_permitted`, do not.
- rest_client.py:193-195 says of a retried POST that it "demonstrably did not take effect" or that
  its `client_order_id` "makes the duplicate harmless": `decrease(reduce_by=...)` has no such key, and
  its order shrinks once per request that arrived. `ShrinksOnce` bounds it by the requests sent.
- config.py:333 "Turning every cap off now takes writing "false" on purpose": any value but `1`,
  `true` and `yes` turns the gate off, `on` and an empty one included. `ProductionIsDeliberate` says
  no more than that an unset variable does not.
- config.py:207-209, of the guard that no single edit or typo sends orders to production: the hosts are
  read unchecked (config.py:314-317), so a demo variable that names production's host passes both guards
  with the environment left at demo. `ProductionIsDeliberate` speaks of the variable, not of the host.
- config.py:185-199 choose the key's identifier and its file one by one: an environment with only one of
  the two given signs with the other pair's half. `ProductionIsDeliberate` excepts such halves.
- matching.py:85-99 says that whether a contest can be drawn is a fact about its sport. The gate knows
  it from wording only (matching.py:614-620): a draw that nobody mentions does not block.
- matching.py:736-764: sources agree when they share a token of more than two letters outside a small list,
  which a word such as "sports" does for two authorities.
- text.py:577-578 "Falls back to unweighted Jaccard when every shared token carries zero weight": the
  code does so only when every token of the union does; otherwise such a pair scores 0.
- killswitch.py:36-37: the delay bound holds of the decision (`HaltHonored`); the request may wait
  for the rate limiter and for back-offs afterwards.
- `README.md:61-62` "a stale fire is worse than a late one": a full queue keeps its oldest wakes.
- migrations.py:220 "Safe to call on every open, including on a database schema.sql has just
  created": not while another process is between creating the tables and stamping them.
- migrations.py:203 "the count of entries already applied": a process that read `user_version`
  before another finished migrating writes a smaller number again.
- matching.py:20-22 also lists the scheduled event time among the checks that block when they
  cannot be performed: with one start missing, agreement of the day of expiry is enough.
  `IdenticalPaysAlike` is stated for markets that both state what the gate compares.
- matching.py:465 takes "yes" for Kalshi's YES whenever the outcomes are yes and no. Whether the question
  asks about the contestant Kalshi names is left to the weight of its words, which have no order:
  "Will B beat A?" scores as "Will A beat B?" does. `IdenticalPaysAlike` takes it for granted
  (`SameSubject`).
- normalize.py:311-312 says that tagging the units makes the gate refuse a line against a
  moneyline; where no number is read from the line's question, neither side has a threshold and
  the units are not looked at.
- fees.py:145 "Never negative": a negative rate is refused for Polymarket US only.
- executor_server.py:355-356: snapping follows the check of the wire price, so a price below half
  a step would become 0.0000, which the table's CHECK refuses.

## Proofs

Eight `*Proofs` modules hold 38 theorems about eight specifications. Each extends its component, is
checked by TLAPS without a gap, and is stated for every value of the constants: the bounds of the
runs (`MaxTime`, `MaxOrders`, `MaxConns` and the like) are arbitrary naturals there. The only
assumptions are the named ones of the component (`GateConstants`, `QueueConstants` ...), which TLC
evaluates on every run, and the hypotheses spelled out below. Every argument has the same form: an
invariant that is inductive and implies the property, one lemma per action. Each invariant was
checked by TLC before it was proved.

**`RiskGateProofs`** (assuming `GateConstants`: `HOUR <= DAY` and `Cooldown <= DAY` are what the code's
constants and limits satisfy).

- `TypeCorrect`: `TypeOK`, with `Clocked` (no order, poll or reconciliation is stamped later than now).
- `AttemptsWithinCaps`, `CooldownSurvivesRestart`: the hourly cap, the four daily caps and the
  cooldown. None is inductive: `check` counts what the deque holds, the properties count what was
  sent. The strengthening is `Remembered`: every order of the last day whose row no crash erased is
  in `attempts`, and `lastAttempt` is at least the time of every remembered order of its ticker and
  side. Admission compares the caps with at least the window that ends at the new order, and older
  windows do not change. `Restart` keeps it because `warm_start` reads exactly the committed rows of
  the last day; pruning, because it drops only what is more than a day old.
- `DispatchesWithinCap`: `ConcurrencyBound`, from `Counted` (the counter is the number of orders in
  phase `inflight`).
- `NoFillFallsBetween`: `FillsLayered`, for every `TimeInForce`, from `Layers`: of an order whose response
  reported more than the snapshot contains, the deque holds its fill with a stamp not before the
  snapshot's. What no response reports is no part of this statement. A poll that was read and has not
  landed needs the same statement, because fills arrive meanwhile; that is why the code must stamp a
  reconciliation with the time the poll was *issued*.

Its second half is about the position ledger, and so about sums over sets. A fold has no defining equation
until a function that satisfies its recursion is known to exist, and the library's induction theorems take
an operator as a parameter. The existence is shown instead from a smallest subset of a finite set without
such a function (`SmallestMember`); everything else about sums (`SumAdd`, `SumOfLarger`, `SumUnion`,
`SumPlus`, `SumOverImage`, `SumAtMost` ...) is proved from the resulting equation in the same way.

- `NotionalWithinCap`: `RollingNotionalCap`, from `Remembered`.
- `LedgerHolds`: `Ledger`, that is `Account` (the account holds on each ticker what its orders
  executed, 0 once it settled), `Snapshot` of the poll's answer and of the gate's baseline (each is the
  account of one instant), and that every fill in the deque is of an execution.
- `PositionNeverUnderstated`: `LedgerKeepsFills`, from `Ledger` and `FillsLayered`. Of each order the
  executor knows what its answer or the snapshot says (`Known`); the rest of its execution is the
  slack (`Unaccounted`): an order that is out, a failed dispatch, an answer without a readable
  `fill_count`, what a resting order did after its answer. The sum over a ticker's or event's orders then
  bounds the account's position, whatever the signs.
- `QuietLedgerIsExact`: `LedgerExactWhenQuiet`, from `Ledger`: without layered fills the compared
  position is the snapshot, which is then the account.
- `OvershootIsBounded`: `OvershootBounded`. The position alone is not inductive, because an admitted order
  executes later: `ReachBounded` bounds what the account *may come to hold* with the orders it has
  (`Reach`), which executions do not raise and an admission raises by its own count. `FirstDay` says that
  until the first restart and for one day every answered fill is in the deque, so the gate sees all but
  the orders in flight (at most `MaxConcurrent - 1` others, by `Counted`) and what was not told
  (`UntoldOn`): failed dispatches whole, of an answered order the part its answer left out, and under
  `good_till_canceled` its whole remainder, executed or not. What a dispatch ended with stands
  (`AnswerStands`), so within one process this slack never shrinks (`UntoldGrows`). Under
  `good_till_canceled` the bound is therefore a weak one, as docs/configuration.md:112-115 warns.
  Hypotheses: `MaxConcurrent >= 1` (config.py does not refuse 0; such a gate admits nothing, and the
  slack, which has `MaxConcurrent - 1` as a factor, would be negative), and `Sized`: there is a wake and
  the counts of wakes are bounded, without which "the largest wake" means nothing.

**`TokenBucketProofs`** proves `BucketKeepsBudget`: `Spec => [](TypeOK /\ WindowBudget)`.
`WindowBudget` speaks of pairs of grants in the past; the strengthening
relates each grant to the present (`Earned`: what was granted since it, plus the tokens now there,
is at most burst plus earnings since it), keeps the budget of the pairs already granted by their
indices (`Pairs`), and says that the holder's sleep covers its deficit (`SleepsLongEnough`), which
is why a withdrawal never overdraws. Assumption: a request costs no more than the burst.

**`TelemetryQueueProofs`** proves every safety property of the queue: `QueueTyped`,
`NothingIsLostSilently` (`NoSilentLoss`, with its three exceptions and the bound on what a crash takes),
`ResolvedStaysResolved`, `GoodRowsAreNotRefused`, `CloseFlushesAll`, and `TableIsATrail`, the
implementation of `AuditTrail`. Its invariant says of each row where it is and that it is in one place:
`Born` (a row has a fate once its producer has offered it), `Held` (what is queued or in the batch is
undecided, what the fallback has passed is decided), `InTurn` (a pending row precedes its resolution, in
the queue and in the batch, and no row is there twice), `Keys` (a key in the table is not that of a row
still to be inserted), `Resolutions` (the transaction takes no status back), `Honest` (the transaction is
at most one commit of `AuditTrail` ahead of the table), `WriterIdle` (no transaction is open outside a
batch) and `SentinelLast` (nothing `close()` found on the queue lies behind the sentinel). The properties
alone say nothing of the batch a failed transaction leaves to the row-by-row fallback.

**`OrderPathProofs`** proves `PathTyped`, `AtMostOneOrder`, `CountedBeforeSent`, `RowsAreTrue`,
`SwitchHonored`, `ChangesAreHeld` and `TimeoutIsFinal`. Its invariant says that what is on the wire or
at the exchange was sent, and under one `client_order_id` (`AttemptsLeft`, `RequestsSent`), that a fire
which waits or has sent anything is counted and does not have the row of a refusal (`Counted`), that an
answer in hand is true of the exchange and stays so, for every `time_in_force` (`AnswersTrue`: an order that
was not executed at once is never executed unless it rests, and a refusal means that there is no order
unless an earlier request went unanswered), and so is a row (`RowsHonest`), that a request is repeated only
after one that went unanswered (`Repeated`), that every effect of a change used up one of its
requests (`EffectsPaid`), and that a cached "not engaged" dates from before the switch was engaged
(`CacheHonest`, hence `HaltHonored` for every time-to-live).

**`RetentionProofs`** proves `ReferencesAreHeld` and `OnlyDueRowsGo`, for any tables, periods, chunk size
and set of writers. `Closed` is the reference property of the committed database and of the lock holder's
view; between two statements of a writer it needs `HalfHeld` (a writer between its two statements holds
the lock, and the correlation it found or made is still in the view), and the deletions of an open chunk
need `DeletionsDue` (all are expired, the oldest first) and `WritersAdd`.

**`WakeChannelProofs`** proves `ChannelTyped`, `NoWakeFiresTwice` and `WakesFireInOrder`. A wake is in
one place between the queue and its task: `QueueInOrder`, `SocketsInOrder`, `HandlersInOrder` and
`FiredInOrder` order the wakes within each place and between neighbouring ones, so that whatever is
fired over a connection was sent after everything fired over it before.

**`SchemaMigrationProofs`** proves `VersionIsHonest` and `UpgradeIsNeverRefused`, for any processes,
openings and crashes, from three cases by the version the file had: `Upgraded`/`Knows` (from 1 on, whoever
is at work remembers no more than the file has), `Created`/`Creates` (no file: what the only process has
made of it so far), `Alone`/`KeepsUp` (one process and version 2 or later: what a migration would add is
not there yet). Hypotheses of `VersionIsHonest`: `0 \notin StartVersions`, because migrations 1 and 2 of a
file of version 0 take several commits each and do break it (run `migrate_interrupted`), and `SharedFrom
>= 1`, because two processes that create one file together disturb each other (see above). Those of the
run `migrate` are the same. `UpgradeIsNeverRefused` needs neither.

**`CalculationsProofs`** proves the properties of the single calculations for every input that the
assumptions of `Calculations` admit. `AnswersAreComputed` is the invariant (the input is one of the
assumed, the answer is one the code computes from it); each theorem is then about one operator.

- `IdenticalIsOneClaim`: `IdenticalPaysAlike`, for any thresholds, units, labels, titles, source tokens,
  starts and tolerances. First the settlement gate makes the two facts one (`SameGame`: starts closer than the
  tolerance leave only one game; `SameAbout`), then the aligned labels and the compared thresholds
  make the contracts pay alike on it: `LevelsPayAlike` for levels and lines, `GenericPaysAlike` for
  questions, `HeadToHeadPaysAlike` for outcomes named by the contestants. `PairInputs` says that a
  market's statements are true (its start up to `SLACK`, its qualifiers, the contestant its label names)
  and that two games are further apart than the tolerance and twice that slack. The property itself is
  stated under `TakenForGranted`, four things that the code relies on and does not check: `SameSubject`
  (the question is about Kalshi's contestant), `DrawsWorded` (where a head-to-head can be drawn, somebody's
  wording says so: what matching.py:85-99 says a token list cannot ensure, and the 33 KBO and NPB pairs were
  not), `SourcesIdentify` (a shared token names one authority) and `TitleOnYes` (a title replaces a long
  side labelled yes, not no). In the run the property fails when any one of the four is left out.
- `FeesAreWithinACent`: `FeeWithinACent`, for any levels. `BasisIsOwed` relates the accumulated basis to
  the schedule's sum; `RoundUpWithinCent` and `NearestWithinHalf` bound the one rounding. What the
  model takes for granted is that binary fractions err by less than the distance of a product that
  lies on no rounding boundary to the next one, which holds of fills up to millions of dollars.
- `StakesAreCapped`: `StakeCapped`. `KellyWithinCeilings` treats the two branches of the minimum, as
  inequalities of products.
- `SnapsAreOnGrid`: `SnapOnGrid`. `QuoteInputs` assumes of a grid what the docstring of `_snap_to_grid`
  says, that "both ranges' steps evenly divide that boundary", that ranges overlap in no more than their
  ends, and that a market that states ranges states them for every price. Rounding does not leave the range
  (`RoundsWithinRange`), so it is on the grid of a neighbour that shares the end.
- `TwinsAreFound`: `TwinFound`, for any corpora, logarithms, numbers of seeds and of candidates and any
  ceiling of the index. `FirstOfOrder`: of those with fewer than n before them in a strict order there are
  n, unless that is all; `CrowdedOut`: so whoever takes a twin's place weighs no less, and as the twin
  holds every seed, no less than all seeds, hence (`SumOfWholePart`) holds each that weighs anything.
  `ScoresAreFractions` adds that a score is never more than 1 nor divided by zero. `CorpusInputs` assumes
  markets with at least one token, fewer than `MAX_COUNT` in all, which is the domain of the logarithms.
- `ProductionTakesTwoSwitches`: `ProductionIsDeliberate`, for any environment, without an assumption on
  what hosts and credentials hold. It says which variables a host and a credential come from
  (`DemoStaysOnDemo`, `CredentialsPair`), and so not that the demo variable's host is the demo one.

The recursion of sums is restated there (`SumIsRecursive` to `SumOfIntegers`), because it is a lemma of
two modules that share no other.

Only model-checked:

- liveness under fairness and `ENABLED` (`CloseReturns`, `EveryFireEnds`, `EveryWakeSettles`,
  `EveryRequestGranted`, `EverythingExpiredGoes`), which the prover does not reach;
- the fees' agreement with the binary arithmetic is checked, and the theorem stated, for whole contracts
  and whole cents; either Polymarket's ticks and sizes are finer.

Neither checked nor proved: that the inputs of one module are the outputs of another. `AuditTrail` says what
the table looks like to a restart, and `TelemetryQueue` implements it; that `RiskGate`'s rows behave alike is
read from `CommitRow`.

## Not modelled

- The single-instance lock: a thin wrapper of `flock()`, taken by no process of this repository.
- The WebSocket client: one connection without states of its own beyond a bounded receive; the loop
  that reconnects around it is not part of this repository.
- The final sort and the statistics of `match_all`, order-book ladders, tokenisation, dates and
  numbers in prose: the regular expressions are abstracted to what they yield. Prices are abstract in
  `OrderPath` and `RiskGate`.
- A wall clock that steps back: the model's clock does not, the code takes `time.time()` as given, and
  every guarantee of the gate is about windows of that clock.
- GET requests, prewarming, timing stamps, graceful shutdown of the executor, oversized frames, the
  WAL checkpoint after a prune.
- Request signing, logging, heartbeat, order templates, benchmarks: pure I/O, cryptography or frozen
  records.

## Plan

Every safety and action property that a passing run checks is also a theorem. What is left: the
position by group, which has no property yet because its baseline depends on the groups known when a
poll lands; an interpretation of markets in which a question and its contestants are modelled word by
word, so that `SameSubject` could be derived rather than assumed; and the transport's GET requests and
graceful shutdown, should they come to change state.
