------------------------------ MODULE RiskGate ------------------------------
(***************************************************************************)
(* The executor's risk gate (execution/risk.py) with what surrounds it:    *)
(* the admission stretch of ExecutorServer._handle_fire, the exchange that *)
(* executes the admitted orders, the account monitor that polls            *)
(* /portfolio/positions, and the orders_fired rows a restart reads back.   *)
(*                                                                         *)
(* Orders are numbered in the order in which they were admitted.  The      *)
(* deques _attempts and _fills are sets of order numbers and of records:   *)
(* the model's clock never steps back, so the deques are sorted by time    *)
(* stamp and popping old heads is the same as dropping old members.        *)
(***************************************************************************)
EXTENDS Integers, Sequences, FiniteSets, FiniteSetsExt

CONSTANTS
  Tickers, Events, EventOf,     \* markets, settlements, [Tickers -> Events]
  Groups, NoGroup,              \* correlation groups, and the empty string
  AllowedShards,                \* allowed_exchange_indexes
  Wakes,                        \* the wakes that may reach the gate, sized and snapped
  TimeInForce,                  \* time_in_force: whether an order may rest on the book
  MaxPerHour, MaxPerDay, MaxPerTicker, MaxPerEvent, MaxPerGroup,
  MaxNotional, MaxConcurrent,
  MaxPosTicker, MaxPosEvent, MaxPosGroup,
  Cooldown, HOUR, DAY,          \* durations, in clock ticks
  MaxTime, MaxOrders, MaxFailures, MaxRestarts, MaxPolls,   \* bounds of the model
  MaySettle                     \* tickers that may settle meanwhile

ASSUME GateConstants ==
  /\ EventOf \in [Tickers -> Events]
  /\ NoGroup \notin Groups
  /\ Wakes \subseteq [ticker: Tickers, direction: {"yes", "no"}, shard: Int,
                      count: Nat \ {0}, price: Nat, group: Groups \cup {NoGroup}]
  /\ MaxPerHour \in Nat /\ MaxPerDay \in Nat /\ MaxPerTicker \in Nat
  /\ MaxPerEvent \in Nat /\ MaxPerGroup \in Nat /\ MaxConcurrent \in Nat
  /\ MaxNotional \in Nat /\ MaxPosTicker \in Nat /\ MaxPosEvent \in Nat /\ MaxPosGroup \in Nat
  /\ Cooldown \in Nat /\ HOUR \in Nat /\ DAY \in Nat
  /\ HOUR <= DAY /\ Cooldown <= DAY
  /\ MaxTime \in Nat /\ MaxOrders \in Nat
  /\ MaxFailures \in Nat /\ MaxRestarts \in Nat /\ MaxPolls \in Nat
  /\ MaySettle \subseteq Tickers /\ IsFiniteSet(Tickers)
  /\ TimeInForce \in {"fill_or_kill", "immediate_or_cancel", "good_till_canceled"}

Directions == {"yes", "no"}

VARIABLES
  now,          \* wall clock
  attempts,     \* _attempts: numbers of the orders in the deque
  lastAttempt,  \* _last_attempt_ms: [Tickers \X Directions -> time or -1]
  fills,        \* _fills: records [order, ts, group]
  groupOf,      \* _correlation_group_by_ticker, NoGroup when absent
  recTicker,    \* _reconciled_position_by_ticker
  recGroup,     \* _reconciled_position_by_group
  recAt,        \* _reconciled_at_ms, 0 before the first reconciliation
  inFlight,     \* _in_flight
  \* the orders ever admitted
  orders,       \* what each one asked for and when
  phase,        \* what the executor knows of it
  fill,         \* contracts the exchange has executed so far
  live,         \* the orders the exchange may still execute
  told,         \* the fill_count read from its response, 0 before and when it had none
  row,          \* its orders_fired row
  \* the account at the exchange and the poll that reads it
  pos,          \* signed net position_fp per ticker
  settled,      \* tickers that have settled
  poll,         \* the account monitor's request
  restarts, polls,  \* how often the process restarted, how many polls were issued
  \* history: the executed amounts and the settlements the landed snapshot reflects
  baseSeen, baseGone

gate == <<attempts, lastAttempt, fills, groupOf, recTicker, recGroup, recAt, inFlight>>
vars == <<now, gate, orders, phase, fill, live, told, row, pos, settled, poll, restarts, polls, baseSeen, baseGone>>

OrderIds == DOMAIN orders
NoPoll == [state |-> "idle", at |-> 0, value |-> [t \in Tickers |-> 0],
           seen |-> <<>>, gone |-> {}]

Abs(x) == IF x < 0 THEN -x ELSE x

-----------------------------------------------------------------------------
(* Reading the gate.                                                       *)

event_ticker_of(t) == EventOf[t]

\* _prune: what is left of the deques once members older than a day are popped.
LiveAttempts == { i \in attempts : orders[i].at >= now - DAY }
LiveFills == { f \in fills : f.ts >= now - DAY }

WindowStart == Max({recAt, now - DAY})

\* A reconciliation that would drop a fill stamped in its own tick.
WithinExclusive(f) == f.ts > WindowStart
Within(f) == f.ts >= WindowStart

FillSum(F) == SumFunctionOnSet([f \in fills |-> told[f.order]], F)

position_for_ticker(t) ==
  recTicker[t] + FillSum({ f \in fills : orders[f.order].ticker = t /\ Within(f) })

StrikesOf(e) == { t \in Tickers : event_ticker_of(t) = e }

position_for_event(e) ==
  SumFunctionOnSet(recTicker, StrikesOf(e))
    + FillSum({ f \in fills : event_ticker_of(orders[f.order].ticker) = e /\ Within(f) })

position_for_group(g) ==
  recGroup[g] + FillSum({ f \in fills : f.group = g /\ Within(f) })

AttemptsOn(S) == Cardinality({ i \in LiveAttempts : orders[i].ticker \in S })

\* One dispatch too many in flight.
PreChecksOffByOne(w) ==
  /\ w.shard \in AllowedShards
  /\ inFlight <= MaxConcurrent
  /\ LET last == lastAttempt[<<w.ticker, w.direction>>]
     IN  last = -1 \/ now - last >= Cooldown

\* The checks that come before the deques are pruned.
PreChecks(w) ==
  /\ w.shard \in AllowedShards
  /\ inFlight < MaxConcurrent
  /\ LET last == lastAttempt[<<w.ticker, w.direction>>]
     IN  last = -1 \/ now - last >= Cooldown

\* The hourly cap compared with > instead of >=.
AttemptCapsOffByOne(w) ==
  /\ Cardinality({ i \in LiveAttempts : orders[i].at >= now - HOUR }) <= MaxPerHour
  /\ Cardinality(LiveAttempts) < MaxPerDay
  /\ AttemptsOn({w.ticker}) < MaxPerTicker
  /\ AttemptsOn(StrikesOf(event_ticker_of(w.ticker))) < MaxPerEvent
  /\ w.group # NoGroup =>
       Cardinality({ i \in LiveAttempts : orders[i].group = w.group }) < MaxPerGroup

AttemptCaps(w) ==
  /\ Cardinality({ i \in LiveAttempts : orders[i].at >= now - HOUR }) < MaxPerHour
  /\ Cardinality(LiveAttempts) < MaxPerDay
  /\ AttemptsOn({w.ticker}) < MaxPerTicker
  /\ AttemptsOn(StrikesOf(event_ticker_of(w.ticker))) < MaxPerEvent
  /\ w.group # NoGroup =>
       Cardinality({ i \in LiveAttempts : orders[i].group = w.group }) < MaxPerGroup

NotionalOf(S) == SumFunctionOnSet([i \in OrderIds |-> orders[i].count * orders[i].price], S)

\* The order's own notional left out of the sum.
NotionalCapBefore(w) == NotionalOf(LiveAttempts) <= MaxNotional
NotionalCap(w) == NotionalOf(LiveAttempts) + w.count * w.price <= MaxNotional

\* The position compared without the order's own contracts.
PositionCapsBefore(w) ==
  /\ position_for_ticker(w.ticker) <= MaxPosTicker
  /\ position_for_event(event_ticker_of(w.ticker)) <= MaxPosEvent
  /\ w.group # NoGroup => position_for_group(w.group) <= MaxPosGroup

PositionCaps(w) ==
  /\ position_for_ticker(w.ticker) + w.count <= MaxPosTicker
  /\ position_for_event(event_ticker_of(w.ticker)) + w.count <= MaxPosEvent
  /\ w.group # NoGroup => position_for_group(w.group) + w.count <= MaxPosGroup

\* check() returns None.
check(w) == PreChecks(w) /\ AttemptCaps(w) /\ NotionalCap(w) /\ PositionCaps(w)

-----------------------------------------------------------------------------
(* The executor.                                                           *)

EmptyGate ==
  /\ attempts = {} /\ fills = {} /\ inFlight = 0 /\ recAt = 0
  /\ lastAttempt = [k \in Tickers \X Directions |-> -1]
  /\ groupOf = [t \in Tickers |-> NoGroup]
  /\ recTicker = [t \in Tickers |-> 0]
  /\ recGroup = [g \in Groups |-> 0]

Init ==
  /\ now = 1
  /\ EmptyGate
  /\ orders = <<>> /\ phase = <<>> /\ fill = <<>> /\ row = <<>>
  /\ live = {} /\ told = <<>>
  /\ pos = [t \in Tickers |-> 0]
  /\ settled = {} /\ poll = NoPoll /\ restarts = 0 /\ polls = 0 /\ baseSeen = <<>> /\ baseGone = {}

record_attempt(w) ==
  /\ attempts' = LiveAttempts \cup {Len(orders) + 1}
  /\ lastAttempt' = [lastAttempt EXCEPT ![<<w.ticker, w.direction>>] = now]
  /\ groupOf' = IF w.group # NoGroup THEN [groupOf EXCEPT ![w.ticker] = w.group]
                ELSE groupOf

\* _handle_fire from the gate's verdict to the suspended dispatch: there is no
\* await between check(), record_attempt() and begin_dispatch().
Admit(w) ==
  /\ Len(orders) < MaxOrders
  /\ check(w)
  /\ record_attempt(w)
  /\ inFlight' = inFlight + 1
  /\ fills' = LiveFills
  /\ orders' = Append(orders, [ticker |-> w.ticker, direction |-> w.direction,
                               count |-> w.count, price |-> w.price,
                               group |-> w.group, at |-> now])
  /\ phase' = Append(phase, "inflight")
  /\ fill' = Append(fill, 0)
  /\ live' = live \cup {Len(orders) + 1}
  /\ told' = Append(told, 0)
  /\ row' = Append(row, "none")
  /\ UNCHANGED <<now, recTicker, recGroup, recAt, pos, settled, poll, restarts, polls, baseSeen, baseGone>>

\* A refused fire only prunes, and only if it got past the first three checks.
Refuse(w) ==
  /\ ~check(w)
  /\ attempts' = IF PreChecks(w) THEN LiveAttempts ELSE attempts
  /\ fills' = IF PreChecks(w) THEN LiveFills ELSE fills
  /\ UNCHANGED <<now, lastAttempt, groupOf, recTicker, recGroup, recAt, inFlight, orders,
                 phase, fill, live, told, row, pos, settled, poll, restarts, polls, baseSeen, baseGone>>

\* good_till_canceled: the answer comes while the order rests on the book.
Rests == TimeInForce = "good_till_canceled"

record_fill(i, count) ==
  IF count <= 0 THEN fills
  ELSE fills \cup {[order |-> i, ts |-> now, group |-> groupOf[orders[i].ticker]]}

\* The response is back: record_fill(), then end_dispatch() in the finally block.
\* An order that cannot rest is answered once the exchange is through with it, a
\* resting one at any point of its execution.  A fill_count that is absent or
\* cannot be parsed is recorded as 0.
Respond(i, count) ==
  /\ phase[i] = "inflight"
  /\ Rests \/ i \notin live
  /\ count \in (IF Rests THEN 0..fill[i] ELSE {0, fill[i]})
  /\ phase' = [phase EXCEPT ![i] = "done"]
  /\ told' = [told EXCEPT ![i] = count]
  /\ fills' = record_fill(i, count)
  /\ inFlight' = Max({0, inFlight - 1})
  /\ UNCHANGED <<now, attempts, lastAttempt, groupOf, recTicker, recGroup, recAt, orders,
                 fill, live, row, pos, settled, poll, restarts, polls, baseSeen, baseGone>>

\* The dispatch raised (timeout, lost connection, refusal): nothing but
\* end_dispatch() happens, and the exchange may have executed or still execute it.
Fail(i) ==
  /\ phase[i] = "inflight"
  /\ Cardinality({ j \in OrderIds : phase[j] = "failed" }) < MaxFailures
  /\ phase' = [phase EXCEPT ![i] = "failed"]
  /\ inFlight' = Max({0, inFlight - 1})
  /\ UNCHANGED <<now, attempts, lastAttempt, fills, groupOf, recTicker, recGroup, recAt,
                 orders, fill, live, told, row, pos, settled, poll, restarts, polls, baseSeen, baseGone>>

-----------------------------------------------------------------------------
(* The telemetry writer and a restart.                                     *)

Resolved(i) == phase[i] \in {"done", "failed"}

\* The writer commits the pending row or the resolution upsert, whichever is
\* next.  Only warm_start reads rows, so none is committed after the last restart.
CommitRow(i) ==
  /\ restarts < MaxRestarts
  /\ \/ row[i] = "none" /\ phase[i] # "crashed"
     \/ row[i] = "pending" /\ Resolved(i)
  /\ row' = [row EXCEPT ![i] = IF Resolved(i) THEN "resolved" ELSE "pending"]
  /\ UNCHANGED <<now, gate, orders, phase, fill, live, told, pos, settled, poll, restarts, polls, baseSeen, baseGone>>

HasRow(i) == row[i] \in {"pending", "resolved", "orphaned"}

\* warm_start reading back an hour instead of a day.
WarmRowsOfHour == { i \in OrderIds : HasRow(i) /\ orders[i].at >= now - HOUR }
\* warm_start skipping rows that never resolved.
WarmRowsResolved == { i \in OrderIds : row[i] = "resolved" /\ orders[i].at >= now - DAY }
WarmRows == { i \in OrderIds : HasRow(i) /\ orders[i].at >= now - DAY }

LatestGroup(t) ==
  LET I == { i \in WarmRows : orders[i].ticker = t /\ orders[i].group # NoGroup }
  IN  IF I = {} THEN NoGroup ELSE orders[Max(I)].group

\* RiskGate.warm_start() in the next process.
warm_start ==
  /\ attempts' = WarmRows
  /\ lastAttempt' = [k \in Tickers \X Directions |->
        Max({-1} \cup { orders[i].at : i \in { j \in WarmRows :
                          <<orders[j].ticker, orders[j].direction>> = k } })]
  /\ groupOf' = [t \in Tickers |-> LatestGroup(t)]
  /\ fills' = { [order |-> i, ts |-> orders[i].at, group |-> orders[i].group] :
                i \in { j \in WarmRows : row[j] = "resolved" /\ phase[j] = "done"
                                         /\ told[j] > 0 } }
  /\ recTicker' = [t \in Tickers |-> 0]
  /\ recGroup' = [g \in Groups |-> 0]
  /\ recAt' = 0 /\ inFlight' = 0

\* The process dies with its queue: uncommitted rows are lost, a committed
\* pending row keeps that status, the poll and the dispatches are gone.
Restart ==
  /\ restarts < MaxRestarts
  /\ restarts' = restarts + 1
  /\ warm_start
  /\ row' = [i \in OrderIds |-> CASE row[i] = "none" -> "lost"
                                  [] row[i] = "pending" -> "orphaned"
                                  [] OTHER -> row[i]]
  /\ phase' = [i \in OrderIds |-> IF phase[i] = "inflight" THEN "crashed" ELSE phase[i]]
  /\ poll' = NoPoll /\ baseSeen' = <<>> /\ baseGone' = {}
  /\ UNCHANGED <<now, orders, fill, live, told, pos, settled, polls>>

-----------------------------------------------------------------------------
(* The exchange and the account monitor's poll.                            *)

Signed(i, f) == IF orders[i].direction = "yes" THEN f ELSE -f

\* What one execution may take: fill_or_kill all or nothing, immediate_or_cancel any
\* part, a resting order one part after another.
Takes(i) ==
  CASE TimeInForce = "fill_or_kill" -> {0, orders[i].count}
    [] TimeInForce = "immediate_or_cancel" -> 0..orders[i].count
    [] OTHER -> 1..(orders[i].count - fill[i])

\* The exchange executes an order, answered or not: its fill moves the position.
\* Only a resting order with contracts left may be executed again.
Execute(i, f) ==
  /\ i \in live
  /\ orders[i].ticker \notin settled
  /\ f \in Takes(i)
  /\ fill' = [fill EXCEPT ![i] = @ + f]
  /\ live' = IF Rests /\ fill[i] + f < orders[i].count THEN live ELSE live \ {i}
  /\ pos' = [pos EXCEPT ![orders[i].ticker] = @ + Signed(i, f)]
  /\ UNCHANGED <<now, gate, orders, phase, told, row, settled, poll, restarts, polls, baseSeen, baseGone>>

\* A settled ticker leaves /portfolio/positions; orders on it fill nothing more.
Settle(t) ==
  /\ t \in MaySettle \ settled
  /\ settled' = settled \cup {t}
  /\ pos' = [pos EXCEPT ![t] = 0]
  /\ live' = { i \in live : orders[i].ticker # t }
  /\ UNCHANGED <<now, gate, orders, phase, fill, told, row, poll, restarts, polls, baseSeen, baseGone>>

\* The monitor stamps the fetch before it issues the request.
PollIssue ==
  /\ poll.state = "idle" /\ polls < MaxPolls
  /\ polls' = polls + 1
  /\ poll' = [NoPoll EXCEPT !.state = "issued", !.at = now]
  /\ UNCHANGED <<now, gate, orders, phase, fill, live, told, row, pos, settled, restarts, baseSeen, baseGone>>

\* The exchange answers it with the positions of that moment.
PollRead ==
  /\ poll.state = "issued"
  /\ poll' = [poll EXCEPT !.state = "read",
                          !.value = [t \in Tickers |-> Abs(pos[t])],
                          !.seen = fill,
                          !.gone = settled]
  /\ UNCHANGED <<now, gate, orders, phase, fill, live, told, row, pos, settled, restarts, polls, baseSeen, baseGone>>

\* The fetch failed: the ledger keeps its baseline.
PollFail ==
  /\ poll.state # "idle"
  /\ poll' = NoPoll
  /\ UNCHANGED <<now, gate, orders, phase, fill, live, told, row, pos, settled, restarts, polls, baseSeen, baseGone>>

\* The snapshot stamped when it lands instead of when it was issued.
reconcileStampedAtLanding ==
  /\ recTicker' = poll.value
  /\ recGroup' = [g \in Groups |->
        SumFunctionOnSet(poll.value, { t \in Tickers : groupOf[t] = g })]
  /\ recAt' = now

\* The snapshot merged into the baseline, so that a settled ticker stays.
reconcileMerged ==
  /\ recTicker' = [t \in Tickers |-> Max({recTicker[t], poll.value[t]})]
  /\ recGroup' = [g \in Groups |->
        SumFunctionOnSet(poll.value, { t \in Tickers : groupOf[t] = g })]
  /\ recAt' = poll.at

reconcile_open_positions ==
  /\ recTicker' = poll.value
  /\ recGroup' = [g \in Groups |->
        SumFunctionOnSet(poll.value, { t \in Tickers : groupOf[t] = g })]
  /\ recAt' = poll.at

PollLand ==
  /\ poll.state = "read"
  /\ reconcile_open_positions
  /\ poll' = NoPoll /\ baseSeen' = poll.seen /\ baseGone' = poll.gone
  /\ UNCHANGED <<now, attempts, lastAttempt, fills, groupOf, inFlight, orders, phase, fill,
                 live, told, row, pos, settled, restarts, polls>>

Tick ==
  /\ now < MaxTime
  /\ now' = now + 1
  /\ UNCHANGED <<gate, orders, phase, fill, live, told, row, pos, settled, poll, restarts, polls, baseSeen, baseGone>>

Next ==
  \/ \E w \in Wakes : Admit(w) \/ Refuse(w)
  \/ \E i \in OrderIds : Fail(i) \/ CommitRow(i)
                         \/ \E n \in 0..orders[i].count : Respond(i, n) \/ Execute(i, n)
  \/ \E t \in Tickers : Settle(t)
  \/ PollIssue \/ PollRead \/ PollFail \/ PollLand
  \/ Restart \/ Tick

Spec == Init /\ [][Next]_vars

-----------------------------------------------------------------------------
(* What the gate promises.                                                 *)

OrderRecs == [ticker: Tickers, direction: Directions, count: Nat \ {0}, price: Nat,
              group: Groups \cup {NoGroup}, at: Nat]
Phases == {"inflight", "done", "failed", "crashed"}
Rows == {"none", "pending", "resolved", "orphaned", "lost"}

\* The state has its type: the per-order sequences have one entry per admitted
\* order, and what the deques and the snapshot mention are admitted orders.
TypeOK ==
  /\ now \in Nat
  /\ orders \in Seq(OrderRecs)
  /\ phase \in [1..Len(orders) -> Phases]
  /\ row \in [1..Len(orders) -> Rows]
  /\ fill \in [1..Len(orders) -> Nat] /\ told \in [1..Len(orders) -> Nat]
  /\ live \subseteq 1..Len(orders)
  /\ attempts \subseteq 1..Len(orders)
  /\ lastAttempt \in [Tickers \X Directions -> Int]
  /\ groupOf \in [Tickers -> Groups \cup {NoGroup}]
  /\ fills \subseteq [order: 1..Len(orders), ts: Nat, group: Groups \cup {NoGroup}]
  /\ recTicker \in [Tickers -> Nat] /\ DOMAIN recGroup = Groups /\ recAt \in Nat
  /\ inFlight \in Nat /\ restarts \in Nat /\ polls \in Nat
  /\ pos \in [Tickers -> Int] /\ settled \subseteq Tickers
  /\ poll \in [state: {"idle", "issued", "read"}, at: Nat, value: [Tickers -> Nat],
                seen: Seq(Nat), gone: SUBSET Tickers]
  /\ baseSeen \in Seq(Nat) /\ baseGone \subseteq Tickers

\* The orders admitted up to i, within d of it, that no crash erased.
Window(i, d) == { j \in 1..i : row[j] # "lost" /\ orders[j].at >= orders[i].at - d }

\* No rolling hour ends with an attempt that overdraws the hourly cap, counted
\* over every order the gate admitted, across restarts: what the process
\* remembers in _attempts is enough for the cap to hold of what it sent.
RollingHourCap == \A i \in OrderIds : Cardinality(Window(i, HOUR)) <= MaxPerHour

SameTicker(i) == { j \in Window(i, DAY) : orders[j].ticker = orders[i].ticker }
SameEvent(i) == { j \in Window(i, DAY) :
                    event_ticker_of(orders[j].ticker) = event_ticker_of(orders[i].ticker) }
SameGroup(i) == { j \in Window(i, DAY) : orders[j].group = orders[i].group }

\* The same for the four caps over a rolling day: all orders, one ticker, all
\* strikes of one event, all tickers of one correlation group.
RollingDayCaps ==
  \A i \in OrderIds :
    /\ Cardinality(Window(i, DAY)) <= MaxPerDay
    /\ Cardinality(SameTicker(i)) <= MaxPerTicker
    /\ Cardinality(SameEvent(i)) <= MaxPerEvent
    /\ orders[i].group # NoGroup => Cardinality(SameGroup(i)) <= MaxPerGroup

\* Every cap on attempts, over the hour and over the day.
RollingAttemptCaps == RollingHourCap /\ RollingDayCaps

\* The notional dispatched in a rolling day stays within its cap.
RollingNotionalCap == \A i \in OrderIds : NotionalOf(Window(i, DAY)) <= MaxNotional

\* Two attempts on one side of one ticker are a cooldown apart, even with a
\* restart between them, unless the crash erased the first one's row.
CooldownKept ==
  \A i, j \in OrderIds :
    (i < j /\ row[i] # "lost" /\ orders[i].ticker = orders[j].ticker
           /\ orders[i].direction = orders[j].direction)
      => orders[j].at - orders[i].at >= Cooldown

\* A reconciliation landed since boot and less than a day ago.
Fresh == recAt > 0 /\ recAt >= now - DAY

\* What the landed snapshot reflects of an order, 0 for one it is older than.
Of(amounts, i) == IF i \in DOMAIN amounts THEN amounts[i] ELSE 0
Seen(i) == Of(baseSeen, i)

\* No reported fill falls between the snapshot and the ledger: what a response
\* reported beyond what the landed snapshot reflects is still layered on top of
\* the baseline, however the poll and the dispatch interleaved.
FillsLayered ==
  Fresh => \A i \in OrderIds :
    told[i] > Seen(i) => \E f \in fills : f.order = i /\ Within(f)

OrdersOn(T) == { i \in OrderIds : orders[i].ticker \in T }

\* What the executor can know of an order: its response or the snapshot, whichever
\* reflects more of it.
Known(i) == IF told[i] > Seen(i) THEN told[i] ELSE Seen(i)

\* Executions no response reported and the baseline does not hold: of an order
\* that is out or whose dispatch failed, of one that rested after its answer, and
\* of one whose answer had no readable fill_count.
Unaccounted(T) == SumFunctionOnSet([i \in OrderIds |-> fill[i] - Known(i)], OrdersOn(T))

\* What the account holds on the strikes of an event.
EventPosition(e) == SumFunctionOnSet([t \in Tickers |-> Abs(pos[t])], StrikesOf(e))

\* The position the gate checks is never below the account's real one by more
\* than what the executor was not told, per ticker and per event.
PositionNotUnderstated ==
  Fresh =>
    /\ \A t \in Tickers : Abs(pos[t]) <= position_for_ticker(t) + Unaccounted({t})
    /\ \A e \in Events : EventPosition(e) <= position_for_event(e) + Unaccounted(StrikesOf(e))

\* Once a snapshot reflects every execution and settlement of a ticker and
\* every response predates it, the ledger equals the account: a settled
\* position is released, a held one is counted once.
LedgerExactWhenQuiet ==
  \A t \in Tickers :
    (/\ Fresh
     /\ t \in settled <=> t \in baseGone
     /\ \A i \in OrdersOn({t}) : fill[i] = Seen(i)
     /\ \A f \in fills : orders[f.order].ticker = t => f.ts < recAt)
      => position_for_ticker(t) = Abs(pos[t])

\* Nothing the executor was told is missing from what check() compares: the
\* reported fills are layered over the right snapshot, and the sum reads no lower
\* than the account by more than what neither an answer nor a snapshot told.
LedgerKeepsFills == FillsLayered /\ PositionNotUnderstated

\* What an order may hold beyond what its dispatch ended with: all of it after a
\* failure, and after an answer what it did not report, which for an order that
\* rests is whatever may still be executed.
Untold(i) ==
  CASE phase[i] = "failed" -> orders[i].count
    [] phase[i] = "done" -> (IF Rests THEN orders[i].count ELSE fill[i]) - told[i]
    [] OTHER -> 0

UntoldOn(T) == SumFunctionOnSet([i \in OrderIds |-> Untold(i)], OrdersOn(T))

\* Within one process and one day the real position of a ticker or an event
\* exceeds its cap by at most the orders that were in flight beside the last one
\* admitted, plus what the answers on it did not tell: failed dispatches, counts
\* that could not be read, and under good_till_canceled the resting remainders.
OvershootBounded ==
  (restarts = 0 /\ now <= DAY + 1) =>
    LET beside == (MaxConcurrent - 1) * Max({ w.count : w \in Wakes })
    IN  /\ \A t \in Tickers : Abs(pos[t]) <= MaxPosTicker + beside + UntoldOn({t})
        /\ \A e \in Events :
             EventPosition(e) <= MaxPosEvent + beside + UntoldOn(StrikesOf(e))

\* Dispatches awaiting the exchange never exceed the cap: the counter is not
\* decremented twice for one dispatch, and survives failures.
ConcurrencyBound == Cardinality({ i \in OrderIds : phase[i] = "inflight" }) <= MaxConcurrent

=============================================================================
