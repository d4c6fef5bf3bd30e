----------------------------- MODULE OrderPath -----------------------------
(***************************************************************************)
(* One fire from the wake to its audit row: ExecutorServer._handle_fire,   *)
(* OrderDispatcher.dispatch, KalshiRestClient.post with its retry policy,  *)
(* and the kill switch with its cache.  Beside the fires, the dispatcher's *)
(* cancel() and decrease() of an order that already rests, by the same     *)
(* client and retry policy.  All of them run as tasks of one event loop,   *)
(* so a step lasts from one await to the next.                             *)
(*                                                                         *)
(* The risk gate's verdict is a free choice here (RiskGate models it), the *)
(* audit rows arrive at once (TelemetryQueue models how they travel), and  *)
(* the rate limiter only delays.                                           *)
(***************************************************************************)
EXTENDS Integers, FiniteSets, FiniteSetsExt

CONSTANTS
  Fires,         \* the tasks: wakes the server accepted, changes of the resting order
  Mixes,         \* what they are, taken together, and what the configuration says of them
  ATTEMPTS,      \* requests per post(), the first included
  TTL,           \* KillSwitch.ttl_seconds, in clock ticks
  RESTING,       \* contracts of the order that rests at the exchange
  TARGET, STEP,    \* the caller's reduce_to and reduce_by
  MaxTime, MaxToggles   \* bounds of the model


\* What a wake can be: a real fire that may go out ("real"), one without a wire
\* price strictly between 0 and 1, one for which the book holds less than one
\* contract, one at which assert_orders_permitted raises, or a shadow fire.
Fire == {"real", "untradeable", "novolume", "barred", "shadow"}
\* What a change of the resting order can be; "misused" is one with both or neither
\* of reduce_to and reduce_by, or one that assert_orders_permitted refuses.
Change == {"cancel", "reduce_to", "reduce_by", "misused"}
Kinds == Fire \cup Change
TimeInForce == {"fill_or_kill", "good_till_canceled", "immediate_or_cancel"}

ASSUME PathConstants ==
  /\ Mixes \subseteq [kind: [Fires -> Kinds], time_in_force: TimeInForce]
  /\ ATTEMPTS \in Nat \ {0} /\ TTL \in Nat /\ MaxTime \in Nat /\ MaxToggles \in Nat
  /\ RESTING \in Nat \ {0} /\ TARGET \in Nat \ {0} /\ STEP \in Nat \ {0}

VARIABLES
  kind,                         \* [Fires -> Kinds]
  time_in_force,                \* KalshiBotConfig.time_in_force
  now,                          \* clock
  file, engagedAt, toggles,     \* the switch file, since when it is there, operator actions
  cached, checkedAt,            \* KillSwitch._cached ("none": no check yet), _checked_at_ns
  pc,                           \* [Fires -> where its task is]
  attempt,                      \* [Fires -> requests handed to aiohttp]
  attempted,                    \* fires the gate has recorded as attempts
  slots,                        \* RiskGate._in_flight
  row,                          \* [Fires -> status of its orders_fired row]
  wire,                         \* requests the exchange has not received yet
  placed,                       \* client_order_ids the exchange has accepted an order for
  traded,                       \* fires of whose order it has executed a part or all
  reply,                        \* [Fires -> the answer on its way to the waiting request]
  resting,                      \* what is left of the resting order
  effects,                      \* history: [Fires -> how often its change took effect]
  returned,                     \* [Fires -> what cancel() or decrease() gave its caller]
  haltAge,                      \* history: how long the switch had been engaged at the
                                \* fire's decision, -1 if it was not
  timedOut,                     \* history: fires with a timed-out request
  unheard                       \* history: fires with a request the exchange did not
                                \* answer, or answered with a 5xx

given == <<kind, time_in_force>>
killVars == <<file, engagedAt, toggles>>
cacheVars == <<cached, checkedAt>>
exchange == <<wire, placed, traded, reply>>
book == <<resting, effects>>
vars == <<given, book, returned, now, killVars, cacheVars, pc, attempt, attempted, slots, row,
          exchange, haltAge, timedOut, unheard>>

\* The client_order_id is minted once per dispatch, before the first request.
ClientOrderIdPerRequest(f, n) == <<f, n>>
ClientOrderId(f, n) == <<f, 0>>

Waiting == {"acquire", "sent", "backoff"}
\* For how long the switch has been engaged, up to TTL; -1 when it is not.
Age == IF ~file THEN -1 ELSE IF now - engagedAt >= TTL THEN TTL ELSE now - engagedAt

Init ==
  /\ \E m \in Mixes : kind = m.kind /\ time_in_force = m.time_in_force
  /\ resting = RESTING /\ effects = [f \in Fires |-> 0]
  /\ returned = [f \in Fires |-> "none"]
  /\ now = 1
  /\ file = FALSE /\ engagedAt = 0 /\ toggles = 0
  /\ cached = "none" /\ checkedAt = 0
  /\ pc = [f \in Fires |-> "new"]
  /\ attempt = [f \in Fires |-> 0]
  /\ attempted = {} /\ slots = 0
  /\ row = [f \in Fires |-> "none"]
  /\ wire = {} /\ placed = {} /\ traded = {} /\ reply = [f \in Fires |-> "none"]
  /\ haltAge = [f \in Fires |-> -1]
  /\ timedOut = {} /\ unheard = {}

-----------------------------------------------------------------------------
(* The kill switch.                                                        *)

engage ==
  /\ ~file /\ toggles < MaxToggles
  /\ file' = TRUE /\ engagedAt' = now /\ toggles' = toggles + 1
  /\ UNCHANGED <<given, book, returned, now, cacheVars, pc, attempt, attempted, slots, row,
                 exchange, haltAge, timedOut, unheard>>

release ==
  /\ file /\ toggles < MaxToggles
  /\ file' = FALSE /\ toggles' = toggles + 1
  /\ UNCHANGED <<given, book, returned, now, engagedAt, cacheVars, pc, attempt, attempted, slots,
                 row, exchange, haltAge, timedOut, unheard>>

\* The cached answer is still good.
CacheFreshInclusive == cached # "none" /\ now - checkedAt <= TTL
CacheFresh == cached # "none" /\ now - checkedAt < TTL

is_engaged == IF CacheFresh THEN cached = "yes" ELSE file

\* What is_engaged() leaves behind.
Recheck ==
  IF CacheFresh THEN UNCHANGED cacheVars
  ELSE cached' = (IF file THEN "yes" ELSE "no") /\ checkedAt' = now

-----------------------------------------------------------------------------
(* _handle_fire up to its first await.                                     *)

Finish(f, status) ==
  /\ pc' = [pc EXCEPT ![f] = "finished"]
  /\ row' = [row EXCEPT ![f] = status]

\* A real fire without a tradeable wire price is refused outright.
RefuseUntradeable(f) ==
  /\ pc[f] = "new" /\ kind[f] = "untradeable"
  /\ Finish(f, "none")
  /\ UNCHANGED <<given, book, returned, now, killVars, cacheVars, attempt, attempted, slots,
                 exchange, haltAge, timedOut, unheard>>

\* Less than one contract rests at the level.
RefuseVolume(f) ==
  /\ pc[f] = "new" /\ kind[f] = "novolume"
  /\ Finish(f, "rejected")
  /\ UNCHANGED <<given, book, returned, now, killVars, cacheVars, attempt, attempted, slots,
                 exchange, haltAge, timedOut, unheard>>

\* Priced and sized for a contract or more: the switch and the gate are next.
Sized(f) == pc[f] = "new" /\ kind[f] \in {"real", "barred"}

RefuseHalted(f) ==
  /\ Sized(f) /\ is_engaged /\ Recheck
  /\ Finish(f, "rejected")
  /\ UNCHANGED <<given, book, returned, now, killVars, attempt, attempted, slots,
                 exchange, haltAge, timedOut, unheard>>

RefuseRisk(f) ==
  /\ Sized(f) /\ ~is_engaged /\ Recheck
  /\ Finish(f, "rejected")
  /\ UNCHANGED <<given, book, returned, now, killVars, attempt, attempted, slots,
                 exchange, haltAge, timedOut, unheard>>

\* The risk gate lets the fire pass, the guard in dispatch() does not: the task
\* logs the RuntimeError and gives its slot back, the attempt stays recorded.
RefuseGuard(f) ==
  /\ Sized(f) /\ ~is_engaged /\ Recheck /\ kind[f] = "barred"
  /\ attempted' = attempted \cup {f}
  /\ Finish(f, "none")
  /\ UNCHANGED <<given, book, returned, now, killVars, attempt, slots, exchange, haltAge,
                 timedOut, unheard>>

\* record_attempt() after the response instead of before the request.
DispatchUncounted(f) ==
  /\ Sized(f) /\ ~is_engaged /\ Recheck /\ kind[f] = "real"
  /\ slots' = slots + 1
  /\ pc' = [pc EXCEPT ![f] = "acquire"]
  /\ row' = [row EXCEPT ![f] = "pending"]
  /\ haltAge' = [haltAge EXCEPT ![f] = Age]
  /\ UNCHANGED <<given, book, returned, now, killVars, attempt, attempted, exchange, timedOut,
                 unheard>>

\* A real fire passes every check: record_attempt(), begin_dispatch(), and
\* dispatch() as far as the rate limiter, the pending row written before it.
Dispatch(f) ==
  /\ Sized(f) /\ ~is_engaged /\ Recheck /\ kind[f] = "real"
  /\ attempted' = attempted \cup {f}
  /\ slots' = slots + 1
  /\ pc' = [pc EXCEPT ![f] = "acquire"]
  /\ row' = [row EXCEPT ![f] = "pending"]
  /\ haltAge' = [haltAge EXCEPT ![f] = Age]
  /\ UNCHANGED <<given, book, returned, now, killVars, attempt, exchange, timedOut, unheard>>

\* A shadow fire is assembled and signed, skips every check but the guard, and
\* stops before the network: no await, no row, no attempt.
ShadowFire(f) ==
  /\ pc[f] = "new" /\ kind[f] = "shadow"
  /\ pc' = [pc EXCEPT ![f] = "finished"]
  /\ UNCHANGED <<given, book, returned, now, killVars, cacheVars, attempt, attempted, slots, row,
                 exchange, haltAge, timedOut, unheard>>

-----------------------------------------------------------------------------
(* cancel() and decrease(): the guard, then post() or delete().            *)

\* The ValueError of decrease(), or the guard's RuntimeError.
RefuseChange(f) ==
  /\ pc[f] = "new" /\ kind[f] = "misused"
  /\ pc' = [pc EXCEPT ![f] = "finished"]
  /\ returned' = [returned EXCEPT ![f] = "error"]
  /\ UNCHANGED <<given, book, now, killVars, cacheVars, attempt, attempted, slots, row,
                 exchange, haltAge, timedOut, unheard>>

\* No kill switch, no gate, no row: taking an order back is always allowed.
BeginChange(f) ==
  /\ pc[f] = "new" /\ kind[f] \in Change \ {"misused"}
  /\ pc' = [pc EXCEPT ![f] = "acquire"]
  /\ UNCHANGED <<given, book, returned, now, killVars, cacheVars, attempt, attempted, slots, row,
                 exchange, haltAge, timedOut, unheard>>

\* A target sent as the difference from the size the caller knows.
BodyRelative(k) == IF k = "reduce_to" THEN [reduce_by |-> RESTING - TARGET] ELSE [reduce_by |-> STEP]

\* decrease()'s request: exactly one of the two fields.
Body(k) == IF k = "reduce_to" THEN [reduce_to |-> TARGET] ELSE [reduce_by |-> STEP]

-----------------------------------------------------------------------------
(* post() and delete(): with_retries around _request.                      *)

\* The limiter grants its tokens: sign, stamp sent_ns, hand over to aiohttp.
_request(f) ==
  /\ pc[f] = "acquire"
  /\ pc' = [pc EXCEPT ![f] = "sent"]
  /\ attempt' = [attempt EXCEPT ![f] = @ + 1]
  /\ wire' = wire \cup {<<f, attempt[f] + 1>>}
  /\ reply' = [reply EXCEPT ![f] = "none"]
  /\ UNCHANGED <<given, book, returned, now, killVars, cacheVars, attempted, slots, row, placed,
                 traded, haltAge, timedOut, unheard>>

\* The failures that is_retryable() accepts.
RetryableWithTimeout == {"unavailable", "disconnected", "timeout"}
Retryable == {"unavailable", "disconnected"}

Rests == time_in_force = "good_till_canceled"

\* An unreadable fill_count taken for 0.
StatusUnreadable(outcome) ==
  CASE outcome = "filled" -> "filled"
    [] outcome \in {"nofill", "mute"} -> IF Rests THEN "accepted" ELSE "canceled"
    [] OTHER -> "error"

\* _resolved_status, or "error" when the post raised.
StatusOf(outcome) ==
  CASE outcome = "filled" -> "filled"
    [] outcome = "nofill" -> IF Rests THEN "accepted" ELSE "canceled"
    [] outcome = "mute" -> "submitted"
    [] OTHER -> "error"

\* end_dispatch() on success only, not in a finally block.
ConcludeOnSuccess(f, outcome) ==
  /\ Finish(f, StatusOf(outcome))
  /\ slots' = IF outcome \in {"filled", "nofill", "mute"} THEN slots - 1 ELSE slots

\* dispatch()'s finally block and _handle_fire's: resolution row, end_dispatch().
ConcludeFire(f, outcome) ==
  /\ Finish(f, StatusOf(outcome))
  /\ slots' = slots - 1

\* Whatever raises taken for an order that is gone.
AnswerOptimistic(outcome) == IF outcome = "done" THEN "done" ELSE "gone"
\* The caller gets the parsed response, the 404 of an order that is gone, or an error.
AnswerOf(outcome) == IF outcome \in {"done", "gone"} THEN outcome ELSE "error"

Conclude(f, outcome) ==
  IF kind[f] \in Fire
    THEN ConcludeFire(f, outcome) /\ UNCHANGED returned
    ELSE /\ pc' = [pc EXCEPT ![f] = "finished"]
         /\ returned' = [returned EXCEPT ![f] = AnswerOf(outcome)]
         /\ UNCHANGED <<row, slots>>

\* What leaves open whether the exchange has the order.
Unheard(f, outcome) ==
  unheard' = IF outcome \in {"unavailable", "disconnected", "timeout"} THEN unheard \cup {f}
             ELSE unheard

\* The loop forgets that the attempts are limited.
SettleForever(f, outcome) ==
  /\ Unheard(f, outcome)
  /\ IF outcome \in Retryable
       THEN /\ pc' = [pc EXCEPT ![f] = "backoff"]
            /\ attempt' = [attempt EXCEPT ![f] = 0]
            /\ UNCHANGED <<row, slots, returned>>
       ELSE Conclude(f, outcome) /\ UNCHANGED attempt

\* with_retries: retry what is_retryable() accepts while attempts are left.
Settle(f, outcome) ==
  /\ Unheard(f, outcome)
  /\ IF outcome \in Retryable /\ attempt[f] < ATTEMPTS
       THEN pc' = [pc EXCEPT ![f] = "backoff"] /\ UNCHANGED <<row, slots, returned>>
       ELSE Conclude(f, outcome)
  /\ UNCHANGED attempt

\* The response body has been read; its status decides.
Respond(f) ==
  /\ pc[f] = "sent" /\ reply[f] # "none"
  /\ reply' = [reply EXCEPT ![f] = "none"]
  /\ Settle(f, reply[f])
  /\ UNCHANGED <<given, book, now, killVars, cacheVars, attempted, wire, placed, traded, haltAge,
                 timedOut>>

\* The connection breaks; whether the request got through is unknown.
Disconnect(f) ==
  /\ pc[f] = "sent"
  /\ \/ wire' = wire \ {<<f, attempt[f]>>}
     \/ UNCHANGED wire
  /\ reply' = [reply EXCEPT ![f] = "none"]
  /\ Settle(f, "disconnected")
  /\ UNCHANGED <<given, book, now, killVars, cacheVars, attempted, placed, traded, haltAge,
                 timedOut>>

\* ORDER_TIMEOUT passes; the exchange may still receive the request.
Timeout(f) ==
  /\ pc[f] = "sent"
  /\ timedOut' = timedOut \cup {f}
  /\ reply' = [reply EXCEPT ![f] = "none"]
  /\ Settle(f, "timeout")
  /\ UNCHANGED <<given, book, now, killVars, cacheVars, attempted, wire, placed, traded, haltAge>>

\* The jittered sleep ends and the operation runs again.
WakeUp(f) ==
  /\ pc[f] = "backoff"
  /\ pc' = [pc EXCEPT ![f] = "acquire"]
  /\ UNCHANGED <<given, book, returned, now, killVars, cacheVars, attempt, attempted, slots, row,
                 exchange, haltAge, timedOut, unheard>>

-----------------------------------------------------------------------------
(* The exchange: client_order_id is unique there.                          *)

\* The answer reaches the client only while that request still waits for it.
Answer(f, n, outcome) ==
  reply' = IF pc[f] = "sent" /\ attempt[f] = n THEN [reply EXCEPT ![f] = outcome] ELSE reply

\* A request for an order: it opens one, which executes at once or not, and is
\* answered with a fill_count, without a readable one ("mute"), or not at all; or it
\* opens none, because it is refused or its client_order_id is known.
Receive(f, n) ==
  /\ <<f, n>> \in wire /\ kind[f] \in Fire
  /\ wire' = wire \ {<<f, n>>}
  /\ \/ /\ ClientOrderId(f, n) \notin placed
        /\ placed' = placed \cup {ClientOrderId(f, n)}
        /\ \E v \in {"filled", "nofill"}, outcome \in {"filled", "nofill", "mute", "unavailable"} :
             /\ outcome \in {v, "mute", "unavailable"}
             /\ traded' = IF v = "filled" THEN traded \cup {f} ELSE traded
             /\ Answer(f, n, outcome)
     \/ /\ UNCHANGED <<placed, traded>>
        /\ \E outcome \in {"refused", "unavailable"} : Answer(f, n, outcome)
  /\ UNCHANGED <<given, book, returned, now, killVars, cacheVars, pc, attempt, attempted, slots,
                 row, haltAge, timedOut, unheard>>

\* An order that rests executes later, when no request asks.
Trade(f) ==
  /\ Rests /\ f \notin traded /\ \E n \in 1..ATTEMPTS : ClientOrderId(f, n) \in placed
  /\ traded' = traded \cup {f}
  /\ UNCHANGED <<given, book, returned, now, killVars, cacheVars, pc, attempt, attempted, slots,
                 row, wire, placed, reply, haltAge, timedOut, unheard>>

\* What a change that takes effect leaves of n contracts.
Left(k, n) ==
  IF k = "cancel" THEN 0
  ELSE IF "reduce_to" \in DOMAIN Body(k) THEN Min({n, Body(k).reduce_to})
  ELSE Max({0, n - Body(k).reduce_by})

\* A change arrives: it fails before or after its effect, or is answered; once
\* the order is gone the answer is 404.
ReceiveChange(f, n) ==
  /\ <<f, n>> \in wire /\ kind[f] \in Change
  /\ wire' = wire \ {<<f, n>>}
  /\ \/ /\ UNCHANGED book
        /\ Answer(f, n, "unavailable")
     \/ /\ resting = 0 /\ UNCHANGED book
        /\ Answer(f, n, "gone")
     \/ /\ resting > 0
        /\ resting' = Left(kind[f], resting)
        /\ effects' = IF resting' = resting THEN effects ELSE [effects EXCEPT ![f] = @ + 1]
        /\ \E outcome \in {"done", "unavailable"} : Answer(f, n, outcome)
  /\ UNCHANGED <<given, returned, now, killVars, cacheVars, pc, attempt, attempted, slots, row,
                 placed, traded, haltAge, timedOut, unheard>>

\* Somebody takes a contract of the resting order.
RestingFill ==
  /\ resting > 0 /\ (\E f \in Fires : kind[f] \in Change)
  /\ resting' = resting - 1
  /\ UNCHANGED <<given, effects, returned, now, killVars, cacheVars, pc, attempt, attempted, slots,
                 row, exchange, haltAge, timedOut, unheard>>

Tick ==
  /\ now < MaxTime
  /\ now' = now + 1
  /\ UNCHANGED <<given, book, returned, killVars, cacheVars, pc, attempt, attempted, slots, row,
                 exchange, haltAge, timedOut, unheard>>

Task(f) ==
  \/ RefuseUntradeable(f) \/ RefuseVolume(f) \/ RefuseHalted(f) \/ RefuseRisk(f)
  \/ RefuseGuard(f) \/ Dispatch(f) \/ ShadowFire(f) \/ RefuseChange(f) \/ BeginChange(f)
  \/ _request(f) \/ Respond(f) \/ Disconnect(f) \/ Timeout(f) \/ WakeUp(f)

Next ==
  \/ \E f \in Fires : Task(f) \/ Trade(f)
                       \/ \E n \in 1..ATTEMPTS : Receive(f, n) \/ ReceiveChange(f, n)
  \/ engage \/ release \/ RestingFill \/ Tick

Spec == Init /\ [][Next]_vars

\* The loop runs every task that can run: a request is answered or times out.
FairSpec == Spec /\ \A f \in Fires : WF_vars(Task(f))

-----------------------------------------------------------------------------
(* What the order path promises.                                           *)

Replies == {"none", "filled", "nofill", "mute", "done", "gone", "refused", "unavailable"}
OrderStatus == {"pending", "submitted", "accepted", "filled", "canceled", "error"}
Statuses == {"none", "rejected"} \cup OrderStatus

\* The state has its type, and the gate's slot counter is the number of
\* dispatches that are under way: every path out of one gives its slot back.
TypeOK ==
  /\ kind \in [Fires -> Kinds] /\ time_in_force \in TimeInForce
  /\ now \in Nat /\ file \in BOOLEAN /\ engagedAt \in Nat /\ toggles \in Nat
  /\ cached \in {"none", "yes", "no"} /\ checkedAt \in Nat
  /\ pc \in [Fires -> {"new", "finished"} \cup Waiting]
  /\ attempt \in [Fires -> 0..ATTEMPTS] /\ attempted \subseteq Fires
  /\ row \in [Fires -> Statuses]
  /\ wire \subseteq Fires \X (1..ATTEMPTS) /\ placed \subseteq Fires \X (0..ATTEMPTS)
  /\ traded \subseteq Fires
  /\ reply \in [Fires -> Replies]
  /\ resting \in 0..RESTING /\ effects \in [Fires -> 0..ATTEMPTS]
  /\ returned \in [Fires -> {"none", "done", "gone", "error"}]
  /\ haltAge \in [Fires -> Int] /\ timedOut \subseteq Fires /\ unheard \subseteq Fires
  /\ slots = Cardinality({ f \in Fires : kind[f] \in Fire /\ pc[f] \in Waiting })

\* However often a request is retried, disconnected or left to time out, the
\* exchange opens at most one order for a fire.
PlacedOnce == \A f \in Fires : Cardinality({ id \in placed : id[1] = f }) <= 1

\* Whatever may have reached the exchange was recorded by the gate first, and a
\* fire that left a rejected row, or none, never gets there, not even late.
OnlyCountedOrdersLeave ==
  \A f \in Fires :
    (kind[f] \in Fire /\ f \in { m[1] : m \in wire \cup placed })
      => f \in attempted /\ row[f] \in OrderStatus

\* What the row of a concluded order says of the exchange is true: it has the order
\* unless the row says "error", executed some of one "filled" and none of one "canceled",
\* not even later.  And it has no order that the row calls an error, except where a
\* request went unanswered: a retry that is refused because the first request did open
\* the order leaves that row too.
RowsTruthful ==
  \A f \in Fires :
    LET there == ClientOrderId(f, 1) \in placed IN
    /\ row[f] \in {"submitted", "accepted", "filled", "canceled"} => there
    /\ row[f] = "filled" => f \in traded
    /\ row[f] = "canceled" => f \notin traded
    /\ row[f] = "error" /\ there => f \in unheard

\* No fire is let through once the switch file has been there for ttl_seconds,
\* whatever the cache held when it was engaged, released or engaged again.
HaltHonored == \A f \in Fires : pc[f] \in Waiting => haltAge[f] < TTL \/ haltAge[f] = -1

\* What cancel() and decrease() return is true of the exchange, with other changes,
\* fills, retries and late requests around: after a cancel that returned, or a 404,
\* nothing rests, and after decrease(reduce_to) no more than the target.
ChangesAsReported ==
  \A f \in Fires :
    /\ returned[f] = "gone" => resting = 0
    /\ returned[f] = "done" /\ kind[f] = "cancel" => resting = 0
    /\ returned[f] = "done" /\ kind[f] = "reduce_to" => resting <= TARGET

\* However often it is sent, a cancel or a reduce_to takes effect once at most; a
\* reduce_by, which carries no key, only as often as the retry policy sent it, so
\* once when its first request is answered or times out.
ShrinksOnce ==
  \A f \in Fires : effects[f] <= (IF kind[f] = "reduce_by" THEN attempt[f] ELSE 1)

\* The two together: no change does more, or less, than its caller was told.
ChangesHold == ChangesAsReported /\ ShrinksOnce

\* An order whose request timed out is never requested again: the task is over.
NoRetryAfterTimeout ==
  [][\A f \in Fires : f \in timedOut => attempt'[f] = attempt[f]]_vars

\* Every fire's task comes to an end, however the exchange answers.
EveryFireEnds == \A f \in Fires : <>(pc[f] = "finished")

=============================================================================
