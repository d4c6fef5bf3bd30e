-------------------------- MODULE OrderPathProofs --------------------------
(* Machine-checked proofs about OrderPath, for every value of its constants. *)
EXTENDS OrderPath, FiniteSetTheorems, TLAPS

-----------------------------------------------------------------------------
(* What a change leaves of the resting order.                              *)

\* The smaller and the larger of two numbers.
LEMMA MinMaxOfTwo ==
  ASSUME NEW a \in Int, NEW b \in Int
  PROVE  /\ Min({a, b}) = IF a <= b THEN a ELSE b
         /\ Max({a, b}) = IF a <= b THEN b ELSE a
<1>1. \E x \in {a, b} : \A y \in {a, b} : x <= y
  OBVIOUS
<1>2. \E x \in {a, b} : \A y \in {a, b} : x >= y
  OBVIOUS
<1>3. Min({a, b}) \in {a, b} /\ \A y \in {a, b} : Min({a, b}) <= y
  BY <1>1, Zenon DEF Min
<1>4. Max({a, b}) \in {a, b} /\ \A y \in {a, b} : Max({a, b}) >= y
  BY <1>2, Zenon DEF Max
<1> QED BY <1>3, <1>4

\* A change never adds contracts; a cancel leaves none, a reduce_to no more than its
\* target, and nothing is taken by a reduce_to that the target already meets.
LEMMA LeftFacts ==
  ASSUME NEW k \in Change, NEW n \in Nat
  PROVE  /\ Left(k, n) \in 0..n
         /\ k = "cancel" => Left(k, n) = 0
         /\ k = "reduce_to" => Left(k, n) <= TARGET /\ (n <= TARGET => Left(k, n) = n)
<1>0. TARGET \in Nat /\ STEP \in Nat /\ TARGET > 0 /\ STEP > 0
  BY PathConstants
<1>1. CASE k = "cancel"
  BY <1>1 DEF Left
<1>2. CASE k = "reduce_to"
  <2>1. Left(k, n) = Min({n, TARGET})
    BY <1>2 DEF Left, Body
  <2> QED BY <1>0, <1>2, <2>1, MinMaxOfTwo
<1>3. CASE k \notin {"cancel", "reduce_to"}
  <2>1. Left(k, n) = Max({0, n - STEP})
    BY <1>3 DEF Left, Body
  <2>2. Max({0, n - STEP}) = IF 0 <= n - STEP THEN n - STEP ELSE 0
    <3> DEFINE m == n - STEP
    <3>1. m \in Int /\ 0 \in Int
      BY <1>0
    <3> HIDE DEF m
    <3>2. Max({0, m}) = IF 0 <= m THEN m ELSE 0
      BY <3>1, MinMaxOfTwo
    <3> QED BY <3>2 DEF m
  <2> QED BY <1>0, <1>3, <2>1, <2>2
<1> QED BY <1>1, <1>2, <1>3

-----------------------------------------------------------------------------
(* The inductive invariant.                                                *)

\* The dispatches that hold a slot.
Underway == { f \in Fires : kind[f] \in Fire /\ pc[f] \in Waiting }

\* A task about to send has requests left; one not begun, or a misused change, has
\* sent none.
AttemptsLeft ==
  \A f \in Fires :
    /\ pc[f] = "new" => attempt[f] = 0
    /\ pc[f] \in {"acquire", "backoff"} => attempt[f] < ATTEMPTS
    /\ kind[f] = "misused" => attempt[f] = 0 /\ pc[f] \notin Waiting

\* What is on the wire or at the exchange was sent, under the one client_order_id.
RequestsSent ==
  /\ \A f \in Fires, n \in 1..ATTEMPTS : <<f, n>> \in wire => n <= attempt[f]
  /\ \A f \in Fires, n \in 0..ATTEMPTS : <<f, n>> \in placed => n = 0 /\ attempt[f] > 0
  /\ \A f \in traded : <<f, 0>> \in placed
  /\ \A f \in Fires : attempt[f] = 1 /\ <<f, 0>> \in placed => <<f, 1>> \notin wire

\* A fire under way is counted and its row is pending; one that sent a request
\* never has the row of a refusal.
Counted ==
  \A f \in Fires : kind[f] \in Fire =>
    /\ pc[f] \in Waiting => f \in attempted /\ row[f] = "pending"
    /\ attempt[f] > 0 => f \in attempted /\ row[f] \in OrderStatus

\* The exchange has no order of the fire and no request of it is on the way there.
NeverThere(f) == <<f, 0>> \notin placed /\ \A n \in 1..ATTEMPTS : <<f, n>> \notin wire

\* What an answered or recorded outcome tells of the exchange is true, and stays so.
Told(f, outcome) ==
  /\ outcome \in {"filled", "nofill", "mute"} => <<f, 0>> \in placed
  /\ outcome = "filled" => f \in traded
  /\ outcome = "nofill" => Rests \/ f \notin traded
  /\ outcome = "refused" => f \in unheard \/ NeverThere(f)
  /\ outcome \in {"done", "gone"} => kind[f] \in Change
  /\ outcome = "gone" => resting = 0
  /\ outcome = "done" /\ kind[f] = "cancel" => resting = 0
  /\ outcome = "done" /\ kind[f] = "reduce_to" => resting <= TARGET

AnswersTrue == \A f \in Fires : Told(f, reply[f])

RowsHonest ==
  \A f \in Fires :
    /\ row[f] \in {"submitted", "accepted", "filled", "canceled"} => <<f, 0>> \in placed
    /\ row[f] = "filled" => f \in traded
    /\ row[f] = "canceled" => ~Rests /\ f \notin traded
    /\ row[f] = "error" => kind[f] \in Fire /\ (f \in unheard \/ NeverThere(f))

\* A request is repeated only after one that went unanswered.
Repeated ==
  \A f \in Fires : attempt[f] > 1 \/ (attempt[f] > 0 /\ pc[f] \in {"acquire", "backoff"})
                     => f \in unheard

\* A cached "no" dates from before the switch was engaged.
CacheHonest ==
  /\ checkedAt <= now /\ engagedAt <= now
  /\ cached = "no" /\ file => checkedAt <= engagedAt

TimedOutEnded == \A f \in timedOut : pc[f] = "finished"

\* What has not passed the switch has no age to show.
Undecided == \A f \in Fires : pc[f] = "new" => haltAge[f] = -1

OnWire(f) == { n \in 1..ATTEMPTS : <<f, n>> \in wire }

\* Every effect of a change used up one of its requests, and after that of a cancel
\* or a reduce_to there is nothing left for a second one to take.
EffectsPaid ==
  \A f \in Fires :
    /\ effects[f] + Cardinality(OnWire(f)) <= attempt[f]
    /\ kind[f] \in Fire => effects[f] = 0
    /\ kind[f] \in {"cancel", "reduce_to"} => effects[f] <= 1
    /\ kind[f] = "cancel" /\ effects[f] > 0 => resting = 0
    /\ kind[f] = "reduce_to" /\ effects[f] > 0 => resting <= TARGET

IInv ==
  /\ TypeOK /\ IsFiniteSet(Underway)
  /\ AttemptsLeft /\ RequestsSent /\ Counted /\ AnswersTrue /\ CacheHonest
  /\ TimedOutEnded /\ EffectsPaid /\ Undecided
  /\ RowsHonest /\ Repeated /\ HaltHonored /\ ChangesAsReported

-----------------------------------------------------------------------------
(* Steps that neither send nor receive anything.                           *)

\* With the requests, the exchange and the book as they were, what is known of them
\* stays true.
LEMMA QuietFrame ==
  ASSUME IInv, UNCHANGED <<given, attempt, exchange, book, unheard>>
  PROVE  RequestsSent' /\ AnswersTrue' /\ EffectsPaid'
<1>1. RequestsSent'
  BY DEF IInv, RequestsSent, exchange
<1>2. AnswersTrue'
  BY DEF IInv, AnswersTrue, Told, NeverThere, Rests, given, exchange, book
<1>3. EffectsPaid'
  BY DEF IInv, EffectsPaid, OnWire, given, exchange, book
<1> QED BY <1>1, <1>2, <1>3

\* No dispatch begins or ends.
LEMMA SlotsFrame ==
  ASSUME IInv, UNCHANGED <<kind, slots>>,
         \A f \in Fires : kind[f] \in Fire => (pc'[f] \in Waiting <=> pc[f] \in Waiting)
  PROVE  slots' = Cardinality(Underway') /\ IsFiniteSet(Underway')
<1>1. Underway' = Underway
  BY DEF Underway
<1>2. slots = Cardinality(Underway) /\ IsFiniteSet(Underway)
  BY DEF IInv, TypeOK, Underway
<1> QED BY <1>1, <1>2

\* The operator's process creates or removes the switch file, or time passes.
LEMMA OutsideKeeps ==
  ASSUME IInv, engage \/ release \/ Tick
  PROVE  IInv'
<1> USE DEF engage, release, Tick, given, killVars, cacheVars, exchange, book
<1>1. RequestsSent' /\ AnswersTrue' /\ EffectsPaid'
  BY QuietFrame
<1>2. slots' = Cardinality(Underway') /\ IsFiniteSet(Underway')
  BY SlotsFrame
<1>3. TypeOK'
  <2>1. now \in Nat /\ toggles \in Nat /\ engagedAt \in Nat /\ file \in BOOLEAN
    BY DEF IInv, TypeOK
  <2>2. now' \in Nat /\ toggles' \in Nat /\ engagedAt' \in Nat
    BY <2>1
  <2>3. file' \in BOOLEAN
    BY <2>1, Zenon
  <2> QED BY <1>2, <2>2, <2>3 DEF IInv, TypeOK, Underway
<1>4. AttemptsLeft' /\ Counted'
  BY DEF IInv, AttemptsLeft, Counted
<1>5. CacheHonest'
  BY DEF IInv, CacheHonest, TypeOK
<1>6. TimedOutEnded' /\ RowsHonest' /\ Repeated' /\ HaltHonored' /\ Undecided' /\ ChangesAsReported'
  BY DEF IInv, TimedOutEnded, RowsHonest, Repeated, NeverThere, Rests, HaltHonored, Undecided,
         ChangesAsReported
<1> QED BY <1>1, <1>2, <1>3, <1>4, <1>5, <1>6 DEF IInv

\* is_engaged() writes what the file said just now into the cache.
LEMMA RecheckHonest ==
  ASSUME TypeOK, CacheHonest, Recheck, UNCHANGED <<now, killVars>>
  PROVE  /\ CacheHonest'
         /\ cached' \in {"none", "yes", "no"} /\ checkedAt' \in Nat
BY DEF TypeOK, CacheHonest, Recheck, CacheFresh, killVars, cacheVars

\* A fire or a change that ends before it sends anything.
LEMMA RefuseKeeps ==
  ASSUME IInv, NEW f \in Fires,
         \/ RefuseUntradeable(f) \/ RefuseVolume(f) \/ RefuseHalted(f) \/ RefuseRisk(f)
         \/ RefuseGuard(f) \/ ShadowFire(f) \/ RefuseChange(f)
  PROVE  IInv'
<1>0. /\ pc[f] = "new" /\ pc' = [pc EXCEPT ![f] = "finished"]
      /\ row' = row \/ \E s \in {"none", "rejected"} : row' = [row EXCEPT ![f] = s]
      /\ returned' = returned \/ returned' = [returned EXCEPT ![f] = "error"]
      /\ attempted' = attempted \/ attempted' = attempted \cup {f}
      /\ UNCHANGED <<given, attempt, exchange, book, slots, now, killVars, haltAge, timedOut,
                     unheard>>
      /\ UNCHANGED cacheVars \/ Recheck
  BY DEF RefuseUntradeable, RefuseVolume, RefuseHalted, RefuseRisk, RefuseGuard, ShadowFire,
         RefuseChange, Finish, Sized, given
<1>b. kind' = kind /\ time_in_force' = time_in_force
  BY <1>0 DEF given
<1>a. pc \in [Fires -> {"new", "finished"} \cup Waiting] /\ row \in [Fires -> Statuses]
  BY DEF IInv, TypeOK
<1>1. RequestsSent' /\ AnswersTrue' /\ EffectsPaid'
  BY <1>0, QuietFrame
<1>2. slots' = Cardinality(Underway') /\ IsFiniteSet(Underway')
  BY <1>0, <1>a, <1>b, SlotsFrame DEF Waiting
<1>3. CacheHonest' /\ cached' \in {"none", "yes", "no"} /\ checkedAt' \in Nat
  <2>1. CASE UNCHANGED cacheVars
    BY <1>0, <2>1 DEF IInv, CacheHonest, TypeOK, cacheVars, killVars
  <2>2. CASE Recheck
    BY <1>0, <2>2, RecheckHonest DEF IInv
  <2> QED BY <1>0, <2>1, <2>2
<1>4. TypeOK'
  BY <1>0, <1>b, <1>2, <1>3 DEF IInv, TypeOK, Underway, Statuses, exchange, book, killVars
<1>5. AttemptsLeft'
  BY <1>0, <1>a, <1>b DEF IInv, AttemptsLeft, Waiting
<1>6. Counted'
  BY <1>0, <1>a, <1>b DEF IInv, AttemptsLeft, Counted, Waiting
<1>7. TimedOutEnded' /\ HaltHonored' /\ Undecided'
  BY <1>0, <1>a DEF IInv, TimedOutEnded, HaltHonored, Undecided, Waiting
<1>8. RowsHonest' /\ Repeated'
  BY <1>0, <1>a, <1>b DEF IInv, RowsHonest, Repeated, NeverThere, Rests, AttemptsLeft, exchange
<1>9. ChangesAsReported'
  BY <1>0, <1>b DEF IInv, TypeOK, ChangesAsReported, book
<1> QED BY <1>1, <1>2, <1>3, <1>4, <1>5, <1>6, <1>7, <1>8, <1>9 DEF IInv

\* A fire is let through only on a "no" that is younger than ttl_seconds, or on a look
\* at the file just now.
LEMMA LetThroughInTime ==
  ASSUME TypeOK, CacheHonest, ~is_engaged
  PROVE  Age < TTL \/ Age = -1
<1>0. TTL \in Nat /\ now \in Nat /\ engagedAt \in Nat /\ checkedAt \in Nat
  BY PathConstants DEF TypeOK
<1>1. CASE CacheFresh
  <2>1. cached = "no" /\ now - checkedAt < TTL
    BY <1>1 DEF is_engaged, CacheFresh, TypeOK
  <2>2. file => now - engagedAt < TTL
    BY <1>0, <2>1 DEF CacheHonest
  <2> QED BY <1>0, <2>2 DEF Age
<1>2. CASE ~CacheFresh
  BY <1>2 DEF is_engaged, Age
<1> QED BY <1>1, <1>2

\* Dispatch: the attempt is counted, the slot taken and the pending row written
\* before the fire's task waits for the first time.
LEMMA DispatchKeeps ==
  ASSUME IInv, NEW f \in Fires, Dispatch(f)
  PROVE  IInv'
<1>0. /\ pc[f] = "new" /\ kind[f] = "real" /\ ~is_engaged /\ Recheck
      /\ pc' = [pc EXCEPT ![f] = "acquire"] /\ row' = [row EXCEPT ![f] = "pending"]
      /\ attempted' = attempted \cup {f} /\ slots' = slots + 1
      /\ haltAge' = [haltAge EXCEPT ![f] = Age]
      /\ UNCHANGED <<given, attempt, exchange, book, returned, now, killVars, timedOut, unheard>>
  BY DEF Dispatch, Sized
<1>b. kind' = kind /\ time_in_force' = time_in_force
  BY <1>0 DEF given
<1>a. pc \in [Fires -> {"new", "finished"} \cup Waiting] /\ row \in [Fires -> Statuses]
      /\ haltAge \in [Fires -> Int]
  BY DEF IInv, TypeOK
<1>1. RequestsSent' /\ AnswersTrue' /\ EffectsPaid'
  BY <1>0, QuietFrame
<1>2. slots' = Cardinality(Underway') /\ IsFiniteSet(Underway')
  <2>1. slots = Cardinality(Underway) /\ IsFiniteSet(Underway)
    BY DEF IInv, TypeOK, Underway
  <2>2. f \notin Underway /\ Underway' = Underway \cup {f}
    BY <1>0, <1>a, <1>b DEF Underway, Waiting, Fire
  <2> QED BY <1>0, <2>1, <2>2, FS_AddElement
<1>3. CacheHonest' /\ cached' \in {"none", "yes", "no"} /\ checkedAt' \in Nat
  BY <1>0, RecheckHonest DEF IInv
<1>4. HaltHonored' /\ Undecided' /\ Age \in Int
  <2>1. Age < TTL \/ Age = -1
    BY <1>0, LetThroughInTime DEF IInv
  <2>2. Age \in Int
    BY PathConstants DEF Age, IInv, TypeOK
  <2> QED BY <1>0, <1>a, <2>1, <2>2 DEF IInv, HaltHonored, Undecided
<1>5. TypeOK'
  BY <1>0, <1>b, <1>2, <1>3, <1>4
     DEF IInv, TypeOK, Underway, Statuses, OrderStatus, Waiting, exchange, book, killVars
<1>6. AttemptsLeft'
  BY <1>0, <1>a, <1>b, PathConstants DEF IInv, AttemptsLeft
<1>7. Counted'
  BY <1>0, <1>a, <1>b DEF IInv, Counted, OrderStatus
<1>8. TimedOutEnded' /\ RowsHonest' /\ Repeated'
  BY <1>0, <1>a, <1>b
     DEF IInv, TimedOutEnded, RowsHonest, Repeated, NeverThere, Rests, AttemptsLeft, exchange
<1>9. ChangesAsReported'
  BY <1>0, <1>b DEF IInv, ChangesAsReported, book
<1> QED BY <1>1, <1>2, <1>3, <1>4, <1>5, <1>6, <1>7, <1>8, <1>9 DEF IInv

\* A change begins, or the back-off of a task ends.
LEMMA ToTheLimiterKeeps ==
  ASSUME IInv, NEW f \in Fires, BeginChange(f) \/ WakeUp(f)
  PROVE  IInv'
<1>0. \/ pc[f] = "new" /\ kind[f] \in Change \ {"misused"}
      \/ pc[f] = "backoff"
      /\ pc' = [pc EXCEPT ![f] = "acquire"]
      /\ UNCHANGED <<given, attempt, exchange, book, returned, now, killVars, cacheVars, attempted,
                     slots, row, haltAge, timedOut, unheard>>
  BY DEF BeginChange, WakeUp, exchange
<1>b. kind' = kind /\ time_in_force' = time_in_force
  BY <1>0 DEF given
<1>a. pc \in [Fires -> {"new", "finished"} \cup Waiting]
  BY DEF IInv, TypeOK
<1>1. RequestsSent' /\ AnswersTrue' /\ EffectsPaid'
  BY <1>0, QuietFrame
<1>2. slots' = Cardinality(Underway') /\ IsFiniteSet(Underway')
  BY <1>0, <1>a, <1>b, SlotsFrame DEF Waiting, Change, Fire
<1>3. TypeOK'
  BY <1>0, <1>b, <1>2 DEF IInv, TypeOK, Underway, Waiting, exchange, book, killVars, cacheVars
<1>4. AttemptsLeft' /\ Counted'
  BY <1>0, <1>a, <1>b, PathConstants DEF IInv, AttemptsLeft, Counted, Waiting, Change, Fire
<1>5. TimedOutEnded' /\ RowsHonest' /\ Repeated'
  BY <1>0, <1>a, <1>b
     DEF IInv, TimedOutEnded, RowsHonest, Repeated, NeverThere, Rests, AttemptsLeft, exchange
<1>6. HaltHonored' /\ Undecided' /\ CacheHonest'
  <2>1. HaltHonored' /\ Undecided'
    BY <1>0, <1>a DEF IInv, HaltHonored, Undecided, Waiting
  <2> QED BY <1>0, <2>1 DEF IInv, CacheHonest, killVars, cacheVars
<1>7. ChangesAsReported'
  BY <1>0, <1>b DEF IInv, ChangesAsReported, book
<1> QED BY <1>1, <1>2, <1>3, <1>4, <1>5, <1>6, <1>7 DEF IInv

-----------------------------------------------------------------------------
(* Requests and answers.                                                   *)

LEMMA OnWireFinite ==
  ASSUME TypeOK, NEW f \in Fires
  PROVE  IsFiniteSet(OnWire(f)) /\ Cardinality(OnWire(f)) \in Nat
<1>1. IsFiniteSet(1..ATTEMPTS)
  BY PathConstants, FS_Interval
<1>2. OnWire(f) \subseteq 1..ATTEMPTS
  BY DEF OnWire
<1> QED BY <1>1, <1>2, FS_Subset, FS_CardinalityType

\* A request that leaves the wire leaves no more of them there.
LEMMA OnWireShrinks ==
  ASSUME TypeOK, wire' \subseteq wire
  PROVE  \A f \in Fires : Cardinality(OnWire(f)') <= Cardinality(OnWire(f))
                          /\ Cardinality(OnWire(f)') \in Nat
<1> SUFFICES ASSUME NEW f \in Fires
             PROVE  Cardinality(OnWire(f)') <= Cardinality(OnWire(f))
                    /\ Cardinality(OnWire(f)') \in Nat
  OBVIOUS
<1>1. OnWire(f)' \subseteq OnWire(f)
  BY DEF OnWire
<1> QED BY <1>1, OnWireFinite, FS_Subset, FS_CardinalityType

\* The request of a task is numbered above all of its earlier ones.
LEMMA RequestKeeps ==
  ASSUME IInv, NEW f \in Fires, _request(f)
  PROVE  IInv'
<1> DEFINE n == attempt[f] + 1
<1>0. /\ pc[f] = "acquire" /\ pc' = [pc EXCEPT ![f] = "sent"]
      /\ attempt' = [attempt EXCEPT ![f] = n] /\ wire' = wire \cup {<<f, n>>}
      /\ reply' = [reply EXCEPT ![f] = "none"]
      /\ UNCHANGED <<given, resting, effects, returned, now, killVars, cacheVars, attempted, slots,
                     row, placed, traded, haltAge, timedOut, unheard>>
      /\ kind' = kind /\ time_in_force' = time_in_force
  BY DEF _request, book, given
<1>a. /\ pc \in [Fires -> {"new", "finished"} \cup Waiting]
      /\ attempt \in [Fires -> 0..ATTEMPTS] /\ wire \subseteq Fires \X (1..ATTEMPTS)
      /\ reply \in [Fires -> Replies] /\ "none" \in Replies
      /\ ATTEMPTS \in Nat
  BY PathConstants DEF IInv, TypeOK, Replies
<1>b. attempt[f] < ATTEMPTS /\ n \in 1..ATTEMPTS /\ kind[f] # "misused"
  BY <1>0, <1>a DEF IInv, AttemptsLeft, Waiting
<1>1. slots' = Cardinality(Underway') /\ IsFiniteSet(Underway')
  BY <1>0, <1>a, SlotsFrame DEF Waiting
<1>2. TypeOK'
  BY <1>0, <1>a, <1>b, <1>1 DEF IInv, TypeOK, Underway, Waiting, killVars, cacheVars
<1>3. AttemptsLeft' /\ RequestsSent'
  BY <1>0, <1>a, <1>b DEF IInv, AttemptsLeft, RequestsSent
<1>4. Counted'
  BY <1>0, <1>a DEF IInv, Counted, Waiting, OrderStatus
<1>5. AnswersTrue'
  <2> SUFFICES ASSUME NEW g \in Fires PROVE Told(g, reply[g])'
    BY DEF AnswersTrue
  <2>1. CASE g = f
    BY <1>0, <1>a, <2>1 DEF Told
  <2>2. CASE g # f
    <3>1. reply'[g] = reply[g] /\ Told(g, reply[g]) /\ (NeverThere(g) => NeverThere(g)')
      BY <1>0, <1>a, <2>2 DEF IInv, AnswersTrue, NeverThere
    <3> QED BY <1>0, <3>1 DEF Told, Rests
  <2> QED BY <2>1, <2>2
<1>6. EffectsPaid'
  <2>1. \A g \in Fires : effects[g] + Cardinality(OnWire(g)') <= attempt'[g]
    <3> SUFFICES ASSUME NEW g \in Fires
                 PROVE  effects[g] + Cardinality(OnWire(g)') <= attempt'[g]
      OBVIOUS
    <3>0. /\ effects[g] + Cardinality(OnWire(g)) <= attempt[g] /\ effects[g] \in Nat
          /\ IsFiniteSet(OnWire(g)) /\ Cardinality(OnWire(g)) \in Nat
      BY <1>a, OnWireFinite DEF IInv, EffectsPaid, TypeOK
    <3>1. CASE g = f
      <4>1. n \notin OnWire(f)
        BY <1>a, <1>b DEF IInv, RequestsSent, OnWire
      <4>2. OnWire(f)' = OnWire(f) \cup {n}
        BY <1>0, <1>b DEF OnWire
      <4>3. Cardinality(OnWire(f)') = Cardinality(OnWire(f)) + 1
        BY <3>0, <3>1, <4>1, <4>2, FS_AddElement
      <4> QED BY <1>0, <1>a, <3>0, <3>1, <4>3
    <3>2. CASE g # f
      <4>1. OnWire(g)' = OnWire(g)
        BY <1>0, <3>2 DEF OnWire
      <4> QED BY <1>0, <1>a, <3>0, <3>2, <4>1
    <3> QED BY <3>1, <3>2
  <2> QED BY <1>0, <2>1 DEF IInv, EffectsPaid
<1>7. CacheHonest' /\ ChangesAsReported'
  BY <1>0 DEF IInv, CacheHonest, ChangesAsReported, killVars, cacheVars
<1>8. TimedOutEnded' /\ RowsHonest' /\ Repeated' /\ HaltHonored' /\ Undecided'
  <2>1. RowsHonest'
    <3>1. row[f] # "error"
      BY <1>0 DEF IInv, RowsHonest, Counted, Waiting
    <3>2. \A g \in Fires : g # f /\ NeverThere(g) => NeverThere(g)'
      BY <1>0 DEF NeverThere
    <3> QED BY <1>0, <3>1, <3>2 DEF IInv, RowsHonest, Rests
  <2>2. Repeated'
    BY <1>0, <1>a DEF IInv, Repeated
  <2> QED BY <1>0, <1>a, <2>1, <2>2 DEF IInv, TimedOutEnded, HaltHonored, Undecided, Waiting
<1> QED BY <1>1, <1>2, <1>3, <1>4, <1>5, <1>6, <1>7, <1>8 DEF IInv

\* What a task makes of the end of its request, be it an answer, a broken connection
\* or a timeout: it backs off while requests are left, or it is over, and then its
\* slot is back and what it records or returns is true.
LEMMA SettleKeeps ==
  ASSUME IInv, NEW f \in Fires, NEW outcome, pc[f] = "sent", Settle(f, outcome),
         outcome \in (Replies \ {"none"}) \cup {"disconnected", "timeout"}, Told(f, outcome),
         reply' = [reply EXCEPT ![f] = "none"], wire' \subseteq wire,
         timedOut' = timedOut \/ (outcome = "timeout" /\ timedOut' = timedOut \cup {f}),
         UNCHANGED <<given, resting, effects, now, killVars, cacheVars, attempted, placed, traded,
                     haltAge>>
  PROVE  IInv'
<1>a. /\ pc \in [Fires -> {"new", "finished"} \cup Waiting] /\ kind \in [Fires -> Kinds]
      /\ attempt \in [Fires -> 0..ATTEMPTS] /\ row \in [Fires -> Statuses]
      /\ reply \in [Fires -> Replies] /\ "none" \in Replies
      /\ returned \in [Fires -> {"none", "done", "gone", "error"}]
      /\ ATTEMPTS \in Nat
      /\ slots = Cardinality(Underway) /\ IsFiniteSet(Underway)
  BY PathConstants DEF IInv, TypeOK, Underway, Replies
<1>b. /\ attempt' = attempt /\ kind' = kind /\ time_in_force' = time_in_force
      /\ unheard' = unheard \/ unheard' = unheard \cup {f}
      /\ outcome \in {"unavailable", "disconnected", "timeout"} => f \in unheard'
  BY DEF Settle, Unheard, given
<1>j. reply' \in [Fires -> Replies] /\ unheard' \subseteq Fires /\ timedOut' \subseteq Fires
  BY <1>a, <1>b DEF IInv, TypeOK
<1>g. \A g \in Fires : NeverThere(g) => NeverThere(g)'
  BY DEF NeverThere
<1>c. \/ /\ pc' = [pc EXCEPT ![f] = "backoff"] /\ attempt[f] < ATTEMPTS
         /\ UNCHANGED <<row, slots, returned, timedOut>> /\ f \in unheard'
      \/ pc' = [pc EXCEPT ![f] = "finished"] /\ Conclude(f, outcome)
  BY <1>b DEF Settle, Conclude, ConcludeFire, Finish, Retryable
<1> DEFINE Own == /\ TypeOK /\ IsFiniteSet(Underway) /\ AttemptsLeft /\ Counted
                  /\ TimedOutEnded /\ RowsHonest /\ Repeated /\ HaltHonored /\ Undecided
                  /\ ChangesAsReported
<1>d. ASSUME pc' = [pc EXCEPT ![f] = "backoff"], attempt[f] < ATTEMPTS,
             UNCHANGED <<row, slots, returned, timedOut>>, f \in unheard'
      PROVE  Own'
  <2>1. slots' = Cardinality(Underway') /\ IsFiniteSet(Underway')
    BY <1>a, <1>b, <1>d, SlotsFrame DEF Waiting
  <2>2. TypeOK'
    BY <1>a, <1>b, <1>d, <1>j, <2>1 DEF IInv, TypeOK, Underway, Waiting, killVars, cacheVars
  <2>3. AttemptsLeft' /\ Counted'
    BY <1>a, <1>b, <1>d DEF IInv, AttemptsLeft, Counted, Waiting
  <2>4. TimedOutEnded' /\ HaltHonored' /\ Undecided' /\ ChangesAsReported'
    BY <1>a, <1>b, <1>d DEF IInv, TimedOutEnded, HaltHonored, Undecided, Waiting, ChangesAsReported
  <2>5. RowsHonest' /\ Repeated'
    BY <1>a, <1>b, <1>d, <1>g DEF IInv, RowsHonest, Repeated, Rests, Waiting
  <2> QED BY <2>1, <2>2, <2>3, <2>4, <2>5
<1>h. /\ StatusOf(outcome) \in {"submitted", "accepted", "filled", "canceled", "error"}
      /\ StatusOf(outcome) = "filled" <=> outcome = "filled"
      /\ StatusOf(outcome) \in {"accepted", "canceled"} <=> outcome = "nofill"
      /\ StatusOf(outcome) = "canceled" => ~Rests
      /\ StatusOf(outcome) = "submitted" <=> outcome = "mute"
  BY DEF StatusOf
<1>i. /\ outcome = "gone" => resting = 0
      /\ outcome = "done" /\ kind[f] = "cancel" => resting = 0
      /\ outcome = "done" /\ kind[f] = "reduce_to" => resting <= TARGET
  BY DEF Told
<1>e. ASSUME pc' = [pc EXCEPT ![f] = "finished"], Conclude(f, outcome)
      PROVE  Own'
  <2>1. slots' = Cardinality(Underway') /\ IsFiniteSet(Underway')
    <3>1. CASE kind[f] \in Fire
      <4>1. slots' = slots - 1
        BY <1>e, <3>1 DEF Conclude, ConcludeFire
      <4>2. f \in Underway /\ Underway' = Underway \ {f}
        BY <1>a, <1>b, <1>e, <3>1 DEF Underway, Waiting
      <4> QED BY <1>a, <4>1, <4>2, FS_RemoveElement
    <3>2. CASE kind[f] \notin Fire
      BY <1>a, <1>b, <1>e, <3>2, SlotsFrame DEF Conclude
    <3> QED BY <3>1, <3>2
  <2>2. row' = row \/ (kind[f] \in Fire /\ row' = [row EXCEPT ![f] = StatusOf(outcome)])
    BY <1>e DEF Conclude, ConcludeFire, Finish
  <2>3. returned' = returned
          \/ (kind[f] \notin Fire /\ returned' = [returned EXCEPT ![f] = AnswerOf(outcome)])
    BY <1>e DEF Conclude
  <2>4. TypeOK'
    <3>1. row' \in [Fires -> Statuses]
      BY <1>a, <1>h, <2>2 DEF Statuses, OrderStatus
    <3>2. returned' \in [Fires -> {"none", "done", "gone", "error"}]
      BY <1>a, <2>3 DEF AnswerOf
    <3>3. pc' \in [Fires -> {"new", "finished"} \cup Waiting]
      BY <1>a, <1>e
    <3> QED BY <1>b, <1>j, <2>1, <3>1, <3>2, <3>3
            DEF IInv, TypeOK, Underway, killVars, cacheVars
  <2>5. AttemptsLeft'
    BY <1>a, <1>b, <1>e DEF IInv, AttemptsLeft, Waiting
  <2>6. Counted'
    BY <1>a, <1>b, <1>e, <1>h, <2>2 DEF IInv, Counted, Waiting, OrderStatus
  <2>7. TimedOutEnded' /\ HaltHonored' /\ Undecided'
    BY <1>a, <1>b, <1>e DEF IInv, TimedOutEnded, HaltHonored, Undecided, Waiting
  <2>8. RowsHonest' /\ Repeated'
    <3>1. StatusOf(outcome) = "error" /\ kind[f] \in Fire => f \in unheard' \/ NeverThere(f)'
      BY <1>b, <1>g, <1>h DEF Told, Replies, Fire, Change
    <3>2. RowsHonest'
      <4>1. CASE row' = row
        BY <1>b, <1>g, <4>1 DEF IInv, RowsHonest, Rests
      <4>2. CASE kind[f] \in Fire /\ row' = [row EXCEPT ![f] = StatusOf(outcome)]
        <5>1. row'[f] = StatusOf(outcome) /\ \A g \in Fires \ {f} : row'[g] = row[g]
          BY <1>a, <4>2
        <5>2. /\ StatusOf(outcome) # "error" => <<f, 0>> \in placed
              /\ StatusOf(outcome) = "filled" => f \in traded
              /\ StatusOf(outcome) = "canceled" => ~Rests /\ f \notin traded
          BY <1>h DEF Told
        <5> QED BY <1>b, <1>g, <3>1, <4>2, <5>1, <5>2 DEF IInv, RowsHonest, Rests
      <4> QED BY <2>2, <4>1, <4>2
    <3>3. Repeated'
      BY <1>a, <1>b, <1>e DEF IInv, Repeated
    <3> QED BY <3>2, <3>3
  <2>9. ChangesAsReported'
    BY <1>a, <1>b, <1>i, <2>3 DEF IInv, ChangesAsReported, AnswerOf
  <2> QED BY <2>1, <2>4, <2>5, <2>6, <2>7, <2>8, <2>9
<1>1. Own'
  BY <1>c, <1>d, <1>e
<1>2. RequestsSent' /\ AnswersTrue' /\ CacheHonest'
  <2>1. AnswersTrue'
    <3> SUFFICES ASSUME NEW g \in Fires PROVE Told(g, reply[g])'
      BY DEF AnswersTrue
    <3>1. (reply'[g] = reply[g] \/ reply'[g] = "none") /\ Told(g, reply[g])
      BY <1>a DEF IInv, AnswersTrue
    <3> QED BY <1>b, <1>g, <3>1 DEF Told, Rests
  <2> QED BY <1>a, <1>b, <2>1 DEF IInv, RequestsSent, CacheHonest, killVars, cacheVars
<1>3. EffectsPaid'
  <2>1. \A g \in Fires : effects[g] + Cardinality(OnWire(g)') <= attempt[g]
    BY <1>a, OnWireShrinks, OnWireFinite DEF IInv, EffectsPaid, TypeOK
  <2> QED BY <1>b, <2>1 DEF IInv, EffectsPaid
<1> QED BY <1>1, <1>2, <1>3 DEF IInv

\* The three ways a waiting request ends.
LEMMA RequestEndsKeeps ==
  ASSUME IInv, NEW f \in Fires, Respond(f) \/ Disconnect(f) \/ Timeout(f)
  PROVE  IInv'
<1>1. CASE Respond(f)
  <2>1. Told(f, reply[f]) /\ reply[f] \in Replies
    BY DEF IInv, AnswersTrue, TypeOK
  <2> QED BY <1>1, <2>1, SettleKeeps DEF Respond, book
<1>2. CASE Disconnect(f)
  <2>1. Told(f, "disconnected")
    BY DEF Told
  <2> QED BY <1>2, <2>1, SettleKeeps DEF Disconnect, book
<1>3. CASE Timeout(f)
  <2>1. Told(f, "timeout")
    BY DEF Told
  <2> QED BY <1>3, <2>1, SettleKeeps DEF Timeout, book
<1> QED BY <1>1, <1>2, <1>3

-----------------------------------------------------------------------------
(* The exchange.                                                           *)

\* The exchange, or its market, does something: of the tasks' state only an answer on
\* its way changes.
LEMMA ExchangeFrame ==
  ASSUME IInv, wire' \subseteq wire, placed \subseteq placed', traded \subseteq traded',
         traded' \subseteq Fires, \A f \in traded' : <<f, 0>> \in placed',
         \A f \in Fires : /\ f \in traded' \ traded => Rests \/ <<f, 0>> \notin placed
                          /\ NeverThere(f) => NeverThere(f)'
                          /\ attempt[f] = 1 /\ <<f, 0>> \in placed' => <<f, 1>> \notin wire',
         placed' \subseteq placed \cup { <<f, 0>> : f \in { g \in Fires : attempt[g] > 0 } },
         reply' \in [Fires -> Replies],
         resting' \in 0..resting, effects' \in [Fires -> 0..ATTEMPTS],
         kind' = kind, time_in_force' = time_in_force,
         UNCHANGED <<returned, now, killVars, cacheVars, pc, attempt, attempted, slots, row,
                     haltAge, timedOut, unheard>>
  PROVE  /\ TypeOK' /\ IsFiniteSet(Underway')
         /\ AttemptsLeft' /\ RequestsSent' /\ Counted' /\ CacheHonest' /\ TimedOutEnded'
         /\ Undecided' /\ RowsHonest' /\ Repeated' /\ HaltHonored' /\ ChangesAsReported'
<1>0. /\ wire \subseteq Fires \X (1..ATTEMPTS) /\ placed \subseteq Fires \X (0..ATTEMPTS)
      /\ resting \in 0..RESTING /\ RESTING \in Nat /\ ATTEMPTS \in Nat
      /\ attempt \in [Fires -> 0..ATTEMPTS]
  BY PathConstants DEF IInv, TypeOK
<1>1. slots' = Cardinality(Underway') /\ IsFiniteSet(Underway')
  BY SlotsFrame
<1>2. placed' \subseteq Fires \X (0..ATTEMPTS)
  BY <1>0
<1>3. TypeOK'
  BY <1>0, <1>1, <1>2 DEF IInv, TypeOK, Underway, killVars, cacheVars
<1>4. RequestsSent'
  BY <1>0 DEF IInv, RequestsSent
<1>5. AttemptsLeft' /\ Counted' /\ CacheHonest'
  BY DEF IInv, AttemptsLeft, Counted, CacheHonest, killVars, cacheVars
<1>6. TimedOutEnded' /\ Undecided' /\ RowsHonest' /\ Repeated' /\ HaltHonored'
  <2>1. RowsHonest'
    BY DEF IInv, RowsHonest, Rests
  <2> QED BY <2>1 DEF IInv, TimedOutEnded, Undecided, Repeated, HaltHonored
<1>7. ChangesAsReported'
  BY <1>0, PathConstants DEF IInv, ChangesAsReported
<1> QED BY <1>1, <1>3, <1>4, <1>5, <1>6, <1>7

\* An answer that was true stays true: the order at rest only shrinks, and what the
\* exchange has of a fire it keeps.
LEMMA AnswersStay ==
  ASSUME IInv, resting' \in 0..resting, kind' = kind, time_in_force' = time_in_force,
         unheard' = unheard, placed \subseteq placed', traded \subseteq traded', NEW f \in Fires,
         f \in traded' \ traded => Rests \/ <<f, 0>> \notin placed,
         NeverThere(f) => NeverThere(f)', reply'[f] = reply[f]
  PROVE  Told(f, reply[f])'
<1>1. resting \in Nat /\ TARGET \in Nat
  BY PathConstants DEF IInv, TypeOK
<1>2. resting = 0 => resting' = 0
  BY <1>1
<1>3. resting <= TARGET => resting' <= TARGET
  BY <1>1
<1>4. Told(f, reply[f])
  BY DEF IInv, AnswersTrue
<1> QED BY <1>2, <1>3, <1>4 DEF Told, Rests

\* The exchange takes a request for an order: it opens one, or knows its id already.
LEMMA ReceiveKeeps ==
  ASSUME IInv, NEW f \in Fires, NEW n \in 1..ATTEMPTS, Receive(f, n)
  PROVE  IInv'
<1>0. /\ <<f, n>> \in wire /\ kind[f] \in Fire /\ wire' = wire \ {<<f, n>>}
      /\ UNCHANGED <<resting, effects, returned, now, killVars, cacheVars, pc, attempt,
                     attempted, slots, row, haltAge, timedOut, unheard>>
      /\ kind' = kind /\ time_in_force' = time_in_force
  BY DEF Receive, book, given
<1>1. /\ attempt[f] > 0 /\ attempt[f] >= n /\ attempt \in [Fires -> 0..ATTEMPTS]
      /\ reply \in [Fires -> Replies] /\ traded \subseteq Fires
      /\ resting \in 0..RESTING /\ effects \in [Fires -> 0..ATTEMPTS]
      /\ \A g \in traded : <<g, 0>> \in placed
  BY <1>0 DEF IInv, RequestsSent, TypeOK
<1>2. \/ /\ <<f, 0>> \notin placed /\ placed' = placed \cup {<<f, 0>>}
         /\ \/ traded' = traded \cup {f}
               /\ \E o \in {"filled", "mute", "unavailable"} : Answer(f, n, o)
            \/ traded' = traded
               /\ \E o \in {"nofill", "mute", "unavailable"} : Answer(f, n, o)
      \/ /\ placed' = placed /\ traded' = traded
         /\ \E o \in {"refused", "unavailable"} : Answer(f, n, o)
  BY DEF Receive, ClientOrderId
<1>3. /\ placed \subseteq placed' /\ traded \subseteq traded' /\ traded' \subseteq Fires
      /\ \A g \in traded' : <<g, 0>> \in placed'
      /\ placed' \subseteq placed \cup { <<g, 0>> : g \in { h \in Fires : attempt[h] > 0 } }
  BY <1>1, <1>2
<1>4. \A g \in Fires : /\ g \in traded' \ traded => Rests \/ <<g, 0>> \notin placed
                       /\ NeverThere(g) => NeverThere(g)'
                       /\ attempt[g] = 1 /\ <<g, 0>> \in placed' => <<g, 1>> \notin wire'
  <2> SUFFICES ASSUME NEW g \in Fires
               PROVE  /\ g \in traded' \ traded => Rests \/ <<g, 0>> \notin placed
                      /\ NeverThere(g) => NeverThere(g)'
                      /\ attempt[g] = 1 /\ <<g, 0>> \in placed' => <<g, 1>> \notin wire'
    OBVIOUS
  <2>1. g \in traded' \ traded => <<g, 0>> \notin placed
    BY <1>2
  <2>2. NeverThere(g) => g # f
    BY <1>0 DEF NeverThere
  <2>3. g # f => (<<g, 0>> \in placed' => <<g, 0>> \in placed)
    BY <1>2
  <2>4. attempt[g] = 1 /\ <<g, 0>> \in placed' => <<g, 1>> \notin wire'
    <3>1. CASE g = f
      BY <1>0, <1>1, <3>1
    <3>2. CASE g # f
      BY <1>0, <2>3, <3>2 DEF IInv, RequestsSent
    <3> QED BY <3>1, <3>2
  <2> QED BY <1>0, <2>1, <2>2, <2>3, <2>4 DEF NeverThere
<1>5. \/ reply' = reply
      \/ \E o \in Replies : /\ reply' = [reply EXCEPT ![f] = o] /\ attempt[f] = n
                            /\ \/ o = "unavailable"
                               \/ o = "refused" /\ placed' = placed
                               \/ o = "filled" /\ f \in traded' /\ <<f, 0>> \in placed'
                               \/ o = "mute" /\ <<f, 0>> \in placed'
                               \/ o = "nofill" /\ f \notin traded' /\ <<f, 0>> \in placed'
  <2>1. f \in traded => <<f, 0>> \in placed
    BY <1>1
  <2> QED BY <1>2, <2>1 DEF Answer, Replies
<1>6. reply' \in [Fires -> Replies]
  BY <1>1, <1>5
<1>7. /\ TypeOK' /\ IsFiniteSet(Underway')
      /\ AttemptsLeft' /\ RequestsSent' /\ Counted' /\ CacheHonest' /\ TimedOutEnded'
      /\ Undecided' /\ RowsHonest' /\ Repeated' /\ HaltHonored' /\ ChangesAsReported'
  <2>1. wire' \subseteq wire /\ resting' \in 0..resting /\ effects' \in [Fires -> 0..ATTEMPTS]
    BY <1>0, <1>1, PathConstants
  <2> QED BY <1>0, <1>3, <1>4, <1>6, <2>1, ExchangeFrame
<1>8. AnswersTrue'
  <2> SUFFICES ASSUME NEW g \in Fires PROVE Told(g, reply[g])'
    BY DEF AnswersTrue
  <2>1. resting' \in 0..resting
    BY <1>0, <1>1, PathConstants
  <2>2. CASE reply'[g] = reply[g]
    BY <1>0, <1>3, <1>4, <2>1, <2>2, AnswersStay
  <2>3. CASE reply'[g] # reply[g]
    <3>1. PICK o \in Replies :
            /\ g = f /\ reply'[f] = o /\ attempt[f] = n
            /\ \/ o = "unavailable"
               \/ o = "refused" /\ placed' = placed
               \/ o = "filled" /\ f \in traded' /\ <<f, 0>> \in placed'
               \/ o = "mute" /\ <<f, 0>> \in placed'
               \/ o = "nofill" /\ f \notin traded' /\ <<f, 0>> \in placed'
      BY <1>1, <1>5, <2>3
    <3>2. CASE o = "refused"
      \* The only request of the fire, or one after an unanswered one.
      <4>1. CASE attempt[f] > 1
        <5>1. f \in unheard'
          BY <1>0, <4>1 DEF IInv, Repeated
        <5> QED BY <3>1, <3>2, <5>1 DEF Told
      <4>2. CASE ~(attempt[f] > 1)
        <5>1. n = 1 /\ attempt[f] = 1
          BY <1>1, <3>1, <4>2
        <5>2. \A m \in 1..ATTEMPTS : <<f, m>> \notin wire'
          BY <1>0, <5>1 DEF IInv, RequestsSent
        <5>3. <<f, 0>> \notin placed' \/ f \in unheard'
          BY <1>0, <3>1, <3>2, <5>1 DEF IInv, RequestsSent
        <5> QED BY <3>1, <3>2, <5>2, <5>3 DEF Told, NeverThere
      <4> QED BY <4>1, <4>2
    <3>3. CASE o # "refused"
      BY <1>0, <3>1, <3>3 DEF Told, Rests
    <3> QED BY <3>2, <3>3
  <2> QED BY <2>2, <2>3
<1>9. EffectsPaid'
  <2>1. \A g \in Fires : effects[g] + Cardinality(OnWire(g)') <= attempt[g]
    BY <1>0, <1>1, OnWireShrinks, OnWireFinite DEF IInv, EffectsPaid
  <2> QED BY <1>0, <2>1 DEF IInv, EffectsPaid
<1> QED BY <1>7, <1>8, <1>9 DEF IInv

\* What rests executes: no row or answer said that it never would.
LEMMA TradeKeeps ==
  ASSUME IInv, NEW f \in Fires, Trade(f)
  PROVE  IInv'
<1>0. /\ Rests /\ (\E n \in 1..ATTEMPTS : <<f, 0>> \in placed) /\ traded' = traded \cup {f}
      /\ UNCHANGED <<resting, effects, returned, now, killVars, cacheVars, pc, attempt,
                     attempted, slots, row, wire, placed, reply, haltAge, timedOut, unheard>>
      /\ kind' = kind /\ time_in_force' = time_in_force
  BY DEF Trade, ClientOrderId, book, given
<1>1. /\ traded' \subseteq Fires /\ (\A g \in traded' : <<g, 0>> \in placed)
      /\ reply' \in [Fires -> Replies] /\ effects' \in [Fires -> 0..ATTEMPTS]
      /\ resting' \in 0..resting
  BY <1>0, PathConstants DEF IInv, TypeOK, RequestsSent
<1>2. \A g \in Fires : /\ NeverThere(g) => NeverThere(g)'
                       /\ attempt[g] = 1 /\ <<g, 0>> \in placed' => <<g, 1>> \notin wire'
  BY <1>0 DEF NeverThere, IInv, RequestsSent
<1>3. /\ TypeOK' /\ IsFiniteSet(Underway')
      /\ AttemptsLeft' /\ RequestsSent' /\ Counted' /\ CacheHonest' /\ TimedOutEnded'
      /\ Undecided' /\ RowsHonest' /\ Repeated' /\ HaltHonored' /\ ChangesAsReported'
  BY <1>0, <1>1, <1>2, ExchangeFrame
<1>4. AnswersTrue'
  <2> SUFFICES ASSUME NEW g \in Fires PROVE Told(g, reply[g])'
    BY DEF AnswersTrue
  <2> QED BY <1>0, <1>1, <1>2, AnswersStay
<1>5. EffectsPaid'
  BY <1>0 DEF IInv, EffectsPaid, OnWire
<1> QED BY <1>3, <1>4, <1>5 DEF IInv

\* Somebody takes a contract: what was true of a smaller order stays true.
LEMMA RestingFillKeeps ==
  ASSUME IInv, RestingFill
  PROVE  IInv'
<1>0. /\ resting \in 0..RESTING /\ RESTING \in Nat /\ resting > 0 /\ resting' = resting - 1
      /\ UNCHANGED <<effects, returned, now, killVars, cacheVars, pc, attempt, attempted, slots,
                     row, wire, placed, traded, reply, haltAge, timedOut, unheard>>
      /\ kind' = kind /\ time_in_force' = time_in_force
  BY PathConstants DEF IInv, TypeOK, RestingFill, exchange, given
<1>1. /\ resting' \in 0..resting
      /\ \A f \in Fires : /\ NeverThere(f) => NeverThere(f)'
                          /\ attempt[f] = 1 /\ <<f, 0>> \in placed' => <<f, 1>> \notin wire'
      /\ traded \subseteq Fires /\ \A f \in traded : <<f, 0>> \in placed
  BY <1>0 DEF NeverThere, IInv, RequestsSent, TypeOK
<1>2. /\ TypeOK' /\ IsFiniteSet(Underway')
      /\ AttemptsLeft' /\ RequestsSent' /\ Counted' /\ CacheHonest' /\ TimedOutEnded'
      /\ Undecided' /\ RowsHonest' /\ Repeated' /\ HaltHonored' /\ ChangesAsReported'
  BY <1>0, <1>1, ExchangeFrame DEF IInv, TypeOK
<1>3. AnswersTrue'
  BY <1>0, <1>1, AnswersStay DEF AnswersTrue
<1>4. EffectsPaid'
  <2>1. \A f \in Fires : OnWire(f)' = OnWire(f) /\ effects'[f] = effects[f] /\ attempt'[f] = attempt[f]
    BY <1>0 DEF OnWire
  <2>2. TARGET \in Nat /\ (resting <= TARGET => resting' <= TARGET) /\ ~(resting = 0)
    BY <1>0, PathConstants
  <2> QED BY <1>0, <2>1, <2>2 DEF IInv, EffectsPaid
<1> QED BY <1>2, <1>3, <1>4 DEF IInv

\* The exchange takes a change of the resting order, with or without effect.
LEMMA ReceiveChangeKeeps ==
  ASSUME IInv, NEW f \in Fires, NEW n \in 1..ATTEMPTS, ReceiveChange(f, n)
  PROVE  IInv'
<1>0. /\ <<f, n>> \in wire /\ kind[f] \in Change /\ wire' = wire \ {<<f, n>>}
      /\ UNCHANGED <<returned, now, killVars, cacheVars, pc, attempt, attempted, slots, row,
                     placed, traded, haltAge, timedOut, unheard>>
      /\ kind' = kind /\ time_in_force' = time_in_force
  BY DEF ReceiveChange, given
<1>a. /\ reply \in [Fires -> Replies]
      /\ resting \in 0..RESTING /\ effects \in [Fires -> 0..ATTEMPTS]
      /\ attempt \in [Fires -> 0..ATTEMPTS] /\ kind \in [Fires -> Kinds]
      /\ RESTING \in Nat /\ ATTEMPTS \in Nat /\ TARGET \in Nat
  BY PathConstants DEF IInv, TypeOK
<1> DEFINE m == Left(kind[f], resting)
<1>b. /\ m \in 0..resting
      /\ kind[f] = "cancel" => m = 0
      /\ kind[f] = "reduce_to" => m <= TARGET /\ (resting <= TARGET => m = resting)
  BY <1>0, <1>a, LeftFacts
<1> HIDE DEF m
<1>1. \/ /\ UNCHANGED book
         /\ \/ Answer(f, n, "unavailable")
            \/ resting = 0 /\ Answer(f, n, "gone")
      \/ /\ resting > 0 /\ resting' = m
         /\ effects' = IF m = resting THEN effects ELSE [effects EXCEPT ![f] = @ + 1]
         /\ \E outcome \in {"done", "unavailable"} : Answer(f, n, outcome)
  BY DEF ReceiveChange, m
<1>2. resting' \in 0..resting /\ (resting' = resting \/ resting' = m)
  BY <1>1, <1>a, <1>b DEF book
<1>3. /\ \/ reply' = reply
         \/ reply' = [reply EXCEPT ![f] = "unavailable"]
         \/ resting' = 0 /\ reply' = [reply EXCEPT ![f] = "gone"]
         \/ resting' = m /\ reply' = [reply EXCEPT ![f] = "done"]
  BY <1>1 DEF Answer, book
<1>7. \A g \in Fires : /\ NeverThere(g) => NeverThere(g)'
                       /\ attempt[g] = 1 /\ <<g, 0>> \in placed' => <<g, 1>> \notin wire'
  BY <1>0 DEF NeverThere, IInv, RequestsSent
<1>4. AnswersTrue'
  <2> SUFFICES ASSUME NEW g \in Fires PROVE Told(g, reply[g])'
    BY DEF AnswersTrue
  <2>1. CASE reply'[g] = reply[g]
    BY <1>0, <1>2, <1>7, <2>1, AnswersStay
  <2>2. CASE reply'[g] # reply[g]
    <3>1. g = f /\ (\/ reply'[g] = "unavailable"
                    \/ resting' = 0 /\ reply'[g] = "gone"
                    \/ resting' = m /\ reply'[g] = "done")
      BY <1>a, <1>3, <2>2
    <3> QED BY <1>0, <1>a, <1>b, <3>1 DEF Told
  <2> QED BY <2>1, <2>2
<1>5. EffectsPaid' /\ effects' \in [Fires -> 0..ATTEMPTS]
  <2>1. \A g \in Fires : Cardinality(OnWire(g)') <= Cardinality(OnWire(g))
                         /\ Cardinality(OnWire(g)') \in Nat /\ Cardinality(OnWire(g)) \in Nat
    BY <1>0, OnWireShrinks, OnWireFinite DEF IInv
  <2>2. CASE effects' = effects
    <3>1. \A g \in Fires : effects[g] + Cardinality(OnWire(g)') <= attempt[g]
      BY <1>a, <2>1 DEF IInv, EffectsPaid
    <3> QED BY <1>0, <1>a, <1>2, <2>2, <3>1 DEF IInv, EffectsPaid
  <2>3. CASE effects' # effects
    <3>1. /\ resting > 0 /\ resting' = m /\ m # resting
          /\ effects' = [effects EXCEPT ![f] = @ + 1]
      BY <1>1, <2>3 DEF book
    <3>2. Cardinality(OnWire(f)') + 1 = Cardinality(OnWire(f))
      <4>1. OnWire(f)' = OnWire(f) \ {n} /\ n \in OnWire(f)
        BY <1>0 DEF OnWire
      <4>2. IsFiniteSet(OnWire(f)) /\ Cardinality(OnWire(f)) \in Nat
        BY OnWireFinite DEF IInv
      <4>3. Cardinality(OnWire(f) \ {n}) = Cardinality(OnWire(f)) - 1
        BY <4>1, <4>2, FS_RemoveElement
      <4> QED BY <4>1, <4>2, <4>3
    <3>3. \A g \in Fires : effects'[g] + Cardinality(OnWire(g)') <= attempt[g]
      BY <1>a, <2>1, <3>1, <3>2 DEF IInv, EffectsPaid
    <3>4. effects' \in [Fires -> 0..ATTEMPTS]
      BY <1>a, <2>1, <3>1, <3>3
    <3>5. kind[f] \notin Fire /\ (kind[f] \in {"cancel", "reduce_to"} => effects[f] = 0)
      BY <1>0, <1>a, <1>b, <3>1 DEF IInv, EffectsPaid, Change, Fire
    <3>6. \A g \in Fires :
            /\ kind[g] \in Fire => effects'[g] = 0
            /\ kind[g] \in {"cancel", "reduce_to"} => effects'[g] <= 1
            /\ kind[g] = "cancel" /\ effects'[g] > 0 => resting' = 0
            /\ kind[g] = "reduce_to" /\ effects'[g] > 0 => resting' <= TARGET
      BY <1>a, <1>b, <1>2, <3>1, <3>5 DEF IInv, EffectsPaid
    <3> QED BY <1>0, <3>3, <3>4, <3>6 DEF EffectsPaid
  <2> QED BY <2>2, <2>3
<1>6. /\ TypeOK' /\ IsFiniteSet(Underway')
      /\ AttemptsLeft' /\ RequestsSent' /\ Counted' /\ CacheHonest' /\ TimedOutEnded'
      /\ Undecided' /\ RowsHonest' /\ Repeated' /\ HaltHonored' /\ ChangesAsReported'
  <2>1. reply' \in [Fires -> Replies]
    BY <1>a, <1>3 DEF Replies
  <2>2. traded \subseteq Fires /\ \A g \in traded : <<g, 0>> \in placed
    BY DEF IInv, TypeOK, RequestsSent
  <2>3. /\ wire' \subseteq wire /\ placed' = placed /\ traded' = traded
        /\ effects' \in [Fires -> 0..ATTEMPTS]
    BY <1>0, <1>5
  <2> QED BY <1>0, <1>2, <1>7, <2>1, <2>2, <2>3, ExchangeFrame
<1> QED BY <1>4, <1>5, <1>6 DEF IInv

-----------------------------------------------------------------------------
(* The theorems.                                                           *)

LEMMA InvInit == Init => IInv
<1> SUFFICES ASSUME Init PROVE IInv
  OBVIOUS
<1>0. kind \in [Fires -> Kinds] /\ time_in_force \in TimeInForce /\ ATTEMPTS \in Nat \ {0} /\ RESTING \in Nat
  BY PathConstants DEF Init
<1>1. Underway = {}
  BY DEF Init, Underway, Waiting
<1>2. IsFiniteSet(Underway) /\ slots = Cardinality(Underway)
  BY <1>1, FS_EmptySet DEF Init
<1>3. TypeOK
  <2>1. /\ kind \in [Fires -> Kinds] /\ now \in Nat /\ engagedAt \in Nat /\ toggles \in Nat
        /\ cached \in {"none", "yes", "no"} /\ checkedAt \in Nat
        /\ pc \in [Fires -> {"new", "finished"} \cup Waiting] /\ row \in [Fires -> Statuses]
    BY <1>0 DEF Init, Statuses
  <2>2. /\ attempt \in [Fires -> 0..ATTEMPTS] /\ effects \in [Fires -> 0..ATTEMPTS]
        /\ resting \in 0..RESTING /\ haltAge \in [Fires -> Int]
    BY <1>0 DEF Init
  <2>3. file \in BOOLEAN
    BY Zenon DEF Init
  <2> QED BY <1>0, <1>2, <2>1, <2>2, <2>3 DEF Init, TypeOK, Underway, Replies
<1>4. AttemptsLeft /\ RequestsSent /\ Counted /\ AnswersTrue /\ CacheHonest
  BY DEF Init, AttemptsLeft, RequestsSent, Counted, AnswersTrue, Told, CacheHonest, Waiting
<1>5. TimedOutEnded /\ Undecided /\ RowsHonest /\ Repeated /\ HaltHonored /\ ChangesAsReported
  BY DEF Init, TimedOutEnded, Undecided, RowsHonest, Repeated, HaltHonored, ChangesAsReported,
         Waiting
<1>6. EffectsPaid
  <2>1. \A f \in Fires : OnWire(f) = {}
    BY DEF Init, OnWire
  <2> QED BY <2>1, FS_EmptySet DEF Init, EffectsPaid
<1> QED BY <1>2, <1>3, <1>4, <1>5, <1>6 DEF IInv

LEMMA InvNext == IInv /\ [Next]_vars => IInv'
<1> SUFFICES ASSUME IInv, [Next]_vars PROVE IInv'
  OBVIOUS
<1>1. ASSUME NEW f \in Fires, Task(f) PROVE IInv'
  BY <1>1, RefuseKeeps, DispatchKeeps, ToTheLimiterKeeps, RequestKeeps, RequestEndsKeeps DEF Task
<1>5. ASSUME NEW f \in Fires, Trade(f) PROVE IInv'
  BY <1>5, TradeKeeps
<1>2. ASSUME NEW f \in Fires, NEW n \in 1..ATTEMPTS, Receive(f, n) \/ ReceiveChange(f, n)
      PROVE  IInv'
  BY <1>2, ReceiveKeeps, ReceiveChangeKeeps
<1>3. CASE engage \/ release \/ RestingFill \/ Tick
  BY <1>3, OutsideKeeps, RestingFillKeeps
<1>4. CASE UNCHANGED vars
  <2> USE <1>4 DEF vars, given, killVars, cacheVars, exchange, book
  <2>1. RequestsSent' /\ AnswersTrue' /\ EffectsPaid'
    BY QuietFrame
  <2>2. slots' = Cardinality(Underway') /\ IsFiniteSet(Underway')
    BY SlotsFrame
  <2>3. TypeOK'
    BY <2>2 DEF IInv, TypeOK, Underway
  <2>4. AttemptsLeft' /\ Counted' /\ CacheHonest' /\ TimedOutEnded' /\ Undecided'
    BY DEF IInv, AttemptsLeft, Counted, CacheHonest, TimedOutEnded, Undecided
  <2>5. RowsHonest' /\ Repeated' /\ HaltHonored' /\ ChangesAsReported'
    BY DEF IInv, RowsHonest, Repeated, NeverThere, Rests, HaltHonored, ChangesAsReported
  <2> QED BY <2>1, <2>2, <2>3, <2>4, <2>5 DEF IInv
<1> QED BY <1>1, <1>2, <1>3, <1>4, <1>5 DEF Next

\* The slot counter of the risk gate is the number of dispatches under way, in every
\* reachable state: no path out of dispatch() keeps its slot or gives it back twice.
THEOREM PathTyped == Spec => []TypeOK
<1>1. IInv => TypeOK
  BY DEF IInv
<1> QED BY <1>1, InvInit, InvNext, PTL DEF Spec

\* Retries, broken connections and late arrivals never make a second order of a fire.
THEOREM AtMostOneOrder == Spec => []PlacedOnce
<1>1. IInv => PlacedOnce
  <2> SUFFICES ASSUME IInv, NEW f \in Fires
               PROVE  Cardinality({ id \in placed : id[1] = f }) <= 1
    BY DEF PlacedOnce
  <2> DEFINE S == { id \in placed : id[1] = f }
  <2>1. S \subseteq {<<f, 0>>}
    BY DEF IInv, TypeOK, RequestsSent
  <2>2. IsFiniteSet({<<f, 0>>}) /\ Cardinality({<<f, 0>>}) = 1
    BY FS_Singleton
  <2>3. IsFiniteSet(S) /\ Cardinality(S) <= Cardinality({<<f, 0>>})
    BY <2>1, <2>2, FS_Subset
  <2> QED BY <2>2, <2>3
<1> QED BY <1>1, InvInit, InvNext, PTL DEF Spec

\* record_attempt() precedes the request: what is on the wire or at the exchange was
\* counted, and no refused fire is among it.
THEOREM CountedBeforeSent == Spec => []OnlyCountedOrdersLeave
<1>1. IInv => OnlyCountedOrdersLeave
  <2> SUFFICES ASSUME IInv, NEW f \in Fires, kind[f] \in Fire, NEW m \in wire \cup placed,
                      m[1] = f
               PROVE  f \in attempted /\ row[f] \in OrderStatus
    BY DEF OnlyCountedOrdersLeave
  <2>1. attempt[f] > 0
    BY DEF IInv, TypeOK, RequestsSent
  <2> QED BY <2>1 DEF IInv, Counted
<1> QED BY <1>1, InvInit, InvNext, PTL DEF Spec

\* What a concluded row says of the exchange is true, whatever the time in force, and an
\* order it calls an error is one that a request went unanswered for.
THEOREM RowsAreTrue == Spec => []RowsTruthful
<1>1. IInv => RowsTruthful
  BY DEF IInv, RowsHonest, RowsTruthful, NeverThere, ClientOrderId
<1> QED BY <1>1, InvInit, InvNext, PTL DEF Spec

\* The kill switch takes effect within ttl_seconds of its file, whatever ttl_seconds
\* is and however often the file comes and goes.
THEOREM SwitchHonored == Spec => []HaltHonored
<1>1. IInv => HaltHonored
  BY DEF IInv
<1> QED BY <1>1, InvInit, InvNext, PTL DEF Spec

\* What cancel() and decrease() report is true, and neither takes effect more often
\* than its own retries were sent; a cancel and a reduce_to once.
THEOREM ChangesAreHeld == Spec => []ChangesHold
<1>1. IInv => ChangesHold
  <2> SUFFICES ASSUME IInv PROVE ShrinksOnce
    BY DEF ChangesHold, IInv
  <2> SUFFICES ASSUME NEW f \in Fires
               PROVE  effects[f] <= (IF kind[f] = "reduce_by" THEN attempt[f] ELSE 1)
    BY DEF ShrinksOnce
  <2>1. Cardinality(OnWire(f)) \in Nat /\ effects[f] \in Nat /\ attempt[f] \in Nat
    BY OnWireFinite, PathConstants DEF IInv, TypeOK
  <2>2. effects[f] <= attempt[f]
    BY <2>1 DEF IInv, EffectsPaid
  <2>3. kind[f] \in Kinds
    BY DEF IInv, TypeOK
  <2> QED BY <2>1, <2>2, <2>3 DEF IInv, EffectsPaid, AttemptsLeft, Kinds, Change
<1> QED BY <1>1, InvInit, InvNext, PTL DEF Spec

\* The retry policy does not repeat a request whose answer was waited for in vain.
THEOREM TimeoutIsFinal == Spec => NoRetryAfterTimeout
<1>1. IInv /\ [Next]_vars => [\A f \in Fires : f \in timedOut => attempt'[f] = attempt[f]]_vars
  <2> SUFFICES ASSUME IInv, Next, NEW f \in Fires, f \in timedOut
               PROVE  attempt'[f] = attempt[f]
    OBVIOUS
  <2>1. pc[f] = "finished" /\ attempt \in [Fires -> 0..ATTEMPTS]
    BY DEF IInv, TimedOutEnded, TypeOK
  <2>2. CASE \E g \in Fires : _request(g)
    BY <2>1, <2>2 DEF _request
  <2>3. CASE ~ \E g \in Fires : _request(g)
    <3>1. CASE engage \/ release \/ RestingFill \/ Tick
      BY <3>1 DEF engage, release, RestingFill, Tick
    <3>2. ASSUME NEW g \in Fires, Trade(g) \/ \E n \in 1..ATTEMPTS : Receive(g, n) \/ ReceiveChange(g, n)
          PROVE  attempt' = attempt
      BY <3>2 DEF Trade, Receive, ReceiveChange
    <3>3. ASSUME NEW g \in Fires, Task(g)
          PROVE  attempt' = attempt
      <4>1. CASE \/ RefuseUntradeable(g) \/ RefuseVolume(g) \/ RefuseHalted(g) \/ RefuseRisk(g)
                 \/ RefuseGuard(g) \/ Dispatch(g) \/ ShadowFire(g) \/ RefuseChange(g)
                 \/ BeginChange(g) \/ WakeUp(g)
        BY <4>1 DEF RefuseUntradeable, RefuseVolume, RefuseHalted, RefuseRisk, RefuseGuard,
                    Dispatch, ShadowFire, RefuseChange, BeginChange, WakeUp
      <4>2. CASE Respond(g) \/ Disconnect(g) \/ Timeout(g)
        BY <4>2 DEF Respond, Disconnect, Timeout, Settle
      <4> QED BY <2>3, <3>3, <4>1, <4>2 DEF Task
    <3> QED BY <3>1, <3>2, <3>3 DEF Next
  <2> QED BY <2>2, <2>3
<1> QED BY <1>1, InvInit, InvNext, PTL DEF Spec, NoRetryAfterTimeout

=============================================================================
