--------------------------- MODULE RiskGateProofs ---------------------------
(* Machine-checked proofs about RiskGate, for every value of its constants. *)
EXTENDS RiskGate, FiniteSetTheorems, SequenceTheorems, WellFoundedInduction, NaturalsInduction, TLAPS

-----------------------------------------------------------------------------
(* Maxima and cardinalities.                                               *)

\* A nonempty set of integers with an upper bound has a maximum, and Max is it.
LEMMA MaxOfBounded ==
  ASSUME NEW S \in SUBSET Int, S # {}, NEW b \in Int, \A x \in S : x <= b
  PROVE  Max(S) \in S /\ \A y \in S : Max(S) >= y
<1> DEFINE T == { b - x : x \in S }
<1>1. T \subseteq Nat /\ T # {}
  <2>1. ASSUME NEW x \in S PROVE b - x \in Nat
    OBVIOUS
  <2>2. PICK x \in S : TRUE
    OBVIOUS
  <2>3. b - x \in T
    BY <2>2
  <2> QED BY <2>1, <2>3
<1>2. PICK m \in T : \A y \in T : ~ (<<y, m>> \in OpToRel(<, Nat))
  <2> HIDE DEF T
  <2> QED BY <1>1, WFMin, NatLessThanWellFounded
<1>3. \A y \in T : y >= m
  <2> SUFFICES ASSUME NEW y \in T PROVE y >= m
    OBVIOUS
  <2>1. ~ (y < m)
    BY <1>1, <1>2 DEF OpToRel
  <2> QED BY <1>1, <2>1
<1>4. PICK x \in S : m = b - x
  BY <1>2
<1>5. \A y \in S : x >= y
  BY <1>3, <1>4
<1> QED BY <1>4, <1>5 DEF Max

\* A set that gains at most one element over one below the cap is within it.
LEMMA CapStep ==
  ASSUME NEW S, IsFiniteSet(S), NEW x, NEW T, T \subseteq S \cup {x},
         NEW c \in Nat, Cardinality(S) < c
  PROVE  Cardinality(T) <= c
<1>1. IsFiniteSet(S \cup {x}) /\ Cardinality(S \cup {x}) <= Cardinality(S) + 1
  <2>1. IsFiniteSet(S \cup {x})
    BY FS_AddElement
  <2>2. Cardinality(S \cup {x}) = IF x \in S THEN Cardinality(S) ELSE Cardinality(S) + 1
    BY FS_AddElement
  <2> QED BY <2>1, <2>2, FS_CardinalityType
<1>2. Cardinality(T) <= Cardinality(S \cup {x}) /\ IsFiniteSet(T)
  BY <1>1, FS_Subset
<1> QED BY <1>1, <1>2, FS_CardinalityType

\* A subset of a finite set within the cap is within the cap.
LEMMA CapShrink ==
  ASSUME NEW S, IsFiniteSet(S), NEW T, T \subseteq S, NEW c \in Nat, Cardinality(S) <= c
  PROVE  Cardinality(T) <= c
BY FS_Subset, FS_CardinalityType

\* max(0, n - 1), as end_dispatch() computes it.
LEMMA MaxZero ==
  ASSUME NEW n \in Int
  PROVE  Max({0, n}) = IF n < 0 THEN 0 ELSE n
<1>1. PICK b \in {0, n} : \A x \in {0, n} : x <= b
  OBVIOUS
<1>2. Max({0, n}) \in {0, n} /\ \A y \in {0, n} : Max({0, n}) >= y
  <2> DEFINE S == {0, n}
  <2>1. S \in SUBSET Int /\ S # {} /\ b \in Int /\ \A x \in S : x <= b
    BY <1>1
  <2> HIDE DEF S
  <2>2. Max(S) \in S /\ \A y \in S : Max(S) >= y
    BY <2>1, MaxOfBounded
  <2> QED BY <2>2 DEF S
<1> QED BY <1>2

\* Appending to a function on 1..n extends it to 1..n + 1.
LEMMA AppendFun ==
  ASSUME NEW n \in Nat, NEW S, NEW f \in [1..n -> S], NEW e \in S
  PROVE  /\ Append(f, e) \in [1..(n + 1) -> S]
         /\ Append(f, e)[n + 1] = e
         /\ \A i \in 1..n : Append(f, e)[i] = f[i]
<1>1. f \in Seq(S) /\ Len(f) = n
  OBVIOUS
<1>2. /\ Append(f, e) \in Seq(S) /\ Len(Append(f, e)) = n + 1
      /\ Append(f, e)[n + 1] = e
      /\ \A i \in 1..n : Append(f, e)[i] = f[i]
  BY <1>1, AppendProperties
<1> QED BY <1>2, LenProperties

-----------------------------------------------------------------------------
(* Type correctness, which needs that no recorded time is ahead of the     *)
(* clock: warm_start takes a maximum over time stamps.                     *)

Clocked == /\ \A i \in OrderIds : orders[i].at <= now
           /\ recAt <= now /\ poll.at <= now

\* A freshly constructed gate (RiskGate.__init__) has its type.
THEOREM TypeInit == Init => TypeOK
BY GateConstants DEF Init, EmptyGate, TypeOK, NoPoll, OrderRecs, Phases, Rows, Directions

\* _handle_fire admitting an order keeps the type: the new order gets an entry in
\* each of the per-order sequences.
LEMMA TypeAdmit ==
  ASSUME TypeOK, NEW w \in Wakes, Admit(w)
  PROVE  TypeOK'
<1> DEFINE n == Len(orders)
<1>0. n \in Nat
  BY DEF TypeOK
<1>1. w \in [ticker: Tickers, direction: Directions, shard: Int, count: Nat \ {0},
             price: Nat, group: Groups \cup {NoGroup}]
  BY GateConstants DEF Directions
<1>2. orders' \in Seq(OrderRecs) /\ Len(orders') = n + 1
  BY <1>1 DEF OrderRecs, TypeOK, Admit
<1>3. phase' \in [1..Len(orders') -> Phases]
  <2>1. phase \in [1..n -> Phases] /\ "inflight" \in Phases
    BY DEF TypeOK, Phases
  <2>2. Append(phase, "inflight") \in [1..(n + 1) -> Phases]
    BY <1>0, <2>1, AppendFun
  <2> QED BY <1>2, <2>2 DEF Admit
<1>4. row' \in [1..Len(orders') -> Rows]
  <2>1. row \in [1..n -> Rows] /\ "none" \in Rows
    BY DEF TypeOK, Rows
  <2>2. Append(row, "none") \in [1..(n + 1) -> Rows]
    BY <1>0, <2>1, AppendFun
  <2> QED BY <1>2, <2>2 DEF Admit
<1>5. fill' \in [1..Len(orders') -> Nat] /\ told' \in [1..Len(orders') -> Nat]
  <2>1. fill \in [1..n -> Nat] /\ told \in [1..n -> Nat] /\ 0 \in Nat
    BY DEF TypeOK
  <2>2. Append(fill, 0) \in [1..(n + 1) -> Nat] /\ Append(told, 0) \in [1..(n + 1) -> Nat]
    BY <1>0, <2>1, AppendFun
  <2> QED BY <1>2, <2>2 DEF Admit
<1>6. attempts' \subseteq 1..Len(orders')
  <2>1. attempts \subseteq 1..n /\ attempts' \subseteq attempts \cup {n + 1}
    BY DEF TypeOK, Admit, record_attempt, LiveAttempts
  <2> QED BY <1>0, <1>2, <2>1
<1>7. fills' \subseteq [order: 1..Len(orders'), ts: Nat, group: Groups \cup {NoGroup}]
  <2>1. fills' \subseteq fills
    BY DEF Admit, LiveFills
  <2>2. fills \subseteq [order: 1..n, ts: Nat, group: Groups \cup {NoGroup}]
    BY DEF TypeOK
  <2>3. 1..n \subseteq 1..Len(orders')
    BY <1>0, <1>2
  <2> QED BY <2>1, <2>2, <2>3
<1>8. lastAttempt' \in [Tickers \X Directions -> Int]
  BY <1>1 DEF record_attempt, TypeOK, Admit
<1>9. groupOf' \in [Tickers -> Groups \cup {NoGroup}]
  BY <1>1 DEF record_attempt, TypeOK, Admit
<1>10. live' \subseteq 1..Len(orders')
  <2>1. live \subseteq 1..n /\ live' = live \cup {n + 1}
    BY DEF TypeOK, Admit
  <2>2. 1..n \subseteq 1..(n + 1) /\ n + 1 \in 1..(n + 1)
    BY <1>0
  <2> QED BY <1>2, <2>1, <2>2
<1>11. /\ UNCHANGED <<now, recTicker, recGroup, recAt, pos, settled, poll, restarts, polls>>
       /\ UNCHANGED <<baseSeen, baseGone>> /\ inFlight' = inFlight + 1
  BY DEF Admit
<1> QED BY <1>2, <1>3, <1>4, <1>5, <1>6, <1>7, <1>8, <1>9, <1>10, <1>11 DEF TypeOK

\* warm_start rebuilds a gate of the right type from the rows.
LEMMA TypeRestart ==
  ASSUME TypeOK, Clocked, Restart
  PROVE  TypeOK'
<1> DEFINE n == Len(orders)
<1>1. n \in Nat /\ OrderIds = 1..n /\ Len(orders') = n
  BY DEF TypeOK, OrderIds, Restart
<1>2. row' \in [1..n -> Rows] /\ phase' \in [1..n -> Phases]
  BY <1>1 DEF TypeOK, Restart, Rows, Phases
<1>3. WarmRows \subseteq 1..n
  BY <1>1 DEF WarmRows
<1>4. \A i \in 1..n : orders[i] \in OrderRecs /\ orders[i].at <= now
  BY <1>1 DEF TypeOK, Clocked
<1>5. lastAttempt' \in [Tickers \X Directions -> Int]
  <2> SUFFICES ASSUME NEW k \in Tickers \X Directions
               PROVE  Max({-1} \cup { orders[i].at : i \in { j \in WarmRows :
                          <<orders[j].ticker, orders[j].direction>> = k } }) \in Int
    BY DEF Restart, warm_start
  <2> DEFINE S == {-1} \cup { orders[i].at : i \in { j \in WarmRows :
                          <<orders[j].ticker, orders[j].direction>> = k } }
  <2>1. ASSUME NEW x \in S PROVE x \in Int /\ x <= now
    <3>1. CASE x = -1
      BY <3>1 DEF TypeOK
    <3>2. CASE \E i \in WarmRows : x = orders[i].at
      BY <1>3, <1>4, <3>2 DEF OrderRecs
    <3> QED BY <3>1, <3>2
  <2>2. S # {} /\ now \in Int
    BY DEF TypeOK
  <2> HIDE DEF S
  <2>3. Max(S) \in S
    BY <2>1, <2>2, MaxOfBounded
  <2> QED BY <2>1, <2>3 DEF S
<1>6. groupOf' \in [Tickers -> Groups \cup {NoGroup}]
  <2> SUFFICES ASSUME NEW t \in Tickers PROVE LatestGroup(t) \in Groups \cup {NoGroup}
    BY DEF Restart, warm_start
  <2> DEFINE I == { i \in WarmRows : orders[i].ticker = t /\ orders[i].group # NoGroup }
  <2>1. I \subseteq 1..n
    BY <1>3
  <2>2. CASE I # {}
    <3>1. I \in SUBSET Int /\ n \in Int /\ \A x \in I : x <= n
      BY <1>1, <2>1
    <3> HIDE DEF I
    <3>2. Max(I) \in 1..n
      BY <2>1, <2>2, <3>1, MaxOfBounded
    <3> QED BY <1>4, <2>2, <3>2 DEF LatestGroup, OrderRecs, I
  <2>3. CASE I = {}
    BY <2>3 DEF LatestGroup
  <2> QED BY <2>2, <2>3
<1>7. fills' \subseteq [order: 1..n, ts: Nat, group: Groups \cup {NoGroup}]
  BY <1>3, <1>4 DEF Restart, warm_start, OrderRecs
<1>8. /\ attempts' \subseteq 1..n /\ recTicker' \in [Tickers -> Nat]
      /\ DOMAIN recGroup' = Groups /\ recAt' \in Nat /\ inFlight' \in Nat
  BY <1>3 DEF Restart, warm_start
<1>9. poll' \in [state: {"idle", "issued", "read"}, at: Nat, value: [Tickers -> Nat],
                seen: Seq(Nat), gone: SUBSET Tickers]
  BY DEF Restart, NoPoll
<1>10. /\ UNCHANGED <<now, orders, fill, live, told, pos, settled, polls>> /\ restarts' = restarts + 1
       /\ baseSeen' = <<>> /\ baseGone' = {}
  BY DEF Restart
<1>11. /\ now \in Nat /\ orders \in Seq(OrderRecs)
       /\ fill \in [1..n -> Nat] /\ told \in [1..n -> Nat] /\ live \subseteq 1..n /\ pos \in [Tickers -> Int]
       /\ settled \subseteq Tickers /\ polls \in Nat /\ restarts + 1 \in Nat
  BY DEF TypeOK
<1>12. /\ now' \in Nat /\ orders' \in Seq(OrderRecs)
       /\ fill' \in [1..n -> Nat] /\ told' \in [1..n -> Nat] /\ live' \subseteq 1..n
       /\ pos' \in [Tickers -> Int] /\ settled' \subseteq Tickers /\ polls' \in Nat
       /\ restarts' \in Nat
  BY <1>10, <1>11
<1>13. baseSeen' \in Seq(Nat) /\ baseGone' \subseteq Tickers
  BY <1>10
<1> HIDE DEF n
<1> QED BY <1>1, <1>2, <1>5, <1>6, <1>7, <1>8, <1>9, <1>12, <1>13 DEF TypeOK

\* Steps that admit nothing and restart nothing keep the orders as they are.
LEMMA TypeOther ==
  ASSUME TypeOK,
         \/ \E w \in Wakes : Refuse(w)
         \/ \E i \in OrderIds : \/ Fail(i) \/ CommitRow(i)
                                \/ \E f \in 0..orders[i].count : Respond(i, f) \/ Execute(i, f)
         \/ \E t \in Tickers : Settle(t)
         \/ PollIssue \/ PollRead \/ PollFail \/ PollLand \/ Tick
  PROVE  TypeOK'
<1> DEFINE n == Len(orders)
<1>0. n \in Nat /\ OrderIds = 1..n
  BY DEF TypeOK, OrderIds
<1>1. ASSUME NEW w \in Wakes, Refuse(w) PROVE TypeOK'
  BY <1>1 DEF Refuse, TypeOK, LiveAttempts, LiveFills
<1>2. ASSUME NEW i \in OrderIds, NEW f \in 0..orders[i].count, Respond(i, f) PROVE TypeOK'
  <2>1. inFlight' \in Nat
    <3>1. inFlight - 1 \in Int /\ inFlight' = Max({0, inFlight - 1})
      BY <1>2 DEF Respond, TypeOK
    <3> QED BY <3>1, MaxZero
  <2>2. orders[i] \in OrderRecs
    BY <1>0, <1>2 DEF TypeOK
  <2>3. fills' \subseteq [order: 1..n, ts: Nat, group: Groups \cup {NoGroup}]
    <3>1. [order |-> i, ts |-> now, group |-> groupOf[orders[i].ticker]]
            \in [order: 1..n, ts: Nat, group: Groups \cup {NoGroup}]
      BY <1>0, <1>2, <2>2 DEF TypeOK, OrderRecs
    <3>2. fills' \subseteq fills \cup {[order |-> i, ts |-> now,
                                       group |-> groupOf[orders[i].ticker]]}
      BY <1>2 DEF Respond, record_fill
    <3> QED BY <3>1, <3>2 DEF TypeOK
  <2>4. phase' \in [1..n -> Phases]
    BY <1>0, <1>2 DEF Respond, TypeOK, Phases
  <2>5. told' \in [1..n -> Nat]
    <3>1. f \in Nat
      BY <1>2, <2>2 DEF OrderRecs
    <3> QED BY <1>0, <1>2, <3>1 DEF Respond, TypeOK
  <2> QED BY <1>2, <2>1, <2>3, <2>4, <2>5 DEF Respond, TypeOK
<1>3. ASSUME NEW i \in OrderIds, Fail(i) PROVE TypeOK'
  <2>1. inFlight' \in Nat
    <3>1. inFlight - 1 \in Int /\ inFlight' = Max({0, inFlight - 1})
      BY <1>3 DEF Fail, TypeOK
    <3> QED BY <3>1, MaxZero
  <2>2. phase' \in [1..n -> Phases]
    BY <1>0, <1>3 DEF Fail, TypeOK, Phases
  <2> QED BY <1>3, <2>1, <2>2 DEF Fail, TypeOK
<1>4. ASSUME NEW i \in OrderIds, CommitRow(i) PROVE TypeOK'
  <2>1. row' \in [1..n -> Rows]
    BY <1>0, <1>4 DEF CommitRow, TypeOK, Rows
  <2> QED BY <1>4, <2>1 DEF CommitRow, TypeOK, gate
<1>5. ASSUME NEW i \in OrderIds, NEW f \in 0..orders[i].count, Execute(i, f) PROVE TypeOK'
  <2>1. orders[i] \in OrderRecs
    BY <1>0, <1>5 DEF TypeOK
  <2>2. fill' \in [1..n -> Nat] /\ live' \subseteq 1..n
    <3>1. f \in Nat
      BY <1>5, <2>1 DEF OrderRecs
    <3>2. fill \in [1..n -> Nat] /\ live \subseteq 1..n
      BY DEF TypeOK
    <3>3. fill' = [fill EXCEPT ![i] = @ + f] /\ live' \subseteq live
      BY <1>5 DEF Execute
    <3> QED BY <1>0, <3>1, <3>2, <3>3
  <2>3. pos' \in [Tickers -> Int]
    <3>1. orders[i].ticker \in Tickers /\ f \in Int
      BY <1>5, <2>1 DEF OrderRecs
    <3>2. Signed(i, f) \in Int
      BY <3>1 DEF Signed
    <3>3. pos[orders[i].ticker] + Signed(i, f) \in Int
      BY <3>1, <3>2 DEF TypeOK
    <3> QED BY <1>5, <3>1, <3>3 DEF Execute, TypeOK
  <2> QED BY <1>5, <2>2, <2>3 DEF Execute, TypeOK, gate
<1>6. ASSUME NEW t \in Tickers, Settle(t) PROVE TypeOK'
  <2>1. live' \subseteq 1..n
    BY <1>0, <1>6 DEF Settle, TypeOK
  <2>2. pos' \in [Tickers -> Int] /\ settled' \subseteq Tickers
    BY <1>6 DEF Settle, TypeOK
  <2> QED BY <1>6, <2>1, <2>2 DEF Settle, TypeOK, gate
<1>7. ASSUME PollIssue PROVE TypeOK'
  <2>1. poll' = [state |-> "issued", at |-> now, value |-> [t \in Tickers |-> 0],
                 seen |-> <<>>, gone |-> {}]
    BY <1>7 DEF PollIssue, NoPoll
  <2>2. now \in Nat /\ polls' \in Nat
    BY <1>7 DEF PollIssue, TypeOK
  <2>3. poll' \in [state: {"idle", "issued", "read"}, at: Nat, value: [Tickers -> Nat],
                   seen: Seq(Nat), gone: SUBSET Tickers]
    BY <2>1, <2>2
  <2> QED BY <1>7, <2>2, <2>3 DEF PollIssue, TypeOK, gate
<1>8. ASSUME PollRead PROVE TypeOK'
  <2>1. [t \in Tickers |-> Abs(pos[t])] \in [Tickers -> Nat]
    BY DEF TypeOK, Abs
  <2>2. fill \in Seq(Nat)
    <3>1. fill \in [1..n -> Nat]
      BY DEF TypeOK
    <3> QED BY <1>0, <3>1
  <2> QED BY <1>8, <2>1, <2>2 DEF PollRead, TypeOK, gate
<1>9. ASSUME PollFail PROVE TypeOK'
  BY <1>9 DEF PollFail, TypeOK, NoPoll, gate
<1>10. ASSUME PollLand PROVE TypeOK'
  BY <1>10 DEF PollLand, reconcile_open_positions, TypeOK, NoPoll
<1>11. ASSUME Tick PROVE TypeOK'
  <2>1. /\ now' = now + 1
        /\ UNCHANGED <<attempts, lastAttempt, fills, groupOf, recTicker, recGroup, recAt, inFlight>>
        /\ UNCHANGED <<orders, phase, fill, live, told, row, pos, settled>>
        /\ UNCHANGED <<poll, restarts, polls, baseSeen, baseGone>>
    BY <1>11 DEF Tick, gate
  <2>2. now' \in Nat
    BY <2>1 DEF TypeOK
  <2> QED BY <2>1, <2>2 DEF TypeOK
<1>12. CASE \E i \in OrderIds : \/ Fail(i) \/ CommitRow(i)
                                 \/ \E f \in 0..orders[i].count : Respond(i, f) \/ Execute(i, f)
  <2>1. PICK i \in OrderIds : \/ Fail(i) \/ CommitRow(i)
                             \/ \E f \in 0..orders[i].count : Respond(i, f) \/ Execute(i, f)
    BY <1>12
  <2>2. CASE Fail(i) \/ CommitRow(i)
    BY <1>3, <1>4, <2>2
  <2>3. ASSUME NEW f \in 0..orders[i].count, Respond(i, f) \/ Execute(i, f) PROVE TypeOK'
    BY <1>2, <1>5, <2>3
  <2> QED BY <2>1, <2>2, <2>3
<1> QED BY <1>1, <1>6, <1>7, <1>8, <1>9, <1>10, <1>11, <1>12

\* What the records of admitted orders hold.
LEMMA OrderFields ==
  ASSUME TypeOK, NEW i \in OrderIds
  PROVE  /\ i \in 1..Len(orders)
         /\ orders[i].at \in Nat /\ orders[i].ticker \in Tickers
         /\ orders[i].direction \in Directions
         /\ orders[i].group \in Groups \cup {NoGroup}
<1>1. i \in 1..Len(orders) /\ orders[i] \in OrderRecs
  BY DEF TypeOK, OrderIds
<1> QED BY <1>1 DEF OrderRecs

\* The orders that attempts and fills name are of known tickers.
LEMMA RecordedOrders ==
  ASSUME TypeOK
  PROVE  /\ \A j \in attempts : j \in OrderIds /\ orders[j].ticker \in Tickers
         /\ \A f \in fills : f.order \in OrderIds /\ orders[f.order].ticker \in Tickers
<1>1. /\ attempts \subseteq OrderIds
      /\ fills \subseteq [order: OrderIds, ts: Nat, group: Groups \cup {NoGroup}]
  BY DEF TypeOK, OrderIds
<1>2. \A f \in fills : f.order \in OrderIds
  BY <1>1
<1> QED BY <1>1, <1>2, OrderFields

\* No recorded time is ever ahead of the clock.
LEMMA ClockStep ==
  ASSUME TypeOK, Clocked, [Next]_vars
  PROVE  Clocked'
<1> DEFINE n == Len(orders)
<1>0. n \in Nat /\ OrderIds = 1..n /\ now \in Nat
  BY DEF TypeOK, OrderIds
<1>1. ASSUME NEW w \in Wakes, Admit(w) PROVE Clocked'
  <2>1. orders' = Append(orders, [ticker |-> w.ticker, direction |-> w.direction,
                                  count |-> w.count, price |-> w.price,
                                  group |-> w.group, at |-> now])
    BY <1>1 DEF Admit
  <2>2. \A i \in DOMAIN orders' : orders'[i].at <= now
    BY <1>0, <2>1 DEF Clocked, TypeOK
  <2> QED BY <1>1, <2>2 DEF Admit, Clocked, OrderIds
<1>2. ASSUME NEW w \in Wakes, Refuse(w) PROVE Clocked'
  BY <1>2 DEF Refuse, Clocked, OrderIds
<1>3. ASSUME NEW i \in OrderIds,
             \/ Fail(i) \/ CommitRow(i)
             \/ \E f \in 0..orders[i].count : Respond(i, f) \/ Execute(i, f)
      PROVE  Clocked'
  BY <1>3 DEF Respond, Fail, CommitRow, Execute, Clocked, OrderIds, gate
<1>4. ASSUME NEW t \in Tickers, Settle(t) PROVE Clocked'
  BY <1>4 DEF Settle, Clocked, OrderIds, gate
<1>5. ASSUME PollIssue \/ PollRead \/ PollFail PROVE Clocked'
  <2>1. poll'.at \in {now, poll.at, 0}
    <3>1. CASE PollIssue
      BY <3>1 DEF PollIssue, NoPoll
    <3>2. CASE PollRead
      BY <3>2 DEF PollRead, TypeOK
    <3>3. CASE PollFail
      BY <3>3 DEF PollFail, NoPoll
    <3> QED BY <1>5, <3>1, <3>2, <3>3
  <2>2. UNCHANGED <<now, orders, recAt>>
    BY <1>5 DEF PollIssue, PollRead, PollFail, gate
  <2> QED BY <1>0, <2>1, <2>2 DEF Clocked, OrderIds
<1>6. ASSUME PollLand PROVE Clocked'
  BY <1>0, <1>6 DEF PollLand, reconcile_open_positions, NoPoll, Clocked, OrderIds
<1>7. ASSUME Restart PROVE Clocked'
  BY <1>0, <1>7 DEF Restart, warm_start, NoPoll, Clocked, OrderIds
<1>8. ASSUME Tick PROVE Clocked'
  <2>1. now' = now + 1 /\ UNCHANGED <<orders, recAt, poll>>
    BY <1>8 DEF Tick, gate
  <2>2. \A i \in OrderIds : orders[i].at \in Nat
    BY <1>0, OrderFields
  <2>3. recAt \in Nat /\ poll.at \in Nat
    BY DEF TypeOK
  <2> QED BY <1>0, <2>1, <2>2, <2>3 DEF Clocked, OrderIds
<1>9. CASE UNCHANGED vars
  BY <1>9 DEF vars, gate, Clocked, OrderIds
<1> QED BY <1>1, <1>2, <1>3, <1>4, <1>5, <1>6, <1>7, <1>8, <1>9 DEF Next

\* Every step of the gate and its surroundings keeps the type.
LEMMA TypeStep ==
  ASSUME TypeOK, Clocked, [Next]_vars
  PROVE  TypeOK'
<1>1. CASE UNCHANGED vars
  BY <1>1 DEF vars, gate, TypeOK
<1> QED BY <1>1, TypeAdmit, TypeRestart, TypeOther DEF Next

\* In every reachable state the gate's ledger, the per-order records and the
\* poll are well formed, whatever the constants.
THEOREM TypeCorrect == Spec => [](TypeOK /\ Clocked)
<1>1. Init => TypeOK /\ Clocked
  BY TypeInit DEF Init, EmptyGate, NoPoll, Clocked, OrderIds
<1>2. TypeOK /\ Clocked /\ [Next]_vars => TypeOK' /\ Clocked'
  BY TypeStep, ClockStep
<1> QED BY <1>1, <1>2, PTL DEF Spec

-----------------------------------------------------------------------------
(* Attempt caps and cooldown.  The inductive part is that the gate has not *)
(* forgotten an attempt that a cap or the cooldown still depends on.       *)

Remembered ==
  \A j \in OrderIds :
    (row[j] # "lost" /\ orders[j].at >= now - DAY)
      => /\ j \in attempts
         /\ lastAttempt[<<orders[j].ticker, orders[j].direction>>] >= orders[j].at

\* A step that neither admits nor restarts.
OtherStep ==
  \/ \E w \in Wakes : Refuse(w)
  \/ \E i \in OrderIds : \/ Fail(i) \/ CommitRow(i)
                         \/ \E f \in 0..orders[i].count : Respond(i, f) \/ Execute(i, f)
  \/ \E t \in Tickers : Settle(t)
  \/ PollIssue \/ PollRead \/ PollFail \/ PollLand \/ Tick
  \/ UNCHANGED vars

\* What no step but Admit and Restart touches: the admitted orders, the cooldown
\* stamps, and which rows are lost.
LEMMA OtherFrame ==
  ASSUME TypeOK, OtherStep
  PROVE  /\ orders' = orders /\ now' \in Nat /\ now' >= now
         /\ lastAttempt' = lastAttempt
         /\ \A j \in OrderIds : row'[j] # "lost" => row[j] # "lost"
         /\ \A j \in attempts : orders[j].at >= now' - DAY => j \in attempts'
<1>0. now \in Nat /\ OrderIds = 1..Len(orders)
  BY DEF TypeOK, OrderIds
<1>1. CASE \E w \in Wakes : Refuse(w)
  BY <1>0, <1>1 DEF Refuse, LiveAttempts
<1>2. ASSUME NEW i \in OrderIds, CommitRow(i)
      PROVE  \A j \in OrderIds : row'[j] # "lost" => row[j] # "lost"
  BY <1>0, <1>2 DEF CommitRow, TypeOK
<1>3. ASSUME NEW i \in OrderIds,
             \/ Fail(i) \/ CommitRow(i)
             \/ \E f \in 0..orders[i].count : Respond(i, f) \/ Execute(i, f)
      PROVE  /\ orders' = orders /\ now' = now /\ lastAttempt' = lastAttempt
             /\ attempts' = attempts /\ (row' = row \/ CommitRow(i))
  BY <1>3 DEF Respond, Fail, CommitRow, Execute, gate
<1>4. CASE \/ \E t \in Tickers : Settle(t)
           \/ PollIssue \/ PollRead \/ PollFail \/ PollLand \/ Tick \/ UNCHANGED vars
  <2>1. /\ orders' = orders /\ (now' = now \/ now' = now + 1) /\ lastAttempt' = lastAttempt
        /\ attempts' = attempts /\ row' = row
    BY <1>4 DEF Settle, PollIssue, PollRead, PollFail, PollLand, Tick, gate, vars
  <2> QED BY <1>0, <2>1
<1> QED BY <1>0, <1>1, <1>2, <1>3, <1>4 DEF OtherStep

\* Admitting an order keeps what is remembered and remembers the new one.
LEMMA RememberAdmit ==
  ASSUME TypeOK, Clocked, Remembered, NEW w \in Wakes, Admit(w)
  PROVE  Remembered'
<1> DEFINE n == Len(orders)
<1>0. n \in Nat /\ OrderIds = 1..n /\ OrderIds' = 1..(n + 1) /\ now \in Nat /\ now' = now
  BY DEF TypeOK, OrderIds, Admit
<1>1. w.ticker \in Tickers /\ w.direction \in Directions
  BY GateConstants DEF Directions
<1>2. /\ \A j \in 1..n : orders'[j] = orders[j]
      /\ orders'[n + 1] = [ticker |-> w.ticker, direction |-> w.direction,
                           count |-> w.count, price |-> w.price,
                           group |-> w.group, at |-> now]
  BY <1>0 DEF TypeOK, Admit
<1>3. \A j \in 1..n : row'[j] = row[j]
  <2>1. row \in [1..n -> Rows] /\ "none" \in Rows
    BY DEF TypeOK, Rows
  <2> QED BY <1>0, <2>1, AppendFun DEF Admit
<1>4. lastAttempt' = [lastAttempt EXCEPT ![<<w.ticker, w.direction>>] = now]
      /\ attempts' = LiveAttempts \cup {n + 1}
  BY DEF Admit, record_attempt
<1>5. lastAttempt \in [Tickers \X Directions -> Int]
  BY DEF TypeOK
<1>6. ASSUME NEW j \in 1..n, row[j] # "lost", orders[j].at >= now - DAY
      PROVE  /\ j \in attempts'
             /\ lastAttempt'[<<orders[j].ticker, orders[j].direction>>] >= orders[j].at
  <2>1. orders[j].ticker \in Tickers /\ orders[j].direction \in Directions
        /\ orders[j].at \in Nat /\ orders[j].at <= now
    BY <1>0, OrderFields DEF Clocked
  <2>2. j \in attempts
        /\ lastAttempt[<<orders[j].ticker, orders[j].direction>>] >= orders[j].at
    BY <1>0, <1>6 DEF Remembered
  <2>3. j \in attempts'
    BY <1>4, <1>6, <2>2 DEF LiveAttempts
  <2> QED BY <1>0, <1>1, <1>4, <1>5, <2>1, <2>2, <2>3
<1>7. /\ n + 1 \in attempts'
      /\ lastAttempt'[<<w.ticker, w.direction>>] >= now
  BY <1>0, <1>1, <1>4, <1>5
<1> QED BY <1>0, <1>2, <1>3, <1>6, <1>7 DEF Remembered

\* warm_start reads back every row that survived and is less than a day old.
LEMMA RememberRestart ==
  ASSUME TypeOK, Clocked, Restart
  PROVE  Remembered'
<1> DEFINE n == Len(orders)
<1>0. n \in Nat /\ OrderIds = 1..n /\ OrderIds' = OrderIds /\ now \in Nat
      /\ now' = now /\ orders' = orders
  BY DEF TypeOK, OrderIds, Restart
<1> SUFFICES ASSUME NEW j \in OrderIds, row'[j] # "lost", orders[j].at >= now - DAY
             PROVE  /\ j \in attempts'
                    /\ lastAttempt'[<<orders[j].ticker, orders[j].direction>>] >= orders[j].at
  BY <1>0 DEF Remembered
<1>1. HasRow(j)
  <2>1. row[j] \in Rows
    BY <1>0 DEF TypeOK
  <2>2. row'[j] = CASE row[j] = "none" -> "lost"
                    [] row[j] = "pending" -> "orphaned"
                    [] OTHER -> row[j]
    BY DEF Restart
  <2> QED BY <2>1, <2>2 DEF HasRow, Rows
<1>2. j \in WarmRows
  BY <1>1 DEF WarmRows
<1>3. j \in attempts'
  BY <1>2 DEF Restart, warm_start
<1> DEFINE k == <<orders[j].ticker, orders[j].direction>>
           S == {-1} \cup { orders[i].at : i \in { m \in WarmRows :
                              <<orders[m].ticker, orders[m].direction>> = k } }
<1>4. k \in Tickers \X Directions /\ orders[j].at \in Nat
  BY OrderFields
<1>5. lastAttempt'[k] = Max(S)
  BY <1>4 DEF Restart, warm_start
<1>6. ASSUME NEW x \in S PROVE x \in Int /\ x <= now
  <2>1. CASE x = -1
    BY <1>0, <2>1
  <2>2. CASE \E i \in WarmRows : x = orders[i].at
    <3>1. PICK i \in WarmRows : x = orders[i].at
      BY <2>2
    <3>2. i \in OrderIds
      BY DEF WarmRows
    <3> QED BY <3>1, <3>2, OrderFields DEF Clocked
  <2> QED BY <2>1, <2>2
<1>7. orders[j].at \in S
  BY <1>2
<1>8. Max(S) >= orders[j].at
  <2> HIDE DEF S
  <2>1. S \in SUBSET Int /\ S # {} /\ now \in Int
    BY <1>0, <1>6, <1>7
  <2> QED BY <1>6, <1>7, <2>1, MaxOfBounded
<1> QED BY <1>3, <1>5, <1>8

\* Responses, failures, commits, polls, pruning refusals and the clock take
\* nothing from what the gate must remember.
LEMMA RememberOther ==
  ASSUME TypeOK, Remembered, OtherStep
  PROVE  Remembered'
<1> SUFFICES ASSUME NEW j \in OrderIds, row'[j] # "lost", orders[j].at >= now' - DAY
             PROVE  /\ j \in attempts'
                    /\ lastAttempt'[<<orders[j].ticker, orders[j].direction>>] >= orders[j].at
  BY OtherFrame DEF Remembered, OrderIds
<1>1. orders[j].at >= now - DAY
  <2>1. now' >= now /\ now' \in Nat
    BY OtherFrame
  <2>2. orders[j].at \in Nat /\ now \in Nat /\ DAY \in Nat
    BY OrderFields, GateConstants DEF TypeOK
  <2> QED BY <2>1, <2>2
<1> QED BY <1>1, OtherFrame DEF Remembered

\* The orders of a window are finitely many.
LEMMA WindowFinite ==
  ASSUME TypeOK, NEW i \in OrderIds, NEW d
  PROVE  IsFiniteSet(Window(i, d))
<1>1. i \in Int /\ IsFiniteSet(1..i)
  BY OrderFields, FS_Interval
<1>2. Window(i, d) \in SUBSET (1..i)
  BY DEF Window
<1> QED BY <1>1, <1>2, FS_Subset

\* A window never grows: later orders are not in it and a crash only takes away.
LEMMA WindowShrinks ==
  ASSUME TypeOK, [Next]_vars, NEW i \in OrderIds, NEW d
  PROVE  /\ i \in OrderIds' /\ Window(i, d)' \subseteq Window(i, d)
         /\ \A j \in 1..i : orders'[j] = orders[j]
<1> DEFINE n == Len(orders)
<1>0. n \in Nat /\ OrderIds = 1..n /\ i \in 1..n
  BY DEF TypeOK, OrderIds
<1>1. /\ i \in OrderIds'
      /\ \A j \in 1..n : orders'[j] = orders[j] /\ (row'[j] # "lost" => row[j] # "lost")
  <2>1. ASSUME NEW w \in Wakes, Admit(w) PROVE <1>1!1 /\ <1>1!2
    <3>1. row \in [1..n -> Rows] /\ "none" \in Rows
      BY DEF TypeOK, Rows
    <3>2. \A j \in 1..n : row'[j] = row[j]
      BY <1>0, <2>1, <3>1, AppendFun DEF Admit
    <3> QED BY <1>0, <2>1, <3>2 DEF Admit, OrderIds, TypeOK
  <2>2. ASSUME Restart PROVE <1>1!1 /\ <1>1!2
    BY <1>0, <2>2 DEF Restart, OrderIds
  <2>3. ASSUME OtherStep PROVE <1>1!1 /\ <1>1!2
    BY <1>0, <2>3, OtherFrame DEF OrderIds
  <2> QED BY <2>1, <2>2, <2>3 DEF Next, OtherStep
<1> QED BY <1>0, <1>1 DEF Window

\* The windows of a newly admitted order: itself and what the gate remembers.
LEMMA NewWindow ==
  ASSUME TypeOK, Clocked, Remembered, NEW w \in Wakes, Admit(w),
         NEW d \in Nat, d <= DAY, NEW n \in Nat, n = Len(orders)
  PROVE  /\ OrderIds' = OrderIds \cup {n + 1}
         /\ Window(n + 1, d)' \subseteq
              { j \in LiveAttempts : orders[j].at >= now - d } \cup {n + 1}
         /\ IsFiniteSet(LiveAttempts)
         /\ orders'[n + 1].ticker = w.ticker /\ orders'[n + 1].group = w.group
         /\ \A j \in LiveAttempts : orders'[j] = orders[j] /\ j \in 1..n
<1> DEFINE L == { j \in LiveAttempts : orders[j].at >= now - d }
<1>0. OrderIds = 1..n /\ OrderIds' = 1..(n + 1) /\ now \in Nat /\ now' = now
  BY DEF TypeOK, OrderIds, Admit
<1>1. /\ \A j \in 1..n : orders'[j] = orders[j]
      /\ orders'[n + 1].ticker = w.ticker /\ orders'[n + 1].group = w.group
      /\ orders'[n + 1].at = now
  BY <1>0 DEF TypeOK, Admit
<1>2. \A j \in 1..n : row'[j] = row[j]
  <2>1. row \in [1..n -> Rows] /\ "none" \in Rows
    BY DEF TypeOK, Rows
  <2> QED BY <1>0, <2>1, AppendFun DEF Admit
<1>3. ASSUME NEW j \in 1..n, row[j] # "lost", orders[j].at >= now - d PROVE j \in L
  <2>1. orders[j].at \in Nat /\ DAY \in Nat
    BY <1>0, OrderFields, GateConstants
  <2>2. orders[j].at >= now - DAY
    BY <1>0, <1>3, <2>1
  <2> QED BY <1>0, <1>3, <2>2 DEF Remembered, LiveAttempts
<1>4. Window(n + 1, d)' \subseteq L \cup {n + 1}
  <2> SUFFICES ASSUME NEW j \in 1..(n + 1), row'[j] # "lost",
                      orders'[j].at >= orders'[n + 1].at - d, j # n + 1
               PROVE  j \in L
    BY DEF Window
  <2>1. j \in 1..n
    OBVIOUS
  <2> QED BY <1>1, <1>2, <1>3, <2>1
<1>5. IsFiniteSet(LiveAttempts) /\ LiveAttempts \subseteq 1..n
  <2>1. IsFiniteSet(1..n)
    BY FS_Interval
  <2>2. LiveAttempts \in SUBSET (1..n)
    BY DEF LiveAttempts, TypeOK
  <2> QED BY <2>1, <2>2, FS_Subset
<1>6. OrderIds' = OrderIds \cup {n + 1}
  BY <1>0
<1> QED BY <1>0, <1>1, <1>4, <1>5, <1>6

\* check() keeps the hourly cap of every order, old and new.
LEMMA HourCapStep ==
  ASSUME TypeOK, Clocked, Remembered, RollingHourCap, [Next]_vars
  PROVE  RollingHourCap'
<1>0. MaxPerHour \in Nat /\ HOUR \in Nat /\ HOUR <= DAY
  BY GateConstants
<1>1. ASSUME NEW i \in OrderIds PROVE Cardinality(Window(i, HOUR)') <= MaxPerHour
  BY <1>0, WindowShrinks, WindowFinite, CapShrink DEF RollingHourCap
<1>2. ASSUME NEW w \in Wakes, Admit(w) PROVE RollingHourCap'
  <2> DEFINE L == { j \in LiveAttempts : orders[j].at >= now - HOUR }
  <2>0. PICK n \in Nat : n = Len(orders)
    BY DEF TypeOK
  <2>1. /\ OrderIds' = OrderIds \cup {n + 1} /\ Window(n + 1, HOUR)' \subseteq L \cup {n + 1}
        /\ IsFiniteSet(LiveAttempts)
    BY <1>0, <1>2, <2>0, NewWindow
  <2>2. IsFiniteSet(L)
    BY <2>1, FS_Subset
  <2>3. Cardinality(L) < MaxPerHour
    BY <1>2 DEF Admit, check, AttemptCaps
  <2>4. Cardinality(Window(n + 1, HOUR)') <= MaxPerHour
    BY <1>0, <2>1, <2>2, <2>3, CapStep
  <2> SUFFICES ASSUME NEW i \in OrderIds' PROVE Cardinality(Window(i, HOUR)') <= MaxPerHour
    BY DEF RollingHourCap
  <2> QED BY <1>1, <2>1, <2>4
<1>3. CASE Restart \/ OtherStep
  <2>1. OrderIds' = OrderIds
    BY <1>3, OtherFrame DEF Restart, OrderIds
  <2> QED BY <1>1, <2>1 DEF RollingHourCap
<1> QED BY <1>2, <1>3 DEF Next, OtherStep

\* The four daily caps of one order, as RollingDayCaps states them.
DayCapsOf(i) ==
  /\ Cardinality(Window(i, DAY)) <= MaxPerDay
  /\ Cardinality(SameTicker(i)) <= MaxPerTicker
  /\ Cardinality(SameEvent(i)) <= MaxPerEvent
  /\ orders[i].group # NoGroup => Cardinality(SameGroup(i)) <= MaxPerGroup

\* A later step takes nothing from what the caps of an earlier order bound.
LEMMA DayCapsOld ==
  ASSUME TypeOK, [Next]_vars, NEW i \in OrderIds, DayCapsOf(i)
  PROVE  DayCapsOf(i)'
<1>0. /\ MaxPerDay \in Nat /\ MaxPerTicker \in Nat /\ MaxPerEvent \in Nat
      /\ MaxPerGroup \in Nat
  BY GateConstants
<1>1. /\ Window(i, DAY)' \subseteq Window(i, DAY) /\ IsFiniteSet(Window(i, DAY))
      /\ \A j \in 1..i : orders'[j] = orders[j]
  BY WindowShrinks, WindowFinite
<1>2. i \in 1..i /\ \A j \in Window(i, DAY)' : orders'[j] = orders[j]
  BY <1>1, OrderFields DEF Window
<1>3. /\ SameTicker(i)' \subseteq SameTicker(i) /\ SameEvent(i)' \subseteq SameEvent(i)
      /\ SameGroup(i)' \subseteq SameGroup(i) /\ orders'[i] = orders[i]
  BY <1>1, <1>2 DEF SameTicker, SameEvent, SameGroup, event_ticker_of
<1>4. IsFiniteSet(SameTicker(i)) /\ IsFiniteSet(SameEvent(i)) /\ IsFiniteSet(SameGroup(i))
  <2>1. /\ SameTicker(i) \in SUBSET Window(i, DAY) /\ SameEvent(i) \in SUBSET Window(i, DAY)
        /\ SameGroup(i) \in SUBSET Window(i, DAY)
    BY DEF SameTicker, SameEvent, SameGroup
  <2> QED BY <1>1, <2>1, FS_Subset
<1>5. Cardinality(Window(i, DAY)') <= MaxPerDay
  BY <1>0, <1>1, CapShrink DEF DayCapsOf
<1>6. Cardinality(SameTicker(i)') <= MaxPerTicker
  BY <1>0, <1>3, <1>4, CapShrink DEF DayCapsOf
<1>7. Cardinality(SameEvent(i)') <= MaxPerEvent
  BY <1>0, <1>3, <1>4, CapShrink DEF DayCapsOf
<1>8. ASSUME orders[i].group # NoGroup PROVE Cardinality(SameGroup(i)') <= MaxPerGroup
  BY <1>0, <1>3, <1>4, <1>8, CapShrink DEF DayCapsOf
<1> QED BY <1>3, <1>5, <1>6, <1>7, <1>8 DEF DayCapsOf

\* The caps check() applied hold of the order it admitted.
LEMMA DayCapsNew ==
  ASSUME TypeOK, Clocked, Remembered, NEW w \in Wakes, Admit(w),
         NEW n \in Nat, n = Len(orders)
  PROVE  DayCapsOf(n + 1)'
<1> DEFINE W == Window(n + 1, DAY)'
           OnTicker == { j \in LiveAttempts : orders[j].ticker \in {w.ticker} }
           E == StrikesOf(event_ticker_of(w.ticker))
           OnEvent == { j \in LiveAttempts : orders[j].ticker \in E }
           OnGroup == { j \in LiveAttempts : orders[j].group = w.group }
<1>0. /\ MaxPerDay \in Nat /\ MaxPerTicker \in Nat /\ MaxPerEvent \in Nat
      /\ MaxPerGroup \in Nat /\ DAY \in Nat /\ DAY <= DAY
  BY GateConstants
<1>1. /\ W \subseteq LiveAttempts \cup {n + 1} /\ IsFiniteSet(LiveAttempts)
      /\ orders'[n + 1].ticker = w.ticker /\ orders'[n + 1].group = w.group
      /\ \A j \in LiveAttempts : orders'[j] = orders[j] /\ j \in 1..n
  BY <1>0, NewWindow
<1>2. AttemptCaps(w)
  BY DEF Admit, check
<1>3. IsFiniteSet(OnTicker) /\ IsFiniteSet(OnEvent) /\ IsFiniteSet(OnGroup)
  BY <1>1, FS_Subset
<1>4. Cardinality(W) <= MaxPerDay
  BY <1>0, <1>1, <1>2, CapStep DEF AttemptCaps
<1>5. Cardinality(SameTicker(n + 1)') <= MaxPerTicker
  <2>1. SameTicker(n + 1)' \subseteq OnTicker \cup {n + 1}
    BY <1>1 DEF SameTicker
  <2>2. Cardinality(OnTicker) < MaxPerTicker
    BY <1>2 DEF AttemptCaps, AttemptsOn
  <2> HIDE DEF OnTicker
  <2> QED BY <1>0, <1>3, <2>1, <2>2, CapStep
<1>6. Cardinality(SameEvent(n + 1)') <= MaxPerEvent
  <2>1. \A j \in LiveAttempts : orders[j].ticker \in Tickers
    BY RecordedOrders DEF LiveAttempts
  <2>2. SameEvent(n + 1)' \subseteq OnEvent \cup {n + 1}
    BY <1>1, <2>1 DEF SameEvent, StrikesOf, event_ticker_of
  <2>3. Cardinality(OnEvent) < MaxPerEvent
    BY <1>2 DEF AttemptCaps, AttemptsOn
  <2> HIDE DEF OnEvent
  <2> QED BY <1>0, <1>3, <2>2, <2>3, CapStep
<1>7. ASSUME w.group # NoGroup PROVE Cardinality(SameGroup(n + 1)') <= MaxPerGroup
  <2>1. SameGroup(n + 1)' \subseteq OnGroup \cup {n + 1}
    BY <1>1 DEF SameGroup
  <2>2. Cardinality(OnGroup) < MaxPerGroup
    BY <1>2, <1>7 DEF AttemptCaps
  <2> HIDE DEF OnGroup
  <2> QED BY <1>0, <1>3, <2>1, <2>2, CapStep
<1> QED BY <1>1, <1>4, <1>5, <1>6, <1>7 DEF DayCapsOf

\* check() keeps the four daily caps of every order, old and new.
LEMMA DayCapsStep ==
  ASSUME TypeOK, Clocked, Remembered, RollingDayCaps, [Next]_vars
  PROVE  RollingDayCaps'
<1>1. \A i \in OrderIds : DayCapsOf(i)'
  BY DayCapsOld DEF RollingDayCaps, DayCapsOf
<1>2. ASSUME NEW w \in Wakes, Admit(w) PROVE RollingDayCaps'
  <2>0. PICK n \in Nat : n = Len(orders)
    BY DEF TypeOK
  <2>1. OrderIds' = OrderIds \cup {n + 1} /\ DayCapsOf(n + 1)'
    BY <1>2, <2>0, NewWindow, DayCapsNew, GateConstants
  <2> QED BY <1>1, <2>1 DEF RollingDayCaps, DayCapsOf
<1>3. CASE Restart \/ OtherStep
  <2>1. OrderIds' = OrderIds
    BY <1>3, OtherFrame DEF Restart, OrderIds
  <2> QED BY <1>1, <2>1 DEF RollingDayCaps, DayCapsOf
<1> QED BY <1>2, <1>3 DEF Next, OtherStep

\* check() keeps the cooldown between the orders of one side of one ticker.
LEMMA CooldownStep ==
  ASSUME TypeOK, Clocked, Remembered, CooldownKept, [Next]_vars
  PROVE  CooldownKept'
<1>0. /\ DAY \in Nat /\ Cooldown \in Nat /\ Cooldown <= DAY /\ now \in Nat
      /\ \A i \in OrderIds : orders[i].at \in Nat
  BY GateConstants, OrderFields DEF TypeOK
<1>1. ASSUME NEW w \in Wakes, Admit(w) PROVE CooldownKept'
  <2>0. PICK n \in Nat : n = Len(orders)
    BY DEF TypeOK
  <2>1. /\ OrderIds = 1..n /\ OrderIds' = 1..(n + 1)
        /\ \A j \in 1..n : orders'[j] = orders[j]
        /\ orders'[n + 1].ticker = w.ticker /\ orders'[n + 1].direction = w.direction
        /\ orders'[n + 1].at = now
    BY <1>1, <2>0 DEF TypeOK, OrderIds, Admit
  <2>2. \A j \in 1..n : row'[j] = row[j]
    <3>1. row \in [1..n -> Rows] /\ "none" \in Rows
      BY <2>0 DEF TypeOK, Rows
    <3> QED BY <1>1, <2>0, <3>1, AppendFun DEF Admit
  <2>3. ASSUME NEW i \in 1..n, row[i] # "lost", orders[i].ticker = w.ticker,
               orders[i].direction = w.direction
        PROVE  now - orders[i].at >= Cooldown
    <3> DEFINE last == lastAttempt[<<w.ticker, w.direction>>]
    <3>1. last = -1 \/ now - last >= Cooldown
      BY <1>1 DEF Admit, check, PreChecks
    <3>2. last \in Int
      BY OrderFields, <2>1, <2>3 DEF TypeOK
    <3>3. CASE orders[i].at >= now - DAY
      <4>1. last >= orders[i].at
        BY <2>1, <2>3, <3>3 DEF Remembered
      <4> QED BY <1>0, <2>1, <3>1, <3>2, <4>1
    <3>4. CASE ~ (orders[i].at >= now - DAY)
      BY <1>0, <2>1, <3>4
    <3> QED BY <3>3, <3>4
  <2> SUFFICES ASSUME NEW i \in 1..(n + 1), NEW j \in 1..(n + 1), i < j, row'[i] # "lost",
                      orders'[i].ticker = orders'[j].ticker,
                      orders'[i].direction = orders'[j].direction
               PROVE  orders'[j].at - orders'[i].at >= Cooldown
    BY <2>1 DEF CooldownKept
  <2>4. i \in 1..n
    BY <2>0
  <2>5. CASE j = n + 1
    BY <2>1, <2>2, <2>3, <2>4, <2>5
  <2>6. CASE j \in 1..n
    BY <2>1, <2>2, <2>4, <2>6 DEF CooldownKept
  <2> QED BY <2>5, <2>6
<1>2. CASE Restart \/ OtherStep
  <2>1. orders' = orders /\ OrderIds' = OrderIds
    BY <1>2, OtherFrame DEF Restart, OrderIds
  <2>2. \A j \in OrderIds : row'[j] # "lost" => row[j] # "lost"
    BY <1>2, OtherFrame DEF Restart
  <2> QED BY <2>1, <2>2 DEF CooldownKept
<1> QED BY <1>1, <1>2 DEF Next, OtherStep

\* What the gate remembers is enough for its caps and its cooldown to hold of
\* the orders it sent, through refusals, failures, pruning and restarts.
THEOREM AttemptsWithinCaps ==
  Spec => [](RollingAttemptCaps /\ CooldownKept)
<1> DEFINE IInv == Remembered /\ RollingHourCap /\ RollingDayCaps /\ CooldownKept
<1>1. Init => IInv
  BY DEF Init, Remembered, RollingHourCap, RollingDayCaps, CooldownKept, OrderIds
<1>2. TypeOK /\ Clocked /\ IInv /\ [Next]_vars => IInv'
  <2> SUFFICES ASSUME TypeOK, Clocked, IInv, [Next]_vars PROVE IInv'
    OBVIOUS
  <2>1. Remembered'
    BY RememberAdmit, RememberRestart, RememberOther DEF Next, OtherStep
  <2> QED BY <2>1, HourCapStep, DayCapsStep, CooldownStep
<1> HIDE DEF IInv
<1>3. Spec => []IInv
  BY <1>1, <1>2, TypeCorrect, PTL DEF Spec
<1>4. IInv => RollingAttemptCaps /\ CooldownKept
  BY DEF IInv, RollingAttemptCaps
<1> QED BY <1>3, <1>4, PTL

\* The cooldown of RiskGate.check() on its own: it holds of any two orders on one
\* side of one ticker whose first row survived, with any restarts between them.
COROLLARY CooldownSurvivesRestart == Spec => []CooldownKept
BY AttemptsWithinCaps, PTL
-----------------------------------------------------------------------------
(* The concurrency cap: the counter _in_flight is the number of dispatches *)
(* that await the exchange.                                                *)

InFlight == { i \in OrderIds : phase[i] = "inflight" }

Counted ==
  /\ inFlight = Cardinality(InFlight)
  /\ Cardinality(InFlight) <= MaxConcurrent

\* The dispatches in flight are finitely many, whatever the bounds.
LEMMA FlightFinite ==
  ASSUME TypeOK
  PROVE  IsFiniteSet(InFlight) /\ Cardinality(InFlight) \in Nat
<1>1. IsFiniteSet(OrderIds)
  BY FS_Interval DEF TypeOK, OrderIds
<1>2. InFlight \in SUBSET OrderIds
  BY DEF InFlight
<1> QED BY <1>1, <1>2, FS_Subset, FS_CardinalityType

\* end_dispatch(), once for each dispatch: the counter goes down with the set.
LEMMA DispatchEnds ==
  ASSUME TypeOK, Counted, NEW i \in OrderIds, phase[i] = "inflight",
         NEW p, p # "inflight", phase' = [phase EXCEPT ![i] = p], orders' = orders,
         inFlight' = Max({0, inFlight - 1})
  PROVE  Counted'
<1>1. InFlight' = InFlight \ {i} /\ i \in InFlight
  BY DEF InFlight, TypeOK, OrderIds
<1>2. Cardinality(InFlight \ {i}) = Cardinality(InFlight) - 1 /\ Cardinality(InFlight) \in Nat
      /\ Cardinality(InFlight \ {i}) \in Nat
  BY <1>1, FlightFinite, FS_RemoveElement, FS_CardinalityType
<1>3. inFlight - 1 \in Int /\ inFlight' = inFlight - 1
  <2>1. inFlight - 1 \in Nat
    BY <1>2 DEF Counted
  <2> QED BY <2>1, MaxZero
<1>4. MaxConcurrent \in Nat
  BY GateConstants
<1> QED BY <1>1, <1>2, <1>3, <1>4 DEF Counted

\* Steps that start, end and lose no dispatch.
LEMMA CountedFrame ==
  ASSUME TypeOK, Counted, UNCHANGED <<orders, phase, inFlight>>
  PROVE  Counted'
<1>1. InFlight' = InFlight
  BY DEF InFlight, OrderIds
<1> QED BY <1>1 DEF Counted

\* Every step keeps the counter equal to the dispatches in flight and within the cap.
LEMMA CountedStep ==
  ASSUME TypeOK, Counted, [Next]_vars
  PROVE  Counted'
<1> DEFINE n == Len(orders)
<1>0. n \in Nat /\ OrderIds = 1..n /\ MaxConcurrent \in Nat
  BY GateConstants DEF TypeOK, OrderIds
<1>1. ASSUME NEW w \in Wakes, Admit(w) PROVE Counted'
  <2>1. phase \in [1..n -> Phases] /\ "inflight" \in Phases
    BY DEF TypeOK, Phases
  <2>2. /\ OrderIds' = 1..(n + 1) /\ phase'[n + 1] = "inflight"
        /\ \A j \in 1..n : phase'[j] = phase[j]
    BY <1>0, <1>1, <2>1, AppendFun DEF Admit, OrderIds, TypeOK
  <2>3. InFlight' = InFlight \cup {n + 1} /\ n + 1 \notin InFlight
    BY <1>0, <2>2 DEF InFlight
  <2>4. IsFiniteSet(InFlight) /\ Cardinality(InFlight) \in Nat
    BY FlightFinite
  <2>5. Cardinality(InFlight \cup {n + 1}) = Cardinality(InFlight) + 1
    BY <2>3, <2>4, FS_AddElement
  <2>6. inFlight < MaxConcurrent /\ inFlight' = inFlight + 1
    BY <1>1 DEF Admit, check, PreChecks
  <2> QED BY <1>0, <2>3, <2>4, <2>5, <2>6 DEF Counted
<1>2. ASSUME NEW i \in OrderIds, Fail(i) \/ \E f \in 0..orders[i].count : Respond(i, f)
      PROVE  Counted'
  <2>1. PICK p \in {"done", "failed"} :
          /\ phase[i] = "inflight" /\ phase' = [phase EXCEPT ![i] = p] /\ orders' = orders
          /\ inFlight' = Max({0, inFlight - 1})
    BY <1>2 DEF Respond, Fail
  <2> QED BY <2>1, DispatchEnds
<1>3. CASE Restart
  <2>1. OrderIds' = OrderIds /\ \A j \in OrderIds : phase'[j] # "inflight"
    BY <1>3 DEF Restart, OrderIds
  <2>2. InFlight' = {} /\ inFlight' = 0
    BY <1>3, <2>1 DEF InFlight, Restart, warm_start
  <2> QED BY <1>0, <2>2, FS_EmptySet DEF Counted
<1>4. CASE \/ \E w \in Wakes : Refuse(w)
           \/ \E i \in OrderIds : CommitRow(i) \/ \E f \in 0..orders[i].count : Execute(i, f)
           \/ \E t \in Tickers : Settle(t)
           \/ PollIssue \/ PollRead \/ PollFail \/ PollLand \/ Tick \/ UNCHANGED vars
  <2>1. UNCHANGED <<orders, phase, inFlight>>
    BY <1>4 DEF Refuse, CommitRow, Execute, Settle, PollIssue, PollRead, PollFail, PollLand,
                reconcile_open_positions, Tick, gate, vars
  <2> QED BY <2>1, CountedFrame
<1> QED BY <1>1, <1>2, <1>3, <1>4 DEF Next

\* No more dispatches than the cap ever await the exchange: end_dispatch() in the
\* finally block runs once for each, whether its response, an error or nothing came.
THEOREM DispatchesWithinCap == Spec => []ConcurrencyBound
<1>1. Init => Counted
  <2> SUFFICES ASSUME Init PROVE Counted
    OBVIOUS
  <2>1. InFlight = {} /\ inFlight = 0 /\ MaxConcurrent \in Nat
    BY GateConstants DEF Init, EmptyGate, InFlight, OrderIds
  <2> QED BY <2>1, FS_EmptySet DEF Counted
<1>2. TypeOK /\ Counted /\ [Next]_vars => Counted'
  BY CountedStep
<1>3. Counted => ConcurrencyBound
  BY DEF Counted, ConcurrencyBound, InFlight
<1> QED BY <1>1, <1>2, <1>3, TypeCorrect, PTL DEF Spec
-----------------------------------------------------------------------------
(* The position ledger: a fill that a response reported is either in the    *)
(* snapshot that serves as baseline or still layered over it.              *)

\* Order i's reported fill is among the fills stamped since at, unless such fills
\* are more than a day old and may have been pruned.
Layered(i, at) == at >= now - DAY => \E f \in fills : f.order = i /\ f.ts >= at

Layers ==
  /\ \A i \in OrderIds : told[i] <= fill[i]
  /\ poll.state = "read" => \A i \in OrderIds : told[i] > Of(poll.seen, i) => Layered(i, poll.at)
  /\ recAt > 0 => \A i \in OrderIds : told[i] > Of(baseSeen, i) => Layered(i, recAt)

\* A snapshot reflects a natural number of contracts of any order.
LEMMA OfIsNat ==
  ASSUME NEW s \in Seq(Nat), NEW i
  PROVE  Of(s, i) \in Nat
BY DEF Of

\* What an order has executed and what was told of it are natural numbers.
LEMMA AmountsAreNat ==
  ASSUME TypeOK, NEW i \in OrderIds
  PROVE  /\ fill[i] \in Nat /\ told[i] \in Nat /\ orders[i].count \in Nat \ {0}
         /\ \A j : Of(poll.seen, j) \in Nat /\ Of(baseSeen, j) \in Nat
<1>1. i \in 1..Len(orders) /\ orders[i] \in OrderRecs
  BY DEF TypeOK, OrderIds
<1>2. fill[i] \in Nat /\ told[i] \in Nat
  BY <1>1 DEF TypeOK
<1>3. poll.seen \in Seq(Nat) /\ baseSeen \in Seq(Nat)
  BY DEF TypeOK
<1> QED BY <1>1, <1>2, <1>3, OfIsNat DEF OrderRecs

\* What is not yet too old later was not before.
LEMMA LaterCutoff ==
  ASSUME NEW a \in Int, NEW b \in Int, a <= b, NEW d \in Int, NEW x \in Int, x >= b - d
  PROVE  x >= a - d
OBVIOUS

\* What a step must leave alone for the layers to stand: it may prune fills older
\* than a day, add others, and execute more.
LEMMA LayersFrame ==
  ASSUME TypeOK, Layers, orders' = orders, poll' = poll, recAt' = recAt, baseSeen' = baseSeen,
         now' \in Nat, now' >= now, LiveFills \subseteq fills', told' = told,
         \A i \in OrderIds : fill'[i] \in Nat /\ fill'[i] >= fill[i]
  PROVE  Layers'
<1>1. OrderIds' = OrderIds /\ poll.at \in Nat /\ recAt \in Nat /\ now \in Nat /\ DAY \in Nat
      /\ \A f \in fills : f.ts \in Nat
  BY GateConstants DEF OrderIds, TypeOK
<1>2. ASSUME NEW i \in OrderIds, NEW at \in Nat, Layered(i, at) PROVE Layered(i, at)'
  <2> SUFFICES ASSUME at >= now' - DAY PROVE \E f \in fills' : f.order = i /\ f.ts >= at
    BY DEF Layered
  <2>1. at >= now - DAY
    <3>1. now \in Int /\ now' \in Int /\ now <= now'
      BY <1>1
    <3>2. at \in Int /\ DAY \in Int
      BY <1>1
    <3>3. at >= now' - DAY
      OBVIOUS
    <3> QED BY <3>1, <3>2, <3>3, LaterCutoff
  <2>2. PICK f \in fills : f.order = i /\ f.ts >= at
    BY <1>2, <2>1 DEF Layered
  <2>3. f.ts >= now - DAY
    BY <1>1, <2>1, <2>2
  <2> QED BY <2>2, <2>3 DEF LiveFills
<1>3. \A i \in OrderIds : told'[i] <= fill'[i]
  BY AmountsAreNat DEF Layers
<1> QED BY <1>1, <1>2, <1>3 DEF Layers, Of

\* Admitting an order prunes; the new order has no answer yet.
LEMMA LayersAdmit ==
  ASSUME TypeOK, Layers, NEW w \in Wakes, Admit(w)
  PROVE  Layers'
<1> DEFINE n == Len(orders)
<1>0. /\ n \in Nat /\ OrderIds = 1..n /\ OrderIds' = 1..(n + 1)
      /\ now \in Nat /\ DAY \in Nat /\ poll.at \in Nat /\ recAt \in Nat
      /\ \A f \in fills : f.ts \in Nat
  BY GateConstants DEF TypeOK, OrderIds, Admit
<1>1. /\ \A j \in 1..n : fill'[j] = fill[j] /\ told'[j] = told[j]
      /\ fill'[n + 1] = 0 /\ told'[n + 1] = 0
  <2>1. fill \in [1..n -> Nat] /\ told \in [1..n -> Nat] /\ 0 \in Nat
    BY DEF TypeOK
  <2> QED BY <1>0, <2>1, AppendFun DEF Admit
<1>2. Of(poll.seen, n + 1) \in Nat /\ Of(baseSeen, n + 1) \in Nat
  BY OfIsNat DEF TypeOK
<1>3. UNCHANGED <<now, poll, recAt, baseSeen>> /\ fills' = LiveFills
  BY DEF Admit
<1>4. ASSUME NEW i \in 1..n, NEW at \in Nat, Layered(i, at) PROVE Layered(i, at)'
  <2> SUFFICES ASSUME at >= now - DAY PROVE \E f \in LiveFills : f.order = i /\ f.ts >= at
    BY <1>3 DEF Layered
  <2>1. PICK f \in fills : f.order = i /\ f.ts >= at
    BY <1>4 DEF Layered
  <2>2. f.ts >= now - DAY
    BY <1>0, <2>1
  <2> QED BY <2>1, <2>2 DEF LiveFills
<1>5. \A i \in OrderIds' : told'[i] <= fill'[i]
  BY <1>0, <1>1 DEF Layers
<1>6. \A i \in OrderIds' : i # n + 1 => i \in 1..n
  BY <1>0
<1>7. poll'.state = "read" =>
        \A i \in OrderIds' : told'[i] > Of(poll.seen, i) => Layered(i, poll.at)'
  BY <1>0, <1>1, <1>2, <1>3, <1>4, <1>6 DEF Layers
<1>8. recAt' > 0 =>
        \A i \in OrderIds' : told'[i] > Of(baseSeen, i) => Layered(i, recAt)'
  BY <1>0, <1>1, <1>2, <1>3, <1>4, <1>6 DEF Layers
<1> QED BY <1>3, <1>5, <1>7, <1>8 DEF Layers, Of

\* record_fill stamps the fill with the time of the response, which no snapshot
\* that missed the execution was issued after.
LEMMA LayersRespond ==
  ASSUME TypeOK, Clocked, Layers, NEW i \in OrderIds, NEW c \in 0..orders[i].count, Respond(i, c)
  PROVE  Layers'
<1>0. /\ c \in Nat /\ told' = [told EXCEPT ![i] = c] /\ fills' = record_fill(i, c)
      /\ UNCHANGED <<now, orders, fill, poll, recAt, baseSeen>> /\ OrderIds' = OrderIds
      /\ c <= fill[i]
  BY AmountsAreNat DEF Respond, OrderIds
<1>1. /\ told'[i] = c /\ \A j \in OrderIds \ {i} : told'[j] = told[j]
      /\ fills \subseteq fills'
  BY <1>0 DEF TypeOK, OrderIds, record_fill
<1>2. ASSUME NEW j \in OrderIds, NEW at, Layered(j, at) PROVE Layered(j, at)'
  BY <1>0, <1>1, <1>2 DEF Layered
<1>3. ASSUME c > 0, NEW at \in Nat, at <= now PROVE Layered(i, at)'
  <2> DEFINE f == [order |-> i, ts |-> now, group |-> groupOf[orders[i].ticker]]
  <2>1. f \in fills' /\ f.order = i /\ f.ts >= at
    BY <1>0, <1>1, <1>3 DEF record_fill, TypeOK
  <2> HIDE DEF f
  <2> QED BY <2>1 DEF Layered
<1>4. poll.at \in Nat /\ poll.at <= now /\ recAt \in Nat /\ recAt <= now
  BY DEF TypeOK, Clocked
<1>5. \A j \in OrderIds : told'[j] <= fill'[j]
  BY <1>0, <1>1 DEF Layers
<1>6. /\ c > Of(poll.seen, i) => c > 0
      /\ c > Of(baseSeen, i) => c > 0
  BY <1>0, AmountsAreNat
<1>7. poll.state = "read" =>
        \A j \in OrderIds : told'[j] > Of(poll.seen, j) => Layered(j, poll.at)'
  <2> SUFFICES ASSUME poll.state = "read", NEW j \in OrderIds, told'[j] > Of(poll.seen, j)
               PROVE  Layered(j, poll.at)'
    BY <1>0
  <2>2. CASE j = i
    BY <1>0, <1>1, <1>3, <1>4, <1>6, <2>2 DEF Layered
  <2>3. CASE j # i
    <3>1. Layered(j, poll.at)
      BY <1>1, <2>3 DEF Layers
    <3> QED BY <1>0, <1>2, <3>1 DEF Layered
  <2> QED BY <2>2, <2>3
<1>8. recAt > 0 =>
        \A j \in OrderIds : told'[j] > Of(baseSeen, j) => Layered(j, recAt)'
  <2> SUFFICES ASSUME recAt > 0, NEW j \in OrderIds, told'[j] > Of(baseSeen, j)
               PROVE  Layered(j, recAt)'
    BY <1>0
  <2>2. CASE j = i
    BY <1>0, <1>1, <1>3, <1>4, <1>6, <2>2 DEF Layered
  <2>3. CASE j # i
    <3>1. Layered(j, recAt)
      BY <1>1, <2>3 DEF Layers
    <3> QED BY <1>0, <1>2, <3>1 DEF Layered
  <2> QED BY <2>2, <2>3
<1> QED BY <1>0, <1>5, <1>7, <1>8 DEF Layers, Of

\* The answer of the exchange holds every execution of that moment; the landing makes
\* it the baseline, with the time stamp it was issued at.
LEMMA LayersPoll ==
  ASSUME TypeOK, Layers, PollIssue \/ PollRead \/ PollFail \/ PollLand
  PROVE  Layers'
<1>0. /\ UNCHANGED <<now, orders, told, fill, fills>> /\ OrderIds' = OrderIds
      /\ \A i \in OrderIds : fill[i] \in Nat /\ told[i] \in Nat
  BY AmountsAreNat DEF PollIssue, PollRead, PollFail, PollLand, gate, OrderIds
<1>1. CASE PollIssue \/ PollFail
  <2>1. poll'.state # "read"
    <3>1. CASE PollIssue
      <4>1. poll' = [state |-> "issued", at |-> now, value |-> [t \in Tickers |-> 0],
                     seen |-> <<>>, gone |-> {}]
        BY <3>1 DEF PollIssue, NoPoll
      <4> QED BY <4>1
    <3>2. CASE PollFail
      BY <3>2 DEF PollFail, NoPoll
    <3> QED BY <1>1, <3>1, <3>2
  <2>2. UNCHANGED <<recAt, baseSeen>>
    BY <1>1 DEF PollIssue, PollFail, gate
  <2> QED BY <1>0, <2>1, <2>2 DEF Layers, Layered, Of
<1>2. CASE PollRead
  <2>1. poll'.seen = fill /\ UNCHANGED <<recAt, baseSeen>>
    BY <1>2 DEF PollRead, gate, TypeOK
  <2>2. ASSUME NEW i \in OrderIds PROVE Of(fill, i) = fill[i]
    BY DEF Of, OrderIds, TypeOK
  <2>3. \A i \in OrderIds : ~ (told[i] > Of(fill, i))
    BY <1>0, <2>2 DEF Layers
  <2>4. \A i \in OrderIds : Of(poll'.seen, i) = Of(fill, i)
    BY <2>1
  <2> QED BY <1>0, <2>1, <2>3, <2>4 DEF Layers, Layered, Of
<1>3. CASE PollLand
  <2>1. /\ poll.state = "read" /\ recAt' = poll.at /\ baseSeen' = poll.seen
        /\ poll'.state # "read"
    BY <1>3 DEF PollLand, reconcile_open_positions, NoPoll
  <2> QED BY <1>0, <2>1 DEF Layers, Layered, Of
<1> QED BY <1>1, <1>2, <1>3

LEMMA LayersStep ==
  ASSUME TypeOK, Clocked, Layers, [Next]_vars
  PROVE  Layers'
<1>0. /\ now \in Nat /\ now + 1 >= now /\ \A i \in OrderIds : fill[i] \in Nat
      /\ LiveFills \subseteq fills
  BY AmountsAreNat DEF TypeOK, LiveFills
<1>1. ASSUME NEW w \in Wakes, Admit(w) \/ Refuse(w) PROVE Layers'
  <2>1. CASE Refuse(w)
    <3>1. /\ UNCHANGED <<orders, told, fill, poll, recAt, baseSeen, now>>
          /\ LiveFills \subseteq fills'
      BY <1>0, <2>1 DEF Refuse
    <3> QED BY <1>0, <3>1, LayersFrame
  <2> QED BY <1>1, <2>1, LayersAdmit
<1>2. ASSUME NEW i \in OrderIds, Fail(i) \/ CommitRow(i) PROVE Layers'
  <2>1. UNCHANGED <<orders, told, fill, poll, recAt, baseSeen, now, fills>>
    BY <1>2 DEF Fail, CommitRow, gate
  <2> QED BY <1>0, <2>1, LayersFrame
<1>3. ASSUME NEW i \in OrderIds, NEW f \in 0..orders[i].count, Execute(i, f) PROVE Layers'
  <2>1. /\ fill' = [fill EXCEPT ![i] = @ + f] /\ f \in Nat
        /\ UNCHANGED <<orders, told, poll, recAt, baseSeen, now, fills>>
    BY <1>3, AmountsAreNat DEF Execute, gate
  <2>2. \A j \in OrderIds : fill'[j] = IF j = i THEN fill[j] + f ELSE fill[j]
    BY <2>1 DEF TypeOK, OrderIds
  <2>3. \A j \in OrderIds : fill'[j] \in Nat /\ fill'[j] >= fill[j]
    BY <1>0, <2>1, <2>2
  <2> QED BY <1>0, <2>1, <2>3, LayersFrame
<1>4. ASSUME NEW t \in Tickers, Settle(t) PROVE Layers'
  <2>1. UNCHANGED <<orders, fill, told, poll, recAt, baseSeen, now, fills>>
    BY <1>4 DEF Settle, gate
  <2> QED BY <1>0, <2>1, LayersFrame
<1>5. CASE Restart
  <2>1. /\ recAt' = 0 /\ poll'.state # "read" /\ OrderIds' = OrderIds
        /\ fill' = fill /\ told' = told
    BY <1>5 DEF Restart, warm_start, NoPoll, OrderIds
  <2> QED BY <2>1 DEF Layers
<1>6. CASE Tick \/ UNCHANGED vars
  <2>1. /\ now' \in {now, now + 1}
        /\ UNCHANGED <<orders, told, fill, poll, recAt, baseSeen, fills>>
    BY <1>6 DEF Tick, vars, gate
  <2> QED BY <1>0, <2>1, LayersFrame
<1> QED BY <1>1, <1>2, <1>3, <1>4, <1>5, <1>6, LayersRespond, LayersPoll DEF Next

\* No reported fill falls between the snapshot and the ledger: what the response of an
\* order reported is in the baseline or layered over it, whichever of the poll's
\* request, its answer, the execution and the response came first.
THEOREM NoFillFallsBetween == Spec => []FillsLayered
<1>1. Init => Layers
  BY DEF Init, EmptyGate, NoPoll, Layers, OrderIds
<1>2. TypeOK /\ Clocked /\ Layers /\ [Next]_vars => Layers'
  BY LayersStep
<1>3. TypeOK /\ Layers => FillsLayered
  <2> SUFFICES ASSUME TypeOK, Layers, Fresh, NEW i \in OrderIds, told[i] > Seen(i)
               PROVE  \E f \in fills : f.order = i /\ Within(f)
    BY DEF FillsLayered
  <2>1. recAt \in Int /\ now - DAY \in Int /\ recAt >= now - DAY /\ recAt > 0
    BY GateConstants DEF TypeOK, Fresh
  <2>2. PICK f \in fills : f.order = i /\ f.ts >= recAt
    BY <2>1 DEF Layers, Layered, Seen
  <2>3. WindowStart = recAt
    <3> DEFINE d == now - DAY
    <3>1. \A x \in {recAt, d} : x <= recAt
      BY <2>1
    <3>2. {recAt, d} \in SUBSET Int /\ {recAt, d} # {}
      BY <2>1
    <3>3. WindowStart = Max({recAt, d})
      BY DEF WindowStart
    <3> HIDE DEF d
    <3>4. Max({recAt, d}) \in {recAt, d} /\ \A y \in {recAt, d} : Max({recAt, d}) >= y
      <4> DEFINE S == {recAt, d}
      <4>1. S \in SUBSET Int /\ S # {} /\ \A x \in S : x <= recAt
        BY <3>1, <3>2
      <4> HIDE DEF S
      <4>2. Max(S) \in S /\ \A y \in S : Max(S) >= y
        BY <2>1, <4>1, MaxOfBounded
      <4> QED BY <4>2 DEF S
    <3>5. d \in Int
      BY <2>1 DEF d
    <3> QED BY <2>1, <3>1, <3>3, <3>4, <3>5
  <2> QED BY <2>2, <2>3 DEF Within
<1> QED BY <1>1, <1>2, <1>3, TypeCorrect, PTL DEF Spec

-----------------------------------------------------------------------------
(* What RiskGate sums: notional, fills, positions.  SumFunctionOnSet is     *)
(* defined by a recursion over the subsets of a set; it is shown first to   *)
(* have a solution, by taking a smallest subset on which it had none.       *)

\* The element the sum takes next, and the value of the sum from those of h.
Pick(s) == CHOOSE x \in s : TRUE
Unfolded(h, g, s) == IF s = {} THEN 0 ELSE g[Pick(s)] + h[s \ {Pick(s)}]

\* h gives the sum of g over every subset of S.
Sums(h, g, S) == h = [s \in SUBSET S |-> Unfolded(h, g, s)]

LEMMA SumIsRecursive ==
  ASSUME NEW g, NEW S
  PROVE  SumFunctionOnSet(g, S) = (CHOOSE h : Sums(h, g, S))[S]
BY DEF SumFunctionOnSet, FoldFunctionOnSet, MapThenFoldSet, Sums, Unfolded, Pick

\* A family of finite sets has a member none of whose proper subsets belongs to it.
LEMMA SmallestMember ==
  ASSUME NEW S, IsFiniteSet(S), NEW F \in SUBSET (SUBSET S), F # {}
  PROVE  \E s \in F : \A t \in F : t \subseteq s => t = s
<1>1. IsWellFoundedOn(StrictSubsetOrdering(S), SUBSET S)
  BY FS_StrictSubsetOrderingWellFounded, FS_FiniteSubsetsOfFinite
<1>2. PICK s \in F : \A t \in F : <<t, s>> \notin StrictSubsetOrdering(S)
  BY <1>1, WFMin
<1>3. ASSUME NEW t \in F, t \subseteq s, t # s PROVE FALSE
  <2>1. <<t, s>> \in StrictSubsetOrdering(S)
    BY <1>3 DEF StrictSubsetOrdering
  <2> QED BY <1>2, <2>1
<1> QED BY <1>2, <1>3

\* Two solutions, each on the subsets of its own set, agree where both are defined.
LEMMA SumsAgree ==
  ASSUME NEW g, NEW S, NEW T, IsFiniteSet(S), T \subseteq S, NEW h, NEW k,
         Sums(h, g, S), Sums(k, g, T)
  PROVE  \A s \in SUBSET T : h[s] = k[s]
<1> DEFINE F == { s \in SUBSET T : h[s] # k[s] }
<1> SUFFICES ASSUME F # {} PROVE FALSE
  OBVIOUS
<1>0. IsFiniteSet(T)
  BY FS_Subset
<1>1. PICK s \in F : \A t \in F : t \subseteq s => t = s
  <2>1. F \in SUBSET (SUBSET T) /\ F # {}
    OBVIOUS
  <2> HIDE DEF F
  <2> QED BY <1>0, <2>1, SmallestMember
<1>2. s \in SUBSET T /\ s \in SUBSET S
  BY <1>1
<1>3. h[s] = Unfolded(h, g, s) /\ k[s] = Unfolded(k, g, s)
  BY <1>2 DEF Sums
<1>4. CASE s = {}
  BY <1>1, <1>3, <1>4 DEF Unfolded
<1>5. CASE s # {}
  <2> DEFINE r == s \ {Pick(s)}
  <2>1. Pick(s) \in s
    BY <1>5 DEF Pick
  <2>2. r \in SUBSET T /\ r \subseteq s /\ r # s
    BY <1>2, <2>1
  <2>3. h[r] = k[r]
    BY <1>1, <2>2
  <2> QED BY <1>1, <1>3, <1>5, <2>3 DEF Unfolded
<1> QED BY <1>4, <1>5

\* There is a solution on the subsets of every finite set.
LEMMA SumsExist ==
  ASSUME NEW g, NEW S, IsFiniteSet(S)
  PROVE  \E h : Sums(h, g, S)
<1> DEFINE F == { s \in SUBSET S : ~ \E h : Sums(h, g, s) }
<1> SUFFICES ASSUME F # {} PROVE FALSE
  OBVIOUS
<1>1. PICK s \in F : \A t \in F : t \subseteq s => t = s
  <2>1. F \in SUBSET (SUBSET S) /\ F # {}
    OBVIOUS
  <2> HIDE DEF F
  <2> QED BY <2>1, SmallestMember
<1>2. s \in SUBSET S /\ IsFiniteSet(s)
  <2>1. s \in SUBSET S
    BY <1>1
  <2> QED BY <2>1, FS_Subset
<1>3. \A x \in s : \E h : Sums(h, g, s \ {x})
  <2> TAKE x \in s
  <2>1. s \ {x} \in SUBSET S /\ s \ {x} \subseteq s /\ s \ {x} # s
    BY <1>2
  <2> QED BY <1>1, <2>1
\* A proper subset of s has its sum from a solution on s without some x.
<1> DEFINE Part(t) == CHOOSE h : Sums(h, g, t)
           H == [t \in SUBSET s |-> IF t = s THEN Unfolded(Part(s \ {Pick(s)}), g, s)
                                    ELSE Part(t)[t]]
<1>4. ASSUME NEW t \in SUBSET s, t # s PROVE Sums(Part(t), g, t)
  <2>1. \E h : Sums(h, g, t)
    BY <1>1, <1>2, <1>4
  <2> QED BY <2>1
<1>5. ASSUME NEW t \in SUBSET s, t # s, NEW u \in SUBSET t PROVE Part(t)[u] = H[u]
  <2>1. u \in SUBSET s /\ u # s
    BY <1>5
  <2>2. Sums(Part(t), g, t) /\ Sums(Part(u), g, u)
    BY <1>4, <1>5, <2>1
  <2>3. IsFiniteSet(t)
    BY <1>2, <1>5, FS_Subset
  <2> HIDE DEF Part
  <2>4. Part(t)[u] = Part(u)[u]
    BY <1>5, <2>2, <2>3, SumsAgree
  <2> QED BY <2>1, <2>4
<1>6. ASSUME NEW t \in SUBSET s PROVE H[t] = Unfolded(H, g, t)
  <2>1. CASE t = {}
    <3>1. CASE t = s
      BY <2>1, <3>1 DEF Unfolded
    <3>2. CASE t # s
      <4>1. Sums(Part(t), g, t)
        BY <1>4, <1>6, <3>2
      <4> HIDE DEF Part
      <4>2. Part(t)[t] = Unfolded(Part(t), g, t)
        BY <4>1 DEF Sums
      <4> QED BY <2>1, <3>2, <4>2 DEF Unfolded
    <3> QED BY <3>1, <3>2
  <2>2. CASE t # {}
    <3> DEFINE r == t \ {Pick(t)}
    <3>1. Pick(t) \in t
      BY <2>2 DEF Pick
    <3>2. r \in SUBSET t /\ r \in SUBSET s /\ r # s
      BY <1>6, <3>1
    <3>3. CASE t = s
      <4>1. Part(r)[r] = H[r]
        BY <1>5, <3>2
      <4>2. H[t] = g[Pick(t)] + Part(r)[r]
        BY <1>6, <2>2, <3>3 DEF Unfolded
      <4> HIDE DEF Part, H
      <4> QED BY <2>2, <4>1, <4>2 DEF Unfolded
    <3>4. CASE t # s
      <4>1. Sums(Part(t), g, t) /\ Part(t)[r] = H[r] /\ H[t] = Part(t)[t]
        BY <1>4, <1>5, <1>6, <3>2, <3>4
      <4> HIDE DEF Part, H
      <4>2. Part(t)[t] = Unfolded(Part(t), g, t)
        BY <4>1 DEF Sums
      <4> QED BY <2>2, <4>1, <4>2 DEF Unfolded
    <3> QED BY <3>3, <3>4
  <2> QED BY <2>1, <2>2
<1>7. Sums(H, g, s)
  <2>1. H = [t \in SUBSET s |-> H[t]]
    OBVIOUS
  <2> HIDE DEF H
  <2>2. [t \in SUBSET s |-> H[t]] = [t \in SUBSET s |-> Unfolded(H, g, t)]
    BY <1>6
  <2> QED BY <2>1, <2>2 DEF Sums
<1> QED BY <1>1, <1>7

-----------------------------------------------------------------------------
(* Sums.                                                                   *)

\* The sum over a finite set is the value there of any solution on a larger one.
LEMMA SumOfSolution ==
  ASSUME NEW g, NEW S, IsFiniteSet(S), NEW h, Sums(h, g, S), NEW T \in SUBSET S
  PROVE  SumFunctionOnSet(g, T) = h[T]
<1> DEFINE k == CHOOSE k : Sums(k, g, T)
<1>1. IsFiniteSet(T)
  BY FS_Subset
<1>2. Sums(k, g, T)
  BY <1>1, SumsExist
<1>3. SumFunctionOnSet(g, T) = k[T]
  BY SumIsRecursive
<1> HIDE DEF k
<1>4. h[T] = k[T]
  BY <1>2, SumsAgree
<1> QED BY <1>3, <1>4

\* The recursion that SumFunctionOnSet stands for.
LEMMA SumUnfolds ==
  ASSUME NEW g, NEW S, IsFiniteSet(S)
  PROVE  /\ SumFunctionOnSet(g, {}) = 0
         /\ S # {} => /\ Pick(S) \in S
                      /\ SumFunctionOnSet(g, S) = g[Pick(S)] + SumFunctionOnSet(g, S \ {Pick(S)})
<1>1. PICK h : Sums(h, g, S)
  BY SumsExist
<1>2. SumFunctionOnSet(g, {}) = h[{}] /\ SumFunctionOnSet(g, S) = h[S]
  BY <1>1, SumOfSolution
<1>3. \A T \in SUBSET S : h[T] = Unfolded(h, g, T)
  BY <1>1 DEF Sums
<1>4. h[{}] = 0
  BY <1>3 DEF Unfolded
<1>5. ASSUME S # {} PROVE /\ Pick(S) \in S
                          /\ SumFunctionOnSet(g, S) = g[Pick(S)] + SumFunctionOnSet(g, S \ {Pick(S)})
  <2>1. Pick(S) \in S
    BY <1>5 DEF Pick
  <2>2. S \ {Pick(S)} \in SUBSET S /\ S \in SUBSET S
    OBVIOUS
  <2>3. SumFunctionOnSet(g, S \ {Pick(S)}) = h[S \ {Pick(S)}]
    BY <1>1, <2>2, SumOfSolution
  <2>4. h[S] = g[Pick(S)] + h[S \ {Pick(S)}]
    BY <1>3, <1>5, <2>2 DEF Unfolded
  <2> QED BY <1>2, <2>1, <2>3, <2>4
<1> QED BY <1>2, <1>4, <1>5

\* A sum of integers is one, and does not depend on the order of its terms.
LEMMA SumOfIntegers ==
  ASSUME NEW g, NEW S, IsFiniteSet(S), \A x \in S : g[x] \in Int
  PROVE  /\ SumFunctionOnSet(g, S) \in Int
         /\ \A x \in S : SumFunctionOnSet(g, S) = g[x] + SumFunctionOnSet(g, S \ {x})
<1> DEFINE Sum(T) == SumFunctionOnSet(g, T)
           Good(T) == /\ Sum(T) \in Int
                      /\ \A x \in T : Sum(T \ {x}) \in Int /\ Sum(T) = g[x] + Sum(T \ {x})
           F == { T \in SUBSET S : ~Good(T) }
<1> SUFFICES ASSUME F # {} PROVE FALSE
  OBVIOUS
<1>1. PICK s \in F : \A t \in F : t \subseteq s => t = s
  <2>1. F \in SUBSET (SUBSET S) /\ F # {}
    OBVIOUS
  <2> HIDE DEF F
  <2> QED BY <2>1, SmallestMember
<1>2. s \in SUBSET S /\ IsFiniteSet(s) /\ ~Good(s)
  BY <1>1, FS_Subset
<1>3. ASSUME NEW t \in SUBSET s, t # s PROVE Good(t)
  <2>1. t \in SUBSET S /\ t \notin F
    BY <1>1, <1>2, <1>3
  <2> QED BY <2>1
<1>4. s # {}
  <2> SUFFICES ASSUME s = {} PROVE FALSE
    OBVIOUS
  <2>1. Sum({}) = 0
    BY FS_EmptySet, SumUnfolds
  <2> QED BY <1>2, <2>1
<1> DEFINE y == Pick(s)
<1>5. y \in s /\ Sum(s) = g[y] + Sum(s \ {y})
  BY <1>2, <1>4, SumUnfolds
<1> HIDE DEF y
<1>6. Good(s \ {y}) /\ g[y] \in Int
  BY <1>2, <1>3, <1>5
<1>7. ASSUME NEW x \in s PROVE Sum(s \ {x}) \in Int /\ Sum(s) = g[x] + Sum(s \ {x})
  <2>0. g[x] \in Int /\ Good(s \ {x})
    BY <1>2, <1>3
  <2>1. CASE x = y
    BY <1>5, <2>0, <2>1
  <2>2. CASE x # y
    <3>1. x \in s \ {y} /\ y \in s \ {x}
      BY <1>5, <2>2
    <3>2. (s \ {y}) \ {x} = (s \ {x}) \ {y}
      OBVIOUS
    <3>3. Sum(s \ {y}) = g[x] + Sum((s \ {y}) \ {x}) /\ Sum((s \ {y}) \ {x}) \in Int
      BY <1>6, <3>1
    <3>4. Sum(s \ {x}) = g[y] + Sum((s \ {x}) \ {y}) /\ Sum(s \ {x}) \in Int
      BY <2>0, <3>1
    <3>5. PICK a \in Int : a = Sum((s \ {y}) \ {x})
      BY <3>3
    <3>6. Sum(s \ {x}) = g[y] + a /\ Sum(s) = g[y] + (g[x] + a)
      BY <1>5, <3>2, <3>3, <3>4, <3>5
    <3> HIDE DEF Sum
    <3> QED BY <1>6, <2>0, <3>4, <3>5, <3>6
  <2> QED BY <2>1, <2>2
<1>8. Sum(s) \in Int
  BY <1>5, <1>6, <1>7
<1> QED BY <1>2, <1>7, <1>8

\* The sums that the caps are about: over no element, and with one more.
LEMMA SumEmpty ==
  ASSUME NEW g
  PROVE  SumFunctionOnSet(g, {}) = 0
BY FS_EmptySet, SumUnfolds

LEMMA SumAdd ==
  ASSUME NEW g, NEW S, IsFiniteSet(S), NEW x, x \notin S, \A y \in S \cup {x} : g[y] \in Int
  PROVE  SumFunctionOnSet(g, S \cup {x}) = g[x] + SumFunctionOnSet(g, S)
<1>1. IsFiniteSet(S \cup {x}) /\ x \in S \cup {x} /\ (S \cup {x}) \ {x} = S
  BY FS_AddElement
<1> QED BY <1>1, SumOfIntegers

\* Functions that agree on a set, or lie below each other there, have such sums.
LEMMA SumOfLarger ==
  ASSUME NEW g, NEW h, NEW S, IsFiniteSet(S),
         \A x \in S : g[x] \in Int /\ h[x] \in Int /\ g[x] <= h[x]
  PROVE  SumFunctionOnSet(g, S) <= SumFunctionOnSet(h, S)
<1> DEFINE F == { T \in SUBSET S : ~(SumFunctionOnSet(g, T) <= SumFunctionOnSet(h, T)) }
<1> SUFFICES ASSUME F # {} PROVE FALSE
  OBVIOUS
<1>1. PICK s \in F : \A t \in F : t \subseteq s => t = s
  <2>1. F \in SUBSET (SUBSET S) /\ F # {}
    OBVIOUS
  <2> HIDE DEF F
  <2> QED BY <2>1, SmallestMember
<1>2. s \in SUBSET S /\ IsFiniteSet(s)
  <2>1. s \in SUBSET S
    BY <1>1
  <2> QED BY <2>1, FS_Subset
<1>3. s # {}
  <2>1. SumFunctionOnSet(g, {}) = 0 /\ SumFunctionOnSet(h, {}) = 0
    BY SumEmpty
  <2>2. ~(SumFunctionOnSet(g, s) <= SumFunctionOnSet(h, s))
    BY <1>1
  <2> HIDE DEF F
  <2> QED BY <2>1, <2>2
<1>4. PICK x \in s : TRUE
  BY <1>3
<1>5. s \ {x} \in SUBSET S /\ s \ {x} \notin F /\ IsFiniteSet(s \ {x})
  <2>1. IsFiniteSet(s \ {x})
    BY <1>2, FS_Subset
  <2>2. s \ {x} \in SUBSET S /\ s \ {x} \subseteq s /\ s \ {x} # s
    BY <1>2, <1>4
  <2> HIDE DEF F
  <2> QED BY <1>1, <2>1, <2>2
<1>6. SumFunctionOnSet(g, s \ {x}) <= SumFunctionOnSet(h, s \ {x})
  BY <1>5
<1>7. /\ SumFunctionOnSet(g, s) = g[x] + SumFunctionOnSet(g, s \ {x})
      /\ SumFunctionOnSet(h, s) = h[x] + SumFunctionOnSet(h, s \ {x})
      /\ SumFunctionOnSet(g, s \ {x}) \in Int /\ SumFunctionOnSet(h, s \ {x}) \in Int
  BY <1>2, <1>4, <1>5, SumOfIntegers
<1>8. ~(SumFunctionOnSet(g, s) <= SumFunctionOnSet(h, s))
  BY <1>1
<1> QED BY <1>2, <1>4, <1>6, <1>7, <1>8

LEMMA SumOfEqual ==
  ASSUME NEW g, NEW h, NEW S, IsFiniteSet(S), \A x \in S : g[x] \in Int /\ g[x] = h[x]
  PROVE  SumFunctionOnSet(g, S) = SumFunctionOnSet(h, S)
<1>1. SumFunctionOnSet(g, S) <= SumFunctionOnSet(h, S)
  BY SumOfLarger
<1>2. SumFunctionOnSet(h, S) <= SumFunctionOnSet(g, S)
  BY SumOfLarger
<1>3. SumFunctionOnSet(g, S) \in Int /\ SumFunctionOnSet(h, S) \in Int
  BY SumOfIntegers
<1> QED BY <1>1, <1>2, <1>3

\* A part of a sum of naturals is no more than the whole.
LEMMA SumOfPart ==
  ASSUME NEW g, NEW S, IsFiniteSet(S), \A x \in S : g[x] \in Nat, NEW T \in SUBSET S
  PROVE  /\ SumFunctionOnSet(g, S) \in Nat /\ SumFunctionOnSet(g, T) \in Nat
         /\ SumFunctionOnSet(g, T) <= SumFunctionOnSet(g, S)
<1> DEFINE Sum(U) == SumFunctionOnSet(g, U)
           F == { U \in SUBSET S : ~(Sum(U) \in Nat /\ Sum(U \cap T) <= Sum(U)) }
<1>1. F = {}
  <2> SUFFICES ASSUME F # {} PROVE FALSE
    OBVIOUS
  <2>1. PICK s \in F : \A t \in F : t \subseteq s => t = s
    <3>1. F \in SUBSET (SUBSET S) /\ F # {}
      OBVIOUS
    <3> HIDE DEF F
    <3> QED BY <3>1, SmallestMember
  <2>2. s \in SUBSET S /\ IsFiniteSet(s) /\ ~(Sum(s) \in Nat /\ Sum(s \cap T) <= Sum(s))
    BY <2>1, FS_Subset
  <2>3. Sum({}) = 0 /\ {} \cap T = {}
    BY SumEmpty
  <2>4. s # {}
    BY <2>2, <2>3
  <2>5. PICK x \in s : TRUE
    BY <2>4
  <2> DEFINE r == s \ {x}
  <2>6. r \in SUBSET S /\ r \notin F /\ g[x] \in Nat
    BY <2>1, <2>2, <2>5
  <2>7. Sum(r) \in Nat /\ Sum(r \cap T) <= Sum(r)
    BY <2>6
  <2>8. Sum(s) = g[x] + Sum(r)
    BY <2>2, <2>5, SumOfIntegers
  <2>9. s \cap T \in SUBSET S /\ IsFiniteSet(s \cap T) /\ IsFiniteSet(r \cap T)
    BY <2>2, FS_Subset
  <2>10. Sum(r \cap T) \in Int
    BY <2>2, <2>9, SumOfIntegers
  <2>11. CASE x \in T
    <3>1. x \in s \cap T /\ (s \cap T) \ {x} = r \cap T
      BY <2>5, <2>11
    <3>2. Sum(s \cap T) = g[x] + Sum(r \cap T)
      BY <2>2, <2>9, <3>1, SumOfIntegers
    <3> HIDE DEF Sum, r, F
    <3> QED BY <2>2, <2>6, <2>7, <2>8, <2>10, <3>2
  <2>12. CASE x \notin T
    <3>1. s \cap T = r \cap T
      BY <2>12
    <3> HIDE DEF Sum, r, F
    <3> QED BY <2>2, <2>6, <2>7, <2>8, <2>10, <3>1
  <2> QED BY <2>11, <2>12
<1>2. S \in SUBSET S /\ S \cap T = T /\ T \cap T = T
  OBVIOUS
<1>3. Sum(S) \in Nat /\ Sum(S \cap T) <= Sum(S)
  BY <1>1, <1>2
<1>4. Sum(T) \in Nat
  BY <1>1
<1> QED BY <1>2, <1>3, <1>4
\* What holds of no element and survives the addition of one holds of a finite set.
LEMMA GrowsToAll ==
  ASSUME NEW S, IsFiniteSet(S), NEW F, {} \in F,
         \A T \in SUBSET S : \A x \in S \ T : IsFiniteSet(T) /\ T \in F => T \cup {x} \in F
  PROVE  S \in F
<1> DEFINE C == { T \in SUBSET S : T \notin F }
<1> SUFFICES ASSUME C # {} PROVE FALSE
  OBVIOUS
<1>1. PICK s \in C : \A t \in C : t \subseteq s => t = s
  <2>1. C \in SUBSET (SUBSET S) /\ C # {}
    OBVIOUS
  <2> HIDE DEF C
  <2> QED BY <2>1, SmallestMember
<1>2. PICK x \in s : TRUE
  BY <1>1
<1>3. s \ {x} \in SUBSET S /\ s \ {x} \notin C /\ (s \ {x}) \cup {x} = s /\ x \in S \ (s \ {x})
  BY <1>1, <1>2
<1>4. IsFiniteSet(s \ {x}) /\ s \ {x} \in F
  BY <1>3, FS_Subset
<1> QED BY <1>1, <1>3, <1>4

\* Sums over disjoint sets, of a sum of two functions, and of nothing but zeros.
LEMMA SumUnion ==
  ASSUME NEW g, NEW S, NEW T, IsFiniteSet(S), IsFiniteSet(T), S \cap T = {},
         \A x \in S \cup T : g[x] \in Int
  PROVE  SumFunctionOnSet(g, S \cup T) = SumFunctionOnSet(g, S) + SumFunctionOnSet(g, T)
<1> DEFINE Sum(U) == SumFunctionOnSet(g, U)
           F == { U \in SUBSET T : Sum(S \cup U) = Sum(S) + Sum(U) }
<1>1. {} \in F
  <2>1. S \cup {} = S /\ Sum({}) = 0 /\ Sum(S) \in Int
    BY SumEmpty, SumOfIntegers
  <2> QED BY <2>1
<1>2. ASSUME NEW U \in SUBSET T, NEW x \in T \ U, IsFiniteSet(U), U \in F
      PROVE  U \cup {x} \in F
  <2>1. IsFiniteSet(S \cup U) /\ x \notin S \cup U /\ (S \cup U) \cup {x} = S \cup (U \cup {x})
    BY <1>2, FS_Union
  <2>2. Sum(U \cup {x}) = g[x] + Sum(U)
    BY <1>2, SumAdd
  <2>3. Sum((S \cup U) \cup {x}) = g[x] + Sum(S \cup U)
    BY <1>2, <2>1, SumAdd
  <2>4. Sum(U) \in Int /\ Sum(S) \in Int /\ g[x] \in Int /\ Sum(S \cup U) = Sum(S) + Sum(U)
    BY <1>2, SumOfIntegers
  <2>5. Sum(S \cup (U \cup {x})) = g[x] + (Sum(S) + Sum(U))
    BY <2>1, <2>3, <2>4
  <2> HIDE DEF Sum
  <2>6. Sum(S \cup (U \cup {x})) = Sum(S) + Sum(U \cup {x})
    BY <2>2, <2>4, <2>5
  <2> QED BY <2>6
<1> HIDE DEF F
<1>3. T \in F
  BY <1>1, <1>2, GrowsToAll
<1> QED BY <1>3 DEF F

LEMMA SumPlus ==
  ASSUME NEW f, NEW g, NEW h, NEW S, IsFiniteSet(S),
         \A x \in S : f[x] \in Int /\ g[x] \in Int /\ h[x] = f[x] + g[x]
  PROVE  SumFunctionOnSet(h, S) = SumFunctionOnSet(f, S) + SumFunctionOnSet(g, S)
<1> DEFINE F == { T \in SUBSET S : SumFunctionOnSet(h, T)
                                     = SumFunctionOnSet(f, T) + SumFunctionOnSet(g, T) }
<1>1. {} \in F
  BY SumEmpty
<1>2. ASSUME NEW T \in SUBSET S, NEW x \in S \ T, IsFiniteSet(T), T \in F
      PROVE  T \cup {x} \in F
  <2>1. \A y \in T \cup {x} : f[y] \in Int /\ g[y] \in Int /\ h[y] \in Int
    BY <1>2
  <2>2. /\ SumFunctionOnSet(h, T \cup {x}) = h[x] + SumFunctionOnSet(h, T)
        /\ SumFunctionOnSet(f, T \cup {x}) = f[x] + SumFunctionOnSet(f, T)
        /\ SumFunctionOnSet(g, T \cup {x}) = g[x] + SumFunctionOnSet(g, T)
    BY <1>2, <2>1, SumAdd
  <2>3. SumFunctionOnSet(f, T) \in Int /\ SumFunctionOnSet(g, T) \in Int
    BY <1>2, <2>1, SumOfIntegers
  <2>4. /\ SumFunctionOnSet(h, T) = SumFunctionOnSet(f, T) + SumFunctionOnSet(g, T)
        /\ h[x] = f[x] + g[x] /\ f[x] \in Int /\ g[x] \in Int
    BY <1>2
  <2>5. SumFunctionOnSet(h, T \cup {x}) = SumFunctionOnSet(f, T \cup {x}) + SumFunctionOnSet(g, T \cup {x})
    BY <2>2, <2>3, <2>4
  <2> QED BY <2>5
<1> HIDE DEF F
<1>3. S \in F
  BY <1>1, <1>2, GrowsToAll
<1> QED BY <1>3 DEF F

LEMMA SumZero ==
  ASSUME NEW g, NEW S, IsFiniteSet(S), \A x \in S : g[x] = 0
  PROVE  SumFunctionOnSet(g, S) = 0
<1> DEFINE F == { T \in SUBSET S : SumFunctionOnSet(g, T) = 0 }
<1>1. {} \in F
  BY SumEmpty
<1>2. ASSUME NEW T \in SUBSET S, NEW x \in S \ T, IsFiniteSet(T), T \in F
      PROVE  T \cup {x} \in F
  <2>1. SumFunctionOnSet(g, T \cup {x}) = g[x] + SumFunctionOnSet(g, T)
    BY <1>2, SumAdd
  <2> QED BY <1>2, <2>1
<1> HIDE DEF F
<1>3. S \in F
  BY <1>1, <1>2, GrowsToAll
<1> QED BY <1>3 DEF F

\* The sum of the signed amounts is at most that of the amounts, either way.
LEMMA SumAbs ==
  ASSUME NEW g, NEW h, NEW S, IsFiniteSet(S),
         \A x \in S : g[x] \in Int /\ h[x] \in Int /\ -h[x] <= g[x] /\ g[x] <= h[x]
  PROVE  /\ -SumFunctionOnSet(h, S) <= SumFunctionOnSet(g, S)
         /\ SumFunctionOnSet(g, S) <= SumFunctionOnSet(h, S)
<1> DEFINE m == [x \in S |-> -h[x]]
           z == [x \in S |-> 0]
<1>0. \A x \in S : m[x] = -h[x] /\ z[x] = 0 /\ m[x] \in Int
  OBVIOUS
<1> HIDE DEF m, z
<1>1. SumFunctionOnSet(g, S) <= SumFunctionOnSet(h, S)
  BY SumOfLarger
<1>2. SumFunctionOnSet(m, S) <= SumFunctionOnSet(g, S)
  BY <1>0, SumOfLarger
<1>3. \A x \in S : z[x] = m[x] + h[x]
  BY <1>0
<1>4. SumFunctionOnSet(z, S) = SumFunctionOnSet(m, S) + SumFunctionOnSet(h, S)
  BY <1>0, <1>3, SumPlus
<1>5. SumFunctionOnSet(z, S) = 0
  BY <1>0, SumZero
<1>6. /\ SumFunctionOnSet(g, S) \in Int /\ SumFunctionOnSet(h, S) \in Int
      /\ SumFunctionOnSet(m, S) \in Int
  BY <1>0, SumOfIntegers
<1> QED BY <1>1, <1>2, <1>4, <1>5, <1>6

\* What c assigns one to one to larger terms of another sum is no more than that sum.
LEMMA SumOverImage ==
  ASSUME NEW g, NEW h, NEW c, NEW S, NEW T, IsFiniteSet(S), IsFiniteSet(T),
         \A x \in S : g[x] \in Int /\ c[x] \in T /\ g[x] <= h[c[x]],
         \A x, y \in S : c[x] = c[y] => x = y,
         \A t \in T : h[t] \in Nat
  PROVE  SumFunctionOnSet(g, S) <= SumFunctionOnSet(h, T)
<1> DEFINE Image(U) == { c[x] : x \in U }
           F == { U \in SUBSET S : SumFunctionOnSet(g, U) <= SumFunctionOnSet(h, Image(U)) }
<1>0. ASSUME NEW U \in SUBSET S
      PROVE  /\ Image(U) \in SUBSET T /\ IsFiniteSet(Image(U)) /\ IsFiniteSet(U)
             /\ SumFunctionOnSet(g, U) \in Int /\ SumFunctionOnSet(h, Image(U)) \in Int
  <2>1. Image(U) \in SUBSET T /\ IsFiniteSet(U)
    BY FS_Subset
  <2>2. IsFiniteSet(Image(U))
    BY <2>1, FS_Subset
  <2>3. \A t \in Image(U) : h[t] \in Int
    BY <2>1
  <2> HIDE DEF Image
  <2> QED BY <2>1, <2>2, <2>3, SumOfIntegers
<1>1. {} \in F
  <2>1. Image({}) = {}
    OBVIOUS
  <2> QED BY <2>1, SumEmpty
<1>2. ASSUME NEW U \in SUBSET S, NEW x \in S \ U, IsFiniteSet(U), U \in F
      PROVE  U \cup {x} \in F
  <2>1. Image(U \cup {x}) = Image(U) \cup {c[x]} /\ c[x] \notin Image(U)
    OBVIOUS
  <2>2. SumFunctionOnSet(g, U \cup {x}) = g[x] + SumFunctionOnSet(g, U)
    BY <1>2, SumAdd
  <2>3. Image(U) \in SUBSET T /\ IsFiniteSet(Image(U))
        /\ SumFunctionOnSet(g, U) \in Int /\ SumFunctionOnSet(h, Image(U)) \in Int
    BY <1>0
  <2>4. SumFunctionOnSet(g, U) <= SumFunctionOnSet(h, Image(U))
    BY <1>2
  <2> HIDE DEF Image
  <2>5. \A t \in Image(U) \cup {c[x]} : h[t] \in Int
    BY <2>3
  <2>6. SumFunctionOnSet(h, Image(U \cup {x})) = h[c[x]] + SumFunctionOnSet(h, Image(U))
    BY <2>1, <2>3, <2>5, SumAdd
  <2>7. g[x] \in Int /\ h[c[x]] \in Int /\ g[x] <= h[c[x]]
    OBVIOUS
  <2>8. SumFunctionOnSet(g, U \cup {x}) <= SumFunctionOnSet(h, Image(U \cup {x}))
    BY <2>2, <2>3, <2>4, <2>6, <2>7
  <2> QED BY <2>8
<1>3. S \in F
  <2> HIDE DEF F
  <2> QED BY <1>1, <1>2, GrowsToAll
<1>4. SumFunctionOnSet(h, Image(S)) <= SumFunctionOnSet(h, T)
  <2>1. Image(S) \in SUBSET T
    BY <1>0
  <2> HIDE DEF Image
  <2> QED BY <2>1, SumOfPart
<1>5. /\ SumFunctionOnSet(g, S) <= SumFunctionOnSet(h, Image(S))
      /\ SumFunctionOnSet(g, S) \in Int /\ SumFunctionOnSet(h, Image(S)) \in Int
  BY <1>0, <1>3
<1>6. SumFunctionOnSet(h, T) \in Int
  BY SumOfIntegers
<1> HIDE DEF Image
<1> QED BY <1>4, <1>5, <1>6

\* A sum may be taken key by key.
LEMMA SumOverKeys ==
  ASSUME NEW g, NEW c, NEW S, NEW K, IsFiniteSet(S), IsFiniteSet(K),
         \A x \in S : g[x] \in Int /\ c[x] \in K
  PROVE  SumFunctionOnSet(g, S)
           = SumFunctionOnSet([t \in K |-> SumFunctionOnSet(g, { x \in S : c[x] = t })], K)
<1> DEFINE h == [t \in K |-> SumFunctionOnSet(g, { x \in S : c[x] = t })]
           Part(U) == { x \in S : c[x] \in U }
           F == { U \in SUBSET K : SumFunctionOnSet(g, Part(U)) = SumFunctionOnSet(h, U) }
<1>0. ASSUME NEW T \in SUBSET S PROVE IsFiniteSet(T) /\ SumFunctionOnSet(g, T) \in Int
  <2>1. IsFiniteSet(T) /\ \A x \in T : g[x] \in Int
    BY FS_Subset
  <2> QED BY <2>1, SumOfIntegers
<1>1. {} \in F
  <2>1. Part({}) = {}
    OBVIOUS
  <2> HIDE DEF Part, h
  <2> QED BY <2>1, SumEmpty
<1>2. ASSUME NEW U \in SUBSET K, NEW t \in K \ U, IsFiniteSet(U), U \in F
      PROVE  U \cup {t} \in F
  <2> DEFINE P == { x \in S : c[x] = t }
  <2>1. Part(U \cup {t}) = Part(U) \cup P /\ Part(U) \cap P = {} /\ Part(U) \in SUBSET S /\ P \in SUBSET S
    OBVIOUS
  <2>2. h[t] = SumFunctionOnSet(g, P) /\ \A u \in U \cup {t} : h[u] \in Int
    <3>1. ASSUME NEW u \in K PROVE h[u] \in Int
      <4>1. { x \in S : c[x] = u } \in SUBSET S
        OBVIOUS
      <4> QED BY <1>0, <4>1
    <3> QED BY <3>1
  <2>3. SumFunctionOnSet(g, Part(U)) = SumFunctionOnSet(h, U)
    BY <1>2
  <2> HIDE DEF Part, P, h
  <2>4. SumFunctionOnSet(g, Part(U \cup {t})) = SumFunctionOnSet(g, Part(U)) + SumFunctionOnSet(g, P)
    <3>1. IsFiniteSet(Part(U)) /\ IsFiniteSet(P) /\ \A x \in Part(U) \cup P : g[x] \in Int
      BY <1>0, <2>1
    <3> QED BY <2>1, <3>1, SumUnion
  <2>5. SumFunctionOnSet(h, U \cup {t}) = h[t] + SumFunctionOnSet(h, U)
    BY <1>2, <2>2, SumAdd
  <2>6. SumFunctionOnSet(g, P) \in Int /\ SumFunctionOnSet(g, Part(U)) \in Int
    BY <1>0, <2>1
  <2> QED BY <2>2, <2>3, <2>4, <2>5, <2>6
<1>3. K \in F
  <2> HIDE DEF F
  <2> QED BY <1>1, <1>2, GrowsToAll
<1>4. Part(K) = S
  OBVIOUS
<1> HIDE DEF Part
<1> QED BY <1>3, <1>4

-----------------------------------------------------------------------------
(* The notional cap.                                                       *)

\* What an admitted order may cost, as NotionalOf adds it up.
Costs == [i \in OrderIds |-> orders[i].count * orders[i].price]

LEMMA CostsAreNat == TypeOK => \A i \in OrderIds : Costs[i] \in Nat
<1> SUFFICES ASSUME TypeOK, NEW i \in OrderIds PROVE Costs[i] \in Nat
  OBVIOUS
<1>1. orders[i] \in OrderRecs
  BY DEF TypeOK, OrderIds
<1>2. PICK c \in Nat, p \in Nat : orders[i].count = c /\ orders[i].price = p
  BY <1>1 DEF OrderRecs
<1>3. c * p \in Nat
  OBVIOUS
<1> QED BY <1>2, <1>3 DEF Costs

\* A step takes nothing from the notional that an earlier order bounds.
LEMMA NotionalOld ==
  ASSUME TypeOK, TypeOK', [Next]_vars, NEW i \in OrderIds, NotionalOf(Window(i, DAY)) <= MaxNotional
  PROVE  NotionalOf(Window(i, DAY))' <= MaxNotional
<1> DEFINE W == Window(i, DAY)
           V == Window(i, DAY)'
<1>1. /\ i \in OrderIds' /\ V \in SUBSET W /\ IsFiniteSet(W) /\ W \in SUBSET (1..i)
      /\ \A j \in 1..i : orders'[j] = orders[j]
  BY WindowShrinks, WindowFinite DEF Window
<1>2. 1..i \subseteq OrderIds /\ 1..i \subseteq OrderIds'
  <2>1. PICK n \in Nat, m \in Nat : OrderIds = 1..n /\ OrderIds' = 1..m
    BY DEF TypeOK, OrderIds
  <2> QED BY <1>1, <2>1
<1> HIDE DEF W, V
<1>3. \A j \in W : Costs[j] \in Nat /\ Costs'[j] = Costs[j]
  BY <1>1, <1>2, CostsAreNat DEF Costs
<1>4. /\ SumFunctionOnSet(Costs, V) <= SumFunctionOnSet(Costs, W)
      /\ SumFunctionOnSet(Costs, V) \in Nat /\ SumFunctionOnSet(Costs, W) \in Nat
  BY <1>1, <1>3, SumOfPart
<1>5. SumFunctionOnSet(Costs, V) = SumFunctionOnSet(Costs', V)
  <2>1. IsFiniteSet(V)
    BY <1>1, FS_Subset
  <2>2. \A j \in V : Costs[j] \in Int /\ Costs[j] = Costs'[j]
    BY <1>1, <1>3
  <2> QED BY <2>1, <2>2, SumOfEqual
<1>6. SumFunctionOnSet(Costs, W) <= MaxNotional /\ MaxNotional \in Nat
  BY GateConstants DEF NotionalOf, Costs, W
<1>7. SumFunctionOnSet(Costs', V) <= MaxNotional
  BY <1>4, <1>5, <1>6
<1> QED BY <1>7 DEF NotionalOf, Costs, V

\* check() added the order's own notional to that of what it remembered.
LEMMA NotionalNew ==
  ASSUME TypeOK, TypeOK', Clocked, Remembered, NEW w \in Wakes, Admit(w),
         NEW n \in Nat, n = Len(orders)
  PROVE  NotionalOf(Window(n + 1, DAY))' <= MaxNotional
<1> DEFINE W == Window(n + 1, DAY)'
<1>0. DAY \in Nat /\ DAY <= DAY /\ MaxNotional \in Nat
  BY GateConstants
<1>1. /\ OrderIds' = OrderIds \cup {n + 1} /\ IsFiniteSet(LiveAttempts)
      /\ \A j \in LiveAttempts : orders'[j] = orders[j] /\ j \in 1..n
  BY <1>0, NewWindow
<1>2. W \in SUBSET (LiveAttempts \cup {n + 1})
  <2>1. W \subseteq { j \in LiveAttempts : orders[j].at >= now - DAY } \cup {n + 1}
    BY <1>0, NewWindow
  <2> QED BY <2>1
<1> HIDE DEF W
<1>3. /\ n + 1 \notin LiveAttempts /\ OrderIds = 1..n
      /\ \A j \in LiveAttempts : Costs[j] \in Nat /\ Costs'[j] = Costs[j]
  <2>1. OrderIds = 1..n
    BY DEF TypeOK, OrderIds
  <2> QED BY <1>1, <2>1, CostsAreNat DEF Costs
<1>4. Costs'[n + 1] = w.count * w.price /\ Costs'[n + 1] \in Nat
  <2>1. orders'[n + 1].count = w.count /\ orders'[n + 1].price = w.price
    BY DEF Admit, TypeOK
  <2>2. (\A i \in OrderIds : Costs[i] \in Nat)'
    BY CostsAreNat, PTL
  <2> QED BY <1>1, <2>1, <2>2 DEF Costs
<1>5. SumFunctionOnSet(Costs, LiveAttempts) = SumFunctionOnSet(Costs', LiveAttempts)
  BY <1>1, <1>3, SumOfEqual
<1>6. SumFunctionOnSet(Costs', LiveAttempts \cup {n + 1})
        = Costs'[n + 1] + SumFunctionOnSet(Costs', LiveAttempts)
  <2>1. \A j \in LiveAttempts \cup {n + 1} : Costs'[j] \in Int
    BY <1>3, <1>4
  <2> QED BY <1>1, <1>3, <2>1, SumAdd
<1>7. SumFunctionOnSet(Costs, LiveAttempts) + w.count * w.price <= MaxNotional
      /\ SumFunctionOnSet(Costs, LiveAttempts) \in Nat
  BY <1>1, <1>3, SumOfPart DEF Admit, check, NotionalCap, NotionalOf, Costs
<1>8. /\ SumFunctionOnSet(Costs', W) <= SumFunctionOnSet(Costs', LiveAttempts \cup {n + 1})
      /\ SumFunctionOnSet(Costs', W) \in Nat
  <2>1. IsFiniteSet(LiveAttempts \cup {n + 1})
    BY <1>1, FS_AddElement
  <2>2. \A j \in LiveAttempts \cup {n + 1} : Costs'[j] \in Nat
    BY <1>3, <1>4
  <2> QED BY <1>2, <2>1, <2>2, SumOfPart
<1>9. PICK c \in Nat : Costs'[n + 1] = c /\ w.count * w.price = c
  BY <1>4
<1>10. SumFunctionOnSet(Costs', W) <= MaxNotional
  <2>1. SumFunctionOnSet(Costs, LiveAttempts) + c <= MaxNotional
    BY <1>7, <1>9
  <2> QED BY <1>0, <1>5, <1>6, <1>7, <1>8, <1>9, <2>1
<1> QED BY <1>10 DEF NotionalOf, Costs, W

\* Any rolling day of orders that no crash erased cost at most the daily notional
\* cap: check() adds up every attempt it remembers and the order it is asked about,
\* and remembers all that a crash did not erase.
THEOREM NotionalWithinCap == Spec => []RollingNotionalCap
<1> DEFINE IInv == Remembered /\ RollingNotionalCap
<1>1. Init => IInv
  BY DEF Init, Remembered, RollingNotionalCap, OrderIds
<1>2. TypeOK /\ TypeOK' /\ Clocked /\ IInv /\ [Next]_vars => IInv'
  <2> SUFFICES ASSUME TypeOK, TypeOK', Clocked, IInv, [Next]_vars PROVE IInv'
    OBVIOUS
  <2>1. Remembered'
    BY RememberAdmit, RememberRestart, RememberOther DEF Next, OtherStep
  <2>2. \A i \in OrderIds : NotionalOf(Window(i, DAY))' <= MaxNotional
    BY NotionalOld DEF RollingNotionalCap
  <2>3. ASSUME NEW w \in Wakes, Admit(w) PROVE RollingNotionalCap'
    <3>0. PICK n \in Nat : n = Len(orders)
      BY DEF TypeOK
    <3>1. OrderIds' = OrderIds \cup {n + 1}
      BY <2>3, <3>0, NewWindow, GateConstants
    <3>2. NotionalOf(Window(n + 1, DAY))' <= MaxNotional
      BY <2>3, <3>0, NotionalNew
    <3> QED BY <2>2, <3>1, <3>2 DEF RollingNotionalCap
  <2>4. ASSUME Restart \/ OtherStep PROVE RollingNotionalCap'
    <3>1. OrderIds' = OrderIds
      BY <2>4, OtherFrame DEF Restart, OrderIds
    <3> QED BY <2>2, <3>1 DEF RollingNotionalCap
  <2>5. RollingNotionalCap'
    BY <2>3, <2>4 DEF Next, OtherStep
  <2> QED BY <2>1, <2>5
<1> HIDE DEF IInv
<1>3. Spec => []IInv
  BY <1>1, <1>2, TypeCorrect, PTL DEF Spec
<1>4. IInv => RollingNotionalCap
  BY DEF IInv
<1> QED BY <1>3, <1>4, PTL
-----------------------------------------------------------------------------
(* The account and the snapshots of it: what the executions add up to.     *)

\* What amounts moves each order's ticker by, and the net of it on t.
FlowOf(amounts) == [i \in OrderIds |-> Signed(i, Of(amounts, i))]
Net(t, amounts) == SumFunctionOnSet(FlowOf(amounts), OrdersOn({t}))

\* The exchange executes no more of an order than was asked, and is through with one
\* that cannot rest once it is answered.
OrderHolds(i) ==
  /\ told[i] <= fill[i] /\ fill[i] <= orders[i].count
  /\ phase[i] = "inflight" => told[i] = 0
  /\ i \in live /\ ~Rests => fill[i] = 0 /\ phase[i] # "done"

\* The exchange holds what it executed until the ticker settles.
Account ==
  /\ \A i \in OrderIds : OrderHolds(i)
  /\ \A t \in Tickers : pos[t] = IF t \in settled THEN 0 ELSE Net(t, fill)

\* v was read from the account when the amounts seen were executed and gone had settled.
Snapshot(v, seen, gone) ==
  /\ seen \in Seq(Nat) /\ DOMAIN seen \subseteq OrderIds /\ gone \subseteq settled
  /\ \A i \in OrderIds : Of(seen, i) <= fill[i]
  /\ \A t \in Tickers : v[t] = IF t \in gone THEN 0 ELSE Abs(Net(t, seen))

\* The monitor's answer and the gate's baseline are such snapshots, and the deque
\* holds finitely many fills, each of a reported execution.
Ledger ==
  /\ Account
  /\ Snapshot(poll.value, poll.seen, poll.gone)
  /\ Snapshot(recTicker, baseSeen, baseGone)
  /\ IsFiniteSet(fills) /\ \A f \in fills : told[f.order] > 0

LEMMA OrdersFinite ==
  ASSUME TypeOK, NEW S \in SUBSET OrderIds
  PROVE  IsFiniteSet(S)
<1>1. IsFiniteSet(OrderIds)
  BY FS_Interval DEF TypeOK, OrderIds
<1> QED BY <1>1, FS_Subset

\* The flow of one order is its amount, one way or the other.
LEMMA FlowIsInt ==
  ASSUME NEW s \in Seq(Nat), NEW i \in OrderIds
  PROVE  /\ FlowOf(s)[i] = Signed(i, Of(s, i)) /\ FlowOf(s)[i] \in Int
         /\ Of(s, i) = 0 => FlowOf(s)[i] = 0
<1>1. Of(s, i) \in Nat
  BY OfIsNat
<1>2. FlowOf(s)[i] = Signed(i, Of(s, i))
  BY DEF FlowOf
<1> QED BY <1>1, <1>2 DEF Signed

\* The executed amounts are a snapshot of themselves.
LEMMA FillIsSeq ==
  ASSUME TypeOK
  PROVE  /\ fill \in Seq(Nat) /\ DOMAIN fill = OrderIds
         /\ \A i \in OrderIds : Of(fill, i) = fill[i]
<1>1. Len(orders) \in Nat /\ fill \in [1..Len(orders) -> Nat] /\ OrderIds = 1..Len(orders)
  BY DEF TypeOK, OrderIds
<1> QED BY <1>1 DEF Of

\* Orders, executions, what was told of them and settlements are never taken back.
LEMMA AmountsKept ==
  ASSUME TypeOK, Account, [Next]_vars
  PROVE  /\ \A i \in OrderIds : /\ i \in OrderIds' /\ orders'[i] = orders[i]
                                /\ fill'[i] \in Nat /\ fill'[i] >= fill[i]
                                /\ told[i] > 0 => told'[i] = told[i]
         /\ \A i \in OrderIds' : i \notin OrderIds => fill'[i] = 0 /\ told'[i] = 0
         /\ settled \subseteq settled'
<1>0. PICK n \in Nat : n = Len(orders)
  BY DEF TypeOK
<1>1. /\ OrderIds = 1..n /\ fill \in [1..n -> Nat] /\ told \in [1..n -> Nat] /\ 0 \in Nat
      /\ \A i \in OrderIds : fill[i] >= fill[i]
  BY <1>0 DEF TypeOK, OrderIds
<1>2. ASSUME NEW w \in Wakes, Admit(w)
      PROVE  /\ \A i \in OrderIds : /\ i \in OrderIds' /\ orders'[i] = orders[i]
                                    /\ fill'[i] = fill[i] /\ told'[i] = told[i]
             /\ \A i \in OrderIds' : i \notin OrderIds => fill'[i] = 0 /\ told'[i] = 0
             /\ settled' = settled
  <2>1. /\ \A i \in 1..n : fill'[i] = fill[i] /\ told'[i] = told[i]
        /\ fill'[n + 1] = 0 /\ told'[n + 1] = 0
    BY <1>0, <1>1, <1>2, AppendFun DEF Admit
  <2>2. OrderIds' = 1..(n + 1) /\ \A i \in 1..n : orders'[i] = orders[i]
    BY <1>0, <1>2 DEF Admit, TypeOK, OrderIds
  <2>3. settled' = settled
    BY <1>2 DEF Admit
  <2> QED BY <1>1, <2>1, <2>2, <2>3
<1>3. ASSUME NEW i \in OrderIds, NEW f \in 0..orders[i].count, Execute(i, f)
      PROVE  /\ \A j \in OrderIds : fill'[j] \in Nat /\ fill'[j] >= fill[j]
             /\ UNCHANGED <<orders, told, settled>>
  <2>1. fill' = [fill EXCEPT ![i] = @ + f] /\ UNCHANGED <<orders, told, settled>> /\ f \in Nat
    BY <1>3, AmountsAreNat DEF Execute
  <2> QED BY <1>1, <2>1
<1>4. ASSUME NEW i \in OrderIds, NEW c \in 0..orders[i].count, Respond(i, c)
      PROVE  /\ \A j \in OrderIds : told[j] > 0 => told'[j] = told[j]
             /\ UNCHANGED <<orders, fill, settled>>
  <2>1. /\ told' = [told EXCEPT ![i] = c] /\ phase[i] = "inflight"
        /\ UNCHANGED <<orders, fill, settled>>
    BY <1>4 DEF Respond
  <2>2. told[i] = 0
    BY <2>1 DEF Account, OrderHolds
  <2> QED BY <1>1, <2>1, <2>2
<1>5. CASE \/ \E w \in Wakes : Refuse(w)
           \/ \E i \in OrderIds : Fail(i) \/ CommitRow(i)
           \/ \E t \in Tickers : Settle(t)
           \/ PollIssue \/ PollRead \/ PollFail \/ PollLand \/ Restart \/ Tick \/ UNCHANGED vars
  <2>1. UNCHANGED <<orders, fill, told>> /\ settled \subseteq settled'
    BY <1>5 DEF Refuse, Fail, CommitRow, Settle, PollIssue, PollRead, PollFail, PollLand,
                Restart, Tick, gate, vars
  <2> QED BY <1>1, <2>1 DEF OrderIds
<1>6. orders' = orders => OrderIds' = OrderIds
  BY DEF OrderIds
<1> QED BY <1>1, <1>2, <1>3, <1>4, <1>5, <1>6 DEF Next

\* What the types say of one order's amounts.
LEMMA Amounts ==
  ASSUME TypeOK, Account, NEW i \in OrderIds
  PROVE  /\ orders[i].count \in Nat /\ orders[i].count > 0 /\ orders[i].ticker \in Tickers
         /\ fill[i] \in Nat /\ fill[i] <= orders[i].count
         /\ told[i] \in Nat /\ told[i] <= fill[i]
<1>1. orders[i].ticker \in Tickers
  BY OrderFields
<1> QED BY <1>1, AmountsAreNat DEF Account, OrderHolds

\* The net of amounts seen earlier stays what it was: later orders add nothing to it.
LEMMA NetKept ==
  ASSUME TypeOK, TypeOK', Account, [Next]_vars, NEW s \in Seq(Nat), DOMAIN s \subseteq OrderIds,
         NEW t \in Tickers
  PROVE  Net(t, s)' = Net(t, s)
<1> DEFINE S == OrdersOn({t})
           A == { i \in OrderIds' : i \notin OrderIds /\ orders'[i].ticker = t }
           g == FlowOf(s)
           h == [i \in OrderIds' |-> IF orders'[i].direction = "yes" THEN Of(s, i) ELSE -Of(s, i)]
<1>0. /\ \A i \in OrderIds : i \in OrderIds' /\ orders'[i] = orders[i]
      /\ \A i : i \notin OrderIds => Of(s, i) = 0
  BY AmountsKept DEF Of
<1>1. OrdersOn({t})' = S \cup A /\ S \cap A = {} /\ S \in SUBSET OrderIds /\ A \in SUBSET OrderIds'
  BY <1>0 DEF OrdersOn
<1>2. Net(t, s) = SumFunctionOnSet(g, S)
  BY DEF Net
<1>3. Net(t, s)' = SumFunctionOnSet(h, S \cup A)
  <2>1. FlowOf(s)' = h
    BY DEF FlowOf, Signed, Of
  <2> QED BY <1>1, <2>1 DEF Net
<1>4. \A i \in S : g[i] \in Int /\ g[i] = h[i]
  <2> TAKE i \in S
  <2>1. i \in OrderIds /\ i \in OrderIds' /\ orders'[i] = orders[i]
    BY <1>0, <1>1
  <2>2. g[i] = (IF orders[i].direction = "yes" THEN Of(s, i) ELSE -Of(s, i)) /\ g[i] \in Int
    BY <2>1, FlowIsInt DEF Signed
  <2> QED BY <2>1, <2>2
<1>5. \A i \in A : h[i] = 0
  BY <1>0, <1>1
<1>6. IsFiniteSet(S)
  BY <1>1, OrdersFinite
<1>7. IsFiniteSet(A)
  <2>1. IsFiniteSet(OrderIds')
    BY FS_Interval DEF TypeOK, OrderIds
  <2> QED BY <1>1, <2>1, FS_Subset
<1> HIDE DEF S, A, g, h
<1>8. SumFunctionOnSet(h, S \cup A) = SumFunctionOnSet(h, S) + SumFunctionOnSet(h, A)
  BY <1>1, <1>4, <1>5, <1>6, <1>7, SumUnion
<1>9. SumFunctionOnSet(h, A) = 0 /\ SumFunctionOnSet(g, S) = SumFunctionOnSet(h, S)
      /\ SumFunctionOnSet(h, S) \in Int
  BY <1>4, <1>5, <1>6, <1>7, SumZero, SumOfEqual, SumOfIntegers
<1> QED BY <1>2, <1>3, <1>8, <1>9

\* A snapshot stays what it was when it was read.
LEMMA SnapshotKept ==
  ASSUME TypeOK, TypeOK', Account, [Next]_vars,
         NEW v, NEW seen, NEW gone, Snapshot(v, seen, gone)
  PROVE  Snapshot(v, seen, gone)'
<1>1. /\ seen \in Seq(Nat) /\ DOMAIN seen \subseteq OrderIds /\ gone \subseteq settled
      /\ \A i \in OrderIds : Of(seen, i) <= fill[i]
  BY DEF Snapshot
<1>2. DOMAIN seen \subseteq OrderIds' /\ gone \subseteq settled'
  BY <1>1, AmountsKept
<1>3. ASSUME NEW i \in OrderIds' PROVE Of(seen, i) <= fill'[i]
  <2>1. CASE i \in OrderIds
    <3>1. fill[i] \in Nat /\ fill'[i] \in Nat /\ fill'[i] >= fill[i] /\ Of(seen, i) <= fill[i]
      BY <1>1, <2>1, AmountsKept, Amounts
    <3>2. Of(seen, i) \in Nat
      BY <1>1, OfIsNat
    <3> QED BY <3>1, <3>2
  <2>2. CASE i \notin OrderIds
    <3>1. Of(seen, i) = 0
      BY <1>1, <2>2 DEF Of
    <3> QED BY <2>2, <3>1, AmountsKept
  <2> QED BY <2>1, <2>2
<1>4. \A t \in Tickers : Net(t, seen)' = Net(t, seen)
  BY <1>1, NetKept
<1>5. \A i : Of(seen, i)' = Of(seen, i)
  BY DEF Of
<1> QED BY <1>1, <1>2, <1>3, <1>4, <1>5 DEF Snapshot

\* A step that executes and settles nothing leaves the account as it is.
LEMMA AccountFrame ==
  ASSUME TypeOK, TypeOK', Account, [Next]_vars, UNCHANGED <<pos, settled>>,
         \A i \in OrderIds : fill'[i] = fill[i],
         \A i \in OrderIds' : OrderHolds(i)'
  PROVE  Account'
<1>1. PICK s \in Seq(Nat) : s = fill /\ DOMAIN s = OrderIds
  BY FillIsSeq
<1>2. DOMAIN fill' = OrderIds'
  BY DEF TypeOK, OrderIds
<1>3. \A i \in OrderIds' : Of(s, i) = Of(fill', i)
  BY <1>1, <1>2, AmountsKept DEF Of
<1>4. ASSUME NEW t \in Tickers PROVE Net(t, fill)' = Net(t, fill)
  <2>1. Net(t, s)' = Net(t, s)
    BY <1>1, NetKept
  <2>2. FlowOf(s)' = FlowOf(fill)'
    BY <1>3 DEF FlowOf, Signed, Of
  <2> QED BY <1>1, <2>1, <2>2 DEF Net
<1> QED BY <1>4 DEF Account

\* An execution moves the position by its signed fill.
LEMMA AccountExecute ==
  ASSUME TypeOK, TypeOK', Account, [Next]_vars,
         NEW i \in OrderIds, NEW f \in 0..orders[i].count, Execute(i, f)
  PROVE  Account'
<1> DEFINE u == orders[i].ticker
<1>0. /\ i \in live /\ f \in Takes(i) /\ fill' = [fill EXCEPT ![i] = @ + f]
      /\ u \in Tickers /\ u \notin settled /\ f \in Nat /\ f <= orders[i].count
      /\ live' = IF Rests /\ fill[i] + f < orders[i].count THEN live ELSE live \ {i}
      /\ pos' = [pos EXCEPT ![u] = @ + Signed(i, f)] /\ UNCHANGED <<orders, settled, told, phase>>
      /\ OrderIds' = OrderIds
  BY Amounts DEF Execute, OrderIds
<1>1. /\ fill'[i] = fill[i] + f /\ \A j \in OrderIds \ {i} : fill'[j] = fill[j]
      /\ fill \in Seq(Nat) /\ fill' \in Seq(Nat)
      /\ \A j \in OrderIds : Of(fill, j) = fill[j] /\ Of(fill', j) = fill'[j]
  <2>1. fill \in Seq(Nat) /\ DOMAIN fill = OrderIds /\ \A j \in OrderIds : Of(fill, j) = fill[j]
    BY FillIsSeq
  <2>2. fill[i] \in Nat
    BY Amounts
  <2>3. fill' \in Seq(Nat) /\ DOMAIN fill' = OrderIds
    <3>1. fill' \in [1..Len(orders') -> Nat] /\ Len(orders') \in Nat
      BY DEF TypeOK
    <3>2. OrderIds' = 1..Len(orders')
      BY DEF TypeOK, OrderIds
    <3>0. PICK n \in Nat : n = Len(orders')
      BY <3>1
    <3>3. PICK h \in [1..n -> Nat] : h = fill'
      BY <3>0, <3>1
    <3>4. h \in Seq(Nat) /\ DOMAIN h = 1..n
      OBVIOUS
    <3> QED BY <1>0, <3>0, <3>2, <3>3, <3>4
  <2> QED BY <1>0, <2>1, <2>2, <2>3 DEF Of
<1>2. fill[i] + f <= orders[i].count
  <2>1. CASE Rests
    <3>1. f \in 1..(orders[i].count - fill[i])
      BY <1>0, <2>1, GateConstants DEF Rests, Takes
    <3> QED BY <3>1, Amounts
  <2>2. CASE ~Rests
    <3>1. fill[i] = 0
      BY <1>0, <2>2 DEF Account, OrderHolds
    <3> QED BY <1>0, <3>1
  <2> QED BY <2>1, <2>2
<1>3. \A j \in OrderIds : OrderHolds(j)'
  <2>1. ASSUME NEW j \in OrderIds PROVE told'[j] <= fill'[j] /\ fill'[j] <= orders'[j].count
    <3>1. CASE j = i
      <4>1. told[i] <= fill[i] /\ told[i] \in Nat /\ fill[i] \in Nat
        BY Amounts
      <4> QED BY <1>0, <1>1, <1>2, <3>1, <4>1
    <3>2. CASE j # i
      BY <1>0, <1>1, <3>2, Amounts
    <3> QED BY <3>1, <3>2
  <2>2. ASSUME NEW j \in OrderIds, j \in live', ~Rests PROVE j # i /\ j \in live
    BY <1>0, <2>2
  <2> QED BY <1>0, <1>1, <2>1, <2>2 DEF OrderHolds, Account, Rests
<1>4. FlowOf(fill)' = FlowOf(fill')
  BY <1>0 DEF FlowOf, Signed, Of
<1>5. FlowOf(fill')[i] = FlowOf(fill)[i] + Signed(i, f) /\ FlowOf(fill)[i] \in Int /\ Signed(i, f) \in Int
  <2>1. fill[i] \in Nat
    BY Amounts
  <2>2. FlowOf(fill')[i] = Signed(i, fill[i] + f) /\ FlowOf(fill)[i] = Signed(i, fill[i])
    BY <1>1, FlowIsInt
  <2> QED BY <1>0, <2>1, <2>2 DEF Signed
<1>6. ASSUME NEW t \in Tickers \ settled PROVE pos'[t] = Net(t, fill)'
  <2> DEFINE S == OrdersOn({t})
             g == FlowOf(fill)
             h == FlowOf(fill')
  <2>1. S \in SUBSET OrderIds /\ OrdersOn({t})' = S /\ (i \in S <=> u = t)
    BY <1>0 DEF OrdersOn
  <2>2. pos[t] = SumFunctionOnSet(g, S) /\ pos[t] \in Int
    BY <1>6 DEF Account, Net, TypeOK
  <2>3. Net(t, fill)' = SumFunctionOnSet(h, S)
    BY <1>4, <2>1 DEF Net
  <2>4. ASSUME NEW j \in OrderIds PROVE g[j] \in Int /\ h[j] \in Int /\ (j # i => g[j] = h[j])
    <3>1. /\ g[j] = Signed(j, Of(fill, j)) /\ g[j] \in Int
          /\ h[j] = Signed(j, Of(fill', j)) /\ h[j] \in Int
      BY <1>1, FlowIsInt
    <3>2. j # i => Of(fill, j) = Of(fill', j)
      BY <1>1
    <3> QED BY <3>1, <3>2
  <2>5. g[i] \in Int /\ h[i] = g[i] + Signed(i, f)
    BY <1>5
  <2> HIDE DEF S, g, h
  <2>6. CASE u = t
    <3> DEFINE R == S \ {i}
    <3>1. S = R \cup {i} /\ i \notin R /\ R \in SUBSET OrderIds
      BY <2>1, <2>6
    <3> HIDE DEF R
    <3>2. IsFiniteSet(R)
      BY <3>1, OrdersFinite
    <3>3. /\ SumFunctionOnSet(g, S) = g[i] + SumFunctionOnSet(g, R)
          /\ SumFunctionOnSet(h, S) = h[i] + SumFunctionOnSet(h, R)
      BY <2>4, <3>1, <3>2, SumAdd
    <3>4. SumFunctionOnSet(g, R) = SumFunctionOnSet(h, R) /\ SumFunctionOnSet(g, R) \in Int
      BY <2>4, <3>1, <3>2, SumOfEqual, SumOfIntegers
    <3>5. pos'[t] = pos[t] + Signed(i, f)
      BY <1>0, <2>6 DEF TypeOK
    <3> QED BY <1>5, <2>2, <2>3, <2>5, <3>3, <3>4, <3>5
  <2>7. CASE u # t
    <3>1. pos'[t] = pos[t]
      BY <1>0, <2>7 DEF TypeOK
    <3>2. SumFunctionOnSet(g, S) = SumFunctionOnSet(h, S)
      BY <2>1, <2>4, <2>7, OrdersFinite, SumOfEqual
    <3> QED BY <2>2, <2>3, <3>1, <3>2
  <2> QED BY <2>6, <2>7
<1>7. \A t \in settled : t \in Tickers => pos'[t] = 0
  BY <1>0 DEF Account, TypeOK
<1> QED BY <1>0, <1>3, <1>6, <1>7 DEF Account

\* A settlement takes the ticker's position away and ends its orders.
LEMMA AccountSettle ==
  ASSUME TypeOK, TypeOK', Account, [Next]_vars, NEW u \in Tickers, Settle(u)
  PROVE  Account'
<1>0. /\ settled' = settled \cup {u} /\ UNCHANGED <<orders, fill, told, phase>>
      /\ OrderIds' = OrderIds /\ live' \subseteq live
      /\ pos'[u] = 0 /\ \A t \in Tickers \ {u} : pos'[t] = pos[t]
  BY DEF Settle, TypeOK, OrderIds
<1>1. \A t \in Tickers : Net(t, fill)' = Net(t, fill)
  BY <1>0 DEF Net, FlowOf, Signed, Of, OrdersOn
<1>2. ASSUME NEW t \in Tickers PROVE pos'[t] = IF t \in settled' THEN 0 ELSE Net(t, fill)'
  BY <1>0, <1>1 DEF Account
<1>3. \A i \in OrderIds : OrderHolds(i)'
  BY <1>0 DEF Account, OrderHolds, Rests
<1> QED BY <1>0, <1>2, <1>3 DEF Account

\* Every step keeps the positions equal to what the executions add up to.
LEMMA AccountStep ==
  ASSUME TypeOK, TypeOK', Account, [Next]_vars
  PROVE  Account'
<1>0. PICK n \in Nat : n = Len(orders)
  BY DEF TypeOK
<1>1. OrderIds = 1..n /\ \A i \in OrderIds : OrderHolds(i)
  BY <1>0 DEF OrderIds, TypeOK, Account
<1>2. ASSUME NEW w \in Wakes, Admit(w) PROVE Account'
  <2>1. /\ \A i \in 1..n : fill'[i] = fill[i] /\ told'[i] = told[i] /\ phase'[i] = phase[i]
        /\ fill'[n + 1] = 0 /\ told'[n + 1] = 0 /\ phase'[n + 1] = "inflight"
    <3>1. /\ fill \in [1..n -> Nat] /\ told \in [1..n -> Nat] /\ phase \in [1..n -> Phases]
          /\ 0 \in Nat /\ "inflight" \in Phases
      BY <1>0 DEF TypeOK, Phases
    <3> QED BY <1>0, <1>2, <3>1, AppendFun DEF Admit
  <2>2. /\ OrderIds' = 1..(n + 1) /\ \A i \in 1..n : orders'[i] = orders[i]
        /\ orders'[n + 1].count = w.count /\ UNCHANGED <<pos, settled>>
        /\ live' = live \cup {n + 1}
    BY <1>0, <1>2 DEF Admit, TypeOK, OrderIds
  <2>3. w.count \in Nat
    BY GateConstants
  <2>4. ASSUME NEW i \in 1..n PROVE OrderHolds(i)'
    <3>1. i # n + 1
      OBVIOUS
    <3> QED BY <1>1, <2>1, <2>2, <3>1 DEF OrderHolds, Rests
  <2>5. OrderHolds(n + 1)'
    BY <2>1, <2>2, <2>3 DEF OrderHolds
  <2>6. \A i \in OrderIds' : i \in 1..n \/ i = n + 1
    BY <2>2
  <2>7. \A i \in OrderIds' : OrderHolds(i)'
    BY <2>4, <2>5, <2>6
  <2> QED BY <1>1, <2>1, <2>2, <2>7, AccountFrame
<1>3. ASSUME NEW i \in OrderIds, NEW c \in 0..orders[i].count, Respond(i, c) PROVE Account'
  <2>1. /\ told' = [told EXCEPT ![i] = c] /\ phase' = [phase EXCEPT ![i] = "done"]
        /\ UNCHANGED <<orders, fill, live, pos, settled>> /\ OrderIds' = OrderIds
        /\ (Rests \/ i \notin live) /\ c <= fill[i]
    BY <1>3, Amounts DEF Respond, OrderIds
  <2>2. /\ told'[i] = c /\ phase'[i] = "done"
        /\ \A j \in OrderIds \ {i} : told'[j] = told[j] /\ phase'[j] = phase[j]
    BY <1>0, <2>1 DEF TypeOK, OrderIds
  <2>3. \A j \in OrderIds : OrderHolds(j)'
    BY <1>1, <2>1, <2>2 DEF OrderHolds, Rests
  <2> QED BY <2>1, <2>3, AccountFrame
<1>4. ASSUME NEW i \in OrderIds, Fail(i) PROVE Account'
  <2>1. /\ phase' = [phase EXCEPT ![i] = "failed"] /\ phase[i] = "inflight"
        /\ UNCHANGED <<orders, fill, told, live, pos, settled>> /\ OrderIds' = OrderIds
    BY <1>4 DEF Fail, OrderIds
  <2>2. phase'[i] = "failed" /\ \A j \in OrderIds \ {i} : phase'[j] = phase[j]
    BY <1>0, <2>1 DEF TypeOK, OrderIds
  <2>3. \A j \in OrderIds : OrderHolds(j)'
    BY <1>1, <2>1, <2>2 DEF OrderHolds, Rests
  <2> QED BY <2>1, <2>3, AccountFrame
<1>5. CASE Restart
  <2>1. /\ \A i \in OrderIds : phase'[i] = IF phase[i] = "inflight" THEN "crashed" ELSE phase[i]
        /\ UNCHANGED <<orders, fill, told, live, pos, settled>> /\ OrderIds' = OrderIds
    BY <1>5 DEF Restart, OrderIds
  <2>2. \A j \in OrderIds : OrderHolds(j)'
    BY <1>1, <2>1 DEF OrderHolds, Rests
  <2> QED BY <2>1, <2>2, AccountFrame
<1>6. CASE \/ \E w \in Wakes : Refuse(w)
           \/ \E i \in OrderIds : CommitRow(i)
           \/ PollIssue \/ PollRead \/ PollFail \/ PollLand \/ Tick \/ UNCHANGED vars
  <2>1. UNCHANGED <<orders, fill, told, phase, live, pos, settled>> /\ OrderIds' = OrderIds
    BY <1>6 DEF Refuse, CommitRow, PollIssue, PollRead, PollFail, PollLand,
                Tick, gate, vars, OrderIds
  <2>2. \A j \in OrderIds : OrderHolds(j)'
    BY <1>1, <2>1 DEF OrderHolds, Rests
  <2> QED BY <2>1, <2>2, AccountFrame
<1> QED BY <1>2, <1>3, <1>4, <1>5, <1>6, AccountExecute, AccountSettle DEF Next

\* No executions add up to no position.
LEMMA NoSnapshot ==
  ASSUME TypeOK, NEW v, \A t \in Tickers : v[t] = 0
  PROVE  Snapshot(v, <<>>, {})
<1>1. ASSUME NEW t \in Tickers PROVE Net(t, <<>>) = 0
  <2> DEFINE g == FlowOf(<<>>)
             S == OrdersOn({t})
  <2>1. S \in SUBSET OrderIds /\ \A i \in S : g[i] = 0
    <3>1. S \in SUBSET OrderIds
      BY DEF OrdersOn
    <3>2. ASSUME NEW i \in OrderIds PROVE g[i] = 0
      <4>1. <<>> \in Seq(Nat) /\ Of(<<>>, i) = 0
        BY DEF Of
      <4> QED BY <4>1, FlowIsInt
    <3> QED BY <3>1, <3>2
  <2> HIDE DEF g, S
  <2>2. IsFiniteSet(S)
    BY <2>1, OrdersFinite
  <2>3. SumFunctionOnSet(g, S) = 0
    BY <2>1, <2>2, SumZero
  <2> QED BY <2>3 DEF Net, g, S
<1>2. \A i \in OrderIds : Of(<<>>, i) <= fill[i]
  BY AmountsAreNat DEF Of
<1> QED BY <1>1, <1>2 DEF Snapshot, Abs

\* What the monitor holds after a step is a snapshot of the account before it.
LEMMA PollHolds ==
  ASSUME TypeOK, Account, Snapshot(poll.value, poll.seen, poll.gone), [Next]_vars
  PROVE  Snapshot(poll'.value, poll'.seen, poll'.gone)
<1>1. CASE PollIssue \/ PollFail \/ Restart
  <2>1. /\ \A t \in Tickers : poll'.value[t] = 0
        /\ poll'.seen = <<>> /\ poll'.gone = {}
    <3>1. CASE PollIssue
      <4>1. poll' = [state |-> "issued", at |-> now, value |-> [t \in Tickers |-> 0],
                     seen |-> <<>>, gone |-> {}]
        BY <3>1 DEF PollIssue, NoPoll
      <4> QED BY <4>1
    <3>2. CASE PollFail \/ Restart
      BY <3>2 DEF PollFail, Restart, NoPoll
    <3> QED BY <1>1, <3>1, <3>2
  <2> QED BY <2>1, NoSnapshot
<1>2. CASE PollRead
  <2>1. /\ poll'.value = [t \in Tickers |-> Abs(pos[t])] /\ poll'.seen = fill
        /\ poll'.gone = settled
    BY <1>2 DEF PollRead, TypeOK
  <2>2. \A t \in Tickers : poll'.value[t] = IF t \in settled THEN 0 ELSE Abs(Net(t, fill))
    BY <2>1 DEF Account, Abs
  <2>3. \A i \in OrderIds : Of(fill, i) <= fill[i]
    BY FillIsSeq, Amounts
  <2> QED BY <2>1, <2>2, <2>3, FillIsSeq DEF Snapshot
<1>3. CASE PollLand
  <2>1. poll' = NoPoll
    BY <1>3 DEF PollLand
  <2> QED BY <2>1, NoSnapshot DEF NoPoll
<1>4. CASE ~(PollIssue \/ PollRead \/ PollFail \/ PollLand \/ Restart)
  <2>1. poll' = poll
    BY <1>4 DEF Next, Admit, Refuse, Respond, Fail, CommitRow, Execute, Settle, Tick, vars
  <2> QED BY <2>1
<1> QED BY <1>1, <1>2, <1>3, <1>4

\* And so is what the gate holds as its baseline.
LEMMA BaselineHolds ==
  ASSUME TypeOK, Snapshot(poll.value, poll.seen, poll.gone),
         Snapshot(recTicker, baseSeen, baseGone), [Next]_vars
  PROVE  Snapshot(recTicker', baseSeen', baseGone')
<1>1. CASE PollLand
  <2>1. recTicker' = poll.value /\ baseSeen' = poll.seen /\ baseGone' = poll.gone
    BY <1>1 DEF PollLand, reconcile_open_positions
  <2> QED BY <2>1
<1>2. CASE Restart
  <2>1. (\A t \in Tickers : recTicker'[t] = 0) /\ baseSeen' = <<>> /\ baseGone' = {}
    BY <1>2 DEF Restart, warm_start
  <2> QED BY <2>1, NoSnapshot
<1>3. CASE ~(PollLand \/ Restart)
  <2>1. UNCHANGED <<recTicker, baseSeen, baseGone>>
    BY <1>3 DEF Next, Admit, Refuse, Respond, Fail, CommitRow, Execute, Settle, PollIssue,
                PollRead, PollFail, Tick, gate, vars
  <2> QED BY <2>1
<1> QED BY <1>1, <1>2, <1>3

\* The deque gains a fill at a time, or is rebuilt from the rows of filled orders.
LEMMA FillsStep ==
  ASSUME TypeOK, Account, [Next]_vars,
         IsFiniteSet(fills), \A f \in fills : told[f.order] > 0
  PROVE  IsFiniteSet(fills') /\ \A f \in fills' : told'[f.order] > 0
<1>1. \A f \in fills : f.order \in OrderIds /\ told'[f.order] > 0
  <2>1. \A f \in fills : f.order \in OrderIds
    BY DEF TypeOK, OrderIds
  <2> QED BY <2>1, AmountsKept
<1>2. ASSUME NEW i \in OrderIds, NEW c \in 0..orders[i].count, Respond(i, c)
      PROVE  IsFiniteSet(fills') /\ \A f \in fills' : told'[f.order] > 0
  <2> DEFINE r == [order |-> i, ts |-> now, group |-> groupOf[orders[i].ticker]]
  <2>1. fills' = IF c <= 0 THEN fills ELSE fills \cup {r}
    BY <1>2 DEF Respond, record_fill
  <2>2. r.order = i /\ told'[i] = c /\ c \in Nat
    <3>1. told' = [told EXCEPT ![i] = c] /\ i \in DOMAIN told
      BY <1>2 DEF Respond, TypeOK, OrderIds
    <3> QED BY <1>2, <3>1, AmountsAreNat
  <2> HIDE DEF r
  <2>3. IsFiniteSet(fills \cup {r})
    BY FS_AddElement
  <2> QED BY <1>1, <2>1, <2>2, <2>3
<1>3. CASE Restart
  <2> DEFINE W == { j \in WarmRows : row[j] = "resolved" /\ phase[j] = "done" /\ told[j] > 0 }
  <2>1. W \in SUBSET OrderIds
    BY DEF WarmRows
  <2>2. fills' = { [order |-> i, ts |-> orders[i].at, group |-> orders[i].group] : i \in W }
        /\ told' = told
    BY <1>3 DEF Restart, warm_start
  <2>3. \A i \in W : told[i] > 0
    OBVIOUS
  <2>4. IsFiniteSet(W)
    BY <2>1, OrdersFinite
  <2> HIDE DEF W
  <2>5. IsFiniteSet({ [order |-> i, ts |-> orders[i].at, group |-> orders[i].group] : i \in W })
    <3> DEFINE c == [i \in W |-> [order |-> i, ts |-> orders[i].at, group |-> orders[i].group]]
               R == { [order |-> i, ts |-> orders[i].at, group |-> orders[i].group] : i \in W }
    <3>1. c \in Surjection(W, R)
      BY DEF Surjection
    <3> HIDE DEF c, R
    <3>2. IsFiniteSet(R)
      BY <2>4, <3>1, FS_Surjection
    <3> QED BY <3>2 DEF R
  <2> QED BY <2>2, <2>3, <2>5
<1>4. CASE ~(Restart \/ \E i \in OrderIds : \E c \in 0..orders[i].count : Respond(i, c))
  <2>1. fills' \in SUBSET fills
    BY <1>4 DEF Next, Admit, Refuse, Fail, CommitRow, Execute, Settle, PollIssue, PollRead,
                PollFail, PollLand, Tick, LiveFills, gate, vars
  <2>2. IsFiniteSet(fills')
    BY <2>1, FS_Subset
  <2> QED BY <1>1, <2>1, <2>2
<1> QED BY <1>2, <1>3, <1>4

LEMMA LedgerStep ==
  ASSUME TypeOK, TypeOK', Ledger, [Next]_vars
  PROVE  Ledger'
<1>1. Account' /\ IsFiniteSet(fills') /\ \A f \in fills' : told'[f.order] > 0
  BY AccountStep, FillsStep DEF Ledger
<1>2. Snapshot(poll.value, poll.seen, poll.gone)'
  <2>1. PICK v, s, g : v = poll'.value /\ s = poll'.seen /\ g = poll'.gone
    OBVIOUS
  <2>2. Snapshot(v, s, g)
    BY <2>1, PollHolds DEF Ledger
  <2>3. Snapshot(v, s, g)'
    BY <2>2, SnapshotKept DEF Ledger
  <2> QED BY <2>1, <2>3
<1>3. Snapshot(recTicker, baseSeen, baseGone)'
  <2>1. PICK v, s, g : v = recTicker' /\ s = baseSeen' /\ g = baseGone'
    OBVIOUS
  <2>2. Snapshot(v, s, g)
    BY <2>1, BaselineHolds DEF Ledger
  <2>3. Snapshot(v, s, g)'
    BY <2>2, SnapshotKept DEF Ledger
  <2> QED BY <2>1, <2>3
<1> QED BY <1>1, <1>2, <1>3 DEF Ledger

LEMMA LedgerInit == Init => Ledger
<1> SUFFICES ASSUME Init PROVE Ledger
  OBVIOUS
<1>1. TypeOK /\ OrderIds = {} /\ settled = {} /\ fills = {} /\ \A t \in Tickers : pos[t] = 0
  BY TypeInit DEF Init, EmptyGate, OrderIds
<1>2. Snapshot(poll.value, poll.seen, poll.gone) /\ Snapshot(recTicker, baseSeen, baseGone)
  BY <1>1, NoSnapshot DEF Init, EmptyGate, NoPoll
<1>3. \A t \in Tickers : Net(t, fill) = 0
  <2>1. \A t \in Tickers : OrdersOn({t}) = {}
    BY <1>1 DEF OrdersOn
  <2> QED BY <2>1, SumEmpty DEF Net
<1> QED BY <1>1, <1>2, <1>3, FS_EmptySet DEF Ledger, Account
-----------------------------------------------------------------------------
(* The ledger covers the account.                                          *)

LEMMA SumOne ==
  ASSUME NEW g, NEW x, g[x] \in Int
  PROVE  SumFunctionOnSet(g, {x}) = g[x]
<1>1. SumFunctionOnSet(g, {} \cup {x}) = g[x] + SumFunctionOnSet(g, {})
  BY FS_EmptySet, SumAdd
<1>2. {} \cup {x} = {x} /\ SumFunctionOnSet(g, {}) = 0
  BY SumEmpty
<1> QED BY <1>1, <1>2

\* The account's holdings, and what the executions hold beyond the baseline.
Held == [t \in Tickers |-> Abs(pos[t])]
Beyond == [i \in OrderIds |-> fill[i] - Seen(i)]

LEMMA BeyondIsNat ==
  ASSUME TypeOK, Ledger, NEW K
  PROVE  /\ OrdersOn(K) \in SUBSET OrderIds /\ IsFiniteSet(OrdersOn(K))
         /\ \A i \in OrderIds : /\ Beyond[i] = fill[i] - Seen(i) /\ Beyond[i] \in Nat
                                /\ Seen(i) \in Nat /\ Seen(i) <= fill[i]
         /\ SumFunctionOnSet(Beyond, OrdersOn(K)) \in Nat
<1>1. OrdersOn(K) \in SUBSET OrderIds /\ IsFiniteSet(OrdersOn(K))
  BY OrdersFinite DEF OrdersOn
<1>2. ASSUME NEW i \in OrderIds
      PROVE  /\ Beyond[i] = fill[i] - Seen(i) /\ Beyond[i] \in Nat
             /\ Seen(i) \in Nat /\ Seen(i) <= fill[i]
  <2>1. Seen(i) \in Nat /\ fill[i] \in Nat
    BY AmountsAreNat DEF Seen
  <2>2. Seen(i) <= fill[i]
    BY DEF Ledger, Snapshot, Seen
  <2> QED BY <2>1, <2>2 DEF Beyond
<1>3. SumFunctionOnSet(Beyond, OrdersOn(K)) \in Nat
  <2>1. \A i \in OrdersOn(K) : Beyond[i] \in Nat
    BY <1>1, <1>2
  <2> QED BY <1>1, <2>1, SumOfPart
<1> QED BY <1>1, <1>2, <1>3

\* On one ticker the baseline and the executions beyond it cover the position.
LEMMA TickerCovered ==
  ASSUME TypeOK, Ledger, NEW t \in Tickers
  PROVE  /\ Held[t] \in Nat /\ recTicker[t] \in Nat
         /\ Held[t] <= recTicker[t] + SumFunctionOnSet(Beyond, OrdersOn({t}))
<1> DEFINE S == OrdersOn({t})
           g == FlowOf(fill)
           h == FlowOf(baseSeen)
           x == [i \in OrderIds |-> g[i] - h[i]]
<1>0. /\ pos[t] \in Int /\ Held[t] = Abs(pos[t]) /\ recTicker[t] \in Nat
      /\ Account /\ Snapshot(recTicker, baseSeen, baseGone)
      /\ SumFunctionOnSet(Beyond, S) \in Nat /\ IsFiniteSet(S) /\ S \in SUBSET OrderIds
  BY BeyondIsNat DEF TypeOK, Held, Ledger
<1>1. CASE t \in settled
  <2>1. pos[t] = 0
    BY <1>0, <1>1 DEF Account
  <2> HIDE DEF S
  <2> QED BY <1>0, <2>1 DEF Abs, S
<1>2. CASE t \notin settled
  <2>1. pos[t] = SumFunctionOnSet(g, S)
    BY <1>0, <1>2 DEF Account, Net
  <2>2. recTicker[t] = Abs(SumFunctionOnSet(h, S))
    BY <1>0, <1>2 DEF Snapshot, Net
  <2>3. ASSUME NEW i \in OrderIds
        PROVE  /\ g[i] \in Int /\ h[i] \in Int /\ x[i] \in Int /\ g[i] = h[i] + x[i]
               /\ Beyond[i] \in Int /\ -Beyond[i] <= x[i] /\ x[i] <= Beyond[i]
    <3>1. /\ fill \in Seq(Nat) /\ baseSeen \in Seq(Nat) /\ Of(fill, i) = fill[i]
          /\ Seen(i) = Of(baseSeen, i)
      BY FillIsSeq DEF TypeOK, Seen
    <3>2. g[i] = Signed(i, fill[i]) /\ h[i] = Signed(i, Seen(i)) /\ g[i] \in Int /\ h[i] \in Int
      BY <3>1, FlowIsInt
    <3>3. /\ Beyond[i] = fill[i] - Seen(i) /\ Beyond[i] \in Nat /\ Seen(i) \in Nat
          /\ fill[i] \in Nat
      BY BeyondIsNat, AmountsAreNat
    <3>4. x[i] = g[i] - h[i]
      OBVIOUS
    <3> HIDE DEF x, g, h
    <3> QED BY <3>2, <3>3, <3>4 DEF Signed
  <2> HIDE DEF S, g, h, x
  <2>4. /\ SumFunctionOnSet(g, S) = SumFunctionOnSet(h, S) + SumFunctionOnSet(x, S)
        /\ SumFunctionOnSet(h, S) \in Int /\ SumFunctionOnSet(x, S) \in Int
    BY <1>0, <2>3, SumPlus, SumOfIntegers
  <2>5. /\ -SumFunctionOnSet(Beyond, S) <= SumFunctionOnSet(x, S)
        /\ SumFunctionOnSet(x, S) <= SumFunctionOnSet(Beyond, S)
    BY <1>0, <2>3, SumAbs
  <2>6. PICK b \in Nat, s \in Int, y \in Int :
          /\ b = SumFunctionOnSet(Beyond, S) /\ s = SumFunctionOnSet(h, S)
          /\ y = SumFunctionOnSet(x, S)
    BY <1>0, <2>4
  <2>7. pos[t] = s + y /\ recTicker[t] = Abs(s) /\ -b <= y /\ y <= b
    BY <2>1, <2>2, <2>4, <2>5, <2>6
  <2>8. Abs(s + y) <= Abs(s) + b /\ Abs(s + y) \in Nat
    BY <2>7 DEF Abs
  <2> QED BY <1>0, <2>6, <2>7, <2>8 DEF S
<1> QED BY <1>1, <1>2

\* The same for several tickers at once.
LEMMA TickersCovered ==
  ASSUME TypeOK, Ledger, NEW K \in SUBSET Tickers
  PROVE  /\ SumFunctionOnSet(Held, K) \in Nat /\ SumFunctionOnSet(recTicker, K) \in Nat
         /\ SumFunctionOnSet(Held, K)
              <= SumFunctionOnSet(recTicker, K) + SumFunctionOnSet(Beyond, OrdersOn(K))
<1> DEFINE S == OrdersOn(K)
           b == [t \in K |-> SumFunctionOnSet(Beyond, OrdersOn({t}))]
           h == [t \in K |-> recTicker[t] + b[t]]
           c == [i \in OrderIds |-> orders[i].ticker]
<1>0. IsFiniteSet(K)
  BY GateConstants, FS_Subset
<1>1. \A t \in K : /\ Held[t] \in Nat /\ recTicker[t] \in Nat /\ b[t] \in Nat
                   /\ h[t] = recTicker[t] + b[t] /\ Held[t] <= h[t]
  BY <1>0, TickerCovered, BeyondIsNat
<1>2. SumFunctionOnSet(Beyond, S) = SumFunctionOnSet(b, K)
  <2>1. IsFiniteSet(S) /\ \A i \in S : i \in OrderIds /\ Beyond[i] \in Int /\ c[i] \in K
    <3>1. \A i \in S : i \in OrderIds /\ c[i] \in K
      BY DEF OrdersOn
    <3>2. IsFiniteSet(OrdersOn(K)) /\ \A i \in OrderIds : Beyond[i] \in Nat
      BY BeyondIsNat
    <3>3. IsFiniteSet(S)
      BY <3>2
    <3> HIDE DEF S, c
    <3> QED BY <3>1, <3>2, <3>3
  <2>2. b = [t \in K |-> SumFunctionOnSet(Beyond, { i \in S : c[i] = t })]
    <3>1. ASSUME NEW t \in K PROVE { i \in S : c[i] = t } = OrdersOn({t})
      BY <2>1 DEF OrdersOn
    <3> QED BY <3>1
  <2> HIDE DEF b, c, S
  <2>3. SumFunctionOnSet(Beyond, S)
          = SumFunctionOnSet([t \in K |-> SumFunctionOnSet(Beyond, { i \in S : c[i] = t })], K)
    BY <1>0, <2>1, SumOverKeys
  <2> QED BY <2>2, <2>3
<1> HIDE DEF b, h, c
<1>3. SumFunctionOnSet(Held, K) <= SumFunctionOnSet(h, K)
  BY <1>0, <1>1, SumOfLarger
<1>4. SumFunctionOnSet(h, K) = SumFunctionOnSet(recTicker, K) + SumFunctionOnSet(b, K)
  BY <1>0, <1>1, SumPlus
<1>5. /\ SumFunctionOnSet(Held, K) \in Nat /\ SumFunctionOnSet(recTicker, K) \in Nat
  BY <1>0, <1>1, SumOfPart
<1> QED BY <1>2, <1>3, <1>4, <1>5

\* The fills layered over the baseline on K.
LayersOn(K) == { f \in fills : orders[f.order].ticker \in K /\ Within(f) }

\* Every execution beyond the baseline is layered over it or was not reported.
LEMMA BeyondCovered ==
  ASSUME TypeOK, Ledger, NEW K \in SUBSET Tickers,
         \A i \in OrderIds : told[i] > Seen(i) => \E f \in fills : f.order = i /\ Within(f)
  PROVE  /\ FillSum(LayersOn(K)) \in Nat /\ Unaccounted(K) \in Nat
         /\ SumFunctionOnSet(Beyond, OrdersOn(K)) <= FillSum(LayersOn(K)) + Unaccounted(K)
<1> DEFINE S == OrdersOn(K)
           D == { i \in S : told[i] > Seen(i) }
           E == { i \in S : ~(told[i] > Seen(i)) }
           u == [i \in OrderIds |-> fill[i] - Known(i)]
           v == [i \in OrderIds |-> Known(i) - Seen(i)]
           paid == [f \in fills |-> told[f.order]]
           c == [i \in D |-> CHOOSE f \in fills : f.order = i /\ Within(f)]
<1>0. Account /\ IsFiniteSet(fills) /\ \A f \in fills : f.order \in OrderIds /\ told[f.order] > 0
  BY DEF Ledger, TypeOK, OrderIds
<1>1. /\ S = D \cup E /\ D \cap E = {} /\ S \in SUBSET OrderIds
      /\ D \in SUBSET OrderIds /\ E \in SUBSET OrderIds
  BY BeyondIsNat
<1>2. IsFiniteSet(S) /\ IsFiniteSet(D) /\ IsFiniteSet(E)
  BY <1>1, OrdersFinite
<1>3. ASSUME NEW i \in OrderIds
      PROVE  /\ u[i] \in Nat /\ v[i] \in Nat /\ Beyond[i] = u[i] + v[i] /\ told[i] \in Nat
             /\ told[i] > Seen(i) => v[i] <= told[i]
             /\ ~(told[i] > Seen(i)) => v[i] = 0
  <2>1. /\ fill[i] \in Nat /\ told[i] \in Nat /\ told[i] <= fill[i]
        /\ Seen(i) \in Nat /\ Seen(i) <= fill[i] /\ Beyond[i] = fill[i] - Seen(i)
    BY <1>0, Amounts, BeyondIsNat
  <2>2. u[i] = fill[i] - Known(i) /\ v[i] = Known(i) - Seen(i)
    OBVIOUS
  <2> HIDE DEF u, v
  <2> QED BY <2>1, <2>2 DEF Known
<1>4. \A i \in D : c[i] \in LayersOn(K) /\ c[i].order = i
  <2> TAKE i \in D
  <2>1. \E f \in fills : f.order = i /\ Within(f)
    BY <1>1
  <2>2. c[i] \in fills /\ c[i].order = i /\ Within(c[i])
    BY <2>1
  <2> HIDE DEF c
  <2>3. orders[i].ticker \in K
    BY DEF OrdersOn
  <2> QED BY <2>2, <2>3 DEF LayersOn
<1>5. /\ LayersOn(K) \in SUBSET fills /\ IsFiniteSet(LayersOn(K))
      /\ \A f \in LayersOn(K) : paid[f] = told[f.order] /\ paid[f] \in Nat
  <2>1. LayersOn(K) \in SUBSET fills
    BY DEF LayersOn
  <2>2. \A f \in fills : told[f.order] \in Nat
    BY <1>0, Amounts
  <2> QED BY <1>0, <2>1, <2>2, FS_Subset
<1>6. /\ FillSum(LayersOn(K)) = SumFunctionOnSet(paid, LayersOn(K))
      /\ Unaccounted(K) = SumFunctionOnSet(u, S)
  BY DEF FillSum, Unaccounted
<1>7. \A i \in D : told[i] > Seen(i)
  OBVIOUS
<1>8. \A i \in E : ~(told[i] > Seen(i))
  OBVIOUS
<1> HIDE DEF S, D, E, u, v, paid, c
<1>9. SumFunctionOnSet(v, D) <= SumFunctionOnSet(paid, LayersOn(K))
  <2>1. \A i \in D : v[i] \in Int /\ c[i] \in LayersOn(K) /\ v[i] <= paid[c[i]]
    BY <1>1, <1>3, <1>4, <1>5, <1>7
  <2>2. \A i, j \in D : c[i] = c[j] => i = j
    BY <1>4
  <2> QED BY <1>2, <1>5, <2>1, <2>2, SumOverImage
<1>10. SumFunctionOnSet(Beyond, S) = SumFunctionOnSet(u, S) + SumFunctionOnSet(v, S)
  BY <1>1, <1>2, <1>3, SumPlus
<1>11. SumFunctionOnSet(v, S) = SumFunctionOnSet(v, D)
  <2>1. SumFunctionOnSet(v, D \cup E) = SumFunctionOnSet(v, D) + SumFunctionOnSet(v, E)
    BY <1>1, <1>2, <1>3, SumUnion
  <2>2. SumFunctionOnSet(v, E) = 0
    BY <1>1, <1>2, <1>3, <1>8, SumZero
  <2>3. SumFunctionOnSet(v, D) \in Int
    BY <1>1, <1>2, <1>3, SumOfIntegers
  <2> QED BY <1>1, <2>1, <2>2, <2>3
<1>12. /\ SumFunctionOnSet(u, S) \in Nat /\ SumFunctionOnSet(v, D) \in Nat
       /\ SumFunctionOnSet(paid, LayersOn(K)) \in Nat
  BY <1>1, <1>2, <1>3, <1>5, SumOfPart
<1>13. SumFunctionOnSet(Beyond, OrdersOn(K)) = SumFunctionOnSet(Beyond, S)
  BY DEF S
<1> QED BY <1>6, <1>9, <1>10, <1>11, <1>12, <1>13

\* What the gate compares with its caps covers the account's position, but for what
\* it was not told.
LEMMA PositionCovered ==
  ASSUME TypeOK, Ledger, NEW K \in SUBSET Tickers,
         \A i \in OrderIds : told[i] > Seen(i) => \E f \in fills : f.order = i /\ Within(f)
  PROVE  /\ SumFunctionOnSet(Held, K)
              <= SumFunctionOnSet(recTicker, K) + FillSum(LayersOn(K)) + Unaccounted(K)
         /\ SumFunctionOnSet(Held, K) \in Nat /\ Unaccounted(K) \in Nat
         /\ SumFunctionOnSet(recTicker, K) \in Nat /\ FillSum(LayersOn(K)) \in Nat
<1>1. SumFunctionOnSet(Beyond, OrdersOn(K)) \in Nat
  BY BeyondIsNat
<1> QED BY <1>1, TickersCovered, BeyondCovered

\* The two sums of position_for_ticker and position_for_event, in these terms.
LEMMA PositionsRead ==
  ASSUME TypeOK
  PROVE  /\ \A t \in Tickers :
              /\ position_for_ticker(t) = SumFunctionOnSet(recTicker, {t}) + FillSum(LayersOn({t}))
              /\ SumFunctionOnSet(Held, {t}) = Abs(pos[t])
         /\ \A e \in Events :
              /\ position_for_event(e)
                   = SumFunctionOnSet(recTicker, StrikesOf(e)) + FillSum(LayersOn(StrikesOf(e)))
              /\ SumFunctionOnSet(Held, StrikesOf(e)) = EventPosition(e)
              /\ StrikesOf(e) \in SUBSET Tickers
<1>1. ASSUME NEW t \in Tickers
      PROVE  /\ position_for_ticker(t) = SumFunctionOnSet(recTicker, {t}) + FillSum(LayersOn({t}))
             /\ SumFunctionOnSet(Held, {t}) = Abs(pos[t])
  <2>1. LayersOn({t}) = { f \in fills : orders[f.order].ticker = t /\ Within(f) }
    BY DEF LayersOn
  <2>2. recTicker[t] \in Int /\ Held[t] = Abs(pos[t]) /\ Held[t] \in Int
    BY DEF TypeOK, Held, Abs
  <2> QED BY <2>1, <2>2, SumOne DEF position_for_ticker
<1>2. ASSUME NEW e \in Events
      PROVE  /\ position_for_event(e)
                  = SumFunctionOnSet(recTicker, StrikesOf(e)) + FillSum(LayersOn(StrikesOf(e)))
             /\ SumFunctionOnSet(Held, StrikesOf(e)) = EventPosition(e)
             /\ StrikesOf(e) \in SUBSET Tickers
  <2>1. \A f \in fills : orders[f.order].ticker \in Tickers
    BY RecordedOrders
  <2>2. LayersOn(StrikesOf(e))
          = { f \in fills : event_ticker_of(orders[f.order].ticker) = e /\ Within(f) }
    BY <2>1 DEF LayersOn, StrikesOf
  <2> QED BY <2>2 DEF position_for_event, EventPosition, Held, StrikesOf
<1> QED BY <1>1, <1>2
\* A fresh snapshot's window starts where it was issued.
LEMMA WindowOfFresh ==
  ASSUME TypeOK, recAt >= now - DAY
  PROVE  WindowStart = recAt
<1> DEFINE S == {recAt, now - DAY}
<1>1. /\ recAt \in Int /\ now - DAY \in Int /\ S \in SUBSET Int /\ S # {}
      /\ \A x \in S : x <= recAt
      /\ recAt \in S
  BY GateConstants DEF TypeOK
<1>2. WindowStart = Max(S)
  BY DEF WindowStart
<1> HIDE DEF S
<1>3. Max(S) \in S /\ \A y \in S : Max(S) >= y
  BY <1>1, MaxOfBounded
<1>4. Max(S) \in Int /\ Max(S) <= recAt /\ Max(S) >= recAt
  BY <1>1, <1>3
<1> QED BY <1>1, <1>2, <1>4

\* In every reachable state of the gate, its ledger adds up.
THEOREM LedgerHolds == Spec => [](TypeOK /\ Clocked /\ Layers /\ Ledger /\ FillsLayered)
<1>1. Init => Layers
  BY DEF Init, EmptyGate, NoPoll, Layers, OrderIds
<1>2. TypeOK /\ Clocked /\ Layers /\ [Next]_vars => Layers'
  BY LayersStep
<1>3. TypeOK /\ TypeOK' /\ Ledger /\ [Next]_vars => Ledger'
  BY LedgerStep
<1> QED BY <1>1, <1>2, <1>3, LedgerInit, NoFillFallsBetween, TypeCorrect, PTL DEF Spec

\* Neither a fill nor a position is missing from what check() compares with the caps:
\* whatever the order of execution, response, poll and landing, the snapshot and the
\* fills layered over it read no lower than the account, per ticker and per event, but
\* for what neither a response nor a snapshot reported: dispatches out or failed, orders
\* that rested on after their answer, and answers without a readable fill_count.
THEOREM PositionNeverUnderstated == Spec => []LedgerKeepsFills
<1>1. TypeOK /\ Ledger /\ FillsLayered => LedgerKeepsFills
  <2> SUFFICES ASSUME TypeOK, Ledger, FillsLayered, Fresh PROVE PositionNotUnderstated
    BY DEF LedgerKeepsFills, PositionNotUnderstated
  <2>1. \A i \in OrderIds : told[i] > Seen(i) => \E f \in fills : f.order = i /\ Within(f)
    BY DEF FillsLayered
  <2>2. ASSUME NEW t \in Tickers
        PROVE  Abs(pos[t]) <= position_for_ticker(t) + Unaccounted({t})
    <3>1. {t} \in SUBSET Tickers
      OBVIOUS
    <3> QED BY <2>1, <3>1, PositionCovered, PositionsRead
  <2>3. ASSUME NEW e \in Events
        PROVE  EventPosition(e) <= position_for_event(e) + Unaccounted(StrikesOf(e))
    BY <2>1, PositionCovered, PositionsRead
  <2> QED BY <2>2, <2>3 DEF PositionNotUnderstated
<1> QED BY <1>1, LedgerHolds, PTL

\* Once the snapshot holds all that the ticker saw and every response predates it,
\* the ledger is the account: nothing is counted twice, a settled position is gone.
THEOREM QuietLedgerIsExact == Spec => []LedgerExactWhenQuiet
<1>1. TypeOK /\ Ledger => LedgerExactWhenQuiet
  <2> SUFFICES ASSUME TypeOK, Ledger, NEW t \in Tickers, Fresh, t \in settled <=> t \in baseGone,
                      \A i \in OrdersOn({t}) : fill[i] = Seen(i),
                      \A f \in fills : orders[f.order].ticker = t => f.ts < recAt
               PROVE  position_for_ticker(t) = Abs(pos[t])
    BY DEF LedgerExactWhenQuiet
  <2> DEFINE F == { f \in fills : orders[f.order].ticker = t /\ Within(f) }
             S == OrdersOn({t})
             g == FlowOf(fill)
             h == FlowOf(baseSeen)
  <2>0. /\ Account /\ Snapshot(recTicker, baseSeen, baseGone) /\ WindowStart = recAt
        /\ recTicker[t] \in Int /\ recAt \in Nat /\ \A f \in fills : f.ts \in Nat
    <3>1. Account /\ Snapshot(recTicker, baseSeen, baseGone)
      BY DEF Ledger
    <3>2. recAt >= now - DAY
      BY DEF Fresh
    <3>3. WindowStart = recAt
      BY <3>2, WindowOfFresh
    <3>4. recTicker[t] \in Int /\ recAt \in Nat
      BY <3>2, GateConstants DEF Fresh, TypeOK
    <3>5. \A f \in fills : f.ts \in Nat
      BY DEF TypeOK
    <3> QED BY <3>1, <3>3, <3>4, <3>5
  <2>1. F = {}
    BY <2>0 DEF Within
  <2>2. FillSum(F) = 0
    <3> HIDE DEF F
    <3> QED BY <2>1, SumEmpty DEF FillSum
  <2>3. position_for_ticker(t) = recTicker[t]
    <3>1. position_for_ticker(t) = recTicker[t] + FillSum(F)
      BY DEF position_for_ticker
    <3> HIDE DEF F
    <3> QED BY <2>0, <2>2, <3>1
  <2>4. CASE t \in settled
    <3>1. pos[t] = 0 /\ recTicker[t] = 0
      BY <2>0, <2>4 DEF Account, Snapshot
    <3> QED BY <2>3, <3>1 DEF Abs
  <2>5. CASE t \notin settled
    <3>1. S \in SUBSET OrderIds
      BY DEF OrdersOn
    <3>2. \A i \in S : g[i] \in Int /\ g[i] = h[i]
      <4> TAKE i \in S
      <4>1. /\ i \in OrderIds /\ fill \in Seq(Nat) /\ baseSeen \in Seq(Nat)
            /\ Of(fill, i) = fill[i] /\ Of(baseSeen, i) = fill[i]
        BY <3>1, FillIsSeq DEF TypeOK, Seen
      <4> QED BY <4>1, FlowIsInt
    <3>3. pos[t] = SumFunctionOnSet(g, S) /\ recTicker[t] = Abs(SumFunctionOnSet(h, S))
      BY <2>0, <2>5 DEF Account, Snapshot, Net
    <3> HIDE DEF S, g, h
    <3>4. SumFunctionOnSet(g, S) = SumFunctionOnSet(h, S)
      BY <3>1, <3>2, OrdersFinite, SumOfEqual
    <3> QED BY <2>3, <3>3, <3>4
  <2> QED BY <2>4, <2>5
<1> QED BY <1>1, LedgerHolds, PTL
-----------------------------------------------------------------------------
(* The overshoot: by how much the account can pass the position caps.      *)

LEMMA SumAtMost ==
  ASSUME NEW g, NEW S, IsFiniteSet(S), NEW m \in Nat, \A x \in S : g[x] \in Nat /\ g[x] <= m
  PROVE  SumFunctionOnSet(g, S) <= Cardinality(S) * m
<1> DEFINE F == { T \in SUBSET S : SumFunctionOnSet(g, T) <= Cardinality(T) * m }
<1>1. {} \in F
  BY SumEmpty, FS_EmptySet
<1>2. ASSUME NEW T \in SUBSET S, NEW x \in S \ T, IsFiniteSet(T), T \in F
      PROVE  T \cup {x} \in F
  <2>1. SumFunctionOnSet(g, T \cup {x}) = g[x] + SumFunctionOnSet(g, T)
    BY <1>2, SumAdd
  <2>2. Cardinality(T \cup {x}) = Cardinality(T) + 1 /\ Cardinality(T) \in Nat
    BY <1>2, FS_AddElement, FS_CardinalityType
  <2>3. PICK c \in Nat : c = Cardinality(T)
    BY <2>2
  <2>4. (c + 1) * m = c * m + m /\ c * m \in Nat
    OBVIOUS
  <2>5. SumFunctionOnSet(g, T) \in Int /\ SumFunctionOnSet(g, T) <= c * m
    BY <1>2, <2>3, SumOfIntegers
  <2>6. SumFunctionOnSet(g, T \cup {x}) <= c * m + m
    BY <2>1, <2>4, <2>5
  <2> QED BY <2>2, <2>3, <2>4, <2>6
<1> HIDE DEF F
<1>3. S \in F
  BY <1>1, <1>2, GrowsToAll
<1> QED BY <1>3 DEF F

\* How large an order may be: sizing bounds what a wake asks for.
Biggest == Max({ w.count : w \in Wakes })
Sized == Wakes # {} /\ \E b \in Nat : \A w \in Wakes : w.count <= b

LEMMA BiggestBounds ==
  ASSUME Sized
  PROVE  Biggest \in Nat /\ \A w \in Wakes : w.count \in Nat /\ w.count <= Biggest
<1> DEFINE S == { w.count : w \in Wakes }
<1>1. PICK b \in Nat : \A w \in Wakes : w.count <= b
  BY DEF Sized
<1>2. \A w \in Wakes : w.count \in Nat
  BY GateConstants
<1>3. S \in SUBSET Int /\ S # {} /\ b \in Int /\ \A x \in S : x <= b
  BY <1>1, <1>2 DEF Sized
<1>4. S \subseteq Nat /\ \A w \in Wakes : w.count \in S
  BY <1>2
<1>5. Biggest = Max(S)
  BY DEF Biggest
<1> HIDE DEF S
<1>6. Max(S) \in S /\ \A y \in S : Max(S) >= y
  BY <1>3, MaxOfBounded
<1> QED BY <1>2, <1>4, <1>5, <1>6

\* What the exchange may still execute of an order.
Rest == [i \in OrderIds |-> IF i \in live THEN orders[i].count - fill[i] ELSE 0]

\* What the account may come to hold on the tickers K with the orders it has.
Reach(K) == SumFunctionOnSet(Held, K) + SumFunctionOnSet(Rest, OrdersOn(K))

\* In its first process and first day the gate has every reported fill in its deque.
FirstDay ==
  /\ now >= 1
  /\ \A i \in OrderIds : \E w \in Wakes : w.count = orders[i].count
  /\ restarts = 0 => /\ \A i \in OrderIds : phase[i] # "crashed"
                     /\ \A i \in OrderIds : told[i] > 0 => Layered(i, 1)

Slack(K) == (MaxConcurrent - 1) * Biggest + UntoldOn(K)

ReachBounded ==
  (restarts = 0 /\ now <= DAY + 1) =>
    /\ \A t \in Tickers : Reach({t}) <= MaxPosTicker + Slack({t})
    /\ \A e \in Events : Reach(StrikesOf(e)) <= MaxPosEvent + Slack(StrikesOf(e))

\* What is left of an order and what was not told of it are natural numbers.
LEMMA RestIsNat ==
  ASSUME TypeOK, Account, NEW K
  PROVE  /\ OrdersOn(K) \in SUBSET OrderIds /\ IsFiniteSet(OrdersOn(K))
         /\ \A i \in OrderIds : Rest[i] \in Nat /\ Rest[i] <= orders[i].count - fill[i]
         /\ \A i \in OrderIds : Untold(i) \in Nat
         /\ SumFunctionOnSet(Rest, OrdersOn(K)) \in Nat /\ UntoldOn(K) \in Nat
<1>1. OrdersOn(K) \in SUBSET OrderIds /\ IsFiniteSet(OrdersOn(K))
  BY OrdersFinite DEF OrdersOn
<1>2. ASSUME NEW i \in OrderIds
      PROVE  /\ Rest[i] \in Nat /\ Rest[i] <= orders[i].count - fill[i]
             /\ Untold(i) \in Nat
  <2>1. /\ orders[i].count \in Nat /\ fill[i] \in Nat /\ fill[i] <= orders[i].count
        /\ told[i] \in Nat /\ told[i] <= fill[i]
    BY Amounts
  <2>2. Rest[i] = IF i \in live THEN orders[i].count - fill[i] ELSE 0
    BY DEF Rest
  <2> QED BY <2>1, <2>2 DEF Untold
<1> DEFINE g == [i \in OrderIds |-> Untold(i)]
<1>3. UntoldOn(K) = SumFunctionOnSet(g, OrdersOn(K)) /\ \A i \in OrderIds : g[i] \in Nat
  BY <1>2 DEF UntoldOn
<1> HIDE DEF g
<1>4. /\ \A i \in OrdersOn(K) : Rest[i] \in Nat /\ g[i] \in Nat
  BY <1>1, <1>2, <1>3
<1>5. SumFunctionOnSet(Rest, OrdersOn(K)) \in Nat /\ SumFunctionOnSet(g, OrdersOn(K)) \in Nat
  BY <1>1, <1>4, SumOfPart
<1> QED BY <1>1, <1>2, <1>3, <1>5

\* A fill the deque has less than a day stays.
LEMMA LayeredKept ==
  ASSUME TypeOK, now' \in Nat, now' >= now, LiveFills \subseteq fills', NEW i, NEW at \in Nat,
         Layered(i, at)
  PROVE  Layered(i, at)'
<1>0. now \in Nat /\ DAY \in Nat /\ \A f \in fills : f.ts \in Nat
  BY GateConstants DEF TypeOK
<1> SUFFICES ASSUME at >= now' - DAY PROVE \E f \in fills' : f.order = i /\ f.ts >= at
  BY DEF Layered
<1>1. at >= now - DAY
  <2>1. now \in Int /\ now' \in Int /\ now <= now' /\ at \in Int /\ DAY \in Int
    BY <1>0
  <2>2. at >= now' - DAY
    OBVIOUS
  <2> QED BY <2>1, <2>2, LaterCutoff
<1>2. PICK f \in fills : f.order = i /\ f.ts >= at
  BY <1>1 DEF Layered
<1>3. f.ts >= now - DAY
  BY <1>0, <1>1, <1>2
<1> QED BY <1>2, <1>3 DEF LiveFills

\* What a step of one process does to its phases, its answers and its deque.
LEMMA SameProcess ==
  ASSUME TypeOK, [Next]_vars, restarts' = 0
  PROVE  /\ restarts = 0 /\ now' \in Nat /\ now' >= now /\ LiveFills \subseteq fills'
         /\ \A i \in OrderIds : phase[i] # "crashed" => phase'[i] # "crashed"
         /\ \A i \in OrderIds' : i \notin OrderIds => phase'[i] = "inflight"
         /\ \A i \in OrderIds : \/ told'[i] = told[i]
                                \/ \E c \in 0..orders[i].count : Respond(i, c)
<1>0. PICK n \in Nat : n = Len(orders)
  BY DEF TypeOK
<1>1. /\ OrderIds = 1..n /\ phase \in [1..n -> Phases] /\ told \in [1..n -> Nat]
      /\ now \in Nat /\ now + 1 >= now /\ now >= now /\ restarts \in Nat /\ LiveFills \subseteq fills
  BY <1>0 DEF TypeOK, OrderIds, LiveFills
<1>2. ASSUME NEW w \in Wakes, Admit(w)
      PROVE  /\ restarts = 0 /\ now' = now /\ LiveFills \subseteq fills'
             /\ \A i \in OrderIds : phase'[i] = phase[i] /\ told'[i] = told[i]
             /\ \A i \in OrderIds' : i \notin OrderIds => phase'[i] = "inflight"
  <2>1. "inflight" \in Phases /\ 0 \in Nat
    BY DEF Phases
  <2>2. /\ phase'[n + 1] = "inflight" /\ \A i \in 1..n : phase'[i] = phase[i]
        /\ \A i \in 1..n : told'[i] = told[i]
    BY <1>0, <1>1, <1>2, <2>1, AppendFun DEF Admit
  <2>3. OrderIds' = 1..(n + 1)
    BY <1>0, <1>2 DEF Admit, TypeOK, OrderIds
  <2> QED BY <1>1, <1>2, <2>2, <2>3 DEF Admit
<1>3. ASSUME NEW i \in OrderIds, NEW c \in 0..orders[i].count, Respond(i, c)
      PROVE  /\ restarts = 0 /\ now' = now /\ orders' = orders /\ LiveFills \subseteq fills'
             /\ \A j \in OrderIds : phase[j] # "crashed" => phase'[j] # "crashed"
             /\ \A j \in OrderIds \ {i} : told'[j] = told[j]
  BY <1>1, <1>3 DEF Respond, record_fill
<1>4. ASSUME NEW i \in OrderIds, Fail(i)
      PROVE  /\ restarts = 0 /\ now' = now /\ orders' = orders /\ fills' = fills /\ told' = told
             /\ \A j \in OrderIds : phase[j] # "crashed" => phase'[j] # "crashed"
  BY <1>1, <1>4 DEF Fail
<1>5. CASE \/ \E w \in Wakes : Refuse(w)
           \/ \E i \in OrderIds : CommitRow(i) \/ \E f \in 0..orders[i].count : Execute(i, f)
           \/ \E t \in Tickers : Settle(t)
           \/ PollIssue \/ PollRead \/ PollFail \/ PollLand \/ Tick \/ UNCHANGED vars
  <2>1. /\ restarts = 0 /\ (now' = now \/ now' = now + 1) /\ orders' = orders
        /\ phase' = phase /\ told' = told /\ LiveFills \subseteq fills'
    BY <1>1, <1>5 DEF Refuse, CommitRow, Execute, Settle, PollIssue, PollRead, PollFail, PollLand,
                      Tick, gate, vars
  <2> QED BY <1>1, <2>1 DEF OrderIds
<1>6. ~Restart
  BY <1>1 DEF Restart
<1>7. orders' = orders => OrderIds' = OrderIds
  BY DEF OrderIds
<1>8. CASE \E w \in Wakes : Admit(w)
  BY <1>1, <1>2, <1>8
<1>9. CASE \E i \in OrderIds : \E c \in 0..orders[i].count : Respond(i, c)
  BY <1>1, <1>3, <1>7, <1>9
<1>10. CASE \E i \in OrderIds : Fail(i)
  BY <1>1, <1>4, <1>7, <1>10
<1> QED BY <1>5, <1>6, <1>8, <1>9, <1>10 DEF Next

LEMMA FirstDayStep ==
  ASSUME TypeOK, TypeOK', Account, FirstDay, [Next]_vars
  PROVE  FirstDay'
<1>0. now \in Nat /\ restarts \in Nat
  BY DEF TypeOK
<1>1. now' >= 1
  <2>1. now' = now \/ now' = now + 1
    <3>1. ASSUME NEW i \in OrderIds,
                 \/ Fail(i) \/ CommitRow(i)
                 \/ \E f \in 0..orders[i].count : Respond(i, f) \/ Execute(i, f)
          PROVE  now' = now
      BY <3>1 DEF Fail, CommitRow, Respond, Execute
    <3>2. CASE ~ \E i \in OrderIds : \/ Fail(i) \/ CommitRow(i)
                                     \/ \E f \in 0..orders[i].count : Respond(i, f) \/ Execute(i, f)
      BY <3>2 DEF Next, Admit, Refuse, Settle, PollIssue, PollRead, PollFail, PollLand, Restart,
                  Tick, vars
    <3> QED BY <3>1, <3>2
  <2> QED BY <1>0, <2>1 DEF FirstDay
<1>2. \A i \in OrderIds' : \E w \in Wakes : w.count = orders'[i].count
  <2>1. ASSUME NEW w \in Wakes, Admit(w), NEW i \in OrderIds' \ OrderIds
        PROVE  w.count = orders'[i].count
    BY <2>1 DEF Admit, TypeOK, OrderIds
  <2>2. (~ \E w \in Wakes : Admit(w)) => OrderIds' = OrderIds
    BY OtherFrame DEF Next, OtherStep, Restart, OrderIds
  <2> QED BY <2>1, <2>2, AmountsKept DEF FirstDay
<1>3. ASSUME restarts' = 0, NEW i \in OrderIds'
      PROVE  phase'[i] # "crashed" /\ (told'[i] > 0 => Layered(i, 1)')
  <2>1. CASE i \in OrderIds
    <3>1. /\ restarts = 0 /\ phase'[i] # "crashed"
          /\ told'[i] = told[i] \/ \E c \in 0..orders[i].count : Respond(i, c)
      BY <1>3, <2>1, SameProcess DEF FirstDay
    <3>2. ASSUME told[i] > 0 PROVE Layered(i, 1)'
      <4>1. Layered(i, 1)
        BY <2>1, <3>1, <3>2 DEF FirstDay
      <4> QED BY <1>3, <4>1, SameProcess, LayeredKept
    <3>3. ASSUME NEW c \in 0..orders[i].count, Respond(i, c), told'[i] > 0 PROVE Layered(i, 1)'
      <4> DEFINE f == [order |-> i, ts |-> now, group |-> groupOf[orders[i].ticker]]
      <4>1. c > 0 /\ c \in Int
        BY <2>1, <3>3, Amounts DEF Respond, TypeOK, OrderIds
      <4>2. f \in fills' /\ f.order = i /\ f.ts >= 1
        BY <3>3, <4>1 DEF Respond, record_fill, FirstDay
      <4> HIDE DEF f
      <4> QED BY <4>2 DEF Layered
    <3> QED BY <3>1, <3>2, <3>3
  <2>2. CASE i \notin OrderIds
    <3>1. phase'[i] = "inflight" /\ told'[i] = 0
      BY <1>3, <2>2, SameProcess, AmountsKept
    <3> QED BY <3>1
  <2> QED BY <2>1, <2>2
<1> QED BY <1>1, <1>2, <1>3 DEF FirstDay

\* A dispatch that ended stays ended, with what its answer told.
LEMMA AnswerStands ==
  ASSUME TypeOK, [Next]_vars, NEW i \in OrderIds, phase[i] \in {"done", "failed"}
  PROVE  phase'[i] = phase[i] /\ told'[i] = told[i]
<1>0. PICK n \in Nat : n = Len(orders)
  BY DEF TypeOK
<1>1. OrderIds = 1..n /\ phase \in [1..n -> Phases] /\ told \in [1..n -> Nat] /\ phase[i] # "inflight"
  BY <1>0 DEF TypeOK, OrderIds
<1>2. ASSUME NEW w \in Wakes, Admit(w) PROVE phase'[i] = phase[i] /\ told'[i] = told[i]
  <2>1. "inflight" \in Phases /\ 0 \in Nat
    BY DEF Phases
  <2> QED BY <1>0, <1>1, <1>2, <2>1, AppendFun DEF Admit
<1>3. ASSUME NEW j \in OrderIds, Fail(j) \/ \E c \in 0..orders[j].count : Respond(j, c)
      PROVE  phase'[i] = phase[i] /\ told'[i] = told[i]
  BY <1>1, <1>3 DEF Fail, Respond
<1>4. CASE Restart
  BY <1>1, <1>4 DEF Restart
<1>5. CASE \/ \E w \in Wakes : Refuse(w)
           \/ \E j \in OrderIds : CommitRow(j) \/ \E f \in 0..orders[j].count : Execute(j, f)
           \/ \E t \in Tickers : Settle(t)
           \/ PollIssue \/ PollRead \/ PollFail \/ PollLand \/ Tick \/ UNCHANGED vars
  <2>1. UNCHANGED <<phase, told>>
    BY <1>5 DEF Refuse, CommitRow, Execute, Settle, PollIssue, PollRead, PollFail, PollLand, Tick, vars
  <2> QED BY <2>1
<1> QED BY <1>2, <1>3, <1>4, <1>5 DEF Next

\* In the first process nothing that was not told of an order is taken back.
LEMMA UntoldGrows ==
  ASSUME TypeOK, TypeOK', Account, Account', [Next]_vars, restarts' = 0, NEW K
  PROVE  UntoldOn(K) <= UntoldOn(K)' /\ UntoldOn(K) \in Nat /\ UntoldOn(K)' \in Nat
<1> DEFINE S == OrdersOn(K)
           T == OrdersOn(K)'
           g == [i \in OrderIds |-> Untold(i)]
           h == [i \in OrderIds' |-> Untold(i)']
<1>1. /\ S \in SUBSET OrderIds /\ IsFiniteSet(S) /\ UntoldOn(K) \in Nat
      /\ \A i \in OrderIds : g[i] = Untold(i) /\ Untold(i) \in Nat
  BY RestIsNat
<1>2. S \subseteq T /\ T \in SUBSET OrderIds' /\ IsFiniteSet(T)
  <2>1. S \subseteq T /\ T \in SUBSET OrderIds'
    BY AmountsKept DEF OrdersOn
  <2>2. IsFiniteSet(OrderIds')
    BY FS_Interval DEF TypeOK, OrderIds
  <2> HIDE DEF S, T
  <2> QED BY <2>1, <2>2, FS_Subset
<1>3. ASSUME NEW i \in OrderIds'
      PROVE  h[i] \in Nat /\ (i \in OrderIds => g[i] <= h[i])
  <2>1. /\ h[i] = Untold(i)' /\ orders'[i].count \in Nat /\ told'[i] \in Nat /\ fill'[i] \in Nat
        /\ told'[i] <= fill'[i] /\ fill'[i] <= orders'[i].count
    <3>1. i \in 1..Len(orders') /\ orders'[i] \in OrderRecs
      BY DEF TypeOK, OrderIds
    <3>2. orders'[i].count \in Nat
      BY <3>1 DEF OrderRecs
    <3>3. told'[i] \in Nat /\ fill'[i] \in Nat
      BY <3>1 DEF TypeOK
    <3>4. told'[i] <= fill'[i] /\ fill'[i] <= orders'[i].count
      BY DEF Account, OrderHolds
    <3> QED BY <3>2, <3>3, <3>4
  <2>2. Untold(i)' = CASE phase'[i] = "failed" -> orders'[i].count
                       [] phase'[i] = "done" -> (IF Rests THEN orders'[i].count ELSE fill'[i]) - told'[i]
                       [] OTHER -> 0
    BY DEF Untold, Rests
  <2>3. h[i] \in Nat
    BY <2>1, <2>2
  <2>4. ASSUME i \in OrderIds PROVE g[i] <= h[i]
    <3>1. /\ orders'[i] = orders[i] /\ fill'[i] >= fill[i]
          /\ fill[i] \in Nat /\ told[i] \in Nat /\ told[i] <= fill[i] /\ fill[i] <= orders[i].count
      BY <2>4, AmountsKept, Amounts
    <3>2. phase[i] \in {"done", "failed"} => phase'[i] = phase[i] /\ told'[i] = told[i]
      BY <2>4, AnswerStands
    <3>3. g[i] = Untold(i)
      BY <2>4
    <3> HIDE DEF g, h
    <3> QED BY <2>1, <2>2, <2>3, <3>1, <3>2, <3>3 DEF Untold
  <2> QED BY <2>3, <2>4
<1>4. UntoldOn(K) = SumFunctionOnSet(g, S) /\ UntoldOn(K)' = SumFunctionOnSet(h, T)
  BY DEF UntoldOn
<1> HIDE DEF S, T, g, h
<1>5. SumFunctionOnSet(g, S) <= SumFunctionOnSet(h, S)
  <2>1. \A i \in S : g[i] \in Int /\ h[i] \in Int /\ g[i] <= h[i]
    BY <1>1, <1>2, <1>3
  <2> QED BY <1>1, <2>1, SumOfLarger
<1>6. /\ SumFunctionOnSet(h, S) <= SumFunctionOnSet(h, T) /\ SumFunctionOnSet(h, S) \in Nat
      /\ SumFunctionOnSet(h, T) \in Nat
  <2>1. \A i \in T : h[i] \in Nat
    BY <1>2, <1>3
  <2> QED BY <1>2, <2>1, SumOfPart
<1> QED BY <1>1, <1>4, <1>5, <1>6

\* What the tickers K hold, as a sum of naturals.
LEMMA HeldIsNat ==
  ASSUME TypeOK, NEW K \in SUBSET Tickers
  PROVE  /\ IsFiniteSet(K) /\ \A t \in K : Held[t] \in Nat /\ Held[t] = Abs(pos[t])
         /\ SumFunctionOnSet(Held, K) \in Nat
<1>1. IsFiniteSet(K)
  BY GateConstants, FS_Subset
<1>2. \A t \in K : Held[t] \in Nat /\ Held[t] = Abs(pos[t])
  BY DEF TypeOK, Held, Abs
<1> QED BY <1>1, <1>2, SumOfPart

\* The same after a step.
LEMMA NextReachIsNat ==
  ASSUME TypeOK', Account', NEW K \in SUBSET Tickers
  PROVE  /\ \A t \in K : Held'[t] \in Nat /\ Held'[t] = Abs(pos'[t])
         /\ SumFunctionOnSet(Held', K) \in Nat
         /\ \A i \in OrdersOn(K)' :
              /\ Rest'[i] \in Nat
              /\ Rest'[i] = IF i \in live' THEN orders'[i].count - fill'[i] ELSE 0
         /\ SumFunctionOnSet(Rest', OrdersOn(K)') \in Nat
         /\ Reach(K)' = SumFunctionOnSet(Held', K) + SumFunctionOnSet(Rest', OrdersOn(K)')
<1>1. IsFiniteSet(K)
  BY GateConstants, FS_Subset
<1>2. \A t \in K : Held'[t] \in Nat /\ Held'[t] = Abs(pos'[t])
  <2>1. \A t \in K : pos'[t] \in Int /\ Held'[t] = Abs(pos'[t])
    BY DEF TypeOK, Held
  <2> QED BY <2>1 DEF Abs
<1>3. OrdersOn(K)' \in SUBSET OrderIds' /\ IsFiniteSet(OrderIds')
  BY FS_Interval DEF TypeOK, OrderIds, OrdersOn
<1>4. ASSUME NEW i \in OrderIds'
      PROVE  /\ Rest'[i] = IF i \in live' THEN orders'[i].count - fill'[i] ELSE 0
             /\ Rest'[i] \in Nat
  <2>1. i \in 1..Len(orders') /\ orders'[i] \in OrderRecs
    BY DEF TypeOK, OrderIds
  <2>2. orders'[i].count \in Nat
    BY <2>1 DEF OrderRecs
  <2>3. fill'[i] \in Nat
    BY <2>1 DEF TypeOK
  <2>4. fill'[i] <= orders'[i].count
    BY DEF Account, OrderHolds
  <2>5. Rest'[i] = IF i \in live' THEN orders'[i].count - fill'[i] ELSE 0
    BY DEF Rest
  <2> QED BY <2>2, <2>3, <2>4, <2>5
<1>5. IsFiniteSet(OrdersOn(K)')
  BY <1>3, FS_Subset
<1>6. \A i \in OrdersOn(K)' : Rest'[i] \in Nat
  BY <1>3, <1>4
<1>7. SumFunctionOnSet(Rest', OrdersOn(K)') \in Nat
  BY <1>5, <1>6, SumOfPart
<1>8. SumFunctionOnSet(Held', K) \in Nat
  BY <1>1, <1>2, SumOfPart
<1> QED BY <1>2, <1>3, <1>4, <1>7, <1>8 DEF Reach

\* Nothing on K is admitted or executed: what is left can only fall away.
LEMMA ReachFrame ==
  ASSUME TypeOK, TypeOK', Account, Account', NEW K \in SUBSET Tickers,
         OrdersOn(K)' = OrdersOn(K),
         \A t \in K : Abs(pos'[t]) <= Abs(pos[t]),
         \A i \in OrdersOn(K) : /\ orders'[i] = orders[i] /\ fill'[i] = fill[i]
                                /\ i \in live' => i \in live
  PROVE  Reach(K)' <= Reach(K)
<1> DEFINE S == OrdersOn(K)
<1>1. /\ IsFiniteSet(K) /\ SumFunctionOnSet(Held, K) \in Nat
      /\ \A t \in K : Held[t] \in Nat /\ Held[t] = Abs(pos[t])
  BY HeldIsNat
<1>2. /\ \A t \in K : Held'[t] \in Nat /\ Held'[t] = Abs(pos'[t])
      /\ \A i \in S : /\ Rest'[i] \in Nat
                      /\ Rest'[i] = IF i \in live' THEN orders'[i].count - fill'[i] ELSE 0
      /\ SumFunctionOnSet(Held', K) \in Nat /\ SumFunctionOnSet(Rest', S) \in Nat
      /\ Reach(K)' = SumFunctionOnSet(Held', K) + SumFunctionOnSet(Rest', S)
  BY NextReachIsNat
<1>3. SumFunctionOnSet(Held', K) <= SumFunctionOnSet(Held, K)
  BY <1>1, <1>2, SumOfLarger
<1>4. /\ IsFiniteSet(S) /\ SumFunctionOnSet(Rest, S) \in Nat /\ S \in SUBSET OrderIds
      /\ \A i \in S : Rest[i] \in Nat
  BY RestIsNat
<1>5. \A i \in S : Rest'[i] \in Int /\ Rest[i] \in Int /\ Rest'[i] <= Rest[i]
  <2> TAKE i \in S
  <2>1. Rest[i] = IF i \in live THEN orders[i].count - fill[i] ELSE 0
    BY <1>4 DEF Rest
  <2> QED BY <1>2, <1>4, <2>1
<1> HIDE DEF S
<1>6. SumFunctionOnSet(Rest', S) <= SumFunctionOnSet(Rest, S)
  BY <1>4, <1>5, SumOfLarger
<1>7. Reach(K) = SumFunctionOnSet(Held, K) + SumFunctionOnSet(Rest, S)
  BY DEF Reach, S
<1> QED BY <1>1, <1>2, <1>3, <1>4, <1>6, <1>7

\* An execution moves contracts from what is left to what is held.
LEMMA ReachExecute ==
  ASSUME TypeOK, TypeOK', Account, Account', NEW i \in OrderIds, NEW f \in 0..orders[i].count,
         Execute(i, f), NEW K \in SUBSET Tickers, orders[i].ticker \in K
  PROVE  Reach(K)' <= Reach(K)
<1> DEFINE u == orders[i].ticker
           S == OrdersOn(K)
<1>0. /\ fill' = [fill EXCEPT ![i] = @ + f] /\ UNCHANGED orders /\ OrdersOn(K)' = S
      /\ pos' = [pos EXCEPT ![u] = @ + Signed(i, f)] /\ f \in Nat
      /\ i \in live /\ live' \subseteq live /\ live \subseteq live' \cup {i}
      /\ orders[i].count \in Nat /\ fill[i] \in Nat /\ i \in S
  BY Amounts DEF Execute, OrderIds, OrdersOn
<1>1. /\ IsFiniteSet(K) /\ SumFunctionOnSet(Held, K) \in Nat
      /\ \A t \in K : Held[t] \in Nat /\ Held[t] = Abs(pos[t])
  BY HeldIsNat
<1>2. /\ \A t \in K : Held'[t] \in Nat /\ Held'[t] = Abs(pos'[t])
      /\ \A j \in S : /\ Rest'[j] \in Nat
                      /\ Rest'[j] = IF j \in live' THEN orders'[j].count - fill'[j] ELSE 0
      /\ SumFunctionOnSet(Held', K) \in Nat /\ SumFunctionOnSet(Rest', S) \in Nat
      /\ Reach(K)' = SumFunctionOnSet(Held', K) + SumFunctionOnSet(Rest', S)
  BY <1>0, NextReachIsNat
<1>3. /\ IsFiniteSet(S) /\ SumFunctionOnSet(Rest, S) \in Nat /\ S \in SUBSET OrderIds
      /\ \A j \in S : Rest[j] \in Nat
  BY RestIsNat
<1>4. Held'[u] <= Held[u] + f /\ \A t \in K \ {u} : Held'[t] = Held[t]
  <2>1. \A t \in K \ {u} : pos'[t] = pos[t]
    BY <1>0 DEF TypeOK
  <2>2. pos'[u] = pos[u] + Signed(i, f) /\ pos[u] \in Int /\ (Signed(i, f) = f \/ Signed(i, f) = -f)
    BY <1>0 DEF TypeOK, Signed
  <2>3. Abs(pos'[u]) <= Abs(pos[u]) + f
    BY <1>0, <2>2 DEF Abs
  <2> QED BY <1>1, <1>2, <2>1, <2>3
<1>5. Rest'[i] <= Rest[i] - f /\ \A j \in S \ {i} : Rest'[j] = Rest[j]
  <2>1. fill'[i] = fill[i] + f /\ \A j \in OrderIds \ {i} : fill'[j] = fill[j]
    BY <1>0 DEF TypeOK, OrderIds
  <2>2. fill'[i] <= orders'[i].count
    BY <1>0 DEF Account, OrderHolds, OrderIds
  <2>3. \A j \in S : Rest[j] = IF j \in live THEN orders[j].count - fill[j] ELSE 0
    BY <1>3 DEF Rest
  <2>4. Rest'[i] = (IF i \in live' THEN orders'[i].count - fill'[i] ELSE 0) /\ Rest[i] = orders[i].count - fill[i]
    BY <1>0, <1>2, <2>3
  <2>5. Rest'[i] <= Rest[i] - f
    BY <1>0, <2>1, <2>2, <2>4
  <2>6. ASSUME NEW j \in S \ {i} PROVE Rest'[j] = Rest[j]
    <3>1. orders'[j] = orders[j] /\ fill'[j] = fill[j] /\ (j \in live' <=> j \in live)
      BY <1>0, <1>3, <2>1
    <3>2. Rest'[j] = (IF j \in live' THEN orders'[j].count - fill'[j] ELSE 0)
      BY <1>2
    <3>3. Rest[j] = IF j \in live THEN orders[j].count - fill[j] ELSE 0
      BY <2>3
    <3> HIDE DEF S
    <3> QED BY <3>1, <3>2, <3>3
  <2> QED BY <2>5, <2>6
<1>6. Reach(K) = SumFunctionOnSet(Held, K) + SumFunctionOnSet(Rest, S)
  BY DEF Reach
<1>7. u \in K
  OBVIOUS
<1> HIDE DEF S, u
<1>8. /\ SumFunctionOnSet(Rest, S) = Rest[i] + SumFunctionOnSet(Rest, S \ {i})
      /\ SumFunctionOnSet(Rest', S) = Rest'[i] + SumFunctionOnSet(Rest', S \ {i})
  BY <1>0, <1>2, <1>3, SumOfIntegers
<1>9. SumFunctionOnSet(Rest, S \ {i}) = SumFunctionOnSet(Rest', S \ {i})
      /\ SumFunctionOnSet(Rest, S \ {i}) \in Nat
  <2>1. S \ {i} \in SUBSET S
    OBVIOUS
  <2>2. IsFiniteSet(S \ {i})
    BY <1>3, <2>1, FS_Subset
  <2>3. \A j \in S \ {i} : Rest[j] \in Int /\ Rest[j] = Rest'[j]
    BY <1>3, <1>5
  <2> QED BY <1>3, <2>1, <2>2, <2>3, SumOfEqual, SumOfPart
<1>10. /\ SumFunctionOnSet(Held, K) = Held[u] + SumFunctionOnSet(Held, K \ {u})
       /\ SumFunctionOnSet(Held', K) = Held'[u] + SumFunctionOnSet(Held', K \ {u})
  BY <1>1, <1>2, <1>7, SumOfIntegers
<1>11. SumFunctionOnSet(Held, K \ {u}) = SumFunctionOnSet(Held', K \ {u})
       /\ SumFunctionOnSet(Held, K \ {u}) \in Nat
  <2>1. K \ {u} \in SUBSET K
    OBVIOUS
  <2>2. IsFiniteSet(K \ {u}) /\ \A t \in K \ {u} : Held[t] \in Int /\ Held[t] = Held'[t]
    BY <1>1, <1>4, <2>1, FS_Subset
  <2> QED BY <1>1, <2>1, <2>2, SumOfEqual, SumOfPart
<1>12. /\ Held[u] \in Nat /\ Held'[u] \in Nat /\ Rest[i] \in Nat /\ Rest'[i] \in Nat
  BY <1>0, <1>1, <1>2, <1>3, <1>7
<1> QED BY <1>0, <1>2, <1>4, <1>5, <1>6, <1>8, <1>9, <1>10, <1>11, <1>12

\* No step but an admission on K raises what K may come to hold.
LEMMA ReachFalls ==
  ASSUME TypeOK, TypeOK', Account, Account', [Next]_vars, NEW K \in SUBSET Tickers,
         \A w \in Wakes : Admit(w) => w.ticker \notin K
  PROVE  Reach(K)' <= Reach(K)
<1> DEFINE Quiet == /\ OrdersOn(K)' = OrdersOn(K)
                    /\ \A t \in K : Abs(pos'[t]) <= Abs(pos[t])
                    /\ \A i \in OrdersOn(K) : /\ orders'[i] = orders[i] /\ fill'[i] = fill[i]
                                              /\ i \in live' => i \in live
<1>0. PICK n \in Nat : n = Len(orders)
  BY DEF TypeOK
<1>1. /\ OrderIds = 1..n /\ pos \in [Tickers -> Int] /\ fill \in [1..n -> Nat]
      /\ \A t \in K : pos[t] \in Int /\ Abs(pos[t]) \in Int
  <2>1. OrderIds = 1..n /\ pos \in [Tickers -> Int] /\ fill \in [1..n -> Nat]
    BY <1>0 DEF TypeOK, OrderIds
  <2>2. \A t \in K : pos[t] \in Int
    BY <2>1
  <2> QED BY <2>1, <2>2 DEF Abs
<1>2. ASSUME NEW w \in Wakes, Admit(w) PROVE Quiet
  <2>1. /\ orders'[n + 1].ticker = w.ticker /\ OrderIds' = 1..(n + 1) /\ pos' = pos
        /\ live' = live \cup {n + 1} /\ \A i \in 1..n : orders'[i] = orders[i]
    BY <1>0, <1>2 DEF Admit, TypeOK, OrderIds
  <2>2. \A i \in 1..n : fill'[i] = fill[i]
    BY <1>0, <1>1, <1>2, AppendFun DEF Admit
  <2>3. OrdersOn(K)' = OrdersOn(K) /\ \A i \in OrdersOn(K) : i \in 1..n /\ i # n + 1
    BY <1>1, <1>2, <2>1 DEF OrdersOn
  <2> QED BY <1>1, <2>1, <2>2, <2>3
<1>3. ASSUME NEW i \in OrderIds, NEW f \in 0..orders[i].count, Execute(i, f), orders[i].ticker \notin K
      PROVE  Quiet
  <2>1. /\ pos' = [pos EXCEPT ![orders[i].ticker] = @ + Signed(i, f)] /\ orders' = orders
        /\ fill' = [fill EXCEPT ![i] = @ + f] /\ live' \subseteq live
    BY <1>3 DEF Execute
  <2>2. \A t \in K : pos'[t] = pos[t]
    BY <1>1, <1>3, <2>1
  <2>3. OrdersOn(K)' = OrdersOn(K) /\ \A j \in OrdersOn(K) : j \in 1..n /\ j # i
    BY <1>1, <1>3, <2>1 DEF OrdersOn, OrderIds
  <2> QED BY <1>1, <2>1, <2>2, <2>3
<1>4. ASSUME NEW u \in Tickers, Settle(u) PROVE Quiet
  <2>1. /\ \A t \in K : pos'[t] = IF t = u THEN 0 ELSE pos[t]
        /\ orders' = orders /\ fill' = fill /\ live' \subseteq live
    BY <1>1, <1>4 DEF Settle
  <2>2. \A t \in K : Abs(pos'[t]) <= Abs(pos[t])
    BY <1>1, <2>1 DEF Abs
  <2> QED BY <2>1, <2>2 DEF OrdersOn, OrderIds
<1>5. ASSUME \/ \E w \in Wakes : Refuse(w)
             \/ \E i \in OrderIds : \/ Fail(i) \/ CommitRow(i)
                                    \/ \E c \in 0..orders[i].count : Respond(i, c)
             \/ PollIssue \/ PollRead \/ PollFail \/ PollLand \/ Restart \/ Tick \/ UNCHANGED vars
      PROVE  Quiet
  <2>1. UNCHANGED <<orders, fill, live, pos>>
    <3>1. ASSUME NEW i \in OrderIds,
                 \/ Fail(i) \/ CommitRow(i) \/ \E c \in 0..orders[i].count : Respond(i, c)
          PROVE  UNCHANGED <<orders, fill, live, pos>>
      BY <3>1 DEF Respond, Fail, CommitRow
    <3> QED BY <1>5, <3>1 DEF Refuse, PollIssue, PollRead, PollFail, PollLand, Restart, Tick, vars
  <2> QED BY <1>1, <2>1 DEF OrdersOn, OrderIds
<1>6. Quiet => Reach(K)' <= Reach(K)
  BY ReachFrame
<1>7. ASSUME NEW i \in OrderIds, NEW f \in 0..orders[i].count, Execute(i, f)
      PROVE  Reach(K)' <= Reach(K)
  BY <1>3, <1>6, <1>7, ReachExecute
<1> HIDE DEF Quiet
<1> QED BY <1>2, <1>4, <1>5, <1>6, <1>7 DEF Next

\* On its first day the gate's window leaves out no reported fill that the baseline lacks.
LEMMA FirstDayWindow ==
  ASSUME TypeOK, FillsLayered, FirstDay, restarts = 0, now <= DAY + 1
  PROVE  \A i \in OrderIds : told[i] > Seen(i) => \E f \in fills : f.order = i /\ Within(f)
<1>0. now \in Nat /\ DAY \in Nat /\ recAt \in Nat /\ 1 >= now - DAY /\ \A f \in fills : f.ts \in Nat
  BY GateConstants DEF TypeOK
<1>1. CASE recAt > 0
  <2>1. Fresh
    BY <1>0, <1>1 DEF Fresh
  <2> QED BY <2>1 DEF FillsLayered
<1>2. CASE ~(recAt > 0)
  <2>1. \A i \in OrderIds : told[i] > Seen(i) => \E f \in fills : f.order = i /\ f.ts >= 1
    <3>1. \A i \in OrderIds : told[i] > Seen(i) => told[i] > 0
      BY AmountsAreNat DEF Seen
    <3> QED BY <1>0, <3>1 DEF FirstDay, Layered
  <2>2. WindowStart \in Int /\ WindowStart <= 1
    <3> DEFINE S == {recAt, now - DAY}
    <3>1. S \in SUBSET Int /\ S # {} /\ \A x \in S : x <= 1
      BY <1>0, <1>2
    <3>2. WindowStart = Max(S)
      BY DEF WindowStart
    <3> HIDE DEF S
    <3>3. Max(S) \in S
      BY <3>1, MaxOfBounded
    <3> QED BY <3>1, <3>2, <3>3
  <2> QED BY <1>0, <2>1, <2>2 DEF Within
<1> QED BY <1>1, <1>2

\* What the dispatches in flight on K ask for, when one more is admitted.
LEMMA OthersInFlight ==
  ASSUME Sized, TypeOK, Counted, FirstDay, inFlight < MaxConcurrent, NEW S \in SUBSET OrderIds,
         NEW z, \A i \in S : z[i] = IF phase[i] = "inflight" THEN orders[i].count ELSE 0
  PROVE  /\ SumFunctionOnSet(z, S) <= (MaxConcurrent - 1) * Biggest
         /\ (MaxConcurrent - 1) * Biggest \in Int /\ \A i \in S : z[i] \in Nat
<1> DEFINE A == { i \in S : phase[i] = "inflight" }
           B == { i \in S : phase[i] # "inflight" }
<1>1. S = A \cup B /\ A \cap B = {} /\ A \in SUBSET InFlight /\ B \in SUBSET S
  BY DEF InFlight
<1>2. IsFiniteSet(InFlight) /\ IsFiniteSet(S)
  BY FlightFinite, OrdersFinite
<1>3. IsFiniteSet(A) /\ IsFiniteSet(B)
  BY <1>1, <1>2, FS_Subset
<1>4. \A i \in A : z[i] \in Nat /\ z[i] <= Biggest
  <2>1. \A i \in A : \E w \in Wakes : w.count = z[i]
    BY DEF FirstDay
  <2> QED BY <2>1, BiggestBounds
<1>5. \A i \in B : z[i] = 0
  OBVIOUS
<1> HIDE DEF A, B
<1>6. /\ Biggest \in Nat /\ MaxConcurrent \in Nat /\ Cardinality(A) \in Nat
      /\ Cardinality(A) <= MaxConcurrent - 1
  <2>1. Cardinality(A) <= Cardinality(InFlight) /\ Cardinality(A) \in Nat
    BY <1>1, <1>2, <1>3, FS_Subset, FS_CardinalityType
  <2>2. Biggest \in Nat /\ MaxConcurrent \in Nat /\ Cardinality(InFlight) \in Nat
        /\ Cardinality(InFlight) <= MaxConcurrent - 1
    BY BiggestBounds, FlightFinite, GateConstants DEF Counted
  <2> QED BY <2>1, <2>2
<1>7. SumFunctionOnSet(z, A) <= Cardinality(A) * Biggest
  BY <1>3, <1>4, <1>6, SumAtMost
<1>8. PICK c \in Nat, m \in Nat, b \in Nat :
        c = Cardinality(A) /\ m = MaxConcurrent - 1 /\ b = Biggest
  <2>1. MaxConcurrent - 1 \in Nat
    BY <1>6
  <2> QED BY <1>6, <2>1
<1>9. c * b \in Int /\ m * b \in Int /\ c <= m
  BY <1>6, <1>8
<1>10. c * b <= m * b
  <2>1. PICK d \in Nat : m = c + d
    <3>1. m - c \in Nat /\ m = c + (m - c)
      BY <1>9
    <3> QED BY <3>1
  <2>2. (c + d) * b = c * b + d * b /\ d * b \in Nat
    OBVIOUS
  <2> QED BY <1>9, <2>1, <2>2
<1>11. SumFunctionOnSet(z, S) = SumFunctionOnSet(z, A)
  <2>1. SumFunctionOnSet(z, A \cup B) = SumFunctionOnSet(z, A) + SumFunctionOnSet(z, B)
    BY <1>1, <1>3, <1>4, <1>5, SumUnion
  <2>2. SumFunctionOnSet(z, B) = 0
    BY <1>3, <1>5, SumZero
  <2>3. SumFunctionOnSet(z, A) \in Int
    BY <1>3, <1>4, SumOfIntegers
  <2> QED BY <1>1, <2>1, <2>2, <2>3
<1>12. SumFunctionOnSet(z, A) \in Int
  BY <1>3, <1>4, SumOfIntegers
<1>13. \A i \in S : z[i] \in Nat
  BY <1>1, <1>4, <1>5
<1> QED BY <1>7, <1>8, <1>9, <1>10, <1>11, <1>12, <1>13

\* When an order is admitted, what the gate has not been told of and what is left on K
\* belong to dispatches in flight, fewer than the cap, or are untold.
LEMMA UnknownWithinSlack ==
  ASSUME Sized, TypeOK, Account, Ledger, Counted, FirstDay, restarts = 0,
         inFlight < MaxConcurrent, NEW K \in SUBSET Tickers
  PROVE  /\ Unaccounted(K) + SumFunctionOnSet(Rest, OrdersOn(K)) <= Slack(K)
         /\ Slack(K) \in Int /\ Unaccounted(K) \in Nat
         /\ SumFunctionOnSet(Rest, OrdersOn(K)) \in Nat
<1> DEFINE S == OrdersOn(K)
           u == [i \in OrderIds |-> fill[i] - Known(i)]
           x == [i \in OrderIds |-> Untold(i)]
           z == [i \in OrderIds |-> IF phase[i] = "inflight" THEN orders[i].count ELSE 0]
           a == [i \in OrderIds |-> u[i] + Rest[i]]
           b == [i \in OrderIds |-> x[i] + z[i]]
<1>1. /\ S \in SUBSET OrderIds /\ IsFiniteSet(S) /\ UntoldOn(K) \in Nat
      /\ SumFunctionOnSet(Rest, S) \in Nat
  BY RestIsNat
<1>2. ASSUME NEW i \in OrderIds
      PROVE  /\ u[i] \in Nat /\ Rest[i] \in Nat /\ x[i] \in Nat /\ z[i] \in Nat
             /\ a[i] = u[i] + Rest[i] /\ b[i] = x[i] + z[i] /\ a[i] <= b[i]
  <2>1. /\ fill[i] \in Nat /\ told[i] \in Nat /\ told[i] <= fill[i]
        /\ orders[i].count \in Nat /\ fill[i] <= orders[i].count
        /\ Seen(i) \in Nat /\ Seen(i) <= fill[i]
    BY Amounts, BeyondIsNat
  <2>2. Known(i) \in Nat /\ told[i] <= Known(i) /\ Known(i) <= fill[i]
    BY <2>1 DEF Known
  <2>3. Rest[i] \in Nat /\ Rest[i] <= orders[i].count - fill[i] /\ Untold(i) \in Nat
    BY RestIsNat
  <2>4. ~Rests /\ phase[i] = "done" => Rest[i] = 0
    BY DEF Account, OrderHolds, Rest
  <2>5. phase[i] \in {"inflight", "done", "failed"}
    BY DEF TypeOK, OrderIds, FirstDay, Phases
  <2>6. /\ u[i] = fill[i] - Known(i) /\ x[i] = Untold(i) /\ a[i] = u[i] + Rest[i]
        /\ z[i] = (IF phase[i] = "inflight" THEN orders[i].count ELSE 0)
        /\ b[i] = x[i] + z[i]
    OBVIOUS
  <2> HIDE DEF u, x, z, a, b
  <2>7. Untold(i) = CASE phase[i] = "failed" -> orders[i].count
                      [] phase[i] = "done" -> (IF Rests THEN orders[i].count ELSE fill[i]) - told[i]
                      [] OTHER -> 0
    BY DEF Untold
  <2>8. CASE phase[i] = "inflight"
    BY <2>1, <2>2, <2>3, <2>6, <2>7, <2>8
  <2>9. CASE phase[i] = "failed"
    BY <2>1, <2>2, <2>3, <2>6, <2>7, <2>9
  <2>10. CASE phase[i] = "done"
    BY <2>1, <2>2, <2>3, <2>4, <2>6, <2>7, <2>10
  <2> QED BY <2>5, <2>8, <2>9, <2>10
<1>3. \A i \in S : z[i] = IF phase[i] = "inflight" THEN orders[i].count ELSE 0
  BY <1>1
<1>4. Unaccounted(K) = SumFunctionOnSet(u, S) /\ UntoldOn(K) = SumFunctionOnSet(x, S)
  BY DEF Unaccounted, UntoldOn
<1> HIDE DEF S, u, x, z, a, b
<1>5. /\ SumFunctionOnSet(z, S) <= (MaxConcurrent - 1) * Biggest
      /\ (MaxConcurrent - 1) * Biggest \in Int
  BY <1>1, <1>3, OthersInFlight
<1>6. SumFunctionOnSet(a, S) = SumFunctionOnSet(u, S) + SumFunctionOnSet(Rest, S)
  BY <1>1, <1>2, SumPlus
<1>7. SumFunctionOnSet(b, S) = SumFunctionOnSet(x, S) + SumFunctionOnSet(z, S)
  BY <1>1, <1>2, SumPlus
<1>8. SumFunctionOnSet(a, S) <= SumFunctionOnSet(b, S)
  <2>1. \A i \in S : a[i] \in Int /\ b[i] \in Int /\ a[i] <= b[i]
    BY <1>1, <1>2
  <2> QED BY <1>1, <2>1, SumOfLarger
<1>9. SumFunctionOnSet(u, S) \in Nat /\ SumFunctionOnSet(z, S) \in Nat
  BY <1>1, <1>2, SumOfPart
<1>10. Slack(K) = (MaxConcurrent - 1) * Biggest + UntoldOn(K)
  BY DEF Slack
<1>11. SumFunctionOnSet(Rest, OrdersOn(K)) = SumFunctionOnSet(Rest, S)
  BY DEF S
<1>12. PICK y \in Int : y = (MaxConcurrent - 1) * Biggest
  BY <1>5
<1> QED BY <1>1, <1>4, <1>5, <1>6, <1>7, <1>8, <1>9, <1>10, <1>11, <1>12

\* check() saw to it that the order it let through fits under the cap with all that K
\* may come to hold, but for the slack.
LEMMA ReachAdmit ==
  ASSUME Sized, TypeOK, TypeOK', Ledger, Account', FillsLayered, Counted, FirstDay,
         restarts = 0, now <= DAY + 1, NEW w \in Wakes, Admit(w),
         NEW K \in SUBSET Tickers, w.ticker \in K, NEW m \in Nat,
         SumFunctionOnSet(recTicker, K) + FillSum(LayersOn(K)) + w.count <= m
  PROVE  Reach(K)' <= m + Slack(K)
<1> DEFINE S == OrdersOn(K)
<1>0. PICK n \in Nat : n = Len(orders)
  BY DEF TypeOK
<1>1. OrderIds = 1..n /\ Account /\ w.count \in Nat /\ fill \in [1..n -> Nat] /\ n + 1 \notin 1..n
  <2>1. n \in Nat /\ OrderIds = 1..n /\ fill \in [1..n -> Nat]
    BY <1>0 DEF TypeOK, OrderIds
  <2>2. Account /\ w.count \in Nat
    BY GateConstants DEF Ledger
  <2> QED BY <2>1, <2>2
<1>2. /\ orders'[n + 1].ticker = w.ticker /\ orders'[n + 1].count = w.count
      /\ OrderIds' = 1..(n + 1) /\ \A i \in 1..n : orders'[i] = orders[i]
      /\ pos' = pos /\ live' = live \cup {n + 1} /\ inFlight < MaxConcurrent
  BY <1>0, <1>1 DEF Admit, check, PreChecks, TypeOK, OrderIds
<1>3. fill'[n + 1] = 0 /\ \A i \in 1..n : fill'[i] = fill[i]
  BY <1>0, <1>1, AppendFun DEF Admit
<1>4. OrdersOn(K)' = S \cup {n + 1} /\ n + 1 \notin S /\ S \in SUBSET OrderIds
  BY <1>1, <1>2 DEF OrdersOn
<1>5. /\ \A i \in S \cup {n + 1} :
           /\ Rest'[i] \in Nat
           /\ Rest'[i] = IF i \in live' THEN orders'[i].count - fill'[i] ELSE 0
      /\ Reach(K)' = SumFunctionOnSet(Held', K) + SumFunctionOnSet(Rest', S \cup {n + 1})
  BY <1>4, NextReachIsNat
<1>6. Unaccounted(K) + SumFunctionOnSet(Rest, S) <= Slack(K) /\ Slack(K) \in Int
      /\ SumFunctionOnSet(Rest, S) \in Nat
  BY <1>1, <1>2, UnknownWithinSlack
<1>7. IsFiniteSet(S) /\ \A i \in S : Rest[i] \in Nat
  BY <1>1, <1>4, RestIsNat
<1>8. Held' = Held
  BY <1>2 DEF Held
<1> HIDE DEF S
<1>9. Rest'[n + 1] = w.count /\ \A i \in S : Rest'[i] = Rest[i]
  <2>1. Rest'[n + 1] = w.count
    BY <1>1, <1>2, <1>3, <1>5
  <2>2. ASSUME NEW i \in S PROVE Rest'[i] = Rest[i]
    <3>1. i \in 1..n /\ i # n + 1
      BY <1>1, <1>4
    <3>2. Rest'[i] = IF i \in live THEN orders[i].count - fill[i] ELSE 0
      BY <1>2, <1>3, <1>5, <3>1
    <3>3. Rest[i] = IF i \in live THEN orders[i].count - fill[i] ELSE 0
      BY <1>1, <3>1 DEF Rest
    <3> QED BY <3>2, <3>3
  <2> QED BY <2>1, <2>2
<1>10. SumFunctionOnSet(Rest', S \cup {n + 1}) = w.count + SumFunctionOnSet(Rest, S)
  <2>1. \A i \in S \cup {n + 1} : Rest'[i] \in Int
    BY <1>5
  <2>2. SumFunctionOnSet(Rest', S \cup {n + 1}) = Rest'[n + 1] + SumFunctionOnSet(Rest', S)
    BY <1>4, <1>7, <2>1, SumAdd
  <2>3. SumFunctionOnSet(Rest, S) = SumFunctionOnSet(Rest', S)
    <3>1. \A i \in S : Rest[i] \in Int /\ Rest[i] = Rest'[i]
      BY <1>7, <1>9
    <3> QED BY <1>7, <3>1, SumOfEqual
  <2> QED BY <1>9, <2>2, <2>3
<1>11. /\ SumFunctionOnSet(Held, K)
            <= SumFunctionOnSet(recTicker, K) + FillSum(LayersOn(K)) + Unaccounted(K)
       /\ SumFunctionOnSet(Held, K) \in Nat /\ Unaccounted(K) \in Nat
       /\ SumFunctionOnSet(recTicker, K) \in Nat /\ FillSum(LayersOn(K)) \in Nat
  BY FirstDayWindow, PositionCovered
<1> DEFINE held == SumFunctionOnSet(Held, K)
           seen == SumFunctionOnSet(recTicker, K) + FillSum(LayersOn(K))
           unseen == Unaccounted(K)
           mine == SumFunctionOnSet(Rest, S)
           slack == Slack(K)
<1>12. /\ held \in Nat /\ seen \in Nat /\ unseen \in Nat /\ mine \in Nat /\ slack \in Int
       /\ held <= seen + unseen
       /\ unseen + mine <= slack
       /\ seen + w.count <= m
  BY <1>6, <1>11
<1>13. Reach(K)' = held + (w.count + mine)
  BY <1>5, <1>8, <1>10
<1> HIDE DEF held, seen, unseen, mine, slack
<1>14. Reach(K)' <= m + slack
  BY <1>1, <1>12, <1>13
<1> QED BY <1>14 DEF slack

\* Every step keeps what the account may come to hold within cap and slack.
LEMMA ReachStep ==
  ASSUME Sized, TypeOK, TypeOK', Ledger, Ledger', FillsLayered, Counted, FirstDay,
         ReachBounded, [Next]_vars
  PROVE  ReachBounded'
<1> SUFFICES ASSUME restarts' = 0, now' <= DAY + 1
             PROVE  /\ \A t \in Tickers : Reach({t})' <= MaxPosTicker + Slack({t})'
                    /\ \A e \in Events : Reach(StrikesOf(e))' <= MaxPosEvent + Slack(StrikesOf(e))'
  BY DEF ReachBounded
<1>0. /\ now \in Nat /\ DAY \in Nat /\ MaxPosTicker \in Nat /\ MaxPosEvent \in Nat
      /\ Account /\ Account' /\ MaxConcurrent \in Nat
  BY GateConstants DEF TypeOK, Ledger
<1>1. restarts = 0 /\ now <= DAY + 1
  <2>1. now' \in Nat /\ now' >= now /\ restarts = 0
    BY SameProcess
  <2> QED BY <1>0, <2>1
<1>2. ASSUME NEW K PROVE Slack(K) \in Int /\ Slack(K)' \in Int /\ Slack(K) <= Slack(K)'
  <2>1. PICK b \in Nat : b = Biggest
    BY BiggestBounds
  <2>2. PICK m \in Int : m = (MaxConcurrent - 1) * b
    BY <1>0
  <2>3. Slack(K) = m + UntoldOn(K) /\ Slack(K)' = m + UntoldOn(K)'
    BY <2>1, <2>2 DEF Slack, Biggest
  <2> QED BY <1>0, <2>2, <2>3, UntoldGrows
<1>3. ASSUME NEW K \in SUBSET Tickers, NEW m \in Nat, Reach(K) <= m + Slack(K),
             \A w \in Wakes : Admit(w) /\ w.ticker \in K
               => SumFunctionOnSet(recTicker, K) + FillSum(LayersOn(K)) + w.count <= m
      PROVE  Reach(K)' <= m + Slack(K)'
  <2>0. Reach(K) \in Int /\ Reach(K)' \in Int
    <3>1. SumFunctionOnSet(Held, K) \in Nat /\ SumFunctionOnSet(Rest, OrdersOn(K)) \in Nat
      BY <1>0, HeldIsNat, RestIsNat
    <3>2. /\ SumFunctionOnSet(Held', K) \in Nat /\ SumFunctionOnSet(Rest', OrdersOn(K)') \in Nat
          /\ Reach(K)' = SumFunctionOnSet(Held', K) + SumFunctionOnSet(Rest', OrdersOn(K)')
      BY <1>0, NextReachIsNat
    <3> QED BY <3>1, <3>2 DEF Reach
  <2>1. ASSUME NEW w \in Wakes, Admit(w), w.ticker \in K PROVE Reach(K)' <= m + Slack(K)'
    <3>1. Reach(K)' <= m + Slack(K)
      BY <1>0, <1>1, <1>3, <2>1, ReachAdmit
    <3> QED BY <1>2, <2>0, <3>1
  <2>2. CASE \A w \in Wakes : Admit(w) => w.ticker \notin K
    <3>1. Reach(K)' <= Reach(K)
      BY <1>0, <2>2, ReachFalls
    <3> QED BY <1>2, <1>3, <2>0, <3>1
  <2> QED BY <2>1, <2>2
<1>4. ASSUME NEW w \in Wakes, Admit(w)
      PROVE  /\ position_for_ticker(w.ticker) + w.count <= MaxPosTicker
             /\ position_for_event(EventOf[w.ticker]) + w.count <= MaxPosEvent
  BY <1>4 DEF Admit, check, PositionCaps, event_ticker_of
<1>5. ASSUME NEW t \in Tickers PROVE Reach({t})' <= MaxPosTicker + Slack({t})'
  <2>1. {t} \in SUBSET Tickers /\ Reach({t}) <= MaxPosTicker + Slack({t})
    BY <1>1 DEF ReachBounded
  <2>2. ASSUME NEW w \in Wakes, Admit(w), w.ticker \in {t}
        PROVE  SumFunctionOnSet(recTicker, {t}) + FillSum(LayersOn({t})) + w.count <= MaxPosTicker
    <3>1. position_for_ticker(t) + w.count <= MaxPosTicker
      BY <1>4, <2>2
    <3> QED BY <3>1, PositionsRead
  <2> QED BY <1>0, <1>3, <2>1, <2>2
<1>6. ASSUME NEW e \in Events PROVE Reach(StrikesOf(e))' <= MaxPosEvent + Slack(StrikesOf(e))'
  <2>1. StrikesOf(e) \in SUBSET Tickers /\ Reach(StrikesOf(e)) <= MaxPosEvent + Slack(StrikesOf(e))
    BY <1>1 DEF ReachBounded, StrikesOf
  <2>2. ASSUME NEW w \in Wakes, Admit(w), w.ticker \in StrikesOf(e)
        PROVE  SumFunctionOnSet(recTicker, StrikesOf(e)) + FillSum(LayersOn(StrikesOf(e))) + w.count
                 <= MaxPosEvent
    <3>1. position_for_event(e) + w.count <= MaxPosEvent
      BY <1>4, <2>2 DEF StrikesOf, event_ticker_of
    <3> QED BY <3>1, PositionsRead
  <2> QED BY <1>0, <1>3, <2>1, <2>2
<1> QED BY <1>5, <1>6

LEMMA ReachInit == Sized /\ MaxConcurrent >= 1 /\ Init => FirstDay /\ ReachBounded /\ Counted
<1> SUFFICES ASSUME Sized, MaxConcurrent >= 1, Init PROVE FirstDay /\ ReachBounded /\ Counted
  OBVIOUS
<1>1. /\ OrderIds = {} /\ now = 1 /\ inFlight = 0 /\ MaxConcurrent \in Nat
      /\ MaxPosTicker \in Nat /\ MaxPosEvent \in Nat /\ \A t \in Tickers : pos[t] = 0
  BY GateConstants DEF Init, EmptyGate, OrderIds
<1>2. InFlight = {} /\ \A K : OrdersOn(K) = {}
  BY <1>1 DEF InFlight, OrdersOn
<1>3. FirstDay
  BY <1>1 DEF FirstDay
<1>4. Counted
  BY <1>1, <1>2, FS_EmptySet DEF Counted
<1>5. ASSUME NEW K \in SUBSET Tickers PROVE Reach(K) = 0
  <2>1. IsFiniteSet(K) /\ \A t \in K : Held[t] = 0
    BY <1>1, GateConstants, FS_Subset DEF Held, Abs
  <2>2. SumFunctionOnSet(Held, K) = 0 /\ SumFunctionOnSet(Rest, {}) = 0
    BY <2>1, SumZero, SumEmpty
  <2> QED BY <1>2, <2>2 DEF Reach
<1>6. ASSUME NEW K \in SUBSET Tickers PROVE Slack(K) \in Nat
  <2>1. PICK b \in Nat, m \in Nat : b = Biggest /\ m = MaxConcurrent - 1
    <3>1. MaxConcurrent - 1 \in Nat
      BY <1>1
    <3> QED BY <3>1, BiggestBounds
  <2>2. m * b \in Nat /\ UntoldOn(K) = 0
    BY <1>2, SumEmpty DEF UntoldOn
  <2> QED BY <2>1, <2>2 DEF Slack
<1>7. \A t \in Tickers : {t} \in SUBSET Tickers
  OBVIOUS
<1>8. \A e \in Events : StrikesOf(e) \in SUBSET Tickers
  BY DEF StrikesOf
<1> QED BY <1>1, <1>3, <1>4, <1>5, <1>6, <1>7, <1>8 DEF ReachBounded

\* Within one process and its first day the account passes the position caps by at most
\* the orders that were in flight beside the last one admitted, and what the answers on
\* the ticker or event did not tell: dispatches that failed, counts that could not be
\* read and, where orders rest, what was left of them.  It takes a gate that admits at
\* all, and orders of bounded size.
THEOREM OvershootIsBounded ==
  ASSUME Sized, MaxConcurrent >= 1
  PROVE  Spec => []OvershootBounded
<1> DEFINE IInv == FirstDay /\ ReachBounded /\ Counted
<1>1. Init => IInv
  BY ReachInit
<1>2. TypeOK /\ TypeOK' /\ Layers /\ Ledger /\ Ledger' /\ FillsLayered /\ IInv /\ [Next]_vars => IInv'
  BY FirstDayStep, ReachStep, CountedStep DEF Ledger
<1>3. TypeOK /\ Account /\ IInv => OvershootBounded
  <2> DEFINE beside == (MaxConcurrent - 1) * Max({ w.count : w \in Wakes })
  <2> SUFFICES ASSUME TypeOK, Account, ReachBounded, restarts = 0, now <= DAY + 1
               PROVE  /\ \A t \in Tickers : Abs(pos[t]) <= MaxPosTicker + beside + UntoldOn({t})
                      /\ \A e \in Events :
                           EventPosition(e) <= MaxPosEvent + beside + UntoldOn(StrikesOf(e))
    BY DEF OvershootBounded
  <2>0. ASSUME NEW K \in SUBSET Tickers PROVE Slack(K) \in Int
    <3>1. UntoldOn(K) \in Nat
      BY RestIsNat
    <3>2. PICK b \in Nat, m \in Int : b = Biggest /\ m = MaxConcurrent - 1
      BY BiggestBounds, GateConstants
    <3>3. m * b \in Int
      OBVIOUS
    <3> QED BY <3>1, <3>2, <3>3 DEF Slack
  <2>1. ASSUME NEW K \in SUBSET Tickers
        PROVE  SumFunctionOnSet(Held, K) <= Reach(K) /\ SumFunctionOnSet(Held, K) \in Int /\ Reach(K) \in Int
    BY HeldIsNat, RestIsNat DEF Reach
  <2>2. ASSUME NEW t \in Tickers PROVE Abs(pos[t]) <= MaxPosTicker + Slack({t})
    <3>1. {t} \in SUBSET Tickers /\ Reach({t}) <= MaxPosTicker + Slack({t}) /\ MaxPosTicker \in Nat
      BY GateConstants DEF ReachBounded
    <3>2. SumFunctionOnSet(Held, {t}) = Abs(pos[t])
      BY PositionsRead
    <3> QED BY <2>0, <2>1, <3>1, <3>2
  <2>3. ASSUME NEW e \in Events PROVE EventPosition(e) <= MaxPosEvent + Slack(StrikesOf(e))
    <3>1. StrikesOf(e) \in SUBSET Tickers /\ Reach(StrikesOf(e)) <= MaxPosEvent + Slack(StrikesOf(e))
          /\ SumFunctionOnSet(Held, StrikesOf(e)) = EventPosition(e) /\ MaxPosEvent \in Nat
      BY PositionsRead, GateConstants DEF ReachBounded
    <3> QED BY <2>0, <2>1, <3>1
  <2>4. ASSUME NEW K \in SUBSET Tickers, NEW m \in Nat
        PROVE  m + Slack(K) = m + beside + UntoldOn(K)
    <3>1. beside \in Int
      <4>1. PICK b \in Nat, c \in Int : b = Biggest /\ c = MaxConcurrent - 1
        BY BiggestBounds, GateConstants
      <4>2. c * b \in Int
        OBVIOUS
      <4> QED BY <4>1, <4>2 DEF Biggest
    <3>2. UntoldOn(K) \in Int /\ Slack(K) = beside + UntoldOn(K)
      BY RestIsNat DEF Slack, Biggest
    <3> HIDE DEF beside
    <3> QED BY <3>1, <3>2
  <2>5. /\ MaxPosTicker \in Nat /\ MaxPosEvent \in Nat
        /\ \A t \in Tickers : {t} \in SUBSET Tickers
        /\ \A e \in Events : StrikesOf(e) \in SUBSET Tickers
    BY GateConstants DEF StrikesOf
  <2> HIDE DEF beside
  <2> QED BY <2>2, <2>3, <2>4, <2>5
<1> HIDE DEF IInv
<1>4. Spec => []IInv
  BY <1>1, <1>2, LedgerHolds, PTL DEF Spec
<1>5. TypeOK /\ Ledger /\ IInv => OvershootBounded
  BY <1>3 DEF Ledger
<1> QED BY <1>4, <1>5, LedgerHolds, PTL

=============================================================================
