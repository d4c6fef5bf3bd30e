------------------------- MODULE TokenBucketProofs -------------------------
(***************************************************************************)
(* The token bucket keeps the exchange's budget for every rate, burst and  *)
(* cost.  WindowBudget is about two past grants and says nothing of the    *)
(* tokens left, so no step can be argued from it alone.  What a step keeps *)
(* is stronger: whatever was granted since grant i, plus what is in the    *)
(* bucket, is covered by the burst and what was earned since grant i.      *)
(***************************************************************************)
EXTENDS TokenBucket, SequenceTheorems, TLAPS

\* From each grant on, what was granted and what is left was earned.
Earned ==
  \A i \in 1..Len(grants) :
    (Len(grants) - i + 1) * Cost + tokens <= Capacity + (refilledAt - grants[i].at) * Rate

\* The sleeper inside the lock wakes when its deficit is earned.
SleepsLongEnough ==
  holder # 0 => Cost <= tokens + (until - refilledAt) * Rate

\* The pairs of WindowBudget, over the indices.
Pairs ==
  \A i, j \in 1..Len(grants) :
    i <= j => (j - i + 1) * Cost <= Capacity + (grants[j].at - grants[i].at) * Rate

BucketInv == TypeOK /\ SleepsLongEnough /\ Earned /\ Pairs

-----------------------------------------------------------------------------
(* Arithmetic.                                                             *)

\* What an interval earns is what its two parts earn.
LEMMA EarnSplit ==
  ASSUME NEW a \in Int, NEW b \in Int, NEW c \in Int, NEW r \in Int
  PROVE  (c - a) * r = (b - a) * r + (c - b) * r
OBVIOUS

\* One more grant costs one more Cost.
LEMMA OneMore ==
  ASSUME NEW n \in Int, NEW c \in Int
  PROVE  (n + 1) * c = n * c + c
OBVIOUS

\* Earning never takes tokens away.
LEMMA EarnNat ==
  ASSUME NEW a \in Nat, NEW r \in Nat
  PROVE  a * r \in Nat
OBVIOUS

\* A longer time earns at least as much.
LEMMA EarnMonotone ==
  ASSUME NEW a \in Int, NEW b \in Int, NEW r \in Nat, a <= b
  PROVE  a * r <= b * r
OBVIOUS

\* acquire sleeps at least as long as the deficit takes.
LEMMA TicksEnough ==
  ASSUME NEW d \in Nat, BucketConstants
  PROVE  /\ TicksFor(d) \in Nat
         /\ d <= TicksFor(d) * Rate
<1>. DEFINE n == d + Rate - 1
<1>. DEFINE q == n \div Rate
<1>1. n \in Nat /\ Rate \in Nat /\ Rate > 0
  BY DEF BucketConstants
<1>2. q \in Nat /\ n = q * Rate + (n % Rate) /\ n % Rate \in 0..(Rate - 1)
  <2>. HIDE DEF n
  <2>. QED BY <1>1
<1>. QED BY <1>1, <1>2 DEF TicksFor

-----------------------------------------------------------------------------
(* One refill, one withdrawal.                                             *)

\* _refill leaves tokens within the burst, and no more than were earned.
LEMMA RefillBounds ==
  ASSUME BucketConstants, TypeOK
  PROVE  /\ Refilled \in 0..Capacity
         /\ Refilled <= tokens + (now - refilledAt) * Rate
         /\ Refilled = Capacity \/ Refilled = tokens + (now - refilledAt) * Rate
<1>. DEFINE e == (now - refilledAt) * Rate
<1>1. e \in Nat
  <2>1. now - refilledAt \in Nat
    BY DEF TypeOK
  <2>. QED BY <2>1, EarnNat DEF BucketConstants
<1>2. tokens \in Nat /\ tokens <= Capacity /\ Capacity \in Nat
  BY DEF TypeOK, BucketConstants
<1>3. Refilled = IF tokens + e > Capacity THEN Capacity ELSE tokens + e
  BY DEF Refilled
<1>. HIDE DEF e
<1>4. /\ Refilled \in 0..Capacity
      /\ Refilled <= tokens + e
      /\ Refilled = Capacity \/ Refilled = tokens + e
  BY <1>1, <1>2, <1>3
<1>. QED BY <1>4 DEF e

\* A grant carries its time.
LEMMA GrantTimes ==
  ASSUME TypeOK, NEW i \in 1..Len(grants)
  PROVE  grants[i].at \in Nat
<1>1. grants \in Seq([request: Nat, at: Nat])
  BY DEF TypeOK
<1>2. grants[i] \in [request: Nat, at: Nat]
  BY <1>1, ElementOfSeq
<1>. QED BY <1>2

\* After a refill, what was granted since grant i and what is in the bucket is
\* still covered.
LEMMA EarnedNow ==
  ASSUME BucketConstants, TypeOK, Earned, NEW i \in 1..Len(grants)
  PROVE  (Len(grants) - i + 1) * Cost + Refilled <= Capacity + (now - grants[i].at) * Rate
<1>1. Len(grants) \in Nat /\ grants[i].at \in Nat
  BY GrantTimes, LenProperties DEF TypeOK
<1>2. PICK spent \in Int : spent = (Len(grants) - i + 1) * Cost
  BY <1>1 DEF BucketConstants
<1>3. PICK past \in Int : past = (refilledAt - grants[i].at) * Rate
  BY <1>1 DEF TypeOK, BucketConstants
<1>4. PICK fresh \in Int : fresh = (now - refilledAt) * Rate
  BY DEF TypeOK, BucketConstants
<1>5. (now - grants[i].at) * Rate = past + fresh
  <2>1. now \in Int /\ refilledAt \in Int /\ Rate \in Int /\ grants[i].at \in Int
    BY <1>1 DEF TypeOK, BucketConstants
  <2>. QED BY <2>1, <1>3, <1>4, EarnSplit
<1>6. spent + tokens <= Capacity + past
  BY <1>2, <1>3 DEF Earned
<1>7. Refilled <= tokens + fresh /\ Refilled \in Int
  BY <1>4, RefillBounds
<1>8. tokens \in Int /\ Capacity \in Int
  BY DEF TypeOK, BucketConstants
<1>9. spent + Refilled <= Capacity + (past + fresh)
  BY <1>6, <1>7, <1>8
<1>. QED BY <1>9, <1>2, <1>5

\* A withdrawal covered by the refilled bucket keeps the budget of every
\* interval that ends with it.
LEMMA WithdrawKeeps ==
  ASSUME BucketConstants, TypeOK, Earned, Pairs, NEW r \in Nat,
         Refilled >= Cost, Withdraw(r, Refilled)
  PROVE  /\ tokens' \in 0..Capacity /\ refilledAt' = now
         /\ grants' \in Seq([request: Nat, at: Nat])
         /\ Earned' /\ Pairs'
<1>. DEFINE g == [request |-> r, at |-> now]
<1>. DEFINE n == Len(grants)
<1>0. /\ Cost \in Nat /\ Capacity \in Nat /\ Rate \in Nat /\ now \in Nat /\ n \in Nat
      /\ grants \in Seq([request: Nat, at: Nat]) /\ g \in [request: Nat, at: Nat]
  BY LenProperties DEF TypeOK, BucketConstants
<1>1. Refilled \in 0..Capacity
  BY RefillBounds
<1>2. tokens' = Refilled - Cost /\ refilledAt' = now
  BY DEF Withdraw
<1>3. tokens' \in 0..Capacity
  BY <1>0, <1>1, <1>2
<1>4. /\ grants' \in Seq([request: Nat, at: Nat])
      /\ Len(grants') = n + 1
      /\ \A i \in 1..n : grants'[i] = grants[i]
      /\ grants'[n + 1].at = now
  BY <1>0, AppendProperties DEF Withdraw
<1>5. ASSUME NEW i \in 1..(n + 1)
      PROVE  /\ (n + 1 - i + 1) * Cost + tokens' <= Capacity + (now - grants'[i].at) * Rate
             /\ (n + 1 - i + 1) * Cost <= Capacity + (now - grants'[i].at) * Rate
  <2>1. CASE i \in 1..n
    <3>1. n - i + 1 \in Int
      BY <1>0
    <3>2. n + 1 - i + 1 = (n - i + 1) + 1
      BY <1>0
    <3>3. (n + 1 - i + 1) * Cost = (n - i + 1) * Cost + Cost
      BY <1>0, <3>1, <3>2, OneMore
    <3>4. (n - i + 1) * Cost + Refilled <= Capacity + (now - grants[i].at) * Rate
      BY <2>1, EarnedNow
    <3>5. PICK spent \in Int : spent = (n - i + 1) * Cost
      BY <1>0, <3>1
    <3>6. PICK earned \in Int : earned = (now - grants[i].at) * Rate
      <4>1. grants[i].at \in Int
        BY <2>1, GrantTimes
      <4>. QED BY <1>0, <4>1
    <3>7. spent + Refilled <= Capacity + earned
      BY <3>4, <3>5, <3>6
    <3>. HIDE DEF n, g
    <3>8. /\ spent + Cost + tokens' <= Capacity + earned
          /\ spent + Cost <= Capacity + earned
      BY <1>0, <1>1, <1>2, <3>7
    <3>. QED BY <1>4, <2>1, <3>3, <3>5, <3>6, <3>8
  <2>2. CASE i = n + 1
    <3>1. grants'[i].at = now
      BY <1>4, <2>2
    <3>2. (n + 1 - i + 1) * Cost = Cost /\ (now - now) * Rate = 0
      BY <1>0, <2>2
    <3>. QED BY <1>0, <1>1, <1>2, <3>1, <3>2
  <2>. QED BY <1>0, <2>1, <2>2
<1>6. Earned'
  <2>. SUFFICES ASSUME NEW i \in 1..(n + 1)
                PROVE  (n + 1 - i + 1) * Cost + tokens'
                         <= Capacity + (refilledAt' - grants'[i].at) * Rate
    BY <1>4 DEF Earned
  <2>. QED BY <1>2, <1>5
<1>7. Pairs'
  <2>. SUFFICES ASSUME NEW i \in 1..(n + 1), NEW j \in 1..(n + 1), i <= j
                PROVE  (j - i + 1) * Cost <= Capacity + (grants'[j].at - grants'[i].at) * Rate
    BY <1>4 DEF Pairs
  <2>1. CASE j = n + 1
    BY <1>4, <1>5, <2>1
  <2>2. CASE j \in 1..n
    <3>1. i \in 1..n
      BY <1>0, <2>2
    <3>. QED BY <1>4, <2>2, <3>1 DEF Pairs
  <2>. QED BY <1>0, <2>1, <2>2
<1>. QED BY <1>2, <1>3, <1>4, <1>6, <1>7

-----------------------------------------------------------------------------
(* The steps.                                                              *)

\* The bucket starts full and nothing was granted.
LEMMA BucketInit ==
  ASSUME BucketConstants, Init
  PROVE  BucketInv
<1>1. grants = <<>> /\ waiters = <<>>
  BY DEF Init
<1>2. grants \in Seq([request: Nat, at: Nat]) /\ waiters \in Seq(Nat) /\ Len(grants) = 0
  BY <1>1, EmptySeq
<1>3. 1..Len(grants) = {}
  BY <1>2
<1>4. TypeOK
  BY <1>2 DEF TypeOK, Init, BucketConstants
<1>. QED BY <1>3, <1>4 DEF BucketInv, SleepsLongEnough, Earned, Pairs, Init

\* The head of the queue withdraws, or goes to sleep for its deficit.
LEMMA EnterKeeps ==
  ASSUME BucketConstants, BucketInv, Enter
  PROVE  BucketInv'
<1>0. TypeOK /\ Earned /\ Pairs
  BY DEF BucketInv
<1>1. Head(waiters) \in Nat /\ waiters' \in Seq(Nat) /\ holder = 0
  BY <1>0, HeadTailProperties DEF Enter, TypeOK
<1>2. CASE Refilled >= Cost /\ Withdraw(Head(waiters), Refilled) /\ UNCHANGED <<holder, until>>
  <2>1. /\ tokens' \in 0..Capacity /\ refilledAt' = now
        /\ grants' \in Seq([request: Nat, at: Nat])
        /\ Earned' /\ Pairs'
    BY <1>0, <1>1, <1>2, WithdrawKeeps
  <2>2. TypeOK'
    BY <1>0, <1>1, <1>2, <2>1 DEF TypeOK, Enter
  <2>3. SleepsLongEnough'
    BY <1>1, <1>2 DEF SleepsLongEnough
  <2>. QED BY <2>1, <2>2, <2>3 DEF BucketInv
<1>3. CASE /\ Refilled < Cost /\ holder' = Head(waiters)
           /\ until' = now + TicksFor(Cost - Refilled)
           /\ tokens' = Refilled /\ refilledAt' = now /\ UNCHANGED grants
  <2>1. Refilled \in 0..Capacity
    BY <1>0, RefillBounds
  <2>2. Cost - Refilled \in Nat
    BY <1>3, <2>1 DEF BucketConstants
  <2>3. TicksFor(Cost - Refilled) \in Nat /\ Cost - Refilled <= TicksFor(Cost - Refilled) * Rate
    BY <2>2, TicksEnough
  <2>4. TypeOK'
    BY <1>0, <1>1, <1>3, <2>1, <2>3 DEF TypeOK, Enter
  <2>5. SleepsLongEnough'
    <3>1. PICK t \in Nat : t = TicksFor(Cost - Refilled)
      BY <2>3
    <3>2. until' - refilledAt' = t
      BY <1>0, <1>3, <3>1 DEF TypeOK
    <3>3. PICK e \in Int : e = t * Rate
      BY <3>1 DEF BucketConstants
    <3>4. Cost <= Refilled + e
      BY <2>1, <2>3, <3>1, <3>3 DEF BucketConstants
    <3>. QED BY <1>3, <3>2, <3>3, <3>4 DEF SleepsLongEnough
  <2>6. Earned'
    BY <1>0, <1>3, EarnedNow DEF Earned
  <2>7. Pairs'
    BY <1>0, <1>3 DEF Pairs
  <2>. QED BY <2>4, <2>5, <2>6, <2>7 DEF BucketInv
<1>. QED BY <1>2, <1>3 DEF Enter

\* The sleeper finds its tokens: it slept for the deficit, and the burst is no
\* smaller than one request.
LEMMA WakeUpKeeps ==
  ASSUME BucketConstants, BucketInv, WakeUp
  PROVE  BucketInv'
<1>0. TypeOK /\ Earned /\ Pairs /\ SleepsLongEnough
  BY DEF BucketInv
<1>1. Refilled >= Cost
  <2>1. /\ now \in Int /\ until \in Int /\ refilledAt \in Int /\ Rate \in Nat
        /\ until - refilledAt <= now - refilledAt
    BY <1>0 DEF TypeOK, BucketConstants, WakeUp
  <2>2. (until - refilledAt) * Rate <= (now - refilledAt) * Rate
    BY <2>1, EarnMonotone
  <2>3. PICK a \in Int : a = (until - refilledAt) * Rate
    BY <2>1
  <2>4. PICK b \in Int : b = (now - refilledAt) * Rate
    BY <2>1
  <2>5. Cost <= tokens + a
    BY <1>0, <2>3 DEF SleepsLongEnough, WakeUp
  <2>6. Cost <= tokens + b
    BY <1>0, <2>2, <2>3, <2>4, <2>5 DEF TypeOK, BucketConstants
  <2>7. Refilled = Capacity \/ Refilled = tokens + b
    BY <1>0, <2>4, RefillBounds
  <2>. QED BY <2>6, <2>7 DEF BucketConstants
<1>2. holder \in Nat /\ Withdraw(holder, Refilled)
  BY <1>0 DEF TypeOK, WakeUp
<1>3. /\ tokens' \in 0..Capacity /\ refilledAt' = now
      /\ grants' \in Seq([request: Nat, at: Nat])
      /\ Earned' /\ Pairs'
  BY <1>0, <1>1, <1>2, WithdrawKeeps
<1>4. TypeOK'
  BY <1>0, <1>3 DEF TypeOK, WakeUp
<1>5. SleepsLongEnough'
  BY DEF SleepsLongEnough, WakeUp
<1>. QED BY <1>3, <1>4, <1>5 DEF BucketInv

\* A cancelled task leaves the tokens and the grants alone.
LEMMA CancelKeeps ==
  ASSUME BucketConstants, BucketInv, NEW r \in 1..MaxRequests, Cancel(r)
  PROVE  BucketInv'
<1>0. TypeOK /\ Earned /\ Pairs /\ SleepsLongEnough
  BY DEF BucketInv
<1>1. waiters' \in Seq(Nat)
  <2>1. CASE UNCHANGED waiters
    BY <1>0, <2>1 DEF TypeOK
  <2>2. ASSUME NEW k \in 1..Len(waiters),
               waiters' = SubSeq(waiters, 1, k - 1) \o SubSeq(waiters, k + 1, Len(waiters))
        PROVE  waiters' \in Seq(Nat)
    <3>1. waiters \in Seq(Nat) /\ Len(waiters) \in Nat /\ \A i \in 1..Len(waiters) : waiters[i] \in Nat
      BY <1>0, LenProperties, ElementOfSeq DEF TypeOK
    <3>2. SubSeq(waiters, 1, k - 1) \in Seq(Nat)
      BY <3>1, SubSeqProperties
    <3>3. SubSeq(waiters, k + 1, Len(waiters)) \in Seq(Nat)
      BY <3>1, SubSeqProperties
    <3>. QED BY <2>2, <3>2, <3>3, ConcatProperties
  <2>. QED BY <2>1, <2>2 DEF Cancel
<1>2. TypeOK'
  <2>1. holder' \in Nat /\ until' \in Nat
    <3>1. \/ holder' = 0 /\ until' = 0
          \/ UNCHANGED <<holder, until>>
      BY Zenon DEF Cancel
    <3>. QED BY <1>0, <3>1 DEF TypeOK
  <2>2. gone' \subseteq Nat
    BY <1>0 DEF TypeOK, Cancel, BucketConstants
  <2>3. UNCHANGED <<now, tokens, refilledAt, arrived, grants>>
    BY DEF Cancel
  <2>. QED BY <1>0, <1>1, <2>1, <2>2, <2>3 DEF TypeOK
<1>3. SleepsLongEnough'
  BY <1>0 DEF SleepsLongEnough, Cancel
<1>. QED BY <1>0, <1>2, <1>3 DEF BucketInv, Earned, Pairs, Cancel

\* Every step keeps the invariant.
LEMMA BucketStep ==
  ASSUME BucketConstants, BucketInv, [Next]_vars
  PROVE  BucketInv'
<1>0. TypeOK /\ Earned /\ Pairs /\ SleepsLongEnough
  BY DEF BucketInv
<1>1. CASE Arrive
  <2>1. arrived + 1 \in Nat /\ waiters' \in Seq(Nat)
    BY <1>0, <1>1, AppendProperties DEF TypeOK, Arrive
  <2>2. TypeOK'
    BY <1>0, <1>1, <2>1 DEF TypeOK, Arrive
  <2>. QED BY <1>0, <1>1, <2>2 DEF BucketInv, SleepsLongEnough, Earned, Pairs, Arrive
<1>2. CASE Tick
  <2>1. TypeOK'
    BY <1>0, <1>2 DEF TypeOK, Tick
  <2>. QED BY <1>0, <1>2, <2>1 DEF BucketInv, SleepsLongEnough, Earned, Pairs, Tick
<1>3. CASE UNCHANGED vars
  BY <1>0, <1>3 DEF BucketInv, TypeOK, SleepsLongEnough, Earned, Pairs, vars
<1>. QED BY <1>1, <1>2, <1>3, EnterKeeps, WakeUpKeeps, CancelKeeps DEF Next

\* rate_limit.py: whatever the rate, the burst and the cost of a request, and
\* however many coroutines queue, are cancelled or wake late, the bucket's state
\* has its type and no interval is granted more than the burst and what it earns.
THEOREM BucketKeepsBudget == Spec => [](TypeOK /\ WindowBudget)
<1>1. Init => BucketInv
  BY BucketInit, BucketConstants
<1>2. BucketInv /\ [Next]_vars => BucketInv'
  BY BucketStep, BucketConstants
<1>3. BucketInv => TypeOK /\ WindowBudget
  <2>. SUFFICES ASSUME BucketInv PROVE TypeOK /\ WindowBudget
    OBVIOUS
  <2>1. DOMAIN grants = 1..Len(grants)
    BY LenProperties DEF BucketInv, TypeOK
  <2>. QED BY <2>1 DEF BucketInv, WindowBudget, Pairs
<1>. QED BY <1>1, <1>2, <1>3, PTL DEF Spec

=============================================================================
