---------------------------- MODULE TokenBucket ----------------------------
(***************************************************************************)
(* transport/rate_limit.py: one TokenBucket, drawn on by every coroutine   *)
(* that sends a request of its kind.  acquire() runs under an asyncio.Lock *)
(* that it keeps while it sleeps.  Tokens are whole and time is counted in *)
(* ticks of the monotonic clock.                                           *)
(***************************************************************************)
EXTENDS Integers, Sequences

CONSTANTS
  Rate,         \* rate_per_second, in tokens per tick
  Capacity,     \* capacity
  Cost,         \* TOKENS_PER_REQUEST
  MaxRequests,  \* bound of the model
  LastArrival,  \* bound: no request arrives later, and from then on time
                \* passes only for a sleeper
  MayCancel     \* requests whose task may be cancelled while it waits

ASSUME BucketConstants ==
  /\ Rate \in Nat \ {0} /\ Capacity \in Nat /\ Cost \in Nat \ {0} /\ Cost <= Capacity
  /\ MaxRequests \in Nat /\ LastArrival \in Nat
  /\ MayCancel \subseteq 1..MaxRequests

VARIABLES
  now,          \* monotonic clock
  tokens,       \* _tokens
  refilledAt,   \* _refilled_at_ns
  holder,       \* the request asleep inside the lock, 0 if none
  until,        \* when its sleep is over
  waiters,      \* requests queued for the lock, oldest first
  arrived,      \* requests so far, numbered as they arrive
  grants,       \* history: requests that got their tokens, and when
  gone          \* requests cancelled before that

vars == <<now, tokens, refilledAt, holder, until, waiters, arrived, grants, gone>>

Init ==
  /\ now = 0 /\ refilledAt = 0 /\ tokens = Capacity
  /\ holder = 0 /\ until = 0 /\ waiters = <<>> /\ arrived = 0
  /\ grants = <<>> /\ gone = {}

\* _refill
Refilled ==
  LET t == tokens + (now - refilledAt) * Rate
  IN  IF t > Capacity THEN Capacity ELSE t

\* The ticks, rounded down.
TicksForRoundedDown(deficit) == deficit \div Rate

\* The ticks it takes to earn a deficit, rounded up.
TicksFor(deficit) == (deficit + Rate - 1) \div Rate

Arrive ==
  /\ arrived < MaxRequests /\ now <= LastArrival
  /\ arrived' = arrived + 1
  /\ waiters' = Append(waiters, arrived + 1)
  /\ UNCHANGED <<now, tokens, refilledAt, holder, until, grants, gone>>

\* max(0, _tokens - tokens), and the lock is released.
Withdraw(r, t) ==
  /\ tokens' = IF t >= Cost THEN t - Cost ELSE 0
  /\ refilledAt' = now
  /\ grants' = Append(grants, [request |-> r, at |-> now])

\* The oldest waiter gets the lock: it refills and withdraws at once, or keeps
\* the lock and sleeps until the deficit is earned.
Enter ==
  /\ holder = 0 /\ waiters # <<>>
  /\ waiters' = Tail(waiters)
  /\ \/ /\ Refilled >= Cost
        /\ Withdraw(Head(waiters), Refilled)
        /\ UNCHANGED <<holder, until>>
     \/ /\ Refilled < Cost
        /\ holder' = Head(waiters)
        /\ until' = now + TicksFor(Cost - Refilled)
        /\ tokens' = Refilled /\ refilledAt' = now
        /\ UNCHANGED grants
  /\ UNCHANGED <<now, arrived, gone>>

\* The sleep is over: refill once more and withdraw.
WakeUp ==
  /\ holder # 0 /\ now >= until
  /\ Withdraw(holder, Refilled)
  /\ holder' = 0 /\ until' = 0
  /\ UNCHANGED <<now, waiters, arrived, gone>>

\* A cancelled sleeper gives the lock back without waking those behind it.
CancelLosesWakeUp(r) ==
  /\ r \in MayCancel /\ holder = r
  /\ holder' = 0 /\ until' = 0 /\ waiters' = <<>>
  /\ gone' = gone \cup {r}
  /\ UNCHANGED <<now, tokens, refilledAt, arrived, grants>>

\* A waiting task is cancelled: in the queue it leaves, asleep it gives the lock back.
Cancel(r) ==
  /\ r \in MayCancel
  /\ \/ /\ holder = r
        /\ holder' = 0 /\ until' = 0
        /\ UNCHANGED waiters
     \/ /\ \E k \in 1..Len(waiters) :
             /\ waiters[k] = r
             /\ waiters' = SubSeq(waiters, 1, k - 1) \o SubSeq(waiters, k + 1, Len(waiters))
        /\ UNCHANGED <<holder, until>>
  /\ gone' = gone \cup {r}
  /\ UNCHANGED <<now, tokens, refilledAt, arrived, grants>>

\* Time goes on, also past the end of a sleep: a busy loop wakes late.
Tick ==
  /\ now < LastArrival \/ (holder # 0 /\ now < until)
  /\ now' = now + 1
  /\ UNCHANGED <<tokens, refilledAt, holder, until, waiters, arrived, grants, gone>>

Next == Arrive \/ Enter \/ WakeUp \/ Tick \/ \E r \in 1..MaxRequests : Cancel(r)

Spec == Init /\ [][Next]_vars

\* The loop runs the task that holds or can take the lock, and time goes on.
FairSpec == Spec /\ WF_vars(Enter) /\ WF_vars(WakeUp) /\ WF_vars(Tick)

-----------------------------------------------------------------------------
(* What the bucket promises.                                               *)

\* The state has its type; the tokens stay between nothing and the burst.
TypeOK ==
  /\ now \in Nat /\ tokens \in 0..Capacity /\ refilledAt \in Nat /\ refilledAt <= now
  /\ holder \in Nat /\ until \in Nat /\ waiters \in Seq(Nat) /\ arrived \in Nat
  /\ grants \in Seq([request: Nat, at: Nat]) /\ gone \subseteq Nat

\* In no interval do the requests granted cost more than the burst plus what
\* the interval earns, which is how the exchange meters: also not after an idle
\* stretch, and not when many coroutines queue for the bucket.
WindowBudget ==
  \A i, j \in DOMAIN grants :
    i <= j => (j - i + 1) * Cost <= Capacity + (grants[j].at - grants[i].at) * Rate

Granted(r) == \E k \in DOMAIN grants : grants[k].request = r

\* Every request gets its tokens in the end, also when the one asleep inside the
\* lock is cancelled.
EveryRequestGranted ==
  \A r \in 1..MaxRequests : (arrived >= r) ~> (Granted(r) \/ r \in gone)

=============================================================================
