------------------------ MODULE TelemetryQueueProofs ------------------------
(* Machine-checked proofs about TelemetryQueue, for every value of its constants: *)
(* any orders, refusals and latency rows, any queue and batch size.          *)
EXTENDS TelemetryQueue, FiniteSetTheorems, TLAPS

-----------------------------------------------------------------------------
(* The inductive invariant.                                                *)

Decided == {"written", "refused", "failed"}

\* The rows that a plain INSERT puts there: the pending and the rejected ones.
Keyed == { Pending(f) : f \in Fires } \cup { Rejected(r) : r \in Rejects }

\* A job that has not been offered yet has no fate, and a pending row is offered as
\* soon as its order is sent.
Born ==
  /\ \A f \in Fires : /\ fire[f] = "new" <=> fate[Pending(f)] = "unborn"
                      /\ fire[f] # "ended" => fate[Resolution(f)] = "unborn"
  /\ loop.at = "put" => \E f \in Fires : /\ loop.job = Resolution(f) /\ fire[f] = "ended"
                                         /\ fate[Resolution(f)] = "unborn"
  /\ \A r \in Rejects : pool[r] # "done" => fate[Rejected(r)] = "unborn"

\* What is on the queue is queued; what has been drained is so until it is decided.
Held ==
  /\ \A k \in DOMAIN queue : queue[k] # Stop => fate[queue[k]] = "queued"
  /\ \A k \in DOMAIN batch :
       IF writer.at = "rows" /\ k < writer.next THEN fate[batch[k]] \in Decided
       ELSE fate[batch[k]] = "queued"

\* No job is there twice, no resolution before its order's pending row, and nothing
\* close() found on the queue behind the sentinel.
MayPrecede(a, b) ==
  /\ a = b => a = Stop
  /\ \A f \in Fires : ~(a = Resolution(f) /\ b = Pending(f))
  /\ a = Stop => b \notin closing

InTurn ==
  /\ \A k, l \in DOMAIN queue : k < l => MayPrecede(queue[k], queue[l])
  /\ \A k, l \in DOMAIN batch : k < l => MayPrecede(batch[k], batch[l])
  /\ \A k \in DOMAIN batch, l \in DOMAIN queue : MayPrecede(batch[k], queue[l])

\* The writer between two batches holds none, and outside _write_batch there is no
\* open transaction.
WriterIdle ==
  /\ writer.at \in {"get", "stopped"} => batch = <<>>
  /\ writer.at \notin {"batch", "rows"} => writer.next = 1
  /\ writer.at # "batch" => txn = db

\* A key the table holds is not one that a row still to be inserted has.
Keys ==
  \A j \in Keyed :
    /\ txn[j.id] # "absent" =>
         /\ fate[j] # "unborn" /\ \A k \in DOMAIN queue : queue[k] # j
         /\ \A k \in DOMAIN batch : batch[k] = j => k < writer.next
    /\ db[j.id] # "absent" =>
         /\ fate[j] # "unborn" /\ \A k \in DOMAIN queue : queue[k] # j
         /\ \A k \in DOMAIN batch : batch[k] = j => writer.at = "rows" /\ k < writer.next

\* A resolved row stays resolved, and the resolutions inserted so far are.
Resolutions ==
  /\ \A f \in Fires : db[f] = "resolved" => txn[f] = "resolved"
  /\ Alive /\ writer.at = "batch" =>
       \A k \in DOMAIN batch, f \in Fires :
         k < writer.next /\ batch[k] = Resolution(f) => txn[f] = "resolved"

\* The open transaction is one commit of AuditTrail ahead of the table.
Honest ==
  \A f \in Fires :
    /\ db[f] # "rejected"
    /\ \/ txn[f] = db[f]
       \/ txn[f] = "pending" /\ db[f] = "absent" /\ fire[f] # "new"
       \/ txn[f] = "resolved" /\ fire[f] = "ended"

\* Where the sentinel can be, and what it leaves behind it.
SentinelLast ==
  /\ loop.at \in {"free", "put", "closing"} =>
       /\ \A k \in DOMAIN queue : queue[k] # Stop
       /\ writer.at \notin {"requeue", "stopped", "died"}
  /\ writer.at \in {"requeue", "stopped"} => \A k \in DOMAIN queue : queue[k] \notin closing
  /\ \A j \in closing : fate[j] \in {"queued", "lost"} \cup Decided

\* A row the queue accepted is on the queue or in the writer's hands until it is decided
\* or lost with the process, even those a writer left that died.
Traced == \A j \in Jobs : fate[j] = "queued" => InHand(j)

IInv ==
  /\ TypeOK /\ Born /\ Held /\ InTurn /\ WriterIdle /\ Keys /\ Resolutions /\ Honest
  /\ SentinelLast /\ Traced /\ ResolutionStands /\ OnlyBadRowsRefused
-----------------------------------------------------------------------------
(* Sequences and jobs.                                                     *)

\* What Append does, index by index.
LEMMA AppendFacts ==
  ASSUME NEW S, NEW s \in Seq(S), NEW x \in S, NEW t, t = Append(s, x)
  PROVE  /\ t \in Seq(S) /\ Len(t) = Len(s) + 1 /\ Len(s) \in Nat
         /\ \A k \in DOMAIN s : k \in DOMAIN t /\ k \in Nat /\ t[k] = s[k] /\ k < Len(s) + 1
         /\ \A k \in DOMAIN t : k \in DOMAIN s \/ (k = Len(s) + 1 /\ t[k] = x)
         /\ Len(s) + 1 \in DOMAIN t /\ t[Len(s) + 1] = x
<1> DEFINE n == Len(s)
<1>1. n \in Nat /\ DOMAIN s = 1..n
  OBVIOUS
<1>2. t \in Seq(S) /\ Len(t) = n + 1 /\ DOMAIN t = 1..(n + 1) /\ t[n + 1] = x
      /\ \A k \in 1..n : t[k] = s[k]
  OBVIOUS
<1> HIDE DEF n
<1> QED BY <1>1, <1>2 DEF n

\* What Head and Tail do, index by index.
LEMMA TailFacts ==
  ASSUME NEW S, NEW s \in Seq(S), s # <<>>, NEW t, t = Tail(s)
  PROVE  /\ Head(s) \in S /\ 1 \in DOMAIN s /\ s[1] = Head(s)
         /\ t \in Seq(S) /\ Len(t) = Len(s) - 1 /\ Len(s) \in Nat
         /\ \A k \in DOMAIN t : k \in Nat /\ k + 1 \in DOMAIN s /\ 1 < k + 1 /\ t[k] = s[k + 1]
         /\ \A k \in DOMAIN s : k = 1 \/ (k - 1 \in DOMAIN t /\ t[k - 1] = s[k])
<1> DEFINE n == Len(s)
<1>1. n \in Nat \ {0} /\ DOMAIN s = 1..n /\ Head(s) = s[1] /\ s[1] \in S
  OBVIOUS
<1>2. t \in Seq(S) /\ Len(t) = n - 1 /\ DOMAIN t = 1..(n - 1)
      /\ \A k \in 1..(n - 1) : t[k] = s[k + 1]
  OBVIOUS
<1> HIDE DEF n
<1> QED BY <1>1, <1>2 DEF n

\* Indices and members of the two sequences of the state.
LEMMA Indices ==
  ASSUME TypeOK
  PROVE  /\ \A k \in DOMAIN queue : k \in Nat \ {0} /\ queue[k] \in Jobs \cup {Stop}
         /\ \A k \in DOMAIN batch : k \in Nat \ {0} /\ k <= Len(batch) /\ batch[k] \in Jobs
         /\ \A k \in Nat \ {0} : k <= Len(batch) => k \in DOMAIN batch
         /\ Len(queue) \in Nat /\ Len(batch) \in Nat /\ MaxQueue \in Nat /\ MaxBatch \in Nat
BY QueueConstants DEF TypeOK

\* The kinds of jobs are distinct, and a job tells which order it is about.
LEMMA Kinds ==
  /\ Stop \notin Jobs
  /\ \A f \in Fires : /\ Pending(f) \in Keyed /\ Resolution(f) \in Jobs \ Keyed
                      /\ Pending(f).id = f /\ Resolution(f).id = f
                      /\ Resolution(f).table # "orders_fired" /\ f \in Orders /\ f \notin Rejects
  /\ \A r \in Rejects : Rejected(r) \in Keyed /\ Rejected(r).id = r /\ r \in Orders /\ r \notin Fires
  /\ \A s \in Samples : Latency(s) \in Jobs \ Keyed /\ Latency(s).id \notin Orders
  /\ \A f, g \in Fires : Resolution(f) = Resolution(g) \/ Pending(f) = Pending(g) => f = g
  /\ \A f \in Fires, s \in Samples : Latency(s) # Resolution(f)
  /\ \A f \in Fires, r \in Rejects : Rejected(r) # Pending(f)
  /\ \A r, q \in Rejects : Rejected(r) = Rejected(q) => r = q
  /\ \A j \in Keyed : j \in Jobs /\ j.id \in Orders /\ j.table = "orders_fired"
  /\ \A i, j \in Keyed : i.id = j.id => i = j
  /\ \A j \in Jobs : j.id \in Orders => j \in Keyed \/ \E f \in Fires : j = Resolution(f)
  /\ \A j \in Keyed : j.id \in Fires => j = Pending(j.id)
  /\ \A i \in Orders : i \in Fires \/ i \in Rejects
<1>1. /\ \A x : /\ Pending(x).table = "orders_fired" /\ Pending(x).id = x
                /\ Rejected(x) = Pending(x)
                /\ Resolution(x).table = "orders_fired__resolution" /\ Resolution(x).id = x
                /\ Latency(x).table = "latency_events" /\ Latency(x).id = x
      /\ Stop.table = "stop"
  BY DEF Stop, Pending, Resolution, Rejected, Latency
<1>2. \A j : j \in Keyed <=> (\E f \in Fires : j = Pending(f)) \/ (\E r \in Rejects : j = Rejected(r))
  BY DEF Keyed
<1>3. \A j : j \in Jobs <=> (\/ j \in Keyed
                             \/ \E f \in Fires : j = Resolution(f)
                             \/ \E s \in Samples : j = Latency(s))
  <2>1. \A j : j \in Jobs <=> (\/ \E f \in Fires : j = Pending(f)
                               \/ \E f \in Fires : j = Resolution(f)
                               \/ \E r \in Rejects : j = Rejected(r)
                               \/ \E s \in Samples : j = Latency(s))
    BY DEF Jobs
  <2> QED BY <1>2, <2>1, Zenon
<1>4. /\ \A x \in Fires : x \notin Rejects /\ x \in Orders /\ x \notin Samples
      /\ \A x \in Rejects : x \in Orders /\ x \notin Samples
      /\ \A x \in Orders : x \in Fires \/ x \in Rejects
  BY QueueConstants DEF Orders
<1>5. \A j \in Keyed : j.table = "orders_fired" /\ j = Pending(j.id)
  BY <1>1, <1>2
<1>6. Stop \notin Jobs
  BY <1>1, <1>2, <1>3, <1>5
<1>7. \A f \in Fires : /\ Pending(f) \in Keyed /\ Resolution(f) \in Jobs \ Keyed
                       /\ Pending(f).id = f /\ Resolution(f).id = f
                       /\ Resolution(f).table # "orders_fired" /\ f \in Orders /\ f \notin Rejects
  BY <1>1, <1>2, <1>3, <1>4, <1>5
<1>8. \A r \in Rejects : Rejected(r) \in Keyed /\ Rejected(r).id = r /\ r \in Orders /\ r \notin Fires
  BY <1>1, <1>2, <1>4
<1>9. \A s \in Samples : Latency(s) \in Jobs \ Keyed /\ Latency(s).id \notin Orders
  <2> SUFFICES ASSUME NEW s \in Samples PROVE Latency(s) \in Jobs \ Keyed /\ Latency(s).id \notin Orders
    OBVIOUS
  <2>1. Latency(s) \in Jobs
    BY <1>3
  <2>2. Latency(s).table # "orders_fired" /\ Latency(s).id = s
    BY <1>1
  <2> QED BY <1>4, <1>5, <2>1, <2>2
<1>10. /\ \A f, g \in Fires : Resolution(f) = Resolution(g) \/ Pending(f) = Pending(g) => f = g
       /\ \A f \in Fires, s \in Samples : Latency(s) # Resolution(f)
       /\ \A f \in Fires, r \in Rejects : Rejected(r) # Pending(f)
       /\ \A r, q \in Rejects : Rejected(r) = Rejected(q) => r = q
  BY <1>1, <1>4
<1>11. \A j \in Keyed : j \in Jobs /\ j.id \in Orders /\ j.table = "orders_fired"
  BY <1>1, <1>2, <1>3, <1>4, <1>5
<1>12. /\ \A i, j \in Keyed : i.id = j.id => i = j
       /\ \A j \in Keyed : j.id \in Fires => j = Pending(j.id)
  BY <1>5, Zenon
<1>13. \A j \in Jobs : j.id \in Orders => j \in Keyed \/ \E f \in Fires : j = Resolution(f)
  BY <1>3, <1>9
<1> QED BY <1>4, <1>6, <1>7, <1>8, <1>9, <1>10, <1>11, <1>12, <1>13, Zenon
-----------------------------------------------------------------------------
(* A job is offered: the queue takes it, drops it, or refuses it after close(). *)

\* The threads move on, and never backwards.
Onward ==
  /\ loop \in [at: {"free", "put", "closing", "joining", "closed", "dead"}, job: Jobs \cup {Stop}]
  /\ pool \in [Rejects -> {"new", "submitted", "put", "done"}]
  /\ fire \in [Fires -> {"new", "sent", "ended"}]

LEMMA OfferKeeps ==
  ASSUME IInv, Onward', Born', NEW j \in Jobs, fate[j] = "unborn",
         NEW v \in {"queued", "dropped", "raised"}, fate' = [fate EXCEPT ![j] = v],
         \/ v = "queued" /\ Len(queue) < MaxQueue /\ queue' = Append(queue, j)
         \/ v # "queued" /\ queue' = queue,
         dropped' \in Nat, UNCHANGED <<writerVars, closing>>,
         loop'.at = loop.at \/ (loop.at = "put" /\ loop'.at = "free"),
         \A f \in Fires : /\ fire[f] # "new" => fire'[f] # "new"
                          /\ fire[f] = "ended" => fire'[f] = "ended"
  PROVE  IInv'
<1>0. /\ writer' = writer /\ batch' = batch /\ db' = db /\ txn' = txn /\ errors' = errors
      /\ closing' = closing
  BY DEF writerVars
<1>1. TypeOK
  BY DEF IInv
<1>2. /\ fate'[j] = v /\ \A i \in Jobs \ {j} : fate'[i] = fate[i]
      /\ fate' \in [Jobs -> Fates]
  BY <1>1 DEF TypeOK, Fates
<1>3. /\ \A k \in DOMAIN queue : queue[k] # j /\ queue[k] \in Jobs \cup {Stop}
      /\ \A k \in DOMAIN batch : batch[k] # j /\ batch[k] \in Jobs
  <2>1. \A k \in DOMAIN queue : queue[k] # j
    BY Kinds DEF IInv, Held
  <2>2. \A k \in DOMAIN batch : batch[k] # j
    BY DEF IInv, Held, Decided
  <2> QED BY <1>1, <2>1, <2>2, Indices
<1>4. /\ queue' \in Seq(Jobs \cup {Stop}) /\ Len(queue') <= MaxQueue
      /\ \A k \in DOMAIN queue : k \in DOMAIN queue' /\ queue'[k] = queue[k]
      /\ \A k \in DOMAIN queue' : k \in DOMAIN queue
           \/ (queue'[k] = j /\ v = "queued" /\ k = Len(queue) + 1)
      /\ \A k \in DOMAIN queue : k < Len(queue) + 1
      /\ v = "queued" => Len(queue) + 1 \in DOMAIN queue' /\ queue'[Len(queue) + 1] = j
  <2>1. queue \in Seq(Jobs \cup {Stop}) /\ j \in Jobs \cup {Stop} /\ Len(queue) <= MaxQueue
        /\ MaxQueue \in Nat /\ Len(queue) \in Nat
    BY <1>1, Indices DEF TypeOK
  <2>2. CASE v = "queued" /\ Len(queue) < MaxQueue /\ queue' = Append(queue, j)
    BY <2>1, <2>2, AppendFacts
  <2>3. CASE v # "queued" /\ queue' = queue
    <3>1. \A k \in DOMAIN queue : k < Len(queue) + 1
      BY <2>1
    <3> QED BY <2>1, <2>3, <3>1
  <2> QED BY <2>2, <2>3
<1>5. TypeOK'
  BY <1>0, <1>1, <1>2, <1>4 DEF TypeOK, Onward
<1>6. Held'
  <2>1. \A k \in DOMAIN queue' : queue'[k] # Stop => fate'[queue'[k]] = "queued"
    BY <1>2, <1>3, <1>4 DEF IInv, Held
  <2>2. \A k \in DOMAIN batch : fate'[batch[k]] = fate[batch[k]]
    BY <1>2, <1>3
  <2> QED BY <1>0, <2>1, <2>2 DEF IInv, Held
<1>7. InTurn'
  <2>1. \A a, b : MayPrecede(a, b)' <=> MayPrecede(a, b)
    BY <1>0 DEF MayPrecede
  <2>2. \A f \in Fires : j = Pending(f) => fate[Resolution(f)] = "unborn"
    BY <1>1 DEF IInv, Born, TypeOK
  <2>4. j \notin closing
    BY DEF IInv, SentinelLast, Decided
  <2>5. \A k \in DOMAIN queue : MayPrecede(queue[k], j)
    BY <1>3, <2>2, <2>4, Kinds DEF MayPrecede, IInv, Held
  <2>6. \A k \in DOMAIN batch : MayPrecede(batch[k], j)
    BY <1>3, <2>2, <2>4, Kinds DEF MayPrecede, IInv, Held, Decided
  <2>7. \A k, l \in DOMAIN queue' : k < l => MayPrecede(queue'[k], queue'[l])
    <3> SUFFICES ASSUME NEW k \in DOMAIN queue', NEW l \in DOMAIN queue', k < l
                 PROVE  MayPrecede(queue'[k], queue'[l])
      OBVIOUS
    <3>1. k \in DOMAIN queue
      <4>1. Len(queue) \in Nat /\ \A m \in DOMAIN queue : m \in Nat
        BY <1>1, Indices
      <4> QED BY <1>4, <4>1
    <3>2. CASE l \in DOMAIN queue
      BY <1>4, <3>1, <3>2 DEF IInv, InTurn
    <3>3. CASE l \notin DOMAIN queue
      BY <1>4, <2>5, <3>1, <3>3
    <3> QED BY <3>2, <3>3
  <2>8. \A k \in DOMAIN batch, l \in DOMAIN queue' : MayPrecede(batch[k], queue'[l])
    BY <1>4, <2>6 DEF IInv, InTurn
  <2>9. \A k, l \in DOMAIN batch : k < l => MayPrecede(batch[k], batch[l])
    BY DEF IInv, InTurn
  <2> HIDE DEF MayPrecede
  <2> QED BY <1>0, <2>1, <2>7, <2>8, <2>9 DEF InTurn
<1>8. WriterIdle' /\ Resolutions' /\ Honest'
  <2>1. WriterIdle'
    BY <1>0 DEF IInv, WriterIdle
  <2>2. Alive' => Alive
    BY DEF Alive
  <2>3. Resolutions'
    BY <1>0, <2>2 DEF IInv, Resolutions
  <2>4. Honest'
    BY <1>0 DEF IInv, Honest
  <2> QED BY <2>1, <2>3, <2>4
<1>9. Keys'
  <2> SUFFICES ASSUME NEW i \in Keyed PROVE Keys!(i)'
    BY DEF Keys
  <2> QED BY <1>0, <1>2, <1>3, <1>4, Kinds DEF IInv, Keys
<1>10. SentinelLast'
  <2>1. loop'.at \in {"free", "put", "closing"} => loop.at \in {"free", "put", "closing"}
    OBVIOUS
  <2>2. \A i \in closing : i # j
    BY DEF IInv, SentinelLast, Decided
  <2>3. \A i \in closing : i \in Jobs
    BY <1>1 DEF TypeOK
  <2>4. \A k \in DOMAIN queue' : queue'[k] = j \/ (k \in DOMAIN queue /\ queue'[k] = queue[k])
    BY <1>4
  <2> QED BY <1>0, <1>2, <2>1, <2>2, <2>3, <2>4, Kinds DEF IInv, SentinelLast
<1>11. Traced'
  <2> SUFFICES ASSUME NEW i \in Jobs, fate'[i] = "queued"
               PROVE  InHand(i)'
    BY DEF Traced
  <2>1. CASE i = j
    BY <1>2, <1>4, <2>1 DEF InHand
  <2>2. CASE i # j
    <3>1. InHand(i)
      BY <1>2, <2>2 DEF IInv, Traced
    <3> QED BY <1>0, <1>4, <3>1 DEF InHand
  <2> QED BY <2>1, <2>2
<1>12. ResolutionStands' /\ OnlyBadRowsRefused'
  BY <1>0, <1>2, Kinds DEF IInv, ResolutionStands, OnlyBadRowsRefused
<1> QED BY <1>5, <1>6, <1>7, <1>8, <1>9, <1>10, <1>11, <1>12 DEF IInv
\* EnqueueNow offers its job, and takes it or drops it.
LEMMA EnqueueOffers ==
  ASSUME TypeOK, NEW j \in Jobs,
         \/ EnqueueNow(j) \/ (~Full /\ Put(j)) \/ (Full /\ _record_drop(j))
  PROVE  \E v \in {"queued", "dropped", "raised"} :
           /\ fate' = [fate EXCEPT ![j] = v] /\ dropped' \in Nat
           /\ \/ v = "queued" /\ Len(queue) < MaxQueue /\ queue' = Append(queue, j)
              \/ v # "queued" /\ queue' = queue
<1>1. dropped \in Nat /\ Len(queue) \in Nat /\ MaxQueue \in Nat
  BY Indices DEF TypeOK
<1>2. CASE ~Full /\ Put(j)
  BY <1>1, <1>2 DEF Full, Put
<1>3. CASE Full /\ _record_drop(j)
  BY <1>1, <1>3 DEF _record_drop
<1> QED BY <1>2, <1>3 DEF EnqueueNow

LEMMA BeginKeeps ==
  ASSUME IInv, NEW f \in Fires, BeginDispatch(f)
  PROVE  IInv'
<1>0. /\ fire[f] = "new" /\ fire' = [fire EXCEPT ![f] = "sent"] /\ EnqueueNow(Pending(f))
      /\ UNCHANGED <<loop, pool, writerVars, closing>> /\ loop.at = "free"
      /\ Pending(f) \in Jobs /\ fate[Pending(f)] = "unborn"
  BY Kinds DEF BeginDispatch, IInv, Born
<1>1. TypeOK
  BY DEF IInv
<1>2. PICK v \in {"queued", "dropped", "raised"} :
        /\ fate' = [fate EXCEPT ![Pending(f)] = v] /\ dropped' \in Nat
        /\ \/ v = "queued" /\ Len(queue) < MaxQueue /\ queue' = Append(queue, Pending(f))
           \/ v # "queued" /\ queue' = queue
  BY <1>0, <1>1, EnqueueOffers
<1>3. /\ fire'[f] = "sent" /\ \A g \in Fires \ {f} : fire'[g] = fire[g]
      /\ fire' \in [Fires -> {"new", "sent", "ended"}]
      /\ fate'[Pending(f)] = v /\ \A i \in Jobs \ {Pending(f)} : fate'[i] = fate[i]
  BY <1>0, <1>1, <1>2 DEF TypeOK
<1>4. Onward'
  BY <1>0, <1>1, <1>3 DEF Onward, TypeOK
<1>5. Born'
  BY <1>0, <1>3, Kinds DEF IInv, Born
<1> QED BY <1>0, <1>2, <1>3, <1>4, <1>5, OfferKeeps

\* The order's resolution is offered, or waits for a place with the loop.
LEMMA ResolveKeeps ==
  ASSUME IInv, NEW f \in Fires, record_order_resolution(f)
  PROVE  IInv'
<1>0. /\ fire[f] = "sent" /\ fire' = [fire EXCEPT ![f] = "ended"] /\ loop.at = "free"
      /\ UNCHANGED <<pool, writerVars, closing>>
      /\ Resolution(f) \in Jobs /\ fate[Resolution(f)] = "unborn"
  BY Kinds DEF record_order_resolution, IInv, Born
<1>1. TypeOK
  BY DEF IInv
<1>2. /\ fire'[f] = "ended" /\ \A g \in Fires \ {f} : fire'[g] = fire[g]
      /\ fire' \in [Fires -> {"new", "sent", "ended"}]
  BY <1>0, <1>1 DEF TypeOK
<1>3. CASE ~Full /\ Put(Resolution(f)) /\ loop' = loop
  <2>1. PICK v \in {"queued", "dropped", "raised"} :
          /\ fate' = [fate EXCEPT ![Resolution(f)] = v] /\ dropped' \in Nat
          /\ \/ v = "queued" /\ Len(queue) < MaxQueue /\ queue' = Append(queue, Resolution(f))
             \/ v # "queued" /\ queue' = queue
    BY <1>0, <1>1, <1>3, EnqueueOffers
  <2>2. fate'[Resolution(f)] = v /\ \A i \in Jobs \ {Resolution(f)} : fate'[i] = fate[i]
    BY <1>0, <1>1, <2>1 DEF TypeOK
  <2>3. Onward'
    BY <1>0, <1>1, <1>2, <1>3 DEF Onward, TypeOK
  <2>4. \A j \in Keyed : fate'[j] = fate[j]
    BY <2>2, Kinds
  <2>5. v # "unborn"
    OBVIOUS
  <2>6. Born'
    BY <1>0, <1>2, <1>3, <2>2, <2>4, <2>5, Kinds DEF IInv, Born
  <2> QED BY <1>0, <1>2, <1>3, <2>1, <2>3, <2>6, OfferKeeps
<1>4. CASE loop' = [at |-> "put", job |-> Resolution(f)] /\ UNCHANGED <<queue, dropped, fate>>
  <2>0. /\ loop'.at = "put" /\ loop'.job = Resolution(f) /\ queue' = queue /\ dropped' = dropped
        /\ fate' = fate /\ pool' = pool /\ writer' = writer /\ batch' = batch /\ db' = db
        /\ txn' = txn /\ errors' = errors /\ closing' = closing
    BY <1>0, <1>4 DEF writerVars
  <2>1. TypeOK'
    BY <1>0, <1>1, <1>2, <1>4, <2>0 DEF TypeOK
  <2>2. Born'
    BY <1>0, <1>2, <2>0 DEF IInv, Born
  <2>3. Held' /\ InTurn' /\ WriterIdle' /\ Keys'
    BY <2>0 DEF IInv, Held, InTurn, MayPrecede, WriterIdle, Keys
  <2>4. Honest'
    BY <1>0, <1>2, <2>0 DEF IInv, Honest
  <2>5. Resolutions' /\ SentinelLast'
    BY <1>0, <2>0 DEF IInv, Resolutions, SentinelLast, Alive
  <2>6. Traced' /\ ResolutionStands' /\ OnlyBadRowsRefused'
    BY <2>0 DEF IInv, Traced, InHand, ResolutionStands, OnlyBadRowsRefused
  <2> QED BY <2>1, <2>2, <2>3, <2>4, <2>5, <2>6 DEF IInv
<1> QED BY <1>3, <1>4 DEF record_order_resolution

\* The wait of the loop ends with a place on the queue, or with a drop.
LEMMA LoopWaitKeeps ==
  ASSUME IInv, LoopPut \/ LoopTimeout
  PROVE  IInv'
<1> DEFINE j == loop.job
<1>0. /\ loop.at = "put" /\ loop' = [at |-> "free", job |-> Stop]
      /\ UNCHANGED <<pool, fire, writerVars, closing>>
      /\ (~Full /\ Put(j)) \/ (Full /\ _record_drop(j))
  BY DEF LoopPut, LoopTimeout
<1>1. TypeOK
  BY DEF IInv
<1>2. PICK f \in Fires : j = Resolution(f) /\ fire[f] = "ended" /\ fate[j] = "unborn"
  BY <1>0 DEF IInv, Born
<1>3. j \in Jobs \ Keyed
  BY <1>2, Kinds
<1> HIDE DEF j
<1>4. PICK v \in {"queued", "dropped", "raised"} :
        /\ fate' = [fate EXCEPT ![j] = v] /\ dropped' \in Nat
        /\ \/ v = "queued" /\ Len(queue) < MaxQueue /\ queue' = Append(queue, j)
           \/ v # "queued" /\ queue' = queue
  BY <1>0, <1>1, <1>3, EnqueueOffers
<1>5. fate'[j] = v /\ \A i \in Jobs \ {j} : fate'[i] = fate[i]
  BY <1>1, <1>3, <1>4 DEF TypeOK
<1>6. Onward'
  BY <1>0, <1>1 DEF Onward, TypeOK
<1>7. Born'
  <2>1. \A i \in Keyed : fate'[i] = fate[i]
    BY <1>3, <1>5, Kinds
  <2>2. \A g \in Fires : fire[g] # "ended" => fate'[Resolution(g)] = "unborn"
    BY <1>2, <1>5, Kinds DEF IInv, Born
  <2> QED BY <1>0, <2>1, <2>2, Kinds DEF IInv, Born
<1> QED BY <1>0, <1>2, <1>3, <1>4, <1>6, <1>7, OfferKeeps

LEMMA LatencyKeeps ==
  ASSUME IInv, NEW s \in Samples, record_latency_event(s)
  PROVE  IInv'
<1> DEFINE j == Latency(s)
<1>0. /\ loop.at = "free" /\ fate[j] = "unborn" /\ EnqueueNow(j)
      /\ UNCHANGED <<loop, pool, fire, writerVars, closing>>
  BY DEF record_latency_event
<1>1. TypeOK
  BY DEF IInv
<1>2. j \in Jobs \ Keyed /\ \A f \in Fires : j # Resolution(f)
  BY Kinds
<1> HIDE DEF j
<1>4. PICK v \in {"queued", "dropped", "raised"} :
        /\ fate' = [fate EXCEPT ![j] = v] /\ dropped' \in Nat
        /\ \/ v = "queued" /\ Len(queue) < MaxQueue /\ queue' = Append(queue, j)
           \/ v # "queued" /\ queue' = queue
  BY <1>0, <1>1, <1>2, EnqueueOffers
<1>5. \A i \in Jobs \ {j} : fate'[i] = fate[i]
  BY <1>1, <1>4 DEF TypeOK
<1>6. Onward'
  BY <1>0, <1>1 DEF Onward, TypeOK
<1>7. (\A i \in Keyed : fate'[i] = fate[i]) /\ \A f \in Fires : fate'[Resolution(f)] = fate[Resolution(f)]
  BY <1>2, <1>5, Kinds
<1>8. Born'
  BY <1>0, <1>7, Kinds DEF IInv, Born
<1> QED BY <1>0, <1>2, <1>4, <1>6, <1>8, OfferKeeps
\* The pool thread offers the row of a refused fire, waits with it, or gives it up.
LEMMA PoolKeeps ==
  ASSUME IInv, NEW r \in Rejects, Pool(r)
  PROVE  IInv'
<1> DEFINE j == Rejected(r)
<1>0. /\ Alive /\ pool[r] \in {"submitted", "put"}
      /\ UNCHANGED <<loop, fire, writerVars, closing>>
  BY DEF Pool, PoolEnqueue, PoolPut, PoolTimeout
<1>1. TypeOK
  BY DEF IInv
<1>2. j \in Keyed /\ j \in Jobs /\ fate[j] = "unborn" /\ (\A f \in Fires : j # Pending(f) /\ j # Resolution(f))
      /\ \A q \in Rejects : j = Rejected(q) => q = r
  BY <1>0, Kinds DEF IInv, Born
<1> HIDE DEF j
<1>3. CASE pool' = [pool EXCEPT ![r] = "done"]
           /\ \/ (~Full /\ Put(j)) \/ (Full /\ _record_drop(j))
              \/ fate' = [fate EXCEPT ![j] = "raised"] /\ UNCHANGED <<queue, dropped>>
  <2>1. PICK v \in {"queued", "dropped", "raised"} :
          /\ fate' = [fate EXCEPT ![j] = v] /\ dropped' \in Nat
          /\ \/ v = "queued" /\ Len(queue) < MaxQueue /\ queue' = Append(queue, j)
             \/ v # "queued" /\ queue' = queue
    <3>1. CASE fate' = [fate EXCEPT ![j] = "raised"] /\ UNCHANGED <<queue, dropped>>
      <4>1. "raised" # "queued" /\ dropped' \in Nat /\ queue' = queue
        BY <1>1, <3>1 DEF TypeOK
      <4> QED BY <3>1, <4>1
    <3> QED BY <1>1, <1>2, <1>3, <3>1, EnqueueOffers
  <2>2. \A i \in Jobs \ {j} : fate'[i] = fate[i]
    BY <1>1, <2>1 DEF TypeOK
  <2>3. pool'[r] = "done" /\ (\A q \in Rejects \ {r} : pool'[q] = pool[q])
        /\ pool' \in [Rejects -> {"new", "submitted", "put", "done"}]
    BY <1>1, <1>3 DEF TypeOK
  <2>4. Onward'
    BY <1>0, <1>1, <2>3 DEF Onward, TypeOK
  <2>5. /\ \A f \in Fires : fate'[Pending(f)] = fate[Pending(f)] /\ fate'[Resolution(f)] = fate[Resolution(f)]
        /\ \A q \in Rejects \ {r} : fate'[Rejected(q)] = fate[Rejected(q)]
    BY <1>2, <2>2, Kinds
  <2>6. Born'
    BY <1>0, <2>3, <2>5, Kinds DEF IInv, Born
  <2> QED BY <1>0, <1>2, <2>1, <2>4, <2>6, OfferKeeps
<1>4. CASE pool' = [pool EXCEPT ![r] = "put"] /\ UNCHANGED <<queue, dropped, fate>>
  <2>0. /\ loop' = loop /\ fire' = fire /\ queue' = queue /\ dropped' = dropped
        /\ fate' = fate /\ writer' = writer /\ batch' = batch /\ db' = db
        /\ txn' = txn /\ errors' = errors /\ closing' = closing
    BY <1>0, <1>4 DEF writerVars
  <2>1. pool'[r] = "put" /\ (\A q \in Rejects \ {r} : pool'[q] = pool[q])
        /\ pool' \in [Rejects -> {"new", "submitted", "put", "done"}]
    BY <1>1, <1>4 DEF TypeOK
  <2>2. TypeOK'
    BY <1>1, <2>0, <2>1 DEF TypeOK
  <2>3. Born'
    BY <1>2, <2>0, <2>1 DEF IInv, Born, j
  <2>4. Held' /\ InTurn' /\ WriterIdle' /\ Keys' /\ Honest' /\ Resolutions' /\ SentinelLast'
    BY <2>0 DEF IInv, Held, InTurn, MayPrecede, WriterIdle, Keys, Honest, Resolutions, SentinelLast, Alive
  <2>5. Traced' /\ ResolutionStands' /\ OnlyBadRowsRefused'
    BY <2>0 DEF IInv, Traced, InHand, ResolutionStands, OnlyBadRowsRefused
  <2> QED BY <2>2, <2>3, <2>4, <2>5 DEF IInv
<1> QED BY <1>3, <1>4 DEF Pool, PoolEnqueue, PoolPut, PoolTimeout, j

-----------------------------------------------------------------------------
(* The loop's other steps: no row moves.                                   *)

LEMMA LoopOnlyKeeps ==
  ASSUME IInv, Onward', Born', SentinelLast', InTurn', closing' \subseteq Jobs,
         UNCHANGED <<queue, dropped, fire, writerVars, fate>>, Alive' => Alive
  PROVE  IInv'
<1>0. /\ queue' = queue /\ dropped' = dropped /\ fire' = fire /\ fate' = fate
      /\ writer' = writer /\ batch' = batch /\ db' = db /\ txn' = txn /\ errors' = errors
  BY DEF writerVars
<1>1. TypeOK'
  BY <1>0 DEF IInv, TypeOK, Onward
<1>2. Held' /\ WriterIdle' /\ Keys' /\ Honest' /\ Resolutions'
  BY <1>0 DEF IInv, Held, WriterIdle, Keys, Honest, Resolutions
<1>3. Traced' /\ ResolutionStands' /\ OnlyBadRowsRefused'
  BY <1>0 DEF IInv, Traced, InHand, ResolutionStands, OnlyBadRowsRefused
<1> QED BY <1>1, <1>2, <1>3 DEF IInv

LEMMA SubmitKeeps ==
  ASSUME IInv, NEW r \in Rejects, _record_rejected(r)
  PROVE  IInv'
<1>0. /\ pool[r] = "new" /\ pool' = [pool EXCEPT ![r] = "submitted"]
      /\ UNCHANGED <<queue, dropped, loop, fire, writerVars, fate, closing>>
      /\ queue' = queue /\ batch' = batch /\ writer' = writer /\ fire' = fire /\ fate' = fate
      /\ loop' = loop /\ closing' = closing
  BY DEF _record_rejected, writerVars
<1>1. pool'[r] = "submitted" /\ (\A q \in Rejects \ {r} : pool'[q] = pool[q])
      /\ pool' \in [Rejects -> {"new", "submitted", "put", "done"}]
  BY <1>0 DEF IInv, TypeOK
<1>2. Onward' /\ (Alive' => Alive) /\ closing' \subseteq Jobs
  BY <1>0, <1>1 DEF IInv, TypeOK, Onward, Alive
<1>3. Born'
  BY <1>0, <1>1 DEF IInv, Born
<1>4. InTurn' /\ SentinelLast'
  BY <1>0 DEF IInv, InTurn, MayPrecede, SentinelLast
<1> QED BY <1>0, <1>2, <1>3, <1>4, LoopOnlyKeeps

\* close() notes what is on the queue and in the writer's hands: no sentinel is
\* on the queue yet, so all of it is rows.
LEMMA CloseKeeps ==
  ASSUME IInv, close
  PROVE  IInv'
<1>0. /\ loop.at = "free" /\ loop' = [at |-> "closing", job |-> Stop]
      /\ UNCHANGED <<queue, dropped, fire, writerVars, fate>>
      /\ closing' = Members(queue) \cup Members(batch)
      /\ queue' = queue /\ batch' = batch /\ writer' = writer /\ fire' = fire /\ fate' = fate
      /\ pool' = pool
  BY DEF close, writerVars
<1>1. TypeOK
  BY DEF IInv
<1>2. \A k \in DOMAIN queue : queue[k] # Stop /\ queue[k] \in Jobs
  BY <1>0, <1>1, Indices DEF IInv, SentinelLast
<1>3. \A i \in closing' : (\E k \in DOMAIN queue : i = queue[k]) \/ (\E k \in DOMAIN batch : i = batch[k])
  BY <1>0 DEF Members
<1>4. closing' \subseteq Jobs
  BY <1>1, <1>2, <1>3, Indices
<1>5. Onward' /\ (Alive' => Alive)
  BY <1>0, <1>1 DEF TypeOK, Onward, Alive
<1>6. Born'
  BY <1>0 DEF IInv, Born
<1>7. InTurn'
  <2>1. \A a, b : a # Stop /\ MayPrecede(a, b) => MayPrecede(a, b)'
    BY DEF MayPrecede
  <2>2. (\A k \in DOMAIN queue : queue[k] # Stop) /\ \A k \in DOMAIN batch : batch[k] # Stop
    BY <1>1, <1>2, Indices, Kinds
  <2> QED BY <1>0, <2>1, <2>2 DEF IInv, InTurn
<1>8. SentinelLast'
  <2>1. \A i \in closing' : fate[i] \in {"queued", "lost"} \cup Decided
    BY <1>2, <1>3 DEF IInv, Held
  <2>2. loop'.at = "closing" /\ writer.at \notin {"requeue", "stopped", "died"}
    BY <1>0 DEF IInv, SentinelLast
  <2> QED BY <1>0, <1>2, <2>1, <2>2 DEF SentinelLast
<1> QED BY <1>0, <1>4, <1>5, <1>6, <1>7, <1>8, LoopOnlyKeeps

LEMMA JoinKeeps ==
  ASSUME IInv, Join
  PROVE  IInv'
<1>0. /\ loop'.at = "closed" /\ loop'.job = loop.job
      /\ loop' \in [at: {"free", "put", "closing", "joining", "closed", "dead"}, job: Jobs \cup {Stop}]
      /\ UNCHANGED <<queue, dropped, fire, writerVars, fate>> /\ closing' = closing /\ pool' = pool
      /\ queue' = queue /\ batch' = batch /\ fire' = fire /\ fate' = fate /\ writer' = writer
      /\ Alive
  BY DEF Join, writerVars, IInv, TypeOK, Alive
<1>1. Onward' /\ closing' \subseteq Jobs
  BY <1>0 DEF IInv, TypeOK, Onward
<1>2. Born' /\ InTurn' /\ SentinelLast'
  BY <1>0 DEF IInv, Born, InTurn, MayPrecede, SentinelLast
<1> QED BY <1>0, <1>1, <1>2, LoopOnlyKeeps

\* The process dies: nothing is in hand any more, and what was is lost.
LEMMA CrashKeeps ==
  ASSUME IInv, Crash
  PROVE  IInv'
<1>0. /\ loop' = [at |-> "dead", job |-> Stop] /\ queue' = <<>> /\ batch' = <<>> /\ txn' = db
      /\ fate' = [j \in Jobs |-> IF fate[j] = "queued" THEN "lost" ELSE fate[j]]
      /\ dropped' = dropped /\ pool' = pool /\ fire' = fire /\ writer' = writer /\ db' = db
      /\ errors' = errors /\ closing' = closing
  BY DEF Crash
<1>1. \A j \in Jobs : \/ fate[j] = "queued" /\ fate'[j] = "lost"
                      \/ fate[j] # "queued" /\ fate'[j] = fate[j]
  BY <1>0
<1>2. TypeOK'
  <2>1. fate' \in [Jobs -> Fates]
    BY <1>0 DEF IInv, TypeOK, Fates
  <2>2. /\ <<>> \in Seq(Jobs) /\ <<>> \in Seq(Jobs \cup {Stop})
        /\ Len(<<>>) <= MaxQueue /\ Len(<<>>) <= MaxBatch
    BY QueueConstants
  <2> QED BY <1>0, <2>1, <2>2 DEF IInv, TypeOK
<1>3. Born'
  <2>1. \A j \in Jobs : fate'[j] = "unborn" <=> fate[j] = "unborn"
    BY <1>1
  <2> QED BY <1>0, <2>1, Kinds DEF IInv, Born
<1>4. Held' /\ InTurn' /\ WriterIdle' /\ Honest'
  BY <1>0 DEF IInv, Held, InTurn, WriterIdle, Honest
<1>5. Keys'
  <2>1. \A j \in Keyed : fate'[j] = "unborn" => fate[j] = "unborn"
    BY <1>1, Kinds
  <2> QED BY <1>0, <2>1 DEF IInv, Keys
<1>6. Resolutions'
  BY <1>0 DEF Resolutions, Alive
<1>7. SentinelLast'
  <2>1. \A j \in closing : fate'[j] \in {"queued", "lost"} \cup Decided
    BY <1>1 DEF IInv, SentinelLast, TypeOK
  <2> QED BY <1>0, <2>1 DEF SentinelLast
<1>8. Traced'
  BY <1>1 DEF Traced
<1>9. ResolutionStands' /\ OnlyBadRowsRefused'
  <2>1. \A j \in Jobs : fate'[j] \in {"written", "refused"} => fate'[j] = fate[j]
    BY <1>1
  <2> QED BY <1>0, <2>1, Kinds DEF IInv, ResolutionStands, OnlyBadRowsRefused
<1> QED BY <1>2, <1>3, <1>4, <1>5, <1>6, <1>7, <1>8, <1>9 DEF IInv
-----------------------------------------------------------------------------
(* The sentinel takes a place on the queue, from close() or from the writer. *)

LEMMA StopAppended ==
  ASSUME TypeOK, Held, InTurn, Len(queue) < MaxQueue, queue' = Append(queue, Stop),
         batch' = batch, closing' = closing
  PROVE  /\ queue' \in Seq(Jobs \cup {Stop}) /\ Len(queue') <= MaxQueue
         /\ \A k \in DOMAIN queue : k \in DOMAIN queue' /\ queue'[k] = queue[k]
         /\ \A k \in DOMAIN queue' : (k \in DOMAIN queue /\ queue'[k] = queue[k]) \/ queue'[k] = Stop
         /\ InTurn'
<1>1. /\ queue' \in Seq(Jobs \cup {Stop}) /\ Len(queue') = Len(queue) + 1
      /\ Len(queue) \in Nat /\ MaxQueue \in Nat
      /\ \A k \in DOMAIN queue : k \in DOMAIN queue' /\ k \in Nat /\ queue'[k] = queue[k]
                                 /\ k < Len(queue) + 1
      /\ \A k \in DOMAIN queue' : k \in DOMAIN queue \/ (k = Len(queue) + 1 /\ queue'[k] = Stop)
  <2>1. queue \in Seq(Jobs \cup {Stop}) /\ Stop \in Jobs \cup {Stop}
    BY DEF TypeOK
  <2> QED BY <2>1, AppendFacts, Indices
<1>2. \A a \in Jobs \cup {Stop} : MayPrecede(a, Stop)
  BY Kinds DEF MayPrecede, TypeOK
<1>3. \A a, b : MayPrecede(a, b)' <=> MayPrecede(a, b)
  BY DEF MayPrecede
<1>4. \A k, l \in DOMAIN queue' : k < l => MayPrecede(queue'[k], queue'[l])
  <2> SUFFICES ASSUME NEW k \in DOMAIN queue', NEW l \in DOMAIN queue', k < l
               PROVE  MayPrecede(queue'[k], queue'[l])
    OBVIOUS
  <2>1. k \in DOMAIN queue
    BY <1>1
  <2>2. CASE l \in DOMAIN queue
    BY <1>1, <2>1, <2>2 DEF InTurn
  <2>3. CASE l \notin DOMAIN queue
    BY <1>1, <1>2, <2>1, <2>3, Indices
  <2> QED BY <2>2, <2>3
<1>5. \A k \in DOMAIN batch, l \in DOMAIN queue' : MayPrecede(batch[k], queue'[l])
  BY <1>1, <1>2, Indices DEF InTurn
<1>6. InTurn'
  BY <1>3, <1>4, <1>5 DEF InTurn
<1> QED BY <1>1, <1>6

LEMMA PutSentinelKeeps ==
  ASSUME IInv, PutSentinel
  PROVE  IInv'
<1>0. /\ loop.at = "closing" /\ loop' = [loop EXCEPT !.at = "joining"] /\ loop'.at = "joining"
      /\ loop' \in [at: {"free", "put", "closing", "joining", "closed", "dead"}, job: Jobs \cup {Stop}]
      /\ queue' = Append(queue, Stop) /\ dropped' = dropped /\ fire' = fire /\ fate' = fate
      /\ writer' = writer /\ batch' = batch /\ db' = db /\ errors' = errors /\ txn' = txn
      /\ closing' = closing /\ pool' = pool /\ ~Full
  BY DEF PutSentinel, writerVars, IInv, TypeOK
<1>1. TypeOK /\ Held /\ InTurn /\ Len(queue) < MaxQueue
  BY <1>0, Indices DEF IInv, Full
<1>2. /\ queue' \in Seq(Jobs \cup {Stop}) /\ Len(queue') <= MaxQueue
      /\ \A k \in DOMAIN queue : k \in DOMAIN queue' /\ queue'[k] = queue[k]
      /\ \A k \in DOMAIN queue' : (k \in DOMAIN queue /\ queue'[k] = queue[k]) \/ queue'[k] = Stop
      /\ InTurn'
  BY <1>0, <1>1, StopAppended
<1>3. TypeOK'
  BY <1>0, <1>1, <1>2 DEF TypeOK
<1>4. Born' /\ WriterIdle' /\ Honest'
  BY <1>0 DEF IInv, Born, WriterIdle, Honest
<1>5. Held'
  BY <1>0, <1>2 DEF IInv, Held
<1>6. Keys'
  BY <1>0, <1>2, Kinds DEF IInv, Keys
<1>7. Resolutions'
  BY <1>0 DEF IInv, Resolutions, Alive
<1>8. SentinelLast'
  BY <1>0 DEF IInv, SentinelLast
<1>9. Traced'
  BY <1>0, <1>2 DEF IInv, Traced, InHand
<1>10. ResolutionStands' /\ OnlyBadRowsRefused'
  BY <1>0 DEF IInv, ResolutionStands, OnlyBadRowsRefused
<1> QED BY <1>2, <1>3, <1>4, <1>5, <1>6, <1>7, <1>8, <1>9, <1>10 DEF IInv

\* The writer puts the sentinel back, or dies of a full queue.
LEMMA RequeueKeeps ==
  ASSUME IInv, Requeue
  PROVE  IInv'
<1>0. /\ writer.at = "requeue" /\ dropped' = dropped /\ fire' = fire /\ fate' = fate
      /\ loop' = loop /\ batch' = batch /\ db' = db /\ errors' = errors /\ txn' = txn
      /\ closing' = closing /\ pool' = pool
  BY DEF Requeue, producers
<1>1. TypeOK /\ Held /\ InTurn
  BY DEF IInv
<1>2. writer.next = 1 /\ txn = db
  BY <1>0 DEF IInv, WriterIdle
<1>3. CASE ~Full /\ queue' = Append(queue, Stop) /\ writer' = [at |-> "batch", next |-> 1]
  <2>1. Len(queue) < MaxQueue
    BY <1>1, <1>3, Indices DEF Full
  <2>2. /\ queue' \in Seq(Jobs \cup {Stop}) /\ Len(queue') <= MaxQueue
        /\ \A k \in DOMAIN queue : k \in DOMAIN queue' /\ queue'[k] = queue[k]
        /\ \A k \in DOMAIN queue' : (k \in DOMAIN queue /\ queue'[k] = queue[k]) \/ queue'[k] = Stop
        /\ InTurn'
    BY <1>0, <1>1, <1>3, <2>1, StopAppended
  <2>3. writer'.at = "batch" /\ writer'.next = 1
        /\ writer' \in [at: {"get", "drain", "requeue", "batch", "rows", "stopped", "died"}, next: Nat \ {0}]
    BY <1>3
  <2>4. TypeOK'
    BY <1>0, <1>1, <2>2, <2>3 DEF TypeOK
  <2>5. Born' /\ WriterIdle' /\ Honest'
    BY <1>0, <1>2, <2>3 DEF IInv, Born, WriterIdle, Honest
  <2>6. Held'
    BY <1>0, <2>2, <2>3 DEF IInv, Held
  <2>7. Keys'
    BY <1>0, <1>2, <2>2, <2>3, Kinds DEF IInv, Keys
  <2>8. Resolutions'
    BY <1>0, <1>1, <2>3, Indices DEF IInv, Resolutions
  <2>9. SentinelLast'
    BY <1>0, <2>3 DEF IInv, SentinelLast
  <2>10. Traced'
    BY <1>0, <2>2, <2>3 DEF IInv, Traced, InHand
  <2>11. ResolutionStands' /\ OnlyBadRowsRefused'
    BY <1>0 DEF IInv, ResolutionStands, OnlyBadRowsRefused
  <2> QED BY <2>2, <2>4, <2>5, <2>6, <2>7, <2>8, <2>9, <2>10, <2>11 DEF IInv
<1>4. CASE writer' = [writer EXCEPT !.at = "died"] /\ queue' = queue
  <2>1. writer'.at = "died" /\ writer'.next = 1
        /\ writer' \in [at: {"get", "drain", "requeue", "batch", "rows", "stopped", "died"}, next: Nat \ {0}]
    BY <1>1, <1>2, <1>4 DEF TypeOK
  <2>2. TypeOK'
    BY <1>0, <1>1, <1>4, <2>1 DEF TypeOK
  <2>3. Born' /\ WriterIdle' /\ Honest' /\ InTurn' /\ Held'
    BY <1>0, <1>2, <1>4, <2>1 DEF IInv, Born, WriterIdle, Honest, InTurn, MayPrecede, Held
  <2>4. Keys' /\ Resolutions' /\ SentinelLast'
    BY <1>0, <1>2, <1>4, <2>1 DEF IInv, Keys, Resolutions, SentinelLast
  <2>5. Traced' /\ ResolutionStands' /\ OnlyBadRowsRefused'
    BY <1>0, <1>4, <2>1 DEF IInv, Traced, InHand, ResolutionStands, OnlyBadRowsRefused
  <2> QED BY <2>2, <2>3, <2>4, <2>5 DEF IInv
<1> QED BY <1>3, <1>4 DEF Requeue
-----------------------------------------------------------------------------
(* The writer drains the queue.                                            *)

\* A row goes from the head of the queue to the end of the batch.
LEMMA TakeKeeps ==
  ASSUME IInv, writer.at \in {"get", "drain"}, queue # <<>>, Head(queue) # Stop,
         Len(batch) < MaxBatch, queue' = Tail(queue), batch' = Append(batch, Head(queue)),
         writer' = [writer EXCEPT !.at = "drain"],
         UNCHANGED <<dropped, producers, db, txn, errors, fate>>
  PROVE  IInv'
<1> DEFINE j == Head(queue)
           n == Len(batch) + 1
<1>0. /\ dropped' = dropped /\ fire' = fire /\ fate' = fate
      /\ loop' = loop /\ db' = db /\ errors' = errors /\ txn' = txn
      /\ closing' = closing /\ pool' = pool
  BY DEF producers
<1>1. TypeOK
  BY DEF IInv
<1>2. /\ writer.next = 1 /\ txn = db /\ writer'.at = "drain" /\ writer'.next = 1
      /\ writer' \in [at: {"get", "drain", "requeue", "batch", "rows", "stopped", "died"}, next: Nat \ {0}]
  BY <1>1 DEF IInv, WriterIdle, TypeOK
<1>3. /\ j \in Jobs /\ 1 \in DOMAIN queue /\ queue[1] = j
      /\ queue' \in Seq(Jobs \cup {Stop}) /\ Len(queue') <= MaxQueue
      /\ \A k \in DOMAIN queue' : k \in Nat /\ k + 1 \in DOMAIN queue /\ 1 < k + 1 /\ queue'[k] = queue[k + 1]
      /\ \A k \in DOMAIN queue : k = 1 \/ (k - 1 \in DOMAIN queue' /\ queue'[k - 1] = queue[k])
  <2>1. queue \in Seq(Jobs \cup {Stop}) /\ Len(queue) <= MaxQueue /\ MaxQueue \in Nat
    BY <1>1, Indices DEF TypeOK
  <2> HIDE DEF j
  <2>2. Len(queue') = Len(queue) - 1 /\ Len(queue) \in Nat
    BY <2>1, TailFacts
  <2>3. Len(queue') <= MaxQueue
    BY <2>1, <2>2
  <2> QED BY <2>1, <2>3, TailFacts DEF j
<1>4. /\ batch' \in Seq(Jobs) /\ Len(batch') <= MaxBatch
      /\ \A k \in DOMAIN batch : k \in DOMAIN batch' /\ batch'[k] = batch[k] /\ k \in Nat /\ k < n
      /\ \A k \in DOMAIN batch' : k \in DOMAIN batch \/ (k = n /\ batch'[k] = j)
      /\ n \in DOMAIN batch' /\ batch'[n] = j
  <2>1. batch \in Seq(Jobs) /\ Len(batch) \in Nat /\ MaxBatch \in Nat /\ j \in Jobs
    BY <1>1, <1>3, Indices DEF TypeOK
  <2> HIDE DEF j
  <2>2. batch' = Append(batch, j)
    BY DEF j
  <2>3. Len(batch') = Len(batch) + 1
    BY <2>1, <2>2, AppendFacts
  <2>4. Len(batch') <= MaxBatch
    BY <2>1, <2>3
  <2> QED BY <2>1, <2>2, <2>4, AppendFacts
<1> HIDE DEF j
<1>5. n \in Nat
  BY <1>1, Indices
<1> HIDE DEF n
<1>6. TypeOK'
  BY <1>0, <1>1, <1>2, <1>3, <1>4 DEF TypeOK
<1>7. Born' /\ WriterIdle' /\ Honest' /\ Resolutions'
  BY <1>0, <1>2 DEF IInv, Born, WriterIdle, Honest, Resolutions
<1>8. Held'
  <2>1. fate[j] = "queued"
    BY <1>3, Kinds DEF IInv, Held
  <2> QED BY <1>0, <1>2, <1>3, <1>4, <2>1 DEF IInv, Held
<1>9. InTurn'
  <2>1. \A a, b : MayPrecede(a, b)' <=> MayPrecede(a, b)
    BY <1>0 DEF MayPrecede
  <2>2. \A k, l \in DOMAIN queue' : k < l => MayPrecede(queue'[k], queue'[l])
    <3> SUFFICES ASSUME NEW k \in DOMAIN queue', NEW l \in DOMAIN queue', k < l
                 PROVE  MayPrecede(queue'[k], queue'[l])
      OBVIOUS
    <3>1. k + 1 < l + 1 /\ k + 1 \in DOMAIN queue /\ l + 1 \in DOMAIN queue
      BY <1>3
    <3> QED BY <1>3, <3>1 DEF IInv, InTurn
  <2>3. \A k \in DOMAIN batch : MayPrecede(batch[k], j)
    BY <1>3 DEF IInv, InTurn
  <2>4. \A l \in DOMAIN queue' : MayPrecede(j, queue'[l])
    BY <1>3 DEF IInv, InTurn
  <2>5. \A k, l \in DOMAIN batch' : k < l => MayPrecede(batch'[k], batch'[l])
    <3> SUFFICES ASSUME NEW k \in DOMAIN batch', NEW l \in DOMAIN batch', k < l
                 PROVE  MayPrecede(batch'[k], batch'[l])
      OBVIOUS
    <3>1. k \in DOMAIN batch
      BY <1>4, <1>5
    <3>2. CASE l \in DOMAIN batch
      BY <1>4, <3>1, <3>2 DEF IInv, InTurn
    <3>3. CASE l \notin DOMAIN batch
      BY <1>4, <2>3, <3>1, <3>3
    <3> QED BY <3>2, <3>3
  <2>6. \A k \in DOMAIN batch', l \in DOMAIN queue' : MayPrecede(batch'[k], queue'[l])
    BY <1>3, <1>4, <2>4 DEF IInv, InTurn
  <2> QED BY <2>1, <2>2, <2>5, <2>6 DEF InTurn
<1>10. Keys'
  <2> SUFFICES ASSUME NEW i \in Keyed PROVE Keys!(i)'
    BY DEF Keys
  <2>1. txn[i.id] # "absent" =>
          /\ fate[i] # "unborn" /\ \A k \in DOMAIN queue : queue[k] # i
          /\ \A k \in DOMAIN batch : batch[k] # i
    BY <1>1, <1>2, Indices DEF IInv, Keys
  <2> QED BY <1>0, <1>2, <1>3, <1>4, <2>1
<1>11. SentinelLast'
  BY <1>0, <1>2, <1>3 DEF IInv, SentinelLast
<1>12. Traced'
  <2> SUFFICES ASSUME NEW i \in Jobs, fate'[i] = "queued" PROVE InHand(i)'
    BY DEF Traced
  <2>1. InHand(i)
    BY <1>0 DEF IInv, Traced
  <2>2. CASE \E k \in DOMAIN queue : queue[k] = i
    <3>1. PICK k \in DOMAIN queue : queue[k] = i
      BY <2>2
    <3>2. CASE k = 1
      <4>1. batch'[n] = i /\ n \in DOMAIN batch' /\ writer'.at # "rows"
        BY <1>2, <1>3, <1>4, <3>1, <3>2
      <4> QED BY <4>1 DEF InHand
    <3>3. CASE k # 1
      <4>1. queue'[k - 1] = i /\ k - 1 \in DOMAIN queue'
        BY <1>3, <3>1, <3>3
      <4> QED BY <4>1 DEF InHand
    <3> QED BY <3>2, <3>3
  <2>3. CASE \E k \in DOMAIN batch : batch[k] = i
    BY <1>2, <1>4, <2>3 DEF InHand
  <2> QED BY <2>1, <2>2, <2>3 DEF InHand
<1>13. ResolutionStands' /\ OnlyBadRowsRefused'
  BY <1>0 DEF IInv, ResolutionStands, OnlyBadRowsRefused
<1> QED BY <1>6, <1>7, <1>8, <1>9, <1>10, <1>11, <1>12, <1>13 DEF IInv

\* The sentinel leaves the queue: the writer stops, or is to put it back.
LEMMA SentinelKeeps ==
  ASSUME IInv, queue # <<>>, Head(queue) = Stop, queue' = Tail(queue), batch' = batch,
         NEW a \in {"stopped", "requeue"}, writer' = [writer EXCEPT !.at = a],
         \/ writer.at = "get"
         \/ writer.at = "drain" /\ a = "requeue",
         UNCHANGED <<dropped, producers, db, txn, errors, fate>>
  PROVE  IInv'
<1>0. /\ dropped' = dropped /\ fire' = fire /\ fate' = fate
      /\ loop' = loop /\ db' = db /\ errors' = errors /\ txn' = txn
      /\ closing' = closing /\ pool' = pool
  BY DEF producers
<1>1. TypeOK
  BY DEF IInv
<1>2. /\ writer.next = 1 /\ txn = db /\ writer'.at = a /\ writer'.next = 1
      /\ writer' \in [at: {"get", "drain", "requeue", "batch", "rows", "stopped", "died"}, next: Nat \ {0}]
      /\ a = "stopped" => batch = <<>>
  BY <1>1 DEF IInv, WriterIdle, TypeOK
<1>3. /\ 1 \in DOMAIN queue /\ queue[1] = Stop
      /\ queue' \in Seq(Jobs \cup {Stop}) /\ Len(queue') <= MaxQueue
      /\ \A k \in DOMAIN queue' : k \in Nat /\ k + 1 \in DOMAIN queue /\ 1 < k + 1 /\ queue'[k] = queue[k + 1]
      /\ \A k \in DOMAIN queue : k = 1 \/ (k - 1 \in DOMAIN queue' /\ queue'[k - 1] = queue[k])
  <2>1. queue \in Seq(Jobs \cup {Stop}) /\ Len(queue) <= MaxQueue /\ MaxQueue \in Nat
    BY <1>1, Indices DEF TypeOK
  <2>2. Len(queue') = Len(queue) - 1 /\ Len(queue) \in Nat
    BY <2>1, TailFacts
  <2>3. Len(queue') <= MaxQueue
    BY <2>1, <2>2
  <2> QED BY <2>1, <2>3, TailFacts
<1>4. TypeOK'
  BY <1>0, <1>1, <1>2, <1>3 DEF TypeOK
<1>5. Born' /\ WriterIdle' /\ Honest' /\ Resolutions'
  BY <1>0, <1>2 DEF IInv, Born, WriterIdle, Honest, Resolutions
<1>6. Held'
  BY <1>0, <1>2, <1>3 DEF IInv, Held
<1>7. InTurn'
  <2>1. \A b, c : MayPrecede(b, c)' <=> MayPrecede(b, c)
    BY <1>0 DEF MayPrecede
  <2>2. \A k, l \in DOMAIN queue' : k < l => MayPrecede(queue'[k], queue'[l])
    <3> SUFFICES ASSUME NEW k \in DOMAIN queue', NEW l \in DOMAIN queue', k < l
                 PROVE  MayPrecede(queue'[k], queue'[l])
      OBVIOUS
    <3>1. k + 1 < l + 1 /\ k + 1 \in DOMAIN queue /\ l + 1 \in DOMAIN queue
      BY <1>3
    <3> QED BY <1>3, <3>1 DEF IInv, InTurn
  <2> QED BY <1>3, <2>1, <2>2 DEF IInv, InTurn
<1>8. Keys'
  BY <1>0, <1>1, <1>2, <1>3, Indices DEF IInv, Keys
<1>9. SentinelLast'
  <2>1. \A l \in DOMAIN queue' : MayPrecede(Stop, queue'[l])
    BY <1>3 DEF IInv, InTurn
  <2>2. \A l \in DOMAIN queue' : queue'[l] \notin closing
    BY <2>1 DEF MayPrecede
  <2> QED BY <1>0, <1>2, <1>3, <2>2 DEF IInv, SentinelLast
<1>10. Traced'
  <2> SUFFICES ASSUME NEW i \in Jobs, fate'[i] = "queued" PROVE InHand(i)'
    BY DEF Traced
  <2>1. InHand(i) /\ i # Stop
    BY <1>0, Kinds DEF IInv, Traced
  <2>2. CASE \E k \in DOMAIN queue : queue[k] = i
    <3>1. PICK k \in DOMAIN queue : queue[k] = i
      BY <2>2
    <3>2. queue'[k - 1] = i /\ k - 1 \in DOMAIN queue'
      BY <1>3, <2>1, <3>1
    <3> QED BY <3>2 DEF InHand
  <2>3. CASE \E k \in DOMAIN batch : batch[k] = i
    BY <1>2, <2>3 DEF InHand
  <2> QED BY <2>1, <2>2, <2>3 DEF InHand
<1>11. ResolutionStands' /\ OnlyBadRowsRefused'
  BY <1>0 DEF IInv, ResolutionStands, OnlyBadRowsRefused
<1> QED BY <1>4, <1>5, <1>6, <1>7, <1>8, <1>9, <1>10, <1>11 DEF IInv

LEMMA DrainKeeps ==
  ASSUME IInv, DrainFirst \/ DrainMore
  PROVE  IInv'
<1>1. CASE DrainFirst
  <2>1. /\ writer.at = "get" /\ queue # <<>> /\ queue' = Tail(queue)
        /\ UNCHANGED <<dropped, producers, db, txn, errors, fate>>
        /\ \/ Head(queue) = Stop /\ writer' = [writer EXCEPT !.at = "stopped"] /\ batch' = batch
           \/ Head(queue) # Stop /\ writer' = [writer EXCEPT !.at = "drain"] /\ batch' = <<Head(queue)>>
    BY <1>1 DEF DrainFirst
  <2>2. batch = <<>> /\ Len(batch) < MaxBatch /\ <<Head(queue)>> = Append(batch, Head(queue))
    BY <2>1, QueueConstants DEF IInv, WriterIdle
  <2>3. CASE Head(queue) = Stop /\ writer' = [writer EXCEPT !.at = "stopped"] /\ batch' = batch
    BY <2>1, <2>3, SentinelKeeps
  <2>4. CASE Head(queue) # Stop /\ writer' = [writer EXCEPT !.at = "drain"] /\ batch' = <<Head(queue)>>
    BY <2>1, <2>2, <2>4, TakeKeeps
  <2> QED BY <2>1, <2>3, <2>4
<1>2. CASE DrainMore
  <2>1. /\ writer.at = "drain" /\ queue # <<>> /\ queue' = Tail(queue) /\ Len(batch) < MaxBatch
        /\ UNCHANGED <<dropped, producers, db, txn, errors, fate>>
        /\ \/ Head(queue) = Stop /\ writer' = [writer EXCEPT !.at = "requeue"] /\ batch' = batch
           \/ Head(queue) # Stop /\ writer' = writer /\ batch' = Append(batch, Head(queue))
    BY <1>2 DEF DrainMore
  <2>2. writer = [writer EXCEPT !.at = "drain"]
    BY <2>1 DEF IInv, TypeOK
  <2>3. CASE Head(queue) = Stop /\ writer' = [writer EXCEPT !.at = "requeue"] /\ batch' = batch
    BY <2>1, <2>3, SentinelKeeps
  <2>4. CASE Head(queue) # Stop /\ writer' = writer /\ batch' = Append(batch, Head(queue))
    BY <2>1, <2>2, <2>4, TakeKeeps
  <2> QED BY <2>1, <2>3, <2>4
<1> QED BY <1>1, <1>2

LEMMA DrainEndKeeps ==
  ASSUME IInv, DrainEnd
  PROVE  IInv'
<1>0. /\ writer.at = "drain" /\ writer' = [at |-> "batch", next |-> 1]
      /\ queue' = queue /\ batch' = batch /\ dropped' = dropped /\ fire' = fire /\ fate' = fate
      /\ loop' = loop /\ db' = db /\ errors' = errors /\ txn' = txn
      /\ closing' = closing /\ pool' = pool
  BY DEF DrainEnd, producers
<1>1. TypeOK /\ writer.next = 1 /\ txn = db
  BY <1>0 DEF IInv, WriterIdle
<1>2. TypeOK'
  BY <1>0, <1>1 DEF TypeOK
<1>3. Born' /\ Held' /\ InTurn' /\ WriterIdle' /\ Honest'
  BY <1>0, <1>1 DEF IInv, Born, Held, InTurn, MayPrecede, WriterIdle, Honest
<1>4. Keys'
  BY <1>0, <1>1 DEF IInv, Keys
<1>5. Resolutions'
  BY <1>0, <1>1, Indices DEF IInv, Resolutions
<1>6. SentinelLast' /\ Traced' /\ ResolutionStands' /\ OnlyBadRowsRefused'
  BY <1>0 DEF IInv, SentinelLast, Traced, InHand, ResolutionStands, OnlyBadRowsRefused
<1> QED BY <1>2, <1>3, <1>4, <1>5, <1>6 DEF IInv
-----------------------------------------------------------------------------
(* The writer writes the batch.                                            *)

\* The row under the writer's hand is undecided and nowhere else.
LEMMA RowFacts ==
  ASSUME IInv, writer.at \in {"batch", "rows"}, MoreRows
  PROVE  /\ writer.next \in DOMAIN batch /\ Row = batch[writer.next] /\ Row \in Jobs
         /\ fate[Row] = "queued"
         /\ \A k \in DOMAIN queue : queue[k] # Row
         /\ \A k \in DOMAIN batch : batch[k] = Row => k = writer.next
<1>1. TypeOK /\ writer.next \in Nat \ {0}
  BY DEF IInv, TypeOK
<1>2. writer.next \in DOMAIN batch /\ Row = batch[writer.next] /\ Row \in Jobs
  BY <1>1, Indices DEF MoreRows, Row
<1>3. fate[Row] = "queued"
  BY <1>1, <1>2 DEF IInv, Held
<1>4. Row # Stop
  BY <1>2, Kinds
<1>5. \A k \in DOMAIN queue : queue[k] # Row
  BY <1>2, <1>4 DEF IInv, InTurn, MayPrecede
<1>6. \A k \in DOMAIN batch : batch[k] = Row => k = writer.next
  <2> SUFFICES ASSUME NEW k \in DOMAIN batch, batch[k] = Row, k # writer.next PROVE FALSE
    OBVIOUS
  <2>1. k < writer.next \/ writer.next < k
    BY <1>1, Indices
  <2> QED BY <1>2, <1>4, <2>1 DEF IInv, InTurn, MayPrecede
<1> QED BY <1>2, <1>3, <1>5, <1>6

\* What the transaction sees after the row: an order moves by its own row only.
LEMMA InsertFacts ==
  ASSUME IInv, writer.at \in {"batch", "rows"}, MoreRows, ~Refused(Row, txn),
         NEW t, t = _insert(Row, txn)
  PROVE  /\ t \in [Orders -> {"absent", "pending", "resolved", "rejected"}]
         /\ \A i \in Orders : t[i] = txn[i] \/ i = Row.id
         /\ Row \in Keyed => txn[Row.id] = "absent"
         /\ \A f \in Fires : \/ t[f] = txn[f]
                             \/ Row = Pending(f) /\ txn[f] = "absent" /\ t[f] = "pending"
                             \/ Row = Resolution(f) /\ t[f] = "resolved"
         /\ \A f \in Fires : Row = Resolution(f) => t[f] = "resolved"
<1>1. Row \in Jobs /\ txn \in [Orders -> {"absent", "pending", "resolved", "rejected"}]
  BY RowFacts DEF IInv, TypeOK
<1>2. Row \in Keyed => txn[Row.id] = "absent"
  BY Kinds DEF Refused
<1>3. CASE Row.id \notin Orders
  <2>1. t = txn
    BY <1>3 DEF _insert
  <2>2. \A f \in Fires : Row # Resolution(f)
    BY <1>3, Kinds
  <2> QED BY <1>1, <1>2, <2>1, <2>2
<1>4. CASE Row \in Keyed
  <2>1. Row.id \in Orders /\ Row.table = "orders_fired" /\ (Row.id \in Fires => Row = Pending(Row.id))
        /\ \A f \in Fires : Row # Resolution(f) /\ f \in Orders /\ f \notin Rejects
    BY <1>4, Kinds
  <2>2. t = [txn EXCEPT ![Row.id] = IF Row.id \in Rejects THEN "rejected" ELSE "pending"]
    BY <2>1 DEF _insert
  <2> HIDE DEF Row
  <2>3. /\ t \in [Orders -> {"absent", "pending", "resolved", "rejected"}]
        /\ \A i \in Orders : i # Row.id => t[i] = txn[i]
        /\ Row.id \in Fires => t[Row.id] = "pending"
    BY <1>1, <2>1, <2>2
  <2> QED BY <1>2, <1>4, <2>1, <2>3
<1>5. CASE \E f \in Fires : Row = Resolution(f)
  <2>1. PICK f \in Fires : Row = Resolution(f)
    BY <1>5
  <2>2. Row.id = f /\ f \in Orders /\ Row.table # "orders_fired" /\ Row \notin Keyed
        /\ \A g \in Fires : Row = Resolution(g) => g = f
    BY <2>1, Kinds
  <2>3. t = [txn EXCEPT ![f] = "resolved"]
    BY <2>2 DEF _insert
  <2>4. /\ t \in [Orders -> {"absent", "pending", "resolved", "rejected"}] /\ t[f] = "resolved"
        /\ \A i \in Orders : i # f => t[i] = txn[i]
    BY <1>1, <2>2, <2>3
  <2>5. \A g \in Fires : g \in Orders
    BY Kinds
  <2> QED BY <2>1, <2>2, <2>4, <2>5
<1> QED BY <1>1, <1>3, <1>4, <1>5, Kinds

\* After the row, the keys the transaction holds are still those of rows behind the hand.
LEMMA InsertKeys ==
  ASSUME IInv, writer.at \in {"batch", "rows"}, MoreRows, ~Refused(Row, txn),
         NEW j \in Keyed, _insert(Row, txn)[j.id] # "absent"
  PROVE  /\ fate[j] # "unborn" /\ \A k \in DOMAIN queue : queue[k] # j
         /\ \A k \in DOMAIN batch : batch[k] = j => k < writer.next + 1
<1>1. /\ writer.next \in DOMAIN batch /\ Row = batch[writer.next] /\ Row \in Jobs
      /\ fate[Row] = "queued"
      /\ \A k \in DOMAIN queue : queue[k] # Row
      /\ \A k \in DOMAIN batch : batch[k] = Row => k = writer.next
  BY RowFacts
<1>2. writer.next \in Nat /\ \A k \in DOMAIN batch : k \in Nat
  BY Indices DEF IInv, TypeOK
<1>3. CASE txn[j.id] # "absent"
  BY <1>2, <1>3 DEF IInv, Keys
<1>4. CASE txn[j.id] = "absent" /\ Row = j
  BY <1>1, <1>2, <1>4
<1>5. CASE \E f \in Fires : Row = Resolution(f) /\ j = Pending(f)
  <2>1. PICK f \in Fires : Row = Resolution(f) /\ j = Pending(f)
    BY <1>5
  <2>2. fate[j] # "unborn"
    BY <1>1, <2>1 DEF IInv, Born
  <2> HIDE DEF Row
  <2>3. \A k \in DOMAIN queue : queue[k] # j
    <3>1. \A k \in DOMAIN queue : MayPrecede(Row, queue[k])
      BY <1>1 DEF IInv, InTurn
    <3> QED BY <2>1, <3>1 DEF MayPrecede
  <2>4. \A k \in DOMAIN batch : writer.next < k => batch[k] # j
    <3>1. \A k \in DOMAIN batch : writer.next < k => MayPrecede(Row, batch[k])
      BY <1>1 DEF IInv, InTurn
    <3> QED BY <2>1, <3>1 DEF MayPrecede
  <2> QED BY <1>2, <2>2, <2>3, <2>4
<1>6. CASE txn[j.id] = "absent" /\ Row # j
  <2>1. Row.id = j.id
    BY <1>6, InsertFacts, Kinds
  <2>2. Row \notin Keyed
    BY <1>6, <2>1, Kinds
  <2>3. PICK f \in Fires : Row = Resolution(f)
    BY <1>1, <2>1, <2>2, Kinds
  <2>4. j = Pending(f)
    BY <2>1, <2>3, Kinds
  <2> QED BY <1>5, <2>3, <2>4
<1> QED BY <1>3, <1>4, <1>6

\* A row of the order that the transaction moved on: the trail stays one commit ahead.
LEMMA InsertHonest ==
  ASSUME IInv, writer.at \in {"batch", "rows"}, MoreRows, ~Refused(Row, txn),
         NEW t, t = _insert(Row, txn), NEW f \in Fires
  PROVE  /\ \/ t[f] = db[f]
            \/ t[f] = "pending" /\ db[f] = "absent" /\ fire[f] # "new"
            \/ t[f] = "resolved" /\ fire[f] = "ended"
         /\ t[f] # "rejected"
         /\ txn[f] = "resolved" => t[f] = "resolved"
         /\ db[f] = "resolved" => t[f] = "resolved"
<1>1. fate[Row] = "queued"
  BY RowFacts
<1>2. \/ t[f] = txn[f]
      \/ Row = Pending(f) /\ txn[f] = "absent" /\ t[f] = "pending"
      \/ Row = Resolution(f) /\ t[f] = "resolved"
  BY InsertFacts
<1>3. Row = Pending(f) => fire[f] # "new"
  BY <1>1 DEF IInv, Born
<1>4. Row = Resolution(f) => fire[f] = "ended"
  BY <1>1 DEF IInv, Born, TypeOK
<1>5. txn[f] = "absent" => db[f] = "absent"
  BY DEF IInv, Honest
<1> QED BY <1>2, <1>3, <1>4, <1>5 DEF IInv, Honest, Resolutions
\* One more row inserted: its fate is open until the commit.
LEMMA InsertInBatchKeeps ==
  ASSUME IInv, InsertInBatch
  PROVE  IInv'
<1> DEFINE n == writer.next
<1>0. /\ writer.at = "batch" /\ MoreRows /\ ~Refused(Row, txn) /\ txn' = _insert(Row, txn)
      /\ writer' = [writer EXCEPT !.next = @ + 1]
      /\ queue' = queue /\ batch' = batch /\ dropped' = dropped /\ fire' = fire /\ fate' = fate
      /\ loop' = loop /\ db' = db /\ errors' = errors
      /\ closing' = closing /\ pool' = pool
  BY DEF InsertInBatch, producers
<1>1. TypeOK /\ writer'.at = "batch" /\ writer'.next = n + 1 /\ n \in Nat \ {0}
      /\ writer' \in [at: {"get", "drain", "requeue", "batch", "rows", "stopped", "died"}, next: Nat \ {0}]
  BY <1>0 DEF IInv, TypeOK
<1>2. TypeOK'
  BY <1>0, <1>1, InsertFacts DEF TypeOK
<1>3. Born' /\ Held' /\ InTurn' /\ WriterIdle'
  BY <1>0, <1>1 DEF IInv, Born, Held, InTurn, MayPrecede, WriterIdle
<1>4. Keys'
  <2>1. \A j \in Keyed : txn'[j.id] # "absent" =>
          /\ fate[j] # "unborn" /\ \A k \in DOMAIN queue : queue[k] # j
          /\ \A k \in DOMAIN batch : batch[k] = j => k < n + 1
    BY <1>0, InsertKeys
  <2> QED BY <1>0, <1>1, <2>1 DEF IInv, Keys
<1>5. Resolutions'
  <2>1. \A f \in Fires : db[f] = "resolved" => txn'[f] = "resolved"
    BY <1>0, InsertHonest
  <2>2. \A f \in Fires : txn[f] = "resolved" => txn'[f] = "resolved"
    BY <1>0, InsertHonest
  <2>3. \A f \in Fires : Row = Resolution(f) => txn'[f] = "resolved"
    BY <1>0, InsertFacts
  <2>4. \A k \in DOMAIN batch : k < n + 1 => k < n \/ (k = n /\ batch[k] = Row)
    BY <1>0, <1>1, RowFacts, Indices
  <2>5. Alive => \A k \in DOMAIN batch, f \in Fires : k < n + 1 /\ batch[k] = Resolution(f) => txn'[f] = "resolved"
    BY <1>0, <2>2, <2>3, <2>4 DEF IInv, Resolutions
  <2>6. Alive' => Alive
    BY <1>0 DEF Alive
  <2> QED BY <1>0, <1>1, <2>1, <2>5, <2>6 DEF Resolutions
<1>6. Honest'
  <2>1. \A f \in Fires : \/ txn'[f] = db[f]
                         \/ txn'[f] = "pending" /\ db[f] = "absent" /\ fire[f] # "new"
                         \/ txn'[f] = "resolved" /\ fire[f] = "ended"
    BY <1>0, InsertHonest
  <2> QED BY <1>0, <2>1 DEF IInv, Honest
<1>7. SentinelLast' /\ Traced' /\ ResolutionStands' /\ OnlyBadRowsRefused'
  BY <1>0, <1>1 DEF IInv, SentinelLast, Traced, InHand, ResolutionStands, OnlyBadRowsRefused
<1> QED BY <1>2, <1>3, <1>4, <1>5, <1>6, <1>7 DEF IInv

\* The commit decides every row of the batch at once.
LEMMA CommitKeeps ==
  ASSUME IInv, CommitBatch
  PROVE  IInv'
<1>0. /\ writer.at = "batch" /\ ~MoreRows /\ db' = txn /\ txn' = txn
      /\ writer' = [at |-> "get", next |-> 1] /\ batch' = <<>>
      /\ fate' = [j \in Jobs |-> IF j \in Members(batch) THEN "written" ELSE fate[j]]
      /\ queue' = queue /\ dropped' = dropped /\ fire' = fire
      /\ loop' = loop /\ errors' = errors /\ closing' = closing /\ pool' = pool /\ Alive
  BY DEF CommitBatch, producers
<1>1. TypeOK
  BY DEF IInv
<1>2. \A k \in DOMAIN batch : k < writer.next /\ batch[k] \in Jobs /\ fate[batch[k]] = "queued"
      /\ fate'[batch[k]] = "written"
  BY <1>0, <1>1, Indices DEF MoreRows, Members, IInv, Held, TypeOK
<1>3. \A j \in Jobs : \/ fate'[j] = fate[j] /\ \A k \in DOMAIN batch : batch[k] # j
                      \/ fate'[j] = "written" /\ fate[j] = "queued" /\ \E k \in DOMAIN batch : batch[k] = j
  BY <1>0, <1>2 DEF Members
<1>4. TypeOK'
  <2>1. fate' \in [Jobs -> Fates]
    BY <1>0, <1>1, <1>3 DEF TypeOK, Fates
  <2>2. <<>> \in Seq(Jobs) /\ Len(<<>>) <= MaxBatch
    BY QueueConstants
  <2> QED BY <1>0, <1>1, <2>1, <2>2 DEF TypeOK
<1>5. Born'
  <2>1. \A j \in Jobs : fate'[j] = "unborn" <=> fate[j] = "unborn"
    BY <1>3
  <2> QED BY <1>0, <2>1, Kinds DEF IInv, Born
<1>6. Held'
  <2>1. \A k \in DOMAIN queue, l \in DOMAIN batch : queue[k] # Stop => batch[l] # queue[k]
    BY DEF IInv, InTurn, MayPrecede
  <2>2. \A k \in DOMAIN queue : queue[k] # Stop => fate'[queue[k]] = "queued"
    BY <1>1, <1>3, <2>1, Indices DEF IInv, Held
  <2> QED BY <1>0, <2>2 DEF Held
<1>7. InTurn' /\ WriterIdle' /\ Resolutions' /\ Honest'
  BY <1>0 DEF IInv, InTurn, MayPrecede, WriterIdle, Resolutions, Honest
<1>8. Keys'
  <2>1. \A j \in Keyed : fate'[j] = "unborn" => fate[j] = "unborn"
    BY <1>3, Kinds
  <2> QED BY <1>0, <2>1 DEF IInv, Keys
<1>9. SentinelLast'
  <2>1. \A j \in closing : fate'[j] \in {"queued", "lost"} \cup Decided
    BY <1>1, <1>3 DEF IInv, SentinelLast, Decided, TypeOK
  <2> QED BY <1>0, <2>1 DEF IInv, SentinelLast
<1>10. Traced'
  <2> SUFFICES ASSUME NEW j \in Jobs, fate'[j] = "queued" PROVE InHand(j)'
    BY DEF Traced
  <2>1. fate[j] = "queued" /\ \A k \in DOMAIN batch : batch[k] # j
    BY <1>3
  <2> QED BY <1>0, <2>1 DEF IInv, Traced, InHand
<1>11. ResolutionStands'
  <2> SUFFICES ASSUME NEW f \in Fires, fate'[Resolution(f)] = "written" PROVE txn[f] = "resolved"
    BY <1>0 DEF ResolutionStands
  <2>1. CASE fate[Resolution(f)] = "written"
    BY <2>1 DEF IInv, ResolutionStands, Resolutions
  <2>2. CASE \E k \in DOMAIN batch : batch[k] = Resolution(f)
    BY <1>0, <1>2, <2>2 DEF IInv, Resolutions
  <2> QED BY <1>3, <2>1, <2>2, Kinds
<1>12. OnlyBadRowsRefused'
  BY <1>3 DEF IInv, OnlyBadRowsRefused
<1> QED BY <1>4, <1>5, <1>6, <1>7, <1>8, <1>9, <1>10, <1>11, <1>12 DEF IInv

\* The batch is rolled back and none of its rows is decided.
LEMMA BatchFailsKeeps ==
  ASSUME IInv, BatchFails
  PROVE  IInv'
<1>0. /\ writer.at = "batch" /\ txn' = db /\ db' = db
      /\ writer' = [at |-> "rows", next |-> 1] /\ batch' = batch /\ fate' = fate
      /\ queue' = queue /\ dropped' = dropped /\ fire' = fire /\ errors' \in 0..MaxErrors
      /\ loop' = loop /\ closing' = closing /\ pool' = pool
  BY QueueConstants DEF BatchFails, producers, IInv, TypeOK
<1>1. TypeOK'
  BY <1>0 DEF IInv, TypeOK
<1>2. Born' /\ InTurn' /\ WriterIdle' /\ Resolutions' /\ Honest' /\ SentinelLast'
  BY <1>0 DEF IInv, Born, InTurn, MayPrecede, WriterIdle, Resolutions, Honest, SentinelLast
<1>3. \A k \in DOMAIN batch : k \in Nat \ {0}
  BY Indices DEF IInv
<1>4. Held'
  BY <1>0, <1>3 DEF IInv, Held
<1>5. Keys'
  BY <1>0, <1>3 DEF IInv, Keys
<1>6. Traced'
  BY <1>0, <1>3 DEF IInv, Traced, InHand
<1>7. ResolutionStands' /\ OnlyBadRowsRefused'
  BY <1>0 DEF IInv, ResolutionStands, OnlyBadRowsRefused
<1> QED BY <1>1, <1>2, <1>4, <1>5, <1>6, <1>7 DEF IInv
\* Row by row: the row under the hand is decided, and the hand moves on.
LEMMA RowDecided ==
  ASSUME IInv, Alive, writer.at = "rows", MoreRows, NEW v \in Decided,
         fate' = [fate EXCEPT ![Row] = v], writer' = [writer EXCEPT !.next = @ + 1],
         UNCHANGED <<queue, dropped, producers, batch>>, errors' \in 0..MaxErrors,
         db' \in [Orders -> {"absent", "pending", "resolved", "rejected"}], txn' = db'
  PROVE  /\ TypeOK' /\ Born' /\ Held' /\ InTurn' /\ WriterIdle' /\ SentinelLast' /\ Traced'
         /\ fate'[Row] = v /\ \A j \in Jobs : j # Row => fate'[j] = fate[j]
<1> DEFINE n == writer.next
<1>0. /\ queue' = queue /\ batch' = batch /\ dropped' = dropped /\ fire' = fire
      /\ loop' = loop /\ closing' = closing /\ pool' = pool
  BY DEF producers
<1>1. TypeOK /\ writer'.at = "rows" /\ writer'.next = n + 1 /\ n \in Nat \ {0}
      /\ writer' \in [at: {"get", "drain", "requeue", "batch", "rows", "stopped", "died"}, next: Nat \ {0}]
  <2>1. TypeOK
    BY DEF IInv
  <2>2. writer \in [at: {"get", "drain", "requeue", "batch", "rows", "stopped", "died"}, next: Nat \ {0}]
    BY <2>1 DEF TypeOK
  <2>3. n \in Nat \ {0} /\ n + 1 \in Nat \ {0}
    BY <2>2
  <2>4. writer' = [writer EXCEPT !.next = n + 1]
    OBVIOUS
  <2>5. writer'.at = "rows" /\ writer'.next = n + 1
    BY <2>2, <2>4
  <2>6. writer' \in [at: {"get", "drain", "requeue", "batch", "rows", "stopped", "died"}, next: Nat \ {0}]
    BY <2>2, <2>3, <2>4
  <2> QED BY <2>1, <2>3, <2>5, <2>6
<1>2. /\ n \in DOMAIN batch /\ Row = batch[n] /\ Row \in Jobs
      /\ fate[Row] = "queued"
      /\ \A k \in DOMAIN queue : queue[k] # Row
      /\ \A k \in DOMAIN batch : batch[k] = Row => k = n
  BY RowFacts
<1> HIDE DEF n, Row
<1>3. /\ fate'[Row] = v /\ (\A j \in Jobs : j # Row => fate'[j] = fate[j])
      /\ fate' \in [Jobs -> Fates] /\ v \in {"written", "refused", "failed"}
  BY <1>1, <1>2 DEF TypeOK, Fates, Decided
<1>4. TypeOK'
  BY <1>0, <1>1, <1>3 DEF TypeOK
<1>5. Born'
  <2>1. \A j \in Jobs : fate'[j] = "unborn" <=> fate[j] = "unborn"
    BY <1>2, <1>3
  <2> QED BY <1>0, <2>1, Kinds DEF IInv, Born
<1>6. Held'
  <2>1. \A k \in DOMAIN queue : queue[k] # Stop => fate'[queue[k]] = "queued"
    BY <1>1, <1>2, <1>3, Indices DEF IInv, Held
  <2>2. \A k \in DOMAIN batch : k \in Nat /\ batch[k] \in Jobs
    BY <1>1, Indices
  <2>3. \A k \in DOMAIN batch : k # n => fate'[batch[k]] = fate[batch[k]]
    BY <1>2, <1>3, <2>2
  <2>4. \A k \in DOMAIN batch : k < n + 1 <=> k < n \/ k = n
    BY <1>1, <2>2
  <2>5. \A k \in DOMAIN batch : IF k < n + 1 THEN fate'[batch[k]] \in Decided
                                ELSE fate'[batch[k]] = "queued"
    BY <1>2, <1>3, <2>3, <2>4 DEF IInv, Held, n
  <2> QED BY <1>0, <1>1, <2>1, <2>5 DEF Held
<1>7. InTurn'
  BY <1>0 DEF IInv, InTurn, MayPrecede
<1>8. WriterIdle'
  BY <1>0, <1>1 DEF IInv, WriterIdle
<1>9. SentinelLast'
  <2>1. \A j \in closing : fate'[j] \in {"queued", "lost"} \cup Decided
    BY <1>1, <1>3 DEF IInv, SentinelLast, Decided, TypeOK
  <2> QED BY <1>0, <1>1, <2>1 DEF IInv, SentinelLast
<1>10. Traced'
  <2> SUFFICES ASSUME NEW j \in Jobs, fate'[j] = "queued" PROVE InHand(j)'
    BY DEF Traced
  <2>1. j # Row /\ fate[j] = "queued"
    BY <1>3
  <2>2. InHand(j)
    BY <2>1 DEF IInv, Traced
  <2>3. \A k \in DOMAIN batch : k >= n /\ batch[k] = j => k >= n + 1
    BY <1>1, <1>2, <2>1, Indices
  <2> QED BY <1>0, <1>1, <2>2, <2>3 DEF InHand, n
<1> QED BY <1>3, <1>4, <1>5, <1>6, <1>7, <1>8, <1>9, <1>10

LEMMA WriteRowKeeps ==
  ASSUME IInv, _write_row
  PROVE  IInv'
<1>0. /\ Alive /\ writer.at = "rows" /\ MoreRows /\ ~Refused(Row, txn)
      /\ txn' = _insert(Row, txn) /\ db' = txn'
      /\ fate' = [fate EXCEPT ![Row] = "written"]
      /\ writer' = [writer EXCEPT !.next = @ + 1] /\ writer'.at = "rows" /\ writer'.next = writer.next + 1
      /\ UNCHANGED <<queue, dropped, producers, batch>> /\ errors' = errors
      /\ queue' = queue /\ batch' = batch /\ fire' = fire /\ loop' = loop /\ txn = db
  BY DEF _write_row, producers, IInv, TypeOK, WriterIdle
<1>1. errors' \in 0..MaxErrors /\ db' \in [Orders -> {"absent", "pending", "resolved", "rejected"}]
      /\ "written" \in Decided
  BY <1>0, InsertFacts DEF IInv, TypeOK, Decided
<1>2. /\ TypeOK' /\ Born' /\ Held' /\ InTurn' /\ WriterIdle' /\ SentinelLast' /\ Traced'
      /\ fate'[Row] = "written" /\ \A j \in Jobs : j # Row => fate'[j] = fate[j]
  BY <1>0, <1>1, RowDecided
<1>3. Row \in Jobs
  BY <1>0, RowFacts
<1>4. Keys'
  <2>1. \A j \in Keyed : txn'[j.id] # "absent" =>
          /\ fate[j] # "unborn" /\ \A k \in DOMAIN queue : queue[k] # j
          /\ \A k \in DOMAIN batch : batch[k] = j => k < writer.next + 1
    BY <1>0, InsertKeys
  <2>2. \A j \in Keyed : fate'[j] = "unborn" => fate[j] = "unborn"
    BY <1>2, Kinds
  <2> QED BY <1>0, <2>1, <2>2 DEF Keys
<1>5. Resolutions'
  BY <1>0 DEF Resolutions
<1>6. Honest'
  <2>1. \A f \in Fires : txn'[f] # "rejected"
    BY <1>0, InsertHonest
  <2> QED BY <1>0, <2>1 DEF Honest
<1>7. ResolutionStands'
  <2> SUFFICES ASSUME NEW f \in Fires, fate'[Resolution(f)] = "written" PROVE txn'[f] = "resolved"
    BY <1>0 DEF ResolutionStands
  <2>1. CASE Row = Resolution(f)
    BY <1>0, <2>1, InsertFacts
  <2>2. CASE Row # Resolution(f)
    <3>1. db[f] = "resolved"
      BY <1>2, <2>2, Kinds DEF IInv, ResolutionStands
    <3> QED BY <1>0, <3>1, InsertHonest
  <2> QED BY <2>1, <2>2
<1>8. OnlyBadRowsRefused'
  BY <1>2 DEF IInv, OnlyBadRowsRefused
<1> QED BY <1>2, <1>4, <1>5, <1>6, <1>7, <1>8 DEF IInv

\* A row that fails is rolled back alone; one refused for its key would be a good row,
\* but its key is not in the table.
LEMMA WriteRowFailsKeeps ==
  ASSUME IInv, WriteRowFails
  PROVE  IInv'
<1>0. /\ Alive /\ writer.at = "rows" /\ MoreRows
      /\ txn' = db /\ db' = db
      /\ writer' = [writer EXCEPT !.next = @ + 1] /\ writer'.at = "rows" /\ writer'.next = writer.next + 1
      /\ UNCHANGED <<queue, dropped, producers, batch>> /\ errors' \in 0..MaxErrors
      /\ queue' = queue /\ batch' = batch /\ fire' = fire /\ loop' = loop /\ txn = db
  BY QueueConstants DEF WriteRowFails, producers, IInv, TypeOK, WriterIdle
<1>1. PICK v \in {"refused", "failed"} :
        /\ fate' = [fate EXCEPT ![Row] = v]
        /\ v = "refused" => Refused(Row, txn)
  BY DEF WriteRowFails
<1>2. db' \in [Orders -> {"absent", "pending", "resolved", "rejected"}] /\ v \in Decided /\ txn' = db'
  BY <1>0 DEF IInv, TypeOK, Decided
<1>3. /\ TypeOK' /\ Born' /\ Held' /\ InTurn' /\ WriterIdle' /\ SentinelLast' /\ Traced'
      /\ fate'[Row] = v /\ \A j \in Jobs : j # Row => fate'[j] = fate[j]
  BY <1>0, <1>1, <1>2, RowDecided
<1>4. Keys'
  <2>1. \A j \in Keyed : fate'[j] = "unborn" => fate[j] = "unborn"
    BY <1>3, Kinds
  <2>2. \A k \in DOMAIN batch : k < writer.next => k < writer.next + 1
    BY Indices DEF IInv, TypeOK
  <2> QED BY <1>0, <2>1, <2>2 DEF IInv, Keys
<1>5. Resolutions' /\ Honest'
  BY <1>0 DEF IInv, Resolutions, Honest
<1>6. ResolutionStands'
  BY <1>0, <1>3, Kinds DEF IInv, ResolutionStands
<1>7. OnlyBadRowsRefused'
  <2>1. Refused(Row, txn) => Row.id \in Bad
    <3> SUFFICES ASSUME Row.id \in Orders, Row.table = "orders_fired", txn[Row.id] # "absent"
                 PROVE  FALSE
      BY DEF Refused
    <3>1. /\ Row \in Jobs /\ writer.next \in DOMAIN batch /\ Row = batch[writer.next]
          /\ writer.next \in Nat
      BY <1>0, RowFacts DEF IInv, TypeOK
    <3>2. Row \in Keyed
      BY <3>1, Kinds
    <3>3. \A k \in DOMAIN batch : batch[k] = Row => k < writer.next
      BY <3>2 DEF IInv, Keys
    <3> QED BY <3>1, <3>3
  <2> QED BY <1>1, <1>3, <2>1 DEF IInv, OnlyBadRowsRefused
<1> QED BY <1>3, <1>4, <1>5, <1>6, <1>7 DEF IInv

LEMMA RowsDoneKeeps ==
  ASSUME IInv, RowsDone
  PROVE  IInv'
<1>0. /\ writer.at = "rows" /\ ~MoreRows
      /\ writer' = [at |-> "get", next |-> 1] /\ batch' = <<>>
      /\ queue' = queue /\ dropped' = dropped /\ fire' = fire /\ fate' = fate
      /\ loop' = loop /\ errors' = errors /\ closing' = closing /\ pool' = pool
      /\ db' = db /\ txn' = txn
  BY DEF RowsDone, producers
<1>1. txn = db /\ TypeOK
  BY <1>0 DEF IInv, WriterIdle
<1>2. <<>> \in Seq(Jobs) /\ Len(<<>>) <= MaxBatch
  BY QueueConstants
<1>3. TypeOK'
  BY <1>0, <1>1, <1>2 DEF TypeOK
<1>4. Born' /\ Held' /\ InTurn' /\ WriterIdle' /\ Resolutions' /\ Honest' /\ SentinelLast'
  BY <1>0, <1>1 DEF IInv, Born, Held, InTurn, MayPrecede, WriterIdle, Resolutions, Honest, SentinelLast
<1>5. Keys'
  BY <1>0 DEF IInv, Keys
<1>6. Traced'
  <2>1. \A k \in DOMAIN batch : ~(k >= writer.next)
    BY <1>0, <1>1, Indices DEF MoreRows, TypeOK
  <2> QED BY <1>0, <2>1 DEF IInv, Traced, InHand
<1>7. ResolutionStands' /\ OnlyBadRowsRefused'
  BY <1>0 DEF IInv, ResolutionStands, OnlyBadRowsRefused
<1> QED BY <1>3, <1>4, <1>5, <1>6, <1>7 DEF IInv
-----------------------------------------------------------------------------
(* The invariant holds initially and every step keeps it.                  *)

LEMMA InvInit == Init => IInv
<1> SUFFICES ASSUME Init PROVE IInv
  OBVIOUS
<1>1. TypeOK
  <2>1. <<>> \in Seq(Jobs) /\ <<>> \in Seq(Jobs \cup {Stop}) /\ Len(<<>>) = 0
    OBVIOUS
  <2>2. MaxQueue \in Nat /\ MaxBatch \in Nat /\ MaxErrors \in Nat /\ 0 <= MaxQueue /\ 0 <= MaxBatch
    BY QueueConstants
  <2> QED BY <2>1, <2>2 DEF Init, TypeOK, Fates
<1>2. Born
  BY Kinds DEF Init, Born
<1>3. Held /\ InTurn /\ WriterIdle /\ SentinelLast /\ Traced
  BY DEF Init, Held, InTurn, WriterIdle, SentinelLast, Traced
<1>4. Keys
  BY Kinds DEF Init, Keys
<1>5. Resolutions /\ Honest
  BY Kinds DEF Init, Resolutions, Honest
<1>6. ResolutionStands /\ OnlyBadRowsRefused
  BY Kinds DEF Init, ResolutionStands, OnlyBadRowsRefused
<1> QED BY <1>1, <1>2, <1>3, <1>4, <1>5, <1>6 DEF IInv

LEMMA InvStutter ==
  ASSUME IInv, UNCHANGED vars
  PROVE  IInv'
<1>0. /\ queue' = queue /\ batch' = batch /\ dropped' = dropped /\ fire' = fire /\ fate' = fate
      /\ loop' = loop /\ db' = db /\ errors' = errors /\ txn' = txn /\ writer' = writer
      /\ closing' = closing /\ pool' = pool
  BY DEF vars
<1>1. TypeOK' /\ Born' /\ Held' /\ InTurn' /\ WriterIdle' /\ Keys'
  BY <1>0 DEF IInv, TypeOK, Born, Held, InTurn, MayPrecede, WriterIdle, Keys
<1>2. Resolutions' /\ Honest' /\ SentinelLast'
  BY <1>0 DEF IInv, Resolutions, Alive, Honest, SentinelLast
<1>3. Traced' /\ ResolutionStands' /\ OnlyBadRowsRefused'
  BY <1>0 DEF IInv, Traced, InHand, ResolutionStands, OnlyBadRowsRefused
<1> QED BY <1>1, <1>2, <1>3 DEF IInv

LEMMA InvNext == IInv /\ [Next]_vars => IInv'
<1> SUFFICES ASSUME IInv, [Next]_vars PROVE IInv'
  OBVIOUS
<1>1. CASE Writer
  BY <1>1, DrainKeeps, DrainEndKeeps, RequeueKeeps, InsertInBatchKeeps, CommitKeeps, BatchFailsKeeps,
     WriteRowKeeps, WriteRowFailsKeeps, RowsDoneKeeps DEF Writer
<1>2. CASE Loop
  BY <1>2, LoopWaitKeeps, CloseKeeps, PutSentinelKeeps, JoinKeeps, BeginKeeps, ResolveKeeps,
     LatencyKeeps, SubmitKeeps DEF Loop
<1>3. CASE (\E r \in Rejects : Pool(r)) \/ Crash
  BY <1>3, PoolKeeps, CrashKeeps
<1>4. CASE UNCHANGED vars
  BY <1>4, InvStutter
<1> QED BY <1>1, <1>2, <1>3, <1>4 DEF Next

-----------------------------------------------------------------------------
(* Behind the sentinel, and lost with the process.                         *)

\* What a pool thread may put on the queue while close() waits for the writer.
Late(b) == b = Stop \/ \E r \in Rejects : b = Rejected(r)

\* Nothing else comes to stand behind the sentinel.
BehindStop ==
  /\ \A k, l \in DOMAIN queue : k < l /\ queue[k] = Stop => Late(queue[l])
  /\ writer.at \in {"requeue", "stopped"} => \A k \in DOMAIN queue : Late(queue[k])

LostRows == { j \in Jobs : fate[j] = "lost" }

\* Only the crash loses rows, and it finds no more than the queue and a batch of them.
Losses ==
  /\ Alive => LostRows = {}
  /\ Cardinality(LostRows) <= MaxQueue + MaxBatch

\* What a step may do to the queue: leave it, take its head, or put a job at its end.
LEMMA QueueSteps ==
  ASSUME IInv, Next
  PROVE  \/ queue' = queue
         \/ queue' = <<>>
         \/ queue # <<>> /\ queue' = Tail(queue)
         \/ queue' = Append(queue, Stop)
         \/ \E j \in Jobs : /\ queue' = Append(queue, j)
                            /\ loop.at \in {"free", "put"} \/ Late(j)
<1>1. CASE Writer
  BY <1>1 DEF Writer, DrainFirst, DrainMore, DrainEnd, Requeue, InsertInBatch, CommitBatch, BatchFails,
     _write_row, WriteRowFails, RowsDone
<1>2. CASE LoopPut \/ LoopTimeout
  <2>1. loop.at = "put" /\ (queue' = queue \/ queue' = Append(queue, loop.job))
    BY <1>2 DEF LoopPut, LoopTimeout, Put, _record_drop
  <2>2. loop.job \in Jobs
    BY <2>1, Kinds DEF IInv, Born
  <2> QED BY <2>1, <2>2
<1>3. CASE close \/ PutSentinel \/ Join \/ Crash \/ \E r \in Rejects : _record_rejected(r)
  BY <1>3 DEF close, PutSentinel, Join, Crash, _record_rejected
<1>4. CASE \E f \in Fires : BeginDispatch(f) \/ record_order_resolution(f)
  <2>1. PICK f \in Fires : BeginDispatch(f) \/ record_order_resolution(f)
    BY <1>4
  <2>2. loop.at = "free" /\ \/ queue' = queue \/ queue' = Append(queue, Pending(f))
                            \/ queue' = Append(queue, Resolution(f))
    BY <2>1 DEF BeginDispatch, record_order_resolution, EnqueueNow, Put, _record_drop
  <2>3. Pending(f) \in Jobs /\ Resolution(f) \in Jobs
    BY Kinds
  <2> QED BY <2>2, <2>3
<1>5. CASE \E s \in Samples : record_latency_event(s)
  <2>1. PICK s \in Samples : record_latency_event(s)
    BY <1>5
  <2>2. loop.at = "free" /\ (queue' = queue \/ queue' = Append(queue, Latency(s)))
    BY <2>1 DEF record_latency_event, EnqueueNow, Put, _record_drop
  <2> QED BY <2>2, Kinds
<1>6. CASE \E r \in Rejects : Pool(r)
  <2>1. PICK r \in Rejects : Pool(r)
    BY <1>6
  <2>2. queue' = queue \/ queue' = Append(queue, Rejected(r))
    BY <2>1 DEF Pool, PoolEnqueue, PoolPut, PoolTimeout, Put, _record_drop
  <2>3. Rejected(r) \in Jobs /\ Late(Rejected(r))
    BY Kinds DEF Late
  <2> QED BY <2>2, <2>3
<1> QED BY <1>1, <1>2, <1>3, <1>4, <1>5, <1>6 DEF Next, Loop

\* Where the writer stands after a step that put a job at the end of the queue.
LEMMA WriterSteps ==
  ASSUME IInv, Next, writer'.at \in {"requeue", "stopped"}
  PROVE  \/ writer' = writer
         \/ queue # <<>> /\ Head(queue) = Stop /\ queue' = Tail(queue)
<1>1. CASE Writer
  BY <1>1 DEF Writer, DrainFirst, DrainMore, DrainEnd, Requeue, InsertInBatch, CommitBatch, BatchFails,
     _write_row, WriteRowFails, RowsDone, IInv, TypeOK
<1>2. CASE Loop \/ Crash \/ \E r \in Rejects : Pool(r)
  BY <1>2 DEF Loop, LoopPut, LoopTimeout, close, PutSentinel, Join, BeginDispatch,
     record_order_resolution, record_latency_event, _record_rejected, Pool, PoolEnqueue, PoolPut,
     PoolTimeout, Crash, writerVars
<1> QED BY <1>1, <1>2 DEF Next

LEMMA BehindNext == IInv /\ BehindStop /\ [Next]_vars => BehindStop'
<1> SUFFICES ASSUME IInv, BehindStop, [Next]_vars PROVE BehindStop'
  OBVIOUS
<1> USE DEF BehindStop
<1>1. CASE UNCHANGED vars
  BY <1>1 DEF vars
<1> SUFFICES ASSUME Next PROVE BehindStop'
  BY <1>1
<1>2. TypeOK /\ queue \in Seq(Jobs \cup {Stop})
  BY DEF IInv, TypeOK
<1>3. CASE queue' = queue
  <2>1. CASE writer' = writer
    BY <1>3, <2>1
  <2>2. CASE queue # <<>> /\ Head(queue) = Stop /\ queue' = Tail(queue)
    BY <1>2, <1>3, <2>2, TailFacts
  <2>3. CASE writer'.at \notin {"requeue", "stopped"}
    BY <1>3, <2>3
  <2> QED BY <2>1, <2>2, <2>3, WriterSteps
<1>4. CASE queue' = <<>>
  BY <1>4
<1>5. CASE queue # <<>> /\ queue' = Tail(queue)
  <2>1. /\ 1 \in DOMAIN queue /\ queue[1] = Head(queue)
        /\ \A k \in DOMAIN queue' : k \in Nat /\ k + 1 \in DOMAIN queue /\ 1 < k + 1 /\ queue'[k] = queue[k + 1]
    BY <1>2, <1>5, TailFacts
  <2>2. \A k, l \in DOMAIN queue' : k < l /\ queue'[k] = Stop => Late(queue'[l])
    <3> SUFFICES ASSUME NEW k \in DOMAIN queue', NEW l \in DOMAIN queue', k < l, queue'[k] = Stop
                 PROVE  Late(queue'[l])
      OBVIOUS
    <3>1. k + 1 < l + 1 /\ k + 1 \in DOMAIN queue /\ l + 1 \in DOMAIN queue
      BY <2>1
    <3> QED BY <2>1, <3>1
  <2>3. writer' = writer => (writer'.at \in {"requeue", "stopped"} => \A k \in DOMAIN queue' : Late(queue'[k]))
    BY <2>1
  <2>4. Head(queue) = Stop => \A k \in DOMAIN queue' : Late(queue'[k])
    BY <2>1
  <2> QED BY <2>2, <2>3, <2>4, WriterSteps
<1>6. ASSUME NEW j \in Jobs \cup {Stop}, queue' = Append(queue, j),
             loop.at \in {"free", "put"} \/ Late(j)
      PROVE  BehindStop'
  <2>1. /\ Len(queue) \in Nat
        /\ \A k \in DOMAIN queue : k \in DOMAIN queue' /\ k \in Nat /\ queue'[k] = queue[k] /\ k < Len(queue) + 1
        /\ \A k \in DOMAIN queue' : k \in DOMAIN queue \/ (k = Len(queue) + 1 /\ queue'[k] = j)
    BY <1>2, <1>6, AppendFacts
  <2>2. \/ Late(j)
        \/ (\A k \in DOMAIN queue : queue[k] # Stop) /\ writer.at \notin {"requeue", "stopped"}
    BY <1>6 DEF IInv, SentinelLast
  <2>3. \A k, l \in DOMAIN queue' : k < l /\ queue'[k] = Stop => Late(queue'[l])
    BY <2>1, <2>2
  <2>4. writer'.at \in {"requeue", "stopped"} => writer' = writer
    <3>1. Len(Append(queue, j)) # Len(Tail(queue)) \/ queue = <<>>
      BY <1>2
    <3> QED BY <1>6, <3>1, WriterSteps
  <2>5. writer'.at \in {"requeue", "stopped"} => \A k \in DOMAIN queue' : Late(queue'[k])
    BY <2>1, <2>2, <2>4
  <2> QED BY <2>3, <2>5
<1>7. Late(Stop)
  BY DEF Late
<1> QED BY <1>3, <1>4, <1>5, <1>6, <1>7, QueueSteps

\* A sequence has no more members than places.
LEMMA MembersBounded ==
  ASSUME NEW S, NEW s \in Seq(S)
  PROVE  IsFiniteSet(Members(s)) /\ Cardinality(Members(s)) <= Len(s) /\ Cardinality(Members(s)) \in Nat
<1>1. Len(s) \in Nat /\ DOMAIN s = 1..Len(s)
  OBVIOUS
<1>2. IsFiniteSet(DOMAIN s) /\ Cardinality(DOMAIN s) = Len(s)
  BY <1>1, FS_Interval
<1>3. s \in Surjection(DOMAIN s, Members(s))
  <2>1. s \in [DOMAIN s -> Members(s)]
    BY DEF Members
  <2>2. \A x \in Members(s) : \E k \in DOMAIN s : s[k] = x
    BY DEF Members
  <2> QED BY <2>1, <2>2 DEF Surjection
<1>4. IsFiniteSet(Members(s)) /\ Cardinality(Members(s)) <= Cardinality(DOMAIN s)
  BY <1>2, <1>3, FS_Surjection
<1> QED BY <1>2, <1>4, FS_CardinalityType

\* The crash loses what was on the queue and in the batch.
LEMMA CrashLoses ==
  ASSUME IInv, Losses, Crash
  PROVE  Losses'
<1>1. Alive /\ ~Alive' /\ fate' = [j \in Jobs |-> IF fate[j] = "queued" THEN "lost" ELSE fate[j]]
  BY DEF Crash, Alive
<1>2. \A j \in LostRows' : InHand(j)
  BY <1>1 DEF Losses, LostRows, IInv, Traced
<1>3. LostRows' \subseteq Members(queue) \cup Members(batch)
  BY <1>2 DEF InHand, Members
<1>4. /\ queue \in Seq(Jobs \cup {Stop}) /\ batch \in Seq(Jobs) /\ Len(queue) <= MaxQueue /\ Len(batch) <= MaxBatch
      /\ Len(queue) \in Nat /\ Len(batch) \in Nat /\ MaxQueue \in Nat /\ MaxBatch \in Nat
  BY Indices DEF IInv, TypeOK
<1> DEFINE Q == Members(queue)
           B == Members(batch)
           L == LostRows'
<1>5. /\ IsFiniteSet(Q) /\ Cardinality(Q) <= Len(queue) /\ Cardinality(Q) \in Nat
      /\ IsFiniteSet(B) /\ Cardinality(B) <= Len(batch) /\ Cardinality(B) \in Nat
  BY <1>4, MembersBounded
<1>6. L \in SUBSET (Q \cup B)
  BY <1>3
<1> HIDE DEF Q, B, L
<1>7. IsFiniteSet(Q \cup B) /\ Cardinality(Q \cup B) = Cardinality(Q) + Cardinality(B) - Cardinality(Q \cap B)
  BY <1>5, FS_Union
<1>8. Cardinality(Q \cap B) \in Nat
  BY <1>5, FS_Intersection, FS_CardinalityType
<1>9. IsFiniteSet(L) /\ Cardinality(L) <= Cardinality(Q \cup B)
  BY <1>6, <1>7, FS_Subset
<1>10. Cardinality(L) \in Nat
  BY <1>9, FS_CardinalityType
<1>11. Cardinality(L) <= MaxQueue + MaxBatch
  BY <1>4, <1>5, <1>7, <1>8, <1>9, <1>10
<1> QED BY <1>1, <1>11 DEF Losses, L

\* No other step is taken by a dead process, and none loses a row.
LEMMA NoOtherLoses ==
  ASSUME IInv, Next, ~Crash
  PROVE  Alive /\ \A j \in Jobs : fate'[j] = "lost" => fate[j] = "lost"
<1>0. fate \in [Jobs -> Fates]
  BY DEF IInv, TypeOK
<1>1. CASE Writer
  <2>1. Alive
    BY <1>1 DEF Writer, DrainFirst, DrainMore, DrainEnd, Requeue, InsertInBatch, CommitBatch,
       BatchFails, _write_row, WriteRowFails, RowsDone
  <2>2. \/ fate' = fate
        \/ fate' = [j \in Jobs |-> IF j \in Members(batch) THEN "written" ELSE fate[j]]
        \/ \E v \in {"written", "refused", "failed"} : fate' = [fate EXCEPT ![Row] = v]
    BY <1>1 DEF Writer, DrainFirst, DrainMore, DrainEnd, Requeue, InsertInBatch, CommitBatch,
       BatchFails, _write_row, WriteRowFails, RowsDone
  <2> QED BY <1>0, <2>1, <2>2
<1>2. CASE Loop \/ \E r \in Rejects : Pool(r)
  <2>1. Alive
    BY <1>2 DEF Loop, LoopPut, LoopTimeout, close, PutSentinel, Join, BeginDispatch, Alive,
       record_order_resolution, record_latency_event, _record_rejected, Pool, PoolEnqueue, PoolPut, PoolTimeout
  <2>2. \/ fate' = fate
        \/ \E i \in Jobs \cup {Stop} \cup {loop.job}, v \in {"queued", "dropped", "raised"} :
             fate' = [fate EXCEPT ![i] = v]
    <3>1. CASE LoopPut \/ LoopTimeout
      BY <3>1 DEF LoopPut, LoopTimeout, Put, _record_drop
    <3>2. CASE close \/ PutSentinel \/ Join \/ \E r \in Rejects : _record_rejected(r)
      BY <3>2 DEF close, PutSentinel, Join, _record_rejected
    <3>3. CASE \E f \in Fires : BeginDispatch(f) \/ record_order_resolution(f)
      BY <3>3, Kinds DEF BeginDispatch, record_order_resolution, EnqueueNow, Put, _record_drop
    <3>4. CASE \E s \in Samples : record_latency_event(s)
      BY <3>4, Kinds DEF record_latency_event, EnqueueNow, Put, _record_drop
    <3>5. CASE \E r \in Rejects : Pool(r)
      BY <3>5, Kinds DEF Pool, PoolEnqueue, PoolPut, PoolTimeout, Put, _record_drop
    <3> QED BY <1>2, <3>1, <3>2, <3>3, <3>4, <3>5 DEF Loop
  <2> QED BY <1>0, <2>1, <2>2
<1> QED BY <1>1, <1>2 DEF Next

LEMMA LossesNext == IInv /\ Losses /\ [Next]_vars => Losses'
<1> SUFFICES ASSUME IInv, Losses, [Next]_vars PROVE Losses'
  OBVIOUS
<1>1. CASE UNCHANGED vars
  BY <1>1 DEF vars, Losses, LostRows, Alive
<1>2. CASE Next /\ ~Crash
  <2>1. LostRows' = {}
    BY <1>2, NoOtherLoses DEF Losses, LostRows
  <2>2. MaxQueue + MaxBatch >= 0
    BY QueueConstants
  <2> QED BY <2>1, <2>2, FS_EmptySet DEF Losses
<1> QED BY <1>1, <1>2, CrashLoses

LEMMA LossInit == Init => BehindStop /\ Losses
<1> SUFFICES ASSUME Init PROVE BehindStop /\ Losses
  OBVIOUS
<1>1. BehindStop
  BY DEF Init, BehindStop
<1>2. LostRows = {}
  BY DEF Init, LostRows
<1>3. MaxQueue + MaxBatch >= 0
  BY QueueConstants
<1> QED BY <1>1, <1>2, <1>3, FS_EmptySet DEF Losses

-----------------------------------------------------------------------------
(* What the write path promises.                                           *)

\* The queue keeps its bound and a batch its own, however the threads interleave.
THEOREM QueueTyped == Spec => []TypeOK
<1>1. IInv => TypeOK
  BY DEF IInv
<1> QED BY <1>1, InvInit, InvNext, PTL DEF Spec

\* A row the queue accepted is on its way or decided, unless the process died, which
\* loses at most a queue and a batch of them, the writer died of a full queue, or a pool
\* thread put it behind the sentinel the writer stopped at.
THEOREM NothingIsLostSilently == Spec => []NoSilentLoss
<1>1. IInv /\ BehindStop /\ Losses => NoSilentLoss
  <2> SUFFICES ASSUME IInv, BehindStop, Losses PROVE NoSilentLoss
    OBVIOUS
  <2>1. Cardinality({ j \in Jobs : fate[j] = "lost" }) <= MaxQueue + MaxBatch
    BY DEF Losses, LostRows
  <2> SUFFICES ASSUME NEW j \in Jobs, fate[j] = "queued", writer.at = "stopped"
               PROVE  Stranded(j)
    BY <2>1 DEF NoSilentLoss, IInv, Traced, OnItsWay
  <2>2. batch = <<>> /\ InHand(j) /\ j # Stop
    BY Kinds DEF IInv, WriterIdle, Traced
  <2>3. PICK k \in DOMAIN queue : queue[k] = j
    BY <2>2 DEF InHand
  <2> QED BY <2>2, <2>3 DEF Stranded, BehindStop, Late, IInv, SentinelLast
<1> QED BY <1>1, InvInit, InvNext, LossInit, BehindNext, LossesNext, PTL DEF Spec

\* A committed resolution leaves a resolved row, whatever became of the pending row.
THEOREM ResolvedStaysResolved == Spec => []ResolutionStands
<1>1. IInv => ResolutionStands
  BY DEF IInv
<1> QED BY <1>1, InvInit, InvNext, PTL DEF Spec

\* The fallback to single rows refuses malformed rows and no others.
THEOREM GoodRowsAreNotRefused == Spec => []OnlyBadRowsRefused
<1>1. IInv => OnlyBadRowsRefused
  BY DEF IInv
<1> QED BY <1>1, InvInit, InvNext, PTL DEF Spec

\* A close() that returned from a writer stopped at the sentinel flushed what it found.
THEOREM CloseFlushesAll == Spec => []CloseFlushes
<1>1. IInv /\ Losses => CloseFlushes
  <2> SUFFICES ASSUME IInv, Losses, loop.at = "closed", writer.at = "stopped", NEW j \in closing
               PROVE  fate[j] \in {"written", "refused", "failed"}
    BY DEF CloseFlushes
  <2>1. batch = <<>> /\ \A k \in DOMAIN queue : queue[k] # j
    BY DEF IInv, WriterIdle, SentinelLast
  <2>2. ~InHand(j)
    BY <2>1 DEF InHand
  <2>3. j \in Jobs /\ fate[j] # "queued"
    BY <2>2 DEF IInv, Traced, TypeOK
  <2>4. fate[j] # "lost"
    BY <2>3 DEF Losses, LostRows, Alive
  <2> QED BY <2>3, <2>4 DEF IInv, SentinelLast, Decided
<1> QED BY <1>1, InvInit, InvNext, LossInit, LossesNext, PTL DEF Spec

-----------------------------------------------------------------------------
(* The write path implements AuditTrail.                                   *)

trailMap == [f \in Fires |-> db[f]]

\* An order enters and leaves dispatch(); the table does not move.
LEMMA DispatchStages ==
  ASSUME TypeOK, NEW f \in Fires, BeginDispatch(f) \/ record_order_resolution(f)
  PROVE  Trail!Next
<1>1. /\ db' = db
      /\ \/ fire[f] = "new" /\ fire' = [fire EXCEPT ![f] = "sent"]
         \/ fire[f] = "sent" /\ fire' = [fire EXCEPT ![f] = "ended"]
  BY DEF BeginDispatch, record_order_resolution, writerVars
<1>2. UNCHANGED [g \in Fires |-> db[g]]
  BY <1>1
<1> QED BY <1>1, <1>2 DEF Trail!Next, Trail!Send, Trail!End

\* A commit moves each row as one commit of AuditTrail may.
LEMMA CommitIsATrail ==
  ASSUME IInv, CommitBatch \/ _write_row
  PROVE  Trail!Commit
<1>1. fire' = fire
  BY DEF CommitBatch, _write_row, producers
<1>2. \A f \in Fires :
        /\ \/ db'[f] = db[f]
           \/ db'[f] = "pending" /\ db[f] = "absent" /\ fire[f] # "new"
           \/ db'[f] = "resolved" /\ fire[f] = "ended"
        /\ db'[f] # "rejected"
  <2>1. CASE CommitBatch
    BY <2>1 DEF CommitBatch, IInv, Honest
  <2>2. CASE _write_row
    <3> SUFFICES ASSUME NEW f \in Fires
                 PROVE  /\ \/ db'[f] = db[f]
                           \/ db'[f] = "pending" /\ db[f] = "absent" /\ fire[f] # "new"
                           \/ db'[f] = "resolved" /\ fire[f] = "ended"
                        /\ db'[f] # "rejected"
      OBVIOUS
    <3> QED BY <2>2, InsertHonest DEF _write_row
  <2> QED BY <2>1, <2>2
<1>3. db' \in [Orders -> {"absent", "pending", "resolved", "rejected"}]
  BY InvNext DEF IInv, TypeOK, Next, Writer
<1>4. trailMap' \in [Fires -> {"absent", "pending", "resolved"}]
  BY <1>2, <1>3, Kinds DEF trailMap
<1>5. \A f \in Fires : trailMap'[f] = db'[f] /\ trailMap[f] = db[f]
  BY DEF trailMap
<1> QED BY <1>1, <1>2, <1>4, <1>5 DEF Trail!Commit, Trail!MayBecome, trailMap

LEMMA TrailStep == IInv /\ [Next]_vars => Trail!Next \/ UNCHANGED <<fire, trailMap>>
<1> SUFFICES ASSUME IInv, [Next]_vars PROVE Trail!Next \/ UNCHANGED <<fire, trailMap>>
  OBVIOUS
<1>1. CASE CommitBatch \/ _write_row
  BY <1>1, CommitIsATrail DEF Trail!Next
<1>2. CASE \E f \in Fires : BeginDispatch(f) \/ record_order_resolution(f)
  BY <1>2, DispatchStages DEF IInv
<1>3. CASE \/ DrainFirst \/ DrainMore \/ DrainEnd \/ Requeue \/ InsertInBatch \/ BatchFails
           \/ WriteRowFails \/ RowsDone
  BY <1>3 DEF DrainFirst, DrainMore, DrainEnd, Requeue, InsertInBatch, BatchFails, WriteRowFails,
     RowsDone, producers, trailMap
<1>4. CASE \/ LoopPut \/ LoopTimeout \/ close \/ PutSentinel \/ Join \/ Crash
           \/ \E s \in Samples : record_latency_event(s)
           \/ \E r \in Rejects : _record_rejected(r) \/ Pool(r)
  BY <1>4 DEF LoopPut, LoopTimeout, close, PutSentinel, Join, Crash, record_latency_event,
     _record_rejected, Pool, PoolEnqueue, PoolPut, PoolTimeout, writerVars, trailMap
<1>5. CASE UNCHANGED vars
  BY <1>5 DEF vars, trailMap
<1> QED BY <1>1, <1>2, <1>3, <1>4, <1>5 DEF Next, Writer, Loop

\* Whatever is dropped, refused, rolled back or lost with the process, what the table
\* says of an order is true and never goes back.
THEOREM TableIsATrail == Spec => TrailSpec
<1>1. Init => Trail!Init
  <2> SUFFICES ASSUME Init PROVE Trail!Init
    OBVIOUS
  <2>1. trailMap = [f \in Fires |-> "absent"]
    BY Kinds DEF Init, trailMap
  <2> QED BY <2>1 DEF Init, Trail!Init, trailMap
<1> QED BY <1>1, InvInit, InvNext, TrailStep, PTL DEF Spec, TrailSpec, Trail!Spec, trailMap

=============================================================================
