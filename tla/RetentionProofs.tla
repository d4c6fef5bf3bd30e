-------------------------- MODULE RetentionProofs --------------------------
(* Machine-checked proofs about Retention, for every value of its constants: *)
(* any tables and periods, any chunk size, any number of writers.            *)
EXTENDS Retention, FiniteSetTheorems, TLAPS

-----------------------------------------------------------------------------
(* The inductive invariant.                                                *)

Databases == [rows: SUBSET Row, corrs: SUBSET Corrs]

Counts == { Cardinality(C) : C \in (SUBSET Row) \cup (SUBSET Corrs) } \cup {0}
Prunes == [pc: {"idle", "next", "open"}, i: Nat, at: Nat, count: Counts]

\* Where a prune can be; its clock reading is in the past.
PruneTyped ==
  /\ prune \in [Pruners -> Prunes]
  /\ \A p \in Pruners :
       /\ prune[p].at <= now
       /\ prune[p].pc # "idle" => prune[p].i \in 1..(Len(Pruned) + 1)

\* Every row has its correlation in this version of the database.
Closed(db) == \A r \in db.rows : r.corr \in db.corrs

\* A writer between its two statements holds the lock, and the correlation it has
\* found or made is still there.
HalfHeld ==
  \A w \in Writers : half[w] # {} => lock = w /\ \A r \in half[w] : r.corr \in view.corrs

\* What the holder of the lock has deleted was due, and older than what it left.
DeletionsDue ==
  \A r \in disk.rows \ view.rows :
    /\ r.table \in PrunedTables /\ r.ts < now - Days[r.table]
    /\ \A s \in view.rows : s.table = r.table => r.ts <= s.ts

\* A writer deletes nothing.
WritersAdd == lock \in Writers => disk.rows \subseteq view.rows

IInv ==
  /\ now \in 0..MaxTime /\ nextId \in 1..(MaxRows + 1)
  /\ disk \in Databases /\ view \in Databases
  /\ half \in [Writers -> SUBSET Row]
  /\ lock \in {NoOne} \cup Writers \cup Pruners
  /\ lock = NoOne => view = disk
  /\ PruneTyped /\ \A p \in Pruners : prune[p].pc = "open" <=> lock = p
  /\ HalfHeld /\ Closed(disk) /\ Closed(view) /\ fkFailed = FALSE
  /\ DeletionsDue /\ WritersAdd

-----------------------------------------------------------------------------
(* The clock and the prunes' own steps.                                    *)

\* Time passes: what was due stays due.
LEMMA TickKeeps ==
  ASSUME IInv, Tick
  PROVE  IInv'
<1> USE DEF Tick, dbVars
<1>0. now \in Nat /\ now' = now + 1 /\ MaxTime \in Nat /\ now' \in 0..MaxTime
  BY RetentionConstants DEF IInv
<1>1. PruneTyped'
  <2>1. \A p \in Pruners : prune[p].at \in Nat /\ prune[p].at <= now
    BY DEF IInv, PruneTyped, Prunes
  <2> QED BY <1>0, <2>1 DEF IInv, PruneTyped
<1>2. DeletionsDue'
  <2>1. ASSUME NEW r \in disk.rows \ view.rows PROVE r.ts < now' - Days[r.table]
    <3>1. r.ts \in Int /\ Days[r.table] \in Int /\ r.ts < now - Days[r.table]
      BY RetentionConstants DEF IInv, DeletionsDue, Databases, Row
    <3> QED BY <1>0, <3>1
  <2> QED BY <2>1 DEF IInv, DeletionsDue
<1> QED BY <1>0, <1>1, <1>2 DEF IInv, HalfHeld, Closed, WritersAdd

\* A prune begins, is told that the database is busy, or dies: its transaction is
\* undone, and nothing else has changed.
LEMMA PruneEndsKeeps ==
  ASSUME IInv, NEW p \in Pruners, StartPrune(p) \/ PruneBusy(p) \/ CrashPruner(p)
  PROVE  IInv'
<1>0. /\ UNCHANGED <<now, disk, nextId, half, fkFailed>>
      /\ \E q \in Prunes : /\ prune' = [prune EXCEPT ![p] = q]
                          /\ q.pc # "open" /\ q.at <= now /\ (q.pc # "idle" => q.i = 1)
      /\ lock' = (IF lock = p THEN NoOne ELSE lock) /\ view' = (IF lock = p THEN disk ELSE view)
  <2>0. now \in Nat /\ 0 <= now
    BY RetentionConstants DEF IInv
  <2>1. CASE StartPrune(p)
    <3> DEFINE q == [pc |-> "next", i |-> 1, at |-> now, count |-> 0]
    <3>1. q \in Prunes
      BY <2>0 DEF Prunes, Counts
    <3>2. prune' = [prune EXCEPT ![p] = q] /\ q.pc # "open" /\ q.at <= now /\ q.i = 1
      BY <2>0, <2>1 DEF StartPrune
    <3> HIDE DEF q
    <3> QED BY <2>1, <3>1, <3>2 DEF StartPrune, dbVars, IInv
  <2>2. CASE PruneBusy(p) \/ CrashPruner(p)
    <3>1. Idle \in Prunes /\ Idle.pc = "idle" /\ Idle.at = 0
      BY DEF Idle, Prunes, Counts
    <3>2. prune' = [prune EXCEPT ![p] = Idle]
      BY <2>2 DEF PruneBusy, PruneFails, CrashPruner
    <3>3. /\ UNCHANGED <<now, disk, nextId, half, fkFailed>>
          /\ lock' = (IF lock = p THEN NoOne ELSE lock)
          /\ view' = (IF lock = p THEN disk ELSE view)
      BY <2>2 DEF PruneBusy, CrashPruner, Rollback, MayWrite, dbVars
    <3> QED BY <2>0, <3>1, <3>2, <3>3
  <2> QED BY <2>1, <2>2
<1>1. p \notin Writers /\ p # NoOne /\ NoOne \notin Writers
  BY RetentionConstants DEF Pruners
<1>2. PruneTyped' /\ \A q \in Pruners : prune'[q].pc = "open" <=> lock' = q
  <2>1. PICK q \in Prunes : /\ prune' = [prune EXCEPT ![p] = q]
                            /\ q.pc # "open" /\ q.at <= now /\ (q.pc # "idle" => q.i = 1)
    BY <1>0
  <2>2. 1 \in 1..(Len(Pruned) + 1)
    BY RetentionConstants
  <2> QED BY <1>0, <1>1, <2>1, <2>2, RetentionConstants DEF IInv, PruneTyped, Pruners
<1>3. CASE lock = p
  BY <1>0, <1>1, <1>2, <1>3 DEF IInv, HalfHeld, Closed, DeletionsDue, WritersAdd
<1>4. CASE lock # p
  BY <1>0, <1>2, <1>4 DEF IInv, HalfHeld, Closed, DeletionsDue, WritersAdd
<1> QED BY <1>3, <1>4

\* A statement of a prune takes the lock and notes how many rows it deleted.
LEMMA OpenChunk ==
  ASSUME IInv, NEW p \in Pruners, prune[p].pc = "next", NEW n \in Counts,
         lock = NoOne, lock' = p, now' = now,
         prune' = [prune EXCEPT ![p].pc = "open", ![p].count = n]
  PROVE  PruneTyped' /\ \A q \in Pruners : prune'[q].pc = "open" <=> lock' = q
<1>1. prune \in [Pruners -> Prunes] /\ prune[p] \in Prunes
  BY DEF IInv, PruneTyped
<1>2. prune'[p] = [prune[p] EXCEPT !.pc = "open", !.count = n]
      /\ \A q \in Pruners \ {p} : prune'[q] = prune[q]
  BY <1>1
<1>3. prune'[p] \in Prunes /\ prune'[p].pc = "open" /\ prune'[p].i = prune[p].i
      /\ prune'[p].at = prune[p].at
  BY <1>1, <1>2 DEF Prunes
<1>4. prune' \in [Pruners -> Prunes]
  BY <1>1, <1>2, <1>3
<1>5. ASSUME NEW q \in Pruners
      PROVE  /\ prune'[q].at <= now' /\ (prune'[q].pc # "idle" => prune'[q].i \in 1..(Len(Pruned) + 1))
             /\ prune'[q].pc = "open" <=> lock' = q
  <2>1. CASE q = p
    BY <1>3, <2>1 DEF IInv, PruneTyped
  <2>2. CASE q # p
    BY <1>2, <2>2, RetentionConstants DEF IInv, PruneTyped, Pruners
  <2> QED BY <2>1, <2>2
<1> QED BY <1>4, <1>5 DEF PruneTyped

\* One chunk of a table: the oldest rows among those past the table's period.
LEMMA DeleteChunkKeeps ==
  ASSUME IInv, NEW p \in Pruners, DeleteChunk(p)
  PROVE  IInv'
<1> DEFINE t == Pruned[prune[p].i]
<1>1. PICK C \in OldestChunks(Expired(p, t)) :
        /\ Execute(p, [view EXCEPT !.rows = @ \ C])
        /\ prune' = [prune EXCEPT ![p].pc = "open", ![p].count = Cardinality(C)]
  BY DEF DeleteChunk
<1>2. /\ prune[p].pc = "next" /\ prune[p].i \in 1..Len(Pruned)
      /\ prune[p].at \in Nat /\ prune[p].at <= now /\ now \in Nat
      /\ UNCHANGED <<now, disk, nextId, half, fkFailed>>
  BY <1>1 DEF DeleteChunk, Execute, IInv, PruneTyped, Prunes
<1>3. /\ p \notin Writers /\ p # NoOne /\ NoOne \notin Writers
      /\ lock = NoOne /\ lock' = p /\ view = disk
      /\ view' = [disk EXCEPT !.rows = @ \ C]
  BY <1>1, <1>2, RetentionConstants DEF Pruners, IInv, Execute, MayWrite
<1>4. /\ C \subseteq { r \in disk.rows : r.table = t /\ r.ts < prune[p].at - Days[t] }
      /\ \A r \in C, s \in { r \in disk.rows : r.table = t /\ r.ts < prune[p].at - Days[t] } \ C :
           r.ts <= s.ts
  BY <1>1, <1>3 DEF OldestChunks, Expired, Cutoff
<1>5. view' \in Databases /\ view'.rows = disk.rows \ C /\ view'.corrs = disk.corrs
  BY <1>3, <1>4 DEF IInv, Databases
<1>6. PruneTyped' /\ \A q \in Pruners : prune'[q].pc = "open" <=> lock' = q
  <2>1. Cardinality(C) \in Counts
    BY <1>4 DEF Counts, IInv, Databases
  <2> QED BY <1>1, <1>2, <1>3, <2>1, OpenChunk
<1>7. DeletionsDue'
  <2>1. t \in PrunedTables /\ t \in Tables /\ Days[t] \in Nat
    BY <1>2, RetentionConstants DEF PrunedTables
  <2>2. disk.rows \subseteq Row /\ \A r \in disk.rows : r.ts \in Int
    BY RetentionConstants DEF IInv, Databases, Row
  <2>3. ASSUME NEW r \in C
        PROVE  /\ r.table \in PrunedTables /\ r.ts < now - Days[r.table]
               /\ \A s \in disk.rows \ C : s.table = r.table => r.ts <= s.ts
    <3>1. r \in disk.rows /\ r.table = t /\ r.ts < prune[p].at - Days[t] /\ r.ts \in Int
      BY <1>4, <2>2
    <3>2. ASSUME NEW s \in disk.rows \ C, s.table = t PROVE r.ts <= s.ts
      BY <1>2, <1>4, <2>1, <2>2, <3>1, <3>2
    <3> QED BY <1>2, <2>1, <3>1, <3>2
  <2> QED BY <1>2, <1>3, <1>5, <2>3 DEF DeletionsDue
<1>8. HalfHeld' /\ Closed(disk)' /\ Closed(view)' /\ WritersAdd'
  BY <1>2, <1>3, <1>5 DEF IInv, HalfHeld, Closed, WritersAdd
<1> QED BY <1>2, <1>3, <1>5, <1>6, <1>7, <1>8 DEF IInv

\* One chunk of the sweep: only correlations that nothing refers to, so no foreign key
\* can break.
LEMMA SweepChunkKeeps ==
  ASSUME IInv, NEW p \in Pruners, SweepChunk(p)
  PROVE  IInv'
<1>1. PICK C \in SUBSET { c \in view.corrs : ~Referenced(c) } :
        IF \A c \in C : References(c) = {}
          THEN /\ Execute(p, [view EXCEPT !.corrs = @ \ C])
               /\ prune' = [prune EXCEPT ![p].pc = "open", ![p].count = Cardinality(C)]
               /\ UNCHANGED fkFailed
          ELSE /\ MayWrite(p) /\ Rollback(p)
               /\ prune' = [prune EXCEPT ![p] = Idle]
               /\ fkFailed' = TRUE
  BY DEF SweepChunk
<1>2. /\ Execute(p, [view EXCEPT !.corrs = @ \ C])
      /\ prune' = [prune EXCEPT ![p].pc = "open", ![p].count = Cardinality(C)]
      /\ UNCHANGED fkFailed
  BY <1>1 DEF Referenced
<1>3. /\ prune[p].pc = "next" /\ UNCHANGED <<now, disk, nextId, half, fkFailed>>
  BY <1>2 DEF SweepChunk, Execute
<1>4. /\ p \notin Writers /\ p # NoOne /\ NoOne \notin Writers
      /\ lock = NoOne /\ lock' = p /\ view = disk
      /\ view' = [disk EXCEPT !.corrs = @ \ C]
  BY <1>2, <1>3, RetentionConstants DEF Pruners, IInv, Execute, MayWrite
<1>5. view' \in Databases /\ view'.rows = disk.rows /\ view'.corrs = disk.corrs \ C
  BY <1>4 DEF IInv, Databases
<1>6. PruneTyped' /\ \A q \in Pruners : prune'[q].pc = "open" <=> lock' = q
  <2>1. Cardinality(C) \in Counts
    <3>1. C \in SUBSET Corrs
      BY <1>1 DEF IInv, Databases
    <3>2. C \in (SUBSET Row) \cup (SUBSET Corrs)
      BY <3>1, Zenon
    <3> QED BY <3>2, Zenon DEF Counts
  <2>2. prune' = [prune EXCEPT ![p].pc = "open", ![p].count = Cardinality(C)]
    BY <1>2
  <2> QED BY <1>3, <1>4, <2>1, <2>2, OpenChunk DEF IInv
<1>7. Closed(view')
  <2>1. \A c \in C : \A r \in disk.rows : r.corr # c
    BY <1>1, <1>4 DEF Referenced, References
  <2> QED BY <1>5, <2>1 DEF IInv, Closed
<1>8. HalfHeld' /\ Closed(disk)' /\ DeletionsDue' /\ WritersAdd'
  BY <1>3, <1>4, <1>5 DEF IInv, HalfHeld, Closed, DeletionsDue, WritersAdd
<1> QED BY <1>3, <1>4, <1>5, <1>6, <1>7, <1>8 DEF IInv

\* The chunk is committed, and the prune moves on or is done.
LEMMA CommitChunkKeeps ==
  ASSUME IInv, NEW p \in Pruners, CommitChunk(p)
  PROVE  IInv'
<1>0. /\ prune[p].pc = "open" /\ lock = p /\ lock' = NoOne /\ disk' = view /\ view' = view
      /\ UNCHANGED <<now, nextId, half, fkFailed>>
  BY DEF CommitChunk, Commit
<1>1. p \notin Writers /\ NoOne \notin Pruners /\ NoOne \notin Writers /\ now \in Nat
  BY RetentionConstants DEF Pruners, IInv
<1> DEFINE n == prune[p].i
<1>2. prune[p] \in Prunes /\ prune[p].at <= now /\ n \in 1..(Len(Pruned) + 1)
      /\ Len(Pruned) \in Nat
  BY <1>0, RetentionConstants DEF IInv, PruneTyped
<1>3. PICK q \in Prunes :
        /\ prune' = [prune EXCEPT ![p] = q]
        /\ q.pc # "open" /\ q.at <= now /\ (q.pc # "idle" => q.i \in 1..(Len(Pruned) + 1))
  <2>1. \/ prune' = [prune EXCEPT ![p] = [prune[p] EXCEPT !.pc = "next", !.count = 0]]
        \/ n <= Len(Pruned)
           /\ prune' = [prune EXCEPT ![p] = [prune[p] EXCEPT !.pc = "next", !.i = n + 1]]
        \/ prune' = [prune EXCEPT ![p] = Idle]
    <3>1. CASE prune[p].count > 0
      BY <3>1 DEF CommitChunk
    <3>2. CASE ~(prune[p].count > 0) /\ n <= Len(Pruned)
      BY <3>2 DEF CommitChunk
    <3>3. CASE ~(prune[p].count > 0) /\ ~(n <= Len(Pruned))
      BY <3>3 DEF CommitChunk
    <3> QED BY <3>1, <3>2, <3>3
  <2>2. /\ Idle \in Prunes /\ Idle.pc = "idle" /\ Idle.at <= now
    BY <1>1 DEF Idle, Prunes, Counts
  <2>3. LET q == [prune[p] EXCEPT !.pc = "next", !.count = 0]
        IN  q \in Prunes /\ q.pc = "next" /\ q.at = prune[p].at /\ q.i = n
    BY <1>2 DEF Prunes, Counts
  <2>4. LET q == [prune[p] EXCEPT !.pc = "next", !.i = n + 1]
        IN  q \in Prunes /\ q.pc = "next" /\ q.at = prune[p].at /\ q.i = n + 1
    <3>1. n + 1 \in Nat
      BY <1>2
    <3> QED BY <1>2, <3>1 DEF Prunes
  <2>5. n <= Len(Pruned) => n + 1 \in 1..(Len(Pruned) + 1)
    BY <1>2
  <2> QED BY <1>2, <2>1, <2>2, <2>3, <2>4, <2>5
<1>4. PruneTyped' /\ \A k \in Pruners : prune'[k].pc = "open" <=> lock' = k
  BY <1>0, <1>1, <1>3 DEF IInv, PruneTyped
<1>5. HalfHeld' /\ Closed(disk)' /\ Closed(view)' /\ DeletionsDue' /\ WritersAdd'
  BY <1>0, <1>1 DEF IInv, HalfHeld, Closed, DeletionsDue, WritersAdd
<1> QED BY <1>0, <1>4, <1>5 DEF IInv

-----------------------------------------------------------------------------
(* The writers' steps.                                                     *)

\* The lock is the writer's or nobody's, so no prune is inside a transaction, and
\* no other writer between its two statements.
LEMMA WriterAlone ==
  ASSUME IInv, NEW w \in Writers, MayWrite(w)
  PROVE  /\ disk.rows \subseteq view.rows /\ w \notin Pruners /\ w # NoOne /\ NoOne \notin Pruners
         /\ \A v \in Writers \ {w} : half[v] = {}
         /\ \A q \in Pruners : prune[q].pc # "open"
BY RetentionConstants DEF IInv, MayWrite, WritersAdd, HalfHeld, Pruners

\* INSERT OR IGNORE INTO correlations: from here to the commit nobody else deletes.
LEMMA InsertParentKeeps ==
  ASSUME IInv, NEW w \in Writers, NEW row \in Row, InsertParent(w, row)
  PROVE  IInv'
<1>0. /\ MayWrite(w) /\ lock' = w /\ view' = [view EXCEPT !.corrs = @ \cup {row.corr}]
      /\ half' = [half EXCEPT ![w] = {row}] /\ nextId <= MaxRows /\ nextId' = nextId + 1
      /\ UNCHANGED <<now, disk, prune, fkFailed>>
  BY DEF InsertParent, Execute
<1>1. /\ view'.rows = view.rows /\ view'.corrs = view.corrs \cup {row.corr} /\ view' \in Databases
  BY <1>0 DEF IInv, Databases, Row
<1>2. half' \in [Writers -> SUBSET Row]
  BY <1>0 DEF IInv
<1>3. nextId' \in 1..(MaxRows + 1)
  BY <1>0, RetentionConstants DEF IInv
<1>4. PruneTyped' /\ \A q \in Pruners : prune'[q].pc = "open" <=> lock' = q
  BY <1>0, WriterAlone DEF IInv, PruneTyped
<1>5. HalfHeld' /\ Closed(disk)' /\ Closed(view)' /\ DeletionsDue' /\ WritersAdd'
  BY <1>0, <1>1, WriterAlone DEF IInv, HalfHeld, Closed, DeletionsDue, WritersAdd
<1> QED BY <1>0, <1>1, <1>2, <1>3, <1>4, <1>5, RetentionConstants DEF IInv

\* The row itself finds its correlation, which the same transaction found or made.
LEMMA InsertChildKeeps ==
  ASSUME IInv, NEW w \in Writers, NEW row \in half[w], InsertChild(w, row)
  PROVE  IInv'
<1>0. row \in Row /\ row.corr \in view.corrs /\ lock = w /\ MayWrite(w)
  BY DEF IInv, HalfHeld, InsertChild
<1>1. /\ lock' = w /\ view' = [view EXCEPT !.rows = @ \cup {row}]
      /\ half' = [half EXCEPT ![w] = {}]
      /\ UNCHANGED <<now, disk, nextId, prune, fkFailed>>
  BY <1>0 DEF InsertChild, Execute
<1>2. view'.rows = view.rows \cup {row} /\ view'.corrs = view.corrs /\ view' \in Databases
  BY <1>0, <1>1 DEF IInv, Databases
<1>3. half' \in [Writers -> SUBSET Row]
  BY <1>1 DEF IInv
<1>4. PruneTyped' /\ \A q \in Pruners : prune'[q].pc = "open" <=> lock' = q
  BY <1>0, <1>1, WriterAlone DEF IInv, PruneTyped
<1>5. HalfHeld' /\ Closed(disk)' /\ Closed(view)' /\ DeletionsDue' /\ WritersAdd'
  BY <1>0, <1>1, <1>2, WriterAlone DEF IInv, HalfHeld, Closed, DeletionsDue, WritersAdd
<1> QED BY <1>0, <1>1, <1>2, <1>3, <1>4, <1>5, WriterAlone DEF IInv

\* The batch is committed, or the writer's process dies and it is undone.
LEMMA WriterEndsKeeps ==
  ASSUME IInv, NEW w \in Writers, CommitBatch(w) \/ CrashWriter(w)
  PROVE  IInv'
<1>0. /\ lock = w /\ MayWrite(w) /\ lock' = NoOne /\ view' = disk' /\ disk' \in {disk, view}
      /\ half' = [half EXCEPT ![w] = {}]
      /\ UNCHANGED <<now, nextId, prune, fkFailed>>
  BY DEF CommitBatch, CrashWriter, Commit, Rollback, MayWrite, IInv
<1>1. half' \in [Writers -> SUBSET Row]
  BY <1>0 DEF IInv
<1>2. PruneTyped' /\ \A q \in Pruners : prune'[q].pc = "open" <=> lock' = q
  BY <1>0, WriterAlone DEF IInv, PruneTyped
<1>3. HalfHeld' /\ Closed(disk)' /\ Closed(view)' /\ DeletionsDue' /\ WritersAdd'
  BY <1>0, WriterAlone DEF IInv, HalfHeld, Closed, DeletionsDue, WritersAdd
<1> QED BY <1>0, <1>1, <1>2, <1>3 DEF IInv

-----------------------------------------------------------------------------
(* The theorems.                                                           *)

LEMMA InvInit == Init => IInv
<1> SUFFICES ASSUME Init PROVE IInv
  OBVIOUS
<1>1. disk \in Databases /\ view = disk /\ disk.rows = {}
  BY DEF Init, Databases
<1>2. Idle \in Prunes /\ Idle.pc = "idle" /\ Idle.at = 0
  BY DEF Idle, Prunes, Counts
<1>3. PruneTyped /\ \A p \in Pruners : prune[p].pc = "open" <=> lock = p
  BY <1>2, RetentionConstants DEF Init, PruneTyped, Pruners
<1>4. HalfHeld /\ Closed(disk) /\ Closed(view) /\ DeletionsDue /\ WritersAdd
  BY <1>1, RetentionConstants DEF Init, HalfHeld, Closed, DeletionsDue, WritersAdd
<1> QED BY <1>1, <1>3, <1>4, RetentionConstants DEF Init, IInv

LEMMA InvNext == IInv /\ [Next]_vars => IInv'
<1> SUFFICES ASSUME IInv, [Next]_vars PROVE IInv'
  OBVIOUS
<1>1. ASSUME NEW w \in Writers, NEW t \in Tables, NEW c \in Corrs, NEW late \in 0..MaxDelay,
             late <= now, InsertParent(w, NewRow(t, c, now - late))
      PROVE  IInv'
  <2>1. nextId \in 1..MaxRows
    BY <1>1, RetentionConstants DEF InsertParent, IInv
  <2>2. now - late \in 0..MaxTime
    BY <1>1, RetentionConstants DEF IInv
  <2>3. NewRow(t, c, now - late) \in Row
    BY <2>1, <2>2 DEF NewRow, Row
  <2> QED BY <1>1, <2>3, InsertParentKeeps
<1>2. ASSUME NEW w \in Writers, WriterStep(w) \/ CrashWriter(w) PROVE IInv'
  BY <1>2, InsertChildKeeps, WriterEndsKeeps DEF WriterStep
<1>3. ASSUME NEW p \in Pruners, StartPrune(p) \/ PruneStep(p) \/ PruneBusy(p) \/ CrashPruner(p)
      PROVE  IInv'
  BY <1>3, PruneEndsKeeps, DeleteChunkKeeps, SweepChunkKeeps, CommitChunkKeeps DEF PruneStep
<1>4. CASE Tick
  BY <1>4, TickKeeps
<1>5. CASE UNCHANGED vars
  BY <1>5 DEF vars, dbVars, IInv, PruneTyped, HalfHeld, Closed, DeletionsDue, WritersAdd
<1> QED BY <1>1, <1>2, <1>3, <1>4, <1>5 DEF Next

\* No sweep takes a correlation from under a row that is being written or is there,
\* and no row is written without one: SQLite's lock and the order of _insert's two
\* statements suffice, for any number of writers and whatever dies in between.
THEOREM ReferencesAreHeld == Spec => []ReferencesHold
<1>1. IInv => ReferencesHold
  BY DEF IInv, ReferencesHold, Closed
<1> QED BY <1>1, InvInit, InvNext, PTL DEF Spec

\* A commit deletes only rows that are due, oldest first, although a prune reads the
\* clock once and commits many times, and although another may run beside it.
THEOREM OnlyDueRowsGo == Spec => OnlyExpiredRowsGo
<1> DEFINE Due == \A r \in disk.rows \ disk.rows' :
                    /\ r.table \in PrunedTables /\ r.ts < now - Days[r.table]
                    /\ \A s \in disk'.rows : s.table = r.table => r.ts <= s.ts
<1>1. IInv /\ [Next]_vars => [Due]_vars
  <2> SUFFICES ASSUME IInv, Next PROVE Due
    OBVIOUS
  <2>1. disk' = disk \/ disk' = view
    BY DEF Next, InsertParent, WriterStep, InsertChild, CommitBatch, CrashWriter, StartPrune,
           PruneStep, DeleteChunk, SweepChunk, CommitChunk, PruneBusy, CrashPruner, Tick,
           Execute, Commit, Rollback, dbVars
  <2>2. CASE disk' = disk
    BY <2>2
  <2>3. CASE disk' = view
    BY <2>3 DEF IInv, DeletionsDue
  <2> QED BY <2>1, <2>2, <2>3
<1> QED BY <1>1, InvInit, InvNext, PTL DEF Spec, OnlyExpiredRowsGo

=============================================================================
