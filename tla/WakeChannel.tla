---------------------------- MODULE WakeChannel ----------------------------
(***************************************************************************)
(* The wake channel between the poller and the executor: IPCPollerClient's *)
(* bounded queue, its connect/write/reconnect loop, the Unix socket, and   *)
(* ExecutorServer._handle_connection up to the task it spawns for a wake.  *)
(* Wakes are numbered in the order in which send_wake() is called.         *)
(***************************************************************************)
EXTENDS Integers, Sequences, FiniteSets

CONSTANTS
  N,            \* bound: wakes the decision loop sends
  Shadow,       \* those with dry_run set
  Garbled,      \* those the executor cannot decode
  MaxQueue,     \* queue_maxsize
  ShadowLimit,  \* _shadow_queue_limit
  MaxConns,     \* bound: connections
  MaxCrashes    \* bound: executor crashes

ASSUME ChannelConstants ==
  /\ N \in Nat /\ MaxConns \in Nat /\ MaxCrashes \in Nat
  /\ Shadow \subseteq 1..N /\ Garbled \subseteq 1..N
  /\ MaxQueue \in Nat \ {0} /\ ShadowLimit \in 1..MaxQueue

Wakes == 1..N
Conns == 1..MaxConns

VARIABLES
  sent,       \* wakes handed to send_wake() so far
  queue,      \* IPCPollerClient._queue
  conn,       \* the poller's connection, 0 while it has none
  conns,      \* connections made so far
  link,       \* [Conns -> state of the socket pair]
  socket,     \* [Conns -> frames written and not yet read]
  handler,    \* [Conns -> where _handle_connection is]
  up,         \* whether the executor listens
  crashes,
  fired,      \* wakes for which a fire task was created, in order
  \* history
  fate,       \* [Wakes -> what became of it]
  via         \* [Wakes -> the connection it was written to]

poller == <<sent, queue, conn, conns>>
vars == <<poller, link, socket, handler, up, crashes, fired, fate, via>>

Idle == [at |-> "reading", wake |-> 0]
Gone == [at |-> "gone", wake |-> 0]

Init ==
  /\ sent = 0 /\ queue = <<>> /\ conn = 0 /\ conns = 0
  /\ link = [c \in Conns |-> "none"]
  /\ socket = [c \in Conns |-> <<>>]
  /\ handler = [c \in Conns |-> Gone]
  /\ up = TRUE /\ crashes = 0 /\ fired = <<>>
  /\ fate = [w \in Wakes |-> "unsent"] /\ via = [w \in Wakes |-> 0]

Members(s) == { s[k] : k \in DOMAIN s }
Lost(S) == [w \in Wakes |-> IF w \in S THEN "lost" ELSE fate[w]]

-----------------------------------------------------------------------------
(* The poller.                                                             *)

\* The queue is deep enough that a shadow fire yields.
ShadowYields(w) == w \in Shadow /\ Len(queue) >= ShadowLimit

\* One wake too many.
QueueFullOffByOne == Len(queue) > MaxQueue
QueueFull == Len(queue) >= MaxQueue

send_wake ==
  /\ sent < N /\ sent' = sent + 1
  /\ LET w == sent + 1 IN
       \/ /\ ShadowYields(w)
          /\ fate' = [fate EXCEPT ![w] = "dropped"]
          /\ UNCHANGED queue
       \/ /\ ~ShadowYields(w) /\ ~QueueFull
          /\ queue' = Append(queue, w)
          /\ fate' = [fate EXCEPT ![w] = "queued"]
       \/ /\ ~ShadowYields(w) /\ QueueFull
          /\ fate' = [fate EXCEPT ![w] = "dropped"]
          /\ UNCHANGED queue
  /\ UNCHANGED <<conn, conns, link, socket, handler, up, crashes, fired, via>>

\* The first failure to connect ends the loop.
ConnectOnce ==
  /\ conn = 0 /\ conns = 0 /\ up
  /\ conns' = conns + 1 /\ conn' = conns + 1
  /\ link' = [link EXCEPT ![conns + 1] = "open"]
  /\ handler' = [handler EXCEPT ![conns + 1] = Idle]
  /\ UNCHANGED <<sent, queue, socket, up, crashes, fired, fate, via>>

\* _run: the next open_unix_connection() that succeeds.
Connect ==
  /\ conn = 0 /\ conns < MaxConns /\ up
  /\ conns' = conns + 1 /\ conn' = conns + 1
  /\ link' = [link EXCEPT ![conns + 1] = "open"]
  /\ handler' = [handler EXCEPT ![conns + 1] = Idle]
  /\ UNCHANGED <<sent, queue, socket, up, crashes, fired, fate, via>>

\* The freshest wake is written first.
WriteNewestFirst ==
  /\ conn # 0 /\ queue # <<>>
  /\ LET w == queue[Len(queue)] IN
       /\ queue' = SubSeq(queue, 1, Len(queue) - 1)
       /\ via' = [via EXCEPT ![w] = conn]
       /\ socket' = [socket EXCEPT ![conn] = Append(@, w)]
       /\ fate' = [fate EXCEPT ![w] = "written"]
  /\ UNCHANGED <<sent, conn, conns, link, handler, up, crashes, fired>>

\* _write_loop: the wake leaves the queue and enters the socket in one step; a
\* socket whose other end is gone swallows it.
WriteFrame ==
  /\ conn # 0 /\ queue # <<>>
  /\ LET w == Head(queue) IN
       /\ queue' = Tail(queue)
       /\ via' = [via EXCEPT ![w] = conn]
       /\ IF link[conn] = "open"
            THEN /\ socket' = [socket EXCEPT ![conn] = Append(@, w)]
                 /\ fate' = [fate EXCEPT ![w] = "written"]
            ELSE /\ fate' = [fate EXCEPT ![w] = "lost"]
                 /\ UNCHANGED socket
  /\ UNCHANGED <<sent, conn, conns, link, handler, up, crashes, fired>>

\* What the poller last wrote goes back on the queue.
LoseConnectionResending ==
  /\ conn # 0
  /\ link' = [link EXCEPT ![conn] = IF @ = "open" THEN "half" ELSE "dead"]
  /\ conn' = 0
  /\ queue' = socket[conn] \o queue
  /\ UNCHANGED <<sent, conns, socket, handler, up, crashes, fired, fate, via>>

\* _run_connection ends: its read or its write task failed.  The executor may
\* still find the frames already in the socket.
LoseConnection ==
  /\ conn # 0
  /\ link' = [link EXCEPT ![conn] = IF @ = "open" THEN "half" ELSE "dead"]
  /\ conn' = 0
  /\ UNCHANGED <<sent, queue, conns, socket, handler, up, crashes, fired, fate, via>>

-----------------------------------------------------------------------------
(* The executor: one handler per connection.                               *)

\* A frame is read, decoded and answered.
HandlerRead(c) ==
  /\ handler[c].at = "reading" /\ socket[c] # <<>>
  /\ socket' = [socket EXCEPT ![c] = Tail(@)]
  /\ handler' = [handler EXCEPT ![c] = [at |-> "acking", wake |-> Head(socket[c])]]
  /\ UNCHANGED <<poller, link, up, crashes, fired, fate, via>>

\* The answer to a frame that cannot be decoded is drained, and the frame skipped.
HandlerReject(c) ==
  /\ handler[c].at = "acking" /\ handler[c].wake \in Garbled
  /\ fate' = [fate EXCEPT ![handler[c].wake] = "rejected"]
  /\ handler' = [handler EXCEPT ![c] = Idle]
  /\ UNCHANGED <<poller, link, socket, up, crashes, fired, via>>

\* The ack is drained and the fire task created.
HandlerFire(c) ==
  /\ handler[c].at = "acking" /\ handler[c].wake \notin Garbled
  /\ fired' = Append(fired, handler[c].wake)
  /\ fate' = [fate EXCEPT ![handler[c].wake] = "fired"]
  /\ handler' = [handler EXCEPT ![c] = Idle]
  /\ UNCHANGED <<poller, link, socket, up, crashes, via>>

\* drain() raises because the poller is gone: the handler ends before the fire or
\* the next frame.
HandlerAckFails(c) ==
  /\ handler[c].at = "acking" /\ link[c] = "half"
  /\ handler' = [handler EXCEPT ![c] = Gone]
  /\ fate' = Lost({handler[c].wake} \cup Members(socket[c]))
  /\ socket' = [socket EXCEPT ![c] = <<>>]
  /\ link' = [link EXCEPT ![c] = "dead"]
  /\ UNCHANGED <<poller, up, crashes, fired, via>>

HandlerEOF(c) ==
  /\ handler[c].at = "reading" /\ socket[c] = <<>> /\ link[c] = "half"
  /\ handler' = [handler EXCEPT ![c] = Gone]
  /\ link' = [link EXCEPT ![c] = "dead"]
  /\ UNCHANGED <<poller, socket, up, crashes, fired, fate, via>>

\* The executor dies: what its sockets held is gone, the poller finds out later.
Crash ==
  /\ up /\ crashes < MaxCrashes
  /\ up' = FALSE /\ crashes' = crashes + 1
  /\ fate' = Lost((UNION { Members(socket[c]) : c \in Conns }) \cup { handler[c].wake : c \in Conns })
  /\ socket' = [c \in Conns |-> <<>>]
  /\ handler' = [c \in Conns |-> Gone]
  /\ link' = [c \in Conns |-> IF link[c] = "none" THEN "none" ELSE "dead"]
  /\ UNCHANGED <<poller, fired, via>>

\* serve_forever in the next process: unlink the stale socket file, bind again.
serve_forever ==
  /\ ~up /\ up' = TRUE
  /\ UNCHANGED <<poller, link, socket, handler, crashes, fired, fate, via>>

Handle(c) ==
  HandlerRead(c) \/ HandlerReject(c) \/ HandlerFire(c) \/ HandlerAckFails(c) \/ HandlerEOF(c)

Next == send_wake \/ Connect \/ WriteFrame \/ LoseConnection \/ Crash \/ serve_forever
          \/ \E c \in Conns : Handle(c)

Spec == Init /\ [][Next]_vars

\* The loops of both processes run, a dead connection is noticed, and a crashed
\* executor is started again.
FairSpec ==
  Spec /\ WF_vars(send_wake) /\ WF_vars(Connect) /\ WF_vars(WriteFrame) /\ WF_vars(serve_forever)
       /\ WF_vars(LoseConnection /\ link[conn] # "open") /\ \A c \in Conns : WF_vars(Handle(c))

-----------------------------------------------------------------------------
(* What the channel promises.                                              *)

\* The state has its type; the queue keeps its bound, and no shadow wake has more
\* wakes before it than send_wake lets it wait behind.
TypeOK ==
  /\ sent \in 0..N /\ queue \in Seq(Wakes) /\ Len(queue) <= MaxQueue
  /\ \A k \in DOMAIN queue : queue[k] \in Shadow => k <= ShadowLimit
  /\ conn \in 0..MaxConns /\ conns \in 0..MaxConns
  /\ link \in [Conns -> {"none", "open", "half", "dead"}]
  /\ socket \in [Conns -> Seq(Wakes)]
  /\ handler \in [Conns -> [at: {"reading", "acking", "gone"}, wake: 0..N]]
  /\ up \in BOOLEAN /\ crashes \in 0..MaxCrashes /\ fired \in Seq(Wakes)
  /\ fate \in [Wakes -> {"unsent", "queued", "written", "dropped", "lost", "rejected", "fired"}]
  /\ via \in [Wakes -> 0..MaxConns]

\* A wake fires at most once, whatever connections and processes did meanwhile:
\* the channel loses wakes but never repeats one.
FiredAtMostOnce == \A k, l \in DOMAIN fired : fired[k] = fired[l] => k = l

\* Wakes fire in the order in which they were sent, unless a reconnect came
\* between them: the handlers of two connections are not ordered.
OrderWithinConnection ==
  \A k, l \in DOMAIN fired :
    (k < l /\ via[fired[k]] = via[fired[l]]) => fired[k] < fired[l]

\* The client retries forever: as long as a connection can still be made, no
\* wake stays on the queue or in a socket for good.
EveryWakeSettles ==
  [](conns < MaxConns) =>
    \A w \in Wakes : <>(fate[w] \in {"dropped", "lost", "rejected", "fired"})

=============================================================================
