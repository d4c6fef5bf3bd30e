------------------------- MODULE WakeChannelProofs -------------------------
(* Machine-checked proofs about WakeChannel, for every value of its constants: *)
(* any number of wakes, connections and crashes, any queue.                  *)
EXTENDS WakeChannel, TLAPS

-----------------------------------------------------------------------------
(* Sequences of numbers in ascending order.                                *)

Increasing(s) == \A k, l \in DOMAIN s : k < l => s[k] < s[l]

\* What is appended comes after everything there.
LEMMA AppendKeeps ==
  ASSUME NEW s \in Seq(Wakes), Increasing(s), NEW x \in Wakes, \A y \in Members(s) : y < x
  PROVE  /\ Append(s, x) \in Seq(Wakes) /\ Increasing(Append(s, x))
         /\ Members(Append(s, x)) = Members(s) \cup {x}
<1> DEFINE n == Len(s)
           t == Append(s, x)
<1>1. n \in Nat /\ DOMAIN s = 1..n /\ \A k \in 1..n : s[k] \in Wakes
  OBVIOUS
<1>2. t \in Seq(Wakes) /\ DOMAIN t = 1..(n + 1) /\ t[n + 1] = x /\ \A k \in 1..n : t[k] = s[k]
  OBVIOUS
<1> HIDE DEF t, n
<1>3. Increasing(t)
  <2> SUFFICES ASSUME NEW k \in 1..(n + 1), NEW l \in 1..(n + 1), k < l PROVE t[k] < t[l]
    BY <1>2 DEF Increasing
  <2>1. k \in 1..n
    BY <1>1
  <2>2. CASE l = n + 1
    BY <1>1, <1>2, <2>1, <2>2 DEF Members
  <2>3. CASE l \in 1..n
    BY <1>1, <1>2, <2>1, <2>3 DEF Increasing
  <2> QED BY <1>1, <2>2, <2>3
<1>4. Members(t) = Members(s) \cup {x}
  <2>1. 1..(n + 1) = 1..n \cup {n + 1}
    BY <1>1
  <2> QED BY <1>1, <1>2, <2>1 DEF Members
<1> QED BY <1>2, <1>3, <1>4 DEF t

\* What is taken from the head comes before everything left.
LEMMA TailKeeps ==
  ASSUME NEW s \in Seq(Wakes), Increasing(s), s # <<>>
  PROVE  /\ Head(s) \in Wakes /\ Tail(s) \in Seq(Wakes) /\ Increasing(Tail(s))
         /\ Len(Tail(s)) = Len(s) - 1 /\ \A k \in DOMAIN Tail(s) : k + 1 \in DOMAIN s /\ Tail(s)[k] = s[k + 1]
         /\ Head(s) \in Members(s) /\ Members(Tail(s)) \subseteq Members(s)
         /\ \A y \in Members(Tail(s)) : Head(s) < y
<1> DEFINE n == Len(s)
           t == Tail(s)
<1>1. n \in Nat \ {0} /\ DOMAIN s = 1..n /\ \A k \in 1..n : s[k] \in Wakes
  OBVIOUS
<1>2. t \in Seq(Wakes) /\ Len(t) = n - 1 /\ DOMAIN t = 1..(n - 1)
      /\ \A k \in 1..(n - 1) : t[k] = s[k + 1]
  OBVIOUS
<1>3. Head(s) = s[1] /\ 1 \in 1..n
  BY <1>1
<1> HIDE DEF t, n
<1>4. \A k \in 1..(n - 1) : k + 1 \in 1..n /\ 1 < k + 1
  BY <1>1
<1>5. Increasing(t)
  <2> SUFFICES ASSUME NEW k \in 1..(n - 1), NEW l \in 1..(n - 1), k < l PROVE t[k] < t[l]
    BY <1>2 DEF Increasing
  <2>1. k + 1 \in 1..n /\ l + 1 \in 1..n /\ k + 1 < l + 1
    BY <1>4
  <2>2. s[k + 1] < s[l + 1]
    BY <1>1, <2>1 DEF Increasing
  <2> QED BY <1>2, <2>2
<1>6. \A y \in Members(t) : s[1] < y /\ y \in Members(s)
  BY <1>1, <1>2, <1>3, <1>4 DEF Increasing, Members
<1>7. s[1] \in Members(s) /\ s[1] \in Wakes
  BY <1>1, <1>3 DEF Members
<1> QED BY <1>1, <1>2, <1>3, <1>4, <1>5, <1>6, <1>7 DEF t, n

\* Nothing is a member of the empty sequence, and every member of a sequence of wakes
\* is a wake.
LEMMA MembersOf ==
  /\ <<>> \in Seq(Wakes) /\ Increasing(<<>>) /\ Members(<<>>) = {}
  /\ \A s \in Seq(Wakes) : Members(s) \subseteq Wakes
BY DEF Increasing, Members

-----------------------------------------------------------------------------
(* The inductive invariant.                                                *)

\* The wake a handler has acknowledged and not yet fired.
Acking(c) == handler[c].at = "acking"

\* The queue holds, in order, wakes later than everything written.
QueueInOrder ==
  /\ Increasing(queue)
  /\ \A w \in Members(queue) : fate[w] = "queued"
  /\ \A w \in Wakes : fate[w] # "unsent" => w <= sent
  /\ \A w \in Wakes, q \in Members(queue) : fate[w] \in {"written", "fired"} => w < q

\* A connection holds, in order, wakes that were written to it and are nowhere else.
SocketsInOrder ==
  /\ \A c \in Conns : Increasing(socket[c])
  /\ \A c \in Conns : \A w \in Members(socket[c]) : fate[w] = "written" /\ via[w] = c

\* Its handler holds one that was written before those.
HandlersInOrder ==
  \A c \in Conns :
    /\ ~Acking(c) => handler[c].wake = 0
    /\ Acking(c) => /\ handler[c].wake \in Wakes
                    /\ fate[handler[c].wake] = "written" /\ via[handler[c].wake] = c
                    /\ \A w \in Members(socket[c]) : handler[c].wake < w

\* What was fired over a connection was written to it before all that.
FiredInOrder ==
  \A k \in DOMAIN fired :
    /\ fate[fired[k]] = "fired"
    /\ \A c \in Conns : via[fired[k]] = c =>
         /\ Acking(c) => fired[k] < handler[c].wake
         /\ \A w \in Members(socket[c]) : fired[k] < w

IInv == /\ TypeOK /\ QueueInOrder /\ SocketsInOrder /\ HandlersInOrder /\ FiredInOrder
        /\ FiredAtMostOnce /\ OrderWithinConnection
-----------------------------------------------------------------------------
(* The poller's steps.                                                     *)

\* send_wake: the newest wake goes to the end of the queue, or nowhere.
LEMMA SendKeeps ==
  ASSUME IInv, send_wake
  PROVE  IInv'
<1> DEFINE w == sent + 1
<1>0. /\ w \in Wakes /\ sent \in Nat /\ sent < w /\ sent' = w /\ sent' \in 0..N
      /\ UNCHANGED <<conn, conns, link, socket, handler, up, crashes, fired, via>>
  BY ChannelConstants DEF send_wake, IInv, TypeOK, Wakes
<1>1. fate[w] = "unsent"
  BY <1>0 DEF IInv, QueueInOrder
<1>2. PICK f \in {"dropped", "queued"} :
        /\ fate' = [fate EXCEPT ![w] = f]
        /\ \/ f = "dropped" /\ queue' = queue
           \/ /\ f = "queued" /\ queue' = Append(queue, w) /\ Len(queue) < MaxQueue
              /\ w \in Shadow => Len(queue) < ShadowLimit
  <2>1. Len(queue) \in Nat /\ MaxQueue \in Nat /\ ShadowLimit \in Nat
    BY ChannelConstants DEF IInv, TypeOK
  <2> QED BY <2>1 DEF send_wake, QueueFull, ShadowYields
<1>3. fate'[w] = f /\ (\A v \in Wakes \ {w} : fate'[v] = fate[v])
      /\ fate' \in [Wakes -> {"unsent", "queued", "written", "dropped", "lost", "rejected", "fired"}]
  BY <1>0, <1>2 DEF IInv, TypeOK
<1>4. queue \in Seq(Wakes) /\ Increasing(queue) /\ (\A y \in Members(queue) : y \in Wakes /\ y < w)
  <2>1. \A y \in Members(queue) : y \in Wakes /\ y <= sent
    BY MembersOf DEF IInv, TypeOK, QueueInOrder
  <2> QED BY <1>0, <2>1 DEF IInv, TypeOK, QueueInOrder, Wakes
<1>5. \/ f = "dropped" /\ queue' = queue
      \/ f = "queued" /\ queue' \in Seq(Wakes) /\ Increasing(queue') /\ Members(queue') = Members(queue) \cup {w}
  BY <1>0, <1>2, <1>4, AppendKeeps
<1>6. TypeOK'
  <2>1. queue' \in Seq(Wakes)
    BY <1>4, <1>5
  <2>2. Len(queue') <= MaxQueue /\ \A k \in DOMAIN queue' : queue'[k] \in Shadow => k <= ShadowLimit
    <3>1. CASE queue' = queue
      BY <3>1 DEF IInv, TypeOK
    <3>2. CASE f = "queued"
      <4>1. Len(queue) \in Nat /\ MaxQueue \in Nat /\ ShadowLimit \in Nat
        BY <1>4, ChannelConstants
      <4>2. /\ Len(queue') = Len(queue) + 1 /\ DOMAIN queue' = 1..(Len(queue) + 1)
            /\ queue'[Len(queue) + 1] = w /\ DOMAIN queue = 1..Len(queue)
            /\ \A k \in 1..Len(queue) : queue'[k] = queue[k]
        BY <1>0, <1>2, <1>4, <3>2
      <4>3. \A k \in 1..Len(queue) : queue'[k] \in Shadow => k <= ShadowLimit
        BY <4>2 DEF IInv, TypeOK
      <4>4. queue'[Len(queue) + 1] \in Shadow => Len(queue) + 1 <= ShadowLimit
        BY <1>2, <3>2, <4>1, <4>2
      <4> QED BY <1>2, <3>2, <4>1, <4>2, <4>3, <4>4
    <3> QED BY <1>2, <3>1, <3>2
  <2> QED BY <1>0, <1>3, <2>1, <2>2 DEF IInv, TypeOK
<1>7. QueueInOrder'
  <2>1. \A v \in Wakes : fate'[v] # "unsent" => v <= sent'
    BY <1>0, <1>3 DEF IInv, QueueInOrder, Wakes
  <2>2. ASSUME NEW v \in Wakes, NEW q \in Members(queue'), fate'[v] \in {"written", "fired"}
        PROVE  v < q
    <3>1. v # w /\ fate[v] \in {"written", "fired"}
      BY <1>2, <1>3, <2>2
    <3>2. v <= sent
      BY <3>1 DEF IInv, QueueInOrder
    <3> QED BY <1>0, <1>5, <2>2, <3>1, <3>2 DEF IInv, QueueInOrder, Wakes
  <2>3. \A q \in Members(queue') : fate'[q] = "queued"
    BY <1>3, <1>4, <1>5 DEF IInv, QueueInOrder, Wakes
  <2> QED BY <1>4, <1>5, <2>1, <2>2, <2>3 DEF QueueInOrder
<1>8. \A v \in Wakes : fate[v] \in {"written", "fired"} => fate'[v] = fate[v]
  BY <1>1, <1>3
<1>9. SocketsInOrder' /\ HandlersInOrder' /\ FiredInOrder' /\ FiredAtMostOnce' /\ OrderWithinConnection'
  <2>1. \A c \in Conns : Members(socket[c]) \subseteq Wakes
    BY MembersOf DEF IInv, TypeOK
  <2>2. \A k \in DOMAIN fired : fired[k] \in Wakes
    BY DEF IInv, TypeOK
  <2>3. SocketsInOrder'
    BY <1>0, <1>8, <2>1 DEF IInv, SocketsInOrder
  <2>4. HandlersInOrder'
    BY <1>0, <1>8 DEF IInv, HandlersInOrder, Acking
  <2>5. FiredInOrder'
    BY <1>0, <1>8, <2>2 DEF IInv, FiredInOrder, Acking
  <2> QED BY <1>0, <2>3, <2>4, <2>5 DEF IInv, FiredAtMostOnce, OrderWithinConnection
<1> QED BY <1>6, <1>7, <1>9 DEF IInv

\* A connection is made, lost, or listened for: no wake moves.
LEMMA ConnectionKeeps ==
  ASSUME IInv, Connect \/ LoseConnection \/ serve_forever
  PROVE  IInv'
<1>0. /\ UNCHANGED <<sent, queue, socket, crashes, fired, fate, via>>
      /\ conn' \in 0..MaxConns /\ conns' \in 0..MaxConns /\ up' \in BOOLEAN
  <2>1. conns \in Nat /\ MaxConns \in Nat
    BY ChannelConstants DEF IInv, TypeOK
  <2>2. conn' \in 0..MaxConns /\ conns' \in 0..MaxConns
    BY <2>1 DEF Connect, LoseConnection, serve_forever, poller, IInv, TypeOK
  <2>3. up' \in BOOLEAN
    BY DEF Connect, LoseConnection, serve_forever, IInv, TypeOK
  <2> QED BY <2>2, <2>3 DEF Connect, LoseConnection, serve_forever, poller
<1>1. link' \in [Conns -> {"none", "open", "half", "dead"}]
  BY DEF Connect, LoseConnection, serve_forever, IInv, TypeOK
<1>2. \/ handler' = handler
      \/ \E c \in Conns : handler' = [handler EXCEPT ![c] = Idle]
  <2>1. conns < MaxConns => conns + 1 \in Conns
    BY ChannelConstants DEF IInv, TypeOK, Conns
  <2> QED BY <2>1 DEF Connect, LoseConnection, serve_forever
<1>3. /\ handler' \in [Conns -> [at: {"reading", "acking", "gone"}, wake: 0..N]]
      /\ \A c \in Conns : handler'[c] = handler[c] \/ handler'[c] = Idle
  <2>1. Idle \in [at: {"reading", "acking", "gone"}, wake: 0..N]
    BY ChannelConstants DEF Idle
  <2> QED BY <1>2, <2>1 DEF IInv, TypeOK
<1>4. HandlersInOrder' /\ FiredInOrder'
  <2>1. \A c \in Conns : Acking(c)' => Acking(c) /\ handler'[c] = handler[c]
    BY <1>3 DEF Acking, Idle
  <2>2. \A c \in Conns : ~Acking(c)' => handler'[c].wake = 0
    BY <1>3 DEF Acking, Idle, IInv, HandlersInOrder
  <2> QED BY <1>0, <2>1, <2>2 DEF IInv, HandlersInOrder, FiredInOrder
<1> QED BY <1>0, <1>1, <1>3, <1>4
     DEF IInv, TypeOK, QueueInOrder, SocketsInOrder, FiredAtMostOnce, OrderWithinConnection

\* _write_loop: the oldest wake of the queue is later than all that was written, over
\* this connection or another.
LEMMA WriteKeeps ==
  ASSUME IInv, WriteFrame
  PROVE  IInv'
<1> DEFINE w == Head(queue)
           Fates == {"unsent", "queued", "written", "dropped", "lost", "rejected", "fired"}
<1>0. /\ conn \in Conns /\ queue \in Seq(Wakes) /\ queue # <<>> /\ Increasing(queue)
      /\ queue' = Tail(queue) /\ via' = [via EXCEPT ![w] = conn]
      /\ UNCHANGED <<sent, conn, conns, link, handler, up, crashes, fired>>
  BY DEF WriteFrame, IInv, TypeOK, QueueInOrder, Conns
<1>1. /\ w \in Wakes /\ queue' \in Seq(Wakes) /\ Increasing(queue') /\ Len(queue') = Len(queue) - 1
      /\ \A k \in DOMAIN queue' : k + 1 \in DOMAIN queue /\ queue'[k] = queue[k + 1]
      /\ w \in Members(queue) /\ Members(queue') \subseteq Members(queue)
      /\ \A y \in Members(queue') : w < y
  BY <1>0, TailKeeps
<1>2. fate[w] = "queued"
  BY <1>1 DEF IInv, QueueInOrder
<1>3. PICK f \in {"written", "lost"} :
        /\ fate' = [fate EXCEPT ![w] = f]
        /\ \/ f = "written" /\ socket' = [socket EXCEPT ![conn] = Append(socket[conn], w)]
           \/ f = "lost" /\ socket' = socket
  BY DEF WriteFrame
<1>4. /\ fate'[w] = f /\ (\A v \in Wakes \ {w} : fate'[v] = fate[v]) /\ fate' \in [Wakes -> Fates]
      /\ via'[w] = conn /\ (\A v \in Wakes \ {w} : via'[v] = via[v]) /\ via' \in [Wakes -> 0..MaxConns]
  BY <1>0, <1>1, <1>3 DEF IInv, TypeOK
<1>5. /\ socket[conn] \in Seq(Wakes) /\ Increasing(socket[conn])
      /\ \A y \in Members(socket[conn]) : y \in Wakes /\ y < w
  <2>1. socket[conn] \in Seq(Wakes) /\ Members(socket[conn]) \subseteq Wakes
    BY <1>0, MembersOf DEF IInv, TypeOK
  <2> QED BY <1>0, <1>1, <2>1 DEF IInv, SocketsInOrder, QueueInOrder
<1>6. /\ socket' \in [Conns -> Seq(Wakes)] /\ \A c \in Conns : Increasing(socket'[c])
      /\ \A c \in Conns \ {conn} : socket'[c] = socket[c]
      /\ Members(socket'[conn]) = IF f = "written" THEN Members(socket[conn]) \cup {w}
                                  ELSE Members(socket[conn])
  <2>1. socket \in [Conns -> Seq(Wakes)] /\ \A c \in Conns : Increasing(socket[c])
    BY DEF IInv, TypeOK, SocketsInOrder
  <2>2. CASE f = "written"
    <3> DEFINE s == Append(socket[conn], w)
    <3>1. s \in Seq(Wakes) /\ Increasing(s) /\ Members(s) = Members(socket[conn]) \cup {w}
      BY <1>1, <1>5, AppendKeeps
    <3>2. socket' = [socket EXCEPT ![conn] = s]
      BY <1>3, <2>2
    <3> HIDE DEF s
    <3> QED BY <1>0, <2>1, <2>2, <3>1, <3>2
  <2>3. CASE f = "lost"
    BY <1>3, <2>1, <2>3
  <2> QED BY <2>2, <2>3
<1>7. TypeOK'
  <2>1. Len(queue') <= MaxQueue /\ \A k \in DOMAIN queue' : queue'[k] \in Shadow => k <= ShadowLimit
    <3>1. Len(queue) \in Nat /\ MaxQueue \in Nat /\ ShadowLimit \in Nat /\ Len(queue) <= MaxQueue
          /\ DOMAIN queue' \subseteq Nat
      BY <1>0, <1>1, ChannelConstants DEF IInv, TypeOK
    <3>2. ASSUME NEW k \in DOMAIN queue', queue'[k] \in Shadow PROVE k <= ShadowLimit
      <4>1. k + 1 <= ShadowLimit
        BY <1>1, <3>2 DEF IInv, TypeOK
      <4> QED BY <3>1, <4>1
    <3> QED BY <1>1, <3>1, <3>2
  <2> QED BY <1>0, <1>1, <1>4, <1>6, <2>1 DEF IInv, TypeOK
<1>8. QueueInOrder'
  <2>1. \A q \in Members(queue') : q \in Wakes /\ q # w
    BY <1>0, <1>1, MembersOf DEF Wakes
  <2>2. \A v \in Wakes : fate'[v] # "unsent" => v <= sent'
    BY <1>0, <1>2, <1>4 DEF IInv, QueueInOrder
  <2>3. \A q \in Members(queue') : fate'[q] = "queued"
    BY <1>1, <1>4, <2>1 DEF IInv, QueueInOrder
  <2>4. ASSUME NEW v \in Wakes, NEW q \in Members(queue'), fate'[v] \in {"written", "fired"}
        PROVE  v < q
    <3>1. CASE v = w
      BY <1>1, <3>1
    <3>2. CASE v # w
      BY <1>1, <1>4, <2>4, <3>2 DEF IInv, QueueInOrder
    <3> QED BY <3>1, <3>2
  <2> QED BY <1>1, <2>2, <2>3, <2>4 DEF QueueInOrder
<1>9. \A v \in Wakes : fate[v] \in {"written", "fired"} =>
        v # w /\ v < w /\ fate'[v] = fate[v] /\ via'[v] = via[v]
  BY <1>1, <1>2, <1>4 DEF IInv, QueueInOrder
<1>10. \A c \in Conns : \A v \in Members(socket'[c]) :
          \/ v \in Members(socket[c])
          \/ v = w /\ c = conn /\ f = "written"
  BY <1>6
<1>11. SocketsInOrder'
  <2>1. \A c \in Conns : Members(socket[c]) \subseteq Wakes
    BY MembersOf DEF IInv, TypeOK
  <2>2. ASSUME NEW c \in Conns, NEW v \in Members(socket'[c])
        PROVE  fate'[v] = "written" /\ via'[v] = c
    <3>1. CASE v \in Members(socket[c])
      <4>1. v \in Wakes /\ fate[v] = "written" /\ via[v] = c
        BY <2>1, <3>1 DEF IInv, SocketsInOrder
      <4> QED BY <1>9, <4>1
    <3>2. CASE v = w /\ c = conn /\ f = "written"
      BY <1>4, <3>2
    <3> QED BY <1>10, <3>1, <3>2
  <2> QED BY <1>6, <2>2 DEF SocketsInOrder
<1>12. HandlersInOrder'
  BY <1>0, <1>9, <1>10 DEF IInv, HandlersInOrder, Acking
<1>13. FiredInOrder'
  <2>1. \A k \in DOMAIN fired : fired[k] \in Wakes
    BY DEF IInv, TypeOK
  <2> SUFFICES ASSUME NEW k \in DOMAIN fired
               PROVE  /\ fate'[fired[k]] = "fired"
                      /\ \A c \in Conns : via'[fired[k]] = c =>
                           /\ Acking(c) => fired[k] < handler[c].wake
                           /\ \A v \in Members(socket'[c]) : fired[k] < v
    BY <1>0 DEF FiredInOrder, Acking
  <2>2. fate[fired[k]] = "fired"
    BY DEF IInv, FiredInOrder
  <2>3. fired[k] < w /\ fate'[fired[k]] = "fired" /\ via'[fired[k]] = via[fired[k]]
    BY <1>9, <2>1, <2>2
  <2>4. ASSUME NEW c \in Conns, via'[fired[k]] = c
        PROVE  /\ Acking(c) => fired[k] < handler[c].wake
               /\ \A v \in Members(socket[c]) : fired[k] < v
    BY <2>3, <2>4 DEF IInv, FiredInOrder
  <2> QED BY <1>10, <2>3, <2>4
<1>14. FiredAtMostOnce' /\ OrderWithinConnection'
  <2>1. \A k \in DOMAIN fired : fired[k] \in Wakes /\ fate[fired[k]] = "fired"
    BY DEF IInv, TypeOK, FiredInOrder
  <2>2. \A k \in DOMAIN fired : via'[fired[k]] = via[fired[k]]
    BY <1>9, <2>1
  <2> QED BY <1>0, <2>2 DEF IInv, FiredAtMostOnce, OrderWithinConnection
<1> QED BY <1>7, <1>8, <1>11, <1>12, <1>13, <1>14 DEF IInv

-----------------------------------------------------------------------------
(* The executor's steps.                                                   *)

\* A frame is read and answered: it was the oldest in its socket.
LEMMA ReadKeeps ==
  ASSUME IInv, NEW c \in Conns, HandlerRead(c)
  PROVE  IInv'
<1> DEFINE w == Head(socket[c])
<1>0. /\ ~Acking(c) /\ socket[c] \in Seq(Wakes) /\ socket[c] # <<>> /\ Increasing(socket[c])
      /\ socket' = [socket EXCEPT ![c] = Tail(socket[c])]
      /\ UNCHANGED <<sent, queue, conn, conns, link, up, crashes, fired, via>>
  BY DEF HandlerRead, poller, IInv, TypeOK, SocketsInOrder, Acking
<1>1. /\ w \in Wakes /\ Tail(socket[c]) \in Seq(Wakes) /\ Increasing(Tail(socket[c]))
      /\ w \in Members(socket[c]) /\ Members(Tail(socket[c])) \subseteq Members(socket[c])
      /\ \A y \in Members(Tail(socket[c])) : w < y
  BY <1>0, TailKeeps
<1>2. /\ socket' \in [Conns -> Seq(Wakes)] /\ socket'[c] = Tail(socket[c])
      /\ \A d \in Conns \ {c} : socket'[d] = socket[d]
  BY <1>0, <1>1 DEF IInv, TypeOK
<1>3. fate[w] = "written" /\ via[w] = c
  BY <1>1 DEF IInv, SocketsInOrder
<1>4. fate' = fate /\ handler' = [handler EXCEPT ![c] = [at |-> "acking", wake |-> w]]
  BY DEF HandlerRead
<1>6. /\ handler' \in [Conns -> [at: {"reading", "acking", "gone"}, wake: 0..N]]
      /\ \A d \in Conns \ {c} : handler'[d] = handler[d]
      /\ Acking(c)' /\ handler'[c].wake = w
  <2>1. w \in 0..N
    BY <1>1 DEF Wakes
  <2> HIDE DEF w
  <2> QED BY <1>4, <2>1 DEF IInv, TypeOK, Acking
<1>7. TypeOK'
  BY <1>0, <1>2, <1>4, <1>6 DEF IInv, TypeOK
<1>8. QueueInOrder'
  BY <1>0, <1>4 DEF IInv, QueueInOrder
<1>9. ASSUME NEW d \in Conns, NEW v \in Members(socket'[d])
      PROVE  /\ v \in Wakes /\ v \in Members(socket[d]) /\ v # w
             /\ fate'[v] = "written" /\ via[v] = d /\ (d = c => w < v)
  <2>1. v \in Members(socket[d]) /\ (d = c => w < v)
    BY <1>1, <1>2, <1>9
  <2>2. v \in Wakes /\ fate[v] = "written" /\ via[v] = d
    BY <2>1, MembersOf DEF IInv, TypeOK, SocketsInOrder
  <2>3. v # w
    BY <1>1, <1>3, <2>1, <2>2 DEF Wakes
  <2> QED BY <1>4, <2>1, <2>2, <2>3
<1>10. SocketsInOrder'
  BY <1>0, <1>1, <1>2, <1>9 DEF IInv, SocketsInOrder
<1>11. HandlersInOrder'
  <2> SUFFICES ASSUME NEW d \in Conns
               PROVE  /\ ~Acking(d)' => handler'[d].wake = 0
                      /\ Acking(d)' => /\ handler'[d].wake \in Wakes
                                       /\ fate'[handler'[d].wake] = "written"
                                       /\ via[handler'[d].wake] = d
                                       /\ \A v \in Members(socket'[d]) : handler'[d].wake < v
    BY <1>0 DEF HandlersInOrder
  <2>1. CASE d = c
    BY <1>1, <1>3, <1>4, <1>6, <1>9, <2>1
  <2>2. CASE d # c
    <3>1. handler'[d] = handler[d] /\ (Acking(d)' <=> Acking(d))
      BY <1>6, <2>2 DEF Acking
    <3> QED BY <1>4, <1>9, <3>1 DEF IInv, HandlersInOrder
  <2> QED BY <2>1, <2>2
<1>12. FiredInOrder'
  <2> SUFFICES ASSUME NEW k \in DOMAIN fired
               PROVE  /\ fate'[fired[k]] = "fired"
                      /\ \A d \in Conns : via[fired[k]] = d =>
                           /\ Acking(d)' => fired[k] < handler'[d].wake
                           /\ \A v \in Members(socket'[d]) : fired[k] < v
    BY <1>0 DEF FiredInOrder
  <2>1. fired[k] \in Wakes /\ fate[fired[k]] = "fired"
    BY DEF IInv, TypeOK, FiredInOrder
  <2>2. fate'[fired[k]] = "fired"
    BY <1>4, <2>1
  <2>3. ASSUME NEW d \in Conns, via[fired[k]] = d
        PROVE  /\ Acking(d) => fired[k] < handler[d].wake
               /\ \A v \in Members(socket[d]) : fired[k] < v
    BY <2>3 DEF IInv, FiredInOrder
  <2>4. ASSUME NEW d \in Conns, via[fired[k]] = d, Acking(d)' PROVE fired[k] < handler'[d].wake
    <3>1. CASE d = c
      BY <1>1, <1>6, <2>3, <2>4, <3>1
    <3>2. CASE d # c
      BY <1>6, <2>3, <2>4, <3>2 DEF Acking
    <3> QED BY <3>1, <3>2
  <2> QED BY <1>9, <2>2, <2>3, <2>4
<1> QED BY <1>0, <1>7, <1>8, <1>10, <1>11, <1>12
     DEF IInv, FiredAtMostOnce, OrderWithinConnection

\* A wake is rejected: it is settled without having fired.
LEMMA RejectKeeps ==
  ASSUME IInv, NEW c \in Conns, HandlerReject(c)
  PROVE  IInv'
<1> DEFINE w == handler[c].wake
<1>0. /\ Acking(c) /\ handler' = [handler EXCEPT ![c] = Idle]
      /\ fate' = [fate EXCEPT ![w] = "rejected"]
      /\ UNCHANGED <<sent, queue, conn, conns, link, socket, up, crashes, fired, via>>
  BY DEF HandlerReject, poller, Acking
<1>1. /\ w \in Wakes /\ fate[w] = "written" /\ via[w] = c
      /\ \A v \in Members(socket[c]) : w < v
  BY <1>0 DEF IInv, HandlersInOrder
<1>2. /\ fate'[w] = "rejected" /\ (\A v \in Wakes \ {w} : fate'[v] = fate[v])
      /\ fate' \in [Wakes -> {"unsent", "queued", "written", "dropped", "lost", "rejected", "fired"}]
  BY <1>0, <1>1 DEF IInv, TypeOK
<1>3. /\ handler' \in [Conns -> [at: {"reading", "acking", "gone"}, wake: 0..N]]
      /\ ~Acking(c)' /\ handler'[c].wake = 0 /\ \A d \in Conns \ {c} : handler'[d] = handler[d]
  BY <1>0, ChannelConstants DEF IInv, TypeOK, Idle, Acking
<1>4. TypeOK'
  BY <1>0, <1>2, <1>3 DEF IInv, TypeOK
<1>5. QueueInOrder'
  <2>1. Members(queue) \subseteq Wakes /\ \A q \in Members(queue) : q # w
    BY <1>1, MembersOf DEF IInv, TypeOK, QueueInOrder
  <2>2. \A v \in Wakes : /\ fate'[v] # "unsent" => fate[v] # "unsent"
                         /\ fate'[v] \in {"written", "fired"} => fate[v] \in {"written", "fired"}
    BY <1>1, <1>2
  <2> QED BY <1>0, <1>2, <2>1, <2>2 DEF IInv, QueueInOrder
<1>6. \A d \in Conns : \A v \in Members(socket[d]) : fate'[v] = "written" /\ via[v] = d
  <2> SUFFICES ASSUME NEW d \in Conns, NEW v \in Members(socket[d])
               PROVE  fate'[v] = "written" /\ via[v] = d
    OBVIOUS
  <2>1. v \in Wakes /\ fate[v] = "written" /\ via[v] = d
    BY MembersOf DEF IInv, TypeOK, SocketsInOrder
  <2>2. v # w
    BY <1>1, <2>1 DEF Wakes
  <2> QED BY <1>2, <2>1, <2>2
<1>7. SocketsInOrder'
  BY <1>0, <1>6 DEF IInv, SocketsInOrder
<1>8. HandlersInOrder'
  <2> SUFFICES ASSUME NEW d \in Conns \ {c}
               PROVE  /\ ~Acking(d) => handler[d].wake = 0
                      /\ Acking(d) => /\ handler[d].wake \in Wakes
                                      /\ fate'[handler[d].wake] = "written"
                                      /\ via[handler[d].wake] = d
                                      /\ \A v \in Members(socket[d]) : handler[d].wake < v
    BY <1>0, <1>3 DEF HandlersInOrder, Acking
  <2>1. Acking(d) => handler[d].wake \in Wakes /\ handler[d].wake # w
    BY <1>1 DEF IInv, HandlersInOrder
  <2> QED BY <1>2, <2>1 DEF IInv, HandlersInOrder
<1>9. \A k \in DOMAIN fired : fired[k] \in Wakes /\ fate'[fired[k]] = "fired"
  <2>1. \A k \in DOMAIN fired : fired[k] \in Wakes /\ fate[fired[k]] = "fired"
    BY DEF IInv, TypeOK, FiredInOrder
  <2> QED BY <1>1, <1>2, <2>1
<1>10. FiredInOrder'
  BY <1>0, <1>3, <1>9 DEF IInv, FiredInOrder, Acking
<1> QED BY <1>0, <1>4, <1>5, <1>7, <1>8, <1>10
     DEF IInv, FiredAtMostOnce, OrderWithinConnection

\* The fire task is created: what was fired over this connection was read before.
LEMMA FireKeeps ==
  ASSUME IInv, NEW c \in Conns, HandlerFire(c)
  PROVE  IInv'
<1> DEFINE w == handler[c].wake
           n == Len(fired)
<1>0. /\ Acking(c) /\ fired' = Append(fired, w) /\ handler' = [handler EXCEPT ![c] = Idle]
      /\ fate' = [fate EXCEPT ![w] = "fired"]
      /\ UNCHANGED <<sent, queue, conn, conns, link, socket, up, crashes, via>>
  BY DEF HandlerFire, poller, Acking
<1>1. /\ w \in Wakes /\ fate[w] = "written" /\ via[w] = c
      /\ \A v \in Members(socket[c]) : w < v
  BY <1>0 DEF IInv, HandlersInOrder
<1>2. /\ n \in Nat /\ DOMAIN fired = 1..n /\ \A k \in 1..n : fired[k] \in Wakes
      /\ fired' \in Seq(Wakes) /\ DOMAIN fired' = 1..(n + 1) /\ fired'[n + 1] = w
      /\ \A k \in 1..n : fired'[k] = fired[k]
  BY <1>0, <1>1 DEF IInv, TypeOK
<1> HIDE DEF n
<1>3. /\ fate'[w] = "fired" /\ (\A v \in Wakes \ {w} : fate'[v] = fate[v])
      /\ fate' \in [Wakes -> {"unsent", "queued", "written", "dropped", "lost", "rejected", "fired"}]
  BY <1>0, <1>1 DEF IInv, TypeOK
<1>4. /\ handler' \in [Conns -> [at: {"reading", "acking", "gone"}, wake: 0..N]]
      /\ ~Acking(c)' /\ handler'[c].wake = 0 /\ \A d \in Conns \ {c} : handler'[d] = handler[d]
  BY <1>0, ChannelConstants DEF IInv, TypeOK, Idle, Acking
<1>5. TypeOK'
  BY <1>0, <1>2, <1>3, <1>4 DEF IInv, TypeOK
<1>6. QueueInOrder'
  <2>1. Members(queue) \subseteq Wakes /\ \A q \in Members(queue) : q # w
    BY <1>1, MembersOf DEF IInv, TypeOK, QueueInOrder
  <2>2. \A v \in Wakes : /\ fate'[v] # "unsent" => fate[v] # "unsent"
                         /\ fate'[v] \in {"written", "fired"} => fate[v] \in {"written", "fired"}
    BY <1>1, <1>3
  <2> QED BY <1>0, <1>3, <2>1, <2>2 DEF IInv, QueueInOrder
<1>7. \A d \in Conns : \A v \in Members(socket[d]) :
        v \in Wakes /\ v # w /\ fate[v] = "written" /\ fate'[v] = "written" /\ via[v] = d
  <2> SUFFICES ASSUME NEW d \in Conns, NEW v \in Members(socket[d])
               PROVE  v \in Wakes /\ v # w /\ fate[v] = "written" /\ fate'[v] = "written" /\ via[v] = d
    OBVIOUS
  <2>1. v \in Wakes /\ fate[v] = "written" /\ via[v] = d
    BY MembersOf DEF IInv, TypeOK, SocketsInOrder
  <2>2. v # w
    BY <1>1, <2>1 DEF Wakes
  <2> QED BY <1>3, <2>1, <2>2
<1>8. SocketsInOrder'
  BY <1>0, <1>7 DEF IInv, SocketsInOrder
<1>9. HandlersInOrder'
  <2> SUFFICES ASSUME NEW d \in Conns \ {c}
               PROVE  /\ ~Acking(d) => handler[d].wake = 0
                      /\ Acking(d) => /\ handler[d].wake \in Wakes
                                      /\ fate'[handler[d].wake] = "written"
                                      /\ via[handler[d].wake] = d
                                      /\ \A v \in Members(socket[d]) : handler[d].wake < v
    BY <1>0, <1>4 DEF HandlersInOrder, Acking
  <2>1. Acking(d) => handler[d].wake \in Wakes /\ handler[d].wake # w
    BY <1>1 DEF IInv, HandlersInOrder
  <2> QED BY <1>3, <2>1 DEF IInv, HandlersInOrder
<1>10. \A k \in 1..n : /\ fate[fired[k]] = "fired" /\ fired[k] # w
                       /\ fate'[fired[k]] = "fired" /\ (via[fired[k]] = c => fired[k] < w)
  BY <1>0, <1>1, <1>2, <1>3 DEF IInv, FiredInOrder
<1>11. FiredInOrder'
  <2> SUFFICES ASSUME NEW k \in 1..(n + 1)
               PROVE  /\ fate'[fired'[k]] = "fired"
                      /\ \A d \in Conns : via[fired'[k]] = d =>
                           /\ Acking(d)' => fired'[k] < handler'[d].wake
                           /\ \A v \in Members(socket[d]) : fired'[k] < v
    BY <1>0, <1>2 DEF FiredInOrder
  <2>1. CASE k = n + 1
    BY <1>1, <1>2, <1>3, <1>4, <2>1
  <2>2. CASE k \in 1..n
    BY <1>2, <1>4, <1>10, <2>2 DEF IInv, FiredInOrder, Acking
  <2> QED BY <1>2, <2>1, <2>2
<1>12. FiredAtMostOnce' /\ OrderWithinConnection'
  <2>1. \A k \in 1..(n + 1) : k = n + 1 \/ k \in 1..n
    BY <1>2
  <2>2. FiredAtMostOnce'
    BY <1>2, <1>10, <2>1 DEF IInv, FiredAtMostOnce
  <2>3. ASSUME NEW k \in 1..(n + 1), NEW l \in 1..(n + 1), k < l, via[fired'[k]] = via[fired'[l]]
        PROVE  fired'[k] < fired'[l]
    <3>1. k \in 1..n
      BY <1>2, <2>3
    <3>2. CASE l = n + 1
      BY <1>1, <1>2, <1>10, <2>3, <3>1, <3>2
    <3>3. CASE l \in 1..n
      BY <1>2, <2>3, <3>1, <3>3 DEF IInv, OrderWithinConnection
    <3> QED BY <2>1, <3>2, <3>3
  <2> QED BY <1>0, <1>2, <2>2, <2>3 DEF OrderWithinConnection
<1> QED BY <1>5, <1>6, <1>8, <1>9, <1>11, <1>12 DEF IInv

\* What the sockets and the handlers of the connections G hold.
Held(G) == (UNION { Members(socket[c]) : c \in G }) \cup { handler[c].wake : c \in G }

LEMMA HeldBy ==
  ASSUME NEW G, NEW w
  PROVE  w \in Held(G) <=> \E c \in G : w \in Members(socket[c]) \/ w = handler[c].wake
BY Zenon DEF Held

\* Connections end and lose what they held: nothing fired is among it, and nothing
\* that another connection holds.
LEMMA LossKeeps ==
  ASSUME IInv, NEW G \in SUBSET Conns, fate' = Lost(Held(G)),
         socket' = [c \in Conns |-> IF c \in G THEN <<>> ELSE socket[c]],
         handler' = [c \in Conns |-> IF c \in G THEN Gone ELSE handler[c]],
         link' \in [Conns -> {"none", "open", "half", "dead"}],
         up' \in BOOLEAN, crashes' \in 0..MaxCrashes,
         UNCHANGED <<sent, queue, conn, conns, fired, via>>
  PROVE  IInv'
<1> DEFINE Fates == {"unsent", "queued", "written", "dropped", "lost", "rejected", "fired"}
<1>0. \A c \in Conns : Members(socket[c]) \subseteq Wakes
  BY MembersOf DEF IInv, TypeOK
<1>1. \A w \in Wakes : w \in Held(G) => fate[w] = "written" /\ via[w] \in G
  <2> SUFFICES ASSUME NEW w \in Wakes, w \in Held(G) PROVE fate[w] = "written" /\ via[w] \in G
    OBVIOUS
  <2>0. PICK c \in G : w \in Members(socket[c]) \/ w = handler[c].wake
    BY HeldBy
  <2>1. CASE w \in Members(socket[c])
    BY <2>1 DEF IInv, SocketsInOrder
  <2>2. CASE w = handler[c].wake
    <3>1. Acking(c)
      BY <2>2 DEF IInv, HandlersInOrder, Wakes
    <3> QED BY <2>2, <3>1 DEF IInv, HandlersInOrder
  <2> QED BY <2>0, <2>1, <2>2
<1>2. /\ fate' \in [Wakes -> Fates]
      /\ \A w \in Wakes : fate'[w] = IF w \in Held(G) THEN "lost" ELSE fate[w]
  BY DEF Lost, IInv, TypeOK
<1>3. \A w \in Wakes : (fate[w] # "written" \/ via[w] \notin G) => fate'[w] = fate[w]
  BY <1>1, <1>2
<1>4. /\ \A c \in G : Members(socket'[c]) = {} /\ Increasing(socket'[c]) /\ socket'[c] \in Seq(Wakes)
                      /\ handler'[c] = Gone /\ ~Acking(c)' /\ handler'[c].wake = 0
      /\ \A c \in Conns \ G : /\ socket'[c] = socket[c] /\ handler'[c] = handler[c]
                              /\ Acking(c)' <=> Acking(c)
  BY MembersOf DEF Gone, Acking
<1>5. TypeOK'
  <2>1. Gone \in [at: {"reading", "acking", "gone"}, wake: 0..N]
    BY ChannelConstants DEF Gone
  <2>2. handler' \in [Conns -> [at: {"reading", "acking", "gone"}, wake: 0..N]]
    BY <2>1 DEF IInv, TypeOK
  <2>3. socket' \in [Conns -> Seq(Wakes)]
    BY <1>4 DEF IInv, TypeOK
  <2> QED BY <1>2, <2>2, <2>3 DEF IInv, TypeOK
<1>6. QueueInOrder'
  <2>1. Members(queue) \subseteq Wakes
    BY MembersOf DEF IInv, TypeOK
  <2>2. \A q \in Members(queue) : fate'[q] = "queued"
    BY <1>3, <2>1 DEF IInv, QueueInOrder
  <2>3. \A w \in Wakes : /\ fate'[w] # "unsent" => fate[w] # "unsent"
                         /\ fate'[w] \in {"written", "fired"} => fate[w] \in {"written", "fired"}
    BY <1>1, <1>2
  <2> QED BY <2>2, <2>3 DEF IInv, QueueInOrder
<1>7. SocketsInOrder'
  <2>1. ASSUME NEW c \in Conns \ G, NEW w \in Members(socket[c])
        PROVE  fate'[w] = "written" /\ via[w] = c
    <3>1. w \in Wakes /\ fate[w] = "written" /\ via[w] = c
      BY <1>0, <2>1 DEF IInv, SocketsInOrder
    <3> QED BY <1>3, <3>1
  <2>2. \A c \in Conns : Increasing(socket'[c])
    BY <1>4 DEF IInv, SocketsInOrder
  <2>3. \A c \in Conns : \A w \in Members(socket'[c]) : fate'[w] = "written" /\ via[w] = c
    BY <1>4, <2>1
  <2> QED BY <2>2, <2>3 DEF SocketsInOrder
<1>8. HandlersInOrder'
  <2> SUFFICES ASSUME NEW c \in Conns \ G
               PROVE  /\ ~Acking(c) => handler[c].wake = 0
                      /\ Acking(c) => /\ handler[c].wake \in Wakes
                                      /\ fate'[handler[c].wake] = "written"
                                      /\ via[handler[c].wake] = c
                                      /\ \A w \in Members(socket[c]) : handler[c].wake < w
    BY <1>4 DEF HandlersInOrder
  <2>1. Acking(c) => handler[c].wake \in Wakes /\ via[handler[c].wake] = c
    BY DEF IInv, HandlersInOrder
  <2> QED BY <1>3, <2>1 DEF IInv, HandlersInOrder
<1>9. FiredInOrder'
  <2> SUFFICES ASSUME NEW k \in DOMAIN fired
               PROVE  /\ fate'[fired[k]] = "fired"
                      /\ \A c \in Conns : via[fired[k]] = c =>
                           /\ Acking(c)' => fired[k] < handler'[c].wake
                           /\ \A w \in Members(socket'[c]) : fired[k] < w
    BY DEF FiredInOrder
  <2>1. fired[k] \in Wakes /\ fate[fired[k]] = "fired"
    BY DEF IInv, TypeOK, FiredInOrder
  <2>2. fate'[fired[k]] = "fired"
    BY <1>3, <2>1
  <2>3. ASSUME NEW c \in Conns \ G, via[fired[k]] = c
        PROVE  /\ Acking(c)' => fired[k] < handler'[c].wake
               /\ \A w \in Members(socket'[c]) : fired[k] < w
    BY <1>4, <2>3 DEF IInv, FiredInOrder
  <2> QED BY <1>4, <2>2, <2>3
<1> QED BY <1>5, <1>6, <1>7, <1>8, <1>9 DEF IInv, FiredAtMostOnce, OrderWithinConnection

\* A handler ends, or the executor dies.
LEMMA EndKeeps ==
  ASSUME IInv, Crash \/ \E c \in Conns : HandlerAckFails(c) \/ HandlerEOF(c)
  PROVE  IInv'
<1>0. fate \in [Wakes -> {"unsent", "queued", "written", "dropped", "lost", "rejected", "fired"}]
      /\ socket \in [Conns -> Seq(Wakes)]
      /\ handler \in [Conns -> [at: {"reading", "acking", "gone"}, wake: 0..N]]
  BY DEF IInv, TypeOK
<1>1. CASE Crash
  <2>1. fate' = Lost(Held(Conns))
    BY <1>1 DEF Crash, Held
  <2>2. /\ socket' = [c \in Conns |-> IF c \in Conns THEN <<>> ELSE socket[c]]
        /\ handler' = [c \in Conns |-> IF c \in Conns THEN Gone ELSE handler[c]]
    BY <1>1 DEF Crash
  <2>3. /\ link' \in [Conns -> {"none", "open", "half", "dead"}] /\ up' \in BOOLEAN
        /\ crashes' \in 0..MaxCrashes /\ UNCHANGED <<sent, queue, conn, conns, fired, via>>
    <3>1. link' \in [Conns -> {"none", "open", "half", "dead"}]
      BY <1>1 DEF Crash
    <3>2. crashes' \in 0..MaxCrashes
      BY <1>1, ChannelConstants DEF Crash, IInv, TypeOK
    <3> QED BY <1>1, <3>1, <3>2 DEF Crash, poller
  <2> QED BY <2>1, <2>2, <2>3, LossKeeps
<1>2. ASSUME NEW c \in Conns, HandlerAckFails(c) \/ HandlerEOF(c) PROVE IInv'
  <2>1. Held({c}) = {handler[c].wake} \cup Members(socket[c])
    <3>1. \A w : w \in Held({c}) <=> w \in {handler[c].wake} \cup Members(socket[c])
      BY HeldBy
    <3> QED BY <3>1, Zenon
  <2>2. fate' = Lost(Held({c}))
    <3>1. CASE HandlerAckFails(c)
      BY <2>1, <3>1 DEF HandlerAckFails
    <3>2. CASE HandlerEOF(c)
      <4>1. handler[c].wake = 0 /\ Members(socket[c]) = {} /\ fate' = fate
        BY <3>2, MembersOf DEF HandlerEOF, IInv, HandlersInOrder, Acking
      <4>2. \A w \in Wakes : w \notin Held({c})
        BY <2>1, <4>1 DEF Wakes
      <4> QED BY <1>0, <4>1, <4>2 DEF Lost
    <3> QED BY <1>2, <3>1, <3>2
  <2>3. socket' = [d \in Conns |-> IF d \in {c} THEN <<>> ELSE socket[d]]
    BY <1>0, <1>2 DEF HandlerAckFails, HandlerEOF
  <2>4. handler' = [d \in Conns |-> IF d \in {c} THEN Gone ELSE handler[d]]
    BY <1>0, <1>2 DEF HandlerAckFails, HandlerEOF
  <2>5. /\ link' \in [Conns -> {"none", "open", "half", "dead"}] /\ up' \in BOOLEAN
        /\ crashes' \in 0..MaxCrashes /\ UNCHANGED <<sent, queue, conn, conns, fired, via>>
    BY <1>2 DEF HandlerAckFails, HandlerEOF, poller, IInv, TypeOK
  <2> QED BY <2>2, <2>3, <2>4, <2>5, LossKeeps
<1> QED BY <1>1, <1>2

-----------------------------------------------------------------------------
(* The theorems.                                                           *)

LEMMA InvInit == Init => IInv
<1> SUFFICES ASSUME Init PROVE IInv
  OBVIOUS
<1>1. TypeOK
  BY ChannelConstants DEF Init, TypeOK, Gone
<1>2. Members(queue) = {} /\ Increasing(queue) /\ fired = <<>>
      /\ \A c \in Conns : /\ Members(socket[c]) = {} /\ Increasing(socket[c])
                          /\ ~Acking(c) /\ handler[c].wake = 0
  BY MembersOf DEF Init, Acking, Gone
<1>3. \A w \in Wakes : fate[w] = "unsent"
  BY DEF Init
<1> QED BY <1>1, <1>2, <1>3
     DEF IInv, QueueInOrder, SocketsInOrder, HandlersInOrder, FiredInOrder, FiredAtMostOnce,
         OrderWithinConnection

LEMMA InvNext == IInv /\ [Next]_vars => IInv'
<1> SUFFICES ASSUME IInv, [Next]_vars PROVE IInv'
  OBVIOUS
<1>1. CASE UNCHANGED vars
  BY <1>1 DEF vars, poller, IInv, TypeOK, QueueInOrder, SocketsInOrder, HandlersInOrder, Acking,
              FiredInOrder, FiredAtMostOnce, OrderWithinConnection
<1> QED BY <1>1, SendKeeps, ConnectionKeeps, WriteKeeps, ReadKeeps, RejectKeeps, FireKeeps, EndKeeps
     DEF Next, Handle

\* The queue of send_wake keeps its bounds, the one of shadow wakes included.
THEOREM ChannelTyped == Spec => []TypeOK
<1>1. IInv => TypeOK
  BY DEF IInv
<1> QED BY <1>1, InvInit, InvNext, PTL DEF Spec

\* A wake is fired at most once: _write_loop takes it off the queue before it writes
\* it and nothing puts it back, so no reconnect and no restart can repeat it.
THEOREM NoWakeFiresTwice == Spec => []FiredAtMostOnce
<1>1. IInv => FiredAtMostOnce
  BY DEF IInv
<1> QED BY <1>1, InvInit, InvNext, PTL DEF Spec

\* Over one connection wakes fire in the order in which they were sent, although the
\* handler awaits the ack between the read and the fire.
THEOREM WakesFireInOrder == Spec => []OrderWithinConnection
<1>1. IInv => OrderWithinConnection
  BY DEF IInv
<1> QED BY <1>1, InvInit, InvNext, PTL DEF Spec

=============================================================================
