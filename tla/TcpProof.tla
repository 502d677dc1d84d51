------------------------------ MODULE TcpProof ------------------------------
(***************************************************************************)
(* Machine-checked proofs about TcpServer and its connections: for any     *)
(* clients, I/O loops, descriptors, calls of the user, length of messages  *)
(* and high water mark.                                                    *)
(***************************************************************************)
EXTENDS TcpServer, DataFacts

-----------------------------------------------------------------------------
(* One connection *)

Events == {"read", "write"}
Plain == {"forceCloseInLoop", "writeCompleteCallback", "highWaterMarkCallback"}
TeardownOps == {"connectDestroyed", "removeConnectionInLoop"}
Ops == Plain \cup TeardownOps \cup {"connectEstablished"}
Revent == {"HUP", "ERR", "IN", "OUT"}

ConnType ==
    [state : {"kDisconnected", "kConnecting", "kConnected", "kDisconnecting"},
     reading : BOOLEAN, events : SUBSET Events,
     index : {"kNew", "kAdded", "kDeleted"}, watch : (SUBSET Events) \cup {Off},
     out : Seq(Nat), wire : Seq(Nat), fin : BOOLEAN,
     peer : {"open", "closed", "reset", "gone"},
     bytes : Nat, lost : BOOLEAN, ups : Nat, downs : Nat,
     restarted : BOOLEAN,
     todo : Seq(Plain), delayed : BOOLEAN, closing : BOOLEAN,
     failed : BOOLEAN]

\* s holds the bytes after d up to e.
Numbered(s, d, e) == e = d + Len(s) /\ \A i \in 1 .. Len(s) : s[i] = d + i

\* The wire and outputBuffer_ hold what was sent, in order.
Stream(k) ==
    /\ Numbered(k.wire, 0, Len(k.wire))
    /\ ~k.lost => Numbered(k.out, Len(k.wire), k.bytes)
    /\ k.lost => WriteFails(k) /\ ~isWriting(k) /\ k.out = <<>>
    /\ k.fin => k.out = <<>> /\ k.state \in {"kDisconnecting", "kDisconnected"}
    /\ k.out # <<>> /\ Open(k) => isWriting(k)
    /\ k.state = "kConnecting" => k.out = <<>>

Good(k) == k \in ConnType /\ Stream(k)

\* The owner has nothing to do for the connection.
Settled(k) == k.todo = <<>> /\ ~k.delayed /\ ~k.closing

\* The channel waits for data.
ReadOn(k) == k.index = "kAdded" /\ "read" \in k.events

\* What each state of a connection means for its callbacks and its channel.
Life(k) ==
    /\ k.state = "kConnecting" =>
         /\ k.ups = 0 /\ k.downs = 0 /\ k.index = "kNew" /\ k.watch = Off
         /\ k.events = {} /\ k.reading
    /\ Open(k) =>
         /\ k.ups = 1 /\ k.downs = 0 /\ k.index # "kNew"
         /\ k.reading => ReadOn(k)
    /\ k.state = "kDisconnected" =>
         /\ k.ups = 1 /\ k.downs = 1 /\ "write" \notin k.events
         /\ ~k.restarted =>
              /\ k.events = {}
              /\ k.watch = Off \/ (k.watch = {} /\ ~k.reading)

-----------------------------------------------------------------------------
(* The functors of a loop *)

Functor == [op : Ops, c : Conns]

NoTeardown(q, c) ==
    \A i \in 1 .. Len(q) : q[i].c = c => q[i].op \notin TeardownOps

Absent(q, c) == \A i \in 1 .. Len(q) : q[i].c # c

\* connectEstablished is all that may be queued for c, or is not queued.
Sole(q, c) ==
    \A i \in 1 .. Len(q) : q[i].c = c =>
        /\ q[i].op = "connectEstablished"
        /\ \A j \in 1 .. Len(q) : q[j].c = c => j = i

Began(q, c) ==
    \A i \in 1 .. Len(q) : q[i].c = c => q[i].op # "connectEstablished"

\* Exactly one step of the teardown of c is queued, op.
OneTeardown(q, c, op) ==
    \E i \in 1 .. Len(q) :
        /\ q[i] = [op |-> op, c |-> c]
        /\ \A j \in (1 .. Len(q)) \ {i} : q[j].c = c => q[j].op \notin TeardownOps

\* connectDestroyed is the only step of the teardown, and c's last functor.
LastTeardown(q, c) ==
    \E i \in 1 .. Len(q) :
        /\ q[i] = [op |-> "connectDestroyed", c |-> c]
        /\ \A j \in 1 .. Len(q) :
             /\ j < i /\ q[j].c = c => q[j].op \notin TeardownOps
             /\ j > i => q[j].c # c

-----------------------------------------------------------------------------
(* The inductive invariant of the server *)

AllLoops == 0 .. MaxIo

Placed(f, l) ==
    /\ f.c \in Created
    /\ IF f.op = "removeConnectionInLoop" THEN l = Base ELSE l = loopOf[f.c]

Event == [c : Conns, data : BOOLEAN, revents : SUBSET Revent]

ServerState ==
    /\ numThreads_ \in 0 .. MaxIo /\ next_ \in Nat /\ next_ < numThreads_ + 1
    /\ numThreads_ # 0 => next_ < numThreads_
    /\ calls \in 0 .. MaxCalls /\ started_ \in BOOLEAN /\ alive \in BOOLEAN
    /\ alive \/ numThreads_ = 0
    /\ conn \in [Conns -> ConnType \cup {None}]
    /\ loopOf \in [Conns -> AllLoops]
    /\ connections_ \subseteq Created /\ timers \subseteq Created
    /\ backlog \subseteq Conns \ Created
    /\ phase \in [AllLoops -> {"poll", "events", "functors"}]
    /\ active \in [AllLoops -> SUBSET (Event \cup {Acceptor})]
    /\ pending \in [AllLoops -> Seq(Functor)]
    /\ functors \in [AllLoops -> Seq(Functor)]

\* A connection of the base loop is established at once.
Connections ==
    \A c \in Created :
        /\ Good(conn[c]) /\ Settled(conn[c]) /\ loopOf[c] \in Loops
        /\ conn[c].state = "kConnecting" => loopOf[c] # Base

\* Events wait only while they are handled, functors only while they are run;
\* a connection has one event in a batch.
Batches ==
    \A l \in Loops :
        /\ phase[l] # "events" => active[l] = {}
        /\ phase[l] # "functors" => functors[l] = <<>>
        /\ \A e \in active[l] \ {Acceptor} :
             /\ e.c \in Created /\ loopOf[e.c] = l
             /\ conn[e.c].state # "kConnecting"
             /\ \A d \in active[l] \ {Acceptor} : d.c = e.c => d = e

\* A functor waits in the loop that may run it, and connectEstablished is the
\* only one of a connection that is not established.
Queues ==
    \A l \in Loops :
        /\ \A i \in 1 .. Len(Queue(l)) : Placed(Queue(l)[i], l)
        /\ \A c \in Created :
             IF conn[c].state = "kConnecting" THEN Sole(Queue(l), c)
             ELSE Began(Queue(l), c)

\* Where the teardown of connection c is, whose record is k: Q[l] is what loop
\* l is to run, and listed says that c is in the table.
StageOf(c, k, listed, home, Q) ==
    /\ k.state # "kDisconnected" =>
         listed /\ \A l \in DOMAIN Q : NoTeardown(Q[l], c)
    /\ k.state = "kDisconnected" =>
         \/ /\ listed /\ home # Base /\ k.index # "kNew"
            /\ OneTeardown(Q[Base], c, "removeConnectionInLoop")
            /\ NoTeardown(Q[home], c)
         \/ /\ ~listed /\ k.index # "kNew" /\ LastTeardown(Q[home], c)
            /\ home # Base => NoTeardown(Q[Base], c)
         \/ /\ ~listed /\ k.index = "kNew"
            /\ \A l \in DOMAIN Q : Absent(Q[l], c)

Stage(c) == StageOf(c, conn[c], c \in connections_, loopOf[c],
                    [l \in Loops |-> Queue(l)])

Lives == alive /\ ~Aborted => \A c \in Created : Life(conn[c]) /\ Stage(c)

\* An event that waits finds its connection open, or was caused by startRead
\* or stopRead on a connection that was down.
EventsFit ==
    alive /\ ~Aborted => \A l \in Loops : \A e \in active[l] \ {Acceptor} :
        /\ conn[e.c].index # "kNew"
        /\ \/ Open(conn[e.c]) \/ conn[e.c].restarted
           \/ ~conn[e.c].reading /\ e.revents \subseteq {"HUP", "ERR"}

ServerInv ==
    /\ ServerState /\ Connections /\ Batches /\ Queues
    /\ AssertionsHold /\ Lives /\ EventsFit

-----------------------------------------------------------------------------
(* The member functions *)

\* update only changes the channel.
LEMMA UpdateType ==
    ASSUME NEW k \in ConnType, NEW ev \in SUBSET Events
    PROVE  /\ update(k, ev) \in ConnType
           /\ update(k, ev).events = ev /\ update(k, ev).index # "kNew"
           /\ update(k, ev).watch \in {ev, Off}
           /\ ev # {} => update(k, ev).watch = ev

  <1>1. CASE k.index = "kAdded" /\ ev = {}
    <2>1. [k EXCEPT !.events = ev, !.index = "kDeleted", !.watch = Off] \in ConnType
      BY DEF ConnType
    <2> QED
      BY <1>1, <2>1 DEF update, ConnType
  <1>2. CASE ~(k.index = "kAdded" /\ ev = {})
    <2>1. [k EXCEPT !.events = ev, !.index = "kAdded", !.watch = ev] \in ConnType
      BY DEF ConnType
    <2> QED
      BY <1>2, <2>1 DEF update, ConnType
  <1> QED
    BY <1>1, <1>2

\* What a step leaves of connection k that does not close it: it is as open
\* as before, and if it was down nothing is queued.
Keeps(k, r) ==
    /\ r.closing = k.closing /\ r.failed = k.failed
    /\ r.ups = k.ups /\ r.downs = k.downs
    /\ Open(r) <=> Open(k)
    /\ ~Open(k) => r.state = k.state
    /\ k.index # "kNew" => r.index # "kNew"
    /\ Open(k) /\ (k.reading => ReadOn(k)) => (r.reading => ReadOn(r))
    /\ k.restarted => r.restarted
    /\ ~Open(k) /\ "write" \notin k.events =>
         /\ r.todo = k.todo /\ r.delayed = k.delayed
         /\ "write" \notin r.events
         /\ ~r.restarted /\ k.events = {} =>
              /\ r.events = {} /\ (r.reading => k.reading)
              /\ r.watch \in {k.watch, Off} \/ (r.watch = {} /\ ~r.reading)

\* A connection that is down, with its channel as it should be then.
Quiet(k) ==
    ~Open(k) /\ "write" \notin k.events /\ (~k.restarted => k.events = {})

\* What handleClose leaves of it.
Closes(k, r) ==
    /\ r.state = "kDisconnected" /\ r.closing /\ r.index # "kNew"
    /\ "write" \notin r.events /\ (~r.restarted => r.events = {})
    /\ r.failed <=> (k.failed \/ ~Open(k))
    /\ Quiet(k) => (Untouched(r) => Untouched(k))
    /\ Open(k) /\ Life(k) => Life(r)

\* startRead and stopRead change the channel, and nothing that waits.
LEMMA ReadCalls ==
    ASSUME NEW k, Good(k)
    PROVE  /\ Good(startRead(k)) /\ Good(stopRead(k))
           /\ Keeps(k, startRead(k)) /\ Keeps(k, stopRead(k))
  <1>1. k \in ConnType /\ Stream(k)
    BY DEF Good
  <1>2. /\ k.events \cup {"read"} \in SUBSET Events
        /\ k.events \ {"read"} \in SUBSET Events
    BY <1>1 DEF ConnType, Events
  <1>3. /\ \A x \in ConnType, b \in BOOLEAN : [x EXCEPT !.reading = b] \in ConnType
        /\ \A x \in ConnType, b \in BOOLEAN, d \in BOOLEAN :
             [x EXCEPT !.reading = b, !.restarted = d] \in ConnType
    <2>1. ASSUME NEW x \in ConnType, NEW b \in BOOLEAN
          PROVE  [x EXCEPT !.reading = b] \in ConnType
      BY DEF ConnType
    <2>2. ASSUME NEW x \in ConnType, NEW b \in BOOLEAN, NEW d \in BOOLEAN
          PROVE  [x EXCEPT !.reading = b, !.restarted = d] \in ConnType
      BY DEF ConnType
    <2> QED
      BY <2>1, <2>2
  <1>4. startRead(k) \in ConnType /\ stopRead(k) \in ConnType
    BY <1>1, <1>2, <1>3, UpdateType
       DEF startRead, stopRead, enableReading, disableReading
  <1>5. Stream(startRead(k)) /\ Stream(stopRead(k))
    BY <1>1 DEF ConnType, startRead, stopRead, enableReading, disableReading,
                update, Events, Stream, isWriting, WriteFails, Open
  <1>6. Keeps(k, startRead(k))
    BY <1>1 DEF ConnType, startRead, enableReading, update, Events, Keeps,
                Open, ReadOn
  <1>7. Keeps(k, stopRead(k))
    BY <1>1 DEF ConnType, stopRead, disableReading, update, Events, Keeps,
                Open, ReadOn
  <1> QED
    BY <1>4, <1>5, <1>6, <1>7 DEF Good

\* forceClose, with and without delay, only queues; a delay is asked of the
\* owner.
LEMMA CloseCalls ==
    ASSUME NEW k, Good(k)
    PROVE  /\ Good(forceClose(k)) /\ Keeps(k, forceClose(k))
           /\ Good(forceCloseWithDelay(k)) /\ Keeps(k, forceCloseWithDelay(k))
           /\ forceClose(k).delayed = k.delayed
  <1>1. k \in ConnType /\ Stream(k)
    BY DEF Good
  <1>2. Append(k.todo, "forceCloseInLoop") \in Seq(Plain)
    BY <1>1 DEF ConnType, Plain
  <1>3. forceClose(k) \in ConnType /\ forceCloseWithDelay(k) \in ConnType
    <2> DEFINE d == [k EXCEPT !.state = "kDisconnecting"]
    <2>1. /\ d \in ConnType /\ d.todo = k.todo
          /\ [k EXCEPT !.state = "kDisconnecting", !.delayed = TRUE] \in ConnType
      BY <1>1 DEF ConnType
    <2>2. Do(d, "forceCloseInLoop") \in ConnType
      <3> HIDE DEF d
      <3> QED
        BY <1>2, <2>1 DEF Do, ConnType
    <2> QED
      BY <1>1, <2>1, <2>2 DEF forceClose, forceCloseWithDelay
  <1>4. Stream(forceClose(k)) /\ Stream(forceCloseWithDelay(k))
    BY <1>1 DEF ConnType, forceClose, forceCloseWithDelay, Do, Stream,
                isWriting, WriteFails, Open
  <1>5. Keeps(k, forceClose(k)) /\ Keeps(k, forceCloseWithDelay(k))
    BY <1>1 DEF ConnType, forceClose, forceCloseWithDelay, Do, Keeps, Open, ReadOn
  <1>6. forceClose(k).delayed = k.delayed
    BY <1>1 DEF ConnType, forceClose, Do
  <1> QED
    BY <1>3, <1>4, <1>5, <1>6 DEF Good

\* shutdown closes the stream at once if nothing waits.
LEMMA ShutdownCall ==
    ASSUME NEW k, Good(k)
    PROVE  Good(shutdown(k)) /\ Keeps(k, shutdown(k))
  <1>1. k \in ConnType /\ Stream(k)
    BY DEF Good
  <1>2. shutdown(k) \in ConnType
    <2>1. /\ [k EXCEPT !.state = "kDisconnecting"] \in ConnType
          /\ \A x \in ConnType : [x EXCEPT !.fin = TRUE] \in ConnType
      BY <1>1 DEF ConnType
    <2> QED
      BY <1>1, <2>1 DEF shutdown, shutdownInLoop
  <1>3. Stream(shutdown(k))
    BY <1>1 DEF ConnType, shutdown, shutdownInLoop, Stream,
                isWriting, WriteFails, Open
  <1>4. Keeps(k, shutdown(k))
    BY <1>1 DEF ConnType, shutdown, shutdownInLoop, Keeps, Open, ReadOn
  <1> QED
    BY <1>2, <1>3, <1>4 DEF Good

\* A stream goes on where it ended.
LEMMA Joined ==
    ASSUME NEW s \in Seq(Nat), NEW t \in Seq(Nat),
           NEW d \in Nat, NEW e \in Nat, NEW f \in Nat
    PROVE  /\ Numbered(s, d, e) /\ Numbered(t, e, f) => Numbered(s \o t, d, f)
           /\ s \o t \in Seq(Nat)
  <1> SUFFICES ASSUME Numbered(s, d, e), Numbered(t, e, f)
               PROVE  Numbered(s \o t, d, f)
    OBVIOUS
  <1> DEFINE W == s \o t
  <1>1. PICK p \in Nat, q \in Nat : p = Len(s) /\ q = Len(t)
    OBVIOUS
  <1>2. /\ Len(W) = p + q
        /\ \A i \in 1 .. p : W[i] = s[i]
        /\ \A i \in 1 .. q : W[p + i] = t[i]
    BY <1>1
  <1>3. /\ e = d + p /\ f = e + q
        /\ \A i \in 1 .. p : s[i] = d + i
        /\ \A i \in 1 .. q : t[i] = e + i
    BY <1>1 DEF Numbered
  <1> HIDE DEF W
  <1>4. ASSUME NEW i \in 1 .. (p + q)
        PROVE  W[i] = d + i
    <2>1. CASE i <= p
      BY <1>2, <1>3, <2>1
    <2>2. CASE i > p
      <3>1. i - p \in 1 .. q
        BY <2>2
      <3>2. W[p + (i - p)] = e + (i - p)
        BY <3>1, <1>2, <1>3
      <3>3. p + (i - p) = i /\ e + (i - p) = d + i
        BY <1>3
      <3> QED
        BY <3>2, <3>3
    <2> QED
      BY <2>1, <2>2, <1>1
  <1>5. f = d + (p + q)
    BY <1>3
  <1>6. Numbered(W, d, f)
    BY <1>2, <1>4, <1>5 DEF Numbered
  <1> QED
    BY <1>6 DEF W

\* A write divides what it is given after n bytes.
LEMMA Divided ==
    ASSUME NEW s \in Seq(Nat), NEW n \in 0 .. Len(s),
           NEW d \in Nat, NEW e \in Nat
    PROVE  /\ SubSeq(s, 1, n) \in Seq(Nat) /\ Len(SubSeq(s, 1, n)) = n
           /\ SubSeq(s, n + 1, Len(s)) \in Seq(Nat)
           /\ Len(SubSeq(s, n + 1, Len(s))) = Len(s) - n
           /\ (SubSeq(s, n + 1, Len(s)) = <<>>) <=> (n = Len(s))
           /\ Numbered(s, d, e) =>
                /\ Numbered(SubSeq(s, 1, n), d, d + n)
                /\ Numbered(SubSeq(s, n + 1, Len(s)), d + n, e)
  <1>1. \A i \in 1 .. Len(s) : s[i] \in Nat
    OBVIOUS
  <1> DEFINE a == SubSeq(s, 1, n)
             b == SubSeq(s, n + 1, Len(s))
  <1>2. /\ a \in Seq(Nat) /\ Len(a) = n
        /\ \A i \in 1 .. n : a[i] = s[i]
    BY <1>1
  <1>3. /\ b \in Seq(Nat) /\ Len(b) = Len(s) - n
        /\ \A i \in 1 .. (Len(s) - n) : b[i] = s[n + i]
    BY <1>1
  <1> HIDE DEF a, b
  <1>4. (b = <<>>) <=> (n = Len(s))
    <2>1. (b = <<>>) <=> (Len(b) = 0)
      BY <1>3
    <2> QED
      BY <1>3, <2>1
  <1>5. ASSUME Numbered(s, d, e)
        PROVE  Numbered(a, d, d + n) /\ Numbered(b, d + n, e)
    <2>1. PICK p \in Nat : p = Len(s)
      OBVIOUS
    <2>2. e = d + p /\ \A i \in 1 .. p : s[i] = d + i
      BY <1>5, <2>1 DEF Numbered
    <2>3. \A i \in 1 .. n : a[i] = d + i
      BY <1>2, <2>1, <2>2
    <2>4. ASSUME NEW i \in 1 .. (p - n)
          PROVE  b[i] = (d + n) + i
      <3>1. n + i \in 1 .. p
        BY <2>1
      <3>2. b[i] = s[n + i] /\ s[n + i] = d + (n + i)
        BY <1>3, <2>1, <2>2, <3>1
      <3> QED
        BY <3>2, <2>1
    <2>5. e = (d + n) + (p - n)
      BY <2>1, <2>2
    <2> QED
      BY <1>2, <1>3, <2>1, <2>3, <2>4, <2>5 DEF Numbered
  <1> QED
    BY <1>2, <1>3, <1>4, <1>5 DEF a, b

\* send puts the message behind what waits, or loses it on an error.
LEMMA SendCall ==
    ASSUME NEW k, Good(k), NEW w \in Nat
    PROVE  Good(send(k, w)) /\ Keeps(k, send(k, w))
  <1>1. k \in ConnType /\ Stream(k)
    BY DEF Good
  <1>2. CASE k.state # "kConnected"
    BY <1>1, <1>2 DEF send, Keeps, Good
  <1>3. CASE k.state = "kConnected"
    <2> DEFINE data == [i \in 1 .. MessageLen |-> k.bytes + i]
               n == IF Direct(k) THEN Written(k, data, w) ELSE 0
               a == SubSeq(data, 1, n)
               b == SubSeq(data, n + 1, Len(data))
    <2>1. /\ k.wire \in Seq(Nat) /\ k.out \in Seq(Nat) /\ k.bytes \in Nat
          /\ k.todo \in Seq(Plain) /\ Len(k.wire) \in Nat
      BY <1>1 DEF ConnType
    <2>2. MessageLen \in Nat \ {0} /\ HighWaterMark \in Nat
      BY ConnectionAssumption
    <2>3. PICK e \in Nat : e = k.bytes + MessageLen
      BY <2>1, <2>2
    <2>4. /\ data \in Seq(Nat) /\ Len(data) = MessageLen
          /\ Numbered(data, k.bytes, e)
      <3>1. \A i \in 1 .. MessageLen : k.bytes + i \in Nat
        BY <2>1, <2>2
      <3>2. /\ data \in Seq(Nat) /\ Len(data) = MessageLen
            /\ \A i \in 1 .. MessageLen : data[i] = k.bytes + i
        BY <2>2, <3>1
      <3> QED
        BY <2>3, <3>2 DEF Numbered
    <2>5. n \in 0 .. Len(data) /\ (~Direct(k) \/ WriteFails(k) => n = 0)
      <3> HIDE DEF data
      <3> QED
        BY <2>2, <2>4 DEF Written
    <2>6. /\ a \in Seq(Nat) /\ Len(a) = n /\ b \in Seq(Nat)
          /\ Len(b) = MessageLen - n /\ ((b = <<>>) <=> (n = MessageLen))
          /\ Numbered(a, k.bytes, k.bytes + n) /\ Numbered(b, k.bytes + n, e)
      <3> HIDE DEF data, n
      <3> QED
        BY <2>1, <2>4, <2>5, Divided
    <2>7. /\ ~k.fin
          /\ k.lost => Direct(k) /\ WriteFails(k)
          /\ ~k.lost => Numbered(k.out, Len(k.wire), k.bytes)
          /\ Numbered(k.wire, 0, Len(k.wire))
          /\ Direct(k) => ~isWriting(k) /\ k.out = <<>>
          /\ ~Direct(k) => isWriting(k)
      BY <1>1, <1>3 DEF Stream, Direct, Open
    <2> HIDE DEF data, n, a, b
    <2>8. PICK W \in Seq(Nat), O \in Seq(Nat) :
            /\ W = k.wire \o a /\ O = k.out \o b
            /\ n = 0 => W = k.wire /\ b = data
            /\ b # <<>> => O # <<>>
            /\ k.out = <<>> => O = b
      <3>1. k.wire \o a \in Seq(Nat) /\ k.out \o b \in Seq(Nat)
        BY <2>1, <2>6
      <3>2. n = 0 => k.wire \o a = k.wire
        <4>1. Len(a) = 0 => a = <<>>
          BY <2>6
        <4>2. k.wire \o <<>> = k.wire
          BY <2>1
        <4> QED
          BY <2>6, <4>1, <4>2
      <3>3. n = 0 => b = data
        BY <2>4 DEF b
      <3>4. b # <<>> => k.out \o b # <<>>
        BY <2>1, <2>6
      <3>5. <<>> \o b = b
        BY <2>6
      <3> QED
        BY <3>1, <3>2, <3>3, <3>4, <3>5
    <2>9. Numbered(W, 0, Len(W)) /\ (~k.lost => Numbered(O, Len(W), e))
      <3>1. CASE n = 0
        <4>1. ~k.lost => Numbered(k.out \o data, Len(k.wire), e)
          BY <2>1, <2>4, <2>7, Joined
        <4> QED
          BY <3>1, <4>1, <2>7, <2>8
      <3>2. CASE n # 0
        <4>1. ~k.lost /\ k.out = <<>>
          BY <3>2, <2>5, <2>7
        <4>2. k.bytes = Len(k.wire)
          <5>1. Len(k.out) = 0
            BY <4>1
          <5> QED
            BY <4>1, <5>1, <2>1, <2>7 DEF Numbered
        <4>3. k.bytes + n \in Nat
          BY <2>1, <2>2, <2>4, <2>5
        <4>4. Numbered(W, 0, k.bytes + n)
          BY <2>1, <2>6, <2>7, <2>8, <4>2, <4>3, Joined
        <4>5. Len(W) = k.bytes + n
          BY <4>3, <4>4 DEF Numbered
        <4> QED
          BY <4>1, <4>4, <4>5, <2>6, <2>8
      <3> QED
        BY <3>1, <3>2
    <2> DEFINE k1 == [k EXCEPT !.wire = @ \o a, !.bytes = @ + Len(data)]
    <2>10. k1 = [k EXCEPT !.wire = W, !.bytes = e] /\ k1 \in ConnType
      <3>1. k1 = [k EXCEPT !.wire = W, !.bytes = e]
        BY <1>1, <2>3, <2>4, <2>8 DEF ConnType
      <3>2. [k EXCEPT !.wire = W, !.bytes = e] \in ConnType
        BY <1>1 DEF ConnType
      <3> QED
        BY <3>1, <3>2
    <2>11. \A x \in ConnType, op \in Plain : Do(x, op) \in ConnType
      <3> SUFFICES ASSUME NEW x \in ConnType, NEW op \in Plain
                   PROVE  Do(x, op) \in ConnType
        OBVIOUS
      <3>1. Append(x.todo, op) \in Seq(Plain)
        BY DEF ConnType
      <3> QED
        BY <3>1 DEF Do, ConnType
    <2>12. CASE b = <<>>
      <3> DEFINE r == Do(k1, "writeCompleteCallback")
      <3>1. send(k, w) = r
        BY <1>3, <2>12 DEF send, sendInLoop, data, n, a, b
      <3>2. Direct(k) /\ ~WriteFails(k) /\ ~k.lost /\ O = <<>>
        BY <2>2, <2>5, <2>6, <2>7, <2>8, <2>12
      <3>3. r \in ConnType
        BY <2>10, <2>11 DEF Plain
      <3>4. /\ r.wire = W /\ r.out = O /\ r.bytes = e
            /\ r = [k EXCEPT !.wire = W, !.bytes = e,
                             !.todo = Append(@, "writeCompleteCallback")]
        BY <1>1, <2>7, <2>10, <3>2 DEF Do, ConnType
      <3> HIDE DEF k1, r
      <3>5. Stream(r)
        BY <1>1, <2>7, <2>9, <3>2, <3>4
           DEF Stream, ConnType, isWriting, WriteFails, Open
      <3>6. Keeps(k, r)
        BY <1>1, <1>3, <3>4 DEF ConnType, Keeps, Open, ReadOn
      <3> QED
        BY <3>1, <3>3, <3>5, <3>6 DEF Good
    <2>13. CASE b # <<>> /\ Direct(k) /\ WriteFails(k)
      <3> DEFINE r == [k1 EXCEPT !.lost = TRUE]
      <3>1. send(k, w) = r
        BY <1>3, <2>13 DEF send, sendInLoop, data, n, a, b
      <3>2. W = k.wire
        BY <2>5, <2>8, <2>13
      <3>3. r = [k EXCEPT !.wire = W, !.bytes = e, !.lost = TRUE]
        BY <1>1, <2>10 DEF ConnType
      <3>4. r \in ConnType
        BY <1>1, <3>3 DEF ConnType
      <3> HIDE DEF k1, r
      <3>5. Stream(r)
        BY <1>1, <2>7, <2>13, <3>2, <3>3
           DEF Stream, ConnType, isWriting, WriteFails, Open
      <3>6. Keeps(k, r)
        BY <1>1, <1>3, <3>3 DEF ConnType, Keeps, Open, ReadOn
      <3> QED
        BY <3>1, <3>4, <3>5, <3>6 DEF Good
    <2>14. CASE b # <<>> /\ ~(Direct(k) /\ WriteFails(k))
      <3>1. PICK k2 \in {k1, Do(k1, "highWaterMarkCallback")} :
              send(k, w) = LET k3 == [k2 EXCEPT !.out = @ \o b] IN
                           IF isWriting(k3) THEN k3 ELSE enableWriting(k3)
        <4> DEFINE Out(x) == LET k3 == [x EXCEPT !.out = @ \o b] IN
                             IF isWriting(k3) THEN k3 ELSE enableWriting(k3)
                   High == /\ Len(k.out) + Len(b) >= HighWaterMark
                           /\ Len(k.out) < HighWaterMark
                   k2 == IF High THEN Do(k1, "highWaterMarkCallback") ELSE k1
        <4>1. send(k, w) = Out(k2)
          BY <1>3, <2>14 DEF send, sendInLoop, data, n, a, b
        <4>2. k2 \in {k1, Do(k1, "highWaterMarkCallback")}
          OBVIOUS
        <4> HIDE DEF k2, k1, High
        <4> QED
          BY <4>1, <4>2
      <3> DEFINE k3 == [k2 EXCEPT !.out = @ \o b]
                 r == IF isWriting(k3) THEN k3 ELSE enableWriting(k3)
      <3>2. ~k.lost /\ O # <<>>
        BY <2>7, <2>8, <2>14
      <3>3. k2 \in ConnType
        BY <2>10, <2>11, <3>1 DEF Plain
      <3>4. PICK t \in Seq(Plain) :
              k2 = [k EXCEPT !.wire = W, !.bytes = e, !.todo = t]
        <4>1. k2.todo \in Seq(Plain)
          BY <3>3 DEF ConnType
        <4>2. k2 = [k EXCEPT !.wire = W, !.bytes = e, !.todo = k2.todo]
          <5>1. k1 = [k EXCEPT !.wire = W, !.bytes = e, !.todo = k1.todo]
            BY <1>1, <2>10 DEF ConnType
          <5> HIDE DEF k1
          <5> QED
            BY <1>1, <3>1, <5>1 DEF Do, ConnType
        <4> QED
          BY <4>1, <4>2
      <3> HIDE DEF k1
      <3>5. k3 = [k EXCEPT !.wire = W, !.bytes = e, !.todo = t, !.out = O]
        BY <1>1, <2>8, <3>4 DEF ConnType
      <3>6. k3 \in ConnType
        BY <1>1, <3>5, ZenonT(60) DEF ConnType
      <3> HIDE DEF k3
      <3>7. r \in ConnType
        <4>1. k3.events \cup {"write"} \in SUBSET Events
          BY <3>6 DEF ConnType, Events
        <4> QED
          BY <3>6, <4>1, UpdateType DEF enableWriting
      <3>8. Stream(r)
        BY <1>1, <1>3, <2>7, <2>9, <3>2, <3>5
           DEF Stream, ConnType, isWriting, WriteFails, Open, enableWriting,
               update
      <3>9. Keeps(k, r)
        BY <1>1, <1>3, <3>5
           DEF ConnType, Keeps, Open, ReadOn, isWriting, enableWriting, update
      <3> QED
        BY <3>1, <3>7, <3>8, <3>9 DEF Good, k3
    <2> QED
      BY <2>12, <2>13, <2>14
  <1> QED
    BY <1>2, <1>3

\* Any call of the user.
LEMMA UserCallFacts ==
    ASSUME NEW k, Good(k), NEW u, NEW w \in Nat
    PROVE  /\ Good(UserCall(k, u, w)) /\ Keeps(k, UserCall(k, u, w))
           /\ UserCall(k, u, w).closing = k.closing
           /\ UserCall(k, u, w).state # "kConnecting" \/ k.state = "kConnecting"
  <1>1. k \in ConnType
    BY DEF Good
  <1>2. Good(UserCall(k, u, w)) /\ Keeps(k, UserCall(k, u, w))
    <2>1. CASE u = "send"
      BY <2>1, SendCall DEF UserCall
    <2>2. CASE u = "shutdown"
      BY <2>2, ShutdownCall DEF UserCall
    <2>3. CASE u \in {"forceClose", "forceCloseWithDelay"}
      BY <2>3, CloseCalls DEF UserCall
    <2>4. CASE u \in {"startRead", "stopRead"}
      BY <2>4, ReadCalls DEF UserCall
    <2>5. CASE u \notin {"send", "shutdown", "forceClose",
                         "forceCloseWithDelay", "startRead", "stopRead"}
      <3>1. UserCall(k, u, w) = k
        BY <2>5 DEF UserCall
      <3> QED
        BY <3>1 DEF Keeps
    <2> QED
      BY <2>1, <2>2, <2>3, <2>4, <2>5
  <1>3. /\ UserCall(k, u, w).closing = k.closing
        /\ UserCall(k, u, w).state # "kConnecting" \/ k.state = "kConnecting"
    BY <1>2 DEF Keeps, Open
  <1> QED
    BY <1>2, <1>3

\* Steps that keep a connection follow each other, keep what its state means,
\* and may come before and after one that closes it.
LEMMA KeepsFacts ==
    ASSUME NEW k, NEW r, NEW s
    PROVE  /\ Keeps(k, k)
           /\ Keeps(k, r) /\ Keeps(r, s) => Keeps(k, s)
           /\ Keeps(k, r) /\ Closes(r, s) /\ Life(k) /\ k.state # "kConnecting"
                => Closes(k, s)
           /\ Closes(k, r) /\ Keeps(r, s) => Closes(k, s)
           /\ Keeps(k, r) /\ Life(k) /\ k.state # "kConnecting" => Life(r)
  <1>1. \A x, y : Keeps(x, y) /\ Life(x) /\ x.state # "kConnecting" => Life(y)
    <2> SUFFICES ASSUME NEW x, NEW y, Keeps(x, y), Life(x),
                        x.state # "kConnecting"
                 PROVE  Life(y)
      OBVIOUS
    <2>1. CASE Open(x)
      BY <2>1 DEF Keeps, Life, Open
    <2>2. CASE ~Open(x)
      BY <2>2 DEF Keeps, Life, Open
    <2> QED
      BY <2>1, <2>2
  <1>2. Keeps(k, k)
    BY DEF Keeps
  <1>3. ASSUME Keeps(k, r), Keeps(r, s)
        PROVE  Keeps(k, s)
    BY <1>3 DEF Keeps
  <1>4. ASSUME Keeps(k, r), Closes(r, s), Life(k), k.state # "kConnecting"
        PROVE  Closes(k, s)
    <2>1. Life(r)
      BY <1>1, <1>4
    <2>2. ASSUME Quiet(k)
          PROVE  Untouched(s) => Untouched(k)
      <3>1. Quiet(r)
        BY <1>4, <2>2 DEF Quiet, Keeps
      <3>2. Untouched(s) => Untouched(r)
        BY <1>4, <3>1 DEF Closes
      <3>3. Untouched(r) => Untouched(k)
        BY <1>4, <2>2 DEF Quiet, Keeps, Untouched
      <3> QED
        BY <3>2, <3>3
    <2>3. r.failed = k.failed /\ (Open(r) <=> Open(k))
      BY <1>4 DEF Keeps
    <2> QED
      BY <1>4, <2>1, <2>2, <2>3 DEF Closes
  <1>5. ASSUME Closes(k, r), Keeps(r, s)
        PROVE  Closes(k, s)
    <2>1. r.state # "kConnecting" /\ ~Open(r)
      BY <1>5 DEF Closes, Open
    <2>2. Open(k) /\ Life(k) => Life(s)
      BY <1>1, <1>5, <2>1 DEF Closes
    <2>3. Quiet(k) => (Untouched(s) => Untouched(k))
      <3>1. ~s.restarted => (~r.restarted /\ r.events = {} /\ "write" \notin r.events)
        BY <1>5 DEF Keeps, Closes
      <3>2. ~s.restarted => (s.reading => r.reading)
        BY <1>5, <2>1, <3>1 DEF Keeps
      <3>3. Untouched(s) => Untouched(r)
        BY <3>1, <3>2 DEF Untouched
      <3> QED
        BY <1>5, <3>3 DEF Closes
    <2>4. "write" \notin s.events /\ (~s.restarted => s.events = {})
      BY <1>5, <2>1 DEF Keeps, Closes
    <2>5. /\ s.failed = r.failed /\ s.closing = r.closing
          /\ s.state = r.state /\ s.index # "kNew"
      BY <1>5, <2>1 DEF Keeps, Closes
    <2> QED
      BY <1>5, <2>2, <2>3, <2>4, <2>5 DEF Closes
  <1> QED
    BY <1>1, <1>2, <1>3, <1>4, <1>5

\* handleClose disables the channel; what waits in outputBuffer_ stays there.
LEMMA CloseFacts ==
    ASSUME NEW k, Good(k)
    PROVE  Good(handleClose(k)) /\ Closes(k, handleClose(k))
  <1>1. k \in ConnType /\ Stream(k)
    BY DEF Good
  <1> DEFINE x == [Check(k, Open(k)) EXCEPT !.state = "kDisconnected"]
             y == disableAll(x)
             r == [y EXCEPT !.downs = @ + 1, !.closing = TRUE]
  <1>2. x \in ConnType
    BY <1>1 DEF ConnType, Check
  <1>3. x = [k EXCEPT !.failed = @ \/ ~Open(k), !.state = "kDisconnected"]
    BY <1>1 DEF ConnType, Check
  <1>4. /\ y \in ConnType /\ y.events = {} /\ y.index # "kNew"
        /\ y.watch \in {{}, Off}
        /\ x.index = "kAdded" => y.watch = Off
        /\ y = [x EXCEPT !.events = {}, !.index = y.index, !.watch = y.watch]
    <2> HIDE DEF x
    <2>1. /\ y \in ConnType /\ y.events = {} /\ y.index # "kNew"
          /\ y.watch \in {{}, Off}
      BY <1>2, UpdateType DEF disableAll
    <2>2. /\ x.index = "kAdded" => y.watch = Off
          /\ y = [x EXCEPT !.events = {}, !.index = y.index, !.watch = y.watch]
      BY <1>2 DEF disableAll, update, ConnType
    <2> QED
      BY <2>1, <2>2
  <1>5. r \in ConnType
    <2> HIDE DEF y
    <2>1. y.downs + 1 \in Nat
      BY <1>4 DEF ConnType
    <2> QED
      BY <1>4, <2>1 DEF ConnType
  <1>6. /\ r.state = "kDisconnected" /\ r.closing /\ r.index # "kNew"
        /\ r.events = {} /\ (r.failed <=> (k.failed \/ ~Open(k)))
        /\ r.reading = k.reading /\ r.restarted = k.restarted
        /\ r.watch \in {{}, Off}
        /\ k.index = "kAdded" => r.watch = Off
        /\ r.ups = k.ups /\ r.downs = k.downs + 1
        /\ r.out = k.out /\ r.wire = k.wire /\ r.bytes = k.bytes
        /\ r.lost = k.lost /\ r.fin = k.fin /\ r.peer = k.peer
    <2> HIDE DEF x
    <2>1. /\ x.state = "kDisconnected" /\ x.failed = (k.failed \/ ~Open(k))
          /\ x.reading = k.reading /\ x.ups = k.ups /\ x.downs = k.downs
          /\ x.index = k.index /\ x.restarted = k.restarted
          /\ x.out = k.out /\ x.wire = k.wire /\ x.bytes = k.bytes
          /\ x.lost = k.lost /\ x.fin = k.fin /\ x.peer = k.peer
      BY <1>1, <1>3 DEF ConnType
    <2> HIDE DEF y
    <2>2. /\ y.state = x.state /\ y.failed = x.failed
          /\ y.reading = x.reading /\ y.ups = x.ups /\ y.downs = x.downs
          /\ y.restarted = x.restarted
          /\ y.out = x.out /\ y.wire = x.wire /\ y.bytes = x.bytes
          /\ y.lost = x.lost /\ y.fin = x.fin /\ y.peer = x.peer
      BY <1>2, <1>4 DEF ConnType
    <2>3. /\ r.state = y.state /\ r.failed = y.failed /\ r.closing = TRUE
          /\ r.reading = y.reading /\ r.ups = y.ups /\ r.downs = y.downs + 1
          /\ r.restarted = y.restarted
          /\ r.events = y.events /\ r.index = y.index /\ r.watch = y.watch
          /\ r.out = y.out /\ r.wire = y.wire /\ r.bytes = y.bytes
          /\ r.lost = y.lost /\ r.fin = y.fin /\ r.peer = y.peer
      BY <1>4 DEF ConnType
    <2> HIDE DEF r
    <2>4. r.failed <=> (k.failed \/ ~Open(k))
      BY <2>1, <2>2, <2>3
    <2> QED
      BY <1>4, <2>1, <2>2, <2>3, <2>4
  <1>7. handleClose(k) = r
    BY DEF handleClose
  <1> HIDE DEF x, y, r
  <1>8. Stream(r)
    BY <1>1, <1>6 DEF Stream, isWriting, WriteFails, Open
  <1>9. Closes(k, r)
    BY <1>6 DEF Closes, Life, Open, ReadOn, Untouched
  <1> QED
    BY <1>5, <1>7, <1>8, <1>9 DEF Good

\* handleError only takes the error off the socket.
LEMMA ErrorFacts ==
    ASSUME NEW k, Good(k)
    PROVE  Good(handleError(k)) /\ Keeps(k, handleError(k))
  <1>1. k \in ConnType /\ Stream(k)
    BY DEF Good
  <1>2. handleError(k) \in ConnType
    BY <1>1 DEF ConnType, handleError
  <1>3. Stream(handleError(k)) /\ Keeps(k, handleError(k))
    BY <1>1 DEF ConnType, handleError, Stream, isWriting, WriteFails, Open,
                Keeps, ReadOn
  <1> QED
    BY <1>2, <1>3 DEF Good

\* handleWrite moves bytes from outputBuffer_ to the wire, and shuts the
\* stream down when the last has gone.
LEMMA WriteFacts ==
    ASSUME NEW k, Good(k), NEW w \in Nat
    PROVE  Good(handleWrite(k, w)) /\ Keeps(k, handleWrite(k, w))
  <1>1. k \in ConnType /\ Stream(k)
    BY DEF Good
  <1> DEFINE n == Written(k, k.out, w)
             a == SubSeq(k.out, 1, n)
             b == SubSeq(k.out, n + 1, Len(k.out))
             k1 == [k EXCEPT !.out = b, !.wire = @ \o a]
             k2 == Do(disableWriting(k1), "writeCompleteCallback")
  <1>2. CASE ~isWriting(k) \/ n = 0
    <2>1. handleWrite(k, w) = k
      BY <1>2 DEF handleWrite
    <2> QED
      BY <2>1, KeepsFacts
  <1>3. CASE isWriting(k) /\ n # 0
    <2>1. /\ k.wire \in Seq(Nat) /\ k.out \in Seq(Nat) /\ k.bytes \in Nat
          /\ k.todo \in Seq(Plain) /\ Len(k.wire) \in Nat /\ Len(k.out) \in Nat
      BY <1>1 DEF ConnType
    <2>2. n \in 1 .. Len(k.out) /\ ~WriteFails(k)
      BY <1>3, <2>1 DEF Written
    <2>3. ~k.lost /\ ~k.fin /\ Numbered(k.out, Len(k.wire), k.bytes)
      BY <1>1, <2>2 DEF Stream, WriteFails
    <2>4. /\ a \in Seq(Nat) /\ b \in Seq(Nat)
          /\ (b = <<>>) <=> (n = Len(k.out))
          /\ Numbered(a, Len(k.wire), Len(k.wire) + n)
          /\ Numbered(b, Len(k.wire) + n, k.bytes)
      <3> HIDE DEF n
      <3>1. n \in 0 .. Len(k.out)
        BY <2>1, <2>2
      <3> QED
        BY <2>1, <2>3, <3>1, Divided
    <2>5. PICK W \in Seq(Nat) :
            W = k.wire \o a /\ Numbered(W, 0, Len(W)) /\ Numbered(b, Len(W), k.bytes)
      <3> HIDE DEF n, a, b
      <3>1. Len(k.wire) + n \in Nat
        BY <2>1, <2>2
      <3>2. k.wire \o a \in Seq(Nat) /\ Numbered(k.wire \o a, 0, Len(k.wire) + n)
        BY <1>1, <2>1, <2>4, <3>1, Joined DEF Stream
      <3>3. Len(k.wire \o a) = Len(k.wire) + n
        BY <3>1, <3>2 DEF Numbered
      <3> QED
        BY <2>4, <3>2, <3>3
    <2> HIDE DEF n, a, b
    <2>6. k1 = [k EXCEPT !.out = b, !.wire = W] /\ k1 \in ConnType
      <3>1. k1 = [k EXCEPT !.out = b, !.wire = W]
        BY <1>1, <2>5 DEF ConnType
      <3>2. [k EXCEPT !.out = b, !.wire = W] \in ConnType
        BY <1>1, <2>4, <2>5 DEF ConnType
      <3> QED
        BY <3>1, <3>2
    <2>7. CASE b # <<>>
      <3>1. handleWrite(k, w) = k1
        <4>1. n > 0 /\ n < Len(k.out)
          BY <2>1, <2>2, <2>4, <2>7
        <4> QED
          BY <1>3, <4>1 DEF handleWrite, n, a, b
      <3> HIDE DEF k1
      <3>2. Stream(k1)
        BY <1>1, <1>3, <2>2, <2>3, <2>5, <2>6
           DEF Stream, ConnType, isWriting, WriteFails, Open
      <3>3. Keeps(k, k1)
        BY <1>1, <1>3, <2>6 DEF ConnType, Keeps, Open, ReadOn, isWriting
      <3> QED
        BY <2>6, <3>1, <3>2, <3>3 DEF Good
    <2>8. CASE b = <<>>
      <3> DEFINE y == disableWriting(k1)
                 r == IF k.state = "kDisconnecting" THEN shutdownInLoop(k2)
                      ELSE k2
      <3>1. handleWrite(k, w) = r
        <4>1. ~(n < Len(k.out))
          BY <2>1, <2>2, <2>4, <2>8
        <4> QED
          BY <1>3, <2>1, <2>2, <4>1 DEF handleWrite, n, a, b
      <3> HIDE DEF k1
      <3>2. /\ y \in ConnType /\ y.events = k.events \ {"write"}
            /\ y.index # "kNew" /\ (ReadOn(k) => y.index = "kAdded")
            /\ y = [k EXCEPT !.out = b, !.wire = W, !.events = y.events,
                             !.index = y.index, !.watch = y.watch]
        <4>1. k1.events = k.events /\ k1.index = k.index
          BY <1>1, <2>6 DEF ConnType
        <4>2. k.events \ {"write"} \in SUBSET Events
          BY <1>1 DEF ConnType
        <4>3. /\ y \in ConnType /\ y.events = k.events \ {"write"}
              /\ y.index # "kNew"
          BY <2>6, <4>1, <4>2, UpdateType DEF disableWriting
        <4>4. y = [k1 EXCEPT !.events = y.events, !.index = y.index,
                             !.watch = y.watch]
          BY <2>6 DEF disableWriting, update, ConnType
        <4>5. ReadOn(k) => y.index = "kAdded"
          BY <2>6, <4>1 DEF ReadOn, disableWriting, update, ConnType
        <4>6. y = [k EXCEPT !.out = b, !.wire = W, !.events = y.events,
                            !.index = y.index, !.watch = y.watch]
          <5> HIDE DEF y
          <5> QED
            BY <1>1, <2>6, <4>4 DEF ConnType
        <4> QED
          BY <4>3, <4>5, <4>6
      <3> HIDE DEF y
      <3>3. k2 \in ConnType /\ k2 = [y EXCEPT !.todo = k2.todo]
        <4>1. Append(y.todo, "writeCompleteCallback") \in Seq(Plain)
          BY <3>2 DEF ConnType, Plain
        <4> QED
          BY <3>2, <4>1 DEF Do, ConnType, y
      <3> HIDE DEF k2
      <3>4. /\ k2.events = k.events \ {"write"} /\ k2.index = y.index
            /\ k2.out = <<>> /\ k2.wire = W /\ k2.bytes = k.bytes
            /\ k2.lost = k.lost /\ k2.fin = k.fin /\ k2.peer = k.peer
            /\ k2.state = k.state /\ k2.ups = k.ups /\ k2.downs = k.downs
            /\ k2.closing = k.closing /\ k2.failed = k.failed
            /\ k2.reading = k.reading /\ k2.restarted = k.restarted
        <4>1. /\ y.events = k.events \ {"write"}
              /\ y.out = b /\ y.wire = W /\ y.bytes = k.bytes
              /\ y.lost = k.lost /\ y.fin = k.fin /\ y.peer = k.peer
              /\ y.state = k.state /\ y.ups = k.ups /\ y.downs = k.downs
              /\ y.closing = k.closing /\ y.failed = k.failed
              /\ y.reading = k.reading /\ y.restarted = k.restarted
          BY <1>1, <3>2 DEF ConnType
        <4>2. /\ k2.events = y.events /\ k2.index = y.index
              /\ k2.out = y.out /\ k2.wire = y.wire /\ k2.bytes = y.bytes
              /\ k2.lost = y.lost /\ k2.fin = y.fin /\ k2.peer = y.peer
              /\ k2.state = y.state /\ k2.ups = y.ups /\ k2.downs = y.downs
              /\ k2.closing = y.closing /\ k2.failed = y.failed
              /\ k2.reading = y.reading /\ k2.restarted = y.restarted
          BY <3>2, <3>3 DEF ConnType
        <4> QED
          BY <2>8, <4>1, <4>2
      <3>5. ~isWriting(k2)
        BY <3>4 DEF isWriting
      <3>6. \/ r = k2
            \/ k.state = "kDisconnecting" /\ r = [k2 EXCEPT !.fin = TRUE]
        BY <3>5 DEF shutdownInLoop
      <3> HIDE DEF r
      <3>7. r \in ConnType
        BY <3>3, <3>6, ZenonT(60) DEF ConnType
      <3>8. Stream(r)
        <4>1. CASE r = k2
          BY <2>3, <2>5, <2>8, <3>4, <3>5, <4>1
             DEF Stream, isWriting, WriteFails, Open
        <4>2. CASE k.state = "kDisconnecting" /\ r = [k2 EXCEPT !.fin = TRUE]
          BY <2>3, <2>5, <2>8, <3>3, <3>4, <3>5, <4>2
             DEF Stream, ConnType, isWriting, WriteFails, Open
        <4> QED
          BY <3>6, <4>1, <4>2
      <3>9. Keeps(k, r)
        <4>1. "write" \in k.events
          BY <1>3 DEF isWriting
        <4>2. Keeps(k, k2)
          BY <3>2, <3>4, <4>1 DEF Keeps, Open, ReadOn
        <4>3. ~Open(k2) => r = k2
          BY <3>4, <3>6 DEF Open
        <4>4. Keeps(k2, r)
          BY <3>3, <3>6, <4>3 DEF Keeps, ConnType, Open, ReadOn
        <4> QED
          BY <4>2, <4>4, KeepsFacts
      <3> QED
        BY <3>1, <3>7, <3>8, <3>9 DEF Good
    <2> QED
      BY <2>7, <2>8
  <1> QED
    BY <1>2, <1>3

\* An event keeps the connection, or closes it.
LEMMA EventFacts ==
    ASSUME NEW k, Good(k), k.state # "kConnecting", NEW revents, NEW data,
           NEW u, NEW w \in Nat
    PROVE  LET r == handleEvent(k, revents, data, u, w) IN
           /\ Good(r) /\ r.state # "kConnecting"
           /\ Life(k) => Keeps(k, r) \/ Closes(k, r)
  <1> DEFINE k1 == IF "HUP" \in revents /\ "IN" \notin revents
                   THEN handleClose(k) ELSE k
             k2 == IF "ERR" \in revents THEN handleError(k1) ELSE k1
             k3 == IF "IN" \in revents THEN handleRead(k2, data, u, w) ELSE k2
             r == IF "OUT" \in revents THEN handleWrite(k3, w) ELSE k3
             Fine(x) == /\ Good(x) /\ x.state # "kConnecting"
                        /\ Life(k) => Keeps(k, x) \/ Closes(k, x)
  <1>1. ASSUME NEW x, Fine(x), NEW y, Good(y), Keeps(x, y)
        PROVE  Fine(y)
    <2>1. y.state # "kConnecting"
      BY <1>1 DEF Keeps, Open
    <2>2. Keeps(k, x) => Keeps(k, y)
      BY <1>1, KeepsFacts
    <2>3. Closes(k, x) => Closes(k, y)
      BY <1>1, KeepsFacts
    <2> QED
      BY <1>1, <2>1, <2>2, <2>3
  <1>2. Fine(k) /\ Keeps(k, k)
    BY KeepsFacts
  <1>3. Fine(k1) /\ ("IN" \in revents => k1 = k)
    <2>1. Good(handleClose(k)) /\ Closes(k, handleClose(k))
      BY CloseFacts
    <2>2. handleClose(k).state # "kConnecting"
      BY <2>1 DEF Closes
    <2> QED
      BY <1>2, <2>1, <2>2
  <1>4. Fine(k2) /\ ("IN" \in revents => Keeps(k, k2))
    <2> HIDE DEF k1, Fine
    <2>1. Good(k1)
      BY <1>3 DEF Fine
    <2>2. Fine(handleError(k1)) /\ Keeps(k1, handleError(k1))
      BY <1>1, <1>3, <2>1, ErrorFacts
    <2> QED
      BY <1>2, <1>3, <2>2
  <1>5. Fine(k3)
    <2> HIDE DEF k2
    <2>1. CASE "IN" \notin revents
      BY <1>4, <2>1
    <2>2. CASE "IN" \in revents /\ data
      <3>1. Good(k2) /\ k2.state # "kConnecting"
        BY <1>4
      <3>2. Good(UserCall(k2, u, w)) /\ UserCall(k2, u, w).state # "kConnecting"
        BY <3>1, UserCallFacts
      <3>3. Keeps(k, UserCall(k2, u, w))
        <4>1. Keeps(k2, UserCall(k2, u, w))
          BY <3>1, UserCallFacts
        <4> QED
          BY <1>4, <2>2, <4>1, KeepsFacts
      <3>4. k3 = UserCall(k2, u, w)
        BY <2>2 DEF handleRead
      <3> HIDE DEF k3
      <3> QED
        BY <2>2, <3>2, <3>3, <3>4
    <2>3. CASE "IN" \in revents /\ ~data /\ k2.peer \in {"closed", "gone"}
      <3>1. k3 = handleClose(k2)
        BY <2>3 DEF handleRead
      <3>2. Good(k2) /\ k2.state # "kConnecting"
        BY <1>4
      <3> HIDE DEF k3
      <3>3. Good(k3) /\ Closes(k2, k3)
        BY <3>1, <3>2, CloseFacts
      <3>4. k3.state # "kConnecting"
        BY <3>3 DEF Closes
      <3>5. Life(k) => Closes(k, k3)
        BY <1>4, <2>3, <3>3, KeepsFacts
      <3> QED
        BY <3>3, <3>4, <3>5
    <2>4. CASE "IN" \in revents /\ ~data /\ ~(k2.peer \in {"closed", "gone"})
      <3>1. k3 = handleError(k2)
        BY <2>4 DEF handleRead
      <3> HIDE DEF k3, Fine
      <3>2. Good(k2)
        BY <1>4 DEF Fine
      <3> QED
        BY <1>1, <1>4, <3>1, <3>2, ErrorFacts
    <2> HIDE DEF Fine, k3
    <2> QED
      BY <2>1, <2>2, <2>3, <2>4
  <1>6. Fine(r)
    <2> HIDE DEF k3, Fine
    <2>1. Good(k3)
      BY <1>5 DEF Fine
    <2> QED
      BY <1>1, <1>5, <2>1, WriteFacts
  <1>7. r = handleEvent(k, revents, data, u, w)
    BY DEF handleEvent
  <1> HIDE DEF r
  <1> QED
    BY <1>6, <1>7

\* connectEstablished opens the channel, and the user may use it at once.
LEMMA EstablishFacts ==
    ASSUME NEW k, Good(k), k.state = "kConnecting", NEW u, NEW w \in Nat
    PROVE  LET r == connectEstablished(k, u, w) IN
           /\ Good(r) /\ Open(r) /\ r.closing = k.closing /\ r.failed = k.failed
           /\ Life(k) => Life(r)
  <1>1. k \in ConnType /\ Stream(k)
    BY DEF Good
  <1> DEFINE x == [Check(k, k.state = "kConnecting")
                      EXCEPT !.state = "kConnected", !.ups = @ + 1]
             y == enableReading(x)
  <1>2. x = [k EXCEPT !.failed = k.failed, !.state = "kConnected",
                      !.ups = k.ups + 1]
    BY <1>1 DEF Check, ConnType
  <1>3. x \in ConnType
    <2>1. k.ups + 1 \in Nat
      BY <1>1 DEF ConnType
    <2> HIDE DEF x
    <2> QED
      BY <1>1, <1>2, <2>1 DEF ConnType
  <1> HIDE DEF x
  <1>4. /\ y \in ConnType /\ ReadOn(y)
        /\ y = [x EXCEPT !.events = y.events, !.index = y.index,
                         !.watch = y.watch]
        /\ y.events = x.events \cup {"read"}
    <2>1. x.events \cup {"read"} \in SUBSET Events
      BY <1>3 DEF ConnType, Events
    <2>2. y \in ConnType /\ y.events = x.events \cup {"read"}
      BY <1>3, <2>1, UpdateType DEF enableReading
    <2>3. y = [x EXCEPT !.events = y.events, !.index = y.index,
                        !.watch = y.watch]
      BY <1>3 DEF enableReading, update, ConnType
    <2>4. ReadOn(y)
      BY <1>3 DEF enableReading, update, ConnType, ReadOn
    <2> QED
      BY <2>2, <2>3, <2>4
  <1> HIDE DEF y
  <1>5. /\ y.state = "kConnected" /\ y.ups = k.ups + 1 /\ y.downs = k.downs
        /\ y.closing = k.closing /\ y.failed = k.failed
        /\ y.wire = k.wire /\ y.out = k.out /\ y.bytes = k.bytes
        /\ y.lost = k.lost /\ y.fin = k.fin /\ y.peer = k.peer
        /\ y.events = k.events \cup {"read"}
    <2>1. /\ x.state = "kConnected" /\ x.ups = k.ups + 1 /\ x.downs = k.downs
          /\ x.closing = k.closing /\ x.failed = k.failed
          /\ x.wire = k.wire /\ x.out = k.out /\ x.bytes = k.bytes
          /\ x.lost = k.lost /\ x.fin = k.fin /\ x.peer = k.peer
          /\ x.events = k.events
      BY <1>1, <1>2 DEF ConnType
    <2>2. /\ y.state = x.state /\ y.ups = x.ups /\ y.downs = x.downs
          /\ y.closing = x.closing /\ y.failed = x.failed
          /\ y.wire = x.wire /\ y.out = x.out /\ y.bytes = x.bytes
          /\ y.lost = x.lost /\ y.fin = x.fin /\ y.peer = x.peer
      BY <1>3, <1>4 DEF ConnType
    <2> QED
      BY <1>4, <2>1, <2>2
  <1>6. Stream(y)
    BY <1>1, <1>5 DEF Stream, isWriting, WriteFails, Open
  <1>7. Good(y) /\ Open(y)
    BY <1>4, <1>5, <1>6 DEF Good, Open
  <1>8. Life(k) => Life(y)
    BY <1>4, <1>5 DEF Life, Open, ReadOn
  <1> DEFINE r == UserCall(y, u, w)
  <1>9. connectEstablished(k, u, w) = r
    BY DEF connectEstablished, x, y
  <1>10. Good(r) /\ Keeps(y, r)
    BY <1>7, UserCallFacts
  <1> HIDE DEF r
  <1>11. Open(r) /\ r.closing = k.closing /\ r.failed = k.failed
    BY <1>5, <1>7, <1>10 DEF Keeps
  <1>12. Life(k) => Life(r)
    BY <1>5, <1>8, <1>10, KeepsFacts
  <1> QED
    BY <1>9, <1>10, <1>11, <1>12

\* connectDestroyed takes the channel out of the poller.  After handleClose
\* its assertion holds, unless startRead has come between, and the callbacks
\* are not called again.
LEMMA DestroyFacts ==
    ASSUME NEW k, Good(k)
    PROVE  LET r == connectDestroyed(k) IN
           /\ Good(r)
           /\ r.todo = k.todo /\ r.delayed = k.delayed /\ r.closing = k.closing
           /\ (r.state = "kConnecting") <=> (k.state = "kConnecting")
           /\ k.state = "kDisconnected" /\ Life(k) /\ k.index # "kNew" =>
                /\ Life(r) /\ r.state = "kDisconnected" /\ r.index = "kNew"
                /\ r.restarted = k.restarted
                /\ ~k.restarted => r.failed = k.failed
  <1>1. k \in ConnType /\ Stream(k)
    BY DEF Good
  <1>2. ASSUME NEW x \in ConnType
        PROVE  LET b == x.failed \/ ~(x.events = {} /\ x.index # "kNew") IN
               /\ remove(x) \in ConnType
               /\ remove(x) = [x EXCEPT !.failed = b, !.index = "kNew",
                                        !.watch = Off]
               /\ b \in BOOLEAN
    <2> DEFINE b == x.failed \/ ~(x.events = {} /\ x.index # "kNew")
    <2>1. remove(x) = [x EXCEPT !.failed = b, !.index = "kNew", !.watch = Off]
      BY <1>2 DEF remove, Check, ConnType
    <2>2. b \in BOOLEAN
      OBVIOUS
    <2> HIDE DEF b
    <2>3. [x EXCEPT !.failed = b, !.index = "kNew", !.watch = Off] \in ConnType
      BY <1>2, <2>2 DEF ConnType
    <2> QED
      BY <2>1, <2>2, <2>3 DEF b
  <1>3. CASE k.state # "kConnected"
    <2> DEFINE r == remove(k)
               b == k.failed \/ ~(k.events = {} /\ k.index # "kNew")
    <2>1. connectDestroyed(k) = r
      BY <1>3 DEF connectDestroyed
    <2>2. /\ r \in ConnType /\ b \in BOOLEAN
          /\ r = [k EXCEPT !.failed = b, !.index = "kNew", !.watch = Off]
      BY <1>1, <1>2
    <2>3. k.events = {} /\ k.index # "kNew" => b = k.failed
      BY <1>1 DEF ConnType
    <2> HIDE DEF r, b
    <2>4. Stream(r)
      BY <1>1, <2>2 DEF Stream, ConnType, isWriting, WriteFails, Open
    <2>5. /\ r.todo = k.todo /\ r.delayed = k.delayed /\ r.closing = k.closing
          /\ r.state = k.state /\ r.failed = b /\ r.index = "kNew"
          /\ r.restarted = k.restarted
      BY <1>1, <2>2 DEF ConnType
    <2>6. k.state = "kDisconnected" /\ Life(k) =>
            Life(r) /\ (~k.restarted => k.events = {})
      BY <1>1, <2>2 DEF ConnType, Life, Open
    <2> QED
      BY <2>1, <2>2, <2>3, <2>4, <2>5, <2>6 DEF Good
  <1>4. CASE k.state = "kConnected"
    <2> DEFINE x == [k EXCEPT !.state = "kDisconnected", !.downs = @ + 1]
               y == disableAll(x)
               r == remove(y)
               b == y.failed \/ ~(y.events = {} /\ y.index # "kNew")
    <2>1. connectDestroyed(k) = r
      BY <1>4 DEF connectDestroyed
    <2>2. x \in ConnType
      <3>1. k.downs + 1 \in Nat
        BY <1>1 DEF ConnType
      <3> QED
        BY <1>1, <3>1 DEF ConnType
    <2>3. /\ y \in ConnType /\ y.events = {}
          /\ y = [x EXCEPT !.events = {}, !.index = y.index, !.watch = y.watch]
      <3> HIDE DEF x
      <3>1. y \in ConnType /\ y.events = {}
        BY <2>2, UpdateType DEF disableAll
      <3>2. y = [x EXCEPT !.events = {}, !.index = y.index, !.watch = y.watch]
        BY <2>2 DEF disableAll, update, ConnType
      <3> QED
        BY <3>1, <3>2
    <2> HIDE DEF y
    <2>4. /\ r \in ConnType /\ b \in BOOLEAN
          /\ r = [y EXCEPT !.failed = b, !.index = "kNew", !.watch = Off]
      BY <1>2, <2>3
    <2> HIDE DEF r, b
    <2>5. /\ y.state = "kDisconnected"
          /\ y.todo = k.todo /\ y.delayed = k.delayed /\ y.closing = k.closing
          /\ y.wire = k.wire /\ y.out = k.out /\ y.bytes = k.bytes
          /\ y.lost = k.lost /\ y.fin = k.fin /\ y.peer = k.peer
      BY <1>1, <2>3 DEF ConnType
    <2>6. /\ r.state = y.state /\ r.events = y.events
          /\ r.todo = y.todo /\ r.delayed = y.delayed /\ r.closing = y.closing
          /\ r.wire = y.wire /\ r.out = y.out /\ r.bytes = y.bytes
          /\ r.lost = y.lost /\ r.fin = y.fin /\ r.peer = y.peer
      BY <2>3, <2>4 DEF ConnType
    <2>7. Stream(r)
      BY <1>1, <2>3, <2>5, <2>6 DEF Stream, isWriting, WriteFails, Open
    <2> QED
      BY <1>4, <2>1, <2>4, <2>5, <2>6, <2>7 DEF Good
  <1> QED
    BY <1>3, <1>4

\* forceCloseInLoop closes an open connection, and leaves others alone.
LEMMA ForceFacts ==
    ASSUME NEW k, Good(k)
    PROVE  LET r == forceCloseInLoop(k) IN
           /\ Good(r)
           /\ (r.state = "kConnecting") <=> (k.state = "kConnecting")
           /\ Keeps(k, r) \/ (Open(k) /\ Closes(k, r))
  <1>1. CASE Open(k)
    <2>1. Good(handleClose(k)) /\ Closes(k, handleClose(k))
      BY CloseFacts
    <2>2. forceCloseInLoop(k) = handleClose(k)
      BY <1>1 DEF forceCloseInLoop
    <2>3. /\ handleClose(k).state # "kConnecting"
          /\ k.state # "kConnecting"
      BY <1>1, <2>1 DEF Closes, Open
    <2> QED
      BY <1>1, <2>1, <2>2, <2>3
  <1>2. CASE ~Open(k)
    <2>1. forceCloseInLoop(k) = k
      BY <1>2 DEF forceCloseInLoop
    <2> QED
      BY <2>1, KeepsFacts
  <1> QED
    BY <1>1, <1>2

-----------------------------------------------------------------------------
(* The queues of the loops *)

\* What is pushed for other connections does not matter to d.
LEMMA PushOthers ==
    ASSUME NEW q \in Seq(Functor), NEW r \in Seq(Functor), NEW d,
           \A i \in 1 .. Len(r) : r[i].c # d
    PROVE  /\ Absent(q, d) => Absent(q \o r, d)
           /\ Sole(q, d) => Sole(q \o r, d)
           /\ Began(q, d) => Began(q \o r, d)
           /\ NoTeardown(q, d) => NoTeardown(q \o r, d)
           /\ \A op : OneTeardown(q, d, op) => OneTeardown(q \o r, d, op)
           /\ LastTeardown(q, d) => LastTeardown(q \o r, d)
  <1> DEFINE W == q \o r
  <1>1. PICK p \in Nat, n \in Nat : p = Len(q) /\ n = Len(r)
    OBVIOUS
  <1>2. Len(W) = p + n /\ \A i \in 1 .. p : W[i] = q[i]
    BY <1>1, ConcatAt
  <1>3. \A i \in 1 .. (p + n) : i > p => W[i].c # d
    <2> SUFFICES ASSUME NEW i \in 1 .. (p + n), i > p
                 PROVE  W[i].c # d
      OBVIOUS
    <2>1. i - p \in 1 .. n /\ p + (i - p) = i
      OBVIOUS
    <2>2. W[p + (i - p)] = r[i - p]
      BY <1>1, <2>1, ConcatAt
    <2> QED
      BY <1>1, <2>1, <2>2
  <1> HIDE DEF W
  <1>4. Absent(q, d) => Absent(W, d)
    BY <1>1, <1>2, <1>3 DEF Absent
  <1>5. Sole(q, d) => Sole(W, d)
    BY <1>1, <1>2, <1>3 DEF Sole
  <1>6. Began(q, d) => Began(W, d)
    BY <1>1, <1>2, <1>3 DEF Began
  <1>7. NoTeardown(q, d) => NoTeardown(W, d)
    BY <1>1, <1>2, <1>3 DEF NoTeardown
  <1>8. ASSUME NEW op, OneTeardown(q, d, op)
        PROVE  OneTeardown(W, d, op)
    <2>1. PICK i \in 1 .. p :
            /\ q[i] = [op |-> op, c |-> d]
            /\ \A j \in (1 .. p) \ {i} : q[j].c = d => q[j].op \notin TeardownOps
      BY <1>1, <1>8 DEF OneTeardown
    <2>2. i \in 1 .. (p + n) /\ W[i] = [op |-> op, c |-> d]
      BY <1>2, <2>1
    <2>3. \A j \in (1 .. (p + n)) \ {i} : W[j].c = d => W[j].op \notin TeardownOps
      BY <1>2, <1>3, <2>1
    <2> QED
      BY <1>2, <2>2, <2>3 DEF OneTeardown
  <1>9. ASSUME LastTeardown(q, d)
        PROVE  LastTeardown(W, d)
    <2>1. PICK i \in 1 .. p :
            /\ q[i] = [op |-> "connectDestroyed", c |-> d]
            /\ \A j \in 1 .. p :
                 /\ j < i /\ q[j].c = d => q[j].op \notin TeardownOps
                 /\ j > i => q[j].c # d
      BY <1>1, <1>9 DEF LastTeardown
    <2>2. i \in 1 .. (p + n) /\ W[i] = [op |-> "connectDestroyed", c |-> d]
      BY <1>2, <2>1
    <2>3. \A j \in 1 .. (p + n) :
            /\ j < i /\ W[j].c = d => W[j].op \notin TeardownOps
            /\ j > i => W[j].c # d
      BY <1>2, <1>3, <2>1
    <2> QED
      BY <1>2, <2>2, <2>3 DEF LastTeardown
  <1> QED
    BY <1>4, <1>5, <1>6, <1>7, <1>8, <1>9 DEF W

\* Nor does a functor of another connection that has been run.
LEMMA PopOthers ==
    ASSUME NEW q \in Seq(Functor), q # <<>>, NEW d
    PROVE  LET t == Tail(q) IN
           /\ t \in Seq(Functor)
           /\ Absent(q, d) => Absent(t, d)
           /\ Began(q, d) => Began(t, d)
           /\ NoTeardown(q, d) => NoTeardown(t, d)
           /\ Sole(q, d) => Sole(t, d)
           /\ Head(q).c # d \/ Head(q).op \notin TeardownOps =>
                /\ \A op \in TeardownOps :
                     OneTeardown(q, d, op) => OneTeardown(t, d, op)
                /\ LastTeardown(q, d) => LastTeardown(t, d)
  <1> DEFINE W == Tail(q)
  <1>1. PICK p \in Nat : p = Len(q) /\ p > 0
    OBVIOUS
  <1>2. /\ W \in Seq(Functor) /\ Len(W) = p - 1 /\ Head(q) = q[1]
        /\ \A i \in 1 .. (p - 1) : W[i] = q[i + 1] /\ i + 1 \in 1 .. p
    BY <1>1
  <1> HIDE DEF W
  <1>3. Absent(q, d) => Absent(W, d)
    BY <1>1, <1>2 DEF Absent
  <1>4. Began(q, d) => Began(W, d)
    BY <1>1, <1>2 DEF Began
  <1>5. NoTeardown(q, d) => NoTeardown(W, d)
    BY <1>1, <1>2 DEF NoTeardown
  <1>6. ASSUME Sole(q, d)
        PROVE  Sole(W, d)
    <2>1. \A i, j \in 1 .. p : q[i].c = d /\ q[j].c = d =>
             q[i].op = "connectEstablished" /\ j = i
      BY <1>1, <1>6 DEF Sole
    <2>2. \A i, j \in 1 .. (p - 1) : W[i].c = d /\ W[j].c = d =>
             W[i].op = "connectEstablished" /\ j = i
      <3> SUFFICES ASSUME NEW i \in 1 .. (p - 1), NEW j \in 1 .. (p - 1),
                          W[i].c = d, W[j].c = d
                   PROVE  W[i].op = "connectEstablished" /\ j = i
        OBVIOUS
      <3>1. /\ W[i] = q[i + 1] /\ i + 1 \in 1 .. p
            /\ W[j] = q[j + 1] /\ j + 1 \in 1 .. p
        BY <1>2
      <3>2. q[i + 1].op = "connectEstablished" /\ j + 1 = i + 1
        BY <2>1, <3>1
      <3> QED
        BY <3>1, <3>2
    <2> QED
      BY <1>2, <2>2 DEF Sole
  <1>7. ASSUME NEW op \in TeardownOps, OneTeardown(q, d, op),
               Head(q).c # d \/ Head(q).op \notin TeardownOps
        PROVE  OneTeardown(W, d, op)
    <2>1. PICK i \in 1 .. p :
            /\ q[i] = [op |-> op, c |-> d]
            /\ \A j \in (1 .. p) \ {i} : q[j].c = d => q[j].op \notin TeardownOps
      BY <1>1, <1>7 DEF OneTeardown
    <2>2. i # 1
      BY <1>2, <1>7, <2>1
    <2>3. i - 1 \in 1 .. (p - 1) /\ (i - 1) + 1 = i
      BY <2>1, <2>2
    <2>4. W[i - 1] = [op |-> op, c |-> d]
      BY <1>2, <2>1, <2>3
    <2>5. \A j \in (1 .. (p - 1)) \ {i - 1} :
             W[j].c = d => W[j].op \notin TeardownOps
      <3>1. \A j \in (1 .. (p - 1)) \ {i - 1} : j + 1 \in (1 .. p) \ {i}
        BY <2>1
      <3> QED
        BY <1>2, <2>1, <3>1
    <2> QED
      BY <1>2, <2>3, <2>4, <2>5 DEF OneTeardown
  <1>8. ASSUME LastTeardown(q, d),
               Head(q).c # d \/ Head(q).op \notin TeardownOps
        PROVE  LastTeardown(W, d)
    <2>1. PICK i \in 1 .. p :
            /\ q[i] = [op |-> "connectDestroyed", c |-> d]
            /\ \A j \in 1 .. p :
                 /\ j < i /\ q[j].c = d => q[j].op \notin TeardownOps
                 /\ j > i => q[j].c # d
      BY <1>1, <1>8 DEF LastTeardown
    <2>2. i # 1
      BY <1>2, <1>8, <2>1 DEF TeardownOps
    <2>3. i - 1 \in 1 .. (p - 1) /\ (i - 1) + 1 = i
      BY <2>1, <2>2
    <2>4. W[i - 1] = [op |-> "connectDestroyed", c |-> d]
      BY <1>2, <2>1, <2>3
    <2>5. \A j \in 1 .. (p - 1) :
            /\ j < i - 1 /\ W[j].c = d => W[j].op \notin TeardownOps
            /\ j > i - 1 => W[j].c # d
      <3> SUFFICES ASSUME NEW j \in 1 .. (p - 1)
                   PROVE  /\ j < i - 1 /\ W[j].c = d => W[j].op \notin TeardownOps
                          /\ j > i - 1 => W[j].c # d
        OBVIOUS
      <3>1. /\ j + 1 \in 1 .. p
            /\ j < i - 1 => j + 1 < i
            /\ j > i - 1 => j + 1 > i
        BY <2>1
      <3>2. W[j] = q[j + 1]
        BY <1>2
      <3>3. /\ j + 1 < i /\ q[j + 1].c = d => q[j + 1].op \notin TeardownOps
            /\ j + 1 > i => q[j + 1].c # d
        BY <2>1, <3>1
      <3> QED
        BY <3>1, <3>2, <3>3
    <2> QED
      BY <1>2, <2>3, <2>4, <2>5 DEF LastTeardown
  <1> QED
    BY <1>2, <1>3, <1>4, <1>5, <1>6, <1>7, <1>8 DEF W

\* Callbacks and forceCloseInLoop are no steps of the teardown.
LEMMA PushPlain ==
    ASSUME NEW q \in Seq(Functor), NEW r \in Seq(Functor), NEW c,
           \A i \in 1 .. Len(r) : r[i].op \in Plain
    PROVE  /\ NoTeardown(q, c) => NoTeardown(q \o r, c)
           /\ Began(q, c) => Began(q \o r, c)
  <1> DEFINE W == q \o r
  <1>1. PICK p \in Nat, n \in Nat : p = Len(q) /\ n = Len(r)
    OBVIOUS
  <1>2. Len(W) = p + n /\ \A i \in 1 .. p : W[i] = q[i]
    BY <1>1, ConcatAt
  <1>3. \A i \in 1 .. (p + n) : i > p => W[i].op \in Plain
    <2> SUFFICES ASSUME NEW i \in 1 .. (p + n), i > p
                 PROVE  W[i].op \in Plain
      OBVIOUS
    <2>1. i - p \in 1 .. n /\ p + (i - p) = i
      OBVIOUS
    <2>2. W[p + (i - p)] = r[i - p]
      BY <1>1, <2>1, ConcatAt
    <2> QED
      BY <1>1, <2>1, <2>2
  <1> HIDE DEF W
  <1>4. NoTeardown(q, c) => NoTeardown(W, c)
    BY <1>1, <1>2, <1>3 DEF NoTeardown, Plain, TeardownOps
  <1>5. Began(q, c) => Began(W, c)
    BY <1>1, <1>2, <1>3 DEF Began, Plain
  <1> QED
    BY <1>4, <1>5 DEF W

\* The first step of the teardown, pushed; it is the last functor.
LEMMA PushTeardown ==
    ASSUME NEW q \in Seq(Functor), NEW c \in Conns, NEW op \in TeardownOps,
           NoTeardown(q, c)
    PROVE  LET W == Append(q, [op |-> op, c |-> c]) IN
           /\ OneTeardown(W, c, op)
           /\ op = "connectDestroyed" => LastTeardown(W, c)
           /\ Began(q, c) => Began(W, c)
  <1> DEFINE f == [op |-> op, c |-> c]
             W == Append(q, f)
  <1>1. PICK p \in Nat : p = Len(q)
    OBVIOUS
  <1>2. f \in Functor /\ f.op = op /\ f.c = c
    BY DEF Functor, Ops
  <1> HIDE DEF f
  <1>3. /\ Len(W) = p + 1 /\ W[p + 1] = f
        /\ \A i \in 1 .. p : W[i] = q[i]
    BY <1>1, <1>2, AppendAt
  <1>4. \A i \in 1 .. p : q[i].c = c => q[i].op \notin TeardownOps
    BY <1>1 DEF NoTeardown
  <1> HIDE DEF W
  <1>5. p + 1 \in 1 .. (p + 1) /\ (1 .. (p + 1)) \ {p + 1} = 1 .. p
    OBVIOUS
  <1>6. OneTeardown(W, c, op)
    BY <1>3, <1>4, <1>5 DEF OneTeardown, f
  <1>7. op = "connectDestroyed" => LastTeardown(W, c)
    BY <1>3, <1>4, <1>5 DEF LastTeardown, f
  <1>8. Began(q, c) => Began(W, c)
    <2>1. op # "connectEstablished"
      BY DEF TeardownOps
    <2> QED
      BY <1>1, <1>2, <1>3, <2>1 DEF Began
  <1> QED
    BY <1>6, <1>7, <1>8 DEF W, f

\* A step of the teardown that has been run was the only one.
LEMMA PopTeardown ==
    ASSUME NEW q \in Seq(Functor), q # <<>>, NEW c, Head(q).c = c
    PROVE  LET t == Tail(q) IN
           /\ LastTeardown(q, c) /\ Head(q).op \in TeardownOps => Absent(t, c)
           /\ \A op : OneTeardown(q, c, op) /\ Head(q).op \in TeardownOps =>
                  NoTeardown(t, c) /\ Head(q).op = op
           /\ Sole(q, c) => Absent(t, c) /\ Head(q).op = "connectEstablished"
  <1> DEFINE W == Tail(q)
  <1>1. PICK p \in Nat : p = Len(q) /\ p > 0
    OBVIOUS
  <1>2. /\ W \in Seq(Functor) /\ Len(W) = p - 1 /\ Head(q) = q[1]
        /\ \A i \in 1 .. (p - 1) :
             W[i] = q[i + 1] /\ i + 1 \in 1 .. p /\ i + 1 # 1 /\ i + 1 > 1
    BY <1>1
  <1> HIDE DEF W
  <1>3. ASSUME LastTeardown(q, c), Head(q).op \in TeardownOps
        PROVE  Absent(W, c)
    <2>1. PICK i \in 1 .. p :
            /\ q[i] = [op |-> "connectDestroyed", c |-> c]
            /\ \A j \in 1 .. p :
                 /\ j < i /\ q[j].c = c => q[j].op \notin TeardownOps
                 /\ j > i => q[j].c # c
      BY <1>1, <1>3 DEF LastTeardown
    <2>2. i = 1
      BY <1>1, <1>2, <1>3, <2>1
    <2> QED
      BY <1>2, <2>1, <2>2 DEF Absent
  <1>4. ASSUME NEW op, OneTeardown(q, c, op), Head(q).op \in TeardownOps
        PROVE  NoTeardown(W, c) /\ Head(q).op = op
    <2>1. PICK i \in 1 .. p :
            /\ q[i] = [op |-> op, c |-> c]
            /\ \A j \in (1 .. p) \ {i} : q[j].c = c => q[j].op \notin TeardownOps
      BY <1>1, <1>4 DEF OneTeardown
    <2>2. i = 1
      BY <1>1, <1>2, <1>4, <2>1
    <2> QED
      BY <1>2, <2>1, <2>2 DEF NoTeardown
  <1>5. ASSUME Sole(q, c)
        PROVE  Absent(W, c) /\ Head(q).op = "connectEstablished"
    <2>1. \A i, j \in 1 .. p : q[i].c = c /\ q[j].c = c =>
             q[i].op = "connectEstablished" /\ j = i
      BY <1>1, <1>5 DEF Sole
    <2> QED
      BY <1>1, <1>2, <2>1 DEF Absent
  <1> QED
    BY <1>3, <1>4, <1>5 DEF W

\* How a step of connection c changes the queue q of loop l: it may take a
\* functor of c, and push functors of c that belong there.
Fit(c, home, l) ==
    {f \in Functor :
        f.c = c /\ IF f.op = "removeConnectionInLoop" THEN l = Base ELSE l = home}

Moved(q, n, c, home, l) ==
    \E p \in Seq(Functor), r \in Seq(Fit(c, home, l)) :
        /\ n = p \o r
        /\ p = q \/ (q # <<>> /\ Head(q).c = c /\ p = Tail(q))

\* Such a step does not matter to connection d.
LEMMA MovedOthers ==
    ASSUME NEW q \in Seq(Functor), NEW n, NEW c, NEW home, NEW l,
           Moved(q, n, c, home, l), NEW d, d # c
    PROVE  /\ Absent(q, d) => Absent(n, d)
           /\ Sole(q, d) => Sole(n, d)
           /\ Began(q, d) => Began(n, d)
           /\ NoTeardown(q, d) => NoTeardown(n, d)
           /\ \A op \in TeardownOps :
                OneTeardown(q, d, op) => OneTeardown(n, d, op)
           /\ LastTeardown(q, d) => LastTeardown(n, d)
  <1>1. PICK p \in Seq(Functor), r \in Seq(Fit(c, home, l)) :
          /\ n = p \o r
          /\ p = q \/ (q # <<>> /\ Head(q).c = c /\ p = Tail(q))
    BY DEF Moved
  <1>2. r \in Seq(Functor) /\ \A i \in 1 .. Len(r) : r[i].c # d
    <2>1. \A i \in 1 .. Len(r) : r[i] \in Fit(c, home, l)
      BY <1>1
    <2>2. Fit(c, home, l) \subseteq Functor
      BY DEF Fit
    <2>3. r \in Seq(Functor)
      BY <1>1, <2>2
    <2> QED
      BY <2>1, <2>3 DEF Fit
  <1>3. /\ Absent(q, d) => Absent(p, d)
        /\ Sole(q, d) => Sole(p, d)
        /\ Began(q, d) => Began(p, d)
        /\ NoTeardown(q, d) => NoTeardown(p, d)
        /\ \A op \in TeardownOps :
             OneTeardown(q, d, op) => OneTeardown(p, d, op)
        /\ LastTeardown(q, d) => LastTeardown(p, d)
    <2>1. CASE p = q
      BY <2>1
    <2>2. CASE q # <<>> /\ Head(q).c = c /\ p = Tail(q)
      BY <2>2, PopOthers
    <2> QED
      BY <1>1, <2>1, <2>2
  <1>4. /\ Absent(p, d) => Absent(n, d)
        /\ Sole(p, d) => Sole(n, d)
        /\ Began(p, d) => Began(n, d)
        /\ NoTeardown(p, d) => NoTeardown(n, d)
        /\ \A op : OneTeardown(p, d, op) => OneTeardown(n, d, op)
        /\ LastTeardown(p, d) => LastTeardown(n, d)
    BY <1>1, <1>2, PushOthers
  <1> QED
    BY <1>3, <1>4

\* What a functor queue holds after a step of c was there or fits.
LEMMA MovedPlaces ==
    ASSUME NEW q \in Seq(Functor), NEW n, NEW c, NEW home, NEW l,
           Moved(q, n, c, home, l)
    PROVE  /\ n \in Seq(Functor)
           /\ \A i \in 1 .. Len(n) : \/ n[i] \in Fit(c, home, l)
                                    \/ \E j \in 1 .. Len(q) : n[i] = q[j]
  <1>1. PICK p \in Seq(Functor), r \in Seq(Fit(c, home, l)) :
          /\ n = p \o r
          /\ p = q \/ (q # <<>> /\ Head(q).c = c /\ p = Tail(q))
    BY DEF Moved
  <1>2. r \in Seq(Functor) /\ \A i \in 1 .. Len(r) : r[i] \in Fit(c, home, l)
    <2>1. Fit(c, home, l) \subseteq Functor
      BY DEF Fit
    <2> QED
      BY <1>1, <2>1
  <1>3. \A i \in 1 .. Len(p) : \E j \in 1 .. Len(q) : p[i] = q[j]
    <2>1. CASE p = q
      BY <2>1
    <2>2. CASE q # <<>> /\ p = Tail(q)
      <3>1. \A i \in 1 .. Len(p) : i + 1 \in 1 .. Len(q) /\ p[i] = q[i + 1]
        BY <2>2
      <3> QED
        BY <3>1
    <2> QED
      BY <1>1, <2>1, <2>2
  <1>4. n \in Seq(Functor)
    BY <1>1, <1>2
  <1>5. ASSUME NEW i \in 1 .. Len(n)
        PROVE  \/ n[i] \in Fit(c, home, l)
               \/ \E j \in 1 .. Len(q) : n[i] = q[j]
    <2>1. PICK a \in Nat, b \in Nat : a = Len(p) /\ b = Len(r)
      BY <1>1, <1>2
    <2>2. /\ Len(n) = a + b /\ (i <= a => n[i] = p[i])
          /\ \A j \in 1 .. b : n[a + j] = r[j]
      BY <1>1, <1>2, <2>1, ConcatAt
    <2>3. CASE i <= a
      BY <1>3, <2>1, <2>2, <2>3
    <2>4. CASE i > a
      <3>1. i - a \in 1 .. b /\ a + (i - a) = i
        BY <2>1, <2>2, <2>4
      <3>2. n[i] = r[i - a]
        BY <2>2, <3>1
      <3> QED
        BY <1>2, <2>1, <3>1, <3>2
    <2> QED
      BY <2>1, <2>2, <2>3, <2>4
  <1> QED
    BY <1>4, <1>5

\* The functors for what member functions queue.
LEMMA FunctorsFacts ==
    ASSUME NEW c \in Conns, NEW ops \in Seq(Ops)
    PROVE  /\ Functors(ops, c) \in Seq(Functor)
           /\ Len(Functors(ops, c)) = Len(ops)
           /\ \A i \in 1 .. Len(ops) :
                Functors(ops, c)[i] = [op |-> ops[i], c |-> c]
           /\ \A op \in Ops : Functors(Append(ops, op), c) =
                Append(Functors(ops, c), [op |-> op, c |-> c])
  <1>1. \A t \in Seq(Ops) :
          /\ Functors(t, c) \in Seq(Functor) /\ Len(Functors(t, c)) = Len(t)
          /\ \A i \in 1 .. Len(t) : Functors(t, c)[i] = [op |-> t[i], c |-> c]
    <2> SUFFICES ASSUME NEW t \in Seq(Ops)
                 PROVE  /\ Functors(t, c) \in Seq(Functor)
                        /\ Len(Functors(t, c)) = Len(t)
                        /\ \A i \in 1 .. Len(t) :
                             Functors(t, c)[i] = [op |-> t[i], c |-> c]
      OBVIOUS
    <2>1. DOMAIN t = 1 .. Len(t) /\ Len(t) \in Nat
      OBVIOUS
    <2>2. \A i \in 1 .. Len(t) : [op |-> t[i], c |-> c] \in Functor
      BY DEF Functor
    <2>3. Functors(t, c) = [i \in 1 .. Len(t) |-> [op |-> t[i], c |-> c]]
      BY <2>1 DEF Functors
    <2> QED
      BY <2>1, <2>2, <2>3
  <1>2. ASSUME NEW op \in Ops
        PROVE  Functors(Append(ops, op), c) =
                 Append(Functors(ops, c), [op |-> op, c |-> c])
    <2> DEFINE f == [op |-> op, c |-> c]
               A == Append(ops, op)
               s == Functors(A, c)
               t == Append(Functors(ops, c), f)
    <2>1. f \in Functor
      BY DEF Functor
    <2>2. PICK n \in Nat : n = Len(ops)
      OBVIOUS
    <2>3. /\ A \in Seq(Ops) /\ Len(A) = n + 1 /\ A[n + 1] = op
          /\ \A i \in 1 .. n : A[i] = ops[i]
      BY <2>2, AppendAt
    <2>4. /\ s \in Seq(Functor) /\ Len(s) = n + 1
          /\ \A i \in 1 .. (n + 1) : s[i] = [op |-> A[i], c |-> c]
      BY <1>1, <2>3
    <2>5. /\ t \in Seq(Functor) /\ Len(t) = n + 1 /\ t[n + 1] = f
          /\ \A i \in 1 .. n : t[i] = [op |-> ops[i], c |-> c]
      <3> HIDE DEF f
      <3> QED
        BY <1>1, <2>1, <2>2, AppendAt
    <2> HIDE DEF s, t, A
    <2>6. \A i \in 1 .. (n + 1) : s[i] = t[i]
      <3>1. \A i \in 1 .. (n + 1) : i \in 1 .. n \/ i = n + 1
        OBVIOUS
      <3> QED
        BY <2>3, <2>4, <2>5, <3>1
    <2>7. s = t
      BY <2>4, <2>5, <2>6, SeqEqual
    <2> QED
      BY <2>7 DEF s, t, A
  <1> QED
    BY <1>1, <1>2

\* Concatenation is associative, and takes the head of its first argument.
LEMMA ConcatMore ==
    ASSUME NEW S, NEW s \in Seq(S), NEW t \in Seq(S), NEW r \in Seq(S)
    PROVE  /\ s \o (t \o r) = (s \o t) \o r
           /\ s \o <<>> = s
           /\ s # <<>> => /\ s \o t # <<>> /\ Head(s \o t) = Head(s)
                          /\ Tail(s \o t) = Tail(s) \o t
  <1>1. s \o (t \o r) = (s \o t) \o r
    BY ConcatAssociative
  <1>2. s \o <<>> = s
    OBVIOUS
  <1>3. ASSUME s # <<>>
        PROVE  /\ s \o t # <<>> /\ Head(s \o t) = Head(s)
               /\ Tail(s \o t) = Tail(s) \o t
    <2> DEFINE W == s \o t
               U == Tail(s) \o t
               T == Tail(W)
    <2>1. PICK m \in Nat, n \in Nat : m = Len(s) /\ n = Len(t) /\ m > 0
      BY <1>3
    <2>2. /\ W \in Seq(S) /\ Len(W) = m + n
          /\ \A i \in 1 .. m : W[i] = s[i]
          /\ \A i \in 1 .. n : W[m + i] = t[i]
      BY <2>1, ConcatAt
    <2>3. /\ Tail(s) \in Seq(S) /\ Len(Tail(s)) = m - 1
          /\ \A i \in 1 .. (m - 1) : Tail(s)[i] = s[i + 1]
          /\ Head(s) = s[1]
      BY <1>3, <2>1
    <2>4. /\ U \in Seq(S) /\ Len(U) = (m - 1) + n
          /\ \A i \in 1 .. (m - 1) : U[i] = Tail(s)[i]
          /\ \A i \in 1 .. n : U[(m - 1) + i] = t[i]
      BY <2>1, <2>3, ConcatAt
    <2> HIDE DEF W, U
    <2>5. W # <<>> /\ Head(W) = W[1]
      BY <2>1, <2>2
    <2>6. /\ T \in Seq(S) /\ Len(T) = (m + n) - 1
          /\ \A i \in 1 .. ((m + n) - 1) : T[i] = W[i + 1]
      BY <2>1, <2>2, <2>5
    <2> HIDE DEF T
    <2>7. ASSUME NEW i \in 1 .. ((m + n) - 1)
          PROVE  T[i] = U[i]
      <3>1. CASE i <= m - 1
        <4>1. i \in 1 .. (m - 1) /\ i + 1 \in 1 .. m
          BY <2>1, <3>1
        <4> QED
          BY <2>2, <2>3, <2>4, <2>6, <4>1
      <3>2. CASE i > m - 1
        <4>1. PICK j \in 1 .. n : i = (m - 1) + j
          <5>1. i - (m - 1) \in 1 .. n /\ i = (m - 1) + (i - (m - 1))
            BY <2>1, <3>2
          <5> QED
            BY <5>1
        <4>2. U[i] = t[j] /\ W[m + j] = t[j]
          BY <2>2, <2>4, <4>1
        <4>3. i + 1 = m + j
          BY <2>1, <4>1
        <4> QED
          BY <2>6, <4>2, <4>3
      <3> QED
        BY <2>1, <3>1, <3>2
    <2>8. T = U
      <3>1. (m + n) - 1 = (m - 1) + n
        BY <2>1
      <3> QED
        BY <2>4, <2>6, <2>7, <3>1, SeqEqual
    <2>9. W[1] = s[1]
      BY <2>1, <2>2
    <2> QED
      BY <2>3, <2>5, <2>8, <2>9 DEF W, U, T
  <1> QED
    BY <1>1, <1>2, <1>3

\* What the owner leaves of a connection when it has seen to it.
LEMMA DoneFacts ==
    ASSUME NEW k, Good(k), NEW b
    PROVE  LET r == Done(Check(k, b)) IN
           /\ Good(r) /\ Settled(r)
           /\ r.state = k.state /\ r.index = k.index /\ r.reading = k.reading
           /\ r.restarted = k.restarted
           /\ (r.failed <=> (k.failed \/ ~b)) /\ (Life(k) => Life(r))
           /\ Open(r) <=> Open(k)
           /\ Good(Done(k)) /\ Settled(Done(k))
           /\ Done(k).state = k.state /\ Done(k).index = k.index
           /\ Done(k).failed = k.failed /\ (Life(k) => Life(Done(k)))
  <1>1. k \in ConnType /\ Stream(k)
    BY DEF Good
  <1>2. ASSUME NEW x, Good(x)
        PROVE  /\ Good(Done(x)) /\ Settled(Done(x))
               /\ Done(x).state = x.state /\ Done(x).index = x.index
               /\ Done(x).reading = x.reading /\ Done(x).restarted = x.restarted
               /\ Done(x).failed = x.failed /\ (Life(x) => Life(Done(x)))
    <2>1. x \in ConnType /\ Stream(x)
      BY <1>2 DEF Good
    <2>2. Done(x) \in ConnType
      <3>1. <<>> \in Seq(Plain)
        OBVIOUS
      <3> QED
        BY <2>1, <3>1 DEF ConnType, Done
    <2>3. Stream(Done(x)) /\ (Life(x) => Life(Done(x)))
      BY <2>1 DEF ConnType, Done, Stream, isWriting, WriteFails, Open, Life,
                  ReadOn
    <2>4. /\ Settled(Done(x)) /\ Done(x).state = x.state
          /\ Done(x).index = x.index /\ Done(x).reading = x.reading
          /\ Done(x).restarted = x.restarted
          /\ Done(x).failed = x.failed
      BY <2>1 DEF ConnType, Done, Settled
    <2> QED
      BY <2>2, <2>3, <2>4 DEF Good
  <1> DEFINE f == k.failed \/ ~b
             x == Check(k, b)
  <1>3. x = [k EXCEPT !.failed = f] /\ f \in BOOLEAN
    BY <1>1 DEF Check, ConnType
  <1> HIDE DEF f, x
  <1>4. x \in ConnType
    BY <1>1, <1>3 DEF ConnType
  <1>5. Stream(x) /\ (Life(k) => Life(x))
    BY <1>1, <1>3 DEF ConnType, Stream, isWriting, WriteFails, Open, Life,
                      ReadOn
  <1>6. /\ x.state = k.state /\ x.index = k.index /\ x.reading = k.reading
        /\ x.restarted = k.restarted /\ x.failed = f
    BY <1>1, <1>3 DEF ConnType
  <1>7. /\ Good(Done(x)) /\ Settled(Done(x))
        /\ Done(x).state = x.state /\ Done(x).index = x.index
        /\ Done(x).reading = x.reading /\ Done(x).restarted = x.restarted
        /\ Done(x).failed = x.failed /\ (Life(x) => Life(Done(x)))
    BY <1>2, <1>4, <1>5 DEF Good
  <1>8. Done(x).failed <=> (k.failed \/ ~b)
    BY <1>6, <1>7 DEF f
  <1>9. Open(Done(x)) <=> Open(k)
    BY <1>6, <1>7 DEF Open
  <1> QED
    BY <1>2, <1>5, <1>6, <1>7, <1>8, <1>9 DEF x

\* Nothing in queues P establishes c; functors of c, now k, make P into N.
AllBegan(L, P, c) == \A l \in L : Began(P[l], c)
AllPushed(L, P, N, c, k, home) ==
    \A l \in L : N[l] = P[l] \o Functors(Pushes(k, home, l), c)

\* What removeConnection and the functors of a member function make of the
\* teardown of c, whose record was j and is k.  P is what the loops are to run
\* before anything is pushed, N after it.
LEMMA SettleStage ==
    ASSUME NEW c \in Conns, NEW L, Base \in L, NEW home \in L, NEW listed,
           NEW P \in [L -> Seq(Functor)], NEW N \in [L -> Seq(Functor)],
           NEW j, NEW k, k \in ConnType, Settled(j), Life(j),
           j.state # "kConnecting", j.index # "kNew",
           StageOf(c, j, listed, home, P),
           AllBegan(L, P, c), Keeps(j, k) \/ (Open(j) /\ Closes(j, k)),
           AllPushed(L, P, N, c, k, home)
    PROVE  /\ StageOf(c, k, listed /\ ~(k.closing /\ home = Base), home, N)
           /\ \A l \in L : Began(N[l], c)
  <1> USE DEF AllBegan
  <1> PICK in : in = (k.closing /\ home = Base)
    OBVIOUS
  <1> PICK ops : ops = IF in THEN Append(k.todo, "connectDestroyed") ELSE k.todo
    OBVIOUS
  <1> PICK away : away = IF k.closing /\ home # Base
                         THEN <<"removeConnectionInLoop">> ELSE <<>>
    OBVIOUS
  <1>a. /\ Pushes(k, home, home) = ops
        /\ home # Base => Pushes(k, home, Base) = away
        /\ \A l \in L : l # home /\ l # Base => Pushes(k, home, l) = <<>>
    BY DEF Pushes
  <1> SUFFICES ASSUME \A l \in L :
                 N[l] = IF l = home THEN P[l] \o Functors(ops, c)
                        ELSE IF l = Base THEN P[l] \o Functors(away, c)
                        ELSE P[l]
               PROVE  /\ StageOf(c, k, listed /\ ~in, home, N)
                      /\ \A l \in L : Began(N[l], c)
    <2>1. ASSUME NEW l \in L
          PROVE  N[l] = IF l = home THEN P[l] \o Functors(ops, c)
                        ELSE IF l = Base THEN P[l] \o Functors(away, c) ELSE P[l]
      <3>1. PICK p \in Seq(Functor) : p = P[l]
        OBVIOUS
      <3>2. p \o <<>> = p
        BY ConcatMore
      <3>3. Functors(<<>>, c) = <<>>
        BY DEF Functors
      <3>4. N[l] = p \o Functors(Pushes(k, home, l), c)
        BY <3>1 DEF AllPushed
      <3> QED
        BY <1>a, <3>1, <3>2, <3>3, <3>4
    <2> QED
      BY <2>1
  <1>1. k.todo \in Seq(Plain) /\ k.todo \in Seq(Ops)
    <2>1. k.todo \in Seq(Plain) /\ Plain \subseteq Ops
      BY DEF ConnType, Ops
    <2> QED
      BY <2>1
  <1> DEFINE F == Functors(k.todo, c)
             cd == [op |-> "connectDestroyed", c |-> c]
             rc == [op |-> "removeConnectionInLoop", c |-> c]
  <1>2. F \in Seq(Functor) /\ \A i \in 1 .. Len(F) : F[i].op \in Plain
    <2>1. /\ F \in Seq(Functor) /\ Len(F) = Len(k.todo)
          /\ \A i \in 1 .. Len(k.todo) : F[i] = [op |-> k.todo[i], c |-> c]
      BY <1>1, FunctorsFacts
    <2>2. \A i \in 1 .. Len(k.todo) : k.todo[i] \in Plain
      BY <1>1
    <2> HIDE DEF F
    <2>3. ASSUME NEW i \in 1 .. Len(F)
          PROVE  F[i].op \in Plain
      <3>1. F[i] = [op |-> k.todo[i], c |-> c] /\ k.todo[i] \in Plain
        BY <2>1, <2>2
      <3> QED
        BY <3>1
    <2> QED
      BY <2>1, <2>3
  <1>3. cd \in Functor /\ rc \in Functor
    BY DEF Functor, Ops, TeardownOps
  <1> HIDE DEF F
  <1>4. CASE Keeps(j, k) /\ Open(j)
    <2>1. ~k.closing /\ k.state # "kDisconnected" /\ Open(k)
      BY <1>4 DEF Keeps, Settled, Open
    <2>2. ~in /\ ops = k.todo /\ away = <<>>
      BY <2>1
    <2>3. listed /\ \A l \in L : NoTeardown(P[l], c)
      BY <1>4 DEF StageOf, Open
    <2>4. Functors(<<>>, c) = <<>>
      BY DEF Functors
    <2>5. \A l \in L : N[l] = P[l] \o F \/ N[l] = P[l] \o <<>>
      <3>1. \A l \in L : P[l] \o <<>> = P[l]
        BY ConcatMore
      <3> QED
        BY <2>2, <2>4, <3>1 DEF F
    <2>6. \A l \in L : NoTeardown(N[l], c) /\ Began(N[l], c)
      <3>1. \A l \in L : P[l] \in Seq(Functor)
        OBVIOUS
      <3>2. \A l \in L : P[l] \o <<>> = P[l]
        BY <3>1, ConcatMore
      <3> QED
        BY <1>2, <2>3, <2>5, <3>1, <3>2, PushPlain
    <2> QED
      BY <2>1, <2>2, <2>3, <2>6 DEF StageOf
  <1>5. CASE Keeps(j, k) /\ ~Open(j)
    <2>1. j.state = "kDisconnected" /\ "write" \notin j.events
      <3>1. j.state = "kDisconnected"
        <4>1. k.state = j.state
          BY <1>5 DEF Keeps
        <4> QED
          BY <1>5, <4>1 DEF ConnType, Open
      <3> QED
        BY <3>1 DEF Life
    <2>2. /\ k.state = "kDisconnected" /\ k.todo = <<>> /\ ~k.closing
          /\ k.index # "kNew"
      BY <1>5, <2>1 DEF Keeps, Settled
    <2>3. ~in /\ ops = <<>> /\ away = <<>>
      BY <2>2
    <2>4. \A l \in L : N[l] = P[l]
      <3>1. Functors(<<>>, c) = <<>>
        BY DEF Functors
      <3>2. \A l \in L : P[l] \o <<>> = P[l]
        BY ConcatMore
      <3> QED
        BY <2>3, <3>1, <3>2
    <2>5. N = P
      BY <2>4
    <2> QED
      BY <2>1, <2>2, <2>3, <2>5 DEF StageOf
  <1>6. CASE Open(j) /\ Closes(j, k) /\ home = Base
    <2>1. k.closing /\ k.state = "kDisconnected" /\ k.index # "kNew"
      BY <1>6 DEF Closes
    <2>2. in /\ ops = Append(k.todo, "connectDestroyed")
      BY <1>6, <2>1
    <2>3. \A l \in L : NoTeardown(P[l], c) /\ P[l] \in Seq(Functor)
      BY <1>6 DEF StageOf, Open
    <2>4. N[home] = Append(P[home] \o F, cd)
      <3>1. "connectDestroyed" \in Ops
        BY DEF Ops, TeardownOps
      <3>2. Functors(ops, c) = Append(F, cd)
        BY <1>1, <2>2, <3>1, FunctorsFacts DEF F
      <3>3. P[home] \o Append(F, cd) = Append(P[home] \o F, cd)
        <4>1. PICK u \in Seq(Functor), v \in Seq(Functor), x \in Functor :
                u = P[home] /\ v = F /\ x = cd
          BY <1>2, <1>3, <2>3
        <4>2. u \o Append(v, x) = Append(u \o v, x)
          BY ONLY u \in Seq(Functor), v \in Seq(Functor), x \in Functor,
                  ConcatFacts, SMTT(40)
        <4> HIDE DEF cd
        <4> QED
          BY <4>1, <4>2
      <3> QED
        BY <3>2, <3>3
    <2>5. PICK q \in Seq(Functor) : q = P[home] \o F
      <3>1. P[home] \in Seq(Functor)
        BY <2>3
      <3> QED
        BY <1>2, <3>1, ConcatAt
    <2>6. NoTeardown(q, c) /\ Began(q, c)
      BY <1>2, <2>3, <2>5, PushPlain
    <2>7. LastTeardown(N[home], c) /\ Began(N[home], c)
      <3>1. "connectDestroyed" \in TeardownOps
        BY DEF TeardownOps
      <3> QED
        BY <2>4, <2>5, <2>6, <3>1, PushTeardown
    <2>8. \A l \in L \ {home} : N[l] = P[l]
      BY <1>6
    <2>9. StageOf(c, k, listed /\ ~in, home, N)
      BY <1>6, <2>1, <2>2, <2>7 DEF StageOf
    <2>10. \A l \in L : Began(N[l], c)
      BY <2>7, <2>8
    <2> QED
      BY <2>9, <2>10
  <1>7. CASE Open(j) /\ Closes(j, k) /\ home # Base
    <2>1. k.closing /\ k.state = "kDisconnected" /\ k.index # "kNew"
      BY <1>7 DEF Closes
    <2>2. ~in /\ ops = k.todo /\ away = <<"removeConnectionInLoop">>
      BY <1>7, <2>1
    <2>3. listed /\ \A l \in L : NoTeardown(P[l], c) /\ P[l] \in Seq(Functor)
      BY <1>7 DEF StageOf, Open
    <2>4. N[home] = P[home] \o F
      BY <2>2 DEF F
    <2>5. NoTeardown(N[home], c) /\ Began(N[home], c)
      BY <1>2, <2>3, <2>4, PushPlain
    <2>6. N[Base] = Append(P[Base], rc)
      <3>1. N[Base] = P[Base] \o Functors(away, c)
        BY <1>7
      <3>2. PICK t \in Seq(Functor) :
              t = Functors(away, c) /\ Len(t) = 1 /\ t[1] = rc
        <4>1. "removeConnectionInLoop" \in Ops
          BY DEF Ops, TeardownOps
        <4>2. away \in Seq(Ops) /\ Len(away) = 1 /\ away[1] = "removeConnectionInLoop"
          BY <2>2, <4>1, OneElement
        <4>3. PICK a \in Seq(Ops) : a = away
          BY <4>2
        <4>4. Len(a) = 1 /\ a[1] = "removeConnectionInLoop"
          BY <4>2, <4>3
        <4>5. /\ Functors(a, c) \in Seq(Functor) /\ Len(Functors(a, c)) = Len(a)
              /\ \A i \in 1 .. Len(a) : Functors(a, c)[i] = [op |-> a[i], c |-> c]
          BY FunctorsFacts
        <4>6. Functors(a, c)[1] = rc
          BY <4>4, <4>5
        <4>7. Functors(away, c) = Functors(a, c)
          BY <4>3
        <4> QED
          BY <4>4, <4>5, <4>6, <4>7
      <3>3. P[Base] \in Seq(Functor)
        BY <2>3
      <3> HIDE DEF rc
      <3>4. P[Base] \o t = Append(P[Base], t[1])
        BY <3>2, <3>3, OneElement
      <3> QED
        BY <3>1, <3>2, <3>4
    <2>7. OneTeardown(N[Base], c, "removeConnectionInLoop") /\ Began(N[Base], c)
      <3>1. "removeConnectionInLoop" \in TeardownOps
        BY DEF TeardownOps
      <3>2. Began(P[Base], c) /\ NoTeardown(P[Base], c) /\ P[Base] \in Seq(Functor)
        BY <2>3
      <3> QED
        BY <2>6, <3>1, <3>2, PushTeardown
    <2>8. \A l \in L \ {home, Base} : N[l] = P[l]
      BY <1>7
    <2>9. StageOf(c, k, listed /\ ~in, home, N)
      BY <1>7, <2>1, <2>2, <2>3, <2>5, <2>7 DEF StageOf
    <2>10. \A l \in L : Began(N[l], c)
      BY <2>5, <2>7, <2>8
    <2> QED
      BY <2>9, <2>10
  <1> QED
    BY <1>4, <1>5, <1>6, <1>7

\* A step of c changes queues Q to N.
AllMoved(L, Q, N, c, h) == \A l \in L : Moved(Q[l], N[l], c, h, l)

\* It leaves the teardown of d where it is.
LEMMA StageOthers ==
    ASSUME NEW L, NEW Q \in [L -> Seq(Functor)], NEW N \in [L -> Seq(Functor)],
           Base \in L, NEW home \in L, NEW c, NEW h, AllMoved(L, Q, N, c, h),
           NEW d, d # c, NEW k, NEW listed, StageOf(d, k, listed, home, Q)
    PROVE  StageOf(d, k, listed, home, N)
  <1>1. \A l \in L :
          /\ Absent(Q[l], d) => Absent(N[l], d)
          /\ NoTeardown(Q[l], d) => NoTeardown(N[l], d)
          /\ OneTeardown(Q[l], d, "removeConnectionInLoop") =>
               OneTeardown(N[l], d, "removeConnectionInLoop")
          /\ LastTeardown(Q[l], d) => LastTeardown(N[l], d)
    <2> SUFFICES ASSUME NEW l \in L
                 PROVE  /\ Absent(Q[l], d) => Absent(N[l], d)
                        /\ NoTeardown(Q[l], d) => NoTeardown(N[l], d)
                        /\ OneTeardown(Q[l], d, "removeConnectionInLoop") =>
                             OneTeardown(N[l], d, "removeConnectionInLoop")
                        /\ LastTeardown(Q[l], d) => LastTeardown(N[l], d)
      OBVIOUS
    <2>1. Q[l] \in Seq(Functor) /\ Moved(Q[l], N[l], c, h, l)
      BY DEF AllMoved
    <2>2. "removeConnectionInLoop" \in TeardownOps
      BY DEF TeardownOps
    <2> QED
      BY <2>1, <2>2, MovedOthers
  <1>2. DOMAIN Q = L /\ DOMAIN N = L
    OBVIOUS
  <1> QED
    BY <1>1, <1>2 DEF StageOf

\* A functor that is no step of the teardown may be taken from the queue.
LEMMA PopStage ==
    ASSUME NEW L, NEW Q \in [L -> Seq(Functor)], NEW P \in [L -> Seq(Functor)],
           Base \in L, NEW home \in L, NEW c,
           \A l \in L : \/ P[l] = Q[l]
                       \/ /\ Q[l] # <<>> /\ P[l] = Tail(Q[l])
                          /\ Head(Q[l]).op \notin TeardownOps,
           NEW k, NEW listed, StageOf(c, k, listed, home, Q)
    PROVE  StageOf(c, k, listed, home, P)
  <1>1. \A l \in L :
          /\ Absent(Q[l], c) => Absent(P[l], c)
          /\ NoTeardown(Q[l], c) => NoTeardown(P[l], c)
          /\ OneTeardown(Q[l], c, "removeConnectionInLoop") =>
               OneTeardown(P[l], c, "removeConnectionInLoop")
          /\ LastTeardown(Q[l], c) => LastTeardown(P[l], c)
    <2> SUFFICES ASSUME NEW l \in L
                 PROVE  /\ Absent(Q[l], c) => Absent(P[l], c)
                        /\ NoTeardown(Q[l], c) => NoTeardown(P[l], c)
                        /\ OneTeardown(Q[l], c, "removeConnectionInLoop") =>
                             OneTeardown(P[l], c, "removeConnectionInLoop")
                        /\ LastTeardown(Q[l], c) => LastTeardown(P[l], c)
      OBVIOUS
    <2>1. "removeConnectionInLoop" \in TeardownOps
      BY DEF TeardownOps
    <2>2. CASE P[l] = Q[l]
      BY <2>2
    <2>3. CASE /\ Q[l] # <<>> /\ P[l] = Tail(Q[l])
               /\ Head(Q[l]).op \notin TeardownOps
      <3>1. Q[l] \in Seq(Functor)
        OBVIOUS
      <3> QED
        BY <2>1, <2>3, <3>1, PopOthers
    <2> QED
      BY <2>2, <2>3
  <1>2. DOMAIN Q = L /\ DOMAIN P = L
    OBVIOUS
  <1> QED
    BY <1>1, <1>2 DEF StageOf

\* What a member function pushes never establishes a connection.
LEMMA PushBegan ==
    ASSUME NEW q \in Seq(Functor), NEW r \in Seq(Functor), NEW c,
           \A i \in 1 .. Len(r) : r[i].op # "connectEstablished",
           Began(q, c)
    PROVE  Began(q \o r, c)
  <1> DEFINE W == q \o r
  <1>1. PICK p \in Nat, n \in Nat : p = Len(q) /\ n = Len(r)
    OBVIOUS
  <1>2. Len(W) = p + n /\ \A i \in 1 .. p : W[i] = q[i]
    BY <1>1, ConcatAt
  <1>3. \A i \in 1 .. (p + n) : i > p => W[i].op # "connectEstablished"
    <2> SUFFICES ASSUME NEW i \in 1 .. (p + n), i > p
                 PROVE  W[i].op # "connectEstablished"
      OBVIOUS
    <2>1. i - p \in 1 .. n /\ p + (i - p) = i
      OBVIOUS
    <2>2. W[p + (i - p)] = r[i - p]
      BY <1>1, <2>1, ConcatAt
    <2> QED
      BY <1>1, <2>1, <2>2
  <1> HIDE DEF W
  <1>4. Began(W, c)
    BY <1>1, <1>2, <1>3 DEF Began
  <1> QED
    BY <1>4 DEF W

-----------------------------------------------------------------------------
(* Steps of one connection *)

\* What the queues are, as a function.
LEMMA QueueType ==
    ASSUME ServerState
    PROVE  /\ Loops \subseteq AllLoops /\ Base \in Loops
           /\ [l \in Loops |-> Queue(l)] \in [Loops -> Seq(Functor)]
           /\ \A l \in Loops : Queue(l) \in Seq(Functor)
  <1>1. Loops \subseteq AllLoops /\ Base \in Loops
    BY ServerAssumption DEF ServerState, Loops, AllLoops, Base
  <1>2. \A l \in Loops : Queue(l) \in Seq(Functor)
    <2> SUFFICES ASSUME NEW l \in Loops
                 PROVE  Queue(l) \in Seq(Functor)
      OBVIOUS
    <2>1. functors[l] \in Seq(Functor) /\ pending[l] \in Seq(Functor)
      BY <1>1 DEF ServerState
    <2> QED
      BY <2>1, ConcatAt DEF Queue
  <1> QED
    BY <1>1, <1>2

\* A step that touches connection c, its functors and its place in the table
\* keeps what the invariant says of all connections if it keeps it for c.
LEMMA OneConnection ==
    ASSUME ServerState, Connections, Queues, Lives, ~Aborted,
           NEW c \in Conns,
           numThreads_' = numThreads_,
           \A d \in Conns \ {c} :
              /\ conn'[d] = conn[d] /\ loopOf'[d] = loopOf[d]
              /\ (d \in connections_') <=> (d \in connections_),
           NEW N \in [Loops -> Seq(Functor)],
           \A l \in Loops : /\ N[l] = functors'[l] \o pending'[l]
                            /\ Moved(Queue(l), N[l], c, loopOf'[c], l),
           Good(conn'[c]), Settled(conn'[c]), loopOf'[c] \in Loops,
           conn'[c].state = "kConnecting" => loopOf'[c] # Base,
           c \in Created => loopOf'[c] = loopOf[c],
           \A l \in Loops : IF conn'[c].state = "kConnecting"
                            THEN Sole(N[l], c) ELSE Began(N[l], c),
           alive' => alive,
           alive' => (Untouched(conn'[c]) => ~conn'[c].failed),
           alive' /\ ~conn'[c].failed =>
              /\ Life(conn'[c])
              /\ StageOf(c, conn'[c], c \in connections_', loopOf'[c], N)
    PROVE  Connections' /\ Queues' /\ AssertionsHold' /\ Lives'
  <1>1. Created' = Created \cup {c} /\ Loops' = Loops
    <2>1. conn'[c] # None
      BY DEF Good, ConnType, None
    <2> QED
      BY <2>1 DEF Created, Loops
  <1>2. \A d \in Created' \ {c} :
          d \in Created /\ d \in Conns /\ conn'[d] = conn[d] /\ loopOf'[d] = loopOf[d]
    BY <1>1 DEF Created
  <1>3. Connections'
    BY <1>1, <1>2 DEF Connections
  <1>4. AssertionsHold'
    <2>1. \A d \in Created : ~conn[d].failed
      BY DEF Aborted
    <2> QED
      BY <1>2, <2>1 DEF AssertionsHold
  <1>5. \A l \in Loops : Queue(l) \in Seq(Functor) /\ Queue(l)' = N[l]
    BY QueueType DEF Queue
  <1>6. Queues'
    <2>1. ASSUME NEW l \in Loops, NEW i \in 1 .. Len(N[l])
          PROVE  Placed(N[l][i], l)'
      <3>1. CASE N[l][i] \in Fit(c, loopOf'[c], l)
        BY <1>1, <3>1 DEF Fit, Placed
      <3>2. ASSUME NEW j \in 1 .. Len(Queue(l)), N[l][i] = Queue(l)[j]
            PROVE  Placed(N[l][i], l)'
        <4>1. Placed(Queue(l)[j], l)
          BY <3>2 DEF Queues
        <4> QED
          BY <1>1, <3>2, <4>1 DEF Placed, Created
      <3>3. \/ N[l][i] \in Fit(c, loopOf'[c], l)
            \/ \E j \in 1 .. Len(Queue(l)) : N[l][i] = Queue(l)[j]
        <4>1. PICK q, h :
                q \in Seq(Functor) /\ q = Queue(l) /\ h = loopOf'[c]
          BY <1>5
        <4>2. Moved(q, N[l], c, h, l)
          BY <4>1
        <4>3. \/ N[l][i] \in Fit(c, h, l)
              \/ \E j \in 1 .. Len(q) : N[l][i] = q[j]
          BY <4>1, <4>2, MovedPlaces
        <4> QED
          BY <4>1, <4>3
      <3> QED
        BY <3>1, <3>2, <3>3
    <2>2. ASSUME NEW l \in Loops, NEW d \in Created'
          PROVE  IF conn'[d].state = "kConnecting" THEN Sole(N[l], d)
                 ELSE Began(N[l], d)
      <3>1. CASE d = c
        BY <3>1
      <3>2. CASE d # c
        <4>1. d \in Created /\ conn'[d] = conn[d]
          BY <1>2, <2>2, <3>2
        <4>2. IF conn[d].state = "kConnecting" THEN Sole(Queue(l), d)
              ELSE Began(Queue(l), d)
          BY <4>1 DEF Queues
        <4>3. /\ Sole(Queue(l), d) => Sole(N[l], d)
              /\ Began(Queue(l), d) => Began(N[l], d)
          BY <1>5, <3>2, MovedOthers
        <4> QED
          BY <4>1, <4>2, <4>3
      <3> QED
        BY <3>1, <3>2
    <2>3. ASSUME NEW l \in Loops'
          PROVE  (/\ \A i \in 1 .. Len(Queue(l)) : Placed(Queue(l)[i], l)
                  /\ \A d \in Created :
                       IF conn[d].state = "kConnecting" THEN Sole(Queue(l), d)
                       ELSE Began(Queue(l), d))'
      <3>1. l \in Loops /\ Queue(l)' = N[l]
        BY <1>1, <1>5
      <3>2. \A i \in 1 .. Len(N[l]) : Placed(N[l][i], l)'
        BY <2>1, <3>1
      <3>3. (\A i \in 1 .. Len(Queue(l)) : Placed(Queue(l)[i], l))'
        BY <3>1, <3>2
      <3>4. \A d \in Created' :
              IF conn'[d].state = "kConnecting" THEN Sole(N[l], d)
              ELSE Began(N[l], d)
        BY <2>2, <3>1
      <3> QED
        BY <3>1, <3>3, <3>4
    <2> QED
      BY <2>3 DEF Queues
  <1>7. Lives'
    <2> SUFFICES ASSUME alive', ~Aborted', NEW d \in Created'
                 PROVE  Life(conn[d])' /\ Stage(d)'
      BY DEF Lives
    <2>1. [l \in Loops |-> Queue(l)]' = N
      BY <1>1, <1>5
    <2>2. CASE d = c
      <3>1. ~conn'[c].failed
        BY <1>1, <2>2 DEF Aborted
      <3> QED
        BY <1>1, <2>1, <2>2, <3>1 DEF Stage
    <2>3. CASE d # c
      <3>1. d \in Created /\ conn'[d] = conn[d] /\ loopOf'[d] = loopOf[d]
        BY <1>2, <2>3
      <3>2. Life(conn[d]) /\ Stage(d) /\ loopOf[d] \in Loops
        BY <3>1 DEF Lives, Connections
      <3>3. StageOf(d, conn[d], d \in connections_, loopOf[d], N)
        <4>1. PICK Q \in [Loops -> Seq(Functor)] : Q = [l \in Loops |-> Queue(l)]
          BY QueueType
        <4>2. \A l \in Loops : Moved(Q[l], N[l], c, loopOf'[c], l)
          BY <4>1
        <4>3. StageOf(d, conn[d], d \in connections_, loopOf[d], Q)
          BY <3>2, <4>1 DEF Stage
        <4> QED
          <5>1. PICK h, home, k, listed :
                  /\ home \in Loops
                  /\ h = loopOf'[c] /\ home = loopOf[d] /\ k = conn[d]
                  /\ listed = (d \in connections_)
            BY <3>2
          <5>2. /\ \A l \in Loops : Moved(Q[l], N[l], c, h, l)
                /\ StageOf(d, k, listed, home, Q)
            BY <4>2, <4>3, <5>1
          <5>3. PICK L : L = Loops /\ Base \in L
            BY QueueType
          <5>4. /\ Base \in L /\ Q \in [L -> Seq(Functor)] /\ N \in [L -> Seq(Functor)]
                /\ home \in L /\ AllMoved(L, Q, N, c, h)
                /\ StageOf(d, k, listed, home, Q) /\ d # c
            BY <2>3, <5>1, <5>2, <5>3 DEF AllMoved
          <5>5. StageOf(d, k, listed, home, N)
            BY ONLY <5>4, StageOthers
          <5> QED
            BY <5>1, <5>5
      <3>4. (d \in connections_') <=> (d \in connections_)
        BY <2>3, <3>1 DEF Created
      <3>5. StageOf(d, conn'[d], d \in connections_', loopOf'[d], N)
        BY <3>1, <3>3, <3>4 DEF StageOf
      <3> QED
        BY <2>1, <3>1, <3>2, <3>5 DEF Stage
    <2> QED
      BY <2>2, <2>3
  <1> QED
    BY <1>3, <1>4, <1>6, <1>7

\* A sequence of elements of T.
LEMMA SeqInto ==
    ASSUME NEW S, NEW s \in Seq(S), NEW T, \A i \in 1 .. Len(s) : s[i] \in T
    PROVE  s \in Seq(T)
  OBVIOUS

\* Pushing is associative.
LEMMA ConcatAssoc ==
    \A s, t, r \in Seq(Functor) : s \o (t \o r) = (s \o t) \o r
  <1> SUFFICES ASSUME NEW s \in Seq(Functor), NEW t \in Seq(Functor),
                      NEW r \in Seq(Functor)
               PROVE  s \o (t \o r) = (s \o t) \o r
    OBVIOUS
  <1> QED
    BY ConcatAssociative, SMTT(40)

\* What a member function leaves to do is of its connection and fits the loop.
LEMMA PushedFunctors ==
    ASSUME NEW c \in Conns, NEW k \in ConnType, NEW home, NEW l
    PROVE  LET A == Functors(Pushes(k, home, l), c)
           IN  /\ A \in Seq(Functor) /\ A \in Seq(Fit(c, home, l))
               /\ \A i \in 1 .. Len(A) : A[i].op # "connectEstablished"
  <1> DEFINE S == Plain \cup {"connectDestroyed"}
             R == {"removeConnectionInLoop"}
  <1>1. /\ S \subseteq Ops /\ R \subseteq Ops
        /\ "connectEstablished" \notin S /\ "connectEstablished" \notin R
        /\ "removeConnectionInLoop" \notin S
    BY DEF Ops, Plain, TeardownOps
  <1>2. ASSUME NEW T, NEW ops \in Seq(T), T \subseteq Ops,
               "connectEstablished" \notin T, [op : T, c : {c}] \subseteq Fit(c, home, l)
        PROVE  /\ Functors(ops, c) \in Seq(Functor)
               /\ Functors(ops, c) \in Seq(Fit(c, home, l))
               /\ \A i \in 1 .. Len(Functors(ops, c)) :
                    Functors(ops, c)[i].op # "connectEstablished"
    <2>1. ops \in Seq(Ops) /\ \A i \in 1 .. Len(ops) : ops[i] \in T
      BY <1>2
    <2> DEFINE F == Functors(ops, c)
    <2>2. /\ F \in Seq(Functor) /\ Len(F) = Len(ops)
          /\ \A i \in 1 .. Len(ops) : F[i] = [op |-> ops[i], c |-> c]
      BY <2>1, FunctorsFacts
    <2> HIDE DEF F
    <2>3. ASSUME NEW i \in 1 .. Len(F)
          PROVE  F[i] \in Fit(c, home, l) /\ F[i].op # "connectEstablished"
      <3>1. F[i] = [op |-> ops[i], c |-> c] /\ ops[i] \in T
        BY <2>1, <2>2
      <3>2. [op |-> ops[i], c |-> c] \in [op : T, c : {c}]
        BY <3>1
      <3>3. F[i].op = ops[i] /\ ops[i] # "connectEstablished"
        BY <1>2, <3>1
      <3> QED
        BY <1>2, <3>1, <3>2, <3>3
    <2>4. F \in Seq(Fit(c, home, l))
      BY <2>2, <2>3, SeqInto
    <2>5. \A i \in 1 .. Len(F) : F[i].op # "connectEstablished"
      BY <2>3
    <2> QED
      BY <2>2, <2>4, <2>5 DEF F
  <1>3. /\ k.todo \in Seq(S) /\ Append(k.todo, "connectDestroyed") \in Seq(S)
        /\ <<"removeConnectionInLoop">> \in Seq(R) /\ <<>> \in Seq({})
    <2>1. k.todo \in Seq(Plain)
      BY DEF ConnType
    <2>2. k.todo \in Seq(S)
      BY <2>1
    <2>3. Append(k.todo, "connectDestroyed") \in Seq(S)
      BY <2>2
    <2>4. <<"removeConnectionInLoop">> \in Seq(R) /\ <<>> \in Seq({})
      OBVIOUS
    <2> QED
      BY <2>2, <2>3, <2>4
  <1>4. /\ l = home => [op : S, c : {c}] \subseteq Fit(c, home, l)
        /\ l = Base => [op : R, c : {c}] \subseteq Fit(c, home, l)
        /\ [op : {}, c : {c}] \subseteq Fit(c, home, l)
    BY <1>1 DEF Fit, Functor
  <1>5. \/ l = home /\ Pushes(k, home, l) \in Seq(S)
        \/ l = Base /\ Pushes(k, home, l) \in Seq(R)
        \/ Pushes(k, home, l) \in Seq({})
    BY <1>3 DEF Pushes
  <1> HIDE DEF S, R
  <1> QED
    BY <1>1, <1>2, <1>4, <1>5

\* The queue of loop l after a member function has left k: x was taken from
\* the pending functors before, y is pending.
LEMMA PushedQueue ==
    ASSUME NEW c \in Conns, NEW k \in ConnType, NEW home, NEW l,
           NEW x \in Seq(Functor), NEW y \in Seq(Functor)
    PROVE  LET A == Functors(Pushes(k, home, l), c)
               z == y \o A
           IN  /\ x \o y \in Seq(Functor) /\ z \in Seq(Functor)
               /\ x \o z \in Seq(Functor) /\ x \o z = (x \o y) \o A
               /\ Began(x \o y, c) => Began(x \o z, c)
               /\ A \in Seq(Fit(c, home, l))
  <1>1. PICK A : A = Functors(Pushes(k, home, l), c)
    OBVIOUS
  <1>2. /\ A \in Seq(Functor) /\ A \in Seq(Fit(c, home, l))
        /\ \A i \in 1 .. Len(A) : A[i].op # "connectEstablished"
    BY <1>1, PushedFunctors
  <1>3. /\ x \o y \in Seq(Functor) /\ y \o A \in Seq(Functor)
        /\ x \o (y \o A) \in Seq(Functor)
    BY <1>2, ConcatAt
  <1>4. x \o (y \o A) = (x \o y) \o A
    BY <1>2, ConcatAssoc
  <1>5. Began(x \o y, c) => Began((x \o y) \o A, c)
    BY <1>2, <1>3, PushBegan
  <1> QED
    BY <1>1, <1>2, <1>3, <1>4, <1>5

\* Connection c's functor has been taken from the queue of its loop, or none.
Takes(c, taken) ==
    IF taken
    THEN /\ functors[loopOf[c]] # <<>> /\ Head(functors[loopOf[c]]).c = c
         /\ functors' = [functors EXCEPT ![loopOf[c]] = Tail(@)]
    ELSE functors' = functors

Gives(c, k) ==
    pending' = [l \in DOMAIN pending |->
                   pending[l] \o Functors(Pushes(k, loopOf[c], l), c)]

\* The queues after a member function has left k of connection c.
LEMMA SettleQueues ==
    ASSUME ServerState, NEW c \in Conns, loopOf[c] \in Loops, NEW k \in ConnType,
           NEW taken, Takes(c, taken), Gives(c, k)
    PROVE  /\ pending' \in [AllLoops -> Seq(Functor)]
           /\ functors' \in [AllLoops -> Seq(Functor)]
           /\ taken => /\ Queue(loopOf[c]) # <<>>
                       /\ Head(Queue(loopOf[c])) = Head(functors[loopOf[c]])
           /\ \A l \in Loops :
                /\ functors'[l] \o pending[l] \in Seq(Functor)
                /\ functors'[l] \o pending'[l] \in Seq(Functor)
                /\ functors'[l] \o pending'[l] =
                     (functors'[l] \o pending[l]) \o
                        Functors(Pushes(k, loopOf[c], l), c)
                /\ Began(functors'[l] \o pending[l], c) =>
                     Began(functors'[l] \o pending'[l], c)
                /\ Moved(Queue(l), functors'[l] \o pending'[l], c, loopOf[c], l)
                /\ functors'[l] \o pending[l] =
                     IF taken /\ l = loopOf[c] THEN Tail(Queue(l)) ELSE Queue(l)
  <1>1. /\ pending \in [AllLoops -> Seq(Functor)] /\ DOMAIN pending = AllLoops
        /\ functors \in [AllLoops -> Seq(Functor)]
        /\ Loops \subseteq AllLoops /\ Base \in Loops
    BY QueueType DEF ServerState
  <1>2. functors' \in [AllLoops -> Seq(Functor)]
    <2>1. CASE ~taken
      BY <1>1, <2>1 DEF Takes
    <2>2. CASE taken
      <3>1. /\ functors[loopOf[c]] # <<>> /\ functors[loopOf[c]] \in Seq(Functor)
            /\ functors' = [functors EXCEPT ![loopOf[c]] = Tail(@)]
        BY <1>1, <2>2 DEF Takes
      <3>2. Tail(functors[loopOf[c]]) \in Seq(Functor)
        BY <3>1, PopOthers
      <3> QED
        BY <1>1, <3>1, <3>2
    <2> QED
      BY <2>1, <2>2
  <1>3. PICK F, p, n, h :
          /\ F \in [AllLoops -> Seq(Functor)] /\ p \in [AllLoops -> Seq(Functor)]
          /\ F = functors' /\ p = pending /\ n = pending' /\ h = loopOf[c]
    BY <1>1, <1>2
  <1>4. ASSUME NEW l \in AllLoops
        PROVE  /\ n[l] \in Seq(Functor) /\ F[l] \o p[l] \in Seq(Functor)
               /\ F[l] \o n[l] = (F[l] \o p[l]) \o Functors(Pushes(k, h, l), c)
               /\ F[l] \o n[l] \in Seq(Functor)
               /\ Began(F[l] \o p[l], c) => Began(F[l] \o n[l], c)
               /\ Functors(Pushes(k, h, l), c) \in Seq(Fit(c, h, l))
    <2>1. PICK x \in Seq(Functor), y \in Seq(Functor) : x = F[l] /\ y = p[l]
      BY <1>3
    <2>2. PICK A : A = Functors(Pushes(k, h, l), c)
      OBVIOUS
    <2>3. n[l] = y \o A
      BY <1>1, <1>3, <2>1, <2>2 DEF Gives
    <2>4. /\ x \o y \in Seq(Functor) /\ y \o A \in Seq(Functor)
          /\ x \o (y \o A) \in Seq(Functor) /\ x \o (y \o A) = (x \o y) \o A
          /\ Began(x \o y, c) => Began(x \o (y \o A), c)
          /\ A \in Seq(Fit(c, h, l))
      BY <2>2, PushedQueue
    <2> QED
      BY <2>1, <2>2, <2>3, <2>4
  <1>5. n \in [AllLoops -> Seq(Functor)]
    <2>1. n = [l \in AllLoops |-> n[l]]
      BY <1>1, <1>3 DEF Gives
    <2> QED
      BY <1>4, <2>1
  <1>6. ASSUME NEW l \in Loops
        PROVE  /\ F[l] \o p[l] = IF taken /\ l = h THEN Tail(Queue(l)) ELSE Queue(l)
               /\ taken /\ l = h =>
                    Queue(l) # <<>> /\ Head(Queue(l)) = Head(functors[h])
    <2>1. PICK f \in Seq(Functor), y \in Seq(Functor) : f = functors[l] /\ y = pending[l]
      BY <1>1
    <2>2. CASE taken /\ l = h
      <3>1. f # <<>> /\ F[l] = Tail(f) /\ p[l] = y
        BY <1>1, <1>3, <2>1, <2>2 DEF Takes
      <3>2. f \o y # <<>> /\ Head(f \o y) = Head(f) /\ Tail(f \o y) = Tail(f) \o y
        BY <3>1, ConcatMore
      <3> QED
        BY <2>1, <2>2, <3>1, <3>2 DEF Queue
    <2>3. CASE ~(taken /\ l = h)
      <3>1. F[l] = functors[l]
        BY <1>1, <1>3, <2>3 DEF Takes
      <3> QED
        BY <1>3, <2>3, <3>1 DEF Queue
    <2> QED
      BY <2>2, <2>3
  <1>7. ASSUME NEW l \in Loops
        PROVE  Moved(Queue(l), F[l] \o n[l], c, h, l)
    <2>1. PICK r \in Seq(Fit(c, h, l)) : F[l] \o n[l] = (F[l] \o p[l]) \o r
      BY <1>1, <1>4
    <2>2. PICK q : q = F[l] \o p[l]
      OBVIOUS
    <2>3. q \in Seq(Functor)
      BY <1>1, <1>4, <2>2
    <2>4. q = Queue(l) \/ (Queue(l) # <<>> /\ Head(Queue(l)).c = c /\ q = Tail(Queue(l)))
      <3>1. taken => Head(functors[h]).c = c
        BY <1>3 DEF Takes
      <3> QED
        BY <1>6, <2>2, <3>1
    <2> QED
      BY <2>1, <2>2, <2>3, <2>4 DEF Moved
  <1> QED
    BY <1>1, <1>3, <1>4, <1>5, <1>6, <1>7

\* The functors of c are in its loop, but for removeConnectionInLoop.
Homely(q, c, home, l) ==
    \A i \in 1 .. Len(q) : q[i].c = c =>
        IF q[i].op = "removeConnectionInLoop" THEN l = Base ELSE l = home

AllHomely(L, Q, c, home) == \A l \in L : Homely(Q[l], c, home, l)

\* A functor of c has been taken from its loop's queue.
Popped(L, Q, P, c, home) ==
    /\ Q[home] # <<>> /\ Head(Q[home]).c = c
    /\ \A l \in L : P[l] = IF l = home THEN Tail(Q[l]) ELSE Q[l]

\* connectEstablished was the only functor of c.
LEMMA EstablishedQueues ==
    ASSUME NEW L, NEW home \in L, NEW Q \in [L -> Seq(Functor)], NEW P, NEW c,
           AllHomely(L, Q, c, home), Popped(L, Q, P, c, home),
           \A l \in L : Sole(Q[l], c)
    PROVE  \A l \in L : Absent(P[l], c)
  <1> USE DEF AllHomely, Popped
  <1> SUFFICES ASSUME NEW l \in L
               PROVE  Absent(P[l], c)
    OBVIOUS
  <1>1. CASE l = home
    <2>1. PICK q \in Seq(Functor) : q = Q[home]
      OBVIOUS
    <2>2. Absent(Tail(q), c)
      BY <2>1, PopTeardown
    <2> QED
      BY <1>1, <2>1, <2>2
  <1>2. CASE l # home
    <2>1. PICK q \in Seq(Functor) : q = Q[l]
      OBVIOUS
    <2>2. Sole(q, c) /\ Homely(q, c, home, l) /\ P[l] = q
      BY <1>2, <2>1
    <2>3. Absent(q, c)
      BY <1>2, <2>2 DEF Sole, Homely, Absent
    <2> QED
      BY <2>2, <2>3
  <1> QED
    BY <1>1, <1>2

\* connectDestroyed was the last functor of c, which has left the table.
LEMMA DestroyedQueues ==
    ASSUME NEW L, Base \in L, NEW home \in L, NEW Q \in [L -> Seq(Functor)], NEW P,
           NEW c, NEW j, NEW listed, StageOf(c, j, listed, home, Q),
           AllHomely(L, Q, c, home), Popped(L, Q, P, c, home),
           Head(Q[home]).op = "connectDestroyed"
    PROVE  ~listed /\ \A l \in L : Absent(P[l], c)
  <1> USE DEF AllHomely, Popped
  <1>1. PICK q \in Seq(Functor) : q = Q[home]
    OBVIOUS
  <1>2. q # <<>> /\ Head(q).c = c /\ Head(q).op = "connectDestroyed"
    BY <1>1
  <1>3. q[1] = Head(q) /\ 1 \in 1 .. Len(q) /\ Head(q).op \in TeardownOps
    BY <1>2 DEF TeardownOps
  <1>4. ~NoTeardown(q, c) /\ ~Absent(q, c)
    BY <1>2, <1>3 DEF NoTeardown, Absent
  <1>5. /\ ~listed /\ LastTeardown(q, c)
        /\ home # Base => NoTeardown(Q[Base], c)
    <2>1. DOMAIN Q = L
      OBVIOUS
    <2> QED
      BY <1>1, <1>4, <2>1 DEF StageOf
  <1>6. Absent(Tail(q), c)
    BY <1>2, <1>3, <1>5, PopTeardown
  <1>7. ASSUME NEW l \in L, l # home
        PROVE  Absent(Q[l], c)
    <2>1. Homely(Q[l], c, home, l)
      OBVIOUS
    <2>2. l = Base => NoTeardown(Q[l], c)
      BY <1>5, <1>7
    <2> QED
      BY <1>7, <2>1, <2>2 DEF Homely, NoTeardown, Absent, TeardownOps
  <1> QED
    BY <1>1, <1>5, <1>6, <1>7

\* Queues, for one connection.
LEMMA QueuesOf ==
    ASSUME ServerState, Queues, NEW c \in Created, NEW l \in Loops
    PROVE  /\ Homely(Queue(l), c, loopOf[c], l)
           /\ IF conn[c].state = "kConnecting" THEN Sole(Queue(l), c)
              ELSE Began(Queue(l), c)
  BY DEF Queues, Placed, Homely

\* What a member function may leave of a connection while the server lives: it
\* keeps or closes it, fails a test after the user had stopped reading or had
\* started it late, has destroyed it, or has established it.
Outcome(j, k, taken, op) ==
    \/ /\ j.index # "kNew" /\ j.state # "kConnecting"
       /\ taken => op \notin TeardownOps
       /\ Keeps(j, k) \/ (Open(j) /\ Closes(j, k))
    \/ k.failed /\ ~Untouched(k)
    \/ /\ taken /\ op = "connectDestroyed" /\ j.state = "kDisconnected"
       /\ Life(k) /\ k.state = "kDisconnected" /\ k.index = "kNew" /\ ~k.failed
       /\ k.todo = <<>> /\ ~k.closing
    \/ j.state = "kConnecting" /\ Open(k) /\ ~k.closing /\ Life(k) /\ ~k.failed

\* The queues Q of the loops while c, which was j, becomes k: P after op of c
\* has been taken, if it was, and N when functors have been pushed.
Turn(L, Q, P, N, c, j, k, home, taken, op) ==
    /\ taken => Q[home] # <<>> /\ Head(Q[home]).c = c /\ Head(Q[home]).op = op
    /\ j.state = "kConnecting" => taken
    /\ \A l \in L :
         /\ Homely(Q[l], c, home, l)
         /\ IF j.state = "kConnecting" THEN Sole(Q[l], c) ELSE Began(Q[l], c)
         /\ P[l] = IF taken /\ l = home THEN Tail(Q[l]) ELSE Q[l]
         /\ N[l] = P[l] \o Functors(Pushes(k, home, l), c)

\* The stage that such an outcome leads to.
LEMMA OutcomeStage ==
    ASSUME NEW c \in Conns, NEW L, Base \in L, NEW home \in L, NEW listed,
           NEW Q \in [L -> Seq(Functor)], NEW P \in [L -> Seq(Functor)],
           NEW N \in [L -> Seq(Functor)], NEW j, NEW k, k \in ConnType,
           NEW taken, NEW op, Settled(j), Life(j), ~j.failed,
           StageOf(c, j, listed, home, Q),
           Turn(L, Q, P, N, c, j, k, home, taken, op),
           Outcome(j, k, taken, op), ~k.failed
    PROVE  /\ Life(k) /\ (k.closing => listed)
           /\ StageOf(c, k, listed /\ ~(k.closing /\ home = Base), home, N)
  <1> USE DEF Turn
  <1>1. CASE /\ j.index # "kNew" /\ j.state # "kConnecting"
             /\ taken => op \notin TeardownOps
             /\ Keeps(j, k) \/ (Open(j) /\ Closes(j, k))
    <2>1. StageOf(c, j, listed, home, P)
      <3>1. \A l \in L : \/ P[l] = Q[l]
                        \/ /\ Q[l] # <<>> /\ P[l] = Tail(Q[l])
                           /\ Head(Q[l]).op \notin TeardownOps
        BY <1>1
      <3> QED
        BY <3>1, PopStage
    <2>2. \A l \in L : Began(P[l], c)
      <3> SUFFICES ASSUME NEW l \in L
                   PROVE  Began(P[l], c)
        OBVIOUS
      <3>1. PICK q \in Seq(Functor) : q = Q[l] /\ Began(q, c)
        BY <1>1
      <3>2. q # <<>> => Began(Tail(q), c)
        BY <3>1, PopOthers
      <3> QED
        BY <3>1, <3>2
    <2>3. StageOf(c, k, listed /\ ~(k.closing /\ home = Base), home, N)
      <3>1. AllBegan(L, P, c) /\ AllPushed(L, P, N, c, k, home)
        BY <2>2 DEF AllBegan, AllPushed
      <3> QED
        BY <1>1, <2>1, <3>1, SettleStage
    <2>4. Life(k)
      BY <1>1, KeepsFacts DEF Closes
    <2>5. k.closing => listed
      <3>1. Open(j) => listed
        BY DEF StageOf, Open
      <3>2. Keeps(j, k) => ~k.closing
        BY DEF Keeps, Settled
      <3> QED
        BY <1>1, <3>1, <3>2
    <2> QED
      BY <2>3, <2>4, <2>5
  <1>2. CASE /\ taken /\ op = "connectDestroyed" /\ j.state = "kDisconnected"
             /\ Life(k) /\ k.state = "kDisconnected" /\ k.index = "kNew"
             /\ k.todo = <<>> /\ ~k.closing
    <2>1. ~listed /\ \A l \in L : Absent(P[l], c)
      <3>1. AllHomely(L, Q, c, home) /\ Popped(L, Q, P, c, home)
        BY <1>2 DEF AllHomely, Popped
      <3>2. Head(Q[home]).op = "connectDestroyed"
        BY <1>2
      <3> QED
        BY <3>1, <3>2, DestroyedQueues
    <2>2. \A l \in L : N[l] = P[l]
      <3> SUFFICES ASSUME NEW l \in L
                   PROVE  N[l] = P[l]
        OBVIOUS
      <3>1. Pushes(k, home, l) = <<>> /\ Functors(<<>>, c) = <<>>
        BY <1>2 DEF Pushes, Functors
      <3>2. PICK p \in Seq(Functor) : p = P[l] /\ N[l] = p \o <<>>
        BY <3>1
      <3> QED
        BY <3>2, ConcatMore
    <2>3. DOMAIN N = L
      OBVIOUS
    <2> QED
      BY <1>2, <2>1, <2>2, <2>3 DEF StageOf
  <1>3. CASE j.state = "kConnecting" /\ Open(k) /\ ~k.closing /\ Life(k)
    <2>1. \A l \in L : Absent(P[l], c)
      <3>1. AllHomely(L, Q, c, home) /\ Popped(L, Q, P, c, home)
        BY <1>3 DEF AllHomely, Popped
      <3>2. \A l \in L : Sole(Q[l], c)
        BY <1>3
      <3> QED
        BY <3>1, <3>2, EstablishedQueues
    <2>2. listed
      BY <1>3 DEF StageOf
    <2>3. ASSUME NEW l \in L
          PROVE  NoTeardown(N[l], c)
      <3>1. PICK p, A :
              /\ p \in Seq(Functor) /\ p = P[l]
              /\ A = Functors(Pushes(k, home, l), c)
        OBVIOUS
      <3>2. N[l] = p \o A /\ NoTeardown(p, c)
        BY <2>1, <3>1 DEF Absent, NoTeardown
      <3>3. A \in Seq(Functor)
        BY <3>1, PushedFunctors
      <3>4. Pushes(k, home, l) \in Seq(Plain)
        BY <1>3 DEF Pushes, ConnType
      <3>5. \A i \in 1 .. Len(A) : A[i].op \in Plain
        <4>1. PICK ops \in Seq(Plain) : ops = Pushes(k, home, l)
          BY <3>4
        <4>2. ops \in Seq(Ops) /\ \A i \in 1 .. Len(ops) : ops[i] \in Plain
          <5>1. Plain \subseteq Ops
            BY DEF Ops
          <5> QED
            BY <5>1
        <4>3. /\ Len(A) = Len(ops)
              /\ \A i \in 1 .. Len(ops) : A[i] = [op |-> ops[i], c |-> c]
          <5>1. A = Functors(ops, c)
            BY <3>1, <4>1
          <5> QED
            BY <4>2, <5>1, FunctorsFacts, SMTT(40)
        <4>4. ASSUME NEW i \in 1 .. Len(A)
              PROVE  A[i].op \in Plain
          <5>1. A[i] = [op |-> ops[i], c |-> c] /\ ops[i] \in Plain
            BY <4>2, <4>3
          <5> QED
            BY <5>1
        <4> QED
          BY <4>4
      <3> QED
        BY <3>1, <3>2, <3>3, <3>5, PushPlain
    <2>4. DOMAIN N = L /\ k.state # "kDisconnected"
      BY <1>3 DEF Open
    <2> QED
      BY <1>3, <2>2, <2>3, <2>4 DEF StageOf
  <1> QED
    BY <1>1, <1>2, <1>3 DEF Outcome

\* Settle, but for the timer.
Settles(c, k) ==
    /\ conn' = [conn EXCEPT ![c] =
                   Done(Check(k, /\ k.closing /\ loopOf[c] = Base => c \in connections_
                                 /\ k.closing => alive))]
    /\ connections_' = IF k.closing /\ loopOf[c] = Base
                       THEN connections_ \ {c} ELSE connections_
    /\ Gives(c, k)
    /\ numThreads_' = numThreads_ /\ loopOf' = loopOf /\ alive' = alive

\* Settle keeps the invariant for all connections.
LEMMA SettleStep ==
    ASSUME ServerInv, ~Aborted, NEW c \in Created, NEW k, Good(k),
           k.state # "kConnecting", NEW taken, Takes(c, taken), Settles(c, k),
           conn[c].state = "kConnecting" => taken,
           alive => Outcome(conn[c], k, taken, Head(functors[loopOf[c]]).op)
    PROVE  /\ Connections' /\ Queues' /\ AssertionsHold' /\ Lives'
           /\ conn' \in [Conns -> ConnType \cup {None}] /\ Created' = Created
           /\ connections_' \subseteq Created'
           /\ pending' \in [AllLoops -> Seq(Functor)]
           /\ functors' \in [AllLoops -> Seq(Functor)]
           /\ \A d \in Conns \ {c} : conn'[d] = conn[d]
           /\ conn'[c].state = k.state /\ conn'[c].index = k.index
           /\ conn'[c].reading = k.reading /\ conn'[c].restarted = k.restarted
  <1> PICK b \in BOOLEAN : b <=> /\ k.closing /\ loopOf[c] = Base => c \in connections_
                                 /\ k.closing => alive
    OBVIOUS
  <1>a. /\ conn' = [conn EXCEPT ![c] = Done(Check(k, b))]
        /\ connections_' = IF k.closing /\ loopOf[c] = Base
                           THEN connections_ \ {c} ELSE connections_
        /\ numThreads_' = numThreads_ /\ loopOf' = loopOf /\ alive' = alive
    BY DEF Settles
  <1>1. /\ ServerState /\ Connections /\ Queues /\ Lives
        /\ c \in Conns /\ k \in ConnType /\ loopOf[c] \in Loops
        /\ Good(conn[c]) /\ Settled(conn[c]) /\ ~conn[c].failed
    BY DEF ServerInv, Connections, Good, Created, Aborted
  <1>2. /\ conn \in [Conns -> ConnType \cup {None}] /\ loopOf \in [Conns -> AllLoops]
        /\ connections_ \subseteq Created
    BY <1>1 DEF ServerState
  <1>3. PICK r : r = Done(Check(k, b))
    OBVIOUS
  <1>4. /\ Good(r) /\ Settled(r) /\ r \in ConnType
        /\ r.state = k.state /\ r.index = k.index /\ r.reading = k.reading
        /\ r.restarted = k.restarted /\ (Untouched(r) => Untouched(k))
        /\ (r.failed <=> (k.failed \/ ~b)) /\ (Life(k) => Life(r))
    BY <1>3, DoneFacts DEF Good, Untouched
  <1>5. conn'[c] = r /\ \A d \in Conns \ {c} : conn'[d] = conn[d]
    BY <1>a, <1>1, <1>2, <1>3
  <1>6. conn' \in [Conns -> ConnType \cup {None}] /\ Created' = Created
    <2>1. r # None
      BY <1>4 DEF ConnType, None
    <2>2. conn' \in [Conns -> ConnType \cup {None}]
      BY <1>a, <1>1, <1>2, <1>3, <1>4
    <2> QED
      BY <1>5, <2>1, <2>2 DEF Created
  <1>7. /\ pending' \in [AllLoops -> Seq(Functor)]
        /\ functors' \in [AllLoops -> Seq(Functor)]
        /\ taken => /\ Queue(loopOf[c]) # <<>>
                    /\ Head(Queue(loopOf[c])) = Head(functors[loopOf[c]])
        /\ \A l \in Loops :
             /\ functors'[l] \o pending[l] \in Seq(Functor)
             /\ functors'[l] \o pending'[l] \in Seq(Functor)
             /\ functors'[l] \o pending'[l] =
                  (functors'[l] \o pending[l]) \o
                     Functors(Pushes(k, loopOf[c], l), c)
             /\ Began(functors'[l] \o pending[l], c) =>
                  Began(functors'[l] \o pending'[l], c)
             /\ Moved(Queue(l), functors'[l] \o pending'[l], c, loopOf[c], l)
             /\ functors'[l] \o pending[l] =
                  IF taken /\ l = loopOf[c] THEN Tail(Queue(l)) ELSE Queue(l)
    BY <1>1, SettleQueues DEF Settles
  <1>8. PICK L : L = Loops /\ Base \in L
    BY <1>1, QueueType
  <1>9. PICK Q \in [L -> Seq(Functor)], P \in [L -> Seq(Functor)], N \in [L -> Seq(Functor)] :
          /\ Q = [l \in Loops |-> Queue(l)]
          /\ P = [l \in L |-> functors'[l] \o pending[l]]
          /\ N = [l \in L |-> functors'[l] \o pending'[l]]
    BY <1>1, <1>7, <1>8, QueueType
  <1>10. PICK home, j : home \in L /\ home = loopOf[c] /\ j = conn[c]
    BY <1>1, <1>8
  <1>11. PICK op : op = Head(functors[loopOf[c]]).op
    OBVIOUS
  <1>12. taken => Q[home] # <<>> /\ Head(Q[home]).c = c /\ Head(Q[home]).op = op
    BY <1>7, <1>8, <1>9, <1>10, <1>11 DEF Takes
  <1>13. \A l \in L : /\ Homely(Q[l], c, home, l)
                      /\ IF j.state = "kConnecting" THEN Sole(Q[l], c)
                         ELSE Began(Q[l], c)
                      /\ P[l] = IF taken /\ l = home THEN Tail(Q[l]) ELSE Q[l]
                      /\ N[l] = P[l] \o Functors(Pushes(k, home, l), c)
                      /\ Began(P[l], c) => Began(N[l], c)
    <2> SUFFICES ASSUME NEW l \in L
                 PROVE  /\ Homely(Q[l], c, home, l)
                        /\ IF j.state = "kConnecting" THEN Sole(Q[l], c)
                           ELSE Began(Q[l], c)
                        /\ P[l] = IF taken /\ l = home THEN Tail(Q[l]) ELSE Q[l]
                        /\ N[l] = P[l] \o Functors(Pushes(k, home, l), c)
                        /\ Began(P[l], c) => Began(N[l], c)
      OBVIOUS
    <2>1. /\ l \in Loops /\ Q[l] = Queue(l)
          /\ P[l] = functors'[l] \o pending[l] /\ N[l] = functors'[l] \o pending'[l]
      BY <1>8, <1>9
    <2>2. /\ Homely(Queue(l), c, loopOf[c], l)
          /\ IF conn[c].state = "kConnecting" THEN Sole(Queue(l), c)
             ELSE Began(Queue(l), c)
      BY <1>1, <2>1, QueuesOf
    <2> QED
      BY <1>7, <1>10, <2>1, <2>2
  <1>14. \A l \in L : Began(N[l], c)
    <2>1. CASE j.state = "kConnecting"
      <3>1. AllHomely(L, Q, c, home) /\ Popped(L, Q, P, c, home)
        BY <1>10, <1>12, <1>13, <2>1 DEF AllHomely, Popped
      <3>2. \A l \in L : Sole(Q[l], c)
        BY <1>13, <2>1
      <3>3. \A l \in L : Absent(P[l], c)
        BY <1>10, <3>1, <3>2, EstablishedQueues
      <3> QED
        BY <1>13, <3>3 DEF Absent, Began
    <2>2. CASE j.state # "kConnecting"
      <3> SUFFICES ASSUME NEW l \in L
                   PROVE  Began(P[l], c)
        BY <1>13
      <3>1. PICK q \in Seq(Functor) : q = Q[l]
        OBVIOUS
      <3>2. Began(q, c)
        BY <1>13, <2>2, <3>1
      <3>3. q # <<>> => Began(Tail(q), c)
        BY <3>2, PopOthers
      <3> QED
        BY <1>12, <1>13, <3>1, <3>2, <3>3
    <2> QED
      BY <2>1, <2>2
  <1>15. PICK listed : listed = (c \in connections_)
    OBVIOUS
  <1>16. ASSUME alive
         PROVE  /\ Untouched(r) => ~r.failed
                /\ ~r.failed => /\ Life(r)
                                /\ StageOf(c, r, c \in connections_', home, N)
    <2>1. Life(j) /\ StageOf(c, j, listed, home, Q) /\ Settled(j) /\ ~j.failed
      BY <1>1, <1>9, <1>10, <1>15, <1>16 DEF Lives, Stage
    <2>2. Outcome(j, k, taken, op)
      BY <1>10, <1>11, <1>16
    <2>3. ASSUME ~k.failed
          PROVE  /\ Life(k) /\ (k.closing => listed)
                 /\ StageOf(c, k, listed /\ ~(k.closing /\ home = Base), home, N)
      <3>1. Turn(L, Q, P, N, c, j, k, home, taken, op)
        BY <1>10, <1>12, <1>13 DEF Turn
      <3>2. /\ c \in Conns /\ Base \in L /\ home \in L /\ k \in ConnType
            /\ Q \in [L -> Seq(Functor)] /\ P \in [L -> Seq(Functor)]
            /\ N \in [L -> Seq(Functor)]
        BY <1>1, <1>8, <1>10
      <3> QED
        BY ONLY <2>1, <2>2, <2>3, <3>1, <3>2, OutcomeStage
    <2>4. CASE ~k.failed
      <3>1. b
        BY <1>15, <1>16, <2>3, <2>4
      <3>2. ~r.failed
        BY <1>4, <2>4, <3>1
      <3>3. (c \in connections_') <=> (listed /\ ~(k.closing /\ home = Base))
        BY <1>a, <1>10, <1>15
      <3>4. StageOf(c, r, c \in connections_', home, N)
        BY <1>4, <2>3, <2>4, <3>3 DEF StageOf
      <3> QED
        BY <1>4, <2>3, <2>4, <3>2, <3>4
    <2>5. CASE k.failed
      <3>1. ~Untouched(k)
        BY <1>1, <1>10, <2>1, <2>2, <2>5 DEF Outcome, Keeps, Closes
      <3> QED
        BY <1>4, <2>5, <3>1
    <2> QED
      BY <2>4, <2>5
  <1>17. Connections' /\ Queues' /\ AssertionsHold' /\ Lives'
    <2>1. \A d \in Conns \ {c} :
              /\ conn'[d] = conn[d] /\ loopOf'[d] = loopOf[d]
              /\ (d \in connections_') <=> (d \in connections_)
      BY <1>a, <1>5
    <2>2. N \in [Loops -> Seq(Functor)]
      BY <1>8
    <2>3. \A l \in Loops : /\ N[l] = functors'[l] \o pending'[l]
                           /\ Moved(Queue(l), N[l], c, loopOf'[c], l)
      BY <1>a, <1>7, <1>8, <1>9
    <2>4. /\ Good(conn'[c]) /\ Settled(conn'[c]) /\ loopOf'[c] \in Loops
          /\ conn'[c].state = "kConnecting" => loopOf'[c] # Base
      BY <1>a, <1>1, <1>4, <1>5
    <2>5. \A l \in Loops : IF conn'[c].state = "kConnecting"
                           THEN Sole(N[l], c) ELSE Began(N[l], c)
      BY <1>4, <1>5, <1>8, <1>14
    <2>6. /\ alive' => (Untouched(conn'[c]) => ~conn'[c].failed)
          /\ alive' /\ ~conn'[c].failed =>
               /\ Life(conn'[c])
               /\ StageOf(c, conn'[c], c \in connections_', loopOf'[c], N)
      BY <1>a, <1>5, <1>10, <1>16
    <2> QED
      BY <1>a, <1>1, <2>1, <2>2, <2>3, <2>4, <2>5, <2>6, OneConnection
  <1> QED
    BY <1>a, <1>2, <1>4, <1>5, <1>6, <1>7, <1>17

-----------------------------------------------------------------------------
(* The actions *)

\* A step that leaves connections, table and queues as they were.
LEMMA QuietStep ==
    ASSUME ServerInv, numThreads_' = numThreads_, conn' = conn, loopOf' = loopOf,
           connections_' = connections_, alive' = alive,
           \A l \in Loops : Queue(l)' = Queue(l)
    PROVE  /\ Connections' /\ Queues' /\ AssertionsHold' /\ Lives'
           /\ Created' = Created /\ Loops' = Loops /\ (Aborted' <=> Aborted)
  <1>1. Connections /\ Queues /\ AssertionsHold /\ Lives
    BY DEF ServerInv
  <1>2. Created' = Created /\ Loops' = Loops
    BY DEF Created, Loops
  <1>3. Aborted' <=> Aborted
    BY <1>2 DEF Aborted
  <1>4. Connections' /\ AssertionsHold'
    BY <1>1, <1>2 DEF Connections, AssertionsHold
  <1>5. Queues'
    <2>1. ASSUME NEW l \in Loops', NEW i \in 1 .. Len(Queue(l)')
          PROVE  Placed(Queue(l)[i], l)'
      <3>1. Placed(Queue(l)[i], l)
        BY <1>1, <1>2 DEF Queues
      <3>2. Queue(l)' = Queue(l)
        BY <1>2
      <3> QED
        BY <1>2, <3>1, <3>2 DEF Placed
    <2>2. ASSUME NEW l \in Loops', NEW c \in Created'
          PROVE  IF conn'[c].state = "kConnecting" THEN Sole(Queue(l)', c)
                 ELSE Began(Queue(l)', c)
      BY <1>1, <1>2 DEF Queues
    <2> QED
      BY <2>1, <2>2 DEF Queues
  <1>6. Lives'
    <2>1. [l \in Loops |-> Queue(l)]' = [l \in Loops |-> Queue(l)]
      BY <1>2
    <2>2. ASSUME NEW c \in Created'
          PROVE  Stage(c)' <=> Stage(c)
      BY <2>1 DEF Stage
    <2> QED
      BY <1>1, <1>2, <1>3, <2>2 DEF Lives
  <1> QED
    BY <1>2, <1>3, <1>4, <1>5, <1>6

\* A step that leaves the batches as they were.
LEMMA SameBatches ==
    ASSUME ServerInv, numThreads_' = numThreads_, conn' = conn, loopOf' = loopOf,
           alive' = alive, phase' = phase, active' = active, functors' = functors
    PROVE  Batches' /\ EventsFit'
  <1>1. Created' = Created /\ Loops' = Loops
    BY DEF Created, Loops
  <1>2. Aborted' <=> Aborted
    BY <1>1 DEF Aborted
  <1> QED
    BY <1>1, <1>2 DEF ServerInv, Batches, EventsFit

\* TcpServer::start
LEMMA StartStep ==
    ASSUME ServerInv, start
    PROVE  ServerInv'
  <1>1. /\ numThreads_' = numThreads_ /\ next_' = next_ /\ conn' = conn
        /\ loopOf' = loopOf /\ connections_' = connections_ /\ backlog' = backlog
        /\ timers' = timers /\ phase' = phase /\ active' = active
        /\ pending' = pending /\ functors' = functors /\ alive' = alive
        /\ calls' = calls
    BY DEF start
  <1>2. started_' \in BOOLEAN
    BY DEF start
  <1>3. \A l \in Loops : Queue(l)' = Queue(l)
    BY <1>1 DEF Queue
  <1>4. /\ Connections' /\ Queues' /\ AssertionsHold' /\ Lives'
        /\ Created' = Created
    BY <1>1, <1>3, QuietStep
  <1>5. ServerState'
    BY <1>1, <1>2, <1>4 DEF ServerInv, ServerState
  <1>6. Batches' /\ EventsFit'
    BY <1>1, SameBatches
  <1> QED
    BY <1>4, <1>5, <1>6 DEF ServerInv

\* A client connects.
LEMMA ClientStep ==
    ASSUME ServerInv, NEW c \in Conns, clientConnects(c)
    PROVE  ServerInv'
  <1>1. /\ numThreads_' = numThreads_ /\ next_' = next_ /\ conn' = conn
        /\ loopOf' = loopOf /\ connections_' = connections_
        /\ timers' = timers /\ phase' = phase /\ active' = active
        /\ pending' = pending /\ functors' = functors /\ alive' = alive
        /\ calls' = calls /\ started_' = started_
    BY DEF clientConnects
  <1>2. backlog' = backlog \cup {c} /\ c \notin Created
    BY DEF clientConnects, Created
  <1>3. \A l \in Loops : Queue(l)' = Queue(l)
    BY <1>1 DEF Queue
  <1>4. /\ Connections' /\ Queues' /\ AssertionsHold' /\ Lives'
        /\ Created' = Created
    BY <1>1, <1>3, QuietStep
  <1>5. ServerState'
    BY <1>1, <1>2, <1>4 DEF ServerInv, ServerState
  <1>6. Batches' /\ EventsFit'
    BY <1>1, SameBatches
  <1> QED
    BY <1>4, <1>5, <1>6 DEF ServerInv

\* The EMFILE branch
LEMMA NoFdStep ==
    ASSUME ServerInv, NEW c \in Conns, acceptNoFd(c)
    PROVE  ServerInv'
  <1>1. /\ numThreads_' = numThreads_ /\ next_' = next_ /\ conn' = conn
        /\ loopOf' = loopOf /\ connections_' = connections_
        /\ timers' = timers /\ phase' = phase
        /\ pending' = pending /\ functors' = functors /\ alive' = alive
        /\ calls' = calls /\ started_' = started_
    BY DEF acceptNoFd
  <1>2. /\ backlog' \subseteq backlog
        /\ active' = [active EXCEPT ![Base] = @ \ {Acceptor}]
    BY DEF acceptNoFd
  <1>3. \A l \in Loops : Queue(l)' = Queue(l)
    BY <1>1 DEF Queue
  <1>4. /\ Connections' /\ Queues' /\ AssertionsHold' /\ Lives'
        /\ Created' = Created /\ Loops' = Loops /\ (Aborted' <=> Aborted)
    BY <1>1, <1>3, QuietStep
  <1>5. /\ active \in [AllLoops -> SUBSET (Event \cup {Acceptor})]
        /\ Loops \subseteq AllLoops
    BY QueueType DEF ServerInv, ServerState
  <1>6. /\ active' \in [AllLoops -> SUBSET (Event \cup {Acceptor})]
        /\ \A l \in AllLoops : active'[l] \subseteq active[l]
    BY <1>2, <1>5
  <1>7. ServerState'
    BY <1>1, <1>2, <1>4, <1>6 DEF ServerInv, ServerState
  <1>8. Batches' /\ EventsFit'
    BY <1>1, <1>4, <1>5, <1>6 DEF ServerInv, Batches, EventsFit
  <1> QED
    BY <1>4, <1>7, <1>8 DEF ServerInv

\* The end of a round of the loop
LEMMA FunctorsDoneStep ==
    ASSUME ServerInv, NEW l \in Loops, functorsDone(l)
    PROVE  ServerInv'
  <1>1. /\ numThreads_' = numThreads_ /\ next_' = next_ /\ conn' = conn
        /\ loopOf' = loopOf /\ connections_' = connections_ /\ backlog' = backlog
        /\ timers' = timers /\ active' = active
        /\ pending' = pending /\ functors' = functors /\ alive' = alive
        /\ calls' = calls /\ started_' = started_
    BY DEF functorsDone
  <1>2. /\ phase[l] = "functors" /\ functors[l] = <<>>
        /\ phase' = [phase EXCEPT ![l] = "poll"]
    BY DEF functorsDone
  <1>3. \A m \in Loops : Queue(m)' = Queue(m)
    BY <1>1 DEF Queue
  <1>4. /\ Connections' /\ Queues' /\ AssertionsHold' /\ Lives'
        /\ Created' = Created /\ Loops' = Loops /\ (Aborted' <=> Aborted)
    BY <1>1, <1>3, QuietStep
  <1>5. /\ phase \in [AllLoops -> {"poll", "events", "functors"}]
        /\ Loops \subseteq AllLoops
    BY QueueType DEF ServerInv, ServerState
  <1>6. /\ phase' \in [AllLoops -> {"poll", "events", "functors"}]
        /\ \A m \in AllLoops : phase'[m] = IF m = l THEN "poll" ELSE phase[m]
    BY <1>2, <1>5
  <1>7. ServerState'
    BY <1>1, <1>4, <1>6 DEF ServerInv, ServerState
  <1>8. EventsFit'
    BY <1>1, <1>4 DEF ServerInv, EventsFit
  <1>9. Batches'
    <2>1. active[l] = {}
      BY <1>2 DEF ServerInv, Batches
    <2> QED
      BY <1>1, <1>2, <1>4, <1>5, <1>6, <2>1 DEF ServerInv, Batches
  <1> QED
    BY <1>4, <1>7, <1>8, <1>9 DEF ServerInv

\* doPendingFunctors takes the pending functors: they wait in the same order.
LEMMA TakeStep ==
    ASSUME ServerInv, NEW l \in Loops, takeFunctors(l)
    PROVE  ServerInv'
  <1>1. /\ numThreads_' = numThreads_ /\ next_' = next_ /\ conn' = conn
        /\ loopOf' = loopOf /\ connections_' = connections_ /\ backlog' = backlog
        /\ timers' = timers /\ active' = active /\ alive' = alive
        /\ calls' = calls /\ started_' = started_
    BY DEF takeFunctors
  <1>2. /\ phase[l] = "events" /\ active[l] = {}
        /\ phase' = [phase EXCEPT ![l] = "functors"]
        /\ functors' = [functors EXCEPT ![l] = pending[l]]
        /\ pending' = [pending EXCEPT ![l] = <<>>]
    BY DEF takeFunctors
  <1>3. /\ phase \in [AllLoops -> {"poll", "events", "functors"}]
        /\ functors \in [AllLoops -> Seq(Functor)]
        /\ pending \in [AllLoops -> Seq(Functor)]
        /\ Loops \subseteq AllLoops
    BY QueueType DEF ServerInv, ServerState
  <1>4. functors[l] = <<>>
    BY <1>2 DEF ServerInv, Batches
  <1>5. /\ phase' \in [AllLoops -> {"poll", "events", "functors"}]
        /\ \A m \in AllLoops : phase'[m] = IF m = l THEN "functors" ELSE phase[m]
    BY <1>2, <1>3
  <1>6. /\ functors' \in [AllLoops -> Seq(Functor)]
        /\ \A m \in AllLoops : functors'[m] = IF m = l THEN pending[l] ELSE functors[m]
    BY <1>2, <1>3
  <1>7. /\ pending' \in [AllLoops -> Seq(Functor)]
        /\ \A m \in AllLoops : pending'[m] = IF m = l THEN <<>> ELSE pending[m]
    <2>1. <<>> \in Seq(Functor)
      OBVIOUS
    <2> QED
      BY <1>2, <1>3, <2>1
  <1>8. ASSUME NEW m \in Loops
        PROVE  Queue(m)' = Queue(m)
    <2>1. CASE m = l
      <3>1. PICK p \in Seq(Functor) : p = pending[l]
        BY <1>3
      <3>2. p \o <<>> = p
        BY ConcatMore
      <3>3. <<>> \o p = p
        OBVIOUS
      <3> QED
        BY <1>3, <1>4, <1>6, <1>7, <2>1, <3>1, <3>2, <3>3 DEF Queue
    <2>2. CASE m # l
      BY <1>3, <1>6, <1>7, <2>2 DEF Queue
    <2> QED
      BY <2>1, <2>2
  <1>9. /\ Connections' /\ Queues' /\ AssertionsHold' /\ Lives'
        /\ Created' = Created /\ Loops' = Loops /\ (Aborted' <=> Aborted)
    BY <1>1, <1>8, QuietStep
  <1>10. ServerState'
    BY <1>1, <1>5, <1>6, <1>7, <1>9 DEF ServerInv, ServerState
  <1>11. EventsFit'
    BY <1>1, <1>9 DEF ServerInv, EventsFit
  <1>12. Batches'
    BY <1>1, <1>2, <1>3, <1>5, <1>6, <1>9 DEF ServerInv, Batches
  <1> QED
    BY <1>9, <1>10, <1>11, <1>12 DEF ServerInv

\* What poll() reports of a connection
LEMMA ReventsFacts ==
    ASSUME NEW k, NEW data, NEW writable
    PROVE  /\ Revents(k, data, writable) \in SUBSET Revent
           /\ Revents(k, data, writable) # {} => k.watch # Off
           /\ k.watch = {} => Revents(k, data, writable) \subseteq {"HUP", "ERR"}
  BY DEF Revents, Revent

\* poll: the batch holds one event for each connection with something to do.
LEMMA PollStep ==
    ASSUME ServerInv, ~Aborted, NEW l \in Loops, NEW data, NEW writable,
           poll(l, data, writable)
    PROVE  ServerInv'
  <1>1. /\ numThreads_' = numThreads_ /\ next_' = next_ /\ conn' = conn
        /\ loopOf' = loopOf /\ connections_' = connections_ /\ backlog' = backlog
        /\ timers' = timers /\ pending' = pending /\ functors' = functors
        /\ alive' = alive /\ calls' = calls /\ started_' = started_
    BY DEF poll
  <1>2. phase[l] = "poll" /\ phase' = [phase EXCEPT ![l] = "events"]
    BY DEF poll
  <1> DEFINE Ev(c) == [c |-> c, data |-> c \in data,
                       revents |-> Revents(conn[c], c \in data, c \in writable)]
             D == {d \in Created : /\ loopOf[d] = l /\ conn[d].index # "kNew"
                                   /\ Revents(conn[d], d \in data, d \in writable) # {}}
  <1>3. \E A \in SUBSET {Acceptor} :
          active' = [active EXCEPT ![l] = {Ev(c) : c \in D} \cup A]
    BY DEF poll
  <1>4. PICK A \in SUBSET {Acceptor} :
          active' = [active EXCEPT ![l] = {Ev(c) : c \in D} \cup A]
    BY <1>3
  <1>5. /\ phase \in [AllLoops -> {"poll", "events", "functors"}]
        /\ active \in [AllLoops -> SUBSET (Event \cup {Acceptor})]
        /\ Loops \subseteq AllLoops /\ functors[l] = <<>>
    BY <1>2, QueueType DEF ServerInv, ServerState, Batches
  <1>6. \A m \in Loops : Queue(m)' = Queue(m)
    BY <1>1 DEF Queue
  <1>7. /\ Connections' /\ Queues' /\ AssertionsHold' /\ Lives'
        /\ Created' = Created /\ Loops' = Loops /\ (Aborted' <=> Aborted)
    BY <1>1, <1>6, QuietStep
  <1>8. ASSUME NEW c \in D
        PROVE  /\ Ev(c) \in Event /\ Ev(c).c = c /\ c \in Created /\ loopOf[c] = l
               /\ conn[c].state # "kConnecting"
               /\ alive => /\ conn[c].index # "kNew"
                           /\ \/ Open(conn[c]) \/ conn[c].restarted
                              \/ ~conn[c].reading /\ Ev(c).revents \subseteq {"HUP", "ERR"}
    <2>1. /\ c \in Created /\ c \in Conns /\ loopOf[c] = l /\ conn[c].index # "kNew"
          /\ Revents(conn[c], c \in data, c \in writable) # {}
      BY DEF Created
    <2>2. PICK R : R = Revents(conn[c], c \in data, c \in writable)
      OBVIOUS
    <2>3. /\ R \in SUBSET Revent /\ R # {} /\ conn[c].watch # Off
          /\ conn[c].watch = {} => R \subseteq {"HUP", "ERR"}
      BY <2>1, <2>2, ReventsFacts
    <2>4. Ev(c) \in Event /\ Ev(c).c = c /\ Ev(c).revents = R
      <3>1. (c \in data) \in BOOLEAN
        OBVIOUS
      <3>2. Ev(c) = [c |-> c, data |-> c \in data, revents |-> R]
        BY <2>2
      <3> QED
        BY <2>1, <2>3, <3>1, <3>2 DEF Event
    <2>5. CASE alive
      <3>1. Life(conn[c]) /\ conn[c] \in ConnType
        BY <2>1, <2>5 DEF ServerInv, Lives, Connections, Good
      <3>2. conn[c].state # "kConnecting"
        BY <2>1, <3>1 DEF Life
      <3>3. Open(conn[c]) \/ conn[c].state = "kDisconnected"
        BY <3>1, <3>2 DEF ConnType, Open
      <3>4. conn[c].state = "kDisconnected" =>
              conn[c].restarted \/ (conn[c].watch = {} /\ ~conn[c].reading)
        BY <2>3, <3>1 DEF Life
      <3> QED
        BY <2>1, <2>3, <2>4, <3>2, <3>3, <3>4
    <2>6. CASE ~alive
      <3>1. conn[c].state = "kConnecting" => loopOf[c] # Base
        BY <2>1 DEF ServerInv, Connections
      <3>2. loopOf[c] = Base
        BY <2>1, <2>6 DEF ServerInv, ServerState, Loops, Base
      <3> QED
        BY <2>1, <2>4, <2>6, <3>1, <3>2
    <2> QED
      BY <2>5, <2>6
  <1>9. /\ phase' \in [AllLoops -> {"poll", "events", "functors"}]
        /\ \A m \in AllLoops : phase'[m] = IF m = l THEN "events" ELSE phase[m]
    BY <1>2, <1>5
  <1> HIDE DEF Ev, D
  <1>10. PICK B : B = {Ev(c) : c \in D} \cup A
    OBVIOUS
  <1>11. /\ B \in SUBSET (Event \cup {Acceptor})
         /\ \A e \in B \ {Acceptor} : \E c \in D : e = Ev(c)
    BY <1>8, <1>10
  <1>12. /\ active' \in [AllLoops -> SUBSET (Event \cup {Acceptor})]
         /\ \A m \in AllLoops : active'[m] = IF m = l THEN B ELSE active[m]
    BY <1>4, <1>5, <1>10, <1>11
  <1>13. ServerState'
    BY <1>1, <1>7, <1>9, <1>12 DEF ServerInv, ServerState
  <1>14. ASSUME NEW e \in B \ {Acceptor}
         PROVE  /\ e.c \in Created /\ loopOf[e.c] = l
                /\ conn[e.c].state # "kConnecting"
                /\ \A d \in B \ {Acceptor} : d.c = e.c => d = e
                /\ alive => /\ conn[e.c].index # "kNew"
                            /\ \/ Open(conn[e.c]) \/ conn[e.c].restarted
                               \/ ~conn[e.c].reading /\ e.revents \subseteq {"HUP", "ERR"}
    <2>1. PICK c \in D : e = Ev(c)
      BY <1>11
    <2>2. ASSUME NEW d \in B \ {Acceptor}, d.c = e.c
          PROVE  d = e
      <3>1. PICK b \in D : d = Ev(b)
        BY <1>11
      <3> QED
        BY <1>8, <2>1, <2>2, <3>1
    <2> QED
      BY <1>8, <2>1, <2>2
  <1>15. Batches'
    BY <1>1, <1>5, <1>7, <1>9, <1>12, <1>14 DEF ServerInv, Batches
  <1>16. EventsFit'
    BY <1>1, <1>5, <1>7, <1>12, <1>14 DEF ServerInv, EventsFit
  <1> QED
    BY <1>7, <1>13, <1>15, <1>16 DEF ServerInv

\* A connection that exists while the server lives has its channel in the
\* poller, if it is established.
LEMMA ExistingFacts ==
    ASSUME ServerInv, ~Aborted, alive, NEW c \in Existing,
           conn[c].state # "kConnecting"
    PROVE  conn[c].index # "kNew"
  <1>1. c \in Created /\ Referenced(c)
    BY DEF Existing
  <1>2. Life(conn[c]) /\ Stage(c) /\ conn[c] \in ConnType
    BY <1>1 DEF ServerInv, Lives, Connections, Good
  <1>3. CASE conn[c].state # "kDisconnected"
    BY <1>2, <1>3 DEF Life, ConnType, Open
  <1>4. CASE conn[c].state = "kDisconnected" /\ conn[c].index = "kNew"
    <2>1. c \notin connections_ /\ \A l \in Loops : Absent(Queue(l), c)
      BY <1>2, <1>4 DEF Stage, StageOf
    <2>8. PICK l \in Loops : \E f \in Queued(l) : f.c = c
      BY <1>1, <2>1 DEF Referenced
    <2>2. PICK f \in Queued(l) : f.c = c
      BY <2>8
    <2>3. PICK p \in Seq(Functor), q \in Seq(Functor) : p = pending[l] /\ q = functors[l]
      BY QueueType DEF ServerInv, ServerState
    <2>4. f \in Range(q \o p)
      <3>1. f \in Range(p) \cup Range(q)
        BY <2>2, <2>3 DEF Queued
      <3> QED
        BY <3>1, RangeConcat
    <2>5. q \o p = Queue(l) /\ q \o p \in Seq(Functor)
      BY <2>3, ConcatAt DEF Queue
    <2>6. PICK s \in Seq(Functor) : s = q \o p
      BY <2>5
    <2>7. \E i \in 1 .. Len(s) : s[i] = f
      BY <2>4, <2>6 DEF Range
    <2> QED
      BY <2>1, <2>2, <2>5, <2>6, <2>7 DEF Absent
  <1> QED
    BY <1>3, <1>4

\* Channel::handleEvent in the loop of the connection
LEMMA EventStep ==
    ASSUME ServerInv, ~Aborted, NEW l \in Loops, NEW e, NEW u, NEW w \in Nat,
           event(l, e, u, w)
    PROVE  ServerInv'
  <1>1. /\ numThreads_' = numThreads_ /\ next_' = next_ /\ started_' = started_
        /\ loopOf' = loopOf /\ backlog' = backlog /\ phase' = phase
        /\ functors' = functors /\ alive' = alive
    BY DEF event
  <1>2. /\ phase[l] = "events" /\ e \in active[l] \ {Acceptor}
        /\ active' = [active EXCEPT ![l] = @ \ {e}]
        /\ calls' = IF u = "nothing" THEN calls ELSE calls + 1
        /\ u # "nothing" => calls < MaxCalls
    BY DEF event
  <1>3. PICK c, k : c = e.c /\ k = handleEvent(conn[c], e.revents, e.data, u, w)
    OBVIOUS
  <1>4. Settle(c, k)
    BY <1>3 DEF event
  <1>5. /\ c \in Created /\ loopOf[c] = l /\ conn[c].state # "kConnecting"
        /\ \A d \in active[l] \ {Acceptor} : d.c = c => d = e
        /\ Good(conn[c])
    BY <1>2, <1>3 DEF ServerInv, Batches, Connections
  <1>6. PICK r : r = e.revents
    OBVIOUS
  <1>7. /\ Good(k) /\ k.state # "kConnecting"
        /\ Life(conn[c]) => Keeps(conn[c], k) \/ Closes(conn[c], k)
    BY <1>3, <1>5, <1>6, EventFacts
  <1>8. ASSUME alive
        PROVE  Outcome(conn[c], k, FALSE, Head(functors[loopOf[c]]).op)
    <2>1. Life(conn[c]) /\ conn[c] \in ConnType
      BY <1>5, <1>8 DEF ServerInv, Lives, Good
    <2>2. /\ conn[c].index # "kNew"
          /\ Open(conn[c]) \/ conn[c].restarted \/ ~conn[c].reading
      BY <1>2, <1>3, <1>6, <1>8 DEF ServerInv, EventsFit
    <2>3. Keeps(conn[c], k) \/ Closes(conn[c], k)
      BY <1>7, <2>1, <2>2
    <2>4. Closes(conn[c], k) /\ ~Open(conn[c]) => k.failed /\ ~Untouched(k)
      <3>1. ~Open(conn[c]) => Quiet(conn[c])
        BY <1>5, <2>1 DEF Life, ConnType, Open, Quiet
      <3>2. ~Open(conn[c]) => ~Untouched(conn[c])
        BY <2>2 DEF Untouched
      <3> QED
        BY <3>1, <3>2 DEF Closes
    <2> QED
      BY <1>5, <2>2, <2>3, <2>4 DEF Outcome
  <1>9. Settles(c, k) /\ Takes(c, FALSE) /\ timers' \subseteq timers \cup {c}
    BY <1>1, <1>4 DEF Takes, Settle, Settles, Gives
  <1>12. /\ Connections' /\ Queues' /\ AssertionsHold' /\ Lives'
         /\ conn' \in [Conns -> ConnType \cup {None}] /\ Created' = Created
         /\ connections_' \subseteq Created'
         /\ pending' \in [AllLoops -> Seq(Functor)]
         /\ functors' \in [AllLoops -> Seq(Functor)]
         /\ \A d \in Conns \ {c} : conn'[d] = conn[d]
    BY <1>5, <1>7, <1>8, <1>9, SettleStep
  <1>13. /\ active \in [AllLoops -> SUBSET (Event \cup {Acceptor})]
         /\ Loops \subseteq AllLoops /\ Loops' = Loops
    BY <1>1, QueueType DEF ServerInv, ServerState, Loops
  <1>14. /\ active' \in [AllLoops -> SUBSET (Event \cup {Acceptor})]
         /\ \A m \in AllLoops : active'[m] = IF m = l THEN active[l] \ {e} ELSE active[m]
    BY <1>2, <1>13
  <1>15. calls' \in 0 .. MaxCalls
    BY <1>2, ServerAssumption DEF ServerInv, ServerState
  <1>16. ServerState'
    BY <1>1, <1>5, <1>9, <1>12, <1>14, <1>15 DEF ServerInv, ServerState
  <1>17. ASSUME NEW m \in Loops, NEW d \in active'[m] \ {Acceptor}
         PROVE  d \in active[m] \ {Acceptor} /\ d.c \in Conns /\ conn'[d.c] = conn[d.c]
    <2>1. d \in active[m] \ {Acceptor}
      BY <1>13, <1>14
    <2>2. d.c \in Created /\ loopOf[d.c] = m
      BY <2>1 DEF ServerInv, Batches
    <2>3. d.c # c
      BY <1>5, <1>13, <1>14, <2>1, <2>2
    <2> QED
      BY <1>12, <2>1, <2>2, <2>3 DEF Created
  <1>18. Batches'
    <2> SUFFICES ASSUME NEW m \in Loops
                 PROVE  /\ phase[m] # "events" => active'[m] = {}
                        /\ phase[m] # "functors" => functors[m] = <<>>
                        /\ \A d \in active'[m] \ {Acceptor} :
                             /\ d.c \in Created /\ loopOf[d.c] = m
                             /\ conn'[d.c].state # "kConnecting"
                             /\ \A x \in active'[m] \ {Acceptor} : x.c = d.c => x = d
      BY <1>1, <1>12, <1>13 DEF Batches
    <2>1. active'[m] \subseteq active[m]
      BY <1>13, <1>14
    <2>2. /\ phase[m] # "events" => active[m] = {}
          /\ phase[m] # "functors" => functors[m] = <<>>
          /\ \A d \in active[m] \ {Acceptor} :
               /\ d.c \in Created /\ loopOf[d.c] = m
               /\ conn[d.c].state # "kConnecting"
               /\ \A x \in active[m] \ {Acceptor} : x.c = d.c => x = d
      BY DEF ServerInv, Batches
    <2> QED
      BY <1>17, <2>1, <2>2
  <1>19. EventsFit'
    BY <1>1, <1>13, <1>17 DEF ServerInv, EventsFit
  <1> QED
    BY <1>12, <1>16, <1>18, <1>19 DEF ServerInv

\* A step that keeps connection c open, or leaves it down, fits the batches.
LEMMA KeptBatches ==
    ASSUME ServerInv, ~Aborted, numThreads_' = numThreads_, loopOf' = loopOf,
           alive' = alive, phase' = phase, active' = active, functors' = functors,
           Created' = Created, NEW c \in Created,
           \A d \in Conns \ {c} : conn'[d] = conn[d],
           conn[c].state # "kConnecting" =>
              /\ conn'[c].state # "kConnecting"
              /\ alive => /\ conn[c].index # "kNew" => conn'[c].index # "kNew"
                          /\ Open(conn[c]) => Open(conn'[c])
                          /\ conn[c].restarted => conn'[c].restarted
                          /\ ~Open(conn[c]) => \/ conn'[c].restarted
                                               \/ conn'[c].reading => conn[c].reading
    PROVE  Batches' /\ EventsFit'
  <1>1. Loops' = Loops
    BY DEF Loops
  <1>2. ASSUME NEW l \in Loops, NEW e \in active[l] \ {Acceptor}
        PROVE  /\ e.c \in Created /\ loopOf[e.c] = l
               /\ conn[e.c].state # "kConnecting"
               /\ \A d \in active[l] \ {Acceptor} : d.c = e.c => d = e
               /\ e.c = c \/ conn'[e.c] = conn[e.c]
    BY DEF ServerInv, Batches, Created
  <1>3. Batches'
    <2>1. \A l \in Loops : /\ phase[l] # "events" => active[l] = {}
                           /\ phase[l] # "functors" => functors[l] = <<>>
      BY DEF ServerInv, Batches
    <2> QED
      BY <1>1, <1>2, <2>1 DEF Batches
  <1>4. EventsFit'
    <2>1. alive => \A l \in Loops : \A e \in active[l] \ {Acceptor} :
            /\ conn[e.c].index # "kNew"
            /\ \/ Open(conn[e.c]) \/ conn[e.c].restarted
               \/ ~conn[e.c].reading /\ e.revents \subseteq {"HUP", "ERR"}
      BY DEF ServerInv, EventsFit
    <2> QED
      BY <1>1, <1>2, <2>1 DEF EventsFit
  <1> QED
    BY <1>3, <1>4

\* Code of the user in the loop of the connection
LEMMA UserStep ==
    ASSUME ServerInv, ~Aborted, NEW c \in Conns, NEW u, NEW w \in Nat,
           userCode(c, u, w)
    PROVE  ServerInv'
  <1>1. /\ numThreads_' = numThreads_ /\ next_' = next_ /\ started_' = started_
        /\ loopOf' = loopOf /\ backlog' = backlog /\ phase' = phase
        /\ active' = active /\ functors' = functors /\ alive' = alive
    BY DEF userCode
  <1>2. /\ c \in Existing /\ conn[c].state # "kConnecting"
        /\ calls < MaxCalls /\ calls' = calls + 1
    BY DEF userCode
  <1>3. PICK k : k = UserCall(conn[c], u, w)
    OBVIOUS
  <1>4. Settle(c, k)
    BY <1>3 DEF userCode
  <1>5. c \in Created /\ Good(conn[c])
    BY <1>2 DEF ServerInv, Existing, Connections
  <1>6. Good(k) /\ k.state # "kConnecting" /\ Keeps(conn[c], k)
    BY <1>2, <1>3, <1>5, UserCallFacts DEF Open
  <1>7. ASSUME alive
        PROVE  conn[c].index # "kNew" /\ Life(conn[c])
    BY <1>2, <1>5, <1>7, ExistingFacts DEF ServerInv, Lives
  <1>8. Settles(c, k) /\ Takes(c, FALSE) /\ timers' \subseteq timers \cup {c}
    BY <1>1, <1>4 DEF Takes, Settle, Settles, Gives
  <1>9. alive => Outcome(conn[c], k, FALSE, Head(functors[loopOf[c]]).op)
    BY <1>2, <1>6, <1>7 DEF Outcome
  <1>10. /\ Connections' /\ Queues' /\ AssertionsHold' /\ Lives'
         /\ conn' \in [Conns -> ConnType \cup {None}] /\ Created' = Created
         /\ connections_' \subseteq Created'
         /\ pending' \in [AllLoops -> Seq(Functor)]
         /\ functors' \in [AllLoops -> Seq(Functor)]
         /\ \A d \in Conns \ {c} : conn'[d] = conn[d]
         /\ conn'[c].state = k.state /\ conn'[c].index = k.index
         /\ conn'[c].reading = k.reading /\ conn'[c].restarted = k.restarted
    BY <1>2, <1>5, <1>6, <1>8, <1>9, SettleStep
  <1>11. calls' \in 0 .. MaxCalls
    BY <1>2, ServerAssumption DEF ServerInv, ServerState
  <1>12. ServerState'
    BY <1>1, <1>5, <1>8, <1>10, <1>11 DEF ServerInv, ServerState
  <1>13. alive => /\ conn[c].index # "kNew" => conn'[c].index # "kNew"
                  /\ Open(conn[c]) => Open(conn'[c])
                  /\ conn[c].restarted => conn'[c].restarted
                  /\ ~Open(conn[c]) => \/ conn'[c].restarted
                                       \/ conn'[c].reading => conn[c].reading
    <2>1. alive /\ ~Open(conn[c]) =>
            /\ "write" \notin conn[c].events
            /\ ~conn[c].restarted => conn[c].events = {}
      BY <1>2, <1>5, <1>7 DEF Life, Open, Good, ConnType
    <2> QED
      BY <1>6, <1>10, <2>1 DEF Keeps, Open
  <1>14. Batches' /\ EventsFit'
    BY <1>1, <1>5, <1>6, <1>10, <1>13, KeptBatches
  <1> QED
    BY <1>10, <1>12, <1>14 DEF ServerInv

\* The timer of forceCloseWithDelay queues forceCloseInLoop for a connection
\* that is open, and does nothing for another.
LEMMA TimerStep ==
    ASSUME ServerInv, ~Aborted, NEW c \in Conns, timerFires(c)
    PROVE  ServerInv'
  <1>1. /\ numThreads_' = numThreads_ /\ next_' = next_ /\ started_' = started_
        /\ loopOf' = loopOf /\ backlog' = backlog /\ phase' = phase
        /\ active' = active /\ functors' = functors /\ alive' = alive
        /\ connections_' = connections_ /\ calls' = calls
        /\ timers' \subseteq timers
    BY DEF timerFires
  <1>2. c \in Created /\ Good(conn[c]) /\ Settled(conn[c]) /\ conn[c] \in ConnType
    BY DEF timerFires, ServerInv, ServerState, Connections, Good
  <1>3. /\ pending \in [AllLoops -> Seq(Functor)] /\ loopOf[c] \in AllLoops
        /\ conn \in [Conns -> ConnType \cup {None}]
    BY <1>2 DEF ServerInv, ServerState
  <1>4. CASE c \in Existing /\ Open(conn[c])
    <2>1. PICK k : k = forceClose(conn[c])
      OBVIOUS
    <2>2. Good(k) /\ Keeps(conn[c], k)
      BY <1>2, <2>1, CloseCalls
    <2>3. Open(k) /\ ~k.closing /\ k.failed = conn[c].failed
      BY <1>2, <1>4, <2>2 DEF Keeps, Settled
    <2>4. Settles(c, k)
      <3>1. conn' = [conn EXCEPT ![c] = Done(k)]
        BY <1>4, <2>1 DEF timerFires
      <3>2. Check(k, TRUE) = k
        <4>1. k \in ConnType
          BY <2>2 DEF Good
        <4> QED
          BY <4>1 DEF Check, ConnType
      <3>3. pending' = [pending EXCEPT ![loopOf[c]] = @ \o Functors(k.todo, c)]
        BY <1>4, <2>1 DEF timerFires
      <3>4. ASSUME NEW l \in AllLoops
            PROVE  pending'[l] = pending[l] \o Functors(Pushes(k, loopOf[c], l), c)
        <4>1. CASE l = loopOf[c]
          <5>1. Pushes(k, loopOf[c], l) = k.todo
            BY <2>3, <4>1 DEF Pushes
          <5> QED
            BY <1>3, <3>3, <4>1, <5>1
        <4>2. CASE l # loopOf[c]
          <5>1. Pushes(k, loopOf[c], l) = <<>> /\ Functors(<<>>, c) = <<>>
            BY <2>3, <4>2 DEF Pushes, Functors
          <5>2. PICK p \in Seq(Functor) : p = pending[l]
            BY <1>3
          <5>3. p \o <<>> = p
            BY ConcatMore
          <5> QED
            BY <1>3, <3>3, <4>2, <5>1, <5>2, <5>3
        <4> QED
          BY <4>1, <4>2
      <3>5. DOMAIN pending = AllLoops /\ pending' = [l \in AllLoops |-> pending'[l]]
        BY <1>3, <3>3
      <3>6. Gives(c, k)
        BY <3>4, <3>5 DEF Gives
      <3> QED
        BY <1>1, <2>3, <3>1, <3>2, <3>6 DEF Settles
    <2>5. alive => conn[c].index # "kNew" /\ Life(conn[c])
      BY <1>2, <1>4, ExistingFacts DEF ServerInv, Lives, Open
    <2>6. alive => Outcome(conn[c], k, FALSE, Head(functors[loopOf[c]]).op)
      BY <1>4, <2>2, <2>5 DEF Outcome, Open
    <2>7. Takes(c, FALSE) /\ k.state # "kConnecting" /\ conn[c].state # "kConnecting"
      BY <1>1, <1>4, <2>3 DEF Takes, Open
    <2>8. /\ Connections' /\ Queues' /\ AssertionsHold' /\ Lives'
          /\ conn' \in [Conns -> ConnType \cup {None}] /\ Created' = Created
          /\ connections_' \subseteq Created'
          /\ pending' \in [AllLoops -> Seq(Functor)]
          /\ functors' \in [AllLoops -> Seq(Functor)]
          /\ \A d \in Conns \ {c} : conn'[d] = conn[d]
          /\ conn'[c].state = k.state /\ conn'[c].index = k.index
          /\ conn'[c].restarted = k.restarted
      BY <1>2, <2>2, <2>4, <2>6, <2>7, SettleStep
    <2>9. ServerState'
      BY <1>1, <2>8 DEF ServerInv, ServerState
    <2>10. /\ Open(conn'[c]) /\ (conn[c].index # "kNew" => conn'[c].index # "kNew")
           /\ conn[c].restarted => conn'[c].restarted
      BY <2>2, <2>3, <2>8 DEF Keeps, Open
    <2>11. Batches' /\ EventsFit'
      BY <1>1, <1>2, <1>4, <2>7, <2>8, <2>10, KeptBatches
    <2> QED
      BY <2>8, <2>9, <2>11 DEF ServerInv
  <1>5. CASE ~(c \in Existing /\ Open(conn[c]))
    <2>1. conn' = conn /\ pending' = pending
      <3>1. CASE c \notin Existing
        BY <3>1 DEF timerFires
      <3>2. CASE c \in Existing /\ ~Open(conn[c])
        <4>1. forceClose(conn[c]) = conn[c] /\ conn[c].todo = <<>>
          BY <1>2, <3>2 DEF forceClose, Settled
        <4>2. Done(conn[c]) = conn[c]
          BY <1>2 DEF Done, Settled, ConnType
        <4>3. Functors(<<>>, c) = <<>>
          BY DEF Functors
        <4>4. pending[loopOf[c]] \o <<>> = pending[loopOf[c]]
          <5>1. PICK p \in Seq(Functor) : p = pending[loopOf[c]]
            BY <1>3
          <5> QED
            BY <5>1, ConcatMore
        <4>5. /\ conn' = [conn EXCEPT ![c] = Done(conn[c])]
              /\ pending' = [pending EXCEPT ![loopOf[c]] = @ \o Functors(<<>>, c)]
          BY <3>2, <4>1 DEF timerFires
        <4> QED
          BY <1>3, <4>2, <4>3, <4>4, <4>5
      <3> QED
        BY <1>5, <3>1, <3>2
    <2>2. \A l \in Loops : Queue(l)' = Queue(l)
      BY <1>1, <2>1 DEF Queue
    <2>3. /\ Connections' /\ Queues' /\ AssertionsHold' /\ Lives'
          /\ Created' = Created
      BY <1>1, <2>1, <2>2, QuietStep
    <2>4. ServerState'
      BY <1>1, <2>1, <2>3 DEF ServerInv, ServerState
    <2>5. Batches' /\ EventsFit'
      BY <1>1, <2>1, SameBatches
    <2> QED
      BY <2>3, <2>4, <2>5 DEF ServerInv
  <1> QED
    BY <1>4, <1>5

\* A queue in which nothing moves
LEMMA MovedNot ==
    ASSUME NEW q \in Seq(Functor), NEW c, NEW home, NEW l
    PROVE  Moved(q, q, c, home, l)
  <1>1. PICK r : r = <<>>
    OBVIOUS
  <1>2. r \in Seq(Fit(c, home, l)) /\ q \o r = q
    BY <1>1, ConcatMore
  <1> QED
    BY <1>2 DEF Moved

\* The peer closes or resets its end.
LEMMA PeerStep ==
    ASSUME ServerInv, ~Aborted, NEW c \in Conns, NEW how \in {"closed", "reset"},
           peerLeaves(c, how)
    PROVE  ServerInv'
  <1>1. /\ numThreads_' = numThreads_ /\ next_' = next_ /\ started_' = started_
        /\ loopOf' = loopOf /\ backlog' = backlog /\ phase' = phase
        /\ active' = active /\ functors' = functors /\ alive' = alive
        /\ connections_' = connections_ /\ calls' = calls /\ timers' = timers
        /\ pending' = pending
    BY DEF peerLeaves
  <1>2. PICK j, k : j = conn[c] /\ k = [j EXCEPT !.peer = how]
    OBVIOUS
  <1>3. /\ c \in Created /\ Good(j) /\ Settled(j) /\ j \in ConnType
        /\ loopOf[c] \in Loops /\ ~j.failed /\ j.peer \in {"open", "closed"}
        /\ conn \in [Conns -> ConnType \cup {None}]
        /\ j.state = "kConnecting" => loopOf[c] # Base
    BY <1>2 DEF peerLeaves, Existing, ServerInv, ServerState, Connections, Good, Aborted
  <1>4. conn' = [conn EXCEPT ![c] = k]
    BY <1>2, <1>3 DEF peerLeaves
  <1>5. /\ k \in ConnType /\ k.state = j.state /\ k.index = j.index
        /\ k.reading = j.reading /\ k.failed = j.failed
        /\ k.restarted = j.restarted
        /\ k.ups = j.ups /\ k.downs = j.downs /\ k.watch = j.watch
        /\ k.events = j.events /\ k.todo = j.todo /\ k.delayed = j.delayed
        /\ k.closing = j.closing /\ k.out = j.out /\ k.wire = j.wire
        /\ k.bytes = j.bytes /\ k.lost = j.lost /\ k.fin = j.fin /\ k.peer = how
    BY <1>2, <1>3 DEF ConnType
  <1>6. Good(k) /\ Settled(k) /\ (Life(j) => Life(k)) /\ (Open(k) <=> Open(j))
    BY <1>3, <1>5 DEF Good, Stream, Settled, Life, WriteFails, isWriting, Open, ReadOn
  <1>7. conn'[c] = k /\ \A d \in Conns \ {c} : conn'[d] = conn[d]
    BY <1>3, <1>4
  <1>8. conn' \in [Conns -> ConnType \cup {None}] /\ Created' = Created
    <2>1. conn' \in [Conns -> ConnType \cup {None}]
      BY <1>3, <1>4, <1>5
    <2>2. k # None /\ conn[c] # None
      BY <1>3, <1>5 DEF ConnType, None, Created
    <2> QED
      BY <1>7, <2>1, <2>2 DEF Created
  <1>9. PICK N : N = [l \in Loops |-> Queue(l)]
    OBVIOUS
  <1>10. /\ N \in [Loops -> Seq(Functor)]
         /\ \A l \in Loops : N[l] = Queue(l) /\ N[l] \in Seq(Functor)
    BY <1>9, QueueType DEF ServerInv
  <1>11. \A l \in Loops : /\ N[l] = functors'[l] \o pending'[l]
                          /\ Moved(Queue(l), N[l], c, loopOf'[c], l)
    BY <1>1, <1>10, MovedNot DEF Queue
  <1>12. \A l \in Loops : IF conn'[c].state = "kConnecting"
                          THEN Sole(N[l], c) ELSE Began(N[l], c)
    BY <1>2, <1>3, <1>5, <1>7, <1>10 DEF ServerInv, Queues
  <1>13. alive /\ ~k.failed =>
           /\ Life(k) /\ StageOf(c, k, c \in connections_', loopOf'[c], N)
    <2>1. alive => Life(j) /\ StageOf(c, j, c \in connections_, loopOf[c], N)
      BY <1>2, <1>3, <1>9 DEF ServerInv, Lives, Stage
    <2> QED
      BY <1>1, <1>5, <1>6, <2>1 DEF StageOf
  <1>14. Connections' /\ Queues' /\ AssertionsHold' /\ Lives'
    <2>1. /\ ServerState /\ Connections /\ Queues /\ Lives
      BY DEF ServerInv
    <2>2. \A d \in Conns \ {c} :
              /\ conn'[d] = conn[d] /\ loopOf'[d] = loopOf[d]
              /\ (d \in connections_') <=> (d \in connections_)
      BY <1>1, <1>7
    <2>3. /\ Good(conn'[c]) /\ Settled(conn'[c]) /\ loopOf'[c] \in Loops
          /\ conn'[c].state = "kConnecting" => loopOf'[c] # Base
          /\ loopOf'[c] = loopOf[c] /\ ~conn'[c].failed
      BY <1>1, <1>3, <1>5, <1>6, <1>7
    <2>4. alive' /\ ~conn'[c].failed =>
            /\ Life(conn'[c])
            /\ StageOf(c, conn'[c], c \in connections_', loopOf'[c], N)
      BY <1>1, <1>7, <1>13
    <2> QED
      BY <1>1, <1>10, <1>11, <1>12, <2>1, <2>2, <2>3, <2>4, OneConnection
  <1>15. ServerState'
    BY <1>1, <1>8 DEF ServerInv, ServerState
  <1>16. conn[c].state # "kConnecting" =>
           /\ conn'[c].state # "kConnecting"
           /\ alive => /\ conn[c].index # "kNew" => conn'[c].index # "kNew"
                       /\ Open(conn[c]) => Open(conn'[c])
                       /\ conn[c].restarted => conn'[c].restarted
                       /\ ~Open(conn[c]) => \/ conn'[c].restarted
                                            \/ conn'[c].reading => conn[c].reading
    BY <1>2, <1>5, <1>6, <1>7
  <1>17. Batches' /\ EventsFit'
    BY <1>1, <1>3, <1>7, <1>8, <1>16, KeptBatches
  <1> QED
    BY <1>14, <1>15, <1>17 DEF ServerInv

\* A queued member function of a connection
LEMMA FunctorStep ==
    ASSUME ServerInv, ~Aborted, NEW l \in Loops, NEW u, NEW w \in Nat,
           functor(l, u, w)
    PROVE  ServerInv'
  <1>1. /\ numThreads_' = numThreads_ /\ next_' = next_ /\ started_' = started_
        /\ loopOf' = loopOf /\ backlog' = backlog /\ phase' = phase
        /\ active' = active /\ alive' = alive
    BY DEF functor
  <1>2. PICK f : f = Head(functors[l])
    OBVIOUS
  <1>3. /\ phase[l] = "functors" /\ functors[l] # <<>>
        /\ u # "nothing" => calls < MaxCalls /\ f.op # "removeConnectionInLoop"
        /\ functors' = [functors EXCEPT ![l] = Tail(@)]
        /\ calls' = IF u = "nothing" THEN calls ELSE calls + 1
        /\ f.op # "removeConnectionInLoop"
    BY <1>2 DEF functor
  <1>4. PICK c, j, k : c = f.c /\ j = conn[c] /\ k = Run(f.op, j, u, w)
    OBVIOUS
  <1>5. Settle(c, k)
    BY <1>2, <1>4 DEF functor
  <1>6. ServerState /\ Connections /\ Queues /\ Batches
    BY DEF ServerInv
  <1>7. /\ functors \in [AllLoops -> Seq(Functor)] /\ pending \in [AllLoops -> Seq(Functor)]
        /\ Loops \subseteq AllLoops
    BY <1>6, QueueType DEF ServerState
  <1>8. PICK q \in Seq(Functor) : q = Queue(l)
    BY <1>6, QueueType
  <1>9. q # <<>> /\ Head(q) = f /\ q[1] = f /\ 1 \in 1 .. Len(q) /\ f \in Functor
    <2>1. PICK x \in Seq(Functor), y \in Seq(Functor) : x = functors[l] /\ y = pending[l]
      BY <1>7
    <2>2. x # <<>> /\ Head(x) = f
      BY <1>2, <1>3, <2>1
    <2>3. x \o y # <<>> /\ Head(x \o y) = Head(x)
      BY ONLY <2>1, <2>2, ConcatMore, ZenonT(60)
    <2>4. q = x \o y
      BY <1>8, <2>1 DEF Queue
    <2> QED
      BY <2>2, <2>3, <2>4
  <1>10. c \in Created /\ l = loopOf[c]
    <2>1. Placed(f, l)
      BY <1>6, <1>8, <1>9 DEF Queues
    <2> QED
      BY <1>3, <1>4, <2>1 DEF Placed
  <1>11. Good(j) /\ Settled(j) /\ j \in ConnType /\ ~j.failed
    BY <1>4, <1>6, <1>10 DEF Connections, Good, Aborted
  <1>12. IF j.state = "kConnecting" THEN Sole(q, c) ELSE Began(q, c)
    BY <1>4, <1>6, <1>8, <1>10 DEF Queues
  <1>13. (j.state = "kConnecting") <=> (f.op = "connectEstablished")
    BY <1>4, <1>9, <1>12 DEF Sole, Began
  <1>14. ASSUME alive
         PROVE  /\ Life(j)
                /\ f.op \in TeardownOps => j.state = "kDisconnected"
                /\ j.state # "kConnecting" => j.index # "kNew"
    <2>1. Life(j) /\ Stage(c)
      BY <1>4, <1>10, <1>14 DEF ServerInv, Lives
    <2>2. ~Absent(q, c) /\ (f.op \in TeardownOps => ~NoTeardown(q, c))
      BY <1>4, <1>9 DEF Absent, NoTeardown
    <2>3. PICK Q : Q = [m \in Loops |-> Queue(m)]
      OBVIOUS
    <2>4. StageOf(c, j, c \in connections_, loopOf[c], Q) /\ Q[l] = q /\ l \in DOMAIN Q
      BY <1>4, <1>8, <2>1, <2>3 DEF Stage
    <2>5. f.op \in TeardownOps => j.state = "kDisconnected"
      BY <2>2, <2>4 DEF StageOf
    <2>6. j.state = "kDisconnected" => j.index # "kNew"
      BY <2>2, <2>4 DEF StageOf
    <2>7. Open(j) => j.index # "kNew"
      BY <2>1 DEF Life
    <2> QED
      BY <1>11, <2>1, <2>5, <2>6, <2>7 DEF ConnType, Open
  <1>15. /\ Good(k) /\ k.state # "kConnecting"
         /\ alive => Outcome(j, k, TRUE, f.op)
    <2>1. CASE f.op = "connectEstablished"
      <3>1. k = connectEstablished(j, u, w)
        BY <1>4, <2>1 DEF Run
      <3>2. /\ Good(k) /\ Open(k) /\ k.closing = j.closing /\ k.failed = j.failed
            /\ Life(j) => Life(k)
        BY <1>11, <1>13, <2>1, <3>1, EstablishFacts
      <3> QED
        BY <1>11, <1>13, <1>14, <2>1, <3>2 DEF Outcome, Settled, Open
    <2>2. CASE f.op = "connectDestroyed"
      <3>1. k = connectDestroyed(j)
        BY <1>4, <2>2 DEF Run
      <3>2. /\ Good(k)
            /\ k.todo = j.todo /\ k.delayed = j.delayed /\ k.closing = j.closing
            /\ (k.state = "kConnecting") <=> (j.state = "kConnecting")
            /\ j.state = "kDisconnected" /\ Life(j) /\ j.index # "kNew" =>
                 /\ Life(k) /\ k.state = "kDisconnected" /\ k.index = "kNew"
                 /\ k.restarted = j.restarted
                 /\ ~j.restarted => k.failed = j.failed
        BY <1>11, <3>1, DestroyFacts
      <3>3. f.op \in TeardownOps /\ j.state # "kConnecting"
        BY <1>13, <2>2 DEF TeardownOps
      <3> QED
        BY <1>11, <1>14, <2>2, <3>2, <3>3 DEF Outcome, Settled, Untouched
    <2>3. CASE f.op = "forceCloseInLoop"
      <3>1. k = forceCloseInLoop(j)
        BY <1>4, <2>3 DEF Run
      <3>2. /\ Good(k)
            /\ (k.state = "kConnecting") <=> (j.state = "kConnecting")
            /\ Keeps(j, k) \/ (Open(j) /\ Closes(j, k))
        BY <1>11, <3>1, ForceFacts
      <3>3. f.op \notin TeardownOps /\ j.state # "kConnecting"
        BY <1>13, <2>3 DEF TeardownOps
      <3> QED
        BY <1>14, <3>2, <3>3 DEF Outcome
    <2>4. CASE f.op \notin {"connectEstablished", "connectDestroyed", "forceCloseInLoop"}
      <3>1. k = j
        BY <1>4, <2>4 DEF Run
      <3>2. f.op \notin TeardownOps /\ j.state # "kConnecting"
        BY <1>3, <1>13, <2>4 DEF TeardownOps
      <3>3. Keeps(j, j)
        BY KeepsFacts
      <3> QED
        BY <1>11, <1>14, <3>1, <3>2, <3>3 DEF Outcome
    <2> QED
      BY <2>1, <2>2, <2>3, <2>4
  <1>16. Settles(c, k) /\ Takes(c, TRUE) /\ timers' \subseteq timers \cup {c}
    BY <1>1, <1>2, <1>3, <1>4, <1>5, <1>10 DEF Takes, Settle, Settles, Gives
  <1>17. alive => Outcome(conn[c], k, TRUE, Head(functors[loopOf[c]]).op)
    BY <1>2, <1>4, <1>10, <1>15
  <1>18. /\ Connections' /\ Queues' /\ AssertionsHold' /\ Lives'
         /\ conn' \in [Conns -> ConnType \cup {None}] /\ Created' = Created
         /\ connections_' \subseteq Created'
         /\ pending' \in [AllLoops -> Seq(Functor)]
         /\ functors' \in [AllLoops -> Seq(Functor)]
         /\ \A d \in Conns \ {c} : conn'[d] = conn[d]
         /\ conn'[c].state = k.state
    BY <1>10, <1>15, <1>16, <1>17, SettleStep
  <1>19. calls' \in 0 .. MaxCalls
    BY <1>3, ServerAssumption DEF ServerInv, ServerState
  <1>20. ServerState'
    BY <1>1, <1>10, <1>16, <1>18, <1>19 DEF ServerInv, ServerState
  <1>21. active[l] = {} /\ Loops' = Loops
    BY <1>1, <1>3, <1>6 DEF Batches, Loops
  <1>22. ASSUME NEW m \in Loops, NEW e \in active[m] \ {Acceptor}
         PROVE  e.c \in Created /\ loopOf[e.c] = m /\ conn'[e.c] = conn[e.c]
    <2>1. e.c \in Created /\ loopOf[e.c] = m /\ m # l
      BY <1>6, <1>21 DEF Batches
    <2> QED
      BY <1>10, <1>18, <2>1 DEF Created
  <1>23. \A m \in Loops : m # l => functors'[m] = functors[m]
    BY <1>3, <1>7
  <1>24. Batches'
    <2> SUFFICES ASSUME NEW m \in Loops
                 PROVE  /\ phase[m] # "events" => active[m] = {}
                        /\ phase[m] # "functors" => functors'[m] = <<>>
                        /\ \A d \in active[m] \ {Acceptor} :
                             /\ d.c \in Created /\ loopOf[d.c] = m
                             /\ conn'[d.c].state # "kConnecting"
                             /\ \A x \in active[m] \ {Acceptor} : x.c = d.c => x = d
      BY <1>1, <1>18, <1>21 DEF Batches
    <2>1. /\ phase[m] # "events" => active[m] = {}
          /\ phase[m] # "functors" => functors[m] = <<>>
          /\ \A d \in active[m] \ {Acceptor} :
               /\ d.c \in Created /\ loopOf[d.c] = m
               /\ conn[d.c].state # "kConnecting"
               /\ \A x \in active[m] \ {Acceptor} : x.c = d.c => x = d
      BY <1>6 DEF Batches
    <2> QED
      BY <1>3, <1>22, <1>23, <2>1
  <1>25. EventsFit'
    BY <1>1, <1>21, <1>22 DEF ServerInv, EventsFit
  <1> QED
    BY <1>18, <1>20, <1>24, <1>25 DEF ServerInv

\* The queue of a loop whose first functor is taken, and to which a is pushed
LEMMA TakenQueue ==
    ASSUME NEW x \in Seq(Functor), NEW y \in Seq(Functor), NEW a \in Seq(Functor)
    PROVE  /\ x \o y \in Seq(Functor) /\ (x \o y) \o a \in Seq(Functor)
           /\ y \o a \in Seq(Functor) /\ x \o (y \o a) = (x \o y) \o a
           /\ x # <<>> =>
                /\ x \o y # <<>> /\ Head(x \o y) = Head(x)
                /\ Tail(x) \in Seq(Functor) /\ Tail(x \o y) \in Seq(Functor)
                /\ Tail(x) \o (y \o a) = Tail(x \o y) \o a
  <1>1. \A s, t \in Seq(Functor) : s \o t \in Seq(Functor)
    BY ConcatAt
  <1>2. x \o (y \o a) = (x \o y) \o a
    BY ConcatAssoc
  <1>3. ASSUME x # <<>>
        PROVE  /\ x \o y # <<>> /\ Head(x \o y) = Head(x)
               /\ Tail(x) \in Seq(Functor) /\ Tail(x \o y) \in Seq(Functor)
               /\ Tail(x) \o (y \o a) = Tail(x \o y) \o a
    <2>1. /\ x \o y # <<>> /\ Head(x \o y) = Head(x)
          /\ Tail(x \o y) = Tail(x) \o y
      BY <1>3, ConcatMore
    <2>2. Tail(x) \in Seq(Functor)
      BY <1>3
    <2>3. PICK t \in Seq(Functor) : t = Tail(x)
      BY <2>2
    <2>4. t \o (y \o a) = (t \o y) \o a
      BY ConcatAssoc
    <2> QED
      BY <1>1, <2>1, <2>3, <2>4
  <1> QED
    BY <1>1, <1>2, <1>3

\* Pushing one functor
LEMMA PushOne ==
    ASSUME NEW q \in Seq(Functor), NEW f \in Functor
    PROVE  Append(q, f) = q \o <<f>> /\ <<f>> \in Seq(Functor)
  OBVIOUS

\* removeConnectionInLoop as a functor of the base loop
LEMMA RemoveStep ==
    ASSUME ServerInv, ~Aborted, removeConnectionInLoop
    PROVE  ServerInv'
  <1>1. /\ numThreads_' = numThreads_ /\ next_' = next_ /\ started_' = started_
        /\ loopOf' = loopOf /\ backlog' = backlog /\ phase' = phase
        /\ active' = active /\ alive' = alive /\ timers' = timers /\ calls' = calls
    BY DEF removeConnectionInLoop
  <1>2. PICK f, c, j, h, g :
          /\ f = Head(functors[Base]) /\ c = f.c /\ j = conn[c] /\ h = loopOf[c]
          /\ g = [op |-> "connectDestroyed", c |-> c]
    OBVIOUS
  <1>3. PICK b \in BOOLEAN : b <=> c \in connections_
    OBVIOUS
  <1>4. /\ phase[Base] = "functors" /\ functors[Base] # <<>>
        /\ f.op = "removeConnectionInLoop"
        /\ conn' = [conn EXCEPT ![c] = Check(@, b)]
        /\ connections_' = connections_ \ {c}
        /\ pending' = [pending EXCEPT ![h] = Append(@, g)]
        /\ functors' = [functors EXCEPT ![Base] = Tail(@)]
    BY <1>2, <1>3 DEF removeConnectionInLoop, Check
  <1>5. ServerState /\ Connections /\ Queues /\ Batches /\ Lives /\ EventsFit
    BY DEF ServerInv
  <1>6. /\ functors \in [AllLoops -> Seq(Functor)] /\ pending \in [AllLoops -> Seq(Functor)]
        /\ conn \in [Conns -> ConnType \cup {None}]
        /\ Loops \subseteq AllLoops /\ Base \in Loops /\ Loops' = Loops
    BY <1>1, <1>5, QueueType DEF ServerState, Loops
  <1>7. PICK x \in Seq(Functor), y \in Seq(Functor), q \in Seq(Functor) :
          x = functors[Base] /\ y = pending[Base] /\ q = x \o y /\ q = Queue(Base)
    BY <1>5, <1>6, QueueType DEF Queue
  <1>8. q # <<>> /\ Head(q) = f /\ q[1] = f /\ 1 \in 1 .. Len(q) /\ f \in Functor
    <2>1. x # <<>> /\ Head(x) = f
      BY <1>2, <1>4, <1>7
    <2>2. x \o y # <<>> /\ Head(x \o y) = Head(x)
      BY <2>1, ConcatMore
    <2>3. q # <<>> /\ Head(q) = Head(x)
      BY <1>7, <2>2
    <2> QED
      BY <2>1, <2>3
  <1>9. c \in Created /\ c \in Conns
    <2>1. Placed(f, Base)
      BY <1>5, <1>6, <1>7, <1>8 DEF Queues
    <2> QED
      BY <1>2, <2>1 DEF Placed, Created
  <1>10. Good(j) /\ Settled(j) /\ j \in ConnType /\ ~j.failed /\ h \in Loops
    BY <1>2, <1>5, <1>9 DEF Connections, Good, Aborted
  <1>11. /\ g \in Functor /\ g.op = "connectDestroyed" /\ g.c = c
         /\ g \in Fit(c, h, h) /\ <<g>> \in Seq(Functor)
    BY <1>2, <1>9, PushOne DEF Functor, Ops, TeardownOps, Fit
  <1>12. PICK k : k = Check(j, b)
    OBVIOUS
  <1>13. /\ k \in ConnType /\ k.state = j.state /\ k.index = j.index
         /\ k.reading = j.reading /\ (k.failed <=> (j.failed \/ ~b))
         /\ k.restarted = j.restarted
         /\ Good(k) /\ Settled(k) /\ (Life(j) => Life(k)) /\ (Open(k) <=> Open(j))
    <2>1. PICK v \in BOOLEAN : v <=> (j.failed \/ ~b)
      OBVIOUS
    <2>2. k = [j EXCEPT !.failed = v]
      BY <1>10, <1>12, <2>1 DEF Check, ConnType
    <2>3. k \in ConnType
      BY <1>10, <2>2 DEF ConnType
    <2>4. Done(k) = k
      BY <1>10, <2>2, <2>3 DEF Done, Settled, ConnType
    <2> QED
      BY <1>10, <1>12, <2>3, <2>4, DoneFacts
  <1>14. conn'[c] = k /\ \A d \in Conns \ {c} : conn'[d] = conn[d]
    BY <1>2, <1>4, <1>6, <1>9, <1>12
  <1>15. conn' \in [Conns -> ConnType \cup {None}] /\ Created' = Created
    <2>1. conn' = [conn EXCEPT ![c] = k]
      BY <1>2, <1>4, <1>6, <1>9, <1>12
    <2>2. conn' \in [Conns -> ConnType \cup {None}]
      BY <1>6, <1>13, <2>1
    <2>3. k # None /\ conn[c] # None
      BY <1>9, <1>13 DEF ConnType, None, Created
    <2> QED
      BY <1>14, <2>2, <2>3 DEF Created
  <1>16. PICK A, P, N :
           /\ A = [l \in Loops |-> IF l = h THEN <<g>> ELSE <<>>]
           /\ P = [l \in Loops |-> IF l = Base THEN Tail(q) ELSE Queue(l)]
           /\ N = [l \in Loops |-> P[l] \o A[l]]
    OBVIOUS
  <1>17. ASSUME NEW l \in Loops
         PROVE  /\ A[l] \in Seq(Functor) /\ A[l] \in Seq(Fit(c, h, l))
                /\ \A i \in 1 .. Len(A[l]) : A[l][i].op # "connectEstablished"
                /\ P[l] \in Seq(Functor) /\ Queue(l) \in Seq(Functor)
                /\ P[l] = Queue(l) \/ /\ Queue(l) # <<>> /\ Head(Queue(l)).c = c
                                      /\ P[l] = Tail(Queue(l))
                /\ N[l] = P[l] \o A[l] /\ N[l] \in Seq(Functor)
    <2>1. A[l] = IF l = h THEN <<g>> ELSE <<>>
      BY <1>16
    <2>2. A[l] \in Seq(Functor) /\ A[l] \in Seq(Fit(c, h, l))
      BY <1>11, <2>1
    <2>3. \A i \in 1 .. Len(A[l]) : A[l][i].op # "connectEstablished"
      BY <1>11, <2>1
    <2>4. P[l] = IF l = Base THEN Tail(q) ELSE Queue(l)
      BY <1>16
    <2>5. Tail(q) \in Seq(Functor) /\ Queue(l) \in Seq(Functor)
      BY <1>5, <1>8, QueueType
    <2>6. N[l] = P[l] \o A[l] /\ P[l] \in Seq(Functor)
      BY <1>16, <2>4, <2>5
    <2>7. P[l] \o A[l] \in Seq(Functor)
      BY <2>2, <2>6, ConcatAt
    <2> QED
      BY <1>2, <1>7, <1>8, <2>2, <2>3, <2>4, <2>5, <2>6, <2>7
  <1>18. ASSUME NEW l \in Loops
         PROVE  N[l] = functors'[l] \o pending'[l]
    <2>1. PICK s \in Seq(Functor), t \in Seq(Functor), a \in Seq(Functor) :
            s = functors[l] /\ t = pending[l] /\ a = A[l]
      BY <1>6, <1>17
    <2>2. pending'[l] = t \o a
      <3>1. CASE l = h
        <4>1. a = <<g>> /\ Append(t, g) = t \o <<g>>
          BY <1>11, <1>16, <2>1, <3>1, PushOne
        <4> QED
          BY <1>4, <1>6, <2>1, <3>1, <4>1
      <3>2. CASE l # h
        <4>1. a = <<>> /\ t \o <<>> = t
          BY <1>16, <2>1, <3>2
        <4> QED
          BY <1>4, <1>6, <2>1, <3>2, <4>1
      <3> QED
        BY <3>1, <3>2
    <2>3. s \o (t \o a) = (s \o t) \o a
      BY ConcatAssoc, SMTT(40)
    <2>4. CASE l = Base
      <3>1. functors'[l] = Tail(s) /\ s # <<>>
        BY <1>4, <1>6, <2>1, <2>4
      <3>2. Tail(s) \o (t \o a) = Tail(s \o t) \o a
        BY <3>1, TakenQueue, SMTT(40)
      <3>3. P[l] = Tail(s \o t)
        BY <1>7, <1>16, <2>1, <2>4
      <3> QED
        BY <1>17, <2>1, <2>2, <3>1, <3>2, <3>3
    <2>5. CASE l # Base
      <3>1. functors'[l] = s
        BY <1>4, <1>6, <2>1, <2>5
      <3>2. P[l] = s \o t
        BY <1>16, <2>1, <2>5 DEF Queue
      <3> QED
        BY <1>17, <2>1, <2>2, <2>3, <3>1, <3>2
    <2> QED
      BY <2>4, <2>5
  <1>19. ASSUME NEW l \in Loops
         PROVE  Moved(Queue(l), N[l], c, h, l)
    BY <1>17 DEF Moved
  <1>20. j.state # "kConnecting" /\ \A l \in Loops : Began(Queue(l), c)
    <2>1. \A l \in Loops : IF j.state = "kConnecting" THEN Sole(Queue(l), c)
                           ELSE Began(Queue(l), c)
      BY <1>2, <1>5, <1>9 DEF Queues
    <2>2. ~Sole(q, c)
      BY <1>2, <1>4, <1>8 DEF Sole
    <2> QED
      BY <1>6, <1>7, <2>1, <2>2
  <1>21. ASSUME NEW l \in Loops
         PROVE  Began(N[l], c)
    <2>1. PICK o \in Seq(Functor), p \in Seq(Functor), a \in Seq(Functor) :
            o = Queue(l) /\ p = P[l] /\ a = A[l]
      BY <1>17
    <2>2. Began(p, c)
      <3>1. o # <<>> => Began(Tail(o), c)
        BY <1>20, <2>1, PopOthers
      <3> QED
        BY <1>17, <1>20, <2>1, <3>1
    <2>3. Began(p \o a, c)
      BY <1>17, <2>1, <2>2, PushBegan
    <2> QED
      BY <1>17, <2>1, <2>3
  <1>22. ASSUME alive
         PROVE  b /\ Life(k) /\ StageOf(c, k, FALSE, h, N)
    <2>1. PICK Q : Q = [l \in Loops |-> Queue(l)]
      OBVIOUS
    <2>2. Life(j) /\ StageOf(c, j, c \in connections_, h, Q) /\ Q[Base] = q
      BY <1>2, <1>5, <1>6, <1>7, <1>9, <1>22, <2>1 DEF Lives, Stage
    <2>3. ~NoTeardown(q, c) /\ ~Absent(q, c)
      BY <1>2, <1>4, <1>8 DEF NoTeardown, Absent, TeardownOps
    <2>4. ~LastTeardown(q, c)
      <3> SUFFICES ASSUME LastTeardown(q, c)
                   PROVE  FALSE
        OBVIOUS
      <3>1. PICK i \in 1 .. Len(q) :
              /\ q[i] = [op |-> "connectDestroyed", c |-> c]
              /\ \A m \in 1 .. Len(q) :
                   m < i /\ q[m].c = c => q[m].op \notin TeardownOps
        BY DEF LastTeardown
      <3>2. i # 1
        BY <1>4, <1>8, <3>1
      <3>3. 1 < i
        BY <3>2
      <3> QED
        BY <1>2, <1>4, <1>8, <3>1, <3>3 DEF TeardownOps
    <2>5. j.state = "kDisconnected"
      BY <1>6, <2>1, <2>2, <2>3 DEF StageOf
    <2>6. /\ c \in connections_ /\ h # Base /\ j.index # "kNew"
          /\ OneTeardown(q, c, "removeConnectionInLoop") /\ NoTeardown(Q[h], c)
      <3>1. Base \in DOMAIN Q
        BY <1>6, <2>1
      <3> QED
        BY <2>2, <2>3, <2>4, <2>5, <3>1 DEF StageOf
    <2>7. LastTeardown(N[h], c)
      <3>1. PICK o \in Seq(Functor) : o = Queue(h)
        BY <1>10, <1>17
      <3>2. NoTeardown(o, c)
        BY <1>10, <2>1, <2>6, <3>1
      <3>3. LastTeardown(Append(o, g), c)
        BY <1>2, <1>9, <3>2, PushTeardown DEF TeardownOps
      <3>4. Append(o, g) = o \o <<g>>
        BY <1>11, PushOne
      <3>5. N[h] = o \o <<g>>
        BY <1>10, <1>16, <2>6, <3>1
      <3> QED
        BY <3>3, <3>4, <3>5
    <2>8. NoTeardown(N[Base], c)
      <3>1. NoTeardown(Tail(q), c)
        BY <1>2, <1>4, <1>8, <2>6, PopTeardown DEF TeardownOps
      <3>2. Tail(q) \in Seq(Functor)
        BY <1>8
      <3>3. Tail(q) \o <<>> = Tail(q)
        BY <3>2
      <3>4. N[Base] = Tail(q) \o <<>>
        BY <1>6, <1>16, <2>6
      <3> QED
        BY <3>1, <3>3, <3>4
    <2> QED
      BY <1>3, <1>13, <2>2, <2>5, <2>6, <2>7, <2>8 DEF StageOf
  <1>23. Connections' /\ Queues' /\ AssertionsHold' /\ Lives'
    <2>1. \A d \in Conns \ {c} :
              /\ conn'[d] = conn[d] /\ loopOf'[d] = loopOf[d]
              /\ (d \in connections_') <=> (d \in connections_)
      BY <1>1, <1>4, <1>14
    <2>2. /\ Good(conn'[c]) /\ Settled(conn'[c]) /\ loopOf'[c] \in Loops
          /\ conn'[c].state # "kConnecting" /\ loopOf'[c] = loopOf[c]
          /\ loopOf'[c] = h
      BY <1>1, <1>2, <1>10, <1>13, <1>14, <1>20
    <2>3. N \in [Loops -> Seq(Functor)]
      BY <1>16, <1>17
    <2>4. \A l \in Loops : /\ N[l] = functors'[l] \o pending'[l]
                           /\ Moved(Queue(l), N[l], c, loopOf'[c], l)
      BY <1>18, <1>19, <2>2
    <2>5. \A l \in Loops : IF conn'[c].state = "kConnecting"
                           THEN Sole(N[l], c) ELSE Began(N[l], c)
      BY <1>21, <2>2
    <2>6. alive' => ~conn'[c].failed
      BY <1>1, <1>10, <1>13, <1>14, <1>22
    <2>7. alive' /\ ~conn'[c].failed =>
            /\ Life(conn'[c])
            /\ StageOf(c, conn'[c], c \in connections_', loopOf'[c], N)
      <3>1. (c \in connections_') = FALSE
        BY <1>4
      <3> QED
        BY <1>1, <1>14, <1>22, <2>2, <3>1
    <2> QED
      BY <1>1, <1>5, <1>9, <2>1, <2>2, <2>3, <2>4, <2>5, <2>6, <2>7, OneConnection
  <1>24. /\ functors' \in [AllLoops -> Seq(Functor)]
         /\ pending' \in [AllLoops -> Seq(Functor)]
    <2>1. Tail(functors[Base]) \in Seq(Functor)
      BY <1>4, <1>6
    <2>2. Append(pending[h], g) \in Seq(Functor)
      BY <1>6, <1>10, <1>11
    <2> QED
      BY <1>4, <1>6, <2>1, <2>2
  <1>25. ServerState'
    <2>1. connections_' \subseteq Created'
      BY <1>4, <1>5, <1>15 DEF ServerState
    <2> QED
      BY <1>1, <1>5, <1>15, <1>24, <2>1 DEF ServerState
  <1>26. \A d \in Created :
           /\ conn'[d].state = conn[d].state /\ conn'[d].index = conn[d].index
           /\ conn'[d].reading = conn[d].reading
           /\ conn'[d].restarted = conn[d].restarted /\ (Open(conn'[d]) <=> Open(conn[d]))
    BY <1>2, <1>13, <1>14 DEF Created
  <1>27. Batches'
    <2> SUFFICES ASSUME NEW m \in Loops
                 PROVE  /\ phase[m] # "events" => active[m] = {}
                        /\ phase[m] # "functors" => functors'[m] = <<>>
                        /\ \A d \in active[m] \ {Acceptor} :
                             /\ d.c \in Created /\ loopOf[d.c] = m
                             /\ conn'[d.c].state # "kConnecting"
                             /\ \A e \in active[m] \ {Acceptor} : e.c = d.c => e = d
      BY <1>1, <1>6, <1>15 DEF Batches
    <2>1. /\ phase[m] # "events" => active[m] = {}
          /\ phase[m] # "functors" => functors[m] = <<>>
          /\ \A d \in active[m] \ {Acceptor} :
               /\ d.c \in Created /\ loopOf[d.c] = m
               /\ conn[d.c].state # "kConnecting"
               /\ \A e \in active[m] \ {Acceptor} : e.c = d.c => e = d
      BY <1>5 DEF Batches
    <2>2. m # Base => functors'[m] = functors[m]
      BY <1>4, <1>6
    <2> QED
      BY <1>4, <1>26, <2>1, <2>2
  <1>28. EventsFit'
    <2>1. \A l \in Loops : \A e \in active[l] \ {Acceptor} : e.c \in Created
      BY <1>5 DEF Batches
    <2> QED
      BY <1>1, <1>5, <1>6, <1>26, <2>1 DEF EventsFit
  <1> QED
    BY <1>23, <1>25, <1>27, <1>28 DEF ServerInv

\* What is pushed for a connection of which the queue knows nothing
LEMMA PushAbsent ==
    ASSUME NEW q \in Seq(Functor), NEW a \in Seq(Functor), NEW c, Absent(q, c)
    PROVE  /\ NoTeardown(q, c) /\ Began(q, c) /\ Sole(q, c)
           /\ (\A i \in 1 .. Len(a) : a[i].op \notin TeardownOps) =>
                NoTeardown(q \o a, c)
           /\ (\A i \in 1 .. Len(a) : a[i].op # "connectEstablished") =>
                Began(q \o a, c)
           /\ Len(a) = 1 /\ a[1].op = "connectEstablished" => Sole(q \o a, c)
  <1> DEFINE W == q \o a
  <1>1. PICK p \in Nat, n \in Nat : p = Len(q) /\ n = Len(a)
    OBVIOUS
  <1>2. /\ Len(W) = p + n /\ \A i \in 1 .. p : W[i] = q[i]
        /\ \A i \in 1 .. n : W[p + i] = a[i]
    BY <1>1, ConcatAt
  <1> HIDE DEF W
  <1>3. \A i \in 1 .. p : W[i].c # c
    BY <1>1, <1>2 DEF Absent
  <1>4. ASSUME NEW i \in 1 .. (p + n), W[i].c = c
        PROVE  i > p /\ i - p \in 1 .. n /\ W[i] = a[i - p]
    <2>1. i > p
      BY <1>3, <1>4
    <2>2. i - p \in 1 .. n /\ p + (i - p) = i
      BY <2>1
    <2>3. W[p + (i - p)] = a[i - p]
      BY <1>2, <2>2
    <2> QED
      BY <2>1, <2>2, <2>3
  <1>5. NoTeardown(q, c) /\ Began(q, c) /\ Sole(q, c)
    BY DEF Absent, NoTeardown, Began, Sole
  <1>6. (\A i \in 1 .. Len(a) : a[i].op \notin TeardownOps) => NoTeardown(W, c)
    BY <1>1, <1>2, <1>4 DEF NoTeardown
  <1>7. (\A i \in 1 .. Len(a) : a[i].op # "connectEstablished") => Began(W, c)
    BY <1>1, <1>2, <1>4 DEF Began
  <1>8. ASSUME Len(a) = 1, a[1].op = "connectEstablished"
        PROVE  Sole(W, c)
    <2>1. \A i \in 1 .. (p + n) : W[i].c = c => i = p + 1 /\ W[i] = a[1]
      <3> SUFFICES ASSUME NEW i \in 1 .. (p + n), W[i].c = c
                   PROVE  i = p + 1 /\ W[i] = a[1]
        OBVIOUS
      <3>1. i > p /\ i - p \in 1 .. n /\ W[i] = a[i - p]
        BY <1>4
      <3>2. i - p = 1
        BY <1>1, <1>8, <3>1
      <3> QED
        BY <3>1, <3>2
    <2> QED
      BY <1>2, <1>8, <2>1 DEF Sole
  <1> QED
    BY <1>5, <1>6, <1>7, <1>8 DEF W

\* A new connection, as the record r, in loop h, for which a is queued there:
\* the functors of connectEstablished, or connectEstablished itself.
NewIn(c, r, h, a) ==
    /\ numThreads_' = numThreads_ /\ functors' = functors /\ alive' = alive
    /\ conn' = [conn EXCEPT ![c] = r] /\ loopOf' = [loopOf EXCEPT ![c] = h]
    /\ connections_' = connections_ \cup {c}
    /\ pending' = [pending EXCEPT ![h] = @ \o a]

NewPushes(r, a) ==
    /\ \A i \in 1 .. Len(a) : a[i].op \notin TeardownOps
    /\ IF r.state = "kConnecting"
       THEN Len(a) = 1 /\ a[1].op = "connectEstablished"
       ELSE \A i \in 1 .. Len(a) : a[i].op # "connectEstablished"

\* A new connection does not disturb the others, and is as it should be.
LEMMA NewStep ==
    ASSUME ServerInv, ~Aborted, NEW c \in Conns \ Created, NEW r, Good(r),
           Settled(r), Life(r), ~r.failed, r.state # "kDisconnected",
           NEW h \in Loops, r.state = "kConnecting" => h # Base,
           NEW a \in Seq(Functor), a \in Seq(Fit(c, h, h)), NewPushes(r, a),
           NewIn(c, r, h, a)
    PROVE  /\ Connections' /\ Queues' /\ AssertionsHold' /\ Lives'
           /\ conn' \in [Conns -> ConnType \cup {None}]
           /\ Created' = Created \cup {c}
           /\ loopOf' \in [Conns -> AllLoops]
           /\ pending' \in [AllLoops -> Seq(Functor)]
           /\ \A d \in Conns \ {c} : conn'[d] = conn[d] /\ loopOf'[d] = loopOf[d]
  <1>1. ServerState /\ Connections /\ Queues /\ Lives
    BY DEF ServerInv
  <1>2. /\ functors \in [AllLoops -> Seq(Functor)] /\ pending \in [AllLoops -> Seq(Functor)]
        /\ conn \in [Conns -> ConnType \cup {None}] /\ loopOf \in [Conns -> AllLoops]
        /\ Loops \subseteq AllLoops /\ Base \in Loops
        /\ \A l \in Loops : Queue(l) \in Seq(Functor)
    BY <1>1, QueueType DEF ServerState
  <1>3. /\ numThreads_' = numThreads_ /\ functors' = functors /\ alive' = alive
        /\ conn' = [conn EXCEPT ![c] = r] /\ loopOf' = [loopOf EXCEPT ![c] = h]
        /\ connections_' = connections_ \cup {c}
        /\ pending' = [pending EXCEPT ![h] = @ \o a]
    BY DEF NewIn
  <1>4. /\ conn'[c] = r /\ loopOf'[c] = h
        /\ \A d \in Conns \ {c} : conn'[d] = conn[d] /\ loopOf'[d] = loopOf[d]
    BY <1>2, <1>3
  <1>5. /\ conn' \in [Conns -> ConnType \cup {None}]
        /\ loopOf' \in [Conns -> AllLoops]
    BY <1>2, <1>3 DEF Good
  <1>6. Created' = Created \cup {c}
    <2>1. r # None
      BY DEF Good, ConnType, None
    <2> QED
      BY <1>4, <2>1 DEF Created
  <1>7. \A l \in Loops : Absent(Queue(l), c)
    <2>1. \A l \in Loops : \A i \in 1 .. Len(Queue(l)) : Placed(Queue(l)[i], l)
      BY <1>1 DEF Queues
    <2> QED
      BY <2>1 DEF Placed, Absent
  <1>8. PICK N : N = [l \in Loops |-> IF l = h THEN Queue(l) \o a ELSE Queue(l)]
    OBVIOUS
  <1>9. ASSUME NEW l \in Loops
         PROVE  /\ N[l] \in Seq(Functor) /\ N[l] = functors'[l] \o pending'[l]
                /\ Moved(Queue(l), N[l], c, h, l)
                /\ NoTeardown(N[l], c)
                /\ IF r.state = "kConnecting" THEN Sole(N[l], c) ELSE Began(N[l], c)
    <2>1. PICK q \in Seq(Functor), x \in Seq(Functor), y \in Seq(Functor) :
            x = functors[l] /\ y = pending[l] /\ q = Queue(l) /\ q = x \o y
      BY <1>2 DEF Queue
    <2>2. Absent(q, c)
      BY <1>7, <2>1
    <2>3. CASE l = h
      <3>1. N[l] = q \o a /\ functors'[l] = x /\ pending'[l] = y \o a
        BY <1>2, <1>3, <1>8, <2>1, <2>3
      <3>2. /\ (x \o y) \o a \in Seq(Functor) /\ x \o (y \o a) = (x \o y) \o a
        BY TakenQueue
      <3>3. Moved(q, q \o a, c, h, l)
        BY <2>3 DEF Moved
      <3>4. /\ NoTeardown(q \o a, c)
            /\ IF r.state = "kConnecting" THEN Sole(q \o a, c) ELSE Began(q \o a, c)
        BY <2>2, PushAbsent DEF NewPushes
      <3> QED
        BY <2>1, <3>1, <3>2, <3>3, <3>4
    <2>4. CASE l # h
      <3>1. N[l] = q /\ functors'[l] = x /\ pending'[l] = y
        BY <1>2, <1>3, <1>8, <2>1, <2>4
      <3>2. NoTeardown(q, c) /\ Sole(q, c) /\ Began(q, c)
        BY <2>2, PushAbsent
      <3>3. Moved(q, q, c, h, l)
        BY MovedNot
      <3> QED
        BY <2>1, <3>1, <3>2, <3>3
    <2> QED
      BY <2>3, <2>4
  <1>10. N \in [Loops -> Seq(Functor)] /\ DOMAIN N = Loops
    BY <1>8, <1>9
  <1>11. StageOf(c, r, TRUE, h, N)
    BY <1>9, <1>10 DEF StageOf
  <1>12. Connections' /\ Queues' /\ AssertionsHold' /\ Lives'
    <2>1. \A d \in Conns \ {c} :
              /\ conn'[d] = conn[d] /\ loopOf'[d] = loopOf[d]
              /\ (d \in connections_') <=> (d \in connections_)
      BY <1>3, <1>4
    <2>2. \A l \in Loops : /\ N[l] = functors'[l] \o pending'[l]
                           /\ Moved(Queue(l), N[l], c, loopOf'[c], l)
      BY <1>4, <1>9
    <2>3. \A l \in Loops : IF conn'[c].state = "kConnecting"
                           THEN Sole(N[l], c) ELSE Began(N[l], c)
      BY <1>4, <1>9
    <2>4. /\ Good(conn'[c]) /\ Settled(conn'[c]) /\ loopOf'[c] \in Loops
          /\ conn'[c].state = "kConnecting" => loopOf'[c] # Base
          /\ ~conn'[c].failed /\ c \notin Created
      BY <1>4
    <2>5. StageOf(c, conn'[c], c \in connections_', loopOf'[c], N) /\ Life(conn'[c])
      <3>1. (c \in connections_') = TRUE
        BY <1>3
      <3> QED
        BY <1>4, <1>11, <3>1
    <2> QED
      BY <1>1, <1>3, <1>10, <2>1, <2>2, <2>3, <2>4, <2>5, OneConnection
  <1>13. pending' \in [AllLoops -> Seq(Functor)]
    <2>1. PICK y \in Seq(Functor) : y = pending[h]
      BY <1>2
    <2>2. y \o a \in Seq(Functor)
      BY ConcatAt
    <2> QED
      BY <1>2, <1>3, <2>1, <2>2
  <1> QED
    BY <1>4, <1>5, <1>6, <1>12, <1>13

\* A connection as its constructor leaves it
LEMMA NewFacts ==
    /\ Good(NewConnection) /\ Settled(NewConnection) /\ Life(NewConnection)
    /\ NewConnection.state = "kConnecting" /\ NewConnection.failed = FALSE
    /\ NewConnection.closing = FALSE
  <1>1. PICK k : k = NewConnection
    OBVIOUS
  <1>2. k \in ConnType
    <2>1. /\ {} \in SUBSET Events /\ Off \in (SUBSET Events) \cup {Off}
          /\ <<>> \in Seq(Nat) /\ <<>> \in Seq(Plain)
      OBVIOUS
    <2> QED
      BY <1>1, <2>1 DEF NewConnection, ConnType
  <1>3. /\ k.state = "kConnecting" /\ k.reading = TRUE /\ k.events = {}
        /\ k.index = "kNew" /\ k.watch = Off /\ k.out = <<>> /\ k.wire = <<>>
        /\ k.fin = FALSE /\ k.bytes = 0 /\ k.lost = FALSE /\ k.ups = 0
        /\ k.downs = 0 /\ k.todo = <<>> /\ k.delayed = FALSE
        /\ k.closing = FALSE /\ k.failed = FALSE /\ k.restarted = FALSE
    BY <1>1 DEF NewConnection
  <1>4. Stream(k)
    BY <1>3 DEF Stream, Numbered, Open
  <1> QED
    BY <1>1, <1>2, <1>3, <1>4 DEF Good, Settled, Life, Open

\* The base loop accepts a client: a connection of its own is established at
\* once, for one of another loop connectEstablished is queued.
LEMMA AcceptStep ==
    ASSUME ServerInv, ~Aborted, NEW c \in Conns, NEW u, NEW w \in Nat,
           accept(c, u, w)
    PROVE  ServerInv'
  <1>1. /\ numThreads_' = numThreads_ /\ started_' = started_ /\ phase' = phase
        /\ functors' = functors /\ alive' = alive
        /\ next_' = NextIndex /\ backlog' = backlog \ {c}
        /\ active' = [active EXCEPT ![Base] = @ \ {Acceptor}]
        /\ connections_' = connections_ \cup {c}
        /\ loopOf' = [loopOf EXCEPT ![c] = NextLoop]
        /\ c \in backlog /\ (u # "nothing" => calls < MaxCalls)
    BY DEF accept
  <1>2. ServerState /\ Batches /\ EventsFit
    BY DEF ServerInv
  <1>3. /\ pending \in [AllLoops -> Seq(Functor)]
        /\ active \in [AllLoops -> SUBSET (Event \cup {Acceptor})]
        /\ Loops \subseteq AllLoops /\ Base \in Loops /\ Loops' = Loops
        /\ calls \in 0 .. MaxCalls /\ timers \subseteq Created
    BY <1>1, <1>2, QueueType DEF ServerState, Loops
  <1>4. c \in Conns \ Created /\ c \notin Created
    BY <1>1, <1>2 DEF ServerState
  <1>5. /\ NextLoop \in Loops /\ next_' \in Nat /\ next_' < numThreads_ + 1
        /\ numThreads_ # 0 => next_' < numThreads_
    <2>1. /\ numThreads_ \in Nat /\ next_ \in Nat
          /\ numThreads_ # 0 => next_ < numThreads_
      BY <1>2, ServerAssumption DEF ServerState
    <2>2. NextLoop \in Loops
      BY <2>1 DEF NextLoop, Loops, Base
    <2> QED
      BY <1>1, <2>1, <2>2 DEF NextIndex
  <1>6. PICK h \in Loops : h = NextLoop
    BY <1>5
  <1>7. /\ Connections' /\ Queues' /\ AssertionsHold' /\ Lives'
        /\ conn' \in [Conns -> ConnType \cup {None}]
        /\ Created' = Created \cup {c}
        /\ loopOf' \in [Conns -> AllLoops]
        /\ pending' \in [AllLoops -> Seq(Functor)]
        /\ \A d \in Conns \ {c} : conn'[d] = conn[d] /\ loopOf'[d] = loopOf[d]
        /\ timers' \subseteq timers \cup {c} /\ calls' \in 0 .. MaxCalls
    <2>1. CASE NextLoop = Base
      <3>1. PICK k : k = connectEstablished(NewConnection, u, w)
        OBVIOUS
      <3>2. /\ conn' = [conn EXCEPT ![c] = Done(k)]
            /\ pending' = [pending EXCEPT ![Base] = @ \o Functors(k.todo, c)]
            /\ timers' = IF k.delayed THEN timers \cup {c} ELSE timers
            /\ calls' = IF u = "nothing" THEN calls ELSE calls + 1
        BY <2>1, <3>1 DEF accept
      <3>3. /\ Good(k) /\ Open(k) /\ k.closing = FALSE /\ k.failed = FALSE
            /\ Life(k) /\ k \in ConnType
        <4>1. PICK n : n = NewConnection
          OBVIOUS
        <4>2. /\ Good(n) /\ n.state = "kConnecting" /\ Life(n)
              /\ n.closing = FALSE /\ n.failed = FALSE
          BY <4>1, NewFacts
        <4> QED
          BY <3>1, <4>1, <4>2, EstablishFacts DEF Good
      <3>4. /\ Good(Done(k)) /\ Settled(Done(k)) /\ Life(Done(k))
            /\ ~Done(k).failed /\ Done(k).state = k.state
        BY <3>3, DoneFacts
      <3>5. Done(k).state # "kDisconnected" /\ Done(k).state # "kConnecting"
        BY <3>3, <3>4 DEF Open
      <3>6. PICK a : a = Functors(k.todo, c)
        OBVIOUS
      <3>7. /\ a \in Seq(Functor) /\ a \in Seq(Fit(c, Base, Base))
            /\ \A i \in 1 .. Len(a) : a[i].op # "connectEstablished"
        <4>1. Pushes(k, Base, Base) = k.todo
          BY <3>3 DEF Pushes
        <4> QED
          BY <3>3, <3>6, <4>1, PushedFunctors
      <3>8. \A i \in 1 .. Len(a) : a[i].op \notin TeardownOps
        <4>1. PICK t \in Seq(Plain) : t = k.todo
          BY <3>3 DEF ConnType
        <4>2. t \in Seq(Ops)
          BY DEF Ops
        <4>3. Len(a) = Len(t) /\ \A i \in 1 .. Len(t) : a[i] = [op |-> t[i], c |-> c]
          BY <3>6, <4>1, <4>2, FunctorsFacts
        <4>4. ASSUME NEW i \in 1 .. Len(t)
              PROVE  a[i].op \notin TeardownOps
          <5>1. t[i] \in Plain
            OBVIOUS
          <5>2. a[i] = [op |-> t[i], c |-> c]
            BY <4>3
          <5>3. a[i].op = t[i]
            BY ONLY <5>2
          <5> QED
            BY <5>1, <5>3 DEF Plain, TeardownOps
        <4> QED
          BY <4>3, <4>4
      <3>9. NewIn(c, Done(k), Base, a) /\ NewPushes(Done(k), a)
        BY <1>1, <2>1, <3>2, <3>5, <3>6, <3>7, <3>8 DEF NewIn, NewPushes
      <3>10. PICK r : r = Done(k)
        OBVIOUS
      <3>11. /\ Connections' /\ Queues' /\ AssertionsHold' /\ Lives'
             /\ conn' \in [Conns -> ConnType \cup {None}]
             /\ Created' = Created \cup {c}
             /\ loopOf' \in [Conns -> AllLoops]
             /\ pending' \in [AllLoops -> Seq(Functor)]
             /\ \A d \in Conns \ {c} : conn'[d] = conn[d] /\ loopOf'[d] = loopOf[d]
        BY <1>3, <1>4, <3>4, <3>5, <3>7, <3>9, <3>10, NewStep
      <3>12. calls' \in 0 .. MaxCalls
        BY <1>1, <1>3, <3>2, ServerAssumption
      <3> QED
        BY <3>2, <3>11, <3>12
    <2>2. CASE NextLoop # Base
      <3>1. PICK r, g : r = NewConnection /\ g = [op |-> "connectEstablished", c |-> c]
        OBVIOUS
      <3>2. /\ conn' = [conn EXCEPT ![c] = r]
            /\ pending' = [pending EXCEPT ![h] = Append(@, g)]
            /\ timers' = timers /\ calls' = calls
        BY <1>6, <2>2, <3>1 DEF accept
      <3>3. /\ Good(r) /\ Settled(r) /\ Life(r) /\ ~r.failed
            /\ r.state = "kConnecting"
        BY <3>1, NewFacts
      <3>4. g \in Functor /\ g \in Fit(c, h, h) /\ g.op = "connectEstablished"
        BY <3>1 DEF Functor, Ops, Fit
      <3>5. PICK a : a = <<g>>
        OBVIOUS
      <3>6. /\ a \in Seq(Functor) /\ a \in Seq(Fit(c, h, h)) /\ Len(a) = 1
            /\ a[1] = g /\ \A i \in 1 .. Len(a) : a[i] = g
        BY <3>4, <3>5
      <3>7. pending' = [pending EXCEPT ![h] = @ \o a]
        <4>1. PICK y \in Seq(Functor) : y = pending[h]
          BY <1>3
        <4>2. Append(y, g) = y \o a
          BY <3>4, <3>5, PushOne
        <4> QED
          BY <1>3, <3>2, <4>1, <4>2
      <3>8. NewIn(c, r, h, a) /\ NewPushes(r, a)
        BY <1>1, <1>6, <3>2, <3>3, <3>4, <3>6, <3>7 DEF NewIn, NewPushes, TeardownOps
      <3>9. /\ Connections' /\ Queues' /\ AssertionsHold' /\ Lives'
            /\ conn' \in [Conns -> ConnType \cup {None}]
            /\ Created' = Created \cup {c}
            /\ loopOf' \in [Conns -> AllLoops]
            /\ pending' \in [AllLoops -> Seq(Functor)]
            /\ \A d \in Conns \ {c} : conn'[d] = conn[d] /\ loopOf'[d] = loopOf[d]
        BY <1>4, <1>6, <2>2, <3>3, <3>6, <3>8, NewStep
      <3> QED
        BY <1>3, <3>2, <3>9
    <2> QED
      BY <2>1, <2>2
  <1>8. /\ active' \in [AllLoops -> SUBSET (Event \cup {Acceptor})]
        /\ \A m \in AllLoops : /\ active'[m] \subseteq active[m]
                               /\ active'[m] \ {Acceptor} = active[m] \ {Acceptor}
    BY <1>1, <1>3
  <1>9. ServerState'
    <2>1. /\ connections_' \subseteq Created' /\ timers' \subseteq Created'
          /\ backlog' \subseteq Conns \ Created'
      BY <1>1, <1>2, <1>7 DEF ServerState
    <2> QED
      BY <1>1, <1>2, <1>5, <1>7, <1>8, <2>1 DEF ServerState
  <1>10. \A m \in Loops : \A e \in active'[m] \ {Acceptor} :
            /\ e \in active[m] \ {Acceptor} /\ e.c \in Created /\ e.c \in Created'
            /\ conn'[e.c] = conn[e.c] /\ loopOf'[e.c] = loopOf[e.c]
    <2>1. \A m \in Loops : \A e \in active[m] \ {Acceptor} : e.c \in Created
      BY <1>2 DEF Batches
    <2> QED
      BY <1>3, <1>4, <1>7, <1>8, <2>1 DEF Created
  <1>11. Batches'
    <2> SUFFICES ASSUME NEW m \in Loops
                 PROVE  /\ phase[m] # "events" => active'[m] = {}
                        /\ phase[m] # "functors" => functors[m] = <<>>
                        /\ \A d \in active'[m] \ {Acceptor} :
                             /\ d.c \in Created' /\ loopOf'[d.c] = m
                             /\ conn'[d.c].state # "kConnecting"
                             /\ \A x \in active'[m] \ {Acceptor} : x.c = d.c => x = d
      BY <1>1, <1>3 DEF Batches
    <2>1. /\ phase[m] # "events" => active[m] = {}
          /\ phase[m] # "functors" => functors[m] = <<>>
          /\ \A d \in active[m] \ {Acceptor} :
               /\ d.c \in Created /\ loopOf[d.c] = m
               /\ conn[d.c].state # "kConnecting"
               /\ \A x \in active[m] \ {Acceptor} : x.c = d.c => x = d
      BY <1>2 DEF Batches
    <2>2. active'[m] \subseteq active[m]
      BY <1>3, <1>8
    <2> QED
      BY <1>10, <2>1, <2>2
  <1>12. EventsFit'
    BY <1>1, <1>2, <1>3, <1>10, SMTT(40) DEF EventsFit
  <1> QED
    BY <1>7, <1>9, <1>11, <1>12 DEF ServerInv

\* The destructor of the server, in its only loop
LEMMA DestroyStep ==
    ASSUME ServerInv, ~Aborted, destroy
    PROVE  ServerInv'
  <1>1. /\ numThreads_' = numThreads_ /\ next_' = next_ /\ started_' = started_
        /\ loopOf' = loopOf /\ phase' = phase /\ active' = active
        /\ functors' = functors /\ pending' = pending /\ calls' = calls
        /\ timers' = timers /\ alive' = FALSE /\ backlog' = {}
        /\ connections_' = {} /\ numThreads_ = 0
        /\ conn' = [c \in Conns |-> IF c \in connections_
                                    THEN connectDestroyed(conn[c]) ELSE conn[c]]
    BY DEF destroy
  <1>2. ServerState /\ Connections /\ Queues /\ Batches /\ Loops' = Loops
    BY <1>1 DEF ServerInv, Loops
  <1>3. ASSUME NEW c \in Created
        PROVE  /\ Good(conn'[c]) /\ Settled(conn'[c]) /\ conn'[c] \in ConnType
               /\ (conn'[c].state = "kConnecting") <=> (conn[c].state = "kConnecting")
    <2>1. PICK j, k : j = conn[c] /\ k = connectDestroyed(j)
      OBVIOUS
    <2>2. Good(j) /\ Settled(j)
      BY <1>2, <2>1 DEF Connections
    <2>3. /\ Good(k) /\ Settled(k)
          /\ (k.state = "kConnecting") <=> (j.state = "kConnecting")
      BY <2>1, <2>2, DestroyFacts DEF Settled
    <2>4. conn'[c] = j \/ conn'[c] = k
      BY <1>1, <2>1 DEF Created
    <2> QED
      BY <2>1, <2>2, <2>3, <2>4 DEF Good
  <1>4. /\ conn \in [Conns -> ConnType \cup {None}] /\ connections_ \subseteq Created
        /\ \A c \in Conns \ Created : conn'[c] = conn[c] /\ conn[c] = None
    BY <1>1, <1>2 DEF ServerState, Created
  <1>5. conn' \in [Conns -> ConnType \cup {None}] /\ Created' = Created
    <2>1. conn' \in [Conns -> ConnType \cup {None}]
      <3>1. \A c \in Conns : conn'[c] \in ConnType \cup {None}
        BY <1>3, <1>4
      <3>2. conn' = [c \in Conns |-> conn'[c]]
        BY <1>1
      <3> QED
        BY <3>1, <3>2
    <2>2. \A c \in Created : conn'[c] # None
      BY <1>3 DEF ConnType, None
    <2> QED
      BY <1>4, <2>1, <2>2 DEF Created
  <1>6. ServerState'
    BY <1>1, <1>2, <1>5 DEF ServerState
  <1>7. Connections'
    BY <1>1, <1>2, <1>3, <1>5 DEF Connections
  <1>8. Batches'
    BY <1>1, <1>2, <1>3, <1>5 DEF Batches
  <1>9. Queues'
    <2>1. \A l \in Loops : Queue(l)' = Queue(l)
      BY <1>1 DEF Queue
    <2>2. ASSUME NEW l \in Loops', NEW i \in 1 .. Len(Queue(l)')
          PROVE  Placed(Queue(l)[i], l)'
      <3>1. Placed(Queue(l)[i], l)
        BY <1>2, <2>1, <2>2 DEF Queues
      <3> QED
        BY <1>1, <1>2, <1>5, <2>1, <3>1 DEF Placed
    <2>3. \A l \in Loops : \A c \in Created :
            IF conn'[c].state = "kConnecting" THEN Sole(Queue(l)', c)
            ELSE Began(Queue(l)', c)
      BY <1>2, <1>3, <2>1 DEF Queues
    <2> QED
      BY <1>2, <1>5, <2>2, <2>3 DEF Queues
  <1>10. AssertionsHold' /\ Lives' /\ EventsFit'
    BY <1>1 DEF AssertionsHold, Lives, EventsFit
  <1> QED
    BY <1>6, <1>7, <1>8, <1>9, <1>10 DEF ServerInv

\* The server before it is started
LEMMA ServerInitInv ==
    ASSUME ServerInit
    PROVE  ServerInv
  <1>1. /\ numThreads_ \in 0 .. MaxIo /\ next_ = 0 /\ started_ = FALSE
        /\ alive = TRUE /\ calls = 0 /\ conn = [c \in Conns |-> None]
        /\ loopOf = [c \in Conns |-> Base] /\ connections_ = {}
        /\ backlog = {} /\ timers = {}
        /\ phase = [l \in AllLoops |-> "poll"]
        /\ active = [l \in AllLoops |-> {}]
        /\ pending = [l \in AllLoops |-> <<>>]
        /\ functors = [l \in AllLoops |-> <<>>]
    BY DEF ServerInit, AllLoops
  <1>2. /\ Created = {} /\ MaxIo \in Nat /\ MaxCalls \in Nat
        /\ Loops \subseteq AllLoops /\ Base \in AllLoops
    BY <1>1, ServerAssumption DEF Created, Loops, AllLoops, Base
  <1>3. ServerState
    <2>1. /\ <<>> \in Seq(Functor) /\ {} \in SUBSET (Event \cup {Acceptor})
      OBVIOUS
    <2>2. /\ pending \in [AllLoops -> Seq(Functor)]
          /\ functors \in [AllLoops -> Seq(Functor)]
          /\ active \in [AllLoops -> SUBSET (Event \cup {Acceptor})]
      BY <1>1, <2>1
    <2>3. /\ phase \in [AllLoops -> {"poll", "events", "functors"}]
          /\ loopOf \in [Conns -> AllLoops]
          /\ conn \in [Conns -> ConnType \cup {None}]
      BY <1>1, <1>2
    <2>4. /\ numThreads_ \in 0 .. MaxIo /\ next_ \in Nat /\ next_ < numThreads_ + 1
          /\ numThreads_ # 0 => next_ < numThreads_
          /\ calls \in 0 .. MaxCalls
      BY <1>1, <1>2
    <2> QED
      BY <1>1, <1>2, <2>2, <2>3, <2>4 DEF ServerState
  <1>4. \A l \in Loops : Queue(l) = <<>>
    BY <1>1, <1>2 DEF Queue
  <1>5. Connections /\ AssertionsHold /\ Lives
    BY <1>2 DEF Connections, AssertionsHold, Lives
  <1>6. Batches /\ EventsFit
    BY <1>1, <1>2 DEF Batches, EventsFit
  <1>7. Queues
    BY <1>2, <1>4 DEF Queues
  <1> QED
    BY <1>3, <1>5, <1>6, <1>7 DEF ServerInv

\* Every step keeps the invariant, a step that changes nothing too.
LEMMA ServerStep ==
    ASSUME ServerInv, [ServerNext]_serverVars
    PROVE  ServerInv'
  <1>1. CASE UNCHANGED serverVars
    <2>1. /\ numThreads_' = numThreads_ /\ next_' = next_ /\ started_' = started_
          /\ conn' = conn /\ loopOf' = loopOf /\ connections_' = connections_
          /\ backlog' = backlog /\ timers' = timers /\ phase' = phase
          /\ active' = active /\ pending' = pending /\ functors' = functors
          /\ alive' = alive /\ calls' = calls
      BY <1>1 DEF serverVars
    <2>2. \A l \in Loops : Queue(l)' = Queue(l)
      BY <2>1 DEF Queue
    <2>3. /\ Connections' /\ Queues' /\ AssertionsHold' /\ Lives'
          /\ Created' = Created
      BY <2>1, <2>2, QuietStep
    <2>4. ServerState'
      BY <2>1, <2>3 DEF ServerInv, ServerState
    <2>5. Batches' /\ EventsFit'
      BY <2>1, SameBatches
    <2> QED
      BY <2>3, <2>4, <2>5 DEF ServerInv
  <1>2. CASE ServerNext
    <2>1. ~Aborted
      BY <1>2 DEF ServerNext
    <2>2. \A b : Writes(b) \subseteq Nat
      BY ConnectionAssumption DEF Writes
    <2>3. CASE start
      BY <2>1, <2>3, StartStep
    <2>4. ASSUME NEW c \in Conns, clientConnects(c)
          PROVE  ServerInv'
      BY <2>1, <2>4, ClientStep
    <2>5. CASE destroy
      BY <2>1, <2>5, DestroyStep
    <2>6. ASSUME NEW l \in Loops, LoopStep(l)
          PROVE  ServerInv'
      <3>1. ASSUME NEW data, NEW writable, poll(l, data, writable)
            PROVE  ServerInv'
        BY <2>1, <3>1, PollStep
      <3>2. ASSUME NEW e, NEW u, NEW w \in Nat, event(l, e, u, w)
            PROVE  ServerInv'
        BY <2>1, <3>2, EventStep
      <3>3. CASE takeFunctors(l)
        BY <2>1, <3>3, TakeStep
      <3>4. ASSUME NEW u, NEW w \in Nat, functor(l, u, w)
            PROVE  ServerInv'
        BY <2>1, <3>4, FunctorStep
      <3>5. CASE functorsDone(l)
        BY <2>1, <3>5, FunctorsDoneStep
      <3>6. ASSUME NEW c \in Conns, NEW u, NEW w \in Nat, accept(c, u, w)
            PROVE  ServerInv'
        BY <2>1, <3>6, AcceptStep
      <3>7. ASSUME NEW c \in Conns, acceptNoFd(c)
            PROVE  ServerInv'
        BY <2>1, <3>7, NoFdStep
      <3>8. CASE removeConnectionInLoop
        BY <2>1, <3>8, RemoveStep
      <3> QED
        BY <2>2, <2>6, <3>1, <3>2, <3>3, <3>4, <3>5, <3>6, <3>7, <3>8 DEF LoopStep
    <2>7. ASSUME NEW c \in Conns, NEW u, NEW w \in Nat, userCode(c, u, w)
          PROVE  ServerInv'
      BY <2>1, <2>7, UserStep
    <2>8. ASSUME NEW c \in Conns, timerFires(c)
          PROVE  ServerInv'
      BY <2>1, <2>8, TimerStep
    <2>9. ASSUME NEW c \in Conns, NEW how \in {"closed", "reset"}, peerLeaves(c, how)
          PROVE  ServerInv'
      BY <2>1, <2>9, PeerStep
    <2> QED
      BY <1>2, <2>2, <2>3, <2>4, <2>5, <2>6, <2>7, <2>8, <2>9 DEF ServerNext
  <1> QED
    BY <1>1, <1>2

-----------------------------------------------------------------------------
(* What the invariant says of the properties *)

\* The streams are in order.
LEMMA StreamHolds ==
    ASSUME ServerInv
    PROVE  StreamInv
  <1>1. ASSUME NEW c \in Created
        PROVE  LET k == conn[c]
                   all == k.wire \o k.out
               IN  /\ \A i \in DOMAIN all : all[i] = i
                   /\ ~k.lost => Len(all) = k.bytes
                   /\ k.fin => k.out = <<>>
                   /\ k.out # <<>> /\ Open(k) => isWriting(k)
    <2>1. PICK k : k = conn[c]
      OBVIOUS
    <2>2. k \in ConnType /\ Stream(k)
      BY <2>1 DEF ServerInv, Connections, Good
    <2>3. PICK s \in Seq(Nat), t \in Seq(Nat), e \in Nat, f \in Nat :
            s = k.wire /\ t = k.out /\ e = Len(s) /\ f = k.bytes
      BY <2>2 DEF ConnType
    <2>4. Numbered(s, 0, e) /\ (~k.lost => Numbered(t, e, f)) /\ (k.lost => t = <<>>)
      BY <2>2, <2>3 DEF Stream
    <2>5. PICK W \in Seq(Nat) : W = s \o t
      BY Joined
    <2>6. ASSUME NEW g \in Nat, Numbered(W, 0, g)
          PROVE  Len(W) = g /\ \A i \in DOMAIN W : W[i] = i
      BY <2>6 DEF Numbered
    <2>7. CASE ~k.lost
      <3>1. Numbered(W, 0, f)
        BY <2>4, <2>5, <2>7, Joined
      <3>2. Len(W) = f /\ \A i \in DOMAIN W : W[i] = i
        BY <2>6, <3>1
      <3> QED
        BY <2>1, <2>2, <2>3, <2>5, <3>2 DEF Stream
    <2>8. CASE k.lost
      <3>1. W = s
        BY <2>4, <2>5, <2>8
      <3>2. \A i \in DOMAIN W : W[i] = i
        BY <2>4, <2>6, <3>1
      <3> QED
        BY <2>1, <2>2, <2>3, <2>5, <2>8, <3>2 DEF Stream
    <2> QED
      BY <2>7, <2>8
  <1> QED
    BY <1>1 DEF StreamInv, BytesInOrder, ShutdownAfterData

\* A functor in the queue of a loop is one of those the loop holds.
LEMMA QueuedFunctor ==
    ASSUME ServerState, NEW l \in Loops, NEW i \in 1 .. Len(Queue(l))
    PROVE  Queue(l)[i] \in Queued(l)
  <1>1. /\ functors \in [AllLoops -> Seq(Functor)] /\ pending \in [AllLoops -> Seq(Functor)]
        /\ Loops \subseteq AllLoops
    BY QueueType DEF ServerState
  <1>2. PICK x \in Seq(Functor), y \in Seq(Functor) : x = functors[l] /\ y = pending[l]
    BY <1>1
  <1>3. PICK q \in Seq(Functor) : q = x \o y /\ q = Queue(l)
    BY <1>2, ConcatAt DEF Queue
  <1>4. q[i] \in Range(q)
    BY <1>3 DEF Range
  <1>5. Range(x \o y) = Range(x) \cup Range(y)
    BY RangeConcat
  <1> QED
    BY <1>2, <1>3, <1>4, <1>5 DEF Queued

\* The places of the teardown of c, in terms of the functors that wait
LEMMA TeardownPlaces ==
    ASSUME ServerState, NEW c \in Conns, NEW l \in Loops
    PROVE  /\ NoTeardown(Queue(l), c) => Teardown(c, l) = {}
           /\ OneTeardown(Queue(l), c, "removeConnectionInLoop") \/ LastTeardown(Queue(l), c) =>
                \E i \in DOMAIN Queue(l) : Teardown(c, l) = {i}
  <1>1. PICK q \in Seq(Functor) : q = Queue(l)
    BY QueueType
  <1>2. \A f \in Functor :
          f \in [op : {"connectDestroyed", "removeConnectionInLoop"}, c : {c}] <=>
             f.c = c /\ f.op \in TeardownOps
    BY DEF Functor, TeardownOps
  <1>3. DOMAIN q = 1 .. Len(q) /\ \A i \in 1 .. Len(q) : q[i] \in Functor
    OBVIOUS
  <1>4. PICK T : T = {i \in 1 .. Len(q) : q[i].c = c /\ q[i].op \in TeardownOps}
    OBVIOUS
  <1>5. Teardown(c, l) = T
    BY <1>1, <1>2, <1>3, <1>4 DEF Teardown
  <1>6. NoTeardown(q, c) => T = {}
    BY <1>4 DEF NoTeardown
  <1>7. ASSUME OneTeardown(q, c, "removeConnectionInLoop")
        PROVE  \E i \in 1 .. Len(q) : T = {i}
    <2>1. PICK i \in 1 .. Len(q) :
            /\ q[i] = [op |-> "removeConnectionInLoop", c |-> c]
            /\ \A j \in (1 .. Len(q)) \ {i} : q[j].c = c => q[j].op \notin TeardownOps
      BY <1>7 DEF OneTeardown
    <2>2. T = {i}
      BY <1>4, <2>1 DEF TeardownOps
    <2> QED
      BY <2>2
  <1>8. ASSUME LastTeardown(q, c)
        PROVE  \E i \in 1 .. Len(q) : T = {i}
    <2>1. PICK i \in 1 .. Len(q) :
            /\ q[i] = [op |-> "connectDestroyed", c |-> c]
            /\ \A j \in 1 .. Len(q) :
                 /\ j < i /\ q[j].c = c => q[j].op \notin TeardownOps
                 /\ j > i => q[j].c # c
      BY <1>8 DEF LastTeardown
    <2>2. \A j \in 1 .. Len(q) : j = i \/ j < i \/ j > i
      OBVIOUS
    <2>3. T = {i}
      BY <1>4, <2>1, <2>2 DEF TeardownOps
    <2> QED
      BY <2>3
  <1> QED
    BY <1>1, <1>3, <1>5, <1>6, <1>7, <1>8

\* The teardown is where the properties say it is.
LEMMA TeardownHolds ==
    ASSUME ServerInv
    PROVE  TeardownInv
  <1>1. ServerState /\ Connections /\ Queues /\ Lives
    BY DEF ServerInv
  <1>2. \A l \in Loops : Queue(l) \in Seq(Functor)
    BY <1>1, QueueType
  <1>3. ServerTypeOK
    <2>1. /\ numThreads_ \in 0 .. MaxIo /\ next_ \in Nat /\ calls \in 0 .. MaxCalls
          /\ {started_, alive} \subseteq BOOLEAN
          /\ connections_ \cup timers \subseteq Created
      BY <1>1 DEF ServerState
    <2>2. \A c \in Created :
            /\ conn[c].state \in {"kDisconnected", "kConnecting", "kConnected",
                                  "kDisconnecting"}
            /\ conn[c].watch = Off \/ conn[c].watch \subseteq {"read", "write"}
            /\ loopOf[c] \in Loops
      BY <1>1 DEF Connections, Good, ConnType, Events
    <2>3. \A l \in Loops : phase[l] \in {"poll", "events", "functors"}
      BY <1>1, QueueType DEF ServerState
    <2> QED
      BY <2>1, <2>2, <2>3 DEF ServerTypeOK
  <1>4. ASSUME alive, ~Aborted, NEW c \in Created
        PROVE  /\ conn[c].ups <= 1 /\ conn[c].downs <= conn[c].ups
               /\ c \notin Existing =>
                    /\ conn[c].ups = 1 /\ conn[c].downs = 1
                    /\ conn[c].state = "kDisconnected" /\ conn[c].index = "kNew"
               /\ c \in connections_ \/ conn[c].state = "kDisconnected"
               /\ conn[c].downs = 1 /\ conn[c].index # "kNew" =>
                    \E l \in Loops : \E i \in DOMAIN Queue(l) :
                        /\ Teardown(c, l) = {i}
                        /\ \A m \in Loops \ {l} : Teardown(c, m) = {}
    <2>1. PICK k, h, Q : k = conn[c] /\ h = loopOf[c] /\ Q = [l \in Loops |-> Queue(l)]
      OBVIOUS
    <2>2. /\ Life(k) /\ StageOf(c, k, c \in connections_, h, Q)
          /\ k \in ConnType /\ h \in Loops /\ Base \in Loops /\ c \in Conns
          /\ DOMAIN Q = Loops /\ \A l \in Loops : Q[l] = Queue(l)
      BY <1>1, <1>4, <2>1, QueueType DEF Lives, Stage, Connections, Good, Created
    <2>3. k.ups <= 1 /\ k.downs <= k.ups
      BY <2>2 DEF Life, ConnType, Open
    <2>4. c \in connections_ \/ k.state = "kDisconnected"
      BY <2>2 DEF StageOf
    <2>5. ASSUME c \notin Existing
          PROVE  /\ k.ups = 1 /\ k.downs = 1
                 /\ k.state = "kDisconnected" /\ k.index = "kNew"
      <3>1. c \notin connections_ /\ \A l \in Loops : \A f \in Queued(l) : f.c # c
        BY <2>5 DEF Existing, Referenced
      <3>2. Absent(Queue(h), c)
        BY <1>1, <2>2, <3>1, QueuedFunctor DEF Absent
      <3>3. ~LastTeardown(Queue(h), c)
        BY <3>2 DEF Absent, LastTeardown
      <3> QED
        BY <2>2, <3>1, <3>3 DEF StageOf, Life
    <2>6. ASSUME k.downs = 1, k.index # "kNew"
          PROVE  \E l \in Loops : \E i \in DOMAIN Queue(l) :
                     /\ Teardown(c, l) = {i}
                     /\ \A m \in Loops \ {l} : Teardown(c, m) = {}
      <3>1. k.state = "kDisconnected"
        BY <2>2, <2>6 DEF Life, ConnType, Open
      <3>2. ASSUME NEW m \in Loops, m # Base, m # h
            PROVE  Teardown(c, m) = {}
        <4>1. \A i \in 1 .. Len(Queue(m)) : Placed(Queue(m)[i], m)
          BY <1>1 DEF Queues
        <4>2. NoTeardown(Queue(m), c)
          BY <2>1, <3>2, <4>1 DEF Placed, NoTeardown
        <4> QED
          BY <1>1, <2>2, <4>2, TeardownPlaces
      <3>3. CASE /\ c \in connections_ /\ h # Base
                 /\ OneTeardown(Q[Base], c, "removeConnectionInLoop")
                 /\ NoTeardown(Q[h], c)
        <4>1. PICK i \in DOMAIN Queue(Base) : Teardown(c, Base) = {i}
          BY <1>1, <2>2, <3>3, TeardownPlaces
        <4>2. Teardown(c, h) = {}
          BY <1>1, <2>2, <3>3, TeardownPlaces
        <4> QED
          BY <2>2, <3>2, <4>1, <4>2
      <3>4. CASE /\ LastTeardown(Q[h], c)
                 /\ h # Base => NoTeardown(Q[Base], c)
        <4>1. PICK i \in DOMAIN Queue(h) : Teardown(c, h) = {i}
          BY <1>1, <2>2, <3>4, TeardownPlaces
        <4>2. h # Base => Teardown(c, Base) = {}
          BY <1>1, <2>2, <3>4, TeardownPlaces
        <4> QED
          BY <2>2, <3>2, <4>1, <4>2
      <3> QED
        BY <2>2, <2>6, <3>1, <3>3, <3>4 DEF StageOf
    <2> QED
      BY <2>1, <2>3, <2>4, <2>5, <2>6
  <1>5. UpThenDown
    BY <1>4 DEF UpThenDown
  <1>6. TableAgrees
    BY <1>4 DEF TableAgrees
  <1>7. TeardownQueued
    BY <1>4 DEF TeardownQueued
  <1> QED
    BY <1>3, <1>5, <1>6, <1>7 DEF TeardownInv

-----------------------------------------------------------------------------
(* Theorems *)

(* TcpServer keeps ServerInv: what the state of a connection means for its
   callbacks, its channel and its streams, where its teardown is, and which
   events and functors may wait for it.                                      *)
THEOREM ServerInvariant == ServerSpec => []ServerInv
  <1>1. ServerInit => ServerInv
    BY ServerInitInv
  <1>2. ServerInv /\ [ServerNext]_serverVars => ServerInv'
    BY ServerStep
  <1> QED
    BY <1>1, <1>2, PTL DEF ServerSpec

(* While the server lives, no assertion of TcpConnection, TcpServer or Channel
   fails for a connection on which the user has neither stopped reading nor
   started it once it was down: nothing closes such a connection twice.      *)
THEOREM AssertionsDoHold == ServerSpec => []AssertionsHold
  <1>1. ServerInv => AssertionsHold
    BY DEF ServerInv
  <1> QED
    BY <1>1, ServerInvariant, PTL

(* A connection is announced once and taken down once, and its teardown, which
   passes from its loop to the base loop and back, is in exactly one place.  *)
THEOREM TeardownsAreOrderly == ServerSpec => []TeardownInv
  <1>1. ServerInv => TeardownInv
    BY TeardownHolds
  <1> QED
    BY <1>1, ServerInvariant, PTL

(* The bytes a connection has written and those in outputBuffer_ are what the
   user sent, in order, and shutdown comes after all of them.                *)
THEOREM StreamsAreKept == ServerSpec => []StreamInv
  <1>1. ServerInv => StreamInv
    BY StreamHolds
  <1> QED
    BY <1>1, ServerInvariant, PTL
=============================================================================
