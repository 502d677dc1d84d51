--------------------------- MODULE TcpClientProof ---------------------------
(***************************************************************************)
(* Machine-checked proofs about TcpClient: the assertions of client,       *)
(* Connector and connection hold, a client that was not stopped always has *)
(* an attempt on its way, a connection that outlives it is closed, and     *)
(* stop is final.                                                          *)
(***************************************************************************)
EXTENDS TcpClient, TcpProof

-----------------------------------------------------------------------------
(* The functors the client's loop is to run, in order, and where they are.   *)

StopInLoop == [op |-> "stopInLoop", c |-> 0]
ResetChannel == [op |-> "resetChannel", c |-> 0]
ForceClose(c) == [op |-> "forceCloseInLoop", c |-> c]
Destroyed(c) == [op |-> "connectDestroyed", c |-> c]

ConnectorOps == {"stopInLoop", "resetChannel"}
ClientFunctor ==
    [op : ConnectorOps, c : {0}] \cup
    [op : {"forceCloseInLoop", "connectDestroyed"}, c : Nat \ {0}]

ClientQueue == batch \o queue

\* f is queued at exactly one place.
Once(q, f) ==
    \E i \in 1 .. Len(q) : q[i] = f /\ \A j \in 1 .. Len(q) : q[j] = f => j = i

\* resetChannel is queued, before every functor of connection c.
ResetFirst(q, c) ==
    \E i \in 1 .. Len(q) :
        q[i] = ResetChannel /\ \A j \in 1 .. i : q[j].c # c

-----------------------------------------------------------------------------
(* The inductive invariant of the client                                     *)

ConnectorType ==
    [connect : BOOLEAN, state : {"kDisconnected", "kConnecting", "kConnected"},
     delay : kInitRetryDelay .. kMaxRetryDelay, channel : BOOLEAN,
     registered : BOOLEAN, sock : {"none", "pending", "ok", "refused", "self"},
     retryTimer : 0 .. RetryRounds + 1, fatal : BOOLEAN,
     todo : Seq(ConnectorOps),
     failed : SUBSET (Lifetime \cup {"connecting", "startInLoop", "handleWrite"})]

\* What may fail when something comes too soon
Faults == Lifetime \cup {"connecting"}
Sooner == {"timer", "~TcpClient", "~TcpConnection"}

ClientEvent == [c : Nat, data : BOOLEAN, revents : SUBSET Revent]

ClientState ==
    /\ exists \in BOOLEAN /\ connect_ \in BOOLEAN /\ retry_ \in BOOLEAN
    /\ called \in BOOLEAN /\ stopped \in BOOLEAN
    /\ links \in Seq(ConnType) /\ connection_ \in 0 .. Len(links)
    /\ connector \in ConnectorType /\ connector.todo = <<>>
    /\ closeTimers \subseteq 1 .. Len(links) /\ held \subseteq 1 .. Len(links)
    /\ tooSoon \subseteq Sooner
    /\ removeTimer \in 0 .. RemoveRounds + 1
    /\ stage \in {"poll", "events", "functors"}
    /\ ready \subseteq ClientEvent
    /\ queue \in Seq(ClientFunctor) /\ batch \in Seq(ClientFunctor)
    /\ \A f \in Range(ClientQueue) : f.c \in 0 .. Len(links)

\* Before connect() the Connector is as it was made.
Uncalled ==
    ~called => /\ connector = NewConnector /\ links = <<>> /\ exists
               /\ ClientQueue = <<>> /\ ~stopped

\* The channel of the Connector is registered while it connects, and a retry
\* is due only when it does not.
ConnectorShape ==
    /\ connector.registered <=> connector.state = "kConnecting"
    /\ connector.state # "kDisconnected" => connector.retryTimer = 0
    /\ connector.state = "kConnected" /\ connector.connect => links # <<>>

\* Once told to stop, the Connector is not restarted; and without its client
\* it has been stopped, or has connected.
StopHolds ==
    /\ called /\ ~connector.connect => ~connect_ \/ ~exists
    /\ StopInLoop \in Range(ClientQueue) => ~connector.connect
    /\ stopped => ~connector.connect
    /\ ~exists => connection_ = 0 /\
                  (~connector.connect \/ connector.state = "kConnected")

\* The channel is reset before the Connector may connect again.
ChannelHolds ==
    connector.channel /\ ~connector.registered =>
        /\ ResetChannel \in Range(ClientQueue)
        /\ connector.connect =>
             /\ connector.retryTimer <= 1
             /\ stage # "poll"
             /\ stage = "events" => ResetChannel \in Range(queue)
             /\ stage = "functors" => ResetChannel \in Range(batch)
             /\ exists /\ connection_ # 0 => ResetFirst(ClientQueue, connection_)
             /\ \A e \in ready : e.c = 0

\* The timer of ~TcpClient counts the rounds in which functors that were queued
\* before have been run; what is queued while functors run waits a round more.
RemoveHolds ==
    /\ exists => removeTimer = 0
    /\ tooSoon = {} /\ ~exists =>
          /\ connector.failed = {}
          /\ connector.state = "kConnecting" => StopInLoop \in Range(ClientQueue)
          /\ StopInLoop \in Range(ClientQueue) => removeTimer \in 1 .. 2
          /\ ResetChannel \in Range(ClientQueue) => removeTimer \in 1 .. 3
          /\ stage = "functors" =>
               /\ StopInLoop \in Range(queue) => removeTimer = 1
               /\ ResetChannel \in Range(queue) => removeTimer \in 1 .. 2

\* A connection as its handlers leave it
Healthy(k) ==
    /\ Good(k) /\ Settled(k) /\ Life(k) /\ k.reading /\ ~k.restarted
    /\ ~k.failed /\ k.state # "kConnecting"

Links ==
    \A c \in 1 .. Len(links) :
        /\ Healthy(links[c])
        /\ Open(links[c]) =>
             /\ Destroyed(c) \notin Range(ClientQueue)
             /\ IF exists THEN c = connection_
                ELSE ForceClose(c) \in Range(ClientQueue) \/ c \in held
        /\ ~Open(links[c]) =>
             IF links[c].index = "kNew" THEN Destroyed(c) \notin Range(ClientQueue)
             ELSE Once(ClientQueue, Destroyed(c))

\* The client holds a connection while it is open, and the Connector rests.
Held ==
    /\ connection_ # 0 =>
         /\ Open(links[connection_]) /\ connector.state = "kConnected"
    /\ exists /\ connector.state = "kConnected" /\ connection_ = 0 =>
         ~retry_ \/ ~connect_
    /\ exists /\ called /\ connector.connect /\ ~connector.fatal
         /\ connector.state = "kDisconnected" => connector.retryTimer > 0

\* Events wait only while they are handled, functors only while they are run.
Rounds ==
    /\ stage # "events" => ready = {}
    /\ stage # "functors" => batch = <<>>
    /\ \A e \in ready :
         /\ e.c = 0 => connector.state = "kConnecting"
         /\ e.c # 0 => e.c \in 1 .. Len(links) /\ Open(links[e.c])
         /\ \A d \in ready : d.c = e.c => d = e

ClientIInv ==
    /\ ClientState /\ Uncalled /\ ConnectorShape /\ StopHolds /\ ChannelHolds
    /\ RemoveHolds /\ Links /\ Held /\ Rounds
    /\ connector.failed \subseteq Faults
    /\ (tooSoon = {} => connector.failed = {})

-----------------------------------------------------------------------------
(* Sequences of functors *)

\* What a functor at the end of the queue changes.
LEMMA PushQueue ==
    ASSUME NEW S, NEW q \in Seq(S), NEW r \in Seq(S)
    PROVE  /\ q \o r \in Seq(S) /\ Range(q \o r) = Range(q) \cup Range(r)
           /\ \A f : Once(q, f) /\ f \notin Range(r) => Once(q \o r, f)
           /\ \A f : f \notin Range(q) /\ Once(r, f) => Once(q \o r, f)
           /\ \A c : ResetFirst(q, c) => ResetFirst(q \o r, c)
  <1> DEFINE W == q \o r
  <1>1. PICK p \in Nat, n \in Nat : p = Len(q) /\ n = Len(r)
    OBVIOUS
  <1>2. /\ W \in Seq(S) /\ Len(W) = p + n /\ \A i \in 1 .. p : W[i] = q[i]
        /\ \A i \in 1 .. n : W[p + i] = r[i]
    BY <1>1, ConcatAt
  <1>3. \A i \in 1 .. (p + n) : i > p => i - p \in 1 .. n /\ W[i] = r[i - p]
    <2> SUFFICES ASSUME NEW i \in 1 .. (p + n), i > p
                 PROVE  i - p \in 1 .. n /\ W[i] = r[i - p]
      OBVIOUS
    <2>1. i - p \in 1 .. n /\ p + (i - p) = i
      OBVIOUS
    <2> QED
      BY <1>2, <2>1
  <1>4. \A i \in 1 .. p : q[i] \in Range(q)
    BY <1>1, RangeEquality
  <1>5. \A i \in 1 .. n : r[i] \in Range(r)
    BY <1>1, RangeEquality
  <1> HIDE DEF W
  <1>6. ASSUME NEW f, Once(q, f), f \notin Range(r)
        PROVE  Once(W, f)
    <2>1. PICK i \in 1 .. p : q[i] = f /\ \A j \in 1 .. p : q[j] = f => j = i
      BY <1>1, <1>6 DEF Once
    <2>2. i \in 1 .. (p + n) /\ W[i] = f
      BY <1>2, <2>1
    <2>3. ASSUME NEW j \in 1 .. (p + n), W[j] = f
          PROVE  j = i
      <3>1. CASE j > p
        BY <1>3, <1>5, <1>6, <2>3, <3>1
      <3>2. CASE ~(j > p)
        BY <1>2, <2>1, <2>3, <3>2
      <3> QED
        BY <3>1, <3>2
    <2> QED
      BY <1>2, <2>2, <2>3 DEF Once
  <1>7. ASSUME NEW f, f \notin Range(q), Once(r, f)
        PROVE  Once(W, f)
    <2>1. PICK i \in 1 .. n : r[i] = f /\ \A j \in 1 .. n : r[j] = f => j = i
      BY <1>1, <1>7 DEF Once
    <2>2. p + i \in 1 .. (p + n) /\ W[p + i] = f
      BY <1>2, <2>1
    <2>3. ASSUME NEW j \in 1 .. (p + n), W[j] = f
          PROVE  j = p + i
      <3>1. j > p
        BY <1>2, <1>4, <1>7, <2>3
      <3>2. j - p \in 1 .. n /\ W[j] = r[j - p]
        BY <1>3, <3>1
      <3>3. j - p = i
        BY <2>1, <2>3, <3>2
      <3> QED
        BY <2>1, <3>3, <1>1
    <2> QED
      BY <1>2, <2>2, <2>3 DEF Once
  <1>8. ASSUME NEW c, ResetFirst(q, c)
        PROVE  ResetFirst(W, c)
    <2>1. PICK i \in 1 .. p : q[i] = ResetChannel /\ \A j \in 1 .. i : q[j].c # c
      BY <1>1, <1>8 DEF ResetFirst
    <2>2. i \in 1 .. (p + n) /\ W[i] = ResetChannel
      BY <1>2, <2>1
    <2>3. ASSUME NEW j \in 1 .. i
          PROVE  W[j].c # c
      <3>1. j \in 1 .. p
        OBVIOUS
      <3> QED
        BY <1>2, <2>1, <3>1
    <2> QED
      BY <1>2, <2>2, <2>3 DEF ResetFirst
  <1> QED
    BY <1>2, <1>6, <1>7, <1>8, RangeConcat DEF W

\* What the first functor leaves when it has been taken.
LEMMA PopQueue ==
    ASSUME NEW S, NEW q \in Seq(S), q # <<>>
    PROVE  /\ Tail(q) \in Seq(S) /\ Head(q) \in S /\ Head(q) \in Range(q)
           /\ Range(q) = Range(Tail(q)) \cup {Head(q)}
           /\ \A f : Once(q, f) /\ Head(q) # f => Once(Tail(q), f)
           /\ \A f : Once(q, f) /\ Head(q) = f => f \notin Range(Tail(q))
           /\ \A c : ResetFirst(q, c) /\ Head(q) # ResetChannel =>
                       ResetFirst(Tail(q), c)
           /\ \A c : ResetFirst(q, c) => Head(q).c # c
  <1> DEFINE W == Tail(q)
  <1>1. PICK p \in Nat : p = Len(q) /\ p > 0
    OBVIOUS
  <1>2. /\ W \in Seq(S) /\ Len(W) = p - 1 /\ Head(q) = q[1] /\ Head(q) \in S
        /\ \A i \in 1 .. (p - 1) : W[i] = q[i + 1] /\ i + 1 \in 1 .. p
    BY <1>1
  <1>3. Range(q) = Range(W) \cup {Head(q)}
    BY RangeFacts
  <1> HIDE DEF W
  <1>4. Range(W) = {W[i] : i \in 1 .. (p - 1)}
    BY <1>2, RangeEquality
  <1>5. ASSUME NEW f, Once(q, f), Head(q) # f
        PROVE  Once(W, f)
    <2>1. PICK i \in 1 .. p : q[i] = f /\ \A j \in 1 .. p : q[j] = f => j = i
      BY <1>1, <1>5 DEF Once
    <2>2. i - 1 \in 1 .. (p - 1) /\ W[i - 1] = f
      <3>1. i # 1
        BY <1>2, <1>5, <2>1
      <3>2. i - 1 \in 1 .. (p - 1) /\ (i - 1) + 1 = i
        BY <3>1
      <3> QED
        BY <1>2, <2>1, <3>2
    <2>3. \A j \in 1 .. (p - 1) : W[j] = f => j = i - 1
      BY <1>2, <2>1, SMTT(40)
    <2> QED
      BY <1>2, <2>2, <2>3 DEF Once
  <1>6. ASSUME NEW f, Once(q, f), Head(q) = f
        PROVE  f \notin Range(W)
    <2>1. PICK i \in 1 .. p : q[i] = f /\ \A j \in 1 .. p : q[j] = f => j = i
      BY <1>1, <1>6 DEF Once
    <2>2. \A j \in 1 .. p : q[j] = f => j = 1
      BY <1>1, <1>2, <1>6, <2>1
    <2>3. \A j \in 1 .. (p - 1) : W[j] # f
      BY <1>2, <2>2
    <2> QED
      BY <1>4, <2>3
  <1>7. ASSUME NEW c, ResetFirst(q, c)
        PROVE  Head(q).c # c /\ (Head(q) # ResetChannel => ResetFirst(W, c))
    <2>1. PICK i \in 1 .. p : q[i] = ResetChannel /\ \A j \in 1 .. i : q[j].c # c
      BY <1>1, <1>7 DEF ResetFirst
    <2>2. Head(q).c # c
      BY <1>2, <2>1
    <2>3. ASSUME Head(q) # ResetChannel
          PROVE  ResetFirst(W, c)
      <3>1. i # 1
        BY <1>2, <2>1, <2>3
      <3>2. i - 1 \in 1 .. (p - 1) /\ (i - 1) + 1 = i
        BY <3>1
      <3>3. W[i - 1] = ResetChannel
        BY <1>2, <2>1, <3>2
      <3>4. ASSUME NEW j \in 1 .. (i - 1)
            PROVE  W[j].c # c
        <4>1. j \in 1 .. (p - 1) /\ j + 1 \in 1 .. i
          OBVIOUS
        <4> QED
          BY <1>2, <2>1, <4>1
      <3> QED
        BY <1>2, <3>2, <3>3, <3>4 DEF ResetFirst
    <2> QED
      BY <2>2, <2>3
  <1> QED
    BY <1>2, <1>3, <1>5, <1>6, <1>7 DEF W

\* The functors of one member function, and of none.
LEMMA FewFunctors ==
    ASSUME NEW op, NEW c
    PROVE  /\ ClientFunctors(<<op>>, c) = <<[op |-> op, c |-> c]>>
           /\ ClientFunctors(<<>>, c) = <<>>
           /\ Range(<<[op |-> op, c |-> c]>>) = {[op |-> op, c |-> c]}
           /\ Range(<<>>) = {}
           /\ Once(<<[op |-> op, c |-> c]>>, [op |-> op, c |-> c])
  <1> DEFINE f == [op |-> op, c |-> c]
  <1>1. ClientFunctors(<<op>>, c) = <<f>>
    BY DEF ClientFunctors
  <1>2. ClientFunctors(<<>>, c) = <<>>
    BY DEF ClientFunctors
  <1>3. Range(<<f>>) = {f} /\ Range(<<>>) = {}
    BY DEF Range
  <1>4. Once(<<f>>, f)
    BY DEF Once
  <1> QED
    BY <1>1, <1>2, <1>3, <1>4

-----------------------------------------------------------------------------
(* The user of a client leaves the reading of a connection alone.            *)

Reads(k) ==
    {"reading", "restarted"} \subseteq DOMAIN k /\ k.reading /\ ~k.restarted

LEMMA ReadsUpdate ==
    ASSUME NEW k, Reads(k), NEW ev
    PROVE  Reads(update(k, ev))
  BY DEF Reads, update

LEMMA ReadsDone ==
    ASSUME NEW k, Reads(k), NEW b
    PROVE  Reads(Check(k, b)) /\ Reads(Done(k))
  BY DEF Reads, Check, Done

LEMMA ReadsUser ==
    ASSUME NEW k, Reads(k), NEW u, u \notin {"startRead", "stopRead"}, NEW w
    PROVE  Reads(UserCall(k, u, w))
  <1>1. Reads(shutdown(k)) /\ Reads(forceClose(k)) /\ Reads(forceCloseWithDelay(k))
    BY DEF Reads, shutdown, shutdownInLoop, forceClose, forceCloseWithDelay, Do
  <1>2. ASSUME NEW data
        PROVE  Reads(sendInLoop(k, data, w))
    <2> DEFINE n == IF Direct(k) THEN Written(k, data, w) ELSE 0
               remaining == SubSeq(data, n + 1, Len(data))
               k1 == [k EXCEPT !.wire = @ \o SubSeq(data, 1, n), !.bytes = @ + Len(data)]
               k2 == IF /\ Len(k.out) + Len(remaining) >= HighWaterMark
                        /\ Len(k.out) < HighWaterMark
                     THEN Do(k1, "highWaterMarkCallback") ELSE k1
               k3 == [k2 EXCEPT !.out = @ \o remaining]
    <2>1. Reads(k1)
      BY DEF Reads
    <2>2. Reads(k2) /\ Reads(Do(k1, "writeCompleteCallback"))
      <3> HIDE DEF k1, remaining
      <3> QED
        BY <2>1 DEF Reads, Do
    <2>3. Reads(k3)
      <3> HIDE DEF k2, remaining
      <3> QED
        BY <2>2 DEF Reads
    <2>4. Reads([k1 EXCEPT !.lost = TRUE])
      <3> HIDE DEF k1
      <3> QED
        BY <2>1 DEF Reads
    <2>5. Reads(enableWriting(k3))
      <3> HIDE DEF k3
      <3> QED
        BY <2>3, ReadsUpdate DEF enableWriting
    <2>6. sendInLoop(k, data, w) \in {k, k3, enableWriting(k3), [k1 EXCEPT !.lost = TRUE],
                                     Do(k1, "writeCompleteCallback")}
      BY Zenon DEF sendInLoop
    <2> HIDE DEF k1, k3
    <2> QED
      BY <2>1, <2>2, <2>3, <2>4, <2>5, <2>6
  <1>3. Reads(send(k, w))
    BY <1>2 DEF send
  <1> QED
    BY <1>1, <1>3 DEF UserCall

\* Nor do its handlers and functors change it.
LEMMA ReadsHandlers ==
    ASSUME NEW k, Reads(k), NEW revents, NEW data,
           NEW u, u \notin {"startRead", "stopRead"}, NEW w
    PROVE  /\ Reads(handleEvent(k, revents, data, u, w))
           /\ Reads(forceCloseInLoop(k)) /\ Reads(connectDestroyed(k))
           /\ Reads(connectEstablished(k, u, w))
  <1>2. ASSUME NEW x, Reads(x)
        PROVE  Reads(handleClose(x))
    <2> DEFINE y == [Check(x, Open(x)) EXCEPT !.state = "kDisconnected"]
               z == disableAll(y)
    <2>1. Reads(y)
      BY <1>2 DEF Reads, Check
    <2>2. Reads(z)
      <3> HIDE DEF y
      <3> QED
        BY <2>1, ReadsUpdate DEF disableAll
    <2>3. Reads([z EXCEPT !.downs = @ + 1, !.closing = TRUE])
      <3> HIDE DEF z
      <3> QED
        BY <2>2 DEF Reads
    <2> QED
      BY <2>3 DEF handleClose
  <1>3. ASSUME NEW x, Reads(x)
        PROVE  Reads(handleError(x))
    BY <1>3 DEF Reads, handleError
  <1>4. ASSUME NEW x, Reads(x)
        PROVE  Reads(handleRead(x, data, u, w))
    BY <1>2, <1>3, <1>4, ReadsUser DEF handleRead
  <1>5. ASSUME NEW x, Reads(x)
        PROVE  Reads(handleWrite(x, w))
    <2> DEFINE n == Written(x, x.out, w)
               k1 == [x EXCEPT !.out = SubSeq(@, n + 1, Len(@)),
                               !.wire = @ \o SubSeq(x.out, 1, n)]
               k2 == Do(disableWriting(k1), "writeCompleteCallback")
    <2>1. Reads(k1)
      BY <1>5 DEF Reads
    <2>2. Reads(k2)
      <3> DEFINE y == disableWriting(k1)
      <3> HIDE DEF k1
      <3>1. Reads(y)
        BY <2>1, ReadsUpdate DEF disableWriting
      <3> HIDE DEF y
      <3> QED
        <4>1. Reads(Do(y, "writeCompleteCallback"))
          BY <3>1 DEF Reads, Do
        <4> QED
          BY <4>1 DEF y
    <2>3. Reads(shutdownInLoop(k2))
      <3> HIDE DEF k2
      <3> QED
        BY <2>2 DEF Reads, shutdownInLoop
    <2>4. handleWrite(x, w) \in {x, k1, k2, shutdownInLoop(k2)}
      BY Zenon DEF handleWrite
    <2> HIDE DEF k1, k2
    <2> QED
      BY <1>5, <2>1, <2>2, <2>3, <2>4
  <1>6. Reads(handleEvent(k, revents, data, u, w))
    <2> DEFINE k1 == IF "HUP" \in revents /\ "IN" \notin revents
                     THEN handleClose(k) ELSE k
               k2 == IF "ERR" \in revents THEN handleError(k1) ELSE k1
               k3 == IF "IN" \in revents THEN handleRead(k2, data, u, w) ELSE k2
    <2>1. Reads(k1)
      BY <1>2
    <2>2. Reads(k2)
      <3> HIDE DEF k1
      <3> QED
        BY <1>3, <2>1
    <2>3. Reads(k3)
      <3> HIDE DEF k2
      <3> QED
        BY <1>4, <2>2
    <2>4. Reads(handleWrite(k3, w))
      <3> HIDE DEF k3
      <3> QED
        BY <1>5, <2>3
    <2>5. handleEvent(k, revents, data, u, w) \in {k3, handleWrite(k3, w)}
      BY Zenon DEF handleEvent
    <2> HIDE DEF k3
    <2> QED
      BY <2>3, <2>4, <2>5
  <1>7. ASSUME NEW x, Reads(x)
        PROVE  Reads(remove(x))
    BY <1>7 DEF Reads, remove, Check
  <1>8. Reads(connectDestroyed(k))
    <2> DEFINE y == [k EXCEPT !.state = "kDisconnected", !.downs = @ + 1]
    <2>1. Reads(y)
      BY DEF Reads
    <2>2. Reads(disableAll(y))
      <3> HIDE DEF y
      <3> QED
        BY <2>1, ReadsUpdate DEF disableAll
    <2> QED
      BY <1>7, <2>2 DEF connectDestroyed
  <1>9. Reads(connectEstablished(k, u, w))
    <2> DEFINE y == [Check(k, k.state = "kConnecting")
                        EXCEPT !.state = "kConnected", !.ups = @ + 1]
    <2>1. Reads(y)
      BY DEF Reads, Check
    <2>2. Reads(enableReading(y))
      <3> HIDE DEF y
      <3> QED
        BY <2>1, ReadsUpdate DEF enableReading
    <2> HIDE DEF y
    <2>3. connectEstablished(k, u, w) = UserCall(enableReading(y), u, w)
      BY DEF connectEstablished, y
    <2> QED
      BY <2>2, <2>3, ReadsUser
  <1> QED
    BY <1>2, <1>6, <1>8, <1>9 DEF forceCloseInLoop

\* What a handler may leave of a connection: it is still open, or was closed,
\* once, and closeCallback_ has been called.
Handled(k) ==
    /\ Good(k) /\ Life(k) /\ k.reading /\ ~k.restarted /\ ~k.failed
    /\ k.state # "kConnecting"
    /\ k.closing => ~Open(k) /\ k.index # "kNew"

LEMMA DoneHealthy ==
    ASSUME NEW k, Handled(k), NEW b, b
    PROVE  /\ Healthy(Done(Check(k, b))) /\ Healthy(Done(k))
           /\ (Open(Done(Check(k, b))) <=> Open(k)) /\ (Open(Done(k)) <=> Open(k))
           /\ Done(Check(k, b)).index = k.index /\ Done(k).index = k.index
  <1>1. Reads(k)
    BY DEF Handled, Good, ConnType, Reads
  <1>2. Reads(Done(k)) /\ Reads(Check(k, b))
    BY <1>1, ReadsDone
  <1>3. Reads(Done(Check(k, b)))
    BY <1>2, ReadsDone
  <1>4. Open(Done(k)) <=> Open(k)
    BY DoneFacts DEF Open, Handled
  <1> QED
    BY <1>2, <1>3, <1>4, DoneFacts DEF Healthy, Handled, Reads

\* An event on an open connection
LEMMA EventHandled ==
    ASSUME NEW k, Healthy(k), Open(k), NEW revents, NEW data,
           NEW u, u \notin {"startRead", "stopRead"}, NEW w \in Nat
    PROVE  LET r == handleEvent(k, revents, data, u, w) IN
           Handled(r) /\ (r.closing <=> ~Open(r))
  <1> DEFINE r == handleEvent(k, revents, data, u, w)
  <1>1. Reads(k)
    BY DEF Healthy, Good, ConnType, Reads
  <1>2. Reads(r)
    BY <1>1, ReadsHandlers
  <1>3. Good(r) /\ r.state # "kConnecting" /\ (Keeps(k, r) \/ Closes(k, r))
    BY EventFacts DEF Healthy
  <1> HIDE DEF r
  <1>4. Life(k) /\ ~k.failed /\ ~k.closing /\ k.state # "kConnecting" /\ k.index # "kNew"
    BY DEF Healthy, Settled, Life
  <1>5. ASSUME Keeps(k, r) PROVE Handled(r) /\ (r.closing <=> ~Open(r))
    <2>1. Life(r)
      BY <1>4, <1>5, KeepsFacts
    <2> QED
      BY <1>2, <1>3, <1>4, <1>5, <2>1 DEF Keeps, Handled, Reads
  <1>6. ASSUME Closes(k, r) PROVE Handled(r) /\ (r.closing <=> ~Open(r))
    BY <1>2, <1>3, <1>4, <1>6 DEF Closes, Handled, Reads, Open
  <1> QED
    BY <1>3, <1>5, <1>6 DEF r

\* forceCloseInLoop closes an open connection, and only that.
LEMMA ForceHandled ==
    ASSUME NEW k, Healthy(k)
    PROVE  LET r == forceCloseInLoop(k) IN
           /\ Handled(r) /\ ~Open(r) /\ (r.closing <=> Open(k))
           /\ ~Open(k) => r = k
  <1>1. Reads(k) /\ Life(k) /\ ~k.failed /\ ~k.closing /\ Good(k)
    BY DEF Healthy, Settled, Good, ConnType, Reads
  <1>2. CASE Open(k)
    <2>1. forceCloseInLoop(k) = handleClose(k)
      BY <1>2 DEF forceCloseInLoop
    <2>2. Good(handleClose(k)) /\ Closes(k, handleClose(k)) /\ Reads(forceCloseInLoop(k))
      BY <1>1, CloseFacts, ReadsHandlers
    <2> QED
      BY <1>1, <1>2, <2>1, <2>2 DEF Closes, Handled, Reads, Open
  <1>3. CASE ~Open(k)
    BY <1>1, <1>3 DEF forceCloseInLoop, Handled, Healthy, Reads
  <1> QED
    BY <1>2, <1>3

\* connectDestroyed comes once, after the close.
LEMMA DestroyHandled ==
    ASSUME NEW k, Healthy(k), ~Open(k), k.index # "kNew"
    PROVE  LET r == connectDestroyed(k) IN
           /\ Handled(r) /\ ~Open(r) /\ r.index = "kNew" /\ ~r.closing
           /\ r.todo = <<>> /\ ~r.delayed
  <1>1. /\ Reads(k) /\ Life(k) /\ ~k.failed /\ Good(k) /\ Settled(k)
        /\ k.state = "kDisconnected"
    BY DEF Healthy, Good, ConnType, Reads, Open
  <1>2. Reads(connectDestroyed(k))
    BY <1>1, ReadsHandlers
  <1> QED
    BY <1>1, <1>2, DestroyFacts DEF Handled, Settled, Reads, Open

\* forceClose and shutdown leave an open connection open.
LEMMA CloseCallsHandled ==
    ASSUME NEW k, Healthy(k)
    PROVE  /\ Handled(forceClose(k)) /\ (Open(forceClose(k)) <=> Open(k))
           /\ ~forceClose(k).closing /\ forceClose(k).index = k.index
           /\ Open(k) => "forceCloseInLoop" \in Range(forceClose(k).todo)
           /\ ~Open(k) => forceClose(k) = k
           /\ Handled(shutdown(k)) /\ (Open(shutdown(k)) <=> Open(k))
           /\ ~shutdown(k).closing /\ shutdown(k).todo = <<>> /\ ~shutdown(k).delayed
  <1>1. Reads(k) /\ Life(k) /\ ~k.failed /\ Good(k) /\ Settled(k) /\ k.state # "kConnecting"
    BY DEF Healthy, Good, ConnType, Reads
  <1>2. /\ UserCall(k, "forceClose", 0) = forceClose(k)
        /\ UserCall(k, "shutdown", 0) = shutdown(k)
    BY DEF UserCall
  <1>3. /\ Good(forceClose(k)) /\ Keeps(k, forceClose(k)) /\ Reads(forceClose(k))
        /\ forceClose(k).state # "kConnecting"
    BY <1>1, <1>2, UserCallFacts, ReadsUser
  <1>4. /\ Good(shutdown(k)) /\ Keeps(k, shutdown(k)) /\ Reads(shutdown(k))
        /\ shutdown(k).state # "kConnecting"
    BY <1>1, <1>2, UserCallFacts, ReadsUser
  <1>5. Life(forceClose(k)) /\ Life(shutdown(k))
    BY <1>1, <1>3, <1>4, KeepsFacts
  <1>6. shutdown(k).todo = k.todo /\ shutdown(k).delayed = k.delayed
    BY <1>1 DEF shutdown, shutdownInLoop, Good, ConnType
  <1>7. forceClose(k).index = k.index
    BY <1>1 DEF forceClose, Do, Good, ConnType
  <1>8. ASSUME Open(k)
        PROVE  "forceCloseInLoop" \in Range(forceClose(k).todo)
    <2>1. forceClose(k).todo = Append(k.todo, "forceCloseInLoop")
      BY <1>1, <1>8 DEF forceClose, Do, Good, ConnType
    <2>2. k.todo = <<>>
      BY <1>1 DEF Settled
    <2>3. Append(<<>>, "forceCloseInLoop") = <<"forceCloseInLoop">>
      OBVIOUS
    <2> QED
      BY <2>1, <2>2, <2>3 DEF Range
  <1>9. ~Open(k) => forceClose(k) = k
    BY DEF forceClose
  <1> QED
    BY <1>1, <1>3, <1>4, <1>5, <1>6, <1>7, <1>8, <1>9
       DEF Handled, Keeps, Settled, Reads

\* A call of the user on a connection that it keeps; one that is down is left
\* as it is.
LEMMA CallHandled ==
    ASSUME NEW k, Healthy(k), NEW u, u \notin {"startRead", "stopRead"}, NEW w \in Nat
    PROVE  LET r == UserCall(k, u, w) IN
           Handled(r) /\ (Open(r) <=> Open(k)) /\ ~r.closing /\ (~Open(k) => r = k)
  <1> DEFINE r == UserCall(k, u, w)
  <1>1. Reads(k) /\ Life(k) /\ ~k.failed /\ Good(k) /\ ~k.closing /\ k.state # "kConnecting"
    BY DEF Healthy, Settled, Good, ConnType, Reads
  <1>2. Reads(r) /\ Good(r) /\ Keeps(k, r) /\ r.state # "kConnecting"
    BY <1>1, ReadsUser, UserCallFacts
  <1>3. ~Open(k) => r = k
    BY DEF UserCall, send, shutdown, forceClose, forceCloseWithDelay, Open
  <1> HIDE DEF r
  <1>4. Life(r)
    BY <1>1, <1>2, KeepsFacts
  <1> QED
    BY <1>1, <1>2, <1>3, <1>4 DEF Handled, Keeps, Reads, r

\* A new connection, with what the user does in the callback.
LEMMA NewHandled ==
    ASSUME NEW u, u \notin {"startRead", "stopRead"}, NEW w \in Nat
    PROVE  LET r == connectEstablished(NewConnection, u, w) IN
           Handled(r) /\ Open(r) /\ ~r.closing
  <1>1. Reads(NewConnection)
    BY DEF Reads, NewConnection
  <1>2. Reads(connectEstablished(NewConnection, u, w))
    BY <1>1, ReadsHandlers
  <1> QED
    BY <1>2, NewFacts, EstablishFacts DEF Handled, Reads, Open

-----------------------------------------------------------------------------
(* The Connector *)

LEMMA RetryFacts ==
    ASSUME NEW x \in ConnectorType
    PROVE  LET y == retry(x) IN
           /\ y \in ConnectorType /\ y.state = "kDisconnected"
           /\ y.connect = x.connect /\ y.channel = x.channel
           /\ y.registered = x.registered /\ y.fatal = x.fatal
           /\ y.todo = x.todo /\ y.failed = x.failed
           /\ y.retryTimer = IF x.connect THEN 1 ELSE x.retryTimer
  <1>1. NextDelay(x.delay) \in kInitRetryDelay .. kMaxRetryDelay
    BY ClientAssumption DEF ClientAssumption, NextDelay, Smaller, ConnectorType
  <1>2. Reset(x) \in ConnectorType
    BY DEF Reset, ConnectorType
  <1>3. 1 \in 0 .. RetryRounds + 1
    BY DEF RetryRounds
  <1>4. CASE x.connect
    <2>1. retry(x) = [x EXCEPT !.sock = "none", !.state = "kDisconnected",
                               !.retryTimer = 1, !.delay = NextDelay(x.delay)]
      BY <1>4 DEF retry, Reset, ConnectorType
    <2> QED
      BY <1>1, <1>3, <1>4, <2>1 DEF ConnectorType
  <1>5. CASE ~x.connect
    BY <1>2, <1>5 DEF retry, Reset, ConnectorType
  <1> QED
    BY <1>4, <1>5

\* startInLoop: its assertion on the channel holds once that has been reset.
LEMMA StartFacts ==
    ASSUME NEW x \in ConnectorType, NEW r \in {"progress", "again", "fatal"},
           x.state = "kDisconnected", x.retryTimer = 0, ~x.registered,
           x.todo = <<>>
    PROVE  LET y == startInLoop(x, r) IN
           /\ y \in ConnectorType /\ y.todo = <<>>
           /\ (~x.connect \/ ~x.channel => y.failed = x.failed)
           /\ (x.failed \subseteq Faults => y.failed \subseteq Faults)
           /\ y.connect = x.connect /\ y.state # "kConnected"
           /\ (y.registered <=> y.state = "kConnecting")
           /\ (y.state # "kDisconnected" => y.retryTimer = 0)
           /\ (y.channel /\ ~y.registered => x.channel) /\ y.retryTimer <= 1
           /\ (y.connect /\ ~y.fatal /\ y.state = "kDisconnected" => y.retryTimer > 0)
           /\ (~x.connect => y = x)
  <1> DEFINE y == startInLoop(x, r)
  <1>1. CASE ~x.connect
    <2>1. y = x
      BY <1>1 DEF startInLoop, Require
    <2> QED
      BY <1>1, <2>1 DEF ConnectorType
  <1>2. CASE x.connect /\ r = "progress"
    <2> DEFINE z == Require(x, "connecting", ~x.channel)
    <2>1. /\ z \in ConnectorType /\ z.todo = <<>> /\ z.connect = x.connect
          /\ z.retryTimer = 0 /\ (~x.channel => z.failed = x.failed)
          /\ (x.failed \subseteq Faults => z.failed \subseteq Faults)
      <3>1. CASE ~x.channel
        BY <3>1 DEF Require
      <3>2. CASE x.channel
        BY <3>2 DEF Require, ConnectorType, Faults
      <3> QED
        BY <3>1, <3>2
    <2>2. y = [z EXCEPT !.state = "kConnecting", !.channel = TRUE,
                        !.registered = TRUE, !.sock = "pending"]
      <3>1. Require(x, "startInLoop", x.state = "kDisconnected") = x
        BY DEF Require
      <3> QED
        BY <1>2, <3>1 DEF startInLoop, connectSocket, connecting
    <2> HIDE DEF z
    <2>3. /\ y \in ConnectorType /\ y.todo = z.todo /\ y.failed = z.failed
          /\ y.connect = z.connect /\ y.state = "kConnecting" /\ y.registered
          /\ y.retryTimer = z.retryTimer
      BY <2>1, <2>2, ZenonT(60) DEF ConnectorType
    <2> HIDE DEF y
    <2>4. y.retryTimer <= 1
      BY <2>1, <2>3
    <2> QED
      BY <1>2, <2>1, <2>3, <2>4, Zenon DEF y
  <1>3. CASE x.connect /\ r = "again"
    <2>1. y = retry(x)
      BY <1>3 DEF startInLoop, Require, connectSocket
    <2>2. /\ y \in ConnectorType /\ y.state = "kDisconnected" /\ y.connect = x.connect
          /\ y.channel = x.channel /\ y.registered = x.registered
          /\ y.todo = x.todo /\ y.failed = x.failed /\ y.retryTimer = 1
      <3> HIDE DEF y
      <3> QED
        BY <1>3, <2>1, RetryFacts
    <2> HIDE DEF y
    <2>3. /\ y \in ConnectorType /\ y.todo = <<>> /\ y.failed = x.failed
          /\ y.connect = x.connect /\ y.state # "kConnected"
          /\ (y.registered <=> y.state = "kConnecting")
          /\ (y.state # "kDisconnected" => y.retryTimer = 0)
          /\ (y.channel => x.channel) /\ y.retryTimer > 0 /\ y.retryTimer <= 1
      BY <1>3, <2>2
    <2> QED
      BY <1>3, <2>3 DEF y
  <1>4. CASE x.connect /\ r = "fatal"
    <2>1. y = [x EXCEPT !.sock = "none", !.fatal = TRUE]
      BY <1>4 DEF startInLoop, Require, connectSocket
    <2>2. /\ y \in ConnectorType /\ y.todo = <<>> /\ y.failed = x.failed
          /\ y.connect = x.connect /\ y.state = x.state /\ ~y.registered
          /\ y.channel = x.channel /\ y.retryTimer = 0 /\ y.fatal
      BY <1>4, <2>1 DEF ConnectorType
    <2> HIDE DEF y
    <2>3. y.retryTimer <= 1 /\ y.state = "kDisconnected" /\ y.state # "kConnecting"
          /\ y.state # "kConnected"
      BY <2>2
    <2> QED
      BY <1>4, <2>2, <2>3, Zenon DEF y
  <1> QED
    BY <1>1, <1>2, <1>3, <1>4

LEMMA RestartFacts ==
    ASSUME NEW x \in ConnectorType, NEW r \in {"progress", "again", "fatal"},
           x.retryTimer = 0, ~x.registered, x.todo = <<>>, ~x.channel
    PROVE  LET y == restart(x, r) IN
           /\ y \in ConnectorType /\ y.todo = <<>> /\ y.failed = x.failed
           /\ y.connect /\ y.state # "kConnected"
           /\ (y.registered <=> y.state = "kConnecting")
           /\ (y.state # "kDisconnected" => y.retryTimer = 0)
           /\ (y.channel => y.registered)
           /\ (~y.fatal /\ y.state = "kDisconnected" => y.retryTimer > 0)
  <1> DEFINE z == [x EXCEPT !.state = "kDisconnected", !.connect = TRUE,
                            !.delay = kInitRetryDelay]
  <1>1. kInitRetryDelay \in kInitRetryDelay .. kMaxRetryDelay
    BY ClientAssumption DEF ClientAssumption
  <1>2. /\ z \in ConnectorType /\ z.state = "kDisconnected" /\ z.retryTimer = 0
        /\ ~z.registered /\ z.todo = <<>> /\ z.connect /\ ~z.channel
        /\ z.failed = x.failed
    BY <1>1 DEF ConnectorType
  <1>3. restart(x, r) = startInLoop(z, r)
    BY DEF restart
  <1> HIDE DEF z
  <1> QED
    BY <1>2, <1>3, StartFacts DEF ConnectorType

\* A handler of the channel of the Connector: the channel is taken out of the
\* poller and is to be reset, and a retry is due unless it has been stopped.
LEMMA ConnectorEventFacts ==
    ASSUME NEW x \in ConnectorType, x.state = "kConnecting", x.todo = <<>>,
           x.retryTimer = 0, NEW revents
    PROVE  LET x1 == IF "ERR" \in revents THEN connectorError(x) ELSE x
               y == connectorWrite(x1)
           IN  /\ y \in ConnectorType /\ y.todo = <<"resetChannel">>
               /\ y.failed = x.failed /\ y.connect = x.connect
               /\ y.fatal = x.fatal /\ ~y.registered
               /\ y.state # "kConnecting" /\ x1.connect = x.connect
               /\ y.retryTimer <= 1
               /\ (y.state = "kConnected" => y.retryTimer = 0)
               /\ (Connects(x1) <=> y.state = "kConnected" /\ y.connect)
               /\ (y.state = "kDisconnected" /\ y.connect => y.retryTimer = 1)
  <1> DEFINE z == removeAndResetChannel(x)
             x1 == IF "ERR" \in revents THEN connectorError(x) ELSE x
             y == connectorWrite(x1)
  <1>1. /\ z \in ConnectorType /\ z.todo = <<"resetChannel">> /\ ~z.registered
        /\ z.failed = x.failed /\ z.connect = x.connect /\ z.retryTimer = 0
        /\ z.fatal = x.fatal /\ z.state = "kConnecting"
    <2>1. Append(x.todo, "resetChannel") = <<"resetChannel">>
      BY DEF ConnectorType
    <2>2. z = [x EXCEPT !.registered = FALSE, !.todo = <<"resetChannel">>]
      BY <2>1 DEF removeAndResetChannel, ConnectorType
    <2>3. <<"resetChannel">> \in Seq(ConnectorOps)
      BY DEF ConnectorOps
    <2> QED
      BY <2>2, <2>3 DEF ConnectorType
  <1>2. /\ retry(z) \in ConnectorType /\ retry(z).state = "kDisconnected"
        /\ retry(z).connect = x.connect /\ ~retry(z).registered
        /\ retry(z).fatal = x.fatal /\ retry(z).todo = <<"resetChannel">>
        /\ retry(z).failed = x.failed
        /\ retry(z).retryTimer = IF x.connect THEN 1 ELSE 0
    <2> HIDE DEF z
    <2> QED
      BY <1>1, RetryFacts
  <1>3. CASE "ERR" \in revents
    <2>1. x1 = retry(z)
      BY <1>3 DEF connectorError
    <2>2. y = retry(z) /\ ~Connects(x1) /\ x1.connect = x.connect
      BY <1>2, <2>1 DEF connectorWrite, Require, Connects
    <2> QED
      BY <1>2, <1>3, <2>1, <2>2
  <1>4. CASE "ERR" \notin revents /\ x.sock # "ok"
    <2>1. x1 = x
      BY <1>4
    <2>2. y = retry(z) /\ ~Connects(x1) /\ x1.connect = x.connect
      BY <1>4, <2>1 DEF connectorWrite, Require, Connects
    <2> QED
      BY <1>2, <1>4, <2>2
  <1>5. CASE "ERR" \notin revents /\ x.sock = "ok"
    <2>1. x1 = x
      BY <1>5
    <2>2. y = [z EXCEPT !.state = "kConnected", !.sock = "none"]
          /\ (Connects(x1) <=> x.connect)
      BY <1>5, <2>1 DEF connectorWrite, Connects
    <2>3. /\ y \in ConnectorType /\ y.todo = <<"resetChannel">> /\ y.failed = x.failed
          /\ y.connect = x.connect /\ y.fatal = x.fatal /\ ~y.registered
          /\ y.state = "kConnected" /\ y.retryTimer = 0
      <3> HIDE DEF z
      <3>1. [z EXCEPT !.state = "kConnected", !.sock = "none"] \in ConnectorType
        BY <1>1 DEF ConnectorType
      <3> QED
        BY <1>1, <2>2, <3>1, ZenonT(60) DEF ConnectorType
    <2> HIDE DEF y, x1
    <2>4. x1.connect = x.connect
      BY <2>1
    <2> QED
      BY <2>2, <2>3, <2>4 DEF y, x1
  <1> QED
    BY <1>3, <1>4, <1>5

\* The owner has pushed what the Connector queued.
LEMMA EmptyTodo ==
    ASSUME NEW x \in ConnectorType
    PROVE  LET y == [x EXCEPT !.todo = <<>>] IN
           /\ y \in ConnectorType /\ y.todo = <<>>
           /\ y.connect = x.connect /\ y.state = x.state /\ y.channel = x.channel
           /\ y.registered = x.registered /\ y.retryTimer = x.retryTimer
           /\ y.fatal = x.fatal /\ y.failed = x.failed
           /\ (x.todo = <<>> => y = x)
  <1>1. <<>> \in Seq(ConnectorOps)
    OBVIOUS
  <1>2. [x EXCEPT !.todo = <<>>] \in ConnectorType
    BY <1>1 DEF ConnectorType
  <1>3. x.todo = <<>> => [x EXCEPT !.todo = <<>>] = x
    BY DEF ConnectorType
  <1> QED
    BY <1>2, <1>3 DEF ConnectorType

-----------------------------------------------------------------------------
(* The queue *)

LEMMA QueueFacts ==
    ASSUME ClientState
    PROVE  /\ ClientQueue \in Seq(ClientFunctor)
           /\ queue \in Seq(ClientFunctor) /\ batch \in Seq(ClientFunctor)
           /\ Range(ClientQueue) = Range(batch) \cup Range(queue)
           /\ ClientQueued = Range(ClientQueue)
           /\ batch # <<>> =>
                /\ ClientQueue # <<>> /\ Head(ClientQueue) = Head(batch)
                /\ Tail(ClientQueue) = Tail(batch) \o queue
                /\ Tail(batch) \in Seq(ClientFunctor) /\ Head(batch) \in ClientFunctor
                /\ Range(batch) = Range(Tail(batch)) \cup {Head(batch)}
           /\ batch = <<>> => ClientQueue = queue
  <1>1. queue \in Seq(ClientFunctor) /\ batch \in Seq(ClientFunctor)
    BY DEF ClientState
  <1>2. ClientQueue \in Seq(ClientFunctor)
        /\ Range(ClientQueue) = Range(batch) \cup Range(queue)
    BY <1>1, RangeConcat DEF ClientQueue
  <1>3. ASSUME batch # <<>>
        PROVE  /\ ClientQueue # <<>> /\ Head(ClientQueue) = Head(batch)
               /\ Tail(ClientQueue) = Tail(batch) \o queue
               /\ Tail(batch) \in Seq(ClientFunctor) /\ Head(batch) \in ClientFunctor
               /\ Range(batch) = Range(Tail(batch)) \cup {Head(batch)}
    <2>1. PICK p \in Nat, n \in Nat : p = Len(batch) /\ n = Len(queue) /\ p > 0
      BY <1>1, <1>3
    <2>2. /\ Len(ClientQueue) = p + n
          /\ \A i \in 1 .. p : ClientQueue[i] = batch[i]
          /\ \A i \in 1 .. n : ClientQueue[p + i] = queue[i]
      BY <1>1, <2>1, ConcatAt DEF ClientQueue
    <2>3. /\ Tail(batch) \in Seq(ClientFunctor) /\ Head(batch) \in ClientFunctor
          /\ Head(batch) = batch[1] /\ Len(Tail(batch)) = p - 1
          /\ \A i \in 1 .. (p - 1) : Tail(batch)[i] = batch[i + 1]
      BY <1>1, <1>3, <2>1
    <2>4. ClientQueue # <<>> /\ Head(ClientQueue) = Head(batch)
      BY <1>2, <2>1, <2>2, <2>3
    <2> DEFINE s == Tail(ClientQueue)
               t == Tail(batch) \o queue
    <2>5. /\ s \in Seq(ClientFunctor) /\ Len(s) = p + n - 1
          /\ \A i \in 1 .. (p + n - 1) : s[i] = ClientQueue[i + 1]
      BY <1>2, <2>1, <2>2, <2>4
    <2>6. /\ t \in Seq(ClientFunctor) /\ Len(t) = p + n - 1
          /\ \A i \in 1 .. (p - 1) : t[i] = batch[i + 1]
          /\ \A i \in 1 .. n : t[(p - 1) + i] = queue[i]
      BY <1>1, <2>1, <2>3, ConcatAt
    <2> HIDE DEF s, t
    <2>7. ASSUME NEW i \in 1 .. (p + n - 1)
          PROVE  s[i] = t[i]
      <3>1. CASE i < p
        <4>1. i \in 1 .. (p - 1) /\ i + 1 \in 1 .. p
          BY <3>1
        <4> QED
          BY <2>2, <2>5, <2>6, <4>1
      <3>2. CASE ~(i < p)
        <4>1. i - (p - 1) \in 1 .. n /\ (p - 1) + (i - (p - 1)) = i
              /\ p + (i - (p - 1)) = i + 1
          BY <3>2
        <4>2. t[i] = queue[i - (p - 1)] /\ s[i] = ClientQueue[i + 1]
          BY <2>5, <2>6, <4>1
        <4>3. ClientQueue[i + 1] = queue[i - (p - 1)]
          BY <2>2, <4>1
        <4> QED
          BY <4>2, <4>3
      <3> QED
        BY <3>1, <3>2
    <2>8. s = t
      BY <2>5, <2>6, <2>7, SeqEqual
    <2> QED
      BY <1>1, <1>3, <2>3, <2>4, <2>8, RangeFacts DEF s, t
  <1>4. batch = <<>> => ClientQueue = queue
    BY <1>1 DEF ClientQueue
  <1> QED
    BY <1>1, <1>2, <1>3, <1>4 DEF ClientQueued

\* What a handler of connection c pushes.
LEMMA PushedFacts ==
    ASSUME NEW c \in Nat \ {0}, NEW k
    PROVE  /\ Pushed(k, c) \in Seq(ClientFunctor)
           /\ Range(Pushed(k, c)) \subseteq {ForceClose(c)}
           /\ "forceCloseInLoop" \in Range(k.todo) =>
                ForceClose(c) \in Range(Pushed(k, c))
           /\ k.todo = <<>> => Pushed(k, c) = <<>>
  <1>1. ForceClose(c) \in ClientFunctor
    BY DEF ForceClose, ClientFunctor
  <1>2. CASE "forceCloseInLoop" \in Range(k.todo)
    <2>1. Pushed(k, c) = <<ForceClose(c)>> /\ Range(<<ForceClose(c)>>) = {ForceClose(c)}
      BY <1>2, FewFunctors DEF Pushed, ForceClose
    <2>2. k.todo # <<>>
      BY <1>2 DEF Range
    <2> QED
      BY <1>1, <2>1, <2>2
  <1>3. CASE "forceCloseInLoop" \notin Range(k.todo)
    <2>1. Pushed(k, c) = <<>> /\ Range(<<>>) = {}
      BY <1>3, FewFunctors DEF Pushed
    <2> QED
      BY <1>3, <2>1
  <1> QED
    BY <1>2, <1>3

\* What ClientSettle pushes: forceCloseInLoop, if it was queued, and on close
\* connectDestroyed.
LEMMA SettlePushes ==
    ASSUME NEW q \in Seq(ClientFunctor), NEW c \in Nat \ {0}, NEW k, NEW todo, todo = <<>>
    PROVE  \E s \in Seq(ClientFunctor) :
             /\ q \o Pushed(k, c) \o
                ClientFunctors(IF k.closing THEN <<"connectDestroyed">> ELSE <<>>, c)
                \o ClientFunctors(todo, 0) = q \o s
             /\ Range(s) \subseteq {ForceClose(c), Destroyed(c)}
             /\ k.closing => Once(s, Destroyed(c))
             /\ ~k.closing => Destroyed(c) \notin Range(s)
             /\ ~k.closing /\ k.todo = <<>> => s = <<>>
  <1> DEFINE A == Pushed(k, c)
             B == ClientFunctors(IF k.closing THEN <<"connectDestroyed">> ELSE <<>>, c)
             s == A \o B
  <1>1. Destroyed(c) \in ClientFunctor /\ Destroyed(c) # ForceClose(c)
    BY DEF Destroyed, ForceClose, ClientFunctor
  <1>2. /\ A \in Seq(ClientFunctor) /\ Range(A) \subseteq {ForceClose(c)}
        /\ k.todo = <<>> => A = <<>>
    BY PushedFacts
  <1>3. /\ k.closing => B = <<Destroyed(c)>> /\ Range(B) = {Destroyed(c)}
                        /\ Once(B, Destroyed(c))
        /\ ~k.closing => B = <<>> /\ Range(B) = {}
    BY FewFunctors DEF Destroyed
  <1>4. B \in Seq(ClientFunctor)
    <2> HIDE DEF B
    <2>1. CASE k.closing
      BY <1>1, <1>3, <2>1
    <2>2. CASE ~k.closing
      <3>1. B = <<>>
        BY <1>3, <2>2, Zenon
      <3> QED
        BY <3>1
    <2> QED
      BY <2>1, <2>2
  <1>5. ClientFunctors(todo, 0) = <<>>
    BY FewFunctors
  <1> HIDE DEF A, B
  <1>6. s \in Seq(ClientFunctor) /\ Range(s) = Range(A) \cup Range(B)
        /\ (Destroyed(c) \notin Range(A) /\ Once(B, Destroyed(c)) => Once(s, Destroyed(c)))
    BY <1>2, <1>4, PushQueue
  <1>7. q \o A \o B \o ClientFunctors(todo, 0) = q \o s
    <2>1. q \o A \o B \in Seq(ClientFunctor) /\ (q \o A) \o B = q \o s
      BY <1>2, <1>4, ConcatAssociative
    <2>2. (q \o A \o B) \o <<>> = q \o A \o B
      BY <2>1
    <2> QED
      BY <1>5, <2>1, <2>2
  <1>8. ~k.closing /\ k.todo = <<>> => s = <<>>
    BY <1>2, <1>3
  <1> HIDE DEF s
  <1>9. /\ s \in Seq(ClientFunctor)
        /\ q \o A \o B \o ClientFunctors(todo, 0) = q \o s
        /\ Range(s) \subseteq {ForceClose(c), Destroyed(c)}
        /\ (k.closing => Once(s, Destroyed(c)))
        /\ (~k.closing => Destroyed(c) \notin Range(s))
        /\ (~k.closing /\ k.todo = <<>> => s = <<>>)
    BY <1>1, <1>2, <1>3, <1>6, <1>7, <1>8
  <1> QED
    BY <1>9 DEF A, B

-----------------------------------------------------------------------------
(* A connection after its handler *)

\* The connections after a handler of c has run: k is what it left of c, p the
\* functors that still wait, s what it pushes.
LEMMA LinksAfter ==
    ASSUME ClientIInv, NEW c \in 1 .. Len(links), NEW k, Healthy(k), NEW closing,
           NEW p \in Seq(ClientFunctor), NEW s \in Seq(ClientFunctor),
           \/ p = ClientQueue
           \/ ClientQueue # <<>> /\ p = Tail(ClientQueue) /\ Head(ClientQueue).c = c,
           Range(s) \subseteq {ForceClose(c), Destroyed(c)},
           closing => Once(s, Destroyed(c)) /\ ~Open(k) /\ k.index # "kNew",
           ~closing => Destroyed(c) \notin Range(s),
           closing => Open(links[c]), Open(k) => Open(links[c]) /\ ~closing,
           held' = held,
           Open(k) /\ ~exists' =>
               ForceClose(c) \in Range(p) \cup Range(s) \/ c \in held,
           Open(k) /\ exists' => c = connection_',
           ~Open(k) /\ ~closing =>
               IF k.index = "kNew" THEN Destroyed(c) \notin Range(p)
               ELSE Once(p, Destroyed(c)),
           links' = [links EXCEPT ![c] = k], ClientQueue' = p \o s,
           \A d \in 1 .. Len(links) : d # c /\ Open(links[d]) =>
               IF exists' THEN d = connection_' ELSE ~exists
    PROVE  /\ Links' /\ links' \in Seq(ConnType) /\ Len(links') = Len(links)
           /\ ClientQueue' \in Seq(ClientFunctor)
           /\ \A f \in Range(ClientQueue') : f.c \in 0 .. Len(links')
  <1>1. /\ links \in Seq(ConnType) /\ Len(links) \in Nat /\ c \in Nat
        /\ \A f \in Range(ClientQueue) : f.c \in 0 .. Len(links)
        /\ ClientQueue \in Seq(ClientFunctor)
    BY QueueFacts DEF ClientIInv, ClientState
  <1>2. /\ links' \in Seq(ConnType) /\ Len(links') = Len(links) /\ links'[c] = k
        /\ \A d \in 1 .. Len(links) : d # c => links'[d] = links[d]
    <2>1. k \in ConnType
      BY DEF Healthy, Good
    <2> QED
      BY <1>1, <2>1
  <1>3. /\ Range(p) \subseteq Range(ClientQueue)
        /\ \A f : f \in Range(ClientQueue) /\ f.c # c => f \in Range(p)
        /\ \A f : Once(ClientQueue, f) /\ f.c # c => Once(p, f)
    <2>1. CASE p = ClientQueue
      BY <2>1
    <2>2. CASE ClientQueue # <<>> /\ p = Tail(ClientQueue) /\ Head(ClientQueue).c = c
      <3>1. /\ Range(ClientQueue) = Range(p) \cup {Head(ClientQueue)}
            /\ \A f : Once(ClientQueue, f) /\ Head(ClientQueue) # f => Once(p, f)
        BY <1>1, <2>2, PopQueue
      <3> QED
        BY <2>2, <3>1
    <2> QED
      BY <2>1, <2>2
  <1>4. /\ p \o s \in Seq(ClientFunctor) /\ Range(p \o s) = Range(p) \cup Range(s)
        /\ \A f : Once(p, f) /\ f \notin Range(s) => Once(p \o s, f)
        /\ \A f : f \notin Range(p) /\ Once(s, f) => Once(p \o s, f)
    BY PushQueue
  <1>5. /\ \A d : Destroyed(d).c = d /\ ForceClose(d).c = d
        /\ \A d : d # c => Destroyed(d) \notin Range(s)
        /\ \A d, e : ForceClose(d) # Destroyed(e)
    BY DEF Destroyed, ForceClose
  <1>6. ASSUME NEW f \in Range(ClientQueue')
        PROVE  f.c \in 0 .. Len(links')
    <2>1. f \in Range(ClientQueue) \/ f \in {ForceClose(c), Destroyed(c)}
      BY <1>3, <1>4
    <2> QED
      BY <1>1, <1>2, <1>5, <2>1
  <1>7. ASSUME NEW d \in 1 .. Len(links), d # c
        PROVE  /\ Healthy(links[d])
               /\ Open(links[d]) =>
                    /\ Destroyed(d) \notin Range(p \o s)
                    /\ IF exists' THEN d = connection_'
                       ELSE ForceClose(d) \in Range(p \o s) \/ d \in held
               /\ ~Open(links[d]) =>
                    IF links[d].index = "kNew" THEN Destroyed(d) \notin Range(p \o s)
                    ELSE Once(p \o s, Destroyed(d))
    <2>1. /\ Healthy(links[d])
          /\ Open(links[d]) =>
               /\ Destroyed(d) \notin Range(ClientQueue)
               /\ ~exists => ForceClose(d) \in Range(ClientQueue) \/ d \in held
          /\ ~Open(links[d]) =>
               IF links[d].index = "kNew" THEN Destroyed(d) \notin Range(ClientQueue)
               ELSE Once(ClientQueue, Destroyed(d))
      BY DEF ClientIInv, Links
    <2>2. CASE Open(links[d])
      <3>1. Destroyed(d) \notin Range(p \o s)
        BY <1>3, <1>4, <1>5, <1>7, <2>1, <2>2
      <3>2. IF exists' THEN d = connection_' ELSE ~exists
        BY <1>7, <2>2
      <3>3. ForceClose(d) \in Range(ClientQueue) => ForceClose(d) \in Range(p \o s)
        BY <1>3, <1>4, <1>5, <1>7
      <3> QED
        BY <2>1, <2>2, <3>1, <3>2, <3>3
    <2>3. CASE ~Open(links[d])
      <3>1. Once(ClientQueue, Destroyed(d)) => Once(p \o s, Destroyed(d))
        BY <1>3, <1>4, <1>5, <1>7
      <3>2. Destroyed(d) \notin Range(ClientQueue) => Destroyed(d) \notin Range(p \o s)
        BY <1>3, <1>4, <1>5, <1>7
      <3> QED
        BY <2>1, <2>3, <3>1, <3>2
    <2> QED
      BY <2>1, <2>2, <2>3
  <1>8. /\ Open(k) =>
             /\ Destroyed(c) \notin Range(p \o s)
             /\ IF exists' THEN c = connection_'
                ELSE ForceClose(c) \in Range(p \o s) \/ c \in held
        /\ ~Open(k) => IF k.index = "kNew" THEN Destroyed(c) \notin Range(p \o s)
                       ELSE Once(p \o s, Destroyed(c))
    <2>1. Open(links[c]) => Destroyed(c) \notin Range(ClientQueue)
      BY DEF ClientIInv, Links
    <2>2. CASE Open(k)
      BY <1>3, <1>4, <2>1, <2>2
    <2>3. CASE ~Open(k) /\ closing
      BY <1>3, <1>4, <2>1, <2>3
    <2>4. CASE ~Open(k) /\ ~closing
      BY <1>4, <2>4
    <2> QED
      BY <2>2, <2>3, <2>4
  <1>9. Links'
    <2> SUFFICES ASSUME NEW d \in 1 .. Len(links)
                 PROVE  /\ Healthy(links'[d])
                        /\ Open(links'[d]) =>
                             /\ Destroyed(d) \notin Range(p \o s)
                             /\ IF exists' THEN d = connection_'
                                ELSE ForceClose(d) \in Range(p \o s) \/ d \in held
                        /\ ~Open(links'[d]) =>
                             IF links'[d].index = "kNew"
                             THEN Destroyed(d) \notin Range(p \o s)
                             ELSE Once(p \o s, Destroyed(d))
      BY <1>2 DEF Links
    <2>1. CASE d = c
      BY <1>2, <1>8, <2>1
    <2>2. CASE d # c
      BY <1>2, <1>7, <2>2
    <2> QED
      BY <2>1, <2>2
  <1> QED
    BY <1>2, <1>4, <1>6, <1>9

\* What follows from the invariant where a connection may close.
LEMMA MayRestart ==
    ASSUME ClientIInv, NEW c \in 1 .. Len(links), Open(links[c]), exists
    PROVE  /\ c = connection_ /\ called /\ connector.state = "kConnected"
           /\ connector.retryTimer = 0 /\ ~connector.registered
           /\ connect_ => connector.connect
           /\ \A e \in ready : e.c # 0
  <1>1. c = connection_ /\ c # 0
    BY DEF ClientIInv, Links
  <1>2. called
    BY DEF ClientIInv, Uncalled
  <1>3. connector.state = "kConnected"
    BY <1>1 DEF ClientIInv, Held
  <1> QED
    BY <1>1, <1>2, <1>3 DEF ClientIInv, ConnectorShape, StopHolds, Rounds, ClientState,
       ConnectorType

\* Connection c after one of its handlers, with removeConnection on close.
LEMMA ClientSettleStep ==
    ASSUME ClientIInv, NEW c \in 1 .. Len(links), NEW k, Handled(k),
           NEW r \in {"progress", "again", "fatal"}, ClientSettle(c, k, r),
           k.closing => Open(links[c]),
           ~k.closing => (Open(k) <=> Open(links[c])),
           \/ batch' = batch
           \/ batch # <<>> /\ batch' = Tail(batch) /\ Head(batch).c = c,
           Open(k) /\ ~exists =>
               ForceClose(c) \in Range(batch' \o queue) \/ c \in held,
           ~Open(k) /\ ~k.closing =>
               IF k.index = "kNew" THEN Destroyed(c) \notin Range(batch' \o queue)
               ELSE Once(batch' \o queue, Destroyed(c)),
           k.closing /\ exists /\ retry_ /\ connect_ => ~connector.channel,
           ready' \subseteq ready, ~Open(k) => \A e \in ready' : e.c # c,
           connect_' \in {connect_, FALSE},
           UNCHANGED <<exists, retry_, removeTimer, stage, called, stopped, held, tooSoon>>
    PROVE  ClientIInv'
  <1> DEFINE again == k.closing /\ exists /\ retry_ /\ connect_
             k1 == Done(Check(k, k.closing /\ exists => connection_ = c))
             x == IF again THEN restart(connector, r) ELSE connector
             p == batch' \o queue
  <1>1. /\ ClientState /\ Len(links) \in Nat /\ c \in Nat \ {0} /\ called
        /\ connector \in ConnectorType /\ connector.todo = <<>>
    BY DEF ClientIInv, ClientState, Uncalled
  <1>2. k.closing /\ exists => connection_ = c
    BY MayRestart
  <1>3. /\ Healthy(k1) /\ (Open(k1) <=> Open(k)) /\ k1.index = k.index
    BY <1>2, DoneHealthy
  <1>4. /\ x \in ConnectorType /\ x.todo = <<>> /\ x.failed = connector.failed
        /\ x.connect = connector.connect
        /\ (x.registered <=> x.state = "kConnecting")
        /\ (x.state # "kDisconnected" => x.retryTimer = 0)
        /\ (~again => x = connector)
        /\ again =>
             /\ x.connect /\ x.state # "kConnected" /\ (x.channel => x.registered)
             /\ (~x.fatal /\ x.state = "kDisconnected" => x.retryTimer > 0)
    <2>1. CASE again
      <3>1. connector.retryTimer = 0 /\ ~connector.registered /\ connector.connect
            /\ ~connector.channel
        BY <2>1, MayRestart
      <3>2. x = restart(connector, r)
        BY <2>1
      <3> HIDE DEF x
      <3> QED
        BY <1>1, <2>1, <3>1, <3>2, RestartFacts
    <2>2. CASE ~again
      BY <1>1, <2>2 DEF ClientIInv, ConnectorShape
    <2> QED
      BY <2>1, <2>2
  <1>5. PICK s \in Seq(ClientFunctor) :
          /\ queue' = queue \o s
          /\ Range(s) \subseteq {ForceClose(c), Destroyed(c)}
          /\ k.closing => Once(s, Destroyed(c))
          /\ ~k.closing => Destroyed(c) \notin Range(s)
    <2>1. queue' = queue \o Pushed(k, c) \o
             ClientFunctors(IF k.closing THEN <<"connectDestroyed">> ELSE <<>>, c)
             \o ClientFunctors(x.todo, 0)
      BY DEF ClientSettle
    <2> HIDE DEF x
    <2>2. queue \in Seq(ClientFunctor)
      BY <1>1 DEF ClientState
    <2> QED
      BY <1>1, <1>4, <2>1, <2>2, SettlePushes, ZenonT(60)
  <1>6. /\ links' = [links EXCEPT ![c] = k1]
        /\ connection_' = IF k.closing /\ exists THEN 0 ELSE connection_
        /\ connector' = [x EXCEPT !.todo = <<>>]
        /\ closeTimers' = closeTimers \cup Timed(k, c)
    BY DEF ClientSettle
  <1>7. connector' = x
    <2> HIDE DEF x
    <2> QED
      BY <1>4, <1>6, EmptyTodo
  <1>8. /\ batch' \in Seq(ClientFunctor) /\ queue \in Seq(ClientFunctor)
        /\ p \in Seq(ClientFunctor)
        /\ \/ p = ClientQueue
           \/ ClientQueue # <<>> /\ p = Tail(ClientQueue) /\ Head(ClientQueue).c = c
        /\ \A f \in Range(batch) : f.c # c => f \in Range(batch')
    <2>1. CASE batch' = batch
      BY <1>1, <2>1, QueueFacts DEF ClientQueue
    <2>2. CASE batch # <<>> /\ batch' = Tail(batch) /\ Head(batch).c = c
      <3>1. /\ queue \in Seq(ClientFunctor) /\ Tail(batch) \in Seq(ClientFunctor)
            /\ ClientQueue # <<>> /\ Head(ClientQueue).c = c
            /\ Tail(ClientQueue) = Tail(batch) \o queue
            /\ Range(batch) = Range(Tail(batch)) \cup {Head(batch)}
        BY <1>1, <2>2, QueueFacts
      <3>2. Tail(batch) \o queue \in Seq(ClientFunctor) /\ p = Tail(batch) \o queue
        BY <2>2, <3>1
      <3> QED
        BY <2>2, <3>1, <3>2
    <2> QED
      BY <2>1, <2>2
  <1>9. ClientQueue' = p \o s
    <2>1. ClientQueue' = batch' \o queue'
      BY DEF ClientQueue
    <2>2. batch' \o (queue \o s) = (batch' \o queue) \o s
      <3> DEFINE F == ClientFunctor
                 b == batch'
                 q == queue
                 t == s
      <3>1. b \in Seq(F) /\ q \in Seq(F) /\ t \in Seq(F)
        BY <1>5, <1>8
      <3> HIDE DEF F, b, q, t
      <3>2. b \o (q \o t) = (b \o q) \o t
        BY <3>1, ConcatAssociative
      <3> QED
        BY <3>2 DEF b, q, t
    <2> QED
      BY <1>5, <2>1, <2>2
  <1> HIDE DEF k1, x, p
  <1>10. /\ Links' /\ links' \in Seq(ConnType) /\ Len(links') = Len(links)
         /\ ClientQueue' \in Seq(ClientFunctor)
         /\ \A f \in Range(ClientQueue') : f.c \in 0 .. Len(links')
    <2>1. Open(k) /\ ~exists' =>
            ForceClose(c) \in Range(p) \cup Range(s) \/ c \in held
      BY DEF p
    <2>2. Open(k) /\ exists' => c = connection_'
      BY <1>6, MayRestart DEF Handled
    <2>3. ~Open(k) /\ ~k.closing =>
               IF k1.index = "kNew" THEN Destroyed(c) \notin Range(p)
               ELSE Once(p, Destroyed(c))
      BY <1>3 DEF p
    <2>4. \A d \in 1 .. Len(links) : d # c /\ Open(links[d]) =>
               IF exists' THEN d = connection_' ELSE ~exists
      BY <1>2, <1>6, MayRestart
    <2>5. k.closing => Once(s, Destroyed(c)) /\ ~Open(k1) /\ k1.index # "kNew"
      BY <1>3, <1>5 DEF Handled
    <2>6. Open(k1) => Open(links[c]) /\ ~k.closing
      BY <1>3 DEF Handled
    <2> QED
      BY <1>3, <1>5, <1>6, <1>8, <1>9, <2>1, <2>2, <2>3, <2>4, <2>5, <2>6, LinksAfter
  <1>11. ClientState'
    <2>1. connection_' \in 0 .. Len(links')
      BY <1>1, <1>6, <1>10 DEF ClientState
    <2>2. closeTimers' \subseteq 1 .. Len(links') /\ held' \subseteq 1 .. Len(links')
      BY <1>1, <1>6, <1>10 DEF ClientState, Timed
    <2>3. queue' \in Seq(ClientFunctor)
      BY <1>5, <1>8
    <2>4. connect_' \in BOOLEAN /\ ready' \subseteq ClientEvent
      BY <1>1 DEF ClientState
    <2> QED
      BY <1>1, <1>4, <1>7, <1>8, <1>10, <2>1, <2>2, <2>3, <2>4 DEF ClientState
  <1>12. Uncalled' /\ links' # <<>>
    <2>1. links' # <<>>
      BY <1>1, <1>10
    <2> QED
      BY <1>1, <2>1 DEF Uncalled
  <1>13. ConnectorShape'
    BY <1>4, <1>7, <1>12 DEF ConnectorShape
  <1>14. \A f : f.c = 0 => (f \in Range(ClientQueue') <=> f \in Range(ClientQueue))
    <2>1. Range(ClientQueue') = Range(p) \cup Range(s)
      BY <1>5, <1>8, <1>9, PushQueue
    <2>2. \A f : f.c = 0 => f \notin Range(s)
      BY <1>1, <1>5 DEF ForceClose, Destroyed
    <2>3. p = ClientQueue \/ Range(ClientQueue) = Range(p) \cup {Head(ClientQueue)}
      BY <1>1, <1>8, QueueFacts, PopQueue
    <2> QED
      BY <1>1, <1>8, <2>1, <2>2, <2>3
  <1>15. StopInLoop.c = 0 /\ ResetChannel.c = 0
    BY DEF StopInLoop, ResetChannel
  <1>21. RemoveHolds'
    <2>1. /\ StopInLoop \in Range(ClientQueue') <=> StopInLoop \in Range(ClientQueue)
          /\ ResetChannel \in Range(ClientQueue') <=> ResetChannel \in Range(ClientQueue)
      BY <1>14, <1>15
    <2>2. /\ StopInLoop \in Range(queue') => StopInLoop \in Range(queue)
          /\ ResetChannel \in Range(queue') => ResetChannel \in Range(queue)
      <3>1. Range(queue') = Range(queue) \cup Range(s)
        BY <1>5, <1>8, PushQueue
      <3>2. StopInLoop \notin Range(s) /\ ResetChannel \notin Range(s)
        <4>1. \A f : f.c = 0 => f \notin Range(s)
          BY <1>1, <1>5 DEF ForceClose, Destroyed
        <4> QED
          BY <1>15, <4>1
      <3> QED
        BY <3>1, <3>2
    <2>3. ~exists => connector' = connector
      BY <1>4, <1>7
    <2> QED
      BY <2>1, <2>2, <2>3 DEF ClientIInv, RemoveHolds
  <1>16. StopHolds'
    <2>1. ~exists => connection_' = 0
      BY <1>6 DEF ClientIInv, StopHolds
    <2>2. StopInLoop \in Range(ClientQueue') => StopInLoop \in Range(ClientQueue)
      BY <1>14, <1>15
    <2>3. /\ called /\ ~connector.connect => ~connect_ \/ ~exists
          /\ StopInLoop \in Range(ClientQueue) => ~connector.connect
          /\ stopped => ~connector.connect
          /\ ~exists => ~connector.connect \/ connector.state = "kConnected"
      BY DEF ClientIInv, StopHolds
    <2>4. connector'.connect = connector.connect
          /\ (~exists => connector'.state = connector.state)
      BY <1>4, <1>7
    <2>5. (~connect_ => ~connect_') /\ exists' = exists /\ called' = called
          /\ stopped' = stopped
      <3>1. CASE connect_' = connect_
        BY <3>1
      <3>2. CASE connect_' = FALSE
        BY <3>2
      <3> QED
        BY <3>1, <3>2
    <2> QED
      BY <2>1, <2>2, <2>3, <2>4, <2>5 DEF StopHolds
  <1>17. ChannelHolds'
    <2> SUFFICES ASSUME connector'.channel, ~connector'.registered
                 PROVE  /\ ResetChannel \in Range(ClientQueue')
                        /\ connector'.connect =>
                             /\ connector'.retryTimer <= 1
                             /\ stage' # "poll"
                             /\ stage' = "events" => ResetChannel \in Range(queue')
                             /\ stage' = "functors" => ResetChannel \in Range(batch')
                             /\ exists' /\ connection_' # 0 => ResetFirst(ClientQueue', connection_')
                             /\ \A e \in ready' : e.c = 0
      BY DEF ChannelHolds
    <2>1. connector' = connector
      BY <1>4, <1>7
    <2>2. /\ ResetChannel \in Range(ClientQueue)
          /\ connector.connect =>
             /\ connector.retryTimer <= 1
             /\ stage # "poll"
             /\ stage = "events" => ResetChannel \in Range(queue)
             /\ stage = "functors" => ResetChannel \in Range(batch)
             /\ exists /\ connection_ # 0 => ResetFirst(ClientQueue, connection_)
             /\ \A e \in ready : e.c = 0
      BY <2>1 DEF ClientIInv, ChannelHolds
    <2>3. ResetChannel \in Range(queue) => ResetChannel \in Range(queue')
      BY <1>5, <1>8, PushQueue
    <2>4. ResetChannel \in Range(batch) => ResetChannel \in Range(batch')
      BY <1>1, <1>8, <1>15
    <2>5. ASSUME NEW d, ResetFirst(ClientQueue, d)
          PROVE  ResetFirst(ClientQueue', d)
      <3>1. ResetFirst(p, d)
        <4>1. CASE p = ClientQueue
          BY <2>5, <4>1
        <4>2. CASE ClientQueue # <<>> /\ p = Tail(ClientQueue) /\ Head(ClientQueue).c = c
          <5>1. ClientQueue \in Seq(ClientFunctor) /\ Head(ClientQueue) # ResetChannel
            BY <1>1, <1>15, <4>2, QueueFacts
          <5> QED
            BY <2>5, <4>2, <5>1, PopQueue
        <4> QED
          BY <1>8, <4>1, <4>2
      <3> QED
        BY <1>5, <1>8, <1>9, <3>1, PushQueue
    <2> QED
      BY <1>6, <1>14, <1>15, <2>1, <2>2, <2>3, <2>4, <2>5
  <1>18. Held'
    <2>1. ASSUME connection_' # 0
          PROVE  Open(links'[connection_']) /\ connector'.state = "kConnected"
      <3>1. connection_' = connection_ /\ ~(k.closing /\ exists)
        BY <1>6, <2>1
      <3>2. Open(links[connection_]) /\ connector.state = "kConnected" /\ exists
        BY <2>1, <3>1 DEF ClientIInv, Held, StopHolds
      <3>3. connector' = connector
        BY <1>4, <1>7, <3>1
      <3>4. connection_ \in 1 .. Len(links) /\ links \in Seq(ConnType)
        BY <1>1, <2>1, <3>1 DEF ClientState
      <3>5. Open(links'[connection_])
        <4>1. CASE connection_ = c
          <5>1. Open(k1)
            BY <1>3, <3>1, <3>2, <4>1
          <5> QED
            BY <1>6, <3>4, <4>1, <5>1
        <4>2. CASE connection_ # c
          BY <1>6, <3>2, <3>4, <4>2
        <4> QED
          BY <4>1, <4>2
      <3> QED
        BY <3>1, <3>2, <3>3, <3>5
    <2>2. exists /\ connector'.state = "kConnected" /\ connection_' = 0 =>
            ~retry_ \/ ~connect_'
      BY <1>4, <1>6, <1>7 DEF ClientIInv, Held
    <2>3. exists /\ called /\ connector'.connect /\ ~connector'.fatal
             /\ connector'.state = "kDisconnected" => connector'.retryTimer > 0
      BY <1>4, <1>7 DEF ClientIInv, Held
    <2> QED
      BY <2>1, <2>2, <2>3 DEF Held
  <1>19. Rounds'
    <2>1. ASSUME NEW e \in ready'
          PROVE  /\ e.c = 0 => connector'.state = "kConnecting"
                 /\ e.c # 0 => e.c \in 1 .. Len(links') /\ Open(links'[e.c])
                 /\ \A d \in ready' : d.c = e.c => d = e
      <3>1. /\ e \in ready /\ (e.c = 0 => connector.state = "kConnecting")
            /\ e.c # 0 => e.c \in 1 .. Len(links) /\ Open(links[e.c])
            /\ \A d \in ready : d.c = e.c => d = e
        BY DEF ClientIInv, Rounds
      <3>2. e.c = 0 => connector'.state = "kConnecting"
        <4>1. again => e.c # 0
          BY <3>1, MayRestart
        <4> QED
          BY <1>4, <1>7, <3>1, <4>1
      <3>3. e.c # 0 => Open(links'[e.c])
        <4>1. links \in Seq(ConnType)
          BY <1>1 DEF ClientState
        <4>2. CASE e.c = c
          BY <1>3, <1>6, <4>1, <4>2
        <4>3. CASE e.c # c
          BY <1>6, <3>1, <4>1, <4>3
        <4> QED
          BY <4>2, <4>3
      <3> QED
        BY <1>10, <3>1, <3>2, <3>3
    <2>2. stage # "events" => ready' = {}
      BY DEF ClientIInv, Rounds
    <2>3. stage # "functors" => batch' = <<>>
      BY DEF ClientIInv, Rounds
    <2> QED
      BY <2>1, <2>2, <2>3 DEF Rounds
  <1>20. connector'.failed \subseteq Faults /\ (tooSoon = {} => connector'.failed = {})
    BY <1>4, <1>7 DEF ClientIInv
  <1> QED
    BY <1>10, <1>11, <1>12, <1>13, <1>16, <1>17, <1>18, <1>19, <1>20, <1>21 DEF ClientIInv

-----------------------------------------------------------------------------
(* The actions of connections *)

\* disconnect shuts the connection down, and leaves the Connector alone.
LEMMA DisconnectStep ==
    ASSUME ClientIInv, NEW r \in {"progress", "again", "fatal"}, disconnect(r)
    PROVE  ClientIInv'
  <1>1. /\ exists /\ called /\ connect_' = FALSE
        /\ exists' = exists /\ retry_' = retry_ /\ removeTimer' = removeTimer
        /\ stage' = stage /\ ready' = ready /\ batch' = batch
        /\ called' = called /\ stopped' = stopped
        /\ held' = held /\ tooSoon' = tooSoon
    BY DEF disconnect
  <1>2. CASE connection_ # 0
    <2> DEFINE c == connection_
               k == shutdown(links[c])
    <2>1. c \in 1 .. Len(links) /\ Healthy(links[c]) /\ Open(links[c])
      BY <1>2 DEF ClientIInv, ClientState, Links, Held
    <2>2. Handled(k) /\ Open(k) /\ ~k.closing
      BY <2>1, CloseCallsHandled
    <2>3. ClientSettle(c, k, r)
      BY <1>2 DEF disconnect
    <2> HIDE DEF k
    <2> QED
      BY <1>1, <2>1, <2>2, <2>3, ClientSettleStep
  <1>3. CASE connection_ = 0
    <2>1. /\ links' = links /\ connection_' = connection_ /\ connector' = connector
          /\ queue' = queue /\ closeTimers' = closeTimers
      BY <1>3 DEF disconnect
    <2>2. ClientQueue' = ClientQueue
      BY <1>1, <2>1 DEF ClientQueue
    <2>3. ClientState' /\ Uncalled' /\ ConnectorShape' /\ RemoveHolds' /\ Rounds'
      BY <1>1, <2>1, <2>2
         DEF ClientIInv, ClientState, Uncalled, ConnectorShape, RemoveHolds, Rounds
    <2>4. StopHolds' /\ Held'
      BY <1>1, <2>1, <2>2 DEF ClientIInv, StopHolds, Held
    <2>5. ChannelHolds' /\ Links'
      BY <1>1, <2>1, <2>2 DEF ClientIInv, ChannelHolds, Links
    <2> QED
      BY <1>1, <2>1, <2>3, <2>4, <2>5 DEF ClientIInv
  <1> QED
    BY <1>2, <1>3

\* An event of a connection
LEMMA ConnectionEventStep ==
    ASSUME ClientIInv, NEW e \in ready, NEW u \in ClientDoes, NEW w \in Nat,
           NEW r \in {"progress", "again", "fatal"}, connectionEvent(e, u, w, r)
    PROVE  ClientIInv'
  <1> DEFINE c == e.c
             k == handleEvent(links[c], e.revents, e.data, u, w)
  <1>1. /\ ready' = ready \ {e} /\ ClientSettle(c, k, r) /\ c # 0
        /\ connect_' = connect_ /\ exists' = exists /\ retry_' = retry_
        /\ removeTimer' = removeTimer /\ stage' = stage /\ batch' = batch
        /\ called' = called /\ stopped' = stopped
        /\ held' = held /\ tooSoon' = tooSoon
    BY DEF connectionEvent
  <1>2. /\ c \in 1 .. Len(links) /\ Open(links[c])
        /\ \A d \in ready : d.c = c => d = e
    BY <1>1 DEF ClientIInv, Rounds
  <1>3. Healthy(links[c])
        /\ (~exists => ForceClose(c) \in Range(ClientQueue) \/ c \in held)
    BY <1>2 DEF ClientIInv, Links
  <1>4. u \notin {"startRead", "stopRead"}
    BY ClientAssumption DEF ClientDoes, ClientAssumption
  <1>5. Handled(k) /\ (k.closing <=> ~Open(k))
    BY <1>2, <1>3, <1>4, EventHandled
  <1> HIDE DEF k
  <1>6. k.closing /\ exists /\ retry_ /\ connect_ => ~connector.channel
    <2> SUFFICES ASSUME exists, connect_, connector.channel
                 PROVE  FALSE
      OBVIOUS
    <2>1. called /\ ~connector.registered
      BY <1>2, MayRestart
    <2>2. connector.connect
      BY <2>1 DEF ClientIInv, StopHolds
    <2> QED
      BY <1>1, <2>1, <2>2 DEF ClientIInv, ChannelHolds
  <1>7. batch' \o queue = ClientQueue
    BY <1>1 DEF ClientQueue
  <1> QED
    BY <1>1, <1>2, <1>3, <1>5, <1>6, <1>7, ClientSettleStep

\* A functor of a connection
LEMMA ConnectionFunctorStep ==
    ASSUME ClientIInv, NEW r \in {"progress", "again", "fatal"}, connectionFunctor(r)
    PROVE  ClientIInv'
  <1> DEFINE f == Head(batch)
             c == f.c
             k == IF f.op = "forceCloseInLoop" THEN forceCloseInLoop(links[c])
                  ELSE connectDestroyed(links[c])
  <1>1. /\ stage = "functors" /\ batch # <<>> /\ batch' = Tail(batch)
        /\ ClientSettle(c, k, r) /\ c # 0 /\ ready' = ready
        /\ connect_' = connect_ /\ exists' = exists /\ retry_' = retry_
        /\ removeTimer' = removeTimer /\ stage' = stage
        /\ called' = called /\ stopped' = stopped
        /\ held' = held /\ tooSoon' = tooSoon
    BY DEF connectionFunctor
  <1>2. ready = {}
    BY <1>1 DEF ClientIInv, Rounds
  <1>3. /\ ClientQueue \in Seq(ClientFunctor) /\ ClientQueue # <<>>
        /\ Head(ClientQueue) = f /\ Tail(ClientQueue) = batch' \o queue
        /\ f \in ClientFunctor
    BY <1>1, QueueFacts DEF ClientIInv
  <1>4. /\ Range(ClientQueue) = Range(batch' \o queue) \cup {f}
        /\ f \in Range(ClientQueue)
        /\ \A g : Once(ClientQueue, g) /\ f # g => Once(batch' \o queue, g)
        /\ \A g : Once(ClientQueue, g) /\ f = g => g \notin Range(batch' \o queue)
        /\ \A d : ResetFirst(ClientQueue, d) => c # d
    <2> HIDE DEF f
    <2>1. /\ Range(ClientQueue) = Range(Tail(ClientQueue)) \cup {Head(ClientQueue)}
          /\ \A g : Once(ClientQueue, g) /\ Head(ClientQueue) # g =>
                     Once(Tail(ClientQueue), g)
          /\ \A g : Once(ClientQueue, g) /\ Head(ClientQueue) = g =>
                     g \notin Range(Tail(ClientQueue))
          /\ \A d : ResetFirst(ClientQueue, d) => Head(ClientQueue).c # d
      BY <1>3, PopQueue
    <2> QED
      BY <1>3, <2>1, Zenon
  <1>5. c \in 1 .. Len(links) /\ (f = ForceClose(c) \/ f = Destroyed(c))
        /\ ForceClose(c) # Destroyed(c)
    <2>1. c \in 0 .. Len(links)
      BY <1>4 DEF ClientIInv, ClientState
    <2>2. f = ForceClose(c) \/ f = Destroyed(c)
      BY <1>1, <1>3 DEF ClientFunctor, ForceClose, Destroyed
    <2> QED
      BY <1>1, <2>1, <2>2 DEF ForceClose, Destroyed
  <1>6. /\ Healthy(links[c])
        /\ Open(links[c]) => Destroyed(c) \notin Range(ClientQueue)
        /\ ~Open(links[c]) =>
             IF links[c].index = "kNew" THEN Destroyed(c) \notin Range(ClientQueue)
             ELSE Once(ClientQueue, Destroyed(c))
    BY <1>5 DEF ClientIInv, Links
  <1>7. k.closing /\ exists /\ retry_ /\ connect_ /\ Open(links[c]) => ~connector.channel
    <2> SUFFICES ASSUME exists, connect_, connector.channel, Open(links[c])
                 PROVE  FALSE
      OBVIOUS
    <2>1. called /\ ~connector.registered /\ c = connection_ /\ c # 0
      BY <1>1, <1>5, MayRestart
    <2>2. connector.connect
      BY <2>1 DEF ClientIInv, StopHolds
    <2>3. ResetFirst(ClientQueue, c)
      BY <2>1, <2>2 DEF ClientIInv, ChannelHolds
    <2> QED
      BY <1>4, <2>3
  <1>8. CASE f = ForceClose(c)
    <2>1. k = forceCloseInLoop(links[c])
      BY <1>8 DEF ForceClose
    <2>2. /\ Handled(k) /\ ~Open(k) /\ (k.closing <=> Open(links[c]))
          /\ ~Open(links[c]) => k = links[c]
      BY <1>6, <2>1, ForceHandled
    <2> HIDE DEF k, c, f
    <2>3. ~Open(k) /\ ~k.closing =>
               IF k.index = "kNew" THEN Destroyed(c) \notin Range(batch' \o queue)
               ELSE Once(batch' \o queue, Destroyed(c))
      BY <1>4, <1>5, <1>6, <1>8, <2>2
    <2>4. /\ batch # <<>> /\ batch' = Tail(batch) /\ Head(batch).c = c
      BY <1>1 DEF c, f
    <2> QED
      BY <1>1, <1>2, <1>5, <1>7, <2>2, <2>3, <2>4, ClientSettleStep
  <1>9. CASE f = Destroyed(c)
    <2>1. k = connectDestroyed(links[c])
      BY <1>9 DEF Destroyed
    <2>2. ~Open(links[c]) /\ links[c].index # "kNew"
      BY <1>4, <1>6, <1>9
    <2>3. /\ Handled(k) /\ ~Open(k) /\ k.index = "kNew" /\ ~k.closing
      BY <1>6, <2>1, <2>2, DestroyHandled
    <2> HIDE DEF k, c, f
    <2>4. Destroyed(c) \notin Range(batch' \o queue)
      BY <1>4, <1>6, <1>9, <2>2
    <2>5. /\ batch # <<>> /\ batch' = Tail(batch) /\ Head(batch).c = c
      BY <1>1 DEF c, f
    <2> QED
      BY <1>1, <1>2, <1>5, <2>2, <2>3, <2>4, <2>5, ClientSettleStep
  <1> QED
    BY <1>5, <1>8, <1>9

-----------------------------------------------------------------------------
(* The steps of the Connector *)

\* The functors after the Connector has pushed one, or none, and perhaps one of
\* its functors has been taken.
LEMMA ConnectorQueue ==
    ASSUME ClientState, NEW todo,
           todo \in {<<>>, <<"stopInLoop">>, <<"resetChannel">>},
           queue' = queue \o ClientFunctors(todo, 0),
           \/ batch' = batch
           \/ batch # <<>> /\ batch' = Tail(batch) /\ Head(batch).c = 0
    PROVE  /\ queue' \in Seq(ClientFunctor) /\ batch' \in Seq(ClientFunctor)
           /\ Range(queue') = Range(queue) \cup Range(ClientFunctors(todo, 0))
           /\ Range(ClientQueue') = Range(batch') \cup Range(queue')
           /\ Range(batch) = Range(batch') \/ Range(batch) = Range(batch') \cup {Head(batch)}
           /\ \A f : f.c # 0 => (f \in Range(ClientQueue') <=> f \in Range(ClientQueue))
           /\ \A f : f.c # 0 /\ Once(ClientQueue, f) => Once(ClientQueue', f)
           /\ \A f \in Range(ClientQueue') : f.c \in 0 .. Len(links)
           /\ \A c : ResetFirst(ClientQueue, c)
                     /\ (batch' = batch \/ Head(batch) # ResetChannel) =>
                        ResetFirst(ClientQueue', c)
           /\ Range(ClientFunctors(todo, 0)) =
                IF todo = <<>> THEN {}
                ELSE IF todo = <<"stopInLoop">> THEN {StopInLoop} ELSE {ResetChannel}
  <1> DEFINE s == ClientFunctors(todo, 0)
             p == batch' \o queue
  <1>1. /\ s \in Seq(ClientFunctor)
        /\ Range(s) = IF todo = <<>> THEN {}
                      ELSE IF todo = <<"stopInLoop">> THEN {StopInLoop} ELSE {ResetChannel}
    <2>1. CASE todo = <<>>
      <3>1. s = <<>> /\ Range(<<>>) = {}
        BY <2>1, FewFunctors
      <3>2. <<>> \in Seq(ClientFunctor)
        OBVIOUS
      <3> HIDE DEF s
      <3> QED
        BY <2>1, <3>1, <3>2
    <2>2. CASE todo = <<"stopInLoop">>
      <3>1. s = <<StopInLoop>> /\ Range(<<StopInLoop>>) = {StopInLoop}
        BY <2>2, FewFunctors DEF StopInLoop
      <3>2. StopInLoop \in ClientFunctor /\ todo # <<>>
        BY <2>2 DEF StopInLoop, ClientFunctor, ConnectorOps
      <3> HIDE DEF s
      <3> QED
        BY <2>2, <3>1, <3>2
    <2>3. CASE todo = <<"resetChannel">>
      <3>1. s = <<ResetChannel>> /\ Range(<<ResetChannel>>) = {ResetChannel}
        BY <2>3, FewFunctors DEF ResetChannel
      <3>2. ResetChannel \in ClientFunctor /\ todo # <<>> /\ todo # <<"stopInLoop">>
        BY <2>3 DEF ResetChannel, ClientFunctor, ConnectorOps
      <3> HIDE DEF s
      <3> QED
        BY <2>3, <3>1, <3>2
    <2> QED
      BY <2>1, <2>2, <2>3
  <1>2. StopInLoop.c = 0 /\ ResetChannel.c = 0
    BY DEF StopInLoop, ResetChannel
  <1> HIDE DEF s
  <1>3. \A f \in Range(s) : f.c = 0
    BY <1>1, <1>2
  <1>4. /\ queue \in Seq(ClientFunctor) /\ batch' \in Seq(ClientFunctor)
        /\ p \in Seq(ClientFunctor) /\ Range(p) = Range(batch') \cup Range(queue)
        /\ ClientQueue \in Seq(ClientFunctor)
        /\ \/ p = ClientQueue /\ Range(batch) = Range(batch')
           \/ /\ ClientQueue # <<>> /\ p = Tail(ClientQueue)
              /\ Head(ClientQueue) = Head(batch) /\ Head(batch).c = 0
              /\ Range(batch) = Range(batch') \cup {Head(batch)}
    <2>1. CASE batch' = batch
      BY <2>1, QueueFacts DEF ClientQueue
    <2>2. CASE batch # <<>> /\ batch' = Tail(batch) /\ Head(batch).c = 0
      <3>1. /\ queue \in Seq(ClientFunctor) /\ Tail(batch) \in Seq(ClientFunctor)
            /\ ClientQueue # <<>> /\ Head(ClientQueue) = Head(batch)
            /\ Tail(ClientQueue) = Tail(batch) \o queue
            /\ ClientQueue \in Seq(ClientFunctor)
            /\ Range(batch) = Range(Tail(batch)) \cup {Head(batch)}
        BY <2>2, QueueFacts
      <3>2. /\ Tail(batch) \o queue \in Seq(ClientFunctor)
            /\ Range(Tail(batch) \o queue) = Range(Tail(batch)) \cup Range(queue)
        <4>1. PICK t \in Seq(ClientFunctor) : t = Tail(batch)
          BY <3>1
        <4>2. t \o queue \in Seq(ClientFunctor) /\ Range(t \o queue) = Range(t) \cup Range(queue)
          BY <3>1, RangeConcat
        <4> QED
          BY <4>1, <4>2
      <3> QED
        BY <2>2, <3>1, <3>2
    <2> QED
      BY <2>1, <2>2
  <1>5. ClientQueue' = p \o s
    <2>1. ClientQueue' = batch' \o queue' /\ queue' = queue \o s
      BY DEF ClientQueue, s
    <2>2. batch' \o (queue \o s) = (batch' \o queue) \o s
      <3> HIDE DEF p
      <3> QED
        BY <1>1, <1>4, SMTT(40)
    <2> QED
      BY <2>1, <2>2
  <1>6. queue' \in Seq(ClientFunctor) /\ Range(queue') = Range(queue) \cup Range(s)
    BY <1>1, <1>4, RangeConcat DEF s
  <1> HIDE DEF p
  <1>7. /\ Range(ClientQueue') = Range(p) \cup Range(s)
        /\ \A f : Once(p, f) /\ f \notin Range(s) => Once(ClientQueue', f)
        /\ \A c : ResetFirst(p, c) => ResetFirst(ClientQueue', c)
    BY <1>1, <1>4, <1>5, PushQueue
  <1>8. /\ Range(p) \subseteq Range(ClientQueue)
        /\ \A f : f \in Range(ClientQueue) /\ f.c # 0 => f \in Range(p)
        /\ \A f : f.c # 0 /\ Once(ClientQueue, f) => Once(p, f)
        /\ \A c : ResetFirst(ClientQueue, c)
                     /\ (batch' = batch \/ Head(batch) # ResetChannel) => ResetFirst(p, c)
    <2>1. CASE p = ClientQueue
      BY <2>1
    <2>2. CASE /\ ClientQueue # <<>> /\ p = Tail(ClientQueue)
               /\ Head(ClientQueue) = Head(batch) /\ Head(batch).c = 0 /\ batch' # batch
      <3>1. /\ Range(ClientQueue) = Range(p) \cup {Head(ClientQueue)}
            /\ \A f : Once(ClientQueue, f) /\ Head(ClientQueue) # f => Once(p, f)
            /\ \A c : ResetFirst(ClientQueue, c) /\ Head(ClientQueue) # ResetChannel =>
                        ResetFirst(p, c)
        BY <1>4, <2>2, PopQueue
      <3> QED
        BY <2>2, <3>1
    <2>3. batch' = batch => p = ClientQueue
      BY DEF p, ClientQueue
    <2> QED
      BY <1>4, <2>1, <2>2, <2>3
  <1>9. \A f \in Range(ClientQueue') : f.c \in 0 .. Len(links)
    <2>1. \A f \in Range(ClientQueue) : f.c \in 0 .. Len(links)
      BY DEF ClientState
    <2>2. 0 \in 0 .. Len(links)
      BY DEF ClientState
    <2> QED
      BY <1>3, <1>7, <1>8, <2>1, <2>2
  <1>10. Range(ClientQueue') = Range(batch') \cup Range(queue')
    BY <1>4, <1>6, <1>7
  <1>11. \A f : f.c # 0 => (f \in Range(ClientQueue') <=> f \in Range(ClientQueue))
    BY <1>3, <1>7, <1>8
  <1>12. \A f : f.c # 0 /\ Once(ClientQueue, f) => Once(ClientQueue', f)
    BY <1>3, <1>7, <1>8
  <1>13. \A c : ResetFirst(ClientQueue, c)
                     /\ (batch' = batch \/ Head(batch) # ResetChannel) =>
                        ResetFirst(ClientQueue', c)
    BY <1>7, <1>8
  <1>14. Range(batch) = Range(batch') \/ Range(batch) = Range(batch') \cup {Head(batch)}
    BY <1>4
  <1> QED
    BY <1>1, <1>4, <1>6, <1>9, <1>10, <1>11, <1>12, <1>13, <1>14 DEF s

\* What a step of the Connector keeps: the connections, and the types.
LEMMA ConnectorStep ==
    ASSUME ClientIInv, NEW todo,
           todo \in {<<>>, <<"stopInLoop">>, <<"resetChannel">>},
           queue' = queue \o ClientFunctors(todo, 0),
           \/ batch' = batch
           \/ batch # <<>> /\ batch' = Tail(batch) /\ Head(batch).c = 0,
           links' = links, connection_' = connection_, closeTimers' = closeTimers,
           stage' = stage, ready' \subseteq ready, retry_' = retry_,
           connector' \in ConnectorType, connector'.todo = <<>>,
           exists' = exists \/ (exists' = FALSE /\ exists /\ connection_ = 0),
           removeTimer' \in 0 .. RemoveRounds + 1,
           {connect_', called', stopped'} \subseteq BOOLEAN,
           held' = held, tooSoon' \subseteq Sooner,
           connector'.failed \subseteq Faults,
           tooSoon' = {} => connector'.failed = {}
    PROVE  /\ ClientState' /\ Links'
           /\ Uncalled' /\ ConnectorShape' /\ StopHolds' /\ ChannelHolds'
              /\ RemoveHolds' /\ Held' /\ Rounds' => ClientIInv'
  <1>1. /\ queue' \in Seq(ClientFunctor) /\ batch' \in Seq(ClientFunctor)
        /\ \A f : f.c # 0 => (f \in Range(ClientQueue') <=> f \in Range(ClientQueue))
        /\ \A f : f.c # 0 /\ Once(ClientQueue, f) => Once(ClientQueue', f)
        /\ \A f \in Range(ClientQueue') : f.c \in 0 .. Len(links)
    BY ConnectorQueue DEF ClientIInv
  <1>2. ClientState'
    <2>1. exists' \in BOOLEAN /\ connect_' \in BOOLEAN /\ called' \in BOOLEAN
          /\ stopped' \in BOOLEAN
      BY DEF ClientIInv, ClientState
    <2> QED
      BY <1>1, <2>1 DEF ClientIInv, ClientState
  <1>3. Links'
    <2> SUFFICES ASSUME NEW c \in 1 .. Len(links)
                 PROVE  /\ Healthy(links[c])
                        /\ Open(links[c]) =>
                             /\ Destroyed(c) \notin Range(ClientQueue')
                             /\ IF exists' THEN c = connection_
                                ELSE ForceClose(c) \in Range(ClientQueue') \/ c \in held
                        /\ ~Open(links[c]) =>
                             IF links[c].index = "kNew"
                             THEN Destroyed(c) \notin Range(ClientQueue')
                             ELSE Once(ClientQueue', Destroyed(c))
      BY DEF Links
    <2>1. /\ Healthy(links[c])
          /\ Open(links[c]) =>
               /\ Destroyed(c) \notin Range(ClientQueue)
               /\ IF exists THEN c = connection_
                  ELSE ForceClose(c) \in Range(ClientQueue) \/ c \in held
          /\ ~Open(links[c]) =>
               IF links[c].index = "kNew" THEN Destroyed(c) \notin Range(ClientQueue)
               ELSE Once(ClientQueue, Destroyed(c))
      BY DEF ClientIInv, Links
    <2>2. Destroyed(c).c # 0 /\ ForceClose(c).c # 0 /\ c # 0
      BY DEF Destroyed, ForceClose, ClientIInv, ClientState
    <2>3. (Destroyed(c) \in Range(ClientQueue') <=> Destroyed(c) \in Range(ClientQueue))
          /\ (ForceClose(c) \in Range(ClientQueue') <=> ForceClose(c) \in Range(ClientQueue))
          /\ (Once(ClientQueue, Destroyed(c)) => Once(ClientQueue', Destroyed(c)))
      BY <1>1, <2>2
    <2>4. CASE exists' = exists
      BY <2>1, <2>3, <2>4
    <2>5. CASE exists' = FALSE /\ exists /\ connection_ = 0
      <3>1. ~Open(links[c])
        BY <2>1, <2>2, <2>5
      <3> QED
        BY <2>1, <2>3, <3>1
    <2> QED
      BY <2>4, <2>5
  <1> QED
    BY <1>2, <1>3 DEF ClientIInv

\* The Connector has pushed nothing.
LEMMA NothingPushed ==
    ASSUME ClientIInv, queue' = queue
    PROVE  queue' = queue \o ClientFunctors(<<>>, 0)
  <1>1. ClientFunctors(<<>>, 0) = <<>> /\ queue \in Seq(ClientFunctor)
    BY FewFunctors DEF ClientIInv, ClientState
  <1> QED
    BY <1>1

\* A Connector that has been used
LEMMA UsedConnector ==
    ASSUME ClientIInv,
           connector.state # "kDisconnected" \/ connector.retryTimer # 0
             \/ connector.registered
    PROVE  called
  BY DEF ClientIInv, Uncalled, NewConnector

\* connect() starts the Connector.
LEMMA ConnectStep ==
    ASSUME ClientIInv, NEW r \in {"progress", "again", "fatal"}, connect(r)
    PROVE  ClientIInv'
  <1> DEFINE x == [connector EXCEPT !.connect = TRUE]
             y == startInLoop(x, r)
  <1>1. /\ exists /\ ~called /\ called' = TRUE /\ connect_' = TRUE
        /\ connector' = [y EXCEPT !.todo = <<>>]
        /\ queue' = queue \o ClientFunctors(y.todo, 0)
        /\ exists' = exists /\ retry_' = retry_ /\ connection_' = connection_
        /\ links' = links /\ removeTimer' = removeTimer /\ closeTimers' = closeTimers
        /\ stage' = stage /\ ready' = ready /\ batch' = batch /\ stopped' = stopped
        /\ held' = held /\ tooSoon' = tooSoon
    BY DEF connect, SettleConnector
  <1>2. /\ connector = NewConnector /\ links = <<>> /\ ClientQueue = <<>> /\ ~stopped
        /\ connector \in ConnectorType
    BY <1>1 DEF ClientIInv, Uncalled, ClientState
  <1>3. /\ x \in ConnectorType /\ x.state = "kDisconnected" /\ x.retryTimer = 0
        /\ ~x.registered /\ x.todo = <<>> /\ x.connect /\ ~x.channel /\ x.failed = {}
    BY <1>2 DEF ConnectorType, NewConnector
  <1> HIDE DEF x
  <1>4. /\ y \in ConnectorType /\ y.todo = <<>> /\ y.failed = {}
        /\ y.connect /\ y.state # "kConnected"
        /\ (y.registered <=> y.state = "kConnecting")
        /\ (y.state # "kDisconnected" => y.retryTimer = 0)
        /\ ~(y.channel /\ ~y.registered)
        /\ (~y.fatal /\ y.state = "kDisconnected" => y.retryTimer > 0)
    BY <1>3, StartFacts
  <1> HIDE DEF y
  <1>5. connector' = y
    BY <1>1, <1>4, EmptyTodo
  <1>6. queue' = queue \o ClientFunctors(<<>>, 0)
    BY <1>1, <1>4
  <1>7. connection_ = 0 /\ removeTimer = 0 /\ removeTimer \in 0 .. RemoveRounds + 1
    BY <1>1, <1>2 DEF ClientIInv, ClientState, RemoveHolds
  <1>8. stopped \in BOOLEAN /\ tooSoon \subseteq Sooner
    BY DEF ClientIInv, ClientState
  <1>9. /\ ClientState' /\ Links'
        /\ Uncalled' /\ ConnectorShape' /\ StopHolds' /\ ChannelHolds'
           /\ RemoveHolds' /\ Held' /\ Rounds' => ClientIInv'
    BY <1>1, <1>4, <1>5, <1>6, <1>7, <1>8, ConnectorStep
  <1>10. Range(ClientQueue') = {}
    <2>1. ClientFunctors(<<>>, 0) = <<>> /\ queue \in Seq(ClientFunctor)
      BY FewFunctors DEF ClientIInv, ClientState
    <2>2. queue \o <<>> = queue
      BY <2>1
    <2>3. queue' = queue
      BY <1>6, <2>1, <2>2
    <2>4. ClientQueue' = ClientQueue
      BY <1>1, <2>3 DEF ClientQueue
    <2> QED
      BY <1>2, <2>4, FewFunctors
  <1>11. ready = {}
    BY <1>2 DEF ClientIInv, Rounds, NewConnector
  <1>12. Uncalled' /\ ConnectorShape' /\ ChannelHolds' /\ RemoveHolds'
    BY <1>1, <1>4, <1>5, <1>7
       DEF Uncalled, ConnectorShape, ChannelHolds, RemoveHolds
  <1>13. StopHolds'
    BY <1>1, <1>2, <1>4, <1>5, <1>7, <1>10 DEF StopHolds
  <1>14. Held' /\ Rounds'
    BY <1>1, <1>4, <1>5, <1>7, <1>11 DEF Held, Rounds, ClientIInv
  <1> QED
    BY <1>9, <1>12, <1>13, <1>14

\* Connector::stop, from the client
LEMMA StopFacts ==
    ASSUME ClientIInv, SettleConnector(stopConnector(connector))
    PROVE  /\ connector' \in ConnectorType /\ connector'.todo = <<>>
           /\ ~connector'.connect /\ connector'.state = connector.state
           /\ connector'.channel = connector.channel
           /\ connector'.registered = connector.registered
           /\ connector'.retryTimer = connector.retryTimer
           /\ connector'.failed = connector.failed
           /\ queue' = queue \o ClientFunctors(<<"stopInLoop">>, 0)
  <1> DEFINE y == stopConnector(connector)
  <1>1. connector \in ConnectorType /\ connector.todo = <<>>
    BY DEF ClientIInv, ClientState
  <1>2. y = [connector EXCEPT !.connect = FALSE, !.todo = <<"stopInLoop">>]
    <2>1. Append(connector.todo, "stopInLoop") = <<"stopInLoop">>
      BY <1>1
    <2> QED
      BY <1>1, <2>1 DEF stopConnector, ConnectorType
  <1>3. <<"stopInLoop">> \in Seq(ConnectorOps)
    BY DEF ConnectorOps
  <1>4. /\ y \in ConnectorType /\ ~y.connect /\ y.state = connector.state
        /\ y.channel = connector.channel /\ y.registered = connector.registered
        /\ y.retryTimer = connector.retryTimer /\ y.failed = connector.failed
        /\ y.todo = <<"stopInLoop">>
    BY <1>1, <1>2, <1>3 DEF ConnectorType
  <1>5. connector' = [y EXCEPT !.todo = <<>>] /\ queue' = queue \o ClientFunctors(y.todo, 0)
    BY DEF SettleConnector
  <1> HIDE DEF y
  <1> QED
    BY <1>4, <1>5, EmptyTodo

\* stop()
LEMMA StopStep ==
    ASSUME ClientIInv, stop
    PROVE  ClientIInv'
  <1>1. /\ exists /\ called /\ connect_' = FALSE /\ stopped' = TRUE
        /\ SettleConnector(stopConnector(connector))
        /\ exists' = exists /\ retry_' = retry_ /\ connection_' = connection_
        /\ links' = links /\ removeTimer' = removeTimer /\ closeTimers' = closeTimers
        /\ stage' = stage /\ ready' = ready /\ batch' = batch /\ called' = called
        /\ held' = held /\ tooSoon' = tooSoon
    BY DEF stop
  <1>2. /\ connector' \in ConnectorType /\ connector'.todo = <<>>
        /\ ~connector'.connect /\ connector'.state = connector.state
        /\ connector'.channel = connector.channel
        /\ connector'.registered = connector.registered
        /\ connector'.retryTimer = connector.retryTimer
        /\ connector'.failed = connector.failed
        /\ queue' = queue \o ClientFunctors(<<"stopInLoop">>, 0)
    BY <1>1, StopFacts
  <1>3. removeTimer \in 0 .. RemoveRounds + 1 /\ called \in BOOLEAN /\ removeTimer = 0
        /\ connector.failed \subseteq Faults /\ (tooSoon = {} => connector.failed = {})
        /\ tooSoon \subseteq Sooner
    BY <1>1 DEF ClientIInv, ClientState, RemoveHolds
  <1>4. /\ ClientState' /\ Links'
        /\ Uncalled' /\ ConnectorShape' /\ StopHolds' /\ ChannelHolds'
           /\ RemoveHolds' /\ Held' /\ Rounds' => ClientIInv'
    BY <1>1, <1>2, <1>3, ConnectorStep
  <1>5. /\ Range(queue') = Range(queue) \cup Range(ClientFunctors(<<"stopInLoop">>, 0))
        /\ Range(ClientQueue') = Range(batch) \cup Range(queue')
        /\ Range(ClientQueue) = Range(batch) \cup Range(queue)
    BY <1>1, <1>2, ConnectorQueue, QueueFacts DEF ClientIInv
  <1>6. Uncalled' /\ ConnectorShape' /\ RemoveHolds'
    BY <1>1, <1>2, <1>3 DEF Uncalled, ConnectorShape, RemoveHolds, ClientIInv
  <1>7. StopHolds'
    BY <1>1, <1>2 DEF StopHolds
  <1>8. ChannelHolds'
    BY <1>2, <1>5 DEF ChannelHolds, ClientIInv
  <1>9. Held'
    BY <1>1, <1>2 DEF Held, ClientIInv
  <1>10. Rounds'
    BY <1>1, <1>2 DEF Rounds, ClientIInv
  <1> QED
    BY <1>4, <1>6, <1>7, <1>8, <1>9, <1>10

\* The destructor without a connection
LEMMA DestroyWithoutStep ==
    ASSUME ClientIInv, destroyWithoutConnection
    PROVE  ClientIInv'
  <1>1. /\ exists /\ called /\ exists' = FALSE /\ stopped' = TRUE /\ connection_ = 0
        /\ SettleConnector(stopConnector(connector)) /\ removeTimer' = 1
        /\ connect_' = connect_ /\ retry_' = retry_ /\ connection_' = connection_
        /\ links' = links /\ closeTimers' = closeTimers
        /\ stage' = stage /\ ready' = ready /\ batch' = batch /\ called' = called
        /\ held' = held /\ tooSoon' = tooSoon
    BY DEF destroyWithoutConnection
  <1>2. /\ connector' \in ConnectorType /\ connector'.todo = <<>>
        /\ ~connector'.connect /\ connector'.state = connector.state
        /\ connector'.channel = connector.channel
        /\ connector'.registered = connector.registered
        /\ connector'.retryTimer = connector.retryTimer
        /\ connector'.failed = connector.failed
        /\ queue' = queue \o ClientFunctors(<<"stopInLoop">>, 0)
    BY <1>1, StopFacts
  <1>3. /\ removeTimer' \in 0 .. RemoveRounds + 1 /\ called \in BOOLEAN
        /\ connect_ \in BOOLEAN
        /\ connector.failed \subseteq Faults /\ (tooSoon = {} => connector.failed = {})
        /\ tooSoon \subseteq Sooner
    BY <1>1 DEF ClientIInv, ClientState, RemoveRounds
  <1>4. /\ ClientState' /\ Links'
        /\ Uncalled' /\ ConnectorShape' /\ StopHolds' /\ ChannelHolds'
           /\ RemoveHolds' /\ Held' /\ Rounds' => ClientIInv'
    BY <1>1, <1>2, <1>3, ConnectorStep
  <1>5. /\ Range(queue') = Range(queue) \cup Range(ClientFunctors(<<"stopInLoop">>, 0))
        /\ Range(ClientQueue') = Range(batch) \cup Range(queue')
        /\ Range(ClientQueue) = Range(batch) \cup Range(queue)
        /\ StopInLoop \in Range(queue')
    <2>1. <<"stopInLoop">> # <<>>
      OBVIOUS
    <2>2. Range(ClientFunctors(<<"stopInLoop">>, 0)) = {StopInLoop}
      BY <1>1, <1>2, <2>1, ConnectorQueue DEF ClientIInv
    <2> QED
      BY <1>1, <1>2, <2>2, ConnectorQueue, QueueFacts DEF ClientIInv
  <1>6. Uncalled' /\ ConnectorShape'
    BY <1>1, <1>2, <1>3 DEF Uncalled, ConnectorShape, ClientIInv
  <1>7. StopHolds'
    BY <1>1, <1>2 DEF StopHolds
  <1>8. ChannelHolds'
    BY <1>2, <1>5 DEF ChannelHolds, ClientIInv
  <1>9. RemoveHolds'
    BY <1>1, <1>2, <1>3, <1>5 DEF RemoveHolds
  <1>10. Held'
    BY <1>1, <1>2 DEF Held, ClientIInv
  <1>11. Rounds'
    BY <1>1, <1>2 DEF Rounds, ClientIInv
  <1> QED
    BY <1>4, <1>6, <1>7, <1>8, <1>9, <1>10, <1>11

\* The Connector goes when its last owner does; only its assertion is left.
LEMMA ReleaseFacts ==
    ASSUME NEW x \in ConnectorType, NEW y,
           y \in {x, Require(x, "~Connector", ~x.channel)}
    PROVE  /\ y \in ConnectorType /\ y.todo = x.todo /\ y.connect = x.connect
           /\ y.state = x.state /\ y.channel = x.channel
           /\ y.registered = x.registered /\ y.retryTimer = x.retryTimer
           /\ y.fatal = x.fatal
           /\ (x.failed \subseteq Faults => y.failed \subseteq Faults)
           /\ (~x.channel => y = x)
  <1> DEFINE z == [x EXCEPT !.failed = @ \cup {"~Connector"}]
  <1>1. /\ z \in ConnectorType /\ z.todo = x.todo /\ z.connect = x.connect
        /\ z.state = x.state /\ z.channel = x.channel
        /\ z.registered = x.registered /\ z.retryTimer = x.retryTimer
        /\ z.fatal = x.fatal /\ (x.failed \subseteq Faults => z.failed \subseteq Faults)
    BY DEF ConnectorType, Faults, Lifetime
  <1>2. y = x \/ (y = z /\ x.channel)
    BY DEF Require
  <1> HIDE DEF z
  <1> QED
    BY <1>1, <1>2

\* The retry timer
LEMMA RetryStep ==
    ASSUME ClientIInv, NEW r \in {"progress", "again", "fatal"}, retryFires(r)
    PROVE  ClientIInv'
  <1> DEFINE x == [connector EXCEPT !.retryTimer = 0]
             y == startInLoop(x, r)
             z == Release(y, exists, removeTimer > 0)
  <1>1. /\ stage = "events" /\ connector.retryTimer > 0
        /\ tooSoon' = tooSoon \cup Early(connector.retryTimer, 1)
        /\ connector' = [z EXCEPT !.todo = <<>>]
        /\ queue' = queue \o ClientFunctors(z.todo, 0)
        /\ exists' = exists /\ connect_' = connect_ /\ retry_' = retry_
        /\ connection_' = connection_ /\ links' = links /\ removeTimer' = removeTimer
        /\ closeTimers' = closeTimers /\ stage' = stage /\ ready' = ready
        /\ batch' = batch /\ called' = called /\ stopped' = stopped
        /\ held' = held
    BY DEF retryFires, SettleConnector, RetryRounds
  <1>2. /\ connector \in ConnectorType /\ connector.todo = <<>>
        /\ connector.state = "kDisconnected" /\ ~connector.registered
        /\ connector.failed \subseteq Faults /\ called
    BY <1>1, UsedConnector DEF ClientIInv, ClientState, ConnectorShape, ConnectorType
  <1>18. ASSUME tooSoon' = {}
         PROVE  /\ tooSoon = {} /\ connector.retryTimer > 1
                /\ (connector.connect => ~connector.channel)
                /\ connector.failed = {}
    <2>1. tooSoon = {} /\ Early(connector.retryTimer, 1) = {}
      BY <1>1, <1>18
    <2>2. connector.retryTimer > 1
      BY <2>1 DEF Early
    <2>3. connector.retryTimer \in 0 .. 2
      BY <1>2 DEF ConnectorType, RetryRounds
    <2> QED
      BY <1>2, <2>1, <2>2, <2>3 DEF ClientIInv, ChannelHolds
  <1>19. tooSoon' \subseteq Sooner
    BY <1>1 DEF Early, Sooner, ClientIInv, ClientState
  <1>3. /\ x \in ConnectorType /\ x.state = "kDisconnected" /\ x.retryTimer = 0
        /\ ~x.registered /\ x.todo = <<>> /\ x.connect = connector.connect
        /\ x.channel = connector.channel /\ x.failed = connector.failed
    BY <1>2 DEF ConnectorType, RetryRounds
  <1> HIDE DEF x
  <1>4. /\ y \in ConnectorType /\ y.todo = <<>>
        /\ (~x.connect \/ ~x.channel => y.failed = x.failed)
        /\ y.failed \subseteq Faults
        /\ y.connect = x.connect /\ y.state # "kConnected"
        /\ (y.registered <=> y.state = "kConnecting")
        /\ (y.state # "kDisconnected" => y.retryTimer = 0)
        /\ (y.channel /\ ~y.registered => x.channel) /\ y.retryTimer <= 1
        /\ (y.connect /\ ~y.fatal /\ y.state = "kDisconnected" => y.retryTimer > 0)
        /\ (~x.connect => y = x)
    BY <1>2, <1>3, StartFacts
  <1> HIDE DEF y
  <1>5. /\ z \in ConnectorType /\ z.todo = <<>> /\ z.connect = y.connect
        /\ z.state = y.state /\ z.channel = y.channel
        /\ z.registered = y.registered /\ z.retryTimer = y.retryTimer
        /\ z.fatal = y.fatal /\ z.failed \subseteq Faults
        /\ (exists \/ removeTimer > 0 \/ ~y.channel => z = y)
    <2>1. /\ z \in {y, Require(y, "~Connector", ~y.channel)}
          /\ exists \/ removeTimer > 0 => z = y
      BY DEF Release
    <2> HIDE DEF z
    <2> QED
      BY <1>2, <1>3, <1>4, <2>1, ReleaseFacts
  <1> HIDE DEF z
  <1>6. connector' = z /\ queue' = queue \o ClientFunctors(<<>>, 0)
    BY <1>1, <1>5, EmptyTodo
  <1>7. ~exists => ~x.connect
    BY <1>2, <1>3 DEF ClientIInv, StopHolds
  <1>8. ASSUME tooSoon' = {}
        PROVE  z.failed = {}
    <2>3. y.failed = {}
      BY <1>3, <1>4, <1>8, <1>18
    <2>1. CASE exists \/ ~y.channel
      BY <1>5, <2>1, <2>3
    <2>2. CASE ~exists /\ y.channel
      <3>1. connector.channel
        BY <1>3, <1>4, <1>7, <2>2
      <3>2. ResetChannel \in Range(ClientQueue)
        BY <1>2, <3>1 DEF ClientIInv, ChannelHolds
      <3>3. removeTimer > 0
        BY <1>8, <1>18, <2>2, <3>2 DEF ClientIInv, RemoveHolds
      <3> QED
        BY <1>5, <2>3, <3>3
    <2> QED
      BY <2>1, <2>2
  <1>9. /\ removeTimer \in 0 .. RemoveRounds + 1 /\ called \in BOOLEAN
        /\ connect_ \in BOOLEAN /\ stopped \in BOOLEAN /\ tooSoon \subseteq Sooner
    BY DEF ClientIInv, ClientState
  <1>10. /\ ClientState' /\ Links'
         /\ Uncalled' /\ ConnectorShape' /\ StopHolds' /\ ChannelHolds'
            /\ RemoveHolds' /\ Held' /\ Rounds' => ClientIInv'
    BY <1>1, <1>5, <1>6, <1>8, <1>9, <1>19, ConnectorStep
  <1>11. Range(queue') = Range(queue) /\ Range(ClientQueue') = Range(ClientQueue)
    <2>1. ClientFunctors(<<>>, 0) = <<>> /\ Range(<<>>) = {}
      BY FewFunctors
    <2> QED
      BY <1>1, <1>6, <2>1, ConnectorQueue, QueueFacts DEF ClientIInv
  <1>12. Uncalled' /\ ConnectorShape'
    BY <1>1, <1>2, <1>4, <1>5, <1>6 DEF Uncalled, ConnectorShape
  <1>13. StopHolds'
    BY <1>1, <1>3, <1>4, <1>5, <1>6, <1>7, <1>11 DEF StopHolds, ClientIInv
  <1>14. ChannelHolds'
    <2> SUFFICES ASSUME connector'.channel, ~connector'.registered
                 PROVE  /\ ResetChannel \in Range(ClientQueue')
                        /\ connector'.connect =>
                             /\ connector'.retryTimer <= 1
                             /\ ResetChannel \in Range(queue')
                             /\ connection_ = 0
                             /\ \A e \in ready : e.c = 0
      BY <1>1 DEF ChannelHolds
    <2>1. connector.channel /\ connector'.connect = connector.connect
          /\ connector'.retryTimer <= 1
      BY <1>3, <1>4, <1>5, <1>6
    <2>2. connection_ = 0
      BY <1>2 DEF ClientIInv, Held
    <2> QED
      BY <1>1, <1>2, <1>11, <2>1, <2>2 DEF ClientIInv, ChannelHolds
  <1>15. RemoveHolds'
    <2>1. exists => removeTimer = 0
      BY DEF ClientIInv, RemoveHolds
    <2>2. ASSUME tooSoon' = {}, ~exists
          PROVE  /\ connector'.failed = {} /\ connector'.state # "kConnecting"
                 /\ StopInLoop \in Range(ClientQueue') => removeTimer \in 1 .. 2
                 /\ ResetChannel \in Range(ClientQueue') => removeTimer \in 1 .. 3
      <3>1. connector'.failed = {} /\ connector'.state # "kConnecting"
        BY <1>3, <1>4, <1>5, <1>6, <1>7, <1>8, <2>2
      <3> QED
        BY <1>11, <1>18, <2>2, <3>1 DEF ClientIInv, RemoveHolds
    <2> QED
      BY <1>1, <2>1, <2>2 DEF RemoveHolds
  <1>16. Held'
    <2>1. connection_ = 0
      BY <1>2 DEF ClientIInv, Held
    <2> QED
      BY <1>1, <1>4, <1>5, <1>6, <2>1 DEF Held
  <1>17. Rounds'
    <2>1. \A e \in ready : e.c # 0
      BY <1>2 DEF ClientIInv, Rounds
    <2> QED
      BY <1>1, <2>1 DEF ClientIInv, Rounds
  <1> QED
    BY <1>10, <1>12, <1>13, <1>14, <1>15, <1>16, <1>17

\* The timer of ~TcpClient
LEMMA RemoveConnectorStep ==
    ASSUME ClientIInv, removeConnector
    PROVE  ClientIInv'
  <1> DEFINE z == Release(connector, FALSE, FALSE)
  <1>1. /\ stage = "events" /\ removeTimer > 0 /\ removeTimer' = 0 /\ connector' = z
        /\ tooSoon' = tooSoon \cup Early(removeTimer, 3)
        /\ exists' = exists /\ connect_' = connect_ /\ retry_' = retry_
        /\ connection_' = connection_ /\ links' = links /\ queue' = queue
        /\ closeTimers' = closeTimers /\ stage' = stage /\ ready' = ready
        /\ batch' = batch /\ called' = called /\ stopped' = stopped
        /\ held' = held
    BY DEF removeConnector, RemoveRounds
  <1>2. /\ connector \in ConnectorType /\ connector.todo = <<>>
        /\ connector.failed \subseteq Faults /\ ~exists
    BY <1>1 DEF ClientIInv, ClientState, RemoveHolds
  <1>3. called
    BY <1>2 DEF ClientIInv, Uncalled
  <1>4. /\ z \in ConnectorType /\ z.todo = <<>> /\ z.connect = connector.connect
        /\ z.state = connector.state /\ z.channel = connector.channel
        /\ z.registered = connector.registered /\ z.retryTimer = connector.retryTimer
        /\ z.fatal = connector.fatal /\ z.failed \subseteq Faults
        /\ (~connector.channel => z = connector)
    <2>1. z \in {connector, Require(connector, "~Connector", ~connector.channel)}
      BY DEF Release
    <2> HIDE DEF z
    <2> QED
      BY <1>2, <2>1, ReleaseFacts
  <1> HIDE DEF z
  <1>14. tooSoon' \subseteq Sooner
    BY <1>1 DEF Early, Sooner, ClientIInv, ClientState
  <1>5. ASSUME tooSoon' = {}
        PROVE  /\ z.failed = {} /\ connector.state # "kConnecting"
               /\ StopInLoop \notin Range(ClientQueue)
               /\ ResetChannel \notin Range(ClientQueue)
    <2>3. tooSoon = {} /\ removeTimer > 3
      BY <1>1, <1>5 DEF Early
    <2>4. removeTimer \in 0 .. 4
      BY DEF ClientIInv, ClientState, RemoveRounds
    <2>1. /\ connector.failed = {} /\ connector.state # "kConnecting"
          /\ StopInLoop \notin Range(ClientQueue) /\ ResetChannel \notin Range(ClientQueue)
      BY <1>2, <2>3, <2>4 DEF ClientIInv, RemoveHolds
    <2>2. ~connector.channel
      BY <2>1 DEF ClientIInv, ConnectorShape, ChannelHolds
    <2> QED
      BY <1>4, <2>1, <2>2
  <1>6. queue' = queue \o ClientFunctors(<<>>, 0)
    BY <1>1, NothingPushed
  <1>7. /\ 0 \in 0 .. RemoveRounds + 1 /\ called \in BOOLEAN
        /\ connect_ \in BOOLEAN /\ stopped \in BOOLEAN
    BY DEF ClientIInv, ClientState, RemoveRounds
  <1>8. /\ ClientState' /\ Links'
        /\ Uncalled' /\ ConnectorShape' /\ StopHolds' /\ ChannelHolds'
           /\ RemoveHolds' /\ Held' /\ Rounds' => ClientIInv'
    BY <1>1, <1>4, <1>5, <1>6, <1>7, <1>14, ConnectorStep
  <1>9. ClientQueue' = ClientQueue
    BY <1>1 DEF ClientQueue
  <1>10. Uncalled' /\ ConnectorShape' /\ StopHolds'
    BY <1>1, <1>2, <1>3, <1>4, <1>9 DEF Uncalled, ConnectorShape, StopHolds, ClientIInv
  <1>11. ChannelHolds'
    BY <1>1, <1>4, <1>9 DEF ChannelHolds, ClientIInv
  <1>12. RemoveHolds'
    BY <1>1, <1>2, <1>4, <1>5, <1>9 DEF RemoveHolds
  <1>13. Held' /\ Rounds'
    BY <1>1, <1>4 DEF Held, Rounds, ClientIInv
  <1> QED
    BY <1>8, <1>10, <1>11, <1>12, <1>13

\* stopInLoop, on a Connector that has been told to stop
LEMMA StopInLoopFacts ==
    ASSUME NEW x \in ConnectorType, x.todo = <<>>, ~x.connect,
           x.registered <=> x.state = "kConnecting",
           x.state # "kDisconnected" => x.retryTimer = 0
    PROVE  LET y == stopInLoop(x) IN
           /\ y \in ConnectorType /\ ~y.connect /\ y.failed = x.failed
           /\ y.channel = x.channel /\ y.retryTimer = x.retryTimer
           /\ (x.state = "kConnecting" =>
                 /\ y.todo = <<"resetChannel">> /\ y.state = "kDisconnected"
                 /\ ~y.registered)
           /\ (x.state # "kConnecting" => y = x)
  <1>1. CASE x.state = "kConnecting"
    <2> DEFINE z == removeAndResetChannel([x EXCEPT !.state = "kDisconnected"])
    <2>1. z = [x EXCEPT !.state = "kDisconnected", !.registered = FALSE,
                        !.todo = <<"resetChannel">>]
      <3>1. Append(x.todo, "resetChannel") = <<"resetChannel">>
        OBVIOUS
      <3> QED
        BY <3>1 DEF removeAndResetChannel, ConnectorType
    <2>2. <<"resetChannel">> \in Seq(ConnectorOps)
      BY DEF ConnectorOps
    <2>3. /\ z \in ConnectorType /\ z.todo = <<"resetChannel">> /\ ~z.connect
          /\ z.failed = x.failed /\ z.channel = x.channel
          /\ z.retryTimer = x.retryTimer /\ ~z.registered
      BY <2>1, <2>2, ZenonT(60) DEF ConnectorType
    <2>4. stopInLoop(x) = retry(z)
      BY <1>1 DEF stopInLoop
    <2> HIDE DEF z
    <2> QED
      BY <1>1, <2>3, <2>4, RetryFacts
  <1>2. CASE x.state # "kConnecting"
    BY <1>2 DEF stopInLoop
  <1> QED
    BY <1>1, <1>2

\* A functor of the Connector
LEMMA ConnectorFunctorStep ==
    ASSUME ClientIInv, connectorFunctor
    PROVE  ClientIInv'
  <1> DEFINE f == Head(batch)
             x == Require(connector, "use after free", ConnectorAlive)
             y == IF f.op = "stopInLoop" THEN stopInLoop(x) ELSE resetChannel(x)
  <1>1. /\ stage = "functors" /\ batch # <<>> /\ batch' = Tail(batch) /\ f.c = 0
        /\ connector' = [y EXCEPT !.todo = <<>>]
        /\ queue' = queue \o ClientFunctors(y.todo, 0)
        /\ exists' = exists /\ connect_' = connect_ /\ retry_' = retry_
        /\ connection_' = connection_ /\ links' = links /\ removeTimer' = removeTimer
        /\ closeTimers' = closeTimers /\ stage' = stage /\ ready' = ready
        /\ called' = called /\ stopped' = stopped
        /\ held' = held /\ tooSoon' = tooSoon
    BY DEF connectorFunctor, SettleConnector
  <1>2. /\ connector \in ConnectorType /\ connector.todo = <<>> /\ ready = {}
        /\ connector.failed \subseteq Faults
        /\ (tooSoon = {} => connector.failed = {})
        /\ (connector.registered <=> connector.state = "kConnecting")
        /\ (connector.state # "kDisconnected" => connector.retryTimer = 0)
    BY <1>1 DEF ClientIInv, ClientState, ConnectorShape, Rounds
  <1>3. /\ f \in Range(ClientQueue) /\ f \in Range(batch) /\ f \in ClientFunctor
        /\ Range(batch) = Range(batch') \cup {f}
        /\ Range(ClientQueue) = Range(batch) \cup Range(queue)
    BY <1>1, QueueFacts DEF ClientIInv
  <1>4. f = StopInLoop \/ f = ResetChannel
    BY <1>1, <1>3 DEF StopInLoop, ResetChannel, ClientFunctor, ConnectorOps
  <1>5. called
    <2>1. ClientQueue # <<>>
      BY <1>1, QueueFacts DEF ClientIInv
    <2> QED
      BY <2>1 DEF ClientIInv, Uncalled
  <1>6. /\ x \in ConnectorType /\ x.todo = <<>> /\ x.connect = connector.connect
        /\ x.state = connector.state /\ x.channel = connector.channel
        /\ x.registered = connector.registered /\ x.retryTimer = connector.retryTimer
        /\ x.fatal = connector.fatal /\ x.failed \subseteq Faults
        /\ (tooSoon = {} => x.failed = {})
    <2>1. tooSoon = {} => ConnectorAlive
      <3>1. tooSoon = {} /\ ~exists => removeTimer > 0
        BY <1>3, <1>4 DEF ClientIInv, RemoveHolds
      <3> QED
        BY <3>1 DEF ConnectorAlive
    <2>2. CASE ConnectorAlive
      <3>1. x = connector
        BY <2>2 DEF Require
      <3> QED
        BY <1>2, <3>1
    <2>3. CASE ~ConnectorAlive
      <3>1. x = [connector EXCEPT !.failed = @ \cup {"use after free"}]
        BY <2>3 DEF Require
      <3>2. tooSoon # {}
        BY <2>1, <2>3
      <3> QED
        BY <1>2, <3>1, <3>2, ZenonT(60) DEF ConnectorType, Faults, Lifetime
    <2> QED
      BY <2>2, <2>3
  <1> HIDE DEF x
  <1>7. /\ removeTimer \in 0 .. RemoveRounds + 1 /\ called \in BOOLEAN
        /\ connect_ \in BOOLEAN /\ stopped \in BOOLEAN /\ tooSoon \subseteq Sooner
    BY DEF ClientIInv, ClientState
  <1>8. StopInLoop # ResetChannel
    BY DEF StopInLoop, ResetChannel
  <1>9. CASE f = StopInLoop
    <2>1. y = stopInLoop(x)
      BY <1>9 DEF StopInLoop
    <2>2. ~connector.connect
      BY <1>3, <1>9 DEF ClientIInv, StopHolds
    <2>3. /\ y \in ConnectorType /\ ~y.connect /\ y.failed = x.failed
          /\ y.channel = x.channel /\ y.retryTimer = x.retryTimer
          /\ (x.state = "kConnecting" =>
                /\ y.todo = <<"resetChannel">> /\ y.state = "kDisconnected"
                /\ ~y.registered)
          /\ (x.state # "kConnecting" => y = x)
      <3> HIDE DEF y, f
      <3> QED
        BY <1>2, <1>6, <2>1, <2>2, StopInLoopFacts
    <2> HIDE DEF y, f
    <2>4. /\ connector' \in ConnectorType /\ connector'.todo = <<>>
          /\ ~connector'.connect /\ connector'.state = y.state
          /\ connector'.channel = y.channel /\ connector'.registered = y.registered
          /\ connector'.retryTimer = y.retryTimer /\ connector'.failed = y.failed
      BY <1>1, <2>3, EmptyTodo
    <2>5. y.todo \in {<<>>, <<"stopInLoop">>, <<"resetChannel">>}
          /\ (y.todo # <<>> => x.state = "kConnecting")
          /\ y.todo # <<"stopInLoop">>
      <3>1. <<>> # <<"stopInLoop">> /\ <<"resetChannel">> # <<"stopInLoop">>
        OBVIOUS
      <3> QED
        BY <1>6, <2>3, <3>1
    <2>6. batch # <<>> /\ batch' = Tail(batch) /\ Head(batch).c = 0
      BY <1>1 DEF f
    <2>7. /\ ClientState' /\ Links'
          /\ Uncalled' /\ ConnectorShape' /\ StopHolds' /\ ChannelHolds'
             /\ RemoveHolds' /\ Held' /\ Rounds' => ClientIInv'
      BY <1>1, <1>2, <1>6, <1>7, <2>3, <2>4, <2>5, <2>6, ConnectorStep
    <2>8. /\ Range(queue') = Range(queue) \cup
               (IF y.todo = <<>> THEN {} ELSE {ResetChannel})
          /\ Range(ClientQueue') = Range(batch') \cup Range(queue')
      BY <1>1, <2>5, <2>6, ConnectorQueue DEF ClientIInv
    <2>9. Uncalled' /\ ConnectorShape'
      BY <1>1, <1>2, <1>5, <1>6, <2>3, <2>4 DEF Uncalled, ConnectorShape
    <2>10. StopHolds'
      BY <1>1, <1>2, <1>6, <2>2, <2>3, <2>4 DEF StopHolds, ClientIInv
    <2>11. ChannelHolds'
      <3> SUFFICES ASSUME connector'.channel, ~connector'.registered
                   PROVE  ResetChannel \in Range(ClientQueue')
        BY <2>4 DEF ChannelHolds
      <3>1. CASE x.state = "kConnecting"
        <4>1. <<"resetChannel">> # <<>>
          OBVIOUS
        <4>2. y.todo # <<>>
          BY <2>3, <3>1, <4>1, Zenon
        <4> QED
          BY <2>8, <4>2
      <3>2. CASE x.state # "kConnecting"
        <4>1. ResetChannel \in Range(ClientQueue)
          BY <1>6, <2>3, <2>4, <3>2 DEF ClientIInv, ChannelHolds
        <4> QED
          BY <1>3, <1>8, <1>9, <2>8, <4>1
      <3> QED
        BY <3>1, <3>2
    <2>12. RemoveHolds'
      <3>1. exists => removeTimer = 0
        BY DEF ClientIInv, RemoveHolds
      <3>2. ASSUME tooSoon = {}, ~exists
            PROVE  /\ connector'.failed = {} /\ connector'.state # "kConnecting"
                   /\ removeTimer \in 1 .. 2
                   /\ StopInLoop \in Range(queue') => removeTimer = 1
        <4>1. removeTimer \in 1 .. 2 /\ (StopInLoop \in Range(queue) => removeTimer = 1)
          BY <1>1, <1>3, <1>9, <3>2 DEF ClientIInv, RemoveHolds
        <4>2. StopInLoop \in Range(queue') => StopInLoop \in Range(queue)
          BY <1>8, <2>8
        <4> QED
          BY <1>6, <2>3, <2>4, <3>2, <4>1, <4>2
      <3> QED
        BY <1>1, <3>1, <3>2 DEF RemoveHolds
    <2>13. Held'
      <3>1. connection_ # 0 => Open(links[connection_]) /\ connector.state = "kConnected"
        BY DEF ClientIInv, Held
      <3>2. connector'.state = connector.state \/ connector'.state = "kDisconnected"
        BY <1>6, <2>3, <2>4
      <3>3. connector.state = "kConnected" => connector'.state = "kConnected"
        BY <1>6, <2>3, <2>4
      <3>4. exists /\ connector.state = "kConnected" /\ connection_ = 0 =>
              ~retry_ \/ ~connect_
        BY DEF ClientIInv, Held
      <3> QED
        BY <1>1, <2>4, <3>1, <3>2, <3>3, <3>4 DEF Held
    <2>14. Rounds'
      BY <1>1, <1>2 DEF Rounds
    <2> QED
      BY <2>7, <2>9, <2>10, <2>11, <2>12, <2>13, <2>14
  <1>10. CASE f = ResetChannel
    <2>1. y = resetChannel(x)
      BY <1>10 DEF ResetChannel
    <2>2. /\ y \in ConnectorType /\ y.connect = x.connect /\ y.failed = x.failed
          /\ ~y.channel /\ y.retryTimer = x.retryTimer /\ y.state = x.state
          /\ y.registered = x.registered /\ y.todo = <<>> /\ y.fatal = x.fatal
      BY <1>6, <2>1 DEF resetChannel, ConnectorType
    <2> HIDE DEF y, f
    <2>3. connector' = y
      BY <1>1, <2>2, EmptyTodo
    <2>4. batch # <<>> /\ batch' = Tail(batch) /\ Head(batch).c = 0
          /\ y.todo \in {<<>>, <<"stopInLoop">>, <<"resetChannel">>}
      BY <1>1, <2>2 DEF f
    <2>5. /\ ClientState' /\ Links'
          /\ Uncalled' /\ ConnectorShape' /\ StopHolds' /\ ChannelHolds'
             /\ RemoveHolds' /\ Held' /\ Rounds' => ClientIInv'
      BY <1>1, <1>2, <1>6, <1>7, <2>2, <2>3, <2>4, ConnectorStep
    <2>6. /\ Range(queue') = Range(queue) /\ Range(ClientQueue') \subseteq Range(ClientQueue)
      <3>1. /\ Range(queue') = Range(queue) \cup {}
            /\ Range(ClientQueue') = Range(batch') \cup Range(queue')
        BY <1>1, <2>2, <2>4, ConnectorQueue DEF ClientIInv
      <3> QED
        BY <1>3, <3>1
    <2>7. Uncalled' /\ ConnectorShape'
      BY <1>1, <1>2, <1>5, <1>6, <2>2, <2>3 DEF Uncalled, ConnectorShape, ClientIInv
    <2>8. StopHolds' /\ ChannelHolds'
      BY <1>1, <1>6, <2>2, <2>3, <2>6 DEF StopHolds, ChannelHolds, ClientIInv
    <2>9. RemoveHolds'
      <3>1. exists => removeTimer = 0
        BY DEF ClientIInv, RemoveHolds
      <3>2. ASSUME tooSoon = {}, ~exists
            PROVE  /\ connector.failed = {}
                   /\ connector.state # "kConnecting" \/ StopInLoop \in Range(ClientQueue')
                   /\ StopInLoop \in Range(ClientQueue') => removeTimer \in 1 .. 2
                   /\ ResetChannel \in Range(ClientQueue') => removeTimer \in 1 .. 3
                   /\ StopInLoop \in Range(queue') => removeTimer = 1
                   /\ ResetChannel \in Range(queue') => removeTimer \in 1 .. 2
        <4>1. /\ connector.failed = {}
              /\ connector.state = "kConnecting" => StopInLoop \in Range(ClientQueue)
              /\ StopInLoop \in Range(ClientQueue) => removeTimer \in 1 .. 2
              /\ ResetChannel \in Range(ClientQueue) => removeTimer \in 1 .. 3
              /\ StopInLoop \in Range(queue) => removeTimer = 1
              /\ ResetChannel \in Range(queue) => removeTimer \in 1 .. 2
          BY <1>1, <3>2 DEF ClientIInv, RemoveHolds
        <4>2. StopInLoop \in Range(ClientQueue) => StopInLoop \in Range(ClientQueue')
          <5>1. Range(ClientQueue') = Range(batch') \cup Range(queue')
            BY <1>1, <2>4, ConnectorQueue DEF ClientIInv
          <5> QED
            BY <1>3, <1>8, <1>10, <2>6, <5>1
        <4> QED
          BY <2>6, <4>1, <4>2
      <3> QED
        BY <1>1, <1>6, <2>2, <2>3, <3>1, <3>2 DEF RemoveHolds
    <2>10. Held' /\ Rounds'
      BY <1>1, <1>2, <1>6, <2>2, <2>3 DEF Held, Rounds, ClientIInv
    <2> QED
      BY <2>5, <2>7, <2>8, <2>9, <2>10
  <1> QED
    BY <1>4, <1>9, <1>10

\* Pushing is associative.
LEMMA PushTwice ==
    \A a, b, d \in Seq(ClientFunctor) : (a \o b) \o d = a \o (b \o d)
  OBVIOUS

\* While the Connector connects there is no open connection, unless the client
\* is gone; and no other event waits.
LEMMA NoneWhileConnecting ==
    ASSUME ClientIInv, connector.state = "kConnecting"
    PROVE  /\ connection_ = 0 /\ called
           /\ connector.connect => exists
           /\ exists => \A c \in 1 .. Len(links) : ~Open(links[c])
           /\ \A e, d \in ready : exists => e.c = 0 /\ d = e
  <1>1. connection_ = 0
    BY DEF ClientIInv, Held
  <1>2. called
    BY UsedConnector
  <1>3. connector.connect => exists
    BY DEF ClientIInv, StopHolds
  <1>4. exists => \A c \in 1 .. Len(links) : ~Open(links[c])
    BY <1>1 DEF ClientIInv, Links, ClientState
  <1>5. \A e, d \in ready : exists => e.c = 0 /\ d = e
    BY <1>4 DEF ClientIInv, Rounds
  <1> QED
    BY <1>1, <1>2, <1>3, <1>4, <1>5

\* An event of the Connector that gives no connection
LEMMA ConnectorFailsStep ==
    ASSUME ClientIInv, NEW e \in ready, NEW u, NEW w, connectorEvent(e, u, w),
           NEW x1, x1 = IF "ERR" \in e.revents THEN connectorError(connector) ELSE connector,
           ~Connects(x1)
    PROVE  ClientIInv'
  <1> DEFINE y == connectorWrite(x1)
  <1>1. /\ stage = "events" /\ e.c = 0 /\ ready' = ready \ {e}
        /\ connector' = [y EXCEPT !.todo = <<>>]
        /\ queue' = queue \o ClientFunctors(y.todo, 0)
        /\ links' = links /\ connection_' = connection_ /\ closeTimers' = closeTimers
        /\ exists' = exists /\ connect_' = connect_ /\ retry_' = retry_
        /\ removeTimer' = removeTimer /\ stage' = stage /\ batch' = batch
        /\ called' = called /\ stopped' = stopped
        /\ held' = held /\ tooSoon' = tooSoon
    BY DEF connectorEvent, SettleConnector
  <1>2. /\ connector \in ConnectorType /\ connector.todo = <<>>
        /\ connector.state = "kConnecting" /\ connector.retryTimer = 0
        /\ connector.failed \subseteq Faults
        /\ (tooSoon = {} => connector.failed = {})
        /\ \A d \in ready : d.c = 0 => d = e
    BY <1>1 DEF ClientIInv, ClientState, ConnectorShape, Rounds
  <1>3. /\ y \in ConnectorType /\ y.todo = <<"resetChannel">>
        /\ y.failed = connector.failed /\ y.connect = connector.connect
        /\ y.fatal = connector.fatal /\ ~y.registered
        /\ y.state # "kConnecting" /\ y.retryTimer <= 1
        /\ (y.state = "kConnected" => y.retryTimer = 0)
        /\ ~(y.state = "kConnected" /\ y.connect)
        /\ (y.state = "kDisconnected" /\ y.connect => y.retryTimer = 1)
    BY <1>2, ConnectorEventFacts, ZenonT(60)
  <1> HIDE DEF y
  <1>4. /\ connector' \in ConnectorType /\ connector'.todo = <<>>
        /\ connector'.connect = connector.connect /\ connector'.state = y.state
        /\ connector'.channel = y.channel /\ ~connector'.registered
        /\ connector'.retryTimer = y.retryTimer /\ connector'.fatal = y.fatal
        /\ connector'.failed = connector.failed
    BY <1>1, <1>3, EmptyTodo
  <1>5. /\ removeTimer \in 0 .. RemoveRounds + 1 /\ called \in BOOLEAN
        /\ connect_ \in BOOLEAN /\ stopped \in BOOLEAN /\ tooSoon \subseteq Sooner
    BY DEF ClientIInv, ClientState
  <1>6. queue' = queue \o ClientFunctors(<<"resetChannel">>, 0)
    BY <1>1, <1>3
  <1>7. /\ ClientState' /\ Links'
        /\ Uncalled' /\ ConnectorShape' /\ StopHolds' /\ ChannelHolds'
           /\ RemoveHolds' /\ Held' /\ Rounds' => ClientIInv'
    BY <1>1, <1>2, <1>4, <1>5, <1>6, ConnectorStep
  <1>8. /\ Range(queue') = Range(queue) \cup {ResetChannel}
        /\ Range(ClientQueue') = Range(ClientQueue) \cup {ResetChannel}
    <2>1. <<"resetChannel">> # <<>> /\ <<"resetChannel">> # <<"stopInLoop">>
      OBVIOUS
    <2>2. Range(ClientFunctors(<<"resetChannel">>, 0)) = {ResetChannel}
      BY <1>1, <1>6, <2>1, ConnectorQueue DEF ClientIInv
    <2> QED
      BY <1>1, <1>6, <2>2, ConnectorQueue, QueueFacts DEF ClientIInv
  <1>9. /\ connection_ = 0 /\ called /\ (connector.connect => exists)
        /\ \A d \in ready : exists => d = e
    BY <1>2, NoneWhileConnecting
  <1>10. StopInLoop # ResetChannel
    BY DEF StopInLoop, ResetChannel
  <1>11. Uncalled' /\ ConnectorShape'
    <2>1. y.state # "kDisconnected" => y.state = "kConnected"
      BY <1>3 DEF ConnectorType
    <2> QED
      BY <1>1, <1>3, <1>4, <1>9, <2>1 DEF Uncalled, ConnectorShape
  <1>12. StopHolds'
    BY <1>1, <1>2, <1>4, <1>8, <1>9, <1>10 DEF StopHolds, ClientIInv
  <1>13. ChannelHolds'
    BY <1>1, <1>3, <1>4, <1>8, <1>9 DEF ChannelHolds
  <1>14. RemoveHolds'
    <2>1. exists => removeTimer = 0
      BY DEF ClientIInv, RemoveHolds
    <2>2. ASSUME tooSoon = {}, ~exists
          PROVE  removeTimer \in 1 .. 2
      BY <1>2, <2>2 DEF ClientIInv, RemoveHolds
    <2> QED
      BY <1>1, <1>2, <1>3, <1>4, <2>1, <2>2 DEF RemoveHolds
  <1>15. Held'
    <2>1. connector.connect \/ ~connect_ \/ ~exists
      BY <1>9 DEF ClientIInv, StopHolds
    <2> QED
      BY <1>1, <1>3, <1>4, <1>9, <2>1 DEF Held, ConnectorType
  <1>16. Rounds'
    BY <1>1, <1>2 DEF Rounds, ClientIInv
  <1> QED
    BY <1>7, <1>11, <1>12, <1>13, <1>14, <1>15, <1>16

\* An event of the Connector that ends in newConnection
LEMMA NewConnectionStep ==
    ASSUME ClientIInv, NEW e \in ready, NEW u \in ClientDoes, NEW w \in Nat,
           connectorEvent(e, u, w),
           NEW x1, x1 = IF "ERR" \in e.revents THEN connectorError(connector) ELSE connector,
           Connects(x1)
    PROVE  ClientIInv'
  <1> DEFINE y == connectorWrite(x1)
             k == connectEstablished(NewConnection, u, w)
             c == Len(links) + 1
  <1>1. /\ stage = "events" /\ e.c = 0 /\ ready' = ready \ {e}
        /\ links' = Append(links, Done(Check(k, exists)))
        /\ connection_' = c
        /\ connector' = [y EXCEPT !.todo = <<>>]
        /\ queue' = queue \o ClientFunctors(y.todo, 0) \o Pushed(k, c)
        /\ closeTimers' = closeTimers \cup Timed(k, c)
        /\ exists' = exists /\ connect_' = connect_ /\ retry_' = retry_
        /\ removeTimer' = removeTimer /\ stage' = stage /\ batch' = batch
        /\ called' = called /\ stopped' = stopped
        /\ held' = held /\ tooSoon' = tooSoon
    BY DEF connectorEvent
  <1>2. /\ connector \in ConnectorType /\ connector.todo = <<>>
        /\ connector.state = "kConnecting" /\ connector.retryTimer = 0
        /\ connector.failed \subseteq Faults
        /\ links \in Seq(ConnType) /\ Len(links) \in Nat
    BY <1>1 DEF ClientIInv, ClientState, ConnectorShape, Rounds
  <1>3. /\ y \in ConnectorType /\ y.todo = <<"resetChannel">>
        /\ y.failed = connector.failed /\ y.connect /\ connector.connect
        /\ y.fatal = connector.fatal /\ ~y.registered
        /\ y.state = "kConnected" /\ y.retryTimer = 0
    BY <1>2, ConnectorEventFacts
  <1>4. /\ connection_ = 0 /\ called /\ exists
        /\ \A d \in 1 .. Len(links) : ~Open(links[d])
        /\ ready' = {}
    BY <1>1, <1>2, <1>3, NoneWhileConnecting
  <1>5. Handled(k) /\ Open(k) /\ ~k.closing
    <2>1. u \notin {"startRead", "stopRead"}
      BY ClientAssumption DEF ClientDoes, ClientAssumption
    <2> QED
      BY <2>1, NewHandled
  <1> HIDE DEF y, k
  <1> DEFINE k1 == Done(Check(k, exists))
  <1>6. Healthy(k1) /\ Open(k1) /\ k1 \in ConnType
    <2>1. Healthy(k1) /\ Open(k1)
      BY <1>4, <1>5, DoneHealthy
    <2> HIDE DEF k1
    <2> QED
      BY <2>1 DEF Healthy, Good
  <1> HIDE DEF k1
  <1>7. /\ connector' \in ConnectorType /\ connector'.todo = <<>>
        /\ connector'.connect /\ connector'.state = "kConnected"
        /\ connector'.channel = y.channel /\ ~connector'.registered
        /\ connector'.retryTimer = 0 /\ connector'.failed = connector.failed
    BY <1>1, <1>3, EmptyTodo
  <1>8. /\ links' \in Seq(ConnType) /\ Len(links') = c /\ links'[c] = k1
        /\ \A d \in 1 .. Len(links) : links'[d] = links[d]
    <2>1. links' = Append(links, k1)
      BY <1>1 DEF k1
    <2> QED
      BY <1>2, <1>6, <2>1
  <1>9. c \in Nat \ {0} /\ ~(c \in 0 .. Len(links))
    BY <1>2
  <1> DEFINE one == <<ResetChannel>>
             s == one \o Pushed(k, c)
  <1>10. /\ Pushed(k, c) \in Seq(ClientFunctor)
         /\ Range(Pushed(k, c)) \subseteq {ForceClose(c)}
    BY <1>9, PushedFacts
  <1>11. /\ one \in Seq(ClientFunctor) /\ Range(one) = {ResetChannel}
         /\ ClientFunctors(<<"resetChannel">>, 0) = one
         /\ Len(one) = 1 /\ one[1] = ResetChannel
    <2>1. ResetChannel \in ClientFunctor
      BY DEF ResetChannel, ClientFunctor, ConnectorOps
    <2> QED
      BY <2>1, FewFunctors DEF ResetChannel
  <1> HIDE DEF one
  <1>12. /\ ClientQueue \in Seq(ClientFunctor) /\ queue \in Seq(ClientFunctor)
         /\ batch \in Seq(ClientFunctor)
         /\ Range(ClientQueue) = Range(batch) \cup Range(queue)
         /\ \A f \in Range(ClientQueue) : f.c \in 0 .. Len(links)
    BY QueueFacts DEF ClientIInv, ClientState
  <1>13. s \in Seq(ClientFunctor) /\ Range(s) = {ResetChannel} \cup Range(Pushed(k, c))
    BY <1>10, <1>11, PushQueue
  <1>14. /\ queue' = queue \o s /\ queue' \in Seq(ClientFunctor)
         /\ Range(queue') = Range(queue) \cup Range(s)
    <2>1. queue' = (queue \o one) \o Pushed(k, c)
      BY <1>1, <1>3, <1>11
    <2>2. (queue \o one) \o Pushed(k, c) = queue \o s
      BY <1>10, <1>11, <1>12, PushTwice, SMTT(40)
    <2>3. queue \o s \in Seq(ClientFunctor) /\ Range(queue \o s) = Range(queue) \cup Range(s)
      <3> HIDE DEF s
      <3> QED
        BY <1>12, <1>13, PushQueue
    <2> QED
      BY <2>1, <2>2, <2>3
  <1> HIDE DEF s
  <1>15. ClientQueue' = ClientQueue \o s
    <2>1. ClientQueue' = batch \o (queue \o s)
      BY <1>1, <1>14 DEF ClientQueue
    <2> QED
      BY <1>12, <1>13, <2>1, ConcatAssociative, SMTT(40) DEF ClientQueue
  <1>16. /\ ClientQueue' \in Seq(ClientFunctor)
         /\ Range(ClientQueue') = Range(ClientQueue) \cup Range(s)
         /\ \A f : Once(ClientQueue, f) /\ f \notin Range(s) => Once(ClientQueue', f)
    BY <1>12, <1>13, <1>15, PushQueue
  <1>17. /\ ResetChannel.c = 0 /\ StopInLoop.c = 0 /\ StopInLoop # ResetChannel
         /\ \A d : ForceClose(d).c = d /\ Destroyed(d).c = d
         /\ \A d, a : ForceClose(d) # Destroyed(a)
         /\ \A d : ForceClose(d) # StopInLoop /\ Destroyed(d) # ResetChannel
    BY DEF ResetChannel, StopInLoop, ForceClose, Destroyed
  <1>18. ClientState'
    <2>1. \A f \in Range(ClientQueue') : f.c \in 0 .. Len(links')
      <3>1. \A f \in Range(s) : f.c = 0 \/ f.c = c
        BY <1>10, <1>13, <1>17
      <3> QED
        BY <1>2, <1>8, <1>12, <1>16, <3>1
    <2>2. /\ closeTimers' \subseteq 1 .. Len(links') /\ connection_' \in 0 .. Len(links')
          /\ held' \subseteq 1 .. Len(links')
      BY <1>1, <1>2, <1>8 DEF ClientIInv, ClientState, Timed
    <2> QED
      BY <1>1, <1>4, <1>7, <1>8, <1>14, <2>1, <2>2 DEF ClientIInv, ClientState
  <1>19. Links'
    <2> SUFFICES ASSUME NEW d \in 1 .. c
                 PROVE  /\ Healthy(links'[d])
                        /\ Open(links'[d]) =>
                             /\ Destroyed(d) \notin Range(ClientQueue')
                             /\ IF exists' THEN d = connection_'
                                ELSE ForceClose(d) \in Range(ClientQueue')
                        /\ ~Open(links'[d]) =>
                             IF links'[d].index = "kNew"
                             THEN Destroyed(d) \notin Range(ClientQueue')
                             ELSE Once(ClientQueue', Destroyed(d))
      BY <1>8 DEF Links
    <2>1. Destroyed(d) \notin Range(s)
      BY <1>10, <1>13, <1>17
    <2>2. CASE d = c
      <3>1. Destroyed(c) \notin Range(ClientQueue)
        BY <1>9, <1>12, <1>17
      <3> QED
        BY <1>1, <1>4, <1>6, <1>8, <1>16, <2>1, <2>2, <3>1
    <2>3. CASE d # c
      <3>1. d \in 1 .. Len(links)
        BY <1>2, <2>3
      <3>2. /\ Healthy(links[d]) /\ ~Open(links[d])
            /\ IF links[d].index = "kNew" THEN Destroyed(d) \notin Range(ClientQueue)
               ELSE Once(ClientQueue, Destroyed(d))
        BY <1>4, <3>1 DEF ClientIInv, Links
      <3> QED
        BY <1>8, <1>16, <2>1, <3>1, <3>2
    <2> QED
      BY <2>2, <2>3
  <1>20. links' # <<>>
    BY <1>2, <1>8
  <1>21. Uncalled' /\ ConnectorShape'
    BY <1>1, <1>4, <1>7, <1>20 DEF Uncalled, ConnectorShape
  <1>22. StopHolds'
    <2>1. StopInLoop \in Range(ClientQueue') => StopInLoop \in Range(ClientQueue)
      BY <1>10, <1>13, <1>16, <1>17
    <2> QED
      BY <1>1, <1>3, <1>4, <1>7, <2>1 DEF StopHolds, ClientIInv
  <1>23. ResetFirst(ClientQueue', c)
    <2>1. ResetFirst(ClientQueue \o one, c)
      <3> DEFINE n == Len(ClientQueue)
                 q == ClientQueue \o one
      <3>1. /\ n \in Nat /\ Len(q) = n + 1 /\ q[n + 1] = ResetChannel
            /\ \A j \in 1 .. n : q[j] = ClientQueue[j] /\ ClientQueue[j] \in Range(ClientQueue)
        <4>1. n \in Nat /\ \A j \in 1 .. n : ClientQueue[j] \in Range(ClientQueue)
          BY <1>12, RangeEquality
        <4>2. /\ Len(q) = n + 1 /\ q[n + 1] = one[1]
              /\ \A j \in 1 .. n : q[j] = ClientQueue[j]
          <5>1. 1 \in 1 .. Len(one)
            BY <1>11
          <5>2. /\ Len(q) = n + Len(one) /\ \A j \in 1 .. n : q[j] = ClientQueue[j]
                /\ \A j \in 1 .. Len(one) : q[n + j] = one[j]
            <6>1. ClientQueue \in Seq(ClientFunctor) /\ one \in Seq(ClientFunctor)
              BY <1>11, <1>12
            <6> QED
              BY <6>1, ConcatAt
          <5> QED
            BY <1>11, <5>1, <5>2
        <4> QED
          BY <1>11, <4>1, <4>2
      <3> HIDE DEF q
      <3>2. ASSUME NEW j \in 1 .. (n + 1)
            PROVE  q[j].c # c
        <4>1. CASE j = n + 1
          BY <1>9, <1>17, <3>1, <4>1
        <4>2. CASE j # n + 1
          <5>1. j \in 1 .. n
            BY <3>1, <4>2
          <5> QED
            BY <1>9, <1>12, <3>1, <5>1
        <4> QED
          BY <4>1, <4>2
      <3>3. n + 1 \in 1 .. Len(q)
        BY <3>1
      <3>4. ResetFirst(q, c)
        BY <3>1, <3>2, <3>3 DEF ResetFirst
      <3> QED
        BY <3>4 DEF q
    <2>2. ClientQueue \o one \in Seq(ClientFunctor)
      BY <1>11, <1>12, PushQueue
    <2>3. ClientQueue' = (ClientQueue \o one) \o Pushed(k, c)
      BY <1>10, <1>11, <1>12, <1>15, PushTwice, SMTT(40) DEF s
    <2> QED
      BY <1>10, <2>1, <2>2, <2>3, PushQueue
  <1>24. ChannelHolds'
    <2>1. ResetChannel \in Range(queue') /\ ResetChannel \in Range(ClientQueue')
      BY <1>13, <1>14, <1>16
    <2> QED
      BY <1>1, <1>4, <1>7, <1>23, <2>1 DEF ChannelHolds
  <1>25. RemoveHolds'
    BY <1>1, <1>4 DEF RemoveHolds, ClientIInv
  <1>26. Held' /\ Rounds'
    <2>1. Held'
      BY <1>1, <1>6, <1>7, <1>8, <1>9 DEF Held
    <2>2. Rounds'
      BY <1>1, <1>4 DEF Rounds, ClientIInv
    <2> QED
      BY <2>1, <2>2
  <1> QED
    BY <1>1, <1>2, <1>7, <1>18, <1>19, <1>21, <1>22, <1>24, <1>25, <1>26 DEF ClientIInv

\* A call of forceClose on connection c: the queue gains a functor at most.
LEMMA ForceCloseCalled ==
    ASSUME ClientIInv, NEW c \in 1 .. Len(links), NEW k,
           k \in {links[c], forceClose(links[c])},
           links' = [links EXCEPT ![c] = Done(k)],
           queue' = queue \o Pushed(k, c), batch' = batch,
           connection_' = connection_ \/ (connection_' = 0 /\ connection_ = c),
           exists' = exists \/ (~exists' /\ connection_ = c),
           exists' /\ connection_' # connection_ => FALSE,
           held' = held,
           Open(links[c]) /\ ~exists' =>
               \/ ForceClose(c) \in Range(ClientQueue) \/ c \in held
               \/ k = forceClose(links[c])
    PROVE  /\ Links' /\ links' \in Seq(ConnType) /\ Len(links') = Len(links)
           /\ queue' \in Seq(ClientFunctor)
           /\ \A f \in Range(ClientQueue') : f.c \in 0 .. Len(links')
           /\ \A d \in 1 .. Len(links) : Open(links[d]) <=> Open(links'[d])
           /\ \A f : f.c = 0 => (f \in Range(ClientQueue') <=> f \in Range(ClientQueue))
           /\ \A f : f.c = 0 => (f \in Range(queue') <=> f \in Range(queue))
           /\ \A d : ResetFirst(ClientQueue, d) => ResetFirst(ClientQueue', d)
  <1> DEFINE k1 == Done(k)
             s == Pushed(k, c)
  <1>1. /\ links \in Seq(ConnType) /\ c \in Nat \ {0} /\ Healthy(links[c])
        /\ queue \in Seq(ClientFunctor) /\ batch \in Seq(ClientFunctor)
        /\ ClientQueue \in Seq(ClientFunctor)
    BY QueueFacts DEF ClientIInv, ClientState, Links
  <1>2. /\ Handled(k) /\ (Open(k) <=> Open(links[c])) /\ ~k.closing
        /\ k.index = links[c].index
        /\ (Open(links[c]) /\ k = forceClose(links[c]) =>
              "forceCloseInLoop" \in Range(k.todo))
    <2>1. CASE k = forceClose(links[c])
      BY <1>1, <2>1, CloseCallsHandled
    <2>2. CASE k = links[c] /\ k # forceClose(links[c])
      BY <1>1, <2>2 DEF Healthy, Handled, Settled
    <2> QED
      BY <2>1, <2>2
  <1>3. Healthy(k1) /\ (Open(k1) <=> Open(k)) /\ k1.index = k.index
    BY <1>2, DoneHealthy
  <1>4. /\ s \in Seq(ClientFunctor) /\ Range(s) \subseteq {ForceClose(c)}
        /\ ("forceCloseInLoop" \in Range(k.todo) => ForceClose(c) \in Range(s))
    BY <1>1, PushedFacts
  <1>5. queue' = queue \o s /\ links' = [links EXCEPT ![c] = k1]
    OBVIOUS
  <1> HIDE DEF s, k1
  <1>6. ClientQueue' = ClientQueue \o s
    <2>1. ClientQueue' = batch \o (queue \o s)
      BY <1>5 DEF ClientQueue
    <2>2. batch \o (queue \o s) = (batch \o queue) \o s
      BY <1>1, <1>4, PushTwice, Zenon
    <2> QED
      BY <2>1, <2>2 DEF ClientQueue
  <1>7. /\ queue' \in Seq(ClientFunctor) /\ Range(queue') = Range(queue) \cup Range(s)
        /\ Range(ClientQueue') = Range(ClientQueue) \cup Range(s)
        /\ \A d : ResetFirst(ClientQueue, d) => ResetFirst(ClientQueue', d)
    BY <1>1, <1>4, <1>5, <1>6, PushQueue
  <1>8. \A f : f.c = 0 => f \notin Range(s)
    BY <1>1, <1>4 DEF ForceClose
  <1>9. /\ Open(links[c]) => Destroyed(c) \notin Range(ClientQueue)
        /\ Open(links[c]) /\ exists => c = connection_
        /\ Open(links[c]) /\ ~exists =>
             ForceClose(c) \in Range(ClientQueue) \/ c \in held
        /\ ~Open(links[c]) =>
             IF links[c].index = "kNew" THEN Destroyed(c) \notin Range(ClientQueue)
             ELSE Once(ClientQueue, Destroyed(c))
    BY DEF ClientIInv, Links
  <1>10. \A d \in 1 .. Len(links) : d # c /\ Open(links[d]) =>
               IF exists' THEN d = connection_' ELSE ~exists
    <2> SUFFICES ASSUME NEW d \in 1 .. Len(links), d # c, Open(links[d])
                 PROVE  IF exists' THEN d = connection_' ELSE ~exists
      OBVIOUS
    <2>1. exists => d = connection_
      BY DEF ClientIInv, Links
    <2> QED
      BY <2>1
  <1>11. Destroyed(c) # ForceClose(c)
    BY DEF Destroyed, ForceClose
  <1>12. /\ Links' /\ links' \in Seq(ConnType) /\ Len(links') = Len(links)
         /\ \A f \in Range(ClientQueue') : f.c \in 0 .. Len(links')
    <2>1. PICK closing : closing = FALSE
      OBVIOUS
    <2>2. Open(k1) /\ ~exists' =>
            ForceClose(c) \in Range(ClientQueue) \cup Range(s) \/ c \in held
      BY <1>2, <1>3, <1>4
    <2>3. Open(k1) /\ exists' => c = connection_'
      BY <1>2, <1>3, <1>9
    <2>4. ~Open(k1) => IF k1.index = "kNew" THEN Destroyed(c) \notin Range(ClientQueue)
                       ELSE Once(ClientQueue, Destroyed(c))
      BY <1>2, <1>3, <1>9
    <2>5. Destroyed(c) \notin Range(s) /\ Range(s) \subseteq {ForceClose(c), Destroyed(c)}
      BY <1>4, <1>11
    <2> QED
      BY <1>1, <1>2, <1>3, <1>4, <1>5, <1>6, <1>10, <2>1, <2>2, <2>3, <2>4, <2>5,
         LinksAfter
  <1>13. \A d \in 1 .. Len(links) : Open(links[d]) <=> Open(links'[d])
    <2> SUFFICES ASSUME NEW d \in 1 .. Len(links)
                 PROVE  Open(links[d]) <=> Open(links'[d])
      OBVIOUS
    <2>1. CASE d = c
      BY <1>1, <1>2, <1>3, <1>5, <2>1
    <2>2. CASE d # c
      BY <1>1, <1>5, <2>2
    <2> QED
      BY <2>1, <2>2
  <1> QED
    BY <1>7, <1>8, <1>12, <1>13

\* The destructor with a connection
LEMMA DestroyWithStep ==
    ASSUME ClientIInv, destroyWithConnection
    PROVE  ClientIInv'
  <1> DEFINE c == connection_
             k == IF Unique THEN forceClose(links[c]) ELSE links[c]
             z == Release(connector, FALSE, FALSE)
  <1>1. /\ exists /\ called /\ c # 0 /\ exists' = FALSE /\ connection_' = 0
        /\ links' = [links EXCEPT ![c] = Done(k)]
        /\ queue' = queue \o Pushed(k, c) /\ connector' = z
        /\ connect_' = connect_ /\ retry_' = retry_ /\ removeTimer' = removeTimer
        /\ closeTimers' = closeTimers /\ stage' = stage /\ ready' = ready
        /\ batch' = batch /\ called' = called /\ stopped' = stopped
        /\ held' = held
        /\ tooSoon' = IF Holds(0) THEN tooSoon \cup {"~TcpClient"} ELSE tooSoon
    BY DEF destroyWithConnection
  <1>2. /\ connector \in ConnectorType /\ connector.todo = <<>>
        /\ connector.failed \subseteq Faults /\ connector.state = "kConnected"
        /\ c \in 1 .. Len(links) /\ Open(links[c]) /\ links \in Seq(ConnType)
    BY <1>1 DEF ClientIInv, ClientState, Held
  <1>3. /\ z \in ConnectorType /\ z.todo = <<>> /\ z.connect = connector.connect
        /\ z.state = connector.state /\ z.channel = connector.channel
        /\ z.registered = connector.registered /\ z.retryTimer = connector.retryTimer
        /\ z.fatal = connector.fatal /\ z.failed \subseteq Faults
        /\ (~connector.channel => z = connector)
    <2>1. z \in {connector, Require(connector, "~Connector", ~connector.channel)}
      BY DEF Release
    <2> HIDE DEF z
    <2> QED
      BY <1>2, <2>1, ReleaseFacts
  <1> HIDE DEF z
  <1>15. ASSUME tooSoon' = {}
         PROVE  /\ z.failed = {} /\ \A f \in Range(ClientQueue) : f.c # 0
    <2>1. tooSoon = {} /\ ~Holds(0)
      BY <1>1, <1>15
    <2>2. \A f \in Range(ClientQueue) : f.c # 0
      BY <2>1, QueueFacts DEF Holds, ClientIInv
    <2>3. ~connector.channel
      BY <1>2, <2>2 DEF ClientIInv, ConnectorShape, ChannelHolds, ResetChannel
    <2> QED
      BY <1>3, <2>1, <2>2, <2>3 DEF ClientIInv
  <1>16. tooSoon' \subseteq Sooner
    BY <1>1 DEF Sooner, ClientIInv, ClientState
  <1>4. \/ k = forceClose(links[c])
        \/ k = links[c] /\ (ForceClose(c) \in Range(ClientQueue) \/ c \in held)
    <2>1. CASE Unique \/ c \in held
      BY <2>1
    <2>2. CASE ~Unique /\ c \notin held
      <3>1. PICK f \in Range(ClientQueue) : f.c = c
        BY <2>2, QueueFacts DEF Unique, Holds, ClientIInv
      <3>2. f \in ClientFunctor
        BY QueueFacts, RangeEquality DEF ClientIInv
      <3>3. f = ForceClose(c) \/ f = Destroyed(c)
        BY <1>1, <3>1, <3>2 DEF ClientFunctor, ForceClose, Destroyed
      <3>4. Destroyed(c) \notin Range(ClientQueue)
        BY <1>2 DEF ClientIInv, Links
      <3> QED
        BY <2>2, <3>1, <3>3, <3>4
    <2> QED
      BY <2>1, <2>2
  <1>5. k \in {links[c], forceClose(links[c])}
    BY <1>4
  <1> HIDE DEF k
  <1>6. /\ Links' /\ links' \in Seq(ConnType) /\ Len(links') = Len(links)
        /\ queue' \in Seq(ClientFunctor)
        /\ \A f \in Range(ClientQueue') : f.c \in 0 .. Len(links')
        /\ \A d \in 1 .. Len(links) : Open(links[d]) <=> Open(links'[d])
        /\ \A f : f.c = 0 => (f \in Range(ClientQueue') <=> f \in Range(ClientQueue))
        /\ \A f : f.c = 0 => (f \in Range(queue') <=> f \in Range(queue))
        /\ \A d : ResetFirst(ClientQueue, d) => ResetFirst(ClientQueue', d)
    BY <1>1, <1>2, <1>4, <1>5, ForceCloseCalled
  <1>7. ResetChannel.c = 0 /\ StopInLoop.c = 0
    BY DEF ResetChannel, StopInLoop
  <1>8. ClientState'
    <2>1. connection_' \in 0 .. Len(links')
      BY <1>1, <1>2, <1>6
    <2> QED
      BY <1>1, <1>3, <1>6, <1>16, <2>1 DEF ClientIInv, ClientState
  <1>9. links' # <<>>
    BY <1>2, <1>6
  <1>10. Uncalled' /\ ConnectorShape'
    BY <1>1, <1>3, <1>9 DEF Uncalled, ConnectorShape, ClientIInv
  <1>17. RemoveHolds'
    <2>1. ASSUME tooSoon' = {}
          PROVE  /\ connector'.failed = {} /\ connector'.state # "kConnecting"
                 /\ StopInLoop \notin Range(ClientQueue')
                 /\ ResetChannel \notin Range(ClientQueue')
                 /\ StopInLoop \notin Range(queue') /\ ResetChannel \notin Range(queue')
      <3>1. Range(ClientQueue) = Range(batch) \cup Range(queue)
        BY QueueFacts DEF ClientIInv
      <3> QED
        BY <1>1, <1>2, <1>3, <1>6, <1>7, <1>15, <2>1, <3>1
    <2>2. removeTimer = 0
      BY <1>1 DEF ClientIInv, RemoveHolds
    <2> QED
      BY <1>1, <2>1, <2>2 DEF RemoveHolds
  <1>11. StopHolds'
    BY <1>1, <1>2, <1>3, <1>6, <1>7 DEF StopHolds, ClientIInv
  <1>12. ChannelHolds'
    BY <1>1, <1>3, <1>6, <1>7 DEF ChannelHolds, ClientIInv
  <1>13. Held'
    BY <1>1 DEF Held
  <1>14. Rounds'
    BY <1>1, <1>3, <1>6 DEF Rounds, ClientIInv
  <1> QED
    BY <1>1, <1>3, <1>6, <1>8, <1>10, <1>11, <1>12, <1>13, <1>14, <1>15, <1>17
       DEF ClientIInv

\* The timer of forceCloseWithDelay
LEMMA CloseTimerStep ==
    ASSUME ClientIInv, NEW c \in DOMAIN links, closeFires(c)
    PROVE  ClientIInv'
  <1> DEFINE k == forceClose(links[c])
  <1>1. /\ closeTimers' = closeTimers \ {c} /\ connector' = connector
        /\ exists' = exists /\ connection_' = connection_
        /\ connect_' = connect_ /\ retry_' = retry_ /\ removeTimer' = removeTimer
        /\ stage' = stage /\ ready' = ready /\ stage = "events"
        /\ batch' = batch /\ called' = called /\ stopped' = stopped
        /\ held' = held /\ tooSoon' = tooSoon
    BY DEF closeFires
  <1>2. c \in 1 .. Len(links) /\ links \in Seq(ConnType) /\ called
    BY DEF ClientIInv, ClientState, Uncalled
  <1>3. ResetChannel.c = 0 /\ StopInLoop.c = 0
    BY DEF ResetChannel, StopInLoop
  <1>4. CASE InUse(c) \/ c \in held
    <2>1. links' = [links EXCEPT ![c] = Done(k)] /\ queue' = queue \o Pushed(k, c)
      BY <1>4 DEF closeFires
    <2>2. k \in {links[c], forceClose(links[c])} /\ k = forceClose(links[c])
      OBVIOUS
    <2> HIDE DEF k
    <2>3. /\ Links' /\ links' \in Seq(ConnType) /\ Len(links') = Len(links)
          /\ queue' \in Seq(ClientFunctor)
          /\ \A f \in Range(ClientQueue') : f.c \in 0 .. Len(links')
          /\ \A d \in 1 .. Len(links) : Open(links[d]) <=> Open(links'[d])
          /\ \A f : f.c = 0 => (f \in Range(ClientQueue') <=> f \in Range(ClientQueue))
          /\ \A f : f.c = 0 => (f \in Range(queue') <=> f \in Range(queue))
          /\ \A d : ResetFirst(ClientQueue, d) => ResetFirst(ClientQueue', d)
      BY <1>1, <1>2, <2>1, <2>2, ForceCloseCalled
    <2>4. ClientState'
      BY <1>1, <2>3 DEF ClientIInv, ClientState
    <2>5. links' # <<>> /\ links # <<>>
      BY <1>2, <2>3
    <2>6. Uncalled' /\ ConnectorShape' /\ RemoveHolds'
      BY <1>1, <1>2, <1>3, <2>3, <2>5 DEF Uncalled, ConnectorShape, RemoveHolds, ClientIInv
    <2>7. StopHolds'
      BY <1>1, <1>3, <2>3 DEF StopHolds, ClientIInv
    <2>8. ChannelHolds'
      BY <1>1, <1>3, <2>3 DEF ChannelHolds, ClientIInv
    <2>9. Held'
      <3>1. connection_ \in 0 .. Len(links)
        BY DEF ClientIInv, ClientState
      <3>2. connection_ # 0 => connection_ \in 1 .. Len(links)
        BY <3>1
      <3> QED
        BY <1>1, <2>3, <3>2 DEF Held, ClientIInv
    <2>10. Rounds'
      BY <1>1, <2>3 DEF Rounds, ClientIInv
    <2> QED
      BY <1>1, <2>3, <2>4, <2>5, <2>6, <2>7, <2>8, <2>9, <2>10 DEF ClientIInv
  <1>5. CASE ~(InUse(c) \/ c \in held)
    <2>1. links' = links /\ queue' = queue
      BY <1>5 DEF closeFires
    <2>2. ClientQueue' = ClientQueue
      BY <1>1, <2>1 DEF ClientQueue
    <2>3. ClientState' /\ Uncalled' /\ ConnectorShape' /\ RemoveHolds' /\ Rounds'
      BY <1>1, <2>1, <2>2
         DEF ClientIInv, ClientState, Uncalled, ConnectorShape, RemoveHolds, Rounds
    <2>4. StopHolds' /\ Held' /\ ChannelHolds' /\ Links'
      BY <1>1, <2>1, <2>2 DEF ClientIInv, StopHolds, Held, ChannelHolds, Links
    <2> QED
      BY <1>1, <2>1, <2>3, <2>4 DEF ClientIInv
  <1> QED
    BY <1>4, <1>5

-----------------------------------------------------------------------------
(* The steps of a user who keeps a connection *)

\* A functor that holds an open connection is to close it.
LEMMA ClosesWhatItHolds ==
    ASSUME ClientIInv, NEW c \in 1 .. Len(links), Open(links[c]), Holds(c)
    PROVE  ForceClose(c) \in Range(ClientQueue)
  <1>1. c # 0
    BY DEF ClientIInv, ClientState
  <1>2. PICK f \in Range(ClientQueue) : f.c = c
    BY QueueFacts DEF Holds, ClientIInv
  <1>3. f \in ClientFunctor
    BY QueueFacts, RangeEquality DEF ClientIInv
  <1>4. f = ForceClose(c) \/ f = Destroyed(c)
    BY <1>1, <1>2, <1>3 DEF ClientFunctor, ForceClose, Destroyed
  <1>5. Destroyed(c) \notin Range(ClientQueue)
    BY DEF ClientIInv, Links
  <1> QED
    BY <1>2, <1>4, <1>5

\* A pointer is kept.
LEMMA HoldStep ==
    ASSUME ClientIInv, NEW c \in DOMAIN links, hold(c)
    PROVE  ClientIInv'
  <1>1. /\ exists' = exists /\ connect_' = connect_ /\ retry_' = retry_
        /\ connection_' = connection_ /\ links' = links /\ connector' = connector
        /\ removeTimer' = removeTimer /\ closeTimers' = closeTimers
        /\ stage' = stage /\ ready' = ready /\ queue' = queue /\ batch' = batch
        /\ called' = called /\ stopped' = stopped
        /\ held' = held \cup {c} /\ tooSoon' = tooSoon
    BY DEF hold
  <1>2. ClientQueue' = ClientQueue
    BY <1>1 DEF ClientQueue
  <1>3. c \in 1 .. Len(links)
    BY DEF ClientIInv, ClientState
  <1>4. ClientState' /\ Uncalled' /\ ConnectorShape' /\ StopHolds' /\ Links'
    BY <1>1, <1>2, <1>3
       DEF ClientIInv, ClientState, Uncalled, ConnectorShape, StopHolds, Links
  <1>5. ChannelHolds' /\ RemoveHolds' /\ Held' /\ Rounds'
    BY <1>1, <1>2 DEF ClientIInv, ChannelHolds, RemoveHolds, Held, Rounds
  <1> QED
    BY <1>1, <1>4, <1>5 DEF ClientIInv

\* A call of the user through the pointer
LEMMA HolderCallsStep ==
    ASSUME ClientIInv, NEW c \in DOMAIN links, NEW u \in ClientUserCalls, NEW w \in Nat,
           holderCalls(c, u, w)
    PROVE  ClientIInv'
  <1> DEFINE k == UserCall(links[c], u, w)
  <1>1. /\ c \in held /\ ClientSettle(c, k, "fatal")
        /\ connect_' = connect_ /\ exists' = exists /\ retry_' = retry_
        /\ removeTimer' = removeTimer /\ stage' = stage /\ batch' = batch
        /\ called' = called /\ stopped' = stopped /\ ready' = ready
        /\ held' = held /\ tooSoon' = tooSoon
    BY DEF holderCalls
  <1>2. /\ c \in 1 .. Len(links) /\ Healthy(links[c])
        /\ ~Open(links[c]) =>
             IF links[c].index = "kNew" THEN Destroyed(c) \notin Range(ClientQueue)
             ELSE Once(ClientQueue, Destroyed(c))
    BY DEF ClientIInv, ClientState, Links
  <1>3. u \notin {"startRead", "stopRead"}
    BY ClientAssumption DEF ClientAssumption
  <1>4. Handled(k) /\ (Open(k) <=> Open(links[c])) /\ ~k.closing
        /\ (~Open(links[c]) => k = links[c])
    BY <1>2, <1>3, CallHandled
  <1> HIDE DEF k
  <1>5. batch' \o queue = ClientQueue
    BY <1>1 DEF ClientQueue
  <1>6. ~Open(k) => \A e \in ready' : e.c # c
    BY <1>1, <1>2, <1>4 DEF ClientIInv, Rounds
  <1> QED
    BY <1>1, <1>2, <1>4, <1>5, <1>6, ClientSettleStep

\* What is left once the last pointer to an open connection has gone: the
\* program has aborted.
Abandoned == ClientInv /\ ClientAborted

\* A pointer goes that was not the last one to an open connection.
LEMMA LetGoStep ==
    ASSUME ClientIInv, NEW c \in DOMAIN links, letGo(c),
           InUse(c) \/ links[c].state = "kDisconnected"
    PROVE  ClientIInv'
  <1>1. /\ exists' = exists /\ connect_' = connect_ /\ retry_' = retry_
        /\ connection_' = connection_ /\ connector' = connector
        /\ removeTimer' = removeTimer /\ closeTimers' = closeTimers
        /\ stage' = stage /\ ready' = ready /\ queue' = queue /\ batch' = batch
        /\ called' = called /\ stopped' = stopped
        /\ held' = held \ {c} /\ tooSoon' = tooSoon
    BY DEF letGo
  <1>2. ClientQueue' = ClientQueue
    BY <1>1 DEF ClientQueue
  <1>3. c \in 1 .. Len(links) /\ links \in Seq(ConnType) /\ links[c] \in ConnType
        /\ ~links[c].failed
    BY DEF ClientIInv, ClientState, Links, Healthy
  <1>4. links' = links
    <2>1. CASE InUse(c)
      BY <2>1 DEF letGo
    <2>2. CASE ~InUse(c)
      <3>1. links[c].state = "kDisconnected"
        BY <2>2
      <3>2. PICK k \in ConnType : k = links[c] /\ ~k.failed
        BY <1>3
      <3>3. Check(k, TRUE) = k
        BY <3>2 DEF Check, ConnType
      <3>4. links' = [links EXCEPT ![c] = k]
        <4>1. links' = [links EXCEPT ![c] = Check(links[c], TRUE)]
          BY <2>2, <3>1 DEF letGo
        <4>2. Check(links[c], TRUE) = k
          BY <3>2, <3>3
        <4> QED
          BY <4>1, <4>2, Zenon
      <3>5. links' = [links EXCEPT ![c] = links[c]]
        BY <3>2, <3>4, Zenon
      <3> QED
        BY <1>3, <3>5
    <2> QED
      BY <2>1, <2>2
  <1>5. Open(links[c]) /\ ~exists => ForceClose(c) \in Range(ClientQueue)
    <2> SUFFICES ASSUME Open(links[c]), ~exists
                 PROVE  ForceClose(c) \in Range(ClientQueue)
      OBVIOUS
    <2>1. InUse(c)
      BY DEF Open
    <2>2. connection_ # c
      BY <1>3 DEF ClientIInv, StopHolds
    <2>3. Holds(c)
      BY <2>1, <2>2 DEF InUse
    <2> QED
      BY <1>3, <2>3, ClosesWhatItHolds
  <1>6. ClientState' /\ Uncalled' /\ ConnectorShape' /\ StopHolds'
    BY <1>1, <1>2, <1>4
       DEF ClientIInv, ClientState, Uncalled, ConnectorShape, StopHolds
  <1>7. Links'
    BY <1>1, <1>2, <1>4, <1>5 DEF ClientIInv, Links
  <1>8. ChannelHolds' /\ RemoveHolds' /\ Held' /\ Rounds'
    BY <1>1, <1>2, <1>4 DEF ClientIInv, ChannelHolds, RemoveHolds, Held, Rounds
  <1> QED
    BY <1>1, <1>4, <1>6, <1>7, <1>8 DEF ClientIInv

-----------------------------------------------------------------------------
(* The steps of the loop and of the network *)

\* poll reports the socket that connects and the connections that are open.
LEMMA ClientPollStep ==
    ASSUME ClientIInv, NEW data \in BOOLEAN, NEW writable, clientPoll(data, writable)
    PROVE  ClientIInv'
  <1>1. /\ stage = "poll" /\ stage' = "events"
        /\ exists' = exists /\ connect_' = connect_ /\ retry_' = retry_
        /\ connection_' = connection_ /\ links' = links /\ connector' = connector
        /\ removeTimer' = removeTimer /\ closeTimers' = closeTimers
        /\ queue' = queue /\ batch' = batch /\ called' = called /\ stopped' = stopped
        /\ held' = held /\ tooSoon' = tooSoon
    BY DEF clientPoll
  <1>2. ClientQueue' = ClientQueue
    BY <1>1 DEF ClientQueue
  <1>3. links \in Seq(ConnType) /\ DOMAIN links = 1 .. Len(links) /\ batch = <<>>
        /\ connector \in ConnectorType
    BY <1>1 DEF ClientIInv, ClientState, Rounds
  <1>4. ConnectorEvents \in SUBSET Revent
        /\ (ConnectorEvents # {} => connector.registered)
    BY DEF ConnectorEvents, Revent
  <1>5. ASSUME NEW c \in 1 .. Len(links), Revents(links[c], data, writable) # {}
        PROVE  Open(links[c])
    <2>1. links[c].watch # Off
      BY <1>5, ReventsFacts
    <2>2. Life(links[c]) /\ links[c].reading /\ links[c].state # "kConnecting"
          /\ links[c] \in ConnType /\ ~links[c].restarted
      BY <1>3 DEF ClientIInv, Links, Healthy
    <2>3. links[c].state # "kDisconnected"
      BY <2>1, <2>2 DEF Life
    <2> QED
      BY <2>2, <2>3 DEF Open, ConnType
  <1>6. ASSUME NEW e \in ready'
        PROVE  \/ /\ e = [c |-> 0, data |-> FALSE, revents |-> ConnectorEvents]
                  /\ ConnectorEvents # {}
               \/ \E c \in 1 .. Len(links) :
                    /\ e = [c |-> c, data |-> data,
                            revents |-> Revents(links[c], data, writable)]
                    /\ Revents(links[c], data, writable) # {}
    BY <1>3, <1>6 DEF clientPoll
  <1>7. ready' \subseteq ClientEvent
    <2> SUFFICES ASSUME NEW e \in ready'
                 PROVE  e \in ClientEvent
      OBVIOUS
    <2>1. CASE e = [c |-> 0, data |-> FALSE, revents |-> ConnectorEvents]
      BY <1>4, <2>1 DEF ClientEvent
    <2>2. ASSUME NEW c \in 1 .. Len(links),
                 e = [c |-> c, data |-> data, revents |-> Revents(links[c], data, writable)]
          PROVE  e \in ClientEvent
      <3>1. Revents(links[c], data, writable) \in SUBSET Revent /\ c \in Nat
        BY <1>3, ReventsFacts
      <3> QED
        BY <2>2, <3>1 DEF ClientEvent
    <2> QED
      BY <1>6, <2>1, <2>2
  <1>8. Rounds'
    <2>1. ASSUME NEW e \in ready'
          PROVE  /\ e.c = 0 => connector.state = "kConnecting"
                 /\ e.c # 0 => e.c \in 1 .. Len(links) /\ Open(links[e.c])
      <3>1. CASE e = [c |-> 0, data |-> FALSE, revents |-> ConnectorEvents]
                 /\ ConnectorEvents # {}
        BY <1>4, <3>1 DEF ClientIInv, ConnectorShape
      <3>2. ASSUME NEW c \in 1 .. Len(links),
                   e = [c |-> c, data |-> data, revents |-> Revents(links[c], data, writable)],
                   Revents(links[c], data, writable) # {}
            PROVE  e.c \in 1 .. Len(links) /\ Open(links[e.c]) /\ e.c # 0
        BY <1>3, <1>5, <3>2
      <3> QED
        BY <1>6, <3>1, <3>2
    <2>2. ASSUME NEW e \in ready', NEW d \in ready', d.c = e.c
          PROVE  d = e
      <3>1. ASSUME NEW g \in ready'
            PROVE  /\ g.c = 0 =>
                        g = [c |-> 0, data |-> FALSE, revents |-> ConnectorEvents]
                   /\ g.c # 0 =>
                        g = [c |-> g.c, data |-> data,
                             revents |-> Revents(links[g.c], data, writable)]
        <4>1. CASE g = [c |-> 0, data |-> FALSE, revents |-> ConnectorEvents]
          BY <4>1
        <4>2. ASSUME NEW c \in 1 .. Len(links),
                     g = [c |-> c, data |-> data,
                          revents |-> Revents(links[c], data, writable)]
              PROVE  /\ g.c # 0
                     /\ g = [c |-> g.c, data |-> data,
                             revents |-> Revents(links[g.c], data, writable)]
          <5>1. g.c = c /\ c # 0
            BY <1>3, <4>2
          <5> QED
            BY <4>2, <5>1
        <4> QED
          BY <1>6, <4>1, <4>2
      <3> QED
        BY <2>2, <3>1
    <2> QED
      BY <1>1, <1>3, <2>1, <2>2 DEF Rounds
  <1>9. ClientState' /\ Uncalled' /\ ConnectorShape' /\ Links'
    BY <1>1, <1>2, <1>7 DEF ClientIInv, ClientState, Uncalled, ConnectorShape, Links
  <1>10. StopHolds' /\ Held'
    BY <1>1, <1>2 DEF ClientIInv, StopHolds, Held
  <1>11. ChannelHolds' /\ RemoveHolds'
    BY <1>1, <1>2 DEF ClientIInv, ChannelHolds, RemoveHolds
  <1> QED
    BY <1>1, <1>8, <1>9, <1>10, <1>11 DEF ClientIInv

\* doPendingFunctors takes the functors.
LEMMA ClientTakeStep ==
    ASSUME ClientIInv, clientTakeFunctors
    PROVE  ClientIInv'
  <1>1. /\ stage = "events" /\ ready = {} /\ stage' = "functors"
        /\ batch' = queue /\ queue' = <<>>
        /\ exists' = exists /\ connect_' = connect_ /\ retry_' = retry_
        /\ connection_' = connection_ /\ links' = links /\ connector' = connector
        /\ removeTimer' = removeTimer /\ closeTimers' = closeTimers
        /\ ready' = ready /\ called' = called /\ stopped' = stopped
        /\ held' = held /\ tooSoon' = tooSoon
    BY DEF clientTakeFunctors
  <1>2. batch = <<>> /\ queue \in Seq(ClientFunctor) /\ ClientQueue = queue
    BY <1>1, QueueFacts DEF ClientIInv, Rounds, ClientState
  <1>3. ClientQueue' = ClientQueue
    <2>1. ClientQueue' = queue \o <<>>
      BY <1>1 DEF ClientQueue
    <2> QED
      BY <1>2, <2>1
  <1>4. queue' \in Seq(ClientFunctor) /\ Range(queue') = {}
    <2>1. Range(<<>>) = {}
      BY FewFunctors
    <2>2. <<>> \in Seq(ClientFunctor)
      OBVIOUS
    <2> QED
      BY <1>1, <2>1, <2>2
  <1>5. ClientState' /\ Uncalled' /\ ConnectorShape' /\ Links'
    BY <1>1, <1>2, <1>3, <1>4
       DEF ClientIInv, ClientState, Uncalled, ConnectorShape, Links
  <1>6. StopHolds' /\ Held' /\ Rounds'
    BY <1>1, <1>3 DEF ClientIInv, StopHolds, Held, Rounds
  <1>7. ChannelHolds' /\ RemoveHolds'
    BY <1>1, <1>2, <1>3, <1>4 DEF ClientIInv, ChannelHolds, RemoveHolds
  <1> QED
    BY <1>1, <1>5, <1>6, <1>7 DEF ClientIInv

\* The functors have been run: the loop is about to poll, and its timers are
\* a round older.
LEMMA ClientDoneStep ==
    ASSUME ClientIInv, clientFunctorsDone
    PROVE  ClientIInv'
  <1> DEFINE n == IF connector.retryTimer \in 1 .. RetryRounds
                  THEN connector.retryTimer + 1 ELSE connector.retryTimer
  <1>1. /\ stage = "functors" /\ batch = <<>> /\ stage' = "poll"
        /\ removeTimer' = IF removeTimer \in 1 .. RemoveRounds THEN removeTimer + 1
                          ELSE removeTimer
        /\ exists' = exists /\ connect_' = connect_ /\ retry_' = retry_
        /\ connection_' = connection_ /\ links' = links
        /\ closeTimers' = closeTimers /\ queue' = queue /\ batch' = batch
        /\ ready' = ready /\ called' = called /\ stopped' = stopped
        /\ held' = held /\ tooSoon' = tooSoon
    BY DEF clientFunctorsDone
  <1>2. connector \in ConnectorType /\ connector.todo = <<>>
        /\ connector.retryTimer \in 0 .. 2
    BY DEF ClientIInv, ClientState, ConnectorType, RetryRounds
  <1>3. connector' = [connector EXCEPT !.retryTimer = n]
    BY <1>2 DEF clientFunctorsDone, ConnectorType
  <1>4. /\ n \in 0 .. 2 /\ (n = 0 <=> connector.retryTimer = 0)
        /\ (connector.retryTimer > 0 => n > 0)
    BY <1>2 DEF RetryRounds
  <1> HIDE DEF n
  <1>5. /\ connector' \in ConnectorType /\ connector'.todo = <<>>
        /\ connector'.connect = connector.connect /\ connector'.state = connector.state
        /\ connector'.channel = connector.channel
        /\ connector'.registered = connector.registered
        /\ connector'.retryTimer = n /\ connector'.fatal = connector.fatal
        /\ connector'.failed = connector.failed
        /\ (n = 0 => connector' = connector)
    BY <1>2, <1>3, <1>4 DEF ConnectorType, RetryRounds
  <1>6. ClientQueue' = ClientQueue /\ ClientQueue = queue /\ Range(batch) = {}
    BY <1>1, QueueFacts, FewFunctors DEF ClientQueue, ClientIInv
  <1>7. removeTimer' \in 0 .. RemoveRounds + 1
    BY <1>1 DEF ClientIInv, ClientState, RemoveRounds
  <1>8. ClientState' /\ Links'
    BY <1>1, <1>5, <1>6, <1>7 DEF ClientIInv, ClientState, Links
  <1>9. Uncalled'
    <2>1. ~called => n = 0
      BY <1>4 DEF ClientIInv, Uncalled, NewConnector
    <2> QED
      BY <1>1, <1>5, <1>6, <2>1 DEF ClientIInv, Uncalled
  <1>10. ConnectorShape' /\ StopHolds'
    BY <1>1, <1>4, <1>5, <1>6 DEF ClientIInv, ConnectorShape, StopHolds
  <1>11. ChannelHolds'
    <2>1. connector.channel /\ ~connector.registered =>
            ResetChannel \in Range(ClientQueue) /\ ~connector.connect
      BY <1>1, <1>6 DEF ClientIInv, ChannelHolds
    <2> QED
      BY <1>5, <1>6, <2>1 DEF ChannelHolds
  <1>12. RemoveHolds'
    <2>1. exists => removeTimer' = 0
      BY <1>1 DEF ClientIInv, RemoveHolds
    <2>2. ASSUME tooSoon = {}, ~exists
          PROVE  /\ connector.failed = {}
                 /\ connector.state = "kConnecting" => StopInLoop \in Range(ClientQueue)
                 /\ StopInLoop \in Range(ClientQueue) => removeTimer' \in 1 .. 2
                 /\ ResetChannel \in Range(ClientQueue) => removeTimer' \in 1 .. 3
      <3>1. /\ connector.failed = {}
            /\ connector.state = "kConnecting" => StopInLoop \in Range(ClientQueue)
            /\ StopInLoop \in Range(queue) => removeTimer = 1
            /\ ResetChannel \in Range(queue) => removeTimer \in 1 .. 2
        BY <1>1, <2>2 DEF ClientIInv, RemoveHolds
      <3> QED
        BY <1>1, <1>6, <3>1 DEF RemoveRounds
    <2> QED
      BY <1>1, <1>5, <1>6, <2>1, <2>2 DEF RemoveHolds
  <1>13. Held' /\ Rounds'
    BY <1>1, <1>4, <1>5 DEF ClientIInv, Held, Rounds
  <1> QED
    BY <1>1, <1>5, <1>8, <1>9, <1>10, <1>11, <1>12, <1>13 DEF ClientIInv

\* The handshake ends.
LEMMA HandshakeStep ==
    ASSUME ClientIInv, NEW outcome \in {"ok", "refused", "self"}, handshake(outcome)
    PROVE  ClientIInv'
  <1>1. /\ connector.registered /\ connector' = [connector EXCEPT !.sock = outcome]
        /\ exists' = exists /\ connect_' = connect_ /\ retry_' = retry_
        /\ connection_' = connection_ /\ links' = links /\ removeTimer' = removeTimer
        /\ closeTimers' = closeTimers /\ stage' = stage /\ ready' = ready
        /\ queue' = queue /\ batch' = batch /\ called' = called /\ stopped' = stopped
        /\ held' = held /\ tooSoon' = tooSoon
    BY DEF handshake
  <1>2. connector \in ConnectorType /\ connector.todo = <<>> /\ called
    BY <1>1, UsedConnector DEF ClientIInv, ClientState
  <1>3. /\ connector' \in ConnectorType /\ connector'.todo = <<>>
        /\ connector'.connect = connector.connect /\ connector'.state = connector.state
        /\ connector'.channel = connector.channel
        /\ connector'.registered = connector.registered
        /\ connector'.retryTimer = connector.retryTimer
        /\ connector'.fatal = connector.fatal /\ connector'.failed = connector.failed
    BY <1>1, <1>2 DEF ConnectorType
  <1>4. ClientQueue' = ClientQueue
    BY <1>1 DEF ClientQueue
  <1>5. ClientState' /\ Links' /\ Uncalled' /\ ConnectorShape'
    BY <1>1, <1>2, <1>3, <1>4
       DEF ClientIInv, ClientState, Links, Uncalled, ConnectorShape
  <1>6. StopHolds' /\ ChannelHolds' /\ RemoveHolds'
    BY <1>1, <1>3, <1>4 DEF ClientIInv, StopHolds, ChannelHolds, RemoveHolds
  <1>7. Held' /\ Rounds'
    BY <1>1, <1>3 DEF ClientIInv, Held, Rounds
  <1> QED
    BY <1>1, <1>3, <1>5, <1>6, <1>7 DEF ClientIInv

\* The server closes or resets its end.
LEMMA ServerLeavesStep ==
    ASSUME ClientIInv, NEW c \in DOMAIN links, NEW how \in {"closed", "reset"},
           serverLeaves(c, how)
    PROVE  ClientIInv'
  <1>1. /\ links[c].peer \in {"open", "closed"}
        /\ links' = [links EXCEPT ![c].peer = how] /\ connector' = connector
        /\ exists' = exists /\ connect_' = connect_ /\ retry_' = retry_
        /\ connection_' = connection_ /\ removeTimer' = removeTimer
        /\ closeTimers' = closeTimers /\ stage' = stage /\ ready' = ready
        /\ queue' = queue /\ batch' = batch /\ called' = called /\ stopped' = stopped
        /\ held' = held /\ tooSoon' = tooSoon
    BY DEF serverLeaves
  <1>2. /\ c \in 1 .. Len(links) /\ links \in Seq(ConnType) /\ links[c] \in ConnType
        /\ Healthy(links[c])
    BY DEF ClientIInv, ClientState, Links
  <1>3. PICK j, k : j = links[c] /\ k = [j EXCEPT !.peer = how]
    OBVIOUS
  <1>4. /\ k \in ConnType /\ k.state = j.state /\ k.index = j.index
        /\ k.reading = j.reading /\ k.failed = j.failed
        /\ k.ups = j.ups /\ k.downs = j.downs /\ k.watch = j.watch
        /\ k.events = j.events /\ k.todo = j.todo /\ k.delayed = j.delayed
        /\ k.closing = j.closing /\ k.out = j.out /\ k.wire = j.wire
        /\ k.bytes = j.bytes /\ k.lost = j.lost /\ k.fin = j.fin /\ k.peer = how
    BY <1>2, <1>3 DEF ConnType
  <1>5. Healthy(k) /\ (Open(k) <=> Open(j))
    BY <1>1, <1>2, <1>3, <1>4
       DEF Healthy, Good, Stream, Settled, Life, WriteFails, isWriting, Open, ReadOn
  <1>6. /\ links' \in Seq(ConnType) /\ Len(links') = Len(links)
        /\ \A d \in 1 .. Len(links) :
             /\ Healthy(links[d]) => Healthy(links'[d])
             /\ Open(links'[d]) <=> Open(links[d])
             /\ links'[d].index = links[d].index
    <2>1. links' = [links EXCEPT ![c] = k]
      BY <1>1, <1>2, <1>3
    <2>2. /\ links' \in Seq(ConnType) /\ Len(links') = Len(links) /\ links'[c] = k
          /\ \A d \in 1 .. Len(links) : d # c => links'[d] = links[d]
      BY <1>2, <1>4, <2>1
    <2> QED
      BY <1>2, <1>3, <1>4, <1>5, <2>2
  <1>7. ClientQueue' = ClientQueue /\ links # <<>> /\ links' # <<>> /\ called
    <2>1. links # <<>> /\ links' # <<>>
      BY <1>2, <1>6
    <2> QED
      BY <1>1, <2>1 DEF ClientQueue, ClientIInv, Uncalled
  <1>8. Links'
    BY <1>1, <1>6, <1>7 DEF ClientIInv, Links
  <1>9. ClientState' /\ Uncalled' /\ ConnectorShape'
    BY <1>1, <1>6, <1>7 DEF ClientIInv, ClientState, Uncalled, ConnectorShape
  <1>10. StopHolds' /\ ChannelHolds' /\ RemoveHolds'
    BY <1>1, <1>7 DEF ClientIInv, StopHolds, ChannelHolds, RemoveHolds
  <1>11. Held' /\ Rounds'
    <2>1. connection_ # 0 => connection_ \in 1 .. Len(links)
      BY <1>2 DEF ClientIInv, ClientState
    <2>2. Held'
      BY <1>1, <1>6, <2>1 DEF ClientIInv, Held
    <2>3. Rounds'
      BY <1>1, <1>6 DEF ClientIInv, Rounds
    <2> QED
      BY <2>2, <2>3
  <1> QED
    BY <1>1, <1>7, <1>8, <1>9, <1>10, <1>11 DEF ClientIInv

LEMMA ClientStarts ==
    ASSUME ClientInit
    PROVE  ClientIInv
  <1>1. <<>> \in Seq(ConnType) /\ Len(<<>>) = 0
    OBVIOUS
  <1>2. <<>> \in Seq(ClientFunctor)
    OBVIOUS
  <1>3. <<>> \in Seq(ConnectorOps)
    OBVIOUS
  <1>4. ClientQueue = <<>> /\ Range(ClientQueue) = {}
    <2>1. ClientQueue = <<>> \o <<>> /\ <<>> \o <<>> = <<>>
      BY DEF ClientInit, ClientQueue
    <2> QED
      BY <2>1, FewFunctors
  <1>5. NewConnector \in ConnectorType
    BY <1>3, ClientAssumption
       DEF NewConnector, ConnectorType, ClientAssumption, RetryRounds
  <1>6. connector = NewConnector /\ connector.todo = <<>> /\ connector.failed = {}
        /\ connector.state = "kDisconnected" /\ ~connector.channel /\ ~connector.registered
        /\ connector.retryTimer = 0 /\ ~connector.connect
    BY DEF ClientInit, NewConnector
  <1>7. ClientState
    <2>1. /\ links \in Seq(ConnType) /\ Len(links) = 0 /\ queue \in Seq(ClientFunctor)
          /\ batch \in Seq(ClientFunctor)
      BY <1>1, <1>2 DEF ClientInit
    <2>2. /\ exists \in BOOLEAN /\ connect_ \in BOOLEAN /\ retry_ \in BOOLEAN
          /\ called \in BOOLEAN /\ stopped \in BOOLEAN
          /\ stage \in {"poll", "events", "functors"} /\ ready \subseteq ClientEvent
      BY DEF ClientInit
    <2>3. /\ connection_ \in 0 .. Len(links) /\ closeTimers \subseteq 1 .. Len(links)
          /\ held \subseteq 1 .. Len(links) /\ tooSoon \subseteq Sooner
          /\ removeTimer \in 0 .. RemoveRounds + 1
      BY <2>1 DEF ClientInit, RemoveRounds
    <2> QED
      BY <1>4, <1>5, <1>6, <2>1, <2>2, <2>3 DEF ClientState
  <1>8. Links
    BY <1>1 DEF ClientInit, Links
  <1>9. Uncalled /\ ConnectorShape /\ StopHolds /\ ChannelHolds /\ RemoveHolds
    BY <1>4, <1>6
       DEF ClientInit, Uncalled, ConnectorShape, StopHolds, ChannelHolds, RemoveHolds
  <1>10. Held /\ Rounds
    BY <1>6 DEF ClientInit, Held, Rounds
  <1> QED
    BY <1>6, <1>7, <1>8, <1>9, <1>10 DEF ClientIInv

\* What the invariant says of the client.
LEMMA ClientHolds ==
    ASSUME ClientIInv
    PROVE  ClientInv
  <1>1. /\ links \in Seq(ConnType) /\ DOMAIN links = 1 .. Len(links)
        /\ connector \in ConnectorType
        /\ ClientQueued = Range(ClientQueue) /\ ClientQueue \in Seq(ClientFunctor)
    BY QueueFacts DEF ClientIInv, ClientState
  <1>2. \A f \in ClientQueued : f \in ClientFunctor
    BY <1>1, RangeEquality
  <1>3. ClientTypeOK
    <2>1. ASSUME NEW f \in ClientQueued
          PROVE  f.op \in IF f.c = 0 THEN {"stopInLoop", "resetChannel"}
                          ELSE {"forceCloseInLoop", "connectDestroyed"}
      BY <1>2 DEF ClientFunctor, ConnectorOps
    <2>2. /\ connector.state \in {"kDisconnected", "kConnecting", "kConnected"}
          /\ connector.delay \in kInitRetryDelay .. kMaxRetryDelay
      BY <1>1 DEF ConnectorType
    <2>3. /\ {exists, connect_, retry_, called, stopped} \subseteq BOOLEAN
          /\ connection_ \in 0 .. Len(links) /\ closeTimers \subseteq DOMAIN links
          /\ stage \in {"poll", "events", "functors"}
          /\ removeTimer \in 0 .. RemoveRounds + 1
          /\ held \subseteq DOMAIN links
          /\ tooSoon \subseteq {"timer", "~TcpClient", "~TcpConnection"}
      BY <1>1 DEF ClientIInv, ClientState, Sooner
    <2> QED
      BY <2>1, <2>2, <2>3 DEF ClientTypeOK
  <1>4. ClientAssertionsHold
    BY <1>1 DEF ClientAssertionsHold, ClientIInv, Links, Healthy, Faults
  <1>5. OrphanIsClosed
    <2> SUFFICES ASSUME NEW c \in 1 .. Len(links), c # connection_
                 PROVE  \/ /\ links[c].state = "kDisconnected"
                           /\ links[c].index = "kNew" <=>
                                Destroyed(c) \notin Range(ClientQueue)
                        \/ /\ Open(links[c]) /\ ~exists
                           /\ ForceClose(c) \in Range(ClientQueue) \/ c \in held
      BY <1>1 DEF OrphanIsClosed, Destroyed, ForceClose
    <2>1. /\ Healthy(links[c]) /\ links[c] \in ConnType
          /\ Open(links[c]) => IF exists THEN c = connection_
                               ELSE ForceClose(c) \in Range(ClientQueue) \/ c \in held
          /\ ~Open(links[c]) =>
               IF links[c].index = "kNew" THEN Destroyed(c) \notin Range(ClientQueue)
               ELSE Once(ClientQueue, Destroyed(c))
      BY <1>1 DEF ClientIInv, Links
    <2>2. Once(ClientQueue, Destroyed(c)) => Destroyed(c) \in Range(ClientQueue)
      BY <1>1, RangeEquality DEF Once
    <2>3. ~Open(links[c]) => links[c].state = "kDisconnected"
      BY <2>1 DEF Healthy, Open, ConnType
    <2> QED
      BY <2>1, <2>2, <2>3
  <1>6. AlwaysTrying
    BY <1>1 DEF AlwaysTrying, ClientIInv, Held, ConnectorShape, ConnectorType
  <1> QED
    BY <1>3, <1>4, <1>5, <1>6 DEF ClientInv

\* The last pointer to an open connection goes.
LEMMA LastPointerGoes ==
    ASSUME ClientIInv, NEW c \in DOMAIN links, letGo(c),
           ~InUse(c), links[c].state # "kDisconnected"
    PROVE  Abandoned'
  <1>1. /\ exists' = exists /\ connect_' = connect_ /\ retry_' = retry_
        /\ connection_' = connection_ /\ connector' = connector
        /\ removeTimer' = removeTimer /\ closeTimers' = closeTimers
        /\ stage' = stage /\ queue' = queue /\ batch' = batch
        /\ called' = called /\ stopped' = stopped
        /\ held' = held \ {c} /\ tooSoon' = tooSoon \cup {"~TcpConnection"}
        /\ links' = [links EXCEPT ![c] = Check(links[c], FALSE)]
    BY DEF letGo
  <1>2. ClientTypeOK /\ ClientAssertionsHold
    BY ClientHolds DEF ClientInv
  <1>3. links \in Seq(ConnType) /\ links[c] \in ConnType /\ DOMAIN links = 1 .. Len(links)
    BY DEF ClientIInv, ClientState
  <1>4. PICK k : k = Check(links[c], FALSE)
    OBVIOUS
  <1>5. k \in ConnType /\ k.failed
    BY <1>3, <1>4 DEF Check, ConnType
  <1>6. /\ Len(links') = Len(links) /\ DOMAIN links' = DOMAIN links /\ links'[c] = k
    BY <1>1, <1>3, <1>4, <1>5
  <1>7. ClientAborted'
    BY <1>5, <1>6 DEF ClientAborted
  <1>8. ClientTypeOK'
    <2>1. ClientQueued' = ClientQueued
      BY <1>1 DEF ClientQueued
    <2> QED
      BY <1>1, <1>2, <1>6, <2>1 DEF ClientTypeOK
  <1>9. ClientAssertionsHold'
    BY <1>1, <1>2 DEF ClientAssertionsHold
  <1> QED
    BY <1>7, <1>8, <1>9 DEF Abandoned, ClientInv, OrphanIsClosed, AlwaysTrying

\* A program that has aborted stays as it is.
LEMMA AbandonedStays ==
    ASSUME Abandoned, [ClientNext]_clientVars
    PROVE  Abandoned' /\ connection_' = connection_
  <1>1. UNCHANGED clientVars
    BY DEF ClientNext, Abandoned
  <1>2. /\ exists' = exists /\ connect_' = connect_ /\ retry_' = retry_
        /\ connection_' = connection_ /\ links' = links /\ connector' = connector
        /\ removeTimer' = removeTimer /\ closeTimers' = closeTimers
        /\ stage' = stage /\ ready' = ready /\ queue' = queue /\ batch' = batch
        /\ called' = called /\ stopped' = stopped
        /\ held' = held /\ tooSoon' = tooSoon
    BY <1>1 DEF clientVars
  <1>3. ClientAborted' /\ ClientQueued' = ClientQueued
    BY <1>2 DEF Abandoned, ClientAborted, ClientQueued
  <1>4. ClientTypeOK'
    BY <1>2, <1>3 DEF Abandoned, ClientInv, ClientTypeOK
  <1>5. ClientAssertionsHold'
    BY <1>2 DEF Abandoned, ClientInv, ClientAssertionsHold
  <1> QED
    BY <1>2, <1>3, <1>4, <1>5 DEF Abandoned, ClientInv, OrphanIsClosed, AlwaysTrying

\* Every step keeps the invariant, but for the one that lets go of the last
\* pointer to an open connection.
LEMMA ClientKeeps ==
    ASSUME ClientIInv, [ClientNext]_clientVars
    PROVE  ClientIInv' \/ Abandoned'
  <1>1. Replies \subseteq {"progress", "again", "fatal"}
    BY DEF Replies
  <1>2. ASSUME NEW b
        PROVE  ClientWrites(b) \subseteq Nat
    BY ConnectionAssumption DEF ClientWrites, ConnectionAssumption
  <1>3. CASE UNCHANGED clientVars
    <2>1. /\ exists' = exists /\ connect_' = connect_ /\ retry_' = retry_
          /\ connection_' = connection_ /\ links' = links /\ connector' = connector
          /\ removeTimer' = removeTimer /\ closeTimers' = closeTimers
          /\ stage' = stage /\ ready' = ready /\ queue' = queue /\ batch' = batch
            /\ called' = called /\ stopped' = stopped
          /\ held' = held /\ tooSoon' = tooSoon
      BY <1>3 DEF clientVars
    <2>2. ClientQueue' = ClientQueue
      BY <2>1 DEF ClientQueue
    <2>3. ClientState' /\ Uncalled' /\ ConnectorShape' /\ StopHolds' /\ Links'
      BY <2>1, <2>2
         DEF ClientIInv, ClientState, Uncalled, ConnectorShape, StopHolds, Links
    <2>4. ChannelHolds' /\ RemoveHolds' /\ Held' /\ Rounds'
      BY <2>1, <2>2 DEF ClientIInv, ChannelHolds, RemoveHolds, Held, Rounds
    <2> QED
      BY <2>1, <2>3, <2>4 DEF ClientIInv
  <1>4. ASSUME NEW r \in Replies, connect(r)
        PROVE  ClientIInv'
    BY <1>1, <1>4, ConnectStep
  <1>5. ASSUME NEW r \in Replies, disconnect(r)
        PROVE  ClientIInv'
    BY <1>1, <1>5, DisconnectStep
  <1>6. ASSUME NEW r \in Replies, retryFires(r)
        PROVE  ClientIInv'
    BY <1>1, <1>6, RetryStep
  <1>7. ASSUME NEW r \in Replies, connectionFunctor(r)
        PROVE  ClientIInv'
    BY <1>1, <1>7, ConnectionFunctorStep
  <1>8. CASE connectorFunctor
    BY <1>8, ConnectorFunctorStep
  <1>9. CASE stop
    BY <1>9, StopStep
  <1>10. CASE destroyWithConnection
    BY <1>10, DestroyWithStep
  <1>11. CASE destroyWithoutConnection
    BY <1>11, DestroyWithoutStep
  <1>12. ASSUME NEW data \in BOOLEAN, NEW writable \in BOOLEAN, clientPoll(data, writable)
         PROVE  ClientIInv'
    BY <1>12, ClientPollStep
  <1>13. ASSUME NEW e \in ready, NEW u \in ClientDoes,
                NEW w \in ClientWrites(u = "send" \/ "OUT" \in e.revents),
                connectorEvent(e, u, w)
         PROVE  ClientIInv'
    <2>1. w \in Nat
      BY <1>2
    <2>2. PICK x1 : x1 = IF "ERR" \in e.revents THEN connectorError(connector)
                         ELSE connector
      OBVIOUS
    <2>3. CASE Connects(x1)
      BY <1>13, <2>1, <2>2, <2>3, NewConnectionStep
    <2>4. CASE ~Connects(x1)
      BY <1>13, <2>2, <2>4, ConnectorFailsStep
    <2> QED
      BY <2>3, <2>4
  <1>14. ASSUME NEW e \in ready, NEW u \in ClientDoes,
                NEW w \in ClientWrites(u = "send" \/ "OUT" \in e.revents),
                NEW r \in Replies, connectionEvent(e, u, w, r)
         PROVE  ClientIInv'
    <2>1. w \in Nat
      BY <1>2
    <2> QED
      BY <1>1, <1>14, <2>1, ConnectionEventStep
  <1>15. CASE removeConnector
    BY <1>15, RemoveConnectorStep
  <1>16. CASE clientTakeFunctors
    BY <1>16, ClientTakeStep
  <1>17. CASE clientFunctorsDone
    BY <1>17, ClientDoneStep
  <1>18. ASSUME NEW outcome \in {"ok", "refused", "self"}, handshake(outcome)
         PROVE  ClientIInv'
    BY <1>18, HandshakeStep
  <1>19. ASSUME NEW c \in DOMAIN links, closeFires(c)
         PROVE  ClientIInv'
    BY <1>19, CloseTimerStep
  <1>20. ASSUME NEW c \in DOMAIN links, serverLeaves(c, "closed") \/ serverLeaves(c, "reset")
         PROVE  ClientIInv'
    BY <1>20, ServerLeavesStep
  <1>21. ASSUME NEW c \in DOMAIN links, hold(c)
         PROVE  ClientIInv'
    BY <1>21, HoldStep
  <1>22. ASSUME NEW c \in DOMAIN links, NEW u \in ClientUserCalls,
                NEW w \in ClientWrites(u = "send"), holderCalls(c, u, w)
         PROVE  ClientIInv'
    <2>1. w \in Nat
      BY <1>2
    <2> QED
      BY <1>22, <2>1, HolderCallsStep
  <1>23. ASSUME NEW c \in DOMAIN links, letGo(c)
         PROVE  ClientIInv' \/ Abandoned'
    <2>1. CASE InUse(c) \/ links[c].state = "kDisconnected"
      BY <1>23, <2>1, LetGoStep
    <2>2. CASE ~InUse(c) /\ links[c].state # "kDisconnected"
      BY <1>23, <2>2, LastPointerGoes
    <2> QED
      BY <2>1, <2>2
  <1> QED
    BY <1>3, <1>4, <1>5, <1>6, <1>7, <1>8, <1>9, <1>10, <1>11, <1>12, <1>13, <1>14,
       <1>15, <1>16, <1>17, <1>18, <1>19, <1>20, <1>21, <1>22, <1>23
       DEF ClientNext

\* After stop only a connection that is held can be given up.
LEMMA StopsFinally ==
    ASSUME ClientIInv, [ClientNext]_clientVars
    PROVE  stopped /\ connection_ = 0 => connection_' = 0
  <1> SUFFICES ASSUME stopped, connection_ = 0
               PROVE  connection_' = 0
    OBVIOUS
  <1>1. ~connector.connect
    BY DEF ClientIInv, StopHolds
  <1>2. ASSUME NEW c, NEW k, NEW r, ClientSettle(c, k, r)
        PROVE  connection_' = 0
    BY <1>2 DEF ClientSettle
  <1>3. ASSUME NEW e \in ready, NEW u, NEW w, connectorEvent(e, u, w)
        PROVE  connection_' = 0
    <2> DEFINE x1 == IF "ERR" \in e.revents THEN connectorError(connector) ELSE connector
    <2>1. connector.state = "kConnecting" /\ connector.retryTimer = 0
          /\ connector \in ConnectorType /\ connector.todo = <<>>
      BY <1>3 DEF ClientIInv, ClientState, Rounds, ConnectorShape, connectorEvent
    <2>2. x1.connect = connector.connect
      BY <2>1, ConnectorEventFacts
    <2>3. ~Connects(x1)
      BY <1>1, <2>2 DEF Connects
    <2> QED
      BY <1>3, <2>3 DEF connectorEvent
  <1>4. CASE UNCHANGED clientVars
    BY <1>4 DEF clientVars
  <1>5. ASSUME NEW r, connect(r) \/ retryFires(r)
        PROVE  connection_' = 0
    BY <1>5 DEF connect, retryFires
  <1>6. ASSUME NEW r, disconnect(r) \/ connectionFunctor(r)
        PROVE  connection_' = 0
    BY <1>2, <1>6 DEF disconnect, connectionFunctor
  <1>7. ASSUME NEW e, NEW u, NEW w, NEW r, connectionEvent(e, u, w, r)
        PROVE  connection_' = 0
    BY <1>2, <1>7 DEF connectionEvent
  <1>8. CASE \/ connectorFunctor \/ stop \/ destroyWithConnection
             \/ destroyWithoutConnection \/ removeConnector \/ clientTakeFunctors
             \/ clientFunctorsDone
    BY <1>8 DEF connectorFunctor, stop, destroyWithConnection, destroyWithoutConnection,
       removeConnector, clientTakeFunctors, clientFunctorsDone
  <1>9. ASSUME NEW data, NEW writable, clientPoll(data, writable)
        PROVE  connection_' = 0
    BY <1>9 DEF clientPoll
  <1>10. ASSUME NEW outcome, handshake(outcome)
         PROVE  connection_' = 0
    BY <1>10 DEF handshake
  <1>11. ASSUME NEW c, NEW how, closeFires(c) \/ serverLeaves(c, how)
         PROVE  connection_' = 0
    BY <1>11 DEF closeFires, serverLeaves
  <1>12. ASSUME NEW c, hold(c) \/ letGo(c)
         PROVE  connection_' = 0
    BY <1>12 DEF hold, letGo
  <1>13. ASSUME NEW c, NEW u, NEW w, holderCalls(c, u, w)
         PROVE  connection_' = 0
    BY <1>2, <1>13 DEF holderCalls
  <1> QED
    BY <1>3, <1>4, <1>5, <1>6, <1>7, <1>8, <1>9, <1>10, <1>11, <1>12, <1>13 DEF ClientNext

\* muduo::net::TcpClient and Connector, in whatever order connect, disconnect,
\* stop, the destructor, the handshakes, the timers and the calls of a user who
\* keeps connections come: the assertions of client, connector and connection
\* hold and the Connector outlives its functors, unless a timer fires before
\* the rounds it is meant to outlast, the client is destroyed with its
\* connection while a functor of the Connector is queued, or the user lets go of
\* the last pointer to an open connection; the delay of a retry stays in its
\* bounds, a connection that outlives its client is held by the user or is
\* closed, and a client that was not stopped always has an attempt, a retry or a
\* connection.
THEOREM ClientsKeepTrying == ClientSpec => []ClientInv
  <1>1. ClientInit => ClientIInv
    BY ClientStarts
  <1>2. ClientIInv /\ [ClientNext]_clientVars => (ClientIInv \/ Abandoned)'
    BY ClientKeeps
  <1>3. Abandoned /\ [ClientNext]_clientVars => Abandoned'
    BY AbandonedStays
  <1>4. ClientIInv \/ Abandoned => ClientInv
    BY ClientHolds DEF Abandoned
  <1> QED
    BY <1>1, <1>2, <1>3, <1>4, PTL DEF ClientSpec

\* TcpClient::stop and ~TcpClient: no connection is handed to the user any
\* more, even if the handshake had ended before.
THEOREM StoppedClientsStayStopped == ClientSpec => StopIsFinal
  <1>1. ClientInit => ClientIInv
    BY ClientStarts
  <1>2. ClientIInv /\ [ClientNext]_clientVars => (ClientIInv \/ Abandoned)'
    BY ClientKeeps
  <1>3. Abandoned /\ [ClientNext]_clientVars => Abandoned'
    BY AbandonedStays
  <1>4. ClientIInv /\ [ClientNext]_clientVars =>
          [stopped /\ connection_ = 0 => connection_' = 0]_clientVars
    BY StopsFinally
  <1>5. Abandoned /\ [ClientNext]_clientVars =>
          [stopped /\ connection_ = 0 => connection_' = 0]_clientVars
    BY AbandonedStays
  <1> QED
    BY <1>1, <1>2, <1>3, <1>4, <1>5, PTL DEF ClientSpec, StopIsFinal
=============================================================================
