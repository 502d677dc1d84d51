----------------------------- MODULE TcpClient -----------------------------
(***************************************************************************)
(* muduo/net/TcpClient.cc and Connector.cc: a client connects, with        *)
(* retries, and owns one connection at a time.  The Connector is kept      *)
(* alive by the client, by its retry timer and by the timer of             *)
(* ~TcpClient, while the functors it queues hold a plain pointer to it.    *)
(* All runs in one loop, as in KcpServerSession: poll, the events of the   *)
(* batch with the timers, the functors.                                    *)
(***************************************************************************)
EXTENDS TcpConnection, FiniteSets

CONSTANTS kInitRetryDelay, kMaxRetryDelay,
          MaxClientCalls,  \* bound: calls of the user
          MaxTries,  \* bound: calls of connect(2)
          ClientUserCalls  \* the calls the user makes on the connection

ASSUME ClientAssumption ==
    /\ kInitRetryDelay \in Nat \ {0}
    /\ kMaxRetryDelay \in Nat /\ kInitRetryDelay <= kMaxRetryDelay
    /\ MaxClientCalls \in Nat /\ MaxTries \in Nat
    /\ ClientUserCalls \subseteq
         {"send", "shutdown", "forceClose", "forceCloseWithDelay"}

VARIABLES exists,      \* the TcpClient exists
          connect_, retry_,
          connection_, \* the connection the client holds, or 0
          links,       \* the connections, in the order of nextConnId_
          connector,   \* the Connector
          removeTimer, \* of ~TcpClient
          closeTimers, \* connections with a forceCloseWithDelay to come
          stage, ready, queue, batch, \* phase of the loop, its active
                       \* channels, pendingFunctors_ and what it took of them
          held,        \* connections to which the user keeps a pointer
          called, stopped, \* connect, and then stop, have been called: history
          tooSoon,     \* what came sooner than the code counts on: history
          uses, tries

clientVars == <<exists, connect_, retry_, connection_, links, connector,
                removeTimer, closeTimers, stage, ready, queue, batch,
                held, called, stopped, tooSoon, uses, tries>>

\* The constructor of Connector.  sock is the state of the connecting socket,
\* todo what was queued, failed the assertions that did not hold; fatal says
\* that connect gave up on an error it does not retry.  A timer is 0 when it is
\* off, and otherwise one more than the rounds of the loop since it was set.
NewConnector ==
    [connect |-> FALSE, state |-> "kDisconnected", delay |-> kInitRetryDelay,
     channel |-> FALSE, registered |-> FALSE, sock |-> "none",
     retryTimer |-> 0, fatal |-> FALSE, todo |-> <<>>, failed |-> {}]

ClientInit ==
    /\ exists = TRUE /\ connect_ = TRUE /\ retry_ \in BOOLEAN
    /\ connection_ = 0 /\ links = <<>> /\ connector = NewConnector
    /\ removeTimer = 0 /\ closeTimers = {}
    /\ stage = "functors" /\ ready = {} /\ queue = <<>> /\ batch = <<>>
    /\ held = {} /\ called = FALSE /\ stopped = FALSE /\ tooSoon = {}
    /\ uses = 0 /\ tries = 0

-----------------------------------------------------------------------------
(* Connector, as operators on its record.  r is what connect(2) answers:     *)
(* "progress", "again" for the errors that are retried, or "fatal".          *)

Require(x, assertion, condition) ==
    IF condition THEN x ELSE [x EXCEPT !.failed = @ \cup {assertion}]

Smaller(m, n) == IF m < n THEN m ELSE n

connecting(x) ==
    [Require(x, "connecting", ~x.channel)
        EXCEPT !.state = "kConnecting", !.channel = TRUE,
               !.registered = TRUE, !.sock = "pending"]

NextDelay(d) == Smaller(d * 2, kMaxRetryDelay)

\* The socket is closed.
Reset(x) == [x EXCEPT !.sock = "none", !.state = "kDisconnected"]

\* Slip: no timer is set.
retry_NoTimer(x) == Reset(x)

retry(x) ==
    IF x.connect
    THEN [Reset(x) EXCEPT !.retryTimer = 1, !.delay = NextDelay(@)]
    ELSE Reset(x)

connectSocket(x, r) ==
    CASE r = "progress" -> connecting(x)
      [] r = "again" -> retry(x)
      [] r = "fatal" -> [x EXCEPT !.sock = "none", !.fatal = TRUE]

startInLoop(x, r) ==
    LET x1 == Require(x, "startInLoop", x.state = "kDisconnected")
    IN  IF x.connect THEN connectSocket(x1, r) ELSE x1

restart(x, r) ==
    startInLoop([x EXCEPT !.state = "kDisconnected", !.connect = TRUE,
                          !.delay = kInitRetryDelay], r)

stopConnector(x) ==
    [x EXCEPT !.connect = FALSE, !.todo = Append(@, "stopInLoop")]

removeAndResetChannel(x) ==
    [x EXCEPT !.registered = FALSE, !.todo = Append(@, "resetChannel")]

stopInLoop(x) ==
    IF x.state = "kConnecting"
    THEN retry(removeAndResetChannel([x EXCEPT !.state = "kDisconnected"]))
    ELSE x

resetChannel(x) == [x EXCEPT !.channel = FALSE]

connectorError(x) ==
    IF x.state = "kConnecting" THEN retry(removeAndResetChannel(x)) ELSE x

\* Slip: connect_ is not looked at once the handshake has ended.
Connects_EvenStopped(x) == x.state = "kConnecting" /\ x.sock = "ok"

\* handleWrite; the caller does newConnectionCallback_ when Connects holds.
Connects(x) == x.state = "kConnecting" /\ x.sock = "ok" /\ x.connect
connectorWrite(x) ==
    LET x1 == removeAndResetChannel(x) IN
    CASE x.state = "kConnecting" /\ x.sock # "ok" -> retry(x1)
      [] x.state = "kConnecting" /\ x.sock = "ok" ->
           [x1 EXCEPT !.state = "kConnected", !.sock = "none"]
      [] OTHER -> Require(x, "handleWrite", x.state = "kDisconnected")

ConnectorAlive == exists \/ connector.retryTimer > 0 \/ removeTimer > 0

\* The destructor runs when the last owner has gone.
Release(x, client, timer) ==
    IF client \/ timer \/ x.retryTimer > 0 THEN x
    ELSE Require(x, "~Connector", ~x.channel)

-----------------------------------------------------------------------------
ClientAborted ==
    connector.failed # {} \/ \E c \in DOMAIN links : links[c].failed

\* A functor: a member function of the connector, or of connection c.
ClientFunctors(ops, c) == [i \in DOMAIN ops |-> [op |-> ops[i], c |-> c]]
ClientQueued == Range(queue) \cup Range(batch)
Holds(c) == \E f \in ClientQueued : f.c = c

\* The connector becomes x, and its functors are pushed.
SettleConnector(x) ==
    /\ connector' = [x EXCEPT !.todo = <<>>]
    /\ queue' = queue \o ClientFunctors(x.todo, 0)

\* What connection c has queued; the client sets neither writeCompleteCallback_
\* nor highWaterMarkCallback_, and a handler queues forceCloseInLoop once at
\* most.
Pushed(k, c) ==
    ClientFunctors(IF "forceCloseInLoop" \in Range(k.todo)
                   THEN <<"forceCloseInLoop">> ELSE <<>>, c)
Timed(k, c) == IF k.delayed THEN {c} ELSE {}

\* Connection c becomes k.  On close removeConnection runs, or the one of
\* namespace detail once the client is gone; r is what connect(2) says in the
\* restart.
ClientSettle(c, k, r) ==
    LET again == k.closing /\ exists /\ retry_ /\ connect_
        k1 == Check(k, k.closing /\ exists => connection_ = c)
        x == IF again THEN restart(connector, r) ELSE connector
    IN  /\ links' = [links EXCEPT ![c] = Done(k1)]
        /\ connection_' = IF k.closing /\ exists THEN 0 ELSE connection_
        /\ connector' = [x EXCEPT !.todo = <<>>]
        /\ queue' = queue \o Pushed(k, c) \o
             ClientFunctors(IF k.closing THEN <<"connectDestroyed">> ELSE <<>>, c)
             \o ClientFunctors(x.todo, 0)
        /\ closeTimers' = closeTimers \cup Timed(k, c)
        /\ tries' = IF again THEN tries + 1 ELSE tries

\* What connect(2) may answer; the bound on tries makes every later error
\* fatal.
Replies ==
    IF tries < MaxTries THEN {"progress", "again", "fatal"} ELSE {"fatal"}

-----------------------------------------------------------------------------
(* The client *)

connect(r) ==
    /\ exists /\ ~called /\ called' = TRUE
    /\ connect_' = TRUE
    /\ SettleConnector(startInLoop([connector EXCEPT !.connect = TRUE], r))
    /\ tries' = tries + 1
    /\ UNCHANGED <<exists, retry_, connection_, links, removeTimer,
                   closeTimers, stage, ready, batch, stopped, uses, held,
                   tooSoon>>

disconnect(r) ==
    /\ exists /\ called /\ stage # "poll"
    /\ uses < MaxClientCalls /\ uses' = uses + 1
    /\ connect_' = FALSE
    /\ IF connection_ # 0
       THEN ClientSettle(connection_, shutdown(links[connection_]), r)
       ELSE UNCHANGED <<links, connection_, connector, queue, closeTimers,
                        tries>>
    /\ UNCHANGED <<exists, retry_, removeTimer, stage, ready, batch, called,
                   stopped, held, tooSoon>>

stop ==
    /\ exists /\ called /\ stage # "poll"
    /\ uses < MaxClientCalls /\ uses' = uses + 1
    /\ connect_' = FALSE /\ stopped' = TRUE
    /\ SettleConnector(stopConnector(connector))
    /\ UNCHANGED <<exists, retry_, connection_, links, removeTimer,
                   closeTimers, stage, ready, batch, called, tries, held,
                   tooSoon>>

\* Nobody but the client holds the connection: no functor, and not the user.
Unique == ~Holds(connection_) /\ connection_ \notin held

\* The destructor, outside the callbacks of the connection
destroyWithConnection ==
    /\ exists /\ called /\ stage # "poll" /\ connection_ # 0
    /\ exists' = FALSE /\ connection_' = 0
    /\ LET k == IF Unique THEN forceClose(links[connection_])
                ELSE links[connection_]
       IN /\ links' = [links EXCEPT ![connection_] = Done(k)]
          /\ queue' = queue \o Pushed(k, connection_)
    /\ connector' = Release(connector, FALSE, FALSE)
    /\ tooSoon' = IF Holds(0) THEN tooSoon \cup {"~TcpClient"} ELSE tooSoon
    /\ UNCHANGED <<connect_, retry_, removeTimer, closeTimers, stage, ready,
                   batch, held, called, stopped, uses, tries>>

destroyWithoutConnection ==
    /\ exists /\ called /\ stage # "poll" /\ connection_ = 0
    /\ exists' = FALSE /\ stopped' = TRUE
    /\ SettleConnector(stopConnector(connector))
    /\ removeTimer' = 1
    /\ UNCHANGED <<connect_, retry_, connection_, links, closeTimers, stage,
                   ready, batch, called, uses, tries, held, tooSoon>>

-----------------------------------------------------------------------------
(* The user may keep a TcpConnectionPtr, use it, and let it go.              *)

InUse(c) == connection_ = c \/ Holds(c)

hold(c) ==
    /\ stage # "poll" /\ InUse(c) /\ c \notin held
    /\ uses < MaxClientCalls /\ uses' = uses + 1
    /\ held' = held \cup {c}
    /\ UNCHANGED <<exists, connect_, retry_, connection_, links, connector,
                   removeTimer, closeTimers, stage, ready, queue, batch, called,
                   stopped, tooSoon, tries>>

holderCalls(c, u, w) ==
    /\ stage # "poll" /\ c \in held
    /\ uses < MaxClientCalls /\ uses' = uses + 1
    /\ ClientSettle(c, UserCall(links[c], u, w), "fatal")
    /\ UNCHANGED <<exists, connect_, retry_, removeTimer, stage, ready, batch,
                   held, called, stopped, tooSoon>>

\* With the last pointer goes the connection, which ~TcpConnection asserts to
\* be kDisconnected.
letGo(c) ==
    LET last == ~InUse(c) IN
    /\ stage # "poll" /\ c \in held /\ held' = held \ {c}
    /\ links' = IF last
                THEN [links EXCEPT ![c] = Check(@, @.state = "kDisconnected")]
                ELSE links
    /\ tooSoon' = IF last /\ links[c].state # "kDisconnected"
                  THEN tooSoon \cup {"~TcpConnection"} ELSE tooSoon
    /\ UNCHANGED <<exists, connect_, retry_, connection_, connector,
                   removeTimer, closeTimers, stage, ready, queue, batch, called,
                   stopped, uses, tries>>

-----------------------------------------------------------------------------
(* The loop *)

ConnectorEvents ==
    IF ~connector.registered \/ connector.sock = "pending" THEN {}
    ELSE IF connector.sock = "refused" THEN {"HUP", "ERR", "OUT"} ELSE {"OUT"}

clientPoll(data, writable) ==
    /\ stage = "poll" /\ stage' = "events"
    /\ ready' =
        (IF ConnectorEvents # {}
         THEN {[c |-> 0, data |-> FALSE, revents |-> ConnectorEvents]} ELSE {})
        \cup
        {[c |-> c, data |-> data, revents |-> Revents(links[c], data, writable)]
           : c \in {d \in DOMAIN links :
                       Revents(links[d], data, writable) # {}}}
    /\ UNCHANGED <<exists, connect_, retry_, connection_, links, connector,
                   removeTimer, closeTimers, queue, batch, called, stopped,
                   uses, tries, held, tooSoon>>

\* Channel::handleEvent of the channel of the Connector, with newConnection
connectorEvent(e, u, w) ==
    /\ stage = "events" /\ e \in ready /\ e.c = 0
    /\ ready' = ready \ {e}
    /\ LET x1 == IF "ERR" \in e.revents THEN connectorError(connector)
                 ELSE connector
           x2 == connectorWrite(x1)
           k == connectEstablished(NewConnection, u, w)
           c == Len(links) + 1
       IN IF Connects(x1)
          THEN /\ u # "nothing" => uses < MaxClientCalls
               /\ links' = Append(links, Done(Check(k, exists)))
               /\ connection_' = c
               /\ connector' = [x2 EXCEPT !.todo = <<>>]
               /\ queue' = queue \o ClientFunctors(x2.todo, 0) \o Pushed(k, c)
               /\ closeTimers' = closeTimers \cup Timed(k, c)
               /\ uses' = IF u = "nothing" THEN uses ELSE uses + 1
          ELSE /\ u = "nothing"
               /\ SettleConnector(x2)
               /\ UNCHANGED <<links, connection_, closeTimers, uses>>
    /\ UNCHANGED <<exists, connect_, retry_, removeTimer, stage, batch,
                   called, stopped, tries, held, tooSoon>>

connectionEvent(e, u, w, r) ==
    /\ stage = "events" /\ e \in ready /\ e.c # 0
    /\ ready' = ready \ {e}
    /\ u # "nothing" => uses < MaxClientCalls /\ e.data
    /\ uses' = IF u = "nothing" THEN uses ELSE uses + 1
    /\ ClientSettle(e.c, handleEvent(links[e.c], e.revents, e.data, u, w), r)
    /\ UNCHANGED <<exists, connect_, retry_, removeTimer, stage, batch,
                   called, stopped, held, tooSoon>>

\* Rounds of the loop that the timers of half a second and of a second are
\* meant to outlast.  They may fire before, which tooSoon remembers.
RetryRounds == 1
RemoveRounds == 3
Early(timer, rounds) == IF timer > rounds THEN {} ELSE {"timer"}

\* Connector::startInLoop from the retry timer, which then drops its owner
retryFires(r) ==
    /\ stage = "events" /\ connector.retryTimer > 0
    /\ tooSoon' = tooSoon \cup Early(connector.retryTimer, RetryRounds)
    /\ LET x == startInLoop([connector EXCEPT !.retryTimer = 0], r) IN
       SettleConnector(Release(x, exists, removeTimer > 0))
    /\ tries' = tries + 1
    /\ UNCHANGED <<exists, connect_, retry_, connection_, links, removeTimer,
                   closeTimers, stage, ready, batch, held, called, stopped,
                   uses>>

\* detail::removeConnector, one second after the destructor
removeConnector ==
    /\ stage = "events" /\ removeTimer > 0
    /\ tooSoon' = tooSoon \cup Early(removeTimer, RemoveRounds)
    /\ removeTimer' = 0
    /\ connector' = Release(connector, FALSE, FALSE)
    /\ UNCHANGED <<exists, connect_, retry_, connection_, links, closeTimers,
                   stage, ready, queue, batch, held, called, stopped, uses,
                   tries>>

\* The timer of forceCloseWithDelay, a WeakCallback
closeFires(c) ==
    /\ stage = "events" /\ c \in closeTimers
    /\ closeTimers' = closeTimers \ {c}
    /\ LET k == forceClose(links[c]) IN
       IF InUse(c) \/ c \in held
       THEN /\ links' = [links EXCEPT ![c] = Done(k)]
            /\ queue' = queue \o Pushed(k, c)
       ELSE UNCHANGED <<links, queue>>
    /\ UNCHANGED <<exists, connect_, retry_, connection_, connector,
                   removeTimer, stage, ready, batch, called, stopped, uses,
                   tries, held, tooSoon>>

clientTakeFunctors ==
    /\ stage = "events" /\ ready = {}
    /\ stage' = "functors" /\ batch' = queue /\ queue' = <<>>
    /\ UNCHANGED <<exists, connect_, retry_, connection_, links, connector,
                   removeTimer, closeTimers, ready, called, stopped, uses,
                   tries, held, tooSoon>>

connectionFunctor(r) ==
    /\ stage = "functors" /\ batch # <<>>
    /\ batch' = Tail(batch)
    /\ LET f == Head(batch) IN
       /\ f.c # 0
       /\ ClientSettle(f.c, IF f.op = "forceCloseInLoop"
                      THEN forceCloseInLoop(links[f.c])
                      ELSE connectDestroyed(links[f.c]), r)
    /\ UNCHANGED <<exists, connect_, retry_, removeTimer, stage, ready,
                   called, stopped, uses, held, tooSoon>>

connectorFunctor ==
    /\ stage = "functors" /\ batch # <<>>
    /\ batch' = Tail(batch)
    /\ LET f == Head(batch)
           x == Require(connector, "use after free", ConnectorAlive)
       IN /\ f.c = 0
          /\ SettleConnector(IF f.op = "stopInLoop" THEN stopInLoop(x)
                             ELSE resetChannel(x))
    /\ UNCHANGED <<exists, connect_, retry_, connection_, links, removeTimer,
                   closeTimers, stage, ready, called, stopped, uses, tries,
                   held, tooSoon>>

clientFunctorsDone ==
    /\ stage = "functors" /\ batch = <<>> /\ stage' = "poll"
    /\ removeTimer' = IF removeTimer \in 1 .. RemoveRounds THEN removeTimer + 1
                      ELSE removeTimer
    /\ connector' = [connector EXCEPT !.retryTimer =
                         IF @ \in 1 .. RetryRounds THEN @ + 1 ELSE @]
    /\ UNCHANGED <<exists, connect_, retry_, connection_, links, closeTimers,
                   ready, queue, batch, called, stopped, uses, tries, held,
                   tooSoon>>

-----------------------------------------------------------------------------
(* The network: the handshake ends, the peer leaves.  A connection to the    *)
(* own ephemeral port comes out as "self".                                   *)

handshake(outcome) ==
    /\ connector.sock = "pending" /\ connector.registered
    /\ connector' = [connector EXCEPT !.sock = outcome]
    /\ UNCHANGED <<exists, connect_, retry_, connection_, links, removeTimer,
                   closeTimers, stage, ready, queue, batch, called, stopped,
                   uses, tries, held, tooSoon>>

serverLeaves(c, how) ==
    /\ links[c].index # "kNew" /\ links[c].peer \in {"open", "closed"} \ {how}
    /\ links' = [links EXCEPT ![c].peer = how]
    /\ UNCHANGED <<exists, connect_, retry_, connection_, connector,
                   removeTimer, closeTimers, stage, ready, queue, batch,
                   called, stopped, uses, tries, held, tooSoon>>

ClientDoes == ClientUserCalls \cup {"nothing"}
\* What a write may take, if one is made
ClientWrites(made) == IF made THEN 0 .. MessageLen ELSE {0}

ClientNext ==
    /\ ~ClientAborted
    /\ \/ \E r \in Replies : connect(r) \/ disconnect(r) \/ retryFires(r)
                             \/ connectionFunctor(r)
       \/ connectorFunctor
       \/ stop \/ destroyWithConnection \/ destroyWithoutConnection
       \/ \E data, writable \in BOOLEAN : clientPoll(data, writable)
       \/ \E e \in ready, u \in ClientDoes :
            \E w \in ClientWrites(u = "send" \/ "OUT" \in e.revents) :
              \/ connectorEvent(e, u, w)
              \/ \E r \in Replies : connectionEvent(e, u, w, r)
       \/ \E c \in DOMAIN links :
            \/ hold(c) \/ letGo(c)
            \/ \E u \in ClientUserCalls :
                 \E w \in ClientWrites(u = "send") : holderCalls(c, u, w)
       \/ removeConnector \/ clientTakeFunctors \/ clientFunctorsDone
       \/ \E outcome \in {"ok", "refused", "self"} : handshake(outcome)
       \/ \E c \in DOMAIN links : \/ closeFires(c)
                                 \/ serverLeaves(c, "closed")
                                 \/ serverLeaves(c, "reset")

ClientSpec == ClientInit /\ [][ClientNext]_clientVars

-----------------------------------------------------------------------------
(* The delay of Connector::retry stays between its first and its longest
   value, and only functors of Connector and TcpConnection are queued.       *)
ClientTypeOK ==
    /\ {exists, connect_, retry_, called, stopped} \subseteq BOOLEAN
    /\ connection_ \in 0 .. Len(links) /\ closeTimers \subseteq DOMAIN links
    /\ held \subseteq DOMAIN links
    /\ tooSoon \subseteq {"timer", "~TcpClient", "~TcpConnection"}
    /\ stage \in {"poll", "events", "functors"}
    /\ connector.state \in {"kDisconnected", "kConnecting", "kConnected"}
    /\ connector.delay \in kInitRetryDelay .. kMaxRetryDelay
    /\ removeTimer \in 0 .. RemoveRounds + 1
    /\ \A f \in ClientQueued :
         f.op \in IF f.c = 0 THEN {"stopInLoop", "resetChannel"}
                 ELSE {"forceCloseInLoop", "connectDestroyed"}

Lifetime == {"~Connector", "use after free"}

(* The assertions of TcpClient, of its connection and of Connector hold
   however stop, disconnect and the destructor fall between the handshake, the
   retries and the close of a connection, and the Connector outlives its
   functors, thanks to the timer that ~TcpClient sets; but not if a timer
   fires before the rounds it is meant to outlast, if a client is destroyed
   with its connection while a functor of the Connector is queued, or if the
   user lets go of the last pointer to an open connection.                   *)
ClientAssertionsHold ==
    /\ "~TcpConnection" \notin tooSoon =>
         \A c \in DOMAIN links : ~links[c].failed
    /\ tooSoon = {} => connector.failed = {}
    /\ connector.failed \subseteq Lifetime \cup {"connecting"}

(* After stop, or after the destructor, no connection is handed to the user,
   also if the handshake had ended already, or a retry was due.              *)
StopIsFinal == [][stopped /\ connection_ = 0 => connection_' = 0]_clientVars

(* A client that was told to connect is always on its way: a socket is
   connecting, a retry is due, or there is a connection, which a client with
   retry_ replaces when it closes.                                           *)
AlwaysTrying ==
    exists /\ called /\ connector.connect /\ ~connector.fatal
      /\ ~ClientAborted =>
        IF connector.state = "kConnected"
        THEN connection_ # 0 \/ ~retry_ \/ ~connect_
        ELSE connector.registered \/ connector.retryTimer > 0

(* A connection that the user does not hold outlives its client only to be
   closed: it is queued for forceClose, or closed already, and it goes only
   with its channel out of the poller.                                       *)
OrphanIsClosed ==
    ~ClientAborted => \A c \in DOMAIN links \ {connection_} :
        \/ /\ links[c].state = "kDisconnected"
           /\ links[c].index = "kNew" <=>
                [op |-> "connectDestroyed", c |-> c] \notin ClientQueued
        \/ /\ Open(links[c]) /\ ~exists
           /\ \/ [op |-> "forceCloseInLoop", c |-> c] \in ClientQueued
              \/ c \in held

(* Client, Connector and connection keep their assertions and lifetimes,   *)
(* wherever stop, disconnect and the destructor come, and a client that    *)
(* was not stopped keeps trying.                                           *)
ClientInv ==
    ClientTypeOK /\ ClientAssertionsHold /\ OrphanIsClosed /\ AlwaysTrying
=============================================================================
