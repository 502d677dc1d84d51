----------------------------- MODULE TcpServer -----------------------------
(***************************************************************************)
(* muduo/net/TcpServer.cc with Acceptor.cc, EventLoopThreadPool.cc and the *)
(* connections of TcpConnection.  The base loop accepts and keeps the      *)
(* table, the I/O loops (or the base loop, if there are none) serve the    *)
(* connections.  A loop polls, handles the batch of events it got, and     *)
(* then runs the functors that were pending, as EventLoop::loop does; what *)
(* a handler queues meanwhile waits for the next round.                    *)
(***************************************************************************)
EXTENDS TcpConnection, FiniteSets

CONSTANTS Conns,     \* connections that clients will open
          MaxIo,     \* setThreadNum is called with 0 .. MaxIo
          MaxFds,    \* bound: descriptors the process may open for them
          MaxCalls,  \* bound: calls of the user
          UserCalls  \* the calls the user makes

ASSUME ServerAssumption == MaxIo \in Nat /\ MaxFds \in Nat /\ MaxCalls \in Nat

VARIABLES numThreads_, next_, started_,
          conn,         \* connection -> its record, or None
          loopOf,       \* connection -> its loop
          connections_, \* the table of the server
          backlog,      \* clients in the listen queue
          refused,      \* clients that the EMFILE branch turned away: history
          timers,       \* connections with a forceClose timer
          phase, active, pending, functors, \* per loop
          alive,        \* the server object exists
          calls         \* calls of the user so far

serverVars == <<numThreads_, next_, started_, conn, loopOf, connections_,
                backlog, refused, timers, phase, active, pending, functors,
                alive, calls>>

None == [state |-> "none"]
Base == 0

\* The event of the listening socket
Acceptor == [c |-> "acceptor", data |-> FALSE, revents |-> {"IN"}]

Loops == 0 .. numThreads_
Created == {c \in Conns : conn[c] # None}

\* Who keeps a connection alive: the table, and functors, which hold a
\* shared_ptr.
Queued(l) == Range(pending[l]) \cup Range(functors[l])
Referenced(c) ==
    c \in connections_ \/ \E l \in Loops : \E f \in Queued(l) : f.c = c
Existing == {c \in Created : Referenced(c)}

ServerInit ==
    /\ numThreads_ \in 0 .. MaxIo
    /\ next_ = 0 /\ started_ = FALSE /\ alive = TRUE /\ calls = 0
    /\ conn = [c \in Conns |-> None] /\ loopOf = [c \in Conns |-> Base]
    /\ connections_ = {} /\ backlog = {} /\ refused = {} /\ timers = {}
    /\ phase = [l \in 0 .. MaxIo |-> "poll"]
    /\ active = [l \in 0 .. MaxIo |-> {}]
    /\ pending = [l \in 0 .. MaxIo |-> <<>>]
    /\ functors = [l \in 0 .. MaxIo |-> <<>>]

-----------------------------------------------------------------------------
Functors(ops, c) == [i \in DOMAIN ops |-> [op |-> ops[i], c |-> c]]

\* What loop l gets to run from a member function that left k of a connection
\* of loop home: what it queued, and if it called closeCallback_,
\* removeConnection runs removeConnectionInLoop at once in the base loop, and
\* queues it there otherwise.
Pushes(k, home, l) ==
    CASE l = home /\ k.closing /\ l = Base -> Append(k.todo, "connectDestroyed")
      [] l = home /\ ~(k.closing /\ l = Base) -> k.todo
      [] l # home /\ k.closing /\ l = Base -> <<"removeConnectionInLoop">>
      [] OTHER -> <<>>

\* Connection c becomes k after a member function has run in its loop.
Settle(c, k) ==
    LET inBase == k.closing /\ loopOf[c] = Base
        k1 == Check(k, (inBase => c \in connections_) /\ (k.closing => alive))
    IN  /\ conn' = [conn EXCEPT ![c] = Done(k1)]
        /\ connections_' = IF inBase THEN connections_ \ {c} ELSE connections_
        /\ pending' = [l \in DOMAIN pending |->
                          pending[l] \o Functors(Pushes(k, loopOf[c], l), c)]
        /\ timers' = IF k.delayed THEN timers \cup {c} ELSE timers

-----------------------------------------------------------------------------
(* The server *)

\* TcpServer::start, and Acceptor::listen in the base loop
start ==
    /\ ~started_ /\ started_' = TRUE
    /\ UNCHANGED <<numThreads_, next_, conn, loopOf, connections_, backlog,
                   refused, timers, phase, active, pending, functors, alive,
                   calls>>

clientConnects(c) ==
    /\ started_ /\ alive /\ conn[c] = None /\ c \notin backlog \cup refused
    /\ backlog' = backlog \cup {c}
    /\ UNCHANGED <<numThreads_, next_, started_, conn, loopOf, connections_,
                   refused, timers, phase, active, pending, functors, alive,
                   calls>>

\* EventLoopThreadPool::getNextLoop
NextLoop == IF numThreads_ = 0 THEN Base ELSE next_ + 1

NextIndex == IF next_ + 1 >= numThreads_ THEN 0 ELSE next_ + 1

\* Acceptor::handleRead with TcpServer::newConnection, in the base loop;
\* connectEstablished runs at once or is queued (runInLoop).
accept(c, u, w) ==
    /\ phase[Base] = "events" /\ Acceptor \in active[Base]
    /\ c \in backlog
    /\ u # "nothing" => calls < MaxCalls
    /\ Cardinality(Existing) < MaxFds
    /\ backlog' = backlog \ {c}
    /\ next_' = NextIndex
    /\ active' = [active EXCEPT ![Base] = @ \ {Acceptor}]
    /\ connections_' = connections_ \cup {c}
    /\ loopOf' = [loopOf EXCEPT ![c] = NextLoop]
    /\ \/ /\ NextLoop = Base
          /\ LET k == connectEstablished(NewConnection, u, w) IN
             /\ conn' = [conn EXCEPT ![c] = Done(k)]
             /\ pending' = [pending EXCEPT ![Base] = @ \o Functors(k.todo, c)]
             /\ timers' = IF k.delayed THEN timers \cup {c} ELSE timers
          /\ calls' = IF u = "nothing" THEN calls ELSE calls + 1
       \/ /\ NextLoop # Base /\ u = "nothing"
          /\ conn' = [conn EXCEPT ![c] = NewConnection]
          /\ pending' = [pending EXCEPT ![NextLoop] =
                Append(@, [op |-> "connectEstablished", c |-> c])]
          /\ UNCHANGED <<timers, calls>>
    /\ UNCHANGED <<numThreads_, started_, refused, phase, functors, alive>>

\* The EMFILE branch of Acceptor::handleRead: the spare descriptor is given up
\* to accept the client and close it, and taken again.
acceptNoFd(c) ==
    /\ phase[Base] = "events" /\ Acceptor \in active[Base]
    /\ c \in backlog /\ Cardinality(Existing) >= MaxFds
    /\ backlog' = backlog \ {c} /\ refused' = refused \cup {c}
    /\ active' = [active EXCEPT ![Base] = @ \ {Acceptor}]
    /\ UNCHANGED <<numThreads_, next_, started_, conn, loopOf, connections_,
                   timers, phase, pending, functors, alive, calls>>

\* The destructor, from a functor of the only loop.  With I/O loops it is not
\* safe (the comment at TcpServer.cc:102), and not modelled.
destroy ==
    /\ alive /\ started_ /\ numThreads_ = 0 /\ phase[Base] = "functors"
    /\ alive' = FALSE /\ backlog' = {} /\ connections_' = {}
    /\ conn' = [c \in Conns |-> IF c \in connections_
                                THEN connectDestroyed(conn[c]) ELSE conn[c]]
    /\ UNCHANGED <<numThreads_, next_, started_, loopOf, refused, timers,
                   phase, active, pending, functors, calls>>

-----------------------------------------------------------------------------
(* The loops *)

\* The batch poll() returns; data and writable are the connections with
\* something to read, and with room to write.
poll(l, data, writable) ==
    /\ phase[l] = "poll"
    /\ active' = [active EXCEPT ![l] =
          {[c |-> c, data |-> c \in data,
            revents |-> Revents(conn[c], c \in data, c \in writable)] :
              c \in {d \in Created : /\ loopOf[d] = l
                                     /\ conn[d].index # "kNew"
                                     /\ Revents(conn[d], d \in data,
                                                d \in writable) # {}}}
          \cup (IF l = Base /\ backlog # {} THEN {Acceptor} ELSE {})]
    /\ phase' = [phase EXCEPT ![l] = "events"]
    /\ UNCHANGED <<numThreads_, next_, started_, conn, loopOf, connections_,
                   backlog, refused, timers, pending, functors, alive, calls>>

event(l, e, u, w) ==
    /\ phase[l] = "events" /\ e \in active[l] \ {Acceptor}
    /\ u # "nothing" => calls < MaxCalls /\ e.data
    /\ Settle(e.c, handleEvent(conn[e.c], e.revents, e.data, u, w))
    /\ active' = [active EXCEPT ![l] = @ \ {e}]
    /\ calls' = IF u = "nothing" THEN calls ELSE calls + 1
    /\ UNCHANGED <<numThreads_, next_, started_, loopOf, backlog, refused,
                   phase, functors, alive>>

\* Code of the user that runs in the loop of c, in a handler of something else
userCode(c, u, w) ==
    /\ calls < MaxCalls /\ calls' = calls + 1
    /\ phase[loopOf[c]] # "poll"
    /\ c \in Existing /\ conn[c].state # "kConnecting" /\ u # "nothing"
    /\ Settle(c, UserCall(conn[c], u, w))
    /\ UNCHANGED <<numThreads_, next_, started_, loopOf, backlog, refused,
                   phase, active, functors, alive>>

\* The timer of forceCloseWithDelay, a WeakCallback
timerFires(c) ==
    /\ c \in timers /\ phase[loopOf[c]] = "events"
    /\ IF c \in Existing
       THEN LET k == forceClose(conn[c]) IN
            /\ conn' = [conn EXCEPT ![c] = Done(k)]
            /\ pending' = [pending EXCEPT ![loopOf[c]] =
                               @ \o Functors(k.todo, c)]
       ELSE UNCHANGED <<conn, pending>>
    /\ timers' = timers \ {c}
    /\ UNCHANGED <<numThreads_, next_, started_, loopOf, connections_,
                   backlog, refused, phase, active, functors, alive, calls>>

takeFunctors(l) ==
    /\ phase[l] = "events" /\ active[l] = {}
    /\ phase' = [phase EXCEPT ![l] = "functors"]
    /\ functors' = [functors EXCEPT ![l] = pending[l]]
    /\ pending' = [pending EXCEPT ![l] = <<>>]
    /\ UNCHANGED <<numThreads_, next_, started_, conn, loopOf, connections_,
                   backlog, refused, timers, active, alive, calls>>

\* A queued member function of connection c; callbacks of the user do nothing.
Run(op, k, u, w) ==
    CASE op = "connectEstablished" -> connectEstablished(k, u, w)
      [] op = "connectDestroyed" -> connectDestroyed(k)
      [] op = "forceCloseInLoop" -> forceCloseInLoop(k)
      [] OTHER -> k

functor(l, u, w) ==
    /\ phase[l] = "functors" /\ functors[l] # <<>>
    /\ LET f == Head(functors[l]) IN
       /\ u # "nothing" => calls < MaxCalls /\ f.op = "connectEstablished"
       /\ f.op # "removeConnectionInLoop"
       /\ Settle(f.c, Run(f.op, conn[f.c], u, w))
    /\ functors' = [functors EXCEPT ![l] = Tail(@)]
    /\ calls' = IF u = "nothing" THEN calls ELSE calls + 1
    /\ UNCHANGED <<numThreads_, next_, started_, loopOf, backlog, refused,
                   phase, active, alive>>

\* removeConnectionInLoop as a functor of the base loop
removeConnectionInLoop ==
    /\ phase[Base] = "functors" /\ functors[Base] # <<>>
    /\ LET f == Head(functors[Base]) IN
       /\ f.op = "removeConnectionInLoop"
       /\ conn' = [conn EXCEPT ![f.c] = Check(@, f.c \in connections_)]
       /\ connections_' = connections_ \ {f.c}
       /\ pending' = [pending EXCEPT ![loopOf[f.c]] =
                         Append(@, [op |-> "connectDestroyed", c |-> f.c])]
    /\ functors' = [functors EXCEPT ![Base] = Tail(@)]
    /\ UNCHANGED <<numThreads_, next_, started_, loopOf, backlog, refused,
                   timers, phase, active, alive, calls>>

functorsDone(l) ==
    /\ phase[l] = "functors" /\ functors[l] = <<>>
    /\ phase' = [phase EXCEPT ![l] = "poll"]
    /\ UNCHANGED <<numThreads_, next_, started_, conn, loopOf, connections_,
                   backlog, refused, timers, active, pending, functors,
                   alive, calls>>

\* The peer closes, or resets, its end.
peerLeaves(c, how) ==
    /\ c \in Existing /\ conn[c].peer \in {"open", "closed"} \ {how}
    /\ conn' = [conn EXCEPT ![c].peer = how]
    /\ UNCHANGED <<numThreads_, next_, started_, loopOf, connections_,
                   backlog, refused, timers, phase, active, pending, functors,
                   alive, calls>>

\* What a write may take, if one is made
Writes(made) == IF made THEN 0 .. MessageLen ELSE {0}
Watched(l, interest) ==
    {c \in Created : loopOf[c] = l /\ interest \in conn[c].watch}
Does == UserCalls \cup {"nothing"}

LoopStep(l) ==
    \/ \E data \in SUBSET Watched(l, "read") :
         \E writable \in SUBSET Watched(l, "write") : poll(l, data, writable)
    \/ \E e \in active[l] \ {Acceptor}, u \in Does :
           \E w \in Writes(u = "send" \/ "OUT" \in e.revents) : event(l, e, u, w)
    \/ takeFunctors(l)
    \/ \E u \in Does : \E w \in Writes(u = "send") : functor(l, u, w)
    \/ functorsDone(l)
    \/ l = Base /\ \/ \E c \in Conns, u \in Does :
                         \E w \in Writes(u = "send") : accept(c, u, w)
                   \/ \E c \in Conns : acceptNoFd(c)
                   \/ removeConnectionInLoop

\* A failed assertion ends the process.
Aborted == \E c \in Created : conn[c].failed

ServerNext ==
 /\ ~Aborted
 /\ \/ start
    \/ \E c \in Conns : clientConnects(c)
    \/ destroy
    \/ \E l \in Loops : LoopStep(l)
    \/ \E c \in Conns, u \in UserCalls :
         \E w \in Writes(u = "send") : userCode(c, u, w)
    \/ \E c \in Conns : timerFires(c)
    \/ \E c \in Conns, how \in {"closed", "reset"} : peerLeaves(c, how)

ServerSpec == ServerInit /\ [][ServerNext]_serverVars

-----------------------------------------------------------------------------
(* Every connection is in one of the four states and belongs to a loop that
   EventLoopThreadPool::getNextLoop may give.                                *)
ServerTypeOK ==
    /\ numThreads_ \in 0 .. MaxIo /\ next_ \in Nat /\ calls \in 0 .. MaxCalls
    /\ {started_, alive} \subseteq BOOLEAN
    /\ connections_ \cup timers \subseteq Created
    /\ \A c \in Created :
         /\ conn[c].state \in {"kDisconnected", "kConnecting", "kConnected",
                               "kDisconnecting"}
         /\ conn[c].watch = Off \/ conn[c].watch \subseteq {"read", "write"}
         /\ loopOf[c] \in Loops
    /\ \A l \in Loops : phase[l] \in {"poll", "events", "functors"}

\* The user has neither stopped reading nor started it after the end.
Untouched(k) == k.reading /\ ~k.restarted

(* While the server lives, the assertions of connectEstablished, handleClose,
   removeConnectionInLoop and Channel::remove hold for a connection on which
   the user has not stopped reading, nor started it once it was down: no
   event, functor or timer closes it a second time, whatever else the user and
   the peer do.                                                              *)
AssertionsHold ==
    alive => \A c \in Created : Untouched(conn[c]) => ~conn[c].failed

(* The user is told once that a connection is up and at most once that it is
   down, and has been told when the object goes; by then the channel is out of
   the poller and the state is kDisconnected (TcpConnection.cc:71).          *)
UpThenDown ==
    alive /\ ~Aborted => \A c \in Created :
        /\ conn[c].ups <= 1 /\ conn[c].downs <= conn[c].ups
        /\ c \notin Existing =>
             /\ conn[c].ups = 1 /\ conn[c].downs = 1
             /\ conn[c].state = "kDisconnected" /\ conn[c].index = "kNew"

(* Nothing that sendInLoop took is reordered, doubled or lost but on a write
   error: the wire followed by outputBuffer_ is what was sent.               *)
BytesInOrder ==
    \A c \in Created :
        LET k == conn[c]
            all == k.wire \o k.out
        IN  /\ \A i \in DOMAIN all : all[i] = i
            /\ ~k.lost => Len(all) = k.bytes

(* shutdownWrite comes after all data, and a shutdown that found data in
   outputBuffer_ is not forgotten: handleWrite is still to do it.            *)
ShutdownAfterData ==
    \A c \in Created :
        LET k == conn[c] IN
        /\ k.fin => k.out = <<>>
        /\ k.out # <<>> /\ Open(k) => isWriting(k)

(* The table holds the connections the user knows as up, and those whose
   removal is under way.                                                     *)
TableAgrees ==
    alive /\ ~Aborted => \A c \in Created :
        \/ c \in connections_
        \/ conn[c].state = "kDisconnected"

\* What loop l is still to run, in order; the places of c's teardown in it
Queue(l) == functors[l] \o pending[l]
Teardown(c, l) ==
    {i \in DOMAIN Queue(l) :
        Queue(l)[i] \in [op : {"connectDestroyed", "removeConnectionInLoop"},
                         c : {c}]}

(* A connection that went down has exactly one step of its teardown queued
   until it is destroyed; the teardown passes from the I/O loop to the base
   loop and back.                                                            *)
TeardownQueued ==
    alive /\ ~Aborted => \A c \in Created :
        conn[c].downs = 1 /\ conn[c].index # "kNew" =>
            \E l \in Loops : \E i \in DOMAIN Queue(l) :
                /\ Teardown(c, l) = {i}
                /\ \A m \in Loops \ {l} : Teardown(c, m) = {}

(* The teardown of a connection, which goes from its loop to the base loop *)
(* and back, happens once: user, table and queued functors agree on where  *)
(* it is.                                                                  *)
TeardownInv == ServerTypeOK /\ UpThenDown /\ TableAgrees /\ TeardownQueued

(* What the peer reads is what the user sent, and the end of the stream    *)
(* comes after it.                                                         *)
StreamInv == BytesInOrder /\ ShutdownAfterData
=============================================================================
