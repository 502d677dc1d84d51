--------------------------- MODULE TcpConnection ---------------------------
(***************************************************************************)
(* muduo/net/TcpConnection.cc: one connection, as a record k, and its      *)
(* member functions as operators from record to record.  Functors that a   *)
(* member function queues are collected in k.todo; a timer it sets is      *)
(* noted in k.delayed, the call of closeCallback_ in k.closing.  TcpServer *)
(* and TcpClient own connections and give the functors to the loop.        *)
(*                                                                         *)
(* The channel of the connection is registered with epoll as Poller has    *)
(* it: k.index is Channel::index_, k.watch the interest the kernel holds,  *)
(* or Off.  A failed assertion sets k.failed.                              *)
(***************************************************************************)
EXTENDS Naturals, Sequences, SequencesExt

CONSTANTS HighWaterMark, \* highWaterMark_
          MessageLen     \* bytes of a message that a user sends

ASSUME ConnectionAssumption ==
    HighWaterMark \in Nat /\ MessageLen \in Nat \ {0}

Off == {"off"}

\* The constructor, with the peer as this end sees it.  bytes counts what was
\* handed to sendInLoop, lost is set once data was dropped on an error; both
\* are history, like ups and downs, the calls of connectionCallback_, and
\* restarted: startRead has enabled the channel of a connection that was down.
NewConnection ==
    [state |-> "kConnecting", reading |-> TRUE,
     events |-> {}, index |-> "kNew", watch |-> Off,
     out |-> <<>>, wire |-> <<>>, fin |-> FALSE, peer |-> "open",
     bytes |-> 0, lost |-> FALSE, ups |-> 0, downs |-> 0,
     restarted |-> FALSE,
     todo |-> <<>>, delayed |-> FALSE, closing |-> FALSE, failed |-> FALSE]

Do(k, functor) == [k EXCEPT !.todo = Append(@, functor)]

\* The owner has seen to all that a member function left to do.
Done(k) == [k EXCEPT !.todo = <<>>, !.delayed = FALSE, !.closing = FALSE]

Check(k, condition) == [k EXCEPT !.failed = @ \/ ~condition]

-----------------------------------------------------------------------------
(* The channel *)

\* Channel::update with EPollPoller::updateChannel
update(k, ev) ==
    IF k.index = "kAdded" /\ ev = {}
    THEN [k EXCEPT !.events = ev, !.index = "kDeleted", !.watch = Off]
    ELSE [k EXCEPT !.events = ev, !.index = "kAdded", !.watch = ev]

isWriting(k) == "write" \in k.events
enableReading(k) == update(k, k.events \cup {"read"})
disableReading(k) == update(k, k.events \ {"read"})
enableWriting(k) == update(k, k.events \cup {"write"})
disableWriting(k) == update(k, k.events \ {"write"})
disableAll(k) == update(k, {})

\* Channel::remove with EPollPoller::removeChannel
remove(k) ==
    [Check(k, k.events = {} /\ k.index # "kNew")
        EXCEPT !.index = "kNew", !.watch = Off]

\* The events epoll reports for the descriptor: data says that there is
\* something to read, writable that the send buffer has room.  POLLHUP and
\* POLLERR come whatever the interest is.
Hup(k) == k.peer \in {"reset", "gone"} \/ (k.peer = "closed" /\ k.fin)
Revents(k, data, writable) ==
    {e \in {"HUP", "ERR", "IN", "OUT"} :
        /\ k.watch # Off
        /\ CASE e = "HUP" -> Hup(k)
             [] e = "ERR" -> k.peer = "reset"
             [] e = "IN"  -> "read" \in k.watch /\ (data \/ k.peer # "open")
             [] e = "OUT" -> "write" \in k.watch /\ (writable \/ Hup(k))}

-----------------------------------------------------------------------------
(* Sending.  w bounds what a write to the socket takes, 0 is EWOULDBLOCK.    *)

WriteFails(k) == k.fin \/ k.peer \in {"reset", "gone"}

Written(k, data, w) ==
    IF WriteFails(k) THEN 0 ELSE IF w < Len(data) THEN w ELSE Len(data)

\* Slip: a write overtakes what waits in outputBuffer_.
Direct_Always(k) == TRUE

\* Nothing waits, so that a write may go to the socket at once.
Direct(k) == ~isWriting(k) /\ k.out = <<>>

sendInLoop(k, data, w) ==
    LET direct == Direct(k)
        n == IF direct THEN Written(k, data, w) ELSE 0
        remaining == SubSeq(data, n + 1, Len(data))
        k1 == [k EXCEPT !.wire = @ \o SubSeq(data, 1, n),
                        !.bytes = @ + Len(data)]
        k2 == IF /\ Len(k.out) + Len(remaining) >= HighWaterMark
                 /\ Len(k.out) < HighWaterMark
              THEN Do(k1, "highWaterMarkCallback") ELSE k1
        k3 == [k2 EXCEPT !.out = @ \o remaining]
    IN  CASE k.state = "kDisconnected" -> k
          [] k.state # "kDisconnected" /\ remaining = <<>> ->
               Do(k1, "writeCompleteCallback")
          [] k.state # "kDisconnected" /\ remaining # <<>>
             /\ direct /\ WriteFails(k) -> [k1 EXCEPT !.lost = TRUE]
          [] OTHER -> IF isWriting(k3) THEN k3 ELSE enableWriting(k3)

\* send, called in the loop's thread
send(k, w) ==
    LET data == [i \in 1 .. MessageLen |-> k.bytes + i] IN
    IF k.state = "kConnected" THEN sendInLoop(k, data, w) ELSE k

shutdownInLoop(k) == IF isWriting(k) THEN k ELSE [k EXCEPT !.fin = TRUE]

shutdown(k) ==
    IF k.state = "kConnected"
    THEN shutdownInLoop([k EXCEPT !.state = "kDisconnecting"]) ELSE k

\* forceClose; forceCloseWithDelay calls it from a timer
Open(k) == k.state \in {"kConnected", "kDisconnecting"}
forceClose(k) ==
    IF Open(k)
    THEN Do([k EXCEPT !.state = "kDisconnecting"], "forceCloseInLoop") ELSE k

forceCloseWithDelay(k) ==
    IF Open(k)
    THEN [k EXCEPT !.state = "kDisconnecting", !.delayed = TRUE] ELSE k

\* startRead does not look at the state.
startRead(k) ==
    IF ~k.reading \/ "read" \notin k.events
    THEN [enableReading(k) EXCEPT !.reading = TRUE,
                                  !.restarted = @ \/ ~Open(k)] ELSE k

stopRead(k) ==
    IF k.reading \/ "read" \in k.events
    THEN [disableReading(k) EXCEPT !.reading = FALSE] ELSE k

\* What user code does to a connection: one of these calls.
UserCall(k, u, w) ==
    CASE u = "send" -> send(k, w)
      [] u = "shutdown" -> shutdown(k)
      [] u = "forceClose" -> forceClose(k)
      [] u = "forceCloseWithDelay" -> forceCloseWithDelay(k)
      [] u = "startRead" -> startRead(k)
      [] u = "stopRead" -> stopRead(k)
      [] OTHER -> k

-----------------------------------------------------------------------------
(* Life cycle and events *)

connectEstablished(k, u, w) ==
    LET k1 == Check(k, k.state = "kConnecting")
        k2 == enableReading([k1 EXCEPT !.state = "kConnected", !.ups = @ + 1])
    IN  UserCall(k2, u, w)

connectDestroyed(k) ==
    IF k.state = "kConnected"
    THEN remove(disableAll([k EXCEPT !.state = "kDisconnected",
                                     !.downs = @ + 1]))
    ELSE remove(k)

\* Slip: closeCallback_ is not called.
handleClose_NoCallback(k) ==
    [disableAll([Check(k, Open(k)) EXCEPT !.state = "kDisconnected"])
        EXCEPT !.downs = @ + 1]

handleClose(k) ==
    LET k1 == Check(k, Open(k))
    IN  [disableAll([k1 EXCEPT !.state = "kDisconnected"])
            EXCEPT !.downs = @ + 1, !.closing = TRUE]

\* Slip: the state is not tested again when the functor runs.
forceCloseInLoop_Unchecked(k) == handleClose(k)

forceCloseInLoop(k) == IF Open(k) THEN handleClose(k) ELSE k

\* handleError reads SO_ERROR, and so takes the error off the socket.
handleError(k) == [k EXCEPT !.peer = IF @ = "reset" THEN "gone" ELSE @]

\* handleRead: data calls messageCallback_, in which the user does u; end of
\* file closes; an error is reported once.
handleRead(k, data, u, w) ==
    CASE data -> UserCall(k, u, w)
      [] ~data /\ k.peer \in {"closed", "gone"} -> handleClose(k)
      [] OTHER -> handleError(k)

handleWrite(k, w) ==
    LET n == Written(k, k.out, w)
        k1 == [k EXCEPT !.out = SubSeq(@, n + 1, Len(@)),
                        !.wire = @ \o SubSeq(k.out, 1, n)]
        k2 == Do(disableWriting(k1), "writeCompleteCallback")
    IN  CASE ~isWriting(k) \/ n = 0 -> k
          [] isWriting(k) /\ n > 0 /\ n < Len(k.out) -> k1
          [] OTHER -> IF k.state = "kDisconnecting" THEN shutdownInLoop(k2)
                      ELSE k2

\* Channel::handleEventWithGuard
handleEvent(k, revents, data, u, w) ==
    LET k1 == IF "HUP" \in revents /\ "IN" \notin revents
              THEN handleClose(k) ELSE k
        k2 == IF "ERR" \in revents THEN handleError(k1) ELSE k1
        k3 == IF "IN" \in revents THEN handleRead(k2, data, u, w) ELSE k2
    IN  IF "OUT" \in revents THEN handleWrite(k3, w) ELSE k3
=============================================================================
