--------------------------- MODULE ControlSession ---------------------------
(***************************************************************************)
(* The control conversation as kcp/ControlSession.cpp implements it, at    *)
(* both ends: sendMsg gives a command to the ikcpcb of conv 0, parseMsg is *)
(* called for each datagram of conv 0 and hands complete commands to       *)
(* handleControlMessage.                                                   *)
(*                                                                         *)
(* ikcp_flush sends nothing before the first ikcp_update.  Of the timers,  *)
(* KcpProxy::onUpdateTunnelTimer and KcpServer::onUpdateKcpTimer update    *)
(* the sessions in sessionMap_ only, so in this repository Updated is the  *)
(* empty set.  The other values show what the rest of the class does with  *)
(* datagrams that do arrive.                                               *)
(*                                                                         *)
(* Commands are numbered; between ikcp_send and ikcp_recv the conversation *)
(* is the reliable FIFO of module Kcp, so counts describe it.              *)
(***************************************************************************)
EXTENDS Integers, Sequences

CONSTANTS
    Updated,    \* the endpoints that call ikcp_update on their control kcp
    MaxCmds     \* bound: commands each side sends

Endpoint == {"B", "C"}

Peer(e) == IF e = "B" THEN "C" ELSE "B"

VARIABLES
    accepted,    \* commands that ikcp_send took from e
    flushed,     \* how many of them have been sent
    acking,      \* e owes its peer an acknowledgement
    arrived,     \* commands that reached the rcv_queue of e
    read,        \* how many of them ikcp_recv has returned
    recvBuffer,  \* recvBuffer_, the commands in it
    handled,     \* commands passed to handleControlMessage
    running      \* the process has not ended

vars == <<accepted, flushed, acking, arrived, read, recvBuffer, handled, running>>

Init ==
    /\ accepted = [e \in Endpoint |-> 0]
    /\ flushed = [e \in Endpoint |-> 0]
    /\ acking = [e \in Endpoint |-> FALSE]
    /\ arrived = [e \in Endpoint |-> 0]
    /\ read = [e \in Endpoint |-> 0]
    /\ recvBuffer = [e \in Endpoint |-> <<>>]
    /\ handled = [e \in Endpoint |-> <<>>]
    /\ running = [e \in Endpoint |-> TRUE]

SendMsg(e) ==
    /\ running[e]
    /\ accepted[e] < MaxCmds
    /\ accepted' = [accepted EXCEPT ![e] = @ + 1]
    /\ UNCHANGED <<flushed, acking, arrived, read, recvBuffer, handled, running>>

\* The output callback.  The one of the server asserts that the user pointer of
\* the kcp is a session; the control kcp was created with a null pointer.
OutputFails(e) == e = "C"

\* ikcp_update and its flush, when there is something to send.
Update(e) ==
    /\ running[e]
    /\ e \in Updated
    /\ flushed[e] < accepted[e] \/ acking[e]
    /\ IF OutputFails(e)
       THEN /\ running' = [running EXCEPT ![e] = FALSE]
            /\ UNCHANGED <<flushed, acking>>
       ELSE /\ flushed' = [flushed EXCEPT ![e] = accepted[e]]
            /\ acking' = [acking EXCEPT ![e] = FALSE]
            /\ UNCHANGED running
    /\ UNCHANGED <<accepted, arrived, read, recvBuffer, handled>>

\* The loop of parseMsg runs while recvBuffer_ is empty: it takes nothing out
\* of a buffer that has just been appended to.
ParseLoop(buffer) == [rest |-> buffer, aryMsg |-> <<>>]

\* parseMsg, for a datagram that makes n commands available in all.  Only a
\* size of 0 is taken for "no message", but ikcp_peeksize says -1; the resize
\* to that many bytes throws and nothing catches it.
ParseMsg(e, n) ==
    /\ running[e]
    /\ flushed[Peer(e)] > 0
    /\ arrived' = [arrived EXCEPT ![e] = n]
    /\ acking' = [acking EXCEPT ![e] = TRUE]
    /\ IF n = read[e]
       THEN /\ running' = [running EXCEPT ![e] = FALSE]
            /\ UNCHANGED <<read, recvBuffer, handled>>
       ELSE LET parsed == ParseLoop(Append(recvBuffer[e], read[e] + 1))
            IN  /\ read' = [read EXCEPT ![e] = @ + 1]
                /\ recvBuffer' = [recvBuffer EXCEPT ![e] = parsed.rest]
                /\ handled' = [handled EXCEPT ![e] = @ \o parsed.aryMsg]
                /\ UNCHANGED running
    /\ UNCHANGED <<accepted, flushed>>

Next ==
    \E e \in Endpoint :
        \/ SendMsg(e)
        \/ Update(e)
        \/ \E n \in arrived[e]..flushed[Peer(e)] : ParseMsg(e, n)

Spec == Init /\ [][Next]_vars

\* The 10 ms timer runs where it is set up, and datagrams with something new
\* arrive in the end.
Fairness ==
    \A e \in Endpoint :
        /\ WF_vars(Update(e))
        /\ WF_vars(\E n \in (arrived[e] + 1)..flushed[Peer(e)] : ParseMsg(e, n))

FairSpec == Spec /\ Fairness

-----------------------------------------------------------------------------
\* KcpServer/main.cpp:16: the control conversation carries commands reliably,
\* so the first command of B reaches the handler of C.  It does not: with
\* Updated empty it never leaves B, with any other value it stays in the
\* recvBuffer of C or the process ends.
FirstCommandHandled == accepted["B"] > 0 ~> Len(handled["C"]) > 0

=============================================================================
