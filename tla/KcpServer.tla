----------------------------- MODULE KcpServer ------------------------------
(***************************************************************************)
(* The server C (KcpServer/KcpServer.cpp and KcpServerSession.cpp): one    *)
(* event loop that creates a session for each request of B, connects it to *)
(* the destination D with a TcpClient, and passes bytes between the data   *)
(* conversation and that connection.  Every action is one callback of the  *)
(* loop, run to its end.                                                   *)
(*                                                                         *)
(* connectSvr does not keep the callback it is given, so connLostCb_ is    *)
(* empty; calling it throws std::bad_function_call, which nothing catches: *)
(* the process ends.                                                       *)
(*                                                                         *)
(* A session that was erased from sessionMap_ with its TcpClient lives on: *)
(* session and TcpClient hold each other.  Its connection goes on, but     *)
(* onUpdateKcpTimer does not reach its kcp any more.                       *)
(***************************************************************************)
EXTENDS Channels

VARIABLES
    running,     \* the process has not ended
    nextId,      \* KcpServer::id_
    serverMap,   \* the ids in KcpServer::sessionMap_
    hasClient,   \* client_ of the session is not null
    tcp,         \* the connection to D of the session's TcpClient
    checkTimer,  \* the call of onCheckConnection is still to come
    cached,      \* KcpServerSession::payloadList_
    quietUp,     \* lastTunnelActiveTime_ is more than an hour ago
    hours,       \* how often an hour has passed
    dSent,       \* history: messages D sent
    dGot         \* history: messages D received

serverVars == <<running, nextId, serverMap, hasClient, tcp, checkTimer, cached,
                quietUp, hours, dSent, dGot>>

ServerInit ==
    /\ running = TRUE
    /\ nextId = FirstId
    /\ serverMap = {}
    /\ hasClient = [id \in Id |-> FALSE]
    /\ tcp = [id \in Id |-> "none"]
    /\ checkTimer = [id \in Id |-> FALSE]
    /\ cached = [id \in Id |-> <<>>]
    /\ quietUp = {}
    /\ hours = 0
    /\ dSent = [id \in Id |-> 0]
    /\ dGot = [id \in Id |-> <<>>]

\* Slip: the counter is wider than the id.
NextOf_Wide(id) == id + 1

\* uint32_t addition.
NextOf(id) == (id + 1) % IdSpace

\* The id of a new session is never 0.
NewId == IF nextId = 0 THEN NextOf(nextId) ELSE nextId

\* Slip: the id is skipped without an answer when the counter comes round.
Answer_NotOnWrap(id) ==
    IF nextId = 0 THEN ctlDown ELSE Append(ctlDown, CreateResponse(id))

Answer(id) == Append(ctlDown, CreateResponse(id))

\* connectSvr: the TcpClient starts to connect, and the check is scheduled.
\* The callback it is given is not kept.
ConnectSvr(id) ==
    /\ hasClient' = [hasClient EXCEPT ![id] = TRUE]
    /\ tcp' = [tcp EXCEPT ![id] = "connecting"]
    /\ checkTimer' = [checkTimer EXCEPT ![id] = TRUE]

\* handleControlMessage, CMD_CREATE_SESSION.
OnCreate ==
    /\ running
    /\ ctlUp # <<>>
    /\ Head(ctlUp) = CreateSession
    /\ ctlUp' = Tail(ctlUp)
    /\ nextId' = NextOf(NewId)
    /\ serverMap' = serverMap \cup {NewId}
    /\ ConnectSvr(NewId)
    /\ quietUp' = quietUp \ {NewId}
    /\ ctlDown' = Answer(NewId)
    /\ UNCHANGED <<running, cached, hours, dSent, dGot>>
    /\ UNCHANGED <<up, down, spoken>>

\* client_.reset(): a pending connect is stopped, an open connection is only
\* marked to be closed; TcpConnection does that later in the loop.
ResetClient(id) ==
    /\ hasClient' = [hasClient EXCEPT ![id] = FALSE]
    /\ tcp' = [tcp EXCEPT ![id] = IF @ = "connecting" THEN "none" ELSE @]

\* handleControlMessage, CMD_DESTROY_SESSION: the session is disconnected but
\* stays in sessionMap_; an unknown id is ignored.
OnDestroy ==
    /\ running
    /\ ctlUp # <<>>
    /\ Head(ctlUp) # CreateSession
    /\ ctlUp' = Tail(ctlUp)
    /\ IF Head(ctlUp).id \in serverMap
       THEN ResetClient(Head(ctlUp).id)
       ELSE UNCHANGED <<hasClient, tcp>>
    /\ UNCHANGED <<running, nextId, serverMap, checkTimer, cached>>
    /\ UNCHANGED <<quietUp, hours, dSent, dGot>>
    /\ UNCHANGED <<ctlDown, up, down, spoken>>

\* Slip: what was cached before the connection came up is left behind.
FlushCached_Forget(id) ==
    /\ cached' = [cached EXCEPT ![id] = <<>>]
    /\ UNCHANGED dGot

\* What was cached goes out first.
FlushCached(id) ==
    /\ cached' = [cached EXCEPT ![id] = <<>>]
    /\ dGot' = [dGot EXCEPT ![id] = @ \o cached[id]]

\* onConnection, established.
ServerOnConnected(id) ==
    /\ running
    /\ tcp[id] = "connecting"
    /\ tcp' = [tcp EXCEPT ![id] = "connected"]
    /\ FlushCached(id)
    /\ UNCHANGED <<running, nextId, serverMap, hasClient, checkTimer>>
    /\ UNCHANGED <<quietUp, hours, dSent, chanVars>>

\* connLostCb_(conv) on a callback that was never set.
ConnLostCb == running' = FALSE

\* onConnection, disconnected: D has closed the connection, or the reset of
\* client_ has.
ServerOnDisconnected(id) ==
    /\ running
    /\ tcp[id] = "connected"
    /\ tcp' = [tcp EXCEPT ![id] = "none"]
    /\ ConnLostCb
    /\ UNCHANGED <<nextId, serverMap, hasClient, checkTimer, cached>>
    /\ UNCHANGED <<quietUp, hours, dSent, dGot, chanVars>>

\* onCheckConnection, three seconds after the session was created.
OnCheckConnection(id) ==
    /\ running
    /\ checkTimer[id]
    /\ checkTimer' = [checkTimer EXCEPT ![id] = FALSE]
    /\ IF hasClient[id] /\ tcp[id] # "connected"
       THEN ResetClient(id) /\ ConnLostCb
       ELSE UNCHANGED <<hasClient, tcp, running>>
    /\ UNCHANGED <<nextId, serverMap, cached, quietUp, hours>>
    /\ UNCHANGED <<dSent, dGot, chanVars>>

\* recvFromTunnel with a payload: to D, to payloadList_ until D is connected,
\* or nowhere once client_ is gone.
RecvFromTunnel(id, data) ==
    \/ /\ hasClient[id] /\ tcp[id] = "connected"
       /\ dGot' = [dGot EXCEPT ![id] = Append(@, data)]
       /\ UNCHANGED cached
    \/ /\ hasClient[id] /\ tcp[id] # "connected"
       /\ cached' = [cached EXCEPT ![id] = Append(@, data)]
       /\ UNCHANGED dGot
    \/ /\ ~hasClient[id]
       /\ UNCHANGED <<cached, dGot>>

\* dispatchKcpPacket, when the datagram completes a message.  A datagram for
\* an id that is not in sessionMap_ is ignored.
ServerOnTunnelMessage(id) ==
    /\ running
    /\ id \in serverMap
    /\ up[id] # <<>>
    /\ up' = [up EXCEPT ![id] = Tail(@)]
    /\ spoken' = spoken \cup {id}
    /\ quietUp' = quietUp \ {id}
    /\ RecvFromTunnel(id, Head(up[id]))
    /\ UNCHANGED <<running, nextId, serverMap, hasClient, tcp, checkTimer>>
    /\ UNCHANGED <<hours, dSent, ctlUp, ctlDown, down>>

\* onMessage: D has sent something.
ServerOnMessage(id) ==
    /\ running
    /\ tcp[id] = "connected"
    /\ dSent[id] < MaxDown
    /\ dSent' = [dSent EXCEPT ![id] = @ + 1]
    /\ IF id \in serverMap
       THEN /\ down' = [down EXCEPT ![id] = Append(@, Payload(id, dSent[id] + 1))]
            /\ spoken' = spoken \cup {id}
       ELSE UNCHANGED <<down, spoken>>
    /\ UNCHANGED <<running, nextId, serverMap, hasClient, tcp, checkTimer>>
    /\ UNCHANGED <<cached, quietUp, hours, dGot, ctlUp, ctlDown, up>>

IsIdle(id) == id \in quietUp

\* onCheckDeadSessionTimer: every idle session is erased.
OnCheckDeadSessionTimer ==
    /\ running
    /\ \E id \in serverMap : IsIdle(id)
    /\ serverMap' = {id \in serverMap : ~IsIdle(id)}
    /\ UNCHANGED <<running, nextId, hasClient, tcp, checkTimer, cached>>
    /\ UNCHANGED <<quietUp, hours, dSent, dGot, chanVars>>

\* An hour is longer than the three seconds of onCheckConnection and than a
\* turn of the event loop.
HourPasses ==
    /\ running
    /\ hours < MaxHours
    /\ hours' = hours + 1
    /\ \A id \in Id : ~checkTimer[id] /\ (tcp[id] = "connected" => hasClient[id])
    /\ quietUp' = Id
    /\ UNCHANGED <<running, nextId, serverMap, hasClient, tcp, checkTimer>>
    /\ UNCHANGED <<cached, dSent, dGot, chanVars>>

ServerNext ==
    \/ OnCreate
    \/ OnDestroy
    \/ OnCheckDeadSessionTimer
    \/ HourPasses
    \/ \E id \in Id :
        \/ ServerOnConnected(id)
        \/ ServerOnDisconnected(id)
        \/ OnCheckConnection(id)
        \/ ServerOnTunnelMessage(id)
        \/ ServerOnMessage(id)

ServerTypeOK ==
    /\ running \in BOOLEAN
    /\ nextId \in Id
    /\ serverMap \subseteq Id
    /\ hasClient \in [Id -> BOOLEAN]
    /\ tcp \in [Id -> {"none", "connecting", "connected"}]
    /\ checkTimer \in [Id -> BOOLEAN]
    /\ cached \in [Id -> Seq([from : Conn, num : Nat])]
    /\ quietUp \subseteq Id
    /\ hours \in Nat
    /\ dSent \in [Id -> Nat]
    /\ dGot \in [Id -> Seq([from : Conn, num : Nat])]

=============================================================================
