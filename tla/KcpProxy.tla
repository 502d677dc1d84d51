------------------------------ MODULE KcpProxy ------------------------------
(***************************************************************************)
(* The proxy B (KcpProxy/KcpProxy.cpp and KcpDataSession.cpp): one event   *)
(* loop that accepts the TCP connections of clients, asks C for a session  *)
(* id for each, and passes their bytes through the data conversation of    *)
(* that id.  Every action is one callback of the loop, run to its end.     *)
(*                                                                         *)
(* A KcpDataSession lives exactly as long as its connection, whose context *)
(* holds it, so a session is named by its connection.  The destructor's    *)
(* last ikcp_flush sends what may or may not arrive: messages stay in the  *)
(* channel, and nothing forces C to take them.                             *)
(***************************************************************************)
EXTENDS Channels, SequencesExt

CONSTANT NoConn   \* an id that sessionMap_ does not hold

ASSUME ProxyAssumption == NoConn \notin Conn

VARIABLES
    conn,              \* the state of each TCP connection
    sessId,            \* KcpDataSession::id_, 0 before init
    uninitedSessList,  \* KcpProxy::uninitedSessList_
    proxyMap,          \* KcpProxy::sessionMap_
    payloadList,       \* KcpDataSession::payloadList_
    strays,            \* datagrams that came for an unknown id
    aSent,             \* history: messages the client sent
    aGot               \* history: messages the client received

proxyVars == <<conn, sessId, uninitedSessList, proxyMap, payloadList, strays,
               aSent, aGot>>

ProxyInit ==
    /\ conn = [c \in Conn |-> "none"]
    /\ sessId = [c \in Conn |-> 0]
    /\ uninitedSessList = <<>>
    /\ proxyMap = [id \in Id |-> NoConn]
    /\ payloadList = [c \in Conn |-> <<>>]
    /\ strays = 0
    /\ aSent = [c \in Conn |-> 0]
    /\ aGot = [c \in Conn |-> <<>>]

\* onConnection, established: the session waits for its id.
ProxyOnConnected(c) ==
    /\ conn[c] = "none"
    /\ conn' = [conn EXCEPT ![c] = "open"]
    /\ uninitedSessList' = Append(uninitedSessList, c)
    /\ ctlUp' = Append(ctlUp, CreateSession)
    /\ UNCHANGED <<sessId, proxyMap, payloadList, strays, aSent, aGot>>
    /\ UNCHANGED <<ctlDown, up, down, spoken>>

\* Slip: the reference to a session that waits for its id is kept.
Without_Keep(list, c) == list

\* uninitedSessList_ without the first entry for the session of c.
Without(list, c) == RemoveFirst(list, c)

\* onConnection, disconnected: both references to the session are dropped,
\* and its id is released.
ProxyOnDisconnected(c) ==
    /\ conn[c] = "open"
    /\ conn' = [conn EXCEPT ![c] = "closed"]
    /\ uninitedSessList' = Without(uninitedSessList, c)
    /\ IF sessId[c] # 0
       THEN /\ proxyMap' = [proxyMap EXCEPT ![sessId[c]] = NoConn]
            /\ ctlUp' = Append(ctlUp, DestroySession(sessId[c]))
       ELSE UNCHANGED <<proxyMap, ctlUp>>
    /\ UNCHANGED <<sessId, payloadList, strays, aSent, aGot>>
    /\ UNCHANGED <<ctlDown, up, down, spoken>>

\* sendToTunnel: without an id there is no conversation yet.
SendToTunnel(c, data) ==
    IF sessId[c] = 0
    THEN /\ payloadList' = [payloadList EXCEPT ![c] = Append(@, data)]
         /\ UNCHANGED up
    ELSE /\ up' = [up EXCEPT ![sessId[c]] = Append(@, data)]
         /\ UNCHANGED payloadList

\* onMessage: the client has sent something.
ProxyOnMessage(c) ==
    /\ conn[c] = "open"
    /\ aSent[c] < MaxUp
    /\ aSent' = [aSent EXCEPT ![c] = @ + 1]
    /\ SendToTunnel(c, Payload(c, aSent[c] + 1))
    /\ UNCHANGED <<conn, sessId, uninitedSessList, proxyMap, strays, aGot>>
    /\ UNCHANGED <<ctlUp, ctlDown, down, spoken>>

\* KcpDataSession::init hands over the payloads that waited for the id.  They
\* are short enough for ikcp_send: one read of a Buffer is below 128 fragments.
InitSession(c, id) ==
    /\ sessId' = [sessId EXCEPT ![c] = id]
    /\ up' = [up EXCEPT ![id] = @ \o payloadList[c]]
    /\ payloadList' = [payloadList EXCEPT ![c] = <<>>]

\* handleControlMessage, RSP_CREATE_SESSION: the id goes to the first session
\* that waits, whichever connection asked for it.
GiveId ==
    /\ ctlDown # <<>>
    /\ uninitedSessList # <<>>
    /\ ctlDown' = Tail(ctlDown)
    /\ LET id == Head(ctlDown).id
           c  == Head(uninitedSessList)
       IN  /\ InitSession(c, id)
           /\ proxyMap' = [proxyMap EXCEPT ![id] = c]
    /\ uninitedSessList' = Tail(uninitedSessList)
    /\ UNCHANGED <<conn, strays, aSent, aGot, ctlUp, down, spoken>>

\* Slip: the id that nobody waits for is not given back.
RefuseId_Silent ==
    /\ ctlDown # <<>>
    /\ uninitedSessList = <<>>
    /\ ctlDown' = Tail(ctlDown)
    /\ UNCHANGED <<proxyVars, ctlUp, up, down, spoken>>

\* The same, when the connection has gone and no session waits.
RefuseId ==
    /\ ctlDown # <<>>
    /\ uninitedSessList = <<>>
    /\ ctlDown' = Tail(ctlDown)
    /\ ctlUp' = Append(ctlUp, DestroySession(Head(ctlDown).id))
    /\ UNCHANGED <<proxyVars, up, down, spoken>>

\* onKcpTunnelMessage for a known id, when recvFromTunnel gets a message.
ProxyOnTunnelMessage(id) ==
    /\ proxyMap[id] # NoConn
    /\ down[id] # <<>>
    /\ down' = [down EXCEPT ![id] = Tail(@)]
    /\ aGot' = [aGot EXCEPT ![proxyMap[id]] = Append(@, Head(down[id]))]
    /\ UNCHANGED <<conn, sessId, uninitedSessList, proxyMap, payloadList>>
    /\ UNCHANGED <<strays, aSent, ctlUp, ctlDown, up, spoken>>

\* onKcpTunnelMessage for an id that is not in sessionMap_.
ProxyOnStrayDatagram(id) ==
    /\ proxyMap[id] = NoConn
    /\ id \in spoken
    /\ strays < MaxStray
    /\ strays' = strays + 1
    /\ ctlUp' = Append(ctlUp, DestroySession(id))
    /\ UNCHANGED <<conn, sessId, uninitedSessList, proxyMap, payloadList>>
    /\ UNCHANGED <<aSent, aGot, ctlDown, up, down, spoken>>

ProxyNext ==
    \/ \E c \in Conn :
        ProxyOnConnected(c) \/ ProxyOnDisconnected(c) \/ ProxyOnMessage(c)
    \/ GiveId
    \/ RefuseId
    \/ \E id \in Id : ProxyOnTunnelMessage(id) \/ ProxyOnStrayDatagram(id)

ProxyTypeOK ==
    /\ conn \in [Conn -> {"none", "open", "closed"}]
    /\ sessId \in [Conn -> Id]
    /\ uninitedSessList \in Seq(Conn)
    /\ proxyMap \in [Id -> Conn \cup {NoConn}]
    /\ payloadList \in [Conn -> Seq([from : Conn, num : Nat])]
    /\ strays \in Nat
    /\ aSent \in [Conn -> Nat]
    /\ aGot \in [Conn -> Seq([from : Id, num : Nat])]

=============================================================================
