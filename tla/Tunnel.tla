------------------------------- MODULE Tunnel -------------------------------
(***************************************************************************)
(* The life of the sessions: the proxy B and the server C composed over    *)
(* the channels of module Channels.  Each process is one event loop, so a  *)
(* step of the system is one callback of one of them.                      *)
(***************************************************************************)
EXTENDS KcpProxy, KcpServer

vars == <<chanVars, proxyVars, serverVars>>

Init == ChannelsInit /\ ProxyInit /\ ServerInit

Next ==
    \/ ProxyNext /\ UNCHANGED serverVars
    \/ ServerNext /\ UNCHANGED proxyVars

Spec == Init /\ [][Next]_vars

-----------------------------------------------------------------------------
(* Safety                                                                  *)

\* The state of both processes and of the channels is well formed.
TypeOK == ChannelsTypeOK /\ ProxyTypeOK /\ ServerTypeOK

Waiting(c) == c \in Range(uninitedSessList)

HasSession(c) == sessId[c] # 0 /\ proxyMap[sessId[c]] = c

\* The proxy finds every session it holds a reference to: an open connection
\* either waits for its id, once, or is in sessionMap_ under its own id, and a
\* connection that is gone is in neither.  The weak pointers that KcpProxy.cpp
\* asserts to be alive (lines 98, 108, 126) then are.
EverySessionFound ==
    /\ IsInjective(uninitedSessList)
    /\ \A c \in Conn : Waiting(c) => conn[c] = "open" /\ ~HasSession(c)
    /\ \A c \in Conn : conn[c] = "open" => Waiting(c) \/ HasSession(c)
    /\ \A id \in Id : proxyMap[id] # NoConn =>
        conn[proxyMap[id]] = "open" /\ sessId[proxyMap[id]] = id

\* The requests for an id in a stretch of the control conversation.
Requests(msgs) == Cardinality({i \in DOMAIN msgs : msgs[i] = CreateSession})

\* No session waits for nothing: for every one in uninitedSessList_ a request
\* or an answer is under way, although answers go to whichever session waits
\* first and connections come and go in between.
NoSessionStarves == Len(uninitedSessList) <= Requests(ctlUp) + Len(ctlDown)

Requested(id) ==
    \/ proxyMap[id] # NoConn
    \/ CreateResponse(id) \in Range(ctlDown)
    \/ DestroySession(id) \in Range(ctlUp)

\* No id leaks: C keeps a session connected, or connecting, to D only while
\* the proxy uses the id, is about to be told of it, or has released it and
\* the release is under way.
NoIdLeaked ==
    \A id \in serverMap : hasClient[id] => Requested(id)

\* Between a client and its destination nothing is lost, reordered or mixed
\* up while the session is intact: what D received, then what C keeps until D
\* is connected, then what is in the conversation, is what the client sent.
\* Once C has dropped its client D has received a prefix of that.
UpInOrder(c) ==
    LET id  == sessId[c]
        all == AllFrom(c, aSent[c])
    IN  IF id = 0
        THEN payloadList[c] = all
        ELSE /\ IsPrefix(dGot[id], all)
             /\ hasClient[id] => dGot[id] \o cached[id] \o up[id] = all

\* The other way the client receives a prefix of what D sent on the session
\* that the client's id names.
DownInOrder(c) ==
    sessId[c] # 0 =>
        IsPrefix(aGot[c] \o down[sessId[c]], AllFrom(sessId[c], dSent[sessId[c]]))

\* Payloads cross the tunnel in order, on their own session, in both directions.
PayloadsInOrder == \A c \in Conn : UpInOrder(c) /\ DownInOrder(c)

-----------------------------------------------------------------------------
(* What the comments say and the code does not do                          *)

\* KcpServer/main.cpp:13: B releases a session id when it finds that the TCP
\* connection is gone, so never the id that an open connection uses.
ReleasedOnlyWhenClosed ==
    \A id \in Id : DestroySession(id) \in Range(ctlUp) => proxyMap[id] = NoConn

\* KcpServer.cpp:147, KcpServerSession.cpp:138: a lost connection to D, or one
\* that does not come up, costs its session; the server goes on.
ServerGoesOn == running

=============================================================================
