---------------------------- MODULE TunnelProof -----------------------------
(***************************************************************************)
(* Machine-checked proofs about Tunnel: the invariant TunnelInv is         *)
(* inductive, so that for any number of connections, any width of the id,  *)
(* any first id and any bound on the traffic every session is found, none  *)
(* waits for nothing, no id leaks and payloads cross in order.             *)
(***************************************************************************)
EXTENDS Tunnel, DataFacts

-----------------------------------------------------------------------------
(* The inductive invariant.                                                *)

\* How many ids may still be given out: each connection asks once, and a
\* connection that has not come yet still will.
Remaining ==
    Cardinality({c \in Conn : conn[c] = "none"}) + Requests(ctlUp)

\* How many ids the counter gives out before it comes to id.
Distance(id) ==
    IF id >= NewId THEN id - NewId ELSE id - NewId + (IdSpace - 1)

\* No connection of the proxy has had the id.
Unused(id) == \A c \in Conn : sessId[c] # id

Answered(id) == \E i \in DOMAIN ctlDown : ctlDown[i].id = id

\* The ids that the counter will come to have left no trace: it does not come
\* round to one that is in use.
FreshIds ==
    /\ Remaining < IdSpace
    /\ \A id \in Id \ {0} : Distance(id) < Remaining =>
        /\ Unused(id)
        /\ ~Answered(id)
        /\ tcp[id] = "none"
        /\ dSent[id] = 0
        /\ down[id] = <<>>

\* Every id is on its way to at most one connection, or belongs to it.
IdsDistinct ==
    /\ ~Answered(0)
    /\ \A i, j \in DOMAIN ctlDown : ctlDown[i].id = ctlDown[j].id => i = j
    /\ \A i \in DOMAIN ctlDown : Unused(ctlDown[i].id)
    /\ \A c, d \in Conn : sessId[c] = sessId[d] /\ sessId[c] # 0 => c = d

\* What the references of the proxy rest on.
SessionInv ==
    /\ IsInjective(uninitedSessList)
    /\ \A c \in Range(uninitedSessList) : conn[c] = "open" /\ sessId[c] = 0
    /\ \A c \in Conn : conn[c] = "open" => Waiting(c) \/ HasSession(c)
    /\ \A c \in Conn : conn[c] = "none" => sessId[c] = 0
    /\ \A id \in Id : proxyMap[id] # NoConn =>
        id # 0 /\ conn[proxyMap[id]] = "open" /\ sessId[proxyMap[id]] = id

\* What C does before an id is used, before D is connected and after.
ServerInv ==
    /\ \A id \in Id : tcp[id] = "connecting" => hasClient[id]
    /\ \A id \in Id : tcp[id] = "connected" => cached[id] = <<>>
    /\ \A id \in Id \ {0} : Unused(id) =>
        up[id] = <<>> /\ cached[id] = <<>> /\ dGot[id] = <<>>

\* While C has the session, nothing that D sent is missing.
NothingMissing(id) ==
    LET all == AllFrom(id, dSent[id]) IN
    /\ Unused(id) => IsPrefix(down[id], all)
    /\ Unused(id) /\ id \in serverMap => down[id] = all
    /\ id \in serverMap =>
        \A c \in Conn : sessId[c] = id => aGot[c] \o down[id] = all

DownInv ==
    /\ \A c \in Conn : sessId[c] = 0 => aGot[c] = <<>>
    /\ \A id \in Id \ {0} : NothingMissing(id)

TunnelInv ==
    /\ TypeOK
    /\ FreshIds
    /\ IdsDistinct
    /\ SessionInv
    /\ NoSessionStarves
    /\ NoIdLeaked
    /\ ServerInv
    /\ DownInv
    /\ PayloadsInOrder

-----------------------------------------------------------------------------
(* Facts about the messages and the counter of ids.                        *)

UpData == [from : Conn, num : Nat]

DownData == [from : Id, num : Nat]

CtlUp == {CreateSession} \cup {DestroySession(id) : id \in Id}

CtlDown == {CreateResponse(id) : id \in Id}

\* The n-th message extends the first n - 1 of them.
LEMMA AllFromFacts ==
    ASSUME NEW S, NEW s \in S, NEW n \in Nat
    PROVE  /\ AllFrom(s, n) \in Seq([from : S, num : Nat])
           /\ Len(AllFrom(s, n)) = n
           /\ Payload(s, n + 1) \in [from : S, num : Nat]
           /\ AllFrom(s, n + 1) = Append(AllFrom(s, n), Payload(s, n + 1))
           /\ AllFrom(s, 0) = <<>>
  <1> DEFINE D == [from : S, num : Nat]
             a == AllFrom(s, n)
             b == AllFrom(s, n + 1)
             c == Append(a, Payload(s, n + 1))
  <1>1. \A i \in Nat : Payload(s, i) \in D
    BY DEF Payload
  <1>2. a \in Seq(D) /\ Len(a) = n /\ \A i \in 1..n : a[i] = Payload(s, i)
    BY <1>1 DEF AllFrom
  <1>3. /\ b \in Seq(D) /\ Len(b) = n + 1
        /\ \A i \in 1..(n + 1) : b[i] = Payload(s, i)
    BY <1>1 DEF AllFrom
  <1>4. Payload(s, n + 1) \in D
    BY <1>1
  <1>5. AllFrom(s, 0) = <<>>
    BY DEF AllFrom
  <1> HIDE DEF a, b, D
  <1>6. /\ c \in Seq(D) /\ Len(c) = n + 1
        /\ \A i \in 1..(n + 1) : c[i] = Payload(s, i)
    BY <1>2, <1>4
  <1>7. b = c
    <2> HIDE DEF c
    <2> QED
      BY <1>3, <1>6, SeqEqual
  <1> QED
    BY <1>2, <1>4, <1>5, <1>7 DEF a, b, D

\* A control message is known by its command and its id.
LEMMA MessageFacts ==
    /\ \A m \in CtlDown : m.id \in Id /\ m = CreateResponse(m.id)
    /\ \A m \in CtlUp : m # CreateSession => m.id \in Id /\ m = DestroySession(m.id)
    /\ \A id \in Id : CreateResponse(id) \in CtlDown /\ DestroySession(id) \in CtlUp
    /\ \A id \in Id : DestroySession(id) # CreateSession
    /\ CreateSession \in CtlUp
  <1>1. ASSUME NEW m \in CtlDown PROVE m.id \in Id /\ m = CreateResponse(m.id)
    <2>1. PICK id \in Id : m = CreateResponse(id)
      BY DEF CtlDown
    <2>2. m.id = id
      BY <2>1 DEF CreateResponse
    <2> QED
      BY <2>1, <2>2
  <1>2. ASSUME NEW m \in CtlUp, m # CreateSession
        PROVE  m.id \in Id /\ m = DestroySession(m.id)
    <2>1. PICK id \in Id : m = DestroySession(id)
      BY <1>2 DEF CtlUp
    <2>2. m.id = id
      BY <2>1 DEF DestroySession
    <2> QED
      BY <2>1, <2>2
  <1>3. \A id \in Id : DestroySession(id) # CreateSession
    BY DEF CreateSession, DestroySession
  <1> QED
    BY <1>1, <1>2, <1>3 DEF CtlUp, CtlDown

\* The number of requests under way counts the places of ctlUp that hold one.
LEMMA RequestFacts ==
    ASSUME NEW s \in Seq(CtlUp)
    PROVE  /\ Requests(s) \in Nat
           /\ Requests(Append(s, CreateSession)) = Requests(s) + 1
           /\ \A id \in Id : Requests(Append(s, DestroySession(id))) = Requests(s)
           /\ s # <<>> /\ Head(s) = CreateSession =>
                /\ Requests(Tail(s)) = Requests(s) - 1
                /\ Requests(s) > 0
           /\ s # <<>> /\ Head(s) # CreateSession => Requests(Tail(s)) = Requests(s)
  <1>1. \A t : Requests(t) = Cardinality(Places(t, CreateSession))
    BY DEF Requests, Places
  <1>2. CreateSession \in CtlUp /\ \A id \in Id : DestroySession(id) \in CtlUp
    BY DEF CtlUp
  <1>3. \A id \in Id : DestroySession(id) # CreateSession
    BY DEF CreateSession, DestroySession
  <1>4. \A y \in CtlUp :
            /\ Cardinality(Places(s, CreateSession)) \in Nat
            /\ Cardinality(Places(Append(s, y), CreateSession)) =
                Cardinality(Places(s, CreateSession))
                    + IF CreateSession = y THEN 1 ELSE 0
    BY AppendPlaces
  <1>5. s # <<>> =>
            /\ Cardinality(Places(Tail(s), CreateSession)) \in Nat
            /\ Cardinality(Places(s, CreateSession)) =
                Cardinality(Places(Tail(s), CreateSession))
                    + IF Head(s) = CreateSession THEN 1 ELSE 0
    BY TailPlaces
  <1> QED
    BY <1>1, <1>2, <1>3, <1>4, <1>5

\* A connection that comes takes its place among the requests.
LEMMA NoneFacts ==
    ASSUME TypeOK
    PROVE  /\ Cardinality({c \in Conn : conn[c] = "none"}) \in Nat
           /\ Cardinality({c \in Conn : conn[c] = "none"}) <= Cardinality(Conn)
           /\ \A c \in Conn : conn[c] = "none" =>
                Cardinality({x \in Conn : [conn EXCEPT ![c] = "open"][x] = "none"})
                    = Cardinality({x \in Conn : conn[x] = "none"}) - 1
           /\ \A c \in Conn : conn[c] = "open" =>
                {x \in Conn : [conn EXCEPT ![c] = "closed"][x] = "none"}
                    = {x \in Conn : conn[x] = "none"}
  <1> DEFINE N == {x \in Conn : conn[x] = "none"}
  <1>1. IsFiniteSet(N) /\ Cardinality(N) \in Nat /\ Cardinality(N) <= Cardinality(Conn)
    BY ChannelsAssumption, FS_Subset, FS_CardinalityType
  <1>2. ASSUME NEW c \in Conn, conn[c] = "none"
        PROVE  Cardinality({x \in Conn : [conn EXCEPT ![c] = "open"][x] = "none"})
                    = Cardinality(N) - 1
    <2>1. {x \in Conn : [conn EXCEPT ![c] = "open"][x] = "none"} = N \ {c}
      BY DEF TypeOK, ProxyTypeOK
    <2>2. c \in N
      BY <1>2
    <2> HIDE DEF N
    <2> QED
      BY <1>1, <2>1, <2>2, FS_RemoveElement
  <1>3. ASSUME NEW c \in Conn, conn[c] = "open"
        PROVE  {x \in Conn : [conn EXCEPT ![c] = "closed"][x] = "none"} = N
    BY <1>3 DEF TypeOK, ProxyTypeOK
  <1> QED
    BY <1>1, <1>2, <1>3

\* The counter is a number of the id's width, and passes over 0.
LEMMA CounterFacts ==
    ASSUME TypeOK, Remaining < IdSpace, Remaining > 0, Remaining \in Nat
    PROVE  /\ NewId \in Id \ {0}
           /\ Distance(NewId) = 0
           /\ NextOf(NewId) \in Id
           /\ nextId' = NextOf(NewId) =>
                \A id \in Id \ {0} :
                    /\ id = NewId => Distance(id)' = IdSpace - 2
                    /\ id # NewId => Distance(id)' = Distance(id) - 1
  <1>1. IdSpace \in Nat /\ IdSpace > 1 /\ nextId \in Id
    BY ChannelsAssumption DEF TypeOK, ServerTypeOK
  <1>2. \A id \in Id : NextOf(id) = IF id = IdSpace - 1 THEN 0 ELSE id + 1
    <2>1. \A n \in 0..(IdSpace - 1) : n % IdSpace = n
      BY <1>1
    <2>2. IdSpace % IdSpace = 0
      BY <1>1
    <2> QED
      BY <1>1, <2>1, <2>2 DEF NextOf, Id
  <1>3. NewId = IF nextId = 0 THEN 1 ELSE nextId
    BY <1>1, <1>2 DEF NewId, Id
  <1>4. NewId \in 1..(IdSpace - 1)
    BY <1>1, <1>3 DEF Id
  <1>5. NextOf(NewId) = IF NewId = IdSpace - 1 THEN 0 ELSE NewId + 1
    BY <1>2, <1>4 DEF Id
  <1>6. ASSUME nextId' = NextOf(NewId)
        PROVE  NewId' = IF NewId = IdSpace - 1 THEN 1 ELSE NewId + 1
    <2>1. NewId' = IF nextId' = 0 THEN NextOf(nextId') ELSE nextId'
      BY DEF NewId
    <2>2. NextOf(0) = 1
      BY <1>1, <1>2 DEF Id
    <2> QED
      BY <1>4, <1>5, <1>6, <2>1, <2>2
  <1>7. ASSUME nextId' = NextOf(NewId)
        PROVE  \A id \in Id \ {0} :
                    /\ id = NewId => Distance(id)' = IdSpace - 2
                    /\ id # NewId => Distance(id)' = Distance(id) - 1
    <2>1. \A id \in Id \ {0} : Distance(id)' =
            IF id >= NewId' THEN id - NewId' ELSE id - NewId' + (IdSpace - 1)
      BY DEF Distance
    <2> QED
      BY <1>1, <1>4, <1>6, <1>7, <2>1 DEF Distance, Id
  <1> QED
    BY <1>1, <1>4, <1>5, <1>7 DEF Distance, Id

-----------------------------------------------------------------------------
(* The invariant holds initially.                                          *)

LEMMA InitTunnel == ASSUME Init PROVE TunnelInv
  <1> USE ChannelsAssumption, ProxyAssumption
      DEF Init, ChannelsInit, ProxyInit, ServerInit
  <1>1. TypeOK
    BY DEF TypeOK, ChannelsTypeOK, ProxyTypeOK, ServerTypeOK, Id
  <1>2. FreshIds
    <2>1. Cardinality({c \in Conn : conn[c] = "none"}) = Cardinality(Conn)
      <3>1. {c \in Conn : conn[c] = "none"} = Conn
        OBVIOUS
      <3> QED
        BY <3>1
    <2>2. {i \in DOMAIN ctlUp : ctlUp[i] = CreateSession} = {}
      OBVIOUS
    <2>3. Requests(ctlUp) = 0
      BY <2>2, FS_EmptySet DEF Requests
    <2>4. Cardinality(Conn) \in Nat
      BY FS_CardinalityType
    <2>5. Remaining = Cardinality(Conn)
      BY <2>1, <2>3, <2>4 DEF Remaining
    <2> QED
      BY <2>5 DEF FreshIds, Unused, Answered
  <1>3. IdsDistinct /\ SessionInv
    BY DEF IdsDistinct, SessionInv, Answered, Unused, Waiting, Range, IsInjective
  <1>4. NoSessionStarves
    <2>1. <<>> \in Seq(CtlUp)
      OBVIOUS
    <2>2. Requests(<<>>) \in Nat
      BY <2>1, RequestFacts
    <2> QED
      BY <2>2 DEF NoSessionStarves
  <1>5. NoIdLeaked /\ ServerInv
    BY DEF NoIdLeaked, ServerInv
  <1>6. DownInv /\ PayloadsInOrder
    <2>1. \A c \in Conn : AllFrom(c, 0) = <<>>
      BY AllFromFacts
    <2>2. \A id \in Id : AllFrom(id, 0) = <<>>
      BY AllFromFacts
    <2>3. IsPrefix(<<>>, <<>>)
      BY DEF IsPrefix
    <2> QED
      BY <2>1, <2>2, <2>3 DEF PayloadsInOrder, UpInOrder, DownInOrder, DownInv, NothingMissing
  <1> QED
    BY <1>1, <1>2, <1>3, <1>4, <1>5, <1>6 DEF TunnelInv

-----------------------------------------------------------------------------
(* The actions of the proxy keep it.                                       *)

\* What is untouched by an action that leaves the data of all sessions alone.
LEMMA DataFrame ==
    ASSUME TunnelInv,
           UNCHANGED <<sessId, payloadList, aSent, aGot, up, down>>,
           UNCHANGED <<hasClient, tcp, cached, serverMap, dSent, dGot>>
    PROVE  ServerInv' /\ DownInv' /\ PayloadsInOrder'
  <1>1. ServerInv'
    BY DEF TunnelInv, ServerInv, Unused
  <1>2. PayloadsInOrder'
    BY DEF TunnelInv, PayloadsInOrder, UpInOrder, DownInOrder
  <1>3. DownInv'
    BY DEF TunnelInv, DownInv, NothingMissing, Unused
  <1> QED
    BY <1>1, <1>2, <1>3

LEMMA ProxyOnConnectedKeeps ==
    ASSUME TunnelInv, NEW c \in Conn, ProxyOnConnected(c), UNCHANGED serverVars
    PROVE  TunnelInv'
  <1> USE DEF ProxyOnConnected, serverVars
  <1>0. TypeOK /\ ctlUp \in Seq(CtlUp) /\ uninitedSessList \in Seq(Conn)
    BY DEF TunnelInv, TypeOK, ChannelsTypeOK, ProxyTypeOK, CtlUp
  <1>1. TypeOK'
    <2>1. ctlUp' \in Seq(CtlUp)
      BY <1>0 DEF CtlUp
    <2>2. ChannelsTypeOK'
      BY <1>0, <2>1 DEF TypeOK, ChannelsTypeOK, CtlUp
    <2>3. ProxyTypeOK'
      <3>1. conn' \in [Conn -> {"none", "open", "closed"}]
        BY <1>0 DEF TypeOK, ProxyTypeOK
      <3>2. uninitedSessList' \in Seq(Conn)
        BY <1>0
      <3> QED
        BY <1>0, <3>1, <3>2 DEF TypeOK, ProxyTypeOK
    <2>4. ServerTypeOK'
      BY <1>0 DEF TypeOK, ServerTypeOK
    <2> QED
      BY <2>2, <2>3, <2>4 DEF TypeOK
  <1>2. Requests(ctlUp') = Requests(ctlUp) + 1 /\ Requests(ctlUp) \in Nat
    BY <1>0, RequestFacts
  <1>3. Remaining' = Remaining
    <2>1. Cardinality({x \in Conn : conn'[x] = "none"})
            = Cardinality({x \in Conn : conn[x] = "none"}) - 1
      BY <1>0, NoneFacts
    <2>2. Cardinality({x \in Conn : conn[x] = "none"}) \in Nat
      BY <1>0, NoneFacts
    <2> QED
      BY <1>2, <2>1, <2>2 DEF Remaining
  <1>4. FreshIds'
    BY <1>3 DEF TunnelInv, FreshIds, Unused, Answered, Distance, NewId
  <1>5. IdsDistinct'
    BY DEF TunnelInv, IdsDistinct, Answered, Unused
  <1>6. SessionInv'
    <2>1. Range(uninitedSessList') = Range(uninitedSessList) \cup {c}
      BY <1>0, RangeFacts
    <2>2. c \notin Range(uninitedSessList)
      BY DEF TunnelInv, SessionInv
    <2>3. IsInjective(uninitedSessList')
      BY <1>0, <2>2, RangeFacts DEF TunnelInv, SessionInv
    <2>4. conn' = [conn EXCEPT ![c] = "open"] /\ conn \in [Conn -> {"none", "open", "closed"}]
      BY <1>0 DEF TypeOK, ProxyTypeOK
    <2> QED
      BY <2>1, <2>2, <2>3, <2>4, <1>0
      DEF TunnelInv, SessionInv, Waiting, HasSession, TypeOK, ProxyTypeOK
  <1>7. NoSessionStarves'
    <2>1. Len(uninitedSessList') = Len(uninitedSessList) + 1
      BY <1>0
    <2>2. Len(ctlDown) \in Nat
      BY <1>0 DEF TypeOK, ChannelsTypeOK
    <2> QED
      BY <1>0, <1>2, <2>1, <2>2 DEF TunnelInv, NoSessionStarves
  <1>8. NoIdLeaked'
    <2>1. CreateSession \in CtlUp
      BY DEF CtlUp
    <2>2. Range(ctlUp) \subseteq Range(ctlUp')
      BY <1>0, <2>1, RangeFacts
    <2> QED
      BY <2>2 DEF TunnelInv, NoIdLeaked, Requested
  <1>9. ServerInv' /\ DownInv' /\ PayloadsInOrder'
    BY DataFrame
  <1> QED
    BY <1>1, <1>4, <1>5, <1>6, <1>7, <1>8, <1>9 DEF TunnelInv

LEMMA ProxyOnDisconnectedKeeps ==
    ASSUME TunnelInv, NEW c \in Conn, ProxyOnDisconnected(c), UNCHANGED serverVars
    PROVE  TunnelInv'
  <1> USE DEF ProxyOnDisconnected, serverVars
  <1>0. TypeOK /\ ctlUp \in Seq(CtlUp) /\ uninitedSessList \in Seq(Conn)
        /\ sessId[c] \in Id /\ ProxyTypeOK
    BY DEF TunnelInv, TypeOK, ChannelsTypeOK, ProxyTypeOK, CtlUp
  <1>1. /\ uninitedSessList' \in Seq(Conn)
        /\ IsInjective(uninitedSessList')
        /\ Range(uninitedSessList') = Range(uninitedSessList) \ {c}
        /\ Len(uninitedSessList') <= Len(uninitedSessList)
    BY <1>0, RemoveFirstFacts DEF TunnelInv, SessionInv, Without
  <1>2. /\ ctlUp' \in Seq(CtlUp)
        /\ Requests(ctlUp') = Requests(ctlUp)
        /\ Requests(ctlUp) \in Nat
        /\ Range(ctlUp) \subseteq Range(ctlUp')
        /\ sessId[c] # 0 => DestroySession(sessId[c]) \in Range(ctlUp')
    <2>1. DestroySession(sessId[c]) \in CtlUp
      BY <1>0 DEF CtlUp
    <2>2. CASE sessId[c] # 0
      <3>1. ctlUp' = Append(ctlUp, DestroySession(sessId[c]))
        BY <2>2
      <3> QED
        BY <1>0, <2>1, <3>1, RequestFacts, RangeFacts
    <2>3. CASE sessId[c] = 0
      BY <1>0, <2>3, RequestFacts
    <2> QED
      BY <2>2, <2>3
  <1>3. TypeOK'
    <2>1. ChannelsTypeOK'
      BY <1>0, <1>2 DEF TypeOK, ChannelsTypeOK, CtlUp
    <2>2. ProxyTypeOK'
      <3>1. conn' \in [Conn -> {"none", "open", "closed"}]
        BY <1>0 DEF ProxyTypeOK
      <3>2. proxyMap' \in [Id -> Conn \cup {NoConn}]
        BY <1>0 DEF ProxyTypeOK
      <3> QED
        BY <1>0, <1>1, <3>1, <3>2 DEF ProxyTypeOK
    <2>3. ServerTypeOK'
      BY <1>0 DEF TypeOK, ServerTypeOK
    <2> QED
      BY <2>1, <2>2, <2>3 DEF TypeOK
  <1>4. FreshIds'
    <2>1. {x \in Conn : conn'[x] = "none"} = {x \in Conn : conn[x] = "none"}
      BY <1>0, NoneFacts
    <2>2. Remaining' = Remaining
      BY <1>2, <2>1 DEF Remaining
    <2> QED
      BY <2>2 DEF TunnelInv, FreshIds, Unused, Answered, Distance, NewId
  <1>5. IdsDistinct'
    BY DEF TunnelInv, IdsDistinct, Answered, Unused
  <1>6. SessionInv'
    <2>1. conn' = [conn EXCEPT ![c] = "closed"] /\ sessId' = sessId
      OBVIOUS
    <2>2. \A x \in Range(uninitedSessList') : conn'[x] = "open" /\ sessId'[x] = 0
      <3>1. \A x \in Range(uninitedSessList') : x \in Conn /\ x # c
        BY <1>1, RangeOfSeq
      <3> QED
        BY <1>0, <1>1, <2>1, <3>1 DEF TunnelInv, SessionInv, ProxyTypeOK
    <2>3. ASSUME NEW x \in Conn, conn'[x] = "open"
          PROVE  Waiting(x)' \/ HasSession(x)'
      <3>1. x # c /\ conn[x] = "open"
        BY <1>0, <2>1, <2>3 DEF ProxyTypeOK
      <3>2. CASE Waiting(x)
        BY <1>1, <3>1, <3>2 DEF Waiting
      <3>3. CASE HasSession(x)
        <4>1. sessId[x] # sessId[c]
          BY <3>1, <3>3 DEF TunnelInv, IdsDistinct, HasSession
        <4>2. sessId[x] \in Id /\ proxyMap'[sessId[x]] = proxyMap[sessId[x]]
          BY <1>0, <4>1 DEF ProxyTypeOK
        <4> QED
          BY <2>1, <3>3, <4>2 DEF HasSession
      <3> QED
        BY <3>1, <3>2, <3>3 DEF TunnelInv, SessionInv
    <2>4. \A x \in Conn : conn'[x] = "none" => sessId'[x] = 0
      BY <1>0, <2>1 DEF TunnelInv, SessionInv, ProxyTypeOK
    <2>5. ASSUME NEW id \in Id, proxyMap'[id] # NoConn
          PROVE  /\ id # 0 /\ conn'[proxyMap'[id]] = "open"
                 /\ sessId'[proxyMap'[id]] = id
      <3>1. proxyMap'[id] = proxyMap[id] /\ (sessId[c] # 0 => id # sessId[c])
        BY <1>0, <2>5 DEF ProxyTypeOK
      <3>2. id # 0 /\ conn[proxyMap[id]] = "open" /\ sessId[proxyMap[id]] = id
        BY <2>5, <3>1 DEF TunnelInv, SessionInv
      <3>3. proxyMap[id] \in Conn /\ proxyMap[id] # c
        BY <1>0, <2>5, <3>1, <3>2 DEF ProxyTypeOK
      <3> QED
        BY <1>0, <2>1, <3>1, <3>2, <3>3 DEF ProxyTypeOK
    <2> QED
      BY <1>1, <2>2, <2>3, <2>4, <2>5 DEF SessionInv
  <1>7. NoSessionStarves'
    <2>1. Len(ctlDown) \in Nat /\ Len(uninitedSessList) \in Nat
          /\ Len(uninitedSessList') \in Nat
      BY <1>0, <1>1 DEF TypeOK, ChannelsTypeOK
    <2> QED
      BY <1>1, <1>2, <2>1 DEF TunnelInv, NoSessionStarves
  <1>8. NoIdLeaked'
    <2>1. ASSUME NEW id \in serverMap, hasClient[id]
          PROVE  Requested(id)'
      <3>1. Requested(id) /\ id \in Id
        BY <1>0, <2>1 DEF TunnelInv, NoIdLeaked, TypeOK, ServerTypeOK
      <3>2. CASE sessId[c] # 0 /\ id = sessId[c]
        BY <1>2, <3>2 DEF Requested
      <3>3. CASE ~(sessId[c] # 0 /\ id = sessId[c])
        <4>1. proxyMap'[id] = proxyMap[id]
          BY <1>0, <3>1, <3>3 DEF ProxyTypeOK
        <4> QED
          BY <1>2, <3>1, <4>1 DEF Requested
      <3> QED
        BY <3>2, <3>3
    <2> QED
      BY <2>1 DEF NoIdLeaked
  <1>9. ServerInv' /\ DownInv' /\ PayloadsInOrder'
    BY DataFrame
  <1> QED
    BY <1>3, <1>4, <1>5, <1>6, <1>7, <1>8, <1>9 DEF TunnelInv

\* A message of the client extends what is on its way by itself.
LEMMA ProxyOnMessageKeeps ==
    ASSUME TunnelInv, NEW c \in Conn, ProxyOnMessage(c), UNCHANGED serverVars
    PROVE  TunnelInv'
  <1> USE DEF ProxyOnMessage, serverVars
  <1> DEFINE data == Payload(c, aSent[c] + 1)
             all == AllFrom(c, aSent[c])
             id == sessId[c]
  <1>0. /\ TypeOK /\ ChannelsTypeOK /\ ProxyTypeOK /\ ServerTypeOK
        /\ aSent[c] \in Nat /\ id \in Id
        /\ up \in [Id -> Seq(UpData)] /\ payloadList \in [Conn -> Seq(UpData)]
        /\ cached \in [Id -> Seq(UpData)] /\ dGot \in [Id -> Seq(UpData)]
    BY DEF TunnelInv, TypeOK, ChannelsTypeOK, ProxyTypeOK, ServerTypeOK, UpData
  <1>1. /\ data \in UpData /\ all \in Seq(UpData)
        /\ AllFrom(c, aSent[c] + 1) = Append(all, data)
    BY <1>0, AllFromFacts DEF UpData
  <1> HIDE DEF data, all, id
  <1>2. IF id = 0
        THEN payloadList' = [payloadList EXCEPT ![c] = Append(@, data)] /\ up' = up
        ELSE up' = [up EXCEPT ![id] = Append(@, data)] /\ payloadList' = payloadList
    BY DEF SendToTunnel, data, id
  <1>3. aSent' = [aSent EXCEPT ![c] = aSent[c] + 1] /\ sessId' = sessId
    OBVIOUS
  <1>4. up' \in [Id -> Seq(UpData)] /\ payloadList' \in [Conn -> Seq(UpData)]
    <2>1. \A s \in Seq(UpData) : Append(s, data) \in Seq(UpData)
      BY <1>1
    <2> QED
      BY <1>0, <1>2, <2>1
  <1>5. TypeOK'
    <2>1. aSent' \in [Conn -> Nat]
      BY <1>0, <1>3 DEF ProxyTypeOK
    <2>2. ProxyTypeOK'
      BY <1>0, <1>4, <2>1 DEF ProxyTypeOK, UpData
    <2>3. ChannelsTypeOK' /\ ServerTypeOK'
      BY <1>0, <1>4 DEF ChannelsTypeOK, ServerTypeOK, UpData
    <2> QED
      BY <2>2, <2>3 DEF TypeOK
  <1>6. FreshIds' /\ IdsDistinct' /\ SessionInv' /\ NoSessionStarves' /\ NoIdLeaked'
    <2>1. FreshIds'
      BY DEF TunnelInv, FreshIds, Remaining, Unused, Answered, Distance, NewId
    <2>2. IdsDistinct' /\ SessionInv'
      BY DEF TunnelInv, IdsDistinct, SessionInv, Answered, Unused, Waiting, HasSession
    <2>3. NoSessionStarves' /\ NoIdLeaked'
      BY DEF TunnelInv, NoSessionStarves, NoIdLeaked, Requested
    <2> QED
      BY <2>1, <2>2, <2>3
  <1>7. ServerInv'
    <2>1. ASSUME NEW x \in Id \ {0}, Unused(x)
          PROVE  up'[x] = up[x]
      BY <1>0, <1>2, <2>1 DEF Unused, id
    <2> QED
      BY <2>1 DEF TunnelInv, ServerInv, Unused
  <1>8. ASSUME NEW x \in Conn
        PROVE  UpInOrder(x)'
    <2>1. CASE x # c
      <3>1. sessId[x] \in Id /\ (sessId[x] # 0 => sessId[x] # id)
        BY <1>0, <2>1 DEF TunnelInv, IdsDistinct, ProxyTypeOK, id
      <3>2. /\ payloadList'[x] = payloadList[x]
            /\ aSent'[x] = aSent[x]
            /\ sessId[x] # 0 => up'[sessId[x]] = up[sessId[x]]
        BY <1>0, <1>2, <1>3, <2>1, <3>1 DEF ProxyTypeOK
      <3> QED
        BY <3>2 DEF TunnelInv, PayloadsInOrder, UpInOrder
    <2>2. AllFrom(c, aSent'[c]) = Append(all, data)
      BY <1>0, <1>1, <1>3 DEF ProxyTypeOK
    <2>3. UpInOrder(c)
      BY DEF TunnelInv, PayloadsInOrder
    <2>4. CASE x = c /\ id = 0
      <3>1. payloadList[c] = all
        BY <2>3, <2>4 DEF UpInOrder, all, id
      <3>2. payloadList'[c] = Append(all, data)
        BY <1>0, <1>2, <2>4, <3>1
      <3> QED
        BY <1>3, <2>2, <2>4, <3>2 DEF UpInOrder, id
    <2>5. CASE x = c /\ id # 0
      <3>1. /\ IsPrefix(dGot[id], all)
            /\ hasClient[id] => dGot[id] \o cached[id] \o up[id] = all
        BY <2>3, <2>5 DEF UpInOrder, all, id
      <3>2. IsPrefix(dGot[id], Append(all, data))
        BY <1>0, <1>1, <3>1, PrefixExtends
      <3>3. up'[id] = Append(up[id], data)
        BY <1>0, <1>2, <2>5
      <3>4. hasClient[id] => dGot[id] \o cached[id] \o up'[id] = Append(all, data)
        <4>1. dGot[id] \o cached[id] \in Seq(UpData) /\ up[id] \in Seq(UpData)
          BY <1>0
        <4> DEFINE before == dGot[id] \o cached[id]
        <4> HIDE DEF before
        <4>2. before \o Append(up[id], data) = Append(before \o up[id], data)
          BY <1>1, <4>1, ConcatFacts DEF before
        <4> QED
          BY <3>1, <3>3, <4>2 DEF before
      <3> QED
        BY <1>3, <2>2, <2>5, <3>2, <3>4 DEF UpInOrder, id
    <2> QED
      BY <2>1, <2>4, <2>5
  <1>9. DownInv' /\ \A x \in Conn : DownInOrder(x)'
    BY DEF TunnelInv, PayloadsInOrder, DownInv, NothingMissing, DownInOrder, Unused
  <1> QED
    BY <1>5, <1>6, <1>7, <1>8, <1>9 DEF TunnelInv, PayloadsInOrder

\* The id goes to the first session that waits, which has had none, and no
\* other session has it.
LEMMA GiveIdKeeps ==
    ASSUME TunnelInv, GiveId, UNCHANGED serverVars
    PROVE  TunnelInv'
  <1> DEFINE id == Head(ctlDown).id
             c == Head(uninitedSessList)
  <1>0. /\ TypeOK /\ ChannelsTypeOK /\ ProxyTypeOK /\ ServerTypeOK
        /\ ctlDown \in Seq(CtlDown) /\ uninitedSessList \in Seq(Conn)
        /\ up \in [Id -> Seq(UpData)] /\ payloadList \in [Conn -> Seq(UpData)]
    BY DEF TunnelInv, TypeOK, ChannelsTypeOK, ProxyTypeOK, ServerTypeOK, UpData, CtlDown
  <1>1. /\ ctlDown # <<>> /\ uninitedSessList # <<>>
        /\ ctlDown' = Tail(ctlDown) /\ uninitedSessList' = Tail(uninitedSessList)
        /\ sessId' = [sessId EXCEPT ![c] = id]
        /\ up' = [up EXCEPT ![id] = @ \o payloadList[c]]
        /\ payloadList' = [payloadList EXCEPT ![c] = <<>>]
        /\ proxyMap' = [proxyMap EXCEPT ![id] = c]
    BY DEF GiveId, InitSession
  <1>a. /\ UNCHANGED <<conn, strays, aSent, aGot, ctlUp, down, spoken>>
        /\ UNCHANGED <<running, nextId, serverMap, hasClient, tcp, checkTimer>>
        /\ UNCHANGED <<cached, quietUp, hours, dSent, dGot>>
    BY DEF GiveId, serverVars
  <1> USE <1>a
  <1>2. /\ c \in Conn /\ c \in Range(uninitedSessList) /\ conn[c] = "open" /\ sessId[c] = 0
        /\ IsInjective(uninitedSessList')
        /\ Range(uninitedSessList) = Range(uninitedSessList') \cup {c}
        /\ c \notin Range(uninitedSessList')
        /\ uninitedSessList' \in Seq(Conn)
    <2>1. c \in Conn /\ Tail(uninitedSessList) \in Seq(Conn)
      BY <1>0, <1>1
    <2>2. Range(uninitedSessList) = Range(uninitedSessList') \cup {c}
      BY <1>0, <1>1, RangeFacts
    <2>3. IsInjective(uninitedSessList') /\ c \notin Range(uninitedSessList')
      BY <1>0, <1>1, RangeFacts DEF TunnelInv, SessionInv
    <2> QED
      BY <1>1, <2>1, <2>2, <2>3 DEF TunnelInv, SessionInv
  <1>3. /\ id \in Id \ {0} /\ Unused(id) /\ Answered(id)
        /\ Head(ctlDown) = CreateResponse(id)
        /\ \A i \in DOMAIN ctlDown' : ctlDown'[i].id # id
        /\ \A i \in DOMAIN ctlDown' : i + 1 \in DOMAIN ctlDown /\ ctlDown'[i] = ctlDown[i + 1]
        /\ ctlDown' \in Seq(CtlDown)
    <2>1. Len(ctlDown) \in Nat \ {0} /\ Len(ctlDown') = Len(ctlDown) - 1
          /\ ctlDown' \in Seq(CtlDown) /\ Head(ctlDown) = ctlDown[1]
          /\ Head(ctlDown) \in CtlDown
      BY <1>0, <1>1
    <2>2. \A i \in DOMAIN ctlDown' : i + 1 \in DOMAIN ctlDown /\ ctlDown'[i] = ctlDown[i + 1]
      BY <1>0, <1>1, <2>1
    <2>3. 1 \in DOMAIN ctlDown /\ DOMAIN ctlDown' \subseteq Nat \ {0}
      BY <1>0, <2>1
    <2>4. id \in Id /\ Head(ctlDown) = CreateResponse(id)
      BY <2>1, MessageFacts
    <2>5. Answered(id) /\ Unused(id) /\ id # 0
      BY <2>1, <2>3 DEF TunnelInv, IdsDistinct, Answered
    <2>6. \A i \in DOMAIN ctlDown' : ctlDown'[i].id # id
      BY <2>1, <2>2, <2>3 DEF TunnelInv, IdsDistinct
    <2> QED
      BY <2>1, <2>2, <2>4, <2>5, <2>6
  <1> HIDE DEF id, c
  <1>4. /\ sessId'[c] = id /\ \A x \in Conn : x # c => sessId'[x] = sessId[x]
        /\ proxyMap'[id] = c /\ \A y \in Id : y # id => proxyMap'[y] = proxyMap[y]
        /\ payloadList'[c] = <<>>
        /\ \A x \in Conn : x # c => payloadList'[x] = payloadList[x]
        /\ \A y \in Id : y # id => up'[y] = up[y]
    BY <1>0, <1>1, <1>2, <1>3 DEF ProxyTypeOK
  <1>5. up[id] = <<>> /\ cached[id] = <<>> /\ dGot[id] = <<>>
    BY <1>3 DEF TunnelInv, ServerInv
  <1>6. up'[id] = payloadList[c]
    BY <1>0, <1>1, <1>2, <1>3, <1>5
  <1>7. TypeOK'
    <2>1. sessId' \in [Conn -> Id] /\ proxyMap' \in [Id -> Conn \cup {NoConn}]
      BY <1>0, <1>1, <1>2, <1>3 DEF ProxyTypeOK
    <2>2. up' \in [Id -> Seq(UpData)]
      <3>1. up' = [up EXCEPT ![id] = payloadList[c]]
        BY <1>0, <1>1, <1>2, <1>3, <1>5
      <3> QED
        BY <1>0, <1>2, <3>1
    <2>3. payloadList' \in [Conn -> Seq(UpData)]
      <3>1. <<>> \in Seq(UpData)
        OBVIOUS
      <3> QED
        BY <1>0, <1>1, <3>1
    <2>4. ChannelsTypeOK'
      BY <1>0, <1>3, <2>2 DEF ChannelsTypeOK, UpData, CtlDown
    <2>5. ProxyTypeOK'
      BY <1>0, <1>2, <2>1, <2>3 DEF ProxyTypeOK, UpData
    <2>6. ServerTypeOK'
      BY <1>0 DEF ServerTypeOK
    <2> QED
      BY <2>4, <2>5, <2>6 DEF TypeOK
  <1>8. FreshIds'
    <2>1. Remaining' = Remaining
      BY DEF Remaining
    <2>2. \A x \in Id : Distance(x)' = Distance(x)
      BY DEF Distance, NewId
    <2>3. ASSUME NEW x \in Id \ {0}, Distance(x) < Remaining
          PROVE  Unused(x)' /\ ~Answered(x)'
      <3>1. Unused(x) /\ ~Answered(x)
        BY <2>3 DEF TunnelInv, FreshIds
      <3>2. x # id
        BY <1>3, <3>1
      <3> QED
        BY <1>2, <1>3, <1>4, <3>1, <3>2 DEF Unused, Answered
    <2> QED
      BY <2>1, <2>2, <2>3 DEF TunnelInv, FreshIds
  <1>9. IdsDistinct'
    <2>1. ~Answered(0)'
      BY <1>3 DEF TunnelInv, IdsDistinct, Answered
    <2>2. \A i, j \in DOMAIN ctlDown' : ctlDown'[i].id = ctlDown'[j].id => i = j
      <3>1. DOMAIN ctlDown' \subseteq Nat
        BY <1>3
      <3>2. ASSUME NEW i \in DOMAIN ctlDown', NEW j \in DOMAIN ctlDown',
                   ctlDown'[i].id = ctlDown'[j].id
            PROVE  i = j
        <4>1. i + 1 = j + 1
          BY <1>3, <3>2 DEF TunnelInv, IdsDistinct
        <4> QED
          BY <3>1, <4>1
      <3> QED
        BY <3>2
    <2>3. ASSUME NEW i \in DOMAIN ctlDown' 
          PROVE  \A x \in Conn : sessId'[x] # ctlDown'[i].id
      <3>1. Unused(ctlDown'[i].id)
        BY <1>3 DEF TunnelInv, IdsDistinct
      <3> QED
        BY <1>3, <1>4, <3>1 DEF Unused
    <2>4. \A x, y \in Conn : sessId'[x] = sessId'[y] /\ sessId'[x] # 0 => x = y
      BY <1>3, <1>4 DEF TunnelInv, IdsDistinct, Unused
    <2> QED
      BY <2>1, <2>2, <2>3, <2>4 DEF IdsDistinct, Unused
  <1>10. SessionInv'
    <2>1. proxyMap[id] = NoConn
      <3>1. proxyMap[id] # NoConn => proxyMap[id] \in Conn
        BY <1>0, <1>3 DEF ProxyTypeOK
      <3> QED
        BY <1>3, <3>1 DEF TunnelInv, SessionInv, Unused
    <2>2. \A x \in Range(uninitedSessList') : conn'[x] = "open" /\ sessId'[x] = 0
      <3>1. \A x \in Range(uninitedSessList') : x \in Conn /\ x # c
        BY <1>2, RangeOfSeq
      <3> QED
        BY <1>2, <1>4, <3>1 DEF TunnelInv, SessionInv
    <2>3. ASSUME NEW x \in Conn, conn'[x] = "open"
          PROVE  Waiting(x)' \/ HasSession(x)'
      <3>1. CASE x = c
        BY <1>3, <1>4, <3>1 DEF HasSession
      <3>2. CASE x # c /\ Waiting(x)
        BY <1>2, <3>2 DEF Waiting
      <3>3. CASE x # c /\ HasSession(x)
        <4>1. sessId[x] \in Id /\ sessId[x] # id
          BY <1>0, <1>3 DEF ProxyTypeOK, Unused
        <4> QED
          BY <1>4, <3>3, <4>1 DEF HasSession
      <3> QED
        BY <2>3, <3>1, <3>2, <3>3 DEF TunnelInv, SessionInv
    <2>4. \A x \in Conn : conn'[x] = "none" => sessId'[x] = 0
      BY <1>2, <1>4 DEF TunnelInv, SessionInv
    <2>5. ASSUME NEW y \in Id, proxyMap'[y] # NoConn
          PROVE  /\ y # 0 /\ conn'[proxyMap'[y]] = "open"
                 /\ sessId'[proxyMap'[y]] = y
      <3>1. CASE y = id
        BY <1>2, <1>3, <1>4, <3>1
      <3>2. CASE y # id
        <4>1. y # 0 /\ conn[proxyMap[y]] = "open" /\ sessId[proxyMap[y]] = y
              /\ proxyMap'[y] = proxyMap[y]
          BY <1>4, <2>5, <3>2 DEF TunnelInv, SessionInv
        <4>2. proxyMap[y] \in Conn /\ proxyMap[y] # c
          BY <1>0, <1>2, <2>5, <4>1 DEF ProxyTypeOK
        <4> QED
          BY <1>4, <4>1, <4>2
      <3> QED
        BY <3>1, <3>2
    <2> QED
      BY <1>2, <2>2, <2>3, <2>4, <2>5 DEF SessionInv
  <1>11. NoSessionStarves'
    <2>1. Requests(ctlUp) \in Nat
      BY <1>0, RequestFacts DEF ChannelsTypeOK, CtlUp
    <2>2. /\ Len(uninitedSessList') = Len(uninitedSessList) - 1
          /\ Len(ctlDown') = Len(ctlDown) - 1
          /\ Len(uninitedSessList) \in Nat /\ Len(ctlDown) \in Nat
      BY <1>0, <1>1
    <2> QED
      BY <2>1, <2>2 DEF TunnelInv, NoSessionStarves
  <1>12. NoIdLeaked'
    <2>1. ASSUME NEW x \in serverMap, hasClient[x]
          PROVE  Requested(x)'
      <3>1. Requested(x) /\ x \in Id
        BY <1>0, <2>1 DEF TunnelInv, NoIdLeaked, ServerTypeOK
      <3>2. CASE x = id
        BY <1>2, <1>4, <3>2, ProxyAssumption DEF Requested
      <3>3. CASE x # id
        <4>1. Range(ctlDown) = Range(ctlDown') \cup {CreateResponse(id)}
          BY <1>0, <1>1, <1>3, RangeFacts
        <4>2. CreateResponse(x) # CreateResponse(id)
          BY <3>3 DEF CreateResponse
        <4> QED
          BY <1>4, <3>1, <3>3, <4>1, <4>2 DEF Requested
      <3> QED
        BY <3>2, <3>3
    <2> QED
      BY <2>1 DEF NoIdLeaked
  <1>13. ServerInv'
    <2>1. ASSUME NEW y \in Id \ {0}, Unused(y)'
          PROVE  Unused(y) /\ up'[y] = up[y]
      BY <1>2, <1>3, <1>4, <2>1 DEF Unused
    <2> QED
      BY <2>1 DEF TunnelInv, ServerInv
  <1>14. DownInv'
    <2>1. \A x \in Conn : sessId'[x] = 0 => aGot'[x] = <<>>
      BY <1>3, <1>4 DEF TunnelInv, DownInv
    <2>2. ASSUME NEW y \in Id \ {0} PROVE NothingMissing(y)'
      <3>1. NothingMissing(y)
        BY DEF TunnelInv, DownInv
      <3>2. CASE y # id
        BY <1>2, <1>4, <3>1, <3>2 DEF NothingMissing, Unused
      <3>3. CASE y = id
        <4>1. aGot[c] = <<>> /\ down[id] \in Seq(DownData)
          BY <1>0, <1>2, <1>3 DEF TunnelInv, DownInv, ChannelsTypeOK, DownData
        <4>2. aGot[c] \o down[id] = down[id]
          BY <4>1, ConcatEmptySeq
        <4>3. \A x \in Conn : sessId'[x] = id => x = c
          BY <1>3, <1>4 DEF Unused
        <4> QED
          BY <1>2, <1>3, <1>4, <3>1, <3>3, <4>2, <4>3 DEF NothingMissing, Unused
      <3> QED
        BY <3>2, <3>3
    <2> QED
      BY <2>1, <2>2 DEF DownInv
  <1>15. ASSUME NEW x \in Conn PROVE UpInOrder(x)' /\ DownInOrder(x)'
    <2>1. UpInOrder(x) /\ DownInOrder(x)
      BY DEF TunnelInv, PayloadsInOrder
    <2>2. CASE x # c
      <3>1. sessId[x] # id /\ sessId[x] \in Id
        BY <1>0, <1>3 DEF Unused, ProxyTypeOK
      <3> QED
        BY <1>4, <2>1, <2>2, <3>1 DEF UpInOrder, DownInOrder
    <2>3. CASE x = c
      <3> DEFINE all == AllFrom(c, aSent[c])
      <3>1. payloadList[c] = all
        BY <1>2, <2>1, <2>3 DEF UpInOrder
      <3>2. all \in Seq(UpData)
        BY <1>0, <1>2, <3>1
      <3>3. IsPrefix(<<>>, all) /\ <<>> \o <<>> \o all = all
        <4>1. <<>> \in Seq(UpData)
          OBVIOUS
        <4>2. <<>> \o <<>> = <<>> /\ <<>> \o all = all
          BY <3>2, <4>1, ConcatEmptySeq
        <4>3. IsPrefix(<<>>, <<>> \o all)
          BY <3>2, <4>1, PrefixExtends
        <4> QED
          BY <4>2, <4>3
      <3>4. UpInOrder(x)'
        <4>1. UpInOrder(x)' <=>
                /\ IsPrefix(dGot[id], all)
                /\ hasClient[id] => dGot[id] \o cached[id] \o up'[id] = all
          BY <1>3, <1>4, <2>3 DEF UpInOrder
        <4> QED
          BY <1>5, <1>6, <3>1, <3>3, <4>1
      <3>5. DownInOrder(x)'
        <4>1. aGot[c] = <<>> /\ down[id] \in Seq(DownData)
          BY <1>0, <1>2, <1>3 DEF TunnelInv, DownInv, ChannelsTypeOK, DownData
        <4>2. aGot[c] \o down[id] = down[id]
          BY <4>1, ConcatEmptySeq
        <4>3. IsPrefix(down[id], AllFrom(id, dSent[id]))
          BY <1>3 DEF TunnelInv, DownInv, NothingMissing
        <4> QED
          BY <1>2, <1>4, <2>3, <4>2, <4>3 DEF DownInOrder
      <3> QED
        BY <3>4, <3>5
    <2> QED
      BY <2>2, <2>3
  <1> QED
    BY <1>7, <1>8, <1>9, <1>10, <1>11, <1>12, <1>13, <1>14, <1>15
    DEF TunnelInv, PayloadsInOrder

\* An id that nobody waits for is given back at once.
LEMMA RefuseIdKeeps ==
    ASSUME TunnelInv, RefuseId, UNCHANGED serverVars
    PROVE  TunnelInv'
  <1> DEFINE id == Head(ctlDown).id
  <1>0. /\ TypeOK /\ ChannelsTypeOK /\ ProxyTypeOK /\ ServerTypeOK
        /\ ctlDown \in Seq(CtlDown) /\ ctlUp \in Seq(CtlUp)
    BY DEF TunnelInv, TypeOK, ChannelsTypeOK, CtlUp, CtlDown
  <1>1. /\ ctlDown # <<>> /\ uninitedSessList = <<>>
        /\ ctlDown' = Tail(ctlDown) /\ ctlUp' = Append(ctlUp, DestroySession(id))
    BY DEF RefuseId
  <1>a. /\ UNCHANGED <<conn, sessId, uninitedSessList, proxyMap, payloadList>>
        /\ UNCHANGED <<strays, aSent, aGot, up, down, spoken>>
        /\ UNCHANGED <<running, nextId, serverMap, hasClient, tcp, checkTimer>>
        /\ UNCHANGED <<cached, quietUp, hours, dSent, dGot>>
    BY DEF RefuseId, proxyVars, serverVars
  <1> USE <1>a
  <1>2. /\ id \in Id /\ Head(ctlDown) = CreateResponse(id)
        /\ \A i \in DOMAIN ctlDown' : i + 1 \in DOMAIN ctlDown /\ ctlDown'[i] = ctlDown[i + 1]
        /\ ctlDown' \in Seq(CtlDown) /\ DOMAIN ctlDown' \subseteq Nat
    <2>1. Head(ctlDown) \in CtlDown /\ ctlDown' \in Seq(CtlDown)
      BY <1>0, <1>1
    <2> QED
      BY <1>0, <1>1, <2>1, MessageFacts
  <1>3. /\ ctlUp' \in Seq(CtlUp)
        /\ Requests(ctlUp') = Requests(ctlUp)
        /\ Range(ctlUp') = Range(ctlUp) \cup {DestroySession(id)}
    BY <1>0, <1>1, <1>2, MessageFacts, RequestFacts, RangeFacts
  <1> HIDE DEF id
  <1>4. TypeOK'
    <2>1. ChannelsTypeOK'
      BY <1>0, <1>2, <1>3 DEF ChannelsTypeOK, CtlUp, CtlDown
    <2>2. ProxyTypeOK' /\ ServerTypeOK'
      BY <1>0 DEF ProxyTypeOK, ServerTypeOK
    <2> QED
      BY <2>1, <2>2 DEF TypeOK
  <1>5. \A x : Answered(x)' => Answered(x)
    BY <1>2 DEF Answered
  <1>6. FreshIds'
    BY <1>3, <1>5 DEF TunnelInv, FreshIds, Remaining, Unused, Distance, NewId
  <1>7. IdsDistinct'
    <2>1. \A i, j \in DOMAIN ctlDown' : ctlDown'[i].id = ctlDown'[j].id => i = j
      <3>1. ASSUME NEW i \in DOMAIN ctlDown', NEW j \in DOMAIN ctlDown',
                   ctlDown'[i].id = ctlDown'[j].id
            PROVE  i = j
        <4>1. i + 1 = j + 1
          BY <1>2, <3>1 DEF TunnelInv, IdsDistinct
        <4> QED
          BY <1>2, <4>1
      <3> QED
        BY <3>1
    <2> QED
      BY <1>2, <1>5, <2>1 DEF TunnelInv, IdsDistinct, Unused
  <1>8. SessionInv'
    BY DEF TunnelInv, SessionInv, Waiting, HasSession
  <1>9. NoSessionStarves'
    <2>1. Requests(ctlUp') \in Nat /\ Len(ctlDown') \in Nat
      BY <1>2, <1>3, RequestFacts
    <2> QED
      BY <1>1, <2>1 DEF NoSessionStarves
  <1>10. NoIdLeaked'
    <2>1. Range(ctlDown) = Range(ctlDown') \cup {CreateResponse(id)}
      BY <1>0, <1>1, <1>2, RangeFacts
    <2>2. \A x \in Id : x # id => CreateResponse(x) # CreateResponse(id)
      BY DEF CreateResponse
    <2>3. serverMap \subseteq Id
      BY <1>0 DEF ServerTypeOK
    <2> QED
      BY <1>3, <2>1, <2>2, <2>3 DEF TunnelInv, NoIdLeaked, Requested
  <1>11. ServerInv' /\ DownInv' /\ PayloadsInOrder'
    BY DataFrame
  <1> QED
    BY <1>4, <1>6, <1>7, <1>8, <1>9, <1>10, <1>11 DEF TunnelInv

\* A payload of D moves from the conversation to the client it is for.
LEMMA ProxyOnTunnelMessageKeeps ==
    ASSUME TunnelInv, NEW id \in Id, ProxyOnTunnelMessage(id), UNCHANGED serverVars
    PROVE  TunnelInv'
  <1> DEFINE c == proxyMap[id]
  <1>0. /\ TypeOK /\ ChannelsTypeOK /\ ProxyTypeOK /\ ServerTypeOK
        /\ down \in [Id -> Seq(DownData)] /\ aGot \in [Conn -> Seq(DownData)]
    BY DEF TunnelInv, TypeOK, ChannelsTypeOK, ProxyTypeOK, DownData
  <1>1. /\ c # NoConn /\ down[id] # <<>>
        /\ down' = [down EXCEPT ![id] = Tail(@)]
        /\ aGot' = [aGot EXCEPT ![c] = Append(@, Head(down[id]))]
    BY DEF ProxyOnTunnelMessage
  <1>a. /\ UNCHANGED <<conn, sessId, uninitedSessList, proxyMap, payloadList>>
        /\ UNCHANGED <<strays, aSent, ctlUp, ctlDown, up, spoken>>
        /\ UNCHANGED <<running, nextId, serverMap, hasClient, tcp, checkTimer>>
        /\ UNCHANGED <<cached, quietUp, hours, dSent, dGot>>
    BY DEF ProxyOnTunnelMessage, serverVars
  <1> USE <1>a
  <1>2. c \in Conn /\ id # 0 /\ sessId[c] = id
    <2>1. c \in Conn
      BY <1>0, <1>1 DEF ProxyTypeOK
    <2> QED
      BY <1>1, <2>1 DEF TunnelInv, SessionInv
  <1> HIDE DEF c
  <1>3. /\ down'[id] = Tail(down[id]) /\ \A y \in Id : y # id => down'[y] = down[y]
        /\ aGot'[c] = Append(aGot[c], Head(down[id]))
        /\ \A x \in Conn : x # c => aGot'[x] = aGot[x]
    BY <1>0, <1>1, <1>2
  <1>4. aGot'[c] \o down'[id] = aGot[c] \o down[id]
    BY <1>0, <1>1, <1>2, <1>3, ConcatFacts
  <1>5. TypeOK'
    <2>1. down[id] \in Seq(DownData) /\ aGot[c] \in Seq(DownData)
      BY <1>0, <1>2
    <2>2. Tail(down[id]) \in Seq(DownData) /\ Append(aGot[c], Head(down[id])) \in Seq(DownData)
      BY <1>1, <2>1
    <2>3. down' \in [Id -> Seq(DownData)] /\ aGot' \in [Conn -> Seq(DownData)]
      BY <1>0, <1>1, <1>2, <2>2
    <2>4. ChannelsTypeOK' /\ ProxyTypeOK'
      BY <1>0, <2>3 DEF ChannelsTypeOK, ProxyTypeOK, DownData
    <2>5. ServerTypeOK'
      BY <1>0 DEF ServerTypeOK
    <2> QED
      BY <2>4, <2>5 DEF TypeOK
  <1>6. \A y \in Id : Unused(y) => y # id
    BY <1>2 DEF Unused
  <1>7. FreshIds'
    BY <1>3, <1>6 DEF TunnelInv, FreshIds, Remaining, Unused, Answered, Distance, NewId
  <1>8. IdsDistinct' /\ SessionInv'
    BY DEF TunnelInv, IdsDistinct, SessionInv, Answered, Unused, Waiting, HasSession
  <1>9. NoSessionStarves' /\ NoIdLeaked'
    BY DEF TunnelInv, NoSessionStarves, NoIdLeaked, Requested
  <1>10. ServerInv'
    BY DEF TunnelInv, ServerInv, Unused
  <1>11. \A x \in Conn : x # c => sessId[x] # id
    BY <1>2 DEF TunnelInv, IdsDistinct
  <1>12. DownInv'
    <2>1. \A x \in Conn : sessId'[x] = 0 => aGot'[x] = <<>>
      BY <1>2, <1>3 DEF TunnelInv, DownInv
    <2>2. ASSUME NEW y \in Id \ {0} PROVE NothingMissing(y)'
      <3>1. NothingMissing(y)
        BY DEF TunnelInv, DownInv
      <3>2. CASE y # id
        BY <1>2, <1>3, <3>1, <3>2 DEF NothingMissing, Unused
      <3>3. CASE y = id
        BY <1>2, <1>4, <1>6, <1>11, <3>1, <3>3 DEF NothingMissing, Unused
      <3> QED
        BY <3>2, <3>3
    <2> QED
      BY <2>1, <2>2 DEF DownInv
  <1>13. PayloadsInOrder'
    <2>1. ASSUME NEW x \in Conn PROVE UpInOrder(x)' /\ DownInOrder(x)'
      <3>1. UpInOrder(x) /\ DownInOrder(x)
        BY DEF TunnelInv, PayloadsInOrder
      <3>2. UpInOrder(x)'
        BY <3>1 DEF UpInOrder
      <3>3. CASE x = c
        BY <1>2, <1>4, <3>1, <3>2, <3>3 DEF DownInOrder
      <3>4. CASE x # c
        <4>1. sessId[x] \in Id /\ sessId[x] # id
          BY <1>0, <1>11, <3>4 DEF ProxyTypeOK
        <4> QED
          BY <1>3, <3>1, <3>2, <3>4, <4>1 DEF DownInOrder
      <3> QED
        BY <3>3, <3>4
    <2> QED
      BY <2>1 DEF PayloadsInOrder
  <1> QED
    BY <1>5, <1>7, <1>8, <1>9, <1>10, <1>12, <1>13 DEF TunnelInv

LEMMA ProxyOnStrayDatagramKeeps ==
    ASSUME TunnelInv, NEW id \in Id, ProxyOnStrayDatagram(id), UNCHANGED serverVars
    PROVE  TunnelInv'
  <1>0. /\ TypeOK /\ ChannelsTypeOK /\ ProxyTypeOK /\ ServerTypeOK
        /\ ctlUp \in Seq(CtlUp)
    BY DEF TunnelInv, TypeOK, ChannelsTypeOK, CtlUp
  <1>1. ctlUp' = Append(ctlUp, DestroySession(id)) /\ strays' = strays + 1
    BY DEF ProxyOnStrayDatagram
  <1>a. /\ UNCHANGED <<conn, sessId, uninitedSessList, proxyMap, payloadList>>
        /\ UNCHANGED <<aSent, aGot, ctlDown, up, down, spoken>>
        /\ UNCHANGED <<running, nextId, serverMap, hasClient, tcp, checkTimer>>
        /\ UNCHANGED <<cached, quietUp, hours, dSent, dGot>>
    BY DEF ProxyOnStrayDatagram, serverVars
  <1> USE <1>a
  <1>2. /\ ctlUp' \in Seq(CtlUp)
        /\ Requests(ctlUp') = Requests(ctlUp)
        /\ Range(ctlUp) \subseteq Range(ctlUp')
    BY <1>0, <1>1, MessageFacts, RequestFacts, RangeFacts
  <1>3. TypeOK'
    <2>1. ChannelsTypeOK'
      BY <1>0, <1>2 DEF ChannelsTypeOK, CtlUp
    <2>2. strays' \in Nat
      BY <1>0, <1>1 DEF ProxyTypeOK
    <2>3. ProxyTypeOK' /\ ServerTypeOK'
      BY <1>0, <2>2 DEF ProxyTypeOK, ServerTypeOK
    <2> QED
      BY <2>1, <2>3 DEF TypeOK
  <1>4. FreshIds'
    BY <1>2 DEF TunnelInv, FreshIds, Remaining, Unused, Answered, Distance, NewId
  <1>5. IdsDistinct' /\ SessionInv'
    BY DEF TunnelInv, IdsDistinct, SessionInv, Answered, Unused, Waiting, HasSession
  <1>6. NoSessionStarves' /\ NoIdLeaked'
    BY <1>2 DEF TunnelInv, NoSessionStarves, NoIdLeaked, Requested
  <1>7. ServerInv' /\ DownInv' /\ PayloadsInOrder'
    BY DataFrame
  <1> QED
    BY <1>3, <1>4, <1>5, <1>6, <1>7 DEF TunnelInv

-----------------------------------------------------------------------------
(* The actions of the server keep it.                                      *)

\* What is untouched by an action that leaves ids and control messages alone.
LEMMA ControlFrame ==
    ASSUME TunnelInv, UNCHANGED proxyVars, UNCHANGED <<ctlUp, ctlDown, nextId>>,
           \A id \in Id \ {0} : tcp[id] = "none" /\ dSent[id] = 0 /\ down[id] = <<>>
                => tcp'[id] = "none" /\ dSent'[id] = 0 /\ down'[id] = <<>>,
           serverMap' \subseteq serverMap,
           \A id \in serverMap' : hasClient'[id] => hasClient[id]
    PROVE  /\ FreshIds' /\ IdsDistinct' /\ SessionInv'
           /\ NoSessionStarves' /\ NoIdLeaked'
  <1> USE DEF proxyVars
  <1>1. Remaining' = Remaining /\ \A id : Distance(id)' = Distance(id)
    BY DEF Remaining, Distance, NewId
  <1>2. FreshIds'
    BY <1>1 DEF TunnelInv, FreshIds, Unused, Answered
  <1>3. IdsDistinct' /\ SessionInv'
    BY DEF TunnelInv, IdsDistinct, SessionInv, Answered, Unused, Waiting, HasSession
  <1>4. NoSessionStarves' /\ NoIdLeaked'
    BY DEF TunnelInv, NoSessionStarves, NoIdLeaked, Requested
  <1> QED
    BY <1>2, <1>3, <1>4

\* The next id is one that no connection has and no answer names.
LEMMA OnCreateKeeps ==
    ASSUME TunnelInv, OnCreate, UNCHANGED proxyVars
    PROVE  TunnelInv'
  <1> DEFINE id == NewId
  <1>0. /\ TypeOK /\ ChannelsTypeOK /\ ProxyTypeOK /\ ServerTypeOK
        /\ ctlDown \in Seq(CtlDown) /\ ctlUp \in Seq(CtlUp)
    BY DEF TunnelInv, TypeOK, ChannelsTypeOK, CtlUp, CtlDown
  <1>1. /\ ctlUp # <<>> /\ Head(ctlUp) = CreateSession /\ ctlUp' = Tail(ctlUp)
        /\ nextId' = NextOf(id) /\ serverMap' = serverMap \cup {id}
        /\ hasClient' = [hasClient EXCEPT ![id] = TRUE]
        /\ tcp' = [tcp EXCEPT ![id] = "connecting"]
        /\ checkTimer' = [checkTimer EXCEPT ![id] = TRUE]
        /\ quietUp' = quietUp \ {id}
        /\ ctlDown' = Append(ctlDown, CreateResponse(id))
    BY DEF OnCreate, ConnectSvr, Answer
  <1>a. /\ UNCHANGED <<conn, sessId, uninitedSessList, proxyMap, payloadList>>
        /\ UNCHANGED <<strays, aSent, aGot, up, down, spoken>>
        /\ UNCHANGED <<running, cached, hours, dSent, dGot>>
    BY DEF OnCreate, proxyVars
  <1> USE <1>a
  <1>2. /\ Requests(ctlUp') = Requests(ctlUp) - 1 /\ Requests(ctlUp) > 0
        /\ Requests(ctlUp) \in Nat
    BY <1>0, <1>1, RequestFacts
  <1>3. Remaining \in Nat /\ Remaining > 0 /\ Remaining < IdSpace /\ Remaining' = Remaining - 1
    <2>1. Cardinality({x \in Conn : conn[x] = "none"}) \in Nat
      BY <1>0, NoneFacts
    <2>2. Remaining < IdSpace
      BY DEF TunnelInv, FreshIds
    <2> QED
      BY <1>2, <2>1, <2>2 DEF Remaining
  <1>4. /\ id \in Id \ {0} /\ Distance(id) = 0 /\ NextOf(id) \in Id
        /\ \A y \in Id \ {0} :
            /\ y = id => Distance(y)' = IdSpace - 2
            /\ y # id => Distance(y)' = Distance(y) - 1
    BY <1>0, <1>1, <1>3, CounterFacts
  <1> HIDE DEF id
  <1>5. /\ Unused(id) /\ ~Answered(id) /\ tcp[id] = "none" /\ dSent[id] = 0
        /\ down[id] = <<>>
    BY <1>3, <1>4 DEF TunnelInv, FreshIds
  <1>6. /\ ctlDown' \in Seq(CtlDown) /\ Range(ctlDown') = Range(ctlDown) \cup {CreateResponse(id)}
        /\ DOMAIN ctlDown = 1..Len(ctlDown) /\ DOMAIN ctlDown' = 1..(Len(ctlDown) + 1)
        /\ Len(ctlDown) \in Nat /\ Len(ctlDown') = Len(ctlDown) + 1
        /\ \A i \in 1..Len(ctlDown) : ctlDown'[i] = ctlDown[i]
        /\ ctlDown'[Len(ctlDown) + 1] = CreateResponse(id) /\ CreateResponse(id).id = id
    <2>1. CreateResponse(id) \in CtlDown /\ CreateResponse(id).id = id
      BY <1>4 DEF CtlDown, CreateResponse
    <2> QED
      BY <1>0, <1>1, <2>1, RangeFacts
  <1>7. \A y : Answered(y)' => Answered(y) \/ y = id
    BY <1>6 DEF Answered
  <1>8. /\ \A y \in Id : y # id => tcp'[y] = tcp[y] /\ hasClient'[y] = hasClient[y]
        /\ tcp'[id] = "connecting" /\ hasClient'[id] = TRUE
    BY <1>0, <1>1, <1>4 DEF ServerTypeOK
  <1>9. TypeOK'
    <2>1. ctlUp' \in Seq(CtlUp)
      BY <1>0, <1>1
    <2>2. ChannelsTypeOK'
      BY <1>0, <1>6, <2>1 DEF ChannelsTypeOK, CtlUp, CtlDown
    <2>3. ProxyTypeOK'
      BY <1>0 DEF ProxyTypeOK
    <2>4. /\ hasClient' \in [Id -> BOOLEAN] /\ checkTimer' \in [Id -> BOOLEAN]
          /\ tcp' \in [Id -> {"none", "connecting", "connected"}]
      BY <1>0, <1>1 DEF ServerTypeOK
    <2>5. serverMap' \subseteq Id /\ quietUp' \subseteq Id
      BY <1>0, <1>1, <1>4 DEF ServerTypeOK
    <2>6. ServerTypeOK'
      BY <1>0, <1>1, <1>4, <2>4, <2>5 DEF ServerTypeOK
    <2> QED
      BY <2>2, <2>3, <2>6 DEF TypeOK
  <1>10. FreshIds'
    <2>1. ASSUME NEW y \in Id \ {0}, Distance(y)' < Remaining'
          PROVE  /\ Unused(y)' /\ ~Answered(y)' /\ tcp'[y] = "none"
                 /\ dSent'[y] = 0 /\ down'[y] = <<>>
      <3>1. y # id
        <4>1. IdSpace \in Nat
          BY ChannelsAssumption
        <4> QED
          BY <1>3, <1>4, <2>1, <4>1
      <3>2. Distance(y) < Remaining
        <4>1. Distance(y) \in Int
          <5>1. NewId \in Int /\ IdSpace \in Int /\ y \in Int
            BY <1>4, ChannelsAssumption DEF id, Id
          <5> QED
            BY <5>1 DEF Distance
        <4> QED
          BY <1>3, <1>4, <2>1, <3>1, <4>1
      <3>3. Unused(y) /\ ~Answered(y) /\ tcp[y] = "none" /\ dSent[y] = 0 /\ down[y] = <<>>
        BY <3>2 DEF TunnelInv, FreshIds
      <3> QED
        BY <1>7, <1>8, <3>1, <3>3 DEF Unused
    <2>2. Remaining' < IdSpace
      BY <1>3, ChannelsAssumption
    <2> QED
      BY <2>1, <2>2 DEF FreshIds
  <1>11. IdsDistinct'
    <2>1. ~Answered(0)'
      BY <1>4, <1>7 DEF TunnelInv, IdsDistinct
    <2>2. \A i \in 1..Len(ctlDown) : ctlDown[i].id # id
      BY <1>5, <1>6 DEF Answered
    <2>3. \A i \in 1..(Len(ctlDown) + 1) : i \in 1..Len(ctlDown) \/ i = Len(ctlDown) + 1
      BY <1>6
    <2>4. \A i, j \in DOMAIN ctlDown' : ctlDown'[i].id = ctlDown'[j].id => i = j
      BY <1>6, <2>2, <2>3 DEF TunnelInv, IdsDistinct
    <2>5. \A i \in DOMAIN ctlDown' : \A x \in Conn : sessId[x] # ctlDown'[i].id
      BY <1>5, <1>6, <2>3 DEF TunnelInv, IdsDistinct, Unused
    <2> QED
      BY <2>1, <2>4, <2>5 DEF TunnelInv, IdsDistinct, Unused
  <1>12. SessionInv'
    BY DEF TunnelInv, SessionInv, Waiting, HasSession
  <1>13. NoSessionStarves'
    <2>1. Len(uninitedSessList) \in Nat
      BY <1>0 DEF ProxyTypeOK
    <2> QED
      BY <1>2, <1>6, <2>1 DEF TunnelInv, NoSessionStarves
  <1>14. NoIdLeaked'
    <2>1. Range(ctlUp) = Range(ctlUp') \cup {CreateSession}
      BY <1>0, <1>1, RangeFacts
    <2>2. ASSUME NEW y \in serverMap', hasClient'[y]
          PROVE  Requested(y)'
      <3>1. y \in Id
        BY <1>9 DEF TypeOK, ServerTypeOK
      <3>2. CASE y = id
        BY <1>6, <3>2 DEF Requested
      <3>3. CASE y # id
        <4>1. Requested(y)
          BY <1>1, <1>8, <2>2, <3>1, <3>3 DEF TunnelInv, NoIdLeaked
        <4> QED
          BY <1>6, <2>1, <3>1, <4>1, MessageFacts DEF Requested
      <3> QED
        BY <3>2, <3>3
    <2> QED
      BY <2>2 DEF NoIdLeaked
  <1>15. ServerInv'
    BY <1>5, <1>8 DEF TunnelInv, ServerInv, Unused
  <1>16. DownInv'
    <2>1. ASSUME NEW y \in Id \ {0} PROVE NothingMissing(y)'
      <3>1. NothingMissing(y)
        BY DEF TunnelInv, DownInv
      <3>2. CASE y # id
        BY <1>1, <3>1, <3>2 DEF NothingMissing, Unused
      <3>3. CASE y = id
        <4>1. AllFrom(id, dSent[id]) = <<>>
          BY <1>4, <1>5, AllFromFacts
        <4> QED
          BY <1>5, <3>1, <3>3, <4>1 DEF NothingMissing, Unused
      <3> QED
        BY <3>2, <3>3
    <2> QED
      BY <2>1 DEF TunnelInv, DownInv
  <1>17. PayloadsInOrder'
    <2>1. \A x \in Conn : sessId[x] \in Id /\ sessId[x] # id
      BY <1>0, <1>5 DEF ProxyTypeOK, Unused
    <2>2. \A x \in Conn : UpInOrder(x)'
      BY <1>8, <2>1 DEF TunnelInv, PayloadsInOrder, UpInOrder
    <2>3. \A x \in Conn : DownInOrder(x)'
      BY DEF TunnelInv, PayloadsInOrder, DownInOrder
    <2> QED
      BY <2>2, <2>3 DEF PayloadsInOrder
  <1> QED
    BY <1>9, <1>10, <1>11, <1>12, <1>13, <1>14, <1>15, <1>16, <1>17 DEF TunnelInv

\* A release takes the TcpClient of the session, if C still has the session.
LEMMA OnDestroyKeeps ==
    ASSUME TunnelInv, OnDestroy, UNCHANGED proxyVars
    PROVE  TunnelInv'
  <1> DEFINE id == Head(ctlUp).id
  <1>0. /\ TypeOK /\ ChannelsTypeOK /\ ProxyTypeOK /\ ServerTypeOK
        /\ ctlUp \in Seq(CtlUp)
    BY DEF TunnelInv, TypeOK, ChannelsTypeOK, CtlUp
  <1>1. /\ ctlUp # <<>> /\ Head(ctlUp) # CreateSession /\ ctlUp' = Tail(ctlUp)
        /\ IF id \in serverMap
           THEN /\ hasClient' = [hasClient EXCEPT ![id] = FALSE]
                /\ tcp' = [tcp EXCEPT ![id] = IF @ = "connecting" THEN "none" ELSE @]
           ELSE hasClient' = hasClient /\ tcp' = tcp
    BY DEF OnDestroy, ResetClient
  <1>a. /\ UNCHANGED <<conn, sessId, uninitedSessList, proxyMap, payloadList>>
        /\ UNCHANGED <<strays, aSent, aGot, ctlDown, up, down, spoken>>
        /\ UNCHANGED <<running, nextId, serverMap, checkTimer, cached>>
        /\ UNCHANGED <<quietUp, hours, dSent, dGot>>
    BY DEF OnDestroy, proxyVars
  <1> USE <1>a
  <1>2. /\ id \in Id /\ Head(ctlUp) = DestroySession(id)
        /\ ctlUp' \in Seq(CtlUp)
        /\ Range(ctlUp) = Range(ctlUp') \cup {DestroySession(id)}
        /\ Requests(ctlUp') = Requests(ctlUp)
    <2>1. Head(ctlUp) \in CtlUp /\ ctlUp' \in Seq(CtlUp)
      BY <1>0, <1>1
    <2> QED
      BY <1>0, <1>1, <2>1, MessageFacts, RangeFacts, RequestFacts
  <1> HIDE DEF id
  <1>3. /\ \A y \in Id : y # id => tcp'[y] = tcp[y] /\ hasClient'[y] = hasClient[y]
        /\ id \in serverMap => hasClient'[id] = FALSE
        /\ tcp'[id] # "connecting" \/ (tcp'[id] = tcp[id] /\ hasClient'[id] = hasClient[id])
        /\ tcp'[id] = "connected" => tcp[id] = "connected"
        /\ tcp[id] = "none" => tcp'[id] = "none"
        /\ hasClient'[id] => hasClient[id]
    BY <1>0, <1>1, <1>2 DEF ServerTypeOK
  <1>4. TypeOK'
    <2>1. ChannelsTypeOK'
      BY <1>0, <1>2 DEF ChannelsTypeOK, CtlUp
    <2>2. ProxyTypeOK'
      BY <1>0 DEF ProxyTypeOK
    <2>3. hasClient' \in [Id -> BOOLEAN] /\ tcp' \in [Id -> {"none", "connecting", "connected"}]
      BY <1>0, <1>1, <1>2 DEF ServerTypeOK
    <2>4. ServerTypeOK'
      BY <1>0, <2>3 DEF ServerTypeOK
    <2> QED
      BY <2>1, <2>2, <2>4 DEF TypeOK
  <1>5. FreshIds'
    BY <1>2, <1>3 DEF TunnelInv, FreshIds, Remaining, Unused, Answered, Distance, NewId
  <1>6. IdsDistinct' /\ SessionInv'
    BY DEF TunnelInv, IdsDistinct, SessionInv, Answered, Unused, Waiting, HasSession
  <1>7. NoSessionStarves'
    BY <1>2 DEF TunnelInv, NoSessionStarves
  <1>8. NoIdLeaked'
    <2>1. ASSUME NEW y \in serverMap, hasClient'[y]
          PROVE  Requested(y)'
      <3>1. y \in Id /\ y # id /\ Requested(y)
        BY <1>0, <1>3, <2>1 DEF TunnelInv, NoIdLeaked, ServerTypeOK
      <3>2. DestroySession(y) # DestroySession(id)
        BY <3>1 DEF DestroySession
      <3> QED
        BY <1>2, <3>1, <3>2 DEF Requested
    <2> QED
      BY <2>1 DEF NoIdLeaked
  <1>9. ServerInv'
    BY <1>3 DEF TunnelInv, ServerInv, Unused
  <1>10. DownInv'
    BY DEF TunnelInv, DownInv, NothingMissing, Unused
  <1>11. PayloadsInOrder'
    <2>1. \A y \in Id : hasClient'[y] => hasClient[y]
      BY <1>3
    <2>2. \A x \in Conn : sessId[x] \in Id
      BY <1>0 DEF ProxyTypeOK
    <2>3. \A x \in Conn : UpInOrder(x)'
      BY <2>1, <2>2 DEF TunnelInv, PayloadsInOrder, UpInOrder
    <2>4. \A x \in Conn : DownInOrder(x)'
      BY DEF TunnelInv, PayloadsInOrder, DownInOrder
    <2> QED
      BY <2>3, <2>4 DEF PayloadsInOrder
  <1> QED
    BY <1>4, <1>5, <1>6, <1>7, <1>8, <1>9, <1>10, <1>11 DEF TunnelInv

\* What was cached moves to D, before anything that is still on its way.
LEMMA ServerOnConnectedKeeps ==
    ASSUME TunnelInv, NEW id \in Id, ServerOnConnected(id), UNCHANGED proxyVars
    PROVE  TunnelInv'
  <1>0. /\ TypeOK /\ ChannelsTypeOK /\ ProxyTypeOK /\ ServerTypeOK
        /\ cached \in [Id -> Seq(UpData)] /\ dGot \in [Id -> Seq(UpData)]
        /\ up \in [Id -> Seq(UpData)]
    BY DEF TunnelInv, TypeOK, ChannelsTypeOK, ServerTypeOK, UpData
  <1>1. /\ tcp[id] = "connecting"
        /\ tcp' = [tcp EXCEPT ![id] = "connected"]
        /\ cached' = [cached EXCEPT ![id] = <<>>]
        /\ dGot' = [dGot EXCEPT ![id] = @ \o cached[id]]
    BY DEF ServerOnConnected, FlushCached
  <1>a. /\ UNCHANGED <<conn, sessId, uninitedSessList, proxyMap, payloadList>>
        /\ UNCHANGED <<strays, aSent, aGot, ctlUp, ctlDown, up, down, spoken>>
        /\ UNCHANGED <<running, nextId, serverMap, hasClient, checkTimer>>
        /\ UNCHANGED <<quietUp, hours, dSent>>
    BY DEF ServerOnConnected, proxyVars, chanVars
  <1> USE <1>a
  <1>2. /\ \A y \in Id : y # id =>
            tcp'[y] = tcp[y] /\ cached'[y] = cached[y] /\ dGot'[y] = dGot[y]
        /\ tcp'[id] = "connected" /\ cached'[id] = <<>>
        /\ dGot'[id] = dGot[id] \o cached[id]
    BY <1>0, <1>1 DEF ServerTypeOK
  <1>3. /\ dGot[id] \in Seq(UpData) /\ cached[id] \in Seq(UpData) /\ up[id] \in Seq(UpData)
        /\ dGot[id] \o cached[id] \in Seq(UpData)
        /\ <<>> \in Seq(UpData)
    BY <1>0
  <1>4. TypeOK'
    <2>1. ChannelsTypeOK' /\ ProxyTypeOK'
      BY <1>0 DEF ChannelsTypeOK, ProxyTypeOK
    <2>2. cached' \in [Id -> Seq(UpData)] /\ dGot' \in [Id -> Seq(UpData)]
      BY <1>0, <1>1, <1>3
    <2>3. tcp' \in [Id -> {"none", "connecting", "connected"}]
      BY <1>0, <1>1 DEF ServerTypeOK
    <2>4. ServerTypeOK'
      BY <1>0, <2>2, <2>3 DEF ServerTypeOK, UpData
    <2> QED
      BY <2>1, <2>4 DEF TypeOK
  <1>5. FreshIds' /\ IdsDistinct' /\ SessionInv' /\ NoSessionStarves' /\ NoIdLeaked'
    <2>1. UNCHANGED proxyVars
      BY DEF proxyVars
    <2> QED
      BY <1>1, <1>2, <2>1, ControlFrame
  <1>6. hasClient[id]
    BY <1>1 DEF TunnelInv, ServerInv
  <1>7. ServerInv'
    <2>1. Unused(id) /\ id # 0 => dGot'[id] = <<>>
      <3>1. Unused(id) /\ id # 0 => dGot[id] = <<>> /\ cached[id] = <<>>
        BY DEF TunnelInv, ServerInv
      <3>2. <<>> \o <<>> = <<>>
        BY <1>3, ConcatEmptySeq
      <3> QED
        BY <1>2, <3>1, <3>2
    <2> QED
      BY <1>2, <1>6, <2>1 DEF TunnelInv, ServerInv, Unused
  <1>8. DownInv'
    BY DEF TunnelInv, DownInv, NothingMissing, Unused
  <1>9. ASSUME NEW x \in Conn PROVE UpInOrder(x)' /\ DownInOrder(x)'
    <2>1. UpInOrder(x) /\ DownInOrder(x)
      BY DEF TunnelInv, PayloadsInOrder
    <2>2. DownInOrder(x)'
      BY <2>1 DEF DownInOrder
    <2>3. CASE sessId[x] # id \/ sessId[x] = 0
      <3>1. sessId[x] \in Id
        BY <1>0 DEF ProxyTypeOK
      <3>2. UpInOrder(x)'
        BY <1>2, <2>1, <2>3, <3>1 DEF UpInOrder
      <3> QED
        BY <2>2, <3>2
    <2>4. CASE sessId[x] = id /\ sessId[x] # 0
      <3> DEFINE all == AllFrom(x, aSent[x])
                 before == dGot[id] \o cached[id]
      <3>1. dGot[id] \o cached[id] \o up[id] = all
        BY <1>6, <2>1, <2>4 DEF UpInOrder
      <3>2. before \in Seq(UpData) /\ dGot'[id] = before /\ before \o up[id] = all
        BY <1>2, <1>3, <3>1
      <3> HIDE DEF before
      <3>3. IsPrefix(before, all)
        BY <1>3, <3>2, PrefixExtends
      <3>4. before \o <<>> \o up[id] = all
        BY <3>2, ConcatEmptySeq
      <3>5. UpInOrder(x)' <=>
                /\ IsPrefix(dGot'[id], all)
                /\ hasClient[id] => dGot'[id] \o cached'[id] \o up[id] = all
        BY <2>4 DEF UpInOrder
      <3> QED
        BY <1>2, <2>2, <3>2, <3>3, <3>4, <3>5
    <2> QED
      BY <2>3, <2>4
  <1> QED
    BY <1>4, <1>5, <1>7, <1>8, <1>9 DEF TunnelInv, PayloadsInOrder

\* A step that at most takes clients, connections or sessions away.
LEMMA OnlyDropsKeeps ==
    ASSUME TunnelInv, TypeOK', UNCHANGED proxyVars, UNCHANGED chanVars,
           UNCHANGED <<nextId, cached, dSent, dGot>>,
           serverMap' \subseteq serverMap,
           \A id \in Id :
            /\ hasClient'[id] => hasClient[id]
            /\ tcp'[id] = "none" \/ tcp'[id] = tcp[id]
            /\ tcp'[id] = "connecting" => hasClient'[id]
    PROVE  TunnelInv'
  <1> USE DEF proxyVars, chanVars
  <1>0. TypeOK /\ serverMap \subseteq Id
    BY DEF TunnelInv, TypeOK, ServerTypeOK
  <1>1. FreshIds' /\ IdsDistinct' /\ SessionInv' /\ NoSessionStarves' /\ NoIdLeaked'
    BY <1>0, ControlFrame
  <1>2. ServerInv'
    BY DEF TunnelInv, ServerInv, Unused
  <1>3. DownInv'
    BY DEF TunnelInv, DownInv, NothingMissing, Unused
  <1>4. PayloadsInOrder'
    <2>1. \A x \in Conn : sessId[x] \in Id
      BY <1>0 DEF TypeOK, ProxyTypeOK
    <2>2. \A x \in Conn : UpInOrder(x)'
      BY <2>1 DEF TunnelInv, PayloadsInOrder, UpInOrder
    <2>3. \A x \in Conn : DownInOrder(x)'
      BY DEF TunnelInv, PayloadsInOrder, DownInOrder
    <2> QED
      BY <2>2, <2>3 DEF PayloadsInOrder
  <1> QED
    BY <1>1, <1>2, <1>3, <1>4 DEF TunnelInv

LEMMA ServerOnDisconnectedKeeps ==
    ASSUME TunnelInv, NEW id \in Id, ServerOnDisconnected(id), UNCHANGED proxyVars
    PROVE  TunnelInv'
  <1> USE DEF ServerOnDisconnected, ConnLostCb, proxyVars, chanVars
  <1>0. TypeOK /\ ChannelsTypeOK /\ ProxyTypeOK /\ ServerTypeOK
    BY DEF TunnelInv, TypeOK
  <1>1. TypeOK'
    <2>1. ChannelsTypeOK' /\ ProxyTypeOK'
      BY <1>0 DEF ChannelsTypeOK, ProxyTypeOK
    <2>2. tcp' \in [Id -> {"none", "connecting", "connected"}]
      BY <1>0 DEF ServerTypeOK
    <2>3. ServerTypeOK'
      BY <1>0, <2>2 DEF ServerTypeOK
    <2> QED
      BY <2>1, <2>3 DEF TypeOK
  <1>2. \A y \in Id : tcp'[y] = "none" \/ tcp'[y] = tcp[y]
    BY <1>0 DEF ServerTypeOK
  <1>3. \A y \in Id : tcp'[y] = "connecting" => hasClient'[y]
    BY <1>2 DEF TunnelInv, ServerInv
  <1> QED
    BY <1>1, <1>2, <1>3, OnlyDropsKeeps

LEMMA OnCheckConnectionKeeps ==
    ASSUME TunnelInv, NEW id \in Id, OnCheckConnection(id), UNCHANGED proxyVars
    PROVE  TunnelInv'
  <1>0. TypeOK /\ ChannelsTypeOK /\ ProxyTypeOK /\ ServerTypeOK
    BY DEF TunnelInv, TypeOK
  <1>1. /\ checkTimer' = [checkTimer EXCEPT ![id] = FALSE]
        /\ \/ /\ hasClient' = [hasClient EXCEPT ![id] = FALSE]
              /\ tcp' = [tcp EXCEPT ![id] = IF @ = "connecting" THEN "none" ELSE @]
              /\ running' = FALSE
           \/ UNCHANGED <<hasClient, tcp, running>>
        /\ UNCHANGED <<nextId, serverMap, cached, quietUp, hours>>
        /\ UNCHANGED <<dSent, dGot, chanVars>>
    BY DEF OnCheckConnection, ResetClient, ConnLostCb
  <1>2. TypeOK'
    <2>1. ChannelsTypeOK' /\ ProxyTypeOK'
      BY <1>0, <1>1 DEF ChannelsTypeOK, ProxyTypeOK, proxyVars, chanVars
    <2>2. /\ hasClient' \in [Id -> BOOLEAN] /\ checkTimer' \in [Id -> BOOLEAN]
          /\ tcp' \in [Id -> {"none", "connecting", "connected"}] /\ running' \in BOOLEAN
      BY <1>0, <1>1 DEF ServerTypeOK
    <2>3. ServerTypeOK'
      BY <1>0, <1>1, <2>2 DEF ServerTypeOK
    <2> QED
      BY <2>1, <2>3 DEF TypeOK
  <1>3. \A y \in Id : tcp[y] = "connecting" => hasClient[y]
    BY DEF TunnelInv, ServerInv
  <1>4. \A y \in Id :
            /\ hasClient'[y] => hasClient[y]
            /\ tcp'[y] = "none" \/ tcp'[y] = tcp[y]
            /\ tcp'[y] = "connecting" => hasClient'[y]
    BY <1>0, <1>1, <1>3 DEF ServerTypeOK
  <1> QED
    BY <1>1, <1>2, <1>4, OnlyDropsKeeps

LEMMA OnCheckDeadSessionTimerKeeps ==
    ASSUME TunnelInv, OnCheckDeadSessionTimer, UNCHANGED proxyVars
    PROVE  TunnelInv'
  <1> USE DEF OnCheckDeadSessionTimer
  <1>0. TypeOK /\ ChannelsTypeOK /\ ProxyTypeOK /\ ServerTypeOK
    BY DEF TunnelInv, TypeOK
  <1>1. TypeOK'
    <2>1. ChannelsTypeOK' /\ ProxyTypeOK'
      BY <1>0 DEF ChannelsTypeOK, ProxyTypeOK, proxyVars, chanVars
    <2>2. ServerTypeOK'
      BY <1>0 DEF ServerTypeOK
    <2> QED
      BY <2>1, <2>2 DEF TypeOK
  <1>2. \A y \in Id : tcp'[y] = "connecting" => hasClient'[y]
    BY DEF TunnelInv, ServerInv
  <1> QED
    BY <1>1, <1>2, OnlyDropsKeeps

LEMMA HourPassesKeeps ==
    ASSUME TunnelInv, HourPasses, UNCHANGED proxyVars
    PROVE  TunnelInv'
  <1> USE DEF HourPasses
  <1>0. TypeOK /\ ChannelsTypeOK /\ ProxyTypeOK /\ ServerTypeOK
    BY DEF TunnelInv, TypeOK
  <1>1. TypeOK'
    <2>1. ChannelsTypeOK' /\ ProxyTypeOK'
      BY <1>0 DEF ChannelsTypeOK, ProxyTypeOK, proxyVars, chanVars
    <2>2. hours' \in Nat /\ quietUp' \subseteq Id
      BY <1>0 DEF ServerTypeOK
    <2>3. ServerTypeOK'
      BY <1>0, <2>2 DEF ServerTypeOK
    <2> QED
      BY <2>1, <2>3 DEF TypeOK
  <1>2. \A y \in Id : tcp'[y] = "connecting" => hasClient'[y]
    BY DEF TunnelInv, ServerInv
  <1> QED
    BY <1>1, <1>2, OnlyDropsKeeps

\* A payload of the client moves to D or behind what is cached; without a
\* TcpClient it is dropped, and D then receives nothing more.
LEMMA ServerOnTunnelMessageKeeps ==
    ASSUME TunnelInv, NEW id \in Id, ServerOnTunnelMessage(id), UNCHANGED proxyVars
    PROVE  TunnelInv'
  <1> DEFINE data == Head(up[id])
  <1>0. /\ TypeOK /\ ChannelsTypeOK /\ ProxyTypeOK /\ ServerTypeOK
        /\ cached \in [Id -> Seq(UpData)] /\ dGot \in [Id -> Seq(UpData)]
        /\ up \in [Id -> Seq(UpData)]
    BY DEF TunnelInv, TypeOK, ChannelsTypeOK, ServerTypeOK, UpData
  <1>1. /\ up[id] # <<>> /\ up' = [up EXCEPT ![id] = Tail(@)]
        /\ quietUp' = quietUp \ {id} /\ spoken' = spoken \cup {id}
        /\ \/ /\ hasClient[id] /\ tcp[id] = "connected"
              /\ dGot' = [dGot EXCEPT ![id] = Append(@, data)]
              /\ cached' = cached
           \/ /\ hasClient[id] /\ tcp[id] # "connected"
              /\ cached' = [cached EXCEPT ![id] = Append(@, data)]
              /\ dGot' = dGot
           \/ /\ ~hasClient[id]
              /\ cached' = cached /\ dGot' = dGot
    BY DEF ServerOnTunnelMessage, RecvFromTunnel
  <1>a. /\ UNCHANGED <<conn, sessId, uninitedSessList, proxyMap, payloadList>>
        /\ UNCHANGED <<strays, aSent, aGot, ctlUp, ctlDown, down>>
        /\ UNCHANGED <<running, nextId, serverMap, hasClient, tcp, checkTimer>>
        /\ UNCHANGED <<hours, dSent>>
    BY DEF ServerOnTunnelMessage, proxyVars
  <1> USE <1>a
  <1>2. /\ dGot[id] \in Seq(UpData) /\ cached[id] \in Seq(UpData) /\ up[id] \in Seq(UpData)
        /\ data \in UpData /\ Tail(up[id]) \in Seq(UpData)
        /\ Append(dGot[id], data) \in Seq(UpData) /\ Append(cached[id], data) \in Seq(UpData)
        /\ <<>> \in Seq(UpData)
    <2>1. dGot[id] \in Seq(UpData) /\ cached[id] \in Seq(UpData) /\ up[id] \in Seq(UpData)
      BY <1>0
    <2>2. data \in UpData /\ Tail(up[id]) \in Seq(UpData)
      BY <1>1, <2>1, HeadTailProperties
    <2> HIDE DEF data
    <2> QED
      BY <2>1, <2>2
  <1> HIDE DEF data
  <1>3. /\ up'[id] = Tail(up[id])
        /\ \A y \in Id : y # id =>
            up'[y] = up[y] /\ cached'[y] = cached[y] /\ dGot'[y] = dGot[y]
    BY <1>0, <1>1
  <1>4. TypeOK'
    <2>1. up' \in [Id -> Seq(UpData)]
      BY <1>0, <1>1, <1>2
    <2>2. cached' \in [Id -> Seq(UpData)] /\ dGot' \in [Id -> Seq(UpData)]
      BY <1>0, <1>1, <1>2
    <2>3. ChannelsTypeOK'
      BY <1>0, <1>1, <2>1 DEF ChannelsTypeOK, UpData
    <2>4. ProxyTypeOK'
      BY <1>0 DEF ProxyTypeOK
    <2>5. ServerTypeOK'
      BY <1>0, <1>1, <2>2 DEF ServerTypeOK, UpData
    <2> QED
      BY <2>3, <2>4, <2>5 DEF TypeOK
  <1>5. FreshIds' /\ IdsDistinct' /\ SessionInv' /\ NoSessionStarves' /\ NoIdLeaked'
    <2>1. UNCHANGED proxyVars
      BY DEF proxyVars
    <2> QED
      BY <2>1, ControlFrame
  <1>6. id # 0 => ~Unused(id)
    BY <1>1 DEF TunnelInv, ServerInv
  <1>7. ServerInv'
    <2>1. \A y \in Id : tcp'[y] = "connected" => cached'[y] = <<>>
      <3>1. tcp[id] = "connected" => cached'[id] = cached[id]
        BY <1>1
      <3> QED
        BY <1>3, <3>1 DEF TunnelInv, ServerInv
    <2> QED
      BY <1>3, <1>6, <2>1 DEF TunnelInv, ServerInv, Unused
  <1>8. DownInv'
    BY DEF TunnelInv, DownInv, NothingMissing, Unused
  <1>9. ASSUME NEW x \in Conn PROVE UpInOrder(x)' /\ DownInOrder(x)'
    <2>1. UpInOrder(x) /\ DownInOrder(x)
      BY DEF TunnelInv, PayloadsInOrder
    <2>2. DownInOrder(x)'
      BY <2>1 DEF DownInOrder
    <2>3. CASE sessId[x] # id \/ sessId[x] = 0
      <3>1. sessId[x] \in Id
        BY <1>0 DEF ProxyTypeOK
      <3>2. UpInOrder(x)'
        BY <1>3, <2>1, <2>3, <3>1 DEF UpInOrder
      <3> QED
        BY <2>2, <3>2
    <2>4. CASE sessId[x] = id /\ sessId[x] # 0
      <3> DEFINE all == AllFrom(x, aSent[x])
      <3>1. /\ IsPrefix(dGot[id], all)
            /\ hasClient[id] => dGot[id] \o cached[id] \o up[id] = all
        BY <2>1, <2>4 DEF UpInOrder
      <3>2. UpInOrder(x)' <=>
                /\ IsPrefix(dGot'[id], all)
                /\ hasClient[id] => dGot'[id] \o cached'[id] \o up'[id] = all
        BY <2>4 DEF UpInOrder
      <3> HIDE DEF all
      <3>3. CASE hasClient[id] /\ tcp[id] = "connected"
        <4>1. cached[id] = <<>>
          BY <3>3 DEF TunnelInv, ServerInv
        <4>2. dGot'[id] = Append(dGot[id], data) /\ cached'[id] = <<>>
          BY <1>0, <1>1, <3>3, <4>1
        <4>3. dGot[id] \o up[id] = all
          <5>1. dGot[id] \o <<>> = dGot[id]
            BY <1>2, ConcatEmptySeq
          <5> QED
            BY <3>1, <3>3, <4>1, <5>1
        <4>4. dGot'[id] \o up'[id] = all
          <5>1. Append(dGot[id], data) \o Tail(up[id]) = dGot[id] \o up[id]
            BY <1>1, <1>2, ConcatFacts DEF data
          <5> QED
            BY <1>3, <4>2, <4>3, <5>1
        <4>5. dGot'[id] \o cached'[id] = dGot'[id]
          BY <1>2, <4>2, ConcatEmptySeq
        <4>6. IsPrefix(dGot'[id], all)
          BY <1>2, <1>3, <4>2, <4>4, PrefixExtends
        <4> QED
          BY <2>2, <3>2, <4>4, <4>5, <4>6
      <3>4. CASE hasClient[id] /\ tcp[id] # "connected"
        <4>1. cached'[id] = Append(cached[id], data) /\ dGot'[id] = dGot[id]
          BY <1>0, <1>1, <3>4
        <4> DEFINE before == dGot[id] \o cached[id]
        <4>2. before \in Seq(UpData)
          BY <1>2
        <4>3. dGot[id] \o Append(cached[id], data) = Append(before, data)
          BY <1>2, ConcatFacts
        <4>a. before \o up[id] = all
          BY <3>1, <3>4
        <4> HIDE DEF before
        <4>4. Append(before, data) \o Tail(up[id]) = before \o up[id]
          BY <1>1, <1>2, <4>2, ConcatFacts DEF data
        <4> QED
          BY <1>3, <2>2, <3>1, <3>2, <4>1, <4>3, <4>4, <4>a
      <3>5. CASE ~hasClient[id]
        BY <1>1, <2>2, <3>1, <3>2, <3>5
      <3> QED
        BY <3>3, <3>4, <3>5
    <2> QED
      BY <2>3, <2>4
  <1> QED
    BY <1>4, <1>5, <1>7, <1>8, <1>9 DEF TunnelInv, PayloadsInOrder

\* A message of D goes into the conversation as long as C has the session.
LEMMA ServerOnMessageKeeps ==
    ASSUME TunnelInv, NEW id \in Id, ServerOnMessage(id), UNCHANGED proxyVars
    PROVE  TunnelInv'
  <1> DEFINE data == Payload(id, dSent[id] + 1)
             all == AllFrom(id, dSent[id])
  <1>0. /\ TypeOK /\ ChannelsTypeOK /\ ProxyTypeOK /\ ServerTypeOK
        /\ down \in [Id -> Seq(DownData)] /\ aGot \in [Conn -> Seq(DownData)]
        /\ dSent \in [Id -> Nat]
    BY DEF TunnelInv, TypeOK, ChannelsTypeOK, ProxyTypeOK, ServerTypeOK, DownData
  <1>1. /\ tcp[id] = "connected"
        /\ dSent' = [dSent EXCEPT ![id] = @ + 1]
        /\ IF id \in serverMap
           THEN /\ down' = [down EXCEPT ![id] = Append(@, data)]
                /\ spoken' = spoken \cup {id}
           ELSE down' = down /\ spoken' = spoken
    BY DEF ServerOnMessage
  <1>a. /\ UNCHANGED <<conn, sessId, uninitedSessList, proxyMap, payloadList>>
        /\ UNCHANGED <<strays, aSent, aGot, ctlUp, ctlDown, up>>
        /\ UNCHANGED <<running, nextId, serverMap, hasClient, tcp, checkTimer>>
        /\ UNCHANGED <<cached, quietUp, hours, dGot>>
    BY DEF ServerOnMessage, proxyVars
  <1> USE <1>a
  <1>2. /\ data \in DownData /\ all \in Seq(DownData)
        /\ AllFrom(id, dSent[id] + 1) = Append(all, data)
    BY <1>0, AllFromFacts DEF DownData
  <1> HIDE DEF data, all
  <1>3. /\ \A y \in Id : y # id => dSent'[y] = dSent[y] /\ down'[y] = down[y]
        /\ AllFrom(id, dSent'[id]) = Append(all, data)
        /\ id \in serverMap => down'[id] = Append(down[id], data)
        /\ id \notin serverMap => down'[id] = down[id]
        /\ down[id] \in Seq(DownData)
    BY <1>0, <1>1, <1>2
  <1>4. TypeOK'
    <2>1. Append(down[id], data) \in Seq(DownData)
      BY <1>2, <1>3
    <2>2. down' \in [Id -> Seq(DownData)] /\ dSent' \in [Id -> Nat]
      <3>1. dSent' \in [Id -> Nat]
        BY <1>0, <1>1
      <3>2. down' \in [Id -> Seq(DownData)]
        BY <1>0, <1>1, <2>1
      <3> QED
        BY <3>1, <3>2
    <2>3. ChannelsTypeOK'
      BY <1>0, <1>1, <2>2 DEF ChannelsTypeOK, DownData
    <2>4. ProxyTypeOK'
      BY <1>0 DEF ProxyTypeOK
    <2>5. ServerTypeOK'
      BY <1>0, <1>1, <2>2 DEF ServerTypeOK
    <2> QED
      BY <2>3, <2>4, <2>5 DEF TypeOK
  <1>5. FreshIds' /\ IdsDistinct' /\ SessionInv' /\ NoSessionStarves' /\ NoIdLeaked'
    <2>1. UNCHANGED proxyVars
      BY DEF proxyVars
    <2> QED
      BY <1>1, <1>3, <2>1, ControlFrame
  <1>6. ServerInv'
    BY DEF TunnelInv, ServerInv, Unused
  <1>7. ASSUME NEW x \in Conn, sessId[x] = id, id \in serverMap
        PROVE  id # 0 => aGot[x] \o down'[id] = Append(all, data)
    <2>1. id # 0 => aGot[x] \o down[id] = all
      BY <1>7 DEF TunnelInv, DownInv, NothingMissing, all
    <2>2. aGot[x] \in Seq(DownData)
      BY <1>0
    <2>3. aGot[x] \o Append(down[id], data) = Append(aGot[x] \o down[id], data)
      BY <1>2, <1>3, <2>2, ConcatFacts, ZenonT(60)
    <2> QED
      BY <1>3, <1>7, <2>1, <2>3
  <1>8. DownInv'
    <2>1. ASSUME NEW y \in Id \ {0} PROVE NothingMissing(y)'
      <3>1. NothingMissing(y)
        BY DEF TunnelInv, DownInv
      <3>2. CASE y # id
        BY <1>3, <3>1, <3>2 DEF NothingMissing, Unused
      <3>3. CASE y = id
        <4>1. Unused(id) => IsPrefix(down'[id], Append(all, data))
          <5>1. CASE id \in serverMap
            <6>1. Unused(id) => down'[id] = Append(all, data)
              BY <1>3, <3>1, <3>3, <5>1 DEF NothingMissing, all
            <6>2. Append(all, data) \in Seq(DownData)
              BY <1>2
            <6>3. IsPrefix(Append(all, data), Append(all, data))
              BY <6>2, PrefixExtends
            <6> QED
              BY <6>1, <6>3
          <5>2. CASE id \notin serverMap
            <6>1. Unused(id) => IsPrefix(down[id], all)
              BY <3>1, <3>3 DEF NothingMissing, all
            <6> QED
              BY <1>2, <1>3, <5>2, <6>1, PrefixExtends
          <5> QED
            BY <5>1, <5>2
        <4>2. Unused(id) /\ id \in serverMap => down'[id] = Append(all, data)
          BY <1>3, <3>1, <3>3 DEF NothingMissing, all
        <4> QED
          BY <1>3, <1>7, <3>3, <4>1, <4>2 DEF NothingMissing, Unused
      <3> QED
        BY <3>2, <3>3
    <2> QED
      BY <2>1 DEF TunnelInv, DownInv
  <1>9. ASSUME NEW x \in Conn PROVE UpInOrder(x)' /\ DownInOrder(x)'
    <2>1. UpInOrder(x) /\ DownInOrder(x)
      BY DEF TunnelInv, PayloadsInOrder
    <2>2. UpInOrder(x)'
      BY <2>1 DEF UpInOrder
    <2>3. CASE sessId[x] # id \/ sessId[x] = 0
      <3>1. sessId[x] \in Id
        BY <1>0 DEF ProxyTypeOK
      <3>2. DownInOrder(x)'
        BY <1>3, <2>1, <2>3, <3>1 DEF DownInOrder
      <3> QED
        BY <2>2, <3>2
    <2>4. CASE sessId[x] = id /\ sessId[x] # 0
      <3>1. DownInOrder(x)' <=> IsPrefix(aGot[x] \o down'[id], Append(all, data))
        BY <1>3, <2>4 DEF DownInOrder
      <3>2. CASE id \in serverMap
        <4>1. Append(all, data) \in Seq(DownData)
          BY <1>2
        <4>2. IsPrefix(Append(all, data), Append(all, data))
          BY <4>1, PrefixExtends
        <4> QED
          BY <1>7, <2>2, <2>4, <3>1, <3>2, <4>2
      <3>3. CASE id \notin serverMap
        <4>1. IsPrefix(aGot[x] \o down[id], all)
          BY <2>1, <2>4 DEF DownInOrder, all
        <4>2. aGot[x] \o down[id] \in Seq(DownData)
          BY <1>0
        <4>3. IsPrefix(aGot[x] \o down[id], Append(all, data))
          BY <1>2, <4>1, <4>2, PrefixExtends
        <4> QED
          BY <1>3, <2>2, <3>1, <3>3, <4>3
      <3> QED
        BY <3>2, <3>3
    <2> QED
      BY <2>3, <2>4
  <1> QED
    BY <1>4, <1>5, <1>6, <1>8, <1>9 DEF TunnelInv, PayloadsInOrder

-----------------------------------------------------------------------------
(* The theorems.                                                           *)

LEMMA NextKeepsTunnel == ASSUME TunnelInv, [Next]_vars PROVE TunnelInv'
  <1>1. ASSUME ProxyNext, UNCHANGED serverVars PROVE TunnelInv'
    BY <1>1, ProxyOnConnectedKeeps, ProxyOnDisconnectedKeeps, ProxyOnMessageKeeps,
       GiveIdKeeps, RefuseIdKeeps, ProxyOnTunnelMessageKeeps,
       ProxyOnStrayDatagramKeeps DEF ProxyNext
  <1>2. ASSUME ServerNext, UNCHANGED proxyVars PROVE TunnelInv'
    BY <1>2, OnCreateKeeps, OnDestroyKeeps, OnCheckDeadSessionTimerKeeps,
       HourPassesKeeps, ServerOnConnectedKeeps, ServerOnDisconnectedKeeps,
       OnCheckConnectionKeeps, ServerOnTunnelMessageKeeps, ServerOnMessageKeeps
    DEF ServerNext
  <1>3. ASSUME UNCHANGED vars PROVE TunnelInv'
    <2> USE <1>3 DEF vars, serverVars
    <2>1. TypeOK'
      BY DEF TunnelInv, TypeOK, ChannelsTypeOK, ProxyTypeOK, ServerTypeOK,
             proxyVars, chanVars
    <2>2. \A y \in Id : tcp'[y] = "connecting" => hasClient'[y]
      BY DEF TunnelInv, ServerInv
    <2> QED
      BY <2>1, <2>2, OnlyDropsKeeps
  <1> QED
    BY <1>1, <1>2, <1>3 DEF Next

\* Every behaviour of the two event loops keeps the inductive invariant.
THEOREM TunnelInvariant == Spec => []TunnelInv
  <1>1. Init => TunnelInv
    BY InitTunnel
  <1>2. TunnelInv /\ [Next]_vars => TunnelInv'
    BY NextKeepsTunnel
  <1> QED
    BY <1>1, <1>2, PTL DEF Spec

\* The state of both processes and of the channels is well formed.
THEOREM TypeCorrect == Spec => []TypeOK
  <1>1. TunnelInv => TypeOK
    BY DEF TunnelInv
  <1> QED
    BY <1>1, TunnelInvariant, PTL

\* KcpProxy finds every session it holds a reference to.
THEOREM SessionsAreFound == Spec => []EverySessionFound
  <1>1. TunnelInv => EverySessionFound
    BY DEF TunnelInv, SessionInv, EverySessionFound, Waiting, HasSession
  <1> QED
    BY <1>1, TunnelInvariant, PTL

\* For every session that waits a request or an answer is under way.
THEOREM SessionsDoNotStarve == Spec => []NoSessionStarves
  <1>1. TunnelInv => NoSessionStarves
    BY DEF TunnelInv
  <1> QED
    BY <1>1, TunnelInvariant, PTL

\* C keeps a connection to D only for an id that B uses, learns of or releases.
THEOREM IdsAreNotLeaked == Spec => []NoIdLeaked
  <1>1. TunnelInv => NoIdLeaked
    BY DEF TunnelInv
  <1> QED
    BY <1>1, TunnelInvariant, PTL

\* Payloads cross the tunnel in order, on their own session, both ways.
THEOREM PayloadsStayInOrder == Spec => []PayloadsInOrder
  <1>1. TunnelInv => PayloadsInOrder
    BY DEF TunnelInv
  <1> QED
    BY <1>1, TunnelInvariant, PTL

=============================================================================
