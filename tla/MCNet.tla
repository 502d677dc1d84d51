------------------------------- MODULE MCNet -------------------------------
(***************************************************************************)
(* The parts of muduo/net, of kcp and of muduo/base that are taken one at  *)
(* a time, for TLC: the pollers, the TCP server and client, the buffer,    *)
(* RPC and HTTP on top of it, the dates, the time zones and the lines of   *)
(* the log, and the timing, the datagrams and the sequence numbers of kcp. *)
(* They share no state here, so a behaviour is one of one of them, the     *)
(* subject; the others stay as they are in the initial state.              *)
(***************************************************************************)
EXTENDS Poller, TcpServer, TcpClient, Buffer, Rpc, Http, Date, TimeZone,
        Logging, KcpTimer, KcpWire, SeqNum, TLC

\* HTTP: requests that are answered, one of them with a query, one that is not
\* found, one of a version that is refused, the headers that decide on the
\* close, and the empty line.
RequestLine(m, t, v) == [words |-> <<m, t, v>>, header |-> <<>>]
ConnectionHeader(v) ==
    [words |-> <<"Connection:", v>>, header |-> <<"Connection", v>>]
MCLines ==
    {RequestLine("GET", "/?q", "HTTP/1.1"), RequestLine("GET", "/", "HTTP/1.0"),
     RequestLine("GET", "/x", "HTTP/1.1"), RequestLine("GET", "/", "HTTP/2.0"),
     ConnectionHeader("close"), ConnectionHeader("Keep-Alive"),
     [words |-> <<"">>, header |-> <<>>]}
MCQuestions == [t \in {"/?q"} |-> <<"/", "?q">>]

\* Time zones: one without transitions, one with summer time; one that leaves
\* its local mean time, makes its summer time the standard and gives it up again
\* (London until 1971), and one with a summer time of half an hour (Lord Howe).
Std(h) == [off |-> h * Hour, dst |-> FALSE]
Dst(h) == [off |-> (h + 1) * Hour, dst |-> TRUE]
Shanghai == [trans |-> <<>>, idx |-> <<>>, types |-> <<Std(8)>>]
London == [trans |-> <<-50, -30, -10, 20, 45>>, idx |-> <<2, 3, 4, 2, 3>>,
           types |-> <<[off |-> 1, dst |-> FALSE], Std(0), Dst(0), Std(1)>>]
MCZones ==
    {Shanghai, London,
     [trans |-> <<-30, 10, 40>>, idx |-> <<2, 1, 2>>, types |-> <<Std(-5), Dst(-5)>>],
     [trans |-> <<-20, 20>>, idx |-> <<2, 1>>,
      types |-> <<Std(10), [off |-> 21, dst |-> TRUE]>>]}

\* ikcp_nodelay: what KcpSession sets, and negative arguments, which leave what
\* ikcp_create set.
Fast == <<1, 0, 1, 1>>
MCConfigs == {Fast, <<-1, -1, -1, -1>>}

\* Segments with the last sequence number and with one of two bytes.
MCAckSns == {130, ByteValues ^ 4 - 1}
MCPushSegments ==
    {[sn |-> ByteValues ^ 4 - 1, frg |-> 0, len |-> 48], [sn |-> 131, frg |-> 1, len |-> 12]}

\* The log: the least and the greatest int of LogBits bits.
MCInts == {-16, 15}

\* Connections are interchangeable.
Symmetry == Permutations(Conns)

VARIABLE subject

Subjects == {"poller", "server", "client", "buffer", "rpc", "http", "date",
             "zone", "log", "timing", "wire", "seqnum"}

\* For the other subjects: two bytes fill the front room of the buffer.
BufferInUse == content = <<LF, CR>> /\ buf = prepend(newBuffer, content)

NetInit ==
    /\ subject \in Subjects
    /\ PollerInit /\ ServerInit /\ ClientInit /\ RpcInit
    /\ IF subject = "buffer" THEN BufferInit ELSE BufferInUse
    /\ HttpInit /\ DateInit /\ ZoneInit /\ LoggerInit /\ TimerInit /\ WireInit
    /\ Init
    /\ subject # "server" => numThreads_ = 0
    /\ subject # "client" => ~retry_
    /\ subject # "date" => civil.year = 1699
    /\ subject # "zone" => zone = readTimeZoneFile(Shanghai)
    /\ subject # "timing" => kcp = ikcp_create(Fast)

\* The variables by layer
tcpVars == <<pollerVars, serverVars, clientVars, bufferVars>>
appVars == <<rpcVars, httpVars>>
kcpVars == <<timerVars, wireVars, vars>>
clockVars == <<dateVars, zoneVars, loggerVars>>

NetNext ==
    \/ /\ subject = "poller" /\ PollerNext
       /\ UNCHANGED <<subject, serverVars, clientVars, bufferVars, appVars, clockVars, kcpVars>>
    \/ /\ subject = "server" /\ ServerNext
       /\ UNCHANGED <<subject, pollerVars, clientVars, bufferVars, appVars, clockVars, kcpVars>>
    \/ /\ subject = "client" /\ ClientNext
       /\ UNCHANGED <<subject, pollerVars, serverVars, bufferVars, appVars, clockVars, kcpVars>>
    \/ /\ subject = "buffer" /\ BufferNext
       /\ UNCHANGED <<subject, pollerVars, serverVars, clientVars, appVars, clockVars, kcpVars>>
    \/ /\ subject = "rpc" /\ RpcNext
       /\ UNCHANGED <<subject, tcpVars, httpVars, clockVars, kcpVars>>
    \/ /\ subject = "http" /\ HttpNext
       /\ UNCHANGED <<subject, tcpVars, rpcVars, clockVars, kcpVars>>
    \/ /\ subject = "date" /\ NextDay
       /\ UNCHANGED <<subject, tcpVars, appVars, zoneVars, loggerVars, kcpVars>>
    \/ /\ subject = "zone" /\ GmtPasses
       /\ UNCHANGED <<subject, tcpVars, appVars, dateVars, loggerVars, kcpVars>>
    \/ /\ subject = "log" /\ LoggerNext
       /\ UNCHANGED <<subject, tcpVars, appVars, dateVars, zoneVars, kcpVars>>
    \/ /\ subject = "timing" /\ TimerNext
       /\ UNCHANGED <<subject, tcpVars, appVars, clockVars, wireVars, vars>>
    \/ /\ subject = "wire" /\ WireNext
       /\ UNCHANGED <<subject, tcpVars, appVars, clockVars, timerVars, vars>>
    \/ /\ subject = "seqnum" /\ Next
       /\ UNCHANGED <<subject, tcpVars, appVars, clockVars, timerVars, wireVars>>

netVars == <<subject, tcpVars, appVars, clockVars, kcpVars>>

NetSpec == NetInit /\ [][NetNext]_netVars
=============================================================================
