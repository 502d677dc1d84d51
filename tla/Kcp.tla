-------------------------------- MODULE Kcp ---------------------------------
(***************************************************************************)
(* The KCP ARQ engine of kcp/ikcp.c: the two ikcpcb objects of one         *)
(* conversation, one in the proxy B and one in the server C, and the UDP   *)
(* path between them, which may lose, reorder and duplicate datagrams.     *)
(*                                                                         *)
(* Every function of ikcp.c that the program calls is here: ikcp_send,     *)
(* ikcp_input (one step per segment of the datagram, then the tail after   *)
(* the loop), ikcp_recv, and ikcp_update with the ikcp_flush it runs.      *)
(*                                                                         *)
(* Abstractions.                                                           *)
(*  - Time.  Whether the retransmission timer of a segment or the window   *)
(*    probe timer has run out is a free choice of each flush, so the model *)
(*    covers every clock, RTT estimate and backoff.                        *)
(*  - Sequence numbers are not reduced modulo 2^32; module SeqNum states   *)
(*    when _itimediff then agrees with the plain difference.               *)
(*  - A payload is known by the message it belongs to.                     *)
(*  - The program runs KCP with nocwnd = 1, so the congestion window never *)
(*    limits ikcp_flush and is left out; stream is 0.                      *)
(***************************************************************************)
EXTENDS Integers, Sequences, FiniteSets, FiniteSetsExt

CONSTANTS
    SndWnd,      \* kcp->snd_wnd, IKCP_WND_SND
    RcvWnd,      \* kcp->rcv_wnd, IKCP_WND_RCV
    Mtu,         \* kcp->mtu
    Overhead,    \* IKCP_OVERHEAD, the size of a segment header
    FastResend,  \* kcp->fastresend
    MsgLens,     \* lengths of the messages the users send
    MaxMsgs,     \* bound: MaxMsgs[e] messages are sent by the user of e
    MaxDup,      \* bound: datagrams the network duplicates
    MaxInFlight, \* bound: MaxInFlight[e] datagrams are on their way to e
    MaxAcks      \* bound: acknowledgements waiting in one acklist

Endpoint == {"B", "C"}

Peer(e) == IF e = "B" THEN "C" ELSE "B"

ASSUME KcpAssumption ==
    /\ SndWnd \in Nat \ {0}
    /\ RcvWnd \in Nat \ {0}
    /\ Overhead \in Nat \ {0}
    /\ Mtu \in Nat
    /\ Mtu > Overhead
    /\ FastResend \in Nat \ {0}
    /\ MsgLens \subseteq Nat \ {0}
    /\ MaxMsgs \in [Endpoint -> Nat]
    /\ MaxDup \in Nat
    /\ MaxInFlight \in [Endpoint -> Nat]
    /\ MaxAcks \in Nat

VARIABLES
    \* the sending half of each ikcpcb
    snd_queue,  \* fragments not yet given a sequence number
    snd_buf,    \* sn |-> segment, for the segments sent and not acknowledged
    snd_una,    \* the oldest sequence number that is not acknowledged
    snd_nxt,    \* the next sequence number to give out
    rmt_wnd,    \* the last window the peer advertised
    probe_wait, \* probe_wait # 0: the window probe timer runs
    \* the receiving half
    rcv_buf,    \* sn |-> fragment, for what waits for a gap or for room
    rcv_queue,  \* fragments in order, ready for ikcp_recv
    rcv_nxt,    \* the next sequence number to move into rcv_queue
    acklist,    \* sequence numbers to acknowledge at the next flush
    probe,      \* the bit IKCP_ASK_TELL of kcp->probe
    \* the datagram that ikcp_input is working on
    parsing,    \* ikcp_input is on the stack
    pending,    \* its segments that are still to be parsed
    maxack,     \* its locals flag and maxack; -1 stands for flag = 0
    \* the network
    net,        \* net[e]: the datagrams on their way to e
    dups,       \* how many datagrams were duplicated
    \* history
    sent,       \* sent[e]: every fragment queued by ikcp_send, in order
    accepted,   \* accepted[e]: every message taken by ikcp_send
    delivered   \* delivered[e]: every message returned by ikcp_recv

sndVars == <<snd_queue, snd_buf, snd_una, snd_nxt, rmt_wnd, probe_wait>>
rcvVars == <<rcv_buf, rcv_queue, rcv_nxt, acklist, probe>>
inpVars == <<parsing, pending, maxack>>
netVars == <<net, dups>>
histVars == <<sent, accepted, delivered>>

vars == <<sndVars, rcvVars, inpVars, netVars, histVars>>

-----------------------------------------------------------------------------
(* Data.                                                                   *)

Mss == Mtu - Overhead

Fragment == [msg : Nat, frg : Nat, len : Nat]

\* The payload field of a segment that carries none (len = 0).
NoFrag == [msg |-> 0, frg |-> 0, len |-> 0]

Segment == [cmd : {"PUSH", "ACK", "WASK", "WINS"}, sn : Nat, una : Nat,
            wnd : Nat, frag : Fragment]

\* The number of fragments ikcp_send cuts len bytes into.
FragmentCount(len) ==
    IF len <= Mss THEN 1 ELSE (len + Mss - 1) \div Mss

\* The fragments of message number m; frg counts down to 0.
Fragments(m, len) ==
    LET count == FragmentCount(len)
    IN  [i \in 1..count |->
            [msg |-> m,
             frg |-> count - i,
             len |-> IF i < count THEN Mss ELSE len - (count - 1) * Mss]]

-----------------------------------------------------------------------------
(* Parsing acknowledgements, the sending half.                             *)

\* Slip: the segment that the peer expects next is taken for acknowledged.
ParseUna_OffByOne(buf, una) ==
    [sn \in {s \in DOMAIN buf : s > una} |-> buf[sn]]

\* ikcp_parse_una drops every segment below una.
ParseUna(buf, una) == [sn \in {s \in DOMAIN buf : s >= una} |-> buf[sn]]

\* ikcp_parse_ack drops the acknowledged segment if it is outstanding.
ParseAck(buf, una, nxt, sn) ==
    IF sn < una \/ sn >= nxt
    THEN buf
    ELSE [s \in DOMAIN buf \ {sn} |-> buf[s]]

\* ikcp_shrink_buf: snd_una is the first segment left, or snd_nxt.
ShrinkBuf(buf, nxt) == IF DOMAIN buf = {} THEN nxt ELSE Min(DOMAIN buf)

\* ikcp_parse_fastack: a segment older than the newest acknowledged one was
\* skipped once more.  Only fastack >= fastresend is ever asked, so the
\* counter stops there.
ParseFastack(buf, una, nxt, sn) ==
    IF sn < una \/ sn >= nxt
    THEN buf
    ELSE [s \in DOMAIN buf |->
            IF s < sn /\ buf[s].fastack < FastResend
            THEN [buf[s] EXCEPT !.fastack = @ + 1]
            ELSE buf[s]]

-----------------------------------------------------------------------------
(* Parsing data, the receiving half.                                       *)

\* n segments move from rcv_buf to rcv_queue: the loop at the end of
\* ikcp_parse_data and of ikcp_recv stops at a gap or when the queue is full.
MovesToQueue(n, nxt, buf, qlen) ==
    /\ \A sn \in nxt..(nxt + n - 1) : sn \in DOMAIN buf
    /\ qlen + n <= RcvWnd \/ n = 0
    /\ nxt + n \notin DOMAIN buf \/ qlen + n >= RcvWnd

\* Slip: the last slot of the receive window is refused.
InsertData_OffByOne(buf, nxt, sn, frag) ==
    IF sn + 1 >= nxt + RcvWnd \/ sn < nxt \/ sn \in DOMAIN buf
    THEN buf
    ELSE [s \in DOMAIN buf \cup {sn} |-> IF s = sn THEN frag ELSE buf[s]]

\* ikcp_parse_data inserts a segment of the window unless it is there already.
InsertData(buf, nxt, sn, frag) ==
    IF sn >= nxt + RcvWnd \/ sn < nxt \/ sn \in DOMAIN buf
    THEN buf
    ELSE [s \in DOMAIN buf \cup {sn} |-> IF s = sn THEN frag ELSE buf[s]]

\* Slip: rcv_nxt is not counted up.
MoveToQueue_NotCounted(e, queue, buf) ==
    \E n \in 0..RcvWnd :
        /\ MovesToQueue(n, rcv_nxt[e], buf, Len(queue))
        /\ rcv_queue' = [rcv_queue EXCEPT ![e] =
                queue \o [i \in 1..n |-> buf[rcv_nxt[e] + i - 1]]]
        /\ rcv_buf' = [rcv_buf EXCEPT ![e] =
                [s \in {x \in DOMAIN buf : x >= rcv_nxt[e] + n} |-> buf[s]]]
        /\ UNCHANGED rcv_nxt

\* The move itself, given what is left of the queue and the buffer.
MoveToQueue(e, queue, buf) ==
    \E n \in 0..RcvWnd :
        /\ MovesToQueue(n, rcv_nxt[e], buf, Len(queue))
        /\ rcv_queue' = [rcv_queue EXCEPT ![e] =
                queue \o [i \in 1..n |-> buf[rcv_nxt[e] + i - 1]]]
        /\ rcv_buf' = [rcv_buf EXCEPT ![e] =
                [s \in {x \in DOMAIN buf : x >= rcv_nxt[e] + n} |-> buf[s]]]
        /\ rcv_nxt' = [rcv_nxt EXCEPT ![e] = @ + n]

-----------------------------------------------------------------------------
Init ==
    /\ snd_queue = [e \in Endpoint |-> <<>>]
    /\ snd_buf = [e \in Endpoint |-> [sn \in {} |-> NoFrag]]
    /\ snd_una = [e \in Endpoint |-> 0]
    /\ snd_nxt = [e \in Endpoint |-> 0]
    /\ rmt_wnd = [e \in Endpoint |-> RcvWnd]
    /\ probe_wait = [e \in Endpoint |-> FALSE]
    /\ rcv_buf = [e \in Endpoint |-> [sn \in {} |-> NoFrag]]
    /\ rcv_queue = [e \in Endpoint |-> <<>>]
    /\ rcv_nxt = [e \in Endpoint |-> 0]
    /\ acklist = [e \in Endpoint |-> <<>>]
    /\ probe = [e \in Endpoint |-> FALSE]
    /\ parsing = [e \in Endpoint |-> FALSE]
    /\ pending = [e \in Endpoint |-> <<>>]
    /\ maxack = [e \in Endpoint |-> -1]
    /\ net = [e \in Endpoint |-> {}]
    /\ dups = 0
    /\ sent = [e \in Endpoint |-> <<>>]
    /\ accepted = [e \in Endpoint |-> <<>>]
    /\ delivered = [e \in Endpoint |-> <<>>]

-----------------------------------------------------------------------------
(* ikcp_send                                                               *)

\* Slip: the limit on the number of fragments is not enforced.
Sendable_NoLimit(len) == TRUE

\* ikcp_send refuses a message of IKCP_WND_RCV fragments or more.
Sendable(len) == FragmentCount(len) < RcvWnd

Send(e) ==
    /\ ~parsing[e]
    /\ Len(accepted[e]) < MaxMsgs[e]
    /\ \E len \in MsgLens :
        LET frags == Fragments(Len(accepted[e]) + 1, len)
        IN  /\ Sendable(len)
            /\ snd_queue' = [snd_queue EXCEPT ![e] = @ \o frags]
            /\ sent' = [sent EXCEPT ![e] = @ \o frags]
            /\ accepted' = [accepted EXCEPT ![e] = Append(@, frags)]
    /\ UNCHANGED <<snd_buf, snd_una, snd_nxt, rmt_wnd, probe_wait, delivered>>
    /\ UNCHANGED <<rcvVars, inpVars, netVars>>

-----------------------------------------------------------------------------
(* ikcp_recv                                                               *)

\* Slip: ikcp_recv merges what is there without asking ikcp_peeksize.
IsMessage_NoPeek(queue, n) ==
    /\ queue[n].frg = 0 \/ n = Len(queue)
    /\ \A i \in 1..(n - 1) : queue[i].frg # 0

\* The first n fragments of the queue are one complete message: ikcp_peeksize
\* finds them and ikcp_recv merges them.
IsMessage(queue, n) ==
    /\ Len(queue) >= Head(queue).frg + 1
    /\ queue[n].frg = 0
    /\ \A i \in 1..(n - 1) : queue[i].frg # 0

Recv(e) ==
    /\ ~parsing[e]
    /\ rcv_queue[e] # <<>>
    /\ \E n \in 1..Len(rcv_queue[e]) :
        LET queue == SubSeq(rcv_queue[e], n + 1, Len(rcv_queue[e]))
        IN  /\ IsMessage(rcv_queue[e], n)
            /\ delivered' = [delivered EXCEPT
                    ![e] = Append(@, SubSeq(rcv_queue[e], 1, n))]
            /\ MoveToQueue(e, queue, rcv_buf[e])
    \* fast recover: tell the peer that the window is open again
    /\ probe' = [probe EXCEPT ![e] =
            @ \/ (Len(rcv_queue[e]) >= RcvWnd /\ Len(rcv_queue'[e]) < RcvWnd)]
    /\ UNCHANGED <<acklist, sent, accepted>>
    /\ UNCHANGED <<sndVars, inpVars, netVars>>

-----------------------------------------------------------------------------
(* ikcp_input                                                              *)

\* What every segment does to the sending half, whatever its cmd.
InputHeader(e, seg) ==
    LET buf == ParseUna(snd_buf[e], seg.una)
    IN  /\ rmt_wnd' = [rmt_wnd EXCEPT ![e] = seg.wnd]
        /\ snd_buf' = [snd_buf EXCEPT ![e] = buf]
        /\ snd_una' = [snd_una EXCEPT ![e] = ShrinkBuf(buf, snd_nxt[e])]
        /\ UNCHANGED maxack

InputAck(e, seg) ==
    LET first == ParseUna(snd_buf[e], seg.una)
        una   == ShrinkBuf(first, snd_nxt[e])
        buf   == ParseAck(first, una, snd_nxt[e], seg.sn)
    IN  /\ seg.cmd = "ACK"
        /\ rmt_wnd' = [rmt_wnd EXCEPT ![e] = seg.wnd]
        /\ snd_buf' = [snd_buf EXCEPT ![e] = buf]
        /\ snd_una' = [snd_una EXCEPT ![e] = ShrinkBuf(buf, snd_nxt[e])]
        /\ maxack' = [maxack EXCEPT ![e] = IF seg.sn > @ THEN seg.sn ELSE @]
        /\ UNCHANGED rcvVars

\* Slip: old data is not acknowledged again.
Acknowledges_OnlyNew(e, sn) == rcv_nxt[e] <= sn /\ sn < rcv_nxt[e] + RcvWnd

\* ikcp_input acknowledges what is below the end of the receive window.
Acknowledges(e, sn) == sn < rcv_nxt[e] + RcvWnd

\* A segment below the window is acknowledged again but not stored again.
InputPush(e, seg) ==
    /\ seg.cmd = "PUSH"
    /\ InputHeader(e, seg)
    /\ IF Acknowledges(e, seg.sn)
       THEN /\ acklist' = [acklist EXCEPT ![e] = Append(@, seg.sn)]
            /\ IF seg.sn >= rcv_nxt[e]
               THEN MoveToQueue(e, rcv_queue[e],
                        InsertData(rcv_buf[e], rcv_nxt[e], seg.sn, seg.frag))
               ELSE UNCHANGED <<rcv_buf, rcv_queue, rcv_nxt>>
       ELSE UNCHANGED <<acklist, rcv_buf, rcv_queue, rcv_nxt>>
    /\ UNCHANGED probe

InputAsk(e, seg) ==
    /\ seg.cmd = "WASK"
    /\ InputHeader(e, seg)
    /\ probe' = [probe EXCEPT ![e] = TRUE]
    /\ UNCHANGED <<rcv_buf, rcv_queue, rcv_nxt, acklist>>

InputTell(e, seg) ==
    /\ seg.cmd = "WINS"
    /\ InputHeader(e, seg)
    /\ UNCHANGED rcvVars

\* One turn of the loop of ikcp_input.
InputSegment(e) ==
    /\ parsing[e]
    /\ pending[e] # <<>>
    /\ LET seg == Head(pending[e])
       IN  \/ InputAck(e, seg)
           \/ InputPush(e, seg)
           \/ InputAsk(e, seg)
           \/ InputTell(e, seg)
    /\ pending' = [pending EXCEPT ![e] = Tail(@)]
    /\ UNCHANGED <<snd_queue, snd_nxt, probe_wait, parsing>>
    /\ UNCHANGED <<netVars, histVars>>

\* After the loop: skipped segments are counted, and ikcp_input returns.
InputDone(e) ==
    /\ parsing[e]
    /\ pending[e] = <<>>
    /\ snd_buf' = [snd_buf EXCEPT ![e] =
            ParseFastack(@, snd_una[e], snd_nxt[e], maxack[e])]
    /\ parsing' = [parsing EXCEPT ![e] = FALSE]
    /\ maxack' = [maxack EXCEPT ![e] = -1]
    /\ UNCHANGED <<snd_queue, snd_una, snd_nxt, rmt_wnd, probe_wait, pending>>
    /\ UNCHANGED <<rcvVars, netVars, histVars>>

-----------------------------------------------------------------------------
(* ikcp_update and ikcp_flush                                              *)

\* The size of an encoded segment.
Size(seg) == Overhead + seg.frag.len

\* Datagrams end at the positions ends of the output: a segment that does not
\* fit below the mtu any more starts the next datagram.
IsPacking(out, ends) ==
    LET first(b)    == Max({0} \cup {a \in ends : a < b}) + 1
        bytes(i, j) == MapThenSumSet(LAMBDA k : Size(out[k]), i..j)
    IN  /\ out # <<>> => Len(out) \in ends
        /\ \A b \in ends :
            /\ bytes(first(b), b) <= Mtu
            /\ b < Len(out) => bytes(first(b), b + 1) > Mtu

Datagram(out, a, b) == [i \in 1..(b - a) |-> out[a + i]]

\* The datagrams between consecutive ends.
Datagrams(out, ends) ==
    { Datagram(out, ab[1], ab[2]) :
        ab \in { x \in (ends \cup {0}) \X ends :
            x[1] < x[2] /\ ~\E c \in ends : x[1] < c /\ c < x[2] } }

\* Hand the output of e to the socket.  What would exceed the bound on the
\* datagrams under way is lost at once.
Output(e, out) ==
    \E ends \in SUBSET (1..Len(out)) :
        LET all == net[Peer(e)] \cup Datagrams(out, ends)
        IN  /\ IsPacking(out, ends)
            /\ net' = IF Cardinality(all) <= MaxInFlight[Peer(e)]
                      THEN [net EXCEPT ![Peer(e)] = all]
                      ELSE net

\* snd_buf is kept in the order of its sequence numbers.
Ascending(f) == \A i, j \in DOMAIN f : i < j => f[i] < f[j]

\* Slip: one slot of rcv_queue is kept back.
WndUnused_OffByOne(e) == RcvWnd - Len(rcv_queue[e]) - 1

\* ikcp_wnd_unused: the free slots of rcv_queue.
WndUnused(e) ==
    IF Len(rcv_queue[e]) < RcvWnd THEN RcvWnd - Len(rcv_queue[e]) ELSE 0

\* Slip: the window of the peer does not limit what is sent.
MoveCount_IgnoresWindow(e) == Len(snd_queue[e])

\* How many fragments ikcp_flush moves from snd_queue to snd_buf.
MoveCount(e) ==
    LET cwnd == IF SndWnd <= rmt_wnd[e] THEN SndWnd ELSE rmt_wnd[e]
        room == snd_una[e] + cwnd - snd_nxt[e]
    IN  IF room <= 0 THEN 0
        ELSE IF room < Len(snd_queue[e]) THEN room ELSE Len(snd_queue[e])

\* The sequence numbers they are given.
NewSns(e) == snd_nxt[e]..(snd_nxt[e] + MoveCount(e) - 1)

\* The segments that are resent because enough later ones were acknowledged.
FastSns(e, expired) ==
    {sn \in DOMAIN snd_buf[e] \ expired : snd_buf[e][sn].fastack >= FastResend}

FlushedBuf(e, expired) ==
    [sn \in DOMAIN snd_buf[e] \cup NewSns(e) |->
        IF sn \in NewSns(e)
        THEN [frag |-> snd_queue[e][sn - snd_nxt[e] + 1], fastack |-> 0]
        ELSE IF sn \in FastSns(e, expired)
        THEN [snd_buf[e][sn] EXCEPT !.fastack = 0]
        ELSE snd_buf[e][sn]]

\* Slip: una names the segment that is expected as received.
MakeSegment_OffByOne(e, cmd, sn, frag) ==
    [cmd |-> cmd, sn |-> sn, una |-> rcv_nxt[e] + 1, wnd |-> WndUnused(e),
     frag |-> frag]

\* Every segment of a flush carries the same una and wnd.
MakeSegment(e, cmd, sn, frag) ==
    [cmd |-> cmd, sn |-> sn, una |-> rcv_nxt[e], wnd |-> WndUnused(e),
     frag |-> frag]

AckSegments(e) ==
    [i \in 1..Len(acklist[e]) |->
        MakeSegment(e, "ACK", acklist[e][i], NoFrag)]

\* The sn of a window command is left over from the last acknowledgement.
ProbeSegments(e, probing) ==
    LET last == IF acklist[e] = <<>> THEN 0 ELSE acklist[e][Len(acklist[e])]
        cmd(c, when) ==
            IF when THEN <<MakeSegment(e, c, last, NoFrag)>> ELSE <<>>
    IN  cmd("WASK", probing) \o cmd("WINS", probe[e])

\* The data segments, sent in the order of their sequence numbers.
PushSegments(e, expired, order) ==
    [i \in DOMAIN order |->
        MakeSegment(e, "PUSH", order[i], FlushedBuf(e, expired)[order[i]].frag)]

\* ikcp_flush, when the retransmission timers of the segments expired, and
\* the probe timer if probing, have run out.
Flush(e, expired, probing) ==
    /\ probing => rmt_wnd[e] = 0 /\ probe_wait[e]
    /\ probe_wait' = [probe_wait EXCEPT ![e] = (rmt_wnd[e] = 0)]
    /\ acklist' = [acklist EXCEPT ![e] = <<>>]
    /\ probe' = [probe EXCEPT ![e] = FALSE]
    /\ snd_queue' = [snd_queue EXCEPT ![e] = SubSeq(@, MoveCount(e) + 1, Len(@))]
    /\ snd_nxt' = [snd_nxt EXCEPT ![e] = @ + MoveCount(e)]
    /\ snd_buf' = [snd_buf EXCEPT ![e] = FlushedBuf(e, expired)]
    /\ LET resend == NewSns(e) \cup expired \cup FastSns(e, expired)
       IN  \E order \in [1..Cardinality(resend) -> resend] :
            /\ Ascending(order)
            /\ Output(e, AckSegments(e) \o ProbeSegments(e, probing)
                        \o PushSegments(e, expired, order))

\* A call of ikcp_update that finds the flush time reached.
UpdateWith(e, expired, probing) ==
    /\ ~parsing[e]
    /\ Flush(e, expired, probing)
    /\ UNCHANGED <<snd_una, rmt_wnd, rcv_buf, rcv_queue, rcv_nxt, dups>>
    /\ UNCHANGED <<inpVars, histVars>>

Update(e) ==
    \E expired \in SUBSET DOMAIN snd_buf[e], probing \in BOOLEAN :
        UpdateWith(e, expired, probing)

-----------------------------------------------------------------------------
(* The UDP path                                                            *)

\* A datagram reaches e between two callbacks of its event loop.
Reaches(e, d) ==
    /\ ~parsing[e]
    /\ d \in net[e]
    /\ Len(acklist[e]) + Cardinality({i \in DOMAIN d : d[i].cmd = "PUSH"})
            <= MaxAcks

\* It is handed to ikcp_input.
Arrive(e, d) ==
    /\ Reaches(e, d)
    /\ parsing' = [parsing EXCEPT ![e] = TRUE]
    /\ pending' = [pending EXCEPT ![e] = d]
    /\ UNCHANGED <<maxack, sndVars, rcvVars, histVars>>

Deliver(e, d) ==
    /\ Arrive(e, d)
    /\ net' = [net EXCEPT ![e] = @ \ {d}]
    /\ UNCHANGED dups

\* A copy arrives; the datagram is still under way.
Duplicate(e, d) ==
    /\ dups < MaxDup
    /\ Arrive(e, d)
    /\ dups' = dups + 1
    /\ UNCHANGED net

\* It is lost, no earlier than it would have arrived.
Lose(e, d) ==
    /\ Reaches(e, d)
    /\ net' = [net EXCEPT ![e] = @ \ {d}]
    /\ UNCHANGED <<dups, sndVars, rcvVars, inpVars, histVars>>

Next ==
    \E e \in Endpoint :
        \/ Send(e)
        \/ Recv(e)
        \/ InputSegment(e)
        \/ InputDone(e)
        \/ Update(e)
        \/ \E d \in net[e] : Deliver(e, d) \/ Duplicate(e, d) \/ Lose(e, d)

Spec == Init /\ [][Next]_vars

-----------------------------------------------------------------------------
(* Fairness                                                                *)

\* A flush that is not lost at once.
SentUpdate(e) == Update(e) /\ net' # net

\* One that finds the timer of the oldest segment or of the probe run out.
TimedUpdate(e) ==
    \E expired \in SUBSET DOMAIN snd_buf[e], probing \in BOOLEAN :
        /\ snd_una[e] \in expired \/ probing
        /\ UpdateWith(e, expired, probing)
        /\ net' # net

\* A segment that e is waiting for: the next data or data to acknowledge
\* again, an acknowledgement of its oldest segment, or a word on the window.
Awaited(e, seg) ==
    \/ seg.cmd = "PUSH" /\ seg.sn <= rcv_nxt[e]
    \/ seg.cmd = "ACK" /\ seg.sn = snd_una[e]
    \/ seg.una > snd_una[e]
    \/ seg.cmd \in {"WASK", "WINS"}

DeliverAwaited(e) ==
    \E d \in net[e] :
        /\ \E i \in DOMAIN d : Awaited(e, d[i])
        /\ Deliver(e, d)

\* The event loop runs every handler to its end, the 10 ms timer keeps calling
\* ikcp_update while the clock passes every timeout, no datagram travels for
\* ever, and the network does not lose every copy of what an endpoint is
\* waiting for.  The users read until nothing is left, as KcpTest/KcpSvr.cpp
\* does; this is a promise of ikcp.c to such users, and the data sessions of the
\* tunnel, which read once for each datagram, do less.
Fairness ==
    \A e \in Endpoint :
        /\ WF_vars(InputSegment(e))
        /\ WF_vars(InputDone(e))
        /\ SF_vars(Recv(e))
        /\ WF_vars(Update(e))
        /\ SF_vars(SentUpdate(e))
        /\ SF_vars(TimedUpdate(e))
        /\ SF_vars(DeliverAwaited(e))
        /\ WF_vars(\E d \in net[e] : Deliver(e, d) \/ Lose(e, d))

FairSpec == Spec /\ Fairness

-----------------------------------------------------------------------------
(* Safety                                                                  *)

SndTypeOK ==
    /\ snd_queue \in [Endpoint -> Seq(Fragment)]
    /\ DOMAIN snd_buf = Endpoint
    /\ \A e \in Endpoint :
        /\ DOMAIN snd_buf[e] \subseteq Nat
        /\ \A sn \in DOMAIN snd_buf[e] :
            snd_buf[e][sn] \in [frag : Fragment, fastack : 0..FastResend]
    /\ snd_una \in [Endpoint -> Nat]
    /\ snd_nxt \in [Endpoint -> Nat]
    /\ rmt_wnd \in [Endpoint -> Nat]
    /\ probe_wait \in [Endpoint -> BOOLEAN]

RcvTypeOK ==
    /\ DOMAIN rcv_buf = Endpoint
    /\ \A e \in Endpoint :
        /\ DOMAIN rcv_buf[e] \subseteq Nat
        /\ \A sn \in DOMAIN rcv_buf[e] : rcv_buf[e][sn] \in Fragment
    /\ rcv_queue \in [Endpoint -> Seq(Fragment)]
    /\ rcv_nxt \in [Endpoint -> Nat]
    /\ acklist \in [Endpoint -> Seq(Nat)]
    /\ probe \in [Endpoint -> BOOLEAN]

InpTypeOK ==
    /\ parsing \in [Endpoint -> BOOLEAN]
    /\ pending \in [Endpoint -> Seq(Segment)]
    /\ maxack \in [Endpoint -> Nat \cup {-1}]

NetTypeOK ==
    /\ DOMAIN net = Endpoint
    /\ \A e \in Endpoint : \A d \in net[e] : d \in Seq(Segment)
    /\ dups \in Nat

HistTypeOK ==
    /\ sent \in [Endpoint -> Seq(Fragment)]
    /\ accepted \in [Endpoint -> Seq(Seq(Fragment))]
    /\ delivered \in [Endpoint -> Seq(Seq(Fragment))]

\* The state is well formed; in particular the window that is advertised and
\* every difference of counters that ikcp.c stores unsigned stays non-negative.
TypeOK == SndTypeOK /\ RcvTypeOK /\ InpTypeOK /\ NetTypeOK /\ HistTypeOK

\* The receiver e holds the segment sn, or has already passed it on.
Stored(e, sn) == sn < rcv_nxt[e] \/ sn \in DOMAIN rcv_buf[e]

\* No segment is forgotten: once it has a sequence number it stays in snd_buf
\* until the peer has stored it.  ikcp_parse_ack and ikcp_parse_una free the
\* only copy, so an acknowledgement must never run ahead of ikcp_parse_data.
NoSegmentLost ==
    \A e \in Endpoint : \A sn \in 0..(snd_nxt[e] - 1) :
        sn \in DOMAIN snd_buf[e] \/ Stored(Peer(e), sn)

\* What the datagram d says e has received, e has stored.
Truthful(e, d) ==
    \A i \in DOMAIN d :
        /\ d[i].una <= rcv_nxt[e]
        /\ d[i].cmd = "ACK" => Stored(e, d[i].sn)

\* Acknowledgements tell the truth: what waits in acklist, and every sn and una
\* in a datagram under way or being parsed, however late or often it arrives,
\* names segments that the endpoint it comes from has stored.
AcksTellTruth ==
    \A e \in Endpoint :
        /\ \A i \in DOMAIN acklist[e] : Stored(e, acklist[e][i])
        /\ \A d \in net[e] \cup {pending[e]} : Truthful(Peer(e), d)

\* snd_buf holds only numbers between snd_una and snd_nxt.
BufInRange ==
    \A e \in Endpoint :
        /\ snd_una[e] <= snd_nxt[e]
        /\ \A sn \in DOMAIN snd_buf[e] : snd_una[e] <= sn /\ sn < snd_nxt[e]

\* Both windows bound the memory of an endpoint: at most snd_wnd segments are
\* unacknowledged, whatever old advertisements arrive late, rcv_queue never
\* exceeds rcv_wnd and rcv_buf stays inside the receive window.
WindowsHold ==
    \A e \in Endpoint :
        /\ snd_nxt[e] - snd_una[e] <= SndWnd
        /\ Len(rcv_queue[e]) <= RcvWnd
        /\ \A sn \in DOMAIN rcv_buf[e] :
            rcv_nxt[e] <= sn /\ sn < rcv_nxt[e] + RcvWnd

\* The inductive invariant behind NoSegmentLost and WindowsHold.
CoreInv ==
    TypeOK /\ BufInRange /\ AcksTellTruth /\ NoSegmentLost /\ WindowsHold

\* A full rcv_queue always starts with a complete message, so ikcp_recv can
\* make room: the fragment limit of ikcp_send keeps a message from filling the
\* receive window before its last fragment fits.
NoReassemblyDeadlock ==
    \A e \in Endpoint : Len(rcv_queue[e]) = RcvWnd =>
        \E n \in 1..Len(rcv_queue[e]) : IsMessage(rcv_queue[e], n)

\* The messages of the connection.
AllMessages ==
    { Fragments(m, len) :
        m \in 1..(MaxMsgs["B"] + MaxMsgs["C"]), len \in MsgLens }

F == INSTANCE Fifo WITH
        Message <- AllMessages, End <- Endpoint, Other <- Peer

\* The connection is a reliable FIFO of whole messages in each direction:
\* every ikcp_recv returns exactly the next message that ikcp_send took.
FifoSpec == F!Spec

-----------------------------------------------------------------------------
(* Liveness                                                                *)

\* Every message that ikcp_send took is handed out at the far side, although
\* any datagram may be lost and the window of the receiver may close: lost
\* segments and lost acknowledgements are made up for by retransmission, a
\* lost window update by the probe.
EveryMessageArrives ==
    \A e \in Endpoint : \A k \in 1..MaxMsgs[e] :
        Len(accepted[e]) >= k ~> Len(delivered[Peer(e)]) >= k

=============================================================================
