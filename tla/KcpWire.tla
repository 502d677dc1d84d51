------------------------------ MODULE KcpWire ------------------------------
(***************************************************************************)
(* What travels between the endpoints (src/kcp/ikcp.c): the list of         *)
(* acknowledgements that a flush empties, the header of a segment in bytes, *)
(* the packing of segments into datagrams, the walk of ikcp_input through   *)
(* one, and the look at it by which KcpServer chooses the session.          *)
(*                                                                          *)
(* A byte has ByteValues values, so that four bytes fit TLC's integers.     *)
(* Which segments are due is Kcp.tla's matter; here a flush sends any.      *)
(***************************************************************************)
EXTENDS Integers, Sequences, SequencesExt

CONSTANTS ByteValues,            \* 256: the values of a byte
          mtu,             \* IKCP_MTU_DEF
          FirstBlock,      \* 8: room of the first acklist
          AckSns, PushSegments, Current, Una, Window,  \* what segments carry
          Cuts,            \* where a datagram may be cut
          MaxAckPushes, MaxPushSegments   \* bounds

ASSUME WireAssumption == ByteValues > 84 /\ mtu >= 24

VARIABLES acklist,   \* 2 * ackblock words
          ackblock, ackcount,
          unflushed, \* history: the acknowledgements since the last flush
          pushes,    \* how many ever
          flushed,   \* history: the segments of the last flush
          outgoing,  \* its datagrams
          outcome      \* the outcome of ikcp_input on one of them

wireVars == <<acklist, ackblock, ackcount, unflushed, pushes, flushed, outgoing, outcome>>

IKCP_OVERHEAD == 24
IKCP_CMD == [PUSH |-> 81, ACK |-> 82, WASK |-> 83, WINS |-> 84]
Commands == {IKCP_CMD[c] : c \in DOMAIN IKCP_CMD}
Conv == 1
MinusOne == ByteValues ^ 4 - 1

(* ikcp_encode8u, 16u, 32u: the least significant byte first *)
encode(n, w) == [i \in 1 .. n |-> (w \div ByteValues ^ (i - 1)) % ByteValues]

(* The buffer that a datagram is read into was zeroed. *)
ByteAt(d, at) == IF at < Len(d) THEN d[at + 1] ELSE 0

(* ikcp_decode8u, 16u, 32u at an offset *)
decode(d, at, n) ==
  FoldLeft(LAMBDA w, i : w * ByteValues + ByteAt(d, at + n - i), 0, [i \in 1 .. n |-> i])

ikcp_encode_seg(seg) ==
  encode(4, seg.conv) \o encode(1, seg.cmd) \o encode(1, seg.frg) \o
  encode(2, seg.wnd) \o encode(4, seg.ts) \o encode(4, seg.sn) \o
  encode(4, seg.una) \o encode(4, Len(seg.data))

DecodeSeg(d, at) ==
  [conv |-> decode(d, at, 4), cmd |-> decode(d, at + 4, 1),
   frg |-> decode(d, at + 5, 1), wnd |-> decode(d, at + 6, 2),
   ts |-> decode(d, at + 8, 4), sn |-> decode(d, at + 12, 4),
   una |-> decode(d, at + 16, 4),
   data |-> [i \in 1 .. decode(d, at + 20, 4) |-> ByteAt(d, at + 23 + i)]]

-----------------------------------------------------------------------------
(* ikcp_ack_push: the list doubles until there is room *)
NewBlock(newsize) == CHOOSE b \in {FirstBlock * 2 ^ k : k \in 0 .. newsize} :
                       b >= newsize /\ (b = FirstBlock \/ b \div 2 < newsize)
Garbage == -1

\* Slip: one word of each pair is copied for each acknowledgement.
GrownList_Half(size) ==
  [x \in 1 .. 2 * NewBlock(size) |->
     IF x <= ackcount THEN acklist[x] ELSE Garbage]
GrownList(size) ==
  [x \in 1 .. 2 * NewBlock(size) |->
     IF x <= 2 * ackcount THEN acklist[x] ELSE Garbage]

ikcp_ack_push(sn, ts) ==
  LET newsize == ackcount + 1
      list == IF newsize > ackblock THEN GrownList(newsize) ELSE acklist
  IN  /\ pushes < MaxAckPushes
      /\ acklist' = [list EXCEPT ![2 * ackcount + 1] = sn, ![2 * ackcount + 2] = ts]
      /\ ackblock' = Len(list) \div 2
      /\ ackcount' = newsize
      /\ unflushed' = Append(unflushed, <<sn, ts>>)
      /\ pushes' = pushes + 1
      /\ flushed' = <<>> /\ outgoing' = <<>> /\ outcome' = <<>>

ikcp_ack_get(p) == <<acklist[2 * p + 1], acklist[2 * p + 2]>>

-----------------------------------------------------------------------------
(* ikcp_flush.  seg, which acknowledgements and probes share, keeps the sn  *)
(* and the ts of the last acknowledgement.                                  *)
WireSegment(cmd, ack, frg, data) ==
  [conv |-> Conv, cmd |-> IKCP_CMD[cmd], frg |-> frg, wnd |-> Window,
   ts |-> ack[2], sn |-> ack[1], una |-> Una, data |-> data]

AckSegments == [i \in 1 .. ackcount |-> WireSegment("ACK", ikcp_ack_get(i - 1), 0, <<>>)]
ProbeSegment(cmd) ==
  WireSegment(cmd, IF ackcount = 0 THEN <<0, 0>> ELSE ikcp_ack_get(ackcount - 1), 0, <<>>)
PushSegment(p) ==
  WireSegment("PUSH", <<p.sn, Current>>, p.frg, [i \in 1 .. p.len |-> i % ByteValues])

SegmentFits(ptr, seg) == Len(ptr) + IKCP_OVERHEAD + Len(seg.data) <= mtu

(* ikcp_output does nothing for an empty buffer *)
ikcp_output(out, buffer) == IF buffer = <<>> THEN out ELSE Append(out, buffer)

Packed(segs) ==
  LET Put(b, seg) ==
        LET bytes == ikcp_encode_seg(seg) \o seg.data
        IN  IF SegmentFits(b.ptr, seg) THEN [b EXCEPT !.ptr = @ \o bytes]
            ELSE [ptr |-> bytes, out |-> ikcp_output(b.out, b.ptr)]
      last == FoldLeft(Put, [ptr |-> <<>>, out |-> <<>>], segs)
  IN  ikcp_output(last.out, last.ptr)

FlushSegments(ask, tell, data) ==
  LET segs == AckSegments \o (IF ask THEN <<ProbeSegment("WASK")>> ELSE <<>>)
                   \o (IF tell THEN <<ProbeSegment("WINS")>> ELSE <<>>)
                   \o [i \in DOMAIN data |-> PushSegment(data[i])]
  IN  /\ outgoing = <<>>   \* those of an earlier flush have arrived or are lost
      /\ flushed' = segs
      /\ outgoing' = Packed(segs)
      /\ ackcount' = 0
      /\ unflushed' = <<>> /\ outcome' = <<>>
      /\ UNCHANGED <<acklist, ackblock, pushes>>

-----------------------------------------------------------------------------
(* One turn of ikcp_input's loop; a refusal keeps what earlier turns did. *)
TooShort(d, at) ==
  LET len == decode(d, at + 20, 4)
  IN  len > Len(d) - at - IKCP_OVERHEAD \/ len >= ByteValues ^ 4 \div 2

Walk(d) ==
  LET Turn(r, i) ==
        LET seg == DecodeSeg(d, r.at)
            Refuse(code) == [r EXCEPT !.ret = code, !.done = TRUE]
        IN  CASE r.done -> r
              [] Len(d) - r.at < IKCP_OVERHEAD -> [r EXCEPT !.done = TRUE]
              [] seg.conv # Conv -> Refuse(-1)
              [] TooShort(d, r.at) -> Refuse(-2)
              [] seg.cmd \notin Commands -> Refuse(-3)
              [] OTHER -> [r EXCEPT !.at = @ + IKCP_OVERHEAD + Len(seg.data),
                                    !.segs = Append(@, seg)]
  IN  FoldLeft(Turn, [at |-> 0, ret |-> 0, done |-> FALSE, segs |-> <<>>],
               [i \in 1 .. Len(d) \div IKCP_OVERHEAD + 1 |-> i])

Refused == [at |-> 0, ret |-> -1, done |-> TRUE, segs |-> <<>>]
InputWalk(d) == IF Len(d) < IKCP_OVERHEAD THEN Refused ELSE Walk(d)

(* A datagram arrives, or the first part of it from a sender that is not    *)
(* kcp.                                                                     *)
InputCut(i, cut) ==
  /\ outcome = <<>> /\ cut <= Len(outgoing[i])
  /\ outcome' = <<i, InputWalk(SubSeq(outgoing[i], 1, cut)), cut>>
  /\ UNCHANGED <<acklist, ackblock, ackcount, unflushed, pushes, flushed, outgoing>>

(* KcpServer::dispatchKcpPacket: the session, or -1 for a packet refused *)
ikcp_getconv(d) == decode(d, 0, 4)
ikcp_getsn(d) == IF Len(d) < IKCP_OVERHEAD THEN MinusOne ELSE decode(d, 12, 4)
dispatchKcpPacket(d) == IF ikcp_getsn(d) = MinusOne THEN -1 ELSE ikcp_getconv(d)

WireInit ==
  /\ acklist = <<>> /\ ackblock = 0 /\ ackcount = 0
  /\ unflushed = <<>> /\ pushes = 0
  /\ flushed = <<>> /\ outgoing = <<>> /\ outcome = <<>>

WireNext ==
  \/ \E sn \in AckSns : ikcp_ack_push(sn, Current)
  \/ \E ask, tell \in BOOLEAN, data \in SeqOf(PushSegments, MaxPushSegments) :
       FlushSegments(ask, tell, data)
  \/ \E i \in DOMAIN outgoing : \E cut \in Cuts \cup {Len(outgoing[i])} : InputCut(i, cut)

WireSpec == WireInit /\ [][WireNext]_wireVars

-----------------------------------------------------------------------------
(* The list holds as many acknowledgements as it has room for, and a        *)
(* datagram is not empty and not longer than the mtu, which the buffer of   *)
(* ikcp_create has room for.                                                *)
WireTypeOK ==
  /\ ackcount \in 0 .. ackblock /\ Len(acklist) = 2 * ackblock
  /\ pushes \in 0 .. MaxAckPushes
  /\ \A i \in DOMAIN outgoing : Len(outgoing[i]) \in 1 .. mtu

(* Growing the list and using it again after a flush (ikcp_ack_push) loses  *)
(* and mixes up nothing: ikcp_ack_get gives back, in order, what was pushed *)
(* since the last flush.                                                    *)
AcksSurviveGrowth ==
  /\ ackcount = Len(unflushed)
  /\ \A i \in 1 .. ackcount : ikcp_ack_get(i - 1) = unflushed[i]

(* What ikcp_flush packs, ikcp_input finds: the datagrams of a flush, each  *)
(* read from its start, hold its segments with every field and byte, in     *)
(* order and once.                                                          *)
FlushReadsBack ==
  FlattenSeq([i \in DOMAIN outgoing |-> InputWalk(outgoing[i]).segs]) = flushed

(* A datagram cut anywhere does no harm: ikcp_input applies the segments    *)
(* that are whole, nothing else, and says so unless the rest is shorter     *)
(* than a header.                                                           *)
CutAppliesPrefix ==
  outcome # <<>> =>
    LET all == InputWalk(outgoing[outcome[1]]).segs
        r == outcome[2]
        Size(segs) == FoldLeft(LAMBDA n, s : n + IKCP_OVERHEAD + Len(s.data), 0, segs)
        whole == {k \in 0 .. Len(all) : Size(SubSeq(all, 1, k)) <= outcome[3]}
    IN  /\ \E k \in whole : r.segs = SubSeq(all, 1, k) /\ \A j \in whole : j <= k
        /\ r.ret = 0 <=> /\ outcome[3] >= IKCP_OVERHEAD
                         /\ outcome[3] - Size(r.segs) < IKCP_OVERHEAD

(* KcpServer::dispatchKcpPacket gives every datagram of a flush to its      *)
(* session, except one that begins with sn 2^32 - 1, which it takes for a   *)
(* short one each time it is sent.                                          *)
OnlyLastSnRefused ==
  \A i \in DOMAIN outgoing :
    dispatchKcpPacket(outgoing[i]) =
      IF InputWalk(outgoing[i]).segs[1].sn = MinusOne THEN -1 ELSE Conv

(* What a flush writes is what ikcp_input reads: the acknowledgements, the *)
(* segments, and of a cut datagram the whole segments before the cut.      *)
WireInv ==
  /\ WireTypeOK /\ AcksSurviveGrowth /\ FlushReadsBack
  /\ CutAppliesPrefix /\ OnlyLastSnRefused
=============================================================================
