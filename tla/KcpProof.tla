------------------------------ MODULE KcpProof ------------------------------
(***************************************************************************)
(* Machine-checked proofs about Kcp: the invariant CoreInv is inductive,   *)
(* so that for every window size, mtu, message length and bound the state  *)
(* is well formed, no segment is lost and both windows hold.  From it Kcp  *)
(* implements Fifo: whatever the network loses, reorders and duplicates,   *)
(* each ikcp_recv returns exactly the next message that ikcp_send took at  *)
(* the far side; and a full rcv_queue can always be read.                  *)
(***************************************************************************)
EXTENDS Kcp, DataFacts

-----------------------------------------------------------------------------
(* Facts about the data.                                                   *)

\* The endpoints come in a pair.
LEMMA PeerFacts ==
    \A e \in Endpoint :
        Peer(e) \in Endpoint /\ Peer(e) # e /\ Peer(Peer(e)) = e
  BY DEF Peer, Endpoint

\* A message has at least one fragment, and its fragments are of their type.
LEMMA FragmentsType ==
    ASSUME NEW m \in Nat, NEW len \in MsgLens
    PROVE  Fragments(m, len) \in Seq(Fragment)
  <1> DEFINE count == FragmentCount(len)
  <1>1. Mss \in Nat \ {0} /\ len \in Nat \ {0}
    BY KcpAssumption DEF Mss
  <1>2. count \in Nat \ {0} /\ (count - 1) * Mss <= len
    BY <1>1 DEF FragmentCount
  <1>3. \A i \in 1..count :
            [msg |-> m, frg |-> count - i,
             len |-> IF i < count THEN Mss ELSE len - (count - 1) * Mss]
                \in Fragment
    BY <1>1, <1>2 DEF Fragment
  <1> QED
    BY <1>2, <1>3 DEF Fragments

\* ikcp_shrink_buf returns a number that no segment left in snd_buf precedes,
\* and that is not below a bound that held for all of them.
LEMMA ShrinkFacts ==
    ASSUME NEW buf, DOMAIN buf \subseteq Nat, NEW nxt \in Nat,
           NEW low \in Nat, low <= nxt, \A sn \in DOMAIN buf : low <= sn /\ sn < nxt
    PROVE  /\ ShrinkBuf(buf, nxt) \in Nat
           /\ low <= ShrinkBuf(buf, nxt)
           /\ ShrinkBuf(buf, nxt) <= nxt
           /\ \A sn \in DOMAIN buf : ShrinkBuf(buf, nxt) <= sn
  BY MinFacts DEF ShrinkBuf

\* The move from rcv_buf to rcv_queue at the end of ikcp_parse_data and of
\* ikcp_recv: nothing that is in buf is dropped, the order number only grows,
\* and neither the queue nor the window overflows.
LEMMA MoveFacts ==
    ASSUME RcvTypeOK, NEW e \in Endpoint, NEW queue \in Seq(Fragment), NEW buf,
           DOMAIN buf \subseteq Nat, \A sn \in DOMAIN buf : buf[sn] \in Fragment,
           MoveToQueue(e, queue, buf)
    PROVE  /\ rcv_queue' \in [Endpoint -> Seq(Fragment)]
           /\ rcv_nxt' \in [Endpoint -> Nat]
           /\ DOMAIN rcv_buf' = Endpoint
           /\ \A f \in Endpoint :
                /\ DOMAIN rcv_buf'[f] \subseteq Nat
                /\ \A sn \in DOMAIN rcv_buf'[f] : rcv_buf'[f][sn] \in Fragment
           /\ \A f \in Endpoint \ {e} :
                /\ rcv_queue'[f] = rcv_queue[f]
                /\ rcv_nxt'[f] = rcv_nxt[f]
                /\ rcv_buf'[f] = rcv_buf[f]
           /\ rcv_nxt[e] <= rcv_nxt'[e]
           /\ \A sn \in Nat : sn \in DOMAIN buf => Stored(e, sn)'
           /\ DOMAIN rcv_buf'[e] \subseteq DOMAIN buf
           /\ \A sn \in DOMAIN rcv_buf'[e] : rcv_nxt'[e] <= sn
           /\ Len(rcv_queue'[e]) <= RcvWnd \/ Len(rcv_queue'[e]) <= Len(queue)
  <1> USE DEF RcvTypeOK
  <1>1. PICK n \in 0..RcvWnd :
        /\ MovesToQueue(n, rcv_nxt[e], buf, Len(queue))
        /\ rcv_queue' = [rcv_queue EXCEPT ![e] =
                queue \o [i \in 1..n |-> buf[rcv_nxt[e] + i - 1]]]
        /\ rcv_buf' = [rcv_buf EXCEPT ![e] =
                [s \in {x \in DOMAIN buf : x >= rcv_nxt[e] + n} |-> buf[s]]]
        /\ rcv_nxt' = [rcv_nxt EXCEPT ![e] = @ + n]
    BY DEF MoveToQueue
  <1> DEFINE moved == [i \in 1..n |-> buf[rcv_nxt[e] + i - 1]]
  <1>2. n \in Nat /\ RcvWnd \in Nat
    BY KcpAssumption
  <1>3. moved \in Seq(Fragment) /\ Len(moved) = n
    <2>1. ASSUME NEW i \in 1..n
          PROVE  rcv_nxt[e] + i - 1 \in DOMAIN buf
      <3>1. rcv_nxt[e] + i - 1 \in rcv_nxt[e]..(rcv_nxt[e] + n - 1)
        BY <1>2
      <3> QED
        BY <1>1, <3>1 DEF MovesToQueue
    <2>2. \A i \in 1..n : buf[rcv_nxt[e] + i - 1] \in Fragment
      BY <2>1
    <2> QED
      BY <1>2, <2>2
  <1>4. queue \o moved \in Seq(Fragment) /\ Len(queue \o moved) = Len(queue) + n
    BY <1>2, <1>3
  <1>5. rcv_queue' \in [Endpoint -> Seq(Fragment)]
    BY <1>1, <1>4
  <1>6. rcv_nxt' \in [Endpoint -> Nat] /\ rcv_nxt'[e] = rcv_nxt[e] + n
    BY <1>1, <1>2
  <1>7. /\ DOMAIN rcv_buf' = Endpoint
        /\ DOMAIN rcv_buf'[e] = {x \in DOMAIN buf : x >= rcv_nxt[e] + n}
        /\ \A sn \in DOMAIN rcv_buf'[e] : rcv_buf'[e][sn] = buf[sn]
        /\ \A f \in Endpoint \ {e} : rcv_buf'[f] = rcv_buf[f]
    BY <1>1
  <1>8. \A sn \in Nat : sn \in DOMAIN buf => Stored(e, sn)'
    BY <1>2, <1>6, <1>7 DEF Stored
  <1>9. Len(rcv_queue'[e]) <= RcvWnd \/ Len(rcv_queue'[e]) <= Len(queue)
    BY <1>1, <1>2, <1>4 DEF MovesToQueue
  <1> QED
    BY <1>1, <1>2, <1>5, <1>6, <1>7, <1>8, <1>9

-----------------------------------------------------------------------------
(* What the halves of ikcp_input guarantee.                                *)

\* A step only grows what e has stored, and only tells the truth about it.
RcvGrows(e) ==
    /\ RcvTypeOK'
    /\ \A f \in Endpoint \ {e} :
        /\ rcv_nxt'[f] = rcv_nxt[f]
        /\ rcv_buf'[f] = rcv_buf[f]
        /\ rcv_queue'[f] = rcv_queue[f]
        /\ acklist'[f] = acklist[f]
    /\ rcv_nxt[e] <= rcv_nxt'[e]
    /\ \A sn \in Nat : Stored(e, sn) => Stored(e, sn)'
    /\ \A i \in DOMAIN acklist'[e] : Stored(e, acklist[e][i])'
    /\ Len(rcv_queue'[e]) <= RcvWnd
    /\ \A sn \in DOMAIN rcv_buf'[e] :
        rcv_nxt'[e] <= sn /\ sn < rcv_nxt'[e] + RcvWnd

\* A step only drops from snd_buf what the peer of e has stored.
SndShrinks(e) ==
    /\ SndTypeOK'
    /\ snd_nxt' = snd_nxt
    /\ \A f \in Endpoint \ {e} :
        snd_buf'[f] = snd_buf[f] /\ snd_una'[f] = snd_una[f]
    /\ \A sn \in DOMAIN snd_buf[e] :
        sn \in DOMAIN snd_buf'[e] \/ Stored(Peer(e), sn)
    /\ snd_una[e] <= snd_una'[e] /\ snd_una'[e] <= snd_nxt[e]
    /\ \A sn \in DOMAIN snd_buf'[e] : snd_una'[e] <= sn /\ sn < snd_nxt[e]

\* A step that leaves the receiving half alone.
LEMMA RcvUnchanged ==
    ASSUME CoreInv, NEW e \in Endpoint,
           UNCHANGED <<rcv_buf, rcv_queue, rcv_nxt, acklist>>,
           probe' \in [Endpoint -> BOOLEAN]
    PROVE  RcvGrows(e)
  <1>1. RcvTypeOK'
    BY DEF CoreInv, TypeOK, RcvTypeOK
  <1>2. \A sn : Stored(e, sn) => Stored(e, sn)'
    BY DEF Stored
  <1>3. \A i \in DOMAIN acklist'[e] : Stored(e, acklist[e][i])'
    BY DEF CoreInv, AcksTellTruth, Stored
  <1> QED
    BY <1>1, <1>2, <1>3
    DEF CoreInv, TypeOK, RcvTypeOK, RcvGrows, WindowsHold

\* A step that leaves the sending half alone.
LEMMA SndUnchanged ==
    ASSUME CoreInv, NEW e \in Endpoint, UNCHANGED <<snd_buf, snd_una, snd_nxt>>,
           SndTypeOK'
    PROVE  SndShrinks(e)
  BY DEF CoreInv, TypeOK, SndTypeOK, SndShrinks, BufInRange

\* What e says stays true while what e has stored grows.
LEMMA TruthStays ==
    ASSUME TypeOK, NEW e \in Endpoint, RcvGrows(e), NEW f \in Endpoint,
           NEW d \in Seq(Segment), Truthful(f, d)
    PROVE  Truthful(f, d)'
  <1>1. rcv_nxt[f] <= rcv_nxt'[f] /\ rcv_nxt[f] \in Nat /\ rcv_nxt'[f] \in Nat
    <2>1. rcv_nxt[f] \in Nat /\ rcv_nxt'[f] \in Nat
      BY DEF TypeOK, RcvTypeOK, RcvGrows
    <2> QED
      BY <2>1 DEF RcvGrows
  <1>2. \A sn \in Nat : Stored(f, sn) => Stored(f, sn)'
    BY DEF RcvGrows, Stored
  <1>3. \A i \in DOMAIN d : d[i] \in Segment
    OBVIOUS
  <1> QED
    BY <1>1, <1>2, <1>3, SMTT(40) DEF Truthful, Segment

\* A step that shrinks snd_buf and grows what is stored keeps the invariant,
\* as long as it puts no new datagram on its way.
LEMMA StepKeepsCore ==
    ASSUME CoreInv, NEW e \in Endpoint, SndShrinks(e), RcvGrows(e),
           InpTypeOK', NetTypeOK', HistTypeOK',
           \A f \in Endpoint :
            \A d \in net'[f] \cup {pending'[f]} : Truthful(Peer(f), d)
    PROVE  CoreInv'
  <1>1. TypeOK'
    BY DEF TypeOK, SndShrinks, RcvGrows
  <1>2. BufInRange'
    BY DEF CoreInv, BufInRange, SndShrinks
  <1>3. AcksTellTruth'
    <2>1. ASSUME NEW f \in Endpoint, NEW d \in net'[f] \cup {pending'[f]}
          PROVE  Truthful(Peer(f), d)'
      <3>1. d \in Seq(Segment)
        BY DEF InpTypeOK, NetTypeOK
      <3> QED
        BY <3>1, PeerFacts, TruthStays DEF CoreInv
    <2>2. ASSUME NEW f \in Endpoint, NEW i \in DOMAIN acklist'[f]
          PROVE  Stored(f, acklist[f][i])'
      <3>1. CASE f = e
        BY <3>1 DEF RcvGrows
      <3>2. CASE f # e
        BY <3>2 DEF RcvGrows, CoreInv, AcksTellTruth, Stored
      <3> QED
        BY <3>1, <3>2
    <2> QED
      BY <2>1, <2>2 DEF AcksTellTruth
  <1>4. NoSegmentLost'
    <2>1. \A f \in Endpoint, sn \in Nat : Stored(f, sn) => Stored(f, sn)'
      BY DEF RcvGrows, Stored
    <2>2. ASSUME NEW f \in Endpoint, NEW sn \in 0..(snd_nxt'[f] - 1)
          PROVE  sn \in DOMAIN snd_buf'[f] \/ Stored(Peer(f), sn)'
      <3>1. sn \in Nat /\ sn \in 0..(snd_nxt[f] - 1)
        BY DEF SndShrinks, SndTypeOK
      <3>2. sn \in DOMAIN snd_buf[f] \/ Stored(Peer(f), sn)
        BY <3>1 DEF CoreInv, NoSegmentLost
      <3>3. sn \in DOMAIN snd_buf'[f] \/ Stored(Peer(f), sn)
        BY <3>2 DEF SndShrinks
      <3> QED
        BY <2>1, <3>1, <3>3, PeerFacts
    <2> QED
      BY <2>2 DEF NoSegmentLost
  <1>5. WindowsHold'
    <2>1. \A f \in Endpoint : snd_nxt'[f] - snd_una'[f] <= SndWnd
      <3>1. \A f \in Endpoint :
                /\ snd_nxt[f] \in Nat /\ snd_una[f] \in Nat /\ snd_una'[f] \in Nat
                /\ snd_nxt[f] - snd_una[f] <= SndWnd
        BY DEF CoreInv, TypeOK, SndTypeOK, WindowsHold, SndShrinks
      <3>2. \A f \in Endpoint : snd_una[f] <= snd_una'[f]
        BY <3>1 DEF SndShrinks
      <3> QED
        BY <3>1, <3>2, KcpAssumption DEF SndShrinks
    <2>2. \A f \in Endpoint :
            /\ Len(rcv_queue'[f]) <= RcvWnd
            /\ \A sn \in DOMAIN rcv_buf'[f] :
                rcv_nxt'[f] <= sn /\ sn < rcv_nxt'[f] + RcvWnd
      BY DEF CoreInv, WindowsHold, RcvGrows
    <2> QED
      BY <2>1, <2>2 DEF WindowsHold
  <1> QED
    BY <1>1, <1>2, <1>3, <1>4, <1>5 DEF CoreInv

-----------------------------------------------------------------------------
(* The invariant holds initially and every action keeps it.                *)

LEMMA InitCore == ASSUME Init PROVE CoreInv
  <1> USE KcpAssumption DEF Init
  <1>1. TypeOK
    BY DEF TypeOK, SndTypeOK, RcvTypeOK, InpTypeOK, NetTypeOK, HistTypeOK
  <1>2. BufInRange /\ NoSegmentLost
    BY DEF BufInRange, NoSegmentLost
  <1>3. AcksTellTruth
    BY DEF AcksTellTruth, Truthful
  <1>4. WindowsHold
    BY DEF WindowsHold
  <1> QED
    BY <1>1, <1>2, <1>3, <1>4 DEF CoreInv

LEMMA SendCore ==
    ASSUME CoreInv, NEW e \in Endpoint, Send(e)
    PROVE  CoreInv'
  <1> USE DEF CoreInv, TypeOK
  <1>1. PICK len \in MsgLens :
            /\ snd_queue' = [snd_queue EXCEPT ![e] =
                    @ \o Fragments(Len(accepted[e]) + 1, len)]
            /\ sent' = [sent EXCEPT ![e] =
                    @ \o Fragments(Len(accepted[e]) + 1, len)]
            /\ accepted' = [accepted EXCEPT ![e] =
                    Append(@, Fragments(Len(accepted[e]) + 1, len))]
    BY DEF Send
  <1>2. Len(accepted[e]) + 1 \in Nat
    BY DEF HistTypeOK
  <1>3. Fragments(Len(accepted[e]) + 1, len) \in Seq(Fragment)
    BY <1>2, FragmentsType
  <1>4. SndTypeOK'
    <2>1. snd_queue' \in [Endpoint -> Seq(Fragment)]
      BY <1>1, <1>3 DEF SndTypeOK
    <2> QED
      BY <2>1 DEF Send, SndTypeOK
  <1>5. HistTypeOK'
    BY <1>1, <1>3 DEF Send, HistTypeOK
  <1>6. InpTypeOK' /\ NetTypeOK'
    BY DEF Send, inpVars, netVars, InpTypeOK, NetTypeOK
  <1>7. SndShrinks(e)
    BY <1>4, SndUnchanged DEF Send
  <1>8. RcvGrows(e)
    BY RcvUnchanged DEF Send, rcvVars, RcvTypeOK
  <1>9. \A f \in Endpoint :
            \A d \in net'[f] \cup {pending'[f]} : Truthful(Peer(f), d)
    BY DEF Send, netVars, inpVars, AcksTellTruth
  <1> QED
    BY <1>5, <1>6, <1>7, <1>8, <1>9, StepKeepsCore

LEMMA RecvCore ==
    ASSUME CoreInv, NEW e \in Endpoint, Recv(e)
    PROVE  CoreInv'
  <1> USE DEF CoreInv, TypeOK
  <1>1. PICK n \in 1..Len(rcv_queue[e]) :
            /\ delivered' = [delivered EXCEPT
                    ![e] = Append(@, SubSeq(rcv_queue[e], 1, n))]
            /\ MoveToQueue(e, SubSeq(rcv_queue[e], n + 1, Len(rcv_queue[e])),
                           rcv_buf[e])
    BY DEF Recv
  <1> DEFINE queue == SubSeq(rcv_queue[e], n + 1, Len(rcv_queue[e]))
  <1>2. /\ rcv_queue[e] \in Seq(Fragment)
        /\ queue \in Seq(Fragment)
        /\ SubSeq(rcv_queue[e], 1, n) \in Seq(Fragment)
        /\ Len(queue) <= Len(rcv_queue[e])
    BY DEF RcvTypeOK
  <1>3. /\ DOMAIN rcv_buf[e] \subseteq Nat
        /\ \A sn \in DOMAIN rcv_buf[e] : rcv_buf[e][sn] \in Fragment
    BY DEF RcvTypeOK
  <1>4. UNCHANGED <<acklist, sent, accepted, sndVars, inpVars, netVars>>
    BY DEF Recv
  <1>5. probe' \in [Endpoint -> BOOLEAN]
    BY DEF Recv, RcvTypeOK
  <1>6. RcvGrows(e)
    <2> HIDE DEF queue
    <2>1. RcvTypeOK'
      BY <1>1, <1>2, <1>3, <1>4, <1>5, MoveFacts DEF RcvTypeOK, queue
    <2>2. \A sn \in Nat : Stored(e, sn) => Stored(e, sn)'
      <3>1. \A sn \in Nat : sn \in DOMAIN rcv_buf[e] => Stored(e, sn)'
        BY <1>1, <1>2, <1>3, MoveFacts DEF queue
      <3>2. rcv_nxt[e] <= rcv_nxt'[e] /\ rcv_nxt[e] \in Nat /\ rcv_nxt'[e] \in Nat
        BY <1>1, <1>2, <1>3, MoveFacts DEF RcvTypeOK, queue
      <3> QED
        BY <3>1, <3>2 DEF Stored
    <2>3. \A i \in DOMAIN acklist'[e] : Stored(e, acklist[e][i])'
      <3>1. \A i \in DOMAIN acklist[e] :
                acklist[e][i] \in Nat /\ Stored(e, acklist[e][i])
        BY DEF AcksTellTruth, RcvTypeOK
      <3>2. ASSUME NEW i \in DOMAIN acklist'[e]
            PROVE  Stored(e, acklist[e][i])'
        <4>1. acklist[e][i] \in Nat /\ Stored(e, acklist[e][i])
          BY <1>4, <3>1
        <4>2. ASSUME NEW sn, sn \in Nat, Stored(e, sn)
              PROVE  sn < rcv_nxt'[e] \/ sn \in DOMAIN rcv_buf'[e]
          BY <2>2, <4>2 DEF Stored
        <4> QED
          BY <1>4, <4>1, <4>2 DEF Stored
      <3> QED
        BY <3>2
    <2>4. Len(queue) <= RcvWnd /\ RcvWnd \in Nat
      BY <1>2, KcpAssumption DEF WindowsHold
    <2>5. Len(rcv_queue'[e]) <= RcvWnd
      <3>1. Len(rcv_queue'[e]) <= RcvWnd \/ Len(rcv_queue'[e]) <= Len(queue)
        BY <1>1, <1>2, <1>3, MoveFacts DEF queue
      <3>2. Len(rcv_queue'[e]) \in Nat /\ Len(queue) \in Nat
        BY <1>2, <2>1 DEF RcvTypeOK
      <3> QED
        BY <2>4, <3>1, <3>2
    <2>6. \A sn \in DOMAIN rcv_buf'[e] :
            rcv_nxt'[e] <= sn /\ sn < rcv_nxt'[e] + RcvWnd
      <3>1. /\ DOMAIN rcv_buf'[e] \subseteq DOMAIN rcv_buf[e]
            /\ \A sn \in DOMAIN rcv_buf'[e] : rcv_nxt'[e] <= sn
            /\ rcv_nxt[e] <= rcv_nxt'[e]
        BY <1>1, <1>2, <1>3, MoveFacts DEF queue
      <3>2. \A sn \in DOMAIN rcv_buf[e] : sn \in Nat /\ sn < rcv_nxt[e] + RcvWnd
        BY <1>3 DEF WindowsHold
      <3>3. rcv_nxt[e] \in Nat /\ rcv_nxt'[e] \in Nat
        BY <2>1 DEF RcvTypeOK
      <3> QED
        BY <2>4, <3>1, <3>2, <3>3
    <2>7. /\ rcv_nxt[e] <= rcv_nxt'[e]
          /\ \A f \in Endpoint \ {e} :
                /\ rcv_nxt'[f] = rcv_nxt[f]
                /\ rcv_buf'[f] = rcv_buf[f]
                /\ rcv_queue'[f] = rcv_queue[f]
                /\ acklist'[f] = acklist[f]
      BY <1>1, <1>2, <1>3, <1>4, MoveFacts DEF queue
    <2> QED
      BY <2>1, <2>2, <2>3, <2>5, <2>6, <2>7 DEF RcvGrows
  <1>7. SndShrinks(e)
    BY <1>4, SndUnchanged DEF sndVars, SndTypeOK
  <1>8. HistTypeOK'
    BY <1>1, <1>2, <1>4 DEF HistTypeOK
  <1>9. InpTypeOK' /\ NetTypeOK'
    BY <1>4 DEF inpVars, netVars, InpTypeOK, NetTypeOK
  <1>10. \A f \in Endpoint :
            \A d \in net'[f] \cup {pending'[f]} : Truthful(Peer(f), d)
    BY <1>4 DEF netVars, inpVars, AcksTellTruth
  <1> QED
    BY <1>6, <1>7, <1>8, <1>9, <1>10, StepKeepsCore

\* A step that replaces snd_buf[e] by what is left of it, and sets snd_una[e]
\* to match, is as SndShrinks says.
LEMMA ShrinkStep ==
    ASSUME CoreInv, NEW e \in Endpoint, NEW buf, NEW seg \in Segment,
           DOMAIN buf \subseteq DOMAIN snd_buf[e],
           \A sn \in DOMAIN buf : buf[sn] = snd_buf[e][sn],
           \A sn \in DOMAIN snd_buf[e] :
                sn \in DOMAIN buf \/ Stored(Peer(e), sn),
           rmt_wnd' = [rmt_wnd EXCEPT ![e] = seg.wnd],
           snd_buf' = [snd_buf EXCEPT ![e] = buf],
           snd_una' = [snd_una EXCEPT ![e] = ShrinkBuf(buf, snd_nxt[e])],
           UNCHANGED <<snd_queue, snd_nxt, probe_wait>>
    PROVE  SndShrinks(e)
  <1> USE DEF CoreInv, TypeOK
  <1>1. DOMAIN buf \subseteq Nat /\ snd_nxt[e] \in Nat /\ snd_una[e] \in Nat
    BY DEF SndTypeOK
  <1>2. /\ snd_una[e] <= snd_nxt[e]
        /\ \A sn \in DOMAIN buf : snd_una[e] <= sn /\ sn < snd_nxt[e]
    BY DEF BufInRange
  <1>3. /\ ShrinkBuf(buf, snd_nxt[e]) \in Nat
        /\ snd_una[e] <= ShrinkBuf(buf, snd_nxt[e])
        /\ ShrinkBuf(buf, snd_nxt[e]) <= snd_nxt[e]
        /\ \A sn \in DOMAIN buf : ShrinkBuf(buf, snd_nxt[e]) <= sn
    BY <1>1, <1>2, ShrinkFacts
  <1>4. SndTypeOK'
    <2>1. rmt_wnd' \in [Endpoint -> Nat] /\ snd_una' \in [Endpoint -> Nat]
      BY <1>3 DEF SndTypeOK, Segment
    <2>2. /\ DOMAIN snd_buf' = Endpoint
          /\ snd_buf'[e] = buf
          /\ \A f \in Endpoint \ {e} : snd_buf'[f] = snd_buf[f]
      BY DEF SndTypeOK
    <2>3. \A f \in Endpoint :
            /\ DOMAIN snd_buf'[f] \subseteq Nat
            /\ \A sn \in DOMAIN snd_buf'[f] :
                snd_buf'[f][sn] \in [frag : Fragment, fastack : 0..FastResend]
      BY <1>1, <2>2 DEF SndTypeOK
    <2> QED
      BY <2>1, <2>2, <2>3 DEF SndTypeOK
  <1>5. snd_buf'[e] = buf /\ snd_una'[e] = ShrinkBuf(buf, snd_nxt[e])
    BY DEF SndTypeOK
  <1>6. \A f \in Endpoint \ {e} :
            snd_buf'[f] = snd_buf[f] /\ snd_una'[f] = snd_una[f]
    BY DEF SndTypeOK
  <1> QED
    BY <1>2, <1>3, <1>4, <1>5, <1>6 DEF SndShrinks

\* What ikcp_parse_una drops, the peer has stored.
LEMMA ParseUnaFacts ==
    ASSUME CoreInv, NEW e \in Endpoint, NEW una \in Nat,
           una <= rcv_nxt[Peer(e)]
    PROVE  /\ DOMAIN ParseUna(snd_buf[e], una) \subseteq DOMAIN snd_buf[e]
           /\ \A sn \in DOMAIN ParseUna(snd_buf[e], una) :
                ParseUna(snd_buf[e], una)[sn] = snd_buf[e][sn]
           /\ \A sn \in DOMAIN snd_buf[e] :
                \/ sn \in DOMAIN ParseUna(snd_buf[e], una)
                \/ Stored(Peer(e), sn)
  <1>1. DOMAIN snd_buf[e] \subseteq Nat /\ rcv_nxt[Peer(e)] \in Nat
    BY PeerFacts DEF CoreInv, TypeOK, SndTypeOK, RcvTypeOK
  <1>2. \A sn \in DOMAIN snd_buf[e] :
            \/ sn \in DOMAIN ParseUna(snd_buf[e], una)
            \/ sn < una
    BY <1>1 DEF ParseUna
  <1> QED
    BY <1>1, <1>2 DEF ParseUna, Stored

LEMMA HeaderCore ==
    ASSUME CoreInv, NEW e \in Endpoint, NEW seg \in Segment,
           seg.una <= rcv_nxt[Peer(e)], InputHeader(e, seg),
           UNCHANGED <<snd_queue, snd_nxt, probe_wait>>
    PROVE  SndShrinks(e)
  <1>1. seg.una \in Nat
    BY DEF Segment
  <1> QED
    BY <1>1, ParseUnaFacts, ShrinkStep DEF InputHeader

LEMMA AckCore ==
    ASSUME CoreInv, NEW e \in Endpoint, NEW seg \in Segment,
           seg.una <= rcv_nxt[Peer(e)], Stored(Peer(e), seg.sn),
           InputAck(e, seg), UNCHANGED <<snd_queue, snd_nxt, probe_wait>>
    PROVE  SndShrinks(e)
  <1> DEFINE first == ParseUna(snd_buf[e], seg.una)
             una   == ShrinkBuf(first, snd_nxt[e])
             buf   == ParseAck(first, una, snd_nxt[e], seg.sn)
  <1>1. seg.una \in Nat
    BY DEF Segment
  <1>2. /\ DOMAIN first \subseteq DOMAIN snd_buf[e]
        /\ \A sn \in DOMAIN first : first[sn] = snd_buf[e][sn]
        /\ \A sn \in DOMAIN snd_buf[e] :
                sn \in DOMAIN first \/ Stored(Peer(e), sn)
    BY <1>1, ParseUnaFacts
  <1> HIDE DEF first, una
  <1>3. /\ DOMAIN buf \subseteq DOMAIN first
        /\ \A sn \in DOMAIN buf : buf[sn] = first[sn]
        /\ \A sn \in DOMAIN first : sn \in DOMAIN buf \/ sn = seg.sn
    BY DEF ParseAck
  <1> HIDE DEF buf
  <1>4. /\ rmt_wnd' = [rmt_wnd EXCEPT ![e] = seg.wnd]
        /\ snd_buf' = [snd_buf EXCEPT ![e] = buf]
        /\ snd_una' = [snd_una EXCEPT ![e] = ShrinkBuf(buf, snd_nxt[e])]
    BY DEF InputAck, first, una, buf
  <1>5. /\ DOMAIN buf \subseteq DOMAIN snd_buf[e]
        /\ \A sn \in DOMAIN buf : buf[sn] = snd_buf[e][sn]
        /\ \A sn \in DOMAIN snd_buf[e] :
                sn \in DOMAIN buf \/ Stored(Peer(e), sn)
    BY <1>2, <1>3
  <1> QED
    BY <1>4, <1>5, ShrinkStep

\* What ikcp_input does with data: it stores before it acknowledges.
LEMMA PushCore ==
    ASSUME CoreInv, NEW e \in Endpoint, NEW seg \in Segment, InputPush(e, seg)
    PROVE  RcvGrows(e)
  <1> USE DEF CoreInv, TypeOK
  <1> DEFINE buf == InsertData(rcv_buf[e], rcv_nxt[e], seg.sn, seg.frag)
  <1>1. /\ seg.sn \in Nat /\ seg.frag \in Fragment
        /\ rcv_nxt[e] \in Nat /\ RcvWnd \in Nat
        /\ rcv_queue[e] \in Seq(Fragment) /\ Len(rcv_queue[e]) <= RcvWnd
        /\ acklist[e] \in Seq(Nat)
    BY KcpAssumption DEF Segment, RcvTypeOK, WindowsHold
  <1>2. probe' = probe
    BY DEF InputPush
  <1>3. CASE ~Acknowledges(e, seg.sn)
    <2>1. UNCHANGED <<acklist, rcv_buf, rcv_queue, rcv_nxt>>
      BY <1>3 DEF InputPush
    <2> QED
      BY <1>2, <2>1, RcvUnchanged DEF RcvTypeOK
  <1>4. CASE Acknowledges(e, seg.sn) /\ seg.sn < rcv_nxt[e]
    <2>1. /\ acklist' = [acklist EXCEPT ![e] = Append(@, seg.sn)]
          /\ UNCHANGED <<rcv_buf, rcv_queue, rcv_nxt>>
      BY <1>1, <1>4 DEF InputPush
    <2>2. RcvTypeOK'
      BY <1>1, <1>2, <2>1 DEF RcvTypeOK
    <2>3. \A i \in DOMAIN acklist'[e] : Stored(e, acklist[e][i])'
      <3>1. acklist'[e] = Append(acklist[e], seg.sn)
        BY <2>1 DEF RcvTypeOK
      <3>2. \A i \in DOMAIN acklist'[e] :
                acklist'[e][i] = seg.sn \/ Stored(e, acklist'[e][i])
        BY <1>1, <3>1 DEF AcksTellTruth
      <3> QED
        BY <1>4, <2>1, <3>2 DEF Stored
    <2> QED
      BY <1>1, <2>1, <2>2, <2>3 DEF RcvGrows, WindowsHold, Stored, RcvTypeOK
  <1>5. CASE Acknowledges(e, seg.sn) /\ seg.sn >= rcv_nxt[e]
    <2>1. /\ acklist' = [acklist EXCEPT ![e] = Append(@, seg.sn)]
          /\ MoveToQueue(e, rcv_queue[e], buf)
      BY <1>5 DEF InputPush
    <2>2. /\ DOMAIN buf = DOMAIN rcv_buf[e] \cup {seg.sn}
          /\ \A sn \in DOMAIN buf : sn \in Nat /\ buf[sn] \in Fragment
      BY <1>1, <1>5 DEF InsertData, Acknowledges, RcvTypeOK
    <2>3. \A sn \in DOMAIN buf : rcv_nxt[e] <= sn /\ sn < rcv_nxt[e] + RcvWnd
      BY <1>1, <1>5, <2>2 DEF Acknowledges, WindowsHold
    <2> HIDE DEF buf
    <2>4. /\ rcv_queue' \in [Endpoint -> Seq(Fragment)]
          /\ rcv_nxt' \in [Endpoint -> Nat]
          /\ DOMAIN rcv_buf' = Endpoint
          /\ \A f \in Endpoint :
                /\ DOMAIN rcv_buf'[f] \subseteq Nat
                /\ \A sn \in DOMAIN rcv_buf'[f] : rcv_buf'[f][sn] \in Fragment
          /\ \A f \in Endpoint \ {e} :
                /\ rcv_queue'[f] = rcv_queue[f]
                /\ rcv_nxt'[f] = rcv_nxt[f]
                /\ rcv_buf'[f] = rcv_buf[f]
          /\ rcv_nxt[e] <= rcv_nxt'[e]
          /\ \A sn \in Nat : sn \in DOMAIN buf => Stored(e, sn)'
          /\ DOMAIN rcv_buf'[e] \subseteq DOMAIN buf
          /\ \A sn \in DOMAIN rcv_buf'[e] : rcv_nxt'[e] <= sn
          /\ Len(rcv_queue'[e]) <= RcvWnd \/ Len(rcv_queue'[e]) <= Len(rcv_queue[e])
      BY <1>1, <2>1, <2>2, MoveFacts
    <2>5. RcvTypeOK'
      <3>1. acklist' \in [Endpoint -> Seq(Nat)]
        BY <1>1, <2>1 DEF RcvTypeOK
      <3> QED
        BY <1>2, <2>4, <3>1 DEF RcvTypeOK
    <2>6. \A sn \in Nat : Stored(e, sn) => Stored(e, sn)'
      BY <1>1, <2>2, <2>4 DEF Stored
    <2>7. \A i \in DOMAIN acklist'[e] : Stored(e, acklist[e][i])'
      <3>1. acklist'[e] = Append(acklist[e], seg.sn)
        BY <2>1 DEF RcvTypeOK
      <3>2. \A i \in DOMAIN acklist'[e] :
                /\ acklist'[e][i] \in Nat
                /\ acklist'[e][i] = seg.sn \/ Stored(e, acklist'[e][i])
        BY <1>1, <3>1 DEF AcksTellTruth
      <3>3. ASSUME NEW sn \in Nat, sn = seg.sn \/ Stored(e, sn)
            PROVE  sn < rcv_nxt'[e] \/ sn \in DOMAIN rcv_buf'[e]
        BY <2>2, <2>4, <2>6, <3>3 DEF Stored
      <3> QED
        BY <3>2, <3>3 DEF Stored
    <2>8. Len(rcv_queue'[e]) <= RcvWnd
      <3>1. Len(rcv_queue'[e]) \in Nat /\ Len(rcv_queue[e]) \in Nat
        BY <1>1, <2>4
      <3> QED
        BY <1>1, <2>4, <3>1
    <2>9. \A sn \in DOMAIN rcv_buf'[e] :
            rcv_nxt'[e] <= sn /\ sn < rcv_nxt'[e] + RcvWnd
      <3>1. rcv_nxt'[e] \in Nat /\ \A sn \in DOMAIN rcv_buf'[e] : sn \in Nat
        BY <2>4
      <3> QED
        BY <1>1, <2>3, <2>4, <3>1
    <2>10. \A f \in Endpoint \ {e} : acklist'[f] = acklist[f]
      BY <2>1 DEF RcvTypeOK
    <2> QED
      BY <2>4, <2>5, <2>6, <2>7, <2>8, <2>9, <2>10 DEF RcvGrows
  <1> QED
    BY <1>1, <1>3, <1>4, <1>5

LEMMA InputSegmentCore ==
    ASSUME CoreInv, NEW e \in Endpoint, InputSegment(e)
    PROVE  CoreInv'
  <1> USE DEF CoreInv, TypeOK
  <1> DEFINE seg == Head(pending[e])
  <1>1. pending[e] \in Seq(Segment) /\ pending[e] # <<>>
    BY DEF InputSegment, InpTypeOK
  <1>2. /\ seg \in Segment /\ seg = pending[e][1] /\ 1 \in DOMAIN pending[e]
        /\ Tail(pending[e]) \in Seq(Segment)
        /\ \A i \in DOMAIN Tail(pending[e]) :
            i + 1 \in DOMAIN pending[e] /\ Tail(pending[e])[i] = pending[e][i + 1]
    BY <1>1
  <1>3. Truthful(Peer(e), pending[e])
    BY DEF AcksTellTruth
  <1>4. /\ seg.una <= rcv_nxt[Peer(e)]
        /\ seg.cmd = "ACK" => Stored(Peer(e), seg.sn)
    BY <1>2, <1>3 DEF Truthful
  <1>5. Truthful(Peer(e), Tail(pending[e]))
    BY <1>2, <1>3 DEF Truthful
  <1> HIDE DEF seg
  <1>6. /\ UNCHANGED <<snd_queue, snd_nxt, probe_wait, parsing>>
        /\ UNCHANGED <<netVars, histVars>>
        /\ pending' = [pending EXCEPT ![e] = Tail(@)]
    BY DEF InputSegment
  <1>7. SndShrinks(e) /\ RcvGrows(e) /\ maxack' \in [Endpoint -> Nat \cup {-1}]
    <2>1. CASE InputAck(e, seg)
      <3>1. SndShrinks(e)
        BY <1>2, <1>4, <1>6, <2>1, AckCore DEF InputAck
      <3>2. RcvGrows(e)
        BY <2>1, RcvUnchanged DEF InputAck, rcvVars, RcvTypeOK
      <3>3. maxack' \in [Endpoint -> Nat \cup {-1}]
        BY <1>2, <2>1 DEF InputAck, InpTypeOK, Segment
      <3> QED
        BY <3>1, <3>2, <3>3
    <2>2. CASE InputPush(e, seg)
      <3>1. SndShrinks(e) /\ maxack' = maxack
        BY <1>2, <1>4, <1>6, <2>2, HeaderCore DEF InputPush, InputHeader
      <3>2. RcvGrows(e)
        BY <1>2, <2>2, PushCore
      <3> QED
        BY <3>1, <3>2 DEF InpTypeOK
    <2>3. CASE InputAsk(e, seg)
      <3>1. SndShrinks(e) /\ maxack' = maxack
        BY <1>2, <1>4, <1>6, <2>3, HeaderCore DEF InputAsk, InputHeader
      <3>2. RcvGrows(e)
        BY <2>3, RcvUnchanged DEF InputAsk, RcvTypeOK
      <3> QED
        BY <3>1, <3>2 DEF InpTypeOK
    <2>4. CASE InputTell(e, seg)
      <3>1. SndShrinks(e) /\ maxack' = maxack
        BY <1>2, <1>4, <1>6, <2>4, HeaderCore DEF InputTell, InputHeader
      <3>2. RcvGrows(e)
        BY <2>4, RcvUnchanged DEF InputTell, rcvVars, RcvTypeOK
      <3> QED
        BY <3>1, <3>2 DEF InpTypeOK
    <2> QED
      BY <2>1, <2>2, <2>3, <2>4 DEF InputSegment, seg
  <1>8. InpTypeOK' /\ NetTypeOK' /\ HistTypeOK'
    BY <1>2, <1>6, <1>7 DEF netVars, histVars, InpTypeOK, NetTypeOK, HistTypeOK
  <1>9. \A f \in Endpoint :
            \A d \in net'[f] \cup {pending'[f]} : Truthful(Peer(f), d)
    BY <1>5, <1>6 DEF netVars, AcksTellTruth, InpTypeOK
  <1> QED
    BY <1>7, <1>8, <1>9, StepKeepsCore

LEMMA InputDoneCore ==
    ASSUME CoreInv, NEW e \in Endpoint, InputDone(e)
    PROVE  CoreInv'
  <1> USE DEF CoreInv, TypeOK
  <1> DEFINE buf == ParseFastack(snd_buf[e], snd_una[e], snd_nxt[e], maxack[e])
  <1>1. /\ DOMAIN buf = DOMAIN snd_buf[e]
        /\ \A sn \in DOMAIN buf :
            buf[sn] \in [frag : Fragment, fastack : 0..FastResend]
    <2>1. ASSUME NEW seg \in [frag : Fragment, fastack : 0..FastResend],
                 seg.fastack < FastResend
          PROVE  [seg EXCEPT !.fastack = @ + 1]
                    \in [frag : Fragment, fastack : 0..FastResend]
      BY <2>1, KcpAssumption
    <2>2. \A sn \in DOMAIN snd_buf[e] :
            snd_buf[e][sn] \in [frag : Fragment, fastack : 0..FastResend]
      BY DEF SndTypeOK
    <2>3. CASE maxack[e] < snd_una[e] \/ maxack[e] >= snd_nxt[e]
      BY <2>2, <2>3 DEF ParseFastack
    <2>4. CASE ~(maxack[e] < snd_una[e] \/ maxack[e] >= snd_nxt[e])
      BY <2>1, <2>2, <2>4 DEF ParseFastack
    <2> QED
      BY <2>3, <2>4
  <1> HIDE DEF buf
  <1>2. /\ snd_buf' = [snd_buf EXCEPT ![e] = buf]
        /\ UNCHANGED <<snd_queue, snd_una, snd_nxt, rmt_wnd, probe_wait, pending>>
        /\ UNCHANGED <<rcvVars, netVars, histVars>>
    BY DEF InputDone, buf
  <1>3. SndTypeOK'
    BY <1>1, <1>2 DEF SndTypeOK
  <1>4. SndShrinks(e)
    BY <1>1, <1>2, <1>3 DEF SndShrinks, BufInRange, SndTypeOK
  <1>5. RcvGrows(e)
    BY <1>2, RcvUnchanged DEF rcvVars, RcvTypeOK
  <1>6. InpTypeOK' /\ NetTypeOK' /\ HistTypeOK'
    BY <1>2 DEF InputDone, netVars, histVars, InpTypeOK, NetTypeOK, HistTypeOK
  <1>7. \A f \in Endpoint :
            \A d \in net'[f] \cup {pending'[f]} : Truthful(Peer(f), d)
    BY <1>2 DEF netVars, AcksTellTruth
  <1> QED
    BY <1>4, <1>5, <1>6, <1>7, StepKeepsCore

\* A datagram that arrives, arrives twice or is lost.
LEMMA NetworkCore ==
    ASSUME CoreInv, NEW e \in Endpoint, NEW d \in net[e],
           Deliver(e, d) \/ Duplicate(e, d) \/ Lose(e, d)
    PROVE  CoreInv'
  <1> USE DEF CoreInv, TypeOK
  <1>1. UNCHANGED <<sndVars, rcvVars, histVars, maxack>>
    BY DEF Deliver, Duplicate, Lose, Arrive, inpVars
  <1>2. /\ DOMAIN net' = Endpoint
        /\ \A f \in Endpoint : net'[f] \subseteq net[f]
        /\ \A f \in Endpoint : pending'[f] \in net[f] \cup {pending[f]}
        /\ pending' \in [Endpoint -> Seq(Segment)]
        /\ parsing' \in [Endpoint -> BOOLEAN]
        /\ dups' \in Nat
    <2>1. d \in Seq(Segment)
      BY DEF NetTypeOK
    <2>2. CASE Deliver(e, d)
      BY <2>1, <2>2 DEF Deliver, Arrive, InpTypeOK, NetTypeOK
    <2>3. CASE Duplicate(e, d)
      BY <2>1, <2>3 DEF Duplicate, Arrive, InpTypeOK, NetTypeOK
    <2>4. CASE Lose(e, d)
      BY <2>4 DEF Lose, inpVars, InpTypeOK, NetTypeOK
    <2> QED
      BY <2>2, <2>3, <2>4
  <1>3. SndShrinks(e) /\ RcvGrows(e)
    BY <1>1, SndUnchanged, RcvUnchanged DEF sndVars, rcvVars, SndTypeOK, RcvTypeOK
  <1>4. InpTypeOK' /\ NetTypeOK' /\ HistTypeOK'
    BY <1>1, <1>2 DEF histVars, InpTypeOK, NetTypeOK, HistTypeOK
  <1>5. \A f \in Endpoint :
            \A x \in net'[f] \cup {pending'[f]} : Truthful(Peer(f), x)
    BY <1>2 DEF AcksTellTruth
  <1> QED
    BY <1>3, <1>4, <1>5, StepKeepsCore

\* ikcp_flush takes no more from snd_queue than there is, and no more than
\* the send window leaves room for.
LEMMA MoveCountFacts ==
    ASSUME CoreInv, NEW e \in Endpoint
    PROVE  /\ MoveCount(e) \in Nat
           /\ MoveCount(e) <= Len(snd_queue[e])
           /\ snd_nxt[e] + MoveCount(e) - snd_una[e] <= SndWnd
  <1>1. /\ snd_nxt[e] \in Nat /\ snd_una[e] \in Nat /\ rmt_wnd[e] \in Nat
        /\ Len(snd_queue[e]) \in Nat
        /\ snd_nxt[e] - snd_una[e] <= SndWnd
    BY DEF CoreInv, TypeOK, SndTypeOK, WindowsHold
  <1> DEFINE cwnd == IF SndWnd <= rmt_wnd[e] THEN SndWnd ELSE rmt_wnd[e]
             room == snd_una[e] + cwnd - snd_nxt[e]
  <1>2. cwnd \in Nat /\ cwnd <= SndWnd /\ SndWnd \in Nat
    BY <1>1, KcpAssumption
  <1> HIDE DEF cwnd
  <1>3. room \in Int /\ snd_nxt[e] + room - snd_una[e] <= SndWnd
    BY <1>1, <1>2
  <1>4. MoveCount(e) = IF room <= 0 THEN 0
                       ELSE IF room < Len(snd_queue[e]) THEN room
                       ELSE Len(snd_queue[e])
    BY DEF MoveCount, cwnd
  <1> HIDE DEF room
  <1> QED
    BY <1>1, <1>2, <1>3, <1>4

LEMMA FlushedBufFacts ==
    ASSUME CoreInv, NEW e \in Endpoint, NEW expired
    PROVE  /\ DOMAIN FlushedBuf(e, expired) = DOMAIN snd_buf[e] \cup NewSns(e)
           /\ \A sn \in DOMAIN FlushedBuf(e, expired) :
                /\ sn \in Nat
                /\ FlushedBuf(e, expired)[sn]
                    \in [frag : Fragment, fastack : 0..FastResend]
           /\ \A sn \in NewSns(e) :
                snd_nxt[e] <= sn /\ sn < snd_nxt[e] + MoveCount(e)
           /\ \A sn \in Nat :
                snd_nxt[e] <= sn /\ sn < snd_nxt[e] + MoveCount(e)
                    => sn \in NewSns(e)
  <1>1. /\ MoveCount(e) \in Nat /\ MoveCount(e) <= Len(snd_queue[e])
        /\ snd_nxt[e] \in Nat /\ snd_queue[e] \in Seq(Fragment)
    BY MoveCountFacts DEF CoreInv, TypeOK, SndTypeOK
  <1>2. /\ \A sn \in NewSns(e) :
            /\ sn \in Nat
            /\ snd_nxt[e] <= sn /\ sn < snd_nxt[e] + MoveCount(e)
            /\ sn - snd_nxt[e] + 1 \in 1..Len(snd_queue[e])
        /\ \A sn \in Nat :
            snd_nxt[e] <= sn /\ sn < snd_nxt[e] + MoveCount(e)
                => sn \in NewSns(e)
    BY <1>1, SMTT(60) DEF NewSns
  <1>3. \A sn \in NewSns(e) :
            [frag |-> snd_queue[e][sn - snd_nxt[e] + 1], fastack |-> 0]
                \in [frag : Fragment, fastack : 0..FastResend]
    BY <1>1, <1>2, KcpAssumption
  <1>4. \A sn \in DOMAIN snd_buf[e] :
            /\ sn \in Nat
            /\ snd_buf[e][sn] \in [frag : Fragment, fastack : 0..FastResend]
            /\ [snd_buf[e][sn] EXCEPT !.fastack = 0]
                \in [frag : Fragment, fastack : 0..FastResend]
    <2>1. ASSUME NEW seg \in [frag : Fragment, fastack : 0..FastResend]
          PROVE  [seg EXCEPT !.fastack = 0]
                    \in [frag : Fragment, fastack : 0..FastResend]
      BY KcpAssumption
    <2> QED
      BY <2>1 DEF CoreInv, TypeOK, SndTypeOK
  <1> QED
    BY <1>2, <1>3, <1>4 DEF FlushedBuf

\* The output of a flush is made of segments that tell the truth.
LEMMA OutputFacts ==
    ASSUME CoreInv, NEW e \in Endpoint, NEW expired, NEW probing \in BOOLEAN,
           expired \subseteq DOMAIN snd_buf[e],
           NEW k \in Nat,
           NEW order \in
                [1..k -> NewSns(e) \cup expired \cup FastSns(e, expired)]
    PROVE  LET out == AckSegments(e) \o ProbeSegments(e, probing)
                        \o PushSegments(e, expired, order)
           IN  out \in Seq(Segment) /\ Truthful(e, out)
  <1> USE DEF CoreInv, TypeOK
  <1> DEFINE a == AckSegments(e)
             b == ProbeSegments(e, probing)
             c == PushSegments(e, expired, order)
  <1>1. /\ rcv_nxt[e] \in Nat /\ WndUnused(e) \in Nat /\ NoFrag \in Fragment
        /\ acklist[e] \in Seq(Nat) /\ rcv_queue[e] \in Seq(Fragment)
    <2>1. rcv_nxt[e] \in Nat /\ rcv_queue[e] \in Seq(Fragment) /\ acklist[e] \in Seq(Nat)
      BY DEF RcvTypeOK
    <2>2. Len(rcv_queue[e]) \in Nat /\ RcvWnd \in Nat
      BY <2>1, KcpAssumption
    <2> QED
      BY <2>1, <2>2 DEF WndUnused, NoFrag, Fragment
  <1>2. ASSUME NEW cmd \in {"PUSH", "ACK", "WASK", "WINS"}, NEW sn \in Nat,
               NEW frag \in Fragment
        PROVE  /\ MakeSegment(e, cmd, sn, frag) \in Segment
               /\ MakeSegment(e, cmd, sn, frag).una = rcv_nxt[e]
               /\ MakeSegment(e, cmd, sn, frag).cmd = cmd
               /\ MakeSegment(e, cmd, sn, frag).sn = sn
    BY <1>1 DEF MakeSegment, Segment
  <1>3. a \in Seq(Segment) /\ Truthful(e, a)
    <2>1. \A i \in 1..Len(acklist[e]) :
            acklist[e][i] \in Nat /\ Stored(e, acklist[e][i])
      BY <1>1 DEF AcksTellTruth
    <2>2. /\ a \in Seq(Segment) /\ DOMAIN a = 1..Len(acklist[e])
          /\ \A i \in DOMAIN a : a[i].una = rcv_nxt[e] /\ a[i].sn = acklist[e][i]
      BY <1>1, <1>2, <2>1, SMTT(40) DEF AckSegments
    <2> QED
      BY <1>1, <2>1, <2>2 DEF Truthful
  <1>4. b \in Seq(Segment) /\ Truthful(e, b)
    <2> DEFINE last == IF acklist[e] = <<>> THEN 0
                       ELSE acklist[e][Len(acklist[e])]
               ask  == IF probing THEN <<MakeSegment(e, "WASK", last, NoFrag)>>
                       ELSE <<>>
               tell == IF probe[e] THEN <<MakeSegment(e, "WINS", last, NoFrag)>>
                       ELSE <<>>
    <2>1. last \in Nat
      BY <1>1
    <2> HIDE DEF last
    <2> DEFINE Good(s) == /\ s \in Seq(Segment)
                          /\ \A i \in DOMAIN s :
                                s[i].una = rcv_nxt[e] /\ s[i].cmd # "ACK"
    <2>0. /\ Good(<<MakeSegment(e, "WASK", last, NoFrag)>>)
          /\ Good(<<MakeSegment(e, "WINS", last, NoFrag)>>)
          /\ Good(<<>>)
      <3>1. /\ MakeSegment(e, "WASK", last, NoFrag) \in Segment
            /\ MakeSegment(e, "WASK", last, NoFrag).una = rcv_nxt[e]
            /\ MakeSegment(e, "WASK", last, NoFrag).cmd = "WASK"
        BY <1>1, <2>1 DEF MakeSegment, Segment
      <3>2. /\ MakeSegment(e, "WINS", last, NoFrag) \in Segment
            /\ MakeSegment(e, "WINS", last, NoFrag).una = rcv_nxt[e]
            /\ MakeSegment(e, "WINS", last, NoFrag).cmd = "WINS"
        BY <1>1, <2>1 DEF MakeSegment, Segment
      <3> QED
        BY <3>1, <3>2
    <2> HIDE DEF Good
    <2>2. Good(ask)
      BY <2>0
    <2>3. Good(tell)
      BY <2>0
    <2> HIDE DEF ask, tell
    <2>4. b = ask \o tell
      BY DEF ProbeSegments, ask, tell, last
    <2>5. /\ ask \o tell \in Seq(Segment)
          /\ \A i \in DOMAIN (ask \o tell) :
                (ask \o tell)[i].una = rcv_nxt[e] /\ (ask \o tell)[i].cmd # "ACK"
      BY <2>2, <2>3 DEF Good
    <2> QED
      BY <1>1, <2>4, <2>5 DEF Truthful
  <1>5. c \in Seq(Segment) /\ Truthful(e, c)
    <2>1. \A i \in 1..k : order[i] \in DOMAIN FlushedBuf(e, expired)
      BY FlushedBufFacts DEF FastSns
    <2>2. \A i \in 1..k :
            order[i] \in Nat /\ FlushedBuf(e, expired)[order[i]].frag \in Fragment
      BY <2>1, FlushedBufFacts
    <2>3. /\ c \in Seq(Segment)
          /\ \A i \in DOMAIN c : c[i].una = rcv_nxt[e] /\ c[i].cmd = "PUSH"
      BY <1>2, <2>2 DEF PushSegments
    <2> QED
      BY <1>1, <2>3 DEF Truthful
  <1> HIDE DEF a, b, c
  <1>6. ASSUME NEW s \in Seq(Segment), NEW t \in Seq(Segment),
               Truthful(e, s), Truthful(e, t)
        PROVE  s \o t \in Seq(Segment) /\ Truthful(e, s \o t)
    BY <1>6 DEF Truthful
  <1>7. a \o b \o c \in Seq(Segment) /\ Truthful(e, a \o b \o c)
    BY <1>3, <1>4, <1>5, <1>6
  <1> QED
    BY <1>7 DEF a, b, c

LEMMA UpdateCore ==
    ASSUME CoreInv, NEW e \in Endpoint, Update(e)
    PROVE  CoreInv'
  <1> USE DEF CoreInv, TypeOK
  <1>1. PICK expired \in SUBSET DOMAIN snd_buf[e], probing \in BOOLEAN :
            UpdateWith(e, expired, probing)
    BY DEF Update
  <1> DEFINE buf    == FlushedBuf(e, expired)
             n      == MoveCount(e)
             resend == NewSns(e) \cup expired \cup FastSns(e, expired)
  <1>2. /\ probe_wait' = [probe_wait EXCEPT ![e] = (rmt_wnd[e] = 0)]
        /\ acklist' = [acklist EXCEPT ![e] = <<>>]
        /\ probe' = [probe EXCEPT ![e] = FALSE]
        /\ snd_queue' = [snd_queue EXCEPT ![e] = SubSeq(@, n + 1, Len(@))]
        /\ snd_nxt' = [snd_nxt EXCEPT ![e] = @ + n]
        /\ snd_buf' = [snd_buf EXCEPT ![e] = buf]
        /\ UNCHANGED <<snd_una, rmt_wnd, rcv_buf, rcv_queue, rcv_nxt, dups>>
        /\ UNCHANGED <<inpVars, histVars>>
    BY <1>1 DEF UpdateWith, Flush
  <1>3. PICK order \in [1..Cardinality(resend) -> resend] :
            Output(e, AckSegments(e) \o ProbeSegments(e, probing)
                        \o PushSegments(e, expired, order))
    BY <1>1 DEF UpdateWith, Flush
  <1> DEFINE out == AckSegments(e) \o ProbeSegments(e, probing)
                        \o PushSegments(e, expired, order)
  <1>4. /\ n \in Nat /\ n <= Len(snd_queue[e])
        /\ snd_nxt[e] + n - snd_una[e] <= SndWnd
    BY MoveCountFacts
  <1>5. /\ DOMAIN buf = DOMAIN snd_buf[e] \cup NewSns(e)
        /\ \A sn \in DOMAIN buf :
            /\ sn \in Nat
            /\ buf[sn] \in [frag : Fragment, fastack : 0..FastResend]
        /\ \A sn \in NewSns(e) : snd_nxt[e] <= sn /\ sn < snd_nxt[e] + n
        /\ \A sn \in Nat :
            snd_nxt[e] <= sn /\ sn < snd_nxt[e] + n => sn \in NewSns(e)
    BY FlushedBufFacts
  <1>6. out \in Seq(Segment) /\ Truthful(e, out)
    <2>1. IsFiniteSet(resend)
      <3>1. /\ snd_nxt[e] \in Nat /\ DOMAIN snd_buf[e] \subseteq Nat
            /\ \A sn \in DOMAIN snd_buf[e] : sn < snd_nxt[e]
        BY DEF SndTypeOK, BufInRange
      <3>2. resend \in SUBSET Nat /\ snd_nxt[e] + n \in Nat
        BY <1>4, <1>5, <3>1 DEF FastSns
      <3>3. \A sn \in resend : sn <= snd_nxt[e] + n
        BY <1>4, <1>5, <3>1, <3>2 DEF FastSns
      <3> HIDE DEF resend, n
      <3> QED
        BY <3>2, <3>3, FS_BoundedSetOfNaturals
    <2>2. Cardinality(resend) \in Nat
      BY <2>1, FS_CardinalityType
    <2> QED
      BY <2>2, OutputFacts
  <1> HIDE DEF out, buf, n
  <1>7. PICK ends \in SUBSET (1..Len(out)) :
            \/ net' = [net EXCEPT ![Peer(e)] =
                            net[Peer(e)] \cup Datagrams(out, ends)]
            \/ net' = net
    BY <1>3 DEF Output, out
  <1>8. \A d \in Datagrams(out, ends) : d \in Seq(Segment) /\ Truthful(e, d)
    <2>1. ASSUME NEW a \in ends \cup {0}, NEW b \in ends, a < b
          PROVE  /\ Datagram(out, a, b) \in Seq(Segment)
                 /\ Truthful(e, Datagram(out, a, b))
      <3>1. /\ a \in Nat /\ b \in Nat /\ b <= Len(out)
            /\ \A i \in 1..(b - a) : a + i \in DOMAIN out
        BY <1>6, <2>1
      <3>2. \A i \in 1..(b - a) : out[a + i] \in Segment
        BY <1>6, <3>1
      <3>3. /\ Datagram(out, a, b) \in Seq(Segment)
            /\ DOMAIN Datagram(out, a, b) = 1..(b - a)
            /\ \A i \in 1..(b - a) : Datagram(out, a, b)[i] = out[a + i]
        BY <2>1, <3>1, <3>2 DEF Datagram
      <3> QED
        BY <1>6, <3>1, <3>3 DEF Truthful
    <2>2. ASSUME NEW d \in Datagrams(out, ends)
          PROVE  \E a \in ends \cup {0}, b \in ends :
                    a < b /\ d = Datagram(out, a, b)
      BY DEF Datagrams
    <2> QED
      BY <2>1, <2>2
  <1>9. /\ DOMAIN net' = Endpoint
        /\ \A f \in Endpoint : \A d \in net'[f] :
            d \in net[f] \/ (f = Peer(e) /\ d \in Datagrams(out, ends))
    BY <1>7, PeerFacts DEF NetTypeOK
  <1>10. TypeOK'
    <2>1. SndTypeOK'
      <3>1. snd_queue' \in [Endpoint -> Seq(Fragment)]
        BY <1>2, <1>4, SMTT(60) DEF SndTypeOK
      <3>2. /\ DOMAIN snd_buf' = Endpoint
            /\ \A f \in Endpoint :
                /\ DOMAIN snd_buf'[f] \subseteq Nat
                /\ \A sn \in DOMAIN snd_buf'[f] :
                    snd_buf'[f][sn] \in [frag : Fragment, fastack : 0..FastResend]
        BY <1>2, <1>5 DEF SndTypeOK
      <3>3. /\ snd_nxt' \in [Endpoint -> Nat]
            /\ probe_wait' \in [Endpoint -> BOOLEAN]
        BY <1>2, <1>4 DEF SndTypeOK
      <3> QED
        BY <1>2, <3>1, <3>2, <3>3 DEF SndTypeOK
    <2>2. RcvTypeOK'
      BY <1>2 DEF RcvTypeOK
    <2>3. InpTypeOK' /\ HistTypeOK'
      BY <1>2 DEF inpVars, histVars, InpTypeOK, HistTypeOK
    <2>4. NetTypeOK'
      BY <1>2, <1>8, <1>9 DEF NetTypeOK
    <2> QED
      BY <2>1, <2>2, <2>3, <2>4
  <1>11. \A f \in Endpoint, sn \in Nat : Stored(f, sn)' <=> Stored(f, sn)
    BY <1>2 DEF Stored
  <1>12. BufInRange'
    <2>1. /\ snd_nxt[e] \in Nat /\ snd_una[e] \in Nat
          /\ snd_nxt'[e] = snd_nxt[e] + n /\ snd_buf'[e] = buf
          /\ \A f \in Endpoint \ {e} :
                snd_nxt'[f] = snd_nxt[f] /\ snd_buf'[f] = snd_buf[f]
      BY <1>2 DEF SndTypeOK
    <2>2. \A sn \in DOMAIN buf : snd_una[e] <= sn /\ sn < snd_nxt[e] + n
      BY <1>4, <1>5, <2>1 DEF BufInRange
    <2> QED
      BY <1>2, <1>4, <2>1, <2>2 DEF BufInRange
  <1>13. AcksTellTruth'
    <2>1. ASSUME NEW f \in Endpoint, NEW i \in DOMAIN acklist'[f]
          PROVE  Stored(f, acklist[f][i])'
      <3>1. f # e /\ acklist'[f] = acklist[f]
        BY <1>2 DEF RcvTypeOK
      <3> QED
        BY <1>2, <3>1 DEF AcksTellTruth, Stored
    <2>2. ASSUME NEW f \in Endpoint, NEW d \in net'[f] \cup {pending'[f]}
          PROVE  Truthful(Peer(f), d)'
      <3>1. Truthful(Peer(f), d)
        BY <1>2, <1>8, <1>9, PeerFacts DEF AcksTellTruth, inpVars
      <3> QED
        BY <1>2, <3>1 DEF Truthful, Stored
    <2> QED
      BY <2>1, <2>2 DEF AcksTellTruth
  <1>14. NoSegmentLost'
    <2>1. ASSUME NEW f \in Endpoint, NEW sn \in 0..(snd_nxt'[f] - 1)
          PROVE  sn \in DOMAIN snd_buf'[f] \/ Stored(Peer(f), sn)
      <3>1. CASE f # e
        BY <1>2, <3>1 DEF NoSegmentLost, SndTypeOK
      <3>2. CASE f = e
        <4>1. /\ snd_nxt[e] \in Nat /\ sn \in Nat /\ sn < snd_nxt[e] + n
              /\ snd_buf'[e] = buf
          BY <1>2, <1>4, <3>2 DEF SndTypeOK
        <4>2. CASE sn < snd_nxt[e]
          BY <1>5, <3>2, <4>1, <4>2 DEF NoSegmentLost
        <4>3. CASE snd_nxt[e] <= sn
          BY <1>5, <3>2, <4>1, <4>3
        <4> QED
          BY <4>1, <4>2, <4>3
      <3> QED
        BY <3>1, <3>2
    <2> QED
      BY <1>11, <2>1, PeerFacts DEF NoSegmentLost
  <1>15. WindowsHold'
    <2>1. \A f \in Endpoint : snd_nxt'[f] - snd_una'[f] <= SndWnd
      BY <1>2, <1>4 DEF WindowsHold, SndTypeOK
    <2> QED
      BY <1>2, <2>1 DEF WindowsHold
  <1> QED
    BY <1>10, <1>12, <1>13, <1>14, <1>15

-----------------------------------------------------------------------------

\* The invariant is inductive: it holds when the two ikcpcb are created, and
\* every call into ikcp.c and everything the network does keeps it.
THEOREM CoreInvariant == Spec => []CoreInv
  <1>1. Init => CoreInv
    BY InitCore
  <1>2. CoreInv /\ [Next]_vars => CoreInv'
    <2> SUFFICES ASSUME CoreInv, [Next]_vars
                 PROVE  CoreInv'
      OBVIOUS
    <2>1. CASE Next
      <3>1. PICK e \in Endpoint :
                \/ Send(e)
                \/ Recv(e)
                \/ InputSegment(e)
                \/ InputDone(e)
                \/ Update(e)
                \/ \E d \in net[e] :
                        Deliver(e, d) \/ Duplicate(e, d) \/ Lose(e, d)
        BY <2>1 DEF Next
      <3> QED
        BY <3>1, SendCore, RecvCore, InputSegmentCore, InputDoneCore,
           UpdateCore, NetworkCore
    <2>2. CASE UNCHANGED vars
      BY <2>2 DEF vars, sndVars, rcvVars, inpVars, netVars, histVars,
         CoreInv, TypeOK, SndTypeOK, RcvTypeOK, InpTypeOK, NetTypeOK, HistTypeOK,
         BufInRange, AcksTellTruth, Truthful, NoSegmentLost, WindowsHold, Stored
    <2> QED
      BY <2>1, <2>2
  <1> QED
    BY <1>1, <1>2, PTL DEF Spec

\* The state of both endpoints stays well formed.
THEOREM TypeCorrect == Spec => []TypeOK
  <1>1. CoreInv => TypeOK
    BY DEF CoreInv
  <1> QED
    BY <1>1, CoreInvariant, PTL

\* No segment that ikcp_flush has numbered is ever freed by ikcp_parse_ack or
\* ikcp_parse_una before the peer has stored it, whatever is lost, reordered
\* or duplicated.
THEOREM SegmentsAreKept == Spec => []NoSegmentLost
  <1>1. CoreInv => NoSegmentLost
    BY DEF CoreInv
  <1> QED
    BY <1>1, CoreInvariant, PTL

\* No acknowledgement, however stale, claims more than its sender has stored.
THEOREM AcksAreTrue == Spec => []AcksTellTruth
  <1>1. CoreInv => AcksTellTruth
    BY DEF CoreInv
  <1> QED
    BY <1>1, CoreInvariant, PTL

\* The send window, rcv_queue and rcv_buf never outgrow their limits, whatever
\* stale window advertisements arrive.
THEOREM WindowsAreKept == Spec => []WindowsHold
  <1>1. CoreInv => WindowsHold
    BY DEF CoreInv
  <1> QED
    BY <1>1, CoreInvariant, PTL

-----------------------------------------------------------------------------
(* What the fragments of one direction, from e to its peer, look like.     *)

\* Message number m is cut into fragments that are numbered down to 0, and
\* ikcp_send found them to be fewer than the receive window.
Cut(m, message) ==
    /\ Len(message) \in 1..(RcvWnd - 1)
    /\ \A i \in 1..Len(message) :
        message[i].msg = m /\ message[i].frg = Len(message) - i

\* The fragment frag of sent[e] is the one its two numbers say it is.
InPlace(e, frag) ==
    /\ frag.msg \in 1..Len(accepted[e])
    /\ frag.frg \in 0..(Len(accepted[e][frag.msg]) - 1)
    /\ frag = accepted[e][frag.msg][Len(accepted[e][frag.msg]) - frag.frg]

\* The first k fragments of sent[e] are the first m messages.
Boundary(e, k, m) ==
    \/ k = 0 /\ m = 0
    \/ k \in 1..Len(sent[e]) /\ sent[e][k].frg = 0 /\ sent[e][k].msg = m

\* Fragment k of sent[e] is the first of message m.
Starts(e, k, m) ==
    /\ k \in 1..Len(sent[e])
    /\ sent[e][k].msg = m
    /\ sent[e][k].frg = Len(accepted[e][m]) - 1

\* sent[e] is the accepted messages one after the other: the rest of a message
\* follows each of its fragments, and the next message follows its end.
Framing(e) ==
    /\ \A m \in 1..Len(accepted[e]) : Cut(m, accepted[e][m])
    /\ \A k \in 1..Len(sent[e]) : InPlace(e, sent[e][k])
    /\ \A k \in 1..Len(sent[e]) : \A j \in 0..sent[e][k].frg :
        /\ k + j <= Len(sent[e])
        /\ sent[e][k + j].msg = sent[e][k].msg
        /\ sent[e][k + j].frg = sent[e][k].frg - j
    /\ \A k \in 0..(Len(sent[e]) - 1), m \in Nat :
        Boundary(e, k, m) => Starts(e, k + 1, m + 1)
    /\ Boundary(e, Len(sent[e]), Len(accepted[e]))

\* A segment with number sn carries fragment sn + 1 of sent[e].
Carries(e, sn, frag) == sn < snd_nxt[e] /\ frag = sent[e][sn + 1]

\* The sending half: snd_nxt is the number of the first fragment in snd_queue.
Sending(e) ==
    /\ snd_nxt[e] + Len(snd_queue[e]) = Len(sent[e])
    /\ \A i \in 1..Len(snd_queue[e]) : snd_queue[e][i] = sent[e][snd_nxt[e] + i]
    /\ \A sn \in DOMAIN snd_buf[e] : Carries(e, sn, snd_buf[e][sn].frag)

\* The data in the datagram d is what e sent.
Faithful(e, d) ==
    \A i \in DOMAIN d : d[i].cmd = "PUSH" => Carries(e, d[i].sn, d[i].frag)

Travelling(e) ==
    \A d \in net[Peer(e)] \cup {pending[Peer(e)]} : Faithful(e, d)

\* How many fragments ikcp_recv has taken out of rcv_queue.
Taken(p) == rcv_nxt[p] - Len(rcv_queue[p])

\* The receiving half: rcv_queue holds the fragments before rcv_nxt, and what
\* ikcp_recv has taken from it ends where a message ends.
Receiving(e) ==
    LET p == Peer(e)
    IN  /\ \A sn \in DOMAIN rcv_buf[p] : Carries(e, sn, rcv_buf[p][sn])
        /\ rcv_nxt[p] <= snd_nxt[e]
        /\ \A i \in 1..Len(rcv_queue[p]) : rcv_queue[p][i] = sent[e][Taken(p) + i]
        /\ Boundary(e, Taken(p), Len(delivered[p]))

\* Every copy of a fragment, wherever it is, is the one that ikcp_send made.
ContentInv ==
    \A e \in Endpoint :
        Framing(e) /\ Sending(e) /\ Travelling(e) /\ Receiving(e)

-----------------------------------------------------------------------------
(* What a step that only adds to sent[e] leaves true.                      *)

\* sent[e] and snd_nxt[e] only grow.
Grows(e) ==
    /\ Len(sent[e]) <= Len(sent'[e])
    /\ \A k \in 1..Len(sent[e]) : sent'[e][k] = sent[e][k]
    /\ snd_nxt[e] <= snd_nxt'[e]

\* The numbers that the lemmas below compute with.
LEMMA Numbers ==
    ASSUME CoreInv, NEW e \in Endpoint
    PROVE  /\ snd_nxt[e] \in Nat /\ rcv_nxt[e] \in Nat
           /\ snd_queue[e] \in Seq(Fragment) /\ Len(snd_queue[e]) \in Nat
           /\ rcv_queue[e] \in Seq(Fragment) /\ Len(rcv_queue[e]) \in Nat
           /\ sent[e] \in Seq(Fragment) /\ Len(sent[e]) \in Nat
           /\ accepted[e] \in Seq(Seq(Fragment)) /\ Len(accepted[e]) \in Nat
           /\ delivered[e] \in Seq(Seq(Fragment)) /\ Len(delivered[e]) \in Nat
           /\ DOMAIN snd_buf[e] \subseteq Nat /\ DOMAIN rcv_buf[e] \subseteq Nat
           /\ \A sn \in DOMAIN rcv_buf[e] : rcv_buf[e][sn] \in Fragment
           /\ pending[e] \in Seq(Segment)
  BY DEF CoreInv, TypeOK, SndTypeOK, RcvTypeOK, InpTypeOK, HistTypeOK

LEMMA CarriesStays ==
    ASSUME CoreInv, CoreInv', NEW e \in Endpoint, Sending(e), Grows(e),
           NEW sn \in Nat, NEW frag, Carries(e, sn, frag)
    PROVE  Carries(e, sn, frag)'
  <1>1. /\ snd_nxt[e] \in Nat /\ Len(snd_queue[e]) \in Nat
        /\ Len(sent[e]) \in Nat /\ snd_nxt'[e] \in Nat
    <2>1. snd_nxt'[e] \in Nat
      BY DEF CoreInv, TypeOK, SndTypeOK
    <2> QED
      BY <2>1, Numbers
  <1>2. sn + 1 \in 1..Len(sent[e])
    BY <1>1 DEF Carries, Sending
  <1> QED
    BY <1>1, <1>2 DEF Carries, Grows

LEMMA BoundaryStays ==
    ASSUME CoreInv, CoreInv', NEW e \in Endpoint, Grows(e), NEW k, NEW m,
           Boundary(e, k, m)
    PROVE  Boundary(e, k, m)'
  <1>1. Len(sent[e]) \in Nat /\ Len(sent'[e]) \in Nat
    <2>1. sent'[e] \in Seq(Fragment)
      BY DEF CoreInv, TypeOK, HistTypeOK
    <2> QED
      BY <2>1, Numbers
  <1>2. CASE k = 0 /\ m = 0
    BY <1>2 DEF Boundary
  <1>3. CASE k \in 1..Len(sent[e]) /\ sent[e][k].frg = 0 /\ sent[e][k].msg = m
    <2>1. k \in 1..Len(sent'[e]) /\ sent'[e][k] = sent[e][k]
      BY <1>1, <1>3 DEF Grows
    <2> QED
      BY <1>3, <2>1 DEF Boundary
  <1> QED
    BY <1>2, <1>3 DEF Boundary

LEMMA FramingStays ==
    ASSUME NEW e \in Endpoint, Framing(e),
           sent'[e] = sent[e], accepted'[e] = accepted[e]
    PROVE  Framing(e)'
  BY DEF Framing, Cut, InPlace, Boundary, Starts

LEMMA SendingStays ==
    ASSUME NEW e \in Endpoint, Sending(e), sent'[e] = sent[e],
           snd_nxt'[e] = snd_nxt[e], snd_queue'[e] = snd_queue[e],
           \A sn \in DOMAIN snd_buf'[e] :
                /\ sn \in DOMAIN snd_buf[e]
                /\ snd_buf'[e][sn].frag = snd_buf[e][sn].frag
    PROVE  Sending(e)'
  BY DEF Sending, Carries

LEMMA TravellingStays ==
    ASSUME CoreInv, CoreInv', NEW e \in Endpoint, Sending(e), Grows(e),
           \A d \in net'[Peer(e)] \cup {pending'[Peer(e)]} : Faithful(e, d)
    PROVE  Travelling(e)'
  <1>1. ASSUME NEW d \in net'[Peer(e)] \cup {pending'[Peer(e)]}
        PROVE  Faithful(e, d)'
    <2>1. d \in Seq(Segment)
      BY PeerFacts DEF CoreInv, TypeOK, InpTypeOK, NetTypeOK
    <2>2. \A i \in DOMAIN d : d[i].sn \in Nat
      <3>1. \A i \in DOMAIN d : d[i] \in Segment
        BY <2>1
      <3> QED
        BY <3>1 DEF Segment
    <2>3. ASSUME NEW i \in DOMAIN d, d[i].cmd = "PUSH"
          PROVE  Carries(e, d[i].sn, d[i].frag)'
      <3>1. Carries(e, d[i].sn, d[i].frag)
        BY <1>1, <2>3 DEF Faithful
      <3> QED
        BY <2>2, <3>1, CarriesStays
    <2> QED
      BY <2>3 DEF Faithful
  <1> QED
    BY <1>1 DEF Travelling

LEMMA ReceivingStays ==
    ASSUME CoreInv, CoreInv', NEW e \in Endpoint, Sending(e), Receiving(e),
           Grows(e), NEW p, p = Peer(e),
           rcv_nxt'[p] = rcv_nxt[p], rcv_queue'[p] = rcv_queue[p],
           rcv_buf'[p] = rcv_buf[p], delivered'[p] = delivered[p]
    PROVE  Receiving(e)'
  <1> DEFINE start == rcv_nxt[p] - Len(rcv_queue[p])
  <1>1. /\ p \in Endpoint /\ rcv_nxt[p] \in Nat /\ Len(rcv_queue[p]) \in Nat
        /\ DOMAIN rcv_buf[p] \subseteq Nat
    BY PeerFacts, Numbers
  <1>2. /\ snd_nxt[e] \in Nat /\ Len(snd_queue[e]) \in Nat
        /\ Len(sent[e]) \in Nat /\ snd_nxt'[e] \in Nat
    <2>1. snd_nxt'[e] \in Nat
      BY DEF CoreInv, TypeOK, SndTypeOK
    <2> QED
      BY <2>1, Numbers
  <1>3. \A sn \in DOMAIN rcv_buf'[p] : Carries(e, sn, rcv_buf[p][sn])'
    <2>1. \A sn \in DOMAIN rcv_buf[p] : Carries(e, sn, rcv_buf[p][sn])
      BY DEF Receiving, Taken
    <2>2. ASSUME NEW sn \in DOMAIN rcv_buf[p]
          PROVE  Carries(e, sn, rcv_buf[p][sn])'
      <3>1. Carries(e, sn, rcv_buf[p][sn]) /\ sn \in Nat
        BY <1>1, <2>1
      <3>2. PICK frag : frag = rcv_buf[p][sn]
        OBVIOUS
      <3>3. Carries(e, sn, frag)'
        BY <3>1, <3>2, CarriesStays
      <3> QED
        BY <3>2, <3>3 DEF Carries
    <2> QED
      BY <2>2
  <1>4. rcv_nxt'[p] <= snd_nxt'[e]
    BY <1>1, <1>2 DEF Receiving, Taken, Grows
  <1>5. Boundary(e, start, Len(delivered[p]))'
    <2>1. Boundary(e, start, Len(delivered[p]))
      BY DEF Receiving, Taken
    <2>2. PICK k, m : k = start /\ m = Len(delivered[p])
      OBVIOUS
    <2>3. Boundary(e, k, m)'
      BY <2>1, <2>2, BoundaryStays
    <2> QED
      BY <2>2, <2>3 DEF Boundary
  <1>6. start \in Nat
    BY <1>1, <1>2 DEF Receiving, Taken, Boundary
  <1>7. ASSUME NEW i \in 1..Len(rcv_queue'[p])
        PROVE  rcv_queue'[p][i] = sent'[e][start + i]
    <2>1. start + i \in 1..Len(sent[e])
      <3>1. /\ rcv_nxt[p] <= snd_nxt[e]
            /\ snd_nxt[e] + Len(snd_queue[e]) = Len(sent[e])
        BY DEF Receiving, Sending
      <3>2. start + Len(rcv_queue[p]) = rcv_nxt[p]
        BY <1>1
      <3>3. /\ rcv_nxt[p] \in Nat /\ Len(rcv_queue[p]) \in Nat
            /\ snd_nxt[e] \in Nat /\ Len(snd_queue[e]) \in Nat /\ Len(sent[e]) \in Nat
            /\ i \in 1..Len(rcv_queue[p])
        BY <1>1, <1>2
      <3> HIDE DEF start
      <3> QED
        BY <1>6, <3>1, <3>2, <3>3
    <2>2. rcv_queue[p][i] = sent[e][start + i]
      BY DEF Receiving, Taken
    <2> QED
      BY <2>1, <2>2 DEF Grows
  <1> QED
    BY <1>3, <1>4, <1>5, <1>7 DEF Receiving, Taken

-----------------------------------------------------------------------------
(* ikcp_send                                                               *)

\* A message that ikcp_send takes has fewer fragments than the window.
LEMMA FragmentsCut ==
    ASSUME NEW m \in Nat, NEW len \in MsgLens, Sendable(len)
    PROVE  Cut(m, Fragments(m, len))
  <1> DEFINE count == FragmentCount(len)
             message == Fragments(m, len)
  <1>1. Mss \in Nat \ {0} /\ len \in Nat \ {0}
    BY KcpAssumption DEF Mss
  <1>2. count \in Nat \ {0} /\ RcvWnd \in Nat /\ count < RcvWnd
    <2>1. count \in Nat \ {0}
      BY <1>1 DEF FragmentCount
    <2> QED
      BY <2>1, KcpAssumption DEF Sendable
  <1> HIDE DEF count
  <1>3. message = [i \in 1..count |->
            [msg |-> m, frg |-> count - i,
             len |-> IF i < count THEN Mss ELSE len - (count - 1) * Mss]]
    BY DEF Fragments, count
  <1>4. message \in Seq(Fragment) /\ DOMAIN message = 1..count
    BY <1>3, FragmentsType
  <1>5. Len(message) = count
    BY <1>2, <1>4
  <1>6. \A i \in 1..count : message[i].msg = m /\ message[i].frg = count - i
    BY <1>3
  <1> QED
    BY <1>2, <1>5, <1>6 DEF Cut

\* One more message keeps the fragments framed.
LEMMA SendFraming ==
    ASSUME CoreInv, NEW e \in Endpoint, Framing(e),
           NEW frags \in Seq(Fragment), Cut(Len(accepted[e]) + 1, frags),
           sent'[e] = sent[e] \o frags,
           accepted'[e] = Append(accepted[e], frags)
    PROVE  Framing(e)'
  <1> DEFINE S == sent[e]
             T == sent'[e]
             A == accepted[e]
             B == accepted'[e]
             L == Len(sent[e])
             c == Len(frags)
             M == Len(accepted[e]) + 1
  <1>1. /\ S \in Seq(Fragment) /\ L \in Nat
        /\ A \in Seq(Seq(Fragment)) /\ Len(A) \in Nat /\ M \in Nat
    BY Numbers
  <1>2. /\ c \in 1..(RcvWnd - 1) /\ c \in Nat
        /\ \A i \in 1..c : frags[i].msg = M /\ frags[i].frg = c - i
    BY DEF Cut
  <1>3. /\ Len(T) = L + c
        /\ \A k \in 1..L : T[k] = S[k]
        /\ \A i \in 1..c : T[L + i] = frags[i]
    BY <1>1, <1>2
  <1>4. /\ Len(B) = M /\ B[M] = frags
        /\ \A m \in 1..(M - 1) : B[m] = A[m]
    BY <1>1
  <1>5. /\ \A m \in 1..(M - 1) : Cut(m, A[m])
        /\ \A k \in 1..L : InPlace(e, S[k])
        /\ \A k \in 1..L : \A j \in 0..S[k].frg :
            k + j <= L /\ S[k + j].msg = S[k].msg /\ S[k + j].frg = S[k].frg - j
        /\ \A k \in 0..(L - 1), m \in Nat :
            Boundary(e, k, m) => Starts(e, k + 1, m + 1)
        /\ Boundary(e, L, M - 1)
    BY <1>1 DEF Framing
  <1>6. \A k \in 1..L : S[k].frg \in Nat /\ S[k].msg \in Nat
    <2>1. \A k \in 1..L : S[k] \in Fragment
      BY <1>1
    <2> QED
      BY <2>1 DEF Fragment
  <1>7. ASSUME NEW k \in 1..(L + c)
        PROVE  k \in 1..L \/ \E i \in 1..c : k = L + i
    <2>1. CASE k <= L
      BY <1>1, <2>1
    <2>2. CASE ~(k <= L)
      <3>1. L \in Nat /\ c \in Nat
        BY <1>1, <1>2
      <3> HIDE DEF L, c
      <3>2. k - L \in 1..c /\ k = L + (k - L)
        BY <2>2, <3>1
      <3> QED
        BY <3>2
    <2> QED
      BY <2>1, <2>2
  <1> HIDE DEF L, c, M
  <1>8. \A k \in 1..L : S[k].msg \in 1..(M - 1) /\ B[S[k].msg] = A[S[k].msg]
    <2>1. Len(A) = M - 1
      BY <1>1 DEF M
    <2>2. \A k \in 1..L : S[k].msg \in 1..(M - 1)
      BY <1>5, <2>1 DEF InPlace
    <2> QED
      BY <1>4, <2>2
  <1> HIDE DEF S, T, A, B
  <1>11. ASSUME NEW m \in 1..Len(B)
         PROVE  Cut(m, B[m])
    <2>1. CASE m = M
      BY <1>4, <2>1 DEF M
    <2>2. CASE m # M
      <3>0. M \in Nat /\ m \in 1..M
        BY <1>1, <1>4
      <3>1. m \in 1..(M - 1)
        BY <2>2, <3>0
      <3> QED
        BY <1>4, <1>5, <3>1
    <2> QED
      BY <2>1, <2>2
  <1>12. ASSUME NEW k \in 1..Len(T)
         PROVE  /\ T[k].msg \in 1..Len(B)
                /\ T[k].frg \in 0..(Len(B[T[k].msg]) - 1)
                /\ T[k] = B[T[k].msg][Len(B[T[k].msg]) - T[k].frg]
    <2>1. CASE k \in 1..L
      <3>1. T[k] = S[k] /\ B[S[k].msg] = A[S[k].msg] /\ S[k].msg \in 1..(M - 1)
        BY <1>3, <1>8, <2>1
      <3>2. /\ S[k].frg \in 0..(Len(A[S[k].msg]) - 1)
            /\ S[k] = A[S[k].msg][Len(A[S[k].msg]) - S[k].frg]
        BY <1>5, <2>1 DEF InPlace, A
      <3>3. S[k].msg \in 1..Len(B)
        BY <1>1, <1>4, <3>1
      <3> QED
        BY <3>1, <3>2, <3>3
    <2>2. ASSUME NEW i \in 1..c, k = L + i
          PROVE  /\ T[k].msg \in 1..Len(B)
                 /\ T[k].frg \in 0..(Len(B[T[k].msg]) - 1)
                 /\ T[k] = B[T[k].msg][Len(B[T[k].msg]) - T[k].frg]
      <3>1. T[k] = frags[i] /\ frags[i].msg = M /\ frags[i].frg = c - i
        BY <1>2, <1>3, <2>2
      <3>2. B[M] = frags /\ Len(frags) = c /\ M \in 1..Len(B)
        BY <1>1, <1>4 DEF c, M
      <3>3. c - i \in 0..(c - 1) /\ c - (c - i) = i
        BY <1>2
      <3> QED
        BY <3>1, <3>2, <3>3
    <2> QED
      BY <1>3, <1>7, <2>1, <2>2
  <1>13. ASSUME NEW k \in 1..Len(T), NEW j \in 0..T[k].frg
         PROVE  k + j <= Len(T) /\ T[k + j].msg = T[k].msg /\ T[k + j].frg = T[k].frg - j
    <2>1. CASE k \in 1..L
      <3>1. T[k] = S[k] /\ j \in 0..S[k].frg /\ S[k].frg \in Nat /\ j \in Nat
        BY <1>3, <1>6, <2>1
      <3>2. k + j <= L /\ S[k + j].msg = S[k].msg /\ S[k + j].frg = S[k].frg - j
        BY <1>5, <2>1, <3>1
      <3>3. /\ L \in Nat /\ c \in Nat /\ k \in Nat \ {0} /\ j \in Nat
            /\ k + j <= L
        <4>1. L \in Nat
          BY <1>1
        <4>2. c \in Nat
          BY <1>2
        <4>3. k \in Nat \ {0}
          BY <2>1, <4>1
        <4> QED
          BY <3>1, <3>2, <4>1, <4>2, <4>3
      <3>4. k + j \in 1..L /\ k + j <= L + c
        BY <3>3
      <3> QED
        BY <1>3, <3>1, <3>2, <3>4
    <2>2. ASSUME NEW i \in 1..c, k = L + i
          PROVE  k + j <= Len(T) /\ T[k + j].msg = T[k].msg /\ T[k + j].frg = T[k].frg - j
      <3>1. T[k] = frags[i] /\ frags[i].msg = M /\ frags[i].frg = c - i
        BY <1>2, <1>3, <2>2
      <3>2. j \in 0..(c - i)
        BY <3>1
      <3>3. i + j \in 1..c /\ k + j = L + (i + j) /\ k + j <= L + c /\ c - (i + j) = (c - i) - j
        BY <1>1, <1>2, <2>2, <3>2
      <3>4. T[k + j] = frags[i + j]
        BY <1>3, <3>3
      <3>5. frags[i + j].msg = M /\ frags[i + j].frg = c - (i + j)
        BY <1>2, <3>3
      <3> QED
        BY <1>3, <3>1, <3>3, <3>4, <3>5
    <2> QED
      BY <1>3, <1>7, <2>1, <2>2
  <1>14. T[L + c].msg = M /\ T[L + c].frg = 0 /\ L + c \in 1..Len(T)
    <2>1. c \in 1..c /\ L + c \in 1..(L + c) /\ c - c = 0
      BY <1>1, <1>2
    <2> QED
      BY <1>2, <1>3, <2>1
  <1>15. ASSUME NEW k \in 0..(Len(T) - 1), NEW m \in Nat,
                \/ k = 0 /\ m = 0
                \/ k \in 1..Len(T) /\ T[k].frg = 0 /\ T[k].msg = m
         PROVE  /\ k + 1 \in 1..Len(T)
                /\ T[k + 1].msg = m + 1
                /\ T[k + 1].frg = Len(B[m + 1]) - 1
    <2>1. k + 1 \in 1..Len(T)
      BY <1>1, <1>2, <1>3
    <2>2. CASE k < L
      <3>1. k + 1 \in 1..L /\ T[k + 1] = S[k + 1] /\ k \in 0..(L - 1)
        BY <1>1, <1>3, <2>2
      <3>2. k # 0 => k \in 1..L /\ T[k] = S[k]
        BY <1>1, <1>3, <2>2
      <3>3. Boundary(e, k, m)
        BY <1>15, <3>2 DEF Boundary, S, L
      <3>4. S[k + 1].msg = m + 1 /\ S[k + 1].frg = Len(A[m + 1]) - 1
        BY <1>5, <3>1, <3>3 DEF Starts, S, A
      <3>5. B[m + 1] = A[m + 1]
        BY <1>8, <3>1, <3>4
      <3> QED
        BY <2>1, <3>1, <3>4, <3>5
    <2>3. CASE k = L
      <3>1. m = M - 1
        <4>1. CASE L = 0
          BY <1>1, <1>5, <1>15, <2>3, <4>1 DEF Boundary
        <4>2. CASE L # 0
          <5>1. L \in 1..L /\ T[L] = S[L]
            BY <1>1, <1>3, <4>2
          <5>2. S[L].msg = M - 1
            BY <1>5, <4>2 DEF Boundary, S
          <5> QED
            BY <1>15, <2>3, <4>2, <5>1, <5>2
        <4> QED
          BY <4>1, <4>2
      <3>2. 1 \in 1..c /\ M - 1 + 1 = M
        BY <1>1, <1>2
      <3>3. T[L + 1] = frags[1] /\ frags[1].msg = M /\ frags[1].frg = c - 1
        BY <1>2, <1>3, <3>2
      <3>4. B[M] = frags /\ Len(frags) = c
        BY <1>4 DEF c
      <3> QED
        BY <2>1, <2>3, <3>1, <3>2, <3>3, <3>4
    <2>4. CASE k > L
      <3>1. k - L \in 1..(c - 1) /\ k = L + (k - L) /\ k # 0
        BY <1>1, <1>2, <1>3, <2>4
      <3>2. PICK i \in 1..(c - 1) : k = L + i
        BY <3>1
      <3>3. T[k].frg = c - i /\ c - i # 0
        <4>1. i \in 1..c /\ c - i # 0
          BY <1>2
        <4> QED
          BY <1>2, <1>3, <3>2, <4>1
      <3> QED
        BY <1>15, <3>1, <3>3
    <2> QED
      BY <1>1, <2>2, <2>3, <2>4
  <1> QED
    <2> USE DEF T, B
    <2>1. (\A m \in 1..Len(accepted[e]) : Cut(m, accepted[e][m]))'
      BY <1>11 DEF Cut
    <2>2. (\A k \in 1..Len(sent[e]) : InPlace(e, sent[e][k]))'
      BY <1>12 DEF InPlace
    <2>3. (\A k \in 0..(Len(sent[e]) - 1), m \in Nat :
            Boundary(e, k, m) => Starts(e, k + 1, m + 1))'
      BY <1>15 DEF Boundary, Starts
    <2>4. Boundary(e, Len(sent[e]), Len(accepted[e]))'
      BY <1>3, <1>4, <1>14 DEF Boundary
    <2> QED
      BY <1>13, <2>1, <2>2, <2>3, <2>4 DEF Framing

LEMMA SendContent ==
    ASSUME CoreInv, CoreInv', ContentInv, NEW e \in Endpoint, Send(e)
    PROVE  ContentInv'
  <1>1. PICK len \in MsgLens :
            /\ Sendable(len)
            /\ snd_queue' = [snd_queue EXCEPT ![e] =
                    @ \o Fragments(Len(accepted[e]) + 1, len)]
            /\ sent' = [sent EXCEPT ![e] =
                    @ \o Fragments(Len(accepted[e]) + 1, len)]
            /\ accepted' = [accepted EXCEPT ![e] =
                    Append(@, Fragments(Len(accepted[e]) + 1, len))]
    BY DEF Send
  <1> DEFINE frags == Fragments(Len(accepted[e]) + 1, len)
  <1>2. Len(accepted[e]) + 1 \in Nat
    BY Numbers
  <1>3. frags \in Seq(Fragment) /\ Cut(Len(accepted[e]) + 1, frags)
    BY <1>1, <1>2, FragmentsType, FragmentsCut
  <1> HIDE DEF frags
  <1>4. /\ UNCHANGED <<snd_buf, snd_nxt, rcv_buf, rcv_queue, rcv_nxt>>
        /\ UNCHANGED <<pending, net, delivered>>
    BY DEF Send, rcvVars, inpVars, netVars
  <1>5. /\ sent'[e] = sent[e] \o frags /\ snd_queue'[e] = snd_queue[e] \o frags
        /\ accepted'[e] = Append(accepted[e], frags)
        /\ \A f \in Endpoint \ {e} :
            /\ sent'[f] = sent[f] /\ accepted'[f] = accepted[f]
            /\ snd_queue'[f] = snd_queue[f]
    BY <1>1 DEF CoreInv, TypeOK, SndTypeOK, HistTypeOK, frags
  <1>6. ASSUME NEW f \in Endpoint
        PROVE  /\ Framing(f) /\ Sending(f) /\ Travelling(f) /\ Receiving(f)
               /\ snd_nxt[f] \in Nat /\ sent[f] \in Seq(Fragment)
               /\ snd_queue[f] \in Seq(Fragment) /\ DOMAIN snd_buf[f] \subseteq Nat
    BY Numbers DEF ContentInv
  <1>7. /\ Len(sent'[e]) = Len(sent[e]) + Len(frags)
        /\ \A k \in 1..Len(sent[e]) : sent'[e][k] = sent[e][k]
        /\ \A i \in 1..Len(frags) : sent'[e][Len(sent[e]) + i] = frags[i]
        /\ Len(snd_queue'[e]) = Len(snd_queue[e]) + Len(frags)
        /\ \A i \in 1..Len(snd_queue[e]) : snd_queue'[e][i] = snd_queue[e][i]
        /\ \A i \in 1..Len(frags) : snd_queue'[e][Len(snd_queue[e]) + i] = frags[i]
    BY <1>3, <1>5, <1>6
  <1>8. ASSUME NEW f \in Endpoint PROVE Grows(f)
    <2>1. CASE f = e
      BY <1>3, <1>4, <1>6, <1>7, <2>1 DEF Grows
    <2>2. CASE f # e
      BY <1>4, <1>5, <1>6, <2>2 DEF Grows
    <2> QED
      BY <2>1, <2>2
  <1>9. ASSUME NEW f \in Endpoint PROVE Framing(f)'
    BY <1>3, <1>5, <1>6, SendFraming, FramingStays
  <1>10. ASSUME NEW f \in Endpoint PROVE Sending(f)'
    <2>1. CASE f # e
      BY <1>4, <1>5, <1>6, <2>1, SendingStays
    <2>2. CASE f = e
      <3> DEFINE x == snd_nxt[e]
                 q == Len(snd_queue[e])
                 n == Len(frags)
      <3>1. x \in Nat /\ q \in Nat /\ n \in Nat /\ x + q = Len(sent[e])
        BY <1>3, <1>6 DEF Sending
      <3>0. Len(snd_queue'[e]) = q + n /\ Len(sent'[e]) = Len(sent[e]) + n
        BY <1>7
      <3> HIDE DEF x, q, n
      <3>2. x + Len(snd_queue'[e]) = Len(sent'[e])
        BY <3>0, <3>1
      <3>3. ASSUME NEW i \in 1..Len(snd_queue'[e])
            PROVE  snd_queue'[e][i] = sent'[e][x + i]
        <4>1. CASE i <= q
          <5>1. i \in 1..q /\ x + i \in 1..Len(sent[e])
            BY <3>0, <3>1, <4>1
          <5> QED
            BY <1>6, <1>7, <5>1 DEF Sending, x, q
        <4>2. CASE i > q
          <5>1. i - q \in 1..n /\ q + (i - q) = i /\ Len(sent[e]) + (i - q) = x + i
            BY <3>0, <3>1, <4>2
          <5> QED
            BY <1>7, <5>1 DEF q, n
        <4> QED
          BY <3>1, <4>1, <4>2
      <3>4. ASSUME NEW sn \in DOMAIN snd_buf[e]
            PROVE  Carries(e, sn, snd_buf[e][sn].frag)'
        <4>1. Carries(e, sn, snd_buf[e][sn].frag) /\ sn \in Nat
          BY <1>6 DEF Sending
        <4>2. PICK frag : frag = snd_buf[e][sn].frag
          OBVIOUS
        <4>3. Carries(e, sn, frag)'
          BY <1>6, <1>8, <4>1, <4>2, CarriesStays
        <4> QED
          BY <1>4, <4>2, <4>3 DEF Carries
      <3> QED
        BY <1>4, <2>2, <3>2, <3>3, <3>4 DEF Sending, x
    <2> QED
      BY <2>1, <2>2
  <1>11. ASSUME NEW f \in Endpoint PROVE Travelling(f)'
    <2>1. \A d \in net'[Peer(f)] \cup {pending'[Peer(f)]} : Faithful(f, d)
      BY <1>4, <1>6 DEF Travelling
    <2> QED
      BY <1>6, <1>8, <2>1, TravellingStays
  <1>12. ASSUME NEW f \in Endpoint PROVE Receiving(f)'
    BY <1>4, <1>6, <1>8, ReceivingStays
  <1> QED
    BY <1>9, <1>10, <1>11, <1>12 DEF ContentInv

-----------------------------------------------------------------------------
(* ikcp_recv                                                               *)

\* The fragments that follow what ikcp_recv of p has returned are message m.
Follows(e, p, m) ==
    /\ Taken(p) \in Nat
    /\ m \in 1..Len(accepted[e])
    /\ Len(accepted[e][m]) \in 1..(RcvWnd - 1)
    /\ \A i \in 1..Len(accepted[e][m]) :
        /\ Taken(p) + i \in 1..Len(sent[e])
        /\ sent[e][Taken(p) + i] = accepted[e][m][i]
        /\ sent[e][Taken(p) + i].msg = m
        /\ sent[e][Taken(p) + i].frg = Len(accepted[e][m]) - i
    /\ \A i \in 1..Len(rcv_queue[p]) : rcv_queue[p][i] = sent[e][Taken(p) + i]
    /\ Taken(p) + Len(rcv_queue[p]) = rcv_nxt[p]
    /\ rcv_nxt[p] <= Len(sent[e])

\* It is the next message that ikcp_send took.
LEMMA NextMessage ==
    ASSUME CoreInv, ContentInv, NEW e \in Endpoint, NEW p, p = Peer(e),
           rcv_queue[p] # <<>>, NEW m, m = Len(delivered[p]) + 1
    PROVE  Follows(e, p, m)
  <1> DEFINE start == rcv_nxt[p] - Len(rcv_queue[p])
             d     == Len(delivered[p])
             A     == accepted[e][m]
             c     == Len(A)
  <1>1. Framing(e) /\ Sending(e) /\ Receiving(e)
    BY DEF ContentInv
  <1>2. /\ p \in Endpoint /\ rcv_nxt[p] \in Nat /\ d \in Nat
        /\ rcv_queue[p] \in Seq(Fragment) /\ Len(rcv_queue[p]) \in Nat \ {0}
        /\ snd_nxt[e] \in Nat /\ Len(snd_queue[e]) \in Nat /\ Len(sent[e]) \in Nat
        /\ sent[e] \in Seq(Fragment)
        /\ accepted[e] \in Seq(Seq(Fragment)) /\ Len(accepted[e]) \in Nat
    BY PeerFacts, Numbers
  <1>3. /\ Boundary(e, start, d)
        /\ rcv_nxt[p] <= snd_nxt[e]
        /\ snd_nxt[e] + Len(snd_queue[e]) = Len(sent[e])
        /\ \A i \in 1..Len(rcv_queue[p]) : rcv_queue[p][i] = sent[e][start + i]
    BY <1>1 DEF Receiving, Sending, Taken
  <1>4. start \in Nat
    BY <1>2, <1>3 DEF Boundary
  <1>5. /\ start + Len(rcv_queue[p]) = rcv_nxt[p] /\ rcv_nxt[p] <= Len(sent[e])
        /\ start \in 0..(Len(sent[e]) - 1)
    <2>1. start + Len(rcv_queue[p]) = rcv_nxt[p]
      BY <1>2
    <2>2. rcv_nxt[p] <= Len(sent[e])
      <3>1. /\ rcv_nxt[p] <= snd_nxt[e]
            /\ snd_nxt[e] + Len(snd_queue[e]) = Len(sent[e])
        BY <1>3
      <3>2. /\ rcv_nxt[p] \in Nat /\ snd_nxt[e] \in Nat
            /\ Len(snd_queue[e]) \in Nat /\ Len(sent[e]) \in Nat
        BY <1>2
      <3> QED
        BY <3>1, <3>2
    <2>3. Len(rcv_queue[p]) \in Nat \ {0} /\ rcv_nxt[p] \in Nat /\ Len(sent[e]) \in Nat
      BY <1>2
    <2> HIDE DEF start
    <2> QED
      BY <1>4, <2>1, <2>2, <2>3
  <1>6. Starts(e, start + 1, m)
    BY <1>1, <1>2, <1>3, <1>5 DEF Framing
  <1> HIDE DEF start
  <1>7. /\ start + 1 \in 1..Len(sent[e])
        /\ sent[e][start + 1].msg = m /\ sent[e][start + 1].frg = c - 1
    BY <1>6 DEF Starts
  <1>8. m \in 1..Len(accepted[e])
    BY <1>1, <1>7 DEF Framing, InPlace
  <1>9. A \in Seq(Fragment) /\ c \in Nat /\ c \in 1..(RcvWnd - 1)
    <2>1. A \in Seq(Fragment)
      BY <1>2, <1>8
    <2>2. Cut(m, A)
      BY <1>1, <1>8 DEF Framing
    <2> QED
      BY <2>1, <2>2 DEF Cut
  <1> HIDE DEF A, c
  <1>10. ASSUME NEW i \in 1..c
         PROVE  /\ start + i \in 1..Len(sent[e])
                /\ sent[e][start + i] = A[i]
                /\ sent[e][start + i].msg = m
                /\ sent[e][start + i].frg = c - i
    <2>1. /\ i - 1 \in 0..sent[e][start + 1].frg
          /\ (start + 1) + (i - 1) = start + i /\ (c - 1) - (i - 1) = c - i
      BY <1>4, <1>7, <1>9
    <2>2. /\ (start + 1) + (i - 1) <= Len(sent[e])
          /\ sent[e][(start + 1) + (i - 1)].msg = sent[e][start + 1].msg
          /\ sent[e][(start + 1) + (i - 1)].frg = sent[e][start + 1].frg - (i - 1)
      BY <1>1, <1>7, <2>1 DEF Framing
    <2>3. /\ start + i \in 1..Len(sent[e])
          /\ sent[e][start + i].msg = m /\ sent[e][start + i].frg = c - i
      <3>1. start + i <= Len(sent[e]) /\ Len(sent[e]) \in Nat
        BY <1>2, <2>1, <2>2
      <3>2. start + i \in 1..Len(sent[e])
        BY <1>4, <1>9, <3>1
      <3>3. sent[e][start + i].msg = m
        BY <1>7, <2>1, <2>2
      <3>4. sent[e][start + i].frg = (c - 1) - (i - 1)
        BY <1>7, <2>1, <2>2
      <3> QED
        BY <2>1, <3>2, <3>3, <3>4
    <2>4. InPlace(e, sent[e][start + i])
      BY <1>1, <2>3 DEF Framing
    <2>5. c - (c - i) = i
      BY <1>9
    <2>6. sent[e][start + i] = A[i]
      BY <2>3, <2>4, <2>5 DEF InPlace, A, c
    <2> QED
      BY <2>3, <2>6
  <1> QED
    BY <1>3, <1>4, <1>5, <1>8, <1>9, <1>10 DEF start, A, c, Taken, Follows

\* What ikcp_peeksize finds at the head of rcv_queue is that message.
LEMMA PeekMessage ==
    ASSUME CoreInv, ContentInv, NEW e \in Endpoint, NEW p, p = Peer(e),
           rcv_queue[p] # <<>>, NEW m, m = Len(delivered[p]) + 1,
           NEW n \in 1..Len(rcv_queue[p])
    PROVE  IsMessage(rcv_queue[p], n) <=>
                n = Len(accepted[e][m])
  <1> DEFINE start == Taken(p)
             c     == Len(accepted[e][m])
             Q     == rcv_queue[p]
  <1>0. Follows(e, p, m)
    BY NextMessage
  <1>1. /\ start \in Nat
        /\ m \in 1..Len(accepted[e])
        /\ c \in 1..(RcvWnd - 1)
        /\ \A i \in 1..c :
            /\ start + i \in 1..Len(sent[e])
            /\ sent[e][start + i] = accepted[e][m][i]
            /\ sent[e][start + i].frg = c - i
        /\ \A i \in 1..Len(Q) : Q[i] = sent[e][start + i]
    BY <1>0 DEF Follows
  <1>2. Q \in Seq(Fragment) /\ Len(Q) \in Nat \ {0} /\ Head(Q) = Q[1]
    BY PeerFacts, Numbers
  <1> HIDE DEF start, c, Q
  <1>3. c \in Nat /\ \A i \in 1..c : i <= Len(Q) => Q[i].frg = c - i
    <2>1. c \in Nat
      BY <1>1
    <2>2. ASSUME NEW i \in 1..c, i <= Len(Q) PROVE Q[i].frg = c - i
      <3>1. i \in 1..Len(Q)
        BY <1>2, <2>1, <2>2
      <3> QED
        BY <1>1, <3>1
    <2> QED
      BY <2>1, <2>2
  <1>4. Head(Q).frg + 1 = c
    <2>1. 1 \in 1..c /\ 1 <= Len(Q) /\ c - 1 + 1 = c
      BY <1>1, <1>2
    <2> QED
      BY <1>2, <1>3, <2>1
  <1>5. ASSUME n = c
        PROVE  IsMessage(Q, n)
    <2>1. n \in 1..Len(Q) /\ n \in 1..c /\ c - n = 0 /\ c <= Len(Q)
      BY <1>1, <1>2, <1>3, <1>5 DEF Q
    <2>2. Q[n].frg = 0
      BY <1>3, <2>1
    <2>3. ASSUME NEW i \in 1..(n - 1) PROVE Q[i].frg # 0
      <3>1. i \in 1..c /\ i <= Len(Q) /\ c - i # 0
        BY <1>2, <1>3, <1>5, <2>1
      <3> QED
        BY <1>3, <3>1
    <2> QED
      BY <1>4, <2>1, <2>2, <2>3 DEF IsMessage
  <1>6. ASSUME IsMessage(Q, n)
        PROVE  n = c
    <2>1. n \in Nat /\ n \in 1..Len(Q)
      BY <1>2 DEF Q
    <2>2. CASE n <= c
      <3>1. n \in 1..c /\ n <= Len(Q)
        BY <1>2, <1>3, <2>1, <2>2
      <3>2. c - n = 0
        BY <1>3, <1>6, <3>1 DEF IsMessage
      <3> QED
        BY <1>3, <2>1, <3>2
    <2>3. CASE n > c
      <3>1. c \in 1..(n - 1) /\ c \in 1..c /\ c <= Len(Q) /\ c - c = 0
        BY <1>1, <1>2, <1>3, <2>1, <2>3
      <3>2. Q[c].frg = 0
        BY <1>3, <3>1
      <3> QED
        BY <1>6, <3>1, <3>2 DEF IsMessage
    <2> QED
      BY <1>3, <2>1, <2>2, <2>3
  <1> QED
    BY <1>5, <1>6 DEF Q, c

\* The move from rcv_buf to rcv_queue at the end of ikcp_parse_data and of
\* ikcp_recv appends the fragments in the order of sent[e].
LEMMA MoveContent ==
    ASSUME CoreInv, NEW e \in Endpoint, NEW p, p = Peer(e), Sending(e),
           sent'[e] = sent[e], snd_nxt'[e] = snd_nxt[e],
           NEW queue \in Seq(Fragment), NEW buf, DOMAIN buf \subseteq Nat,
           \A sn \in DOMAIN buf : buf[sn] \in Fragment /\ Carries(e, sn, buf[sn]),
           rcv_nxt[p] <= snd_nxt[e],
           NEW start \in Nat, start + Len(queue) = rcv_nxt[p],
           \A i \in 1..Len(queue) : queue[i] = sent[e][start + i],
           Boundary(e, start, Len(delivered'[p])),
           MoveToQueue(p, queue, buf)
    PROVE  Receiving(e)'
  <1> DEFINE r == rcv_nxt[p]
             q == Len(queue)
  <1>1. /\ p \in Endpoint /\ r \in Nat /\ q \in Nat
        /\ snd_nxt[e] \in Nat
    BY PeerFacts, Numbers
  <1>2. PICK n \in 0..RcvWnd :
        /\ MovesToQueue(n, rcv_nxt[p], buf, Len(queue))
        /\ rcv_queue' = [rcv_queue EXCEPT ![p] =
                queue \o [i \in 1..n |-> buf[rcv_nxt[p] + i - 1]]]
        /\ rcv_buf' = [rcv_buf EXCEPT ![p] =
                [s \in {x \in DOMAIN buf : x >= rcv_nxt[p] + n} |-> buf[s]]]
        /\ rcv_nxt' = [rcv_nxt EXCEPT ![p] = @ + n]
    BY DEF MoveToQueue
  <1> DEFINE moved == [i \in 1..n |-> buf[r + i - 1]]
  <1>3. n \in Nat
    BY KcpAssumption
  <1>4. /\ rcv_queue'[p] = queue \o moved
        /\ rcv_nxt'[p] = r + n
        /\ DOMAIN rcv_buf'[p] = {x \in DOMAIN buf : x >= r + n}
        /\ \A sn \in DOMAIN rcv_buf'[p] : rcv_buf'[p][sn] = buf[sn]
    BY <1>1, <1>2 DEF CoreInv, TypeOK, RcvTypeOK
  <1>5. ASSUME NEW i \in 1..n
        PROVE  r + i - 1 \in DOMAIN buf
    <2>1. r + i - 1 \in r..(r + n - 1)
      BY <1>1, <1>3
    <2> QED
      BY <1>2, <2>1 DEF MovesToQueue
  <1> HIDE DEF r, q
  <1>6. moved \in Seq(Fragment) /\ Len(moved) = n
    <2>1. \A i \in 1..n : buf[r + i - 1] \in Fragment
      BY <1>5
    <2> QED
      BY <1>3, <2>1
  <1>7. ASSUME NEW i \in 1..n
        PROVE  moved[i] = sent[e][r + i]
    <2>1. moved[i] = buf[r + i - 1]
      OBVIOUS
    <2>2. (r + i - 1) + 1 = r + i
      BY <1>1, <1>3
    <2> QED
      BY <1>5, <2>1, <2>2 DEF Carries
  <1> HIDE DEF moved
  <1>8. /\ Len(queue \o moved) = q + n
        /\ \A i \in 1..q : (queue \o moved)[i] = queue[i]
        /\ \A i \in 1..n : (queue \o moved)[q + i] = moved[i]
    <2>1. /\ Len(queue \o moved) = Len(queue) + Len(moved)
          /\ \A i \in 1..Len(queue) : (queue \o moved)[i] = queue[i]
          /\ \A i \in 1..Len(moved) : (queue \o moved)[Len(queue) + i] = moved[i]
      <3>1. moved \in Seq(Fragment)
        BY <1>6
      <3>2. Len(queue \o moved) = Len(queue) + Len(moved)
        BY <3>1
      <3>3. \A i \in 1..Len(queue) : (queue \o moved)[i] = queue[i]
        BY <3>1
      <3>4. ASSUME NEW i \in 1..Len(moved)
            PROVE  (queue \o moved)[Len(queue) + i] = moved[i]
        BY <3>1
      <3> QED
        BY <3>2, <3>3, <3>4
    <2> QED
      BY <1>6, <2>1 DEF q
  <1>9. r + n <= snd_nxt[e]
    <2>1. CASE n = 0
      BY <1>1, <2>1 DEF r
    <2>2. CASE n # 0
      <3>1. n \in 1..n
        BY <1>3, <2>2
      <3>2. r + n - 1 < snd_nxt[e]
        BY <1>5, <3>1 DEF Carries
      <3> QED
        BY <1>1, <1>3, <3>2
    <2> QED
      BY <2>1, <2>2
  <1>10. (r + n) - (q + n) = start
    BY <1>1, <1>3 DEF r, q
  <1>11. ASSUME NEW i \in 1..(q + n)
         PROVE  (queue \o moved)[i] = sent[e][start + i]
    <2>1. CASE i <= q
      <3>1. i \in 1..q
        BY <1>1, <2>1
      <3> QED
        BY <1>8, <3>1 DEF q
    <2>2. CASE i > q
      <3>1. i - q \in 1..n /\ q + (i - q) = i
        BY <1>1, <1>3, <2>2
      <3>2. r + (i - q) = start + i
        BY <1>1, <1>3, <2>2 DEF r, q
      <3>3. (queue \o moved)[i] = moved[i - q]
        BY <1>8, <3>1
      <3> QED
        BY <1>7, <3>1, <3>2, <3>3
    <2>3. i <= q \/ i > q
      BY <1>1, <1>3
    <2> QED
      BY <2>1, <2>2, <2>3
  <1>12. ASSUME NEW sn \in DOMAIN rcv_buf'[p]
         PROVE  Carries(e, sn, rcv_buf[p][sn])'
    <2>1. sn \in DOMAIN buf /\ rcv_buf'[p][sn] = buf[sn]
      BY <1>4
    <2>2. sn < snd_nxt[e] /\ buf[sn] = sent[e][sn + 1]
      BY <2>1 DEF Carries
    <2> QED
      BY <2>1, <2>2 DEF Carries
  <1>13. Taken(p)' = start
    BY <1>4, <1>8, <1>10 DEF Taken
  <1>14. Boundary(e, Taken(p), Len(delivered[p]))'
    <2>1. PICK m : m = Len(delivered'[p])
      OBVIOUS
    <2>2. Boundary(e, start, m)
      BY <2>1
    <2> QED
      BY <1>13, <2>1, <2>2 DEF Boundary
  <1>15. \A i \in 1..Len(rcv_queue'[p]) : rcv_queue'[p][i] = sent'[e][Taken(p)' + i]
    BY <1>4, <1>8, <1>11, <1>13
  <1>16. rcv_nxt'[p] <= snd_nxt'[e]
    BY <1>4, <1>9
  <1> QED
    BY <1>12, <1>14, <1>15, <1>16 DEF Receiving

\* A step that changes nothing about the direction from e to its peer.
LEMMA DirectionStays ==
    ASSUME CoreInv, CoreInv', ContentInv, NEW e \in Endpoint,
           NEW p, p = Peer(e),
           sent'[e] = sent[e], accepted'[e] = accepted[e],
           snd_nxt'[e] = snd_nxt[e], snd_queue'[e] = snd_queue[e],
           snd_buf'[e] = snd_buf[e], net'[p] = net[p], pending'[p] = pending[p],
           rcv_nxt'[p] = rcv_nxt[p], rcv_queue'[p] = rcv_queue[p],
           rcv_buf'[p] = rcv_buf[p], delivered'[p] = delivered[p]
    PROVE  (Framing(e) /\ Sending(e) /\ Travelling(e) /\ Receiving(e))'
  <1>1. Framing(e) /\ Sending(e) /\ Travelling(e) /\ Receiving(e)
    BY DEF ContentInv
  <1>2. Grows(e)
    BY Numbers DEF Grows
  <1>3. Framing(e)' /\ Sending(e)'
    BY <1>1, FramingStays, SendingStays
  <1>4. \A d \in net'[p] \cup {pending'[p]} : Faithful(e, d)
    BY <1>1 DEF Travelling
  <1>5. Travelling(e)'
    BY <1>1, <1>2, <1>4, TravellingStays
  <1>6. Receiving(e)'
    BY <1>1, <1>2, ReceivingStays
  <1> QED
    BY <1>3, <1>5, <1>6

\* ikcp_recv returns the next message, and what is left starts at its end.
LEMMA RecvStep ==
    ASSUME CoreInv, ContentInv, NEW e \in Endpoint, NEW p, p = Peer(e), Recv(p)
    PROVE  /\ Len(delivered[p]) + 1 \in 1..Len(accepted[e])
           /\ delivered' = [delivered EXCEPT
                    ![p] = Append(@, accepted[e][Len(delivered[p]) + 1])]
           /\ Receiving(e)'
  <1> DEFINE Q == rcv_queue[p]
             m == Len(delivered[p]) + 1
  <1>1. PICK n \in 1..Len(Q) :
            /\ IsMessage(Q, n)
            /\ delivered' = [delivered EXCEPT ![p] = Append(@, SubSeq(Q, 1, n))]
            /\ MoveToQueue(p, SubSeq(Q, n + 1, Len(Q)), rcv_buf[p])
    BY DEF Recv
  <1>2. Q # <<>>
    BY DEF Recv
  <1>3. Follows(e, p, m)
    BY <1>2, NextMessage
  <1>4. n = Len(accepted[e][m])
    BY <1>1, <1>2, PeekMessage
  <1>5. /\ p \in Endpoint /\ Q \in Seq(Fragment) /\ Len(Q) \in Nat /\ n \in Nat
        /\ accepted[e] \in Seq(Seq(Fragment)) /\ Len(delivered[p]) \in Nat
        /\ delivered[p] \in Seq(Seq(Fragment)) /\ Len(sent[e]) \in Nat
        /\ DOMAIN rcv_buf[p] \subseteq Nat
        /\ \A sn \in DOMAIN rcv_buf[p] : rcv_buf[p][sn] \in Fragment
    BY <1>1, PeerFacts, Numbers
  <1> DEFINE rest == SubSeq(Q, n + 1, Len(Q))
             head == SubSeq(Q, 1, n)
  <1>6. /\ head \in Seq(Fragment) /\ Len(head) = n
        /\ \A i \in 1..n : head[i] = Q[i]
    BY <1>1, <1>5
  <1>7. /\ rest \in Seq(Fragment) /\ Len(rest) = Len(Q) - n
        /\ \A i \in 1..(Len(Q) - n) : rest[i] = Q[n + i]
    <2>1. n + 1 \in Int /\ Len(Q) \in Int /\ \A i \in (n + 1)..Len(Q) : Q[i] \in Fragment
      BY <1>1, <1>5
    <2>2. /\ rest \in Seq(Fragment)
          /\ Len(rest) = IF n + 1 <= Len(Q) THEN Len(Q) - (n + 1) + 1 ELSE 0
          /\ \A i \in 1..(Len(Q) - (n + 1) + 1) : rest[i] = Q[(n + 1) + i - 1]
      BY <2>1, SubSeqProperties
    <2>3. Len(rest) = Len(Q) - n
      BY <1>1, <1>5, <2>2
    <2>4. ASSUME NEW i \in 1..(Len(Q) - n) PROVE rest[i] = Q[n + i]
      <3>1. i \in 1..(Len(Q) - (n + 1) + 1) /\ (n + 1) + i - 1 = n + i
        BY <1>1, <1>5
      <3> QED
        BY <2>2, <3>1
    <2> QED
      BY <2>2, <2>3, <2>4
  <1> HIDE DEF rest, head
  <1>8. head = accepted[e][m]
    <2>1. accepted[e][m] \in Seq(Fragment) /\ Len(accepted[e][m]) = n
      BY <1>3, <1>4, <1>5 DEF Follows
    <2>2. ASSUME NEW i \in 1..n PROVE head[i] = accepted[e][m][i]
      <3>1. i \in 1..Len(accepted[e][m]) /\ head[i] = Q[i]
        BY <1>4, <1>6
      <3>2. n \in 1..Len(Q) /\ Len(Q) \in Nat
        BY <1>1, <1>5
      <3> HIDE DEF Q
      <3>3. i \in 1..Len(Q)
        BY <3>2
      <3> USE DEF Q
      <3> QED
        BY <1>3, <3>1, <3>3 DEF Follows
    <2> QED
      BY <1>6, <2>1, <2>2, SeqEqual
  <1>9. delivered' = [delivered EXCEPT ![p] = Append(@, accepted[e][m])]
    BY <1>1, <1>8 DEF head
  <1>10. Len(delivered'[p]) = m
    <2>1. accepted[e][m] \in Seq(Fragment)
      BY <1>3, <1>5 DEF Follows
    <2>2. delivered'[p] = Append(delivered[p], accepted[e][m])
      BY <1>5, <1>9 DEF CoreInv, TypeOK, HistTypeOK
    <2> QED
      BY <1>5, <2>1, <2>2
  <1>11. Receiving(e)'
    <2> DEFINE start == Taken(p) + n
    <2>1. /\ Framing(e) /\ Sending(e) /\ Receiving(e)
          /\ sent' = sent /\ snd_nxt' = snd_nxt
      BY DEF ContentInv, Recv, sndVars
    <2>2. Taken(p) \in Nat /\ Taken(p) + Len(Q) = rcv_nxt[p]
      BY <1>3 DEF Follows
    <2>3. start \in Nat /\ start + Len(rest) = rcv_nxt[p]
      <3>1. Len(rest) = Len(Q) - n
        BY <1>7
      <3>2. n \in Nat /\ Len(Q) \in Nat
        BY <1>5
      <3> HIDE DEF Q
      <3> QED
        BY <2>2, <3>1, <3>2
    <2>4. ASSUME NEW i \in 1..Len(rest)
          PROVE  rest[i] = sent[e][start + i]
      <3>1. i \in 1..(Len(Q) - n) /\ n + i \in 1..Len(Q) /\ Taken(p) + (n + i) = start + i
        BY <1>1, <1>5, <1>7, <2>2
      <3>2. rest[i] = Q[n + i] /\ Q[n + i] = sent[e][Taken(p) + (n + i)]
        BY <1>3, <1>7, <3>1 DEF Follows
      <3> QED
        BY <3>1, <3>2
    <2>5. Boundary(e, start, Len(delivered'[p]))
      <3>1. n \in 1..Len(accepted[e][m]) /\ Len(accepted[e][m]) - n = 0
        BY <1>1, <1>4, <1>5
      <3>2. /\ start \in 1..Len(sent[e]) /\ sent[e][start].msg = m
            /\ sent[e][start].frg = 0
        BY <1>3, <3>1 DEF Follows
      <3> QED
        BY <1>10, <3>2 DEF Boundary
    <2>6. /\ \A sn \in DOMAIN rcv_buf[p] : Carries(e, sn, rcv_buf[p][sn])
          /\ rcv_nxt[p] <= snd_nxt[e]
      BY <2>1 DEF Receiving
    <2>7. MoveToQueue(p, rest, rcv_buf[p])
      BY <1>1 DEF rest
    <2> HIDE DEF start
    <2> QED
      BY <1>5, <1>7, <2>1, <2>3, <2>4, <2>5, <2>6, <2>7, MoveContent
  <1> QED
    BY <1>3, <1>9, <1>11 DEF Follows

LEMMA RecvContent ==
    ASSUME CoreInv, CoreInv', ContentInv, NEW p \in Endpoint, Recv(p)
    PROVE  ContentInv'
  <1>1. Peer(p) \in Endpoint /\ p = Peer(Peer(p)) /\ Peer(p) # p
    BY PeerFacts
  <1>2. UNCHANGED <<sent, accepted, snd_queue, snd_buf, snd_nxt, net, pending>>
    BY DEF Recv, sndVars, inpVars, netVars
  <1>3. \A f \in Endpoint \ {p} :
            /\ rcv_nxt'[f] = rcv_nxt[f] /\ rcv_queue'[f] = rcv_queue[f]
            /\ rcv_buf'[f] = rcv_buf[f] /\ delivered'[f] = delivered[f]
    <2>1. \E queue, buf : MoveToQueue(p, queue, buf)
      BY DEF Recv
    <2>2. \E x : delivered' = [delivered EXCEPT ![p] = x]
      BY DEF Recv
    <2> QED
      BY <2>1, <2>2 DEF MoveToQueue, CoreInv, TypeOK, RcvTypeOK, HistTypeOK
  <1>4. ASSUME NEW e \in Endpoint
        PROVE  (Framing(e) /\ Sending(e) /\ Travelling(e) /\ Receiving(e))'
    <2>1. CASE Peer(e) # p
      BY <1>2, <1>3, <2>1, PeerFacts, DirectionStays
    <2>2. CASE Peer(e) = p
      <3>1. Framing(e) /\ Sending(e) /\ Travelling(e)
        BY DEF ContentInv
      <3>2. Framing(e)' /\ Sending(e)'
        BY <1>2, <3>1, FramingStays, SendingStays
      <3>3. Grows(e)
        BY <1>2, Numbers DEF Grows
      <3>4. \A d \in net'[Peer(e)] \cup {pending'[Peer(e)]} : Faithful(e, d)
        BY <1>2, <3>1 DEF Travelling
      <3>5. Travelling(e)'
        BY <3>1, <3>3, <3>4, TravellingStays
      <3>6. Receiving(e)'
        BY <2>2, RecvStep
      <3> QED
        BY <3>2, <3>5, <3>6
    <2> QED
      BY <2>1, <2>2
  <1> QED
    BY <1>4 DEF ContentInv

-----------------------------------------------------------------------------
(* ikcp_input                                                              *)

\* What a segment says about acknowledgements only drops from snd_buf.
LEMMA InputShrinks ==
    ASSUME CoreInv, NEW p \in Endpoint, NEW seg,
           InputAck(p, seg) \/ InputHeader(p, seg)
    PROVE  /\ \A sn \in DOMAIN snd_buf'[p] :
                sn \in DOMAIN snd_buf[p] /\ snd_buf'[p][sn] = snd_buf[p][sn]
           /\ \A f \in Endpoint \ {p} : snd_buf'[f] = snd_buf[f]
  <1> DEFINE first == ParseUna(snd_buf[p], seg.una)
             una   == ShrinkBuf(first, snd_nxt[p])
             buf   == ParseAck(first, una, snd_nxt[p], seg.sn)
  <1>1. /\ DOMAIN first \subseteq DOMAIN snd_buf[p]
        /\ \A sn \in DOMAIN first : first[sn] = snd_buf[p][sn]
    BY DEF ParseUna
  <1> HIDE DEF first, una
  <1>2. /\ DOMAIN buf \subseteq DOMAIN first
        /\ \A sn \in DOMAIN buf : buf[sn] = first[sn]
    BY DEF ParseAck
  <1> HIDE DEF buf
  <1>3. \/ snd_buf' = [snd_buf EXCEPT ![p] = first]
        \/ snd_buf' = [snd_buf EXCEPT ![p] = buf]
    <2>1. CASE InputAck(p, seg)
      BY <2>1 DEF InputAck, first, una, buf
    <2>2. CASE InputHeader(p, seg)
      BY <2>2 DEF InputHeader, first
    <2> QED
      BY <2>1, <2>2
  <1>4. DOMAIN snd_buf = Endpoint
    BY DEF CoreInv, TypeOK, SndTypeOK
  <1> QED
    BY <1>1, <1>2, <1>3, <1>4

\* What ikcp_parse_data stores is what e sent under that number.
LEMMA PushContent ==
    ASSUME CoreInv, CoreInv', ContentInv, NEW e \in Endpoint, NEW p, p = Peer(e),
           NEW seg \in Segment, Carries(e, seg.sn, seg.frag), InputPush(p, seg),
           sent'[e] = sent[e], snd_nxt'[e] = snd_nxt[e],
           delivered'[p] = delivered[p]
    PROVE  Receiving(e)'
  <1>1. Sending(e) /\ Receiving(e) /\ Grows(e)
    BY Numbers DEF ContentInv, Grows
  <1>2. CASE UNCHANGED <<rcv_buf, rcv_queue, rcv_nxt>>
    BY <1>1, <1>2, ReceivingStays
  <1> DEFINE buf == InsertData(rcv_buf[p], rcv_nxt[p], seg.sn, seg.frag)
  <1>3. CASE MoveToQueue(p, rcv_queue[p], buf)
    <2>1. /\ p \in Endpoint /\ rcv_nxt[p] \in Nat /\ DOMAIN rcv_buf[p] \subseteq Nat
          /\ rcv_queue[p] \in Seq(Fragment) /\ Len(rcv_queue[p]) \in Nat
          /\ \A sn \in DOMAIN rcv_buf[p] : rcv_buf[p][sn] \in Fragment
      BY PeerFacts, Numbers
    <2>2. seg.sn \in Nat /\ seg.frag \in Fragment
      BY DEF Segment
    <2>3. /\ \A sn \in DOMAIN rcv_buf[p] : Carries(e, sn, rcv_buf[p][sn])
          /\ rcv_nxt[p] <= snd_nxt[e]
          /\ \A i \in 1..Len(rcv_queue[p]) :
                rcv_queue[p][i] = sent[e][Taken(p) + i]
          /\ Boundary(e, Taken(p), Len(delivered[p]))
      BY <1>1 DEF Receiving
    <2>4. /\ DOMAIN buf \subseteq Nat
          /\ \A sn \in DOMAIN buf : buf[sn] \in Fragment /\ Carries(e, sn, buf[sn])
      <3>1. CASE buf = rcv_buf[p]
        BY <2>1, <2>3, <3>1
      <3>2. CASE buf = [s \in DOMAIN rcv_buf[p] \cup {seg.sn} |->
                            IF s = seg.sn THEN seg.frag ELSE rcv_buf[p][s]]
        <4> HIDE DEF buf
        <4>1. /\ DOMAIN buf = DOMAIN rcv_buf[p] \cup {seg.sn}
              /\ \A sn \in DOMAIN buf :
                    buf[sn] = IF sn = seg.sn THEN seg.frag ELSE rcv_buf[p][sn]
          BY <3>2
        <4>2. ASSUME NEW sn \in DOMAIN buf
              PROVE  sn \in Nat /\ buf[sn] \in Fragment /\ Carries(e, sn, buf[sn])
          <5>1. CASE sn = seg.sn
            BY <2>2, <4>1, <5>1
          <5>2. CASE sn # seg.sn
            BY <2>1, <2>3, <4>1, <5>2
          <5> QED
            BY <5>1, <5>2
        <4> QED
          BY <4>2
      <3> QED
        BY <3>1, <3>2 DEF InsertData
    <2>5. Taken(p) \in Nat /\ Taken(p) + Len(rcv_queue[p]) = rcv_nxt[p]
      <3>1. Taken(p) \in Nat
        BY <2>3, Numbers DEF Boundary
      <3> QED
        BY <2>1, <3>1 DEF Taken
    <2> HIDE DEF buf
    <2> QED
      BY <1>1, <1>3, <2>1, <2>3, <2>4, <2>5, MoveContent
  <1> QED
    BY <1>2, <1>3 DEF InputPush

LEMMA InputSegmentContent ==
    ASSUME CoreInv, CoreInv', ContentInv, NEW p \in Endpoint, InputSegment(p)
    PROVE  ContentInv'
  <1> DEFINE seg == Head(pending[p])
  <1>1. pending[p] \in Seq(Segment) /\ pending[p] # <<>>
    BY Numbers DEF InputSegment
  <1>2. /\ seg \in Segment /\ seg = pending[p][1] /\ 1 \in DOMAIN pending[p]
        /\ \A i \in DOMAIN Tail(pending[p]) :
            i + 1 \in DOMAIN pending[p] /\ Tail(pending[p])[i] = pending[p][i + 1]
    BY <1>1
  <1> HIDE DEF seg
  <1>3. InputAck(p, seg) \/ InputPush(p, seg) \/ InputAsk(p, seg) \/ InputTell(p, seg)
    BY DEF InputSegment, seg
  <1>4. /\ UNCHANGED <<snd_queue, snd_nxt, net, sent, accepted, delivered>>
        /\ pending' = [pending EXCEPT ![p] = Tail(@)]
    BY DEF InputSegment, netVars, histVars
  <1>5. /\ \A sn \in DOMAIN snd_buf'[p] :
            sn \in DOMAIN snd_buf[p] /\ snd_buf'[p][sn] = snd_buf[p][sn]
        /\ \A f \in Endpoint \ {p} : snd_buf'[f] = snd_buf[f]
    <2>1. InputAck(p, seg) \/ InputHeader(p, seg)
      BY <1>3 DEF InputPush, InputAsk, InputTell
    <2> QED
      BY <2>1, InputShrinks
  <1>6. /\ pending'[p] = Tail(pending[p])
        /\ \A f \in Endpoint \ {p} : pending'[f] = pending[f]
    BY <1>4 DEF CoreInv, TypeOK, InpTypeOK
  <1>7. ASSUME NEW e \in Endpoint
        PROVE  Framing(e) /\ Sending(e) /\ Travelling(e) /\ Receiving(e) /\ Grows(e)
    BY <1>4, Numbers DEF ContentInv, Grows
  <1>8. ASSUME NEW e \in Endpoint PROVE Framing(e)'
    BY <1>4, <1>7, FramingStays
  <1>9. ASSUME NEW e \in Endpoint PROVE Sending(e)'
    BY <1>4, <1>5, <1>7, SendingStays
  <1>10. ASSUME NEW e \in Endpoint PROVE Travelling(e)'
    <2>1. \A d \in net'[Peer(e)] \cup {pending[Peer(e)]} : Faithful(e, d)
      BY <1>4, <1>7 DEF Travelling
    <2>2. Faithful(e, pending'[Peer(e)])
      <3>1. CASE Peer(e) = p
        <4>1. Faithful(e, pending[p]) /\ pending'[p] = Tail(pending[p])
          BY <1>6, <2>1, <3>1
        <4>2. Faithful(e, Tail(pending[p]))
          BY <1>2, <4>1 DEF Faithful
        <4> QED
          BY <3>1, <4>1, <4>2
      <3>2. CASE Peer(e) # p
        BY <1>6, <2>1, <3>2, PeerFacts
      <3> QED
        BY <3>1, <3>2
    <2>3. \A d \in net'[Peer(e)] \cup {pending'[Peer(e)]} : Faithful(e, d)
      BY <2>1, <2>2
    <2> QED
      BY <1>7, <2>3, TravellingStays
  <1>11. ASSUME NEW e \in Endpoint PROVE Receiving(e)'
    <2>1. CASE ~InputPush(p, seg)
      <3>1. UNCHANGED <<rcv_buf, rcv_queue, rcv_nxt>>
        BY <1>3, <2>1 DEF InputAck, InputAsk, InputTell, rcvVars
      <3> QED
        BY <1>4, <1>7, <3>1, ReceivingStays
    <2>2. CASE InputPush(p, seg) /\ Peer(e) = p
      <3>1. Faithful(e, pending[p])
        BY <1>7, <2>2 DEF Travelling
      <3>2. Carries(e, seg.sn, seg.frag)
        BY <1>2, <2>2, <3>1 DEF Faithful, InputPush
      <3> QED
        BY <1>2, <1>4, <2>2, <3>2, PushContent
    <2>3. CASE InputPush(p, seg) /\ Peer(e) # p
      <3>1. \A f \in Endpoint \ {p} :
                /\ rcv_nxt'[f] = rcv_nxt[f] /\ rcv_queue'[f] = rcv_queue[f]
                /\ rcv_buf'[f] = rcv_buf[f]
        <4>1. \/ UNCHANGED <<rcv_buf, rcv_queue, rcv_nxt>>
              \/ \E queue, buf : MoveToQueue(p, queue, buf)
          BY <2>3 DEF InputPush
        <4> QED
          BY <4>1 DEF MoveToQueue, CoreInv, TypeOK, RcvTypeOK
      <3> QED
        BY <1>4, <1>7, <2>3, <3>1, PeerFacts, ReceivingStays
    <2> QED
      BY <2>1, <2>2, <2>3
  <1> QED
    BY <1>8, <1>9, <1>10, <1>11 DEF ContentInv

LEMMA InputDoneContent ==
    ASSUME CoreInv, CoreInv', ContentInv, NEW p \in Endpoint, InputDone(p)
    PROVE  ContentInv'
  <1> DEFINE buf == ParseFastack(snd_buf[p], snd_una[p], snd_nxt[p], maxack[p])
  <1>1. /\ DOMAIN buf = DOMAIN snd_buf[p]
        /\ \A sn \in DOMAIN buf : buf[sn].frag = snd_buf[p][sn].frag
    <2>1. \A sn \in DOMAIN snd_buf[p] :
            snd_buf[p][sn] \in [frag : Fragment, fastack : 0..FastResend]
      BY DEF CoreInv, TypeOK, SndTypeOK
    <2>2. ASSUME NEW seg \in [frag : Fragment, fastack : 0..FastResend]
          PROVE  [seg EXCEPT !.fastack = @ + 1].frag = seg.frag
      OBVIOUS
    <2> QED
      BY <2>1, <2>2 DEF ParseFastack
  <1> HIDE DEF buf
  <1>2. /\ snd_buf' = [snd_buf EXCEPT ![p] = buf]
        /\ UNCHANGED <<snd_queue, snd_nxt, pending, net, rcv_buf, rcv_queue>>
        /\ UNCHANGED <<rcv_nxt, sent, accepted, delivered>>
    BY DEF InputDone, buf, rcvVars, netVars, histVars
  <1>3. ASSUME NEW e \in Endpoint
        PROVE  Framing(e) /\ Sending(e) /\ Travelling(e) /\ Receiving(e) /\ Grows(e)
    BY <1>2, Numbers DEF ContentInv, Grows
  <1>4. ASSUME NEW e \in Endpoint PROVE Framing(e)' /\ Sending(e)'
    <2>1. \A sn \in DOMAIN snd_buf'[e] :
            sn \in DOMAIN snd_buf[e] /\ snd_buf'[e][sn].frag = snd_buf[e][sn].frag
      BY <1>1, <1>2 DEF CoreInv, TypeOK, SndTypeOK
    <2> QED
      BY <1>2, <1>3, <2>1, FramingStays, SendingStays
  <1>5. ASSUME NEW e \in Endpoint PROVE Travelling(e)'
    <2>1. \A d \in net'[Peer(e)] \cup {pending'[Peer(e)]} : Faithful(e, d)
      BY <1>2, <1>3 DEF Travelling
    <2> QED
      BY <1>3, <2>1, TravellingStays
  <1>6. ASSUME NEW e \in Endpoint PROVE Receiving(e)'
    BY <1>2, <1>3, ReceivingStays
  <1> QED
    BY <1>4, <1>5, <1>6 DEF ContentInv

\* A datagram that arrives, arrives twice or is lost.
LEMMA NetworkContent ==
    ASSUME CoreInv, CoreInv', ContentInv, NEW p \in Endpoint, NEW x \in net[p],
           Deliver(p, x) \/ Duplicate(p, x) \/ Lose(p, x)
    PROVE  ContentInv'
  <1>1. /\ UNCHANGED <<snd_queue, snd_nxt, snd_buf, rcv_buf, rcv_queue, rcv_nxt>>
        /\ UNCHANGED <<sent, accepted, delivered>>
    BY DEF Deliver, Duplicate, Lose, Arrive, sndVars, rcvVars, histVars
  <1>2. /\ \A f \in Endpoint : net'[f] \subseteq net[f]
        /\ \A f \in Endpoint : pending'[f] \in net[f] \cup {pending[f]}
    BY DEF Deliver, Duplicate, Lose, Arrive, inpVars, CoreInv, TypeOK,
       InpTypeOK, NetTypeOK
  <1>3. ASSUME NEW e \in Endpoint
        PROVE  Framing(e) /\ Sending(e) /\ Travelling(e) /\ Receiving(e) /\ Grows(e)
    BY <1>1, Numbers DEF ContentInv, Grows
  <1>4. ASSUME NEW e \in Endpoint PROVE Framing(e)' /\ Sending(e)'
    BY <1>1, <1>3, FramingStays, SendingStays
  <1>5. ASSUME NEW e \in Endpoint PROVE Travelling(e)'
    <2>1. \A d \in net'[Peer(e)] \cup {pending'[Peer(e)]} : Faithful(e, d)
      BY <1>2, <1>3, PeerFacts DEF Travelling
    <2> QED
      BY <1>3, <2>1, TravellingStays
  <1>6. ASSUME NEW e \in Endpoint PROVE Receiving(e)'
    BY <1>1, <1>3, ReceivingStays
  <1> QED
    BY <1>4, <1>5, <1>6 DEF ContentInv

-----------------------------------------------------------------------------
(* ikcp_flush                                                              *)

\* The segments that ikcp_flush has in snd_buf carry their fragments: those it
\* has just taken from snd_queue were numbered in the order of sent[e].
LEMMA FlushedContent ==
    ASSUME CoreInv, ContentInv, NEW e \in Endpoint, NEW expired,
           NEW sn \in DOMAIN FlushedBuf(e, expired)
    PROVE  /\ sn \in Nat /\ sn < snd_nxt[e] + MoveCount(e)
           /\ FlushedBuf(e, expired)[sn].frag = sent[e][sn + 1]
  <1> DEFINE buf == FlushedBuf(e, expired)
             n   == MoveCount(e)
  <1>1. /\ n \in Nat /\ n <= Len(snd_queue[e])
        /\ snd_nxt[e] \in Nat /\ Len(snd_queue[e]) \in Nat
    BY MoveCountFacts, Numbers
  <1>2. sn \in Nat /\ sn \in DOMAIN snd_buf[e] \cup NewSns(e)
    BY FlushedBufFacts
  <1>3. Sending(e)
    BY DEF ContentInv
  <1>4. CASE sn \in NewSns(e)
    <2>1. snd_nxt[e] <= sn /\ sn < snd_nxt[e] + n
      BY <1>4, FlushedBufFacts
    <2>2. buf[sn].frag = snd_queue[e][sn - snd_nxt[e] + 1]
      BY <1>2, <1>4 DEF FlushedBuf
    <2> HIDE DEF n
    <2>3. /\ sn - snd_nxt[e] + 1 \in 1..Len(snd_queue[e])
          /\ snd_nxt[e] + (sn - snd_nxt[e] + 1) = sn + 1
      BY <1>1, <1>2, <2>1
    <2>4. snd_queue[e][sn - snd_nxt[e] + 1] = sent[e][sn + 1]
      BY <1>3, <2>3 DEF Sending
    <2> QED
      BY <1>2, <2>1, <2>2, <2>4 DEF n
  <1>5. CASE sn \notin NewSns(e)
    <2>1. sn \in DOMAIN snd_buf[e]
      BY <1>2, <1>5
    <2>2. snd_buf[e][sn] \in [frag : Fragment, fastack : 0..FastResend]
      BY <2>1 DEF CoreInv, TypeOK, SndTypeOK
    <2>3. buf[sn] = snd_buf[e][sn] \/ buf[sn] = [snd_buf[e][sn] EXCEPT !.fastack = 0]
      BY <1>2, <1>5 DEF FlushedBuf
    <2>4. buf[sn].frag = snd_buf[e][sn].frag
      BY <2>2, <2>3
    <2>5. sn < snd_nxt[e] /\ snd_buf[e][sn].frag = sent[e][sn + 1]
      BY <1>3, <2>1 DEF Sending, Carries
    <2>6. sn < snd_nxt[e] + n
      BY <1>1, <1>2, <2>5
    <2> QED
      BY <1>2, <2>4, <2>5, <2>6
  <1> QED
    BY <1>4, <1>5

\* The data in d is what e will have sent once n more fragments are numbered.
FaithfulAfter(e, n, d) ==
    \A i \in DOMAIN d : d[i].cmd = "PUSH" =>
        d[i].sn < snd_nxt[e] + n /\ d[i].frag = sent[e][d[i].sn + 1]

\* The output of a flush carries only such data.
LEMMA OutputContent ==
    ASSUME CoreInv, ContentInv, NEW e \in Endpoint, NEW expired,
           NEW probing \in BOOLEAN, expired \subseteq DOMAIN snd_buf[e],
           NEW k \in Nat,
           NEW order \in
                [1..k -> NewSns(e) \cup expired \cup FastSns(e, expired)]
    PROVE  FaithfulAfter(e, MoveCount(e),
                AckSegments(e) \o ProbeSegments(e, probing)
                    \o PushSegments(e, expired, order))
  <1> DEFINE a == AckSegments(e)
             b == ProbeSegments(e, probing)
             c == PushSegments(e, expired, order)
             n == MoveCount(e)
  <1>1. ASSUME NEW cmd, NEW sn, NEW frag
        PROVE  /\ MakeSegment(e, cmd, sn, frag).cmd = cmd
               /\ MakeSegment(e, cmd, sn, frag).sn = sn
               /\ MakeSegment(e, cmd, sn, frag).frag = frag
    BY DEF MakeSegment
  <1> DEFINE Sure(s) == /\ \E S : s \in Seq(S)
                        /\ FaithfulAfter(e, n, s)
  <1>2. ASSUME NEW s, NEW t, Sure(s), Sure(t)
        PROVE  Sure(s \o t)
    <2>1. PICK S : s \in Seq(S)
      BY <1>2
    <2>2. PICK T : t \in Seq(T)
      BY <1>2
    <2>3. s \in Seq(S \cup T) /\ t \in Seq(S \cup T)
      BY <2>1, <2>2
    <2>4. s \o t \in Seq(S \cup T)
      BY <2>3
    <2>5. FaithfulAfter(e, n, s \o t)
      BY <1>2, <2>3 DEF FaithfulAfter
    <2> QED
      BY <2>4, <2>5
  <1>3. Sure(a)
    <2>1. Len(acklist[e]) \in Nat
      BY DEF CoreInv, TypeOK, RcvTypeOK
    <2>2. a = [i \in 1..Len(acklist[e]) |-> MakeSegment(e, "ACK", acklist[e][i], NoFrag)]
      BY DEF AckSegments
    <2>3. a \in Seq({MakeSegment(e, "ACK", acklist[e][i], NoFrag) : i \in 1..Len(acklist[e])})
      BY <2>1, <2>2
    <2>4. \A i \in DOMAIN a : a[i].cmd = "ACK"
      BY <1>1, <2>2
    <2> QED
      BY <2>3, <2>4 DEF FaithfulAfter
  <1>4. Sure(b)
    <2> DEFINE last == IF acklist[e] = <<>> THEN 0
                       ELSE acklist[e][Len(acklist[e])]
               ask  == IF probing THEN <<MakeSegment(e, "WASK", last, NoFrag)>>
                       ELSE <<>>
               tell == IF probe[e] THEN <<MakeSegment(e, "WINS", last, NoFrag)>>
                       ELSE <<>>
    <2>1. b = ask \o tell
      BY DEF ProbeSegments
    <2> HIDE DEF last
    <2>2. ASSUME NEW x, x.cmd # "PUSH" PROVE Sure(<<x>>)
      <3>1. <<x>> \in Seq({x})
        OBVIOUS
      <3>2. FaithfulAfter(e, n, <<x>>)
        BY <2>2 DEF FaithfulAfter
      <3> QED
        BY <3>1, <3>2
    <2>3. Sure(<<>>)
      <3>1. <<>> \in Seq({})
        OBVIOUS
      <3>2. FaithfulAfter(e, n, <<>>)
        BY DEF FaithfulAfter
      <3> QED
        BY <3>1, <3>2
    <2> HIDE DEF Sure
    <2>4. MakeSegment(e, "WASK", last, NoFrag).cmd # "PUSH"
      BY <1>1
    <2>5. MakeSegment(e, "WINS", last, NoFrag).cmd # "PUSH"
      BY <1>1
    <2>6. Sure(ask) /\ Sure(tell)
      BY <2>2, <2>3, <2>4, <2>5
    <2> HIDE DEF ask, tell
    <2> QED
      BY <1>2, <2>1, <2>6
  <1>5. Sure(c)
    <2> DEFINE buf == FlushedBuf(e, expired)
    <2>1. \A i \in 1..k : order[i] \in DOMAIN buf
      BY FlushedBufFacts DEF FastSns
    <2>2. c = [i \in 1..k |-> MakeSegment(e, "PUSH", order[i], buf[order[i]].frag)]
      BY DEF PushSegments
    <2>3. c \in Seq({MakeSegment(e, "PUSH", order[i], buf[order[i]].frag) : i \in 1..k})
      BY <2>2
    <2>4. ASSUME NEW i \in DOMAIN c
          PROVE  c[i].sn < snd_nxt[e] + n /\ c[i].frag = sent[e][c[i].sn + 1]
      <3>1. i \in 1..k /\ c[i] = MakeSegment(e, "PUSH", order[i], buf[order[i]].frag)
        BY <2>2
      <3>2. c[i].sn = order[i] /\ c[i].frag = buf[order[i]].frag
        BY <1>1, <3>1
      <3>3. order[i] < snd_nxt[e] + n /\ buf[order[i]].frag = sent[e][order[i] + 1]
        BY <2>1, <3>1, FlushedContent
      <3> QED
        BY <3>2, <3>3
    <2> QED
      BY <2>3, <2>4 DEF FaithfulAfter
  <1> HIDE DEF Sure
  <1>6. Sure(a \o b \o c)
    <2> HIDE DEF a, b, c
    <2> QED
      BY <1>2, <1>3, <1>4, <1>5
  <1> QED
    BY <1>6 DEF Sure

LEMMA UpdateContent ==
    ASSUME CoreInv, CoreInv', ContentInv, NEW e \in Endpoint, Update(e)
    PROVE  ContentInv'
  <1>1. PICK expired \in SUBSET DOMAIN snd_buf[e], probing \in BOOLEAN :
            UpdateWith(e, expired, probing)
    BY DEF Update
  <1> DEFINE buf    == FlushedBuf(e, expired)
             n      == MoveCount(e)
             resend == NewSns(e) \cup expired \cup FastSns(e, expired)
  <1>2. /\ snd_queue' = [snd_queue EXCEPT ![e] = SubSeq(@, n + 1, Len(@))]
        /\ snd_nxt' = [snd_nxt EXCEPT ![e] = @ + n]
        /\ snd_buf' = [snd_buf EXCEPT ![e] = buf]
        /\ UNCHANGED <<rcv_buf, rcv_queue, rcv_nxt, pending, sent, accepted, delivered>>
    BY <1>1 DEF UpdateWith, Flush, inpVars, histVars
  <1>3. PICK order \in [1..Cardinality(resend) -> resend] :
            Output(e, AckSegments(e) \o ProbeSegments(e, probing)
                        \o PushSegments(e, expired, order))
    BY <1>1 DEF UpdateWith, Flush
  <1> DEFINE out == AckSegments(e) \o ProbeSegments(e, probing)
                        \o PushSegments(e, expired, order)
  <1>4. /\ n \in Nat /\ n <= Len(snd_queue[e]) /\ Len(snd_queue[e]) \in Nat
        /\ snd_nxt[e] \in Nat /\ snd_queue[e] \in Seq(Fragment) /\ Len(sent[e]) \in Nat
    BY MoveCountFacts, Numbers
  <1>5. out \in Seq(Segment) /\ FaithfulAfter(e, n, out)
    <2>1. IsFiniteSet(resend)
      <3>1. /\ DOMAIN snd_buf[e] \subseteq Nat
            /\ \A sn \in DOMAIN snd_buf[e] : sn < snd_nxt[e]
        BY DEF CoreInv, TypeOK, SndTypeOK, BufInRange
      <3>2. /\ NewSns(e) \subseteq Nat
            /\ \A sn \in NewSns(e) : sn < snd_nxt[e] + n
        BY FlushedBufFacts
      <3> HIDE DEF n
      <3>3. resend \in SUBSET Nat /\ snd_nxt[e] + n \in Nat
        BY <1>4, <3>1, <3>2 DEF FastSns
      <3>4. \A sn \in resend : sn <= snd_nxt[e] + n
        BY <1>4, <3>1, <3>2, <3>3 DEF FastSns
      <3> HIDE DEF resend
      <3> QED
        BY <3>3, <3>4, FS_BoundedSetOfNaturals
    <2>2. Cardinality(resend) \in Nat
      BY <2>1, FS_CardinalityType
    <2>3. out \in Seq(Segment)
      BY <2>2, OutputFacts
    <2>4. FaithfulAfter(e, n, out)
      BY <2>2, OutputContent
    <2> QED
      BY <2>3, <2>4
  <1>6. /\ snd_nxt'[e] = snd_nxt[e] + n /\ snd_buf'[e] = buf
        /\ snd_queue'[e] = SubSeq(snd_queue[e], n + 1, Len(snd_queue[e]))
        /\ \A f \in Endpoint \ {e} :
            /\ snd_nxt'[f] = snd_nxt[f] /\ snd_buf'[f] = snd_buf[f]
            /\ snd_queue'[f] = snd_queue[f]
    BY <1>2 DEF CoreInv, TypeOK, SndTypeOK
  <1>7. ASSUME NEW sn \in DOMAIN buf
        PROVE  sn < snd_nxt[e] + n /\ buf[sn].frag = sent[e][sn + 1]
    BY FlushedContent
  <1> HIDE DEF out, buf, n
  <1>8. PICK ends \in SUBSET (1..Len(out)) :
            \/ net' = [net EXCEPT ![Peer(e)] =
                            net[Peer(e)] \cup Datagrams(out, ends)]
            \/ net' = net
    BY <1>3 DEF Output, out
  <1>9. \A d \in Datagrams(out, ends) : FaithfulAfter(e, n, d)
    <2>1. ASSUME NEW a \in ends \cup {0}, NEW b \in ends, a < b
          PROVE  FaithfulAfter(e, n, Datagram(out, a, b))
      <3>1. /\ a \in Nat /\ b \in Nat /\ b <= Len(out)
            /\ \A i \in 1..(b - a) : a + i \in DOMAIN out
        BY <1>5, <2>1
      <3>2. /\ DOMAIN Datagram(out, a, b) = 1..(b - a)
            /\ \A i \in 1..(b - a) : Datagram(out, a, b)[i] = out[a + i]
        BY DEF Datagram
      <3> QED
        BY <1>5, <3>1, <3>2 DEF FaithfulAfter
    <2>2. ASSUME NEW d \in Datagrams(out, ends)
          PROVE  \E a \in ends \cup {0}, b \in ends :
                    a < b /\ d = Datagram(out, a, b)
      BY DEF Datagrams
    <2> QED
      BY <2>1, <2>2
  <1>10. \A f \in Endpoint : \A d \in net'[f] :
            d \in net[f] \/ (f = Peer(e) /\ d \in Datagrams(out, ends))
    BY <1>8, PeerFacts DEF CoreInv, TypeOK, NetTypeOK
  <1>11. ASSUME NEW f \in Endpoint
         PROVE  Framing(f) /\ Sending(f) /\ Travelling(f) /\ Receiving(f) /\ Grows(f)
    <2>1. Framing(f) /\ Sending(f) /\ Travelling(f) /\ Receiving(f)
      BY DEF ContentInv
    <2>2. snd_nxt[f] <= snd_nxt'[f]
      <3>1. CASE f = e
        BY <1>4, <1>6, <3>1
      <3>2. CASE f # e
        <4>1. snd_nxt'[f] = snd_nxt[f] /\ snd_nxt[f] \in Nat
          BY <1>6, <3>2, Numbers
        <4> QED
          BY <4>1
      <3> QED
        BY <3>1, <3>2
    <2> QED
      BY <1>2, <2>1, <2>2, Numbers DEF Grows
  <1>12. ASSUME NEW f \in Endpoint PROVE Framing(f)'
    BY <1>2, <1>11, FramingStays
  <1>13. ASSUME NEW f \in Endpoint PROVE Sending(f)'
    <2>1. CASE f # e
      BY <1>2, <1>6, <1>11, <2>1, SendingStays
    <2>2. CASE f = e
      <3> DEFINE Q == snd_queue[e]
                 R == SubSeq(snd_queue[e], n + 1, Len(snd_queue[e]))
      <3>1. Len(R) = Len(Q) - n /\ \A i \in 1..(Len(Q) - n) : R[i] = Q[n + i]
        <4>1. n + 1 \in Int /\ Len(Q) \in Int /\ \A i \in (n + 1)..Len(Q) : Q[i] \in Fragment
          BY <1>4
        <4>2. /\ Len(R) = IF n + 1 <= Len(Q) THEN Len(Q) - (n + 1) + 1 ELSE 0
              /\ \A i \in 1..(Len(Q) - (n + 1) + 1) : R[i] = Q[(n + 1) + i - 1]
          BY <4>1, SubSeqProperties
        <4>3. Len(R) = Len(Q) - n
          BY <1>4, <4>2
        <4>4. ASSUME NEW i \in 1..(Len(Q) - n) PROVE R[i] = Q[n + i]
          <5>1. i \in 1..(Len(Q) - (n + 1) + 1) /\ (n + 1) + i - 1 = n + i
            BY <1>4
          <5> QED
            BY <4>2, <5>1
        <4> QED
          BY <4>3, <4>4
      <3> HIDE DEF Q, R
      <3>2. /\ snd_nxt[e] + Len(Q) = Len(sent[e]) /\ Len(Q) \in Nat
            /\ \A i \in 1..Len(Q) : Q[i] = sent[e][snd_nxt[e] + i]
        BY <1>4, <1>11 DEF Sending, Q
      <3>3. (snd_nxt[e] + n) + Len(R) = Len(sent[e])
        BY <1>4, <3>1, <3>2
      <3>4. ASSUME NEW i \in 1..Len(R)
            PROVE  R[i] = sent[e][(snd_nxt[e] + n) + i]
        <4>1. /\ i \in 1..(Len(Q) - n) /\ n + i \in 1..Len(Q)
              /\ snd_nxt[e] + (n + i) = (snd_nxt[e] + n) + i
          BY <1>4, <3>1, <3>2
        <4> QED
          BY <3>1, <3>2, <4>1
      <3>5. ASSUME NEW sn \in DOMAIN snd_buf'[e]
            PROVE  Carries(e, sn, snd_buf[e][sn].frag)'
        BY <1>2, <1>6, <1>7 DEF Carries
      <3>6. snd_queue'[e] = R
        BY <1>6 DEF R
      <3>7. snd_nxt'[e] + Len(snd_queue'[e]) = Len(sent'[e])
        BY <1>2, <1>6, <3>3, <3>6
      <3>8. \A i \in 1..Len(snd_queue'[e]) :
                snd_queue'[e][i] = sent'[e][snd_nxt'[e] + i]
        BY <1>2, <1>6, <3>4, <3>6
      <3> QED
        BY <2>2, <3>5, <3>7, <3>8 DEF Sending
    <2> QED
      BY <2>1, <2>2
  <1>14. ASSUME NEW f \in Endpoint PROVE Travelling(f)'
    <2>1. ASSUME NEW d, Faithful(f, d), d \in Seq(Segment) PROVE Faithful(f, d)'
      <3>1. \A i \in DOMAIN d : d[i] \in Segment
        BY <2>1
      <3>2. \A i \in DOMAIN d : d[i].sn \in Nat
        BY <3>1 DEF Segment
      <3>3. ASSUME NEW i \in DOMAIN d, d[i].cmd = "PUSH"
            PROVE  Carries(f, d[i].sn, d[i].frag)'
        <4>1. Carries(f, d[i].sn, d[i].frag)
          BY <2>1, <3>3 DEF Faithful
        <4> QED
          BY <1>11, <3>2, <4>1, CarriesStays
      <3> QED
        BY <3>3 DEF Faithful
    <2>2. ASSUME NEW d, FaithfulAfter(e, n, d) PROVE Faithful(e, d)'
      BY <1>2, <1>6, <2>2 DEF Faithful, FaithfulAfter, Carries
    <2>3. ASSUME NEW d \in net[Peer(f)] \cup {pending[Peer(f)]}
          PROVE  Faithful(f, d) /\ d \in Seq(Segment)
      BY <1>11, PeerFacts DEF Travelling, CoreInv, TypeOK, InpTypeOK, NetTypeOK
    <2>4. ASSUME NEW d \in net'[Peer(f)] \cup {pending'[Peer(f)]}
          PROVE  Faithful(f, d)'
      <3>1. CASE d \in net[Peer(f)] \cup {pending[Peer(f)]}
        BY <2>1, <2>3, <3>1
      <3>2. CASE d \notin net[Peer(f)] \cup {pending[Peer(f)]}
        <4>1. d \in Datagrams(out, ends) /\ Peer(f) = Peer(e)
          BY <1>2, <1>10, <3>2, PeerFacts
        <4>2. f = e
          BY <4>1, PeerFacts
        <4> QED
          BY <1>9, <2>2, <4>1, <4>2
      <3> QED
        BY <3>1, <3>2
    <2> QED
      BY <2>4 DEF Travelling
  <1>15. ASSUME NEW f \in Endpoint PROVE Receiving(f)'
    BY <1>2, <1>11, ReceivingStays
  <1> QED
    BY <1>12, <1>13, <1>14, <1>15 DEF ContentInv

-----------------------------------------------------------------------------

LEMMA InitContent == ASSUME Init PROVE ContentInv
  <1> USE DEF Init
  <1>1. ASSUME NEW e \in Endpoint
        PROVE  Framing(e) /\ Sending(e) /\ Travelling(e) /\ Receiving(e)
    <2>1. sent[e] = <<>> /\ accepted[e] = <<>> /\ Peer(e) \in Endpoint
      BY PeerFacts
    <2>2. Framing(e)
      BY <2>1 DEF Framing, Boundary
    <2>3. Sending(e)
      BY <2>1 DEF Sending
    <2>4. Travelling(e)
      BY <2>1 DEF Travelling, Faithful
    <2>5. Receiving(e)
      BY <2>1 DEF Receiving, Taken, Boundary
    <2> QED
      BY <2>2, <2>3, <2>4, <2>5
  <1> QED
    BY <1>1 DEF ContentInv

\* Every copy of a fragment, in snd_queue, in snd_buf, in a datagram, in
\* rcv_buf and in rcv_queue, is the fragment that ikcp_send gave that number,
\* and ikcp_recv has stopped where a message ends.
THEOREM ContentInvariant == Spec => [](CoreInv /\ ContentInv)
  <1>1. Init => CoreInv /\ ContentInv
    BY InitCore, InitContent
  <1>2. CoreInv /\ ContentInv /\ CoreInv' /\ [Next]_vars => ContentInv'
    <2> SUFFICES ASSUME CoreInv, ContentInv, CoreInv', [Next]_vars
                 PROVE  ContentInv'
      OBVIOUS
    <2>1. CASE Next
      <3>1. PICK e \in Endpoint :
                \/ Send(e)
                \/ Recv(e)
                \/ InputSegment(e)
                \/ InputDone(e)
                \/ Update(e)
                \/ \E d \in net[e] :
                        Deliver(e, d) \/ Duplicate(e, d) \/ Lose(e, d)
        BY <2>1 DEF Next
      <3> QED
        BY <3>1, SendContent, RecvContent, InputSegmentContent,
           InputDoneContent, UpdateContent, NetworkContent
    <2>2. CASE UNCHANGED vars
      <3>1. UNCHANGED <<snd_queue, snd_nxt, snd_buf, rcv_buf, rcv_queue, rcv_nxt,
                        net, pending, sent, accepted, delivered>>
        BY <2>2 DEF vars, sndVars, rcvVars, inpVars, netVars, histVars
      <3> QED
        BY <3>1, DirectionStays DEF ContentInv
    <2> QED
      BY <2>1, <2>2
  <1> QED
    BY <1>1, <1>2, CoreInvariant, PTL DEF Spec

\* ikcp_recv is never stuck on a full rcv_queue: the limit of ikcp_send on the
\* number of fragments leaves the whole of the first message in it.
THEOREM NoDeadlock == Spec => []NoReassemblyDeadlock
  <1>1. CoreInv /\ ContentInv => NoReassemblyDeadlock
    <2> SUFFICES ASSUME CoreInv, ContentInv, NEW p \in Endpoint,
                        Len(rcv_queue[p]) = RcvWnd
                 PROVE  \E n \in 1..Len(rcv_queue[p]) : IsMessage(rcv_queue[p], n)
      BY DEF NoReassemblyDeadlock
    <2> DEFINE e == Peer(p)
               m == Len(delivered[p]) + 1
               n == Len(accepted[e][m])
    <2>1. e \in Endpoint /\ p = Peer(e)
      BY PeerFacts
    <2>2. rcv_queue[p] # <<>> /\ RcvWnd \in Nat
      BY KcpAssumption
    <2>3. Follows(e, p, m)
      BY <2>1, <2>2, NextMessage
    <2>4. n \in 1..Len(rcv_queue[p])
      <3>1. n \in 1..(RcvWnd - 1)
        BY <2>3 DEF Follows
      <3> HIDE DEF n
      <3> QED
        BY <2>2, <3>1
    <2>5. IsMessage(rcv_queue[p], n)
      BY <2>1, <2>2, <2>4, PeekMessage
    <2> QED
      BY <2>4, <2>5
  <1> QED
    BY <1>1, ContentInvariant, PTL

\* The two endpoints implement a reliable FIFO of whole messages: ikcp_send is
\* the only step that accepts a message, ikcp_recv hands out exactly the oldest
\* accepted one that was not handed out, and nothing that the network or the
\* timers do is visible to the users.
THEOREM FifoRefinement == Spec => FifoSpec
  <1>1. Init => F!Init
    BY DEF Init, F!Init
  <1>2. CoreInv /\ ContentInv /\ [Next]_vars => [F!Next]_(F!fifoVars)
    <2> SUFFICES ASSUME CoreInv, ContentInv, [Next]_vars
                 PROVE  F!Next \/ UNCHANGED <<accepted, delivered>>
      BY DEF F!fifoVars
    <2>1. ASSUME NEW e \in Endpoint, Send(e)
          PROVE  F!Accept(e)
      <3>1. PICK len \in MsgLens :
                accepted' = [accepted EXCEPT ![e] =
                    Append(@, Fragments(Len(accepted[e]) + 1, len))]
        BY <2>1 DEF Send
      <3>2. /\ Len(accepted[e]) \in Nat /\ Len(accepted[e]) < MaxMsgs[e]
            /\ delivered' = delivered
        BY <2>1, Numbers DEF Send
      <3>3. Len(accepted[e]) + 1 \in 1..(MaxMsgs["B"] + MaxMsgs["C"])
        <4>1. MaxMsgs["B"] \in Nat /\ MaxMsgs["C"] \in Nat /\ (e = "B" \/ e = "C")
          BY KcpAssumption DEF Endpoint
        <4> QED
          BY <3>2, <4>1
      <3>4. Fragments(Len(accepted[e]) + 1, len) \in AllMessages
        BY <3>3 DEF AllMessages
      <3> QED
        BY <3>1, <3>2, <3>4 DEF F!Accept
    <2>2. ASSUME NEW p \in Endpoint, Recv(p)
          PROVE  F!Deliver(p)
      <3>1. Peer(p) \in Endpoint /\ p = Peer(Peer(p))
        BY PeerFacts
      <3>2. /\ Len(delivered[p]) + 1 \in 1..Len(accepted[Peer(p)])
            /\ delivered' = [delivered EXCEPT
                    ![p] = Append(@, accepted[Peer(p)][Len(delivered[p]) + 1])]
        BY <2>2, <3>1, RecvStep
      <3>3. Len(delivered[p]) < Len(accepted[Peer(p)])
        BY <3>1, <3>2, Numbers
      <3>4. accepted' = accepted
        BY <2>2 DEF Recv
      <3> QED
        BY <3>2, <3>3, <3>4 DEF F!Deliver
    <2>3. ASSUME NEW e \in Endpoint,
                 \/ InputSegment(e)
                 \/ InputDone(e)
                 \/ Update(e)
                 \/ \E d \in net[e] :
                        Deliver(e, d) \/ Duplicate(e, d) \/ Lose(e, d)
          PROVE  UNCHANGED <<accepted, delivered>>
      BY <2>3 DEF InputSegment, InputDone, Update, UpdateWith, Deliver,
         Duplicate, Lose, Arrive, histVars
    <2>4. CASE Next
      BY <2>1, <2>2, <2>3, <2>4 DEF Next, F!Next
    <2>5. CASE UNCHANGED vars
      BY <2>5 DEF vars, histVars
    <2> QED
      BY <2>4, <2>5
  <1> QED
    BY <1>1, <1>2, ContentInvariant, PTL DEF Spec, FifoSpec, F!Spec
=============================================================================
