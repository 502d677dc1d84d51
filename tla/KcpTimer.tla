------------------------------ MODULE KcpTimer ------------------------------
(***************************************************************************)
(* The timing of one kcp sender (src/kcp/ikcp.c): when ikcp_update flushes, *)
(* when a segment is sent again, the retransmission timeout and the         *)
(* congestion window.  Kcp.tla models what is sent and leaves the times to  *)
(* chance; here they are computed as in the code, on a millisecond clock    *)
(* that wraps.                                                              *)
(*                                                                          *)
(* The sender has MaxSends messages of one segment.  The network keeps a    *)
(* copy for at most MaxDelay; its acknowledgement echoes the copy's ts.     *)
(***************************************************************************)
EXTENDS Integers, Sequences, SequencesExt, FiniteSetsExt

CONSTANTS Wrap,          \* 2^32: the clock's values
          MaxTime,       \* bound: true time that passes
          MaxStall,      \* the longest time between two calls of ikcp_update
          Steps,         \* how far time may pass between two calls
          MaxSends,      \* bound: segments sent
          MaxDelay,      \* the longest round trip of the network
          Resync,        \* 10000: ikcp_update starts ts_flush afresh
          IKCP_RTO_NDL, IKCP_RTO_MIN, IKCP_RTO_DEF, IKCP_RTO_MAX,
          IKCP_DEADLINK, IKCP_THRESH_INIT, IKCP_THRESH_MIN,
          MinInterval, MaxInterval, IKCP_INTERVAL,  \* 10, 5000 and 100
          Configs,       \* arguments of ikcp_nodelay: <<nodelay, interval, resend, nc>>
          mss, snd_wnd,
          IKCP_WND_RCV,  \* rmt_wnd before the first datagram
          Windows        \* the windows that datagrams announce

\* Times are compared with _itimediff, so a stall and a round trip must be
\* shorter than half of the clock, 24 days.
ASSUME KcpTimerAssumption ==
  /\ Wrap \in Nat /\ MaxTime \in Nat /\ MaxStall \in Nat /\ Steps \subseteq Nat
  /\ MaxDelay \in Nat /\ Resync \in Nat /\ MaxSends \in Nat
  /\ MinInterval \in Nat \ {0} /\ MaxInterval \in Nat /\ MinInterval <= MaxInterval
  /\ MaxStall + MaxInterval < Wrap \div 2 /\ MaxDelay < Wrap \div 2
  /\ \A t \in {IKCP_RTO_NDL, IKCP_RTO_MIN, IKCP_RTO_DEF} : t \in Nat \ {0} /\ t <= IKCP_RTO_MAX
  /\ IKCP_RTO_MAX \in Nat /\ IKCP_DEADLINK \in Nat /\ IKCP_THRESH_INIT \in Nat
  /\ IKCP_THRESH_MIN \in Nat \ {0} /\ mss \in Nat \ {0}
  /\ IKCP_INTERVAL \in MinInterval .. MaxInterval
  /\ snd_wnd \in Nat /\ IKCP_WND_RCV \in Nat /\ Windows \subseteq Nat
  /\ Configs \subseteq Int \X Int \X Int \X Int

VARIABLES now,       \* true time since the start
          lastUpdate, \* true time of the last ikcp_update, or 0
          kcp,       \* the control block
          copies,    \* copies the network holds: [sn, ts, at]
          input      \* the datagram ikcp_input is in, see NoInput

timerVars == <<now, lastUpdate, kcp, copies, input>>

(* iclock(), close to its wrap at the start *)
Start == Wrap - 3
iclock == (Start + now) % Wrap
Plus(t, d) == (t + d) % Wrap

(* _itimediff: the difference of two times as a signed number *)
itimediff(later, earlier) ==
  LET d == (later - earlier) % Wrap
  IN  IF d < Wrap \div 2 THEN d ELSE d - Wrap

imax(a, b) == IF a >= b THEN a ELSE b
imin(a, b) == IF a <= b THEN a ELSE b
ibound(lower, middle, upper) == imin(imax(lower, middle), upper)

(* ikcp_create and then ikcp_nodelay, which clamps the interval and leaves *)
(* alone what its argument is negative for                                *)
ikcp_create(c) ==
  [current |-> 0, updated |-> FALSE, ts_flush |-> 0,
   rx_srtt |-> 0, rx_rttval |-> 0, rx_rto |-> IKCP_RTO_DEF,
   rx_minrto |-> IF c[1] > 0 THEN IKCP_RTO_NDL ELSE IKCP_RTO_MIN,
   nodelay |-> imax(0, c[1]),
   interval |-> IF c[2] < 0 THEN IKCP_INTERVAL
                ELSE ibound(MinInterval, c[2], MaxInterval),
   fastresend |-> imax(0, c[3]), nocwnd |-> imax(0, c[4]),
   rmt_wnd |-> IKCP_WND_RCV, snd_buf |-> <<>>, nsnd_que |-> 0, snd_una |-> 0, snd_nxt |-> 0,
   cwnd |-> 0, incr |-> 0, ssthresh |-> IKCP_THRESH_INIT, state |-> 0]

(* ikcp_update_ack *)
ikcp_update_ack(k, rtt) ==
  LET first == k.rx_srtt = 0
      delta == IF rtt < k.rx_srtt THEN k.rx_srtt - rtt ELSE rtt - k.rx_srtt
      val == IF first THEN rtt \div 2 ELSE (3 * k.rx_rttval + delta) \div 4
      srtt == IF first THEN rtt ELSE imax(1, (7 * k.rx_srtt + rtt) \div 8)
  IN  [k EXCEPT !.rx_srtt = srtt, !.rx_rttval = val,
                !.rx_rto = ibound(k.rx_minrto, srtt + imax(k.interval, 4 * val),
                                  IKCP_RTO_MAX)]

(* snd_buf becomes b, and ikcp_shrink_buf *)
WithBuf(k, b) ==
  [k EXCEPT !.snd_buf = b, !.snd_una = IF b = <<>> THEN k.snd_nxt ELSE b[1].sn]

(* ikcp_parse_ack and ikcp_shrink_buf *)
ikcp_parse_ack(k, sn) ==
  LET places == {i \in DOMAIN k.snd_buf : k.snd_buf[i].sn = sn}
  IN  WithBuf(k, IF places = {} THEN k.snd_buf ELSE RemoveAt(k.snd_buf, Min(places)))

(* ikcp_parse_una, up to the first segment it does not cover, and           *)
(* ikcp_shrink_buf                                                         *)
ikcp_parse_una(k, una) ==
  LET kept == {i \in DOMAIN k.snd_buf : una <= k.snd_buf[i].sn}
  IN  WithBuf(k, IF kept = {} THEN <<>>
                 ELSE SubSeq(k.snd_buf, Min(kept), Len(k.snd_buf)))

(* ikcp_parse_fastack, once for each datagram with acknowledgements *)
ikcp_parse_fastack(k, maxack) ==
  LET counted(s) == [s EXCEPT !.fastack = IF s.sn < maxack THEN @ + 1 ELSE @]
  IN  [k EXCEPT !.snd_buf = [i \in DOMAIN k.snd_buf |-> counted(k.snd_buf[i])]]

(* the end of ikcp_input: the window grows when snd_una has moved *)
GrowWindow(k) ==
  LET slow == k.cwnd < k.ssthresh
      i0 == imax(k.incr, mss)
      incr == IF slow THEN k.incr + mss ELSE i0 + (mss * mss) \div i0 + mss \div 16
      cwnd == IF slow \/ (k.cwnd + 1) * mss <= incr THEN k.cwnd + 1 ELSE k.cwnd
  IN  IF k.cwnd >= k.rmt_wnd THEN k
      ELSE IF cwnd > k.rmt_wnd
           THEN [k EXCEPT !.cwnd = k.rmt_wnd, !.incr = k.rmt_wnd * mss]
      ELSE [k EXCEPT !.cwnd = cwnd, !.incr = incr]

(* ikcp_input: una and wnd of any segment, and the acknowledgement of c *)
InputUna(k, d) == ikcp_parse_una([k EXCEPT !.rmt_wnd = d.wnd], d.una)
InputAck(k, c) ==
  LET rtt == itimediff(k.current, c.ts)
  IN  ikcp_parse_ack(IF rtt >= 0 THEN ikcp_update_ack(k, rtt) ELSE k, c.sn)

(* ikcp_input after the last segment of the datagram d *)
InputEnd(k, d) ==
  LET counted == IF d.maxack < 0 THEN k ELSE ikcp_parse_fastack(k, d.maxack)
  IN  IF k.snd_una > d.old THEN GrowWindow(counted) ELSE counted

-----------------------------------------------------------------------------
(* ikcp_flush *)
FlushWindow(k) ==
  LET wnd == imin(snd_wnd, k.rmt_wnd)
  IN  IF k.nocwnd = 0 THEN imin(k.cwnd, wnd) ELSE wnd

(* segments moved from snd_queue to snd_buf *)
Moved(k) ==
  LET n == imin(k.nsnd_que, imax(0, k.snd_una + FlushWindow(k) - k.snd_nxt))
  IN  [k EXCEPT !.nsnd_que = @ - n, !.snd_nxt = @ + n,
         !.snd_buf = @ \o [i \in 1 .. n |->
           [sn |-> k.snd_nxt + i - 1, ts |-> k.current, resendts |-> k.current,
            rto |-> k.rx_rto, fastack |-> 0, xmit |-> 0]]]

(* why a segment is sent now, if it is *)
Reason(k, s) ==
  CASE s.xmit = 0 -> "first"
    [] s.xmit > 0 /\ itimediff(k.current, s.resendts) >= 0 -> "timeout"
    [] s.xmit > 0 /\ itimediff(k.current, s.resendts) < 0
         /\ k.fastresend > 0 /\ s.fastack >= k.fastresend -> "fast"
    [] OTHER -> "none"

rtomin(k) == IF k.nodelay = 0 THEN k.rx_rto \div 8 ELSE 0

(* the wait after a timeout *)
Backoff(k, s) == s.rto + (IF k.nodelay = 0 THEN k.rx_rto ELSE k.rx_rto \div 2)

(* segment->ts of the copy that is sent *)
StampOf(k, s) == k.current

(* the segment after the flush *)
Transmit(k, s) ==
  LET r == Reason(k, s)
      rto == CASE r = "first" -> k.rx_rto
               [] r = "timeout" -> Backoff(k, s)
               [] OTHER -> s.rto
      wait == IF r = "first" THEN rto + rtomin(k) ELSE rto
  IN  IF r = "none" THEN s
      ELSE [s EXCEPT !.xmit = @ + 1, !.rto = rto, !.ts = StampOf(k, s),
                     !.fastack = IF r = "fast" THEN 0 ELSE @,
                     !.resendts = Plus(k.current, wait)]

AtLeastOne(k) == IF k.cwnd < 1 THEN [k EXCEPT !.cwnd = 1, !.incr = mss] ELSE k

(* ssthresh and cwnd after the flush *)
Congestion(k, change, lost, cwnd) ==
  LET thresh(n) == imax(n \div 2, IKCP_THRESH_MIN)
      a == IF ~change THEN k
           ELSE LET t == thresh(k.snd_nxt - k.snd_una)
                IN  [k EXCEPT !.ssthresh = t, !.cwnd = t + k.fastresend,
                              !.incr = (t + k.fastresend) * mss]
      b == IF ~lost THEN a
           ELSE [a EXCEPT !.ssthresh = thresh(cwnd), !.cwnd = 1, !.incr = mss]
  IN  AtLeastOne(b)

Sent(k) == {i \in DOMAIN k.snd_buf : Reason(k, k.snd_buf[i]) # "none"}

ikcp_flush(k) ==
  LET buf == [i \in DOMAIN k.snd_buf |-> Transmit(k, k.snd_buf[i])]
      why == {Reason(k, k.snd_buf[i]) : i \in DOMAIN k.snd_buf}
      dead == \E i \in Sent(k) : buf[i].xmit >= IKCP_DEADLINK
  IN  Congestion([k EXCEPT !.snd_buf = buf, !.state = IF dead THEN -1 ELSE @],
                 "fast" \in why, "timeout" \in why, FlushWindow(k))

\* Slip: ts_flush does not catch up after a delay.
NextFlush_NoCatchUp(base, current, interval) == Plus(base, interval)
NextFlush(base, current, interval) ==
  LET next == Plus(base, interval)
  IN  IF itimediff(current, next) >= 0 THEN Plus(current, interval) ELSE next

(* ikcp_update up to the flush: the control block and whether to flush *)
Scheduled(k, current) ==
  LET a == [k EXCEPT !.current = current, !.updated = TRUE,
                     !.ts_flush = IF k.updated THEN @ ELSE current]
      d == itimediff(current, a.ts_flush)
      reset == d >= Resync \/ d < -Resync
      base == IF reset THEN current ELSE a.ts_flush
  IN  IF ~reset /\ d < 0 THEN [flush |-> FALSE, kcp |-> a]
      ELSE [flush |-> TRUE,
            kcp |-> [a EXCEPT !.ts_flush = NextFlush(base, current, a.interval)]]

(* ikcp_check: how long ikcp_update may wait, as an offset from current *)
ikcp_check(k, current) ==
  LET d == itimediff(k.ts_flush, current)
      due == {itimediff(s.resendts, current) : s \in {k.snd_buf[i] : i \in DOMAIN k.snd_buf}}
  IN  IF ~k.updated \/ d <= -Resync \/ d > Resync \/ d <= 0 \/ \E x \in due : x <= 0
      THEN 0
      ELSE imin(Min({d} \cup due), k.interval)

-----------------------------------------------------------------------------
(* old is snd_una when ikcp_input began, maxack is -1 before the first     *)
(* acknowledgement                                                         *)
NoInput == [on |-> FALSE, old |-> 0, una |-> 0, wnd |-> 0, maxack |-> -1]

TimerInit ==
  /\ now = 0 /\ lastUpdate = 0 /\ copies = {} /\ input = NoInput
  /\ \E c \in Configs : kcp = ikcp_create(c)

(* time passes; the network drops what it has held too long *)
Tick == \E d \in Steps :
  /\ ~input.on /\ now + d <= MaxTime /\ now + d - lastUpdate <= MaxStall
  /\ now' = now + d
  /\ copies' = {c \in copies : now + d - c.at <= MaxDelay}
  /\ UNCHANGED <<kcp, lastUpdate, input>>

(* ikcp_send of one segment *)
Send ==
  /\ ~input.on /\ kcp.snd_nxt + kcp.nsnd_que < MaxSends
  /\ kcp' = [kcp EXCEPT !.nsnd_que = @ + 1]
  /\ UNCHANGED <<now, lastUpdate, copies, input>>

(* the 10 ms timer of the program: ikcp_update(kcp, iclock()) *)
Update ==
  LET s == Scheduled(kcp, iclock)
      m == Moved(s.kcp)
      f == ikcp_flush(m)
  IN  /\ ~input.on
      /\ kcp' = IF s.flush THEN f ELSE s.kcp
      /\ copies' = IF s.flush
                   THEN copies \cup {[sn |-> f.snd_buf[i].sn, ts |-> f.snd_buf[i].ts,
                                      at |-> now] : i \in Sent(m)}
                   ELSE copies
      /\ lastUpdate' = now
      /\ UNCHANGED <<now, input>>

(* A datagram arrives between two updates.  ikcp_input takes its segments  *)
(* one after another, all with the same una and window: acknowledgements   *)
(* of any copies, in any order, also of what is acknowledged already, and  *)
(* segments of other kinds.  Nothing else runs before it has ended.        *)
BeginInput == \E una \in 0 .. kcp.snd_nxt, w \in Windows :
  /\ ~input.on
  /\ input' = [on |-> TRUE, old |-> kcp.snd_una, una |-> una, wnd |-> w, maxack |-> -1]
  /\ UNCHANGED <<now, lastUpdate, kcp, copies>>

OtherSegment ==
  /\ input.on
  /\ kcp' = InputUna(kcp, input)
  /\ UNCHANGED <<now, lastUpdate, copies, input>>

AckSegment == \E c \in copies :
  /\ input.on
  /\ kcp' = InputAck(InputUna(kcp, input), c)
  /\ input' = [input EXCEPT !.maxack = imax(@, c.sn)]
  /\ copies' = copies \ {c}
  /\ UNCHANGED <<now, lastUpdate>>

EndInput ==
  /\ input.on
  /\ kcp' = InputEnd(kcp, input)
  /\ input' = NoInput
  /\ UNCHANGED <<now, lastUpdate, copies>>

TimerNext ==
  \/ Tick \/ Send \/ Update
  \/ BeginInput \/ OtherSegment \/ AckSegment \/ EndInput
TimerSpec == TimerInit /\ [][TimerNext]_timerVars

-----------------------------------------------------------------------------
(* rx_rto stays within its bounds; the rest is of its type. *)
KcpTimerTypeOK ==
  /\ now \in 0 .. MaxTime
  /\ kcp.current \in 0 .. Wrap - 1 /\ kcp.ts_flush \in 0 .. Wrap - 1
  /\ kcp.rx_rto \in imin(kcp.rx_minrto, IKCP_RTO_DEF) .. IKCP_RTO_MAX
  /\ kcp.snd_una <= kcp.snd_nxt

(* The next flush is always within one interval of the last update, over   *)
(* the clock's wrap and after the process was stopped for up to MaxStall:  *)
(* an update at ts_flush flushes, so the sender never falls silent.        *)
FlushWithinInterval ==
  kcp.updated => itimediff(kcp.ts_flush, kcp.current) \in 1 .. kcp.interval

(* ikcp_check never says to wait past the next flush or past the time a    *)
(* segment is due.                                                         *)
CheckMissesNothing ==
  kcp.updated /\ itimediff(iclock, kcp.ts_flush) < 0
  => LET t == Plus(iclock, ikcp_check(kcp, iclock))
     IN  /\ itimediff(t, kcp.ts_flush) <= 0
         /\ \A i \in DOMAIN kcp.snd_buf :
              \/ itimediff(t, kcp.snd_buf[i].resendts) <= 0
              \/ t = iclock

(* Samples are never longer than the network's own delay, though segments  *)
(* are sent several times: an acknowledgement echoes the ts of the copy it *)
(* answers, so a retransmission cannot stretch the estimate.               *)
EstimateIsOfOneCopy ==
  /\ kcp.rx_srtt <= imax(1, MaxDelay)
  /\ kcp.rx_rttval <= MaxDelay

(* A segment on its way is not sent again by timeout before the shortest   *)
(* timeout has passed since its last copy, and its wait is bounded by its  *)
(* own backoff, as long as the wait fits the clock.                        *)
BackoffInBounds == \A i \in DOMAIN kcp.snd_buf :
  LET s == kcp.snd_buf[i]
      wait == itimediff(s.resendts, s.ts)
  IN  s.xmit > 0 /\ s.rto + IKCP_RTO_MAX < Wrap \div 2
      => /\ wait >= imin(kcp.rx_minrto, IKCP_RTO_DEF)
         /\ wait <= (s.xmit + 1) * IKCP_RTO_MAX

(* incr, the window in bytes, always pays for the segments of cwnd, and a  *)
(* flush leaves a window of at least one segment: no division by zero in   *)
(* ikcp_input and no sender that may not send.                             *)
WindowIsBacked ==
  /\ kcp.cwnd * mss <= kcp.incr
  /\ kcp.updated => kcp.cwnd >= 1

(* The sender never falls silent and never hurries: flushes come in time   *)
(* over wraps and stalls of the clock, ikcp_check misses nothing, timeouts *)
(* rest on true round trips and the window never closes by itself.         *)
TimingInv ==
  /\ KcpTimerTypeOK /\ FlushWithinInterval /\ CheckMissesNothing
  /\ EstimateIsOfOneCopy /\ BackoffInBounds /\ WindowIsBacked
=============================================================================
