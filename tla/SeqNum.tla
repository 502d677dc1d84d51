------------------------------- MODULE SeqNum -------------------------------
(***************************************************************************)
(* The sequence numbers of kcp/ikcp.c are 32 bits wide and compared with   *)
(* _itimediff, the difference taken modulo 2^32 and read as a signed       *)
(* number.  Module Kcp counts without bound; this module runs the counters *)
(* at both widths side by side, with one segment number that is in an old  *)
(* datagram, and states when the comparisons agree.                        *)
(***************************************************************************)
EXTENDS Integers

CONSTANTS
    Half,     \* 2^31; a sequence number is below 2 * Half
    Wnd,      \* min(snd_wnd, rmt_wnd), at most 65535
    MaxLag,   \* how far snd_una gets while a datagram is under way
    MaxSn     \* bound: how far the counters run

ASSUME SeqNumAssumption ==
    /\ Half \in Nat
    /\ Wnd \in Nat
    /\ MaxLag \in Nat
    /\ MaxLag + Wnd <= Half
    /\ MaxLag > 0
    /\ MaxSn \in Nat

VARIABLES
    snd_una, snd_nxt,      \* the counters without bound
    sn,                    \* a number in a datagram under way
    una32, nxt32, sn32     \* the same three as the code stores them

vars == <<snd_una, snd_nxt, sn, una32, nxt32, sn32>>

\* _itimediff: the unsigned difference of two 32-bit numbers, read as signed.
ITimeDiff(later, earlier) ==
    LET d        == later - earlier
        unsigned == IF d < 0 THEN d + 2 * Half ELSE d
    IN  IF unsigned >= Half THEN unsigned - 2 * Half ELSE unsigned

\* Slip: a counter that does not wrap with its type.
Add_NoWrap(x, n) == x + n

\* Slip: reduced by 2^32 - 1, the largest number.
Add_ModMax(x, n) ==
    IF x + n >= 2 * Half - 1 THEN x + n - (2 * Half - 1) ELSE x + n

\* Unsigned addition of n < 2^32.
Add(x, n) == IF x + n >= 2 * Half THEN x + n - 2 * Half ELSE x + n

Init ==
    /\ snd_una = 0 /\ snd_nxt = 0 /\ sn = 0
    /\ una32 = 0 /\ nxt32 = 0 /\ sn32 = 0

\* ikcp_flush gives out the next number while the window has room.
Flush ==
    /\ snd_nxt < MaxSn
    /\ ITimeDiff(nxt32, Add(una32, Wnd)) < 0
    /\ snd_nxt' = snd_nxt + 1
    /\ nxt32' = Add(nxt32, 1)
    /\ UNCHANGED <<snd_una, sn, una32, sn32>>

\* ikcp_shrink_buf moves snd_una over an acknowledged segment.
Acknowledge ==
    /\ snd_una < snd_nxt
    /\ snd_una - sn < MaxLag
    /\ snd_una' = snd_una + 1
    /\ una32' = Add(una32, 1)
    /\ UNCHANGED <<snd_nxt, sn, nxt32, sn32>>

\* The old datagram is gone; another carries a number that is outstanding.
Replace(k) ==
    /\ snd_una + k < snd_nxt
    /\ sn' = snd_una + k
    /\ sn32' = Add(una32, k)
    /\ UNCHANGED <<snd_una, snd_nxt, una32, nxt32>>

Next == Flush \/ Acknowledge \/ \E k \in 0..(Wnd - 1) : Replace(k)

Spec == Init /\ [][Next]_vars

-----------------------------------------------------------------------------
TypeOK ==
    /\ snd_una \in Nat /\ snd_nxt \in Nat /\ sn \in Nat
    /\ una32 \in 0..(2 * Half - 1)
    /\ nxt32 \in 0..(2 * Half - 1)
    /\ sn32 \in 0..(2 * Half - 1)

\* x32 is what is left of x in 32 bits, seen from y and y32.
Congruent(x, x32, y, y32) ==
    x32 - y32 \in {x - y, x - y + 2 * Half, x - y - 2 * Half}

\* The inductive invariant: the counters of the two widths keep in step, the
\* window bounds the numbers in use, and the age of a datagram its number.
SeqInv ==
    /\ TypeOK
    /\ snd_una <= snd_nxt
    /\ snd_nxt - snd_una <= Wnd
    /\ snd_una - sn <= MaxLag
    /\ sn <= snd_nxt
    /\ Congruent(snd_nxt, nxt32, snd_una, una32)
    /\ Congruent(sn, sn32, snd_una, una32)

\* The comparisons of ikcp.c are exact although the numbers wrap: the room in
\* the send window, and whether a number that comes back late is below
\* snd_una or not yet given out (the guards of ikcp_parse_ack and
\* ikcp_parse_fastack, and the order of ikcp_parse_una).
ComparisonsExact ==
    /\ ITimeDiff(nxt32, una32) = snd_nxt - snd_una
    /\ ITimeDiff(sn32, una32) = sn - snd_una
    /\ ITimeDiff(sn32, nxt32) >= 0 <=> sn >= snd_nxt

=============================================================================
