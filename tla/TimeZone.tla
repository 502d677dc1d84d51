------------------------------ MODULE TimeZone ------------------------------
(***************************************************************************)
(* Local time (src/muduo/base/TimeZone.cc): the table of a zone file and    *)
(* the search that turns a time into local time and back.                   *)
(*                                                                          *)
(* An hour has Hour units of time, 3600 in the code.  Local time is its     *)
(* seconds since the epoch, as timegm gives them, with tm_isdst.  A zone    *)
(* file is [trans, idx, types]: the times of its transitions, the type each *)
(* one switches to, and the types, [off, dst].  A file that cannot be read, *)
(* and sums beyond 32 bits (TimeZone.cc:199), are left out.                 *)
(***************************************************************************)
EXTENDS Date, Sequences, FiniteSetsExt

CONSTANTS ZoneFiles,  \* the files tried
          Hour,       \* units of time in an hour
          MaxGmt      \* bound: time walked, before and after the epoch

VARIABLES zone,  \* TimeZone::Data: [transitions, localtimes]
          gmt    \* the time

zoneVars == <<zone, gmt>>

ASSUME HourAssumption == Hour \in Nat \ {0} /\ MaxGmt \in Nat

(* By how much the p-th transition of a file moves the clock *)
OffsetAfter(f, p) == IF p = 0 THEN f.types[1].off ELSE f.types[f.idx[p]].off
Move(f, p) ==
  LET d == OffsetAfter(f, p) - OffsetAfter(f, p - 1)
  IN  IF d < 0 THEN -d ELSE d

(* The files: any types and offsets; each transition comes later than the  *)
(* one before it by more than the two of them move the clock.              *)
ASSUME ZoneAssumption == \A f \in ZoneFiles :
  LET T == f.trans
  IN  /\ f.types \in Seq([off : Int, dst : BOOLEAN]) /\ f.types # <<>>
      /\ T \in Seq(Int) /\ f.idx \in [DOMAIN T -> DOMAIN f.types]
      /\ \A i \in 1 .. Len(T) - 1 : T[i] + Move(f, i) + Move(f, i + 1) < T[i + 1]

(* readTimeZoneFile: a transition's local time is in the new type *)
readTimeZoneFile(f) ==
  [localtimes |-> f.types,
   transitions |-> [i \in DOMAIN f.trans |->
     [gmttime |-> f.trans[i], localtime |-> f.trans[i] + f.types[f.idx[i]].off,
      localtimeIdx |-> f.idx[i]]]]

(* TimeZone(int eastOfUtc, ...) is the file without transitions *)

(* Comp: by gmttime or by localtime *)
Key(tr, compareGmt) == IF compareGmt THEN tr.gmttime ELSE tr.localtime

(* findLocaltime: std::lower_bound is the first transition not before x *)
findLocaltime(data, x, compareGmt) ==
  LET T == data.transitions
      key(i) == Key(T[i], compareGmt)
      lower == {i \in DOMAIN T : key(i) >= x}
      i == Min(lower)
  IN  IF T = <<>> \/ x < key(1) THEN data.localtimes[1]
      ELSE IF lower = {} THEN data.localtimes[T[Len(T)].localtimeIdx]
      ELSE IF key(i) = x THEN data.localtimes[T[i].localtimeIdx]
      ELSE data.localtimes[T[i - 1].localtimeIdx]

toLocalTime(data, t) ==
  LET local == findLocaltime(data, t, TRUE)
  IN  [seconds |-> t + local.off, isdst |-> local.dst]

\* Slip: tm_isdst is not looked at.
fromLocalTime_NoRepair(data, tm) ==
  tm.seconds - findLocaltime(data, tm.seconds, FALSE).off

(* tm_hour and tm_min *)
Minute(seconds) == ((seconds % (24 * Hour)) * 60) \div Hour

(* with the repair for the hour that is repeated when summer ends *)
fromLocalTime(data, tm) ==
  LET local == findLocaltime(data, tm.seconds, FALSE)
      tryTm == toLocalTime(data, tm.seconds - local.off)
  IN  IF tm.isdst /\ ~tryTm.isdst /\ Minute(tryTm.seconds) = Minute(tm.seconds)
      THEN tm.seconds - Hour - local.off
      ELSE tm.seconds - local.off

-----------------------------------------------------------------------------
ZoneInit == gmt = -MaxGmt /\ \E f \in ZoneFiles : zone = readTimeZoneFile(f)

GmtPasses == gmt < MaxGmt /\ gmt' = gmt + 1 /\ UNCHANGED zone

ZoneSpec == ZoneInit /\ [][GmtPasses]_zoneVars

-----------------------------------------------------------------------------
(* The type in force after p transitions *)
TypeAfter(data, p) ==
  IF p = 0 THEN data.localtimes[1] ELSE data.localtimes[data.transitions[p].localtimeIdx]

(* Transition i ends summer time by setting the clock back an hour. *)
SummerEnds(data, i) ==
  LET old == TypeAfter(data, i - 1)
      new == TypeAfter(data, i)
  IN  old.dst /\ ~new.dst /\ old.off - new.off = Hour

(* A time comes back from its local time, around every step forward and in *)
(* the hour that comes twice when summer time ends, where tm_isdst alone   *)
(* tells the two apart; it does not where a local time comes again after a *)
(* transition of another kind (London in October 1971).                    *)
LocalRoundTrip ==
  LET T == zone.transitions
      tm == toLocalTime(zone, gmt)
      again == {i \in DOMAIN T : gmt < T[i].gmttime /\ T[i].localtime <= tm.seconds}
  IN  fromLocalTime(zone, tm) = gmt <=> \A i \in again : SummerEnds(zone, i)

(* The local clock moves on with time, and at a transition shows the local *)
(* time of the table.                                                      *)
ClockFollowsTransitions ==
  LET T == zone.transitions
      now == toLocalTime(zone, gmt).seconds
      next == toLocalTime(zone, gmt + 1).seconds
      at == {i \in DOMAIN T : T[i].gmttime = gmt + 1}
  IN  IF at = {} THEN next = now + 1 ELSE \A i \in at : next = T[i].localtime

(* Local time goes on as the zone's table says and leads back to the time. *)
ZoneInv == LocalRoundTrip /\ ClockFollowsTransitions

(* Days, times and local times are converted both ways as the calendar and *)
(* the table of the zone say.                                              *)
CalendarInv == DateInv /\ ZoneInv
=============================================================================
