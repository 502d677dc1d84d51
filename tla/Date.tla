-------------------------------- MODULE Date --------------------------------
(***************************************************************************)
(* muduo::Date and the UTC half of muduo::TimeZone                          *)
(* (src/muduo/base/Date.cc, Date.h, TimeZone.cc), walked day by day: the    *)
(* variable `civil' is moved by the rules of the Gregorian calendar and is  *)
(* the reference, `julian' counts days.                                     *)
(***************************************************************************)
EXTENDS Integers, FiniteSets

CONSTANTS Years,     \* years whose first of January a walk starts at
          MaxDays,   \* bound: days of a walk
          Epoch,     \* days from one of these around 1970 are also times
          SecondsOfDay  \* the seconds of a day that are tried

VARIABLES civil,   \* [year, month, day], by the calendar's rules
          yday,    \* days since the first of January
          julian,  \* the day's number, counted
          walked   \* days walked

dateVars == <<civil, yday, julian, walked>>

kSecondsPerDay == 24 * 60 * 60

ASSUME DateAssumption ==
  /\ Years \subseteq {y \in Nat : y >= 1600}
  /\ SecondsOfDay \subseteq {s \in Nat : s < kSecondsPerDay}

leapDays(y) == y \div 4 - y \div 100 + y \div 400

(* getJulianDayNumber; every dividend is positive, so \div is C's division *)
getJulianDayNumber(year, month, day) ==
  LET a == (14 - month) \div 12
      y == year + 4800 - a
      m == month + 12 * a - 3
  IN  day + (153 * m + 2) \div 5 + y * 365 + leapDays(y) - 32045

getYearMonthDay(j) ==
  LET a == j + 32044
      b == (4 * a + 3) \div 146097
      c == a - ((b * 146097) \div 4)
      d == (4 * c + 3) \div 1461
      e == c - ((1461 * d) \div 4)
      m == (5 * e + 2) \div 153
  IN  [year |-> b * 100 + d - 4800 + m \div 10,
       month |-> m + 3 - 12 * (m \div 10),
       day |-> e - ((153 * m + 2) \div 5) + 1]

weekDay(j) == (j + 1) % 7

kJulianDayOf1970_01_01 == getJulianDayNumber(1970, 1, 1)

fillHMS(seconds) == [sec |-> seconds % 60, min |-> (seconds \div 60) % 60,
                     hour |-> (seconds \div 60) \div 60]

(* C's % and / round towards zero; the code then repairs a negative rest *)
CRem(x, n) == IF x >= 0 THEN x % n ELSE -((-x) % n)
CQuot(x, n) == IF x >= 0 THEN x \div n ELSE -((-x) \div n)

borrow(rest) == IF rest < 0 THEN 1 ELSE 0

toUtcTime(t) ==
  LET rest == CRem(t, kSecondsPerDay)
      seconds == rest + borrow(rest) * kSecondsPerDay
      days == CQuot(t, kSecondsPerDay) - borrow(rest)
      j == days + kJulianDayOf1970_01_01
      ymd == getYearMonthDay(j)
  IN  [ymd |-> ymd, hms |-> fillHMS(seconds), wday |-> weekDay(j),
       yday |-> j - getJulianDayNumber(ymd.year, 1, 1)]

fromUtcTime(ymd, hms) ==
  (getJulianDayNumber(ymd.year, ymd.month, ymd.day) - kJulianDayOf1970_01_01)
    * kSecondsPerDay + hms.hour * 3600 + hms.min * 60 + hms.sec

-----------------------------------------------------------------------------
(* the calendar *)
Leap(y) == y % 4 = 0 /\ (y % 100 = 0 => y % 400 = 0)
DaysIn(y, m) == CASE m = 2 -> IF Leap(y) THEN 29 ELSE 28
                  [] m \in {4, 6, 9, 11} -> 30
                  [] OTHER -> 31

(* the first of January 1600 was day 2305448, a Saturday *)
Saturday == 6
FirstJulian(y) == 2305448 + 365 * (y - 1600) + Cardinality({z \in 1600 .. y - 1 : Leap(z)})

DateInit == \E y \in Years :
  /\ civil = [year |-> y, month |-> 1, day |-> 1]
  /\ yday = 0 /\ walked = 0 /\ julian = FirstJulian(y)

NextDay ==
  /\ walked < MaxDays
  /\ walked' = walked + 1
  /\ julian' = julian + 1
  /\ LET last == civil.day = DaysIn(civil.year, civil.month)
         newYear == last /\ civil.month = 12
     IN  /\ civil' = IF newYear THEN [year |-> civil.year + 1, month |-> 1, day |-> 1]
                     ELSE IF last THEN [civil EXCEPT !.month = @ + 1, !.day = 1]
                     ELSE [civil EXCEPT !.day = @ + 1]
         /\ yday' = IF newYear THEN 0 ELSE yday + 1

DateSpec == DateInit /\ [][NextDay]_dateVars

-----------------------------------------------------------------------------
(* getJulianDayNumber and getYearMonthDay agree with the calendar, both    *)
(* ways, over month ends, leap days and the centuries that have none.      *)
JulianAgrees ==
  /\ getJulianDayNumber(civil.year, civil.month, civil.day) = julian
  /\ getYearMonthDay(julian) = civil

(* Times before 1970 as well as after are taken apart into the right day   *)
(* and second, and put together again.                                     *)
UtcRoundTrip == civil.year \in Epoch => \A s \in SecondsOfDay :
  LET t == (julian - kJulianDayOf1970_01_01) * kSecondsPerDay + s
      utc == toUtcTime(t)
  IN  /\ utc.ymd = civil /\ utc.yday = yday
      /\ utc.wday = (Saturday + julian - FirstJulian(1600)) % 7
      /\ 3600 * utc.hms.hour + 60 * utc.hms.min + utc.hms.sec = s
      /\ utc.hms.hour < 24
      /\ fromUtcTime(utc.ymd, utc.hms) = t

(* Days and times are converted both ways as the calendar says.            *)
DateInv == JulianAgrees /\ UtcRoundTrip
=============================================================================
