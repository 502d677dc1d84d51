----------------------------- MODULE TimerQueue -----------------------------
(***************************************************************************)
(* muduo/net/TimerQueue.cc and Timer.h: the timers of one event loop.      *)
(* A timer lives at an address, and an address is used again once its      *)
(* timer is deleted; this is why a TimerId holds a sequence number too.    *)
(* The operators below are the bodies of the member functions; EventLoop   *)
(* says who calls them and when.  The unit of time is the 100 us that      *)
(* howMuchTimeFromNow never goes below.                                    *)
(***************************************************************************)
EXTENDS Naturals, FiniteSets, Sequences, SequencesExt

CONSTANTS Addr,      \* addresses the allocator may give to a Timer
          MaxTimers, \* bound: timers created in a behaviour
          Delays,    \* delays that runAfter is called with
          Intervals, \* intervals that runEvery is called with
          MaxTime    \* bound: the clock stops here

ASSUME TimerAssumption ==
    /\ MaxTimers \in Nat /\ MaxTime \in Nat
    /\ Delays \subseteq Nat /\ Intervals \subseteq Nat \ {0}

VARIABLES now,                   \* Timestamp::now()
          heap,                  \* address -> the Timer there, or Freed
          numCreated,            \* Timer::s_numCreated_
          timers_,               \* set of <<expiration, address>>
          activeTimers_,         \* set of <<address, sequence>>
          cancelingTimers_,
          callingExpiredTimers_,
          expired,               \* local of handleRead
          nextRun,               \* index of its loop
          readTime,              \* local now of handleRead
          timerfd                \* when the timerfd gets readable, 0 = disarmed

timerVars == <<now, heap, numCreated, timers_, activeTimers_,
               cancelingTimers_, callingExpiredTimers_, expired, nextRun,
               readTime, timerfd>>

Freed == [sequence |-> 0, expiration |-> 0, interval |-> 0]

\* Identity of the timer at an address, a TimerId.
IdAt(a) == <<a, heap[a].sequence>>

TimerInit ==
    /\ now = 1
    /\ heap = [a \in Addr |-> Freed]
    /\ numCreated = 0
    /\ timers_ = {} /\ activeTimers_ = {} /\ cancelingTimers_ = {}
    /\ callingExpiredTimers_ = FALSE
    /\ expired = <<>> /\ nextRun = 1 /\ readTime = 0
    /\ timerfd = 0

\* runAfter, and runAt, make a timer with interval 0; runEvery makes one that
\* is first due after its interval.
Schedules == (Delays \X {0}) \cup {<<i, i>> : i \in Intervals}

\* The timer that a constructor call at address a makes, for s = <<delay,
\* interval>>.
NewTimer(a, s) ==
    /\ heap[a] = Freed
    /\ numCreated < MaxTimers
    /\ numCreated' = numCreated + 1
    /\ heap' = [heap EXCEPT ![a] = [sequence |-> numCreated + 1,
                                    expiration |-> now + s[1],
                                    interval |-> s[2]]]

repeat(t) == t.interval > 0

\* Timer::restart; it is called for repeating timers only.
restart(t) == [t EXCEPT !.expiration = readTime + t.interval]

\* When a timerfd set for an expiration gets readable; at the bound of the
\* clock the 100 us are taken to be over at once.
resetTimerfd(expiration) ==
    CASE expiration > now -> expiration
      [] expiration <= now /\ now < MaxTime -> now + 1
      [] OTHER -> now

\* timers_ is ordered by expiration, then address.
Earliest(entries) ==
    CHOOSE t \in {e[1] : e \in entries} : \A e \in entries : t <= e[1]

\* What insert returns
EarliestChanged(t) == timers_ = {} \/ t.expiration < Earliest(timers_)

\* addTimerInLoop with insert, for the timer t at address a
addTimerInLoop(a, t) ==
    /\ timers_' = timers_ \cup {<<t.expiration, a>>}
    /\ activeTimers_' = activeTimers_ \cup {<<a, t.sequence>>}
    /\ timerfd' = IF EarliestChanged(t) THEN resetTimerfd(t.expiration)
                  ELSE timerfd

\* cancelInLoop
cancelInLoop(id) ==
    \/ /\ id \in activeTimers_
       /\ timers_' = timers_ \ {<<heap[id[1]].expiration, id[1]>>}
       /\ heap' = [heap EXCEPT ![id[1]] = Freed]
       /\ activeTimers_' = activeTimers_ \ {id}
       /\ UNCHANGED cancelingTimers_
    \/ /\ id \notin activeTimers_
       /\ cancelingTimers_' = IF callingExpiredTimers_
                              THEN cancelingTimers_ \cup {id}
                              ELSE cancelingTimers_
       /\ UNCHANGED <<timers_, heap, activeTimers_>>

\* getExpired: the entries due, what it takes out of activeTimers_ with them,
\* and the orders in which the vector may hold them: by expiration, and by
\* address among equals, which the allocator decides.
Due == {e \in timers_ : e[1] <= now}

DueIds == {IdAt(e[2]) : e \in Due}

DueOrders ==
    {s \in SetToSeqs(Due) : \A i, j \in DOMAIN s : i < j => s[i][1] <= s[j][1]}

\* handleRead up to its loop over the expired timers
handleReadBegin ==
    /\ timerfd' = 0
    /\ expired' \in DueOrders
    /\ timers_' = timers_ \ Due
    /\ activeTimers_' = activeTimers_ \ DueIds
    /\ callingExpiredTimers_' = TRUE
    /\ cancelingTimers_' = {}
    /\ nextRun' = 1
    /\ readTime' = now
    /\ UNCHANGED <<now, heap, numCreated>>

\* Slip: a callback cannot cancel its own timer.
Kept_EvenCanceled(a) == repeat(heap[a])

\* An expired timer that reset keeps.
Kept(a) == repeat(heap[a]) /\ IdAt(a) \notin cancelingTimers_

\* The end of handleRead: reset
reset ==
    LET run == {e[2] : e \in Range(expired)}
        kept == {a \in run : Kept(a)}
    IN  /\ heap' = [a \in Addr |-> IF a \in kept THEN restart(heap[a])
                                   ELSE IF a \in run THEN Freed
                                   ELSE heap[a]]
        /\ timers_' = timers_ \cup {<<restart(heap[a]).expiration, a>> : a \in kept}
        /\ activeTimers_' = activeTimers_ \cup {IdAt(a) : a \in kept}
        /\ timerfd' = IF timers_' = {} THEN timerfd
                      ELSE resetTimerfd(Earliest(timers_'))
        /\ callingExpiredTimers_' = FALSE
        /\ expired' = <<>> /\ nextRun' = 1 /\ readTime' = 0
        /\ UNCHANGED <<now, numCreated, cancelingTimers_>>

Tick ==
    /\ now < MaxTime
    /\ now' = now + 1
    /\ UNCHANGED <<heap, numCreated, timers_, activeTimers_,
                   cancelingTimers_, callingExpiredTimers_, expired, nextRun,
                   readTime, timerfd>>

timerfdReadable == timerfd > 0 /\ timerfd <= now
=============================================================================
