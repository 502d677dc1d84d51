------------------------------ MODULE EventLoop ------------------------------
(***************************************************************************)
(* muduo/net/EventLoop.cc with the EventLoopThread that runs it and the    *)
(* timers of TimerQueue.  One thread runs loop(); other threads call       *)
(* queueInLoop, addTimer, cancel and quit.  Everything between two points  *)
(* at which another thread can tell the difference is one step: a push     *)
(* under mutex_, a write to the eventfd, one functor, one callback.        *)
(* What a callback or functor of the user does is a free choice            *)
(* (UserCode), bounded by MaxCalls.                                        *)
(***************************************************************************)
EXTENDS TimerQueue

CONSTANTS Threads,   \* threads other than the loop's
          MaxCalls   \* bound: calls that create work

ASSUME LoopAssumption == MaxCalls \in Nat

VARIABLES pc,                      \* where the loop thread is
          quit_, looping_,
          wakeupFd,                \* the eventfd is readable
          activeChannels_,
          pendingFunctors_,
          functors,                \* local of doPendingFunctors
          callingPendingFunctors_,
          tpc,                     \* per thread: where it is in its call
          calls,                   \* calls made so far
          issued,                  \* ids that a caller has got: history
          canceled,                \* ids cancelInLoop has seen after their
                                   \* timer was inserted: history
          quitCalled,              \* quit() was called: history
          queuedEarly              \* how many of pendingFunctors_ were queued
                                   \* before loop(): history

loopVars == <<pc, quit_, looping_, wakeupFd, activeChannels_,
              pendingFunctors_, functors, callingPendingFunctors_, tpc,
              calls, issued, canceled, quitCalled, queuedEarly>>

\* What is pushed to pendingFunctors_: a functor of the user, or a bound
\* member function of the TimerQueue with its argument.
Plain       == [op |-> "user", arg |-> <<>>]
Add(a)      == [op |-> "add", arg |-> <<a, numCreated + 1>>]
CancelId(i) == [op |-> "cancel", arg |-> i]
Idle        == [at |-> "idle", arg |-> <<>>]

LoopInit ==
    /\ TimerInit
    /\ pc = "created" /\ quit_ = FALSE /\ looping_ = FALSE
    /\ wakeupFd = FALSE /\ activeChannels_ = <<>>
    /\ pendingFunctors_ = <<>> /\ functors = <<>>
    /\ callingPendingFunctors_ = FALSE
    /\ tpc = [t \in Threads |-> Idle]
    /\ calls = 0 /\ issued = {} /\ canceled = {} /\ quitCalled = FALSE
    /\ queuedEarly = 0

-----------------------------------------------------------------------------
(* Calls from another thread *)

\* EventLoopThread::startLoop hands out the loop once threadFunc has stored
\* loop_; the loop is gone when threadFunc returns.
HasLoop(t) == tpc[t] = Idle /\ pc \notin {"created", "exited"}

\* queueInLoop up to the release of mutex_
Push(t, f, next) ==
    /\ HasLoop(t)
    /\ calls < MaxCalls /\ calls' = calls + 1
    /\ pendingFunctors_' = Append(pendingFunctors_, f)
    /\ tpc' = [tpc EXCEPT ![t] = next]
    /\ UNCHANGED <<pc, quit_, looping_, wakeupFd, activeChannels_, functors,
                   callingPendingFunctors_, quitCalled, queuedEarly>>

queueInLoop(t) ==
    /\ Push(t, Plain, [at |-> "wakeup", arg |-> <<>>])
    /\ UNCHANGED <<timerVars, issued, canceled>>

\* addTimer makes the timer, queues addTimerInLoop and then reads the
\* sequence number through the pointer.
addTimer(t, a, s) ==
    /\ NewTimer(a, s)
    /\ Push(t, Add(a), [at |-> "wakeup", arg |-> <<a, numCreated + 1>>])
    /\ UNCHANGED <<now, timers_, activeTimers_, cancelingTimers_,
                   callingExpiredTimers_, expired, nextRun, readTime, timerfd,
                   issued, canceled>>

cancel(t, id) ==
    /\ Push(t, CancelId(id), [at |-> "wakeup", arg |-> <<>>])
    /\ UNCHANGED <<timerVars, issued, canceled>>

\* Slip: quit() does not wake the loop.
AfterQuit_NoWakeup == Idle

\* quit() in another thread still has to wake the loop.
AfterQuit == [at |-> "wakeup", arg |-> <<>>]

\* quit() up to its test of the thread
quit(t) ==
    /\ HasLoop(t)
    /\ calls < MaxCalls /\ calls' = calls + 1
    /\ quit_' = TRUE /\ quitCalled' = TRUE
    /\ tpc' = [tpc EXCEPT ![t] = AfterQuit]
    /\ UNCHANGED <<timerVars, pc, looping_, wakeupFd, activeChannels_,
                   pendingFunctors_, functors, callingPendingFunctors_,
                   issued, canceled, queuedEarly>>

\* wakeup(), after which addTimer still has to read the sequence number
wakeup(t) ==
    /\ tpc[t].at = "wakeup"
    /\ wakeupFd' = TRUE
    /\ tpc' = [tpc EXCEPT ![t] = IF @.arg = <<>> THEN Idle
                                 ELSE [@ EXCEPT !.at = "return"]]
    /\ UNCHANGED <<timerVars, pc, quit_, looping_, activeChannels_,
                   pendingFunctors_, functors, callingPendingFunctors_,
                   calls, issued, canceled, quitCalled, queuedEarly>>

\* return TimerId(timer, timer->sequence()); freed memory may still hold the
\* number or hold another.
returnTimerId(t) ==
    /\ tpc[t].at = "return"
    /\ LET a == tpc[t].arg[1] IN
       \E id \in {IdAt(a)} \cup (IF heap[a] = Freed THEN {tpc[t].arg} ELSE {}) :
           issued' = issued \cup {id}
    /\ tpc' = [tpc EXCEPT ![t] = Idle]
    /\ UNCHANGED <<timerVars, pc, quit_, looping_, wakeupFd, activeChannels_,
                   pendingFunctors_, functors, callingPendingFunctors_,
                   calls, canceled, quitCalled, queuedEarly>>

-----------------------------------------------------------------------------
(* The loop thread *)

\* EventLoopThread::threadFunc has run callback_ and stores loop_.
threadFunc ==
    /\ pc = "created"
    /\ pc' = "start"
    /\ UNCHANGED <<timerVars, quit_, looping_, wakeupFd, activeChannels_,
                   pendingFunctors_, functors, callingPendingFunctors_, tpc,
                   calls, issued, canceled, quitCalled, queuedEarly>>

\* EventLoop::loop() before its while
loopBegin ==
    /\ pc = "start"
    /\ looping_' = TRUE /\ quit_' = FALSE
    /\ pc' = "while"
    /\ UNCHANGED <<timerVars, wakeupFd, activeChannels_, pendingFunctors_,
                   functors, callingPendingFunctors_, tpc, calls, issued,
                   canceled, quitCalled, queuedEarly>>

\* while (!quit_)
testQuit ==
    /\ pc = "while"
    /\ pc' = IF quit_ THEN "exited" ELSE "poll"
    /\ looping_' = ~quit_
    /\ UNCHANGED <<timerVars, quit_, wakeupFd, activeChannels_,
                   pendingFunctors_, functors, callingPendingFunctors_, tpc,
                   calls, issued, canceled, quitCalled, queuedEarly>>

Ready == {c \in {"wakeup", "timer"} :
             IF c = "wakeup" THEN wakeupFd ELSE timerfdReadable}

PollReturns(channels) ==
    /\ pc = "poll"
    /\ activeChannels_' = channels
    /\ pc' = "events"
    /\ UNCHANGED <<timerVars, quit_, looping_, wakeupFd, pendingFunctors_,
                   functors, callingPendingFunctors_, tpc, calls, issued,
                   canceled, quitCalled, queuedEarly>>

\* poll returns with the ready channels, in an order of its own
poll == Ready # {} /\ \E s \in SetToSeqs(Ready) : PollReturns(s)

\* kPollTimeMs has passed, or a signal came
pollTimeout == Ready = {} /\ PollReturns(<<>>)

\* EventLoop::handleRead
handleWakeup ==
    /\ pc = "events" /\ activeChannels_ # <<>>
    /\ Head(activeChannels_) = "wakeup"
    /\ wakeupFd' = FALSE
    /\ activeChannels_' = Tail(activeChannels_)
    /\ UNCHANGED <<timerVars, pc, quit_, looping_, pendingFunctors_, functors,
                   callingPendingFunctors_, tpc, calls, issued, canceled,
                   quitCalled, queuedEarly>>

\* TimerQueue::handleRead
handleTimers ==
    /\ pc = "events" /\ activeChannels_ # <<>>
    /\ Head(activeChannels_) = "timer"
    /\ handleReadBegin
    /\ activeChannels_' = Tail(activeChannels_)
    /\ pc' = "timers"
    /\ UNCHANGED <<quit_, looping_, wakeupFd, pendingFunctors_, functors,
                   callingPendingFunctors_, tpc, calls, issued, canceled,
                   quitCalled, queuedEarly>>

\* What a callback or functor may call: nothing, or one of the calls above,
\* which in the loop thread run at once (runInLoop) or skip the wakeup.
UserNothing ==
    UNCHANGED <<heap, numCreated, timers_, activeTimers_, cancelingTimers_,
                timerfd, quit_, wakeupFd, pendingFunctors_, calls, issued,
                canceled, quitCalled>>

\* Slip: queueInLoop in the loop's own thread never wakes it.
WakesItself_Never == FALSE

\* queueInLoop in the loop's own thread: only a functor has to wake it.
WakesItself == callingPendingFunctors_

UserQueues ==
    /\ calls < MaxCalls /\ calls' = calls + 1
    /\ pendingFunctors_' = Append(pendingFunctors_, Plain)
    /\ wakeupFd' = (wakeupFd \/ WakesItself)
    /\ UNCHANGED <<heap, numCreated, timers_, activeTimers_,
                   cancelingTimers_, timerfd, quit_, issued, canceled,
                   quitCalled>>

UserAddsTimer ==
    \E a \in Addr, s \in Schedules :
        /\ calls < MaxCalls /\ calls' = calls + 1
        /\ NewTimer(a, s)
        /\ addTimerInLoop(a, heap'[a])
        /\ issued' = issued \cup {<<a, numCreated + 1>>}
        /\ UNCHANGED <<cancelingTimers_, quit_, wakeupFd, pendingFunctors_,
                       canceled, quitCalled>>

\* A timer is inserted once its functor has run.
NotInserted ==
    {f.arg : f \in {g \in Range(pendingFunctors_ \o functors) : g.op = "add"}}

UserCancels ==
    \E id \in issued :
        /\ calls < MaxCalls /\ calls' = calls + 1
        /\ cancelInLoop(id)
        /\ canceled' = IF id \in NotInserted THEN canceled
                       ELSE canceled \cup {id}
        /\ UNCHANGED <<numCreated, timerfd, quit_, wakeupFd,
                       pendingFunctors_, issued, quitCalled>>

UserQuits ==
    /\ calls < MaxCalls /\ calls' = calls + 1
    /\ quit_' = TRUE /\ quitCalled' = TRUE
    /\ UNCHANGED <<heap, numCreated, timers_, activeTimers_,
                   cancelingTimers_, timerfd, wakeupFd, pendingFunctors_,
                   issued, canceled>>

UserCode == UserNothing \/ UserQueues \/ UserAddsTimer \/ UserCancels
            \/ UserQuits

\* callback_(&loop) in EventLoopThread::threadFunc, call by call: the loop's
\* own thread, before loop() and before any other thread has the loop.  A
\* functor queued here wakes nobody.
initCallback ==
    /\ pc = "created"
    /\ UserCode
    /\ queuedEarly' = Len(pendingFunctors_')
    /\ UNCHANGED <<now, callingExpiredTimers_, expired, nextRun, readTime, pc,
                   looping_, activeChannels_, functors,
                   callingPendingFunctors_, tpc>>

\* it.second->run() for the next of the expired timers
runTimer ==
    /\ pc = "timers" /\ nextRun <= Len(expired)
    /\ nextRun' = nextRun + 1
    /\ UserCode
    /\ UNCHANGED <<now, callingExpiredTimers_, expired, readTime, pc,
                   looping_, activeChannels_, functors,
                   callingPendingFunctors_, tpc, queuedEarly>>

timersDone ==
    /\ pc = "timers" /\ nextRun > Len(expired)
    /\ reset
    /\ pc' = "events"
    /\ UNCHANGED <<quit_, looping_, wakeupFd, activeChannels_,
                   pendingFunctors_, functors, callingPendingFunctors_, tpc,
                   calls, issued, canceled, quitCalled, queuedEarly>>

\* doPendingFunctors up to the swap
takeFunctors ==
    /\ pc = "events" /\ activeChannels_ = <<>>
    /\ callingPendingFunctors_' = TRUE
    /\ functors' = pendingFunctors_
    /\ pendingFunctors_' = <<>>
    /\ queuedEarly' = 0
    /\ pc' = "functors"
    /\ UNCHANGED <<timerVars, quit_, looping_, wakeupFd, activeChannels_, tpc,
                   calls, issued, canceled, quitCalled>>

runFunctor ==
    /\ pc = "functors" /\ functors # <<>>
    /\ functors' = Tail(functors)
    /\ LET f == Head(functors) IN
       \/ f.op = "user" /\ UserCode
       \/ /\ f.op = "add"
          /\ addTimerInLoop(f.arg[1], heap[f.arg[1]])
          /\ UNCHANGED <<heap, numCreated, cancelingTimers_, quit_, wakeupFd,
                         pendingFunctors_, calls, issued, canceled,
                         quitCalled>>
       \/ /\ f.op = "cancel"
          /\ cancelInLoop(f.arg)
          /\ canceled' = IF f.arg \in NotInserted THEN canceled
                         ELSE canceled \cup {f.arg}
          /\ UNCHANGED <<numCreated, timerfd, quit_, wakeupFd,
                         pendingFunctors_, calls, issued, quitCalled>>
    /\ UNCHANGED <<now, callingExpiredTimers_, expired, nextRun, readTime, pc,
                   looping_, activeChannels_, callingPendingFunctors_, tpc,
                   queuedEarly>>

functorsDone ==
    /\ pc = "functors" /\ functors = <<>>
    /\ callingPendingFunctors_' = FALSE
    /\ pc' = "while"
    /\ UNCHANGED <<timerVars, quit_, looping_, wakeupFd, activeChannels_,
                   pendingFunctors_, functors, tpc, calls, issued, canceled,
                   quitCalled, queuedEarly>>

LoopStep == initCallback \/ threadFunc \/ loopBegin \/ testQuit \/ poll
            \/ handleWakeup \/ handleTimers \/ runTimer \/ timersDone
            \/ takeFunctors \/ runFunctor \/ functorsDone

ThreadStep(t) == wakeup(t) \/ returnTimerId(t)

LoopNext ==
    \/ LoopStep
    \/ pollTimeout
    \/ Tick /\ UNCHANGED loopVars
    \/ \E t \in Threads :
         \/ ThreadStep(t)
         \/ queueInLoop(t)
         \/ \E a \in Addr, s \in Schedules : addTimer(t, a, s)
         \/ \E id \in issued : cancel(t, id)
         \/ quit(t)

(* The loop's thread runs, threads finish their calls, and time passes.  No
   fairness for pollTimeout: nothing may depend on the 10 s.                *)
LoopFairness ==
    /\ WF_<<timerVars, loopVars>>(LoopStep)
    /\ \A t \in Threads : WF_<<timerVars, loopVars>>(ThreadStep(t))
    /\ WF_<<timerVars, loopVars>>(Tick /\ UNCHANGED loopVars)

LoopSpec == LoopInit /\ [][LoopNext]_<<timerVars, loopVars>> /\ LoopFairness

-----------------------------------------------------------------------------
Entry(a) == <<heap[a].expiration, a>>

(* The state of the loop and its timers is well formed; in particular
   resetTimerfd never arms the timerfd for a negative time.                 *)
LoopTypeOK ==
    /\ pc \in {"created", "start", "while", "poll", "events", "timers", "functors",
               "exited"}
    /\ now \in Nat /\ numCreated \in 0 .. MaxTimers /\ timerfd \in Nat
    /\ \A a \in Addr : heap[a].sequence \in 0 .. MaxTimers
    /\ timers_ \subseteq Nat \X Addr
    /\ activeTimers_ \subseteq Addr \X (1 .. MaxTimers)
    /\ {quit_, looping_, wakeupFd, callingPendingFunctors_,
        callingExpiredTimers_, quitCalled} \subseteq BOOLEAN
    /\ calls \in 0 .. MaxCalls

\* Functors queued while the loop ran.  What the init callback queued before
\* loop() woke nobody (EventLoop.cc:167) and may wait for the next event or
\* for kPollTimeMs.
NewWork == Len(pendingFunctors_) > queuedEarly

(* A loop that sits in poll with work that was queued while it ran, or with
   quit_ set, has been woken, or the thread that brought the work is about
   to do it: no wakeup is lost between queueInLoop and doPendingFunctors.   *)
NoLostWakeup ==
    pc = "poll" /\ (NewWork \/ quit_) =>
        wakeupFd \/ \E t \in Threads : tpc[t].at = "wakeup"

(* The two sets of TimerQueue hold the same timers, all of them alive and
   stored under their present expiration, whatever callbacks add and cancel
   (the size assertions at TimerQueue.cc:146-257 say part of this).         *)
TimerSetsAgree ==
    /\ \A e \in timers_ : heap[e[2]] # Freed /\ e = Entry(e[2])
                          /\ IdAt(e[2]) \in activeTimers_
    /\ \A id \in activeTimers_ : id = IdAt(id[1]) /\ Entry(id[1]) \in timers_
    /\ Cardinality(timers_) = Cardinality(activeTimers_)

(* handleRead runs a callback only through a pointer to a timer that is
   still the one that expired, although callbacks delete timers.            *)
ExpiredAreAlive ==
    \A i \in DOMAIN expired :
        heap[expired[i][2]] # Freed /\ Entry(expired[i][2]) = expired[i]

(* While a timer waits, the timerfd is armed, or readable already, no later
   than the earliest expiration needs.  Without this the loop would sleep
   past a timer after a cancel, a restart or an earlier insertion.          *)
TimerfdArmed ==
    timers_ # {} /\ pc # "timers" =>
        /\ timerfd > 0
        /\ timerfd <= Earliest(timers_) \/ timerfd <= now + 1

(* A timer that was canceled after it was inserted never gets back into the
   queue, even if it is canceled from a callback of the same round; and a
   stale TimerId never takes out a timer at the same address.               *)
CanceledStaysOut == pc # "timers" => canceled \cap activeTimers_ = {}

DueTimers == {id \in activeTimers_ : heap[id[1]].expiration <= MaxTime}

(* What was queued while the loop ran is run, with whatever waits before it,
   unless the loop is told to quit.                                          *)
FunctorsRun == NewWork ~>
                   (pendingFunctors_ = <<>> \/ quitCalled)

(* The timers that can expire within the bound all leave the set, by running
   or by being canceled, unless the loop is told to quit.                    *)
TimersFire == DueTimers # {} ~> (DueTimers = {} \/ quitCalled)

(* quit() ends a loop that is looping, from any thread, callback or functor. *)
QuitEndsLoop == (looping_ /\ quit_) ~> pc = "exited"

(* The timers are consistent after any calls of addTimer and cancel, from  *)
(* other threads, functors and callbacks of the round itself: the sets     *)
(* agree, the timerfd is armed for the earliest, what handleRead still has *)
(* to run is alive, and what was canceled does not come back.              *)
TimerInv ==
    /\ LoopTypeOK /\ TimerSetsAgree /\ ExpiredAreAlive
    /\ TimerfdArmed /\ CanceledStaysOut

(* The loop does what it was asked to: functors run, timers fire and quit  *)
(* ends it, whichever thread asked and wherever the loop was.              *)
LoopServes == FunctorsRun /\ TimersFire /\ QuitEndsLoop
=============================================================================
