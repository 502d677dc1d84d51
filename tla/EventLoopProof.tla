--------------------------- MODULE EventLoopProof ---------------------------
(***************************************************************************)
(* Machine-checked proofs about EventLoop and its TimerQueue: for any      *)
(* number of threads, timers, addresses and calls no wakeup is lost and    *)
(* the timers stay consistent.                                             *)
(***************************************************************************)
EXTENDS EventLoop, DataFacts

-----------------------------------------------------------------------------
(* The inductive invariant *)

Id == Addr \X Nat

Timer == [sequence : Nat, expiration : Nat, interval : Nat]

Functor == [op : {"user"}, arg : {<<>>}] \cup [op : {"add", "cancel"}, arg : Id]

Place == [at : {"idle", "wakeup"}, arg : {<<>>}]
         \cup [at : {"wakeup", "return"}, arg : Id]

\* Every variable has its type, and a timer that was not deleted has a number.
StateOK ==
    /\ pc \in {"created", "start", "while", "poll", "events", "timers",
               "functors", "exited"}
    /\ now \in Nat \ {0} /\ readTime \in Nat /\ timerfd \in Nat
    /\ numCreated \in 0 .. MaxTimers /\ calls \in 0 .. MaxCalls
    /\ quit_ \in BOOLEAN /\ looping_ \in BOOLEAN /\ wakeupFd \in BOOLEAN
    /\ callingPendingFunctors_ \in BOOLEAN
    /\ callingExpiredTimers_ \in BOOLEAN /\ quitCalled \in BOOLEAN
    /\ heap \in [Addr -> Timer]
    /\ \A a \in Addr : heap[a].sequence <= numCreated
                       /\ (heap[a].sequence = 0 => heap[a] = Freed)
    /\ timers_ \subseteq Nat \X Addr /\ IsFiniteSet(timers_)
    /\ activeTimers_ \subseteq Id
    /\ expired \in Seq(Nat \X Addr)
    /\ tpc \in [Threads -> Place]
    /\ functors \in Seq(Functor) /\ pendingFunctors_ \in Seq(Functor)
    /\ issued \subseteq Id /\ canceled \subseteq Id
    /\ queuedEarly \in Nat

\* What the loop does decides what its flags and locals hold.
Phases ==
    /\ callingPendingFunctors_ <=> pc = "functors"
    /\ callingExpiredTimers_ <=> pc = "timers"
    /\ functors # <<>> => pc = "functors"
    /\ expired # <<>> => pc = "timers"

Woken == wakeupFd \/ \E t \in Threads : tpc[t].at = "wakeup"

\* From the swap of one round to the poll of the next, work that was queued
\* while the loop ran has woken it; in poll, so has quit().
Wakes ==
    /\ pc \notin {"events", "timers", "exited"} /\ NewWork => Woken
    /\ pc = "poll" /\ quit_ => Woken

\* Ids that callers hold are of timers made so far.
IdsKnown ==
    /\ \A id \in issued \cup canceled : id[2] <= numCreated
    /\ \A f \in Range(functors) \cup Range(pendingFunctors_) :
            f.op # "user" => f.arg[2] <= numCreated
    /\ \A t \in Threads : tpc[t].arg # <<>> => tpc[t].arg[2] <= numCreated

Adds(q) == {f \in Range(q) : f.op = "add"}

Once(q) == \A i, j \in DOMAIN q : q[i] = q[j] /\ q[i].op = "add" => i = j

\* A timer whose addTimerInLoop is still queued is alive, in no set, was not
\* run and not canceled.
OnlyQueued(id) ==
    /\ id[2] # 0 /\ id[2] = heap[id[1]].sequence
    /\ id \notin canceled
    /\ \A e \in timers_ : e[2] # id[1]
    /\ \A i \in DOMAIN expired : expired[i][2] # id[1]

\* Every timer is inserted by one functor.
Queued ==
    /\ \A f \in Adds(functors) \cup Adds(pendingFunctors_) : OnlyQueued(f.arg)
    /\ Once(functors) /\ Once(pendingFunctors_)
    /\ Adds(functors) \cap Adds(pendingFunctors_) = {}

\* TimerSetsAgree up to the sizes, with every timer alive and not canceled.
Waiting ==
    /\ \A e \in timers_ : /\ heap[e[2]].sequence # 0 /\ e = Entry(e[2])
                          /\ IdAt(e[2]) \in activeTimers_
    /\ \A id \in activeTimers_ : id = IdAt(id[1]) /\ Entry(id[1]) \in timers_
    /\ canceled \cap activeTimers_ = {}

\* The timers that handleRead has taken out are alive until reset, whatever
\* the callbacks cancel, and reset knows which were canceled meanwhile.
Running ==
    \A i \in DOMAIN expired :
        LET a == expired[i][2] IN
        /\ heap[a].sequence # 0 /\ Entry(a) = expired[i]
        /\ \A e \in timers_ : e[2] # a
        /\ IdAt(a) \in canceled => IdAt(a) \in cancelingTimers_

\* TimerfdArmed, for each timer that waits.
Armed ==
    timers_ # {} /\ pc # "timers" =>
        /\ timerfd > 0
        /\ timerfd <= now + 1 \/ \A e \in timers_ : timerfd <= e[1]

LoopInv ==
    /\ StateOK /\ Phases /\ Wakes /\ IdsKnown /\ Queued /\ Waiting /\ Running
    /\ Armed

-----------------------------------------------------------------------------
(* Facts about the operators of the model *)

\* Earliest returns the least expiration of a set of entries.
LEMMA EarliestFacts ==
    ASSUME NEW S, S \subseteq Nat \X Addr, S # {}
    PROVE  /\ Earliest(S) \in Nat
           /\ \A e \in S : Earliest(S) <= e[1]
           /\ \E e \in S : e[1] = Earliest(S)
  <1> DEFINE T == {e[1] : e \in S}
  <1>1. T \subseteq Nat /\ T # {}
    OBVIOUS
  <1>2. Min(T) \in T /\ \A y \in T : Min(T) <= y
    <2> HIDE DEF T
    <2> QED
      BY <1>1, MinFacts
  <1>3. \E t \in T : \A e \in S : t <= e[1]
    BY <1>2
  <1>4. Earliest(S) \in T /\ \A e \in S : Earliest(S) <= e[1]
    BY <1>3 DEF Earliest
  <1> QED
    BY <1>1, <1>4

\* What Append and Tail do to the timers that wait for their functor.
LEMMA AddsFacts ==
    ASSUME NEW q \in Seq(Functor)
    PROVE  /\ \A f \in Functor : f.op # "add" =>
                Adds(Append(q, f)) = Adds(q) /\ (Once(q) => Once(Append(q, f)))
           /\ \A f \in Functor : f.op = "add" =>
                /\ Adds(Append(q, f)) = Adds(q) \cup {f}
                /\ f \notin Adds(q) /\ Once(q) => Once(Append(q, f))
           /\ q # <<>> =>
                /\ Adds(Tail(q)) \subseteq Adds(q)
                /\ Once(q) => Once(Tail(q))
                /\ Once(q) /\ Head(q).op = "add" => Head(q) \notin Adds(Tail(q))
  <1>1. ASSUME NEW f \in Functor
        PROVE  /\ Range(Append(q, f)) = Range(q) \cup {f}
               /\ Once(q) /\ (f.op = "add" => f \notin Adds(q)) => Once(Append(q, f))
    <2>1. Range(Append(q, f)) = Range(q) \cup {f}
      BY RangeFacts
    <2>2. ASSUME Once(q), f.op = "add" => f \notin Adds(q)
          PROVE  Once(Append(q, f))
      <3>1. /\ DOMAIN Append(q, f) = 1 .. (Len(q) + 1) /\ DOMAIN q = 1 .. Len(q)
            /\ \A i \in 1 .. Len(q) : Append(q, f)[i] = q[i]
            /\ Append(q, f)[Len(q) + 1] = f
        OBVIOUS
      <3>2. \A i \in 1 .. Len(q) : q[i] \in Range(q)
        BY <3>1 DEF Range
      <3>3. \A i \in 1 .. (Len(q) + 1) : i \in 1 .. Len(q) \/ i = Len(q) + 1
        OBVIOUS
      <3>4. \A i \in 1 .. Len(q) : q[i] = f => f.op # "add"
        BY <2>2, <3>2 DEF Adds
      <3>5. \A i, j \in 1 .. Len(q) : q[i] = q[j] /\ q[i].op = "add" => i = j
        BY <2>2, <3>1 DEF Once
      <3> QED
        BY <3>1, <3>3, <3>4, <3>5 DEF Once
    <2> QED
      BY <2>1, <2>2
  <1>2. ASSUME q # <<>>
        PROVE  /\ Range(q) = Range(Tail(q)) \cup {Head(q)}
               /\ Once(q) => Once(Tail(q))
               /\ Once(q) /\ Head(q).op = "add" => Head(q) \notin Adds(Tail(q))
    <2>1. Range(q) = Range(Tail(q)) \cup {Head(q)}
      BY <1>2, RangeFacts
    <2>2. /\ DOMAIN Tail(q) = 1 .. (Len(q) - 1) /\ DOMAIN q = 1 .. Len(q)
          /\ \A i \in 1 .. (Len(q) - 1) : Tail(q)[i] = q[i + 1]
          /\ Head(q) = q[1] /\ Len(q) \in Nat \ {0}
      BY <1>2
    <2>3. \A i \in 1 .. (Len(q) - 1) : i \in Nat /\ i + 1 \in 1 .. Len(q) /\ i + 1 # 1
      BY <2>2
    <2>4. ASSUME Once(q) PROVE Once(Tail(q))
      BY <2>2, <2>3, <2>4 DEF Once
    <2>5. ASSUME Once(q), Head(q).op = "add", Head(q) \in Adds(Tail(q)) PROVE FALSE
      <3>1. PICK i \in 1 .. (Len(q) - 1) : Tail(q)[i] = q[1]
        BY <2>2, <2>5 DEF Adds, Range
      <3>2. q[i + 1] = q[1] /\ 1 \in DOMAIN q /\ i + 1 \in DOMAIN q
        BY <2>2, <2>3, <3>1
      <3> QED
        BY <2>2, <2>3, <2>5, <3>2 DEF Once
    <2> QED
      BY <2>1, <2>4, <2>5
  <1> QED
    BY <1>1, <1>2 DEF Adds

\* What a step that leaves the timers alone keeps.
LEMMA TimersKept ==
    ASSUME UNCHANGED <<heap, timers_, activeTimers_, cancelingTimers_, expired,
                       canceled>>
    PROVE  /\ Waiting => Waiting'
           /\ Running => Running'
           /\ \A id : OnlyQueued(id) => OnlyQueued(id)'
  BY DEF Waiting, Running, OnlyQueued, Entry, IdAt

\* Steps that change neither a timer nor a queue of functors.
QuietStep ==
    /\ UNCHANGED <<heap, numCreated, timers_, activeTimers_, cancelingTimers_,
                   callingExpiredTimers_, expired, readTime, timerfd, canceled,
                   functors, pendingFunctors_, queuedEarly>>
    /\ now' \in Nat /\ now <= now'
    /\ tpc' \in [Threads -> Place]
    /\ \A t \in Threads : tpc'[t].arg # <<>> => tpc'[t].arg[2] <= numCreated
    /\ issued' \subseteq Id /\ \A id \in issued' : id[2] <= numCreated
    /\ calls' \in 0 .. MaxCalls
    /\ quit_' \in BOOLEAN /\ looping_' \in BOOLEAN /\ wakeupFd' \in BOOLEAN
    /\ callingPendingFunctors_' \in BOOLEAN /\ quitCalled' \in BOOLEAN
    /\ pc' \in {"created", "start", "while", "poll", "events", "timers",
                "functors", "exited"}
    /\ pc' = "timers" <=> pc = "timers"

LEMMA QuietKeeps ==
    ASSUME LoopInv, QuietStep
    PROVE  StateOK' /\ IdsKnown' /\ Queued' /\ Waiting' /\ Running' /\ Armed'
  <1> USE DEF LoopInv, QuietStep
  <1>1. StateOK'
    BY DEF StateOK
  <1>2. IdsKnown'
    BY DEF IdsKnown
  <1>3. Waiting' /\ Running'
    BY TimersKept
  <1>4. Queued'
    BY TimersKept DEF Queued
  <1>5. now \in Nat /\ now' \in Nat /\ now <= now' /\ timerfd \in Nat
    BY DEF StateOK
  <1>6. timerfd <= now + 1 => timerfd <= now' + 1
    BY <1>5
  <1>7. Armed'
    BY <1>6 DEF Armed
  <1> QED
    BY <1>1, <1>2, <1>3, <1>4, <1>7

\* A push of anything but a new timer.
LEMMA PushKeeps ==
    ASSUME LoopInv, NEW t \in Threads, NEW f \in Functor, f.op # "add",
           f.op = "user" \/ f.arg[2] <= numCreated,
           Push(t, f, [at |-> "wakeup", arg |-> <<>>]),
           UNCHANGED <<timerVars, issued, canceled>>
    PROVE  LoopInv'
  <1> DEFINE next == [at |-> "wakeup", arg |-> <<>>]
  <1> USE DEF LoopInv, timerVars
  <1>1. /\ UNCHANGED <<pc, quit_, looping_, wakeupFd, activeChannels_, functors,
                       callingPendingFunctors_, quitCalled, queuedEarly>>
        /\ pendingFunctors_' = Append(pendingFunctors_, f)
        /\ tpc' = [tpc EXCEPT ![t] = next]
        /\ pc # "created" /\ pc # "exited"
        /\ calls' = calls + 1 /\ calls < MaxCalls
    BY DEF Push, HasLoop
  <1>2. pendingFunctors_ \in Seq(Functor) /\ pendingFunctors_' \in Seq(Functor)
    BY <1>1 DEF StateOK
  <1>3. calls' \in 0 .. MaxCalls
    BY <1>1, LoopAssumption DEF StateOK
  <1>4. next \in Place /\ tpc' \in [Threads -> Place] /\ tpc'[t] = next
        /\ \A u \in Threads : u # t => tpc'[u] = tpc[u]
    BY <1>1 DEF StateOK, Place
  <1>5. StateOK'
    BY <1>1, <1>2, <1>3, <1>4 DEF StateOK
  <1>6. Phases'
    BY <1>1 DEF Phases
  <1>7. Wakes'
    <2>1. Woken'
      BY <1>4 DEF Woken
    <2> QED
      BY <2>1 DEF Wakes
  <1>8. Range(pendingFunctors_') = Range(pendingFunctors_) \cup {f}
    BY <1>1, <1>2, RangeFacts
  <1>9. IdsKnown'
    <2>1. \A g \in Range(functors') \cup Range(pendingFunctors_') :
                g.op # "user" => g.arg[2] <= numCreated'
      BY <1>1, <1>8 DEF IdsKnown
    <2>2. \A u \in Threads : tpc'[u].arg # <<>> => tpc'[u].arg[2] <= numCreated'
      BY <1>4 DEF IdsKnown
    <2> QED
      BY <2>1, <2>2 DEF IdsKnown
  <1>10. Adds(pendingFunctors_') = Adds(pendingFunctors_)
         /\ (Once(pendingFunctors_) => Once(pendingFunctors_'))
    BY <1>1, <1>2, AddsFacts
  <1>11. Queued'
    BY <1>1, <1>10, TimersKept DEF Queued
  <1>12. Waiting' /\ Running'
    BY TimersKept
  <1>13. Armed'
    BY <1>1 DEF Armed
  <1> QED
    BY <1>5, <1>6, <1>7, <1>9, <1>11, <1>12, <1>13

\* wakeup() and quit() of another thread.
LEMMA ThreadCallKeeps ==
    ASSUME LoopInv, NEW t \in Threads, wakeup(t) \/ quit(t) \/ returnTimerId(t)
    PROVE  LoopInv'
  <1> USE DEF LoopInv
  <1>0. tpc \in [Threads -> Place]
    BY DEF StateOK
  <1>1. CASE wakeup(t)
    <2>0. /\ UNCHANGED <<timerVars, pc, quit_, looping_, activeChannels_,
                   pendingFunctors_, functors, callingPendingFunctors_,
                   calls, issued, canceled, quitCalled, queuedEarly>>
          /\ wakeupFd' = TRUE
      BY <1>1 DEF wakeup
    <2> DEFINE next == IF tpc[t].arg = <<>> THEN Idle
                       ELSE [tpc[t] EXCEPT !.at = "return"]
    <2>1. tpc' = [tpc EXCEPT ![t] = next]
      BY <1>1 DEF wakeup
    <2>2. next \in Place
      BY <1>0, <1>1 DEF Place, Idle, wakeup
    <2>3. next.arg # <<>> => next.arg = tpc[t].arg
      BY <1>0 DEF Idle, Place
    <2> HIDE DEF next
    <2>4. tpc' \in [Threads -> Place]
      BY <1>0, <2>1, <2>2
    <2>5. \A u \in Threads : tpc'[u].arg # <<>> => tpc'[u].arg[2] <= numCreated
      BY <1>0, <2>1, <2>3 DEF IdsKnown
    <2>6. QuietStep
      BY <2>0, <2>4, <2>5 DEF QuietStep, timerVars, StateOK, IdsKnown
    <2>7. Phases'
      BY <2>0 DEF Phases, timerVars
    <2>8. Wakes'
      BY <2>0 DEF Wakes, Woken, NewWork
    <2> QED
      BY <2>6, <2>7, <2>8, QuietKeeps
  <1>2. CASE quit(t)
    <2>0. /\ UNCHANGED <<timerVars, pc, looping_, activeChannels_, wakeupFd,
                   pendingFunctors_, functors, callingPendingFunctors_,
                   issued, canceled, queuedEarly>>
          /\ quit_' = TRUE /\ quitCalled' = TRUE
          /\ calls < MaxCalls /\ calls' = calls + 1
          /\ tpc' = [tpc EXCEPT ![t] = AfterQuit]
      BY <1>2 DEF quit
    <2>1. AfterQuit \in Place /\ AfterQuit.arg = <<>> /\ AfterQuit.at = "wakeup"
      BY DEF AfterQuit, Place
    <2>2. tpc' \in [Threads -> Place] /\ tpc'[t] = AfterQuit
      BY <1>0, <2>0, <2>1
    <2>3. \A u \in Threads : tpc'[u].arg # <<>> => tpc'[u].arg[2] <= numCreated
      BY <1>0, <2>0, <2>1 DEF IdsKnown
    <2>4. calls' \in 0 .. MaxCalls
      BY <2>0, LoopAssumption DEF StateOK
    <2>5. QuietStep
      BY <2>0, <2>2, <2>3, <2>4 DEF QuietStep, timerVars, StateOK, IdsKnown
    <2>6. Phases'
      BY <2>0 DEF Phases, timerVars
    <2>7. Wakes'
      BY <2>1, <2>2 DEF Wakes, Woken, NewWork
    <2> QED
      BY <2>5, <2>6, <2>7, QuietKeeps
  <1>3. CASE returnTimerId(t)
    <2>0. /\ UNCHANGED <<timerVars, pc, looping_, activeChannels_, wakeupFd, quit_,
                   quitCalled, calls, pendingFunctors_, functors,
                   callingPendingFunctors_, canceled, queuedEarly>>
          /\ tpc[t].at = "return"
          /\ tpc' = [tpc EXCEPT ![t] = Idle]
      BY <1>3 DEF returnTimerId
    <2>1. Idle \in Place /\ Idle.arg = <<>>
      BY DEF Idle, Place
    <2>2. tpc' \in [Threads -> Place]
      BY <1>0, <2>0, <2>1
    <2>3. \A u \in Threads : tpc'[u].arg # <<>> => tpc'[u].arg[2] <= numCreated
      BY <1>0, <2>0, <2>1 DEF IdsKnown
    <2>4. tpc[t].arg \in Id /\ tpc[t].arg # <<>> /\ tpc[t].arg[1] \in Addr
      <3>1. tpc[t] \in Place
        BY <1>0
      <3>2. tpc[t].arg \in Id
        BY <2>0, <3>1 DEF Place
      <3>3. \A id \in Id : id # <<>> /\ id[1] \in Addr
        BY DEF Id
      <3> QED
        BY <3>2, <3>3
    <2>5. tpc[t].arg[2] <= numCreated
      BY <2>4 DEF IdsKnown
    <2>6. IdAt(tpc[t].arg[1]) \in Id /\ IdAt(tpc[t].arg[1])[2] <= numCreated
      BY <2>4 DEF StateOK, IdAt, Id, Timer
    <2>7. PICK id \in {IdAt(tpc[t].arg[1]), tpc[t].arg} : issued' = issued \cup {id}
      BY <1>3 DEF returnTimerId
    <2>8. issued' \subseteq Id /\ \A i \in issued' : i[2] <= numCreated
      BY <2>4, <2>5, <2>6, <2>7 DEF StateOK, IdsKnown
    <2>9. QuietStep
      BY <2>0, <2>2, <2>3, <2>8 DEF QuietStep, timerVars, StateOK
    <2>10. Phases'
      BY <2>0 DEF Phases, timerVars
    <2>11. \A u \in Threads : tpc[u].at = "wakeup" => tpc'[u].at = "wakeup"
      BY <1>0, <2>0
    <2>12. Wakes'
      BY <2>0, <2>11 DEF Wakes, Woken, NewWork
    <2> QED
      BY <2>9, <2>10, <2>12, QuietKeeps
  <1> QED
    BY <1>1, <1>2, <1>3

\* The steps of the loop's thread around its callbacks.
LEMMA LoopTurnKeeps ==
    ASSUME LoopInv,
           \/ threadFunc \/ loopBegin \/ testQuit \/ poll \/ pollTimeout
           \/ handleWakeup \/ functorsDone \/ (Tick /\ UNCHANGED loopVars)
    PROVE  LoopInv'
  <1> USE DEF LoopInv
  <1>1. CASE threadFunc
    <2>1. QuietStep
      BY <1>1 DEF threadFunc, QuietStep, timerVars, StateOK, IdsKnown
    <2>2. Phases' /\ Wakes'
      BY <1>1 DEF threadFunc, timerVars, Phases, Wakes, Woken, NewWork
    <2> QED
      BY <2>1, <2>2, QuietKeeps
  <1>2. CASE loopBegin
    <2>0. quit_' \in BOOLEAN /\ looping_' \in BOOLEAN
      BY <1>2 DEF loopBegin
    <2>1. QuietStep
      BY <1>2, <2>0 DEF loopBegin, QuietStep, timerVars, StateOK, IdsKnown
    <2>2. Phases' /\ Wakes'
      BY <1>2 DEF loopBegin, timerVars, Phases, Wakes, Woken, NewWork
    <2> QED
      BY <2>1, <2>2, QuietKeeps
  <1>3. CASE testQuit
    <2>1. QuietStep
      BY <1>3 DEF testQuit, QuietStep, timerVars, StateOK, IdsKnown
    <2>2. Phases' /\ Wakes'
      BY <1>3 DEF testQuit, timerVars, Phases, Wakes, Woken, NewWork
    <2> QED
      BY <2>1, <2>2, QuietKeeps
  <1>4. CASE poll \/ pollTimeout
    <2>0. PICK channels : PollReturns(channels)
      BY <1>4 DEF poll, pollTimeout
    <2>1. QuietStep
      BY <2>0 DEF PollReturns, QuietStep, timerVars, StateOK, IdsKnown
    <2>2. Phases' /\ Wakes'
      BY <2>0 DEF PollReturns, timerVars, Phases, Wakes, Woken, NewWork
    <2> QED
      BY <2>1, <2>2, QuietKeeps
  <1>5. CASE handleWakeup
    <2>0. wakeupFd' \in BOOLEAN
      BY <1>5 DEF handleWakeup
    <2>1. QuietStep
      BY <1>5, <2>0 DEF handleWakeup, QuietStep, timerVars, StateOK, IdsKnown
    <2>2. Phases' /\ Wakes'
      BY <1>5 DEF handleWakeup, timerVars, Phases, Wakes, Woken, NewWork
    <2> QED
      BY <2>1, <2>2, QuietKeeps
  <1>6. CASE functorsDone
    <2>0. callingPendingFunctors_' \in BOOLEAN
      BY <1>6 DEF functorsDone
    <2>1. QuietStep
      BY <1>6, <2>0 DEF functorsDone, QuietStep, timerVars, StateOK, IdsKnown
    <2>2. Phases' /\ Wakes'
      BY <1>6 DEF functorsDone, timerVars, Phases, Wakes, Woken, NewWork
    <2> QED
      BY <2>1, <2>2, QuietKeeps
  <1>7. CASE Tick /\ UNCHANGED loopVars
    <2>1. now' \in Nat /\ now <= now'
      BY <1>7 DEF Tick, StateOK
    <2>2. QuietStep
      BY <1>7, <2>1 DEF Tick, QuietStep, loopVars, StateOK, IdsKnown
    <2>3. Phases' /\ Wakes'
      BY <1>7 DEF Tick, loopVars, Phases, Wakes, Woken, NewWork
    <2> QED
      BY <2>2, <2>3, QuietKeeps
  <1> QED
    BY <1>1, <1>2, <1>3, <1>4, <1>5, <1>6, <1>7

\* The swap: what was pending is now what the loop runs.
LEMMA TakeKeeps ==
    ASSUME LoopInv, takeFunctors
    PROVE  LoopInv'
  <1> USE DEF LoopInv
  <1>1. /\ UNCHANGED <<timerVars, quit_, looping_, wakeupFd, activeChannels_,
                       tpc, calls, issued, canceled, quitCalled>>
        /\ functors' = pendingFunctors_ /\ pendingFunctors_' = <<>>
        /\ queuedEarly' = 0
        /\ pc = "events" /\ pc' = "functors" /\ callingPendingFunctors_' = TRUE
    BY DEF takeFunctors
  <1>2. StateOK' /\ Phases' /\ Wakes' /\ Armed'
    BY <1>1 DEF timerVars, StateOK, Phases, Wakes, NewWork, Armed
  <1>3. Range(<<>>) = {} /\ Adds(<<>>) = {} /\ Once(<<>>)
    BY DEF Range, Adds, Once
  <1>4. IdsKnown'
    BY <1>1, <1>3 DEF timerVars, IdsKnown
  <1>5. Waiting' /\ Running'
    BY <1>1, TimersKept DEF timerVars
  <1>6. Queued'
    <2>1. UNCHANGED <<heap, timers_, activeTimers_, cancelingTimers_, expired,
                      canceled>>
      BY <1>1 DEF timerVars
    <2>2. \A f \in Adds(functors') : OnlyQueued(f.arg)'
      BY <1>1, <2>1, TimersKept DEF Queued
    <2> QED
      BY <1>1, <1>3, <2>2 DEF Queued
  <1> QED
    BY <1>2, <1>4, <1>5, <1>6

-----------------------------------------------------------------------------
(* What the operations on the timers keep *)

\* A delay and an interval are times.
LEMMA ScheduleFacts ==
    ASSUME NEW s \in Schedules PROVE s[1] \in Nat /\ s[2] \in Nat
  <1>1. CASE s \in Delays \X {0}
    <2>1. s[1] \in Delays /\ s[2] = 0
      BY <1>1
    <2>2. \A d \in Delays : d \in Nat
      BY TimerAssumption
    <2> QED
      BY <2>1, <2>2
  <1>2. CASE s \in {<<i, i>> : i \in Intervals}
    <2>1. PICK i \in Intervals : s = <<i, i>>
      BY <1>2
    <2>2. i \in Nat
      BY TimerAssumption
    <2> QED
      BY <2>1, <2>2
  <1> QED
    BY <1>1, <1>2 DEF Schedules

\* A timer that was just made is in no set and in no queue.
LEMMA NewTimerFacts ==
    ASSUME LoopInv, NEW a \in Addr, NEW s \in Schedules, NewTimer(a, s)
    PROVE  /\ heap' \in [Addr -> Timer] /\ numCreated' \in 0 .. MaxTimers
           /\ numCreated' = numCreated + 1 /\ numCreated \in Nat
           /\ \A b \in Addr : heap'[b].sequence <= numCreated'
                              /\ (heap'[b].sequence = 0 => heap'[b] = Freed)
           /\ \A b \in Addr : b # a => heap'[b] = heap[b]
           /\ heap'[a].sequence = numCreated + 1
           /\ \A e \in timers_ : e[2] # a
           /\ \A i \in DOMAIN expired : expired[i][2] # a
           /\ \A f \in Adds(functors) \cup Adds(pendingFunctors_) : f.arg[1] # a
           /\ <<a, numCreated + 1>> \in Id /\ <<a, numCreated + 1>> \notin canceled
  <1> USE DEF LoopInv
  <1> DEFINE new == [sequence |-> numCreated + 1, expiration |-> now + s[1],
                     interval |-> s[2]]
  <1>1. /\ heap[a] = Freed /\ numCreated < MaxTimers /\ numCreated' = numCreated + 1
        /\ heap' = [heap EXCEPT ![a] = new]
    BY DEF NewTimer
  <1>2. numCreated \in Nat /\ now \in Nat /\ heap \in [Addr -> Timer]
    BY DEF StateOK
  <1>3. new \in Timer /\ new.sequence = numCreated + 1
    BY <1>2, ScheduleFacts DEF Timer
  <1> HIDE DEF new
  <1>4. heap' \in [Addr -> Timer] /\ heap'[a] = new
        /\ \A b \in Addr : b # a => heap'[b] = heap[b]
    BY <1>1, <1>2, <1>3
  <1>5. numCreated' \in 0 .. MaxTimers
    BY <1>1, TimerAssumption DEF StateOK
  <1>6. \A b \in Addr : heap[b].sequence <= numCreated
                        /\ (heap[b].sequence = 0 => heap[b] = Freed)
    BY DEF StateOK
  <1>7. \A b \in Addr : heap[b].sequence \in Nat
    BY <1>2 DEF Timer
  <1>8. \A b \in Addr : heap'[b].sequence <= numCreated'
                        /\ (heap'[b].sequence = 0 => heap'[b] = Freed)
    BY <1>1, <1>2, <1>3, <1>4, <1>6, <1>7
  <1>9. heap[a].sequence = 0
    BY <1>1 DEF Freed
  <1>10. \A e \in timers_ : e[2] # a
    BY <1>9 DEF Waiting
  <1>11. \A i \in DOMAIN expired : expired[i][2] # a
    BY <1>9 DEF Running
  <1>12. \A f \in Adds(functors) \cup Adds(pendingFunctors_) : f.arg[1] # a
    BY <1>9 DEF Queued, OnlyQueued
  <1>13. <<a, numCreated + 1>> \in Id
    BY <1>2 DEF Id
  <1>14. <<a, numCreated + 1>> \notin canceled
    BY <1>2 DEF IdsKnown
  <1> QED
    BY <1>1, <1>2, <1>3, <1>4, <1>5, <1>8, <1>10, <1>11, <1>12, <1>13, <1>14

\* resetTimerfd arms the timerfd, at the expiration or at once.
LEMMA ResetFacts ==
    ASSUME StateOK, NEW x \in Nat
    PROVE  /\ resetTimerfd(x) \in Nat /\ resetTimerfd(x) > 0
           /\ resetTimerfd(x) <= now + 1 \/ resetTimerfd(x) <= x
  <1>1. now \in Nat \ {0} /\ MaxTime \in Nat
    BY TimerAssumption DEF StateOK
  <1>2. CASE x > now
    BY <1>1, <1>2 DEF resetTimerfd
  <1>3. CASE x <= now /\ now < MaxTime
    <2>1. resetTimerfd(x) = now + 1
      BY <1>1, <1>3 DEF resetTimerfd
    <2> QED
      BY <1>1, <2>1
  <1>4. CASE x <= now /\ ~(now < MaxTime)
    <2>1. resetTimerfd(x) = now
      BY <1>1, <1>4 DEF resetTimerfd
    <2> QED
      BY <1>1, <2>1
  <1> QED
    BY <1>1, <1>2, <1>3, <1>4

\* insert and the call of resetTimerfd after it, for a timer in no set.
LEMMA InsertKeeps ==
    ASSUME LoopInv, NEW a \in Addr, heap' \in [Addr -> Timer],
           heap'[a].sequence # 0,
           \A b \in Addr : b # a => heap'[b] = heap[b],
           \A e \in timers_ : e[2] # a,
           IdAt(a)' \notin canceled,
           addTimerInLoop(a, heap'[a]),
           UNCHANGED <<now, pc, canceled>>
    PROVE  /\ timers_' \subseteq Nat \X Addr /\ IsFiniteSet(timers_')
           /\ activeTimers_' \subseteq Id /\ timerfd' \in Nat
           /\ Waiting' /\ Armed'
           /\ \A e \in timers_' : e[2] = a \/ e \in timers_
  <1> USE DEF LoopInv
  <1> DEFINE x == heap'[a].expiration
  <1>1. x \in Nat /\ heap'[a].sequence \in Nat
    BY DEF Timer
  <1>2. timers_' = timers_ \cup {<<x, a>>} /\ timers_ \subseteq Nat \X Addr
        /\ activeTimers_' = activeTimers_ \cup {<<a, heap'[a].sequence>>}
    BY DEF addTimerInLoop, StateOK
  <1>3. timerfd' = IF timers_ = {} \/ x < Earliest(timers_) THEN resetTimerfd(x)
                   ELSE timerfd
    BY DEF addTimerInLoop, EarliestChanged
  <1> HIDE DEF x
  <1>4. timers_' \subseteq Nat \X Addr /\ IsFiniteSet(timers_')
    <2>1. IsFiniteSet(timers_)
      BY DEF StateOK
    <2>2. IsFiniteSet(timers_ \cup {<<x, a>>})
      BY <2>1, FS_AddElement
    <2>3. <<x, a>> \in Nat \X Addr
      BY <1>1
    <2> QED
      BY <1>2, <2>2, <2>3
  <1>5. activeTimers_' \subseteq Id
    BY <1>1, <1>2 DEF StateOK, Id
  <1>6. Entry(a)' = <<x, a>> /\ IdAt(a)' = <<a, heap'[a].sequence>>
    BY DEF Entry, IdAt, x
  <1>7. \A e \in timers_ : e[2] \in Addr /\ e[2] # a /\ Entry(e[2])' = Entry(e[2])
                           /\ IdAt(e[2])' = IdAt(e[2])
    BY <1>2 DEF Entry, IdAt
  <1>8. \A id \in activeTimers_ : id[1] \in Addr /\ id[1] # a
                                  /\ Entry(id[1])' = Entry(id[1])
                                  /\ IdAt(id[1])' = IdAt(id[1])
    <2>1. \A id \in activeTimers_ : Entry(id[1]) \in timers_ /\ Entry(id[1])[2] = id[1]
      BY DEF Waiting, Entry
    <2>2. \A id \in activeTimers_ : id[1] \in Addr /\ id[1] # a
      BY <2>1, <1>2
    <2> QED
      BY <2>2 DEF Entry, IdAt
  <1>9. Waiting'
    <2>1. \A e \in timers_' : /\ heap'[e[2]].sequence # 0 /\ e = Entry(e[2])'
                              /\ IdAt(e[2])' \in activeTimers_'
      <3>1. ASSUME NEW e \in timers_
            PROVE  /\ heap'[e[2]].sequence # 0 /\ e = Entry(e[2])'
                   /\ IdAt(e[2])' \in activeTimers_'
        <4>1. heap'[e[2]] = heap[e[2]]
          BY <1>7
        <4> QED
          BY <1>2, <1>7, <4>1 DEF Waiting
      <3>2. ASSUME NEW e, e = <<x, a>>
            PROVE  /\ heap'[e[2]].sequence # 0 /\ e = Entry(e[2])'
                   /\ IdAt(e[2])' \in activeTimers_'
        BY <1>2, <1>6, <3>2
      <3> QED
        BY <1>2, <3>1, <3>2
    <2>2. \A id \in activeTimers_' : id = IdAt(id[1])' /\ Entry(id[1])' \in timers_'
      BY <1>2, <1>6, <1>8 DEF Waiting
    <2>3. canceled' \cap activeTimers_' = {}
      BY <1>2, <1>6 DEF Waiting
    <2> QED
      BY <2>1, <2>2, <2>3 DEF Waiting
  <1>10. timerfd' \in Nat
    BY <1>1, <1>3, ResetFacts DEF StateOK
  <1>11. Armed'
    <2>1. SUFFICES ASSUME pc # "timers"
                   PROVE  /\ timerfd' > 0
                          /\ timerfd' <= now + 1 \/ \A e \in timers_' : timerfd' <= e[1]
      BY DEF Armed
    <2>2. CASE timers_ = {} \/ x < Earliest(timers_)
      <3>1. timerfd' = resetTimerfd(x)
        BY <1>3, <2>2
      <3>2. timerfd' > 0 /\ (timerfd' <= now + 1 \/ timerfd' <= x)
        BY <1>1, <3>1, ResetFacts
      <3>3. \A e \in timers_' : e[1] \in Nat /\ x <= e[1]
        <4>1. \A e \in timers_ : e[1] \in Nat /\ x <= e[1]
          BY <1>1, <1>2, <2>2, EarliestFacts
        <4> QED
          BY <1>1, <1>2, <4>1
      <3> QED
        BY <1>1, <1>10, <3>2, <3>3
    <2>3. CASE ~(timers_ = {} \/ x < Earliest(timers_))
      <3>1. timerfd' = timerfd /\ timers_ # {} /\ timerfd \in Nat
        BY <1>3, <2>3 DEF StateOK
      <3>2. PICK e \in timers_ : e[1] = Earliest(timers_) /\ e[1] \in Nat
        BY <1>2, <3>1, EarliestFacts
      <3>3. e[1] <= x
        BY <1>1, <2>3, <3>2
      <3>4. timerfd > 0 /\ (timerfd <= now + 1 \/ \A d \in timers_ : timerfd <= d[1])
        BY <2>1, <3>1 DEF Armed
      <3>5. timerfd <= e[1] => timerfd <= x
        BY <1>1, <3>1, <3>2, <3>3
      <3> QED
        BY <1>2, <3>1, <3>4, <3>5
    <2> QED
      BY <2>2, <2>3
  <1>12. \A e \in timers_' : e[2] = a \/ e \in timers_
    BY <1>2
  <1> QED
    BY <1>4, <1>5, <1>9, <1>10, <1>11, <1>12

\* A timer whose functor is queued counts as not inserted.
LEMMA NotInsertedFacts ==
    ASSUME StateOK
    PROVE  \A f \in Adds(functors) \cup Adds(pendingFunctors_) : f.arg \in NotInserted
  <1>1. functors \in Seq(Functor) /\ pendingFunctors_ \in Seq(Functor)
    BY DEF StateOK
  <1> DEFINE p == pendingFunctors_
             q == functors
  <1>2. /\ DOMAIN (p \o q) = 1 .. (Len(p) + Len(q))
        /\ \A i \in 1 .. Len(p) : (p \o q)[i] = p[i]
        /\ \A i \in 1 .. Len(q) : (p \o q)[i + Len(p)] = q[i]
    BY <1>1
  <1>3. \A i \in 1 .. Len(p) : i \in 1 .. (Len(p) + Len(q))
    BY <1>1
  <1>4. \A i \in 1 .. Len(q) : i + Len(p) \in 1 .. (Len(p) + Len(q))
    BY <1>1
  <1>5. DOMAIN p = 1 .. Len(p) /\ DOMAIN q = 1 .. Len(q)
    BY <1>1
  <1> HIDE DEF p, q
  <1>6. Range(p) \subseteq Range(p \o q)
    BY <1>2, <1>3, <1>5 DEF Range
  <1>7. Range(q) \subseteq Range(p \o q)
    BY <1>2, <1>4, <1>5 DEF Range
  <1> QED
    BY <1>6, <1>7 DEF Adds, NotInserted, p, q

\* cancelInLoop, for a timer that waits, runs, is queued, or is long gone.
LEMMA CancelKeeps ==
    ASSUME LoopInv, NEW id \in Id, id[2] <= numCreated, cancelInLoop(id),
           canceled' = IF id \in NotInserted THEN canceled ELSE canceled \cup {id},
           UNCHANGED <<numCreated, timerfd, now, expired, pc>>
    PROVE  /\ heap' \in [Addr -> Timer]
           /\ \A b \in Addr : heap'[b].sequence <= numCreated
                              /\ (heap'[b].sequence = 0 => heap'[b] = Freed)
           /\ timers_' \subseteq Nat \X Addr /\ IsFiniteSet(timers_')
           /\ activeTimers_' \subseteq Id
           /\ canceled' \subseteq Id /\ \A i \in canceled' : i[2] <= numCreated
           /\ \A f \in Adds(functors) \cup Adds(pendingFunctors_) : OnlyQueued(f.arg)'
           /\ Waiting' /\ Running' /\ Armed'
  <1> USE DEF LoopInv
  <1>1. heap \in [Addr -> Timer] /\ timers_ \subseteq Nat \X Addr /\ IsFiniteSet(timers_)
        /\ activeTimers_ \subseteq Id /\ id[1] \in Addr
        /\ canceled \subseteq Id /\ numCreated \in Nat
    BY DEF StateOK, Id
  <1>2. canceled' \subseteq canceled \cup {id}
    OBVIOUS
  <1>3. canceled' \subseteq Id /\ \A i \in canceled' : i[2] <= numCreated
    BY <1>1, <1>2 DEF IdsKnown
  <1>4. \A f \in Adds(functors) \cup Adds(pendingFunctors_) :
            OnlyQueued(f.arg) /\ f.arg \in NotInserted
    BY NotInsertedFacts DEF Queued
  <1>5. CASE id \in activeTimers_
    <2> DEFINE a == id[1]
               entry == <<heap[a].expiration, a>>
    <2>1. /\ timers_' = timers_ \ {entry}
          /\ heap' = [heap EXCEPT ![a] = Freed]
          /\ activeTimers_' = activeTimers_ \ {id}
          /\ cancelingTimers_' = cancelingTimers_
      BY <1>5 DEF cancelInLoop
    <2>2. entry = Entry(a) /\ entry \in timers_ /\ id = IdAt(a)
          /\ entry[2] = a /\ a \in Addr
      BY <1>1, <1>5 DEF Entry, Waiting
    <2> HIDE DEF entry, a
    <2>3. Freed \in Timer /\ Freed.sequence = 0
      BY DEF Freed, Timer
    <2>4. heap' \in [Addr -> Timer] /\ heap'[a] = Freed
          /\ \A b \in Addr : b # a => heap'[b] = heap[b]
      BY <1>1, <2>1, <2>2, <2>3
    <2>5. \A b \in Addr : heap'[b].sequence <= numCreated
                          /\ (heap'[b].sequence = 0 => heap'[b] = Freed)
      BY <1>1, <2>3, <2>4, SMTT(40) DEF StateOK
    <2>6. IsFiniteSet(timers_')
      BY <1>1, <2>1, FS_RemoveElement
    <2>7. \A e \in timers_' : e \in timers_ /\ e[2] \in Addr /\ e[2] # a
      <3>1. \A e \in timers_ : e[2] = a => e = entry
        BY <2>2 DEF Waiting
      <3> QED
        BY <1>1, <2>1, <3>1
    <2>8. \A i \in activeTimers_' : i \in activeTimers_ /\ i[1] \in Addr /\ i[1] # a
      <3>1. \A i \in activeTimers_ : i[1] = a => i = id
        BY <2>2 DEF Waiting
      <3> QED
        BY <1>1, <2>1, <3>1 DEF Id
    <2>9. \A b \in Addr : b # a => Entry(b)' = Entry(b) /\ IdAt(b)' = IdAt(b)
      BY <2>4 DEF Entry, IdAt
    <2>10. Waiting'
      <3>1. \A e \in timers_' : /\ heap'[e[2]].sequence # 0 /\ e = Entry(e[2])'
                                /\ IdAt(e[2])' \in activeTimers_'
        <4>1. SUFFICES ASSUME NEW e \in timers_'
                       PROVE  /\ heap'[e[2]].sequence # 0 /\ e = Entry(e[2])'
                              /\ IdAt(e[2])' \in activeTimers_'
          OBVIOUS
        <4>2. e \in timers_ /\ e[2] \in Addr /\ e[2] # a
          BY <2>7
        <4>3. heap'[e[2]].sequence # 0 /\ e = Entry(e[2])' /\ IdAt(e[2]) \in activeTimers_
          BY <2>4, <2>9, <4>2 DEF Waiting
        <4>4. IdAt(e[2]) # id
          BY <2>2, <4>2 DEF IdAt
        <4> QED
          BY <2>1, <2>9, <4>2, <4>3, <4>4
      <3>2. \A i \in activeTimers_' : i = IdAt(i[1])' /\ Entry(i[1])' \in timers_'
        <4>1. SUFFICES ASSUME NEW i \in activeTimers_'
                       PROVE  i = IdAt(i[1])' /\ Entry(i[1])' \in timers_'
          OBVIOUS
        <4>2. i \in activeTimers_ /\ i[1] \in Addr /\ i[1] # a
          BY <2>8
        <4>3. i = IdAt(i[1])' /\ Entry(i[1])' = Entry(i[1]) /\ Entry(i[1]) \in timers_
          BY <2>9, <4>2 DEF Waiting
        <4>4. Entry(i[1]) # entry
          BY <2>2, <4>2 DEF Entry
        <4> QED
          BY <2>1, <4>3, <4>4
      <3>3. canceled' \cap activeTimers_' = {}
        BY <1>2, <2>1 DEF Waiting
      <3> QED
        BY <3>1, <3>2, <3>3 DEF Waiting
    <2>11. Running'
      <3>1. SUFFICES ASSUME NEW i \in DOMAIN expired
                     PROVE  LET b == expired[i][2] IN
                            /\ heap'[b].sequence # 0 /\ Entry(b)' = expired[i]
                            /\ \A e \in timers_' : e[2] # b
                            /\ IdAt(b)' \in canceled' => IdAt(b)' \in cancelingTimers_'
        BY DEF Running
      <3>0. PICK b : b = expired[i][2]
        OBVIOUS
      <3>2. b \in Addr
        BY <3>0 DEF StateOK
      <3>3. /\ heap[b].sequence # 0 /\ Entry(b) = expired[i]
            /\ \A e \in timers_ : e[2] # b
            /\ IdAt(b) \in canceled => IdAt(b) \in cancelingTimers_
        BY <3>0 DEF Running
      <3>4. b # a
        BY <2>2, <3>3
      <3>5. IdAt(b) # id
        BY <2>2, <3>4 DEF IdAt
      <3>6. /\ heap'[b].sequence # 0 /\ Entry(b)' = expired[i]
            /\ \A e \in timers_' : e[2] # b
        BY <2>4, <2>7, <2>9, <3>2, <3>3, <3>4
      <3>7. IdAt(b)' \in canceled' => IdAt(b)' \in cancelingTimers_'
        BY <1>2, <2>1, <2>9, <3>2, <3>3, <3>4, <3>5
      <3> QED
        BY <3>0, <3>6, <3>7
    <2>12. ASSUME NEW f \in Adds(functors) \cup Adds(pendingFunctors_)
           PROVE  OnlyQueued(f.arg)'
      <3>1. OnlyQueued(f.arg)
        BY <1>4
      <3>2. f.arg[1] # a /\ f.arg # id
        BY <2>2, <3>1 DEF OnlyQueued, a
      <3>3. heap'[f.arg[1]] = heap[f.arg[1]]
        BY <1>1, <2>1, <3>2
      <3>4. f.arg \notin canceled'
        BY <1>2, <3>1, <3>2 DEF OnlyQueued
      <3> QED
        BY <2>7, <3>1, <3>3, <3>4 DEF OnlyQueued
    <2>13. Armed'
      BY <2>7 DEF Armed
    <2>14. timers_' \subseteq Nat \X Addr /\ activeTimers_' \subseteq Id
      BY <1>1, <2>1
    <2> QED
      BY <1>3, <2>4, <2>5, <2>6, <2>10, <2>11, <2>12, <2>13, <2>14
  <1>6. CASE id \notin activeTimers_
    <2>1. /\ UNCHANGED <<timers_, heap, activeTimers_>>
          /\ cancelingTimers_' = IF callingExpiredTimers_
                                 THEN cancelingTimers_ \cup {id}
                                 ELSE cancelingTimers_
      BY <1>6 DEF cancelInLoop
    <2>2. \A b : Entry(b)' = Entry(b) /\ IdAt(b)' = IdAt(b)
      BY <2>1 DEF Entry, IdAt
    <2>3. Waiting'
      BY <1>2, <1>6, <2>1, <2>2 DEF Waiting
    <2>4. expired # <<>> => callingExpiredTimers_
      BY DEF Phases
    <2>5. \A i \in DOMAIN expired : cancelingTimers_' = cancelingTimers_ \cup {id}
      BY <2>1, <2>4 DEF StateOK
    <2>6. Running'
      <3>1. SUFFICES ASSUME NEW i \in DOMAIN expired
                     PROVE  LET b == expired[i][2] IN
                            /\ heap'[b].sequence # 0 /\ Entry(b)' = expired[i]
                            /\ \A e \in timers_' : e[2] # b
                            /\ IdAt(b)' \in canceled' => IdAt(b)' \in cancelingTimers_'
        BY DEF Running
      <3> QED
        BY <1>2, <2>1, <2>2, <2>5 DEF Running
    <2>7. ASSUME NEW f \in Adds(functors) \cup Adds(pendingFunctors_)
          PROVE  OnlyQueued(f.arg)'
      <3>1. OnlyQueued(f.arg) /\ f.arg \in NotInserted
        BY <1>4
      <3>2. f.arg \notin canceled'
        BY <3>1 DEF OnlyQueued
      <3> QED
        BY <2>1, <3>1, <3>2 DEF OnlyQueued
    <2>8. Armed'
      BY <2>1 DEF Armed
    <2>9. \A b \in Addr : heap'[b].sequence <= numCreated
                          /\ (heap'[b].sequence = 0 => heap'[b] = Freed)
      BY <2>1 DEF StateOK
    <2> QED
      BY <1>1, <1>3, <2>1, <2>3, <2>6, <2>7, <2>8, <2>9
  <1> QED
    BY <1>5, <1>6

-----------------------------------------------------------------------------
(* Callbacks and functors *)

\* A callback before loop() counts what it queues, one of the loop does not.
CallbackAt ==
    \/ pc \in {"timers", "functors"} /\ queuedEarly' = queuedEarly
    \/ pc = "created" /\ queuedEarly' = Len(pendingFunctors_')

\* Only a callback of the loop leaves new work.
LEMMA EarlyFacts ==
    ASSUME queuedEarly \in Nat, pendingFunctors_' \in Seq(Functor), CallbackAt
    PROVE  /\ queuedEarly' \in Nat
           /\ NewWork' => queuedEarly' = queuedEarly /\ pc \in {"timers", "functors"}
  <1>1. Len(pendingFunctors_') \in Nat
    OBVIOUS
  <1>2. CASE pc = "created" /\ queuedEarly' = Len(pendingFunctors_')
    BY <1>1, <1>2 DEF NewWork
  <1> QED
    BY <1>1, <1>2 DEF CallbackAt

\* What the callbacks leave alone, and the functor that was run.
CallbackFrame ==
    /\ UNCHANGED <<now, callingExpiredTimers_, expired, readTime, pc, looping_,
                   activeChannels_, callingPendingFunctors_, tpc>>
    /\ CallbackAt
    /\ functors' = functors \/ (functors # <<>> /\ functors' = Tail(functors))

\* What is left of the functors.
LEMMA PopFacts ==
    ASSUME LoopInv, CallbackFrame
    PROVE  /\ functors' \in Seq(Functor)
           /\ Range(functors') \subseteq Range(functors)
           /\ Adds(functors') \subseteq Adds(functors) /\ Once(functors')
           /\ Phases'
  <1> USE DEF LoopInv
  <1>1. functors \in Seq(Functor) /\ Once(functors)
    BY DEF StateOK, Queued
  <1>2. CASE functors' = functors
    BY <1>1, <1>2 DEF Phases, CallbackFrame
  <1>3. CASE functors # <<>> /\ functors' = Tail(functors)
    <2>1. Tail(functors) \in Seq(Functor)
      BY <1>1, <1>3
    <2>2. Range(Tail(functors)) \subseteq Range(functors)
      BY <1>1, <1>3, RangeFacts
    <2>3. Adds(Tail(functors)) \subseteq Adds(functors) /\ Once(Tail(functors))
      BY <1>1, <1>3, AddsFacts
    <2>4. Phases'
      BY <1>3 DEF Phases, CallbackFrame
    <2> QED
      BY <1>3, <2>1, <2>2, <2>3, <2>4
  <1> QED
    BY <1>2, <1>3 DEF CallbackFrame

\* A callback that does nothing, queues a functor or quits the loop.
LEMMA PlainCodeKeeps ==
    ASSUME LoopInv, CallbackFrame, UserNothing \/ UserQueues \/ UserQuits
    PROVE  LoopInv'
  <1> USE DEF LoopInv
  <1>0. /\ UNCHANGED <<heap, numCreated, timers_, activeTimers_,
                       cancelingTimers_, timerfd, issued, canceled>>
        /\ UNCHANGED <<now, callingExpiredTimers_, expired, readTime, pc, looping_,
                       activeChannels_, callingPendingFunctors_, tpc>>
        /\ CallbackAt
    BY DEF UserNothing, UserQueues, UserQuits, CallbackFrame
  <1>1. Plain \in Functor /\ Plain.op = "user"
    BY DEF Plain, Functor
  <1>2. pendingFunctors_ \in Seq(Functor) /\ Once(pendingFunctors_)
    BY DEF StateOK, Queued
  <1>3. /\ pendingFunctors_' \in Seq(Functor)
        /\ Range(pendingFunctors_') \subseteq Range(pendingFunctors_) \cup {Plain}
        /\ Adds(pendingFunctors_') = Adds(pendingFunctors_)
        /\ Once(pendingFunctors_')
    <2>1. CASE pendingFunctors_' = pendingFunctors_
      BY <1>2, <2>1
    <2>2. CASE pendingFunctors_' = Append(pendingFunctors_, Plain)
      <3>1. Append(pendingFunctors_, Plain) \in Seq(Functor)
        BY <1>1, <1>2
      <3>2. Range(Append(pendingFunctors_, Plain)) = Range(pendingFunctors_) \cup {Plain}
        BY <1>1, <1>2, RangeFacts
      <3>3. Adds(Append(pendingFunctors_, Plain)) = Adds(pendingFunctors_)
            /\ Once(Append(pendingFunctors_, Plain))
        BY <1>1, <1>2, AddsFacts
      <3> QED
        BY <2>2, <3>1, <3>2, <3>3
    <2> QED
      BY <2>1, <2>2 DEF UserNothing, UserQueues, UserQuits
  <1>4. quit_' \in BOOLEAN /\ quitCalled' \in BOOLEAN
    BY DEF UserNothing, UserQueues, UserQuits, StateOK
  <1>5. wakeupFd' = (wakeupFd \/ (pendingFunctors_' # pendingFunctors_
                                  /\ callingPendingFunctors_))
    <2>1. CASE UserNothing \/ UserQuits
      BY <2>1 DEF UserNothing, UserQuits, StateOK
    <2>2. CASE UserQueues
      <3>1. Append(pendingFunctors_, Plain) # pendingFunctors_
        <4>1. Len(Append(pendingFunctors_, Plain)) = Len(pendingFunctors_) + 1
              /\ Len(pendingFunctors_) \in Nat
          BY <1>1, <1>2
        <4> QED
          BY <4>1
      <3> QED
        BY <2>2, <3>1 DEF UserQueues, WakesItself
    <2> QED
      BY <2>1, <2>2
  <1>6. wakeupFd' \in BOOLEAN
    BY <1>5
  <1>7. calls' \in 0 .. MaxCalls
    BY LoopAssumption DEF UserNothing, UserQueues, UserQuits, StateOK
  <1>8. StateOK'
    BY <1>0, <1>3, <1>4, <1>6, <1>7, EarlyFacts, PopFacts DEF StateOK
  <1>9. Wakes'
    <2>1. NewWork' => queuedEarly' = queuedEarly /\ pc \in {"timers", "functors"}
      BY <1>0, <1>3, EarlyFacts DEF StateOK
    <2>2. pc' \notin {"poll", "events", "exited"}
      BY <1>0 DEF CallbackAt
    <2>3. pc = "functors" /\ NewWork' => Woken'
      BY <1>0, <1>5, <2>1 DEF Wakes, Woken, NewWork, Phases
    <2> QED
      BY <1>0, <2>1, <2>2, <2>3 DEF Wakes
  <1>10. IdsKnown'
    <2>1. \A f \in Range(functors') \cup Range(pendingFunctors_') :
                f.op # "user" => f.arg[2] <= numCreated'
      BY <1>0, <1>1, <1>3, PopFacts DEF IdsKnown
    <2> QED
      BY <1>0, <2>1 DEF IdsKnown
  <1>11. Waiting' /\ Running'
    BY <1>0, TimersKept
  <1>12. Queued'
    <2>1. \A f \in Adds(functors') \cup Adds(pendingFunctors_') : OnlyQueued(f.arg)'
      BY <1>0, <1>3, PopFacts, TimersKept DEF Queued
    <2> QED
      BY <1>3, <2>1, PopFacts DEF Queued
  <1>13. Armed'
    BY <1>0 DEF Armed
  <1> QED
    BY <1>8, <1>9, <1>10, <1>11, <1>12, <1>13, PopFacts

\* A callback that adds a timer.
LEMMA UserAddsKeeps ==
    ASSUME LoopInv, CallbackFrame, UserAddsTimer
    PROVE  LoopInv'
  <1> USE DEF LoopInv
  <1>0. PICK a \in Addr, s \in Schedules :
            /\ calls < MaxCalls /\ calls' = calls + 1
            /\ NewTimer(a, s)
            /\ addTimerInLoop(a, heap'[a])
            /\ issued' = issued \cup {<<a, numCreated + 1>>}
            /\ UNCHANGED <<cancelingTimers_, quit_, wakeupFd, pendingFunctors_,
                           canceled, quitCalled>>
    BY DEF UserAddsTimer
  <1>1. /\ UNCHANGED <<now, callingExpiredTimers_, expired, readTime, pc, looping_,
                       activeChannels_, callingPendingFunctors_, tpc>>
        /\ CallbackAt
    BY DEF CallbackFrame
  <1>2. /\ heap' \in [Addr -> Timer] /\ numCreated' \in 0 .. MaxTimers
        /\ numCreated' = numCreated + 1 /\ numCreated \in Nat
        /\ \A b \in Addr : heap'[b].sequence <= numCreated'
                           /\ (heap'[b].sequence = 0 => heap'[b] = Freed)
        /\ \A b \in Addr : b # a => heap'[b] = heap[b]
        /\ heap'[a].sequence = numCreated + 1
        /\ \A e \in timers_ : e[2] # a
        /\ \A i \in DOMAIN expired : expired[i][2] # a
        /\ \A f \in Adds(functors) \cup Adds(pendingFunctors_) : f.arg[1] # a
        /\ <<a, numCreated + 1>> \in Id /\ <<a, numCreated + 1>> \notin canceled
    BY <1>0, NewTimerFacts
  <1>3. IdAt(a)' = <<a, numCreated + 1>> /\ heap'[a].sequence # 0
    BY <1>2 DEF IdAt
  <1>4. /\ timers_' \subseteq Nat \X Addr /\ IsFiniteSet(timers_')
        /\ activeTimers_' \subseteq Id /\ timerfd' \in Nat
        /\ Waiting' /\ Armed'
        /\ \A e \in timers_' : e[2] = a \/ e \in timers_
    BY <1>0, <1>1, <1>2, <1>3, InsertKeeps
  <1>5. calls' \in 0 .. MaxCalls /\ issued' \subseteq Id
    <2>1. calls \in 0 .. MaxCalls /\ issued \subseteq Id
      BY <1>0 DEF StateOK, LoopInv
    <2>2. calls' = calls + 1 /\ calls < MaxCalls
          /\ issued' = issued \cup {<<a, numCreated + 1>>}
      BY <1>0
    <2>3. calls' \in 0 .. MaxCalls
      BY <2>1, <2>2, LoopAssumption
    <2> QED
      BY <1>2, <2>1, <2>2, <2>3
  <1>6. StateOK'
    BY <1>0, <1>1, <1>2, <1>4, <1>5, EarlyFacts, PopFacts DEF StateOK
  <1>7. Wakes'
    BY <1>0, <1>1, EarlyFacts DEF StateOK, Wakes, Woken, NewWork, CallbackAt
  <1>8. IdsKnown'
    <2>1. \A n \in Nat : n <= numCreated => n <= numCreated'
      BY <1>2
    <2>2. \A id \in Id : id[2] \in Nat
      BY DEF Id
    <2>3. \A f \in Functor : f.op # "user" => f.arg \in Id
      BY DEF Functor
    <2>4. Range(functors) \cup Range(pendingFunctors_) \subseteq Functor
      BY DEF StateOK, Range
    <2>5. \A f \in Range(functors') \cup Range(pendingFunctors_') :
                f.op # "user" => f.arg[2] <= numCreated'
      BY <1>0, <2>1, <2>2, <2>3, <2>4, PopFacts DEF IdsKnown
    <2>6. \A p \in Place : p.arg # <<>> => p.arg \in Id
      BY DEF Place
    <2>7. \A t \in Threads : tpc'[t].arg # <<>> => tpc'[t].arg[2] <= numCreated'
      BY <1>1, <2>1, <2>2, <2>6 DEF IdsKnown, StateOK
    <2>8. \A id \in issued' \cup canceled' : id[2] <= numCreated'
      BY <1>0, <1>2, <2>1, <2>2 DEF IdsKnown, StateOK
    <2> QED
      BY <2>5, <2>7, <2>8 DEF IdsKnown
  <1>9. ASSUME NEW f \in Adds(functors) \cup Adds(pendingFunctors_)
        PROVE  OnlyQueued(f.arg)'
    <2>1. OnlyQueued(f.arg) /\ f.arg[1] # a
      BY <1>2 DEF Queued
    <2>2. heap'[f.arg[1]] = heap[f.arg[1]]
      BY <1>0, <2>1 DEF NewTimer
    <2> QED
      BY <1>0, <1>1, <1>4, <2>1, <2>2 DEF OnlyQueued
  <1>10. Queued'
    BY <1>0, <1>9, PopFacts DEF Queued
  <1>11. Running'
    <2>1. SUFFICES ASSUME NEW i \in DOMAIN expired
                   PROVE  LET b == expired[i][2] IN
                          /\ heap'[b].sequence # 0 /\ Entry(b)' = expired[i]
                          /\ \A e \in timers_' : e[2] # b
                          /\ IdAt(b)' \in canceled' => IdAt(b)' \in cancelingTimers_'
      BY <1>1 DEF Running
    <2>2. PICK b : b = expired[i][2]
      OBVIOUS
    <2>3. b \in Addr /\ b # a /\ heap'[b] = heap[b]
      BY <1>2, <2>2 DEF StateOK
    <2>4. Entry(b)' = Entry(b) /\ IdAt(b)' = IdAt(b)
      BY <2>3 DEF Entry, IdAt
    <2>5. /\ heap[b].sequence # 0 /\ Entry(b) = expired[i]
          /\ \A e \in timers_ : e[2] # b
          /\ IdAt(b) \in canceled => IdAt(b) \in cancelingTimers_
      BY <2>2 DEF Running
    <2>6. /\ heap'[b].sequence # 0 /\ Entry(b)' = expired[i]
          /\ \A e \in timers_' : e[2] # b
          /\ IdAt(b)' \in canceled' => IdAt(b)' \in cancelingTimers_'
      BY <1>0, <1>4, <2>3, <2>4, <2>5
    <2> QED
      BY <1>1, <2>2, <2>6
  <1> QED
    BY <1>4, <1>6, <1>7, <1>8, <1>10, <1>11, PopFacts

\* A callback or functor that cancels a timer.
LEMMA CancelCallKeeps ==
    ASSUME LoopInv, CallbackFrame, NEW id \in Id, id[2] <= numCreated,
           cancelInLoop(id),
           canceled' = IF id \in NotInserted THEN canceled ELSE canceled \cup {id},
           calls' \in 0 .. MaxCalls,
           UNCHANGED <<numCreated, timerfd, quit_, wakeupFd, pendingFunctors_,
                       issued, quitCalled>>
    PROVE  LoopInv'
  <1> USE DEF LoopInv
  <1>1. /\ UNCHANGED <<now, callingExpiredTimers_, expired, readTime, pc, looping_,
                       activeChannels_, callingPendingFunctors_, tpc>>
        /\ CallbackAt
    BY DEF CallbackFrame
  <1>2. /\ heap' \in [Addr -> Timer]
        /\ \A b \in Addr : heap'[b].sequence <= numCreated
                           /\ (heap'[b].sequence = 0 => heap'[b] = Freed)
        /\ timers_' \subseteq Nat \X Addr /\ IsFiniteSet(timers_')
        /\ activeTimers_' \subseteq Id
        /\ canceled' \subseteq Id /\ \A i \in canceled' : i[2] <= numCreated
        /\ \A f \in Adds(functors) \cup Adds(pendingFunctors_) : OnlyQueued(f.arg)'
        /\ Waiting' /\ Running' /\ Armed'
    BY <1>1, CancelKeeps
  <1>3. StateOK'
    BY <1>1, <1>2, EarlyFacts, PopFacts DEF StateOK
  <1>4. Wakes'
    BY <1>1, EarlyFacts DEF StateOK, Wakes, Woken, NewWork, CallbackAt
  <1>5. IdsKnown'
    <2>1. \A f \in Range(functors') \cup Range(pendingFunctors_') :
                f.op # "user" => f.arg[2] <= numCreated'
      BY PopFacts DEF IdsKnown
    <2> QED
      BY <1>1, <1>2, <2>1 DEF IdsKnown
  <1>6. Queued'
    BY <1>2, PopFacts DEF Queued
  <1> QED
    BY <1>2, <1>3, <1>4, <1>5, <1>6, PopFacts

\* Whatever user code calls.
LEMMA UserCodeKeeps ==
    ASSUME LoopInv, CallbackFrame, UserCode
    PROVE  LoopInv'
  <1>1. CASE UserNothing \/ UserQueues \/ UserQuits
    BY <1>1, PlainCodeKeeps
  <1>2. CASE UserAddsTimer
    BY <1>2, UserAddsKeeps
  <1>3. CASE UserCancels
    <2>1. PICK id \in issued :
            /\ calls < MaxCalls /\ calls' = calls + 1
            /\ cancelInLoop(id)
            /\ canceled' = IF id \in NotInserted THEN canceled
                           ELSE canceled \cup {id}
            /\ UNCHANGED <<numCreated, timerfd, quit_, wakeupFd,
                           pendingFunctors_, issued, quitCalled>>
      BY <1>3 DEF UserCancels
    <2>2. id \in Id /\ id[2] <= numCreated
      BY DEF LoopInv, StateOK, IdsKnown
    <2>3. calls' \in 0 .. MaxCalls
      BY <2>1, LoopAssumption DEF LoopInv, StateOK
    <2> QED
      BY <2>1, <2>2, <2>3, CancelCallKeeps
  <1> QED
    BY <1>1, <1>2, <1>3 DEF UserCode

\* A callback of a timer.
LEMMA RunTimerKeeps ==
    ASSUME LoopInv, runTimer
    PROVE  LoopInv'
  <1>1. CallbackFrame /\ UserCode
    BY DEF runTimer, CallbackFrame, CallbackAt
  <1> QED
    BY <1>1, UserCodeKeeps

\* A call of EventLoopThread's callback_.
LEMMA InitCallbackKeeps ==
    ASSUME LoopInv, initCallback
    PROVE  LoopInv'
  <1>1. CallbackFrame /\ UserCode
    BY DEF initCallback, CallbackFrame, CallbackAt
  <1> QED
    BY <1>1, UserCodeKeeps

\* A functor: user code, addTimerInLoop or cancelInLoop.
LEMMA RunFunctorKeeps ==
    ASSUME LoopInv, runFunctor
    PROVE  LoopInv'
  <1> USE DEF LoopInv
  <1> DEFINE f == Head(functors)
  <1>1. CallbackFrame /\ functors # <<>> /\ functors' = Tail(functors)
    BY DEF runFunctor, CallbackFrame, CallbackAt
  <1>2. functors \in Seq(Functor)
    BY DEF StateOK
  <1>3. f \in Functor /\ f \in Range(functors)
    <2>1. Range(functors) = Range(Tail(functors)) \cup {f}
      BY <1>1, <1>2, RangeFacts
    <2> QED
      BY <1>1, <1>2, <2>1
  <1>4. CASE f.op = "user" /\ UserCode
    BY <1>1, <1>4, UserCodeKeeps
  <1>5. CASE /\ f.op = "cancel"
             /\ cancelInLoop(f.arg)
             /\ canceled' = IF f.arg \in NotInserted THEN canceled
                            ELSE canceled \cup {f.arg}
             /\ UNCHANGED <<numCreated, timerfd, quit_, wakeupFd,
                            pendingFunctors_, calls, issued, quitCalled>>
    <2>1. PICK id : id = f.arg
      OBVIOUS
    <2>2. id \in Id
      BY <1>3, <1>5, <2>1 DEF Functor
    <2>3. id[2] <= numCreated
      BY <1>3, <1>5, <2>1 DEF IdsKnown
    <2>4. calls' \in 0 .. MaxCalls
      BY <1>5 DEF StateOK
    <2> HIDE DEF f
    <2> QED
      BY <1>1, <1>5, <2>1, <2>2, <2>3, <2>4, CancelCallKeeps
  <1>6. CASE /\ f.op = "add"
             /\ addTimerInLoop(f.arg[1], heap[f.arg[1]])
             /\ UNCHANGED <<heap, numCreated, cancelingTimers_, quit_, wakeupFd,
                            pendingFunctors_, calls, issued, canceled,
                            quitCalled>>
    <2>0. PICK g : g = f
      OBVIOUS
    <2>1. PICK a : a = g.arg[1]
      OBVIOUS
    <2>2. g \in Adds(functors) /\ g \in Functor /\ g.op = "add"
      BY <1>3, <1>6, <2>0 DEF Adds
    <2>3. a \in Addr /\ g.arg = <<a, g.arg[2]>> /\ g.arg \in Id
      <3>1. g.arg \in Id
        BY <2>2 DEF Functor
      <3> QED
        BY <2>1, <3>1 DEF Id
    <2>4. OnlyQueued(g.arg)
      BY <2>2 DEF Queued
    <2>5. /\ heap[a].sequence # 0 /\ IdAt(a) = g.arg /\ g.arg \notin canceled
          /\ \A e \in timers_ : e[2] # a
          /\ \A i \in DOMAIN expired : expired[i][2] # a
      BY <2>1, <2>3, <2>4 DEF OnlyQueued, IdAt
    <2>6. /\ UNCHANGED <<now, callingExpiredTimers_, expired, readTime, pc, looping_,
                         activeChannels_, callingPendingFunctors_, tpc>>
          /\ CallbackAt
      BY <1>1 DEF CallbackFrame
    <2>7. /\ UNCHANGED <<heap, numCreated, cancelingTimers_, quit_, wakeupFd,
                         pendingFunctors_, calls, issued, canceled, quitCalled>>
          /\ addTimerInLoop(a, heap'[a])
      BY <1>6, <2>0, <2>1
    <2>8. IdAt(a)' \notin canceled /\ heap'[a].sequence # 0 /\ heap' \in [Addr -> Timer]
      BY <2>5, <2>7 DEF IdAt, StateOK
    <2>9. /\ timers_' \subseteq Nat \X Addr /\ IsFiniteSet(timers_')
          /\ activeTimers_' \subseteq Id /\ timerfd' \in Nat
          /\ Waiting' /\ Armed'
          /\ \A e \in timers_' : e[2] = a \/ e \in timers_
      BY <2>3, <2>5, <2>6, <2>7, <2>8, InsertKeeps
    <2>10. StateOK'
      BY <2>6, <2>7, <2>9, <1>1, EarlyFacts, PopFacts DEF StateOK
    <2>11. Wakes'
      BY <2>6, <2>7, EarlyFacts DEF StateOK, Wakes, Woken, NewWork, CallbackAt
    <2>12. IdsKnown'
      <3>1. \A h \in Range(functors') \cup Range(pendingFunctors_') :
                h.op # "user" => h.arg[2] <= numCreated'
        BY <1>1, <2>7, PopFacts DEF IdsKnown
      <3> QED
        BY <2>6, <2>7, <3>1 DEF IdsKnown
    <2>13. ASSUME NEW h \in Adds(functors') \cup Adds(pendingFunctors_)
           PROVE  OnlyQueued(h.arg)'
      <3>1. Once(functors) /\ Adds(functors) \cap Adds(pendingFunctors_) = {}
        BY DEF Queued
      <3>2. g \notin Adds(functors')
        BY <1>1, <1>2, <2>0, <2>2, <3>1, AddsFacts
      <3>3. h # g /\ h \in Adds(functors) \cup Adds(pendingFunctors_)
        BY <1>1, <2>2, <3>1, <3>2, PopFacts
      <3>4. OnlyQueued(h.arg)
        BY <3>3 DEF Queued
      <3>5. h.arg[1] # a
        <4>1. SUFFICES ASSUME h.arg[1] = a PROVE FALSE
          OBVIOUS
        <4>2. h \in Functor /\ h.op = "add"
          BY <3>3 DEF Adds, StateOK, Range
        <4>3. h.arg \in Id
          BY <4>2 DEF Functor
        <4>4. h.arg = <<a, h.arg[2]>>
          BY <4>1, <4>3 DEF Id
        <4>5. h.arg = g.arg
          BY <2>1, <2>3, <2>4, <3>4, <4>1, <4>4 DEF OnlyQueued
        <4>6. \A k \in Functor : k = [op |-> k.op, arg |-> k.arg]
          BY DEF Functor
        <4>7. h = g
          BY <2>2, <4>2, <4>5, <4>6
        <4> QED
          BY <3>3, <4>7
      <3> QED
        BY <2>6, <2>7, <2>9, <3>4, <3>5 DEF OnlyQueued
    <2>14. Queued'
      BY <1>1, <2>7, <2>13, PopFacts DEF Queued
    <2>15. Running'
      <3>1. SUFFICES ASSUME NEW i \in DOMAIN expired
                     PROVE  LET b == expired[i][2] IN
                            /\ heap'[b].sequence # 0 /\ Entry(b)' = expired[i]
                            /\ \A e \in timers_' : e[2] # b
                            /\ IdAt(b)' \in canceled' => IdAt(b)' \in cancelingTimers_'
        BY <2>6 DEF Running
      <3> QED
        BY <2>5, <2>6, <2>7, <2>9 DEF Running, Entry, IdAt
    <2> QED
      BY <1>1, <2>9, <2>10, <2>11, <2>12, <2>14, <2>15, PopFacts
  <1> QED
    BY <1>4, <1>5, <1>6 DEF runFunctor

-----------------------------------------------------------------------------
(* addTimer of another thread, and the ends of handleRead *)

\* A new timer is queued with the thread that brings it on the way to wakeup().
LEMMA AddTimerKeeps ==
    ASSUME LoopInv, NEW t \in Threads, NEW a \in Addr, NEW s \in Schedules,
           addTimer(t, a, s)
    PROVE  LoopInv'
  <1> USE DEF LoopInv
  <1> DEFINE id == <<a, numCreated + 1>>
             f == [op |-> "add", arg |-> id]
             next == [at |-> "wakeup", arg |-> id]
  <1>0. NewTimer(a, s) /\ Push(t, f, next)
        /\ UNCHANGED <<now, timers_, activeTimers_, cancelingTimers_,
                       callingExpiredTimers_, expired, readTime, timerfd, issued,
                       canceled>>
    BY DEF addTimer, Add
  <1>1. /\ UNCHANGED <<pc, quit_, looping_, wakeupFd, activeChannels_, functors,
                       callingPendingFunctors_, quitCalled, queuedEarly>>
        /\ pendingFunctors_' = Append(pendingFunctors_, f)
        /\ tpc' = [tpc EXCEPT ![t] = next]
        /\ calls' = calls + 1 /\ calls < MaxCalls
    BY <1>0 DEF Push, HasLoop
  <1>2. /\ heap' \in [Addr -> Timer] /\ numCreated' \in 0 .. MaxTimers
        /\ numCreated' = numCreated + 1 /\ numCreated \in Nat
        /\ \A b \in Addr : heap'[b].sequence <= numCreated'
                           /\ (heap'[b].sequence = 0 => heap'[b] = Freed)
        /\ \A b \in Addr : b # a => heap'[b] = heap[b]
        /\ heap'[a].sequence = numCreated + 1
        /\ \A e \in timers_ : e[2] # a
        /\ \A i \in DOMAIN expired : expired[i][2] # a
        /\ \A g \in Adds(functors) \cup Adds(pendingFunctors_) : g.arg[1] # a
        /\ id \in Id /\ id \notin canceled
    BY <1>0, NewTimerFacts
  <1>3. f \in Functor /\ f.op = "add" /\ f.arg = id /\ id[1] = a /\ id[2] = numCreated + 1
    BY <1>2 DEF Functor
  <1>4. next \in Place /\ next.at = "wakeup" /\ next.arg = id
    BY <1>2 DEF Place
  <1>5. PICK g : g = f
    OBVIOUS
  <1>6. PICK n : n = next
    OBVIOUS
  <1>7. /\ g \in Functor /\ g.op = "add" /\ g.arg[1] = a /\ g.arg[2] = numCreated + 1
        /\ g.arg \notin canceled
        /\ pendingFunctors_' = Append(pendingFunctors_, g)
    BY <1>1, <1>2, <1>3, <1>5
  <1>8. /\ n \in Place /\ n.at = "wakeup" /\ n.arg[2] = numCreated + 1
        /\ tpc' = [tpc EXCEPT ![t] = n]
    BY <1>1, <1>3, <1>4, <1>6
  <1> HIDE DEF f, next, id
  <1>9. pendingFunctors_ \in Seq(Functor) /\ pendingFunctors_' \in Seq(Functor)
    BY <1>7 DEF StateOK
  <1>10. calls' \in 0 .. MaxCalls
    BY <1>1, LoopAssumption DEF StateOK
  <1>11. tpc' \in [Threads -> Place] /\ tpc'[t] = n
        /\ \A u \in Threads : u # t => tpc'[u] = tpc[u]
    BY <1>8 DEF StateOK
  <1>12. StateOK'
    BY <1>0, <1>1, <1>2, <1>8, <1>9, <1>10, <1>11 DEF StateOK
  <1>13. Phases'
    BY <1>0, <1>1 DEF Phases
  <1>14. Wakes'
    <2>1. Woken'
      BY <1>8, <1>11 DEF Woken
    <2> QED
      BY <2>1 DEF Wakes
  <1>15. Range(pendingFunctors_') = Range(pendingFunctors_) \cup {g}
    BY <1>7, <1>9, RangeFacts
  <1>16. IdsKnown'
    <2>1. \A k \in Nat : k <= numCreated => k <= numCreated'
      BY <1>2
    <2>2. \A i \in Id : i[2] \in Nat
      BY DEF Id
    <2>3. \A h \in Functor : h.op # "user" => h.arg \in Id
      BY DEF Functor
    <2>4. Range(functors) \cup Range(pendingFunctors_) \subseteq Functor
      BY DEF StateOK, Range
    <2>5. \A h \in Range(functors') \cup Range(pendingFunctors_) :
                h.op # "user" => h.arg[2] <= numCreated'
      BY <1>1, <2>1, <2>2, <2>3, <2>4 DEF IdsKnown
    <2>6. \A h \in Range(functors') \cup Range(pendingFunctors_') :
                h.op # "user" => h.arg[2] <= numCreated'
      BY <1>2, <1>7, <1>15, <2>5
    <2>7. \A p \in Place : p.arg # <<>> => p.arg \in Id
      BY DEF Place
    <2>8. \A u \in Threads : tpc[u].arg # <<>> => tpc[u].arg[2] <= numCreated'
      BY <2>1, <2>2, <2>7 DEF IdsKnown, StateOK
    <2>9. \A u \in Threads : tpc'[u].arg # <<>> => tpc'[u].arg[2] <= numCreated'
      BY <1>2, <1>8, <1>11, <2>8
    <2>10. \A i \in issued' \cup canceled' : i[2] <= numCreated'
      BY <1>0, <2>1, <2>2 DEF IdsKnown, StateOK
    <2> QED
      BY <2>6, <2>9, <2>10 DEF IdsKnown
  <1>17. g \notin Adds(functors) \cup Adds(pendingFunctors_)
    BY <1>2, <1>7
  <1>18. Adds(pendingFunctors_') = Adds(pendingFunctors_) \cup {g}
         /\ Once(pendingFunctors_')
    <2>1. Once(pendingFunctors_)
      BY DEF Queued
    <2> QED
      BY <1>7, <1>9, <1>17, <2>1, AddsFacts
  <1>19. ASSUME NEW h \in Adds(functors) \cup Adds(pendingFunctors_)
         PROVE  OnlyQueued(h.arg)'
    <2>1. OnlyQueued(h.arg) /\ h.arg[1] # a
      BY <1>2 DEF Queued
    <2>2. heap'[h.arg[1]] = heap[h.arg[1]]
      BY <1>0, <2>1 DEF NewTimer
    <2> QED
      BY <1>0, <2>1, <2>2 DEF OnlyQueued
  <1>20. OnlyQueued(g.arg)'
    BY <1>0, <1>2, <1>7 DEF OnlyQueued
  <1>21. Queued'
    BY <1>1, <1>17, <1>18, <1>19, <1>20 DEF Queued
  <1>22. \A b \in Addr : b # a => Entry(b)' = Entry(b) /\ IdAt(b)' = IdAt(b)
    BY <1>2 DEF Entry, IdAt
  <1>23. Waiting'
    <2>1. \A e \in timers_ : e[2] \in Addr /\ e[2] # a
      BY <1>2 DEF StateOK
    <2>2. \A i \in activeTimers_ : i[1] \in Addr /\ i[1] # a
      BY <1>2 DEF StateOK, Waiting, Entry, Id
    <2>3. \A e \in timers_ : /\ heap'[e[2]].sequence # 0 /\ e = Entry(e[2])'
                             /\ IdAt(e[2])' \in activeTimers_
      BY <1>2, <1>22, <2>1 DEF Waiting
    <2>4. \A i \in activeTimers_ : i = IdAt(i[1])' /\ Entry(i[1])' \in timers_
      BY <1>22, <2>2 DEF Waiting
    <2> QED
      BY <1>0, <2>3, <2>4 DEF Waiting
  <1>24. Running'
    <2>1. \A i \in DOMAIN expired : expired[i][2] \in Addr /\ expired[i][2] # a
      BY <1>2 DEF StateOK
    <2>2. SUFFICES ASSUME NEW i \in DOMAIN expired, NEW b, b = expired[i][2]
                   PROVE  /\ heap'[b].sequence # 0 /\ Entry(b)' = expired[i]
                          /\ \A e \in timers_' : e[2] # b
                          /\ IdAt(b)' \in canceled' => IdAt(b)' \in cancelingTimers_'
      BY <1>0 DEF Running
    <2>3. heap'[b] = heap[b] /\ Entry(b)' = Entry(b) /\ IdAt(b)' = IdAt(b)
      BY <1>2, <1>22, <2>1, <2>2
    <2> QED
      BY <1>0, <2>2, <2>3 DEF Running
  <1>25. Armed'
    BY <1>0, <1>1 DEF Armed
  <1> QED
    BY <1>12, <1>13, <1>14, <1>16, <1>21, <1>23, <1>24, <1>25

\* The vector that getExpired returns holds due entries only.
LEMMA DueFacts ==
    ASSUME StateOK, NEW s \in DueOrders
    PROVE  s \in Seq(Nat \X Addr) /\ \A i \in DOMAIN s : s[i] \in Due
  <1>1. Due \in SUBSET timers_
    BY DEF Due
  <1>2. IsFiniteSet(Due)
    BY <1>1, FS_Subset DEF StateOK
  <1>3. Cardinality(Due) \in Nat
    BY <1>2, FS_CardinalityType
  <1>4. s \in [1 .. Cardinality(Due) -> Due]
    BY DEF DueOrders, SetToSeqs
  <1>5. Due \subseteq Nat \X Addr
    BY <1>1 DEF StateOK
  <1>6. s \in Seq(Due)
    BY <1>3, <1>4
  <1> QED
    BY <1>4, <1>5, <1>6

\* handleRead up to its callbacks.
LEMMA HandleTimersKeeps ==
    ASSUME LoopInv, handleTimers
    PROVE  LoopInv'
  <1> USE DEF LoopInv
  <1>1. /\ UNCHANGED <<now, heap, numCreated>>
        /\ UNCHANGED <<quit_, looping_, wakeupFd, pendingFunctors_, functors,
                       callingPendingFunctors_, tpc, calls, issued, canceled,
                       quitCalled, queuedEarly>>
        /\ timerfd' = 0 /\ expired' \in DueOrders
        /\ timers_' = timers_ \ Due /\ activeTimers_' = activeTimers_ \ DueIds
        /\ callingExpiredTimers_' = TRUE /\ readTime' = now
        /\ pc = "events" /\ pc' = "timers"
    BY DEF handleTimers, handleReadBegin
  <1>2. PICK s \in DueOrders : s = expired'
    BY <1>1
  <1>3. s \in Seq(Nat \X Addr) /\ \A i \in DOMAIN s : s[i] \in Due
    BY DueFacts
  <1>4. callingExpiredTimers_' \in BOOLEAN /\ readTime' \in Nat /\ timerfd' \in Nat
    BY <1>1 DEF StateOK
  <1>5. timers_' \subseteq Nat \X Addr /\ IsFiniteSet(timers_')
    <2>1. IsFiniteSet(timers_) /\ timers_' \in SUBSET timers_
      BY <1>1 DEF StateOK
    <2>2. IsFiniteSet(timers_')
      BY <2>1, FS_Subset
    <2> QED
      BY <2>1, <2>2 DEF StateOK
  <1>6. StateOK'
    BY <1>1, <1>2, <1>3, <1>4, <1>5 DEF StateOK
  <1>7. Phases'
    BY <1>1 DEF Phases
  <1>8. Wakes' /\ IdsKnown' /\ Armed'
    BY <1>1 DEF Wakes, IdsKnown, Armed
  <1>9. \A b : Entry(b)' = Entry(b) /\ IdAt(b)' = IdAt(b)
    BY <1>1 DEF Entry, IdAt
  <1>10. \A i \in DOMAIN s : s[i] \in timers_ /\ s[i] \in Due
    BY <1>3 DEF Due
  <1>11. Queued'
    <2>1. ASSUME NEW f \in Adds(functors) \cup Adds(pendingFunctors_)
          PROVE  OnlyQueued(f.arg)'
      BY <1>1, <1>2, <1>10 DEF Queued, OnlyQueued
    <2> QED
      BY <1>1, <2>1 DEF Queued
  <1>12. Waiting'
    <2>1. \A e \in timers_' : /\ heap'[e[2]].sequence # 0 /\ e = Entry(e[2])'
                              /\ IdAt(e[2])' \in activeTimers_'
      <3>1. SUFFICES ASSUME NEW e \in timers_, e \notin Due
                     PROVE  /\ heap[e[2]].sequence # 0 /\ e = Entry(e[2])
                            /\ IdAt(e[2]) \in activeTimers_ \ DueIds
        BY <1>1, <1>9
      <3>2. ASSUME NEW d \in Due, IdAt(d[2]) = IdAt(e[2]) PROVE FALSE
        <4>1. d[2] = e[2] /\ d \in timers_
          BY <3>2 DEF IdAt, Due
        <4>2. d = e
          BY <4>1 DEF Waiting
        <4> QED
          BY <3>1, <4>2
      <3> QED
        BY <3>2 DEF Waiting, DueIds
    <2>2. \A id \in activeTimers_' : id = IdAt(id[1])' /\ Entry(id[1])' \in timers_'
      <3>1. SUFFICES ASSUME NEW id \in activeTimers_, id \notin DueIds
                     PROVE  id = IdAt(id[1]) /\ Entry(id[1]) \in timers_ \ Due
        BY <1>1, <1>9
      <3>2. id = IdAt(id[1]) /\ Entry(id[1]) \in timers_ /\ Entry(id[1])[2] = id[1]
        BY DEF Waiting, Entry
      <3>3. Entry(id[1]) \in Due => id \in DueIds
        BY <3>2 DEF DueIds
      <3> QED
        BY <3>1, <3>2, <3>3
    <2> QED
      BY <1>1, <2>1, <2>2 DEF Waiting
  <1>13. Running'
    <2>1. SUFFICES ASSUME NEW i \in DOMAIN s, NEW b, b = s[i][2]
                   PROVE  /\ heap[b].sequence # 0 /\ Entry(b) = s[i]
                          /\ \A e \in timers_ \ Due : e[2] # b
                          /\ IdAt(b) \notin canceled
      BY <1>1, <1>2, <1>9 DEF Running
    <2>2. heap[b].sequence # 0 /\ Entry(b) = s[i] /\ IdAt(b) \in activeTimers_
      BY <1>10, <2>1 DEF Waiting
    <2>3. \A e \in timers_ : e[2] = b => e = s[i]
      BY <2>2 DEF Waiting
    <2> QED
      BY <1>10, <2>2, <2>3 DEF Waiting
  <1> QED
    BY <1>6, <1>7, <1>8, <1>11, <1>12, <1>13

\* The end of handleRead: reset.
LEMMA TimersDoneKeeps ==
    ASSUME LoopInv, timersDone
    PROVE  LoopInv'
  <1> USE DEF LoopInv
  <1>0. PICK run : run = {e[2] : e \in Range(expired)}
    OBVIOUS
  <1>1. PICK kept : kept = {a \in run : Kept(a)}
    OBVIOUS
  <1> DEFINE again == {<<restart(heap[a]).expiration, a>> : a \in kept}
             ids == {IdAt(a) : a \in kept}
  <1>2. /\ heap' = [a \in Addr |-> IF a \in kept THEN restart(heap[a])
                                   ELSE IF a \in run THEN Freed
                                   ELSE heap[a]]
        /\ timers_' = timers_ \cup again
        /\ activeTimers_' = activeTimers_ \cup ids
        /\ timerfd' = IF timers_' = {} THEN timerfd
                      ELSE resetTimerfd(Earliest(timers_'))
        /\ callingExpiredTimers_' = FALSE
        /\ expired' = <<>> /\ readTime' = 0
        /\ UNCHANGED <<now, numCreated, cancelingTimers_>>
        /\ pc = "timers" /\ pc' = "events"
        /\ UNCHANGED <<quit_, looping_, wakeupFd, activeChannels_,
                       pendingFunctors_, functors, callingPendingFunctors_, tpc,
                       calls, issued, canceled, quitCalled, queuedEarly>>
    BY <1>0, <1>1 DEF timersDone, reset
  <1>3. /\ heap \in [Addr -> Timer] /\ timers_ \subseteq Nat \X Addr
        /\ IsFiniteSet(timers_) /\ activeTimers_ \subseteq Id
        /\ expired \in Seq(Nat \X Addr) /\ readTime \in Nat /\ numCreated \in Nat
        /\ now \in Nat \ {0} /\ timerfd \in Nat
    BY DEF StateOK
  <1>4. \A a \in run : /\ a \in Addr /\ heap[a].sequence # 0
                       /\ \A e \in timers_ : e[2] # a
                       /\ IdAt(a) \in canceled => IdAt(a) \in cancelingTimers_
    BY <1>0, <1>3 DEF Running, Range
  <1>5. kept \subseteq run /\ \A a \in kept : IdAt(a) \notin canceled
    BY <1>1, <1>4 DEF Kept
  <1>6. \A a \in kept : /\ restart(heap[a]) \in Timer
                        /\ restart(heap[a]).sequence = heap[a].sequence
    <2>1. \A t \in Timer : /\ restart(t) \in Timer
                           /\ restart(t).sequence = t.sequence
      <3>1. SUFFICES ASSUME NEW t \in Timer
                     PROVE  restart(t) \in Timer /\ restart(t).sequence = t.sequence
        OBVIOUS
      <3>2. readTime + t.interval \in Nat
        BY <1>3 DEF Timer
      <3> QED
        BY <3>2 DEF restart, Timer
    <2>2. \A a \in kept : heap[a] \in Timer
      BY <1>3, <1>4, <1>5
    <2> QED
      BY <2>1, <2>2
  <1>7. Freed \in Timer /\ Freed.sequence = 0
    BY DEF Freed, Timer
  <1>8. heap' \in [Addr -> Timer]
    BY <1>2, <1>3, <1>6, <1>7
  <1>9. /\ \A a \in kept : heap'[a] = restart(heap[a])
        /\ \A a \in Addr : a \notin run => heap'[a] = heap[a]
        /\ \A a \in Addr : a \in run /\ a \notin kept => heap'[a] = Freed
    BY <1>2, <1>4, <1>5
  <1>10. \A a \in Addr : heap'[a].sequence <= numCreated'
                         /\ (heap'[a].sequence = 0 => heap'[a] = Freed)
    <2>1. SUFFICES ASSUME NEW a \in Addr
                   PROVE  heap'[a].sequence <= numCreated
                          /\ (heap'[a].sequence = 0 => heap'[a] = Freed)
      BY <1>2
    <2>2. heap[a].sequence <= numCreated /\ (heap[a].sequence = 0 => heap[a] = Freed)
      BY DEF StateOK
    <2>3. CASE a \in kept
      BY <1>4, <1>5, <1>6, <1>9, <2>2, <2>3
    <2>4. CASE a \in run /\ a \notin kept
      BY <1>3, <1>7, <1>9, <2>4
    <2>5. CASE a \notin run
      BY <1>9, <2>2, <2>5
    <2> QED
      BY <2>3, <2>4, <2>5
  <1>11. again \subseteq Nat \X Addr /\ IsFiniteSet(again)
    <2>1. \A a \in kept : restart(heap[a]).expiration \in Nat /\ a \in Addr
      BY <1>4, <1>5, <1>6 DEF Timer
    <2>2. IsFiniteSet(again)
      <3> DEFINE D == {i \in 1 .. Len(expired) : expired[i][2] \in kept}
                 f == [i \in D |-> <<restart(heap[expired[i][2]]).expiration,
                                     expired[i][2]>>]
      <3>1. IsFiniteSet(D)
        <4>1. D \in SUBSET (1 .. Len(expired)) /\ Len(expired) \in Int
          BY <1>3
        <4>2. IsFiniteSet(1 .. Len(expired))
          BY <4>1, FS_Interval
        <4> QED
          BY <4>1, <4>2, FS_Subset
      <3>2. f \in Surjection(D, again)
        <4>1. f \in [D -> again]
          OBVIOUS
        <4>2. \A x \in again : \E i \in D : f[i] = x
          <5>1. SUFFICES ASSUME NEW x \in again
                         PROVE  \E i \in D : f[i] = x
            OBVIOUS
          <5>2. PICK a \in kept : x = <<restart(heap[a]).expiration, a>>
            OBVIOUS
          <5>3. PICK e \in Range(expired) : e[2] = a
            BY <1>0, <1>5
          <5>4. PICK i \in 1 .. Len(expired) : expired[i] = e
            BY <1>3 DEF Range
          <5>5. i \in D /\ expired[i][2] = a
            BY <5>3, <5>4
          <5>6. f[i] = x
            BY <5>2, <5>5
          <5> QED
            BY <5>5, <5>6
        <4> QED
          BY <4>1, <4>2 DEF Surjection
      <3> QED
        BY <3>1, <3>2, FS_Surjection
    <2> QED
      BY <2>1, <2>2
  <1>12. ids \subseteq Id
    BY <1>3, <1>4, <1>5 DEF IdAt, Id, Timer
  <1>13. \A a \in kept : /\ Entry(a)' = <<restart(heap[a]).expiration, a>>
                         /\ IdAt(a)' = IdAt(a)
    BY <1>6, <1>9 DEF Entry, IdAt
  <1>14. \A e \in timers_ : /\ e[2] \in Addr /\ e[2] \notin run
                            /\ heap'[e[2]] = heap[e[2]]
    BY <1>3, <1>4, <1>9
  <1>15. \A e \in again : e[2] \in kept /\ e = <<restart(heap[e[2]]).expiration, e[2]>>
    OBVIOUS
  <1>16. \A i \in ids : i[1] \in kept /\ i = IdAt(i[1])
    BY DEF IdAt
  <1>17. /\ \A a \in kept : <<restart(heap[a]).expiration, a>> \in again
         /\ \A a \in kept : IdAt(a) \in ids
    OBVIOUS
  <1> HIDE DEF again, ids
  <1>18. timers_' \subseteq Nat \X Addr /\ IsFiniteSet(timers_')
    BY <1>2, <1>3, <1>11, FS_Union
  <1>19. timerfd' \in Nat
    BY <1>2, <1>3, <1>18, EarliestFacts, ResetFacts
  <1>20. StateOK'
    <2>1. callingExpiredTimers_' \in BOOLEAN
      BY <1>2
    <2>2. expired' \in Seq(Nat \X Addr) /\ readTime' \in Nat
      BY <1>2
    <2>3. activeTimers_' \subseteq Id
      BY <1>2, <1>3, <1>12
    <2> QED
      BY <1>2, <1>8, <1>10, <1>18, <1>19, <2>1, <2>2, <2>3 DEF StateOK
  <1>21. Phases' /\ Wakes' /\ IdsKnown'
    BY <1>2 DEF Phases, Wakes, IdsKnown
  <1>22. Waiting'
    <2>1. ASSUME NEW e \in timers_'
          PROVE  /\ heap'[e[2]].sequence # 0 /\ e = Entry(e[2])'
                 /\ IdAt(e[2])' \in activeTimers_'
      <3>1. CASE e \in timers_
        <4>1. Entry(e[2])' = Entry(e[2]) /\ IdAt(e[2])' = IdAt(e[2])
          BY <1>14, <3>1 DEF Entry, IdAt
        <4>2. heap[e[2]].sequence # 0 /\ e = Entry(e[2]) /\ IdAt(e[2]) \in activeTimers_
          BY <3>1 DEF Waiting
        <4> QED
          BY <1>2, <1>14, <3>1, <4>1, <4>2
      <3>2. CASE e \in again
        <4>1. e[2] \in kept /\ e = <<restart(heap[e[2]]).expiration, e[2]>>
          BY <1>15, <3>2
        <4>2. heap'[e[2]].sequence # 0
          BY <1>4, <1>5, <1>6, <1>9, <4>1
        <4> QED
          BY <1>2, <1>13, <1>17, <4>1, <4>2
      <3> QED
        BY <1>2, <3>1, <3>2
    <2>2. ASSUME NEW id \in activeTimers_'
          PROVE  id = IdAt(id[1])' /\ Entry(id[1])' \in timers_'
      <3>1. CASE id \in activeTimers_
        <4>1. id = IdAt(id[1]) /\ Entry(id[1]) \in timers_ /\ Entry(id[1])[2] = id[1]
          BY <3>1 DEF Waiting, Entry
        <4>2. heap'[id[1]] = heap[id[1]]
          BY <1>14, <4>1
        <4>3. Entry(id[1])' = Entry(id[1]) /\ IdAt(id[1])' = IdAt(id[1])
          BY <4>2 DEF Entry, IdAt
        <4> QED
          BY <1>2, <4>1, <4>3
      <3>2. CASE id \in ids
        BY <1>2, <1>13, <1>16, <1>17, <3>2
      <3> QED
        BY <1>2, <3>1, <3>2
    <2>3. canceled' \cap activeTimers_' = {}
      BY <1>2, <1>5, <1>16 DEF Waiting
    <2> QED
      BY <2>1, <2>2, <2>3 DEF Waiting
  <1>23. Running'
    BY <1>2 DEF Running
  <1>24. Queued'
    <2>1. ASSUME NEW f \in Adds(functors) \cup Adds(pendingFunctors_)
          PROVE  OnlyQueued(f.arg)'
      <3>1. OnlyQueued(f.arg)
        BY DEF Queued
      <3>2. f.arg[1] \in Addr
        <4>1. f \in Functor /\ f.op = "add"
          BY DEF Adds, StateOK, Range
        <4>2. f.arg \in Id
          BY <4>1 DEF Functor
        <4> QED
          BY <4>2 DEF Id
      <3>3. f.arg[1] \notin run
        BY <1>0, <3>1 DEF OnlyQueued, Range
      <3>4. heap'[f.arg[1]] = heap[f.arg[1]]
        BY <1>9, <3>2, <3>3
      <3>5. \A e \in timers_' : e[2] # f.arg[1]
        BY <1>2, <1>5, <1>15, <3>1, <3>3 DEF OnlyQueued
      <3> QED
        BY <1>2, <3>1, <3>4, <3>5 DEF OnlyQueued
    <2> QED
      BY <1>2, <2>1 DEF Queued
  <1>25. Armed'
    <2>1. SUFFICES ASSUME timers_' # {}
                   PROVE  /\ timerfd' > 0
                          /\ timerfd' <= now + 1 \/ \A e \in timers_' : timerfd' <= e[1]
      BY <1>2 DEF Armed
    <2>2. PICK m : m = Earliest(timers_')
      OBVIOUS
    <2>3. m \in Nat /\ \A e \in timers_' : m <= e[1]
      BY <1>18, <2>1, <2>2, EarliestFacts
    <2>4. timerfd' > 0 /\ (timerfd' <= now + 1 \/ timerfd' <= m)
      BY <1>2, <2>1, <2>2, <2>3, ResetFacts
    <2>5. \A e \in timers_' : e[1] \in Nat
      BY <1>18
    <2> QED
      BY <1>19, <2>3, <2>4, <2>5
  <1> QED
    BY <1>20, <1>21, <1>22, <1>23, <1>24, <1>25

-----------------------------------------------------------------------------
(* The theorems *)

\* A loop that was just constructed satisfies the invariant.
LEMMA LoopInvInit ==
    ASSUME LoopInit PROVE LoopInv
  <1> USE DEF LoopInit, TimerInit
  <1>1. Freed \in Timer /\ Idle \in Place /\ Idle.arg = <<>>
    BY DEF Freed, Timer, Idle, Place
  <1>2. IsFiniteSet({})
    BY FS_EmptySet
  <1>3. <<>> \in Seq(Functor) /\ <<>> \in Seq(Nat \X Addr)
    OBVIOUS
  <1>4. Range(<<>>) = {} /\ Adds(<<>>) = {} /\ Once(<<>>)
    BY DEF Range, Adds, Once
  <1>5. 0 \in 0 .. MaxTimers /\ 0 \in 0 .. MaxCalls
    BY TimerAssumption, LoopAssumption
  <1>6. StateOK
    <2>1. quit_ \in BOOLEAN /\ looping_ \in BOOLEAN /\ wakeupFd \in BOOLEAN
          /\ callingPendingFunctors_ \in BOOLEAN
          /\ callingExpiredTimers_ \in BOOLEAN /\ quitCalled \in BOOLEAN
      OBVIOUS
    <2>2. heap \in [Addr -> Timer] /\ tpc \in [Threads -> Place]
      BY <1>1
    <2>3. \A a \in Addr : heap[a].sequence <= numCreated
                          /\ (heap[a].sequence = 0 => heap[a] = Freed)
      BY DEF Freed
    <2> QED
      BY <1>2, <1>3, <1>5, <2>1, <2>2, <2>3 DEF StateOK
  <1>7. Phases /\ Wakes
    BY DEF Phases, Wakes, NewWork
  <1>8. IdsKnown
    BY <1>1, <1>4 DEF IdsKnown
  <1>9. Queued
    BY <1>4 DEF Queued
  <1>10. Waiting /\ Running /\ Armed
    BY DEF Waiting, Running, Armed
  <1> QED
    BY <1>6, <1>7, <1>8, <1>9, <1>10 DEF LoopInv

\* Every step keeps the invariant.
LEMMA LoopInvStep ==
    ASSUME LoopInv, [LoopNext]_<<timerVars, loopVars>>
    PROVE  LoopInv'
  <1>1. CASE LoopStep
    BY <1>1, InitCallbackKeeps, LoopTurnKeeps, TakeKeeps, HandleTimersKeeps, RunTimerKeeps,
       TimersDoneKeeps, RunFunctorKeeps DEF LoopStep
  <1>2. CASE pollTimeout \/ (Tick /\ UNCHANGED loopVars)
    BY <1>2, LoopTurnKeeps
  <1>3. ASSUME NEW t \in Threads, ThreadStep(t) \/ quit(t)
        PROVE  LoopInv'
    BY <1>3, ThreadCallKeeps DEF ThreadStep
  <1>4. ASSUME NEW t \in Threads, queueInLoop(t)
        PROVE  LoopInv'
    <2>1. Plain \in Functor /\ Plain.op = "user"
      BY DEF Plain, Functor
    <2>2. Push(t, Plain, [at |-> "wakeup", arg |-> <<>>])
          /\ UNCHANGED <<timerVars, issued, canceled>>
      BY <1>4 DEF queueInLoop
    <2> QED
      BY <2>1, <2>2, PushKeeps
  <1>5. ASSUME NEW t \in Threads, NEW id \in issued, cancel(t, id)
        PROVE  LoopInv'
    <2>1. id \in Id /\ id[2] <= numCreated
      BY DEF LoopInv, StateOK, IdsKnown
    <2>2. CancelId(id) \in Functor /\ CancelId(id).op = "cancel"
          /\ CancelId(id).arg = id
      BY <2>1 DEF CancelId, Functor
    <2>3. Push(t, CancelId(id), [at |-> "wakeup", arg |-> <<>>])
          /\ UNCHANGED <<timerVars, issued, canceled>>
      BY <1>5 DEF cancel
    <2> HIDE DEF CancelId
    <2> QED
      BY <2>1, <2>2, <2>3, PushKeeps
  <1>6. ASSUME NEW t \in Threads, NEW a \in Addr, NEW s \in Schedules,
               addTimer(t, a, s)
        PROVE  LoopInv'
    BY <1>6, AddTimerKeeps
  <1>7. CASE UNCHANGED <<timerVars, loopVars>>
    <2>1. QuietStep
      BY <1>7 DEF timerVars, loopVars, QuietStep, LoopInv, StateOK, IdsKnown
    <2>2. Phases' /\ Wakes'
      BY <1>7 DEF timerVars, loopVars, LoopInv, Phases, Wakes, Woken, NewWork
    <2> QED
      BY <2>1, <2>2, QuietKeeps DEF LoopInv
  <1> QED
    BY <1>1, <1>2, <1>3, <1>4, <1>5, <1>6, <1>7 DEF LoopNext

\* The loop never leaves its invariant.
THEOREM LoopInvariant == LoopSpec => []LoopInv
  <1>1. LoopInit => LoopInv
    BY LoopInvInit
  <1>2. LoopInv /\ [LoopNext]_<<timerVars, loopVars>> => LoopInv'
    BY LoopInvStep
  <1> QED
    BY <1>1, <1>2, PTL DEF LoopSpec

\* No wakeup is lost between queueInLoop or quit() and the poll they must end
\* (EventLoop.cc: queueInLoop, wakeup, handleRead, doPendingFunctors).
THEOREM WakeupsAreNotLost == LoopSpec => []NoLostWakeup
  <1>1. LoopInv => NoLostWakeup
    BY DEF LoopInv, Wakes, Woken, NoLostWakeup
  <1> QED
    BY <1>1, LoopInvariant, PTL

\* As many entries wait in timers_ as in activeTimers_.
LEMMA SameSize ==
    ASSUME LoopInv PROVE Cardinality(timers_) = Cardinality(activeTimers_)
  <1> DEFINE f == [e \in timers_ |-> IdAt(e[2])]
  <1>1. Waiting /\ IsFiniteSet(timers_)
    BY DEF LoopInv, StateOK
  <1>2. f \in [timers_ -> activeTimers_]
    BY <1>1 DEF Waiting
  <1>3. IsInjective(f)
    <2>1. SUFFICES ASSUME NEW d \in timers_, NEW e \in timers_, f[d] = f[e]
                   PROVE  d = e
      BY DEF IsInjective
    <2>2. d[2] = e[2]
      BY <2>1 DEF IdAt
    <2> QED
      BY <1>1, <2>2 DEF Waiting
  <1>4. \A id \in activeTimers_ : \E e \in timers_ : f[e] = id
    <2>1. SUFFICES ASSUME NEW id \in activeTimers_
                   PROVE  \E e \in timers_ : f[e] = id
      OBVIOUS
    <2>2. Entry(id[1]) \in timers_ /\ Entry(id[1])[2] = id[1] /\ id = IdAt(id[1])
      BY <1>1 DEF Waiting, Entry
    <2> QED
      BY <2>2
  <1>5. f \in Bijection(timers_, activeTimers_)
    BY <1>2, <1>3, <1>4 DEF Bijection, Injection, Surjection
  <1>6. ExistsBijection(timers_, activeTimers_)
    BY <1>5 DEF ExistsBijection
  <1> QED
    BY <1>1, <1>6, FS_Bijection

\* The timers are consistent: the two sets agree, what handleRead runs is
\* alive, the timerfd is armed for the earliest timer and no canceled timer
\* comes back (TimerQueue.cc: insert, cancelInLoop, getExpired, reset).
THEOREM TimersAreConsistent == LoopSpec => []TimerInv
  <1>1. ASSUME LoopInv PROVE TimerInv
    <2> USE <1>1 DEF LoopInv
    <2>1. LoopTypeOK
      <3>1. activeTimers_ \subseteq Addr \X (1 .. MaxTimers)
        <4>1. SUFFICES ASSUME NEW id \in activeTimers_
                       PROVE  id \in Addr \X (1 .. MaxTimers)
          OBVIOUS
        <4>2. id \in Id /\ id = IdAt(id[1]) /\ Entry(id[1]) \in timers_
              /\ Entry(id[1])[2] = id[1]
          BY DEF StateOK, Waiting, Entry
        <4>3. id[1] \in Addr /\ id[2] = heap[id[1]].sequence
          BY <4>2 DEF Id, IdAt
        <4>4. heap[id[1]].sequence # 0
          BY <4>2 DEF Waiting
        <4>5. heap[id[1]].sequence \in Nat /\ heap[id[1]].sequence <= numCreated
              /\ numCreated \in 0 .. MaxTimers
          BY <4>3 DEF StateOK, Timer
        <4>6. id[2] \in 1 .. MaxTimers
          BY <4>3, <4>4, <4>5, TimerAssumption
        <4> QED
          BY <4>2, <4>3, <4>6 DEF Id
      <3>2. \A a \in Addr : heap[a].sequence \in 0 .. MaxTimers
        <4>1. \A a \in Addr : heap[a].sequence \in Nat /\ heap[a].sequence <= numCreated
          BY DEF StateOK, Timer
        <4> QED
          BY <4>1, TimerAssumption DEF StateOK
      <3> QED
        BY <3>1, <3>2 DEF StateOK, LoopTypeOK
    <2>2. \A a \in Addr : heap[a].sequence # 0 => heap[a] # Freed
      BY DEF Freed
    <2>3. TimerSetsAgree
      <3>1. \A e \in timers_ : e[2] \in Addr
        BY DEF StateOK
      <3> QED
        BY <2>2, <3>1, SameSize DEF TimerSetsAgree, Waiting
    <2>4. ExpiredAreAlive
      <3>1. \A i \in DOMAIN expired : expired[i][2] \in Addr
        BY DEF StateOK
      <3> QED
        BY <2>2, <3>1 DEF ExpiredAreAlive, Running
    <2>5. TimerfdArmed
      <3>1. SUFFICES ASSUME timers_ # {}, pc # "timers"
                     PROVE  /\ timerfd > 0
                            /\ timerfd <= Earliest(timers_) \/ timerfd <= now + 1
        BY DEF TimerfdArmed
      <3>2. timers_ \subseteq Nat \X Addr
        BY DEF StateOK
      <3>3. PICK e \in timers_ : e[1] = Earliest(timers_)
        BY <3>1, <3>2, EarliestFacts
      <3> QED
        BY <3>1, <3>3 DEF Armed
    <2>6. CanceledStaysOut
      BY DEF CanceledStaysOut, Waiting
    <2> QED
      BY <2>1, <2>3, <2>4, <2>5, <2>6 DEF TimerInv
  <1> QED
    BY <1>1, LoopInvariant, PTL
=============================================================================
