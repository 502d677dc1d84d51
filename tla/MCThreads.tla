----------------------------- MODULE MCThreads -----------------------------
(***************************************************************************)
(* The parts of muduo in which threads meet, for TLC: the event loop with  *)
(* its timers and the threads that call it, the thread pool with its       *)
(* queue, and the logger with its writing thread.  They share no state, so *)
(* a behaviour is one of one of them, the subject; the other two stay as   *)
(* they were constructed.                                                  *)
(***************************************************************************)
EXTENDS EventLoop, ThreadPool, AsyncLogging

CONSTANTS w1, w2

MCWorkers == <<w1, w2>>

VARIABLE subject

allLoopVars == <<timerVars, loopVars>>
vars == <<subject, allLoopVars, poolVars, logVars>>

Init ==
    /\ subject \in {"loop", "pool", "logging"}
    /\ LoopInit /\ PoolInit /\ LoggingInit
    /\ subject # "pool" => kind = "ThreadPool" /\ maxQueueSize_ = 0

Loop(A) == subject = "loop" /\ A /\ UNCHANGED <<subject, poolVars, logVars>>
Pool(A) == subject = "pool" /\ A /\ UNCHANGED <<subject, allLoopVars, logVars>>
Log(A) == subject = "logging" /\ A /\ UNCHANGED <<subject, allLoopVars, poolVars>>

Next == Loop(LoopNext) \/ Pool(PoolNext) \/ Log(LoggingNext)

\* LoopFairness, PoolFairness and the fairness of LoggingSpec, each for its
\* own subject.
Fairness ==
    /\ WF_vars(Loop(LoopStep))
    /\ \A t \in Threads : WF_vars(Loop(ThreadStep(t)))
    /\ WF_vars(Loop(Tick /\ UNCHANGED loopVars))
    /\ WF_vars(Pool(Starting)) /\ WF_vars(Pool(join))
    /\ \A t \in WorkerSet : WF_vars(Pool(WorkerStep(t)))
    /\ \A t \in Producers : WF_vars(Pool(at[t] = "put" /\ run(t)))
    /\ WF_vars(Log(LoggingThread))

Spec == Init /\ [][Next]_vars /\ Fairness
=============================================================================
