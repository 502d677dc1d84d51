----------------------------- MODULE ThreadPool -----------------------------
(***************************************************************************)
(* muduo/base: ThreadPool, BlockingQueue and BoundedBlockingQueue, which   *)
(* share the scheme of a queue, a mutex and two condition variables; the   *)
(* variable kind says which one a behavior is of.  Threads are started as  *)
(* Thread::start does, with a CountDownLatch.                              *)
(*                                                                         *)
(* What runs with the mutex held is one step.  A thread that waits on a    *)
(* Condition is in the set of that condition; notify takes one thread out  *)
(* of it, and so does a spurious wakeup.  A thread that was taken out      *)
(* evaluates its while-loop again.                                         *)
(***************************************************************************)
EXTENDS Naturals, Sequences, FiniteSets, SequencesExt

CONSTANTS Workers,    \* a sequence: the threads, in the order of their start
          Producers,  \* threads that call run, or put
          MaxTasks,   \* bound: tasks of each producer
          maxSize     \* capacity of a queue that has one

ASSUME PoolAssumption == MaxTasks \in Nat /\ maxSize \in Nat \ {0}

VARIABLES kind, maxQueueSize_, running_, queue_,
          notEmpty_, notFull_,     \* threads that wait
          threads_,                \* number of threads of the pool
          tid_, count_, condition_, \* of the Thread being started: its latch
          at,                      \* thread -> where it is
          task,                    \* thread -> the task it has, or 0
          puts, done               \* history: tasks in order, and those run

poolVars == <<kind, maxQueueSize_, running_, queue_, notEmpty_, notFull_,
              threads_, tid_, count_, condition_, at, task, puts, done>>

Main == "main"
WorkerSet == Range(Workers)

\* The threads are different ones.
ASSUME ThreadsAssumption ==
    /\ Workers \in Seq(WorkerSet) /\ IsInjective(Workers)
    /\ IsFiniteSet(Producers)
    /\ WorkerSet \cap Producers = {} /\ Main \notin WorkerSet \cup Producers

Members == WorkerSet \cup Producers \cup {Main}
IsPool == kind = "ThreadPool"

\* Thread::latch_
LatchCount == 1

PoolInit ==
    /\ kind \in {"ThreadPool", "BoundedBlockingQueue", "BlockingQueue"}
    /\ maxQueueSize_ \in CASE kind = "ThreadPool" -> {0, maxSize}
                           [] kind = "BoundedBlockingQueue" -> {maxSize}
                           [] kind = "BlockingQueue" -> {0}
    /\ running_ = FALSE /\ queue_ = <<>> /\ notEmpty_ = {} /\ notFull_ = {}
    /\ threads_ = 0
    /\ tid_ = [t \in WorkerSet |-> FALSE]
    /\ count_ = [t \in WorkerSet |-> LatchCount] /\ condition_ = {}
    /\ at = [t \in Members |-> IF t = Main THEN "start" ELSE "none"]
    /\ task = [t \in Members |-> 0]
    /\ puts = <<>> /\ done = <<>>

-----------------------------------------------------------------------------
\* Slip: the condition is not notified.
Notified_Nobody(cond, left) == left = cond

\* Condition::notify on the threads in cond, of which left remain
Notified(cond, left) ==
    \/ cond = {} /\ left = {}
    \/ \E t \in cond : left = cond \ {t}

\* pthread_cond_wait may return although nobody called notify.
spuriousWakeup(t) ==
    /\ t \in notEmpty_ \cup notFull_ \cup condition_
    /\ notEmpty_' = notEmpty_ \ {t} /\ notFull_' = notFull_ \ {t}
    /\ condition_' = condition_ \ {t}
    /\ UNCHANGED <<kind, maxQueueSize_, running_, queue_, threads_, tid_,
                   count_, at, task, puts, done>>

Awake(t) == t \notin notEmpty_ \cup notFull_ \cup condition_

-----------------------------------------------------------------------------
(* ThreadPool::start and Thread::start, in the main thread *)

\* One turn of the loop in start: the thread is created.
startThread ==
    /\ at[Main] = "start" /\ threads_ < Len(Workers)
    /\ running_' = IsPool
    /\ threads_' = threads_ + 1
    /\ at' = [at EXCEPT ![Main] = "latch", ![Workers[threads_ + 1]] = "created"]
    /\ UNCHANGED <<kind, maxQueueSize_, queue_, notEmpty_, notFull_, tid_,
                   count_, condition_, task, puts, done>>

\* CountDownLatch::wait in Thread::start; then the next thread is started, or
\* start returns.
latchWait ==
    /\ at[Main] = "latch" /\ Awake(Main)
    /\ IF count_[Workers[threads_]] > 0
       THEN condition_' = {Main} /\ UNCHANGED at
       ELSE at' = [at EXCEPT ![Main] = "start"] /\ UNCHANGED condition_
    /\ UNCHANGED <<kind, maxQueueSize_, running_, queue_, notEmpty_, notFull_,
                   threads_, tid_, count_, task, puts, done>>

\* start ends, with any number of threads, and the producers may begin.
startReturns ==
    /\ at[Main] = "start"
    /\ IsPool \/ threads_ > 0
    /\ running_' = IsPool
    /\ at' = [t \in Members |-> CASE t = Main -> "started"
                                 [] t \in Producers -> "idle"
                                 [] OTHER -> at[t]]
    /\ UNCHANGED <<kind, maxQueueSize_, queue_, notEmpty_, notFull_, threads_,
                   tid_, count_, condition_, task, puts, done>>

\* ThreadData::runInThread up to func_, in the new thread
runInThread(t) ==
    /\ at[t] = "created"
    /\ tid_' = [tid_ EXCEPT ![t] = TRUE]
    /\ at' = [at EXCEPT ![t] = "countDown"]
    /\ UNCHANGED <<kind, maxQueueSize_, running_, queue_, notEmpty_, notFull_,
                   threads_, count_, condition_, task, puts, done>>

countDown(t) ==
    /\ at[t] = "countDown"
    /\ count_' = [count_ EXCEPT ![t] = @ - 1]
    /\ condition_' = IF count_[t] = 1 THEN {} ELSE condition_
    /\ at' = [at EXCEPT ![t] = "loop"]
    /\ UNCHANGED <<kind, maxQueueSize_, running_, queue_, notEmpty_, notFull_,
                   threads_, tid_, task, puts, done>>

-----------------------------------------------------------------------------
(* The queue *)

isFull == maxQueueSize_ > 0 /\ Len(queue_) >= maxQueueSize_

NextTask == Len(puts) + 1
TasksOf(t) == Len(SelectSeq(puts, LAMBDA x : x = t))

\* BlockingQueue::put, in thread t.  puts has the thread of each task; the
\* place of a task in it is its name.
put(t) ==
    /\ queue_' = Append(queue_, NextTask)
    /\ puts' = Append(puts, t)
    /\ Notified(notEmpty_, notEmpty_')
    /\ at' = [at EXCEPT ![t] = "idle"]
    /\ UNCHANGED <<notFull_, done>>

\* BoundedBlockingQueue::put: wait, or put
putBounded(t) ==
    \/ /\ isFull
       /\ notFull_' = notFull_ \cup {t}
       /\ at' = [at EXCEPT ![t] = "put"]
       /\ UNCHANGED <<queue_, notEmpty_, puts, done>>
    \/ ~isFull /\ put(t)

\* ThreadPool::run, or the put of a queue, in thread t
run(t) ==
    /\ at[t] \in {"idle", "put"} /\ Awake(t)
    /\ at[t] = "idle" => TasksOf(t) < MaxTasks
    /\ \/ /\ IsPool /\ threads_ = 0
          /\ puts' = Append(puts, t) /\ done' = Append(done, NextTask)
          /\ UNCHANGED <<queue_, notEmpty_, notFull_, at>>
       \/ ~(IsPool /\ threads_ = 0) /\ putBounded(t)
    /\ UNCHANGED <<kind, maxQueueSize_, running_, threads_, tid_, count_,
                   condition_, task>>

\* The test of the loop in ThreadPool::runInThread; a consumer of a queue
\* takes for ever.
loopTest(t) ==
    /\ at[t] = "loop"
    /\ at' = [at EXCEPT ![t] = IF running_ \/ ~IsPool THEN "take" ELSE "end"]
    /\ UNCHANGED <<kind, maxQueueSize_, running_, queue_, notEmpty_, notFull_,
                   threads_, tid_, count_, condition_, task, puts, done>>

\* Slip: a stack instead of a queue, whose front is still popped.
front_Newest == Last(queue_)

front == Head(queue_)

\* The end of BlockingQueue::take, in thread t
pop(t) ==
    /\ task' = [task EXCEPT ![t] = front]
    /\ queue_' = Tail(queue_)
    /\ at' = [at EXCEPT ![t] = "task"]

\* The end of BoundedBlockingQueue::take
popBounded(t) == pop(t) /\ Notified(notFull_, notFull_')

\* take, in thread t
take(t) ==
    /\ at[t] = "take" /\ Awake(t)
    /\ \/ /\ queue_ = <<>> /\ (running_ \/ ~IsPool)
          /\ notEmpty_' = notEmpty_ \cup {t}
          /\ UNCHANGED <<queue_, notFull_, task, at>>
       \/ /\ queue_ = <<>> /\ IsPool /\ ~running_
          /\ at' = [at EXCEPT ![t] = "loop"]
          /\ UNCHANGED <<queue_, notEmpty_, notFull_, task>>
       \/ /\ queue_ # <<>>
          /\ IF maxQueueSize_ > 0 THEN popBounded(t)
             ELSE pop(t) /\ UNCHANGED notFull_
          /\ UNCHANGED notEmpty_
    /\ UNCHANGED <<kind, maxQueueSize_, running_, threads_, tid_, count_,
                   condition_, puts, done>>

runTask(t) ==
    /\ at[t] = "task"
    /\ done' = Append(done, task[t])
    /\ task' = [task EXCEPT ![t] = 0]
    /\ at' = [at EXCEPT ![t] = "loop"]
    /\ UNCHANGED <<kind, maxQueueSize_, running_, queue_, notEmpty_, notFull_,
                   threads_, tid_, count_, condition_, puts>>

-----------------------------------------------------------------------------
(* ThreadPool::stop, in the main thread, and ~ThreadPool, which calls it *)

\* Slip: notify instead of notifyAll.
AfterNotifyAll_One(cond) == IF cond = {} THEN {} ELSE cond \ {CHOOSE t \in cond : TRUE}

AfterNotifyAll(cond) == {}

stop ==
    /\ IsPool /\ at[Main] = "started" /\ running_
    /\ running_' = FALSE
    /\ notEmpty_' = AfterNotifyAll(notEmpty_)
    /\ at' = [at EXCEPT ![Main] = "join"]
    /\ UNCHANGED <<kind, maxQueueSize_, queue_, notFull_, threads_, tid_,
                   count_, condition_, task, puts, done>>

join ==
    /\ at[Main] = "join"
    /\ \A i \in 1 .. threads_ : at[Workers[i]] = "end"
    /\ at' = [at EXCEPT ![Main] = "stopped"]
    /\ UNCHANGED <<kind, maxQueueSize_, running_, queue_, notEmpty_, notFull_,
                   threads_, tid_, count_, condition_, task, puts, done>>

WorkerStep(t) == \/ runInThread(t) \/ countDown(t) \/ loopTest(t) \/ take(t)
                 \/ runTask(t)
Starting == startThread \/ latchWait \/ startReturns

PoolNext ==
    \/ Starting \/ stop \/ join
    \/ \E t \in WorkerSet : WorkerStep(t)
    \/ \E t \in Producers : run(t)
    \/ \E t \in Members : spuriousWakeup(t)

\* Every thread that can go on does so; nobody has to call stop, or run.
PoolFairness ==
    /\ WF_poolVars(Starting) /\ WF_poolVars(join)
    /\ \A t \in WorkerSet : WF_poolVars(WorkerStep(t))
    /\ \A t \in Producers : WF_poolVars(at[t] = "put" /\ run(t))

PoolSpec == PoolInit /\ [][PoolNext]_poolVars /\ PoolFairness

-----------------------------------------------------------------------------
(* Only the threads that may wait on a condition do, a CountDownLatch of
   Thread::start counts from one, and the queue holds tasks that were put.    *)
PoolTypeOK ==
    /\ notEmpty_ \subseteq WorkerSet /\ notFull_ \subseteq Producers
    /\ condition_ \subseteq {Main} /\ threads_ \in 0 .. Len(Workers)
    /\ \A t \in WorkerSet : count_[t] \in 0 .. 1 /\ tid_[t] \in BOOLEAN
    /\ Range(queue_) \cup Range(done) \subseteq 1 .. Len(puts)

(* Thread.cc:188: when Thread::start returns the thread has a tid, although it
   is the new thread that sets it.                                           *)
StartedHasTid ==
    \A i \in 1 .. threads_ :
        i < threads_ \/ at[Main] # "latch" => tid_[Workers[i]]

(* A task is neither lost nor run twice: it is in the queue, with one thread,
   or done; and tasks leave the queue in the order in which they entered.    *)
TasksConserved ==
    LET out == {task[t] : t \in WorkerSet} \ {0} IN
    /\ IsInjective(done) /\ IsInjective(queue_)
    /\ 1 .. Len(puts) = Range(queue_) \cup out \cup Range(done)
    /\ Cardinality(out) = Cardinality({t \in WorkerSet : task[t] # 0})
    /\ Len(puts) = Len(queue_) + Cardinality(out) + Len(done)
    /\ \A x \in Range(queue_), y \in out \cup Range(done) : y < x

(* No wakeup is missed: while tasks wait, a thread that serves the pool is
   awake for them; while there is room, so is a producer that waits for it,
   if the pool runs.                                                         *)
NoMissedWakeup ==
    /\ notEmpty_ # {} => Len(queue_) <= Cardinality({t \in WorkerSet :
            Awake(t) /\ at[t] \in {"created", "countDown", "loop", "take",
                                   "task"}})
    /\ notEmpty_ # {} /\ IsPool => running_
    /\ notFull_ # {} => maxQueueSize_ <= Len(queue_) + Cardinality(
            {t \in Producers : at[t] = "put" /\ Awake(t)})

Unsettled == \/ Range(done) # DOMAIN puts
             \/ \E t \in Producers : at[t] = "put"

(* While the pool is not stopped, every task is run and every blocked run
   returns; a queue with a consumer does the same.                           *)
TasksRun == Unsettled ~> ~Unsettled \/ (IsPool /\ ~running_)

(* stop returns: all threads of the pool end, whatever they were waiting for. *)
StopReturns == at[Main] = "join" ~> at[Main] = "stopped"

(* No task is lost, doubled or overtaken, and start returns only when the  *)
(* new thread has written the tid that its creator asserts.                *)
PoolInv == PoolTypeOK /\ StartedHasTid /\ TasksConserved

(* Nobody waits for ever: tasks run while the pool does, and stop returns. *)
PoolServes == TasksRun /\ StopReturns
=============================================================================
