---------------------------- MODULE ThreadsProof ----------------------------
(***************************************************************************)
(* Machine-checked proofs about ThreadPool with its queues, and about      *)
(* AsyncLogging: for any number of threads, tasks and lines, any capacity  *)
(* and any size of buffers and files.                                      *)
(***************************************************************************)
EXTENDS ThreadPool, AsyncLogging, DataFacts

-----------------------------------------------------------------------------
(* ThreadPool: the inductive invariant *)

Steps == {"none", "start", "latch", "started", "join", "stopped", "created",
          "countDown", "loop", "take", "task", "end", "idle", "put"}

PoolState ==
    /\ kind \in {"ThreadPool", "BoundedBlockingQueue", "BlockingQueue"}
    /\ maxQueueSize_ \in Nat /\ running_ \in BOOLEAN
    /\ queue_ \in Seq(Nat) /\ puts \in Seq(Producers) /\ done \in Seq(Nat)
    /\ notEmpty_ \subseteq WorkerSet /\ notFull_ \subseteq Producers
    /\ condition_ \subseteq {Main} /\ threads_ \in 0 .. Len(Workers)
    /\ tid_ \in [WorkerSet -> BOOLEAN] /\ count_ \in [WorkerSet -> 0 .. 1]
    /\ at \in [Members -> Steps] /\ task \in [Members -> Nat]

\* What a thread has done of its start, and when Thread::start returns.
Starts ==
    /\ \A t \in WorkerSet :
        /\ count_[t] = 0 => tid_[t]
        /\ at[t] \in {"none", "created"} => count_[t] = 1
        /\ at[t] = "countDown" => count_[t] = 1 /\ tid_[t]
    /\ \A i \in DOMAIN Workers : i > threads_ => at[Workers[i]] = "none"
    /\ StartedHasTid

\* Who waits, and for what; no task comes before start has returned.
Waits ==
    /\ \A t \in notEmpty_ : at[t] = "take"
    /\ \A t \in notFull_ : at[t] = "put"
    /\ at[Main] \in {"start", "latch"} =>
            puts = <<>> /\ \A t \in Producers : at[t] = "none"
    /\ IsPool /\ threads_ = 0 => queue_ = <<>>

\* How many tasks have left the queue.
Left == Len(puts) - Len(queue_)

\* The queue holds the youngest tasks, and the others are with one thread
\* each, or done.
Tasks ==
    /\ Left \in Nat
    /\ \A i \in DOMAIN queue_ : queue_[i] = Left + i
    /\ \A t \in WorkerSet : task[t] # 0 <=> at[t] = "task"
    /\ \A s, t \in WorkerSet : task[s] = task[t] /\ task[s] # 0 => s = t
    /\ IsInjective(done)
    /\ \A t \in WorkerSet : task[t] \notin Range(done)
    /\ Range(done) \cup ({task[t] : t \in WorkerSet} \ {0}) = 1 .. Left

Active == {"created", "countDown", "loop", "take", "task"}

Serving == {t \in WorkerSet : t \notin notEmpty_ /\ at[t] \in Active}

Pushing == {t \in Producers : t \notin notFull_ /\ at[t] = "put"}

\* NoMissedWakeup, with a waiting thread known by the condition of its kind.
Served ==
    /\ notEmpty_ # {} => Len(queue_) <= Cardinality(Serving)
    /\ notEmpty_ # {} /\ IsPool => running_
    /\ notFull_ # {} => maxQueueSize_ <= Len(queue_) + Cardinality(Pushing)

PoolCore == PoolState /\ Starts /\ Waits /\ Tasks /\ Served

-----------------------------------------------------------------------------
(* Facts about the threads and about counting *)

\* There are finitely many threads, of three kinds.
LEMMA ThreadsFacts ==
    /\ IsFiniteSet(WorkerSet) /\ IsFiniteSet(Producers)
    /\ WorkerSet \subseteq Members /\ Producers \subseteq Members /\ Main \in Members
    /\ \A t \in WorkerSet : t \notin Producers /\ t # Main
    /\ \A t \in Producers : t \notin WorkerSet /\ t # Main
  <1>1. IsFiniteSet(WorkerSet)
    <2>1. Workers \in Surjection(1 .. Len(Workers), WorkerSet)
      <3>1. Workers \in [1 .. Len(Workers) -> WorkerSet]
        BY ThreadsAssumption
      <3> QED
        BY <3>1 DEF Surjection, WorkerSet, Range
    <2>2. Len(Workers) \in Int
      BY ThreadsAssumption
    <2>3. IsFiniteSet(1 .. Len(Workers))
      BY <2>2, FS_Interval
    <2> QED
      BY <2>1, <2>3, FS_Surjection
  <1>2. WorkerSet \subseteq Members /\ Producers \subseteq Members /\ Main \in Members
    BY DEF Members
  <1>3. /\ WorkerSet \cap Producers = {} /\ Main \notin WorkerSet \cup Producers
        /\ IsFiniteSet(Producers)
    BY ThreadsAssumption
  <1> QED
    BY <1>1, <1>2, <1>3

\* Sizes of sets of threads.
LEMMA CountFacts ==
    ASSUME NEW U, IsFiniteSet(U), NEW S \in SUBSET U, NEW T \in SUBSET U
    PROVE  /\ IsFiniteSet(S) /\ Cardinality(S) \in Nat
           /\ S \subseteq T => Cardinality(S) <= Cardinality(T)
           /\ \A x \in T : S \subseteq T \ {x} => Cardinality(S) + 1 <= Cardinality(T)
           /\ \A x : S \subseteq T \cup {x} => Cardinality(S) <= Cardinality(T) + 1
  <1>1. IsFiniteSet(S) /\ IsFiniteSet(T)
    BY FS_Subset
  <1>2. Cardinality(S) \in Nat /\ Cardinality(T) \in Nat
    BY <1>1, FS_CardinalityType
  <1>3. S \subseteq T => Cardinality(S) <= Cardinality(T)
    BY <1>1, FS_Subset
  <1>4. ASSUME NEW x \in T, S \subseteq T \ {x}
        PROVE  Cardinality(S) + 1 <= Cardinality(T)
    <2>1. IsFiniteSet(T \ {x}) /\ Cardinality(T \ {x}) = Cardinality(T) - 1
      BY <1>1, FS_RemoveElement
    <2>2. Cardinality(S) <= Cardinality(T \ {x})
      BY <1>4, <2>1, FS_Subset
    <2> QED
      BY <1>2, <2>1, <2>2
  <1>5. ASSUME NEW x, S \subseteq T \cup {x}
        PROVE  Cardinality(S) <= Cardinality(T) + 1
    <2>1. IsFiniteSet(T \cup {x}) /\ Cardinality(T \cup {x}) <= Cardinality(T) + 1
      <3>1. /\ IsFiniteSet(T \cup {x})
            /\ Cardinality(T \cup {x}) =
                    IF x \in T THEN Cardinality(T) ELSE Cardinality(T) + 1
        BY <1>1, FS_AddElement
      <3> QED
        BY <1>2, <3>1
    <2>2. Cardinality(S) <= Cardinality(T \cup {x})
      BY <1>5, <2>1, FS_Subset
    <2>3. Cardinality(T \cup {x}) \in Nat
      BY <2>1, FS_CardinalityType
    <2> QED
      BY <1>2, <2>1, <2>2, <2>3
  <1> QED
    BY <1>1, <1>2, <1>3, <1>4, <1>5

\* A step that takes nobody away from the work keeps Served.
LEMMA ServedKept ==
    ASSUME PoolState, Served, UNCHANGED <<kind, maxQueueSize_, queue_>>,
           notEmpty_' \subseteq notEmpty_, notFull_' \subseteq notFull_,
           IsPool /\ running_ /\ notEmpty_' # {} => running_',
           Serving \subseteq Serving', Pushing \subseteq Pushing'
    PROVE  Served'
  <1>1. /\ Serving \in SUBSET WorkerSet /\ Serving' \in SUBSET WorkerSet
        /\ Pushing \in SUBSET Producers /\ Pushing' \in SUBSET Producers
    BY DEF Serving, Pushing
  <1>2. /\ Cardinality(Serving) <= Cardinality(Serving')
        /\ Cardinality(Serving) \in Nat /\ Cardinality(Serving') \in Nat
    BY <1>1, ThreadsFacts, CountFacts
  <1>3. /\ Cardinality(Pushing) <= Cardinality(Pushing')
        /\ Cardinality(Pushing) \in Nat /\ Cardinality(Pushing') \in Nat
    BY <1>1, ThreadsFacts, CountFacts
  <1>4. Len(queue_) \in Nat /\ maxQueueSize_ \in Nat
    BY DEF PoolState
  <1>5. notEmpty_' # {} => Len(queue_') <= Cardinality(Serving')
    <2>1. notEmpty_' # {} => Len(queue_) <= Cardinality(Serving)
      BY DEF Served
    <2> QED
      BY <1>2, <1>4, <2>1
  <1>6. notEmpty_' # {} /\ IsPool' => running_'
    BY DEF Served, IsPool
  <1>7. notFull_' # {} => maxQueueSize_' <= Len(queue_') + Cardinality(Pushing')
    <2>1. notFull_' # {} => maxQueueSize_ <= Len(queue_) + Cardinality(Pushing)
      BY DEF Served
    <2> QED
      BY <1>3, <1>4, <2>1
  <1> QED
    BY <1>5, <1>6, <1>7 DEF Served

\* What happens to the tasks when a thread moves on without one.
LEMMA TasksKept ==
    ASSUME PoolState, Tasks, UNCHANGED <<queue_, puts, done, task>>,
           \A t \in WorkerSet : at'[t] = "task" <=> at[t] = "task"
    PROVE  Tasks'
  BY DEF Tasks, Left

-----------------------------------------------------------------------------
(* The steps of the pool *)

\* Thread::start and the end of ThreadPool::start.
LEMMA StartingKeeps ==
    ASSUME PoolCore, startThread \/ latchWait \/ startReturns
    PROVE  PoolCore'
  <1> USE DEF PoolCore
  <1>0. /\ at \in [Members -> Steps] /\ threads_ \in 0 .. Len(Workers)
        /\ Len(Workers) \in Nat /\ notFull_ \subseteq Producers
        /\ notEmpty_ \subseteq WorkerSet
    BY ThreadsAssumption DEF PoolState
  <1>1. CASE startThread
    <2> DEFINE w == Workers[threads_ + 1]
    <2>1. /\ at[Main] = "start" /\ threads_ < Len(Workers)
          /\ running_' = IsPool /\ threads_' = threads_ + 1
          /\ at' = [at EXCEPT ![Main] = "latch", ![w] = "created"]
          /\ UNCHANGED <<kind, maxQueueSize_, queue_, notEmpty_, notFull_, tid_,
                         count_, condition_, task, puts, done>>
      BY <1>1 DEF startThread
    <2>2. threads_ + 1 \in DOMAIN Workers /\ w \in WorkerSet
      BY <1>0, <2>1, ThreadsAssumption
    <2>3. at[w] = "none"
      BY <1>0, <2>2 DEF Starts
    <2> HIDE DEF w
    <2>4. w # Main /\ w \notin Producers /\ w \in Members /\ Main \in Members
      BY <2>2, ThreadsFacts
    <2>5. at' \in [Members -> Steps] /\ at'[Main] = "latch" /\ at'[w] = "created"
          /\ \A t \in Members : t # w /\ t # Main => at'[t] = at[t]
      BY <1>0, <2>1, <2>4 DEF Steps
    <2>6. threads_' \in 0 .. Len(Workers)
      BY <1>0, <2>1
    <2>7. running_' \in BOOLEAN
      BY <2>1 DEF IsPool
    <2>8. PoolState'
      BY <2>1, <2>5, <2>6, <2>7 DEF PoolState
    <2>9. \A t \in WorkerSet : t # w => at'[t] = at[t]
      BY <2>5, ThreadsFacts
    <2>10. Starts'
      <3>1. \A t \in WorkerSet :
                /\ count_'[t] = 0 => tid_'[t]
                /\ at'[t] \in {"none", "created"} => count_'[t] = 1
                /\ at'[t] = "countDown" => count_'[t] = 1 /\ tid_'[t]
        BY <2>1, <2>3, <2>5, <2>9 DEF Starts
      <3>2. ASSUME NEW i \in DOMAIN Workers, i > threads_'
            PROVE  at'[Workers[i]] = "none"
        <4>1. i > threads_ /\ i # threads_ + 1 /\ Workers[i] \in WorkerSet
          BY <1>0, <2>1, <3>2, ThreadsAssumption
        <4>2. Workers[i] # w
          BY <2>2, <4>1, ThreadsAssumption DEF IsInjective, w
        <4> QED
          BY <2>9, <4>1, <4>2 DEF Starts
      <3>3. StartedHasTid'
        <4>1. SUFFICES ASSUME NEW i \in 1 .. threads_', i < threads_'
                       PROVE  tid_[Workers[i]]
          BY <2>1, <2>5 DEF StartedHasTid
        <4>2. i \in 1 .. threads_
          BY <1>0, <2>1, <4>1
        <4> QED
          BY <2>1, <4>2 DEF Starts, StartedHasTid
      <3> QED
        BY <3>1, <3>2, <3>3 DEF Starts
    <2>11. Waits'
      <3>1. \A t \in notEmpty_ : at'[t] = "take"
        BY <1>0, <2>3, <2>9 DEF Waits
      <3>2. \A t \in Producers : at'[t] = at[t]
        BY <2>4, <2>5, ThreadsFacts
      <3>3. threads_' # 0
        BY <1>0, <2>1
      <3> QED
        BY <1>0, <2>1, <3>1, <3>2, <3>3 DEF Waits
    <2>12. Tasks'
      BY <2>1, <2>3, <2>5, <2>9, TasksKept
    <2>13. Served'
      <3>1. Serving \subseteq Serving'
        BY <2>1, <2>3, <2>5, <2>9 DEF Serving, Active
      <3>2. Pushing \subseteq Pushing'
        BY <2>1, <2>4, <2>5, ThreadsFacts DEF Pushing
      <3> QED
        BY <2>1, <3>1, <3>2, ServedKept
    <2> QED
      BY <2>8, <2>10, <2>11, <2>12, <2>13
  <1>2. CASE latchWait
    <2>1. /\ at[Main] = "latch"
          /\ UNCHANGED <<kind, maxQueueSize_, running_, queue_, notEmpty_, notFull_,
                         threads_, tid_, count_, task, puts, done>>
      BY <1>2 DEF latchWait
    <2>2. CASE count_[Workers[threads_]] > 0
      <3>1. condition_' = {Main} /\ at' = at
        BY <1>2, <2>2 DEF latchWait
      <3>2. PoolState'
        BY <2>1, <3>1 DEF PoolState
      <3>3. Starts' /\ Waits'
        BY <2>1, <3>1 DEF Starts, StartedHasTid, Waits, IsPool
      <3>4. Tasks' /\ Served'
        BY <2>1, <3>1 DEF Tasks, Left, Served, Serving, Pushing, IsPool
      <3> QED
        BY <3>2, <3>3, <3>4
    <2>3. CASE ~(count_[Workers[threads_]] > 0)
      <3>1. condition_' = condition_ /\ at' = [at EXCEPT ![Main] = "start"]
        BY <1>2, <2>3 DEF latchWait
      <3>2. at' \in [Members -> Steps] /\ at'[Main] = "start"
            /\ \A t \in Members : t # Main => at'[t] = at[t]
        BY <1>0, <3>1, ThreadsFacts DEF Steps
      <3>3. /\ \A t \in WorkerSet : at'[t] = at[t]
            /\ \A t \in Producers : at'[t] = at[t]
        BY <3>2, ThreadsFacts
      <3>4. PoolState'
        BY <2>1, <3>1, <3>2 DEF PoolState
      <3>5. Starts'
        <4>1. \A i \in DOMAIN Workers : Workers[i] \in WorkerSet
          BY ThreadsAssumption
        <4>2. StartedHasTid'
          <5>1. SUFFICES ASSUME NEW i \in 1 .. threads_
                         PROVE  tid_[Workers[i]]
            BY <2>1 DEF StartedHasTid
          <5>2. CASE i < threads_
            BY <5>2 DEF Starts, StartedHasTid
          <5>3. CASE i = threads_
            <6>1. Workers[i] \in WorkerSet /\ count_[Workers[i]] \in 0 .. 1
              BY <1>0, <4>1, <5>3, ThreadsAssumption DEF PoolState
            <6>2. count_[Workers[i]] = 0
              BY <2>3, <5>3, <6>1
            <6> QED
              BY <6>1, <6>2 DEF Starts
          <5> QED
            BY <1>0, <5>2, <5>3
        <4> QED
          BY <2>1, <3>3, <4>1, <4>2 DEF Starts
      <3>6. Waits'
        BY <1>0, <2>1, <3>3 DEF Waits, IsPool
      <3>7. Tasks'
        BY <2>1, <3>3, TasksKept
      <3>8. Served'
        <4>1. Serving \subseteq Serving' /\ Pushing \subseteq Pushing'
          BY <2>1, <3>3 DEF Serving, Pushing
        <4> QED
          BY <2>1, <4>1, ServedKept
      <3> QED
        BY <3>4, <3>5, <3>6, <3>7, <3>8
    <2> QED
      BY <2>2, <2>3
  <1>3. CASE startReturns
    <2>1. /\ at[Main] = "start" /\ (IsPool \/ threads_ > 0) /\ running_' = IsPool
          /\ at' = [t \in Members |-> CASE t = Main -> "started"
                                        [] t \in Producers -> "idle"
                                        [] OTHER -> at[t]]
          /\ UNCHANGED <<kind, maxQueueSize_, queue_, notEmpty_, notFull_, threads_,
                         tid_, count_, condition_, task, puts, done>>
      BY <1>3 DEF startReturns
    <2>2. /\ at'[Main] = "started" /\ \A t \in WorkerSet : at'[t] = at[t]
          /\ \A t \in Producers : at'[t] = "idle"
      BY <2>1, ThreadsFacts
    <2>3. at' \in [Members -> Steps]
      <3>1. \A t \in Members : t = Main \/ t \in Producers \/ t \in WorkerSet
        BY DEF Members
      <3>2. \A t \in Members : at'[t] \in Steps
        BY <1>0, <2>2, <3>1 DEF Steps
      <3> QED
        BY <2>1, <3>2
    <2>4. running_' \in BOOLEAN
      BY <2>1 DEF IsPool
    <2>5. PoolState'
      BY <2>1, <2>3, <2>4 DEF PoolState
    <2>6. Starts'
      <3>1. \A i \in DOMAIN Workers : Workers[i] \in WorkerSet
        BY ThreadsAssumption
      <3>2. StartedHasTid'
        BY <2>1, <2>2 DEF Starts, StartedHasTid
      <3> QED
        BY <2>1, <2>2, <3>1, <3>2 DEF Starts
    <2>7. notFull_ = {}
      BY <1>0, <2>1 DEF Waits
    <2>8. Waits'
      BY <1>0, <2>1, <2>2, <2>7 DEF Waits, IsPool
    <2>9. Tasks'
      BY <2>1, <2>2, TasksKept
    <2>10. Served'
      <3>1. Serving' = Serving /\ notFull_' = {}
        BY <2>1, <2>2, <2>7 DEF Serving
      <3> QED
        BY <2>1, <3>1 DEF Served, IsPool
    <2> QED
      BY <2>5, <2>6, <2>8, <2>9, <2>10
  <1> QED
    BY <1>1, <1>2, <1>3

\* A thread's own start, and the test of its loop.
LEMMA ThreadMovesKeeps ==
    ASSUME PoolCore, NEW t \in WorkerSet,
           runInThread(t) \/ countDown(t) \/ loopTest(t)
    PROVE  PoolCore'
  <1> USE DEF PoolCore
  <1>0. /\ at \in [Members -> Steps] /\ threads_ \in 0 .. Len(Workers)
        /\ tid_ \in [WorkerSet -> BOOLEAN] /\ count_ \in [WorkerSet -> 0 .. 1]
        /\ notEmpty_ \subseteq WorkerSet /\ notFull_ \subseteq Producers
        /\ t \in Members /\ t # Main /\ t \notin Producers
        /\ \A i \in DOMAIN Workers : Workers[i] \in WorkerSet
        /\ DOMAIN Workers = 1 .. Len(Workers) /\ Len(Workers) \in Nat
    BY ThreadsFacts, ThreadsAssumption DEF PoolState
  <1>1. CASE runInThread(t)
    <2>1. /\ at[t] = "created" /\ tid_' = [tid_ EXCEPT ![t] = TRUE]
          /\ at' = [at EXCEPT ![t] = "countDown"]
          /\ UNCHANGED <<kind, maxQueueSize_, running_, queue_, notEmpty_, notFull_,
                         threads_, count_, condition_, task, puts, done>>
      BY <1>1 DEF runInThread
    <2>2. /\ at' \in [Members -> Steps] /\ at'[t] = "countDown"
          /\ \A u \in Members : u # t => at'[u] = at[u]
      BY <1>0, <2>1 DEF Steps
    <2>3. /\ tid_' \in [WorkerSet -> BOOLEAN] /\ tid_'[t] = TRUE
          /\ \A u \in WorkerSet : u # t => tid_'[u] = tid_[u]
      BY <1>0, <2>1
    <2>4. /\ \A u \in WorkerSet : u # t => at'[u] = at[u]
          /\ \A u \in Producers : at'[u] = at[u]
          /\ at'[Main] = at[Main]
      BY <1>0, <2>2, ThreadsFacts
    <2>5. PoolState'
      BY <2>1, <2>2, <2>3 DEF PoolState
    <2>6. Starts'
      <3>1. \A u \in WorkerSet :
                /\ count_'[u] = 0 => tid_'[u]
                /\ at'[u] \in {"none", "created"} => count_'[u] = 1
                /\ at'[u] = "countDown" => count_'[u] = 1 /\ tid_'[u]
        BY <2>1, <2>2, <2>3, <2>4 DEF Starts
      <3>2. \A i \in DOMAIN Workers : i > threads_' => at'[Workers[i]] = "none"
        BY <1>0, <2>1, <2>4 DEF Starts
      <3>3. \A i \in 1 .. threads_ : Workers[i] \in WorkerSet
        BY <1>0
      <3>4. StartedHasTid'
        BY <2>1, <2>3, <2>4, <3>3 DEF Starts, StartedHasTid
      <3> QED
        BY <3>1, <3>2, <3>4 DEF Starts
    <2>7. Waits'
      BY <1>0, <2>1, <2>4 DEF Waits, IsPool
    <2>8. Tasks'
      BY <2>1, <2>2, <2>4, TasksKept
    <2>9. Served'
      <3>1. Serving \subseteq Serving' /\ Pushing \subseteq Pushing'
        BY <2>1, <2>2, <2>4 DEF Serving, Pushing, Active
      <3> QED
        BY <2>1, <3>1, ServedKept
    <2> QED
      BY <2>5, <2>6, <2>7, <2>8, <2>9
  <1>2. CASE countDown(t)
    <2>1. /\ at[t] = "countDown" /\ count_' = [count_ EXCEPT ![t] = count_[t] - 1]
          /\ condition_' \in {{}, condition_}
          /\ at' = [at EXCEPT ![t] = "loop"]
          /\ UNCHANGED <<kind, maxQueueSize_, running_, queue_, notEmpty_, notFull_,
                         threads_, tid_, task, puts, done>>
      BY <1>2 DEF countDown
    <2>2. /\ at' \in [Members -> Steps] /\ at'[t] = "loop"
          /\ \A u \in Members : u # t => at'[u] = at[u]
      BY <1>0, <2>1 DEF Steps
    <2>3. count_[t] = 1 /\ tid_[t]
      BY <2>1 DEF Starts
    <2>4. /\ count_' \in [WorkerSet -> 0 .. 1] /\ count_'[t] = 0
          /\ \A u \in WorkerSet : u # t => count_'[u] = count_[u]
      BY <1>0, <2>1, <2>3
    <2>5. /\ \A u \in WorkerSet : u # t => at'[u] = at[u]
          /\ \A u \in Producers : at'[u] = at[u]
          /\ at'[Main] = at[Main]
      BY <1>0, <2>2, ThreadsFacts
    <2>6. PoolState'
      BY <2>1, <2>2, <2>4 DEF PoolState
    <2>7. Starts'
      <3>1. \A u \in WorkerSet :
                /\ count_'[u] = 0 => tid_'[u]
                /\ at'[u] \in {"none", "created"} => count_'[u] = 1
                /\ at'[u] = "countDown" => count_'[u] = 1 /\ tid_'[u]
        BY <2>1, <2>2, <2>3, <2>4, <2>5 DEF Starts
      <3>2. \A i \in DOMAIN Workers : i > threads_' => at'[Workers[i]] = "none"
        BY <1>0, <2>1, <2>5 DEF Starts
      <3>3. StartedHasTid'
        BY <2>1, <2>5 DEF Starts, StartedHasTid
      <3> QED
        BY <3>1, <3>2, <3>3 DEF Starts
    <2>8. Waits'
      BY <1>0, <2>1, <2>5 DEF Waits, IsPool
    <2>9. Tasks'
      BY <2>1, <2>2, <2>5, TasksKept
    <2>10. Served'
      <3>1. Serving \subseteq Serving' /\ Pushing \subseteq Pushing'
        BY <2>1, <2>2, <2>5 DEF Serving, Pushing, Active
      <3> QED
        BY <2>1, <3>1, ServedKept
    <2> QED
      BY <2>6, <2>7, <2>8, <2>9, <2>10
  <1>3. CASE loopTest(t)
    <2> DEFINE s == IF running_ \/ ~IsPool THEN "take" ELSE "end"
    <2>1. /\ at[t] = "loop" /\ at' = [at EXCEPT ![t] = s]
          /\ UNCHANGED <<kind, maxQueueSize_, running_, queue_, notEmpty_, notFull_,
                         threads_, tid_, count_, condition_, task, puts, done>>
      BY <1>3 DEF loopTest
    <2>2. s \in {"take", "end"} /\ (s = "end" => IsPool /\ ~running_)
      OBVIOUS
    <2> HIDE DEF s
    <2>3. /\ at' \in [Members -> Steps] /\ at'[t] = s
          /\ \A u \in Members : u # t => at'[u] = at[u]
      BY <1>0, <2>1, <2>2 DEF Steps
    <2>4. /\ \A u \in WorkerSet : u # t => at'[u] = at[u]
          /\ \A u \in Producers : at'[u] = at[u]
          /\ at'[Main] = at[Main]
      BY <1>0, <2>3, ThreadsFacts
    <2>5. PoolState'
      BY <2>1, <2>3 DEF PoolState
    <2>6. Starts'
      <3>1. \A u \in WorkerSet :
                /\ count_'[u] = 0 => tid_'[u]
                /\ at'[u] \in {"none", "created"} => count_'[u] = 1
                /\ at'[u] = "countDown" => count_'[u] = 1 /\ tid_'[u]
        BY <2>1, <2>2, <2>3, <2>4 DEF Starts
      <3>2. \A i \in DOMAIN Workers : i > threads_' => at'[Workers[i]] = "none"
        BY <1>0, <2>1, <2>4 DEF Starts
      <3>3. StartedHasTid'
        BY <2>1, <2>4 DEF Starts, StartedHasTid
      <3> QED
        BY <3>1, <3>2, <3>3 DEF Starts
    <2>7. Waits'
      BY <1>0, <2>1, <2>4 DEF Waits, IsPool
    <2>8. Tasks'
      BY <2>1, <2>2, <2>3, <2>4, TasksKept
    <2>9. Served'
      <3>1. Pushing \subseteq Pushing'
        BY <2>1, <2>4 DEF Pushing
      <3>2. CASE s = "take"
        <4>1. Serving \subseteq Serving'
          BY <2>1, <2>3, <2>4, <3>2 DEF Serving, Active
        <4> QED
          BY <2>1, <3>1, <4>1, ServedKept
      <3>3. CASE s = "end"
        <4>1. notEmpty_ = {}
          BY <2>2, <3>3 DEF Served
        <4>2. Pushing' = Pushing
          BY <2>1, <2>4 DEF Pushing
        <4> QED
          BY <2>1, <4>1, <4>2 DEF Served
      <3> QED
        BY <2>2, <3>2, <3>3
    <2> QED
      BY <2>5, <2>6, <2>7, <2>8, <2>9
  <1> QED
    BY <1>1, <1>2, <1>3

\* run, or put, of a producer: in its own thread, waiting, or into the queue.
LEMMA RunKeeps ==
    ASSUME PoolCore, NEW t \in Producers, run(t)
    PROVE  PoolCore'
  <1> USE DEF PoolCore
  <1>0. /\ at \in [Members -> Steps] /\ threads_ \in 0 .. Len(Workers)
        /\ notEmpty_ \subseteq WorkerSet /\ notFull_ \subseteq Producers
        /\ t \in Members /\ t # Main /\ t \notin WorkerSet
        /\ \A i \in DOMAIN Workers : Workers[i] \in WorkerSet
        /\ queue_ \in Seq(Nat) /\ puts \in Seq(Producers) /\ done \in Seq(Nat)
        /\ Len(queue_) \in Nat /\ Len(puts) \in Nat /\ maxQueueSize_ \in Nat
    BY ThreadsFacts, ThreadsAssumption DEF PoolState
  <1>1. /\ UNCHANGED <<kind, maxQueueSize_, running_, threads_, tid_, count_,
                       condition_, task>>
        /\ at[t] \in {"idle", "put"} /\ t \notin notFull_
    BY DEF run, Awake
  <1>2. at[Main] \notin {"start", "latch"}
    BY <1>1 DEF Waits
  <1>3. CASE /\ IsPool /\ threads_ = 0
             /\ puts' = Append(puts, t) /\ done' = Append(done, NextTask)
             /\ UNCHANGED <<queue_, notEmpty_, notFull_, at>>
    <2>1. queue_ = <<>> /\ Len(queue_) = 0 /\ Left = Len(puts)
      BY <1>0, <1>3 DEF Waits, Left
    <2>2. puts' \in Seq(Producers) /\ Len(puts') = Len(puts) + 1
      BY <1>0, <1>3
    <2>3. NextTask \in Nat /\ done' \in Seq(Nat) /\ NextTask = Left + 1
      BY <1>0, <1>3, <2>1 DEF NextTask
    <2>4. PoolState'
      BY <1>1, <1>3, <2>2, <2>3 DEF PoolState
    <2>5. Starts' /\ Waits' /\ Served'
      BY <1>1, <1>2, <1>3 DEF Starts, StartedHasTid, Waits, Served, Serving,
                              Pushing, IsPool
    <2>6. Left' = Left + 1 /\ Left \in Nat
      BY <1>0, <1>3, <2>1, <2>2 DEF Left
    <2>7. Range(done) \cup ({task[u] : u \in WorkerSet} \ {0}) = 1 .. Left
          /\ IsInjective(done)
      BY DEF Tasks
    <2>8. NextTask \notin Range(done) /\ \A u \in WorkerSet : task[u] # NextTask
      <3>1. NextTask \notin 1 .. Left /\ NextTask # 0
        BY <2>3, <2>6
      <3> QED
        BY <2>7, <3>1
    <2>9. IsInjective(done') /\ Range(done') = Range(done) \cup {NextTask}
      BY <1>0, <1>3, <2>3, <2>7, <2>8, RangeFacts
    <2>10. 1 .. (Left + 1) = (1 .. Left) \cup {Left + 1}
      BY <2>6
    <2>11. Range(done') \cup ({task[u] : u \in WorkerSet} \ {0}) = 1 .. Left'
      BY <2>3, <2>6, <2>7, <2>9, <2>10
    <2>12. \A u \in WorkerSet : task[u] \notin Range(done')
      BY <2>8, <2>9 DEF Tasks
    <2>13. \A i \in DOMAIN queue_' : queue_'[i] = Left' + i
      BY <1>3, <2>1
    <2>14. Left' \in Nat
      BY <2>6
    <2>15. Tasks'
      BY <1>1, <1>3, <2>9, <2>11, <2>12, <2>13, <2>14 DEF Tasks
    <2> QED
      BY <2>4, <2>5, <2>15
  <1>4. CASE /\ isFull
             /\ notFull_' = notFull_ \cup {t}
             /\ at' = [at EXCEPT ![t] = "put"]
             /\ UNCHANGED <<queue_, notEmpty_, puts, done>>
    <2>1. /\ at' \in [Members -> Steps] /\ at'[t] = "put"
          /\ \A u \in Members : u # t => at'[u] = at[u]
      BY <1>0, <1>4 DEF Steps
    <2>2. \A u \in WorkerSet : at'[u] = at[u]
      BY <1>0, <2>1, ThreadsFacts
    <2>3. at'[Main] = at[Main]
      BY <1>0, <2>1, ThreadsFacts
    <2>4. PoolState'
      BY <1>1, <1>4, <2>1 DEF PoolState
    <2>5. Starts'
      BY <1>0, <1>1, <2>2, <2>3 DEF Starts, StartedHasTid
    <2>6. Waits'
      <3>1. \A u \in notFull_' : at'[u] = "put"
        BY <1>0, <1>4, <2>1, ThreadsFacts DEF Waits
      <3>2. \A u \in notEmpty_' : at'[u] = "take"
        BY <1>0, <1>4, <2>2 DEF Waits
      <3> QED
        BY <1>1, <1>2, <1>4, <2>3, <3>1, <3>2 DEF Waits, IsPool
    <2>7. Tasks'
      BY <1>1, <1>4, <2>2, TasksKept
    <2>8. Served'
      <3>1. Serving' = Serving
        BY <1>4, <2>2 DEF Serving
      <3>2. maxQueueSize_ <= Len(queue_)
        BY <1>4 DEF isFull
      <3>3. Pushing' \in SUBSET Producers
        BY DEF Pushing
      <3>4. Cardinality(Pushing') \in Nat
        BY <3>3, ThreadsFacts, CountFacts
      <3>5. maxQueueSize_ <= Len(queue_) + Cardinality(Pushing')
        BY <1>0, <3>2, <3>4
      <3> QED
        BY <1>1, <1>4, <3>1, <3>5 DEF Served, IsPool
    <2> QED
      BY <2>4, <2>5, <2>6, <2>7, <2>8
  <1>5. CASE ~(IsPool /\ threads_ = 0) /\ put(t)
    <2>0. /\ queue_' = Append(queue_, NextTask)
          /\ puts' = Append(puts, t)
          /\ Notified(notEmpty_, notEmpty_')
          /\ at' = [at EXCEPT ![t] = "idle"]
          /\ UNCHANGED <<notFull_, done>>
      BY <1>5 DEF put
    <2>1. /\ at' \in [Members -> Steps] /\ at'[t] = "idle"
          /\ \A u \in Members : u # t => at'[u] = at[u]
      BY <1>0, <2>0 DEF Steps
    <2>2. \A u \in WorkerSet : at'[u] = at[u]
      BY <1>0, <2>1, ThreadsFacts
    <2>3. at'[Main] = at[Main]
      BY <1>0, <2>1, ThreadsFacts
    <2>4. notEmpty_' \subseteq notEmpty_
      BY <2>0 DEF Notified
    <2>5. /\ puts' \in Seq(Producers) /\ Len(puts') = Len(puts) + 1
          /\ NextTask \in Nat /\ NextTask = Len(puts) + 1
      BY <1>0, <2>0 DEF NextTask
    <2>6. /\ queue_' \in Seq(Nat) /\ Len(queue_') = Len(queue_) + 1
          /\ DOMAIN queue_' = 1 .. (Len(queue_) + 1) /\ DOMAIN queue_ = 1 .. Len(queue_)
          /\ \A i \in 1 .. Len(queue_) : queue_'[i] = queue_[i]
          /\ queue_'[Len(queue_) + 1] = NextTask
      BY <1>0, <2>0, <2>5
    <2>7. PoolState'
      <3>1. notEmpty_' \subseteq WorkerSet
        BY <1>0, <2>4
      <3> QED
        BY <1>1, <2>0, <2>1, <2>5, <2>6, <3>1 DEF PoolState
    <2>8. Starts'
      BY <1>0, <1>1, <2>2, <2>3 DEF Starts, StartedHasTid
    <2>9. Waits'
      <3>1. \A u \in notFull_' : at'[u] = "put"
        BY <1>0, <1>1, <2>0, <2>1, ThreadsFacts DEF Waits
      <3>2. \A u \in notEmpty_' : at'[u] = "take"
        BY <1>0, <2>2, <2>4 DEF Waits
      <3> QED
        BY <1>1, <1>2, <1>5, <2>3, <3>1, <3>2 DEF Waits, IsPool
    <2>10. Left' = Left /\ Left \in Nat
      <3>1. Left \in Nat
        BY DEF Tasks
      <3> QED
        BY <1>0, <2>5, <2>6, <3>1 DEF Left
    <2>11. Tasks'
      <3>1. \A i \in 1 .. Len(queue_) : queue_[i] = Left + i
        BY <2>6 DEF Tasks
      <3>2. NextTask = Left + (Len(queue_) + 1)
        BY <1>0, <2>5 DEF Left
      <3>3. \A i \in 1 .. (Len(queue_) + 1) : i \in 1 .. Len(queue_) \/ i = Len(queue_) + 1
        BY <1>0
      <3>4. \A i \in DOMAIN queue_' : queue_'[i] = Left + i
        BY <2>6, <3>1, <3>2, <3>3
      <3> QED
        BY <1>1, <2>0, <2>2, <2>10, <3>4 DEF Tasks
    <2>12. Served'
      <3>0. /\ Serving \in SUBSET WorkerSet /\ Serving' \in SUBSET WorkerSet
            /\ Pushing \in SUBSET Producers /\ Pushing' \in SUBSET Producers
        BY DEF Serving, Pushing
      <3>1. /\ Cardinality(Serving) \in Nat /\ Cardinality(Serving') \in Nat
            /\ Cardinality(Pushing) \in Nat /\ Cardinality(Pushing') \in Nat
        BY <3>0, ThreadsFacts, CountFacts
      <3>2. ASSUME notEmpty_' # {}
            PROVE  Len(queue_') <= Cardinality(Serving')
        <4>1. PICK u \in notEmpty_ : notEmpty_' = notEmpty_ \ {u}
          BY <2>0, <3>2 DEF Notified
        <4>2. at[u] = "take" /\ u \in WorkerSet
          BY <1>0 DEF Waits
        <4>3. u \in Serving' /\ Serving \subseteq Serving' \ {u}
          BY <2>2, <4>1, <4>2 DEF Serving, Active
        <4>4. Cardinality(Serving) + 1 <= Cardinality(Serving')
          BY <3>0, <4>3, ThreadsFacts, CountFacts
        <4>5. Len(queue_) <= Cardinality(Serving)
          BY <4>1 DEF Served
        <4> QED
          BY <1>0, <2>6, <3>1, <4>4, <4>5
      <3>3. ASSUME notFull_' # {}
            PROVE  maxQueueSize_ <= Len(queue_') + Cardinality(Pushing')
        <4>1. Pushing \subseteq Pushing' \cup {t}
          BY <2>0, <2>1, ThreadsFacts DEF Pushing
        <4>2. Cardinality(Pushing) <= Cardinality(Pushing') + 1
          BY <3>0, <4>1, ThreadsFacts, CountFacts
        <4>3. maxQueueSize_ <= Len(queue_) + Cardinality(Pushing)
          BY <2>0, <3>3 DEF Served
        <4> QED
          BY <1>0, <2>6, <3>1, <4>2, <4>3
      <3>4. notEmpty_' # {} /\ IsPool' => running_'
        BY <1>1, <2>4 DEF Served, IsPool
      <3> QED
        BY <1>1, <3>2, <3>3, <3>4 DEF Served
    <2> QED
      BY <2>7, <2>8, <2>9, <2>11, <2>12
  <1> QED
    BY <1>3, <1>4, <1>5 DEF run, putBounded

\* take: wait, give up because the pool stopped, or pop.
LEMMA TakeKeepsPool ==
    ASSUME PoolCore, NEW t \in WorkerSet, take(t)
    PROVE  PoolCore'
  <1> USE DEF PoolCore
  <1>0. /\ at \in [Members -> Steps] /\ threads_ \in 0 .. Len(Workers)
        /\ notEmpty_ \subseteq WorkerSet /\ notFull_ \subseteq Producers
        /\ t \in Members /\ t # Main /\ t \notin Producers
        /\ \A i \in DOMAIN Workers : Workers[i] \in WorkerSet
        /\ queue_ \in Seq(Nat) /\ Len(queue_) \in Nat /\ Len(puts) \in Nat
        /\ maxQueueSize_ \in Nat /\ task \in [Members -> Nat]
    BY ThreadsFacts, ThreadsAssumption DEF PoolState
  <1>1. /\ UNCHANGED <<kind, maxQueueSize_, running_, threads_, tid_, count_,
                       condition_, puts, done>>
        /\ at[t] = "take" /\ t \notin notEmpty_
    BY DEF take, Awake
  <1>2. CASE /\ queue_ = <<>> /\ (running_ \/ ~IsPool)
             /\ notEmpty_' = notEmpty_ \cup {t}
             /\ UNCHANGED <<queue_, notFull_, task, at>>
    <2>1. PoolState'
      BY <1>1, <1>2 DEF PoolState
    <2>2. Starts' /\ Waits' /\ Tasks'
      BY <1>1, <1>2 DEF Starts, StartedHasTid, Waits, Tasks, Left, IsPool
    <2>3. Served'
      <3>1. Serving' \in SUBSET WorkerSet
        BY DEF Serving
      <3>2. Cardinality(Serving') \in Nat
        BY <3>1, ThreadsFacts, CountFacts
      <3>3. Len(queue_') <= Cardinality(Serving')
        BY <1>2, <3>2
      <3>4. Pushing' = Pushing
        BY <1>2 DEF Pushing
      <3> QED
        BY <1>1, <1>2, <3>3, <3>4 DEF Served, IsPool
    <2> QED
      BY <2>1, <2>2, <2>3
  <1>3. CASE /\ at' = [at EXCEPT ![t] = "loop"]
             /\ UNCHANGED <<queue_, notEmpty_, notFull_, task>>
    <2>1. /\ at' \in [Members -> Steps] /\ at'[t] = "loop"
          /\ \A u \in Members : u # t => at'[u] = at[u]
      BY <1>0, <1>3 DEF Steps
    <2>2. /\ \A u \in WorkerSet : u # t => at'[u] = at[u]
          /\ \A u \in Producers : at'[u] = at[u]
          /\ at'[Main] = at[Main]
      BY <1>0, <2>1, ThreadsFacts
    <2>3. PoolState'
      BY <1>1, <1>3, <2>1 DEF PoolState
    <2>4. Starts'
      BY <1>0, <1>1, <2>1, <2>2 DEF Starts, StartedHasTid
    <2>5. Waits'
      BY <1>0, <1>1, <1>3, <2>2 DEF Waits, IsPool
    <2>6. Tasks'
      BY <1>1, <1>3, <2>1, <2>2, TasksKept
    <2>7. Served'
      <3>1. Serving \subseteq Serving' /\ Pushing \subseteq Pushing'
        BY <1>3, <2>1, <2>2 DEF Serving, Pushing, Active
      <3> QED
        BY <1>1, <1>3, <3>1, ServedKept
    <2> QED
      BY <2>3, <2>4, <2>5, <2>6, <2>7
  <1>4. CASE /\ queue_ # <<>> /\ pop(t) /\ UNCHANGED notEmpty_
             /\ \/ maxQueueSize_ > 0 /\ Notified(notFull_, notFull_')
                \/ ~(maxQueueSize_ > 0) /\ UNCHANGED notFull_
    <2>0. /\ task' = [task EXCEPT ![t] = Head(queue_)]
          /\ queue_' = Tail(queue_)
          /\ at' = [at EXCEPT ![t] = "task"]
      BY <1>4 DEF pop, front
    <2>1. /\ at' \in [Members -> Steps] /\ at'[t] = "task"
          /\ \A u \in Members : u # t => at'[u] = at[u]
      BY <1>0, <2>0 DEF Steps
    <2>2. /\ \A u \in WorkerSet : u # t => at'[u] = at[u]
          /\ \A u \in Producers : at'[u] = at[u]
          /\ at'[Main] = at[Main]
      BY <1>0, <2>1, ThreadsFacts
    <2>3. notFull_' \subseteq notFull_
      BY <1>4 DEF Notified
    <2>4. /\ queue_' \in Seq(Nat) /\ Len(queue_) > 0 /\ Len(queue_') = Len(queue_) - 1
          /\ DOMAIN queue_' = 1 .. (Len(queue_) - 1) /\ DOMAIN queue_ = 1 .. Len(queue_)
          /\ \A i \in 1 .. (Len(queue_) - 1) : queue_'[i] = queue_[i + 1]
          /\ Head(queue_) = queue_[1] /\ Head(queue_) \in Nat
      BY <1>0, <1>4, <2>0
    <2>5. /\ task' \in [Members -> Nat] /\ task'[t] = Head(queue_)
          /\ \A u \in Members : u # t => task'[u] = task[u]
      BY <1>0, <2>0, <2>4
    <2>6. PoolState'
      <3>1. notFull_' \subseteq Producers
        BY <1>0, <2>3
      <3> QED
        BY <1>1, <1>4, <2>1, <2>4, <2>5, <3>1 DEF PoolState
    <2>7. Starts'
      BY <1>0, <1>1, <2>1, <2>2 DEF Starts, StartedHasTid
    <2>8. Waits'
      <3>1. IsPool' /\ threads_' = 0 => FALSE
        BY <1>1, <1>4 DEF Waits, IsPool
      <3> QED
        BY <1>0, <1>1, <1>4, <2>2, <2>3, <3>1 DEF Waits
    <2>9. Left \in Nat /\ Left' = Left + 1
      <3>1. Left \in Nat
        BY DEF Tasks
      <3> QED
        BY <1>0, <1>1, <2>4, <3>1 DEF Left
    <2>10. Head(queue_) = Left + 1
      <3>1. 1 \in DOMAIN queue_
        BY <1>0, <2>4
      <3> QED
        BY <2>4, <3>1 DEF Tasks
    <2>11. Tasks'
      <3>1. \A i \in DOMAIN queue_' : queue_'[i] = Left' + i
        <4>1. SUFFICES ASSUME NEW i \in 1 .. (Len(queue_) - 1)
                       PROVE  queue_'[i] = Left' + i
          BY <2>4
        <4>2. i + 1 \in 1 .. Len(queue_) /\ i \in Nat
          BY <1>0
        <4>3. queue_[i + 1] = Left + (i + 1)
          BY <2>4, <4>2 DEF Tasks
        <4> QED
          BY <2>4, <2>9, <4>2, <4>3
      <3>2. \A u \in WorkerSet : u # t => task'[u] = task[u]
        BY <2>5, ThreadsFacts
      <3>3. Range(done) \cup ({task[u] : u \in WorkerSet} \ {0}) = 1 .. Left
        BY DEF Tasks
      <3>4. Left + 1 \notin 1 .. Left /\ Left + 1 # 0
        BY <2>9
      <3>5. task'[t] = Left + 1 /\ task[t] = 0
        BY <1>1, <2>5, <2>10 DEF Tasks
      <3>6. \A u \in WorkerSet : task[u] # Left + 1
        BY <3>3, <3>4
      <3>7. \A u \in WorkerSet : task'[u] # 0 <=> at'[u] = "task"
        BY <2>1, <2>2, <3>2, <3>4, <3>5 DEF Tasks
      <3>8. \A s, u \in WorkerSet : task'[s] = task'[u] /\ task'[s] # 0 => s = u
        BY <3>2, <3>5, <3>6 DEF Tasks
      <3>9. \A u \in WorkerSet : task'[u] \notin Range(done)
        BY <3>2, <3>3, <3>4, <3>5 DEF Tasks
      <3>10. {task'[u] : u \in WorkerSet} \ {0}
               = ({task[u] : u \in WorkerSet} \ {0}) \cup {Left + 1}
        BY <3>2, <3>4, <3>5
      <3>11. 1 .. (Left + 1) = (1 .. Left) \cup {Left + 1}
        BY <2>9
      <3>12. Range(done) \cup ({task'[u] : u \in WorkerSet} \ {0}) = 1 .. Left'
        BY <2>9, <3>3, <3>10, <3>11
      <3>13. Left' \in Nat
        BY <2>9
      <3> QED
        BY <1>1, <3>1, <3>7, <3>8, <3>9, <3>12, <3>13 DEF Tasks
    <2>12. Served'
      <3>0. /\ Serving \in SUBSET WorkerSet /\ Serving' \in SUBSET WorkerSet
            /\ Pushing \in SUBSET Producers /\ Pushing' \in SUBSET Producers
        BY DEF Serving, Pushing
      <3>1. /\ Cardinality(Serving) \in Nat /\ Cardinality(Serving') \in Nat
            /\ Cardinality(Pushing) \in Nat /\ Cardinality(Pushing') \in Nat
        BY <3>0, ThreadsFacts, CountFacts
      <3>2. notEmpty_' # {} => Len(queue_') <= Cardinality(Serving')
        <4>1. Serving' = Serving
          BY <1>1, <1>4, <2>1, <2>2 DEF Serving, Active
        <4>2. notEmpty_' # {} => Len(queue_) <= Cardinality(Serving)
          BY <1>4 DEF Served
        <4> QED
          BY <1>0, <2>4, <3>1, <4>1, <4>2, SMTT(40)
      <3>3. ASSUME notFull_' # {}
            PROVE  maxQueueSize_ <= Len(queue_') + Cardinality(Pushing')
        <4>1. CASE maxQueueSize_ > 0
          <5>1. PICK u \in notFull_ : notFull_' = notFull_ \ {u}
            BY <1>4, <3>3, <4>1 DEF Notified
          <5>2. at[u] = "put" /\ u \in Producers
            BY <1>0 DEF Waits
          <5>3. u \in Pushing' /\ Pushing \subseteq Pushing' \ {u}
            BY <2>2, <5>1, <5>2 DEF Pushing
          <5>4. Cardinality(Pushing) + 1 <= Cardinality(Pushing')
            BY <3>0, <5>3, ThreadsFacts, CountFacts
          <5>5. maxQueueSize_ <= Len(queue_) + Cardinality(Pushing)
            BY <5>1 DEF Served
          <5> QED
            BY <1>0, <2>4, <3>1, <5>4, <5>5
        <4>2. CASE ~(maxQueueSize_ > 0)
          BY <1>0, <2>4, <3>1, <4>2
        <4> QED
          BY <4>1, <4>2
      <3> QED
        BY <1>1, <1>4, <3>2, <3>3 DEF Served, IsPool
    <2> QED
      BY <2>6, <2>7, <2>8, <2>11, <2>12
  <1> QED
    BY <1>2, <1>3, <1>4 DEF take, popBounded

\* A task is run to its end.
LEMMA RunTaskKeeps ==
    ASSUME PoolCore, NEW t \in WorkerSet, runTask(t)
    PROVE  PoolCore'
  <1> USE DEF PoolCore
  <1>0. /\ at \in [Members -> Steps] /\ task \in [Members -> Nat]
        /\ notEmpty_ \subseteq WorkerSet /\ notFull_ \subseteq Producers
        /\ t \in Members /\ t # Main /\ t \notin Producers
        /\ \A i \in DOMAIN Workers : Workers[i] \in WorkerSet
        /\ done \in Seq(Nat)
    BY ThreadsFacts, ThreadsAssumption DEF PoolState
  <1>1. /\ at[t] = "task" /\ done' = Append(done, task[t])
        /\ task' = [task EXCEPT ![t] = 0]
        /\ at' = [at EXCEPT ![t] = "loop"]
        /\ UNCHANGED <<kind, maxQueueSize_, running_, queue_, notEmpty_, notFull_,
                       threads_, tid_, count_, condition_, puts>>
    BY DEF runTask
  <1>2. /\ at' \in [Members -> Steps] /\ at'[t] = "loop"
        /\ \A u \in Members : u # t => at'[u] = at[u]
    BY <1>0, <1>1 DEF Steps
  <1>3. /\ \A u \in WorkerSet : u # t => at'[u] = at[u]
        /\ \A u \in Producers : at'[u] = at[u]
        /\ at'[Main] = at[Main]
    BY <1>0, <1>2, ThreadsFacts
  <1>4. /\ task' \in [Members -> Nat] /\ task'[t] = 0
        /\ \A u \in WorkerSet : u # t => task'[u] = task[u]
    BY <1>0, <1>1, ThreadsFacts
  <1>5. task[t] \in Nat /\ done' \in Seq(Nat)
    BY <1>0, <1>1
  <1>6. PoolState'
    BY <1>1, <1>2, <1>4, <1>5 DEF PoolState
  <1>7. Starts'
    BY <1>0, <1>1, <1>2, <1>3 DEF Starts, StartedHasTid
  <1>8. Waits'
    BY <1>0, <1>1, <1>3 DEF Waits, IsPool
  <1>9. Tasks'
    <2>1. /\ IsInjective(done) /\ task[t] \notin Range(done) /\ task[t] # 0
          /\ \A u \in WorkerSet : task[u] \notin Range(done)
          /\ \A u \in WorkerSet : u # t => task[u] # task[t]
          /\ Range(done) \cup ({task[u] : u \in WorkerSet} \ {0}) = 1 .. Left
          /\ Left \in Nat
      BY <1>1 DEF Tasks
    <2>2. IsInjective(done') /\ Range(done') = Range(done) \cup {task[t]}
      BY <1>0, <1>1, <1>5, <2>1, RangeFacts
    <2>3. Left' = Left
      BY <1>1 DEF Left
    <2>4. 0 \notin Range(done')
      <3>1. 0 \notin 1 .. Left
        BY <2>1
      <3> QED
        BY <2>1, <2>2, <3>1
    <2>5. \A u \in WorkerSet : task'[u] \notin Range(done')
      BY <1>4, <2>1, <2>2, <2>4
    <2>6. Range(done') \cup ({task'[u] : u \in WorkerSet} \ {0}) = 1 .. Left'
      <3>1. {task[u] : u \in WorkerSet} \ {0}
               = ({task'[u] : u \in WorkerSet} \ {0}) \cup {task[t]}
        BY <1>4, <2>1
      <3> QED
        BY <2>1, <2>2, <2>3, <3>1
    <2>7. \A u \in WorkerSet : task'[u] # 0 <=> at'[u] = "task"
      BY <1>2, <1>3, <1>4 DEF Tasks
    <2>8. \A s, u \in WorkerSet : task'[s] = task'[u] /\ task'[s] # 0 => s = u
      BY <1>4 DEF Tasks
    <2> QED
      BY <1>1, <2>1, <2>2, <2>3, <2>5, <2>6, <2>7, <2>8 DEF Tasks
  <1>10. Served'
    <2>1. Serving \subseteq Serving' /\ Pushing \subseteq Pushing'
      BY <1>1, <1>2, <1>3 DEF Serving, Pushing, Active
    <2> QED
      BY <1>1, <2>1, ServedKept
  <1> QED
    BY <1>6, <1>7, <1>8, <1>9, <1>10

\* stop and join in the main thread, and a wakeup that nobody sent.
LEMMA StopKeeps ==
    ASSUME PoolCore, stop \/ join \/ \E t \in Members : spuriousWakeup(t)
    PROVE  PoolCore'
  <1> USE DEF PoolCore
  <1>0. /\ at \in [Members -> Steps]
        /\ notEmpty_ \subseteq WorkerSet /\ notFull_ \subseteq Producers
        /\ condition_ \subseteq {Main} /\ Main \in Members
        /\ \A i \in DOMAIN Workers : Workers[i] \in WorkerSet
    BY ThreadsFacts, ThreadsAssumption DEF PoolState
  <1>1. ASSUME NEW s \in {"join", "stopped"}, at' = [at EXCEPT ![Main] = s],
               at[Main] \in {"started", "join"}, running_' \in BOOLEAN,
               notEmpty_' \subseteq notEmpty_,
               IsPool /\ running_ /\ notEmpty_' # {} => running_',
               UNCHANGED <<kind, maxQueueSize_, queue_, notFull_, threads_, tid_,
                           count_, condition_, task, puts, done>>
        PROVE  PoolCore'
    <2>1. /\ at' \in [Members -> Steps] /\ at'[Main] = s
          /\ \A u \in Members : u # Main => at'[u] = at[u]
      BY <1>0, <1>1 DEF Steps
    <2>2. /\ \A u \in WorkerSet : at'[u] = at[u]
          /\ \A u \in Producers : at'[u] = at[u]
      BY <1>0, <2>1, ThreadsFacts
    <2>3. PoolState'
      BY <1>0, <1>1, <2>1 DEF PoolState
    <2>4. Starts'
      BY <1>0, <1>1, <2>1, <2>2 DEF Starts, StartedHasTid
    <2>5. Waits'
      BY <1>0, <1>1, <2>1, <2>2 DEF Waits, IsPool
    <2>6. Tasks'
      BY <1>1, <2>2, TasksKept
    <2>7. Served'
      <3>1. Serving \subseteq Serving' /\ Pushing \subseteq Pushing'
        BY <1>1, <2>2 DEF Serving, Pushing
      <3> QED
        BY <1>1, <3>1, ServedKept
    <2> QED
      BY <2>3, <2>4, <2>5, <2>6, <2>7
  <1>2. CASE stop
    <2>1. /\ at' = [at EXCEPT ![Main] = "join"] /\ at[Main] = "started"
          /\ running_' = FALSE /\ notEmpty_' = {}
          /\ UNCHANGED <<kind, maxQueueSize_, queue_, notFull_, threads_, tid_,
                         count_, condition_, task, puts, done>>
      BY <1>2 DEF stop, AfterNotifyAll
    <2>2. running_' \in BOOLEAN
      BY <2>1
    <2> QED
      BY <1>1, <2>1, <2>2
  <1>3. CASE join
    <2>1. /\ at' = [at EXCEPT ![Main] = "stopped"] /\ at[Main] = "join"
          /\ UNCHANGED <<kind, maxQueueSize_, running_, queue_, notEmpty_, notFull_,
                         threads_, tid_, count_, condition_, task, puts, done>>
      BY <1>3 DEF join
    <2>2. running_' \in BOOLEAN
      BY <2>1 DEF PoolState
    <2> QED
      BY <1>1, <2>1, <2>2
  <1>4. ASSUME NEW t \in Members, spuriousWakeup(t)
        PROVE  PoolCore'
    <2>1. /\ notEmpty_' = notEmpty_ \ {t} /\ notFull_' = notFull_ \ {t}
          /\ condition_' = condition_ \ {t}
          /\ UNCHANGED <<kind, maxQueueSize_, running_, queue_, threads_, tid_,
                         count_, at, task, puts, done>>
      BY <1>4 DEF spuriousWakeup
    <2>2. PoolState'
      BY <2>1 DEF PoolState
    <2>3. Starts' /\ Waits' /\ Tasks'
      BY <2>1 DEF Starts, StartedHasTid, Waits, Tasks, Left, IsPool
    <2>4. Serving \subseteq Serving' /\ Pushing \subseteq Pushing'
      BY <2>1 DEF Serving, Pushing
    <2>5. Served'
      BY <2>1, <2>4, ServedKept
    <2> QED
      BY <2>2, <2>3, <2>5
  <1> QED
    BY <1>2, <1>3, <1>4

\* A pool that was just constructed satisfies the invariant.
LEMMA PoolCoreInit ==
    ASSUME PoolInit PROVE PoolCore
  <1> USE DEF PoolInit
  <1>1. maxQueueSize_ \in Nat
    BY PoolAssumption
  <1>2. /\ \A t \in WorkerSet : t \in Members /\ at[t] = "none"
        /\ \A t \in Producers : at[t] = "none"
        /\ at[Main] = "start"
    BY ThreadsFacts
  <1>3. Len(Workers) \in Nat /\ \A i \in DOMAIN Workers : Workers[i] \in WorkerSet
    BY ThreadsAssumption
  <1>4. PoolState
    <2>1. at \in [Members -> Steps] /\ task \in [Members -> Nat]
      BY DEF Steps
    <2>2. tid_ \in [WorkerSet -> BOOLEAN] /\ count_ \in [WorkerSet -> 0 .. 1]
      BY DEF LatchCount
    <2>3. running_ \in BOOLEAN
      OBVIOUS
    <2>4. <<>> \in Seq(Nat) /\ <<>> \in Seq(Producers) /\ threads_ \in 0 .. Len(Workers)
      BY <1>3
    <2> QED
      BY <1>1, <2>1, <2>2, <2>3, <2>4 DEF PoolState
  <1>5. Starts
    <2>1. StartedHasTid
      BY DEF StartedHasTid
    <2> QED
      BY <1>2, <1>3, <2>1 DEF Starts, LatchCount
  <1>6. Waits
    BY <1>2 DEF Waits
  <1>7. Tasks
    <2>1. Left = 0 /\ Range(done) = {} /\ IsInjective(done)
      BY DEF Left, Range, IsInjective
    <2>2. \A t \in WorkerSet : task[t] = 0
      BY <1>2
    <2>3. {task[t] : t \in WorkerSet} \ {0} = {} /\ 1 .. Left = {}
      BY <2>1, <2>2
    <2> QED
      BY <1>2, <2>1, <2>2, <2>3 DEF Tasks
  <1>8. Served
    BY DEF Served
  <1> QED
    BY <1>4, <1>5, <1>6, <1>7, <1>8 DEF PoolCore

\* Every step keeps the invariant.
LEMMA PoolCoreStep ==
    ASSUME PoolCore, [PoolNext]_poolVars PROVE PoolCore'
  <1>1. CASE Starting
    BY <1>1, StartingKeeps DEF Starting
  <1>2. CASE stop \/ join \/ \E t \in Members : spuriousWakeup(t)
    BY <1>2, StopKeeps
  <1>3. ASSUME NEW t \in WorkerSet, WorkerStep(t) PROVE PoolCore'
    BY <1>3, ThreadMovesKeeps, TakeKeepsPool, RunTaskKeeps DEF WorkerStep
  <1>4. ASSUME NEW t \in Producers, run(t) PROVE PoolCore'
    BY <1>4, RunKeeps
  <1>5. CASE UNCHANGED poolVars
    <2> USE <1>5 DEF poolVars, PoolCore
    <2>1. PoolState'
      BY DEF PoolState
    <2>2. Starts' /\ Waits'
      BY DEF Starts, StartedHasTid, Waits, IsPool
    <2>3. Tasks' /\ Served'
      BY DEF Tasks, Left, Served, Serving, Pushing, IsPool
    <2> QED
      BY <2>1, <2>2, <2>3
  <1> QED
    BY <1>1, <1>2, <1>3, <1>4, <1>5 DEF PoolNext

\* The pool never leaves its invariant.
THEOREM PoolInvariant == PoolSpec => []PoolCore
  <1>1. PoolInit => PoolCore
    BY PoolCoreInit
  <1>2. PoolCore /\ [PoolNext]_poolVars => PoolCore'
    BY PoolCoreStep
  <1> QED
    BY <1>1, <1>2, PTL DEF PoolSpec

\* While tasks wait a worker is awake for each, while there is room so is a
\* producer that waits for it: the notify calls of ThreadPool.cc,
\* BlockingQueue.h and BoundedBlockingQueue.h suffice.
THEOREM WakeupsAreNotMissed == PoolSpec => []NoMissedWakeup
  <1>1. ASSUME PoolCore PROVE NoMissedWakeup
    <2>1. /\ notEmpty_ \subseteq WorkerSet /\ notFull_ \subseteq Producers
          /\ condition_ \subseteq {Main}
      BY <1>1 DEF PoolCore, PoolState
    <2>2. {t \in WorkerSet : Awake(t) /\ at[t] \in {"created", "countDown", "loop",
                                                    "take", "task"}} = Serving
      BY <2>1, ThreadsFacts DEF Serving, Active, Awake
    <2>3. {t \in Producers : at[t] = "put" /\ Awake(t)} = Pushing
      BY <2>1, ThreadsFacts DEF Pushing, Awake
    <2> QED
      BY <1>1, <2>2, <2>3 DEF PoolCore, Served, NoMissedWakeup
  <1> QED
    BY <1>1, PoolInvariant, PTL

\* As many numbers are out as threads have a task.
LEMMA OutCount ==
    ASSUME PoolCore
    PROVE  LET out == {task[t] : t \in WorkerSet} \ {0} IN
           /\ Cardinality(out) = Cardinality({t \in WorkerSet : task[t] # 0})
           /\ Len(puts) = Len(queue_) + Cardinality(out) + Len(done)
  <1> DEFINE out == {task[t] : t \in WorkerSet} \ {0}
             busy == {t \in WorkerSet : task[t] # 0}
             f == [t \in busy |-> task[t]]
  <1> USE DEF PoolCore
  <1>1. IsFiniteSet(busy)
    <2>1. busy \in SUBSET WorkerSet
      OBVIOUS
    <2> HIDE DEF busy
    <2> QED
      BY <2>1, ThreadsFacts, FS_Subset
  <1>2. f \in Bijection(busy, out)
    <2>1. f \in [busy -> out]
      OBVIOUS
    <2>2. IsInjective(f)
      BY DEF IsInjective, Tasks
    <2>3. \A x \in out : \E t \in busy : f[t] = x
      OBVIOUS
    <2> QED
      BY <2>1, <2>2, <2>3 DEF Bijection, Injection, Surjection
  <1>3. IsFiniteSet(out) /\ Cardinality(out) = Cardinality(busy)
    <2> HIDE DEF out, busy, f
    <2>1. ExistsBijection(busy, out)
      BY <1>2 DEF ExistsBijection
    <2> QED
      BY <1>1, <2>1, FS_Bijection
  <1>4. IsFiniteSet(Range(done)) /\ Cardinality(Range(done)) = Len(done)
    <2>1. done \in [1 .. Len(done) -> Range(done)] /\ Len(done) \in Nat
          /\ DOMAIN done = 1 .. Len(done)
      BY DEF PoolState, Range
    <2>2. done \in Bijection(1 .. Len(done), Range(done))
      BY <2>1 DEF Bijection, Injection, Surjection, Range, Tasks
    <2>3. ExistsBijection(1 .. Len(done), Range(done))
      BY <2>2 DEF ExistsBijection
    <2>4. IsFiniteSet(1 .. Len(done)) /\ Cardinality(1 .. Len(done)) = Len(done)
      <3>1. /\ IsFiniteSet(1 .. Len(done))
            /\ Cardinality(1 .. Len(done)) =
                    IF 1 > Len(done) THEN 0 ELSE Len(done) - 1 + 1
        BY <2>1, FS_Interval
      <3> QED
        BY <2>1, <3>1
    <2> QED
      BY <2>3, <2>4, FS_Bijection
  <1>5. Range(done) \cap out = {} /\ Range(done) \cup out = 1 .. Left /\ Left \in Nat
    BY DEF Tasks
  <1>6. Cardinality(1 .. Left) = Left
    <2>1. Cardinality(1 .. Left) = IF 1 > Left THEN 0 ELSE Left - 1 + 1
      BY <1>5, FS_Interval
    <2> QED
      BY <1>5, <2>1
  <1>7. Cardinality(Range(done) \cup out)
            = Cardinality(Range(done)) + Cardinality(out) - 0
    <2> HIDE DEF out
    <2>1. Cardinality(Range(done) \cap out) = 0
      BY <1>5, FS_EmptySet
    <2> QED
      BY <1>3, <1>4, <2>1, FS_Union
  <1>8. Cardinality(out) \in Nat /\ Len(done) \in Nat /\ Len(puts) \in Nat
        /\ Len(queue_) \in Nat
    BY <1>3, FS_CardinalityType DEF PoolState
  <1>9. Left = Len(done) + Cardinality(out)
    <2> HIDE DEF out, PoolCore
    <2>1. PICK l : l = Left
      OBVIOUS
    <2>2. PICK d : d = Cardinality(Range(done))
      OBVIOUS
    <2>3. PICK o : o = Cardinality(out)
      OBVIOUS
    <2>4. Cardinality(Range(done) \cup out) = l
      <3>1. Range(done) \cup out = 1 .. Left
        BY <1>5
      <3> QED
        BY <3>1, <1>6, <2>1 DEF Left
    <2>5. l = d + o - 0
      BY <1>7, <2>2, <2>3, <2>4
    <2>6. d \in Nat /\ o \in Nat /\ d = Len(done)
      BY <1>4, <1>8, <2>2, <2>3
    <2>7. l = d + o
      BY <2>5, <2>6
    <2> QED
      BY <2>1, <2>3, <2>6, <2>7
  <1>10. Len(puts) = Len(queue_) + Cardinality(out) + Len(done)
    <2> HIDE DEF out
    <2> QED
      BY <1>8, <1>9 DEF Left
  <1> QED
    BY <1>3, <1>10

\* No task is lost, run twice or overtaken in the queue, and Thread::start
\* returns only when the new thread has its tid.
THEOREM PoolIsSafe == PoolSpec => []PoolInv
  <1>1. ASSUME PoolCore PROVE PoolInv
    <2> USE <1>1 DEF PoolCore
    <2> DEFINE out == {task[t] : t \in WorkerSet} \ {0}
    <2>1. /\ queue_ \in Seq(Nat) /\ DOMAIN queue_ = 1 .. Len(queue_)
          /\ Len(queue_) \in Nat /\ Len(puts) \in Nat /\ Left \in Nat
          /\ Len(puts) = Left + Len(queue_)
      BY DEF PoolState, Tasks, Left
    <2>2. \A i \in 1 .. Len(queue_) : queue_[i] = Left + i
      BY <2>1 DEF Tasks
    <2>3. Range(queue_) = (Left + 1) .. Len(puts)
      <3>1. \A x \in Range(queue_) : x \in (Left + 1) .. Len(puts)
        BY <2>1, <2>2 DEF Range
      <3>2. ASSUME NEW x \in (Left + 1) .. Len(puts) PROVE x \in Range(queue_)
        <4>1. x - Left \in 1 .. Len(queue_) /\ x = Left + (x - Left)
          BY <2>1
        <4>2. queue_[x - Left] = x
          BY <2>2, <4>1
        <4> QED
          BY <2>1, <4>1, <4>2 DEF Range
      <3> QED
        BY <3>1, <3>2
    <2>4. Range(done) \cup out = 1 .. Left
      BY DEF Tasks
    <2> HIDE DEF out
    <2>5. \A x \in Range(done) \cup out : x \in Nat /\ x >= 1 /\ x <= Left
      BY <2>1, <2>4
    <2>6. PoolTypeOK
      <3>1. Range(queue_) \cup Range(done) \subseteq 1 .. Len(puts)
        BY <2>1, <2>3, <2>5
      <3> QED
        BY <3>1 DEF PoolState, PoolTypeOK
    <2>7. 1 .. Len(puts) = Range(queue_) \cup out \cup Range(done)
      <3>1. 1 .. Len(puts) = (1 .. Left) \cup ((Left + 1) .. Len(puts))
        BY <2>1
      <3> QED
        BY <2>3, <2>4, <3>1
    <2>8. IsInjective(queue_)
      BY <2>1, <2>2 DEF IsInjective
    <2>9. \A x \in Range(queue_), y \in out \cup Range(done) : y < x
      BY <2>1, <2>3, <2>5
    <2>10. TasksConserved
      BY <2>7, <2>8, <2>9, OutCount DEF TasksConserved, Tasks, out
    <2> QED
      BY <2>6, <2>10 DEF PoolInv, Starts
  <1> QED
    BY <1>1, PoolInvariant, PTL
-----------------------------------------------------------------------------
(* AsyncLogging: the inductive invariant *)

\* The lines of a buffer that are no reports, and those of several buffers
Real(s) == Range(s) \ {0}
Lines(q) == UNION {Real(q[i]) : i \in DOMAIN q}

Below(S, T) == \A x \in S, y \in T : x < y

Ordered(q) ==
    /\ \A i \in DOMAIN q : Increasing(q[i])
    /\ \A i, j \in DOMAIN q : i < j => Older(q[i], q[j])

File == [name : Nat, lines : Seq(Nat), flushed : Nat]

\* A LogFile has one file open, that of the last roll, and the names of the
\* files it closed are older ones.
GoodLogFile(f) ==
    /\ f \in [old : Seq(File), file : Seq(File), count_ : Nat,
              startOfPeriod_ : Nat, lastRoll_ : Nat, lastFlush_ : Nat]
    /\ Len(f.file) = 1 /\ f.file[1].name = f.lastRoll_
    /\ \A i \in DOMAIN f.old : f.old[i].name < f.lastRoll_
    /\ \A i, j \in DOMAIN f.old : i < j => f.old[i].name < f.old[j].name

LogState ==
    /\ logging_ \in BOOLEAN /\ nextBuffer_ \in BOOLEAN
    /\ newBuffer1 \in BOOLEAN /\ newBuffer2 \in BOOLEAN
    /\ currentBuffer_ \in Seq(Nat) /\ Len(currentBuffer_) < kLargeBuffer
    /\ buffers_ \in Seq(Seq(Nat)) /\ buffersToWrite \in Seq(Seq(Nat))
    /\ where \in {"none", "loop", "swap", "drop", "write", "end"}
    /\ appended \in 0 .. MaxLines /\ seconds \in 1 .. MaxSeconds
    /\ next \in 1 .. Len(buffersToWrite) + 1
    /\ dropped \subseteq 0 .. appended
    /\ where # "none" => GoodLogFile(logFile) /\ logFile.lastRoll_ <= seconds

\* The thread has, or gets back from what it writes, two empty buffers.
Spares ==
    /\ asserts = TRUE
    /\ ~nextBuffer_ => buffers_ # <<>>
    /\ where \notin {"drop", "write"} => buffersToWrite = <<>>
    /\ where \in {"loop", "swap"} => newBuffer1 /\ newBuffer2
    /\ where \in {"drop", "write"} => Len(buffersToWrite) >= Needed

\* n lines, but for those in d, are in the files F, in the buffers G that the
\* thread took, in the full ones B and in the current one c, each of these
\* older than the next.
Chain(F, G, B, c, n, d) ==
    /\ Ordered(F) /\ Ordered(G) /\ Ordered(B) /\ Increasing(c)
    /\ Below(Lines(F), Lines(G))
    /\ Below(Lines(F) \cup Lines(G), Lines(B))
    /\ Below(Lines(F) \cup Lines(G) \cup Lines(B), Real(c))
    /\ Lines(F) \cup Lines(G) \cup Lines(B) \cup Real(c) = (1 .. n) \ d

LogOrder == Chain(Files, ToGo, buffers_, currentBuffer_, appended, dropped)

LogCore == LogState /\ Spares /\ LogOrder

-----------------------------------------------------------------------------
(* Buffers and their lines *)

\* What putting lines together does to their order.
LEMMA IncreasingFacts ==
    /\ Increasing(<<>>) /\ Real(<<>>) = {}
    /\ Real(<< 0 >>) = {} /\ Increasing(<< 0 >>)
    /\ \A s, t \in Seq(Nat) :
        /\ Real(s \o t) = Real(s) \cup Real(t)
        /\ Increasing(s) /\ Increasing(t) /\ Below(Real(s), Real(t))
               => Increasing(s \o t)
    /\ \A x \in Nat \ {0} : Increasing(<<x>>) /\ Real(<<x>>) = {x}
  <1>1. Increasing(<<>>) /\ Real(<<>>) = {}
    BY DEF Increasing, Real, Range
  <1>2. Real(<< 0 >>) = {} /\ Increasing(<< 0 >>)
    BY DEF Increasing, Real, Range
  <1>3. \A x \in Nat \ {0} : Increasing(<<x>>) /\ Real(<<x>>) = {x}
    BY DEF Increasing, Real, Range
  <1>4. ASSUME NEW s \in Seq(Nat), NEW t \in Seq(Nat)
        PROVE  Real(s \o t) = Real(s) \cup Real(t)
    BY RangeConcat DEF Real
  <1>5. ASSUME NEW s \in Seq(Nat), NEW t \in Seq(Nat),
               Increasing(s), Increasing(t), Below(Real(s), Real(t))
        PROVE  Increasing(s \o t)
    <2> SUFFICES ASSUME NEW i \in DOMAIN (s \o t), NEW j \in DOMAIN (s \o t),
                        i < j, (s \o t)[i] # 0, (s \o t)[j] # 0
                 PROVE  (s \o t)[i] < (s \o t)[j]
      BY DEF Increasing
    <2>1. /\ DOMAIN s = 1 .. Len(s) /\ DOMAIN t = 1 .. Len(t)
          /\ Len(s) \in Nat /\ Len(t) \in Nat
          /\ i \in 1 .. Len(s) + Len(t) /\ j \in 1 .. Len(s) + Len(t)
          /\ (s \o t)[i] = IF i <= Len(s) THEN s[i] ELSE t[i - Len(s)]
          /\ (s \o t)[j] = IF j <= Len(s) THEN s[j] ELSE t[j - Len(s)]
      OBVIOUS
    <2>2. CASE j <= Len(s)
      BY <1>5, <2>1, <2>2 DEF Increasing
    <2>3. CASE i > Len(s)
      BY <1>5, <2>1, <2>3 DEF Increasing
    <2>4. CASE i <= Len(s) /\ j > Len(s)
      <3>1. s[i] \in Real(s) /\ t[j - Len(s)] \in Real(t)
        BY <2>1, <2>4 DEF Real, Range
      <3> QED
        BY <1>5, <2>1, <2>4, <3>1 DEF Below
    <2> QED
      BY <2>1, <2>2, <2>3, <2>4
  <1> QED
    BY <1>1, <1>2, <1>3, <1>4, <1>5

\* One buffer after another.
LEMMA OrderedAppend ==
    ASSUME NEW q \in Seq(Seq(Nat)), NEW s \in Seq(Nat)
    PROVE  /\ Append(q, s) \in Seq(Seq(Nat))
           /\ Lines(Append(q, s)) = Lines(q) \cup Real(s)
           /\ Ordered(q) /\ Increasing(s) /\ Below(Lines(q), Real(s))
                  => Ordered(Append(q, s))
  <1>1. /\ Len(q) \in Nat /\ DOMAIN q = 1 .. Len(q)
        /\ DOMAIN Append(q, s) = 1 .. Len(q) + 1
        /\ \A i \in 1 .. Len(q) : Append(q, s)[i] = q[i]
        /\ Append(q, s)[Len(q) + 1] = s
        /\ Append(q, s) \in Seq(Seq(Nat))
    OBVIOUS
  <1> DEFINE r == Append(q, s)
  <1>2. r = Append(q, s)
    OBVIOUS
  <1> HIDE DEF r
  <1>3. Lines(r) = Lines(q) \cup Real(s)
    <2>1. \A i \in DOMAIN r : i \in DOMAIN q \/ i = Len(q) + 1
      BY <1>1, <1>2
    <2>2. Len(q) + 1 \in DOMAIN r /\ \A i \in DOMAIN q : i \in DOMAIN r
      BY <1>1, <1>2
    <2>3. \A i \in DOMAIN q : r[i] = q[i]
      BY <1>1, <1>2
    <2>4. r[Len(q) + 1] = s
      BY <1>1, <1>2
    <2> QED
      BY <2>1, <2>2, <2>3, <2>4 DEF Lines
  <1>4. ASSUME Ordered(q), Increasing(s), Below(Lines(q), Real(s))
        PROVE  Ordered(r)
    <2>1. \A i \in DOMAIN r : Increasing(r[i])
      BY <1>1, <1>2, <1>4 DEF Ordered
    <2>2. ASSUME NEW i \in DOMAIN r, NEW j \in DOMAIN r, i < j
          PROVE  Older(r[i], r[j])
      <3>1. i \in DOMAIN q /\ r[i] = q[i]
        BY <1>1, <1>2, <2>2
      <3>2. CASE j \in DOMAIN q
        BY <1>1, <1>2, <1>4, <2>2, <3>1, <3>2 DEF Ordered
      <3>3. CASE j = Len(q) + 1
        <4>1. Real(r[i]) \subseteq Lines(q)
          BY <3>1 DEF Lines
        <4>2. r[j] = s
          BY <1>1, <1>2, <3>3
        <4> QED
          BY <1>4, <4>1, <4>2 DEF Below, Older, Real
      <3> QED
        BY <1>1, <1>2, <3>2, <3>3
    <2> QED
      BY <2>1, <2>2 DEF Ordered
  <1> QED
    BY <1>1, <1>2, <1>3, <1>4

\* Some of the buffers, in a row.
LEMMA OrderedSub ==
    ASSUME NEW q \in Seq(Seq(Nat)), NEW m \in 1 .. Len(q) + 1,
           NEW n \in 0 .. Len(q)
    PROVE  /\ SubSeq(q, m, n) \in Seq(Seq(Nat))
           /\ Lines(SubSeq(q, m, n)) = UNION {Real(q[i]) : i \in m .. n}
           /\ Ordered(q) => Ordered(SubSeq(q, m, n))
  <1> DEFINE r == SubSeq(q, m, n)
             len == IF m <= n THEN n - m + 1 ELSE 0
  <1>1. /\ len \in Nat
        /\ Len(q) \in Nat /\ DOMAIN q = 1 .. Len(q) /\ r \in Seq(Seq(Nat))
        /\ DOMAIN r = 1 .. len /\ m \in Nat /\ n \in Nat
        /\ \A i \in 1 .. len : r[i] = q[m + i - 1] /\ m + i - 1 \in m .. n
        /\ \A i \in m .. n : i - m + 1 \in 1 .. len /\ m + (i - m + 1) - 1 = i
        /\ \A i \in 1 .. len : m + i - 1 \in 1 .. Len(q)
    OBVIOUS
  <1>2. \A i \in m .. n : r[i - m + 1] = q[i]
    BY <1>1
  <1> HIDE DEF r, len
  <1>3. Lines(r) = UNION {Real(q[i]) : i \in m .. n}
    <2>1. ASSUME NEW x \in Lines(r)
          PROVE  x \in UNION {Real(q[i]) : i \in m .. n}
      <3>1. PICK i \in DOMAIN r : x \in Real(r[i])
        BY DEF Lines
      <3> QED
        BY <1>1, <3>1
    <2>2. ASSUME NEW i \in m .. n, NEW x \in Real(q[i])
          PROVE  x \in Lines(r)
      BY <1>1, <1>2 DEF Lines
    <2> QED
      BY <2>1, <2>2
  <1>4. ASSUME Ordered(q)
        PROVE  Ordered(r)
    <2>1. \A i \in DOMAIN r : Increasing(r[i])
      BY <1>1, <1>4 DEF Ordered
    <2>2. ASSUME NEW i \in DOMAIN r, NEW j \in DOMAIN r, i < j
          PROVE  Older(r[i], r[j])
      <3>1. m + i - 1 \in DOMAIN q /\ m + j - 1 \in DOMAIN q
        BY <1>1
      <3>2. m + i - 1 < m + j - 1
        BY <1>1, <2>2
      <3> QED
        BY <1>1, <1>4, <3>1, <3>2 DEF Ordered
    <2> QED
      BY <2>1, <2>2 DEF Ordered
  <1> QED
    BY <1>1, <1>3, <1>4 DEF r

\* Groups of buffers one after another.
LEMMA OrderedConcat ==
    ASSUME NEW p \in Seq(Seq(Nat)), NEW q \in Seq(Seq(Nat))
    PROVE  /\ p \o q \in Seq(Seq(Nat))
           /\ Lines(p \o q) = Lines(p) \cup Lines(q)
           /\ Ordered(p) /\ Ordered(q) /\ Below(Lines(p), Lines(q))
                  => Ordered(p \o q)
  <1> DEFINE r == p \o q
  <1>1. /\ Len(p) \in Nat /\ DOMAIN p = 1 .. Len(p)
        /\ Len(q) \in Nat /\ DOMAIN q = 1 .. Len(q)
        /\ r \in Seq(Seq(Nat)) /\ DOMAIN r = 1 .. Len(p) + Len(q)
        /\ \A i \in DOMAIN p : r[i] = p[i]
        /\ \A i \in DOMAIN q : r[Len(p) + i] = q[i]
    OBVIOUS
  <1> HIDE DEF r
  <1>2. \A i \in DOMAIN r :
            \/ i \in DOMAIN p /\ r[i] = p[i]
            \/ /\ i > Len(p) /\ i - Len(p) \in DOMAIN q
               /\ r[i] = q[i - Len(p)]
    <2> TAKE i \in DOMAIN r
    <2>1. CASE i <= Len(p)
      BY <1>1, <2>1
    <2>2. CASE i > Len(p)
      <3>1. i - Len(p) \in DOMAIN q /\ Len(p) + (i - Len(p)) = i
        BY <1>1, <2>2
      <3> QED
        BY <1>1, <2>2, <3>1
    <2> QED
      BY <1>1, <2>1, <2>2
  <1>3. Lines(r) = Lines(p) \cup Lines(q)
    <2>1. \A i \in DOMAIN p : i \in DOMAIN r
      BY <1>1
    <2>2. \A i \in DOMAIN q : Len(p) + i \in DOMAIN r
      BY <1>1
    <2>3. Lines(p) \subseteq Lines(r)
      BY <1>1, <2>1 DEF Lines
    <2>4. Lines(q) \subseteq Lines(r)
      BY <1>1, <2>2 DEF Lines
    <2>5. Lines(r) \subseteq Lines(p) \cup Lines(q)
      BY <1>2 DEF Lines
    <2> QED
      BY <2>3, <2>4, <2>5
  <1>4. ASSUME Ordered(p), Ordered(q), Below(Lines(p), Lines(q))
        PROVE  Ordered(r)
    <2>1. \A i \in DOMAIN r : Increasing(r[i])
      BY <1>2, <1>4 DEF Ordered
    <2>2. ASSUME NEW i \in DOMAIN r, NEW j \in DOMAIN r, i < j
          PROVE  Older(r[i], r[j])
      <3>1. CASE j \in DOMAIN p /\ r[j] = p[j]
        <4>1. i \in DOMAIN p /\ r[i] = p[i]
          BY <1>1, <2>2, <3>1
        <4> QED
          BY <1>4, <2>2, <3>1, <4>1 DEF Ordered
      <3>2. CASE j > Len(p) /\ j - Len(p) \in DOMAIN q /\ r[j] = q[j - Len(p)]
        <4>1. CASE i \in DOMAIN p /\ r[i] = p[i]
          <5>1. Real(r[i]) \subseteq Lines(p) /\ Real(r[j]) \subseteq Lines(q)
            BY <3>2, <4>1 DEF Lines
          <5> QED
            BY <1>4, <5>1 DEF Below, Older, Real
        <4>2. CASE i > Len(p) /\ i - Len(p) \in DOMAIN q /\ r[i] = q[i - Len(p)]
          <5>1. i - Len(p) < j - Len(p)
            BY <1>1, <2>2
          <5> QED
            BY <1>4, <3>2, <4>2, <5>1 DEF Ordered
        <4> QED
          BY <1>2, <4>1, <4>2
      <3> QED
        BY <1>2, <3>1, <3>2
    <2> QED
      BY <2>1, <2>2 DEF Ordered
  <1> QED
    BY <1>1, <1>3, <1>4 DEF r

-----------------------------------------------------------------------------
(* LogFile *)

OldLines(f) == [i \in DOMAIN f.old |-> f.old[i].lines]

FilesOf(f) == Append(OldLines(f), f.file[1].lines)

\* The files, old ones first and then the open one.
LEMMA FilesFacts ==
    ASSUME NEW f, GoodLogFile(f)
    PROVE  /\ OldLines(f) \in Seq(Seq(Nat)) /\ f.file[1].lines \in Seq(Nat)
           /\ FilesOf(f) \in Seq(Seq(Nat))
           /\ LET s == f.old \o f.file IN
              [i \in DOMAIN s |-> s[i].lines] = FilesOf(f)
  <1> DEFINE n == Len(f.old)
             s == f.old \o f.file
             t == [i \in DOMAIN s |-> s[i].lines]
  <1>1. /\ f.old \in Seq(File) /\ f.file \in Seq(File) /\ Len(f.file) = 1
    BY DEF GoodLogFile
  <1>2. /\ n \in Nat /\ DOMAIN f.old = 1 .. n /\ f.file[1] \in File
        /\ \A i \in 1 .. n : f.old[i] \in File
    BY <1>1
  <1>3. OldLines(f) \in Seq(Seq(Nat)) /\ Len(OldLines(f)) = n
        /\ \A i \in 1 .. n : OldLines(f)[i] = f.old[i].lines
    BY <1>2 DEF OldLines, File
  <1>4. f.file[1].lines \in Seq(Nat)
    BY <1>2 DEF File
  <1>5. FilesOf(f) \in Seq(Seq(Nat)) /\ Len(FilesOf(f)) = n + 1
        /\ (\A i \in 1 .. n : FilesOf(f)[i] = f.old[i].lines)
        /\ FilesOf(f)[n + 1] = f.file[1].lines
    <2> HIDE DEF n
    <2> QED
      BY <1>3, <1>4, AppendAt DEF FilesOf
  <1>6. DOMAIN s = 1 .. n + 1 /\ (\A i \in 1 .. n : s[i] = f.old[i])
        /\ s[n + 1] = f.file[1]
    <2>1. s = Append(f.old, f.file[1])
      BY <1>1, OneElement
    <2> HIDE DEF s
    <2> QED
      BY <1>1, <1>2, <2>1, AppendAt
  <1>7. t \in Seq(Seq(Nat)) /\ Len(t) = n + 1
        /\ (\A i \in 1 .. n : t[i] = f.old[i].lines)
        /\ t[n + 1] = f.file[1].lines
    <2> HIDE DEF s, n
    <2>1. \A i \in 1 .. n + 1 : i \in 1 .. n \/ i = n + 1
      BY <1>2
    <2>2. \A i \in 1 .. n + 1 : s[i] \in File
      BY <1>2, <1>6, <2>1
    <2>3. \A i \in 1 .. n + 1 : s[i].lines \in Seq(Nat)
      BY <2>2 DEF File
    <2> QED
      BY <1>2, <1>6, <2>3
  <1>8. t = FilesOf(f)
    <2> HIDE DEF t, s, n
    <2>1. \A i \in 1 .. n + 1 : i \in 1 .. n \/ i = n + 1
      BY <1>2
    <2>2. \A i \in 1 .. n + 1 : t[i] = FilesOf(f)[i]
      BY <1>5, <1>7, <2>1
    <2> QED
      BY <1>2, <1>5, <1>7, <2>2
  <1> QED
    BY <1>3, <1>4, <1>5, <1>8

\* LogFile::rollFile keeps what was written, and takes a new name.
LEMMA RollFacts ==
    ASSUME NEW f, GoodLogFile(f), NEW now \in Nat, f.lastRoll_ <= now
    PROVE  /\ GoodLogFile(rollFile(f, now)) /\ rollFile(f, now).lastRoll_ <= now
           /\ \/ FilesOf(rollFile(f, now)) = FilesOf(f)
              \/ FilesOf(rollFile(f, now)) = Append(FilesOf(f), <<>>)
  <1> DEFINE g == rollFile(f, now)
             n == Len(f.old)
             period == (now \div kRollPerSeconds_) * kRollPerSeconds_
  <1>1. CASE ~MayRoll(f, now)
    BY <1>1 DEF rollFile
  <1>2. CASE MayRoll(f, now)
    <2>1. g = [f EXCEPT !.old = @ \o f.file, !.file = <<AppendFile(now)>>,
                        !.lastRoll_ = now, !.lastFlush_ = now,
                        !.startOfPeriod_ = period]
      BY <1>2 DEF rollFile
    <2>2. f \in [old : Seq(File), file : Seq(File), count_ : Nat,
                 startOfPeriod_ : Nat, lastRoll_ : Nat, lastFlush_ : Nat]
      BY DEF GoodLogFile
    <2>3. period \in Nat
      <3>1. now \div kRollPerSeconds_ \in Nat
        BY LoggingAssumption DEF LoggingAssumption
      <3> QED
        BY <3>1, LoggingAssumption DEF LoggingAssumption
    <2>4. AppendFile(now) \in File
      BY DEF AppendFile, File
    <2> HIDE DEF g, period
    <2>5. /\ g.old = f.old \o f.file /\ g.file = <<AppendFile(now)>>
          /\ g.lastRoll_ = now
          /\ g \in [old : Seq(File), file : Seq(File), count_ : Nat,
                    startOfPeriod_ : Nat, lastRoll_ : Nat, lastFlush_ : Nat]
      <3>1. PICK o \in Seq(File) : o = f.old \o f.file
        BY <2>2, ConcatAt
      <3>2. PICK a \in Seq(File) : a = <<AppendFile(now)>>
        BY <2>4, OneElement
      <3>3. g = [f EXCEPT !.old = o, !.file = a, !.lastRoll_ = now,
                          !.lastFlush_ = now, !.startOfPeriod_ = period]
        BY <2>1, <3>1, <3>2
      <3> QED
        BY <2>2, <2>3, <3>1, <3>2, <3>3
    <2>6. /\ n \in Nat /\ DOMAIN f.old = 1 .. n /\ Len(f.file) = 1
          /\ f.file[1].name = f.lastRoll_ /\ f.lastRoll_ < now
      BY <1>2, <2>2 DEF GoodLogFile, MayRoll
    <2>7. DOMAIN g.old = 1 .. n + 1 /\ (\A i \in 1 .. n : g.old[i] = f.old[i])
          /\ g.old[n + 1] = f.file[1]
      <3>1. f.old \in Seq(File) /\ f.file \in Seq(File) /\ f.file[1] \in File
        BY <2>2, <2>6
      <3>2. g.old = Append(f.old, f.file[1])
        <4>1. Len(f.file) = 1 /\ g.old = f.old \o f.file
          BY <2>5, <2>6
        <4>2. f.old \o f.file = Append(f.old, f.file[1])
          <5>1. PICK a \in Seq(File) : a = f.old
            BY <3>1
          <5>2. PICK b \in Seq(File) : b = f.file
            BY <3>1
          <5>3. Len(b) = 1 => a \o b = Append(a, b[1])
            BY OneElement
          <5> QED
            BY <4>1, <5>1, <5>2, <5>3
        <4> QED
          BY <4>1, <4>2
      <3> QED
        BY <2>6, <3>1, <3>2, AppendAt
    <2>8. /\ \A i \in 1 .. n : f.old[i].name < f.lastRoll_
          /\ \A i, j \in 1 .. n : i < j => f.old[i].name < f.old[j].name
          /\ \A i \in 1 .. n : f.old[i].name \in Nat
      <3>1. \A i \in 1 .. n : f.old[i] \in File
        BY <2>2, <2>6
      <3> QED
        BY <2>6, <3>1 DEF GoodLogFile, File
    <2> HIDE DEF n
    <2>9. \A i \in 1 .. n + 1 : i \in 1 .. n \/ i = n + 1
      BY <2>6
    <2>10. \A i \in DOMAIN g.old : g.old[i].name < g.lastRoll_
      <3>1. f.lastRoll_ \in Nat
        BY <2>2
      <3>2. \A i \in 1 .. n : g.old[i].name < now
        BY <2>6, <2>7, <2>8, <3>1
      <3> QED
        BY <2>5, <2>6, <2>7, <2>9, <3>2
    <2>11. \A i, j \in DOMAIN g.old : i < j => g.old[i].name < g.old[j].name
      <3> SUFFICES ASSUME NEW i \in 1 .. n + 1, NEW j \in 1 .. n + 1, i < j
                   PROVE  g.old[i].name < g.old[j].name
        BY <2>7
      <3>1. i \in 1 .. n
        BY <2>6
      <3>2. CASE j \in 1 .. n
        BY <2>7, <2>8, <3>1, <3>2
      <3>3. CASE j = n + 1
        BY <2>6, <2>7, <2>8, <3>1, <3>3
      <3> QED
        BY <2>9, <3>2, <3>3
    <2>12. g.file[1] = AppendFile(now) /\ Len(g.file) = 1
      BY <2>5
    <2>13. AppendFile(now).name = now /\ AppendFile(now).lines = <<>>
      BY DEF AppendFile
    <2>14. GoodLogFile(g)
      BY <2>5, <2>10, <2>11, <2>12, <2>13 DEF GoodLogFile
    <2>15. OldLines(g) = FilesOf(f)
      BY FilesFacts, <2>5 DEF OldLines
    <2> QED
      BY <2>5, <2>12, <2>13, <2>14, <2>15 DEF FilesOf, g
  <1> QED
    BY <1>1, <1>2

\* LogFile::flush writes nothing anew.
LEMMA FlushFacts ==
    ASSUME NEW f, GoodLogFile(f)
    PROVE  /\ GoodLogFile(flush(f)) /\ flush(f).lastRoll_ = f.lastRoll_
           /\ FilesOf(flush(f)) = FilesOf(f)
  <1> DEFINE g == flush(f)
  <1>1. f \in [old : Seq(File), file : Seq(File), count_ : Nat,
               startOfPeriod_ : Nat, lastRoll_ : Nat, lastFlush_ : Nat]
        /\ Len(f.file) = 1 /\ f.file[1] \in File
    BY DEF GoodLogFile
  <1>2. PICK m \in Nat : m = Len(f.file[1].lines)
    <2>1. f.file[1].lines \in Seq(Nat)
      BY <1>1 DEF File
    <2>2. Len(f.file[1].lines) \in Nat
      BY <2>1
    <2> QED
      BY <2>2
  <1>3. [f.file[1] EXCEPT !.flushed = m] \in File
    BY <1>1, <1>2 DEF File
  <1>4. [f.file EXCEPT ![1].flushed = m] \in Seq(File)
        /\ Len([f.file EXCEPT ![1].flushed = m]) = 1
        /\ [f.file EXCEPT ![1].flushed = m][1] = [f.file[1] EXCEPT !.flushed = m]
    BY <1>1, <1>3
  <1>5. g = [f EXCEPT !.file = [f.file EXCEPT ![1].flushed = m]]
    BY <1>2 DEF flush
  <1> HIDE DEF g
  <1>6. /\ g \in [old : Seq(File), file : Seq(File), count_ : Nat,
                  startOfPeriod_ : Nat, lastRoll_ : Nat, lastFlush_ : Nat]
        /\ g.old = f.old /\ g.lastRoll_ = f.lastRoll_
        /\ g.file = [f.file EXCEPT ![1].flushed = m]
    BY <1>1, <1>4, <1>5
  <1>7. g.file[1].name = f.file[1].name /\ g.file[1].lines = f.file[1].lines
    BY <1>1, <1>4, <1>6 DEF File
  <1>8. GoodLogFile(g)
    BY <1>4, <1>6, <1>7 DEF GoodLogFile
  <1>9. FilesOf(g) = FilesOf(f)
    BY <1>6, <1>7 DEF FilesOf, OldLines
  <1> QED
    BY <1>6, <1>8, <1>9 DEF g

\* LogFile::append_unlocked writes the lines to the end of the open file, and
\* then perhaps opens another one.
LEMMA AppendFacts ==
    ASSUME NEW f, GoodLogFile(f), NEW lines \in Seq(Nat), NEW now \in Nat,
           f.lastRoll_ <= now
    PROVE  LET g == append_unlocked(f, lines, now)
               x == Append(OldLines(f), f.file[1].lines \o lines)
           IN  /\ GoodLogFile(g) /\ g.lastRoll_ <= now
               /\ FilesOf(g) = x \/ FilesOf(g) = Append(x, <<>>)
  <1> DEFINE f1 == [f EXCEPT !.file[1].lines = @ \o lines]
             x == Append(OldLines(f), f.file[1].lines \o lines)
             y == f.file[1].lines \o lines
             Like(h) == /\ GoodLogFile(h) /\ h.lastRoll_ = f.lastRoll_
                        /\ FilesOf(h) = x
             Good(h) == /\ GoodLogFile(h) /\ h.lastRoll_ <= now
                        /\ FilesOf(h) = x \/ FilesOf(h) = Append(x, <<>>)
  <1>1. Like(f1)
    <2>1. f \in [old : Seq(File), file : Seq(File), count_ : Nat,
                 startOfPeriod_ : Nat, lastRoll_ : Nat, lastFlush_ : Nat]
          /\ Len(f.file) = 1 /\ f.file[1] \in File
      BY DEF GoodLogFile
    <2>2. y \in Seq(Nat)
      BY <2>1 DEF File
    <2> HIDE DEF y
    <2>3. [f.file[1] EXCEPT !.lines = y] \in File
      BY <2>1, <2>2 DEF File
    <2>4. [f.file EXCEPT ![1].lines = y] \in Seq(File)
          /\ Len([f.file EXCEPT ![1].lines = y]) = 1
          /\ [f.file EXCEPT ![1].lines = y][1] = [f.file[1] EXCEPT !.lines = y]
      BY <2>1, <2>3
    <2>5. f1 = [f EXCEPT !.file = [f.file EXCEPT ![1].lines = y]]
      BY DEF y
    <2> HIDE DEF f1
    <2>6. /\ f1 \in [old : Seq(File), file : Seq(File), count_ : Nat,
                    startOfPeriod_ : Nat, lastRoll_ : Nat, lastFlush_ : Nat]
          /\ f1.old = f.old /\ f1.lastRoll_ = f.lastRoll_
          /\ f1.file = [f.file EXCEPT ![1].lines = y]
      BY <2>1, <2>4, <2>5
    <2>7. f1.file[1].name = f.file[1].name /\ f1.file[1].lines = y
      BY <2>1, <2>4, <2>6 DEF File
    <2>8. GoodLogFile(f1)
      BY <2>4, <2>6, <2>7 DEF GoodLogFile
    <2>9. FilesOf(f1) = x
      BY <2>6, <2>7 DEF FilesOf, OldLines, y
    <2> QED
      BY <2>6, <2>8, <2>9
  <1>2. ASSUME NEW h, Like(h), NEW m \in Nat
        PROVE  Like([h EXCEPT !.count_ = m]) /\ Like([h EXCEPT !.lastFlush_ = m])
    <2> HIDE DEF x
    <2>1. h \in [old : Seq(File), file : Seq(File), count_ : Nat,
                 startOfPeriod_ : Nat, lastRoll_ : Nat, lastFlush_ : Nat]
      BY <1>2 DEF GoodLogFile
    <2>2. GoodLogFile([h EXCEPT !.count_ = m])
          /\ GoodLogFile([h EXCEPT !.lastFlush_ = m])
      BY <1>2, <2>1 DEF GoodLogFile
    <2>3. FilesOf([h EXCEPT !.count_ = m]) = x
          /\ FilesOf([h EXCEPT !.lastFlush_ = m]) = x
      BY <1>2, <2>1 DEF FilesOf, OldLines
    <2>4. [h EXCEPT !.count_ = m].lastRoll_ = h.lastRoll_
          /\ [h EXCEPT !.lastFlush_ = m].lastRoll_ = h.lastRoll_
      BY <2>1
    <2> QED
      BY <1>2, <2>2, <2>3, <2>4
  <1> HIDE DEF f1
  <1>3. f1.count_ + 1 \in Nat
    <2>1. f1 \in [old : Seq(File), file : Seq(File), count_ : Nat,
                  startOfPeriod_ : Nat, lastRoll_ : Nat, lastFlush_ : Nat]
      BY <1>1 DEF GoodLogFile
    <2>2. f1.count_ \in Nat
      BY <2>1
    <2> QED
      BY <2>2
  <1> DEFINE f2 == [f1 EXCEPT !.count_ = @ + 1]
             f3 == [f1 EXCEPT !.count_ = 0]
  <1>4. Like(f2)
    <2> HIDE DEF Like
    <2>1. PICK m \in Nat : m = f1.count_ + 1
      BY <1>3
    <2>2. f2 = [f1 EXCEPT !.count_ = m]
      BY <2>1
    <2> QED
      BY <1>1, <1>2, <2>2
  <1>5. Like(f3)
    <2> HIDE DEF Like
    <2> QED
      BY <1>1, <1>2
  <1>6. Like([f3 EXCEPT !.lastFlush_ = now])
    <2> HIDE DEF Like, f3
    <2> QED
      BY <1>2, <1>5
  <1> HIDE DEF f2, f3
  <1>7. ASSUME NEW h, Like(h)
        PROVE  Good(h) /\ Good(rollFile(h, now)) /\ Good(flush(h))
    <2> HIDE DEF x
    <2>1. Good(h)
      BY <1>7
    <2>2. Good(rollFile(h, now))
      BY <1>7, RollFacts
    <2>3. Good(flush(h))
      BY <1>7, FlushFacts
    <2> QED
      BY <2>1, <2>2, <2>3
  <1>8. append_unlocked(f, lines, now) \in
            {rollFile(f1, now), f2, rollFile(f3, now),
             flush([f3 EXCEPT !.lastFlush_ = now]), f3}
    BY DEF append_unlocked, f1, f2, f3
  <1>9. Good(append_unlocked(f, lines, now))
    <2> HIDE DEF Like, Good
    <2> QED
      BY <1>1, <1>4, <1>5, <1>6, <1>7, <1>8
  <1> QED
    BY <1>9

-----------------------------------------------------------------------------
(* What the steps do to the order of the lines *)

\* No buffer holds no line.
LEMMA NoLines == Ordered(<<>>) /\ Lines(<<>>) = {}
  BY DEF Ordered, Lines

\* What is known of the last of several buffers.
LEMMA OrderedLast ==
    ASSUME NEW q \in Seq(Seq(Nat)), NEW s \in Seq(Nat), Ordered(Append(q, s))
    PROVE  Ordered(q) /\ Increasing(s) /\ Below(Lines(q), Real(s))
  <1> DEFINE r == Append(q, s)
  <1>1. /\ Len(q) \in Nat /\ DOMAIN q = 1 .. Len(q)
        /\ DOMAIN r = 1 .. Len(q) + 1
        /\ \A i \in 1 .. Len(q) : r[i] = q[i]
        /\ r[Len(q) + 1] = s
    OBVIOUS
  <1> HIDE DEF r
  <1>2. Ordered(r)
    BY DEF r
  <1>3. (\A i \in DOMAIN q : i \in DOMAIN r /\ i < Len(q) + 1)
        /\ Len(q) + 1 \in DOMAIN r
    BY <1>1
  <1>4. Ordered(q)
    BY <1>1, <1>2, <1>3 DEF Ordered
  <1>5. Increasing(s)
    BY <1>1, <1>2, <1>3 DEF Ordered
  <1>6. \A i \in DOMAIN q : Older(q[i], s)
    BY <1>1, <1>2, <1>3 DEF Ordered
  <1>7. Below(Lines(q), Real(s))
    BY <1>6 DEF Below, Lines, Older, Real
  <1> QED
    BY <1>4, <1>5, <1>7

\* Lines that are written to the open file follow all that was written.
LEMMA FileGrows ==
    ASSUME NEW O \in Seq(Seq(Nat)), NEW l \in Seq(Nat), NEW s \in Seq(Nat),
           Ordered(Append(O, l)), Increasing(s),
           Below(Lines(Append(O, l)), Real(s))
    PROVE  LET X == Append(O, l \o s) IN
           /\ Ordered(X) /\ Lines(X) = Lines(Append(O, l)) \cup Real(s)
           /\ Ordered(Append(X, <<>>)) /\ Lines(Append(X, <<>>)) = Lines(X)
  <1>1. Ordered(O) /\ Increasing(l) /\ Below(Lines(O), Real(l))
    BY OrderedLast
  <1>2. Lines(Append(O, l)) = Lines(O) \cup Real(l)
    BY OrderedAppend
  <1>3. /\ l \o s \in Seq(Nat) /\ Real(l \o s) = Real(l) \cup Real(s)
        /\ Increasing(l \o s)
    <2>1. Below(Real(l), Real(s))
      BY <1>2 DEF Below
    <2> QED
      BY <1>1, <2>1, IncreasingFacts
  <1>4. Below(Lines(O), Real(l \o s))
    BY <1>1, <1>2, <1>3 DEF Below
  <1> DEFINE X == Append(O, l \o s)
  <1>5. X \in Seq(Seq(Nat)) /\ Ordered(X) /\ Lines(X) = Lines(O) \cup Real(l \o s)
    BY <1>1, <1>3, <1>4, OrderedAppend
  <1> HIDE DEF X
  <1>7. Ordered(Append(X, <<>>)) /\ Lines(Append(X, <<>>)) = Lines(X)
    <2>1. <<>> \in Seq(Nat) /\ Increasing(<<>>) /\ Real(<<>>) = {}
      BY IncreasingFacts
    <2>2. Below(Lines(X), Real(<<>>))
      BY <2>1 DEF Below
    <2> QED
      BY <1>5, <2>1, <2>2, OrderedAppend
  <1>8. Lines(X) = Lines(Append(O, l)) \cup Real(s)
    BY <1>2, <1>3, <1>5
  <1> QED
    BY <1>5, <1>7, <1>8 DEF X

\* AsyncLogging::append, with and without room in the current buffer.
LEMMA ChainAppend ==
    ASSUME NEW F, NEW G, NEW B \in Seq(Seq(Nat)), NEW c \in Seq(Nat),
           NEW n \in Nat, NEW d \in SUBSET (0 .. n), Chain(F, G, B, c, n, d)
    PROVE  /\ Chain(F, G, B, Append(c, n + 1), n + 1, d)
           /\ Chain(F, G, Append(B, c), <<n + 1>>, n + 1, d)
  <1> DEFINE x == n + 1
  <1>1. x \in Nat \ {0} /\ <<x>> \in Seq(Nat)
    OBVIOUS
  <1>2. (1 .. x) \ d = ((1 .. n) \ d) \cup {x}
    OBVIOUS
  <1>3. \A y \in (1 .. n) \ d : y < x
    OBVIOUS
  <1> HIDE DEF x
  <1>4. Increasing(<<x>>) /\ Real(<<x>>) = {x}
    BY <1>1, IncreasingFacts
  <1>5. Below(Lines(F) \cup Lines(G) \cup Lines(B) \cup Real(c), {x})
    BY <1>3 DEF Below, Chain
  <1>6. Append(c, x) = c \o <<x>>
    BY <1>1, AppendIsConcat
  <1>7. Real(Append(c, x)) = Real(c) \cup {x} /\ Increasing(Append(c, x))
    <2>1. Below(Real(c), Real(<<x>>)) /\ Increasing(c)
      BY <1>4, <1>5 DEF Below, Chain
    <2> HIDE DEF Chain
    <2>2. Real(c \o <<x>>) = Real(c) \cup Real(<<x>>)
      BY <1>1, IncreasingFacts
    <2>3. Increasing(c \o <<x>>)
      BY <1>1, <1>4, <2>1, IncreasingFacts
    <2> QED
      BY <1>4, <1>6, <2>2, <2>3
  <1>8. Chain(F, G, B, Append(c, x), x, d)
    BY <1>2, <1>5, <1>7 DEF Chain, Below
  <1>9. Lines(Append(B, c)) = Lines(B) \cup Real(c) /\ Ordered(Append(B, c))
    <2>1. Ordered(B) /\ Increasing(c) /\ Below(Lines(B), Real(c))
      BY DEF Chain, Below
    <2> QED
      BY <2>1, OrderedAppend
  <1>10. Chain(F, G, Append(B, c), <<x>>, x, d)
    BY <1>2, <1>4, <1>5, <1>9 DEF Chain, Below
  <1> QED
    BY <1>8, <1>10 DEF x

\* The thread takes all buffers.
LEMMA ChainSwap ==
    ASSUME NEW F, NEW B \in Seq(Seq(Nat)), NEW c \in Seq(Nat),
           NEW n, NEW d, Chain(F, <<>>, B, c, n, d)
    PROVE  Chain(F, Append(B, c), <<>>, <<>>, n, d)
  <1>1. Lines(Append(B, c)) = Lines(B) \cup Real(c) /\ Ordered(Append(B, c))
    <2>1. Ordered(B) /\ Increasing(c) /\ Below(Lines(B), Real(c))
      BY DEF Chain, Below
    <2> QED
      BY <2>1, OrderedAppend
  <1> QED
    BY <1>1, NoLines, IncreasingFacts DEF Chain, Below

\* What is known of the first of several buffers.
LEMMA OrderedHead ==
    ASSUME NEW q \in Seq(Seq(Nat)), q # <<>>
    PROVE  /\ Lines(q) = Real(Head(q)) \cup Lines(Tail(q))
           /\ Ordered(q) => /\ Increasing(Head(q)) /\ Ordered(Tail(q))
                            /\ Below(Real(Head(q)), Lines(Tail(q)))
  <1> DEFINE n == Len(q)
             r == Tail(q)
  <1>1. /\ n \in Nat \ {0} /\ DOMAIN q = 1 .. n /\ Head(q) = q[1]
        /\ DOMAIN r = 1 .. n - 1 /\ \A i \in 1 .. n - 1 : r[i] = q[i + 1]
    OBVIOUS
  <1> HIDE DEF n, r
  <1>2. \A i \in DOMAIN r : i + 1 \in DOMAIN q /\ r[i] = q[i + 1] /\ 1 < i + 1
    BY <1>1
  <1>3. \A i \in DOMAIN q : i = 1 \/ (i - 1 \in DOMAIN r /\ r[i - 1] = q[i])
    <2> TAKE i \in DOMAIN q
    <2>1. i = 1 \/ (i - 1 \in 1 .. n - 1 /\ (i - 1) + 1 = i)
      BY <1>1
    <2> QED
      BY <1>1, <2>1
  <1>4. 1 \in DOMAIN q
    BY <1>1
  <1>5. Lines(q) = Real(q[1]) \cup Lines(r)
    <2>1. Lines(q) \subseteq Real(q[1]) \cup Lines(r)
      BY <1>3 DEF Lines
    <2>2. Lines(r) \subseteq Lines(q)
      BY <1>2 DEF Lines
    <2>3. Real(q[1]) \subseteq Lines(q)
      BY <1>4 DEF Lines
    <2> QED
      BY <2>1, <2>2, <2>3
  <1>6. ASSUME Ordered(q)
        PROVE  Increasing(q[1]) /\ Ordered(r) /\ Below(Real(q[1]), Lines(r))
    <2>1. Increasing(q[1])
      BY <1>4, <1>6 DEF Ordered
    <2>2. \A i, j \in DOMAIN r : i < j => i + 1 < j + 1
      BY <1>1
    <2>3. Ordered(r)
      BY <1>2, <1>6, <2>2 DEF Ordered
    <2>4. \A i \in DOMAIN r : Older(q[1], r[i])
      BY <1>2, <1>4, <1>6 DEF Ordered
    <2> QED
      BY <2>1, <2>3, <2>4 DEF Below, Lines, Older, Real
  <1> QED
    BY <1>1, <1>5, <1>6 DEF r

\* The next buffer is written.
LEMMA ChainWrite ==
    ASSUME NEW O \in Seq(Seq(Nat)), NEW l \in Seq(Nat),
           NEW G \in Seq(Seq(Nat)), NEW B, NEW c, NEW n, NEW d, NEW F
    PROVE  /\ Chain(Append(O, l), G, B, c, n, d) /\ G # <<>>
           /\ \/ F = Append(O, l \o Head(G))
              \/ F = Append(Append(O, l \o Head(G)), <<>>)
           => Chain(F, Tail(G), B, c, n, d)
  <1> DEFINE s == Head(G)
             H == Tail(G)
  <1> SUFFICES ASSUME Chain(Append(O, l), G, B, c, n, d), G # <<>>,
                      F = Append(O, l \o s) \/ F = Append(Append(O, l \o s), <<>>)
               PROVE  Chain(F, H, B, c, n, d)
    OBVIOUS
  <1>1. /\ s \in Seq(Nat) /\ Increasing(s) /\ Ordered(H)
        /\ Below(Real(s), Lines(H)) /\ Lines(G) = Real(s) \cup Lines(H)
    <2>1. Ordered(G)
      BY DEF Chain
    <2>2. s \in Seq(Nat)
      OBVIOUS
    <2> QED
      BY <2>1, <2>2, OrderedHead
  <1> HIDE DEF s, H
  <1>2. Ordered(F) /\ Lines(F) = Lines(Append(O, l)) \cup Real(s)
    <2>1. Ordered(Append(O, l)) /\ Below(Lines(Append(O, l)), Real(s))
      BY <1>1 DEF Chain, Below
    <2>2. PICK t \in Seq(Nat) : t = s
      BY <1>1
    <2>3. Ordered(Append(O, l)) /\ Increasing(t)
          /\ Below(Lines(Append(O, l)), Real(t))
      BY <1>1, <2>1, <2>2
    <2>4. F = Append(O, l \o t) \/ F = Append(Append(O, l \o t), <<>>)
      BY <2>2
    <2> DEFINE X == Append(O, l \o t)
    <2>5. /\ Ordered(X) /\ Lines(X) = Lines(Append(O, l)) \cup Real(t)
          /\ Ordered(Append(X, <<>>)) /\ Lines(Append(X, <<>>)) = Lines(X)
      BY <2>3, FileGrows
    <2>6. Ordered(F) /\ Lines(F) = Lines(Append(O, l)) \cup Real(t)
      BY <2>4, <2>5
    <2> QED
      BY <2>2, <2>6
  <1> QED
    BY <1>1, <1>2 DEF Chain, Below

\* Of several buffers two are kept.
LEMMA FirstTwo ==
    ASSUME NEW W \in Seq(Seq(Nat)), Len(W) > 2, NEW D,
           D = UNION {Range(W[i]) : i \in 3 .. Len(W)}, Ordered(W)
    PROVE  /\ SubSeq(W, 1, 2) \in Seq(Seq(Nat)) /\ Ordered(SubSeq(W, 1, 2))
           /\ Lines(W) = Lines(SubSeq(W, 1, 2)) \cup (D \ {0})
           /\ Below(Lines(SubSeq(W, 1, 2)), D \ {0})
  <1> DEFINE H == SubSeq(W, 1, 2)
  <1>1. PICK m \in Nat : m = Len(W) /\ m > 2 /\ DOMAIN W = 1 .. m
    OBVIOUS
  <1>2. 1 \in 1 .. Len(W) + 1 /\ 2 \in 0 .. Len(W)
    BY <1>1
  <1>3. H \in Seq(Seq(Nat)) /\ Ordered(H)
        /\ Lines(H) = UNION {Real(W[i]) : i \in 1 .. 2}
    BY <1>2, OrderedSub
  <1> HIDE DEF H
  <1>4. /\ \A i \in 1 .. m : i \in 1 .. 2 \/ i \in 3 .. m
        /\ \A i \in 1 .. 2 : i \in 1 .. m
        /\ \A i \in 3 .. m : i \in 1 .. m
        /\ \A i \in 1 .. 2, j \in 3 .. m : i < j
    BY <1>1
  <1>5. D \ {0} = UNION {Real(W[i]) : i \in 3 .. m}
    BY <1>1 DEF Real
  <1>6. Lines(W) = UNION {Real(W[i]) : i \in 1 .. m}
    BY <1>1 DEF Lines
  <1>7. Lines(W) = Lines(H) \cup (D \ {0})
    <2>1. Lines(W) \subseteq Lines(H) \cup (D \ {0})
      BY <1>3, <1>4, <1>5, <1>6
    <2>2. Lines(H) \subseteq Lines(W)
      BY <1>3, <1>4, <1>6
    <2>3. D \ {0} \subseteq Lines(W)
      BY <1>4, <1>5, <1>6
    <2> QED
      BY <2>1, <2>2, <2>3
  <1>8. Below(Lines(H), D \ {0})
    <2>1. \A i \in 1 .. 2, j \in 3 .. m : Older(W[i], W[j])
      BY <1>1, <1>4 DEF Ordered
    <2>2. \A i \in 1 .. 2, j \in 3 .. m :
              \A x \in Real(W[i]), y \in Real(W[j]) : x < y
      BY <2>1 DEF Older, Real
    <2>3. \A x \in Lines(H) : \E i \in 1 .. 2 : x \in Real(W[i])
      BY <1>3
    <2>4. \A y \in D \ {0} : \E j \in 3 .. m : y \in Real(W[j])
      BY <1>5
    <2>5. \A x \in Lines(H), y \in D \ {0} : x < y
      BY <2>2, <2>3, <2>4
    <2> QED
      BY <2>5 DEF Below
  <1> QED
    BY <1>3, <1>7, <1>8 DEF H

\* Buffers are dropped, and a report is written.
LEMMA ChainDrop ==
    ASSUME NEW O \in Seq(Seq(Nat)), NEW l \in Seq(Nat),
           NEW W \in Seq(Seq(Nat)),
           NEW B, NEW c, NEW n \in Nat, NEW d, NEW F, NEW D
    PROVE  /\ Chain(Append(O, l), W, B, c, n, d) /\ Len(W) > 2
           /\ D = UNION {Range(W[i]) : i \in 3 .. Len(W)}
           /\ F = Append(O, l \o << 0 >>) \/ F = Append(Append(O, l \o << 0 >>), <<>>)
           => Chain(F, SubSeq(W, 1, 2), B, c, n, d \cup D)
  <1>1. ASSUME Chain(Append(O, l), W, B, c, n, d), Len(W) > 2,
               D = UNION {Range(W[i]) : i \in 3 .. Len(W)},
               F = Append(O, l \o << 0 >>) \/ F = Append(Append(O, l \o << 0 >>), <<>>)
        PROVE  Chain(F, SubSeq(W, 1, 2), B, c, n, d \cup D)
    <2> DEFINE H == SubSeq(W, 1, 2)
               E == D \ {0}
               A == Append(O, l)
    <2>1. Ordered(W) /\ Ordered(A)
      BY <1>1 DEF Chain
    <2>2. Ordered(H) /\ Lines(W) = Lines(H) \cup E /\ Below(Lines(H), E)
      BY <1>1, <2>1, FirstTwo
    <2>3. Ordered(F) /\ Lines(F) = Lines(A)
      <3>1. << 0 >> \in Seq(Nat) /\ Increasing(<< 0 >>) /\ Real(<< 0 >>) = {}
        BY IncreasingFacts
      <3>2. Below(Lines(Append(O, l)), Real(<< 0 >>))
        BY <3>1 DEF Below
      <3>3. PICK t \in Seq(Nat) : t = << 0 >>
        BY <3>1
      <3>4. Ordered(Append(O, l)) /\ Increasing(t)
            /\ Below(Lines(Append(O, l)), Real(t))
        BY <2>1, <3>1, <3>2, <3>3
      <3>5. F = Append(O, l \o t) \/ F = Append(Append(O, l \o t), <<>>)
        BY <1>1, <3>3
      <3> DEFINE X == Append(O, l \o t)
      <3>6. /\ Ordered(X) /\ Lines(X) = Lines(Append(O, l)) \cup Real(t)
            /\ Ordered(Append(X, <<>>)) /\ Lines(Append(X, <<>>)) = Lines(X)
        BY <3>4, FileGrows
      <3>7. Ordered(F) /\ Lines(F) = Lines(Append(O, l)) \cup Real(t)
        BY <3>5, <3>6
      <3> QED
        BY <3>1, <3>3, <3>7
    <2> HIDE DEF H, E, A
    <2>4. Chain(A, W, B, c, n, d)
      BY <1>1 DEF A
    <2>5. \A y \in E : y \in Lines(W) /\ ~(y < y)
      <3>1. \A y \in E : y \in Lines(W)
        BY <2>2
      <3>2. \A y \in Lines(W) : y \in 1 .. n
        BY <2>4 DEF Chain
      <3>3. \A y \in 1 .. n : ~(y < y)
        OBVIOUS
      <3> QED
        BY <3>1, <3>2, <3>3
    <2>6. \A y \in E : /\ y \notin Lines(H) /\ y \notin Lines(A)
                       /\ y \notin Lines(B) /\ y \notin Real(c)
      BY <2>2, <2>4, <2>5 DEF Chain, Below
    <2>7. Lines(A) \cup Lines(W) \cup Lines(B) \cup Real(c) = (1 .. n) \ d
      BY <2>4 DEF Chain
    <2>8. 0 \notin 1 .. n
      OBVIOUS
    <2>9. Lines(A) \cup Lines(H) \cup Lines(B) \cup Real(c)
            = (1 .. n) \ (d \cup E)
      BY <2>2, <2>6, <2>7
    <2>10. (1 .. n) \ (d \cup E) = (1 .. n) \ (d \cup D)
      BY <2>8 DEF E
    <2>11. Lines(H) \subseteq Lines(W)
      BY <2>2
    <2>12. Chain(F, H, B, c, n, d \cup D)
      BY <2>2, <2>3, <2>4, <2>9, <2>10, <2>11 DEF Chain, Below
    <2> QED
      BY <2>12 DEF H
  <1> QED
    BY <1>1

-----------------------------------------------------------------------------
(* The invariant *)

\* The constructor opens the first file.
LEMMA FirstFile ==
    ASSUME NEW now \in Nat \ {0}
    PROVE  /\ GoodLogFile(LogFile(now)) /\ LogFile(now).lastRoll_ = now
           /\ FilesOf(LogFile(now)) = <<<<>>>>
  <1> DEFINE period == (now \div kRollPerSeconds_) * kRollPerSeconds_
             g == LogFile(now)
             f0 == [old |-> <<>>, file |-> <<>>, count_ |-> 0,
                    startOfPeriod_ |-> 0, lastRoll_ |-> 0, lastFlush_ |-> 0]
  <1>1. period \in Nat
    <2>1. now \div kRollPerSeconds_ \in Nat
      BY LoggingAssumption DEF LoggingAssumption
    <2> QED
      BY <2>1, LoggingAssumption DEF LoggingAssumption
  <1>2. AppendFile(now) \in File /\ AppendFile(now).name = now
        /\ AppendFile(now).lines = <<>>
    BY DEF AppendFile, File
  <1>3. PICK a \in Seq(File) : a = <<AppendFile(now)>> /\ Len(a) = 1
                               /\ a[1] = AppendFile(now)
    BY <1>2, OneElement
  <1>4. MayRoll(f0, now) /\ g = rollFile(f0, now)
    BY DEF MayRoll, LogFile
  <1>5. g = [f0 EXCEPT !.old = @ \o f0.file, !.file = <<AppendFile(now)>>,
                       !.lastRoll_ = now, !.lastFlush_ = now,
                       !.startOfPeriod_ = period]
    BY <1>4 DEF rollFile
  <1>6. <<>> \o <<>> = <<>>
    OBVIOUS
  <1> HIDE DEF period, g
  <1>7. g = [old |-> <<>>, file |-> a, count_ |-> 0, startOfPeriod_ |-> period,
             lastRoll_ |-> now, lastFlush_ |-> now]
    BY <1>3, <1>5, <1>6
  <1>8. g \in [old : Seq(File), file : Seq(File), count_ : Nat,
               startOfPeriod_ : Nat, lastRoll_ : Nat, lastFlush_ : Nat]
        /\ g.old = <<>> /\ g.file = a /\ g.lastRoll_ = now
    BY <1>1, <1>7
  <1>9. GoodLogFile(g)
    BY <1>2, <1>3, <1>8 DEF GoodLogFile
  <1>10. FilesOf(g) = <<<<>>>>
    <2>1. OldLines(g) = <<>>
      BY <1>8 DEF OldLines
    <2>2. Append(<<>>, <<>>) = <<<<>>>>
      OBVIOUS
    <2> QED
      BY <1>2, <1>3, <1>8, <2>1, <2>2 DEF FilesOf
  <1> QED
    BY <1>8, <1>9, <1>10 DEF g

\* It holds before the first line.
LEMMA LogInit ==
    ASSUME LoggingInit
    PROVE  LogCore
  <1> USE DEF LoggingInit
  <1>1. LogState
    <2>1. /\ logging_ \in BOOLEAN /\ nextBuffer_ \in BOOLEAN
          /\ newBuffer1 \in BOOLEAN /\ newBuffer2 \in BOOLEAN
      OBVIOUS
    <2>2. /\ currentBuffer_ \in Seq(Nat) /\ Len(currentBuffer_) = 0
          /\ buffers_ \in Seq(Seq(Nat)) /\ buffersToWrite \in Seq(Seq(Nat))
          /\ Len(buffersToWrite) = 0
      OBVIOUS
    <2> QED
      BY <2>1, <2>2, LoggingAssumption DEF LogState, LoggingAssumption
  <1>2. Spares
    BY DEF Spares
  <1>3. Files = <<>> /\ ToGo = <<>>
    BY DEF Files, ToGo
  <1>4. LogOrder
    <2>1. (1 .. 0) \ {} = {}
      OBVIOUS
    <2> QED
      BY <1>3, <2>1, NoLines, IncreasingFacts DEF LogOrder, Chain, Below
  <1> QED
    BY <1>1, <1>2, <1>4 DEF LogCore

\* The files by what append_unlocked is said to do.
LEMMA FilesAre ==
    /\ where = "none" => Files = <<>>
    /\ where # "none" /\ GoodLogFile(logFile) => Files = FilesOf(logFile)
    /\ where' = "none" => Files' = <<>>
    /\ where' # "none" /\ GoodLogFile(logFile') => Files' = FilesOf(logFile')
  BY FilesFacts DEF Files

\* It is kept by the threads that log, and by the clock.
LEMMA LogCallers ==
    ASSUME LogCore, append \/ stopLogging \/ tick
    PROVE  LogCore'
  <1> USE LoggingAssumption DEF LoggingAssumption
  <1>1. CASE append
    <2>1. /\ UNCHANGED <<logging_, newBuffer1, newBuffer2, buffersToWrite, next,
                         where, logFile, seconds, dropped, asserts>>
          /\ appended \in 0 .. MaxLines /\ appended < MaxLines
          /\ appended' = appended + 1
      BY <1>1 DEF append, LogCore, LogState
    <2>2. Files' = Files /\ ToGo' = ToGo
      BY <2>1 DEF Files, ToGo
    <2>3. /\ buffers_ \in Seq(Seq(Nat)) /\ currentBuffer_ \in Seq(Nat)
          /\ dropped \in SUBSET (0 .. appended) /\ appended \in Nat
          /\ appended + 1 \in Nat /\ appended + 1 \in 0 .. MaxLines
      BY <2>1 DEF LogCore, LogState
    <2>4. Chain(Files, ToGo, buffers_, currentBuffer_, appended, dropped)
      BY DEF LogCore, LogOrder
    <2>5. CASE /\ LineFits
               /\ currentBuffer_' = Append(currentBuffer_, appended + 1)
               /\ UNCHANGED <<nextBuffer_, buffers_>>
      <3>1. currentBuffer_' \in Seq(Nat) /\ Len(currentBuffer_') < kLargeBuffer
        <4>1. Len(currentBuffer_') = Len(currentBuffer_) + 1
              /\ currentBuffer_' \in Seq(Nat)
          BY <2>3, <2>5, AppendAt
        <4>2. kLargeBuffer - Len(currentBuffer_) > 1 /\ Len(currentBuffer_) \in Nat
          BY <2>3, <2>5 DEF LineFits
        <4> QED
          BY <4>1, <4>2
      <3>2. LogState'
        <4>1. dropped' \subseteq 0 .. appended'
          BY <2>1, <2>3
        <4> QED
          BY <2>1, <2>3, <2>5, <3>1, <4>1 DEF LogCore, LogState
      <3>3. Spares'
        BY <2>1, <2>5 DEF LogCore, Spares, Needed
      <3>4. LogOrder'
        BY <2>1, <2>2, <2>3, <2>4, <2>5, ChainAppend DEF LogOrder
      <3> QED
        BY <3>2, <3>3, <3>4 DEF LogCore
    <2>6. CASE /\ ~LineFits
               /\ buffers_' = Append(buffers_, currentBuffer_)
               /\ currentBuffer_' = <<appended + 1>>
               /\ nextBuffer_' = FALSE
      <3>1. /\ currentBuffer_' \in Seq(Nat) /\ Len(currentBuffer_') < kLargeBuffer
            /\ buffers_' \in Seq(Seq(Nat)) /\ buffers_' # <<>>
        <4>1. currentBuffer_' \in Seq(Nat) /\ Len(currentBuffer_') = 1
          BY <2>3, <2>6, OneElement
        <4>2. buffers_' \in Seq(Seq(Nat)) /\ Len(buffers_') = Len(buffers_) + 1
              /\ Len(buffers_) \in Nat
          BY <2>3, <2>6, AppendAt
        <4>3. buffers_' # <<>>
          BY <4>2
        <4> QED
          BY <4>1, <4>2, <4>3
      <3>2. LogState'
        <4>1. dropped' \subseteq 0 .. appended'
          BY <2>1, <2>3
        <4>2. nextBuffer_' \in BOOLEAN
          BY <2>6
        <4> QED
          BY <2>1, <2>3, <3>1, <4>1, <4>2 DEF LogCore, LogState
      <3>3. Spares'
        BY <2>1, <3>1 DEF LogCore, Spares, Needed
      <3>4. LogOrder'
        BY <2>1, <2>2, <2>3, <2>4, <2>6, ChainAppend DEF LogOrder
      <3> QED
        BY <3>2, <3>3, <3>4 DEF LogCore
    <2> QED
      BY <1>1, <2>5, <2>6 DEF append
  <1>2. CASE stopLogging
    <2>1. /\ logging_' \in BOOLEAN
          /\ UNCHANGED <<currentBuffer_, nextBuffer_, buffers_, newBuffer1,
                         newBuffer2, buffersToWrite, next, where, logFile,
                         seconds, appended, dropped, asserts>>
      BY <1>2 DEF stopLogging
    <2>2. Files' = Files /\ ToGo' = ToGo
      BY <2>1 DEF Files, ToGo
    <2>3. LogState'
      BY <2>1 DEF LogCore, LogState
    <2>4. Spares'
      BY <2>1 DEF LogCore, Spares, Needed
    <2>5. LogOrder'
      BY <2>1, <2>2 DEF LogCore, LogOrder
    <2> QED
      BY <2>3, <2>4, <2>5 DEF LogCore
  <1>3. CASE tick
    <2>1. /\ UNCHANGED <<logging_, currentBuffer_, nextBuffer_, buffers_,
                         newBuffer1, newBuffer2, buffersToWrite, next, where,
                         logFile, appended, dropped, asserts>>
          /\ seconds \in 1 .. MaxSeconds /\ seconds < MaxSeconds
          /\ seconds' = seconds + 1
      BY <1>3 DEF tick, LogCore, LogState
    <2>2. Files' = Files /\ ToGo' = ToGo
      BY <2>1 DEF Files, ToGo
    <2>3. LogState'
      <3>1. where # "none" => logFile.lastRoll_ <= seconds'
        BY <2>1 DEF LogCore, LogState, GoodLogFile
      <3>2. seconds' \in 1 .. MaxSeconds
        BY <2>1
      <3> QED
        BY <2>1, <3>1, <3>2 DEF LogCore, LogState
    <2>4. Spares'
      BY <2>1 DEF LogCore, Spares, Needed
    <2>5. LogOrder'
      BY <2>1, <2>2 DEF LogCore, LogOrder
    <2> QED
      BY <2>3, <2>4, <2>5 DEF LogCore
  <1> QED
    BY <1>1, <1>2, <1>3

\* It is kept by start and by the writing thread.
LEMMA LogThread ==
    ASSUME LogCore, start \/ LoggingThread
    PROVE  LogCore'
  <1> USE LoggingAssumption DEF LoggingAssumption
  <1>0. /\ LogState /\ Spares /\ seconds \in Nat \ {0} /\ appended \in Nat
        /\ Chain(Files, ToGo, buffers_, currentBuffer_, appended, dropped)
    BY DEF LogCore, LogOrder, LogState
  <1>1. CASE start
    <2>1. /\ where = "none" /\ where' = "loop" /\ logFile' = LogFile(seconds)
          /\ newBuffer1' = TRUE /\ newBuffer2' = TRUE /\ logging_' = TRUE
          /\ UNCHANGED <<currentBuffer_, nextBuffer_, buffers_, buffersToWrite,
                         next, seconds, appended, dropped, asserts>>
      BY <1>1 DEF start
    <2>2. /\ GoodLogFile(logFile') /\ logFile'.lastRoll_ = seconds
          /\ FilesOf(logFile') = <<<<>>>>
      BY <1>0, <2>1, FirstFile
    <2>3. LogState'
      <3>1. logging_' \in BOOLEAN /\ newBuffer1' \in BOOLEAN
            /\ newBuffer2' \in BOOLEAN
        BY <2>1
      <3>2. logFile'.lastRoll_ <= seconds'
        BY <1>0, <2>1, <2>2
      <3> QED
        BY <1>0, <2>1, <2>2, <3>1, <3>2 DEF LogState
    <2>4. Spares'
      BY <1>0, <2>1 DEF Spares
    <2>5. Files = <<>> /\ Files' = <<<<>>>> /\ ToGo' = ToGo
      BY <2>1, <2>2, FilesAre DEF ToGo
    <2>6. Ordered(<<<<>>>>) /\ Lines(<<<<>>>>) = {}
      <3>1. <<>> \in Seq(Nat) /\ <<>> \in Seq(Seq(Nat)) /\ Append(<<>>, <<>>) = <<<<>>>>
        OBVIOUS
      <3>2. Below(Lines(<<>>), Real(<<>>))
        BY NoLines DEF Below
      <3>3. Ordered(<<>>) /\ Lines(<<>>) = {} /\ Increasing(<<>>) /\ Real(<<>>) = {}
        BY NoLines, IncreasingFacts
      <3>4. PICK q \in Seq(Seq(Nat)) : q = <<>>
        BY <3>1
      <3>5. PICK s \in Seq(Nat) : s = <<>>
        BY <3>1
      <3>6. Ordered(Append(q, s)) /\ Lines(Append(q, s)) = Lines(q) \cup Real(s)
        BY <3>2, <3>3, <3>4, <3>5, OrderedAppend
      <3> QED
        BY <3>1, <3>3, <3>4, <3>5, <3>6
    <2>7. LogOrder'
      BY <1>0, <2>1, <2>5, <2>6, NoLines DEF LogOrder, Chain, Below
    <2> QED
      BY <2>3, <2>4, <2>7 DEF LogCore
  <1>2. CASE loggingLoopTest
    <2>1. /\ where = "loop" /\ where' \in {"swap", "end"}
          /\ UNCHANGED <<logging_, currentBuffer_, nextBuffer_, buffers_,
                         newBuffer1, newBuffer2, buffersToWrite, next, seconds,
                         appended, dropped>>
          /\ logFile' \in {logFile, flush(logFile)}
      BY <1>2 DEF loggingLoopTest
    <2>2. /\ buffersToWrite = <<>> /\ newBuffer1 /\ newBuffer2
          /\ GoodLogFile(logFile) /\ logFile.lastRoll_ <= seconds
      BY <1>0, <2>1 DEF Spares, LogState
    <2>3. asserts' = TRUE
      BY <1>0, <1>2, <2>2 DEF loggingLoopTest, Spares
    <2>4. /\ GoodLogFile(logFile') /\ logFile'.lastRoll_ = logFile.lastRoll_
          /\ FilesOf(logFile') = FilesOf(logFile)
      BY <2>1, <2>2, FlushFacts
    <2>5. Files' = Files /\ ToGo' = ToGo
      BY <2>1, <2>2, <2>4, FilesAre DEF ToGo
    <2>6. LogState'
      BY <1>0, <2>1, <2>2, <2>4 DEF LogState
    <2>7. Spares'
      BY <1>0, <2>1, <2>2, <2>3 DEF Spares
    <2>8. LogOrder'
      BY <1>0, <2>1, <2>5 DEF LogOrder
    <2> QED
      BY <2>6, <2>7, <2>8 DEF LogCore
  <1>3. CASE swap
    <2>1. /\ where = "swap" /\ where' = "drop" /\ buffersToWrite' = Taken
          /\ buffers_' = <<>> /\ currentBuffer_' = <<>>
          /\ newBuffer1' = FALSE /\ nextBuffer_' = TRUE
          /\ newBuffer2' = (newBuffer2 /\ nextBuffer_)
          /\ UNCHANGED <<logging_, next, logFile, seconds, appended, dropped,
                         asserts>>
      BY <1>3 DEF swap
    <2>2. /\ buffersToWrite = <<>> /\ newBuffer1 /\ newBuffer2 /\ asserts = TRUE
          /\ ~nextBuffer_ => buffers_ # <<>>
          /\ GoodLogFile(logFile) /\ logFile.lastRoll_ <= seconds
          /\ buffers_ \in Seq(Seq(Nat)) /\ currentBuffer_ \in Seq(Nat)
      BY <1>0, <2>1 DEF Spares, LogState
    <2>3. /\ buffersToWrite' \in Seq(Seq(Nat)) /\ Len(buffers_) \in Nat
          /\ Len(buffersToWrite') = Len(buffers_) + 1
      BY <2>1, <2>2, AppendAt DEF Taken
    <2>4. LogState'
      <3>1. /\ logging_' \in BOOLEAN /\ nextBuffer_' \in BOOLEAN
            /\ newBuffer1' \in BOOLEAN /\ newBuffer2' \in BOOLEAN
        BY <1>0, <2>1 DEF LogState
      <3>2. next' \in 1 .. Len(buffersToWrite') + 1
        <4>1. next \in 1 .. Len(buffersToWrite) + 1 /\ Len(buffersToWrite) = 0
          BY <1>0, <2>2 DEF LogState
        <4> QED
          BY <2>1, <2>3, <4>1
      <3>3. /\ currentBuffer_' \in Seq(Nat) /\ Len(currentBuffer_') < kLargeBuffer
            /\ buffers_' \in Seq(Seq(Nat))
        BY <2>1
      <3> QED
        BY <1>0, <2>1, <2>2, <2>3, <3>1, <3>2, <3>3 DEF LogState
    <2>5. Spares'
      <3>1. ~newBuffer2' => Len(buffers_) >= 1
        <4>1. ~newBuffer2' => ~nextBuffer_
          BY <2>1, <2>2
        <4>2. buffers_ # <<>> => Len(buffers_) >= 1
          BY <2>2
        <4> QED
          BY <2>2, <4>1, <4>2
      <3>2. Len(buffersToWrite') >= Needed'
        BY <2>1, <2>3, <3>1 DEF Needed
      <3> QED
        BY <2>1, <2>2, <3>2 DEF Spares
    <2>6. Files' = Files /\ ToGo = <<>> /\ ToGo' = Append(buffers_, currentBuffer_)
      BY <2>1, <2>2 DEF Files, ToGo, Taken
    <2>7. LogOrder'
      BY <1>0, <2>1, <2>2, <2>6, ChainSwap DEF LogOrder
    <2> QED
      BY <2>4, <2>5, <2>7 DEF LogCore
  <1>4. CASE drop
    <2>1. /\ where = "drop" /\ where' = "write" /\ next' = 1
          /\ UNCHANGED <<logging_, currentBuffer_, nextBuffer_, buffers_,
                         newBuffer1, newBuffer2, seconds, appended, asserts>>
      BY <1>4 DEF drop
    <2>2. /\ asserts = TRUE /\ Len(buffersToWrite) >= Needed
          /\ GoodLogFile(logFile) /\ logFile.lastRoll_ <= seconds
          /\ buffersToWrite \in Seq(Seq(Nat)) /\ Needed \in 0 .. 2
          /\ Len(buffersToWrite) \in Nat
      BY <1>0, <2>1 DEF Spares, LogState, Needed
    <2>3. ToGo = buffersToWrite
      BY <2>1 DEF ToGo
    <2>4. ASSUME NEW W \in Seq(Seq(Nat)), W = buffersToWrite'
          PROVE  ToGo' = W
      <3>1. SubSeq(W, 1, Len(W)) = W
        OBVIOUS
      <3> QED
        BY <2>1, <2>4, <3>1 DEF ToGo
    <2>5. CASE ~(Len(buffersToWrite) > MaxBuffers)
      <3>1. UNCHANGED <<logFile, buffersToWrite, dropped>>
        BY <1>4, <2>5 DEF drop
      <3>2. Files' = Files /\ ToGo' = buffersToWrite
        BY <2>1, <2>2, <2>4, <3>1 DEF Files
      <3>3. LogState'
        BY <1>0, <2>1, <2>2, <3>1 DEF LogState
      <3>4. Spares'
        BY <1>0, <2>1, <2>2, <3>1 DEF Spares, Needed
      <3>5. LogOrder'
        BY <1>0, <2>1, <2>3, <3>1, <3>2 DEF LogOrder
      <3> QED
        BY <3>3, <3>4, <3>5 DEF LogCore
    <2>6. CASE Len(buffersToWrite) > MaxBuffers
      <3> DEFINE D == UNION {Range(buffersToWrite[i]) :
                                 i \in 3 .. Len(buffersToWrite)}
                 H == SubSeq(buffersToWrite, 1, 2)
      <3>1. /\ logFile' = append_unlocked(logFile, << 0 >>, seconds)
            /\ buffersToWrite' = H /\ dropped' = dropped \cup D
        BY <1>4, <2>6 DEF drop
      <3>2. Len(buffersToWrite) > 2
        BY <2>2, <2>6
      <3>3. PICK O \in Seq(Seq(Nat)) : O = OldLines(logFile)
        BY <2>2, FilesFacts
      <3>4. PICK l \in Seq(Nat) : l = logFile.file[1].lines
        BY <2>2, FilesFacts
      <3>5. /\ GoodLogFile(logFile') /\ logFile'.lastRoll_ <= seconds
            /\ \/ FilesOf(logFile') = Append(O, l \o << 0 >>)
               \/ FilesOf(logFile') = Append(Append(O, l \o << 0 >>), <<>>)
        <4>1. << 0 >> \in Seq(Nat)
          OBVIOUS
        <4> QED
          BY <1>0, <2>2, <3>1, <3>3, <3>4, <4>1, AppendFacts
      <3>6. Files = Append(O, l) /\ Files' = FilesOf(logFile')
        BY <2>1, <2>2, <3>3, <3>4, <3>5, FilesAre DEF FilesOf
      <3>7. H \in Seq(Seq(Nat)) /\ Len(H) = 2
        BY <2>2, <3>2
      <3>8. ToGo' = H
        <4> HIDE DEF H
        <4> QED
          BY <2>4, <3>1, <3>7
      <3>9. Chain(Append(O, l), buffersToWrite, buffers_, currentBuffer_,
                  appended, dropped)
        BY <1>0, <2>3, <3>6
      <3>10. Chain(Files', H, buffers_, currentBuffer_, appended, dropped \cup D)
        <4>1. PICK E : E = D
          OBVIOUS
        <4>2. Chain(FilesOf(logFile'), SubSeq(buffersToWrite, 1, 2), buffers_,
                    currentBuffer_, appended, dropped \cup E)
          BY <1>0, <2>2, <3>2, <3>5, <3>9, <4>1, ChainDrop
        <4> QED
          BY <3>6, <4>1, <4>2
      <3>11. D \subseteq 0 .. appended
        <4>1. \A i \in 3 .. Len(buffersToWrite) : i \in DOMAIN buffersToWrite
          BY <2>2
        <4>2. \A i \in 3 .. Len(buffersToWrite) :
                 Real(buffersToWrite[i]) \subseteq Lines(buffersToWrite)
          BY <4>1 DEF Lines
        <4>3. Lines(buffersToWrite) \subseteq 1 .. appended
          BY <3>9 DEF Chain
        <4>4. \A i \in 3 .. Len(buffersToWrite) :
                 Range(buffersToWrite[i]) \subseteq (1 .. appended) \cup {0}
          BY <4>2, <4>3 DEF Real
        <4>5. (1 .. appended) \cup {0} \subseteq 0 .. appended
          BY <1>0
        <4> QED
          BY <4>4, <4>5
      <3> HIDE DEF D, H
      <3>12. LogState'
        <4>1. dropped' \subseteq 0 .. appended'
          BY <1>0, <2>1, <3>1, <3>11 DEF LogState
        <4>2. next' \in 1 .. Len(buffersToWrite') + 1
          BY <2>1, <3>1, <3>7
        <4> QED
          BY <1>0, <2>1, <3>1, <3>5, <3>7, <4>1, <4>2 DEF LogState
      <3>13. Spares'
        BY <1>0, <2>1, <2>2, <3>1, <3>7 DEF Spares, Needed
      <3>14. LogOrder'
        BY <2>1, <3>1, <3>8, <3>10 DEF LogOrder
      <3> QED
        BY <3>12, <3>13, <3>14 DEF LogCore
    <2> QED
      BY <2>5, <2>6
  <1>5. CASE write
    <2>1. /\ where = "write" /\ next <= Len(buffersToWrite) /\ next' = next + 1
          /\ logFile' = append_unlocked(logFile, buffersToWrite[next], seconds)
          /\ UNCHANGED <<logging_, currentBuffer_, nextBuffer_, buffers_,
                         newBuffer1, newBuffer2, buffersToWrite, where,
                         seconds, appended, dropped, asserts>>
      BY <1>5 DEF write
    <2>2. /\ GoodLogFile(logFile) /\ logFile.lastRoll_ <= seconds
          /\ buffersToWrite \in Seq(Seq(Nat)) /\ Len(buffersToWrite) \in Nat
          /\ next \in 1 .. Len(buffersToWrite)
      BY <1>0, <2>1 DEF LogState
    <2> DEFINE G == SubSeq(buffersToWrite, next, Len(buffersToWrite))
    <2>3. /\ G \in Seq(Seq(Nat)) /\ G # <<>> /\ Head(G) = buffersToWrite[next]
          /\ Tail(G) = SubSeq(buffersToWrite, next + 1, Len(buffersToWrite))
      BY <2>2, SuffixAt
    <2>4. ToGo = G /\ ToGo' = Tail(G)
      BY <2>1, <2>3 DEF ToGo
    <2> HIDE DEF G
    <2>5. PICK O \in Seq(Seq(Nat)) : O = OldLines(logFile)
      BY <2>2, FilesFacts
    <2>6. PICK l \in Seq(Nat) : l = logFile.file[1].lines
      BY <2>2, FilesFacts
    <2>7. /\ GoodLogFile(logFile') /\ logFile'.lastRoll_ <= seconds
          /\ \/ FilesOf(logFile') = Append(O, l \o Head(G))
             \/ FilesOf(logFile') = Append(Append(O, l \o Head(G)), <<>>)
      <3>1. PICK s \in Seq(Nat) : s = buffersToWrite[next]
        BY <2>2
      <3> QED
        BY <1>0, <2>1, <2>2, <2>3, <2>5, <2>6, <3>1, AppendFacts
    <2>8. Files = Append(O, l) /\ Files' = FilesOf(logFile')
      BY <2>1, <2>2, <2>5, <2>6, <2>7, FilesAre DEF FilesOf
    <2>9. Chain(Files', Tail(G), buffers_, currentBuffer_, appended, dropped)
      <3>1. Chain(Append(O, l), G, buffers_, currentBuffer_, appended, dropped)
        BY <1>0, <2>4, <2>8
      <3>2. Chain(FilesOf(logFile'), Tail(G), buffers_, currentBuffer_,
                  appended, dropped)
        BY <2>3, <2>7, <3>1, ChainWrite
      <3> QED
        BY <2>8, <3>2
    <2>10. LogState'
      <3>1. next' \in 1 .. Len(buffersToWrite') + 1
        BY <2>1, <2>2
      <3> QED
        BY <1>0, <2>1, <2>7, <3>1 DEF LogState
    <2>11. Spares'
      BY <1>0, <2>1 DEF Spares, Needed
    <2>12. LogOrder'
      BY <2>1, <2>4, <2>9 DEF LogOrder
    <2> QED
      BY <2>10, <2>11, <2>12 DEF LogCore
  <1>6. CASE recycle
    <2>1. /\ where = "write" /\ next > Len(buffersToWrite) /\ where' = "loop"
          /\ asserts' = (asserts /\ Spare >= Needed)
          /\ newBuffer1' = TRUE /\ newBuffer2' = TRUE
          /\ buffersToWrite' = <<>> /\ next' = 1
          /\ logFile' = flush(logFile)
          /\ UNCHANGED <<logging_, currentBuffer_, nextBuffer_, buffers_,
                         seconds, appended, dropped>>
      BY <1>6 DEF recycle
    <2>2. /\ GoodLogFile(logFile) /\ logFile.lastRoll_ <= seconds
          /\ buffersToWrite \in Seq(Seq(Nat)) /\ Len(buffersToWrite) \in Nat
          /\ next = Len(buffersToWrite) + 1 /\ asserts = TRUE
          /\ Len(buffersToWrite) >= Needed
      <3>1. /\ GoodLogFile(logFile) /\ logFile.lastRoll_ <= seconds
            /\ buffersToWrite \in Seq(Seq(Nat)) /\ Len(buffersToWrite) \in Nat
            /\ next \in 1 .. Len(buffersToWrite) + 1
        BY <1>0, <2>1 DEF LogState
      <3>2. next = Len(buffersToWrite) + 1
        BY <2>1, <3>1
      <3> QED
        BY <1>0, <2>1, <3>1, <3>2 DEF Spares
    <2>3. Spare >= Needed
      BY <2>2 DEF Spare, Needed
    <2>4. asserts' = TRUE
      BY <2>1, <2>2, <2>3
    <2>5. /\ GoodLogFile(logFile') /\ logFile'.lastRoll_ = logFile.lastRoll_
          /\ FilesOf(logFile') = FilesOf(logFile)
      BY <2>1, <2>2, FlushFacts
    <2>6. Files' = Files /\ ToGo = <<>> /\ ToGo' = <<>>
      BY <2>1, <2>2, <2>5, FilesAre DEF ToGo
    <2>7. LogState'
      <3>1. newBuffer1' \in BOOLEAN /\ newBuffer2' \in BOOLEAN
        BY <2>1
      <3>2. buffersToWrite' \in Seq(Seq(Nat)) /\ Len(buffersToWrite') = 0
        BY <2>1
      <3>3. next' \in 1 .. Len(buffersToWrite') + 1
        BY <2>1, <3>2
      <3> QED
        BY <1>0, <2>1, <2>2, <2>5, <3>1, <3>2, <3>3 DEF LogState
    <2>8. Spares'
      BY <1>0, <2>1, <2>4 DEF Spares
    <2>9. LogOrder'
      BY <1>0, <2>1, <2>6 DEF LogOrder
    <2> QED
      BY <2>7, <2>8, <2>9 DEF LogCore
  <1> QED
    BY <1>1, <1>2, <1>3, <1>4, <1>5, <1>6 DEF LoggingThread

\* LogCore is an invariant, for every size of buffers, files and periods.
THEOREM LoggingInvariant == LoggingSpec => []LogCore
  <1>1. LoggingInit => LogCore
    BY LogInit
  <1>2. LogCore /\ [LoggingNext]_logVars => LogCore'
    <2> SUFFICES ASSUME LogCore, [LoggingNext]_logVars
                 PROVE  LogCore'
      OBVIOUS
    <2>1. CASE start \/ LoggingThread
      BY <2>1, LogThread
    <2>2. CASE append \/ stopLogging \/ tick
      BY <2>2, LogCallers
    <2>3. CASE UNCHANGED logVars
      <3>1. UNCHANGED <<logging_, currentBuffer_, nextBuffer_, buffers_,
                        newBuffer1, newBuffer2, buffersToWrite, next, where,
                        logFile, seconds, appended, dropped, asserts>>
        BY <2>3 DEF logVars
      <3>2. Files' = Files /\ ToGo' = ToGo /\ Needed' = Needed
        BY <3>1 DEF Files, ToGo, Needed
      <3>3. LogState' /\ Spares'
        BY <3>1, <3>2 DEF LogCore, LogState, Spares
      <3>4. LogOrder'
        BY <3>1, <3>2 DEF LogCore, LogOrder
      <3> QED
        BY <3>3, <3>4 DEF LogCore
    <2> QED
      BY <2>1, <2>2, <2>3 DEF LoggingNext
  <1> QED
    BY <1>1, <1>2, PTL DEF LoggingSpec

\* No line is lost, doubled or overtaken between AsyncLogging::append and the
\* files, whatever is swapped, dropped and rolled; the assertions of
\* threadFunc hold; and no roll opens a file of an earlier one again.
THEOREM LogIsConserved == LoggingSpec => []LogFileInv
  <1>1. LogCore => LogFileInv
    <2> SUFFICES ASSUME LogCore
                 PROVE  LogFileInv
      OBVIOUS
    <2>1. /\ LogState /\ Spares
          /\ Chain(Files, ToGo, buffers_, currentBuffer_, appended, dropped)
      BY DEF LogCore, LogOrder
    <2>2. LoggingTypeOK
      <3>1. {logging_, nextBuffer_, newBuffer1, newBuffer2, asserts}
                \subseteq BOOLEAN
        BY <2>1 DEF LogState, Spares
      <3> QED
        BY <2>1, <3>1 DEF LoggingTypeOK, LogState
    <2>3. BuffersSuffice
      BY <2>1 DEF BuffersSuffice, Spares
    <2>4. NamesDiffer
      <3> SUFFICES ASSUME where # "none"
                   PROVE  LET f == logFile.old \o logFile.file IN
                          \A i, j \in DOMAIN f : i < j => f[i].name < f[j].name
        BY DEF NamesDiffer
      <3> DEFINE f == logFile.old \o logFile.file
                 n == Len(logFile.old)
      <3>1. /\ logFile.old \in Seq(File) /\ logFile.file \in Seq(File)
            /\ Len(logFile.file) = 1 /\ logFile.file[1].name = logFile.lastRoll_
            /\ (\A i \in DOMAIN logFile.old : logFile.old[i].name < logFile.lastRoll_)
            /\ \A i, j \in DOMAIN logFile.old :
                 i < j => logFile.old[i].name < logFile.old[j].name
        BY <2>1 DEF LogState, GoodLogFile
      <3>2. f = Append(logFile.old, logFile.file[1]) /\ logFile.file[1] \in File
        <4>1. f = Append(logFile.old, logFile.file[1])
          <5>1. PICK a \in Seq(File) : a = logFile.old
            BY <3>1
          <5>2. PICK b \in Seq(File) : b = logFile.file
            BY <3>1
          <5>3. Len(b) = 1 => a \o b = Append(a, b[1])
            BY OneElement
          <5> QED
            BY <3>1, <5>1, <5>2, <5>3
        <4>2. logFile.file[1] \in File
          <5>1. 1 \in 1 .. Len(logFile.file)
            BY <3>1
          <5> QED
            BY <3>1, <5>1, ElementOfSeq
        <4> QED
          BY <4>1, <4>2
      <3>3. /\ DOMAIN f = 1 .. n + 1 /\ n \in Nat /\ DOMAIN logFile.old = 1 .. n
            /\ \A i \in 1 .. n : f[i] = logFile.old[i]
            /\ f[n + 1] = logFile.file[1]
        <4> HIDE DEF f
        <4> QED
          BY <3>1, <3>2, AppendAt
      <3> HIDE DEF f, n
      <3>4. ASSUME NEW i \in DOMAIN f, NEW j \in DOMAIN f, i < j
            PROVE  f[i].name < f[j].name
        <4>1. i \in 1 .. n /\ (j \in 1 .. n \/ j = n + 1)
          BY <3>3, <3>4
        <4> QED
          BY <3>1, <3>3, <3>4, <4>1
      <3> QED
        BY <3>4 DEF f
    <2>5. LogConserved
      <3> DEFINE c1 == <<currentBuffer_>>
                 q == Files \o ToGo
                 r == q \o buffers_
                 all == r \o c1
      <3>1. /\ Files \in Seq(Seq(Nat)) /\ ToGo \in Seq(Seq(Nat))
            /\ buffers_ \in Seq(Seq(Nat)) /\ currentBuffer_ \in Seq(Nat)
        <4>1. Files \in Seq(Seq(Nat))
          <5>1. CASE where = "none"
            BY <5>1, FilesAre
          <5>2. CASE where # "none"
            BY <2>1, <5>2, FilesAre, FilesFacts DEF LogState
          <5> QED
            BY <5>1, <5>2
        <4>2. ToGo \in Seq(Seq(Nat))
          BY <2>1 DEF LogState, ToGo
        <4> QED
          BY <2>1, <4>1, <4>2 DEF LogState
      <3>2. /\ Ordered(Files) /\ Ordered(ToGo) /\ Ordered(buffers_)
            /\ Increasing(currentBuffer_)
            /\ Below(Lines(Files), Lines(ToGo))
            /\ Below(Lines(Files) \cup Lines(ToGo), Lines(buffers_))
            /\ Below(Lines(Files) \cup Lines(ToGo) \cup Lines(buffers_),
                     Real(currentBuffer_))
            /\ Lines(Files) \cup Lines(ToGo) \cup Lines(buffers_)
                    \cup Real(currentBuffer_) = (1 .. appended) \ dropped
        BY <2>1 DEF Chain
      <3>3. q \in Seq(Seq(Nat)) /\ Ordered(q) /\ Lines(q) = Lines(Files) \cup Lines(ToGo)
        BY <3>1, <3>2, OrderedConcat
      <3> HIDE DEF q
      <3>4. r \in Seq(Seq(Nat)) /\ Ordered(r) /\ Lines(r) = Lines(q) \cup Lines(buffers_)
        BY <3>1, <3>2, <3>3, OrderedConcat
      <3> HIDE DEF r
      <3>5. all = Append(r, currentBuffer_)
        BY <3>1, <3>4, AppendIsConcat
      <3>6. Ordered(all) /\ Lines(all) = Lines(r) \cup Real(currentBuffer_)
        <4>1. Below(Lines(r), Real(currentBuffer_))
          BY <3>2, <3>3, <3>4
        <4>2. Ordered(r) /\ Increasing(currentBuffer_)
          BY <3>2, <3>4
        <4> HIDE DEF all
        <4> QED
          BY <3>1, <3>4, <3>5, <4>1, <4>2, OrderedAppend
      <3> HIDE DEF all
      <3>7. (UNION {Range(all[i]) : i \in DOMAIN all}) \ {0} = Lines(all)
        BY DEF Lines, Real
      <3>8. all = Files \o ToGo \o buffers_ \o <<currentBuffer_>>
        BY DEF all, r, q
      <3>9. (UNION {Range(all[i]) : i \in DOMAIN all}) \ {0}
                = (1 .. appended) \ dropped
        BY <3>2, <3>3, <3>4, <3>6, <3>7
      <3>10. /\ \A i \in DOMAIN all : Increasing(all[i])
             /\ \A i, j \in DOMAIN all : i < j => Older(all[i], all[j])
        BY <3>6 DEF Ordered
      <3> QED
        BY <3>8, <3>9, <3>10 DEF LogConserved
    <2> QED
      BY <2>2, <2>3, <2>4, <2>5 DEF LogFileInv
  <1> QED
    BY <1>1, LoggingInvariant, PTL
=============================================================================
