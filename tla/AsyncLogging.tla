---------------------------- MODULE AsyncLogging ----------------------------
(***************************************************************************)
(* muduo/base: AsyncLogging with its two pairs of buffers, and LogFile,    *)
(* which rolls over by size and by day.  Threads append lines; the logging *)
(* thread swaps the buffers out and writes them.  A buffer is the sequence *)
(* of its lines, a line has length 1 and is named by its number; 0 is the  *)
(* line that reports a drop.                                               *)
(***************************************************************************)
EXTENDS Naturals, Sequences, FiniteSets, SequencesExt

CONSTANTS MaxLines,    \* bound: lines that are logged
          kLargeBuffer, \* size of a buffer
          MaxBuffers,  \* 25 in the code: above it buffers are dropped
          rollSize_, checkEveryN_, flushInterval_, kRollPerSeconds_,
          MaxSeconds   \* bound: the clock

ASSUME LoggingAssumption ==
    /\ MaxLines \in Nat /\ MaxSeconds \in Nat \ {0}
    /\ kLargeBuffer \in Nat \ {0, 1} /\ MaxBuffers \in Nat \ {0, 1}
    /\ rollSize_ \in Nat /\ checkEveryN_ \in Nat /\ flushInterval_ \in Nat
    /\ kRollPerSeconds_ \in Nat \ {0}

VARIABLES logging_, currentBuffer_, nextBuffer_, buffers_,
          newBuffer1, newBuffer2, buffersToWrite, next,
          where,      \* where the logging thread is
          logFile,    \* LogFile: the old files, the current one, its counters
          seconds,    \* the clock
          appended, dropped, \* history
          asserts     \* no assertion has failed

logVars == <<logging_, currentBuffer_, nextBuffer_, buffers_, newBuffer1,
             newBuffer2, buffersToWrite, next, where, logFile, seconds,
             appended, dropped, asserts>>

-----------------------------------------------------------------------------
(* LogFile, as operators on its record f at time now.  A file has a name,    *)
(* which is the second of its creation, its lines, and how many of them are  *)
(* flushed at least.                                                         *)

AppendFile(now) == [name |-> now, lines |-> <<>>, flushed |-> 0]

MayRoll(f, now) == now > f.lastRoll_

\* fclose of the old file flushes it.
rollFile(f, now) ==
    IF MayRoll(f, now)
    THEN [f EXCEPT !.old = @ \o f.file, !.file = <<AppendFile(now)>>,
                   !.lastRoll_ = now, !.lastFlush_ = now,
                   !.startOfPeriod_ = (now \div kRollPerSeconds_)
                                          * kRollPerSeconds_]
    ELSE f

\* Slip: nothing is flushed.
flush_Nothing(f) == f

flush(f) == [f EXCEPT !.file[1].flushed = Len(f.file[1].lines)]

append_unlocked(f, lines, now) ==
    LET f1 == [f EXCEPT !.file[1].lines = @ \o lines]
        f2 == [f1 EXCEPT !.count_ = @ + 1]
        f3 == [f1 EXCEPT !.count_ = 0]
        period == (now \div kRollPerSeconds_) * kRollPerSeconds_
    IN  CASE Len(f1.file[1].lines) > rollSize_ -> rollFile(f1, now)
          [] Len(f1.file[1].lines) <= rollSize_ /\ f2.count_ < checkEveryN_ -> f2
          [] OTHER ->
               CASE period # f.startOfPeriod_ -> rollFile(f3, now)
                 [] /\ period = f.startOfPeriod_
                    /\ now > f.lastFlush_ + flushInterval_ ->
                      flush([f3 EXCEPT !.lastFlush_ = now])
                 [] OTHER -> f3

\* The constructor
LogFile(now) ==
    rollFile([old |-> <<>>, file |-> <<>>, count_ |-> 0, startOfPeriod_ |-> 0,
              lastRoll_ |-> 0, lastFlush_ |-> 0], now)

-----------------------------------------------------------------------------
LoggingInit ==
    /\ logging_ = FALSE
    /\ currentBuffer_ = <<>> /\ nextBuffer_ = TRUE /\ buffers_ = <<>>
    /\ newBuffer1 = FALSE /\ newBuffer2 = FALSE /\ buffersToWrite = <<>>
    /\ next = 1 /\ where = "none" /\ logFile = [file |-> <<>>]
    /\ seconds = 1 /\ appended = 0 /\ dropped = {} /\ asserts = TRUE

\* Start, with the latch: it returns when the thread runs.
start ==
    /\ where = "none"
    /\ logging_' = TRUE /\ where' = "loop"
    /\ logFile' = LogFile(seconds)
    /\ newBuffer1' = TRUE /\ newBuffer2' = TRUE
    /\ UNCHANGED <<currentBuffer_, nextBuffer_, buffers_, buffersToWrite,
                   next, seconds, appended, dropped, asserts>>

\* currentBuffer_->avail() > len
LineFits == kLargeBuffer - Len(currentBuffer_) > 1

\* append, in any thread, with mutex_ held
append ==
    /\ appended < MaxLines
    /\ appended' = appended + 1
    /\ \/ /\ LineFits
          /\ currentBuffer_' = Append(currentBuffer_, appended + 1)
          /\ UNCHANGED <<nextBuffer_, buffers_>>
       \/ /\ ~LineFits
          /\ buffers_' = Append(buffers_, currentBuffer_)
          /\ currentBuffer_' = <<appended + 1>>
          /\ nextBuffer_' = FALSE
    /\ UNCHANGED <<logging_, newBuffer1, newBuffer2, buffersToWrite, next,
                   where, logFile, seconds, dropped, asserts>>

stopLogging ==
    /\ logging_ /\ logging_' = FALSE
    /\ UNCHANGED <<currentBuffer_, nextBuffer_, buffers_, newBuffer1,
                   newBuffer2, buffersToWrite, next, where, logFile, seconds,
                   appended, dropped, asserts>>

-----------------------------------------------------------------------------
(* The logging thread *)

loggingLoopTest ==
    /\ where = "loop"
    /\ IF logging_
       THEN /\ asserts' = (asserts /\ newBuffer1 /\ newBuffer2
                                   /\ buffersToWrite = <<>>)
            /\ where' = "swap" /\ UNCHANGED logFile
       ELSE where' = "end" /\ logFile' = flush(logFile) /\ UNCHANGED asserts
    /\ UNCHANGED <<logging_, currentBuffer_, nextBuffer_, buffers_,
                   newBuffer1, newBuffer2, buffersToWrite, next, seconds,
                   appended, dropped>>

\* Slip: the current buffer is swapped out but not written.
Taken_WithoutCurrent == buffers_

\* What the thread takes: the full buffers, then the current one
Taken == Append(buffers_, currentBuffer_)

\* The wait on cond_ has a timeout and is no loop, so that the swap may come at
\* any time, also with no buffer to write but the current one.
swap ==
    /\ where = "swap" /\ where' = "drop"
    /\ buffersToWrite' = Taken
    /\ buffers_' = <<>> /\ currentBuffer_' = <<>>
    /\ newBuffer1' = FALSE
    /\ nextBuffer_' = TRUE
    /\ newBuffer2' = (newBuffer2 /\ nextBuffer_)
    /\ UNCHANGED <<logging_, next, logFile, seconds, appended, dropped,
                   asserts>>

drop ==
    /\ where = "drop" /\ where' = "write" /\ next' = 1
    /\ IF Len(buffersToWrite) > MaxBuffers
       THEN /\ logFile' = append_unlocked(logFile, <<0>>, seconds)
            /\ buffersToWrite' = SubSeq(buffersToWrite, 1, 2)
            /\ dropped' = dropped \cup UNION {Range(buffersToWrite[i]) :
                              i \in 3 .. Len(buffersToWrite)}
       ELSE UNCHANGED <<logFile, buffersToWrite, dropped>>
    /\ UNCHANGED <<logging_, currentBuffer_, nextBuffer_, buffers_,
                   newBuffer1, newBuffer2, seconds, appended, asserts>>

write ==
    /\ where = "write" /\ next <= Len(buffersToWrite)
    /\ logFile' = append_unlocked(logFile, buffersToWrite[next], seconds)
    /\ next' = next + 1
    /\ UNCHANGED <<logging_, currentBuffer_, nextBuffer_, buffers_,
                   newBuffer1, newBuffer2, buffersToWrite, where, seconds,
                   appended, dropped, asserts>>

\* The buffers that were written, at most two of them, are taken again.
Spare == IF Len(buffersToWrite) > 2 THEN 2 ELSE Len(buffersToWrite)
Needed == (IF newBuffer1 THEN 0 ELSE 1) + (IF newBuffer2 THEN 0 ELSE 1)

recycle ==
    /\ where = "write" /\ next > Len(buffersToWrite) /\ where' = "loop"
    /\ asserts' = (asserts /\ Spare >= Needed)
    /\ newBuffer1' = TRUE /\ newBuffer2' = TRUE
    /\ buffersToWrite' = <<>> /\ next' = 1
    /\ logFile' = flush(logFile)
    /\ UNCHANGED <<logging_, currentBuffer_, nextBuffer_, buffers_, seconds,
                   appended, dropped>>

tick ==
    /\ seconds < MaxSeconds /\ seconds' = seconds + 1
    /\ UNCHANGED <<logging_, currentBuffer_, nextBuffer_, buffers_,
                   newBuffer1, newBuffer2, buffersToWrite, next, where,
                   logFile, appended, dropped, asserts>>

LoggingThread == loggingLoopTest \/ swap \/ drop \/ write \/ recycle

LoggingNext == start \/ append \/ stopLogging \/ LoggingThread \/ tick

LoggingSpec == /\ LoggingInit /\ [][LoggingNext]_logVars
               /\ WF_logVars(LoggingThread)

-----------------------------------------------------------------------------
Files == IF where = "none" THEN <<>> ELSE
         LET f == logFile.old \o logFile.file IN [i \in DOMAIN f |-> f[i].lines]
Flushed == IF where = "none" THEN {} ELSE
           UNION {Range(f.lines) : f \in Range(logFile.old)} \cup
           {logFile.file[1].lines[i] : i \in 1 .. logFile.file[1].flushed}

(* append leaves a byte free in currentBuffer_, and threadFunc stays within
   the buffers it took.                                                      *)
LoggingTypeOK ==
    /\ {logging_, nextBuffer_, newBuffer1, newBuffer2, asserts}
           \subseteq BOOLEAN
    /\ Len(currentBuffer_) < kLargeBuffer
    /\ where \in {"none", "loop", "swap", "drop", "write", "end"}
    /\ appended \in 0 .. MaxLines /\ seconds \in 1 .. MaxSeconds
    /\ next \in 1 .. Len(buffersToWrite) + 1

(* The assertions of threadFunc hold: the thread always has two empty buffers
   to hand out, and finds them again among those it wrote, also when the
   producers took the spare one, or buffers were dropped.                    *)
BuffersSuffice == asserts

\* Lines that stand in their order, but for the reports of a drop
Increasing(lines) ==
    \A i, j \in DOMAIN lines :
        i < j /\ lines[i] # 0 /\ lines[j] # 0 => lines[i] < lines[j]

\* Every line of s that is no report is older than those of t.
Older(s, t) == \A x \in Range(s) \ {0}, y \in Range(t) \ {0} : x < y

\* What of the buffers the thread took it has still to write
ToGo == IF where = "write"
        THEN SubSeq(buffersToWrite, next, Len(buffersToWrite))
        ELSE buffersToWrite

(* Every line that was logged and not dropped is, exactly once and in the order
   of append, in the files, old ones first, or in the buffers on their way
   there; none is lost when a file is rolled.                                *)
LogConserved ==
    LET all == Files \o ToGo \o buffers_ \o <<currentBuffer_>>
    IN  /\ \A i \in DOMAIN all : Increasing(all[i])
        /\ \A i, j \in DOMAIN all : i < j => Older(all[i], all[j])
        /\ (UNION {Range(all[i]) : i \in DOMAIN all}) \ {0}
               = (1 .. appended) \ dropped

(* A roll never opens the file of an earlier roll again: the names, which have
   the second of their creation, are all different.                          *)
NamesDiffer ==
    where # "none" =>
        LET f == logFile.old \o logFile.file IN
        \A i, j \in DOMAIN f : i < j => f[i].name < f[j].name

Unwritten == (1 .. appended) \ (Flushed \cup dropped)

(* A line reaches the disk, or is reported as dropped, while logging runs; stop
   returns.                                                                  *)
LinesReachDisk ==
    /\ Unwritten # {} /\ logging_ ~> Unwritten = {} \/ ~logging_
    /\ where # "none" /\ ~logging_ ~> where = "end"

(* While buffers change hands between append and threadFunc, are dropped   *)
(* and used again, and files are rolled: no line is lost or doubled, the   *)
(* writing thread never runs out of buffers, and no file is overwritten.   *)
LogFileInv == LoggingTypeOK /\ BuffersSuffice /\ LogConserved /\ NamesDiffer
=============================================================================
