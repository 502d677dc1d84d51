------------------------------- MODULE Logging -------------------------------
(***************************************************************************)
(* muduo/base: Logger (Logging.cc, Logging.h) and the LogStream it writes  *)
(* to (LogStream.cc, LogStream.h).  A statement such as LOG_WARN << x << y *)
(* builds a Logger, inserts x and y into its stream and destroys it, which *)
(* hands the line to g_output.  Threads share the clock, the level and the *)
(* time zone; each keeps the text of the second it formatted last.  What   *)
(* is shared is read when the Logger is built and a stream belongs to its  *)
(* thread, so statements of two threads are taken one after the other;     *)
(* the clock, the zone and the level change at any time.                   *)
(*                                                                         *)
(* A stream holds the pieces that were inserted, each with its size; only  *)
(* numbers have a text, for their conversion can go wrong.                 *)
(***************************************************************************)
EXTENDS Integers, Sequences, SequencesExt

CONSTANTS Loggers,         \* the threads that log
          kSmallBuffer,    \* size of the FixedBuffer of a LogStream
          kMaxNumericSize, \* room that a number is given
          Texts,           \* sizes of the texts that are inserted
          Ints, Addresses, \* values inserted as numbers, and as pointers
          LogBits,         \* width of an int
          MaxInserts,      \* bound: insertions of one statement
          MaxSecond        \* bound: the clock stays in 1 .. MaxSecond

VARIABLES second,       \* the second of Timestamp::now()
          zoneSet,      \* g_logTimeZone is valid
          zoneChanged,  \* it was set after a line was begun: history
          g_logLevel,
          t_lastSecond, \* thread -> the second that t_time is of
          t_time,       \* thread -> [of, local]: second and zone of the text
          logger,       \* the Logger that is alive, or was the last
          written,      \* the highest position written in it, the NULs too
          aborted

loggerVars == <<second, zoneSet, zoneChanged, g_logLevel, t_lastSecond, t_time,
                logger, written, aborted>>

\* Logger::LogLevel in its order
Levels == <<"TRACE", "DEBUG", "INFO", "WARN", "ERROR", "FATAL">>
Rank(level) == CHOOSE i \in DOMAIN Levels : Levels[i] = level

-----------------------------------------------------------------------------
(* LogStream *)

PieceOf(kind, size, text, of, local) ==
    [kind |-> kind, size |-> size, text |-> text, of |-> of, local |-> local]
Piece(kind, size) == PieceOf(kind, size, <<>>, 0, FALSE)

\* FixedBuffer: what data_ holds, and where cur_ is
EmptyBuffer == [data |-> <<>>, cur |-> 0]
avail(b) == kSmallBuffer - b.cur
add(b, p) == [data |-> Append(b.data, p), cur |-> b.cur + p.size]

AppendFits(b, n) == avail(b) > n

\* FixedBuffer::append, and the insertion of text
appendText(b, p) == IF AppendFits(b, p.size) THEN add(b, p) ELSE b

\* A turn of convert and convertHex: C's division rounds towards zero and its %
\* keeps the sign of the dividend; the table that zero points into is symmetric.
Abs(x) == IF x < 0 THEN -x ELSE x
Quotient(i, base) == IF i < 0 THEN -((-i) \div base) ELSE i \div base
lsd(i, base) == Abs(i - Quotient(i, base) * base)

\* What their loop has left of the value after k turns
Quotients(value, base) ==
    LET i[k \in Nat] == IF k = 0 THEN value ELSE Quotient(i[k - 1], base)
    IN  i

\* Its digits, after std::reverse
Digits(value, base) ==
    LET i == Quotients(value, base)
        turns == Min({k \in 1 .. kMaxNumericSize : i[k] = 0})
    IN  [j \in 1 .. turns |-> lsd(i[turns - j], base)]

\* kMaxNumericSize is large enough for a number with its sign or its 0x, and a
\* NUL: staticCheck compares it with the digits of the widest types.
ASSUME LineAssumption ==
    /\ kSmallBuffer \in Nat \ {0} /\ kMaxNumericSize \in Nat /\ kMaxNumericSize >= 4
    /\ Texts \subseteq Nat /\ MaxInserts \in Nat /\ MaxSecond \in Nat \ {0}
    /\ Ints \subseteq -(2 ^ (LogBits - 1)) .. 2 ^ (LogBits - 1) - 1
    /\ Addresses \subseteq 0 .. 2 ^ LogBits - 1
    /\ \A v \in Ints \cup {1} : Quotients(v, 10)[kMaxNumericSize - 2] = 0
    /\ \A v \in Addresses : Quotients(v, 16)[kMaxNumericSize - 3] = 0

Minus == -1

\* convert, after its std::reverse
convert(value) ==
    (IF value < 0 THEN <<Minus>> ELSE <<>>) \o Digits(value, 10)

convertHex(value) == Digits(value, 16)

\* Slip: the room for the NUL and the sign is not counted.
NumberFits_Barely(b) == avail(b) >= 2

NumberFits(b) == avail(b) >= kMaxNumericSize

\* formatInteger
formatInteger(b, v) ==
    LET t == convert(v) IN
    IF NumberFits(b)
    THEN add(b, PieceOf("int", Len(t), t, v, FALSE)) ELSE b

\* operator<<(const void* )
formatPointer(b, v) ==
    LET t == convertHex(v) IN
    IF NumberFits(b)
    THEN add(b, PieceOf("pointer", Len(t) + 2, t, v, FALSE)) ELSE b

\* How far an insertion that made c of b has written: the conversions end
\* their text with a NUL, append does not.
Reach(b, c) == c.cur + (IF c # b /\ Last(c.data).text # <<>> THEN 1 ELSE 0)

-----------------------------------------------------------------------------
(* Logger *)

\* No statement was executed yet.
NoLogger == [alive |-> FALSE, fatal |-> FALSE, built |-> 0, inserts |-> 0,
             stream |-> EmptyBuffer]

LoggerInit ==
    /\ second = 1 /\ zoneSet = FALSE /\ zoneChanged = FALSE
    /\ g_logLevel = "INFO"
    /\ t_lastSecond = [t \in Loggers |-> 0]
    /\ t_time = [t \in Loggers |-> [of |-> 0, local |-> FALSE]]
    /\ logger = NoLogger /\ written = 0 /\ aborted = FALSE

Remembered(t) == [t_lastSecond EXCEPT ![t] = second]

\* The microseconds are followed by Z when no zone is set.
Mark == zoneSet

\* formatTime, in thread t: t_time and t_lastSecond
formatTime(t) ==
    /\ t_lastSecond' = Remembered(t)
    /\ t_time' = IF second = t_lastSecond[t] THEN t_time
                 ELSE [t_time EXCEPT ![t] = [of |-> second, local |-> zoneSet]]

TimePiece(t) == PieceOf("time", 1, <<>>, t_time'[t].of, t_time'[t].local)
MicrosPiece == PieceOf("micros", 1, <<>>, 0, Mark)

\* What Impl::Impl inserts after the time: tid, level, and the error if one
\* is given
Inserted(b, p, q) == appendText(appendText(b, p), q)
Header(b, savedErrno) ==
    LET h == Inserted(b, Piece("tid", 1), Piece("level", 1)) IN
    IF savedErrno = 0 THEN h
    ELSE LET e == Inserted(h, Piece("strerror", 1), Piece("errno", 1))
         IN  appendText(formatInteger(e, savedErrno), Piece("errnoEnd", 1))

\* Which statements build a Logger: LOG_TRACE, LOG_DEBUG and LOG_INFO test the
\* level.
Enabled(level) ==
    level \in {"TRACE", "DEBUG", "INFO"} => Rank(g_logLevel) <= Rank(level)

\* Logger::Logger in thread t; with TRACE and DEBUG the name of the function is
\* inserted.
construct(t, level, savedErrno) ==
    /\ ~aborted /\ ~logger.alive
    /\ Enabled(level)
    /\ formatTime(t)
    /\ LET h == Header(Inserted(EmptyBuffer, TimePiece(t), MicrosPiece), savedErrno)
           s == IF level \in {"TRACE", "DEBUG"}
                THEN Inserted(h, Piece("func", 1), Piece("space", 1)) ELSE h
       IN  /\ logger' = [alive |-> TRUE, fatal |-> level = "FATAL",
                         built |-> second, inserts |-> 0, stream |-> s]
           /\ written' = s.cur
    /\ UNCHANGED <<second, zoneSet, zoneChanged, g_logLevel, aborted>>

\* An operator<<: the stream becomes s.
insert(s) ==
    /\ logger.alive /\ logger.inserts < MaxInserts
    /\ logger' = [logger EXCEPT !.stream = s, !.inserts = @ + 1]
    /\ written' = Reach(logger.stream, s)
    /\ UNCHANGED <<second, zoneSet, zoneChanged, g_logLevel, t_lastSecond, t_time,
                   aborted>>

\* finish: " - ", the file, ':', the line number and the end of the line
finish(b) ==
    LET s == appendText(Inserted(b, Piece("dash", 1), Piece("file", 1)), Piece("colon", 1))
    IN  appendText(formatInteger(s, 1), Piece("newline", 1))

\* Logger::~Logger
destruct ==
    /\ logger.alive
    /\ logger' = [logger EXCEPT !.alive = FALSE, !.inserts = 0,
                                !.stream = finish(logger.stream)]
    /\ written' = logger'.stream.cur
    /\ aborted' = logger.fatal
    /\ UNCHANGED <<second, zoneSet, zoneChanged, g_logLevel, t_lastSecond, t_time>>

setLogLevel ==
    /\ ~aborted
    /\ g_logLevel' \in {"TRACE", "INFO"} \ {g_logLevel}
    /\ UNCHANGED <<second, zoneSet, zoneChanged, t_lastSecond, t_time, logger,
                   written, aborted>>

setTimeZone ==
    /\ ~aborted /\ ~zoneSet
    /\ zoneSet' = TRUE
    /\ zoneChanged' = (logger # NoLogger)
    /\ UNCHANGED <<second, g_logLevel, t_lastSecond, t_time, logger, written,
                   aborted>>

\* gettimeofday follows the wall clock, which may be set back.
wallClock ==
    /\ ~aborted
    /\ second' \in (1 .. MaxSecond) \ {second}
    /\ UNCHANGED <<zoneSet, zoneChanged, g_logLevel, t_lastSecond, t_time, logger,
                   written, aborted>>

LoggerNext ==
    \/ \E t \in Loggers :
         \/ \E level \in Range(Levels) : construct(t, level, 0)
         \/ \E level \in {"ERROR", "FATAL"}, e \in Ints \cap (Nat \ {0}) : construct(t, level, e)
    \/ \E n \in Texts : insert(appendText(logger.stream, Piece("text", n)))
    \/ \E v \in Ints : insert(formatInteger(logger.stream, v))
    \/ \E v \in Addresses : insert(formatPointer(logger.stream, v))
    \/ destruct \/ setLogLevel \/ setTimeZone \/ wallClock

LoggerSpec == LoggerInit /\ [][LoggerNext]_loggerVars
-----------------------------------------------------------------------------
(* A stream keeps one byte of its buffer free (FixedBuffer::append), and a
   thread remembers a second that has been.                                  *)
LoggerTypeOK ==
    /\ second \in 1 .. MaxSecond /\ g_logLevel \in Range(Levels)
    /\ \A t \in Loggers : t_lastSecond[t] \in 0 .. MaxSecond
    /\ logger.inserts \in 0 .. MaxInserts
    /\ logger.stream.cur \in 0 .. kSmallBuffer - 1

(* No insertion writes past data_, the NUL of a conversion included: the room
   of kMaxNumericSize holds the longest number.                              *)
InsideBuffer == written <= kSmallBuffer

(* Pieces that do not fit are left out one by one, the end of the line too.
   A line comes without its newline, and so runs into the next one, only when
   it has filled the buffer but for one byte; else the newline ends it.      *)
NewlineUnlessFull ==
    ~logger.alive /\ logger # NoLogger =>
        \/ Last(logger.stream.data).kind = "newline"
        \/ logger.stream.cur = kSmallBuffer - 1

Pieces(kinds) == {p \in Range(logger.stream.data) : p.kind \in kinds}

\* A text as a number, from its first digit on
ReadDigits(text, base) ==
    LET v[j \in 0 .. Len(text)] == IF j = 0 THEN 0
                                   ELSE IF text[j] = Minus THEN v[j - 1]
                                   ELSE v[j - 1] * base + text[j]
    IN  v
Number(text, base) ==
    (IF text[1] = Minus THEN -1 ELSE 1) * ReadDigits(text, base)[Len(text)]

(* Every number in a line reads back as the value that was inserted, the least
   int too, whose absolute value is no int.                                  *)
NumbersReadBack ==
    /\ \A p \in Pieces({"int"}) : Number(p.text, 10) = p.of
    /\ \A p \in Pieces({"pointer"}) : Number(p.text, 16) = p.of

(* The second in a line is that of its statement, whatever its thread has
   cached, the others did meanwhile and the clock was set to.                *)
StampIsOfItsSecond == \A p \in Pieces({"time"}) : p.of = logger.built

(* The time in a line is of the zone that its mark tells, if the zone is set
   before the first line.                                                    *)
MarkTellsZone == ~zoneChanged =>
    \A p, q \in Pieces({"time", "micros"}) : p.local = q.local

(* A line stays inside its buffer, ends with its newline unless it filled  *)
(* it, and says the numbers, the second and the zone of its statement.     *)
LineInv ==
    /\ LoggerTypeOK /\ InsideBuffer /\ NewlineUnlessFull
    /\ NumbersReadBack /\ StampIsOfItsSecond /\ MarkTellsZone
=============================================================================
