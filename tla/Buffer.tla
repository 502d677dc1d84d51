------------------------------- MODULE Buffer -------------------------------
(***************************************************************************)
(* muduo::net::Buffer (src/muduo/net/Buffer.h, Buffer.cc): one vector with  *)
(* a reader and a writer index, used as the input and the output buffer of  *)
(* every connection.                                                        *)
(*                                                                          *)
(* A buffer is a record; the member functions are operators on it.  The     *)
(* variable `content' is the abstract specification beside it: what an      *)
(* ideal queue of bytes would hold after the same calls.                    *)
(***************************************************************************)
EXTENDS Integers, Sequences, FiniteSetsExt

CONSTANTS kCheapPrepend,  \* room kept in front of the data
          kInitialSize,   \* room for data in a new buffer
          sizeofExtrabuf, \* the stack buffer of readFd
          MaxLen,         \* bound: bytes in one call
          MaxSize         \* bound: readable bytes

ASSUME BufferAssumption ==
  /\ kCheapPrepend \in Nat /\ kInitialSize \in Nat /\ sizeofExtrabuf \in Nat
  /\ MaxLen \in Nat /\ MaxSize \in Nat

VARIABLES buf,     \* the buffer: [bytes, reader, writer]
          content  \* the ideal queue of bytes

bufferVars == <<buf, content>>

Byte == {0, 1}
CR == 1
LF == 0

Strings(n) == UNION {[1 .. k -> Byte] : k \in 0 .. n}

(* a vector of n value-initialised chars *)
Zeros(n) == [i \in 1 .. n |-> 0]

newBuffer == [bytes |-> Zeros(kCheapPrepend + kInitialSize),
              reader |-> kCheapPrepend, writer |-> kCheapPrepend]

readableBytes(b) == b.writer - b.reader
writableBytes(b) == Len(b.bytes) - b.writer
prependableBytes(b) == b.reader
toStringPiece(b) == SubSeq(b.bytes, b.reader + 1, b.writer)

(* std::copy of s to the position after offset at *)
Copy(bytes, at, s) ==
  [i \in 1 .. Len(bytes) |->
     IF i \in at + 1 .. at + Len(s) THEN s[i - at] ELSE bytes[i]]

(* The offset from start of the first match, -1 for NULL.  The search      *)
(* stops at beginWrite().                                                  *)
FirstOf(S) == IF S = {} THEN -1 ELSE Min(S)
findCRLF(b, start) ==
  FirstOf({i \in b.reader + start .. b.writer - 2 :
             b.bytes[i + 1] = CR /\ b.bytes[i + 2] = LF})
findEOL(b, start) ==
  FirstOf({i \in b.reader + start .. b.writer - 1 : b.bytes[i + 1] = LF})

retrieveAll(b) == [b EXCEPT !.reader = kCheapPrepend, !.writer = kCheapPrepend]

retrieve(b, len) ==
  IF len < readableBytes(b) THEN [b EXCEPT !.reader = @ + len]
                            ELSE retrieveAll(b)

MustGrow(b, len) ==
  writableBytes(b) + prependableBytes(b) < len + kCheapPrepend

(* vector::resize to writerIndex_ + len, or the readable bytes moved back  *)
(* to the front                                                            *)
makeSpace(b, len) ==
  IF MustGrow(b, len)
  THEN [b EXCEPT !.bytes = b.bytes \o Zeros(b.writer + len - Len(b.bytes))]
  ELSE [bytes |-> Copy(b.bytes, kCheapPrepend, toStringPiece(b)),
        reader |-> kCheapPrepend,
        writer |-> kCheapPrepend + readableBytes(b)]

ensureWritableBytes(b, len) ==
  IF writableBytes(b) < len THEN makeSpace(b, len) ELSE b

append(b, s) ==
  LET e == ensureWritableBytes(b, Len(s))
  IN  [e EXCEPT !.bytes = Copy(e.bytes, e.writer, s), !.writer = @ + Len(s)]

unwrite(b, len) == [b EXCEPT !.writer = @ - len]

prepend(b, s) ==
  [b EXCEPT !.reader = @ - Len(s),
            !.bytes = Copy(b.bytes, b.reader - Len(s), s)]

shrink(b, reserve) ==
  append(ensureWritableBytes(newBuffer, readableBytes(b) + reserve),
         toStringPiece(b))

\* Slip: what went to the stack buffer is not appended.
readFd_FirstPart(b, s) ==
  LET n == Min({Len(s), writableBytes(b)})
  IN  [b EXCEPT !.bytes = Copy(b.bytes, b.writer, SubSeq(s, 1, n)), !.writer = @ + n]
(* readv of the bytes s into the writable part and the stack buffer        *)
readFd(b, s) ==
  LET writable == writableBytes(b)
  IN  IF Len(s) <= writable
      THEN [b EXCEPT !.bytes = Copy(b.bytes, b.writer, s), !.writer = @ + Len(s)]
      ELSE append([b EXCEPT !.bytes = Copy(b.bytes, b.writer, SubSeq(s, 1, writable)),
                            !.writer = Len(b.bytes)],
                  SubSeq(s, writable + 1, Len(s)))

(* what one readv may return: the second vector is offered only while the  *)
(* writable part is smaller than it                                        *)
ReadvLimit(b) ==
  writableBytes(b) + (IF writableBytes(b) < sizeofExtrabuf THEN sizeofExtrabuf ELSE 0)

(* integers of n bytes in network order, most significant first            *)
PowersOfTwo[n \in Nat] == IF n = 0 THEN 1 ELSE 2 * PowersOfTwo[n - 1]
IntsOf(n) == 0 .. PowersOfTwo[n] - 1
Shifted(x) ==
  LET s[k \in Nat] == IF k = 0 THEN x ELSE s[k - 1] \div 2 IN s
hostToNetwork(x, n) == [i \in 1 .. n |-> Shifted(x)[n - i] % 2]
Values(b, n) ==
  LET v[i \in 0 .. n] == IF i = 0 THEN 0 ELSE 2 * v[i - 1] + b.bytes[b.reader + i]
  IN  v
peekInt(b, n) == Values(b, n)[n]
appendInt(b, x, n) == append(b, hostToNetwork(x, n))
prependInt(b, x, n) == prepend(b, hostToNetwork(x, n))
readInt(b, n) == retrieve(b, n)

-----------------------------------------------------------------------------
BufferInit == buf = newBuffer /\ content = <<>>

(* the bound; makeSpace keeps the vector itself within a constant of it    *)
Fits(b, n) == readableBytes(b) + n <= MaxSize

AppendBytes == \E s \in Strings(MaxLen) :
  /\ Fits(buf, Len(s))
  /\ buf' = append(buf, s)
  /\ content' = content \o s

PrependBytes == \E s \in Strings(MaxLen) :
  /\ Len(s) <= prependableBytes(buf) /\ Fits(buf, Len(s))
  /\ buf' = prepend(buf, s)
  /\ content' = s \o content

AppendInt == \E n \in 1 .. MaxLen : \E x \in IntsOf(n) :
  /\ Fits(buf, n)
  /\ buf' = appendInt(buf, x, n)
  /\ content' = content \o hostToNetwork(x, n)

PrependInt == \E n \in 1 .. MaxLen : \E x \in IntsOf(n) :
  /\ n <= prependableBytes(buf) /\ Fits(buf, n)
  /\ buf' = prependInt(buf, x, n)
  /\ content' = hostToNetwork(x, n) \o content

(* retrieve, retrieveUntil, retrieveAsString *)
Retrieve == \E len \in 0 .. readableBytes(buf) :
  /\ buf' = retrieve(buf, len)
  /\ content' = SubSeq(content, len + 1, Len(content))

ReadInt == \E n \in 1 .. MaxLen :
  /\ n <= readableBytes(buf)
  /\ buf' = readInt(buf, n)
  /\ content' = SubSeq(content, n + 1, Len(content))

Unwrite == \E len \in 0 .. readableBytes(buf) :
  /\ buf' = unwrite(buf, len)
  /\ content' = SubSeq(content, 1, Len(content) - len)

EnsureWritable == \E len \in 0 .. MaxLen :
  /\ Fits(buf, len)
  /\ buf' = ensureWritableBytes(buf, len)
  /\ UNCHANGED content

Shrink == \E reserve \in 0 .. MaxLen :
  /\ readableBytes(buf) + reserve <= MaxSize
  /\ buf' = shrink(buf, reserve)
  /\ UNCHANGED content

ReadFd == \E s \in Strings(ReadvLimit(buf)) :
  /\ Fits(buf, Len(s))
  /\ buf' = readFd(buf, s)
  /\ content' = content \o s

BufferNext ==
  \/ AppendBytes \/ PrependBytes \/ AppendInt \/ PrependInt \/ Retrieve \/ ReadInt
  \/ Unwrite \/ EnsureWritable \/ Shrink \/ ReadFd

BufferSpec == BufferInit /\ [][BufferNext]_bufferVars

-----------------------------------------------------------------------------
(* The indices are ordered 0 <= reader <= writer <= size, as the diagram   *)
(* over the class draws them, and the vector never loses its front room.   *)
BufferTypeOK ==
  /\ buf.bytes \in Seq(Byte)
  /\ buf.reader \in 0 .. buf.writer
  /\ buf.writer \in 0 .. Len(buf.bytes)
  /\ Len(buf.bytes) >= kCheapPrepend

(* Whatever calls came before, moved or reallocated, the readable bytes    *)
(* are those of an ideal queue: none lost, doubled or reordered by         *)
(* makeSpace, by the two halves of readFd or by shrink.                    *)
ContentIsQueue == toStringPiece(buf) = content

(* Searching for a line end sees the readable bytes and nothing of the     *)
(* stale ones around them, from whichever start it begins.                 *)
SearchSeesContent == \A start \in 0 .. Len(content) :
  /\ findCRLF(buf, start) =
       FirstOf({buf.reader + i - 1 : i \in {j \in start + 1 .. Len(content) - 1 :
                  content[j] = CR /\ content[j + 1] = LF}})
  /\ findEOL(buf, start) =
       FirstOf({buf.reader + i - 1 : i \in {j \in start + 1 .. Len(content) :
                  content[j] = LF}})

(* A length prepended before the data is the one that is peeked first, and *)
(* taking it off leaves the data: the framing of the codecs rests on it.   *)
FramingRoundTrip == \A n \in 1 .. prependableBytes(buf) : \A x \in IntsOf(n) :
  LET framed == prependInt(buf, x, n)
  IN  /\ peekInt(framed, n) = x
      /\ toStringPiece(readInt(framed, n)) = content

(* A Buffer is a queue of bytes: for readers, for a search for a line end  *)
(* and for the codecs that prepend a length.                               *)
BufferInv ==
  BufferTypeOK /\ ContentIsQueue /\ SearchSeesContent /\ FramingRoundTrip
=============================================================================
