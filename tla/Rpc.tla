-------------------------------- MODULE Rpc --------------------------------
(***************************************************************************)
(* muduo::net::RpcChannel over ProtobufCodecLite                            *)
(* (src/muduo/net/protorpc/RpcChannel.cc, RpcServer.cc,                     *)
(* src/muduo/net/protobuf/ProtobufCodecLite.cc): threads of a client call   *)
(* methods of a server over one TCP connection.                             *)
(*                                                                          *)
(* A stream carries the fields of frames, one element for each: the length, *)
(* the tag, the parts of the payload, the checksum.  TCP delivers it in     *)
(* pieces cut anywhere.  kHeaderLen, kChecksumLen and the tag are one       *)
(* element long, a payload is as long as its message.  The checksum is      *)
(* taken to be perfect.                                                     *)
(***************************************************************************)
EXTENDS Integers, Sequences, FiniteSets

CONSTANTS Threads,        \* client threads that call methods
          Methods,        \* what they ask for; see Answer
          MaxRpcCalls,       \* bound: calls
          MaxForeign,     \* bound: malformed frames of a foreign peer
          kMaxMessageLen  \* the longest frame accepted

VARIABLES id_,          \* the client's AtomicInt64
          outstandings_,\* id -> the thread's closure waiting for the answer
          calling,      \* thread -> where it is inside CallMethod
          done,         \* the closures that ran: [id, method, answer]
          requests,     \* bytes on the way to the server
          serverBuf,    \* the server connection's input buffer
          running,      \* closures given to services: [id, method]
          channel,      \* the server's RpcChannel, see RpcTypeOK
          responses,    \* bytes on the way to the client
          clientBuf,    \* the client connection's input buffer
          served,       \* requests dispatched by the server, in order
          sent          \* requests written by the client, in order

rpcVars == <<id_, outstandings_, calling, done, requests, serverBuf, running,
             channel, responses, clientBuf, served, sent>>

tag_ == "RPC0"
kHeaderLen == 1
kChecksumLen == 1
kMinMessageLen == 1 + kChecksumLen

Request(id, m) == [type |-> "REQUEST", id |-> id, body |-> m]
(* set_response or set_error: has says which field the message has *)
Response(id, has, a) == [type |-> "RESPONSE", id |-> id, has |-> has, body |-> a]

(* SerializeWithCachedSizesToArray and ParseFromArray: a payload is parsed *)
(* when it is all of one message                                           *)
ByteSize(m) == IF m.type = "REQUEST" THEN 1 ELSE 2
serializeToBuffer(m) == [i \in 1 .. ByteSize(m) |-> [msg |-> m, part |-> i]]
Parsable(p) == Len(p) > 0 /\ "msg" \in DOMAIN p[1] /\ p = serializeToBuffer(p[1].msg)

(* adler32 of the tag and the payload *)
checksum(s) == [sum |-> s]

fillEmptyBuffer(m) ==
  LET body == <<[tag |-> tag_]>> \o serializeToBuffer(m)
      all == Append(body, checksum(body))
  IN  <<[len |-> Len(all)]>> \o all

(* parse of the frame after its length *)
parse(frame) ==
  LET body == SubSeq(frame, 1, Len(frame) - kChecksumLen)
  IN  IF frame[Len(frame)] # checksum(body) THEN "CheckSumError"
      ELSE IF frame[1] # [tag |-> tag_] THEN "UnknownMessageType"
      ELSE IF ~Parsable(Tail(body)) THEN "ParseError"
      ELSE "NoError"

(* What ProtobufCodecLite::onMessage does with the buffer b: the messages  *)
(* it hands on, what is left, and whether errorCallback_ was called.       *)
RECURSIVE onMessage(_, _)
onMessage(b, msgs) ==
  LET len == b[1].len
      frame == SubSeq(b, kHeaderLen + 1, kHeaderLen + len)
      stop(e) == [msgs |-> msgs, rest |-> b, error |-> e]
  IN  IF Len(b) < kMinMessageLen + kHeaderLen THEN stop("NoError")
      ELSE IF len > kMaxMessageLen \/ len < kMinMessageLen THEN stop("InvalidLength")
      ELSE IF Len(b) < kHeaderLen + len THEN stop("NoError")
      ELSE IF parse(frame) # "NoError" THEN stop(parse(frame))
      ELSE onMessage(SubSeq(b, kHeaderLen + len + 1, Len(b)),
                     Append(msgs, frame[2].msg))

(* frames of a peer that speaks something else *)
ForeignFrames ==
  LET body(t, p) == <<[tag |-> t], p>>
      framed(n, s, c) == <<[len |-> n]>> \o s \o <<c>>
      good == body(tag_, [msg |-> Request(0, "none"), part |-> 1])
  IN  {framed(kMaxMessageLen + 1, good, checksum(good)),
       framed(kMinMessageLen - 1, good, checksum(good)),
       framed(3, good, checksum(<<>>)),
       framed(3, body("HTTP", [x |-> 1]), checksum(body("HTTP", [x |-> 1]))),
       framed(3, body(tag_, [x |-> 1]), checksum(body(tag_, [x |-> 1])))}

(* what the server answers at once; methods that a service accepts are     *)
(* answered by its closure, with their own name                            *)
ErrorOf(m) == IF m \in {"NO_SERVICE", "NO_METHOD", "INVALID_REQUEST"} THEN m
              ELSE "NO_ERROR"

(* what ParseFromString leaves in the closure's response: only has_response  *)
(* is parsed, and the error of a refused call is dropped                   *)
Empty == "empty"
Parsed(m) == IF m.has = "response" THEN m.body ELSE Empty

-----------------------------------------------------------------------------
RpcInit ==
  /\ id_ = 0 /\ outstandings_ = <<>> /\ done = {} /\ running = {}
  /\ calling = [t \in Threads |-> <<>>]
  /\ requests = <<>> /\ serverBuf = <<>> /\ responses = <<>> /\ clientBuf = <<>>
  /\ channel = "up" /\ served = <<>> /\ sent = <<>>

\* Slip: the calls under way are counted instead.
NextId_Size == Cardinality(DOMAIN outstandings_) + 1
NextId == id_ + 1

(* CallMethod, three steps other threads and the loop can come between *)
IncrementAndGet(t) == \E m \in Methods :
  /\ calling[t] = <<>> /\ id_ < MaxRpcCalls
  /\ id_' = id_ + 1
  /\ calling' = [calling EXCEPT ![t] = <<[id |-> NextId, method |-> m, step |-> "insert"]>>]
  /\ UNCHANGED <<outstandings_, done, requests, serverBuf, running, channel,
                 responses, clientBuf, served, sent>>

InsertOutstanding(t) ==
  /\ calling[t] # <<>> /\ calling[t][1].step = "insert"
  /\ outstandings_' = [i \in DOMAIN outstandings_ \cup {calling[t][1].id} |->
       IF i = calling[t][1].id THEN t ELSE outstandings_[i]]
  /\ calling' = [calling EXCEPT ![t][1].step = "send"]
  /\ UNCHANGED <<id_, done, requests, serverBuf, running, channel, responses,
                 clientBuf, served, sent>>

SendRequest(t) ==
  /\ calling[t] # <<>> /\ calling[t][1].step = "send"
  /\ LET m == Request(calling[t][1].id, calling[t][1].method)
     IN  IF channel = "freed" THEN UNCHANGED <<requests, sent>>
         ELSE requests' = requests \o fillEmptyBuffer(m) /\ sent' = Append(sent, m)
  /\ calling' = [calling EXCEPT ![t] = <<>>]
  /\ UNCHANGED <<id_, outstandings_, done, serverBuf, running, channel,
                 responses, clientBuf, served>>

(* the peer's malformed frame, marked in `sent' *)
Foreign == \E f \in ForeignFrames :
  /\ channel # "freed" /\ Cardinality({i \in DOMAIN sent : sent[i].type = "FOREIGN"}) < MaxForeign
  /\ requests' = requests \o f
  /\ sent' = Append(sent, [type |-> "FOREIGN"])
  /\ UNCHANGED <<id_, outstandings_, calling, done, serverBuf, running, channel,
                 responses, clientBuf, served>>

Errors(ms) == SelectSeq(ms, LAMBDA m : ErrorOf(m.body) # "NO_ERROR")
RECURSIVE Frames(_)
Frames(ms) == IF ms = <<>> THEN <<>> ELSE fillEmptyBuffer(Head(ms)) \o Frames(Tail(ms))

(* Bytes reach the server: RpcChannel::onMessage, then onRpcMessage for    *)
(* each request.  After an error the connection is shut down: nothing is   *)
(* written any more, though the messages before it were dispatched.        *)
ServerMessage == \E n \in 1 .. Len(requests) :
  LET r == onMessage(serverBuf \o SubSeq(requests, 1, n), <<>>)
      refused == Errors(r.msgs)
  IN  /\ channel # "freed"
      /\ requests' = SubSeq(requests, n + 1, Len(requests))
      /\ serverBuf' = r.rest
      /\ served' = served \o r.msgs
      /\ running' = running \cup {r.msgs[i] : i \in {j \in DOMAIN r.msgs :
                                     ErrorOf(r.msgs[j].body) = "NO_ERROR"}}
      /\ responses' = IF channel = "shut" THEN responses ELSE responses \o
           Frames([i \in DOMAIN refused |->
                     Response(refused[i].id, "error", ErrorOf(refused[i].body))])
      /\ channel' = IF r.error = "NoError" THEN channel ELSE "shut"
      /\ UNCHANGED <<id_, outstandings_, calling, done, clientBuf, sent>>

(* A service runs the closure it was given, at any time and in any order.  *)
(* The closure holds the channel by a plain pointer: run on a channel that *)
(* was freed, it reads what is not there any more, and anything may follow. *)
DoneCallback == \E m \in running :
  /\ running' = running \ {m}
  /\ responses' = IF channel = "up"
                  THEN responses \o fillEmptyBuffer(Response(m.id, "response", m.body))
                  ELSE responses
  /\ channel' = IF channel = "freed" THEN "dangling" ELSE channel
  /\ UNCHANGED <<id_, outstandings_, calling, done, requests, serverBuf,
                 clientBuf, served, sent>>

(* RpcServer::onConnection, DOWN: the channel goes, and with it what waits *)
(* in the input buffer; what the client still writes reaches nobody.       *)
ConnectionEnds ==
  /\ channel # "freed"
  /\ channel' = "freed" /\ requests' = <<>> /\ serverBuf' = <<>>
  /\ UNCHANGED <<id_, outstandings_, calling, done, running, responses,
                 clientBuf, served, sent>>

(* Bytes reach the client: each response takes its call out of             *)
(* outstandings_ and runs its closure; one with an unknown id is ignored.  *)
ClientMessage == \E n \in 1 .. Len(responses) :
  LET r == onMessage(clientBuf \o SubSeq(responses, 1, n), <<>>)
      answered == {i \in DOMAIN r.msgs : r.msgs[i].id \in DOMAIN outstandings_}
  IN  /\ responses' = SubSeq(responses, n + 1, Len(responses))
      /\ clientBuf' = r.rest
      /\ done' = done \cup {[thread |-> outstandings_[r.msgs[i].id],
                             id |-> r.msgs[i].id,
                             answer |-> Parsed(r.msgs[i])] : i \in answered}
      /\ outstandings_' = [k \in DOMAIN outstandings_ \ {r.msgs[i].id : i \in answered}
                             |-> outstandings_[k]]
      /\ UNCHANGED <<id_, calling, requests, serverBuf, running, channel, served, sent>>

RpcNext ==
  /\ channel # "dangling"
  /\ \/ \E t \in Threads : IncrementAndGet(t) \/ InsertOutstanding(t) \/ SendRequest(t)
     \/ Foreign \/ ServerMessage \/ DoneCallback \/ ConnectionEnds \/ ClientMessage

RpcSpec == RpcInit /\ [][RpcNext]_rpcVars

-----------------------------------------------------------------------------
(* outstandings_ holds calls that RpcChannel::CallMethod has numbered.  The  *)
(* channel's connection is up, or shut down after an error of the codec;    *)
(* then it is freed, and may still be used.                                *)
RpcTypeOK ==
  /\ id_ \in 0 .. MaxRpcCalls
  /\ channel \in {"up", "shut", "freed", "dangling"}
  /\ \A i \in DOMAIN outstandings_ : i \in 1 .. id_ /\ outstandings_[i] \in Threads
  /\ \A m \in running : m.type = "REQUEST"

SentRequests == SelectSeq(sent, LAMBDA m : m.type = "REQUEST")
Unspoilt == \A i \in DOMAIN sent : sent[i].type # "FOREIGN"

(* However the stream is cut, the codec dispatches the frames that were    *)
(* written, in order and once each, and none that comes after a malformed  *)
(* one.                                                                    *)
FramesInOrder ==
  /\ Len(served) <= Len(sent)
  /\ \A i \in DOMAIN served : served[i] = sent[i]

(* Every closure that ran got the answer to its own request, or an empty   *)
(* response if that request was refused; each call is answered once, and an *)
(* id names one call: with several threads in CallMethod at once and       *)
(* services that answer out of order.                                      *)
AnswersMatch ==
  /\ \A d \in done : \E i \in DOMAIN sent :
       /\ sent[i].type = "REQUEST" /\ sent[i].id = d.id
       /\ d.answer = IF ErrorOf(sent[i].body) = "NO_ERROR" THEN sent[i].body
                     ELSE Empty
  /\ \A d, e \in done : d.id = e.id => d = e
  /\ \A d \in done : d.id \notin DOMAIN outstandings_
  /\ \A i, j \in DOMAIN SentRequests : i # j => SentRequests[i].id # SentRequests[j].id

(* When nothing is under way any more on an unspoilt connection that is    *)
(* still up, every call has been answered: no answer comes before its call *)
(* is recorded, and none stays in a buffer.                                *)
AtRestAllAnswered ==
  Unspoilt /\ channel = "up" /\ requests = <<>> /\ responses = <<>> /\ running = {}
    /\ (\A t \in Threads : calling[t] = <<>>)
  => /\ DOMAIN outstandings_ = {} /\ serverBuf = <<>> /\ clientBuf = <<>>
     /\ Cardinality(done) = id_

(* Every call gets its own answer once, over a stream that is cut anywhere *)
(* and read up to the first malformed frame or the end of the connection.  *)
RpcInv == RpcTypeOK /\ FramesInOrder /\ AnswersMatch /\ AtRestAllAnswered
=============================================================================
