-------------------------------- MODULE Http --------------------------------
(***************************************************************************)
(* muduo's HTTP server (src/muduo/net/http: HttpServer.cc, HttpContext.cc,  *)
(* HttpRequest.h, HttpResponse.cc) on one connection.                       *)
(*                                                                          *)
(* A line is [words, header]: its words between spaces, and <<field, value>>*)
(* when it has a colon.  On the wire a line is followed by cr and lf,   *)
(* and TCP may cut the stream before, between and after them.               *)
(***************************************************************************)
EXTENDS Integers, Sequences, SequencesExt, FiniteSetsExt

CONSTANTS Lines,    \* the lines a client sends
          Questions, \* target -> <<path, query>>
          MaxLines  \* bound: lines sent

VARIABLES wire,      \* sent, not yet delivered
          stream,    \* all the lines sent
          inputBuf,  \* the connection's input buffer
          state_, request_,  \* the HttpContext of the connection
          open,      \* kConnected: shutdown() has not been called
          halted,    \* the assertion of setMethod has failed
          output,    \* the responses written
          pipelined  \* a request was complete while more had already arrived

httpVars == <<wire, stream, inputBuf, state_, request_, open, halted, output,
              pipelined>>

cr == [words |-> <<"\\r">>, header |-> <<>>]
lf == [words |-> <<"\\n">>, header |-> <<>>]

emptyRequest == [method |-> "Invalid", version |-> "Unknown", path |-> "", query |-> "",
                 headers |-> <<>>]

getHeader(req, field) == IF field \in DOMAIN req.headers THEN req.headers[field] ELSE ""

addHeader(req, h) ==
  [req EXCEPT !.headers = [f \in DOMAIN @ \cup {h[1]} |->
                             IF f = h[1] THEN h[2] ELSE @[f]]]

(* setMethod *)
methodOf(word) ==
  IF word \in {"GET", "POST", "HEAD", "PUT", "DELETE"} THEN word ELSE "Invalid"

versionOf(word) ==
  CASE word = "HTTP/1.1" -> "Http11" [] word = "HTTP/1.0" -> "Http10"
    [] OTHER -> "Unknown"

(* setPath and, with a question mark, setQuery; Questions gives the path    *)
(* and the query of the targets that have one                              *)
setTarget(req, target) ==
  IF target \in DOMAIN Questions
  THEN [req EXCEPT !.path = Questions[target][1], !.query = Questions[target][2]]
  ELSE [req EXCEPT !.path = target]

(* A line with a space has a word that setMethod is called with.           *)
HasMethod(words) == Len(words) > 1

(* What processRequestLine leaves in the request, valid or not, and its    *)
(* verdict: two spaces at least, a known method, nothing after the version.*)
processRequestLine(req, words) ==
  LET m == [req EXCEPT !.method = methodOf(words[1])]
      t == setTarget(m, words[2])
      v == [t EXCEPT !.version = versionOf(words[3])]
  IN  IF ~HasMethod(words) THEN [ok |-> FALSE, req |-> req]
      ELSE IF m.method = "Invalid" \/ Len(words) < 3 THEN [ok |-> FALSE, req |-> m]
      ELSE IF Len(words) > 3 \/ versionOf(words[3]) = "Unknown"
           THEN [ok |-> FALSE, req |-> t]
      ELSE [ok |-> TRUE, req |-> v]

(* findCRLF: the position of the first cr that a lf follows, 0 for none *)
requestCRLF(b) ==
  LET S == {i \in 1 .. Len(b) - 1 : b[i] = cr /\ b[i + 1] = lf}
  IN  IF S = {} THEN 0 ELSE Min(S)

(* The line before the cr, which is its only element or absent when empty *)
LineBefore(b, crlf) ==
  IF crlf = 1 THEN [words |-> <<"">>, header |-> <<>>] ELSE b[1]

(* setMethod asserts that the request has no method yet.  A line that was  *)
(* refused for what follows its method stays in the buffer, and so does the *)
(* method in the request: the next read comes to that line again.          *)
MethodSetTwice(st, req, b) ==
  LET crlf == requestCRLF(b)
  IN  /\ st = "ExpectRequestLine" /\ req.method # "Invalid"
      /\ crlf > 0 /\ HasMethod(LineBefore(b, crlf).words)

(* parseRequest, one turn of its loop after another *)
RECURSIVE parseRequest(_, _, _)
parseRequest(st, req, b) ==
  LET crlf == requestCRLF(b)
      line == LineBefore(b, crlf)
      rest == SubSeq(b, crlf + 2, Len(b))
      r == processRequestLine(req, line.words)
      result(ok, s, q, left) == [ok |-> ok, state |-> s, req |-> q, buf |-> left]
  IN  CASE crlf = 0 -> result(TRUE, st, req, b)
        [] crlf > 0 /\ st = "ExpectRequestLine" /\ r.ok ->
             parseRequest("ExpectHeaders", r.req, rest)
        [] crlf > 0 /\ st = "ExpectRequestLine" /\ ~r.ok -> result(FALSE, st, r.req, b)
        [] crlf > 0 /\ st = "ExpectHeaders" /\ line.header # <<>> ->
             parseRequest(st, addHeader(req, line.header), rest)
        [] OTHER -> result(TRUE, "GotAll", req, rest)

(* the application's callback; the default one answers 404 and closes *)
httpCallback_(req, close) ==
  IF req.path = "/" THEN [status |-> 200, close |-> close, query |-> req.query]
                    ELSE [status |-> 404, close |-> TRUE, query |-> req.query]

(* onRequest *)
onRequest(req) ==
  LET connection == getHeader(req, "Connection")
  IN  httpCallback_(req, \/ connection = "close"
                         \/ req.version = "Http10" /\ connection # "Keep-Alive")

BadRequest == [status |-> 400, close |-> TRUE, query |-> ""]

-----------------------------------------------------------------------------
HttpInit ==
  /\ wire = <<>> /\ stream = <<>> /\ inputBuf = <<>> /\ output = <<>>
  /\ state_ = "ExpectRequestLine" /\ request_ = emptyRequest
  /\ open = TRUE /\ halted = FALSE /\ pipelined = FALSE

ClientSends == \E l \in Lines :
  /\ Len(stream) < MaxLines
  /\ stream' = Append(stream, l)
  /\ wire' = wire \o (IF l.words = <<"">> THEN <<>> ELSE <<l>>) \o <<cr, lf>>
  /\ UNCHANGED <<inputBuf, state_, request_, open, halted, output, pipelined>>

\* Slip: reset() forgets the request.
NextRequest_NoReset(p) == p.req

(* HttpContext::reset after a request that is complete *)
NextState(p) == IF p.state = "GotAll" THEN "ExpectRequestLine" ELSE p.state
NextRequest(p) == IF p.state = "GotAll" THEN emptyRequest ELSE p.req

(* onMessage, with as much of the wire as one read returns.  send after    *)
(* shutdown writes nothing; reading goes on.                               *)
OnMessage == \E n \in 1 .. Len(wire) :
  /\ ~MethodSetTwice(state_, request_, inputBuf \o SubSeq(wire, 1, n))
  /\ wire' = SubSeq(wire, n + 1, Len(wire))
  /\ \E p \in {parseRequest(state_, request_, inputBuf \o SubSeq(wire, 1, n))} :
       LET gotAll == p.state = "GotAll"
           answer == onRequest(p.req)
           writes == (IF p.ok THEN <<>> ELSE <<BadRequest>>)
                     \o (IF gotAll THEN <<answer>> ELSE <<>>)
       IN  /\ inputBuf' = p.buf
           /\ output' = IF open THEN output \o writes ELSE output
           /\ open' = (open /\ p.ok /\ (gotAll => ~answer.close))
           /\ state_' = NextState(p) /\ request_' = NextRequest(p)
           /\ pipelined' = (pipelined \/ (gotAll /\ p.buf # <<>>))
  /\ UNCHANGED <<stream, halted>>

(* onMessage, up to the assertion that does not hold                       *)
OnMessageAborts == \E n \in 1 .. Len(wire) :
  /\ MethodSetTwice(state_, request_, inputBuf \o SubSeq(wire, 1, n))
  /\ wire' = SubSeq(wire, n + 1, Len(wire)) /\ halted' = TRUE
  /\ UNCHANGED <<stream, inputBuf, state_, request_, open, output, pipelined>>

HttpNext == ~halted /\ (ClientSends \/ OnMessage \/ OnMessageAborts)
HttpSpec == HttpInit /\ [][HttpNext]_httpVars

-----------------------------------------------------------------------------
(* Between two reads HttpContext waits for a line: kGotAll never outlives   *)
(* the call of HttpServer::onMessage that reached it.                       *)
HttpTypeOK ==
  /\ state_ \in {"ExpectRequestLine", "ExpectHeaders"}
  /\ open \in BOOLEAN /\ halted \in BOOLEAN /\ pipelined \in BOOLEAN
  /\ request_.method \in {"Invalid", "GET", "POST", "HEAD", "PUT", "DELETE"}

(* The reference: the answers to whole lines, one request after another,   *)
(* from line i on.  A request ends at the first line without a colon.      *)
EndOf(i) == LET S == {j \in i + 1 .. Len(stream) : stream[j].header = <<>>}
            IN  IF S = {} THEN 0 ELSE Min(S)
HeadersOf(i, j) == {k \in i + 1 .. j - 1 : stream[k].header[1] = "Connection"}
RECURSIVE Answers(_)
Answers(i) ==
  IF i > Len(stream) THEN <<>>
  ELSE LET r == processRequestLine(emptyRequest, stream[i].words)
           j == EndOf(i)
           C == HeadersOf(i, j)
           req == IF C = {} THEN r.req ELSE addHeader(r.req, stream[Max(C)].header)
       IN  IF ~r.ok THEN <<BadRequest>>
           ELSE IF j = 0 THEN <<>>
           ELSE IF onRequest(req).close THEN <<onRequest(req)>>
           ELSE <<onRequest(req)>> \o Answers(j + 1)

(* Wherever the stream is cut, the responses are those of the requests it  *)
(* spells, in order: nothing of one request shows in the answer to the     *)
(* next on a connection that is kept alive, and nothing follows a close.   *)
ResponsesInOrder == IsPrefix(output, Answers(1))

(* A client that waits for an answer before it sends again gets them all:  *)
(* when everything has been delivered and no request arrived together with *)
(* a part of the next, no answer is owed.                                  *)
AnsweredAtRest == wire = <<>> /\ ~pipelined => output = Answers(1)

(* setMethod finds no method of an earlier line while the connection is    *)
(* open: its assertion fails only on a connection that was shut down, and  *)
(* on which a line was refused, when the client goes on writing.           *)
MethodSetOnce ==
  halted => /\ ~open
             /\ \E i \in DOMAIN stream :
                  LET r == processRequestLine(emptyRequest, stream[i].words)
                  IN  ~r.ok /\ r.req.method # "Invalid"

(* The responses are those of the requests, in order and, at rest, all, and *)
(* HttpContext is clean for the next request.                              *)
HttpInv == HttpTypeOK /\ ResponsesInOrder /\ AnsweredAtRest /\ MethodSetOnce
=============================================================================
