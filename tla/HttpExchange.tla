---------------------------- MODULE HttpExchange ----------------------------
(***************************************************************************)
(* The HTTP/1.1 exchange one IPP message travels in: a request read by the *)
(* client proxy (read_head and read_chunked_body in                        *)
(* adapters/client_proxy.rs) or by the endpoint (adapters/ipps/http.rs),   *)
(* and an answer of the endpoint read by the proxy (forward_ipp in         *)
(* adapters/client_connections.rs).  The network delivers a request in     *)
(* pieces, or stops in the middle; a sender that expects 100-continue      *)
(* holds its body back until it is told to go on.                          *)
(*                                                                         *)
(* What is sent is a sequence of tokens.  The two characters of a line's   *)
(* end are a token each and stand in documents as well; a request line, a  *)
(* header, a chunk's size and any other text are one token.                *)
(***************************************************************************)
EXTENDS Integers, Sequences, SequencesExt

CONSTANTS
  Requests,        \* what may be sent: [to, head, framed, document, chunks]
  Answers,         \* bodies of answers
  MAX_HEAD_BYTES, MAX_BODY_BYTES,
  LINE_LIMIT,      \* longest line of a chunk's size
  MAX_RESPONSE, RESPONSE_HEAD, LEAST_RESPONSE

VARIABLES
  request,     \* the request on its way
  arrived,     \* how much of it has reached the receiver
  cut,         \* nothing more will
  at,          \* how much of it the receiver has consumed
  stage,       \* "head", "check", "body", "size", "data", "delimiter",
               \* "trailer", "host", "done", "refused", "failed"
  head,        \* the head as far as it was read
  line_start,  \* where its last, unfinished line begins
  need,        \* what the current body or chunk still needs
  body,        \* the body as far as it was read
  granted,     \* 100-continue was sent
  disturbed,   \* the receiver ran out of time, or takes no request now
  answer,      \* the body of the answer
  got          \* "none", or what the proxy makes of the answer

reading == <<at, stage, head, line_start, need, body, granted, disturbed>>
answering == <<answer, got>>
vars == <<request, arrived, cut, reading, answering>>

CR == <<"cr">>
LF == <<"lf">>
CRLF == <<CR, LF>>
EmptyLines == {CRLF, <<LF>>}
Header(name, value) == <<"header", name, value>>
First(s, n) == SubSeq(s, 1, IF n < Len(s) THEN n ELSE Len(s))

stream == request.head \o request.framed

(* Variant: every piece is looked at from its own beginning.               *)
EmptyLine_InPiece(text, from) ==
  {e \in from + 1 .. Len(text) :
     /\ text[e] = LF
     /\ e = 1 \/ text[e - 1] = LF \/ (text[e - 1] = CR /\ e = 2)}

(* The ends of the empty lines of a text, whose first line begins at from. *)
EmptyLine(text, from) ==
  {e \in from + 1 .. Len(text) :
     /\ text[e] = LF
     /\ \/ e = from + 1 \/ text[e - 1] = LF
        \/ text[e - 1] = CR /\ (e = from + 2 \/ text[e - 2] = LF)}

-----------------------------------------------------------------------------
(* What the head of a request says.  The endpoint takes the first header   *)
(* of a name, the proxy the last one; a length that cannot be read is no   *)
(* length.                                                                 *)

Headers(r, name) ==
  SelectSeq(r.head, LAMBDA t : t[1] = "header" /\ t[2] = name)

NoHeader == "none"
NoLength == -1
FirstOf(r, name) ==
  IF Headers(r, name) = <<>> THEN NoHeader ELSE Head(Headers(r, name))[3]
LastOf(r, name) ==
  IF Headers(r, name) = <<>> THEN NoHeader ELSE Last(Headers(r, name))[3]
Lengths(r) == Headers(r, "content-length")
FirstLength(r) == IF Lengths(r) = <<>> THEN NoLength ELSE Head(Lengths(r))[3]
LastLength(r) == IF Lengths(r) = <<>> THEN NoLength ELSE Last(Lengths(r))[3]

Posted(r) == r.head[1][1] = "request" /\ r.head[1][2] = "POST"
Unencoded(r) == Headers(r, "transfer-encoding") = <<>>
Encodings(r) ==
  {Headers(r, "transfer-encoding")[i][3] : i \in DOMAIN Headers(r, "transfer-encoding")}

(* What the sender waits for, and when the proxy grants it.                *)
Expects(r) ==
  \E i \in DOMAIN Headers(r, "expect") : Headers(r, "expect")[i][3] = "100-continue"
GoesAhead(r) == LastOf(r, "expect") = "100-continue"

-----------------------------------------------------------------------------
(* Requests as HTTP/1.1 has them, with or without a fault in what they ask *)
(* for; `document' is what the sender means.                               *)

(* An empty line of the text ends at e.                                    *)
EmptyEnd(text, e) ==
  /\ text[e] = LF
  /\ e = 1 \/ text[e - 1] = LF \/ (text[e - 1] = CR /\ (e = 2 \/ text[e - 2] = LF))

(* What stands behind p in the frame begins with a line that ends at q.    *)
FirstLine(r, p, q) ==
  /\ q \in p + 1 .. Len(r.framed) /\ r.framed[q] = LF
  /\ \A i \in p + 1 .. q - 1 : r.framed[i] # LF

(* A document in chunks.  `chunks' has the place of each chunk's line in   *)
(* the frame, and how much of the document is in the chunks before it.     *)
Chunked(r) ==
  /\ DOMAIN r.chunks \subseteq 0 .. Len(r.framed)
  /\ 0 \in DOMAIN r.chunks /\ r.chunks[0] = 0
  /\ \A p \in DOMAIN r.chunks : \E q \in 1 .. Len(r.framed) :
       LET before == r.chunks[p]
           size == r.framed[p + 1][2]
       IN /\ before \in 0 .. Len(r.document)
          /\ FirstLine(r, p, q) /\ q - p <= LINE_LIMIT
          /\ r.framed[p + 1][1] = "size" /\ size \in 0 .. Len(r.document) - before
          /\ IF size = 0 THEN before = Len(r.document)
             ELSE /\ q + size <= Len(r.framed)
                  /\ \A i \in 1 .. size : r.framed[q + i] = r.document[before + i]
                  /\ \E next \in DOMAIN r.chunks :
                       /\ SubSeq(r.framed, q + size + 1, next) \in EmptyLines
                       /\ r.chunks[next] = before + size

(* The head ends at its only empty line, headers that are repeated agree,  *)
(* and the document is counted, in chunks, or neither.                     *)
Framed(r) ==
  /\ r.to \in {"endpoint", "proxy"}
  /\ r.head \in Seq({r.head[i] : i \in DOMAIN r.head})
  /\ r.framed \in Seq({r.framed[i] : i \in DOMAIN r.framed})
  /\ r.document \in Seq({r.document[i] : i \in DOMAIN r.document})
  /\ {e \in 1 .. Len(r.head) : EmptyEnd(r.head, e)} = {Len(r.head)}
  /\ Expects(r) => FirstOf(r, "expect") = "100-continue"
  /\ \A name \in {"expect", "content-type"} : FirstOf(r, name) = LastOf(r, name)
  /\ {FirstLength(r), LastLength(r)} \subseteq {NoLength, Len(r.document)}
  /\ Encodings(r) = {} => r.framed = r.document
  /\ Encodings(r) = {"chunked"} /\ r.to = "proxy" => Chunked(r)

-----------------------------------------------------------------------------
Init ==
  /\ request \in Requests
  /\ arrived = 0 /\ cut = FALSE /\ at = 0 /\ stage = "head"
  /\ head = <<>> /\ line_start = 0 /\ need = 0 /\ body = <<>>
  /\ granted = FALSE /\ disturbed = FALSE
  /\ answer = <<>> /\ got = <<"none">>

Over == stage \in {"done", "refused", "failed"}
Goto(to) == stage' = to

-----------------------------------------------------------------------------
(* The sender and the network.                                             *)

Held == Expects(request) /\ ~granted

Arrive ==
  /\ ~cut /\ ~Over
  /\ arrived' \in arrived + 1 .. Len(IF Held THEN request.head ELSE stream)
  /\ UNCHANGED <<request, cut, reading, answering>>

Cut ==
  /\ ~cut /\ ~Over /\ cut' = TRUE
  /\ UNCHANGED <<request, arrived, reading, answering>>

Waiting == stage \in {"head", "body", "size", "data", "delimiter", "trailer"}

Timeout ==
  /\ Waiting /\ Goto("failed") /\ disturbed' = TRUE
  /\ UNCHANGED <<request, arrived, cut, at, head, line_start, need, body, granted,
                 answering>>

-----------------------------------------------------------------------------
(* The head, as the endpoint reads it: whatever has arrived is looked at,  *)
(* and of it no more is consumed than belongs to the head.                 *)

ReadPiece ==
  /\ stage = "head" /\ request.to = "endpoint"
  /\ \/ /\ cut /\ arrived = at
        /\ Goto("refused") /\ UNCHANGED <<at, head, line_start>>
     \/ \E n \in 1 .. arrived - at :
          LET piece == First(SubSeq(stream, at + 1, at + n), MAX_HEAD_BYTES - Len(head))
              text == head \o piece
              ends == EmptyLine(text, line_start)
              last == {i \in 1 .. Len(text) : text[i] = LF}
          IN IF ends # {}
             THEN LET e == CHOOSE i \in ends : \A j \in ends : i <= j IN
                  /\ head' = First(text, e) /\ at' = at + e - Len(head)
                  /\ Goto("check") /\ UNCHANGED line_start
             ELSE /\ head' = text /\ at' = at + Len(piece)
                  /\ line_start' = IF last = {} THEN 0
                                   ELSE CHOOSE i \in last : \A j \in last : i >= j
                  /\ Goto(IF Len(text) >= MAX_HEAD_BYTES THEN "refused" ELSE "head")
  /\ UNCHANGED <<request, arrived, cut, need, body, granted, disturbed, answering>>

-----------------------------------------------------------------------------
(* take(limit).read_until: up to the end of the line, to the limit or to   *)
(* where the sender stopped.                                               *)

Seen(limit) == First(SubSeq(stream, at + 1, arrived), limit)
LineEnds(limit) == {i \in DOMAIN Seen(limit) : Seen(limit)[i] = LF}
LineReady(limit) == cut \/ LineEnds(limit) # {} \/ Len(Seen(limit)) = limit
Line(limit) ==
  IF LineEnds(limit) = {} THEN Seen(limit)
  ELSE First(Seen(limit), CHOOSE i \in LineEnds(limit) : \A j \in LineEnds(limit) : i <= j)

(* The head, as the proxy reads it, line by line.                          *)
ReadLine ==
  LET limit == MAX_HEAD_BYTES - Len(head) + 1
      line == Line(limit)
  IN /\ stage = "head" /\ request.to = "proxy" /\ LineReady(limit)
     /\ at' = at + Len(line)
     /\ IF line = <<>> \/ Len(head) + Len(line) > MAX_HEAD_BYTES
        THEN Goto("failed") /\ UNCHANGED head
        ELSE /\ head' = head \o line
             /\ Goto(IF line \in EmptyLines THEN "check" ELSE "head")
     /\ UNCHANGED <<request, arrived, cut, line_start, need, body, granted, disturbed,
                    answering>>

-----------------------------------------------------------------------------
(* What follows from the head.                                             *)

Lease(taken) == disturbed' = ~taken

(* body_length, then a lease of the tracker, then 100-continue.            *)
CheckAtEndpoint ==
  LET length == FirstLength(request) IN
  /\ stage = "check" /\ request.to = "endpoint"
  /\ IF /\ Posted(request) /\ Unencoded(request)
        /\ FirstOf(request, "content-type") = "ipp"
        /\ length # NoLength /\ length <= MAX_BODY_BYTES
     THEN \E taken \in BOOLEAN :
            /\ Lease(taken)
            /\ granted' = (taken /\ FirstOf(request, "expect") = "100-continue")
            /\ need' = length
            /\ Goto(IF taken THEN "body" ELSE "refused")
     ELSE Goto("refused") /\ UNCHANGED <<need, granted, disturbed>>
  /\ UNCHANGED <<request, arrived, cut, at, head, line_start, body, answering>>

CheckAtProxy ==
  LET length == LastLength(request)
      chunked == Encodings(request) # {}
      next == CASE chunked -> "size"
                [] ~chunked /\ length # NoLength /\ length <= MAX_BODY_BYTES -> "body"
                [] OTHER -> "refused"
  IN /\ stage = "check" /\ request.to = "proxy"
     /\ CASE request.head[1][1] # "request" \/ Encodings(request) \ {"chunked"} # {} ->
               Goto("failed") /\ UNCHANGED <<need, granted, disturbed>>
          [] request.head[1][1] = "request" /\ Encodings(request) \subseteq {"chunked"}
             /\ ~(Posted(request) /\ LastOf(request, "content-type") = "ipp") ->
               Goto("refused") /\ UNCHANGED <<need, granted, disturbed>>
          [] OTHER ->
               \E taken \in BOOLEAN :
                 /\ Lease(taken)
                 /\ granted' = (taken /\ GoesAhead(request))
                 /\ need' = IF next = "body" THEN length ELSE 0
                 /\ Goto(IF taken THEN next ELSE "refused")
     /\ UNCHANGED <<request, arrived, cut, at, head, line_start, body, answering>>

-----------------------------------------------------------------------------
(* The body.                                                               *)

kept == <<request, arrived, cut, head, line_start, granted, disturbed, answering>>

(* read_exact: a document of known length, or the data of a chunk.         *)
ReadExact ==
  /\ stage \in {"body", "data"}
  /\ \/ /\ arrived - at >= need
        /\ body' = body \o SubSeq(stream, at + 1, at + need)
        /\ at' = at + need /\ need' = 0
        /\ Goto(CASE stage = "data" -> "delimiter"
                   [] stage = "body" /\ request.to = "endpoint" -> "host"
                   [] OTHER -> "done")
     \/ /\ cut /\ arrived - at < need
        /\ Goto("failed") /\ UNCHANGED <<at, need, body>>
  /\ UNCHANGED kept

(* The size stands before anything else in its line.                       *)
ReadSize ==
  LET line == Line(LINE_LIMIT)
      size == IF line # <<>> /\ Head(line)[1] = "size" THEN Head(line)[2] ELSE NoLength
  IN /\ stage = "size" /\ LineReady(LINE_LIMIT)
     /\ at' = at + Len(line)
     /\ need' = IF size = NoLength THEN 0 ELSE size
     /\ Goto(CASE size = NoLength -> "failed"
                [] size = 0 -> "trailer"
                [] size > 0 /\ size > MAX_BODY_BYTES - Len(body) -> "failed"
                [] OTHER -> "data")
     /\ UNCHANGED <<kept, body>>

ReadDelimiter ==
  LET line == Line(4) IN
  /\ stage = "delimiter" /\ LineReady(4)
  /\ at' = at + Len(line)
  /\ Goto(IF line \in EmptyLines THEN "size" ELSE "failed")
  /\ UNCHANGED <<kept, need, body>>

ReadTrailer ==
  LET line == Line(MAX_HEAD_BYTES) IN
  /\ stage = "trailer" /\ LineReady(MAX_HEAD_BYTES)
  /\ at' = at + Len(line)
  /\ Goto(IF line = <<>> \/ line \in EmptyLines THEN "done" ELSE "trailer")
  /\ UNCHANGED <<kept, need, body>>

(* The endpoint looks for the Host header when it has the whole body.      *)
CheckHost ==
  /\ stage = "host"
  /\ Goto(IF FirstOf(request, "host") = NoHeader THEN "refused" ELSE "done")
  /\ UNCHANGED <<kept, at, need, body>>

-----------------------------------------------------------------------------
(* The answer, written by the endpoint and read by the proxy, who takes no *)
(* more than the longest message and the longest head.                     *)

ResponseHead(status) ==
  <<<<"status", status>>, CR, LF, Header("content-type", "ipp"), CR, LF, CR, LF>>

Taken(response) == First(response, MAX_RESPONSE + RESPONSE_HEAD)

Boundary(response) ==
  {i \in DOMAIN response : i >= 4 /\ SubSeq(response, i - 3, i) = CRLF \o CRLF}

Outcome(response) ==
  LET ends == Boundary(response)
      first == CHOOSE i \in ends : \A j \in ends : i <= j
      ipp == SubSeq(response, first + 1, Len(response))
  IN IF \/ ends = {} \/ response[1] # <<"status", 200>>
        \/ Len(ipp) < LEAST_RESPONSE \/ Len(ipp) > MAX_RESPONSE
     THEN <<"error">> ELSE <<"message", ipp>>

(* Only what was ended cleanly is read to its end; a connection that broke *)
(* or took too long is an error.                                           *)
Answer ==
  /\ request.to = "endpoint" /\ Over /\ got = <<"none">>
  /\ answer' \in IF stage = "done" THEN Answers ELSE {<<>>}
  /\ \/ /\ stage # "failed" /\ ~cut
        /\ got' = Outcome(Taken(ResponseHead(IF stage = "done" THEN 200 ELSE 400) \o answer'))
     \/ got' = <<"error">>
  /\ UNCHANGED <<request, arrived, cut, reading>>

Next ==
  \/ Arrive \/ Cut \/ Timeout
  \/ ReadPiece \/ ReadLine
  \/ CheckAtEndpoint \/ CheckAtProxy \/ CheckHost
  \/ ReadExact \/ ReadSize \/ ReadDelimiter \/ ReadTrailer
  \/ Answer

Spec == Init /\ [][Next]_vars

-----------------------------------------------------------------------------
(* Properties.                                                             *)

(* However a request is cut into pieces, what its receiver takes for the   *)
(* body is the document its sender meant: no line's end inside the         *)
(* document ends it, nothing of the head or of a chunk's frame gets into   *)
(* it, and a part of it is never taken for the whole                       *)
(* (read_head, read_body, read_chunked_body).                              *)
BodyIsWhole == stage = "done" => body = request.document

(* A request without a fault, as RFC 8010 has it, within the limits the    *)
(* source names.                                                           *)
Acceptable ==
  /\ Len(request.head) <= MAX_HEAD_BYTES
  /\ Posted(request) /\ Len(request.document) <= MAX_BODY_BYTES
  /\ FirstOf(request, "content-type") = "ipp"
  /\ IF request.to = "endpoint"
     THEN /\ Unencoded(request) /\ FirstLength(request) # NoLength
          /\ FirstOf(request, "host") # NoHeader
     ELSE \/ Encodings(request) = {"chunked"}
          \/ Encodings(request) = {} /\ LastLength(request) # NoLength

(* A request without a fault is taken once all of it has arrived, in       *)
(* whatever pieces: only a deadline or a closed admission is in its way    *)
(* (handle_client in ipps/mod.rs, serve_client in client_proxy.rs).        *)
SentIsTaken ==
  stage \in {"refused", "failed"} =>
    disturbed \/ ~Acceptable \/ (cut /\ arrived < Len(stream))

(* Sender and receiver never wait for each other: whoever waits for a body *)
(* has told a sender who asked that it may go on                           *)
(* (expects_continue, send_continue).                                      *)
NoStandOff == stage \in {"body", "size", "data"} => ~Held

(* An answer is passed on whole or not at all: one that is too long, too   *)
(* short, refused or cut off is an error (forward_ipp, respond).           *)
AnswerIsWhole == got[1] = "message" => got[2] = answer /\ stage = "done"
=============================================================================
