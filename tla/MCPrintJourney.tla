-------------------------- MODULE MCPrintJourney --------------------------
(***************************************************************************)
(* Small instances for TLC of what happens between a queue's spooler and   *)
(* the server: the message itself, and the exchange it is framed in.  They *)
(* share no state: a behaviour is one of them, chosen by scene.            *)
(***************************************************************************)
EXTENDS PrintJourney

VARIABLES scene,
          request, arrived, cut, at, step, head, line_start, need, body,
          granted, disturbed, response, got

framing == <<request, arrived, cut, at, step, head, line_start, need, body,
             granted, disturbed, response, got>>

(* A name in both cases, one with a space and one with an escape sign and  *)
(* a comma.                                                                *)
MCPrinters == {<<65>>, <<32, 66>>, <<37, 52, 49, 44>>}
Local(p) == Uri("ipp", "localhost", HOST, p)
MCOffered ==
  {Attribute("uri", "printer-uri", <<Local(<<97>>)>>),
   Attribute("uri", "printer-uri", <<Local(<<37, 52, 49, 44>>), Local(<<32, 66>>)>>),
   Attribute("uri", "printer-uri", <<Uri("ipp", "elsewhere", HOST, <<65>>)>>),
   Attribute("text", "network-channel", <<<<"text", "stale">>, <<"text", "older">>>>),
   Attribute("keyword", "sides", <<<<"text", "two-sided-long-edge">>>>),
   Attribute("keyword", "print-color-mode", <<<<"text", "sepia">>>>),
   Attribute("mime", "document-format", <<<<"text", "image/pwg-raster">>>>),
   Attribute("integer", "job-id", <<<<"int", 7>>>>),
   Attribute("bool", "last-document", <<<<"bool", TRUE>>>>),
   write_media_collection("media-col", MEDIA_CATALOG[2], BORDERLESS_MARGIN),
   Group("job")}
(* The database of an answer is the whole catalogue.                       *)
MCDatabase == MEDIA_CATALOG
MCDocuments == {NoValue, <<"raster">>}
(* No channel, the server's, and one the queue may also write.             *)
MCConfigured == {NoValue, SECRET, <<"text", "older">>}

-----------------------------------------------------------------------------
(* Requests with one fault or none: documents that contain the end of a    *)
(* line, an empty one, one at the limit and one beyond it.                 *)
CRLF == <<<<"cr">>, <<"lf">>>>
Lined(line) == <<line>> \o CRLF
Http(name, val) == Lined(<<"header", name, val>>)
MCHttpDocuments == {<<>>, CRLF \o <<<<"text", "a">>>>, <<<<"cr">>, <<"lf">>, <<"lf">>, <<"text", "b">>>>,
                    [i \in 1..5 |-> <<"lf">>]}
Posts(method, headers) == Lined(<<"request", method>>) \o headers \o CRLF
Usual == Http("host", "server") \o Http("content-type", "ipp")
(* Two chunks, the first with an extension, and a trailer.                 *)
Chunked(document) ==
  LET n == IF Len(document) < 2 THEN Len(document) ELSE 2
      Chunk(part) ==
        IF part = <<>> THEN <<>> ELSE Lined(<<"size", Len(part)>>) \o part \o CRLF
  IN Chunk(SubSeq(document, 1, n)) \o Chunk(SubSeq(document, n + 1, Len(document)))
     \o <<<<"size", 0>>, <<"text", "extension">>>> \o CRLF \o Lined(<<"header", "trailer", "x">>) \o CRLF
(* Where its chunks' lines are, and how much of it stands before them.     *)
Places(document) ==
  LET n == IF Len(document) < 2 THEN Len(document) ELSE 2
      m == Len(document) - n
      second == IF n = 0 THEN 0 ELSE n + 5
      last == IF m = 0 THEN second ELSE second + m + 5
  IN [p \in {0, second, last} |-> CASE p = last -> n + m
                                    [] p = second /\ p # last -> n
                                    [] OTHER -> 0]
Sent(to, hd, document, framed) ==
  [to |-> to, head |-> hd, document |-> document, framed |-> framed, chunks |-> <<>>]
InChunks(request_sent) ==
  [request_sent EXCEPT !.framed = Chunked(@), !.chunks = Places(request_sent.document)]
Counted(d) == Http("content-length", Len(d))
MCRequests ==
  UNION {
    UNION { { Sent(to, Posts("POST", Usual \o Counted(d)), d, d),
              Sent(to, Posts("POST", Usual \o Http("expect", "100-continue") \o Counted(d)), d, d) }
            : d \in MCHttpDocuments, to \in {"endpoint", "proxy"} },
    { InChunks(Sent("proxy", Posts("POST", Usual \o Http("expect", "100-continue")
                                    \o Http("transfer-encoding", "chunked")), d, d))
      : d \in MCHttpDocuments },
    { Sent(to, Posts("GET", Usual), <<>>, <<>>) : to \in {"endpoint", "proxy"} },
    { Sent("endpoint", Posts("POST", Usual \o Http("transfer-encoding", "chunked")), <<>>, <<>>),
      Sent("endpoint", Posts("POST", Http("content-type", "ipp") \o Http("content-length", 0)), <<>>, <<>>),
      Sent("proxy", Posts("POST", Usual \o Http("transfer-encoding", "gzip")), <<>>, <<>>),
      Sent("proxy", Posts("POST", Usual), <<>>, <<>>),
      Sent("proxy", Posts("POST", Usual \o Usual \o Counted(<<>>)), <<>>, <<>>),
      Sent("endpoint", Posts("POST", Usual \o Usual \o Counted(<<>>)), <<>>, <<>>) } }
MCAnswers == {[i \in 1..n |-> <<"text", i>>] : n \in {0, 2, 12, 13, 20}}

Ht == INSTANCE HttpExchange WITH
        Requests <- MCRequests, Answers <- MCAnswers,
        MAX_HEAD_BYTES <- 17, MAX_BODY_BYTES <- 4, LINE_LIMIT <- 4,
        MAX_RESPONSE <- 12, RESPONSE_HEAD <- 9, LEAST_RESPONSE <- 2,
        stage <- step, answer <- response

(* What the theorems about HttpExchange assume.                            *)
ASSUME FramingAssumption ==
  /\ \A r \in MCRequests : Ht!Framed(r)
  /\ Len(Ht!ResponseHead(200)) < 9

MCInit ==
  /\ scene \in {"message", "framing"}
  /\ Init /\ Ht!Init
  /\ IF scene = "message" THEN request = CHOOSE r \in MCRequests : TRUE
     ELSE message.op = "other" /\ message.version = "2.0" /\ message.path = NoValue
          /\ message.document = NoValue /\ ~message.ended

MCNext ==
  /\ UNCHANGED scene
  /\ \/ scene = "message" /\ Next /\ UNCHANGED framing
     \/ scene = "framing" /\ Ht!Next /\ UNCHANGED vars

MCSpec == MCInit /\ [][MCNext]_<<vars, framing, scene>>

(* What the spooler wrote is what the endpoint reads: the message is       *)
(* rewritten only where it must be, and the exchange that carries it       *)
(* neither loses nor adds a byte, refuses no good request, leaves nobody   *)
(* waiting for the other, and passes no part of an answer for the whole    *)
(* (prepare_proxy_request; read_head and the bodies of both sides;         *)
(* forward_ipp).                                                           *)
DeliveredAsSent ==
  IF scene = "message" THEN DeliveredIsAsked
  ELSE Ht!BodyIsWhole /\ Ht!SentIsTaken /\ Ht!NoStandOff /\ Ht!AnswerIsWhole
=============================================================================
