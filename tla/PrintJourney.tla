--------------------------- MODULE PrintJourney ---------------------------
(***************************************************************************)
(* One IPP message on its way: written by the print queue's spooler, read  *)
(* and rewritten by the local client proxy (adapters/client_proxy.rs,      *)
(* prepare_proxy_request), answered by the server's endpoint               *)
(* (adapters/ipps/endpoint.rs), and its answer rewritten for the queue     *)
(* (rewrite_printer_uri_supported).                                        *)
(*                                                                         *)
(* An address is <<"uri", scheme, authority, server, printer>>: a queue of *)
(* the proxy names the server in its path, a printer of a server does not  *)
(* (server = "").  The printer is percent-coded there.  What happens to a  *)
(* job after it was accepted is ServerJobs; here one job of id 7 exists.   *)
(***************************************************************************)
EXTENDS IppMessage, FiniteSets

CONSTANTS Printers,       \* the printers the server shares (sequences of bytes)
          MaxAttributes,  \* attributes the spooler writes, beyond the defaults
          Offered,        \* attributes it may write (sequences of tokens)
          Operations, Versions, Documents,
          Database,       \* the papers of the catalogue in media-col-database
          Configured      \* secrets the client may have (NoValue: none)

VARIABLES stage,      \* "writing", "forwarded", "answered", "returned", "refused"
          message,    \* what the spooler wrote
          route,      \* where the proxy sends it
          credential, \* the client's secret as the proxy read it for this message
          wire,       \* what the proxy forwarded
          answer,     \* what the server answered
          returned    \* what the spooler is given

vars == <<stage, message, route, credential, wire, answer, returned>>

SECRET == <<"text", "office">>
HOST == "server"
NoMessage == [tokens |-> <<>>]

Uri(scheme, authority, server, printer) == <<"uri", scheme, authority, server, percent_encode(printer)>>
RemoteUri(r) == Uri("ipps", r.server, "", r.printer)

-----------------------------------------------------------------------------
(* The proxy: where a request goes.                                        *)

(* route_uri: the address of a queue of this proxy.                        *)
route_uri(uri) ==
  IF /\ uri[2] \in {"ipp", "http"}
     /\ uri[3] \in {"localhost", "localhost:own"}
     /\ uri[4] # "" /\ uri[5] # <<>>
  THEN [server |-> uri[4], printer |-> percent_decode(uri[5]), local |-> uri]
  ELSE NoValue

(* route_from_request_path: the HTTP path, when printer-uri is of no use.  *)
route_from_path(path) ==
  IF path = NoValue THEN NoValue
  ELSE [server |-> path[1], printer |-> percent_decode(path[2]),
        local |-> Uri("ipp", "localhost:own", path[1], percent_decode(path[2]))]

(* The address in the message is taken before the one of the HTTP path.    *)
Preferred(byUri, byPath) == IF byUri # NoValue THEN byUri ELSE byPath

Route(request, path) ==
  LET uri == value(request, "printer-uri")
  IN Preferred(IF uri # NoValue /\ uri[1] = "uri" THEN route_uri(uri) ELSE NoValue, route_from_path(path))

Submissions == {"print", "validate", "create", "send"}
Authorised == Submissions \cup {"cancel", "get-job", "get-jobs"}
Known == Authorised \cup {"get-printer", "get-printers"}

-----------------------------------------------------------------------------
(* prepare_proxy_request: one token.                                       *)

OwnChannel(channel) ==
  IF channel = NoValue THEN <<>> ELSE Attribute("text", "network-channel", <<channel>>)

(* Variant: a channel that the queue wrote itself is passed on.            *)
ChannelFor_AsWritten(k, channel) == <<k>>

ChannelFor(k, channel) == OwnChannel(channel)

(* A further value of a replaced attribute is left out.                    *)
Dropped(k, current) == k.name = "" /\ current \in {"printer-uri", "network-channel"}

PrepareToken(r, k, remote, channel) ==
  LET current == IF k.name # "" THEN k.name ELSE r.current IN
  IF k.tag \in Delimiters THEN [r EXCEPT !.current = "", !.tokens = Append(@, k)]
  ELSE IF Dropped(k, current) THEN r
  ELSE IF current = "printer-uri"
       THEN [r EXCEPT !.current = current, !.printers = @ + 1,
                      !.tokens = Append(@, [k EXCEPT !.value = remote])]
  ELSE IF current = "network-channel"
       THEN [r EXCEPT !.current = current, !.channels = @ + 1,
                      !.tokens = @ \o ChannelFor(k, channel)]
  ELSE [r EXCEPT !.current = current, !.tokens = Append(@, k)]

(* What the queue did not write is added before the end tag.               *)
Absent(r, remote, channel) ==
  (IF r.printers = 0 THEN Attribute("uri", "printer-uri", <<remote>>) ELSE <<>>)
    \o (IF r.channels = 0 THEN OwnChannel(channel) ELSE <<>>)

prepare_proxy_request(m, remote, channel) ==
  LET r == FoldLeft(LAMBDA s, k : PrepareToken(s, k, remote, channel),
             [tokens |-> <<>>, current |-> "", printers |-> 0, channels |-> 0], m.tokens)
  IN [ok |-> Parse(m).ok /\ m.ended /\ r.printers < 2 /\ r.channels < 2,
      message |-> [m EXCEPT !.tokens = r.tokens \o Absent(r, remote, channel)]]

-----------------------------------------------------------------------------
(* The endpoint.                                                           *)

find_by_name(name) ==
  IF \E p \in Printers : SameText(p, name) THEN CHOOSE p \in Printers : SameText(p, name) ELSE NoValue

(* find_by_uri: only under the endpoint's own authority and scheme.        *)
find_by_uri(uri) ==
  IF uri # NoValue /\ uri[1] = "uri" /\ uri[2] = "ipps" /\ uri[3] = HOST /\ uri[4] = "" /\ uri[5] # <<>>
  THEN find_by_name(percent_decode(uri[5])) ELSE NoValue

printer_uuid(queue) == <<"uuid", queue>>

(* One printer of the answer to Get-Printers or Get-Printer-Attributes.    *)
Identity(p) ==
  Attribute("uri", "printer-uri-supported", <<Uri("ipps", HOST, "", p)>>)
  \o Attribute("uri", "printer-uuid", <<printer_uuid(<<"printer", p>>)>>)
  \o Attribute("name", "printer-name", <<<<"name", p>>>>)
  \o Attribute("text", "printer-make-and-model", <<<<"name", p>>>>)
  \o Attribute("text", "printer-info", <<<<"name", p>>>>)
  \o Attribute("mime", "document-format-supported", <<<<"text", "image/pwg-raster">>>>)

MediaOffer ==
  Attribute("keyword", "media-supported",
    [i \in DOMAIN MEDIA_CATALOG |-> <<"text", MEDIA_CATALOG[i].keyword>>])
  \o write_media_collection("media-col-default", MEDIA_CATALOG[1], STANDARD_MARGIN)
  \o write_media_col_database(Database)

SettingsOffer ==
  Attribute("keyword", "sides-supported",
    <<<<"text", "one-sided">>, <<"text", "two-sided-long-edge">>, <<"text", "two-sided-short-edge">>>>)
  \o Attribute("keyword", "print-color-mode-supported",
       <<<<"text", "color">>, <<"text", "monochrome">>, <<"text", "bi-level">>>>)
  \o Attribute("range", "copies-supported", <<<<"range", 1, 999>>>>)
  \o Attribute("enum", "orientation-requested-supported", <<<<"int", 3>>, <<"int", 4>>>>)
  \o Attribute("enum", "print-quality-supported", <<<<"int", 3>>, <<"int", 4>>, <<"int", 5>>>>)

Environment(p) ==
  Attribute("keyword", "uri-security-supported", <<<<"text", "tls">>>>)
  \o Attribute("keyword", "compression-supported", <<<<"text", "none">>>>)
  \o Attribute("uri", "printer-more-info", <<Uri("ipps", HOST, "", p)>>)

Availability(accepting) ==
  Attribute("bool", "printer-is-accepting-jobs", <<<<"bool", accepting>>>>)
  \o Attribute("enum", "operations-supported",
       (IF accepting THEN <<<<"op", "print">>, <<"op", "validate">>, <<"op", "create">>, <<"op", "send">>>>
        ELSE <<>>)
       \o <<<<"op", "cancel">>, <<"op", "get-job">>, <<"op", "get-jobs">>,
            <<"op", "get-printer">>, <<"op", "get-printers">>>>)

PrinterGroup(p, accepting) ==
  Group("printer") \o Identity(p) \o MediaOffer \o SettingsOffer \o Environment(p) \o Availability(accepting)

Response(status, tokens) ==
  [status |-> status, ended |-> TRUE, document |-> NoValue,
   tokens |-> Group("operation") \o Attribute("charset", "attributes-charset", <<<<"text", "utf-8">>>>) \o tokens]
Status(s) == Response(s, <<>>)

requested_attribute(requested, name) ==
  requested = <<>> \/ \E i \in DOMAIN requested : requested[i] \in {<<"text", "all">>, <<"text", name>>}

JobGroup(id, state, requested) ==
  LET If(name, tokens) == IF requested_attribute(requested, name) THEN tokens ELSE <<>> IN
  Group("job")
  \o If("job-id", Attribute("integer", "job-id", <<<<"int", id>>>>))
  \o If("job-state", Attribute("enum", "job-state", <<<<"int", state>>>>))
  \o If("job-state-reasons", Attribute("keyword", "job-state-reasons",
       <<<<"text", CASE state = 7 -> "job-canceled-by-user" [] state = 8 -> "job-aborted-by-system"
                     [] state = 9 -> "job-completed-successfully" [] state \notin 7 .. 9 -> "none">>>>))

(* job_settings: the six settings, or a refusal.                           *)
One(v, table) ==
  IF v = NoValue THEN NoValue ELSE IF v[2] \in DOMAIN table THEN table[v[2]] ELSE <<"bad">>

(* Variant: bi-level is advertised and not accepted.                       *)
colours_NoBiLevel == [c \in {"color", "monochrome", "auto"} |->
              IF c = "color" THEN <<"color">> ELSE IF c = "auto" THEN NoValue ELSE <<"mono">>]
colours == [c \in {"color", "monochrome", "bi-level", "process-monochrome", "process-bi-level",
                   "auto", "auto-monochrome"} |->
              IF c = "color" THEN <<"color">> ELSE IF c \in {"auto", "auto-monochrome"} THEN NoValue ELSE <<"mono">>]
duplexes == [s \in {"one-sided", "two-sided-long-edge", "two-sided-short-edge"} |-> <<"sides", s>>]
orientations == (3 :> <<"portrait">>) @@ (4 :> <<"landscape">>)
qualities == [q \in 3 .. 5 |-> <<"quality", q>>]
quality_names == ("draft" :> 3) @@ ("normal" :> 4) @@ ("high" :> 5) @@ ("3" :> 3) @@ ("4" :> 4) @@ ("5" :> 5)

job_settings(request) ==
  LET copies == integer(request, "copies")
      number == integer(request, "print-quality")
      word == value(request, "print-quality")
      Medium(asked) == IF asked.ok THEN asked.medium ELSE <<"bad">>
      Checked(s) == [ok |-> \A f \in DOMAIN s : s[f] # <<"bad">>, settings |-> s]
  IN Checked(
       [media |-> Medium(media(request)),
        color |-> One(value(request, "print-color-mode"), colours),
        duplex |-> One(value(request, "sides"), duplexes),
        copies |-> IF copies = NoValue \/ copies[2] \in 1 .. 999 THEN copies ELSE <<"bad">>,
        orientation |-> One(integer(request, "orientation-requested"), orientations),
        quality |-> IF number # NoValue THEN One(number, qualities)
                    ELSE IF word # NoValue
                         THEN IF word[2] \in DOMAIN quality_names
                              THEN qualities[quality_names[word[2]]] ELSE <<"bad">>
                    ELSE IF has_attribute(request, "print-quality") THEN <<"bad">> ELSE NoValue])

PWG(v) == v \in {NoValue, <<"text", "image/pwg-raster">>}

(* answer_job, answer_multi_step: every guard in its order; the submission *)
(* and the job store succeed.                                              *)
AnswerPrint(op, request) ==
  LET p == find_by_uri(value(request, "printer-uri"))
      s == job_settings(request)
      format == value(request, "document-format")
  IN CASE value(request, "network-channel") # SECRET -> Status("not-authorized")
       [] OTHER ->
          IF p = NoValue THEN Status("not-found")
          ELSE IF ~PWG(format) THEN Status("document-format")
          ELSE IF format = NoValue /\ op = "print" THEN Status("bad-request")
          ELSE IF ~s.ok THEN Status("settings")
          ELSE IF op = "validate" THEN Status("ok")
          ELSE IF request.document = NoValue THEN Status("bad-request")
          ELSE Response("ok", JobGroup(7, 3, <<>>))

AnswerCreate(request) ==
  IF find_by_uri(value(request, "printer-uri")) = NoValue THEN Status("not-found")
  ELSE IF request.document # NoValue THEN Status("bad-request")
  ELSE IF ~PWG(value(request, "document-format")) THEN Status("document-format")
  ELSE IF ~job_settings(request).ok THEN Status("settings")
  ELSE Response("ok", JobGroup(7, 3, <<>>))

AnswerSend(request, named) ==
  IF find_by_uri(value(request, "printer-uri")) = NoValue THEN Status("not-found")
  ELSE IF ~named THEN Status("bad-request")
  ELSE IF ~PWG(value(request, "document-format")) THEN Status("document-format")
  ELSE IF boolean(request, "last-document") = NoValue \/ request.document = NoValue
  THEN Status("bad-request")
  ELSE IF integer(request, "job-id")[2] # 7 THEN Status("not-found")
  ELSE Response("ok", JobGroup(7, IF boolean(request, "last-document")[2] THEN 9 ELSE 3, <<>>))

AnswerJob(op, request) ==
  LET shared == find_by_uri(value(request, "printer-uri")) # NoValue
      id == integer(request, "job-id")
      named == id # NoValue /\ id[2] > 0
      wanted == text_values(request, "requested-attributes")
  IN IF value(request, "network-channel") # SECRET THEN Status("not-authorized")
     ELSE CASE op = "create" -> AnswerCreate(request)
            [] op = "send" -> AnswerSend(request, named)
            [] op = "get-job" ->
                 IF ~named THEN Status("bad-request")
                 ELSE IF id[2] # 7 \/ ~shared THEN Status("not-found")
                 ELSE Response("ok", JobGroup(7, 3, wanted))
            [] op = "cancel" ->
                 IF ~shared THEN Status("not-found")
                 ELSE IF ~named THEN Status("bad-request")
                 ELSE IF id[2] # 7 THEN Status("not-found") ELSE Response("ok", JobGroup(7, 7, <<>>))
            [] op = "get-jobs" ->
                 IF ~shared THEN Status("not-found") ELSE Response("ok", JobGroup(7, 3, wanted))

AnswerQuery(op, request) ==
  LET uri == value(request, "printer-uri")
      p == IF uri # NoValue THEN find_by_uri(uri)
           ELSE LET n == value(request, "printer-name") IN IF n = NoValue THEN NoValue ELSE find_by_name(n[2])
  IN IF op = "get-printers"
     THEN Response("ok", FlattenSeq([i \in DOMAIN SetToSeq(Printers) |-> PrinterGroup(SetToSeq(Printers)[i], TRUE)]))
     ELSE IF p = NoValue THEN Status("not-found") ELSE Response("ok", PrinterGroup(p, TRUE))

Answer(m) ==
  LET To(request) ==
        IF ~request.ok THEN Status("bad-request")
        ELSE IF m.version \notin SUPPORTED_VERSIONS THEN Status("version")
        ELSE IF m.op \in {"print", "validate"} THEN AnswerPrint(m.op, request)
        ELSE IF m.op \in {"create", "send", "cancel", "get-job", "get-jobs"} THEN AnswerJob(m.op, request)
        ELSE IF m.op \in {"get-printer", "get-printers"} THEN AnswerQuery(m.op, request)
        ELSE Status("operation")
  IN To(Parse(m))

-----------------------------------------------------------------------------
(* The answer, rewritten for the queue.                                    *)

(* Variant: addresses are compared as they are written.                    *)
same_printer_uri_Exact(a, b) == a = b

same_printer_uri(a, b) ==
  /\ a # NoValue /\ a[1] = "uri"
  /\ <<a[2], a[3], a[4]>> = <<b[2], b[3], b[4]>>
  /\ SameText(percent_decode(a[5]), percent_decode(b[5]))

(* The queue's name of that printer; a comma or backslash has none.        *)
proxied_queue_name(parsed, r) ==
  LET named == value(parsed, "printer-name")
      printer == IF named # NoValue THEN named[2] ELSE r.printer
  IN IF {44, 92} \cap {printer[i] : i \in DOMAIN printer} # {} THEN NoValue
     ELSE <<"queue", printer, r.server>>

Names == {"printer-name", "printer-info", "printer-make-and-model"}

(* One value of the attribute current; own says that the values before it  *)
(* in its group had the printer that was asked for.                        *)
RewriteToken(k, current, own, remote, local, queue) ==
  LET Put(v) == [k EXCEPT !.value = v]
  IN IF k.tag \in Delimiters THEN k
     ELSE IF current = "printer-uri-supported" /\ same_printer_uri(k.value, remote)
     THEN Put(local)
     ELSE IF current = "uri-security-supported" /\ own /\ local[2] \in {"ipp", "http"}
     THEN Put(<<"text", "none">>)
     ELSE IF current = "printer-uuid" /\ own /\ queue # NoValue THEN Put(printer_uuid(queue))
     ELSE IF current \in Names /\ own /\ queue # NoValue THEN Put(queue)
     ELSE IF current = "printer-more-info" /\ own THEN Put(local)
     ELSE k

Missing(parsed, local) ==
  LET If(name, tokens) == IF has_attribute(parsed, name) THEN <<>> ELSE tokens IN
  If("printer-up-time", Attribute("integer", "printer-up-time", <<<<"int", 1>>>>))
  \o If("compression-supported", Attribute("keyword", "compression-supported", <<<<"text", "none">>>>))
  \o If("printer-location", Attribute("text", "printer-location", <<<<"text", "ShaPrint Network">>>>))
  \o If("printer-more-info", Attribute("uri", "printer-more-info", <<local>>))
  \o If("pwg-resolution", Attribute("keyword", "pwg-resolution", <<<<"text", "300dpi">>>>))

rewrite_printer_uri_supported(m, r) ==
  LET parsed == Parse(m)
      queue == proxied_queue_name(parsed, r)
      tokens == m.tokens
      heads == Heads(tokens)
      Current(i) == LET n == Cardinality({h \in DOMAIN heads : heads[h] <= i})
                    IN IF n = 0 THEN "" ELSE tokens[heads[n]].name
      asked == {i \in DOMAIN tokens : /\ tokens[i].tag \notin Delimiters
                                     /\ Current(i) = "printer-uri-supported"
                                     /\ same_printer_uri(tokens[i].value, RemoteUri(r))}
      Own(i) == \E a \in asked : a < i /\ \A l \in a .. i : tokens[l].tag # "printer"
      Rewritten(i) == RewriteToken(tokens[i], Current(i), Own(i), RemoteUri(r), r.local, queue)
  IN [m EXCEPT !.tokens = [i \in DOMAIN tokens |-> Rewritten(i)]
                            \o (IF m.status = "ok" THEN Missing(parsed, r.local) ELSE <<>>)]

-----------------------------------------------------------------------------
(* The journey.                                                            *)

Init ==
  /\ stage = "writing"
  /\ \E op \in Operations, v \in Versions, d \in Documents, e \in BOOLEAN,
        p \in {NoValue} \cup {<<"server", percent_encode(q)>> : q \in Printers} :
       message = [op |-> op, version |-> v, path |-> p, ended |-> e, document |-> d,
                  tokens |-> Group("operation"), written |-> 0]
  /\ route = NoValue /\ credential = NoValue /\ wire = NoMessage /\ answer = NoMessage /\ returned = NoMessage

Write ==
  /\ stage = "writing" /\ message.written < MaxAttributes
  /\ \E a \in Offered : message' = [message EXCEPT !.tokens = @ \o a, !.written = @ + 1]
  /\ UNCHANGED <<stage, route, credential, wire, answer, returned>>

(* serve_client up to forward_ipp.                                         *)
Forward(secret) ==
  LET request == Parse(message)
      to == IF request.ok THEN Route(request, message.path) ELSE NoValue
      Refuse(status) == /\ returned' = Status(status) /\ stage' = "refused"
                        /\ UNCHANGED <<message, route, credential, wire, answer>>
      own == IF message.op \in Authorised THEN secret ELSE NoValue
  IN /\ stage = "writing"
     /\ IF ~request.ok THEN Refuse("bad-request")
        ELSE IF message.version \notin SUPPORTED_VERSIONS THEN Refuse("version")
        ELSE IF message.op \notin Known THEN Refuse("operation")
        ELSE IF to = NoValue THEN Refuse("not-found")
        ELSE IF message.op \in Authorised /\ secret = NoValue THEN Refuse("not-authorized")
        ELSE LET prepared == prepare_proxy_request(message, RemoteUri(to), own) IN
             IF ~prepared.ok THEN Refuse("bad-request")
             ELSE /\ route' = to /\ credential' = own /\ wire' = prepared.message /\ stage' = "forwarded"
                  /\ UNCHANGED <<message, answer, returned>>

Serve ==
  /\ stage = "forwarded"
  /\ answer' = [version |-> response_version(wire.version)] @@ Answer(wire)
  /\ stage' = "answered"
  /\ UNCHANGED <<message, route, credential, wire, returned>>

Return ==
  /\ stage = "answered"
  /\ returned' = IF message.op = "get-printer" THEN rewrite_printer_uri_supported(answer, route) ELSE answer
  /\ stage' = "returned"
  /\ UNCHANGED <<message, route, credential, wire, answer>>

Next == Write \/ (\E s \in Configured : Forward(s)) \/ Serve \/ Return

Spec == Init /\ [][Next]_vars

-----------------------------------------------------------------------------
(* What reaches the server is what the queue asked for: the document and   *)
(* every setting unchanged, one printer address, that of the routed        *)
(* printer, and this client's secret and no other                          *)
(* (prepare_proxy_request, protocol.rs: bytes are copied, never read).     *)
DeliveredIsAsked ==
  stage # "forwarded" \/
    LET sent == Parse(message)
        got == Parse(wire)
        Other(a) == a.name \notin {"printer-uri", "network-channel"}
        Printer(a) == a.name = "printer-uri"
        Channel(a) == a.name = "network-channel"
    IN /\ got.ok /\ got.document = sent.document
       /\ SelectSeq(got.attributes, Other) = SelectSeq(sent.attributes, Other)
       /\ LET p == SelectSeq(got.attributes, Printer) IN
            Len(p) = 1 /\ p[1].values = <<RemoteUri(route)>>
       /\ LET c == SelectSeq(got.attributes, Channel) IN
            IF message.op \in Authorised
            THEN credential # NoValue /\ Len(c) = 1 /\ c[1].values = <<credential>>
            ELSE c = <<>>

(* A queue never learns the server's own address or security: an answer    *)
(* about its printer speaks of the local queue in every attribute          *)
(* (rewrite_printer_uri_supported).                                        *)
QueueSpeaksForItself ==
  (stage = "returned" /\ message.op = "get-printer" /\ returned.status = "ok") =>
    LET got == Parse(returned)
        queue == <<"queue", find_by_name(route.printer), route.server>>
    IN /\ value(got, "printer-uri-supported") = route.local
       /\ value(got, "printer-more-info") = route.local
       /\ value(got, "uri-security-supported") = <<"text", "none">>
       /\ 44 \notin {route.printer[i] : i \in DOMAIN route.printer} =>
            /\ value(got, "printer-uuid") = printer_uuid(queue)
            /\ \A n \in Names : value(got, n) = queue

(* Every queue of a shared printer reaches it, whatever bytes its name has *)
(* and in whichever case the queue spells it: two encoders and three       *)
(* decoders of addresses agree (route_uri, prepare, find_by_uri); and a    *)
(* job the server accepted names its id, under which the proxy keeps the   *)
(* job's lease (client_proxy.rs:433).                                      *)
SharedIsReached ==
  stage = "returned" =>
    /\ returned.status # "not-found"
    /\ (message.op \in {"create", "print"} /\ returned.status = "ok")
         => integer(Parse(returned), "job-id") # NoValue

(* Whatever the endpoint advertises it also grants: a queue that asks for  *)
(* a value, a medium (by name or as a collection of the database) or an    *)
(* operation from the answer it was given is not refused for it, and the   *)
(* spooler is given the paper that was meant (build_response against       *)
(* job_settings, media, media_spec and answer, which list them separately).*)
Asking(tokens) ==
  Parse([tokens |-> Group("operation") \o tokens, ended |-> TRUE, document |-> NoValue])

Granted(got, tag, name, supported) ==
  LET offers == ToSet(text_values(got, supported))
  IN offers # {} /\ \A v \in offers : job_settings(Asking(Attribute(tag, name, <<v>>))).ok

(* The collections of an attribute, each as the attribute of a job.        *)
Collections(a) ==
  LET Cut(size) ==
        [n \in 1 .. Len(a.values) \div size |->
          [i \in 1 .. size |->
            [tag |-> a.tags[(n - 1) * size + i], value |-> a.values[(n - 1) * size + i],
             name |-> IF i = 1 THEN "media-col" ELSE ""]]]
  IN Cut(Len(write_media_collection("", MEDIA_CATALOG[1], STANDARD_MARGIN)))

PapersOf(a) ==
  LET Given(s) == IF s.ok THEN media_spec(s.settings.media) ELSE NoValue
      Each(asked) == [n \in DOMAIN asked |-> Given(job_settings(Asking(asked[n])))]
  IN Each(Collections(a))

(* Any paper of the catalogue, asked for by either of its collections.     *)
EveryPaperIsGranted ==
  \A i \in DOMAIN MEDIA_CATALOG, margin \in {STANDARD_MARGIN, BORDERLESS_MARGIN} :
    LET asked == job_settings(Asking(write_media_collection("media-col", MEDIA_CATALOG[i], margin)))
    IN asked.ok /\ media_spec(asked.settings.media) = MEDIA_CATALOG[i]

OfferIsGranted ==
  (stage = "returned" /\ message.op = "get-printer" /\ returned.status = "ok") =>
    LET Offers(got) ==
          /\ returned.version \in SUPPORTED_VERSIONS
          /\ Granted(got, "keyword", "sides", "sides-supported")
          /\ Granted(got, "keyword", "print-color-mode", "print-color-mode-supported")
          /\ Granted(got, "enum", "orientation-requested", "orientation-requested-supported")
          /\ Granted(got, "enum", "print-quality", "print-quality-supported")
          /\ Granted(got, "keyword", "media", "media-supported")
          /\ LET range == text_values(got, "copies-supported")[1] IN
               \A n \in {range[2], range[3]} :
                 job_settings(Asking(Attribute("integer", "copies", <<<<"int", n>>>>))).ok
          /\ EveryPaperIsGranted
          /\ PapersOf(got.attributes[Find(got, "media-col-default")]) = <<MEDIA_CATALOG[1]>>
          /\ PapersOf(got.attributes[Find(got, "media-col-database")])
               = [n \in 1 .. 2 * Len(Database) |-> Database[(n + 1) \div 2]]
          /\ \A i \in DOMAIN text_values(got, "operations-supported") :
               Answer([message EXCEPT !.op = text_values(got, "operations-supported")[i][2]]).status # "operation"
    IN Offers(Parse(returned))
=============================================================================
