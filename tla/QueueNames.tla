----------------------------- MODULE QueueNames -----------------------------
(***************************************************************************)
(* The names of client queues (domain/queue.rs): the name and the address  *)
(* a queue is installed under, and how a queue the spooler reports is told *)
(* from the user's own printers afterwards, which decides what may be      *)
(* shared, what is listed, inspected and purged.  Then the command line an *)
(* elevated helper is started with (adapters/elevation.rs), which carries  *)
(* the same names.                                                         *)
(*                                                                         *)
(* Names and addresses are sequences of bytes.  The digest in a CUPS       *)
(* destination is the pair it was made from: SHA-256 is taken as           *)
(* injective.  A spooler name is a record of its text and that digest.     *)
(***************************************************************************)
EXTENDS IppMessage, Folds

CONSTANTS
  NAME_LIMIT,      \* longest printer or queue name
  PRINTER_SLUG,    \* longest printer part of a CUPS destination
  ADDRESS_SLUG     \* longest address part of a CUPS destination

Space == 32
Open == <<32, 40, 83, 104, 97, 80, 114, 105, 110, 116, 32>>   \* " (ShaPrint "
Copy == <<32, 40, 67, 111, 112, 121, 32>>                     \* " (Copy "
Digit == 48 .. 57
HexDigit == DOMAIN hex_digit
Colon == 58
Hyphen == 45
Refused == <<>>   \* no name is empty

Trim(s, bytes) ==
  LET kept == {i \in DOMAIN s : s[i] \notin bytes}
  IN IF kept = {} THEN <<>>
     ELSE SubSeq(s, CHOOSE i \in kept : \A j \in kept : i <= j,
                    CHOOSE i \in kept : \A j \in kept : i >= j)

(* The places at which m stands in s.                                      *)
Occurs(s, m) == {i \in 1 .. Len(s) - Len(m) + 1 : SubSeq(s, i, i + Len(m) - 1) = m}
Earliest(S) == CHOOSE i \in S : \A j \in S : i <= j
Latest(S) == CHOOSE i \in S : \A j \in S : i >= j
Before(s, i) == SubSeq(s, 1, i - 1)
From(s, i) == SubSeq(s, i, Len(s))
Bytes(s) == {s[i] : i \in DOMAIN s}
Number(s) == FoldLeft(LAMBDA n, b : 10 * n + b - 48, 0, s)

-----------------------------------------------------------------------------
(* What a queue is called.                                                 *)

printer_name(text) ==
  LET name == Trim(text, {Space}) IN
  IF name = <<>> \/ Len(name) > NAME_LIMIT \/ Bytes(name) \cap 0 .. 31 # {}
  THEN Refused ELSE name

(* ClientQueueName::parse also refuses the backslash and the comma.        *)
queue_name(text) ==
  LET name == printer_name(text) IN
  IF name # Refused /\ Bytes(name) \cap {92, 44} # {} THEN Refused ELSE name

address_label(address) ==
  LET label == Trim([i \in DOMAIN address |->
                       IF address[i] \in Letter \cup Digit \cup {46, Hyphen}
                       THEN address[i] ELSE Hyphen], {Hyphen})
  IN IF label = <<>> THEN <<115>> ELSE label

for_shared_printer(printer, address) ==
  queue_name(printer \o Open \o address_label(address) \o <<41>>)

sanitize_cups_token(s) ==
  LET Put(out, b) ==
        IF b \in Letter \cup Digit \cup {46, Hyphen} THEN Append(out, b)
        ELSE IF out = <<>> \/ Last(out) = 95 THEN out ELSE Append(out, 95)
  IN Trim(FoldLeft(Put, <<>>, s), {95})

Slug(s, most, edge, default) ==
  LET cut == Trim(SubSeq(s, 1, IF Len(s) < most THEN Len(s) ELSE most), {edge})
  IN IF cut = <<>> THEN default ELSE cut

NoDigest == <<>>
Display(text) == [text |-> text, digest |-> NoDigest]

cups_destination_for(printer, address) ==
  [text |-> <<95>> \o Slug(sanitize_cups_token(printer), PRINTER_SLUG, 95, <<80>>)
              \o <<95>> \o Slug(address_label(address), ADDRESS_SLUG, Hyphen, <<115>>),
   digest |-> <<address, printer>>]

PortIsValid(port) ==
  /\ port # <<>> /\ Len(port) <= 5 /\ Bytes(port) \subseteq Digit
  /\ Number(port) \in 1 .. 65535

(* Host, or host:port; an IPv6 host is in brackets.                        *)
validate_address(a) ==
  LET close == Occurs(a, <<93>>)
      colon == Occurs(a, <<Colon>>)
      Valid(host, bytes, rest) ==
        /\ host # <<>> /\ Bytes(host) \subseteq bytes
        /\ rest # <<>> => rest[1] = Colon /\ PortIsValid(Tail(rest))
  IN /\ a # <<>>
     /\ IF a[1] = 91
        THEN /\ close # {}
             /\ LET i == Earliest(close)
                IN Valid(SubSeq(a, 2, i - 1), HexDigit \cup {Colon, 46}, From(a, i + 1))
        ELSE LET i == IF colon = {} THEN Len(a) + 1 ELSE Earliest(colon)
             IN Valid(Before(a, i), Letter \cup Digit \cup {46, Hyphen}, From(a, i))

(* ClientQueueRequest::new                                                 *)
Request(printer, address) ==
  /\ validate_address(address)
  /\ printer_name(printer) = printer
  /\ for_shared_printer(printer, address) # Refused

-----------------------------------------------------------------------------
(* What a queue of the spooler is.  A port is [scheme, authority, path,    *)
(* mentions]: the path split at its slashes, <<>> when there is no slash,  *)
(* and whether its text names the proxy or /ipp/print/ in another way.     *)

Loopback(host) == host \in {"127.0.0.1", "localhost", "::1"}
is_loopback_authority(authority, proxy) ==
  \/ authority = proxy
  \/ Loopback(authority.host) /\ (authority.port = <<>> \/
       (Bytes(authority.port) \subseteq Digit /\ Number(authority.port) <= 65535))

IPP == <<105, 112, 112>>
PRINT == <<112, 114, 105, 110, 116>>
Endpoint(path, i) == SameText(path[i], IPP) /\ SameText(path[i + 1], PRINT)

(* A broken escape takes the two bytes after it along.                     *)
decode_segment(s) ==
  LET from[i \in 1 .. Len(s) + 3] ==
        IF i > Len(s) THEN <<>>
        ELSE IF s[i] # 37 THEN <<s[i]>> \o from[i + 1]
        ELSE IF i + 2 <= Len(s) /\ {s[i + 1], s[i + 2]} \subseteq HexDigit
             THEN <<16 * hex_digit[s[i + 1]] + hex_digit[s[i + 2]]>> \o from[i + 3]
             ELSE <<37>> \o from[i + 3]
  IN from[1]

strip_trailing_copy_suffix(s) ==
  LET at == Occurs(s, Copy)
      number == SubSeq(s, Latest(at) + Len(Copy), Len(s) - 1)
  IN IF s # <<>> /\ Last(s) = 41 /\ at # {} /\ number # <<>> /\ Bytes(number) \subseteq Digit
     THEN Before(s, Latest(at)) ELSE s

BaseName(name) == [name EXCEPT !.text = strip_trailing_copy_suffix(@)]

Recognised(printer, address) ==
  [kind |-> "recognised", printer |-> printer, address |-> address]
Ambiguous == [kind |-> "ambiguous", printer |-> <<>>, address |-> <<>>]
Ignored == [Ambiguous EXCEPT !.kind = "ignored"]
EligibleLocal(printer) == [Ambiguous EXCEPT !.kind = "local", !.printer = printer]

ByEndpoint(name, path) ==
  LET address == decode_segment(path[3])
      printer == printer_name(decode_segment(path[4]))
      display == for_shared_printer(printer, address)
  IN IF /\ Len(path) = 4 /\ path[3] # <<>> /\ path[4] # <<>>
        /\ validate_address(address)
        /\ printer # Refused /\ display # Refused
        /\ BaseName(name) \in {Display(display), cups_destination_for(printer, address)}
        /\ queue_name(name.text) # Refused
     THEN Recognised(printer, address) ELSE Ambiguous

(* The port of the server is read from the label's last part alone.        *)
parse_client_queue_name(name) ==
  LET base == BaseName(name).text
      at == Occurs(base, Open)
      printer == printer_name(Before(base, Latest(at)))
      label == SubSeq(base, Latest(at) + Len(Open), Len(base) - 1)
      hyphen == Occurs(label, <<Hyphen>>)
      port == From(label, Latest(hyphen) + 1)
      address == IF hyphen # {} /\ port # <<>> /\ Bytes(port) \subseteq Digit
                 THEN Before(label, Latest(hyphen)) \o <<Colon>> \o port ELSE label
  IN IF /\ name.digest = NoDigest /\ queue_name(name.text) # Refused
        /\ base # <<>> /\ Last(base) = 41 /\ at # {}
        /\ printer # Refused /\ validate_address(address)
        /\ for_shared_printer(printer, address) = base
     THEN Recognised(printer, address) ELSE Ambiguous

Mentions(port, proxy) ==
  \/ port.mentions \/ port.authority = proxy
  \/ \E i \in 1 .. Len(port.path) - 2 : Endpoint(port.path, i)

(* Variant: only the endpoint decides.                                     *)
classify_EndpointOnly(name, port, proxy) ==
  IF /\ port.scheme \in {"ipp", "http"} /\ Len(port.path) >= 3 /\ Endpoint(port.path, 1)
     /\ is_loopback_authority(port.authority, proxy)
  THEN ByEndpoint(name, port.path)
  ELSE IF Mentions(port, proxy) THEN Ambiguous ELSE EligibleLocal(printer_name(name.text))

classify(name, port, proxy) ==
  LET address == port.scheme \in {"ipp", "http"}
      local == address /\ is_loopback_authority(port.authority, proxy)
      wsd == port.scheme = "wsd"
      named == parse_client_queue_name(name)
  IN IF local /\ Len(port.path) >= 3 /\ Endpoint(port.path, 1) THEN ByEndpoint(name, port.path)
     ELSE IF wsd /\ named # Ambiguous THEN named
     ELSE IF \/ wsd /\ Occurs(name.text, Open) # {}
             \/ Mentions(port, proxy) \/ local THEN Ambiguous
     ELSE IF printer_name(name.text) = Refused THEN Ignored
     ELSE EligibleLocal(printer_name(name.text))

(* DestinationAwarePrinterCatalog, over the records of the spooler.        *)
local_printers(records, proxy) ==
  {c \in {classify(r.name, r.port, proxy) : r \in records} : c.kind = "local"}
recognised_client_queues(records, proxy) ==
  {c \in {classify(r.name, r.port, proxy) : r \in records} : c.kind = "recognised"}

(* purge_cups_client_queues: each authority the proxy may have had.        *)
purge_cups_client_queues(records, authorities) ==
  {r \in records : \E a \in authorities : classify(r.name, r.port, a).kind = "recognised"}

-----------------------------------------------------------------------------
(* The addresses a queue gets: the proxy's on Linux and on old Windows,    *)
(* or a port that Windows names.                                           *)

NoAuthority == [host |-> "", port |-> <<>>]
client_queue_uri(proxy, address, printer) ==
  [scheme |-> "ipp", authority |-> proxy, mentions |-> FALSE,
   path |-> <<IPP, PRINT, percent_encode(address), percent_encode(printer)>>]
WsdPort == [scheme |-> "wsd", authority |-> NoAuthority, mentions |-> FALSE, path |-> <<>>]
UsbPort == [WsdPort EXCEPT !.scheme = "usb"]

-----------------------------------------------------------------------------
(* The command line of the elevated helper.  An argument is a sequence of  *)
(* bytes; the names of options and actions are written as they are.        *)

Quote == 34
Backslash == 92
Repeat(n, b) == [i \in 1 .. n |-> b]

quote_argument(s) ==
  LET Put(q, b) ==
        CASE b = Backslash -> [out |-> Append(q.out, b), run |-> q.run + 1]
          [] b = Quote -> [out |-> q.out \o Repeat(q.run + 1, Backslash) \o <<Quote>>, run |-> 0]
          [] OTHER -> [out |-> Append(q.out, b), run |-> 0]
      q == FoldLeft(Put, [out |-> <<Quote>>, run |-> 0], s)
  IN q.out \o Repeat(q.run, Backslash) \o <<Quote>>

helper_parameters(r) ==
  <<Space>> \o quote_argument(r.address) \o <<Space>> \o quote_argument(r.printer)

(* How Windows splits a command line: 2n backslashes before a quote are n, *)
(* one more makes the quote a character; elsewhere they are themselves.    *)
Split(line) ==
  LET End(q) == [q EXCEPT !.arg = @ \o Repeat(q.run, Backslash), !.run = 0]
      Step(q, b) ==
        CASE b = Backslash -> [q EXCEPT !.run = @ + 1, !.any = TRUE]
          [] b = Quote -> IF q.run % 2 = 1
                          THEN [q EXCEPT !.arg = @ \o Repeat(q.run \div 2, Backslash) \o <<Quote>>,
                                         !.run = 0]
                          ELSE [q EXCEPT !.arg = @ \o Repeat(q.run \div 2, Backslash), !.run = 0,
                                         !.inside = ~@, !.any = TRUE]
          [] b = Space /\ ~q.inside ->
               IF q.any THEN [out |-> Append(q.out, End(q).arg), arg |-> <<>>, run |-> 0,
                              inside |-> FALSE, any |-> FALSE] ELSE q
          [] OTHER -> [End(q) EXCEPT !.arg = Append(@, b), !.any = TRUE]
      q == FoldLeft(Step, [out |-> <<>>, arg |-> <<>>, run |-> 0, inside |-> FALSE, any |-> FALSE], line)
  IN IF q.any THEN Append(q.out, End(q).arg) ELSE q.out

(* parse_queue_request takes each option once and checks what it was given *)
(* again.                                                                  *)
parse_queue_request(arguments) ==
  LET printer == printer_name(arguments[2])
  IN IF Len(arguments) = 2 /\ printer # Refused /\ Request(printer, arguments[1])
     THEN [address |-> arguments[1], printer |-> printer] ELSE [address |-> <<>>, printer |-> <<>>]

-----------------------------------------------------------------------------
(* A queue that was installed for a request, as the spooler reports it:    *)
(* under its CUPS destination, or under its name with what Windows adds to *)
(* a copy, at the proxy's address or behind a WSD port.  A name does not   *)
(* carry the brackets of an IPv6 server: without its address it is lost.   *)
InstalledRecords(printer, address, proxy, copy) ==
  LET uri == client_queue_uri(proxy, address, printer)
      shown == Display(for_shared_printer(printer, address) \o copy)
  IN {[name |-> cups_destination_for(printer, address), port |-> uri],
      [name |-> shown, port |-> uri]}
     \cup (IF address[1] = 91 THEN {} ELSE {[name |-> shown, port |-> WsdPort]})

(* A client queue is told from the user's printers by its address and its  *)
(* name together: however a printer and its server are called, the queue   *)
(* that was made for them is recognised as theirs, it is not offered for   *)
(* sharing, and the purge takes it and leaves a USB printer of the very    *)
(* same name, which stays local.                                           *)
InstalledIsRecognised(printer, address, proxy, copy) ==
  Request(printer, address) =>
    LET own == InstalledRecords(printer, address, proxy, copy)
        usb == [name |-> Display(for_shared_printer(printer, address) \o copy), port |-> UsbPort]
        all == own \cup {usb}
    IN /\ recognised_client_queues(all, proxy) = {Recognised(printer, address)}
       /\ local_printers(all, proxy) = {EligibleLocal(usb.name.text)}
       /\ purge_cups_client_queues(all, {proxy}) = own

(* What the unprivileged part asks for is what the elevated helper does:   *)
(* quotes, backslashes and spaces of a name survive the command line, and  *)
(* the helper's own check refuses no request that was made.                *)
HelperGetsRequest(printer, address) ==
  Request(printer, address) =>
    LET r == [address |-> address, printer |-> printer]
    IN parse_queue_request(Split(helper_parameters(r))) = r

=============================================================================
