--------------------------- MODULE DiscoveryWire ---------------------------
(***************************************************************************)
(* The packets of discovery (adapters/discovery/wire.rs), how a server     *)
(* fills them (advertise.rs) and what a browser makes of them (browse.rs,  *)
(* domain/discovery.rs): a question for the service type; and an           *)
(* announcement of three records, which says where the server is and which *)
(* printers it shares, with no lifetime when it is withdrawn.              *)
(*                                                                         *)
(* A packet is a sequence of bytes and is modelled as one, because what    *)
(* can go wrong lies in its lengths.  Names are ASCII; a lifetime is in    *)
(* milliseconds until it is written.  When datagrams are sent, lost and    *)
(* reordered is in Discovery.                                              *)
(***************************************************************************)
EXTENDS QueueNames

CONSTANTS
  SERVICE_TYPE, VERSION,
  FALLBACK,                 \* the label of a computer without a usable name
  MAX_LABEL, MAX_TXT_STRING, MAX_NAME_JUMPS, MAX_PACKET,
  MAX_ADVERTISED_PRINTERS,
  SERVER_LIMIT              \* longest name of a server in the window

Dot == 46
Equals == 61
PTR == 12
TXT == 16
SRV == 33
CLASS_IN == 1
FLUSH == 32768   \* UNICAST_OR_CACHE_FLUSH
RP == <<114, 112>>
NAME == <<110, 97, 109, 101>>
V == <<118>>
QUEUE == <<113, 117, 101, 117, 101>>
RESOURCE_PATH == <<105, 47, 112>>
DOT_LOCAL == <<46, 108, 111, 99, 97, 108, 46>>   \* ".local."

First(s, n) == SubSeq(s, 1, IF n < Len(s) THEN n ELSE Len(s))

U16(n) == <<n \div 256, n % 256>>
U32(n) == U16(n \div 65536) \o U16(n % 65536)

-----------------------------------------------------------------------------
(* Writing.                                                                *)

Labels(name) ==
  LET Add(labels, b) == IF b = Dot THEN Append(labels, <<>>)
                        ELSE [labels EXCEPT ![Len(labels)] = Append(@, b)]
  IN SelectSeq(FoldLeft(Add, <<<<>>>>, name), LAMBDA l : l # <<>>)

push_name(name) ==
  LET labels == Labels(name) IN
  IF labels = <<>> \/ \E i \in DOMAIN labels : Len(labels[i]) > MAX_LABEL
  THEN Refused
  ELSE FlattenSeq([i \in DOMAIN labels |-> <<Len(labels[i])>> \o labels[i]]) \o <<0>>

header(flags, questions, answers) ==
  <<0, 0>> \o U16(flags) \o U16(questions) \o U16(answers) \o <<0, 0, 0, 0>>

Record(name, type, class, lifetime, data) ==
  push_name(name) \o U16(type) \o U16(class) \o U32(lifetime)
    \o U16(Len(data)) \o data

instance_name(label) ==
  LET name == Trim(label, {Space}) IN
  IF name = <<>> \/ Len(name) > MAX_LABEL \/ ~(Bytes(name) \subseteq (32 .. 126) \ {Dot})
  THEN Refused ELSE name \o <<Dot>> \o SERVICE_TYPE

(* A lifetime below a second is rounded up: none would be a withdrawal.    *)
record_lifetime(ttl) == (ttl + 999) \div 1000

encode_query(type) ==
  header(0, 1, 0) \o push_name(type) \o U16(PTR) \o U16(CLASS_IN + FLUSH)

encode_announcement(label, target, port, properties, ttl) ==
  LET instance == instance_name(label)
      lifetime == record_lifetime(ttl)
      entries == [i \in DOMAIN properties |->
                    properties[i][1] \o <<Equals>> \o properties[i][2]]
  IN IF \/ instance = Refused \/ push_name(target) = Refused
        \/ \E i \in DOMAIN entries : Len(entries[i]) > MAX_TXT_STRING
     THEN Refused
     ELSE header(33792, 0, 3)
            \o Record(SERVICE_TYPE, PTR, CLASS_IN, lifetime, push_name(instance))
            \o Record(instance, SRV, CLASS_IN + FLUSH, lifetime,
                      <<0, 0, 0, 0>> \o U16(port) \o push_name(target))
            \o Record(instance, TXT, CLASS_IN + FLUSH, lifetime,
                      FlattenSeq([i \in DOMAIN entries |->
                                    <<Len(entries[i])>> \o entries[i]]))

usable_label(name) ==
  LET cleaned == Trim([i \in DOMAIN name |->
                         IF name[i] \in Letter \cup Digit \cup {Hyphen, 95, Space}
                         THEN name[i] ELSE Hyphen], {Space})
  IN IF cleaned = <<>> THEN FALLBACK
     ELSE First(cleaned, MAX_LABEL)

properties(label, printers) ==
  <<<<RP, RESOURCE_PATH>>, <<NAME, label>>, <<V, VERSION>>>>
    \o [i \in DOMAIN printers |-> <<QUEUE, printers[i]>>]

(* Printers are dropped from the end until the rest fits.                  *)
encode(label, port, printers, ttl) ==
  LET Try(n) == encode_announcement(label, label \o DOT_LOCAL, port,
                                    properties(label, First(printers, n)), ttl)
      fit[n \in 0 .. Len(printers)] ==
        IF n = 0 \/ Try(n) = Refused \/ Len(Try(n)) <= MAX_PACKET
        THEN Try(n) ELSE fit[n - 1]
  IN fit[Len(First(printers, MAX_ADVERTISED_PRINTERS))]

-----------------------------------------------------------------------------
(* Reading.  Places in a packet count from 1; a pointer counts from 0.     *)

Word(packet, at) == 256 * packet[at] + packet[at + 1]

(* Reader::name: the labels from a place on, and the place after the name, *)
(* which is that after the first pointer when there is one.                *)
Name(packet, at) ==
  LET none == [ok |-> FALSE, labels |-> <<>>, next |-> at]
      read[p \in 1 .. Len(packet) + 1, jumps \in 0 .. MAX_NAME_JUMPS] ==
        IF p > Len(packet) THEN none
        ELSE LET size == packet[p] IN
          CASE size = 0 -> [ok |-> TRUE, labels |-> <<>>, next |-> p + 1]
            [] size \in 1 .. 63 ->
                 IF p + size > Len(packet) THEN none
                 ELSE [read[p + size + 1, jumps] EXCEPT
                         !.labels = <<SubSeq(packet, p + 1, p + size)>> \o @]
            [] size \in 192 .. 255 ->
                 IF \/ p = Len(packet) \/ jumps = MAX_NAME_JUMPS
                    \/ Word(packet, p) - 49152 >= Len(packet)
                 THEN none
                 ELSE [read[Word(packet, p) - 49151, jumps + 1] EXCEPT !.next = p + 2]
            [] OTHER -> none
      name == IF at > Len(packet) THEN none ELSE read[at, 0]
      Text(labels) == FlattenSeq([i \in DOMAIN labels |-> labels[i] \o <<Dot>>])
      Read(result) == [ok |-> result.ok, next |-> result.next, text |-> Text(result.labels)]
  IN Read(name)

split_once(text) ==
  LET signs == Occurs(text, <<Equals>>) IN
  IF signs = {} THEN <<text, <<>>>>
  ELSE <<Before(text, Earliest(signs)), From(text, Earliest(signs) + 1)>>

Texts(bytes) ==
  LET from[i \in 1 .. Len(bytes) + 1] ==
        IF i > Len(bytes) THEN [ok |-> TRUE, texts |-> <<>>]
        ELSE IF i + bytes[i] > Len(bytes) THEN [ok |-> FALSE, texts |-> <<>>]
        ELSE [from[i + bytes[i] + 1] EXCEPT
                !.texts = <<split_once(SubSeq(bytes, i + 1, i + bytes[i]))>> \o @]
  IN from[1]

(* The data of a record; a name must end where the record does.            *)
decode_data(type, packet, start, size) ==
  LET Skip == IF type = SRV THEN 6 ELSE 0
      Address(name) ==
        [ok |-> Skip <= size /\ name.ok /\ name.next = start + size,
         text |-> name.text,
         port |-> IF Skip <= size /\ type = SRV THEN Word(packet, start + 4) ELSE 0]
      Properties(text) == [ok |-> text.ok, text |-> text.texts, port |-> 0]
  IN CASE type \in {PTR, SRV} -> Address(Name(packet, start + Skip))
       [] type = TXT -> Properties(Texts(SubSeq(packet, start, start + size - 1)))
       [] OTHER -> [ok |-> TRUE, text |-> <<>>, port |-> 0]

ReadQuery(packet, m) ==
  LET Query(name, next) ==
        IF ~m.ok \/ ~name.ok \/ next + 3 > Len(packet) THEN [m EXCEPT !.ok = FALSE]
        ELSE [m EXCEPT !.at = next + 4,
                       !.queries = Append(@, [name |-> name.text, type |-> Word(packet, next),
                                              unicast |-> Word(packet, next + 2) >= FLUSH])]
      After(name) == Query(name, name.next)
  IN After(Name(packet, m.at))

ReadRecord(packet, m) ==
  LET Add(name, next, size, data) ==
        IF ~data.ok THEN [m EXCEPT !.ok = FALSE]
        ELSE [m EXCEPT !.at = next + 10 + size,
                       !.records = Append(@, [name |-> name.text, type |-> Word(packet, next),
                                              ttl |-> 65536 * Word(packet, next + 4)
                                                        + Word(packet, next + 6),
                                              data |-> data])]
      Sized(name, next, size) ==
        IF next + 9 + size > Len(packet) THEN [m EXCEPT !.ok = FALSE]
        ELSE Add(name, next, size, decode_data(Word(packet, next), packet, next + 10, size))
      After(name, next) ==
        IF ~m.ok \/ ~name.ok \/ next + 9 > Len(packet) THEN [m EXCEPT !.ok = FALSE]
        ELSE Sized(name, next, Word(packet, next + 8))
      Named(name) == After(name, name.next)
  IN Named(Name(packet, m.at))

Message(packet) ==
  LET start == [ok |-> Len(packet) >= 12, at |-> 13, queries |-> <<>>, records |-> <<>>]
      Times(f(_, _), m, n) == FoldLeft(LAMBDA x, i : f(packet, x), m, [i \in 1 .. n |-> i])
      records == Word(packet, 7) + Word(packet, 9) + Word(packet, 11)
  IN IF ~start.ok THEN start
     ELSE Times(ReadRecord, Times(ReadQuery, start, Word(packet, 5)), records)

is_named(left, right) ==
  LET Bare(name) == IF name # <<>> /\ Last(name) = Dot THEN Front(name) ELSE name
  IN SameText(Bare(left), Bare(right))

queries_service(query) == query.type = PTR /\ is_named(query.name, SERVICE_TYPE)

(* An instance counts when its place and its properties are there as well. *)
services(message) ==
  LET records == message.records
      Of(instance, type) == {i \in DOMAIN records :
                               records[i].type = type /\ is_named(records[i].name, instance)}
      Described(r) == /\ r.type = PTR /\ is_named(r.name, SERVICE_TYPE)
                      /\ Of(r.data.text, SRV) # {} /\ Of(r.data.text, TXT) # {}
      Service(r) == [instance |-> r.data.text, ttl |-> r.ttl,
                     port |-> records[Earliest(Of(r.data.text, SRV))].data.port,
                     properties |-> records[Earliest(Of(r.data.text, TXT))].data.text]
      pointers == SelectSeq(records, Described)
  IN [i \in DOMAIN pointers |-> Service(pointers[i])]

-----------------------------------------------------------------------------
(* What the browser lists.                                                 *)

Values(service, key) ==
  LET found == SelectSeq(service.properties, LAMBDA p : p[1] = key)
  IN [i \in DOMAIN found |-> found[i][2]]

(* nearby_server and NearbyServer::with_version: an empty sequence when    *)
(* the server cannot be shown.                                             *)
nearby_server(service) ==
  LET Label(names) == IF names = <<>> THEN Head(Labels(service.instance)) ELSE Head(names)
      Add(printers, text) ==
        LET printer == printer_name(text) IN
        IF printer = Refused \/ printer \in ToSet(printers) THEN printers
        ELSE Append(printers, printer)
      Listed(name) ==
        IF name = <<>> \/ Len(name) > SERVER_LIMIT \/ Bytes(name) \cap 0 .. 31 # {} THEN <<>>
        ELSE <<[live |-> TRUE, port |-> service.port, name |-> name,
                printers |-> FoldLeft(Add, <<>>, Values(service, QUEUE))]>>
  IN Listed(Trim(Label(Values(service, NAME)), {Space}))

(* What a packet tells the cache about the host it came from.              *)
report(packet) ==
  LET Seen(service) ==
        IF service.port = 0 THEN <<>>
        ELSE IF service.ttl = 0 THEN <<[live |-> FALSE, port |-> service.port]>>
        ELSE nearby_server(service)
      All(found) == FlattenSeq([i \in DOMAIN found |-> Seen(found[i])])
      Read(message) == IF ~message.ok THEN <<>> ELSE All(services(message))
  IN Read(Message(packet))

(* Responder::answer: does the packet ask for this service?                *)
Asks(packet) ==
  LET Read(message) ==
        message.ok /\ \E i \in DOMAIN message.queries : queries_service(message.queries[i])
  IN Read(Message(packet))

-----------------------------------------------------------------------------
(* The same packet from a responder that writes the instance's name once   *)
(* and points at it afterwards.                                            *)
Compressed(packet, instance) ==
  LET Point(places, first, size) ==
        FlattenSeq([i \in DOMAIN packet |->
          IF i \in places \ {first} THEN U16(49152 + first - 1)
          ELSE IF \E p \in places \ {first} : i \in p .. p + size - 1
               THEN <<>> ELSE <<packet[i]>>])
      Found(places) == Point(places, Earliest(places), Len(push_name(instance)))
  IN Found(Occurs(packet, push_name(instance)))

(* What a server announces is what a browser lists, whatever its computer  *)
(* and its printers are called: its name, its port and as many of its      *)
(* printers, in order, as fit a datagram; a withdrawal withdraws and       *)
(* nothing else does; a packet that was cut says nothing at all; and only  *)
(* a question is answered (encode_announcement and properties against      *)
(* Message::parse, services and nearby_server, which run on two machines). *)
AnnouncementIsRead(computer, port, printers, ttl) ==
  LET Shown(label, packet, seen) ==
        /\ port = 0 => seen = <<>>
        /\ (port # 0 /\ ttl = 0) => seen = <<[live |-> FALSE, port |-> port]>>
        /\ (port # 0 /\ ttl # 0) =>
             /\ Len(seen) = 1 /\ seen[1].live /\ seen[1].port = port
             /\ seen[1].name = Trim(label, {Space})
             /\ IsPrefix(seen[1].printers, printers)
             /\ Len(packet) <= MAX_PACKET \/ seen[1].printers = <<>>
        /\ report(Compressed(packet, instance_name(label))) = seen
        /\ \A n \in 1 .. Len(packet) - 1 : ~Message(First(packet, n)).ok
        /\ ~Asks(packet)
      Sent(label, packet) ==
        IF packet = Refused
        THEN \E i \in DOMAIN printers : Len(printers[i]) > MAX_TXT_STRING - Len(QUEUE) - 1
        ELSE Shown(label, packet, report(packet))
      Named(label) == Sent(label, encode(label, port, printers, ttl))
  IN /\ Named(usable_label(computer))
     /\ Asks(encode_query(SERVICE_TYPE)) /\ report(encode_query(SERVICE_TYPE)) = <<>>
=============================================================================
