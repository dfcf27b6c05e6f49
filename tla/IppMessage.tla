---------------------------- MODULE IppMessage ----------------------------
(***************************************************************************)
(* The IPP codec (adapters/ipps/protocol.rs) and the paper catalogue it    *)
(* advertises (adapters/printers/media.rs): what a message is once its     *)
(* lengths are read, how attributes are read and written, the percent code *)
(* of printer names in addresses, and the media-col collection.            *)
(*                                                                         *)
(* A message is a sequence of tokens, one per tag byte: a group delimiter, *)
(* or a tag with a name and a value.  A further value of an attribute, and *)
(* every member of a collection, has the empty name.  `ended` says whether *)
(* the end-of-attributes tag was there; only then is there a document.     *)
(* Values are tuples whose head is their kind; names of printers are       *)
(* sequences of bytes, because their percent code is modelled.             *)
(***************************************************************************)
EXTENDS Integers, Sequences, SequencesExt

NoValue == <<>>

-----------------------------------------------------------------------------
(* Percent code of a printer name in an address.                           *)

Letter == (65 .. 90) \cup (97 .. 122)
Unreserved == (48 .. 57) \cup Letter \cup {45, 46, 95, 126}
Hex(d) == IF d < 10 THEN 48 + d ELSE 55 + d

(* Variant: what is unsafe in a path is escaped, the escape sign not.      *)
percent_encode_KeepsSign(s) ==
  FlattenSeq([i \in DOMAIN s |->
    IF s[i] \in Unreserved \cup {37} THEN <<s[i]>>
    ELSE <<37, Hex(s[i] \div 16), Hex(s[i] % 16)>>])

percent_encode(s) ==
  FlattenSeq([i \in DOMAIN s |->
    IF s[i] \in Unreserved THEN <<s[i]>>
    ELSE <<37, Hex(s[i] \div 16), Hex(s[i] % 16)>>])

hex_digit == [b \in (48 .. 57) \cup (65 .. 70) \cup (97 .. 102) |->
                IF b < 58 THEN b - 48 ELSE IF b < 71 THEN b - 55 ELSE b - 87]

percent_decode(s) ==
  LET Escape(i) == /\ s[i] = 37
                   /\ i + 2 <= Len(s)
                   /\ {s[i + 1], s[i + 2]} \subseteq DOMAIN hex_digit
      from[i \in 1 .. Len(s) + 1] ==
        IF i > Len(s) THEN <<>>
        ELSE IF Escape(i)
             THEN <<16 * hex_digit[s[i + 1]] + hex_digit[s[i + 2]]>> \o from[i + 3]
             ELSE <<s[i]>> \o from[i + 1]
  IN from[1]

LowerCase(s) == [i \in DOMAIN s |-> IF s[i] \in 65 .. 90 THEN s[i] + 32 ELSE s[i]]
SameText(a, b) == LowerCase(a) = LowerCase(b)

-----------------------------------------------------------------------------
(* Reading a message.                                                      *)

Delimiters == {"operation", "job", "printer"}
TextTags == {"text", "name", "keyword", "uri", "charset", "language", "mime", "member"}

Group(g) == <<[tag |-> g, name |-> "", value |-> NoValue]>>
Attribute(tag, name, values) ==
  [i \in DOMAIN values |-> [tag |-> tag, name |-> IF i = 1 THEN name ELSE "", value |-> values[i]]]

(* Where the attributes begin: what has no name, and is no delimiter, is a *)
(* further value of the attribute before it.                               *)
Heads(tokens) == SelectSeq([i \in DOMAIN tokens |-> i], LAMBDA i : tokens[i].name # "")

Parse(message) ==
  LET tokens == SelectSeq(message.tokens, LAMBDA k : k.tag \notin Delimiters)
      heads == Heads(tokens)
      ok == tokens = <<>> \/ (heads # <<>> /\ heads[1] = 1)
      Run(n) == SubSeq(tokens, heads[n], IF n = Len(heads) THEN Len(tokens) ELSE heads[n + 1] - 1)
      Read(run) == [name |-> run[1].name, tag |-> run[1].tag,
                    values |-> [i \in DOMAIN run |-> run[i].value],
                    tags |-> [i \in DOMAIN run |-> run[i].tag]]
  IN [ok |-> ok, attributes |-> IF ok THEN [n \in DOMAIN heads |-> Read(Run(n))] ELSE <<>>,
      document |-> IF message.ended THEN message.document ELSE NoValue]

Find(request, name) ==
  LET Named(a) == a.name = name IN SelectInSeq(request.attributes, Named)
has_attribute(request, name) == Find(request, name) # 0

value(request, name) ==
  LET i == Find(request, name) IN
  IF i = 0 THEN NoValue
  ELSE IF request.attributes[i].tag \in TextTags THEN request.attributes[i].values[1]
  ELSE NoValue

text_values(request, name) ==
  LET i == Find(request, name) IN
  IF i = 0 THEN <<>> ELSE request.attributes[i].values

(* An integer is four bytes of an integer or enum tag.                     *)
integer(request, name) ==
  LET i == Find(request, name) IN
  IF i = 0 THEN NoValue
  ELSE LET a == request.attributes[i] IN
       IF a.tag \in {"integer", "enum"} /\ a.values[1][1] = "int" THEN a.values[1] ELSE NoValue

boolean(request, name) ==
  LET i == Find(request, name) IN
  IF i = 0 THEN NoValue
  ELSE LET v == request.attributes[i].values[1] IN IF v[1] = "bool" THEN v ELSE NoValue

SUPPORTED_VERSIONS == {"2.0", "1.1", "1.0"}
response_version(version) == IF version \in SUPPORTED_VERSIONS THEN version ELSE "1.1"

-----------------------------------------------------------------------------
(* The paper catalogue, in tenths of a millimetre.                         *)

Paper(keyword, short, long) == [keyword |-> keyword, short |-> short, long |-> long]

MEDIA_CATALOG == <<
  Paper("iso_a4", 2100, 2970), Paper("na_letter", 2159, 2794), Paper("na_legal", 2159, 3556),
  Paper("om_folio", 2100, 3300), Paper("na_foolscap", 2159, 3302), Paper("iso_a3", 2970, 4200),
  Paper("iso_a5", 1480, 2100), Paper("iso_a6", 1050, 1480), Paper("iso_b4", 2500, 3530),
  Paper("iso_b5", 1760, 2500), Paper("jis_b5", 1820, 2570), Paper("na_executive", 1842, 2667),
  Paper("na_invoice", 1397, 2159), Paper("na_ledger", 2794, 4318), Paper("oe_photo-4x6", 1016, 1524),
  Paper("na_index-4x6", 1016, 1524), Paper("na_5x7", 1270, 1778), Paper("iso_dl", 1100, 2200),
  Paper("iso_c5", 1620, 2290), Paper("na_number-10", 1048, 2413), Paper("na_monarch", 984, 1905)>>

Near(a, b) == a - b \in -5 .. 5

media_for_dimensions(short, long) ==
  LET Fits(p) == Near(short, p.short) /\ Near(long, p.long)
  IN SelectInSeq(MEDIA_CATALOG, Fits)

custom_dimensions_are_supported(short, long) == short \in 500 .. 3302 /\ long \in 500 .. 4500

(* A medium by name, or by the dimensions its name states; what the driver *)
(* is given is the catalogue entry of those dimensions, or a custom size.  *)
media_spec(medium) ==
  CASE medium[1] = "text" /\ \E i \in DOMAIN MEDIA_CATALOG : MEDIA_CATALOG[i].keyword = medium[2] ->
         LET Named(p) == p.keyword = medium[2]
         IN MEDIA_CATALOG[SelectInSeq(MEDIA_CATALOG, Named)]
    [] medium[1] = "custom" /\ custom_dimensions_are_supported(medium[2], medium[3]) ->
         LET i == media_for_dimensions(medium[2], medium[3])
         IN Paper(IF i = 0 THEN "custom" ELSE MEDIA_CATALOG[i].keyword, medium[2], medium[3])
    [] OTHER -> NoValue

-----------------------------------------------------------------------------
(* The media-col collection.                                               *)

Member(name) == <<[tag |-> "member", name |-> "", value |-> <<"text", name>>]>>
Nameless(tag, v) == <<[tag |-> tag, name |-> "", value |-> v]>>
Opening(name) == <<[tag |-> "begin", name |-> name, value |-> NoValue]>>
Closing == Nameless("end", NoValue)

write_media_size(name, p) ==
  Opening(name) \o Member("x-dimension") \o Nameless("integer", <<"int", 10 * p.short>>)
                \o Member("y-dimension") \o Nameless("integer", <<"int", 10 * p.long>>) \o Closing

write_media_collection(name, p, margin) ==
  Opening(name) \o Member("media-size") \o write_media_size("", p)
    \o Member("media-size-name") \o Nameless("keyword", <<"text", p.keyword>>)
    \o FlattenSeq([i \in 1 .. 4 |->
         Member(<<"media-bottom-margin", "media-top-margin",
                  "media-left-margin", "media-right-margin">>[i])
         \o Nameless("integer", <<"int", margin>>)])
    \o Closing

STANDARD_MARGIN == 350
BORDERLESS_MARGIN == 0

write_media_col_database(catalog) ==
  FlattenSeq([i \in 1 .. 2 * Len(catalog) |->
    write_media_collection(IF i = 1 THEN "media-col-database" ELSE "",
                           catalog[(i + 1) \div 2],
                           IF i % 2 = 1 THEN STANDARD_MARGIN ELSE BORDERLESS_MARGIN)])

(* One member or one end of the collection, with the path, the member      *)
(* whose value is awaited and what was read so far.                        *)
ReadMember(r, tag, v) ==
  LET Bad == [r EXCEPT !.ok = FALSE]
      top == r.path = <<"media-col">>
      size == r.path = <<"media-col", "media-size">>
  IN CASE ~r.ok -> r
       [] r.ok /\ r.path = <<>> -> Bad
       [] r.ok /\ r.path # <<>> /\ tag = "member" ->
            IF r.member # "" \/ v = NoValue THEN Bad ELSE [r EXCEPT !.member = v[2]]
       [] r.ok /\ r.path # <<>> /\ tag = "begin" ->
            IF v # NoValue \/ Len(r.path) >= 16 \/ r.member = "" \/ (top /\ r.member = "media-size" /\ r.sized)
            THEN Bad
            ELSE [r EXCEPT !.sized = @ \/ (top /\ r.member = "media-size"),
                           !.path = Append(@, r.member), !.member = ""]
       [] r.ok /\ r.path # <<>> /\ tag = "end" ->
            IF r.member # "" \/ v # NoValue THEN Bad ELSE [r EXCEPT !.path = Front(@)]
       [] r.ok /\ r.path # <<>> /\ tag \notin {"member", "begin", "end"} ->
            IF r.member = "" THEN Bad
            ELSE IF top /\ r.member = "media-size-name"
                 THEN IF tag \notin {"keyword", "name"} \/ r.name # NoValue THEN Bad
                      ELSE [r EXCEPT !.name = v, !.member = ""]
            ELSE IF size /\ r.member \in {"x-dimension", "y-dimension"}
                 THEN IF \/ tag # "integer" \/ v[2] \notin 5000 .. 45000
                         \/ (IF r.member = "x-dimension" THEN r.x ELSE r.y) # 0
                      THEN Bad
                      ELSE IF r.member = "x-dimension" THEN [r EXCEPT !.x = v[2], !.member = ""]
                           ELSE [r EXCEPT !.y = v[2], !.member = ""]
            ELSE [r EXCEPT !.member = ""]

(* The medium a message asks for: by the keyword `media`, by the name in   *)
(* media-col, or by its size; [ok |-> FALSE] when the collection is not    *)
(* acceptable, NoValue when none is asked for.                             *)
media(request) ==
  LET Bad == [ok |-> FALSE, medium |-> NoValue]
      Meant(medium) == [ok |-> TRUE, medium |-> medium]
      i == Find(request, "media-col")
      Members(a) ==
        FoldLeftDomain(LAMBDA s, k : IF k = 1 THEN s ELSE ReadMember(s, a.tags[k], a.values[k]),
          [ok |-> TRUE, path |-> <<"media-col">>, member |-> "", name |-> NoValue,
           sized |-> FALSE, x |-> 0, y |-> 0], a.values)
      Sized(short, long, c) ==
        Meant(IF c # 0 THEN <<"text", MEDIA_CATALOG[c].keyword>> ELSE <<"custom", short, long>>)
      Collected(r) ==
        LET low == IF r.x < r.y THEN r.x ELSE r.y
            high == IF r.x < r.y THEN r.y ELSE r.x
            short == low \div 10
            long == high \div 10
        IN IF ~r.ok \/ r.path # <<>> \/ r.member # "" THEN Bad
           ELSE IF (r.x = 0) # (r.y = 0) \/ (r.x = 0 /\ r.sized) THEN Bad
           ELSE IF r.x # 0 /\ (low > 33020 \/ ~custom_dimensions_are_supported(short, long)) THEN Bad
           ELSE IF r.name # NoValue THEN Meant(r.name)
           ELSE IF r.x = 0 THEN Meant(NoValue)
           ELSE Sized(short, long, media_for_dimensions(short, long))
  IN IF value(request, "media") # NoValue THEN Meant(value(request, "media"))
     ELSE IF i = 0 THEN Meant(NoValue)
     ELSE IF request.attributes[i].tag # "begin" \/ request.attributes[i].values[1] # NoValue THEN Bad
     ELSE Collected(Members(request.attributes[i]))
=============================================================================
