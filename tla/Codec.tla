------------------------------- MODULE Codec -------------------------------
(***************************************************************************)
(* frame.cpp, discovery.cpp and the codec of qos.cpp: what one participant  *)
(* encodes and hands to a transport, and what handle_bytes() of another     *)
(* makes of the bytes that arrive.                                          *)
(*                                                                         *)
(* A frame is a sequence of bytes 0 .. Base - 1 and a field is a big-endian *)
(* number of a fixed width, so a value too large for its field wraps as in  *)
(* C++.  Base and the widths are parameters: 256, and 2, 4, 8 and 16 bytes  *)
(* in the code.  Names and payloads are sequences of bytes.                 *)
(***************************************************************************)
EXTENDS Integers, Sequences, SequencesExt, Functions

CONSTANTS
  Base,                       \* values of a byte
  U16, U32, U64, GuidSize,    \* widths in bytes
  MaxPayload,                 \* udp_max_payload
  Messages,                   \* what participants send
  LaterEntries, LaterRests    \* what senders of later versions append

ASSUME CodecAssumption ==
  /\ {U16, U32, U64, GuidSize} \subseteq 1 .. (Base - 1)
  /\ U16 <= U32
  /\ Base \in Nat /\ Base > 7
  /\ MaxPayload \in Nat

VARIABLES
  at,         \* where the frame is
  message,    \* what was sent
  later,      \* the entries that a later version added to it
  wire,       \* the bytes that arrive
  intact,     \* all of them arrive
  handled     \* what handle_bytes() passes on

vars == <<at, message, later, wire, intact, handled>>

Nothing == [type |-> "nothing"]

Init ==
  /\ at = "idle" /\ message = Nothing /\ later = <<>>
  /\ wire = <<>> /\ intact = TRUE /\ handled = Nothing

-----------------------------------------------------------------------------
(* Numbers *)

Byte == 0 .. (Base - 1)

\* v >> (8 * k)
Shifted(v, k) ==
  LET shifted[i \in 0 .. k] == IF i = 0 THEN v ELSE shifted[i - 1] \div Base
  IN  shifted[k]

\* Unsigned integers of w bytes.
Word(w) == {v \in Nat : Shifted(v, w) = 0}

\* put_u16(), put_u32(), put_u64(), put_guid()
Put(w, v) == [i \in 1 .. w |-> Shifted(v, w - i) % Base]

\* get_u16() ... of the w bytes at an offset.
Get(buf, off, w) ==
  LET value[i \in 0 .. w] == IF i = 0 THEN 0 ELSE (value[i - 1] * Base) + buf[off + i]
  IN  value[w]

\* 60000 by default, and no UDP datagram reaches 65536: no frame that UDP sends
\* can hold a name or a list that is too long for its u16.
ASSUME MaxPayloadAssumption == MaxPayload \in Word(U16)

-----------------------------------------------------------------------------
(* Header and fixed fields *)

Magic == <<3, 2, 2, 5>>
kProtocolVersion == 4
kHeaderSize == Len(Magic) + 2 + U16 + U32

FrameType == [DATA |-> 1, DATA_FRAG |-> 2, ACKNACK |-> 3, HEARTBEAT |-> 4,
              ANNOUNCE |-> 5, GAP |-> 6]

\* kDataBodyFixedSize, kDataFragBodyFixedSize, kAckNackBodySize, ...
FixedSize ==
  [DATA      |-> GuidSize + 2 * U64 + U32,
   DATA_FRAG |-> GuidSize + 2 * U64 + 3 * U32,
   ACKNACK   |-> 2 * GuidSize + 2 * U64,
   HEARTBEAT |-> GuidSize + 2 * U64,
   GAP       |-> 2 * GuidSize + 2 * U64]

\* encode_header()
Header(type, flags, body_len) ==
  Magic \o Put(1, kProtocolVersion) \o Put(1, FrameType[type]) \o Put(U16, flags)
    \o Put(U32, body_len)

HeaderType(buf) == buf[Len(Magic) + 2]
HeaderFlags(buf) == Get(buf, Len(Magic) + 2, U16)
BodyLen(buf) == Get(buf, Len(Magic) + 2 + U16, U32)

\* decode_header() accepts.
DecodeHeader(buf) ==
  /\ Len(buf) >= kHeaderSize
  /\ SubSeq(buf, 1, Len(Magic)) = Magic
  /\ buf[Len(Magic) + 1] = kProtocolVersion
  /\ Len(buf) - kHeaderSize >= BodyLen(buf)

Body(buf) == SubSeq(buf, kHeaderSize + 1, kHeaderSize + BodyLen(buf))

\* The fields in the order in which each encoder puts them.
Puts ==
  [DATA      |-> <<<<"writer", GuidSize>>, <<"seq", U64>>, <<"pub_time_ms", U64>>,
                   <<"payload_len", U32>>>>,
   DATA_FRAG |-> <<<<"writer", GuidSize>>, <<"seq", U64>>, <<"pub_time_ms", U64>>,
                   <<"total_size", U32>>, <<"frag_offset", U32>>, <<"payload_len", U32>>>>,
   ACKNACK   |-> <<<<"reader", GuidSize>>, <<"writer", GuidSize>>, <<"base_seq", U64>>,
                   <<"bitmap", U64>>>>,
   HEARTBEAT |-> <<<<"writer", GuidSize>>, <<"first_seq", U64>>, <<"last_seq", U64>>>>,
   GAP       |-> <<<<"writer", GuidSize>>, <<"reader", GuidSize>>, <<"gap_start", U64>>,
                   <<"gap_end", U64>>>>]

EncodeFields(m) ==
  FlattenSeq([i \in DOMAIN Puts[m.type] |->
                Put(Puts[m.type][i][2], m.fields[Puts[m.type][i][1]])])

\* Offset and width from which each decoder gets a field.
Gets ==
  LET first  == GuidSize + 2 * U64
      second == 2 * GuidSize
  IN  [DATA      |-> [writer |-> <<0, GuidSize>>, seq |-> <<GuidSize, U64>>,
                      pub_time_ms |-> <<GuidSize + U64, U64>>,
                      payload_len |-> <<first, U32>>],
       DATA_FRAG |-> [writer |-> <<0, GuidSize>>, seq |-> <<GuidSize, U64>>,
                      pub_time_ms |-> <<GuidSize + U64, U64>>,
                      total_size |-> <<first, U32>>, frag_offset |-> <<first + U32, U32>>,
                      payload_len |-> <<first + 2 * U32, U32>>],
       ACKNACK   |-> [reader |-> <<0, GuidSize>>, writer |-> <<GuidSize, GuidSize>>,
                      base_seq |-> <<second, U64>>, bitmap |-> <<second + U64, U64>>],
       HEARTBEAT |-> [writer |-> <<0, GuidSize>>, first_seq |-> <<GuidSize, U64>>,
                      last_seq |-> <<GuidSize + U64, U64>>],
       GAP       |-> [writer |-> <<0, GuidSize>>, reader |-> <<GuidSize, GuidSize>>,
                      gap_start |-> <<second, U64>>, gap_end |-> <<second + U64, U64>>]]

DecodeFields(type, body) ==
  [f \in DOMAIN Gets[type] |-> Get(body, Gets[type][f][1], Gets[type][f][2])]

-----------------------------------------------------------------------------
(* The trailer of DATA and DATA_FRAG *)

kTlvOriginGuid == 1
kTlvOriginSeq == 2

NoTrailer == [has_origin |-> FALSE, origin_guid |-> 0, origin_seq |-> 0]

Tlv(type, value) == [type |-> type, value |-> value]
TlvBytes(e) == <<e.type, Len(e.value)>> \o e.value

EncodeEntries(entries) ==
  FlattenSeq([i \in DOMAIN entries |-> TlvBytes(entries[i])])

\* encode_trailer()
TrailerEntries(t) ==
  IF t.has_origin
  THEN <<Tlv(kTlvOriginGuid, Put(GuidSize, t.origin_guid)),
         Tlv(kTlvOriginSeq, Put(U64, t.origin_seq))>>
  ELSE <<>>

EncodeTrailer(t) == EncodeEntries(TrailerEntries(t))

\* A known entry of the right length is taken, any other is skipped.
TakeEntry(t, e) ==
  CASE e.type = kTlvOriginGuid /\ Len(e.value) = GuidSize ->
         [t EXCEPT !.has_origin = TRUE, !.origin_guid = Get(e.value, 0, GuidSize)]
    [] e.type = kTlvOriginSeq /\ Len(e.value) = U64 ->
         [t EXCEPT !.origin_seq = Get(e.value, 0, U64)]
    [] OTHER -> t

\* No entry is left, or it is cut off.
NoEntryAt(tail, pos) == pos + 2 > Len(tail) \/ pos + 2 + tail[pos + 2] > Len(tail)

\* Behind the entry at s.pos.
SkipEntry(tail, s) ==
  LET end == s.pos + 2 + tail[s.pos + 2]
  IN  [pos |-> end,
       out |-> TakeEntry(s.out, Tlv(tail[s.pos + 1], SubSeq(tail, s.pos + 3, end)))]

\* Mutation: an unknown entry ends the trailer.
ParseKnownEntry(tail, s) ==
  IF NoEntryAt(tail, s.pos) \/ tail[s.pos + 1] \notin {kTlvOriginGuid, kTlvOriginSeq}
  THEN s ELSE SkipEntry(tail, s)

\* One round of the loop of parse_trailer(), or none after its end.
ParseEntry(tail, s) == IF NoEntryAt(tail, s.pos) THEN s ELSE SkipEntry(tail, s)

\* parse_trailer(): the entries before the first that is cut off.
ParseTrailer(tail) ==
  LET after[i \in 0 .. Len(tail)] ==
        IF i = 0 THEN [pos |-> 0, out |-> NoTrailer] ELSE ParseEntry(tail, after[i - 1])
  IN  after[Len(tail)].out

-----------------------------------------------------------------------------
(* DATA, DATA_FRAG and the control frames *)

DataTypes == {"DATA", "DATA_FRAG"}

\* encode_data(), encode_data_frag(); tail is the encoded trailer.
EncodeData(m, tail) ==
  Header(m.type, m.flags, FixedSize[m.type] + m.fields.payload_len + Len(tail))
    \o EncodeFields(m) \o m.payload \o tail

\* decode_data(), decode_data_frag(): out, or nothing.
DecodeData(type, buf) ==
  LET body  == Body(buf)
      f     == DecodeFields(type, body)
      end   == FixedSize[type] + f.payload_len
  IN  IF \/ Len(body) < FixedSize[type]
         \/ Len(body) < end
         \/ type = "DATA_FRAG" /\ f.frag_offset + f.payload_len > f.total_size
      THEN Nothing
      ELSE [type |-> type, flags |-> HeaderFlags(buf), fields |-> f,
            payload |-> SubSeq(body, FixedSize[type] + 1, end),
            trailer |-> ParseTrailer(SubSeq(body, end + 1, Len(body)))]

\* encode_acknack(), encode_heartbeat(), encode_gap()
EncodeControl(m) == Header(m.type, 0, FixedSize[m.type]) \o EncodeFields(m)

\* decode_acknack(), decode_heartbeat(), decode_gap()
DecodeControl(type, buf) ==
  IF BodyLen(buf) < FixedSize[type]
  THEN Nothing
  ELSE [type |-> type, fields |-> DecodeFields(type, Body(buf))]

-----------------------------------------------------------------------------
(* ANNOUNCE: rows of numbers and strings *)

Str == 0

NodeRow == <<Str, Str>>
\* encode_qos(): four enumerations, depth and three durations.
QosRow == <<1, 1, 1, 1, U32, U64, U64, U64>>
EndpointRow == <<GuidSize, 1, Str, Str>> \o QosRow \o <<U64>>

\* put_string(): the length is cut to 16 bits, the characters are not.
PutItem(item, v) == IF item = Str THEN Put(U16, Len(v)) \o v ELSE Put(item, v)

PutRow(items, row) == FlattenSeq([i \in DOMAIN items |-> PutItem(items[i], row[i])])

PutList(items, rows) ==
  Put(U16, Len(rows)) \o FlattenSeq([i \in DOMAIN rows |-> PutRow(items, rows[i])])

\* encode_announce()
EncodeAnnounce(m) ==
  LET body == Put(GuidSize, m.guid) \o Put(U64, m.announce_seq)
                \o PutList(NodeRow, m.nodes) \o PutList(EndpointRow, m.endpoints)
  IN  Header("ANNOUNCE", 0, Len(body)) \o body

\* Reader2: every read fails once one has failed.
GetItem(body, r, item) ==
  LET start == IF item = Str THEN r.pos + U16 ELSE r.pos
      width == CASE item # Str -> item
                 [] item = Str /\ start <= Len(body) -> Get(body, r.pos, U16)
                 [] OTHER -> 0
      end   == start + width
  IN  IF ~r.ok \/ end > Len(body)
      THEN [r EXCEPT !.ok = FALSE]
      ELSE [r EXCEPT !.pos = end,
                     !.got = Append(@, IF item = Str THEN SubSeq(body, start + 1, end)
                                                     ELSE Get(body, start, width))]

GetRow(body, r, items) ==
  LET after[i \in 0 .. Len(items)] ==
        IF i = 0 THEN [r EXCEPT !.got = <<>>] ELSE GetItem(body, after[i - 1], items[i])
  IN  after[Len(items)]

\* One more row behind those that were read; once a read fails, none of the
\* list is used.
GetNextRow(body, r, items) ==
  LET row == GetRow(body, r, items)
  IN  [row EXCEPT !.got = Append(r.got, row.got)]

\* A count and as many rows.
GetList(body, r, items) ==
  LET head == GetRow(body, r, <<U16>>)
      after[i \in 0 .. head.got[1]] ==
        IF i = 0 THEN [head EXCEPT !.got = <<>>] ELSE GetNextRow(body, after[i - 1], items)
  IN  IF head.ok THEN after[head.got[1]] ELSE [head EXCEPT !.got = <<>>]

\* decode_announce()
DecodeAnnounce(buf) ==
  LET body  == Body(buf)
      fixed == GetRow(body, [ok |-> TRUE, pos |-> 0, got |-> <<>>], <<GuidSize, U64>>)
      nodes == GetList(body, fixed, NodeRow)
      ends  == GetList(body, nodes, EndpointRow)
  IN  IF ends.ok
      THEN [type |-> "ANNOUNCE", guid |-> fixed.got[1], announce_seq |-> fixed.got[2],
            nodes |-> nodes.got, endpoints |-> ends.got]
      ELSE Nothing

-----------------------------------------------------------------------------
(* What is sent: every number has the width of its C++ type *)

Bytes == Seq(Byte)

Trailers ==
  {NoTrailer} \cup [has_origin : {TRUE}, origin_guid : Word(GuidSize), origin_seq : Word(U64)]

IsFields(type, fields) ==
  /\ fields = [x \in {Puts[type][i][1] : i \in DOMAIN Puts[type]} |-> fields[x]]
  /\ \A i \in DOMAIN Puts[type] : fields[Puts[type][i][1]] \in Word(Puts[type][i][2])

\* The fragmenter cuts inside its sample.
IsSample(m) ==
  /\ m = [type |-> m.type, flags |-> m.flags, fields |-> m.fields, payload |-> m.payload,
          trailer |-> m.trailer]
  /\ m.flags \in Word(U16) /\ m.trailer \in Trailers
  /\ m.payload \in Bytes /\ m.fields.payload_len = Len(m.payload)
  /\ m.type = "DATA_FRAG" =>
       m.fields.frag_offset + m.fields.payload_len <= m.fields.total_size

IsRow(items, row) ==
  /\ row = [i \in 1 .. Len(items) |-> row[i]]
  /\ \A i \in DOMAIN items : row[i] \in (IF items[i] = Str THEN Bytes ELSE Word(items[i]))

IsList(items, rows) ==
  rows \in Seq(Range(rows)) /\ \A i \in DOMAIN rows : IsRow(items, rows[i])

IsSnapshot(m) ==
  /\ m = [type |-> "ANNOUNCE", guid |-> m.guid, announce_seq |-> m.announce_seq,
          nodes |-> m.nodes, endpoints |-> m.endpoints]
  /\ m.guid \in Word(GuidSize) /\ m.announce_seq \in Word(U64)
  /\ IsList(NodeRow, m.nodes) /\ IsList(EndpointRow, m.endpoints)

IsMessage(m) ==
  \/ m.type = "ANNOUNCE" /\ IsSnapshot(m)
  \/ /\ m.type \in DOMAIN Puts /\ IsFields(m.type, m.fields)
     /\ IF m.type \in DataTypes THEN IsSample(m)
        ELSE m = [type |-> m.type, fields |-> m.fields]

ASSUME MessagesAssumption == \A m \in Messages : IsMessage(m)

\* Entries have a type and a length of one byte; what is no entry is too short
\* for the length it states.
ASSUME LaterAssumption ==
  /\ \A es \in LaterEntries :
       es \in Seq([type : Byte, value : Bytes]) /\ \A i \in DOMAIN es : Len(es[i].value) \in Byte
  /\ \A rest \in LaterRests : rest \in Bytes /\ NoEntryAt(rest, 0)

-----------------------------------------------------------------------------
(* Sending and receiving *)

Encode(m) ==
  CASE m.type \in DataTypes -> EncodeData(m, EncodeTrailer(m.trailer))
    [] m.type = "ANNOUNCE" -> EncodeAnnounce(m)
    [] OTHER -> EncodeControl(m)

\* Mutation: send() does not look at the length.
FitsAnything(frame) == TRUE

\* send() of the UDP transport refuses what is longer than max_payload().
Fits(frame) == Len(frame) <= MaxPayload

SendFrame(m) ==
  /\ at = "idle"
  /\ message' = m
  /\ IF Fits(Encode(m))
     THEN at' = "sent" /\ wire' = Encode(m)
     ELSE at' = "refused" /\ UNCHANGED wire
  /\ UNCHANGED <<later, intact, handled>>

\* "Lets the protocol evolve": a sender of a later version adds entries to the
\* trailer, and perhaps something that is no entry at all.
SendFromLaterVersion(m, entries, rest) ==
  LET tail  == EncodeTrailer(m.trailer) \o EncodeEntries(entries) \o rest
      frame == EncodeData(m, tail)
  IN  /\ at = "idle" /\ m.type \in DataTypes
      /\ Fits(frame)
      /\ at' = "sent" /\ message' = m /\ wire' = frame /\ later' = entries
      /\ UNCHANGED <<intact, handled>>

\* recvfrom() with the smaller buffer of another configuration cuts a datagram.
CutDatagram(n) ==
  /\ at = "sent" /\ intact
  /\ intact' = FALSE
  /\ wire' = SubSeq(wire, 1, n)
  /\ UNCHANGED <<at, message, later, handled>>

\* handle_bytes(): the decoder of the frame's type; other types are ignored.
Decode(buf) ==
  IF ~DecodeHeader(buf)
  THEN Nothing
  ELSE LET types == {t \in DOMAIN FrameType : FrameType[t] = HeaderType(buf)}
           type  == CHOOSE t \in types : TRUE
       IN  IF types = {}
           THEN Nothing
           ELSE CASE type \in DataTypes -> DecodeData(type, buf)
                  [] type = "ANNOUNCE" -> DecodeAnnounce(buf)
                  [] OTHER -> DecodeControl(type, buf)

HandleBytes ==
  /\ at = "sent"
  /\ at' = "handled" /\ handled' = Decode(wire)
  /\ UNCHANGED <<message, later, wire, intact>>

\* The next frame has nothing to do with this one.
NextFrame ==
  /\ at \in {"handled", "refused"}
  /\ at' = "idle" /\ message' = Nothing /\ later' = <<>>
  /\ wire' = <<>> /\ intact' = TRUE /\ handled' = Nothing

Next ==
  \/ \E m \in Messages : SendFrame(m)
  \/ \E m \in Messages, es \in LaterEntries, r \in LaterRests :
       SendFromLaterVersion(m, es, r)
  \/ \E n \in 0 .. (Len(wire) - 1) : CutDatagram(n)
  \/ HandleBytes \/ NextFrame

Spec == Init /\ [][Next]_vars

-----------------------------------------------------------------------------
(* Properties *)

\* A trailer after entries that follow it.
Taken(t, entries) ==
  LET after[i \in 0 .. Len(entries)] ==
        IF i = 0 THEN t ELSE TakeEntry(after[i - 1], entries[i])
  IN  after[Len(entries)]

\* What a receiver should see of a message and of the entries after it.
Seen(m) ==
  IF m.type \in DataTypes THEN [m EXCEPT !.trailer = Taken(@, later)] ELSE m

\* What handle_bytes() passes on is what was sent, field by field, whether the
\* datagram was cut or the message is too large for its fields: the frames that
\* would wrap are the ones that send() of the UDP transport refuses.  The send()
\* of the DSoftBus transport checks no length; its channels are not meant here.
NothingGarbled == at = "handled" => handled \in {Nothing, Seen(message)}

\* frame.hpp: "decoders skip unknown TLV entry types, which lets the protocol
\* evolve"; a malformed trailer does not cost the payload.  A frame that
\* arrives whole is decoded, and every known entry of it is taken.
WholeFrameAccepted == (at = "handled" /\ intact) => handled = Seen(message)
=============================================================================
