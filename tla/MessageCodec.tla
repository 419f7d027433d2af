-------------------------------- MODULE MessageCodec --------------------------------
(***************************************************************************)
(* The encodings of mini-message-stream (message_codec.c): variable-length *)
(* numbers, the CRC, message envelopes and batches of them, run-length     *)
(* compression.  The widths are parameters: a byte has VarintBits data     *)
(* bits and a top bit (7 and 1 in the code), a word WordBits (32), a CRC   *)
(* CrcBits (32).  A field of fixed width takes one cell of a message       *)
(* whatever its width, and the minimal lengths the code asks for are       *)
(* counted in cells too; the batch header keeps the fields the reader      *)
(* depends on, the others being copied the way base is.                    *)
(***************************************************************************)
EXTENDS Handle, Integers, Sequences, FiniteSets, SequencesExt, Bitwise

CONSTANTS VarintBits, WordBits, CrcBits, CrcPoly,
          CodecNumbers,  \* the numbers encoded, negative ones included
          CodecRecords,  \* [magic, attrs, time, key, value, headers]
          CodecBatch,    \* bound on the records of a batch
          CodecRooms,    \* sizes of output buffers
          RecordRoom,    \* 4096, the buffer one record is serialized into
          CrcData,       \* byte sequences protected by a CRC
          RleData        \* byte sequences compressed

Msb     == 2^VarintBits
TopByte == 2 * Msb - 1
Word    == 2^WordBits

(***************************************************************************)
(* Numbers.                                                                *)
(***************************************************************************)
RECURSIVE VarintEncode(_)
VarintEncode(v) == IF v < Msb THEN <<v>> ELSE <<(v % Msb) + Msb>> \o VarintEncode(v \div Msb)

\* What is read from place at on: used bytes, 0 for an error.  The bits of the
\* last group above the word are lost.
VarintDecode(in, at) ==
  LET ends == {i \in at .. Len(in) : in[i] < Msb /\ \A j \in at .. i - 1 : in[j] >= Msb
                                     /\ (j - at + 1) * VarintBits < WordBits}
      sums(i) == FoldRight(LAMBDA b, s : s * Msb + (b % Msb), SubSeq(in, at, i), 0)
  IN  IF ends = {} THEN [used |-> 0, value |-> 0]
      ELSE LET i == CHOOSE x \in ends : TRUE IN [used |-> i - at + 1, value |-> sums(i) % Word]

Zigzag(n)   == (IF n < 0 THEN -2 * n - 1 ELSE 2 * n) % Word
Unzigzag(u) == IF u % 2 = 0 THEN u \div 2 ELSE -(u \div 2) - 1

NewNumber(n, signed) == [kind |-> "number", n |-> n, signed |-> signed, bytes |-> <<>>,
                         read |-> 0, back |-> 0, used |-> -1]
EncodeNumber == /\ Holding("number") /\ handle.bytes = <<>>
                /\ handle' = [handle EXCEPT !.bytes =
                     VarintEncode(IF handle.signed THEN Zigzag(handle.n) ELSE handle.n)]
DecodeNumber ==
  /\ Holding("number") /\ handle.bytes # <<>> /\ handle.used = -1
  /\ \E len \in 1 .. Len(handle.bytes) :
       LET v == VarintDecode(SubSeq(handle.bytes, 1, len), 1)
       IN  handle' = [handle EXCEPT !.read = len, !.used = v.used,
                        !.back = IF handle.signed THEN Unzigzag(v.value) ELSE v.value]

(***************************************************************************)
(* The CRC, table driven in the code, byte by byte.  The bits go out at    *)
(* the right, yet the polynomial is written for a shift to the left, so    *)
(* the zeros above its highest bit are lost to the width of the checksum.  *)
(***************************************************************************)
CrcTable == [b \in 0 .. TopByte |->
               FoldLeft(LAMBDA r, i : IF r % 2 = 1 THEN (r \div 2) ^^ CrcPoly ELSE r \div 2,
                        b, [i \in 1 .. VarintBits + 1 |-> i])]
AllOnes == 2^CrcBits - 1

\* Slip: the checksum so far is not turned back before it goes on.
CrcAppendRaw(crc, data) ==
  AllOnes ^^ FoldLeft(LAMBDA c, b : CrcTable[(c ^^ b) % (TopByte + 1)] ^^ (c \div (TopByte + 1)),
                      crc, data)

CrcAppend(crc, data) ==
  AllOnes ^^ FoldLeft(LAMBDA c, b : CrcTable[(c ^^ b) % (TopByte + 1)] ^^ (c \div (TopByte + 1)),
                      crc ^^ AllOnes, data)
CrcCompute(data) == CrcAppend(0, data)
CrcVerify(data, expected) == CrcCompute(data) = expected

BitPlaces(data) == 1 .. Len(data) * (VarintBits + 1)
Damaged(data, bits) ==
  [i \in DOMAIN data |->
     FoldLeft(LAMBDA b, j : IF (i - 1) * (VarintBits + 1) + j \in bits THEN b ^^ (2^(j - 1)) ELSE b,
              data[i], [j \in 1 .. VarintBits + 1 |-> j])]

NewFrame(data) == [kind |-> "frame", data |-> data, crc |-> -1, flipped |-> {}, valid |-> TRUE]
ChecksumFrame ==
  /\ Holding("frame") /\ handle.crc = -1
  /\ \E cut \in 0 .. Len(handle.data) :
       handle' = [handle EXCEPT !.crc = CrcAppend(CrcCompute(SubSeq(handle.data, 1, cut)),
                                                  SubSeq(handle.data, cut + 1, Len(handle.data)))]
VerifyFrame ==
  /\ Holding("frame") /\ handle.crc # -1 /\ handle.flipped = {}
  /\ \E bits \in (SUBSET BitPlaces(handle.data)) \ {{}} :
       handle' = [handle EXCEPT !.flipped = bits,
                    !.valid = CrcVerify(Damaged(handle.data, bits), handle.crc)]

(***************************************************************************)
(* Envelopes: <<magic, attributes, timestamp>>, then key, value, headers,  *)
(* each after its length.                                                  *)
(***************************************************************************)
Refused == <<>>
PutField(out, field, room) ==
  LET at == out \o VarintEncode(Len(field))
  IN  IF out = Refused \/ Len(at) + Len(field) > room THEN Refused ELSE at \o field
EnvelopeSerialize(e, room) ==
  IF room < 7 THEN Refused
  ELSE FoldLeft(LAMBDA out, f : PutField(out, f, room), <<e.magic, e.attrs, e.time>>,
                <<e.key, e.value, e.headers>>)

\* A field read at a place: bad when its length cannot be read; its bytes are
\* taken, and jumped over, only when they are all there.
Taken(in, start, len) ==
  IF len \in 1 .. Word \div 2 - 1 /\ start + len - 1 <= Len(in)
  THEN SubSeq(in, start, start + len - 1) ELSE <<>>
FieldOf(in, start, v) ==
  [bad |-> v.used = 0, start |-> start, data |-> Taken(in, start, v.value)]
FieldAt(in, at, v) == FieldOf(in, at + v.used, v)

\* The fields read so far, and where the next begins.
NextField(in, fields) ==
  LET last == fields[Len(fields)]
      at   == last.start + Len(last.data)
  IN  Append(fields, FieldAt(in, at, VarintDecode(in, at)))

\* What was consumed ends before the bytes of the headers.
EnvelopeOf(in, at, f) ==
  [bad |-> Len(in) - at + 1 < 3 \/ (\E i \in DOMAIN f : f[i].bad), next |-> f[4].start,
   env |-> [magic |-> in[at], attrs |-> in[at + 1], time |-> in[at + 2],
            key |-> f[2].data, value |-> f[3].data, headers |-> f[4].data]]
EnvelopeDeserialize(in, at) ==
  EnvelopeOf(in, at, FoldLeft(LAMBDA f, i : NextField(in, f),
                              <<[bad |-> FALSE, start |-> at + 3, data |-> <<>>]>>, <<1, 2, 3>>))

(***************************************************************************)
(* Batches.                                                                *)
(***************************************************************************)
NewMessageset(base) == [kind |-> "batch", base |-> base, records |-> <<>>, first |-> 0, max |-> 0,
                        delta |-> 0, room |-> 0, step |-> "filled", bytes |-> <<>>, back |-> <<>>]
MessagesetAddRecord ==
  /\ Holding("batch") /\ handle.step = "filled" /\ Len(handle.records) < CodecBatch
  /\ \E e \in CodecRecords :
       LET one == handle.records = <<>>
       IN  handle' = [handle EXCEPT !.records = Append(@, e), !.delta = Len(handle.records),
                        !.first = IF one \/ e.time < @ THEN e.time ELSE @,
                        !.max   = IF one \/ e.time > @ THEN e.time ELSE @]

PutRecord(out, one, room) ==
  IF Refused \in {out, one} \/ Len(out) + Len(one) > room THEN Refused ELSE out \o one
RecordsInto(header, records, room) ==
  FoldLeft(LAMBDA out, e : PutRecord(out, EnvelopeSerialize(e, RecordRoom), room), header, records)

\* The cells of the header: base, batch length, magic, crc, last offset delta,
\* first and max timestamp, record count.
BatchHeader == 8
Sealed(all) == IF all = Refused THEN Refused
               ELSE [all EXCEPT ![2] = Len(all) - 2, ![4] = CrcCompute(SubSeq(all, 5, Len(all)))]
MessagesetSerialize ==
  /\ Holding("batch") /\ handle.step = "filled"
  /\ \E room \in CodecRooms :
       LET body == <<handle.delta, handle.first, handle.max, Len(handle.records)>>
       IN  handle' = [handle EXCEPT !.room = room, !.step = "sent",
                        !.bytes = IF room < BatchHeader THEN Refused
                                  ELSE Sealed(RecordsInto(<<handle.base, 0, 2, 0>> \o body,
                                                          handle.records, room))]

Received(s, r) == IF r.bad THEN [s EXCEPT !.bad = TRUE]
                  ELSE [s EXCEPT !.next = r.next, !.got = Append(@, r.env)]
RecordsFrom(in, at, count) ==
  FoldLeft(LAMBDA s, i : IF s.bad THEN s ELSE Received(s, EnvelopeDeserialize(in, s.next)),
           [bad |-> FALSE, next |-> at, got |-> <<>>], [i \in 1 .. count |-> i])
MessagesetDeserialize ==
  /\ Holding("batch") /\ handle.step = "sent" /\ Len(handle.bytes) >= BatchHeader
  /\ LET in == handle.bytes
         rs == RecordsFrom(in, BatchHeader + 1, in[8])
     IN  handle' = [handle EXCEPT !.step = IF rs.bad THEN "bad" ELSE "read",
                      !.back = [base |-> in[1], crc |-> in[4], delta |-> in[5], first |-> in[6],
                                max |-> in[7], records |-> rs.got]]

(***************************************************************************)
(* Compression: a run is <<count with the top bit set, byte>>.             *)
(***************************************************************************)
RunAt(in, i) == Cardinality({j \in i .. Len(in) : j < i + TopByte /\ \A k \in i .. j : in[k] = in[i]})

RECURSIVE CompressRle(_, _, _, _)
CompressRle(in, i, out, room) ==
  IF i > Len(in) \/ Len(out) + 2 > room THEN out
  ELSE LET n == RunAt(in, i)
       IN  IF n > 1 \/ i + n > Len(in) \/ Len(out) + 3 > room
           THEN CompressRle(in, i + n, out \o <<n | Msb, in[i]>>, room)
           ELSE CompressRle(in, i + 1, Append(out, in[i]), room)

RECURSIVE DecompressRle(_, _, _, _)
DecompressRle(in, i, out, room) ==
  LET run   == in[i] >= Msb
      count == IF ~run \/ in[i] = Msb THEN 1 ELSE in[i] - Msb
      byte  == IF run THEN in[i + 1] ELSE in[i]
  IN  IF i > Len(in) THEN [bad |-> FALSE, out |-> out]
      ELSE IF (run /\ i = Len(in)) \/ Len(out) + count > room THEN [bad |-> TRUE, out |-> <<>>]
      ELSE DecompressRle(in, IF run THEN i + 2 ELSE i + 1, out \o [c \in 1 .. count |-> byte], room)

NewPacked(data, type) == [kind |-> "packed", type |-> type, data |-> data, room |-> 0,
                          packed |-> <<>>, step |-> "new", back |-> <<>>]
CompressData ==
  /\ Holding("packed") /\ handle.step = "new"
  /\ \E room \in CodecRooms :
       LET none == handle.type = "none"
       IN  handle' = [handle EXCEPT !.room = room,
                        !.step = IF none /\ Len(handle.data) > room THEN "bad" ELSE "packed",
                        !.packed = IF ~none THEN CompressRle(handle.data, 1, <<>>, room)
                                   ELSE IF Len(handle.data) > room THEN <<>> ELSE handle.data]
DecompressData ==
  /\ Holding("packed") /\ handle.step = "packed"
  /\ LET got == IF handle.type = "none" THEN [bad |-> FALSE, out |-> handle.packed]
                ELSE DecompressRle(handle.packed, 1, <<>>, Len(handle.data))
     IN  handle' = [handle EXCEPT !.step = IF got.bad THEN "bad" ELSE "read", !.back = got.out]

CodecInit ==
  \/ \E n \in CodecNumbers, signed \in BOOLEAN :
       (n < 0 => signed) /\ n < Word /\ handle = NewNumber(n, signed)
  \/ \E data \in CrcData : handle = NewFrame(data)
  \/ \E base \in {0, 1} : handle = NewMessageset(base)
  \/ \E data \in RleData, type \in {"none", "rle"} : handle = NewPacked(data, type)

CodecNext == EncodeNumber \/ DecodeNumber \/ ChecksumFrame \/ VerifyFrame \/ MessagesetAddRecord
             \/ MessagesetSerialize \/ MessagesetDeserialize \/ CompressData \/ DecompressData

-----------------------------------------------------------------------------
(* A number is read back from the bytes written for it when they are all there
   and is refused when some are missing; a signed one as long as its folded form
   fits the word. *)
NumberHolds ==
  handle.used >= 0 =>
    IF handle.read < Len(handle.bytes) THEN handle.used = 0
    ELSE /\ handle.used = Len(handle.bytes)
         /\ (handle.signed /\ handle.n \in -(Word \div 2) .. Word \div 2 - 1) => handle.back = handle.n
         /\ ~handle.signed => handle.back = handle.n

(* The checksum of a sequence does not depend on where it was cut, and it tells of
   one damaged bit, of two, of any odd number, and of a burst no wider than the
   polynomial is from its lowest bit to its highest (29 of the 32 bits that the
   comment of crc32c_init_table promises). *)
CrcSpan == CHOOSE n \in 1 .. CrcBits : 2^(n - 1) <= CrcPoly /\ CrcPoly < 2^n
Burst(bits) == \A i, j \in bits : i - j < CrcSpan
FrameHolds == /\ handle.crc # -1 => handle.crc = CrcCompute(handle.data)
              /\ (Cardinality(handle.flipped) = 2 \/ Cardinality(handle.flipped) % 2 = 1
                  \/ (handle.flipped # {} /\ Burst(handle.flipped))) => ~handle.valid

(* A batch read is the batch written, headers included, as long as no record but
   the last has headers; its checksum and its times are those of its records; and
   one is refused only when a record does not fit the room it was given. *)
Unheaded(rs) == \A i \in DOMAIN rs : i < Len(rs) => rs[i].headers = <<>>
Sized(f) == Len(f) + Len(VarintEncode(Len(f)))
Sizes(rs) == FoldLeft(LAMBDA n, e : n + 3 + Sized(e.key) + Sized(e.value) + Sized(e.headers), 0, rs)
BatchHolds ==
  /\ handle.step = "read" /\ Unheaded(handle.records) =>
       /\ handle.back.records = handle.records /\ handle.back.base = handle.base
       /\ CrcVerify(SubSeq(handle.bytes, 5, Len(handle.bytes)), handle.back.crc)
       /\ \A i \in DOMAIN handle.records : handle.records[i].time \in handle.back.first .. handle.back.max
  /\ handle.step = "bad" => ~Unheaded(handle.records)
  /\ handle.step = "sent" /\ handle.bytes = Refused =>
       \/ BatchHeader + Sizes(handle.records) > handle.room
       \/ \E i \in DOMAIN handle.records : EnvelopeSerialize(handle.records[i], RecordRoom) = Refused

(* What is compressed comes back whole when there was room for one byte more than
   it has, and as its beginning otherwise, provided its bytes have no top bit and
   its runs are shorter than the value of that bit. *)
Plain(data) == \A i \in DOMAIN data : data[i] < Msb /\ RunAt(data, i) < Msb
PackedHolds ==
  /\ handle.step = "read" /\ (handle.type = "none" \/ Plain(handle.data)) =>
       /\ IsPrefix(handle.back, handle.data)
       /\ (handle.room > Len(handle.data) \/ handle.type = "none") => handle.back = handle.data
  /\ handle.step = "bad" => handle.type = "none" \/ ~Plain(handle.data)

(* What the codecs write they read back. *)
CodecsReadBack == /\ Holding("number") => NumberHolds
                  /\ Holding("frame")  => FrameHolds
                  /\ Holding("batch")  => BatchHolds
                  /\ Holding("packed") => PackedHolds

-----------------------------------------------------------------------------
(***************************************************************************)
(* The messages of mini-message-stream on the wire (wire_protocol.c): the  *)
(* six serializers write fields into a buffer as large as the caller's, a  *)
(* receiver checks the header of a request and reads field after field.    *)
(* A field is [t, v]: a number (v holds it) or a string (v is its bytes).  *)
(* Numbers are small enough for their last two bytes to tell them.         *)
(***************************************************************************)
CONSTANTS WireStrings,   \* client ids, topics, group ids, metadata
          WireNumbers,   \* the number of which a message's numbers are offsets
          WireRooms,     \* sizes of the caller's buffer
          WireMaxes      \* sizes of the buffers strings are read into

WireMaxRequest  == 1048576
WireMaxResponse == 1048576

Width(t) == CASE t = "i16" -> 2 [] t = "i32" -> 4 [] t = "i64" -> 8
BigEndian(n, w) == [i \in 1 .. w |-> IF i < w - 1 THEN IF n < 0 THEN 255 ELSE 0
                                     ELSE IF i = w THEN n % 256 ELSE (n % 65536) \div 256]
NumberAt(in, at, w) ==
  LET u == 256 * in[at + w - 2] + in[at + w - 1] IN IF u >= 32768 THEN u - 65536 ELSE u

FieldBytes(f) == IF f.t = "str" THEN BigEndian(Len(f.v), 2) \o f.v ELSE BigEndian(f.v[1], Width(f.t))

\* A field that does not fit leaves the buffer as it is; no serializer asks.
WriteWire(pb, f, capacity) == IF Len(pb) + Len(FieldBytes(f)) > capacity THEN pb ELSE pb \o FieldBytes(f)

Serialized(fields, room) ==
  LET all == FoldLeft(LAMBDA pb, f : WriteWire(pb, f, room), BigEndian(0, 4), fields)
  IN  BigEndian(Len(all) - 4, 4) \o SubSeq(all, 5, Len(all))

\* A field read: ok, the value, where reading goes on and whether a string was
\* cut: the rest of it is then read as the next field.
ReadNumber(in, at, t) ==
  IF at + Width(t) - 1 > Len(in) THEN [ok |-> FALSE, v |-> <<>>, next |-> at, cut |-> FALSE]
  ELSE [ok |-> TRUE, v |-> <<NumberAt(in, at, Width(t))>>, next |-> at + Width(t), cut |-> FALSE]
ReadString(in, at, max) ==
  LET long == NumberAt(in, at, 2)
      len  == IF long >= max THEN max - 1 ELSE long
  IN  IF at + 1 > Len(in) \/ at + 2 + len - 1 > Len(in)
      THEN [ok |-> FALSE, v |-> <<>>, next |-> at, cut |-> FALSE]
      ELSE [ok |-> TRUE, v |-> SubSeq(in, at + 2, at + 1 + len), next |-> at + 2 + len, cut |-> len < long]

ValidateRequestHeader(in) ==
  /\ Len(in) >= 12
  /\ LET size == NumberAt(in, 1, 4) IN size \in 0 .. WireMaxRequest /\ Len(in) >= size + 4
  /\ NumberAt(in, 5, 2) \in 0 .. 50
  /\ NumberAt(in, 9, 4) >= 0
  /\ Len(in) > 14 => in[13] + 14 <= Len(in)

(***************************************************************************)
(* Versions and estimates.  Keys: 0 produce, 1 fetch, 3 metadata, 8 offset *)
(* commit, 9 offset fetch, 10 find coordinator, 11 join, 12 heartbeat, 13  *)
(* leave, 14 sync, 18 versions, 19 create topics, 20 delete topics.        *)
(***************************************************************************)
VersionSupported(k, v) == \/ k \in {0, 1} /\ v \in 0 .. 7
                          \/ k \in {3, 8} /\ v \in 0 .. 5
                          \/ k = 11 /\ v \in 0 .. 4
                          \/ k \in {9, 12, 14, 19} /\ v \in 0 .. 3
                          \/ k \in {10, 13, 18, 20} /\ v \in 0 .. 2
MaxSupportedVersion(k) == CASE k \in {0, 1} -> 7
                            [] k \in {3, 8} -> 5
                            [] k = 11 -> 4
                            [] k \in {9, 12, 14, 19} -> 3
                            [] k \in {10, 13, 18, 20} -> 2
                            [] OTHER -> -1
EstimateResponseSize(k, records) ==
  LET base == CASE k = 0 -> 60 [] k = 1 -> 60 + records * (30 + 256) [] k = 3 -> 80
                [] k \in {8, 10} -> 40 [] k = 9 -> 50 [] k \in {11, 14} -> 200 [] k = 12 -> 20
                [] OTHER -> 100
  IN  IF base > WireMaxResponse THEN WireMaxResponse ELSE base

(***************************************************************************)
(* The messages.                                                           *)
(***************************************************************************)
NewWire(n, client, topic) ==
  [kind |-> "wire", n |-> n, client |-> client, topic |-> topic, sent |-> <<>>, key |-> -1,
   request |-> FALSE, room |-> 0, bytes |-> <<>>, at |-> 5, got |-> <<>>, stopped |-> FALSE]

I16(i) == [t |-> "i16", v |-> <<handle.n + i>>]
I32(i) == [t |-> "i32", v |-> <<handle.n + i>>]
I64(i) == [t |-> "i64", v |-> <<handle.n + i>>]
Str(s) == [t |-> "str", v |-> s]
RequestHeader(k) == <<[t |-> "i16", v |-> <<k>>], [t |-> "i16", v |-> <<MaxSupportedVersion(k)>>],
                      I32(0), Str(handle.client)>>

Send(k, request, fields, least, rooms) ==
  /\ Holding("wire") /\ handle.sent = <<>>
  /\ \E room \in rooms :
       handle' = [handle EXCEPT !.sent = fields, !.key = k, !.request = request, !.room = room,
                    !.bytes = IF room < least THEN <<>> ELSE Serialized(fields, room)]
RoomsFor(k) == WireRooms \cup {EstimateResponseSize(k, 0)}

ProduceRequest  == Send(0, TRUE, RequestHeader(0) \o <<I16(1), I32(2), Str(handle.topic), I32(3), I32(4)>>,
                        50, WireRooms)
ProduceResponse == Send(0, FALSE, <<I32(0), Str(handle.topic), I32(1), I16(2), I64(3), I64(4)>>,
                        30, RoomsFor(0))
FetchRequest    == Send(1, TRUE, RequestHeader(1) \o <<I32(1), I32(2), I32(3), Str(handle.topic), I32(4),
                                                       I64(5), I32(6)>>, 60, WireRooms)
FetchResponse   == Send(1, FALSE, <<I32(0), Str(handle.topic), I32(1), I16(2), I64(3), I32(4)>>,
                        30, RoomsFor(1))
OffsetCommitRequest ==
  Send(8, TRUE, RequestHeader(8) \o <<Str(handle.client), Str(handle.topic), I32(1), I64(2), I64(3),
                                      Str(handle.topic)>>, 80, WireRooms)
OffsetFetchResponse == Send(9, FALSE, <<I32(0), Str(handle.topic), I32(1), I64(2), I16(3)>>, 40, RoomsFor(9))

\* The receiver reads fields in the order they were meant to be written.
ReadField ==
  /\ Holding("wire") /\ handle.bytes # <<>> /\ ~handle.stopped /\ Len(handle.got) < Len(handle.sent)
  /\ \E max \in WireMaxes :
       LET t == handle.sent[Len(handle.got) + 1].t
           r == IF t = "str" THEN ReadString(handle.bytes, handle.at, max)
                ELSE ReadNumber(handle.bytes, handle.at, t)
       IN  handle' = [handle EXCEPT !.at = r.next, !.stopped = ~r.ok \/ r.cut,
                        !.got = IF r.ok THEN Append(@, [t |-> t, v |-> r.v]) ELSE @]

WireInit == \E n \in WireNumbers, client, topic \in WireStrings : handle = NewWire(n, client, topic)
WireNext == ProduceRequest \/ ProduceResponse \/ FetchRequest \/ FetchResponse \/ OffsetCommitRequest
            \/ OffsetFetchResponse \/ ReadField

-----------------------------------------------------------------------------
(* A message with room for all its fields is read back field by field, to its last
   byte; what the receiver cuts is the beginning of what was sent.  No message is
   larger than its buffer.  The size in front is that of the rest, so a request is
   accepted whatever did not fit it, as long as its correlation id is a legal one.
   An estimated buffer holds a response about a topic of up to 26 bytes.  The two
   version tables agree. *)
Needed == FoldLeft(LAMBDA n, f : n + Len(FieldBytes(f)), 4, handle.sent)
WireReadsBack ==
  Holding("wire") =>
    /\ Len(handle.bytes) <= handle.room
    /\ handle.bytes # <<>> /\ handle.request => (ValidateRequestHeader(handle.bytes) <=> handle.n >= 0)
    /\ handle.bytes # <<>> /\ Needed <= handle.room =>
         /\ \A i \in DOMAIN handle.got :
              IF i = Len(handle.got) /\ handle.stopped
              THEN IsPrefix(handle.got[i].v, handle.sent[i].v) ELSE handle.got[i] = handle.sent[i]
         /\ Len(handle.got) = Len(handle.sent) /\ ~handle.stopped => handle.at = Len(handle.bytes) + 1
         /\ Len(handle.got) < Len(handle.sent) /\ handle.stopped => handle.got[Len(handle.got)].t = "str"
    /\ (handle.sent # <<>> /\ ~handle.request /\ Len(handle.topic) <= 26)
         => Needed <= EstimateResponseSize(handle.key, 0)
    /\ \A k \in 0 .. 50 : {v \in -2 .. 9 : VersionSupported(k, v)} = 0 .. MaxSupportedVersion(k)
=============================================================================
