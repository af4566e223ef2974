------------------------------ MODULE FrameCodec ------------------------------
(***************************************************************************)
(* The bytes of an XGL frame: a 24-byte header with its own CRC, extension *)
(* TLVs, the payload, an authentication tag if there is one, and a CRC of  *)
(* all of it.  A byte is a number below 256 and offsets count from 0, as   *)
(* in the code.  An encoder that fails returns no frame: its conditions    *)
(* are predicates of their own.                                            *)
(***************************************************************************)
EXTENDS Integers, SequencesExt, Bitwise

Byte == 0..255

MAGIC_0 == 165
MAGIC_1 == 90
VERSION == 2
BASE_HEADER_SIZE == 24
EXT_HEADER_SIZE == 2
CRC16_SIZE == 2
SECURITY_EXT_SIZE == EXT_HEADER_SIZE + 13
UINT8_MAX == 255

\* xgl_packet_type_t
TYPE_DATA == 1
TYPE_ACK == 2
TYPE_CONTROL == 3
TYPE_CLOSE == 7

\* xgl_wire_ext_type_t
EXT_SESSION == 1
EXT_ACK_RANGE == 2
EXT_SACK == 3
EXT_FRAGMENT == 4
EXT_SECURITY == 5
EXT_DATA_TYPE == 8

FLAG_ACK_ELICITING == 1
FLAG_HAS_EXTENSIONS == 2
FLAG_FRAGMENTED == 4
FLAG_AUTHENTICATED == 16
FLAG_CONTROL == 32

\* The traffic class byte: reliability, fragmented, priority.
RELIABILITY_NONE == 0
RELIABILITY_ACK_ELICITING == 64
RELIABILITY_ACK_ONLY == 128
TRAFFIC_FRAGMENTED == 32
Reliability(traffic_class) == (traffic_class \div 64) * 64
Priority(traffic_class) == traffic_class % 8

Has(flags, flag) == (flags \div flag) % 2 = 1

-----------------------------------------------------------------------------
(***************************************************************************)
(* Numbers, little-endian                                                  *)
(***************************************************************************)
U16(n) == <<n % 256, (n \div 256) % 256>>
U32(n) == U16(n % 65536) \o U16(n \div 65536)
U64(n) == U32(n) \o U32(0)   \* every number of the model fits 32 bits

\* len bytes of a buffer from an offset on.
At(buffer, offset, len) == SubSeq(buffer, offset + 1, offset + len)

Number16(buffer, offset) == buffer[offset + 1] + 256 * buffer[offset + 2]
Number32(buffer, offset) ==
    Number16(buffer, offset) + 65536 * Number16(buffer, offset + 2)

-----------------------------------------------------------------------------
(***************************************************************************)
(* CRC-16/MODBUS.  The code holds the table as literals; entry i is what   *)
(* eight shifts of i through the reflected polynomial 0xA001 leave.        *)
(***************************************************************************)
CrcBit(crc) == IF crc % 2 = 1 THEN (crc \div 2) ^^ 40961 ELSE crc \div 2

crc16_modbus_table ==
    [i \in Byte |->
        CrcBit(CrcBit(CrcBit(CrcBit(CrcBit(CrcBit(CrcBit(CrcBit(i))))))))]

\* a ^^ b for bytes, tabulated.
NibbleXor == [a \in 0..15 |-> [b \in 0..15 |-> a ^^ b]]
ByteXor ==
    [a \in Byte |-> [b \in Byte |->
        16 * NibbleXor[a \div 16][b \div 16] + NibbleXor[a % 16][b % 16]]]

\* crc = (crc >> 8) ^ table[(crc ^ byte) & 0xff], byte after byte.
xgl_crc16_modbus(data) ==
    LET crc[i \in 0..Len(data)] ==
            IF i = 0 THEN 65535
            ELSE LET before == crc[i - 1]
                     entry == crc16_modbus_table[ByteXor[before % 256][data[i]]]
                 IN  ByteXor[before \div 256][entry % 256]
                         + 256 * (entry \div 256)
    IN  crc[Len(data)]

-----------------------------------------------------------------------------
(***************************************************************************)
(* The base header                                                         *)
(***************************************************************************)
wire_header_crc16(buffer) == xgl_crc16_modbus(At(buffer, 0, 22) \o <<0, 0>>)

HeaderValid(header) ==
    /\ header.version = VERSION
    /\ header.header_len >= BASE_HEADER_SIZE
    /\ header.packet_type \in TYPE_DATA..TYPE_CLOSE
    /\ header.source_id # 0
    /\ header.target_id # 0

xgl_wire_encode_header(header) ==
    LET body == <<MAGIC_0, MAGIC_1, header.version, header.header_len,
                  header.packet_type, header.flags, header.ttl,
                  header.traffic_class>>
                \o U16(header.source_id) \o U16(header.target_id)
                \o U32(header.connection_id) \o U32(header.packet_number)
                \o U16(header.payload_len)
    IN  body \o U16(wire_header_crc16(body))

WireHeader(buffer) ==
    [version |-> buffer[3], header_len |-> buffer[4], packet_type |-> buffer[5],
     flags |-> buffer[6], ttl |-> buffer[7], traffic_class |-> buffer[8],
     source_id |-> Number16(buffer, 8), target_id |-> Number16(buffer, 10),
     connection_id |-> Number32(buffer, 12),
     packet_number |-> Number32(buffer, 16),
     payload_len |-> Number16(buffer, 20)]

\* xgl_wire_decode_header returns XGL_OK.
HeaderDecodes(buffer) ==
    /\ Len(buffer) >= BASE_HEADER_SIZE
    /\ At(buffer, 0, 2) = <<MAGIC_0, MAGIC_1>>
    /\ wire_header_crc16(buffer) = Number16(buffer, 22)
    /\ HeaderValid(WireHeader(buffer))

-----------------------------------------------------------------------------
(***************************************************************************)
(* Extensions: type, length, value                                         *)
(***************************************************************************)
xgl_wire_encode_ext(type, value) == <<type, Len(value)>> \o value

\* The extensions a cursor finds from offset on, and whether it reaches the end.
RECURSIVE Extensions(_, _)
Extensions(buffer, offset) ==
    LET left    == Len(buffer) - offset
        ext_len == EXT_HEADER_SIZE + buffer[offset + 2]
        rest    == Extensions(buffer, offset + ext_len)
    IN  IF left = 0 THEN [ok |-> TRUE, exts |-> <<>>]
        ELSE IF \/ left < EXT_HEADER_SIZE
                \/ buffer[offset + 1] = 0
                \/ ext_len > left
        THEN [ok |-> FALSE, exts |-> <<>>]
        ELSE [ok |-> rest.ok,
              exts |-> <<[type |-> buffer[offset + 1],
                          value |-> At(buffer, offset + EXT_HEADER_SIZE,
                                       ext_len - EXT_HEADER_SIZE)]>> \o rest.exts]

OfType(exts, type) == SelectSeq(exts, LAMBDA ext : ext.type = type)

FragmentValue(fragment) ==
    U32(fragment.message_id) \o U32(fragment.fragment_offset)
                             \o U32(fragment.message_len)

FragmentOf(value) ==
    [message_id |-> Number32(value, 0), fragment_offset |-> Number32(value, 4),
     message_len |-> Number32(value, 8)]

SecurityValue(key_id, nonce_id, tag_len) ==
    U32(key_id) \o U64(nonce_id) \o <<tag_len>>

\* xgl_wire_decode_security_ext_value, whose nonce nobody reads.
SecurityDecodes(value) == Len(value) = 13 /\ value[13] # 0
SecurityOf(value) == [key_id |-> Number32(value, 0), tag_len |-> value[13]]

SessionDecodes(value) == Len(value) = 12

RECURSIVE RangeBytes(_)
RangeBytes(ranges) ==
    IF ranges = <<>> THEN <<>>
    ELSE U16(ranges[1].gap) \o U16(ranges[1].length) \o RangeBytes(Tail(ranges))

AckRangeValue(ack) ==
    U32(ack.largest_ack) \o U32(ack.ack_delay_us) \o <<Len(ack.ranges)>>
                         \o RangeBytes(ack.ranges)

AckRangeDecodes(value) == Len(value) >= 9 /\ Len(value) = 9 + 4 * value[9]
AckRangeOf(value) ==
    [largest_ack |-> Number32(value, 0), ack_delay_us |-> Number32(value, 4),
     ranges |-> [i \in 1..value[9] |->
                    [gap |-> Number16(value, 9 + 4 * (i - 1)),
                     length |-> Number16(value, 11 + 4 * (i - 1))]]]

SackValue(sack) == U32(sack.base_packet) \o <<Len(sack.bitmap)>> \o sack.bitmap

SackDecodes(value) == Len(value) >= 5 /\ Len(value) = 5 + value[5]
SackOf(value) ==
    [base_packet |-> Number32(value, 0), bitmap |-> At(value, 5, value[5])]

-----------------------------------------------------------------------------
(***************************************************************************)
(* Authentication.  The provider's sign and verify are callbacks of the    *)
(* application: a tag stands for what was signed and under which key.      *)
(***************************************************************************)
TagLen == 2
Tag(key_id, aad, payload) == U16(xgl_crc16_modbus(<<key_id>> \o aad \o payload))

\* Mutant of wire_auth_canonical_aad: the hop limit is signed.
CanonicalWithTtl(aad) ==
    [i \in DOMAIN aad |-> IF i \in {23, 24} THEN 0 ELSE aad[i]]

\* What is signed of the header: not the hop limit, which every hop changes,
\* and not the CRC of the header, which changes with it.
wire_auth_canonical_aad(aad) ==
    [i \in DOMAIN aad |-> IF i \in {7, 23, 24} THEN 0 ELSE aad[i]]

xgl_wire_append_auth_trailer(frame, aad_len, key_id) ==
    frame \o Tag(key_id, wire_auth_canonical_aad(At(frame, 0, aad_len)),
                 At(frame, aad_len, Len(frame) - aad_len))

\* The tag is the rest of the frame and is valid.
xgl_wire_verify_auth_trailer(frame, aad_len, payload_len, key_id) ==
    LET tag_offset == aad_len + payload_len
    IN  /\ Len(frame) - tag_offset = TagLen
        /\ At(frame, tag_offset, TagLen) =
              Tag(key_id, wire_auth_canonical_aad(At(frame, 0, aad_len)),
                  At(frame, aad_len, payload_len))

-----------------------------------------------------------------------------
(***************************************************************************)
(* Frames                                                                  *)
(***************************************************************************)
WithCrc(bytes) == bytes \o U16(xgl_crc16_modbus(bytes))

xgl_frame_serialized_size(payload_len, extensions_len, auth_tag_len) ==
    BASE_HEADER_SIZE + extensions_len
        + (IF auth_tag_len > 0 THEN SECURITY_EXT_SIZE + auth_tag_len ELSE 0)
        + payload_len + CRC16_SIZE

\* The header of a packet: its flags, type and traffic class follow from how
\* it is to be delivered, and its connection field from connection and session.
xgl_frame_build(packet, extensions, ttl) ==
    LET fragment == IF packet.fragment THEN TRAFFIC_FRAGMENTED ELSE 0
        type == IF packet.reliable = RELIABILITY_ACK_ONLY THEN TYPE_ACK
                ELSE packet.packet_type
    IN  [version |-> VERSION,
         header_len |-> BASE_HEADER_SIZE,
         packet_type |-> type,
         flags |->
            (IF packet.reliable = RELIABILITY_ACK_ELICITING
                THEN FLAG_ACK_ELICITING ELSE 0)
            + (IF packet.fragment \/ extensions # <<>>
                THEN FLAG_HAS_EXTENSIONS ELSE 0)
            + (IF packet.fragment THEN FLAG_FRAGMENTED ELSE 0)
            + (IF type = TYPE_CONTROL THEN FLAG_CONTROL ELSE 0),
         ttl |-> ttl,
         traffic_class |-> packet.reliable + fragment + Priority(packet.priority),
         source_id |-> packet.source_id,
         target_id |-> packet.target_id,
         connection_id |-> IF packet.connection_id # 0 THEN packet.connection_id
                           ELSE packet.session_id,
         packet_number |-> packet.packet_number,
         payload_len |-> Len(packet.payload)]

\* header_len is one byte; an authenticated frame has one extension more.
ExtensionsFit(extensions, auth_tag_len) ==
    BASE_HEADER_SIZE + Len(extensions)
        + (IF auth_tag_len > 0 THEN SECURITY_EXT_SIZE ELSE 0) <= UINT8_MAX

xgl_frame_serialize(header, extensions, payload) ==
    WithCrc(xgl_wire_encode_header(
                [header EXCEPT !.header_len = BASE_HEADER_SIZE + Len(extensions),
                               !.flags = @ | (IF extensions # <<>>
                                              THEN FLAG_HAS_EXTENSIONS ELSE 0)])
            \o extensions \o payload)

xgl_frame_serialize_authenticated(header, extensions, payload, key_id) ==
    LET all == extensions \o xgl_wire_encode_ext(EXT_SECURITY,
                   SecurityValue(key_id, header.packet_number, TagLen))
        aad == xgl_wire_encode_header(
                   [header EXCEPT
                       !.header_len = BASE_HEADER_SIZE + Len(all),
                       !.flags = @ | (FLAG_HAS_EXTENSIONS + FLAG_AUTHENTICATED)])
               \o all
    IN  WithCrc(xgl_wire_append_auth_trailer(aad \o payload, Len(aad), key_id))

\* The application left room for the header in front of its data: the frame is
\* built around them, unreliable and outside any connection.
xgl_frame_build_zerocopy(packet, extensions, ttl) ==
    WithCrc(xgl_wire_encode_header(
                [version |-> VERSION,
                 header_len |-> BASE_HEADER_SIZE + Len(extensions),
                 packet_type |-> TYPE_DATA,
                 flags |-> IF extensions # <<>> THEN FLAG_HAS_EXTENSIONS ELSE 0,
                 ttl |-> ttl,
                 traffic_class |-> Priority(packet.priority),
                 source_id |-> packet.source_id,
                 target_id |-> packet.target_id,
                 connection_id |-> 0,
                 packet_number |-> 0,
                 payload_len |-> Len(packet.payload)])
            \o extensions \o packet.payload)
=============================================================================
