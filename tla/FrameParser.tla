------------------------------ MODULE FrameParser ------------------------------
(***************************************************************************)
(* The byte-fed parser of the data link layer.  The timestamp of the first *)
(* magic byte is represented by whether XGL_PARSER_TIMEOUT_MS have passed  *)
(* since.  The length of the tag is 0 until the extensions are read.       *)
(***************************************************************************)
EXTENDS FrameCodec

CONSTANT CacheSize   \* rx_buffer_size: bytes the parser can hold

ASSUME CacheAssumption ==
    CacheSize \in Nat /\ CacheSize >= BASE_HEADER_SIZE + CRC16_SIZE

ParseState == {"MAGIC", "HEADER", "PAYLOAD", "CRC"}

\* xgl_parser_reset; xgl_parser_init leaves the parser like this, too.
ResetParser ==
    [state |-> "MAGIC", cache |-> <<>>, index |-> 0, expected_header_len |-> 0,
     expected_payload_len |-> 0, expected_auth_tag_len |-> 0, timed_out |-> FALSE]

\* What a byte does: the parser it leaves and its result.
Incomplete(parser) == [parser |-> parser, result |-> "INCOMPLETE"]
Complete(parser) == [parser |-> parser, result |-> "COMPLETE"]
Error == [parser |-> ResetParser, result |-> "ERROR"]

FeedMagic(parser, byte) ==
    Incomplete(IF byte = MAGIC_0
               THEN [ResetParser EXCEPT !.state = "HEADER", !.cache = <<byte>>]
               ELSE parser)

\* The length of the tag the extensions announce: the last security extension
\* counts.
TagLenOf(exts) ==
    LET security == OfType(exts, EXT_SECURITY)
    IN  IF security = <<>> THEN 0
        ELSE SecurityOf(security[Len(security)].value).tag_len

\* xgl_parser_validate_header_extensions finds no fault.  A header without
\* extensions is not looked at.
ExtensionsValid(header, cache) ==
    LET found == Extensions(At(cache, BASE_HEADER_SIZE,
                               header.header_len - BASE_HEADER_SIZE), 0)
        security == OfType(found.exts, EXT_SECURITY)
    IN  header.header_len > BASE_HEADER_SIZE =>
            /\ found.ok
            /\ \A i \in DOMAIN security : SecurityDecodes(security[i].value)
            /\ Has(header.flags, FLAG_AUTHENTICATED) => security # <<>>

\* The whole header is there.
HeaderComplete(parser, header, cache) ==
    LET tag_len == TagLenOf(Extensions(At(cache, BASE_HEADER_SIZE,
                        header.header_len - BASE_HEADER_SIZE), 0).exts)
        body_len == header.payload_len + tag_len
    IN  IF \/ ~ExtensionsValid(header, cache)
           \/ header.header_len + body_len + CRC16_SIZE > CacheSize
        THEN Error
        ELSE Incomplete([parser EXCEPT
                !.cache = cache,
                !.expected_header_len = header.header_len,
                !.expected_payload_len = header.payload_len,
                !.expected_auth_tag_len = tag_len,
                !.state = IF body_len > 0 THEN "PAYLOAD" ELSE "CRC"])

\* Mutant of MagicMismatch: the byte in the cache is not dropped.
MagicMismatchKeepsCache(parser, byte) == [parser EXCEPT !.state = "MAGIC"]

\* The second byte is not the second magic byte; it may be the first of a frame.
MagicMismatch(parser, byte) ==
    IF byte = MAGIC_0 THEN [parser EXCEPT !.cache = <<byte>>] ELSE ResetParser

FeedHeader(parser, byte) ==
    LET cache == Append(parser.cache, byte)
        header == WireHeader(cache)
    IN  IF Len(cache) = 2 /\ byte # MAGIC_1
        THEN Incomplete(MagicMismatch(parser, byte))
        ELSE IF Len(cache) < BASE_HEADER_SIZE
        THEN Incomplete([parser EXCEPT !.cache = cache])
        ELSE IF ~HeaderDecodes(At(cache, 0, BASE_HEADER_SIZE)) THEN Error
        ELSE IF Len(cache) < header.header_len
        THEN Incomplete([parser EXCEPT !.cache = cache])
        ELSE HeaderComplete(parser, header, cache)

FeedPayload(parser, byte) ==
    LET cache == Append(parser.cache, byte)
        whole == Len(cache) - parser.expected_header_len >=
                    parser.expected_payload_len + parser.expected_auth_tag_len
    IN  Incomplete([parser EXCEPT !.cache = cache,
                                  !.state = IF whole THEN "CRC" ELSE @,
                                  !.index = IF whole THEN 0 ELSE @])

\* Mutant of CrcMatches: only the first byte is compared.
CrcMatchesLow(cache, crc_offset) ==
    xgl_crc16_modbus(At(cache, 0, crc_offset)) % 256 = cache[crc_offset + 1]

CrcMatches(cache, crc_offset) ==
    xgl_crc16_modbus(At(cache, 0, crc_offset)) = Number16(cache, crc_offset)

FeedCrc(parser, byte) ==
    LET cache == Append(parser.cache, byte)
        crc_offset == Len(cache) - CRC16_SIZE
        fed == [parser EXCEPT !.cache = cache, !.index = @ + 1]
    IN  IF fed.index < CRC16_SIZE THEN Incomplete(fed)
        ELSE IF ~CrcMatches(cache, crc_offset) THEN Error
        ELSE Complete(fed)

\* A full cache resets the parser before the byte is looked at.
CacheFull(parser) == Len(parser.cache) >= CacheSize

xgl_parser_feed_byte(parser, byte) ==
    CASE parser.state = "MAGIC" -> FeedMagic(parser, byte)
      [] parser.state = "HEADER" -> FeedHeader(parser, byte)
      [] parser.state = "PAYLOAD" -> FeedPayload(parser, byte)
      [] parser.state = "CRC" -> FeedCrc(parser, byte)

\* Mutant of xgl_parser_check_timeout: the timeout never fires.
CheckTimeoutNever(parser) == FALSE

xgl_parser_check_timeout(parser) == parser.state # "MAGIC" /\ parser.timed_out

\* The loop of xgl_datalink_receive over a chunk: the parser it leaves, and the
\* frames it completes, in order.
FeedChunk(parser, chunk) ==
    LET loop[i \in 0..Len(chunk)] ==
            IF i = 0 THEN [parser |-> parser, frames |-> <<>>]
            ELSE LET before == loop[i - 1]
                     fed == xgl_parser_feed_byte(before.parser, chunk[i])
                 IN  IF CacheFull(before.parser)
                     THEN [before EXCEPT !.parser = ResetParser]
                     ELSE IF fed.result = "COMPLETE"
                     THEN [parser |-> ResetParser,
                           frames |-> Append(before.frames, fed.parser.cache)]
                     ELSE [before EXCEPT !.parser = fed.parser]
    IN  loop[Len(chunk)]
=============================================================================
