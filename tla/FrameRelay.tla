------------------------------ MODULE FrameRelay ------------------------------
(***************************************************************************)
(* Nodes that exchange frames over serial lines: what the network layer    *)
(* sends becomes bytes on a line, the data link of the next node parses    *)
(* chunks of whatever arrives, checks the frames, and its network layer    *)
(* delivers them or forwards them with a smaller hop limit.  One parser    *)
(* serves all lines of a node.  Lines corrupt, lose and add bytes.         *)
(*                                                                         *)
(* The anti-replay table, the subject of Datalink, is here the set of the  *)
(* numbers accepted; counters and callbacks are left out.                  *)
(***************************************************************************)
EXTENDS FrameParser, FiniteSets, SequencesExt

CONSTANTS
    Node,          \* node ids
    Line,          \* pairs <<from, to>>: the lines that exist
    Route,         \* node -> target -> [phy, max_frame_size]; phy names the
                   \* node at the other end
    Traffic,       \* packets the transports may hand down, each once
    AuthSettings,  \* node -> "off" (no provider), "verify" or "required"
    ReadSizes,     \* sizes of the chunks phy->rx may return
    Ttl,           \* XGL_DEFAULT_TTL
    ZeroCopyTtl,   \* XGL_SEND_DEFAULT_TTL and XGL_FRAME_DEFAULT_TTL
    Flips,         \* bit patterns a fault may invert in a byte
    Noise,         \* byte sequences a fault may add
    MaxFaults,     \* bound: faults of the lines
    MaxEvents      \* bound: faults and packets sent, together

ASSUME RelayAssumption ==
    /\ Line \subseteq Node \X Node
    /\ \A n \in Node : \A target \in DOMAIN Route[n] :
          <<n, Route[n][target].phy>> \in Line
    /\ AuthSettings \subseteq [Node -> {"off", "verify", "required"}]
    /\ ReadSizes \subseteq Nat \ {0}
    /\ Flips \subseteq Byte \ {0}
    /\ {Ttl, ZeroCopyTtl} \subseteq Byte
    /\ {MaxFaults, MaxEvents} \subseteq Nat

BROADCAST_ID == 65535
MAX_FRAME_SIZE == 2048
KeyId == 1
NoExtension == [type |-> 0]

VARIABLES
    auth,       \* the configuration of each node, fixed
    line,       \* line -> bytes on the way
    parser,     \* node -> its parser
    accepted,   \* node -> authenticated numbers seen: the anti-replay table
    sent,       \* packets handed down
    delivered,  \* <<node, packet>>: handed to the transport of the node
    on_line,    \* <<node, frame>>: every frame put on a line to the node
    parsed,     \* <<node, frame>>: every frame the node's parser completed
    hops,       \* packet identity -> how often it was put on a line
    dirty,      \* nodes whose parser may hold the debris of a fault
    spoiled,    \* <<node, frame>>: frames a fault may have cost the node
    faults

historyVars == <<on_line, parsed, hops, dirty, spoiled>>
vars == <<auth, line, parser, accepted, sent, delivered, historyVars, faults>>

-----------------------------------------------------------------------------
(***************************************************************************)
(* Down: from packets to bytes                                             *)
(***************************************************************************)
\* The extension the transport attached.
OwnExtension(packet) ==
    CASE packet.extension.type = 0 -> <<>>
      [] packet.extension.type = EXT_FRAGMENT ->
            xgl_wire_encode_ext(EXT_FRAGMENT, FragmentValue(packet.extension))
      [] packet.extension.type = EXT_ACK_RANGE ->
            xgl_wire_encode_ext(EXT_ACK_RANGE, AckRangeValue(packet.extension))
      [] packet.extension.type = EXT_SACK ->
            xgl_wire_encode_ext(EXT_SACK, SackValue(packet.extension))

\* network_copy_packet_extensions adds the data type.
PacketExtensions(packet) ==
    OwnExtension(packet) \o
        (IF packet.data_type = 0 THEN <<>>
         ELSE xgl_wire_encode_ext(EXT_DATA_TYPE, <<packet.data_type>>))

AuthTagLen(n) == IF auth[n] = "required" THEN TagLen ELSE 0

\* xgl_datalink_send, or the two ways of xgl_send_zerocopy.
FrameOf(n, packet) ==
    LET extensions == PacketExtensions(packet)
        header == xgl_frame_build(packet, extensions,
                      IF packet.zerocopy THEN ZeroCopyTtl ELSE Ttl)
    IN  IF auth[n] = "required"
        THEN xgl_frame_serialize_authenticated(header, extensions,
                                               packet.payload, KeyId)
        ELSE IF packet.zerocopy
        THEN xgl_frame_build_zerocopy(packet, extensions, ZeroCopyTtl)
        ELSE xgl_frame_serialize(header, extensions, packet.payload)

Fits(n, packet) ==
    LET extensions == PacketExtensions(packet)
    IN  /\ ExtensionsFit(extensions, AuthTagLen(n))
        /\ xgl_frame_serialized_size(Len(packet.payload), Len(extensions),
                                     AuthTagLen(n))
              <= Route[n][packet.target_id].max_frame_size

\* What tells the packets of Traffic apart in a frame.
Identity(frame) ==
    LET header == WireHeader(frame)
    IN  <<header.source_id, header.packet_type, header.packet_number>>

Hop(frame) == IF Identity(frame) \in DOMAIN hops THEN hops[Identity(frame)] ELSE 0

\* xgl_network_send_with_handle and xgl_send_zerocopy, when nothing is refused:
\* a missing route, a frame over the route's limit or a refusal of the PHY
\* leaves everything as it was.
Send(packet) ==
    LET n == packet.source_id
        frame == FrameOf(n, packet)
        phy == Route[n][packet.target_id].phy
    IN  /\ packet \notin sent
        /\ Cardinality(sent) + faults < MaxEvents
        /\ packet.target_id \in DOMAIN Route[n]
        /\ Fits(n, packet)
        /\ line' = [line EXCEPT ![<<n, phy>>] = @ \o frame]
        /\ on_line' = on_line \cup {<<phy, frame>>}
        /\ hops' = [i \in DOMAIN hops \cup {Identity(frame)} |->
                       IF i = Identity(frame) THEN Hop(frame) + 1 ELSE hops[i]]
        /\ sent' = sent \cup {packet}
        /\ UNCHANGED <<auth, parser, accepted, delivered, parsed, dirty,
                       spoiled, faults>>

-----------------------------------------------------------------------------
(***************************************************************************)
(* Up: the checks of the data link                                         *)
(***************************************************************************)
FrameExtensions(frame) ==
    Extensions(At(frame, BASE_HEADER_SIZE,
                  WireHeader(frame).header_len - BASE_HEADER_SIZE), 0)

\* datalink_decode_rx_extensions finds no fault: with authentication required,
\* every security extension names the node's key.
RxExtensionsValid(n, frame) ==
    LET found == FrameExtensions(frame)
    IN  /\ found.ok
        /\ \A i \in DOMAIN found.exts :
              LET ext == found.exts[i] IN
              /\ ext.type = EXT_SECURITY =>
                    /\ SecurityDecodes(ext.value)
                    /\ auth[n] = "required" =>
                          SecurityOf(ext.value).key_id = KeyId
              /\ ext.type = EXT_SESSION => SessionDecodes(ext.value)

\* xgl_datalink_decode_rx_metadata.
RxMetadataDecodes(n, frame) ==
    LET header == WireHeader(frame)
        crc_offset == Len(frame) - CRC16_SIZE
    IN  /\ Len(frame) \in (BASE_HEADER_SIZE + CRC16_SIZE)..MAX_FRAME_SIZE
        /\ HeaderDecodes(frame)
        /\ RxExtensionsValid(n, frame)
        /\ CrcMatches(frame, crc_offset)
        /\ Len(frame) = header.header_len + header.payload_len
                        + TagLenOf(FrameExtensions(frame).exts) + CRC16_SIZE

Authenticated(frame) == Has(WireHeader(frame).flags, FLAG_AUTHENTICATED)
HasSecurity(frame) == OfType(FrameExtensions(frame).exts, EXT_SECURITY) # <<>>

Verifies(frame) ==
    LET header == WireHeader(frame)
        security == OfType(FrameExtensions(frame).exts, EXT_SECURITY)
    IN  xgl_wire_verify_auth_trailer(At(frame, 0, Len(frame) - CRC16_SIZE),
            header.header_len, header.payload_len,
            SecurityOf(security[Len(security)].value).key_id)

AckEliciting(header) ==
    \/ Reliability(header.traffic_class) = RELIABILITY_ACK_ELICITING
    \/ Has(header.flags, FLAG_ACK_ELICITING)

ReplayNumber(frame) ==
    LET header == WireHeader(frame)
    IN  <<header.source_id, header.connection_id, header.packet_number>>

\* xgl_datalink_process_frame: a node that requires tags, and any node that
\* sees one, verifies it, which takes a provider; a number seen before passes
\* only with a packet that wants an acknowledgement.
AuthAccepts(n, frame, numbers) ==
    auth[n] = "required" \/ Authenticated(frame) \/ HasSecurity(frame) =>
        /\ Authenticated(frame)
        /\ HasSecurity(frame)
        /\ auth[n] # "off"
        /\ Verifies(frame)
        /\ ReplayNumber(frame) \in numbers => AckEliciting(WireHeader(frame))

-----------------------------------------------------------------------------
(***************************************************************************)
(* Up: the network layer                                                   *)
(***************************************************************************)
\* xgl_network_decode_frame_metadata finds one data type of one byte at most
\* and one session at most.
NetworkExtensionsValid(frame) ==
    LET exts == FrameExtensions(frame).exts
    IN  /\ Len(OfType(exts, EXT_DATA_TYPE)) <= 1
        /\ Len(OfType(exts, EXT_SESSION)) <= 1
        /\ \A i \in DOMAIN exts :
              exts[i].type = EXT_DATA_TYPE => Len(exts[i].value) = 1

xgl_network_validate_address(header) ==
    /\ header.source_id \notin {0, BROADCAST_ID}
    /\ header.source_id # header.target_id \/ header.target_id = BROADCAST_ID

IsLocal(n, header) == header.target_id \in {n, BROADCAST_ID}

ReliableOf(header) ==
    IF AckEliciting(header) THEN RELIABILITY_ACK_ELICITING
    ELSE IF \/ Reliability(header.traffic_class) = RELIABILITY_ACK_ONLY
            \/ header.packet_type = TYPE_ACK
    THEN RELIABILITY_ACK_ONLY
    ELSE RELIABILITY_NONE

\* The extension the transport looks for.
ExtensionOf(exts) ==
    LET own == SelectSeq(exts, LAMBDA ext :
                   \/ ext.type = EXT_FRAGMENT /\ Len(ext.value) = 12
                   \/ ext.type = EXT_ACK_RANGE /\ AckRangeDecodes(ext.value)
                   \/ ext.type = EXT_SACK /\ SackDecodes(ext.value))
        value == own[1].value
        With(fields) == [type |-> own[1].type] @@ fields
    IN  IF own = <<>> THEN NoExtension
        ELSE CASE own[1].type = EXT_FRAGMENT -> With(FragmentOf(value))
               [] own[1].type = EXT_ACK_RANGE -> With(AckRangeOf(value))
               [] own[1].type = EXT_SACK -> With(SackOf(value))

\* Mutant of PayloadOf: the extensions are taken for payload.
PayloadAfterBaseHeader(frame, header) ==
    At(frame, BASE_HEADER_SIZE, header.payload_len)

PayloadOf(frame, header) == At(frame, header.header_len, header.payload_len)

\* The packet network_deliver_local hands to the transport.
PacketOf(frame) ==
    LET header == WireHeader(frame)
        exts == FrameExtensions(frame).exts
        data_type == OfType(exts, EXT_DATA_TYPE)
    IN  [source_id |-> header.source_id,
         target_id |-> header.target_id,
         session_id |-> header.connection_id % 65536,
         connection_id |-> header.connection_id,
         packet_number |-> header.packet_number,
         packet_type |-> header.packet_type,
         data_type |-> IF data_type = <<>> THEN 0 ELSE data_type[1].value[1],
         reliable |-> ReliableOf(header),
         fragment |-> Has(header.flags, FLAG_FRAGMENTED),
         priority |-> Priority(header.traffic_class),
         extension |-> ExtensionOf(exts),
         payload |-> PayloadOf(frame, header)]

\* Mutant of Forwardable: the hop limit is not looked at.
ForwardableAnyTtl(n, frame) ==
    LET header == WireHeader(frame)
    IN  /\ header.target_id \in DOMAIN Route[n]
        /\ Len(frame) <= Route[n][header.target_id].max_frame_size

\* network_forward_remote lets the frame pass.
Forwardable(n, frame) ==
    LET header == WireHeader(frame)
    IN  /\ header.target_id \in DOMAIN Route[n]
        /\ header.ttl > 1
        /\ Len(frame) <= MAX_FRAME_SIZE
        /\ Len(frame) <= Route[n][header.target_id].max_frame_size

\* network_rewrite_forward_frame.
Rewritten(frame) ==
    LET header == WireHeader(frame)
    IN  WithCrc(xgl_wire_encode_header([header EXCEPT !.ttl = @ - 1])
                \o At(frame, BASE_HEADER_SIZE,
                      Len(frame) - BASE_HEADER_SIZE - CRC16_SIZE))

\* What a node does with the frames of a chunk, in order: the numbers its
\* anti-replay table holds then, the packets it delivers, and the frames it
\* puts on which line.
RECURSIVE Process(_, _, _)
Process(n, frames, numbers) ==
    LET frame == frames[1]
        header == WireHeader(frame)
        passes == RxMetadataDecodes(n, frame) /\ AuthAccepts(n, frame, numbers)
        routed == /\ passes
                  /\ NetworkExtensionsValid(frame)
                  /\ xgl_network_validate_address(header)
        rest == Process(n, Tail(frames),
                    IF passes /\ Authenticated(frame)
                    THEN numbers \cup {ReplayNumber(frame)} ELSE numbers)
    IN  IF frames = <<>>
        THEN [numbers |-> numbers, packets |-> {}, forwarded |-> <<>>]
        ELSE IF routed /\ IsLocal(n, header)
        THEN [rest EXCEPT !.packets = @ \cup {PacketOf(frame)}]
        ELSE IF routed /\ Forwardable(n, frame)
        THEN [rest EXCEPT !.forwarded =
                <<[phy |-> Route[n][header.target_id].phy,
                   frame |-> Rewritten(frame)]>> \o @]
        ELSE rest

\* What the PHY may take of the frames to forward: it may refuse each.
Taken(forwarded) ==
    {FlattenSeq([i \in DOMAIN forwarded |->
                    IF i \in refused THEN <<>> ELSE <<forwarded[i]>>]) :
        refused \in SUBSET DOMAIN forwarded}

\* xgl_datalink_receive resets a parser that waited too long and reads up to
\* size bytes of one line.
Receive(n, from, size) ==
    LET late == xgl_parser_check_timeout(parser[n])
        pending == line[<<from, n>>]
        read == IF size < Len(pending) THEN size ELSE Len(pending)
        fed == FeedChunk(IF late THEN ResetParser ELSE parser[n],
                         At(pending, 0, read))
        done == Process(n, fed.frames, accepted[n])
        completed == parsed \cup {<<n, fed.frames[i]>> : i \in DOMAIN fed.frames}
    IN  /\ parser[n].timed_out \/ read > 0
        /\ parser' = [parser EXCEPT ![n] = fed.parser]
        /\ accepted' = [accepted EXCEPT ![n] = done.numbers]
        /\ delivered' = delivered \cup ({n} \X done.packets)
        /\ parsed' = completed
        /\ \E out \in Taken(done.forwarded) :
              LET To(phy) == SelectSeq(out, LAMBDA tx : tx.phy = phy)
                  Bytes(txs) == FlattenSeq([i \in DOMAIN txs |-> txs[i].frame])
                  Count(i) == Cardinality({j \in DOMAIN out :
                                              Identity(out[j].frame) = i})
              IN  /\ line' = [l \in Line |->
                        CASE l = <<from, n>> ->
                                At(pending, read, Len(pending) - read)
                          [] l[1] = n -> line[l] \o Bytes(To(l[2]))
                          [] OTHER -> line[l]]
                  /\ on_line' = on_line \cup
                        {<<out[i].phy, out[i].frame>> : i \in DOMAIN out}
                  /\ hops' = [i \in DOMAIN hops |-> hops[i] + Count(i)]
        \* Once the line is silent and the time is over, the parser starts afresh.
        /\ dirty' = IF parser[n].timed_out /\ read = 0 THEN dirty \ {n} ELSE dirty
        /\ spoiled' = IF parser[n].timed_out /\ read = 0
                      THEN spoiled \cup
                              {a \in on_line : a[1] = n /\ a \notin completed}
                      ELSE spoiled
        /\ UNCHANGED <<auth, sent, faults>>

-----------------------------------------------------------------------------
(***************************************************************************)
(* Time and faults                                                         *)
(***************************************************************************)
\* The timeout of a frame that is being parsed elapses: time alone may cut a
\* frame in two.
Elapse(n) ==
    /\ parser[n].state # "MAGIC"
    /\ ~parser[n].timed_out
    /\ parser' = [parser EXCEPT ![n].timed_out = TRUE]
    /\ dirty' = dirty \cup {n}
    /\ UNCHANGED <<auth, line, accepted, sent, delivered, on_line, parsed, hops,
                   spoiled, faults>>

Fault(l, bytes) ==
    /\ faults < MaxFaults
    /\ Cardinality(sent) + faults < MaxEvents
    /\ faults' = faults + 1
    /\ line' = [line EXCEPT ![l] = bytes]
    /\ dirty' = dirty \cup {l[2]}
    /\ UNCHANGED <<auth, parser, accepted, sent, delivered, on_line, parsed, hops,
                   spoiled>>

CorruptByte(l, i, flip) == Fault(l, [line[l] EXCEPT ![i] = @ ^^ flip])
LoseByte(l, i) == Fault(l, RemoveAt(line[l], i))
AddNoise(l, noise) == Fault(l, noise \o line[l])

Init ==
    /\ auth \in AuthSettings
    /\ line = [l \in Line |-> <<>>]
    /\ parser = [n \in Node |-> ResetParser]
    /\ accepted = [n \in Node |-> {}]
    /\ sent = {}
    /\ delivered = {}
    /\ on_line = {}
    /\ parsed = {}
    /\ hops = <<>>
    /\ dirty = {}
    /\ spoiled = {}
    /\ faults = 0

Next ==
    \/ \E packet \in Traffic : Send(packet)
    \/ \E l \in Line, size \in ReadSizes : Receive(l[2], l[1], size)
    \/ \E n \in Node : Elapse(n)
    \/ \E l \in Line :
        \/ \E i \in DOMAIN line[l] :
              LoseByte(l, i) \/ \E flip \in Flips : CorruptByte(l, i, flip)
        \/ \E noise \in Noise : AddNoise(l, noise)

Spec == Init /\ [][Next]_vars

-----------------------------------------------------------------------------
(***************************************************************************)
(* Properties                                                              *)
(***************************************************************************)
\* Whatever bytes arrive, the parser stays within its cache and between the
\* bytes its states stand for.
TypeOK ==
    \A n \in Node :
        LET p == parser[n] IN
        /\ p.state \in ParseState
        /\ Len(p.cache) <= CacheSize
        /\ (p.state = "MAGIC") <=> (p.cache = <<>>)
        /\ p.state = "HEADER" => Len(p.cache) < UINT8_MAX
        /\ p.state \in {"PAYLOAD", "CRC"} =>
              Len(p.cache) + (IF p.state = "CRC" THEN CRC16_SIZE - p.index ELSE 0)
                 <= CacheSize

\* A frame the parser completes is, byte for byte, one that was put on a line to
\* this node: no fault of a line, no mixture of two lines in the one parser and
\* no piece of a frame passes for a frame.
OnlySentFrames == parsed \subseteq on_line

Within(frame, bytes) ==
    \E i \in 0..(Len(bytes) - Len(frame)) : At(bytes, i, Len(frame)) = frame

\* On a node with a single line, chunks of any size lose nothing: a frame that
\* was put on the line has been parsed, or its bytes are in the cache and on the
\* line.  A fault, or a timeout in the middle of a frame, costs only the frames
\* up to the next timeout on a silent line.
CleanLineComplete ==
    \A arrival \in on_line \ (parsed \cup spoiled) :
        LET n == arrival[1] IN
        n \notin dirty /\ Cardinality({l \in Line : l[2] = n}) = 1 =>
            \E l \in Line : /\ l[2] = n
                            /\ Within(arrival[2], parser[n].cache \o line[l])

\* The packet as the transport of another node may see it.
Sighting(packet) ==
    LET connection == IF packet.connection_id # 0 THEN packet.connection_id
                      ELSE packet.session_id
    IN  [source_id |-> packet.source_id, target_id |-> packet.target_id,
         session_id |-> connection % 65536, connection_id |-> connection,
         packet_number |-> packet.packet_number,
         packet_type |-> packet.packet_type, data_type |-> packet.data_type,
         reliable |-> packet.reliable, fragment |-> packet.fragment,
         priority |-> packet.priority, extension |-> packet.extension,
         payload |-> packet.payload]

\* Across encoding, hops, re-encoding and decoding, what a transport is handed
\* is what another transport handed down, and it was meant for this node.
DeliveredAsSent ==
    \A arrival \in delivered :
        /\ arrival[2].target_id \in {arrival[1], BROADCAST_ID}
        /\ \E packet \in sent : arrival[2] = Sighting(packet)

\* No packet is put on lines more often than its hop limit says, also when the
\* routes of the nodes form a loop.
HopsBounded == \A i \in DOMAIN hops : hops[i] <= (IF Ttl > ZeroCopyTtl THEN Ttl
                                                  ELSE ZeroCopyTtl)

\* Authentication is end to end: the tag the source made is valid on every line
\* the frame crosses, though each relay rewrites the header, and a node that
\* requires authentication delivers nothing its source did not sign.
AuthenticationEndToEnd ==
    /\ \A arrival \in on_line : Authenticated(arrival[2]) => Verifies(arrival[2])
    /\ \A arrival \in delivered :
          auth[arrival[1]] = "required" => auth[arrival[2].source_id] = "required"
=============================================================================
