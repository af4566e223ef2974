--------------------------- MODULE ReliableStream ---------------------------
(***************************************************************************)
(* One reliable packet stream of the XGL transport: the sending peer state *)
(* of one node (sliding window, reliable queue, retransmission) and the    *)
(* receiving peer state of the other (ordered receive, out-of-order        *)
(* buffer, ACK and SACK generation), over a network that loses, delays,    *)
(* duplicates and reorders packets.                                        *)
(*                                                                         *)
(* Scope: one peer key and one session, from the creation of the peer      *)
(* state to its reset or reclaim.  A packet is what one packet number      *)
(* names: a whole message or one fragment of it.                           *)
(***************************************************************************)
EXTENDS Integers, Sequences, FiniteSets

CONSTANTS
    Payload,        \* payloads the application may send
    NoData,         \* "no packet under this number"
    WindowSize,     \* the sender's tx_window.window_size; xgl_config_validate
                    \* allows 1..32
    RxWindowSize,   \* the same setting of the receiver, which bounds what it
                    \* caches out of order
    SackBits,       \* bits of the SACK bitmap, 64 in the code
    MaxRetry,       \* reliable_queue.max_retry_count
    RetryCounts,    \* values of a packet's retry_count, a uint8_t: 256
    PnMax,          \* packets a session may send: below 2^32, so that packet
                    \* numbers do not wrap
    DeliverCanFail  \* may transport_deliver_packet fail?  It does so for a
                    \* fragment the reassembly budget refuses.

ASSUME StreamAssumption ==
    /\ NoData \notin Payload
    /\ WindowSize \in Nat \ {0}
    /\ RxWindowSize \in Nat \ {0}
    /\ SackBits \in Nat \ {0}
    /\ MaxRetry \in Nat
    /\ RetryCounts \in Nat
    /\ MaxRetry < RetryCounts
    /\ PnMax \in Nat
    /\ DeliverCanFail \in BOOLEAN

Pn == 0..PnMax
PayloadOrNone == Payload \cup {NoData}

VARIABLES
    \* The sender's peer state
    hello_sent,
    send_base_packet_number,
    next_packet_number,
    ack_received,     \* packet numbers whose window slot is marked
    reliable_queue,   \* packet number -> the queued copy of the payload
    retry_count,      \* packet number -> retransmissions
    \* The receiver's peer state
    rx_peer,          \* does the peer state exist?
    rx_next_packet_number,
    rx_buffered,      \* packet number -> the payload cached out of order
    \* Everything ever put on the wire.  A packet may be taken any number of
    \* times, in any order, or never.
    wire_hello, wire_data, wire_ack, wire_sack,
    \* What the two applications saw
    accepted,         \* payloads xgl_send accepted, in order
    failed,           \* packet numbers reported with XGL_ERR_ACK_TIMEOUT
    delivered         \* payloads handed to rx_callback, in order

windowVars == <<send_base_packet_number, next_packet_number, ack_received>>
senderVars == <<hello_sent, windowVars, reliable_queue, retry_count,
                wire_hello, wire_data, accepted, failed>>
receiverVars == <<rx_peer, rx_next_packet_number, rx_buffered,
                  wire_ack, wire_sack, delivered>>
vars == <<senderVars, receiverVars>>

Queued(pn) == reliable_queue[pn] # NoData
Buffered(pn) == rx_buffered[pn] # NoData

-----------------------------------------------------------------------------
(***************************************************************************)
(* Sliding window                                                          *)
(***************************************************************************)
\* Mutant of CanSend: one packet more than the window holds.
CanSendOneMore == next_packet_number - send_base_packet_number <= WindowSize

CanSend == next_packet_number - send_base_packet_number < WindowSize

InWindow(pn) ==
    /\ pn >= send_base_packet_number
    /\ pn - send_base_packet_number < WindowSize

\* Mutant of AdvanceBase: the loop passes the first unmarked slot as well.
AdvanceBasePastGap(marked) ==
    \E base \in send_base_packet_number..(send_base_packet_number + WindowSize) :
        /\ \A pn \in send_base_packet_number..(base - 1) : pn \in marked
        /\ base \notin marked
        /\ send_base_packet_number' = base + 1
        /\ ack_received' = {pn \in marked : pn > base}

\* xgl_window_advance_base: slide over the marked slots, at most a window.
AdvanceBase(marked) ==
    \E base \in send_base_packet_number..(send_base_packet_number + WindowSize) :
        /\ \A pn \in send_base_packet_number..(base - 1) : pn \in marked
        /\ base \notin marked
        /\ send_base_packet_number' = base
        /\ ack_received' = {pn \in marked : pn >= base}

(***************************************************************************)
(* Reliable queue                                                          *)
(***************************************************************************)
RemoveFromQueue(pns) ==
    reliable_queue' = [pn \in Pn |-> IF pn \in pns THEN NoData
                                                  ELSE reliable_queue[pn]]

\* Mutant of Retransmit: the retry is not counted.
RetransmitUncounted(pns) ==
    /\ wire_data' = wire_data \cup {<<pn, reliable_queue[pn]>> : pn \in pns}
    /\ UNCHANGED retry_count

\* The lower layer accepted a retransmission of each of pns: the copies go out
\* again and the retry counts grow.  A SACK looks at no limit, so they may wrap.
Retransmit(pns) ==
    /\ wire_data' = wire_data \cup {<<pn, reliable_queue[pn]>> : pn \in pns}
    /\ retry_count' = [pn \in Pn |->
                          IF pn \in pns THEN (retry_count[pn] + 1) % RetryCounts
                                        ELSE retry_count[pn]]

-----------------------------------------------------------------------------
(***************************************************************************)
(* The sender                                                              *)
(***************************************************************************)
\* xgl_transport_send of a reliable packet: the HELLO first, then the queue
\* record, then the packet; the packet number is committed last.
SendAccepted(data) ==
    /\ CanSend
    /\ next_packet_number < PnMax
    /\ hello_sent' = TRUE
    /\ wire_hello' = TRUE
    /\ reliable_queue' = [reliable_queue EXCEPT ![next_packet_number] = data]
    /\ retry_count' = [retry_count EXCEPT ![next_packet_number] = 0]
    /\ wire_data' = wire_data \cup {<<next_packet_number, data>>}
    /\ next_packet_number' = next_packet_number + 1
    /\ accepted' = Append(accepted, data)
    /\ UNCHANGED <<send_base_packet_number, ack_received, failed>>
    /\ UNCHANGED receiverVars

\* Mutant of SendRefused: the send fails after the packet left.
SendRefusedAfterWire ==
    /\ CanSend
    /\ next_packet_number < PnMax
    /\ hello_sent' = TRUE
    /\ wire_hello' = TRUE
    /\ \E data \in Payload :
          wire_data' = wire_data \cup {<<next_packet_number, data>>}
    /\ UNCHANGED <<windowVars, reliable_queue, retry_count, accepted, failed>>
    /\ UNCHANGED receiverVars

\* The HELLO went out, but the queue could not take the payload or the lower
\* layer refused the packet: the record is gone again, the number is not used.
SendRefused ==
    /\ CanSend
    /\ ~hello_sent
    /\ hello_sent' = TRUE
    /\ wire_hello' = TRUE
    /\ UNCHANGED <<windowVars, reliable_queue, retry_count, wire_data,
                   accepted, failed>>
    /\ UNCHANGED receiverVars

\* Mutant of ProcessRetransmissions: a packet out of retries goes unreported.
ProcessRetransmissionsUnreported(expired, refused) ==
    LET exhausted == {pn \in expired : retry_count[pn] >= MaxRetry}
    IN  /\ expired # {}
        /\ \A pn \in expired : Queued(pn)
        /\ RemoveFromQueue(exhausted)
        /\ Retransmit((expired \ exhausted) \ refused)
        /\ UNCHANGED <<hello_sent, windowVars, wire_hello, accepted, failed>>
        /\ UNCHANGED receiverVars

\* transport_process_retransmissions: one pass over the queue.  expired are the
\* packets whose timeout elapsed, refused the ones the lower layer would not
\* take.  A packet out of retries is removed and reported.
ProcessRetransmissions(expired, refused) ==
    LET exhausted == {pn \in expired : retry_count[pn] >= MaxRetry}
    IN  /\ expired # {}
        /\ \A pn \in expired : Queued(pn)
        /\ RemoveFromQueue(exhausted)
        /\ failed' = failed \cup exhausted
        /\ Retransmit((expired \ exhausted) \ refused)
        /\ UNCHANGED <<hello_sent, windowVars, wire_hello, accepted>>
        /\ UNCHANGED receiverVars

\* Mutant of ReceiveAck: a late ACK is not checked against the queue.
ReceiveAckUnchecked(pn) ==
    /\ pn \in wire_ack
    /\ RemoveFromQueue({pn})
    /\ AdvanceBase(ack_received \cup {p \in {pn} : InWindow(p)})
    /\ UNCHANGED <<hello_sent, next_packet_number, retry_count, wire_hello,
                   wire_data, accepted, failed>>
    /\ UNCHANGED receiverVars

\* An ACK range of a packet that is still queued; any other is rejected.
ReceiveAck(pn) ==
    /\ pn \in wire_ack
    /\ Queued(pn)
    /\ RemoveFromQueue({pn})
    /\ AdvanceBase(ack_received \cup {p \in {pn} : InWindow(p)})
    /\ UNCHANGED <<hello_sent, next_packet_number, retry_count, wire_hello,
                   wire_data, accepted, failed>>
    /\ UNCHANGED receiverVars

\* A SACK with an all-zero bitmap: retransmit the base packet alone.
ReceiveEmptySack(sack) ==
    /\ sack \in wire_sack
    /\ sack.received = {}
    /\ Queued(sack.base)
    /\ Retransmit({sack.base})
    /\ UNCHANGED <<hello_sent, windowVars, reliable_queue, wire_hello,
                   accepted, failed>>
    /\ UNCHANGED receiverVars

\* What the walk over a bitmap retransmits: the queued packets it does not name,
\* below its highest bit.
Missing(sack) ==
    {pn \in Pn \ sack.received :
        /\ Queued(pn)
        /\ pn >= sack.base
        /\ \E high \in sack.received : pn < high}

\* A SACK: walk the bitmap up to its highest bit, release what was received,
\* retransmit what is missing and still queued.
ReceiveSack(sack) ==
    LET released == {pn \in sack.received : Queued(pn)}
    IN  /\ sack \in wire_sack
        /\ sack.received # {}
        /\ RemoveFromQueue(released)
        /\ Retransmit(Missing(sack))
        /\ AdvanceBase(ack_received \cup {pn \in released : InWindow(pn)})
        /\ UNCHANGED <<hello_sent, next_packet_number, wire_hello, accepted,
                       failed>>
        /\ UNCHANGED receiverVars

\* The same walk cut short: the lower layer refuses the retransmission of the
\* missing packet stop.  What lies below it was handled, the window is not
\* advanced.
ReceiveSackCutShort(sack, stop) ==
    LET released == {pn \in sack.received : Queued(pn) /\ pn < stop}
    IN  /\ sack \in wire_sack
        /\ stop \in Missing(sack)
        /\ RemoveFromQueue(released)
        /\ Retransmit({pn \in Missing(sack) : pn < stop})
        /\ ack_received' = ack_received \cup {pn \in released : InWindow(pn)}
        /\ UNCHANGED <<hello_sent, send_base_packet_number, next_packet_number,
                       wire_hello, accepted, failed>>
        /\ UNCHANGED receiverVars

-----------------------------------------------------------------------------
(***************************************************************************)
(* The receiver                                                            *)
(***************************************************************************)
\* HELLO of the session: creates the peer state, or finds it and keeps it.
ReceiveHello ==
    /\ wire_hello
    /\ ~rx_peer
    /\ rx_peer' = TRUE
    /\ UNCHANGED <<rx_next_packet_number, rx_buffered, wire_ack, wire_sack,
                   delivered>>
    /\ UNCHANGED senderVars

\* Mutant of ReceiveDuplicate: the duplicate is delivered.
ReceiveDuplicateDelivers(pn, data) ==
    /\ <<pn, data>> \in wire_data
    /\ pn < rx_next_packet_number
    /\ Len(delivered) <= PnMax
    /\ wire_ack' = wire_ack \cup {pn}
    /\ delivered' = Append(delivered, data)
    /\ UNCHANGED <<rx_peer, rx_next_packet_number, rx_buffered, wire_sack>>
    /\ UNCHANGED senderVars

\* Below rx_next: acknowledge again, deliver nothing.
ReceiveDuplicate(pn, data) ==
    /\ <<pn, data>> \in wire_data
    /\ pn < rx_next_packet_number
    /\ wire_ack' = wire_ack \cup {pn}
    /\ UNCHANGED <<rx_peer, rx_next_packet_number, rx_buffered, wire_sack,
                   delivered>>
    /\ UNCHANGED senderVars

\* Mutant of Sack: the bitmap is shifted by one packet.
SackShifted(base, buffer) ==
    [base |-> base,
     received |-> {pn \in Pn : /\ pn + 1 \in Pn
                               /\ buffer[pn + 1] # NoData
                               /\ pn >= base
                               /\ pn - base < SackBits}]

\* transport_send_sack: the buffered packets the bitmap reaches.
Sack(base, buffer) ==
    [base |-> base,
     received |-> {pn \in Pn : /\ buffer[pn] # NoData
                               /\ pn >= base
                               /\ pn - base < SackBits}]

\* transport_cache_out_of_order_packet has room for pn.
RoomFor(pn) ==
    /\ pn - rx_next_packet_number < RxWindowSize
    /\ Cardinality({p \in Pn : Buffered(p)}) < RxWindowSize

\* Above rx_next: cache the packet (unless it is cached, there is no room or
\* no memory) and answer with a SACK either way.
ReceiveOutOfOrder(pn, data) ==
    /\ <<pn, data>> \in wire_data
    /\ pn > rx_next_packet_number
    /\ rx_peer' = TRUE
    /\ \/ /\ RoomFor(pn)
          /\ ~Buffered(pn)
          /\ rx_buffered' = [rx_buffered EXCEPT ![pn] = data]
       \/ rx_buffered' = rx_buffered
    /\ wire_sack' = wire_sack \cup {Sack(rx_next_packet_number, rx_buffered')}
    /\ UNCHANGED <<rx_next_packet_number, wire_ack, delivered>>
    /\ UNCHANGED senderVars

\* What the application has seen once data, packet pn, and the cached packets
\* up to next were delivered behind it.
DeliveredUpTo(next, pn, data) ==
    Append(delivered, data) \o [i \in 1..(next - 1 - pn) |-> rx_buffered[pn + i]]

\* Mutant of ReceiveInOrder: the buffer is not drained.
ReceiveInOrderUndrained(pn, data) ==
    /\ <<pn, data>> \in wire_data
    /\ pn = rx_next_packet_number
    /\ rx_peer' = TRUE
    /\ rx_next_packet_number' = pn + 1
    /\ delivered' = Append(delivered, data)
    /\ wire_ack' = wire_ack \cup {pn}
    /\ UNCHANGED <<rx_buffered, wire_sack>>
    /\ UNCHANGED senderVars

\* At rx_next: acknowledge, deliver, advance, and drain the buffer up to the
\* first packet that is missing.
ReceiveInOrder(pn, data) ==
    \E next \in (pn + 1)..PnMax :
        /\ <<pn, data>> \in wire_data
        /\ pn = rx_next_packet_number
        /\ \A p \in (pn + 1)..(next - 1) : Buffered(p)
        /\ ~Buffered(next)
        /\ rx_peer' = TRUE
        /\ rx_next_packet_number' = next
        /\ delivered' = DeliveredUpTo(next, pn, data)
        /\ rx_buffered' = [p \in Pn |-> IF p < next THEN NoData ELSE rx_buffered[p]]
        /\ wire_ack' = wire_ack \cup pn..(next - 1)
        /\ UNCHANGED wire_sack
        /\ UNCHANGED senderVars

\* The same with a delivery that fails, of packet stop: it was acknowledged
\* before or right after the attempt, a buffered copy is freed, and rx_next
\* stays where it is.
ReceiveInOrderFails(pn, data, stop) ==
    /\ DeliverCanFail
    /\ <<pn, data>> \in wire_data
    /\ pn = rx_next_packet_number
    /\ stop >= pn
    /\ \A p \in (pn + 1)..stop : Buffered(p)
    /\ rx_peer' = TRUE
    /\ rx_next_packet_number' = stop
    /\ delivered' = IF stop = pn THEN delivered
                    ELSE DeliveredUpTo(stop, pn, data)
    /\ rx_buffered' = [p \in Pn |-> IF p <= stop THEN NoData ELSE rx_buffered[p]]
    /\ wire_ack' = wire_ack \cup pn..stop
    /\ UNCHANGED wire_sack
    /\ UNCHANGED senderVars

-----------------------------------------------------------------------------
Init ==
    /\ hello_sent = FALSE
    /\ send_base_packet_number = 0
    /\ next_packet_number = 0
    /\ ack_received = {}
    /\ reliable_queue = [pn \in Pn |-> NoData]
    /\ retry_count = [pn \in Pn |-> 0]
    /\ rx_peer = FALSE
    /\ rx_next_packet_number = 0
    /\ rx_buffered = [pn \in Pn |-> NoData]
    /\ wire_hello = FALSE
    /\ wire_data = {}
    /\ wire_ack = {}
    /\ wire_sack = {}
    /\ accepted = <<>>
    /\ failed = {}
    /\ delivered = <<>>

Sender ==
    \/ \E data \in Payload : SendAccepted(data)
    \/ SendRefused
    \/ \E expired, refused \in SUBSET Pn :
           refused \subseteq expired /\ ProcessRetransmissions(expired, refused)
    \/ \E pn \in Pn : ReceiveAck(pn)
    \/ \E sack \in wire_sack : ReceiveEmptySack(sack)
    \/ \E sack \in wire_sack : ReceiveSack(sack)
    \/ \E sack \in wire_sack, stop \in Pn : ReceiveSackCutShort(sack, stop)

Receiver ==
    \/ ReceiveHello
    \/ \E packet \in wire_data :
          \/ ReceiveDuplicate(packet[1], packet[2])
          \/ ReceiveOutOfOrder(packet[1], packet[2])
          \/ ReceiveInOrder(packet[1], packet[2])
          \/ \E stop \in Pn : ReceiveInOrderFails(packet[1], packet[2], stop)

Next == Sender \/ Receiver

Spec == Init /\ [][Next]_vars

-----------------------------------------------------------------------------
\* The type invariant: every packet number in the state of the two peers and on
\* the wire is one the session may use, so the base, slid by
\* xgl_window_advance_base, and rx_next, moved by the drain, never run past the
\* last number.
TypeOK ==
    /\ hello_sent \in BOOLEAN
    /\ send_base_packet_number \in Pn
    /\ next_packet_number \in Pn
    /\ ack_received \subseteq Pn
    /\ reliable_queue \in [Pn -> PayloadOrNone]
    /\ retry_count \in [Pn -> 0..(RetryCounts - 1)]
    /\ rx_peer \in BOOLEAN
    /\ rx_next_packet_number \in Pn
    /\ rx_buffered \in [Pn -> PayloadOrNone]
    /\ wire_hello \in BOOLEAN
    /\ wire_data \subseteq Pn \X Payload
    /\ wire_ack \subseteq Pn
    /\ wire_sack \subseteq [base : Pn, received : SUBSET Pn]
    /\ accepted \in Seq(Payload)
    /\ failed \subseteq Pn
    /\ delivered \in Seq(Payload)

(***************************************************************************)
(* Safety                                                                  *)
(***************************************************************************)
\* The receiver holds packet pn: delivered to the application, or cached.
Custody(pn) == pn < rx_next_packet_number \/ Buffered(pn)

\* The application callback sees exactly the payloads the sender's application
\* had accepted, in that order, each once (xgl_transport_receive and the drain
\* of the out-of-order buffer), whatever the network does.
DeliveredInOrder ==
    /\ Len(delivered) = rx_next_packet_number
    /\ rx_next_packet_number <= Len(accepted)
    /\ \A i \in 1..Len(delivered) : delivered[i] = accepted[i]

\* A packet number names one payload for the whole session: what is on the wire
\* under it, first transmission or retransmission, is what xgl_send accepted
\* under it (the number is committed only after the lower layer took the packet).
OnePayloadPerPacketNumber ==
    \A packet \in wire_data :
        /\ packet[1] < next_packet_number
        /\ packet[2] = accepted[packet[1] + 1]

\* The sender releases its copy of a packet only when the receiver holds it or
\* when the failure was reported through error_callback.
NoSilentLoss ==
    \A pn \in Pn : pn < next_packet_number =>
        Queued(pn) \/ pn \in failed \/ Custody(pn)

\* Every packet number in the window is queued, marked as acknowledged or was
\* given up, and is only one of these; outside the window there is none.
WindowAccounting ==
    /\ next_packet_number - send_base_packet_number <= WindowSize
    /\ \A pn \in Pn :
          LET inFlight == pn >= send_base_packet_number /\ pn < next_packet_number
          IN  /\ inFlight => (Queued(pn) \/ pn \in ack_received \/ pn \in failed)
              /\ (Queued(pn) \/ pn \in ack_received \/ pn \in failed) => inFlight
              /\ ~(Queued(pn) /\ pn \in ack_received)
              /\ ~(Queued(pn) /\ pn \in failed)
              /\ ~(pn \in ack_received /\ pn \in failed)

\* The two windows fit: unless the receiver is configured with the smaller one,
\* no packet of the session ever arrives beyond what
\* transport_cache_out_of_order_packet has room for.
ReceiverHasRoom ==
    \A packet \in wire_data :
        packet[1] > rx_next_packet_number /\ ~Buffered(packet[1]) => RoomFor(packet[1])

\* An acknowledgement vouches for the packet: the receiver has it.
\* docs/en/protocol/state-machines.md:119-124 draws the ACK after the delivery
\* and the drain.
AckMeansCustody == \A pn \in wire_ack : Custody(pn)

(***************************************************************************)
(* The stream implements the ordered channel.  A packet is confirmed once  *)
(* its copy has left the reliable queue without a report of failure.       *)
(***************************************************************************)
Held == {pn \in Pn : Buffered(pn)}
Confirmed ==
    {pn \in Pn : pn < next_packet_number /\ ~Queued(pn) /\ pn \notin failed}

Channel == INSTANCE OrderedChannel WITH held <- Held, confirmed <- Confirmed

\* Seen from the two applications the windows, acknowledgements, duplicates,
\* SACK walks and retransmissions of the transport are an ordered channel.
ImplementsChannel == Channel!Spec
=============================================================================
