----------------------- MODULE ReliableStreamProofs ------------------------
(***************************************************************************)
(* TLAPS proofs about ReliableStream, for every payload set, window size,  *)
(* bitmap width, retry limit and number of packets.                        *)
(***************************************************************************)
EXTENDS ReliableStream, SequenceTheorems, FiniteSetTheorems, TLAPS

(***************************************************************************)
(* The inductive invariant.  Both copies the transport keeps of a packet,  *)
(* the queued one and the buffered one, hold what was accepted under its   *)
(* number; the buffer lies above rx_next and the queue inside the window.  *)
(***************************************************************************)
NumbersAgree ==
    /\ Len(accepted) = next_packet_number
    /\ rx_next_packet_number <= next_packet_number
    /\ send_base_packet_number <= next_packet_number

QueueHoldsAccepted ==
    \A pn \in Pn : Queued(pn) => reliable_queue[pn] = accepted[pn + 1]

BufferHoldsAccepted ==
    \A pn \in Pn : Buffered(pn) =>
        /\ pn > rx_next_packet_number
        /\ pn < next_packet_number
        /\ rx_buffered[pn] = accepted[pn + 1]

SafetyInv ==
    /\ TypeOK
    /\ NumbersAgree
    /\ QueueHoldsAccepted
    /\ BufferHoldsAccepted
    /\ OnePayloadPerPacketNumber
    /\ WindowAccounting
    /\ DeliveredInOrder

-----------------------------------------------------------------------------
(***************************************************************************)
(* The parts the actions are built from                                    *)
(***************************************************************************)
\* Moving the base up does not widen the window.
LEMMA SlideNarrowsWindow ==
    ASSUME NEW next \in Nat, NEW base \in Nat, NEW slid \in Nat,
           slid >= base, next - base <= WindowSize
    PROVE  next - slid <= WindowSize
BY StreamAssumption

\* Sliding the base over marked slots that all lie in flight keeps it between
\* the old base and the next packet number.
LEMMA AdvanceBaseStaysInFlight ==
    ASSUME SafetyInv, NEW marked \in SUBSET Pn,
           \A pn \in marked : /\ pn >= send_base_packet_number
                              /\ pn < next_packet_number,
           AdvanceBase(marked)
    PROVE  /\ send_base_packet_number' \in Pn
           /\ send_base_packet_number' >= send_base_packet_number
           /\ send_base_packet_number' <= next_packet_number
           /\ \A pn \in Pn : pn >= send_base_packet_number
                             /\ pn < send_base_packet_number' => pn \in marked
           /\ ack_received' = {pn \in marked : pn >= send_base_packet_number'}
<1> USE StreamAssumption DEF Pn
<1>1. PICK base \in send_base_packet_number..(send_base_packet_number + WindowSize) :
        /\ \A pn \in send_base_packet_number..(base - 1) : pn \in marked
        /\ base \notin marked
        /\ send_base_packet_number' = base
        /\ ack_received' = {pn \in marked : pn >= base}
  BY DEF AdvanceBase
<1>2. send_base_packet_number \in Nat /\ next_packet_number \in Nat
      /\ next_packet_number <= PnMax
      /\ send_base_packet_number <= next_packet_number
  BY DEF SafetyInv, TypeOK, NumbersAgree
<1>3. base <= next_packet_number
  <2>1. CASE base = send_base_packet_number
    BY <2>1, <1>2
  <2>2. CASE base > send_base_packet_number
    <3>1. base - 1 \in send_base_packet_number..(base - 1)
      BY <2>2, <1>2
    <3>2. base - 1 \in marked
      BY <3>1, <1>1
    <3> QED  BY <3>2, <1>2
  <2> QED  BY <2>1, <2>2, <1>2
<1> QED  BY <1>1, <1>2, <1>3

\* Removing packets from the queue frees exactly those slots.
LEMMA RemoveFromQueueEffect ==
    ASSUME SafetyInv, NEW pns \in SUBSET Pn, RemoveFromQueue(pns)
    PROVE  /\ reliable_queue' \in [Pn -> PayloadOrNone]
           /\ \A pn \in Pn : /\ pn \in pns => reliable_queue'[pn] = NoData
                             /\ pn \notin pns => reliable_queue'[pn] = reliable_queue[pn]
BY DEF SafetyInv, TypeOK, RemoveFromQueue, PayloadOrNone

\* A retransmission puts nothing on the wire but accepted payloads under their
\* own numbers.
LEMMA RetransmitEffect ==
    ASSUME SafetyInv, NEW pns \in SUBSET Pn, \A pn \in pns : Queued(pn),
           Retransmit(pns)
    PROVE  /\ wire_data' \subseteq Pn \X Payload
           /\ retry_count' \in [Pn -> 0..(RetryCounts - 1)]
           /\ \A packet \in wire_data' :
                 /\ packet[1] < next_packet_number
                 /\ packet[2] = accepted[packet[1] + 1]
<1> USE StreamAssumption
<1>1. \A pn \in pns : /\ reliable_queue[pn] \in Payload
                      /\ pn < next_packet_number
                      /\ reliable_queue[pn] = accepted[pn + 1]
  BY DEF SafetyInv, TypeOK, Queued, PayloadOrNone, QueueHoldsAccepted, WindowAccounting
<1>2. retry_count' \in [Pn -> 0..(RetryCounts - 1)]
  <2>1. \A k \in 0..(RetryCounts - 1) : (k + 1) % RetryCounts \in 0..(RetryCounts - 1)
    OBVIOUS
  <2> QED  BY <2>1 DEF Retransmit, SafetyInv, TypeOK
<1>3. ASSUME NEW packet \in wire_data'
      PROVE  /\ packet \in Pn \X Payload
             /\ packet[1] < next_packet_number
             /\ packet[2] = accepted[packet[1] + 1]
  <2>1. CASE packet \in wire_data
    BY <2>1 DEF SafetyInv, TypeOK, OnePayloadPerPacketNumber
  <2>2. CASE \E pn \in pns : packet = <<pn, reliable_queue[pn]>>
    BY <2>2, <1>1
  <2> QED  BY <1>3, <2>1, <2>2 DEF Retransmit
<1> QED  BY <1>2, <1>3

-----------------------------------------------------------------------------
\* In the initial state nothing was sent.
LEMMA InitSafety == Init => SafetyInv
<1> SUFFICES ASSUME Init PROVE SafetyInv
  OBVIOUS
<1> USE StreamAssumption DEF Init
<1>1. TypeOK
  BY DEF TypeOK, Pn, PayloadOrNone
<1>2. NumbersAgree /\ OnePayloadPerPacketNumber /\ DeliveredInOrder
  BY DEF NumbersAgree, OnePayloadPerPacketNumber, DeliveredInOrder
<1>3. QueueHoldsAccepted /\ BufferHoldsAccepted
  BY DEF QueueHoldsAccepted, BufferHoldsAccepted, Queued, Buffered
<1>4. WindowAccounting
  BY DEF WindowAccounting, Queued, Pn
<1> QED  BY <1>1, <1>2, <1>3, <1>4 DEF SafetyInv

\* Releasing queued packets and sliding the window keeps the books of the
\* window: what is released becomes marked, what the base passes was marked.
LEMMA ReleaseKeepsAccounts ==
    ASSUME SafetyInv, NEW released \in SUBSET Pn, \A pn \in released : Queued(pn),
           RemoveFromQueue(released),
           AdvanceBase(ack_received \cup {pn \in released : InWindow(pn)}),
           UNCHANGED <<next_packet_number, failed>>
    PROVE  /\ send_base_packet_number' \in Pn
           /\ send_base_packet_number' <= next_packet_number
           /\ ack_received' \subseteq Pn
           /\ WindowAccounting'
<1> USE StreamAssumption
<1> DEFINE marked == ack_received \cup {pn \in released : InWindow(pn)}
<1>1. /\ send_base_packet_number \in Nat
      /\ next_packet_number \in Nat
      /\ next_packet_number - send_base_packet_number <= WindowSize
  BY DEF SafetyInv, TypeOK, WindowAccounting, Pn
<1>2. \A pn \in released : /\ pn >= send_base_packet_number
                           /\ pn < next_packet_number
                           /\ pn \notin ack_received
                           /\ pn \notin failed
  BY DEF SafetyInv, WindowAccounting
<1>3. marked = ack_received \cup released
  <2>1. \A pn \in released : InWindow(pn)
    BY <1>1, <1>2 DEF InWindow, Pn
  <2> QED  BY <2>1
<1>4. /\ marked \in SUBSET Pn
      /\ \A pn \in marked : /\ pn >= send_base_packet_number
                            /\ pn < next_packet_number
  BY <1>2, <1>3 DEF SafetyInv, TypeOK, WindowAccounting
<1>5. AdvanceBase(marked)
  OBVIOUS
<1> HIDE DEF marked
<1>6. /\ send_base_packet_number' \in Pn
      /\ send_base_packet_number' >= send_base_packet_number
      /\ send_base_packet_number' <= next_packet_number
      /\ \A pn \in Pn : pn >= send_base_packet_number
                        /\ pn < send_base_packet_number' => pn \in marked
      /\ ack_received' = {pn \in marked : pn >= send_base_packet_number'}
  BY <1>4, <1>5, AdvanceBaseStaysInFlight
<1>7. next_packet_number' - send_base_packet_number' <= WindowSize
  <2>1. /\ next_packet_number' = next_packet_number
        /\ send_base_packet_number' \in Nat
        /\ send_base_packet_number' >= send_base_packet_number
    BY <1>6 DEF Pn
  <2> QED  BY <1>1, <2>1, SlideNarrowsWindow
<1>8. ASSUME NEW pn \in Pn
      PROVE  LET inFlight == pn >= send_base_packet_number' /\ pn < next_packet_number'
             IN  /\ inFlight => (Queued(pn)' \/ pn \in ack_received' \/ pn \in failed')
                 /\ (Queued(pn)' \/ pn \in ack_received' \/ pn \in failed') => inFlight
                 /\ ~(Queued(pn)' /\ pn \in ack_received')
                 /\ ~(Queued(pn)' /\ pn \in failed')
                 /\ ~(pn \in ack_received' /\ pn \in failed')
  <2>1. Queued(pn)' <=> (Queued(pn) /\ pn \notin released)
    BY RemoveFromQueueEffect DEF Queued
  <2>2. /\ pn >= send_base_packet_number /\ pn < next_packet_number
           => (Queued(pn) \/ pn \in ack_received \/ pn \in failed)
        /\ (Queued(pn) \/ pn \in ack_received \/ pn \in failed)
           => pn >= send_base_packet_number /\ pn < next_packet_number
        /\ ~(Queued(pn) /\ pn \in ack_received)
        /\ ~(Queued(pn) /\ pn \in failed)
        /\ ~(pn \in ack_received /\ pn \in failed)
    BY DEF SafetyInv, WindowAccounting
  <2>3. pn \in Nat /\ send_base_packet_number' \in Nat
    BY <1>6 DEF Pn
  <2> QED  BY <1>1, <1>2, <1>3, <1>6, <2>1, <2>2, <2>3
<1>9. WindowAccounting'
  BY <1>7, <1>8 DEF WindowAccounting
<1> QED  BY <1>4, <1>6, <1>9

\* A step of the sender that removes packets from the queue, perhaps retransmits
\* others, and keeps the accounts, keeps the whole invariant.
LEMMA QueueStepSafety ==
    ASSUME SafetyInv, NEW removed \in SUBSET Pn, RemoveFromQueue(removed),
           UNCHANGED <<hello_sent, wire_hello, next_packet_number, accepted>>,
           UNCHANGED receiverVars,
           wire_data' \subseteq Pn \X Payload,
           \A packet \in wire_data' : /\ packet[1] < next_packet_number
                                      /\ packet[2] = accepted[packet[1] + 1],
           retry_count' \in [Pn -> 0..(RetryCounts - 1)],
           send_base_packet_number' \in Pn,
           send_base_packet_number' <= next_packet_number,
           ack_received' \subseteq Pn,
           failed' \subseteq Pn,
           WindowAccounting'
    PROVE  SafetyInv'
<1>1. TypeOK'
  BY RemoveFromQueueEffect DEF SafetyInv, TypeOK, receiverVars
<1>2. NumbersAgree'
  BY DEF SafetyInv, NumbersAgree, receiverVars
<1>3. QueueHoldsAccepted'
  BY RemoveFromQueueEffect DEF SafetyInv, QueueHoldsAccepted, Queued
<1>4. BufferHoldsAccepted'
  BY DEF SafetyInv, BufferHoldsAccepted, Buffered, receiverVars
<1>5. OnePayloadPerPacketNumber'
  BY DEF OnePayloadPerPacketNumber
<1>6. DeliveredInOrder'
  BY DEF SafetyInv, DeliveredInOrder, receiverVars
<1> QED  BY <1>1, <1>2, <1>3, <1>4, <1>5, <1>6 DEF SafetyInv

\* Sending: the new number lies at the end of everything.
LEMMA SendAcceptedSafety ==
    ASSUME SafetyInv, NEW data \in Payload, SendAccepted(data)
    PROVE  SafetyInv'
<1> USE StreamAssumption
<1> DEFINE pnew == next_packet_number
<1>1. /\ pnew \in Nat /\ pnew < PnMax /\ pnew \in Pn /\ pnew + 1 \in Pn
      /\ Len(accepted) = pnew
      /\ accepted \in Seq(Payload)
      /\ send_base_packet_number \in Nat /\ rx_next_packet_number \in Nat
      /\ send_base_packet_number <= pnew /\ rx_next_packet_number <= pnew
  BY DEF SafetyInv, TypeOK, NumbersAgree, SendAccepted, Pn
<1>2. /\ accepted' \in Seq(Payload)
      /\ Len(accepted') = pnew + 1
      /\ accepted'[pnew + 1] = data
      /\ \A i \in 1..pnew : accepted'[i] = accepted[i]
  BY <1>1 DEF SendAccepted
<1>3. TypeOK'
  BY <1>1, <1>2 DEF SafetyInv, TypeOK, SendAccepted, receiverVars, PayloadOrNone
<1>4. NumbersAgree'
  BY <1>1, <1>2 DEF NumbersAgree, SendAccepted, receiverVars
<1>5. \A pn \in Pn : Queued(pn)' <=> (Queued(pn) \/ pn = pnew)
  BY <1>1 DEF SendAccepted, SafetyInv, TypeOK, Queued
<1>6. \A pn \in Pn : Queued(pn) => pn < pnew
  BY DEF SafetyInv, WindowAccounting
<1>7. QueueHoldsAccepted'
  <2> SUFFICES ASSUME NEW pn \in Pn, Queued(pn)'
               PROVE  reliable_queue'[pn] = accepted'[pn + 1]
    BY DEF QueueHoldsAccepted
  <2>1. CASE pn = pnew
    BY <2>1, <1>1, <1>2 DEF SendAccepted, SafetyInv, TypeOK
  <2>2. CASE pn # pnew
    <3>1. Queued(pn) /\ reliable_queue'[pn] = reliable_queue[pn]
      BY <2>2, <1>1, <1>5 DEF SendAccepted, SafetyInv, TypeOK
    <3>2. pn + 1 \in 1..pnew
      BY <3>1, <1>1, <1>6 DEF Pn
    <3> QED  BY <3>1, <3>2, <1>2 DEF SafetyInv, QueueHoldsAccepted
  <2> QED  BY <2>1, <2>2
<1>8. BufferHoldsAccepted'
  <2> SUFFICES ASSUME NEW pn \in Pn, Buffered(pn)'
               PROVE  /\ pn > rx_next_packet_number'
                      /\ pn < next_packet_number'
                      /\ rx_buffered'[pn] = accepted'[pn + 1]
    BY DEF BufferHoldsAccepted
  <2>1. /\ Buffered(pn) /\ rx_buffered' = rx_buffered
        /\ rx_next_packet_number' = rx_next_packet_number
    BY DEF SendAccepted, receiverVars, Buffered
  <2>2. /\ pn > rx_next_packet_number /\ pn < pnew
        /\ rx_buffered[pn] = accepted[pn + 1]
    BY <2>1 DEF SafetyInv, BufferHoldsAccepted
  <2>3. pn + 1 \in 1..pnew
    BY <2>2, <1>1 DEF Pn
  <2> QED  BY <2>1, <2>2, <2>3, <1>1, <1>2 DEF SendAccepted, Pn
<1>9. OnePayloadPerPacketNumber'
  <2> SUFFICES ASSUME NEW packet \in wire_data'
               PROVE  /\ packet[1] < next_packet_number'
                      /\ packet[2] = accepted'[packet[1] + 1]
    BY DEF OnePayloadPerPacketNumber
  <2>1. CASE packet = <<pnew, data>>
    BY <2>1, <1>1, <1>2 DEF SendAccepted
  <2>2. CASE packet \in wire_data
    <3>1. /\ packet[1] \in Pn /\ packet[1] < pnew
          /\ packet[2] = accepted[packet[1] + 1]
      BY <2>2 DEF SafetyInv, TypeOK, OnePayloadPerPacketNumber
    <3>2. packet[1] + 1 \in 1..pnew
      BY <3>1, <1>1 DEF Pn
    <3> QED  BY <3>1, <3>2, <1>1, <1>2 DEF SendAccepted, Pn
  <2> QED  BY <2>1, <2>2 DEF SendAccepted
<1>10. WindowAccounting'
  <2>1. next_packet_number' - send_base_packet_number' <= WindowSize
    BY <1>1 DEF SendAccepted, CanSend
  <2>2. ack_received' = ack_received /\ failed' = failed
        /\ send_base_packet_number' = send_base_packet_number
        /\ next_packet_number' = pnew + 1
    BY DEF SendAccepted
  <2> QED  BY <2>1, <2>2, <1>1, <1>5, <1>6 DEF SafetyInv, WindowAccounting, Pn
<1>11. DeliveredInOrder'
  <2>1. delivered' = delivered /\ rx_next_packet_number' = rx_next_packet_number
    BY DEF SendAccepted, receiverVars
  <2>2. Len(delivered) = rx_next_packet_number
        /\ \A i \in 1..Len(delivered) : delivered[i] = accepted[i]
    BY DEF SafetyInv, DeliveredInOrder
  <2> QED  BY <2>1, <2>2, <1>1, <1>2 DEF DeliveredInOrder
<1> QED  BY <1>3, <1>4, <1>7, <1>8, <1>9, <1>10, <1>11 DEF SafetyInv

\* The step may refuse the payload: only the HELLO left.
LEMMA SendRefusedSafety ==
    ASSUME SafetyInv, SendRefused
    PROVE  SafetyInv'
BY DEF SafetyInv, SendRefused, windowVars, receiverVars, TypeOK, NumbersAgree,
       QueueHoldsAccepted, BufferHoldsAccepted, OnePayloadPerPacketNumber,
       WindowAccounting, DeliveredInOrder, Queued, Buffered

\* Giving packets up moves them from the queue to the reported failures.
LEMMA ProcessRetransmissionsSafety ==
    ASSUME SafetyInv, NEW expired \in SUBSET Pn, NEW refused \in SUBSET Pn,
           ProcessRetransmissions(expired, refused)
    PROVE  SafetyInv'
<1> DEFINE exhausted == {pn \in expired : retry_count[pn] >= MaxRetry}
           resent == (expired \ exhausted) \ refused
<1>1. /\ exhausted \in SUBSET Pn /\ resent \in SUBSET Pn
      /\ \A pn \in expired : Queued(pn)
      /\ RemoveFromQueue(exhausted)
      /\ Retransmit(resent)
      /\ failed' = failed \cup exhausted
      /\ UNCHANGED <<hello_sent, wire_hello, next_packet_number, accepted,
                     send_base_packet_number, ack_received>>
      /\ UNCHANGED receiverVars
  BY DEF ProcessRetransmissions, windowVars
<1>2. \A pn \in resent : Queued(pn)
  BY <1>1
<1>3. \A pn \in exhausted : Queued(pn)
  BY <1>1
<1> HIDE DEF exhausted, resent
<1>4. /\ wire_data' \subseteq Pn \X Payload
      /\ retry_count' \in [Pn -> 0..(RetryCounts - 1)]
      /\ \A packet \in wire_data' : /\ packet[1] < next_packet_number
                                    /\ packet[2] = accepted[packet[1] + 1]
  BY <1>1, <1>2, RetransmitEffect
<1>5. WindowAccounting'
  <2>1. \A pn \in Pn : Queued(pn)' <=> (Queued(pn) /\ pn \notin exhausted)
    BY <1>1, RemoveFromQueueEffect DEF Queued
  <2> QED  BY <1>1, <1>3, <2>1 DEF SafetyInv, WindowAccounting
<1>6. /\ send_base_packet_number' \in Pn
      /\ send_base_packet_number' <= next_packet_number
      /\ ack_received' \subseteq Pn
      /\ failed' \subseteq Pn
  BY <1>1 DEF SafetyInv, TypeOK, NumbersAgree
<1> QED  BY <1>1, <1>4, <1>5, <1>6, QueueStepSafety

\* An acknowledgement releases one packet.
LEMMA ReceiveAckSafety ==
    ASSUME SafetyInv, NEW pn \in Pn, ReceiveAck(pn)
    PROVE  SafetyInv'
<1>1. /\ \A p \in {pn} : Queued(p)
      /\ RemoveFromQueue({pn})
      /\ AdvanceBase(ack_received \cup {p \in {pn} : InWindow(p)})
      /\ UNCHANGED <<hello_sent, wire_hello, next_packet_number, accepted>>
      /\ UNCHANGED <<retry_count, wire_data, failed>>
      /\ UNCHANGED receiverVars
  BY DEF ReceiveAck
<1>2. /\ send_base_packet_number' \in Pn
      /\ send_base_packet_number' <= next_packet_number
      /\ ack_received' \subseteq Pn
      /\ WindowAccounting'
  BY <1>1, ReleaseKeepsAccounts
<1>3. /\ wire_data' \subseteq Pn \X Payload
      /\ retry_count' \in [Pn -> 0..(RetryCounts - 1)]
      /\ failed' \subseteq Pn
      /\ \A packet \in wire_data' : /\ packet[1] < next_packet_number
                                    /\ packet[2] = accepted[packet[1] + 1]
  BY <1>1 DEF SafetyInv, TypeOK, OnePayloadPerPacketNumber
<1> QED  BY <1>1, <1>2, <1>3, QueueStepSafety

\* A SACK without received packets repeats its base packet.
LEMMA ReceiveEmptySackSafety ==
    ASSUME SafetyInv, NEW sack \in wire_sack, ReceiveEmptySack(sack)
    PROVE  SafetyInv'
<1>1. /\ {sack.base} \in SUBSET Pn
      /\ \A pn \in {sack.base} : Queued(pn)
      /\ Retransmit({sack.base})
  BY DEF ReceiveEmptySack, SafetyInv, TypeOK
<1>2. /\ wire_data' \subseteq Pn \X Payload
      /\ retry_count' \in [Pn -> 0..(RetryCounts - 1)]
      /\ \A packet \in wire_data' : /\ packet[1] < next_packet_number
                                    /\ packet[2] = accepted[packet[1] + 1]
  BY <1>1, RetransmitEffect
<1>3. RemoveFromQueue({})
  BY DEF RemoveFromQueue, ReceiveEmptySack, SafetyInv, TypeOK
<1>4. /\ UNCHANGED <<hello_sent, wire_hello, next_packet_number, accepted>>
      /\ UNCHANGED <<send_base_packet_number, ack_received, failed, reliable_queue>>
      /\ UNCHANGED receiverVars
  BY DEF ReceiveEmptySack, windowVars
<1>5. WindowAccounting'
  BY <1>4 DEF SafetyInv, WindowAccounting, Queued
<1>6. /\ send_base_packet_number' \in Pn
      /\ send_base_packet_number' <= next_packet_number
      /\ ack_received' \subseteq Pn
      /\ failed' \subseteq Pn
  BY <1>4 DEF SafetyInv, TypeOK, NumbersAgree
<1> QED  BY <1>2, <1>3, <1>4, <1>5, <1>6, QueueStepSafety

\* A SACK releases what it reports and repeats what it misses.
LEMMA ReceiveSackSafety ==
    ASSUME SafetyInv, NEW sack \in wire_sack, ReceiveSack(sack)
    PROVE  SafetyInv'
<1> DEFINE released == {pn \in sack.received : Queued(pn)}
           missing == Missing(sack)
<1>1. /\ RemoveFromQueue(released)
      /\ Retransmit(missing)
      /\ AdvanceBase(ack_received \cup {pn \in released : InWindow(pn)})
      /\ UNCHANGED <<hello_sent, wire_hello, next_packet_number, accepted>>
      /\ UNCHANGED <<next_packet_number, failed>>
      /\ UNCHANGED receiverVars
  BY DEF ReceiveSack
<1>2. /\ released \in SUBSET Pn /\ \A pn \in released : Queued(pn)
      /\ missing \in SUBSET Pn /\ \A pn \in missing : Queued(pn)
  BY DEF SafetyInv, TypeOK, Missing
<1> HIDE DEF released, missing
<1>3. /\ send_base_packet_number' \in Pn
      /\ send_base_packet_number' <= next_packet_number
      /\ ack_received' \subseteq Pn
      /\ WindowAccounting'
  BY <1>1, <1>2, ReleaseKeepsAccounts
<1>4. /\ wire_data' \subseteq Pn \X Payload
      /\ retry_count' \in [Pn -> 0..(RetryCounts - 1)]
      /\ \A packet \in wire_data' : /\ packet[1] < next_packet_number
                                    /\ packet[2] = accepted[packet[1] + 1]
  BY <1>1, <1>2, RetransmitEffect
<1>5. failed' \subseteq Pn
  BY <1>1 DEF SafetyInv, TypeOK
<1> QED  BY <1>1, <1>2, <1>3, <1>4, <1>5, QueueStepSafety

\* The walk cut short marks what it released and leaves the base alone.
LEMMA ReceiveSackCutShortSafety ==
    ASSUME SafetyInv, NEW sack \in wire_sack, NEW stop \in Pn,
           ReceiveSackCutShort(sack, stop)
    PROVE  SafetyInv'
<1> DEFINE released == {pn \in sack.received : Queued(pn) /\ pn < stop}
           missing == {pn \in Missing(sack) : pn < stop}
<1>1. /\ RemoveFromQueue(released)
      /\ Retransmit(missing)
      /\ ack_received' = ack_received \cup {pn \in released : InWindow(pn)}
      /\ UNCHANGED <<hello_sent, wire_hello, next_packet_number, accepted>>
      /\ UNCHANGED <<send_base_packet_number, failed>>
      /\ UNCHANGED receiverVars
  BY DEF ReceiveSackCutShort
<1>2. /\ released \in SUBSET Pn /\ \A pn \in released : Queued(pn)
      /\ missing \in SUBSET Pn /\ \A pn \in missing : Queued(pn)
  BY DEF SafetyInv, TypeOK, Missing
<1> HIDE DEF released, missing
<1>3. /\ wire_data' \subseteq Pn \X Payload
      /\ retry_count' \in [Pn -> 0..(RetryCounts - 1)]
      /\ \A packet \in wire_data' : /\ packet[1] < next_packet_number
                                    /\ packet[2] = accepted[packet[1] + 1]
  BY <1>1, <1>2, RetransmitEffect
<1>4. \A pn \in released : InWindow(pn)
  <2>1. \A pn \in released : pn >= send_base_packet_number /\ pn < next_packet_number
    BY <1>2 DEF SafetyInv, WindowAccounting
  <2>2. /\ send_base_packet_number \in Nat /\ next_packet_number \in Nat
        /\ next_packet_number - send_base_packet_number <= WindowSize
        /\ released \subseteq Nat
    BY <1>2 DEF SafetyInv, TypeOK, WindowAccounting, Pn
  <2> QED  BY <2>1, <2>2, StreamAssumption DEF InWindow
<1>5. WindowAccounting'
  <2>1. \A pn \in Pn : Queued(pn)' <=> (Queued(pn) /\ pn \notin released)
    BY <1>1, <1>2, RemoveFromQueueEffect DEF Queued
  <2>2. ack_received' = ack_received \cup released
    BY <1>1, <1>4
  <2> QED  BY <1>1, <1>2, <2>1, <2>2 DEF SafetyInv, WindowAccounting
<1>6. /\ send_base_packet_number' \in Pn
      /\ send_base_packet_number' <= next_packet_number
      /\ ack_received' \subseteq Pn
      /\ failed' \subseteq Pn
  BY <1>1, <1>2 DEF SafetyInv, TypeOK, NumbersAgree
<1> QED  BY <1>1, <1>2, <1>3, <1>5, <1>6, QueueStepSafety

-----------------------------------------------------------------------------
\* A step of the receiver leaves the sender's half of the invariant alone.
LEMMA ReceiverStepSafety ==
    ASSUME SafetyInv, UNCHANGED senderVars,
           rx_peer' \in BOOLEAN,
           rx_next_packet_number' \in Pn,
           rx_next_packet_number' <= next_packet_number,
           rx_buffered' \in [Pn -> PayloadOrNone],
           wire_ack' \subseteq Pn,
           wire_sack' \subseteq [base : Pn, received : SUBSET Pn],
           delivered' \in Seq(Payload),
           \A pn \in Pn : rx_buffered'[pn] # NoData =>
               /\ pn > rx_next_packet_number'
               /\ pn < next_packet_number
               /\ rx_buffered'[pn] = accepted[pn + 1],
           Len(delivered') = rx_next_packet_number',
           \A i \in 1..rx_next_packet_number' : delivered'[i] = accepted[i]
    PROVE  SafetyInv'
<1> USE DEF senderVars, windowVars
<1>1. TypeOK'
  BY DEF SafetyInv, TypeOK
<1>2. NumbersAgree'
  BY DEF SafetyInv, NumbersAgree
<1>3. QueueHoldsAccepted'
  BY DEF SafetyInv, QueueHoldsAccepted, Queued
<1>4. BufferHoldsAccepted'
  BY DEF BufferHoldsAccepted, Buffered
<1>5. OnePayloadPerPacketNumber'
  BY DEF SafetyInv, OnePayloadPerPacketNumber
<1>6. WindowAccounting'
  BY DEF SafetyInv, WindowAccounting, Queued
<1>7. DeliveredInOrder'
  BY DEF SafetyInv, DeliveredInOrder, NumbersAgree
<1> QED  BY <1>1, <1>2, <1>3, <1>4, <1>5, <1>6, <1>7 DEF SafetyInv

\* HELLO, duplicates and out-of-order packets deliver nothing.
LEMMA ReceiveHelloSafety ==
    ASSUME SafetyInv, ReceiveHello
    PROVE  SafetyInv'
BY ReceiverStepSafety
   DEF ReceiveHello, SafetyInv, TypeOK, NumbersAgree, BufferHoldsAccepted,
       Buffered, DeliveredInOrder

\* A packet below rx_next is acknowledged again and changes nothing else.
LEMMA ReceiveDuplicateSafety ==
    ASSUME SafetyInv, NEW pn \in Pn, NEW data \in Payload,
           ReceiveDuplicate(pn, data)
    PROVE  SafetyInv'
BY ReceiverStepSafety
   DEF ReceiveDuplicate, SafetyInv, TypeOK, NumbersAgree, BufferHoldsAccepted,
       Buffered, DeliveredInOrder

\* Buffering a packet ahead of its turn keeps the invariant.
LEMMA ReceiveOutOfOrderSafety ==
    ASSUME SafetyInv, NEW pn \in Pn, NEW data \in Payload,
           ReceiveOutOfOrder(pn, data)
    PROVE  SafetyInv'
<1>1. /\ pn > rx_next_packet_number
      /\ pn < next_packet_number
      /\ data = accepted[pn + 1]
  BY DEF ReceiveOutOfOrder, SafetyInv, OnePayloadPerPacketNumber
<1>2. /\ rx_buffered' \in [Pn -> PayloadOrNone]
      /\ \A p \in Pn : rx_buffered'[p] # NoData =>
             \/ p = pn /\ rx_buffered'[p] = data
             \/ Buffered(p) /\ rx_buffered'[p] = rx_buffered[p]
  BY DEF ReceiveOutOfOrder, SafetyInv, TypeOK, PayloadOrNone, Buffered
<1>3. Sack(rx_next_packet_number, rx_buffered') \in [base : Pn, received : SUBSET Pn]
  BY DEF Sack, SafetyInv, TypeOK
<1>4. /\ wire_sack' \subseteq [base : Pn, received : SUBSET Pn]
      /\ rx_peer' \in BOOLEAN
      /\ UNCHANGED <<rx_next_packet_number, wire_ack, delivered>>
      /\ UNCHANGED senderVars
  BY <1>3 DEF ReceiveOutOfOrder, SafetyInv, TypeOK
<1>5. \A p \in Pn : rx_buffered'[p] # NoData =>
          /\ p > rx_next_packet_number'
          /\ p < next_packet_number
          /\ rx_buffered'[p] = accepted[p + 1]
  BY <1>1, <1>2, <1>4 DEF SafetyInv, BufferHoldsAccepted
<1> QED
  BY <1>2, <1>4, <1>5, ReceiverStepSafety
     DEF SafetyInv, TypeOK, NumbersAgree, DeliveredInOrder

\* A function on 1..n is a sequence of length n.
LEMMA FunctionIsSeq ==
    ASSUME NEW S, NEW n \in Nat, NEW f \in [1..n -> S]
    PROVE  f \in Seq(S) /\ Len(f) = n
OBVIOUS

\* Concatenating two stretches of a list, one behind the other, gives a stretch
\* of the list.
LEMMA ConcatFollows ==
    ASSUME NEW S, NEW head \in Seq(S), NEW tail \in Seq(S), NEW list,
           \A i \in 1..Len(head) : head[i] = list[i],
           \A i \in 1..Len(tail) : tail[i] = list[Len(head) + i]
    PROVE  /\ head \o tail \in Seq(S)
           /\ Len(head \o tail) = Len(head) + Len(tail)
           /\ \A i \in 1..(Len(head) + Len(tail)) : (head \o tail)[i] = list[i]
<1>1. /\ head \o tail \in Seq(S)
      /\ Len(head \o tail) = Len(head) + Len(tail)
  BY ConcatProperties
<1>2. Len(head) \in Nat /\ Len(tail) \in Nat
  BY LenProperties
<1>3. ASSUME NEW i \in 1..(Len(head) + Len(tail))
      PROVE  (head \o tail)[i] = list[i]
  <2>1. (head \o tail)[i] = IF i <= Len(head) THEN head[i] ELSE tail[i - Len(head)]
    BY ConcatProperties
  <2>2. CASE i <= Len(head)
    BY <1>2, <2>1, <2>2
  <2>3. CASE ~(i <= Len(head))
    <3>1. i - Len(head) \in 1..Len(tail) /\ Len(head) + (i - Len(head)) = i
      BY <1>2, <2>3
    <3> QED  BY <2>1, <2>3, <3>1
  <2> QED  BY <2>2, <2>3
<1> QED  BY <1>1, <1>3

\* What a drain appends: the packet that arrived and the buffered run behind it
\* are the next payloads that were accepted.
LEMMA DrainDeliversAccepted ==
    ASSUME SafetyInv, NEW pn \in Pn, NEW data \in Payload, NEW next \in Pn,
           <<pn, data>> \in wire_data,
           pn = rx_next_packet_number,
           next > pn,
           \A p \in (pn + 1)..(next - 1) : Buffered(p)
    PROVE  /\ next <= next_packet_number
           /\ DeliveredUpTo(next, pn, data) \in Seq(Payload)
           /\ Len(DeliveredUpTo(next, pn, data)) = next
           /\ \A i \in 1..next : DeliveredUpTo(next, pn, data)[i] = accepted[i]
<1>a. PICK drained : drained = [i \in 1..(next - 1 - pn) |-> rx_buffered[pn + i]]
  OBVIOUS
<1>b. PICK upto : upto = Append(delivered, data)
  OBVIOUS
<1>1. /\ pn \in Nat /\ next \in Nat /\ next_packet_number \in Nat
      /\ next <= PnMax /\ PnMax \in Nat
      /\ delivered \in Seq(Payload) /\ Len(delivered) = pn
      /\ pn < next_packet_number
      /\ data = accepted[pn + 1]
      /\ \A i \in 1..pn : delivered[i] = accepted[i]
  BY StreamAssumption
     DEF SafetyInv, TypeOK, DeliveredInOrder, OnePayloadPerPacketNumber, Pn
<1>2. \A p \in (pn + 1)..(next - 1) :
          /\ p \in Pn /\ p < next_packet_number
          /\ rx_buffered[p] \in Payload
          /\ rx_buffered[p] = accepted[p + 1]
  <2> SUFFICES ASSUME NEW p \in (pn + 1)..(next - 1)
               PROVE  /\ p \in Pn /\ p < next_packet_number
                      /\ rx_buffered[p] \in Payload
                      /\ rx_buffered[p] = accepted[p + 1]
    OBVIOUS
  <2>1. p \in Pn
    BY <1>1 DEF Pn
  <2>2. Buffered(p)
    OBVIOUS
  <2> QED
    BY <2>1, <2>2 DEF SafetyInv, BufferHoldsAccepted, Buffered, TypeOK, PayloadOrNone
<1>3. next <= next_packet_number
  <2>1. CASE next = pn + 1
    BY <2>1, <1>1
  <2>2. CASE next > pn + 1
    <3>1. next - 1 \in (pn + 1)..(next - 1)
      BY <2>2, <1>1
    <3>2. next - 1 < next_packet_number
      BY <3>1, <1>2
    <3> QED  BY <3>2, <1>1
  <2> QED  BY <2>1, <2>2, <1>1
<1>4. /\ drained \in Seq(Payload) /\ Len(drained) = next - 1 - pn
      /\ \A i \in 1..(next - 1 - pn) : drained[i] = accepted[pn + i + 1]
  <2>1. \A i \in 1..(next - 1 - pn) :
            /\ rx_buffered[pn + i] \in Payload
            /\ rx_buffered[pn + i] = accepted[pn + i + 1]
    <3> TAKE i \in 1..(next - 1 - pn)
    <3>1. pn + i \in (pn + 1)..(next - 1)
      BY <1>1
    <3> QED  BY <3>1, <1>2
  <2>2. next - 1 - pn \in Nat /\ drained \in [1..(next - 1 - pn) -> Payload]
    <3>1. next - 1 - pn \in Nat
      BY <1>1
    <3>2. drained \in [1..(next - 1 - pn) -> Payload]
      BY <1>a, <2>1
    <3> QED  BY <3>1, <3>2
  <2>3. drained \in Seq(Payload) /\ Len(drained) = next - 1 - pn
    BY <2>2, FunctionIsSeq
  <2> QED  BY <1>a, <2>1, <2>3
<1>5. /\ upto \in Seq(Payload) /\ Len(upto) = pn + 1
      /\ \A i \in 1..(pn + 1) : upto[i] = accepted[i]
  BY <1>1, <1>b
<1>6. DeliveredUpTo(next, pn, data) = upto \o drained
  BY <1>a, <1>b DEF DeliveredUpTo
<1>7. /\ upto \o drained \in Seq(Payload)
      /\ Len(upto \o drained) = Len(upto) + Len(drained)
      /\ \A i \in 1..(Len(upto) + Len(drained)) : (upto \o drained)[i] = accepted[i]
  <2>1. \A i \in 1..Len(upto) : upto[i] = accepted[i]
    BY <1>5
  <2>2. \A i \in 1..Len(drained) : drained[i] = accepted[Len(upto) + i]
    BY <1>1, <1>4, <1>5
  <2>3. upto \in Seq(Payload) /\ drained \in Seq(Payload)
    BY <1>4, <1>5
  <2> QED  BY <2>1, <2>2, <2>3, ConcatFollows
<1>8. Len(upto) + Len(drained) = next
  BY <1>1, <1>4, <1>5
<1> QED  BY <1>3, <1>6, <1>7, <1>8

\* In-order delivery advances rx_next over exactly what it delivers.
LEMMA ReceiveInOrderSafety ==
    ASSUME SafetyInv, NEW pn \in Pn, NEW data \in Payload, ReceiveInOrder(pn, data)
    PROVE  SafetyInv'
<1>1. PICK next \in (pn + 1)..PnMax :
        /\ <<pn, data>> \in wire_data
        /\ pn = rx_next_packet_number
        /\ \A p \in (pn + 1)..(next - 1) : Buffered(p)
        /\ ~Buffered(next)
        /\ rx_peer' = TRUE
        /\ rx_next_packet_number' = next
        /\ delivered' = DeliveredUpTo(next, pn, data)
        /\ rx_buffered' = [p \in Pn |-> IF p < next THEN NoData ELSE rx_buffered[p]]
        /\ wire_ack' = wire_ack \cup pn..(next - 1)
        /\ UNCHANGED wire_sack
        /\ UNCHANGED senderVars
  BY DEF ReceiveInOrder
<1>2. next \in Pn /\ next > pn /\ pn..(next - 1) \subseteq Pn
  BY StreamAssumption DEF Pn
<1>3. /\ next <= next_packet_number
      /\ delivered' \in Seq(Payload)
      /\ Len(delivered') = next
      /\ \A i \in 1..next : delivered'[i] = accepted[i]
  BY <1>1, <1>2, DrainDeliversAccepted
<1>4. rx_buffered' \in [Pn -> PayloadOrNone]
  BY <1>1 DEF SafetyInv, TypeOK, PayloadOrNone
<1>5. ASSUME NEW p \in Pn, rx_buffered'[p] # NoData
      PROVE  /\ p > next
             /\ p < next_packet_number
             /\ rx_buffered'[p] = accepted[p + 1]
  <2>1. ~(p < next) /\ rx_buffered'[p] = rx_buffered[p]
    BY <1>1, <1>5
  <2>2. Buffered(p)
    BY <1>5, <2>1 DEF Buffered
  <2>3. p # next
    BY <1>1, <2>2
  <2> QED  BY <1>2, <2>1, <2>2, <2>3 DEF SafetyInv, BufferHoldsAccepted, Pn
<1>6. wire_ack' \subseteq Pn
  BY <1>1, <1>2 DEF SafetyInv, TypeOK
<1> QED
  BY <1>1, <1>2, <1>3, <1>4, <1>5, <1>6, ReceiverStepSafety DEF SafetyInv, TypeOK

\* A delivery that fails stops the drain at the packet that failed.
LEMMA ReceiveInOrderFailsSafety ==
    ASSUME SafetyInv, NEW pn \in Pn, NEW data \in Payload, NEW stop \in Pn,
           ReceiveInOrderFails(pn, data, stop)
    PROVE  SafetyInv'
<1>1. /\ <<pn, data>> \in wire_data
      /\ pn = rx_next_packet_number
      /\ stop >= pn
      /\ \A p \in (pn + 1)..stop : Buffered(p)
      /\ rx_peer' = TRUE
      /\ rx_next_packet_number' = stop
      /\ rx_buffered' = [p \in Pn |-> IF p <= stop THEN NoData ELSE rx_buffered[p]]
      /\ wire_ack' = wire_ack \cup pn..stop
      /\ UNCHANGED wire_sack
      /\ UNCHANGED senderVars
  BY DEF ReceiveInOrderFails
<1>2. pn..stop \subseteq Pn /\ pn \in Nat /\ stop \in Nat
  BY StreamAssumption DEF Pn
<1>3. /\ stop <= next_packet_number
      /\ delivered' \in Seq(Payload)
      /\ Len(delivered') = stop
      /\ \A i \in 1..stop : delivered'[i] = accepted[i]
  <2>1. CASE stop = pn
    BY <1>1, <2>1
       DEF ReceiveInOrderFails, SafetyInv, TypeOK, NumbersAgree, DeliveredInOrder
  <2>2. CASE stop > pn
    <3>1. \A p \in (pn + 1)..(stop - 1) : Buffered(p)
      BY <1>1, <1>2
    <3>2. delivered' = DeliveredUpTo(stop, pn, data)
      BY <1>2, <2>2 DEF ReceiveInOrderFails
    <3> QED  BY <1>1, <2>2, <3>1, <3>2, DrainDeliversAccepted
  <2> QED  BY <1>1, <1>2, <2>1, <2>2
<1>4. rx_buffered' \in [Pn -> PayloadOrNone]
  BY <1>1 DEF SafetyInv, TypeOK, PayloadOrNone
<1>5. ASSUME NEW p \in Pn, rx_buffered'[p] # NoData
      PROVE  /\ p > stop
             /\ p < next_packet_number
             /\ rx_buffered'[p] = accepted[p + 1]
  <2>1. ~(p <= stop) /\ rx_buffered'[p] = rx_buffered[p]
    BY <1>1, <1>5
  <2>2. Buffered(p)
    BY <1>5, <2>1 DEF Buffered
  <2> QED  BY <1>2, <2>1, <2>2 DEF SafetyInv, BufferHoldsAccepted, Pn
<1>6. wire_ack' \subseteq Pn
  BY <1>1, <1>2 DEF SafetyInv, TypeOK
<1> QED
  BY <1>1, <1>3, <1>4, <1>5, <1>6, ReceiverStepSafety DEF SafetyInv, TypeOK

\* Every step keeps the invariant.
LEMMA StepSafety == SafetyInv /\ [Next]_vars => SafetyInv'
<1> SUFFICES ASSUME SafetyInv, [Next]_vars PROVE SafetyInv'
  OBVIOUS
<1>1. CASE Sender
  <2>1. CASE \E data \in Payload : SendAccepted(data)
    BY <2>1, SendAcceptedSafety
  <2>2. CASE SendRefused
    BY <2>2, SendRefusedSafety
  <2>3. CASE \E expired, refused \in SUBSET Pn :
                refused \subseteq expired /\ ProcessRetransmissions(expired, refused)
    BY <2>3, ProcessRetransmissionsSafety
  <2>4. CASE \E pn \in Pn : ReceiveAck(pn)
    BY <2>4, ReceiveAckSafety
  <2>5. CASE \E sack \in wire_sack : ReceiveEmptySack(sack)
    BY <2>5, ReceiveEmptySackSafety
  <2>6. CASE \E sack \in wire_sack : ReceiveSack(sack)
    BY <2>6, ReceiveSackSafety
  <2>7. CASE \E sack \in wire_sack, stop \in Pn : ReceiveSackCutShort(sack, stop)
    BY <2>7, ReceiveSackCutShortSafety
  <2> QED  BY <1>1, <2>1, <2>2, <2>3, <2>4, <2>5, <2>6, <2>7 DEF Sender
<1>2. CASE Receiver
  <2>1. CASE ReceiveHello
    BY <2>1, ReceiveHelloSafety
  <2>2. ASSUME NEW packet \in wire_data,
               \/ ReceiveDuplicate(packet[1], packet[2])
               \/ ReceiveOutOfOrder(packet[1], packet[2])
               \/ ReceiveInOrder(packet[1], packet[2])
               \/ \E stop \in Pn : ReceiveInOrderFails(packet[1], packet[2], stop)
        PROVE  SafetyInv'
    <3>1. packet[1] \in Pn /\ packet[2] \in Payload
      BY DEF SafetyInv, TypeOK
    <3> QED
      BY <2>2, <3>1, ReceiveDuplicateSafety, ReceiveOutOfOrderSafety,
         ReceiveInOrderSafety, ReceiveInOrderFailsSafety
  <2> QED  BY <1>2, <2>1, <2>2 DEF Receiver
<1>3. CASE UNCHANGED vars
  BY <1>3
     DEF vars, senderVars, windowVars, receiverVars, SafetyInv, TypeOK,
         NumbersAgree, QueueHoldsAccepted, BufferHoldsAccepted,
         OnePayloadPerPacketNumber, WindowAccounting, DeliveredInOrder,
         Queued, Buffered
<1> QED  BY <1>1, <1>2, <1>3 DEF Next

\* The inductive invariant holds throughout.
THEOREM SafetyInvariant == Spec => []SafetyInv
<1>1. Init => SafetyInv
  BY InitSafety
<1>2. SafetyInv /\ [Next]_vars => SafetyInv'
  BY StepSafety
<1> QED  BY <1>1, <1>2, PTL DEF Spec

\* The state stays in its types: in particular no base, packet number or
\* acknowledgement leaves the range of packet numbers.
THEOREM TypeCorrect == Spec => []TypeOK
<1>1. SafetyInv => TypeOK
  BY DEF SafetyInv
<1> QED  BY <1>1, SafetyInvariant, PTL

\* rx_callback sees what xgl_send accepted, in order and each payload once, for
\* every loss, duplication and reordering, delivery failures included.
THEOREM InOrderDelivery == Spec => []DeliveredInOrder
<1>1. SafetyInv => DeliveredInOrder
  BY DEF SafetyInv
<1> QED  BY <1>1, SafetyInvariant, PTL

\* A packet number never stands for two payloads.
THEOREM NumbersNameOnePayload == Spec => []OnePayloadPerPacketNumber
<1>1. SafetyInv => OnePayloadPerPacketNumber
  BY DEF SafetyInv
<1> QED  BY <1>1, SafetyInvariant, PTL

\* The window, the reliable queue and the reported failures agree.
THEOREM WindowAccounts == Spec => []WindowAccounting
<1>1. SafetyInv => WindowAccounting
  BY DEF SafetyInv
<1> QED  BY <1>1, SafetyInvariant, PTL

-----------------------------------------------------------------------------
(***************************************************************************)
(* Custody.  When no delivery fails, whatever the receiver vouches for it  *)
(* has, so the sender lets go of nothing the receiver lacks, and the base  *)
(* of the window never passes the packet the receiver waits for.           *)
(***************************************************************************)
SackMeansCustody == \A sack \in wire_sack : \A pn \in sack.received : Custody(pn)
MarkedMeansCustody == \A pn \in ack_received : Custody(pn)
BaseBehindReceiver == send_base_packet_number <= rx_next_packet_number

CustodyInv ==
    /\ AckMeansCustody
    /\ SackMeansCustody
    /\ MarkedMeansCustody
    /\ BaseBehindReceiver
    /\ NoSilentLoss

\* In the initial state nobody vouches for anything.
LEMMA InitCustody == Init => CustodyInv
BY StreamAssumption
   DEF Init, CustodyInv, AckMeansCustody, SackMeansCustody, MarkedMeansCustody,
       BaseBehindReceiver, NoSilentLoss, Pn

\* A step of the sender keeps custody if what it newly marks or lets go of is
\* held by the receiver and the base stays behind rx_next.
LEMMA SenderStepCustody ==
    ASSUME SafetyInv, CustodyInv, UNCHANGED receiverVars,
           \A pn \in ack_received' : Custody(pn),
           send_base_packet_number' <= rx_next_packet_number,
           \A pn \in Pn : pn < next_packet_number' =>
               reliable_queue'[pn] # NoData \/ pn \in failed' \/ Custody(pn)
    PROVE  CustodyInv'
<1>1. \A pn : Custody(pn)' <=> Custody(pn)
  BY DEF Custody, Buffered, receiverVars
<1> QED
  BY <1>1 DEF CustodyInv, AckMeansCustody, SackMeansCustody, MarkedMeansCustody,
              BaseBehindReceiver, NoSilentLoss, Queued, receiverVars

\* Releasing packets the receiver holds, and sliding the base over them.
LEMMA ReleaseCustody ==
    ASSUME SafetyInv, CustodyInv, NEW released \in SUBSET Pn,
           \A pn \in released : Queued(pn) /\ Custody(pn),
           RemoveFromQueue(released),
           AdvanceBase(ack_received \cup {pn \in released : InWindow(pn)}),
           UNCHANGED <<next_packet_number, failed>>,
           UNCHANGED receiverVars
    PROVE  CustodyInv'
<1> USE StreamAssumption
<1> DEFINE marked == ack_received \cup {pn \in released : InWindow(pn)}
<1>1. PICK base \in send_base_packet_number..(send_base_packet_number + WindowSize) :
        /\ \A pn \in send_base_packet_number..(base - 1) : pn \in marked
        /\ send_base_packet_number' = base
        /\ ack_received' = {pn \in marked : pn >= base}
  BY DEF AdvanceBase
<1>2. \A pn \in marked : Custody(pn)
  BY DEF CustodyInv, MarkedMeansCustody
<1>3. ~Custody(rx_next_packet_number)
  BY DEF SafetyInv, TypeOK, BufferHoldsAccepted, Custody, Pn
<1>4. base <= rx_next_packet_number
  <2> HIDE DEF marked
  <2>1. /\ send_base_packet_number \in Nat /\ rx_next_packet_number \in Nat
        /\ send_base_packet_number <= rx_next_packet_number
    BY DEF SafetyInv, TypeOK, CustodyInv, BaseBehindReceiver, Pn
  <2>2. ASSUME base > rx_next_packet_number PROVE FALSE
    <3>1. rx_next_packet_number \in send_base_packet_number..(base - 1)
      BY <2>1, <2>2
    <3> QED  BY <3>1, <1>1, <1>2, <1>3
  <2> QED  BY <2>1, <2>2
<1>5. \A pn \in Pn : pn < next_packet_number' =>
          reliable_queue'[pn] # NoData \/ pn \in failed' \/ Custody(pn)
  BY RemoveFromQueueEffect DEF CustodyInv, NoSilentLoss, Queued
<1> QED  BY <1>1, <1>2, <1>4, <1>5, SenderStepCustody

\* Sending: the new packet is queued.
LEMMA SendCustody ==
    ASSUME SafetyInv, CustodyInv,
           (\E data \in Payload : SendAccepted(data)) \/ SendRefused
    PROVE  CustodyInv'
<1>1. CASE SendRefused
  BY <1>1, SenderStepCustody
     DEF SendRefused, CustodyInv, MarkedMeansCustody, BaseBehindReceiver,
         NoSilentLoss, Queued, windowVars
<1>2. ASSUME NEW data \in Payload, SendAccepted(data)
      PROVE  CustodyInv'
  <2>1. /\ reliable_queue' = [reliable_queue EXCEPT ![next_packet_number] = data]
        /\ next_packet_number' = next_packet_number + 1
        /\ UNCHANGED <<send_base_packet_number, ack_received, failed>>
        /\ UNCHANGED receiverVars
    BY <1>2 DEF SendAccepted
  <2>2. \A pn \in Pn : pn < next_packet_number' =>
            reliable_queue'[pn] # NoData \/ pn \in failed' \/ Custody(pn)
    BY <2>1, StreamAssumption
       DEF SafetyInv, TypeOK, CustodyInv, NoSilentLoss, Queued, Pn
  <2> QED
    BY <2>1, <2>2, SenderStepCustody DEF CustodyInv, MarkedMeansCustody, BaseBehindReceiver
<1> QED  BY <1>1, <1>2

\* What a timeout pass removes from the queue it reports.
LEMMA ProcessRetransmissionsCustody ==
    ASSUME SafetyInv, CustodyInv, NEW expired \in SUBSET Pn, NEW refused \in SUBSET Pn,
           ProcessRetransmissions(expired, refused)
    PROVE  CustodyInv'
<1> DEFINE exhausted == {pn \in expired : retry_count[pn] >= MaxRetry}
<1>1. /\ RemoveFromQueue(exhausted)
      /\ failed' = failed \cup exhausted
      /\ UNCHANGED windowVars
      /\ UNCHANGED receiverVars
  BY DEF ProcessRetransmissions
<1>2. exhausted \in SUBSET Pn
  OBVIOUS
<1> HIDE DEF exhausted
<1>3. \A pn \in Pn : pn < next_packet_number' =>
          reliable_queue'[pn] # NoData \/ pn \in failed' \/ Custody(pn)
  BY <1>1, <1>2, RemoveFromQueueEffect DEF CustodyInv, NoSilentLoss, Queued, windowVars
<1> QED
  BY <1>1, <1>3, SenderStepCustody
     DEF CustodyInv, MarkedMeansCustody, BaseBehindReceiver, windowVars

\* An ACK and a SACK release only what they vouch for.
LEMMA AcknowledgementCustody ==
    ASSUME SafetyInv, CustodyInv,
           \/ \E pn \in Pn : ReceiveAck(pn)
           \/ \E sack \in wire_sack : ReceiveEmptySack(sack) \/ ReceiveSack(sack)
           \/ \E sack \in wire_sack, stop \in Pn : ReceiveSackCutShort(sack, stop)
    PROVE  CustodyInv'
<1>1. ASSUME NEW pn \in Pn, ReceiveAck(pn) PROVE CustodyInv'
  <2>1. /\ Queued(pn) /\ Custody(pn)
        /\ RemoveFromQueue({pn})
        /\ AdvanceBase(ack_received \cup {p \in {pn} : InWindow(p)})
        /\ UNCHANGED <<next_packet_number, failed>>
        /\ UNCHANGED receiverVars
    BY <1>1 DEF ReceiveAck, CustodyInv, AckMeansCustody
  <2> QED  BY <2>1, ReleaseCustody
<1>2. ASSUME NEW sack \in wire_sack, ReceiveEmptySack(sack) PROVE CustodyInv'
  BY <1>2, SenderStepCustody
     DEF ReceiveEmptySack, CustodyInv, MarkedMeansCustody, BaseBehindReceiver,
         NoSilentLoss, Queued, windowVars
<1>3. ASSUME NEW sack \in wire_sack, ReceiveSack(sack) PROVE CustodyInv'
  <2> DEFINE released == {pn \in sack.received : Queued(pn)}
  <2>1. /\ RemoveFromQueue(released)
        /\ AdvanceBase(ack_received \cup {pn \in released : InWindow(pn)})
        /\ UNCHANGED <<next_packet_number, failed>>
        /\ UNCHANGED receiverVars
    BY <1>3 DEF ReceiveSack
  <2>2. released \in SUBSET Pn /\ \A pn \in released : Queued(pn) /\ Custody(pn)
    BY DEF SafetyInv, TypeOK, CustodyInv, SackMeansCustody
  <2> HIDE DEF released
  <2> QED  BY <2>1, <2>2, ReleaseCustody
<1>4. ASSUME NEW sack \in wire_sack, NEW stop \in Pn, ReceiveSackCutShort(sack, stop)
      PROVE  CustodyInv'
  <2> DEFINE released == {pn \in sack.received : Queued(pn) /\ pn < stop}
  <2>1. /\ RemoveFromQueue(released)
        /\ ack_received' = ack_received \cup {pn \in released : InWindow(pn)}
        /\ UNCHANGED <<send_base_packet_number, next_packet_number, failed>>
        /\ UNCHANGED receiverVars
    BY <1>4 DEF ReceiveSackCutShort
  <2>2. released \in SUBSET Pn /\ \A pn \in released : Queued(pn) /\ Custody(pn)
    BY DEF SafetyInv, TypeOK, CustodyInv, SackMeansCustody
  <2> HIDE DEF released
  <2>3. \A pn \in Pn : pn < next_packet_number' =>
            reliable_queue'[pn] # NoData \/ pn \in failed' \/ Custody(pn)
    BY <2>1, <2>2, RemoveFromQueueEffect DEF CustodyInv, NoSilentLoss, Queued
  <2> QED
    BY <2>1, <2>2, <2>3, SenderStepCustody
       DEF CustodyInv, MarkedMeansCustody, BaseBehindReceiver
<1> QED  BY <1>1, <1>2, <1>3, <1>4

\* A step of the receiver keeps custody if it lets go of nothing it holds and
\* vouches only for what it then holds.
LEMMA ReceiverStepCustody ==
    ASSUME SafetyInv, CustodyInv, UNCHANGED senderVars,
           rx_next_packet_number' \in Nat,
           rx_next_packet_number' >= rx_next_packet_number,
           \A pn \in Pn : Custody(pn) => Custody(pn)',
           \A pn \in wire_ack' : pn \in wire_ack \/ Custody(pn)',
           \A sack \in wire_sack' :
               sack \in wire_sack \/ \A pn \in sack.received : Custody(pn)'
    PROVE  CustodyInv'
<1>1. AckMeansCustody'
  BY DEF AckMeansCustody, CustodyInv, SafetyInv, TypeOK
<1>2. SackMeansCustody'
  BY DEF SackMeansCustody, CustodyInv, SafetyInv, TypeOK
<1>3. MarkedMeansCustody'
  BY DEF MarkedMeansCustody, CustodyInv, SafetyInv, TypeOK, senderVars, windowVars
<1>4. BaseBehindReceiver'
  <2>1. /\ send_base_packet_number' = send_base_packet_number
        /\ send_base_packet_number \in Nat /\ rx_next_packet_number \in Nat
    BY DEF SafetyInv, TypeOK, Pn, senderVars, windowVars
  <2> QED  BY <2>1 DEF BaseBehindReceiver, CustodyInv
<1>5. NoSilentLoss'
  BY DEF NoSilentLoss, CustodyInv, Queued, senderVars, windowVars
<1> QED  BY <1>1, <1>2, <1>3, <1>4, <1>5 DEF CustodyInv

\* A duplicate, an out-of-order packet.
LEMMA ReceiveOtherCustody ==
    ASSUME SafetyInv, CustodyInv, NEW pn \in Pn, NEW data \in Payload,
           ReceiveDuplicate(pn, data) \/ ReceiveOutOfOrder(pn, data)
    PROVE  CustodyInv'
<1> USE DEF Pn
<1>1. rx_next_packet_number \in Nat /\ rx_next_packet_number >= rx_next_packet_number
  BY DEF SafetyInv, TypeOK
<1>2. CASE ReceiveDuplicate(pn, data)
  BY <1>1, <1>2, ReceiverStepCustody DEF ReceiveDuplicate, Custody, Buffered
<1>3. CASE ReceiveOutOfOrder(pn, data)
  <2>1. \A p \in Pn : Custody(p) => Custody(p)'
    BY <1>3 DEF ReceiveOutOfOrder, Custody, Buffered, SafetyInv, TypeOK
  <2>2. \A p \in Sack(rx_next_packet_number, rx_buffered').received : Custody(p)'
    BY DEF Sack, Custody, Buffered
  <2>3. /\ UNCHANGED senderVars
        /\ UNCHANGED <<rx_next_packet_number, wire_ack>>
        /\ wire_sack' = wire_sack \cup {Sack(rx_next_packet_number, rx_buffered')}
    BY <1>3 DEF ReceiveOutOfOrder
  <2> QED  BY <1>1, <2>1, <2>2, <2>3, ReceiverStepCustody
<1> QED  BY <1>2, <1>3

\* The drain acknowledges exactly what it passes.
LEMMA ReceiveInOrderCustody ==
    ASSUME SafetyInv, CustodyInv, NEW pn \in Pn, NEW data \in Payload,
           ReceiveInOrder(pn, data)
    PROVE  CustodyInv'
<1>1. PICK next \in (pn + 1)..PnMax :
        /\ pn = rx_next_packet_number
        /\ rx_next_packet_number' = next
        /\ rx_buffered' = [p \in Pn |-> IF p < next THEN NoData ELSE rx_buffered[p]]
        /\ wire_ack' = wire_ack \cup pn..(next - 1)
        /\ UNCHANGED wire_sack
        /\ UNCHANGED senderVars
  BY DEF ReceiveInOrder
<1>2. pn \in Nat /\ next \in Nat /\ next > pn
  BY StreamAssumption DEF Pn
<1>3. \A p \in Pn : Custody(p) => Custody(p)'
  BY <1>1, <1>2 DEF Custody, Buffered, Pn
<1>4. \A p \in wire_ack' : p \in wire_ack \/ Custody(p)'
  BY <1>1, <1>2 DEF Custody
<1> QED  BY <1>1, <1>2, <1>3, <1>4, ReceiverStepCustody

\* Every step keeps custody when no delivery fails.
LEMMA StepCustody ==
    ~DeliverCanFail => (SafetyInv /\ CustodyInv /\ [Next]_vars => CustodyInv')
<1> SUFFICES ASSUME ~DeliverCanFail, SafetyInv, CustodyInv, [Next]_vars
             PROVE  CustodyInv'
  OBVIOUS
<1>1. CASE Sender
  <2>1. CASE (\E data \in Payload : SendAccepted(data)) \/ SendRefused
    BY <2>1, SendCustody
  <2>2. CASE \E expired, refused \in SUBSET Pn :
                refused \subseteq expired /\ ProcessRetransmissions(expired, refused)
    BY <2>2, ProcessRetransmissionsCustody
  <2>3. CASE \/ \E pn \in Pn : ReceiveAck(pn)
             \/ \E sack \in wire_sack : ReceiveEmptySack(sack) \/ ReceiveSack(sack)
             \/ \E sack \in wire_sack, stop \in Pn : ReceiveSackCutShort(sack, stop)
    BY <2>3, AcknowledgementCustody
  <2> QED  BY <1>1, <2>1, <2>2, <2>3 DEF Sender
<1>2. CASE Receiver
  <2>1. CASE ReceiveHello
    BY <2>1, ReceiverStepCustody DEF ReceiveHello, Custody, Buffered, SafetyInv, TypeOK, Pn
  <2>2. ASSUME NEW packet \in wire_data,
               \/ ReceiveDuplicate(packet[1], packet[2])
               \/ ReceiveOutOfOrder(packet[1], packet[2])
               \/ ReceiveInOrder(packet[1], packet[2])
               \/ \E stop \in Pn : ReceiveInOrderFails(packet[1], packet[2], stop)
        PROVE  CustodyInv'
    <3>1. packet[1] \in Pn /\ packet[2] \in Payload
      BY DEF SafetyInv, TypeOK
    <3>2. ~(\E stop \in Pn : ReceiveInOrderFails(packet[1], packet[2], stop))
      BY DEF ReceiveInOrderFails
    <3> QED  BY <2>2, <3>1, <3>2, ReceiveOtherCustody, ReceiveInOrderCustody
  <2> QED  BY <1>2, <2>1, <2>2 DEF Receiver
<1>3. CASE UNCHANGED vars
  BY <1>3
     DEF vars, senderVars, windowVars, receiverVars, CustodyInv, AckMeansCustody,
         SackMeansCustody, MarkedMeansCustody, BaseBehindReceiver, NoSilentLoss,
         Custody, Queued, Buffered
<1> QED  BY <1>1, <1>2, <1>3 DEF Next

\* When no delivery fails, every acknowledgement is true and the base stays
\* behind the receiver.
THEOREM CustodyInvariant == ~DeliverCanFail => (Spec => []CustodyInv)
<1> SUFFICES ASSUME ~DeliverCanFail PROVE Spec => []CustodyInv
  OBVIOUS
<1>1. Init => CustodyInv
  BY InitCustody
<1>2. SafetyInv /\ CustodyInv /\ [Next]_vars => CustodyInv'
  BY StepCustody
<1> QED  BY <1>1, <1>2, SafetyInvariant, PTL DEF Spec

\* A packet leaves the reliable queue only to the receiver or with a report.
THEOREM SilentLossFree == ~DeliverCanFail => (Spec => []NoSilentLoss)
<1> SUFFICES ASSUME ~DeliverCanFail PROVE Spec => []NoSilentLoss
  OBVIOUS
<1>1. CustodyInv => NoSilentLoss
  BY DEF CustodyInv
<1>2. Spec => []CustodyInv
  BY CustodyInvariant
<1> QED  BY <1>1, <1>2, PTL

\* The packets above rx_next fit in a window, so the buffer, which lies among
\* them and lacks the one that arrives, has a free slot.
LEMMA RoomInBuffer ==
    ASSUME RxWindowSize >= WindowSize,
           SafetyInv, CustodyInv, NEW pn \in Pn,
           pn > rx_next_packet_number, pn < next_packet_number, ~Buffered(pn)
    PROVE  RoomFor(pn)
<1> USE StreamAssumption
<1> DEFINE rx == rx_next_packet_number
           cached == {p \in Pn : Buffered(p)}
           window == (rx + 1)..(next_packet_number - 1)
<1>1. /\ rx \in Nat /\ next_packet_number \in Nat /\ send_base_packet_number \in Nat
      /\ pn \in Nat
      /\ send_base_packet_number <= rx
      /\ next_packet_number - send_base_packet_number <= WindowSize
  BY DEF SafetyInv, TypeOK, WindowAccounting, CustodyInv, BaseBehindReceiver, Pn
<1>2. next_packet_number - rx <= WindowSize
  BY <1>1, SlideNarrowsWindow
<1>3. pn - rx < RxWindowSize
  BY <1>1, <1>2
<1>4. cached \subseteq window
  BY <1>1 DEF SafetyInv, BufferHoldsAccepted, Pn
<1>5. IsFiniteSet(window) /\ Cardinality(window) = next_packet_number - 1 - rx
  BY <1>1, FS_Interval
<1>6. IsFiniteSet(cached) /\ Cardinality(cached) <= Cardinality(window)
  BY <1>4, <1>5, FS_Subset
<1>7. Cardinality(cached) < RxWindowSize
  <2>1. Cardinality(cached) \in Nat
    BY <1>6, FS_CardinalityType
  <2> HIDE DEF cached, window
  <2> QED  BY <1>1, <1>2, <1>5, <1>6, <2>1
<1> QED  BY <1>3, <1>7 DEF RoomFor

\* The out-of-order buffer never turns away a packet of its session.
THEOREM BufferNeverRefuses ==
    ~DeliverCanFail /\ RxWindowSize >= WindowSize => (Spec => []ReceiverHasRoom)
<1> SUFFICES ASSUME ~DeliverCanFail, RxWindowSize >= WindowSize
             PROVE  Spec => []ReceiverHasRoom
  OBVIOUS
<1>1. SafetyInv /\ CustodyInv => ReceiverHasRoom
  <2> SUFFICES ASSUME SafetyInv, CustodyInv, NEW packet \in wire_data,
                      packet[1] > rx_next_packet_number, ~Buffered(packet[1])
               PROVE  RoomFor(packet[1])
    BY DEF ReceiverHasRoom
  <2>1. packet[1] \in Pn /\ packet[1] < next_packet_number
    BY DEF SafetyInv, TypeOK, OnePayloadPerPacketNumber
  <2> QED  BY <2>1, RoomInBuffer
<1>2. Spec => []CustodyInv
  BY CustodyInvariant
<1> QED  BY <1>1, <1>2, SafetyInvariant, PTL

-----------------------------------------------------------------------------
(***************************************************************************)
(* ReliableStream implements OrderedChannel when no delivery fails.  The   *)
(* invariants above say which packets an acknowledgement may release; each *)
(* step of the stream is then one step of the channel, or none.            *)
(***************************************************************************)
\* Both ends empty: the initial state of the channel.
LEMMA InitRefines == Init => Channel!Init
BY StreamAssumption DEF Init, Channel!Init, Held, Confirmed, Buffered, Pn

\* A step that changes neither the applications' view nor the two copies of any
\* packet is no step of the channel.
LEMMA StutterRefines ==
    ASSUME UNCHANGED <<accepted, delivered, failed, next_packet_number,
                       reliable_queue, rx_buffered>>
    PROVE  UNCHANGED Channel!channelVars
BY DEF Channel!channelVars, Held, Confirmed, Queued, Buffered

\* xgl_send accepts: the new packet is queued, so it is not confirmed.
LEMMA SendRefines ==
    ASSUME SafetyInv, NEW data \in Payload, SendAccepted(data)
    PROVE  Channel!Next
<1> USE StreamAssumption
<1>1. /\ reliable_queue' = [reliable_queue EXCEPT ![next_packet_number] = data]
      /\ next_packet_number' = next_packet_number + 1
      /\ accepted' = Append(accepted, data)
      /\ UNCHANGED failed
      /\ UNCHANGED receiverVars
  BY DEF SendAccepted
<1>2. Held' = Held
  BY <1>1 DEF Held, Buffered, receiverVars
<1>3. Confirmed' = Confirmed
  <2>1. next_packet_number \in Nat /\ next_packet_number \in Pn
        /\ reliable_queue \in [Pn -> PayloadOrNone]
    BY DEF SafetyInv, TypeOK, Pn
  <2>2. ASSUME NEW pn \in Pn
        PROVE  (pn < next_packet_number' /\ ~Queued(pn)' /\ pn \notin failed')
               <=> (pn < next_packet_number /\ ~Queued(pn) /\ pn \notin failed)
    BY <1>1, <2>1 DEF Queued, Pn
  <2> QED  BY <2>2 DEF Confirmed
<1> QED  BY <1>1, <1>2, <1>3 DEF Channel!Next, Channel!Accept, receiverVars

\* A release of packets the receiver holds is a confirmation.
LEMMA ReleaseRefines ==
    ASSUME SafetyInv, NEW released \in SUBSET Pn,
           \A pn \in released : Queued(pn) /\ Custody(pn),
           RemoveFromQueue(released),
           UNCHANGED <<next_packet_number, accepted, failed>>,
           UNCHANGED receiverVars
    PROVE  Channel!Next
<1>1. \A pn \in released : /\ pn < next_packet_number /\ pn \notin failed
                           /\ pn \notin Confirmed
  BY DEF SafetyInv, WindowAccounting, Confirmed
<1>2. \A pn \in released : pn \in Channel!Delivered \cup Held
  <2> SUFFICES ASSUME NEW pn \in released
               PROVE  pn \in 0..(Len(delivered) - 1) \/ Buffered(pn)
    BY DEF Channel!Delivered, Held
  <2>1. /\ pn \in Nat /\ rx_next_packet_number \in Nat
        /\ Len(delivered) = rx_next_packet_number
    BY DEF SafetyInv, TypeOK, DeliveredInOrder, Pn
  <2> QED  BY <2>1 DEF Custody
<1>3. Confirmed' = Confirmed \cup released
  <2>1. \A pn \in Pn : Queued(pn)' <=> (Queued(pn) /\ pn \notin released)
    BY RemoveFromQueueEffect DEF Queued
  <2> QED  BY <1>1, <2>1 DEF Confirmed
<1>4. Held' = Held
  BY DEF Held, Buffered, receiverVars
<1>5. released \in SUBSET Channel!Accepted
  <2>1. \A pn \in released : pn \in Nat /\ pn < Len(accepted) /\ Len(accepted) \in Nat
    BY <1>1 DEF SafetyInv, TypeOK, NumbersAgree, Pn
  <2> QED  BY <2>1 DEF Channel!Accepted
<1>6. Channel!Confirm(released)
  BY <1>1, <1>2, <1>3, <1>4 DEF Channel!Confirm, receiverVars
<1> QED  BY <1>5, <1>6 DEF Channel!Next

\* What a timeout pass gives up is a failure of the channel.
LEMMA GiveUpRefines ==
    ASSUME SafetyInv, NEW expired \in SUBSET Pn, NEW refused \in SUBSET Pn,
           ProcessRetransmissions(expired, refused)
    PROVE  Channel!Next
<1> DEFINE exhausted == {pn \in expired : retry_count[pn] >= MaxRetry}
<1>1. /\ RemoveFromQueue(exhausted)
      /\ failed' = failed \cup exhausted
      /\ UNCHANGED <<next_packet_number, accepted>>
      /\ UNCHANGED receiverVars
  BY DEF ProcessRetransmissions, windowVars
<1>2. exhausted \in SUBSET Pn /\ \A pn \in exhausted : Queued(pn)
  BY DEF ProcessRetransmissions
<1> HIDE DEF exhausted
<1>3. \A pn \in exhausted : /\ pn < next_packet_number /\ pn \notin failed
                            /\ pn \notin Confirmed
  BY <1>2 DEF SafetyInv, WindowAccounting, Confirmed
<1>4. Confirmed' = Confirmed
  <2>1. \A pn \in Pn : Queued(pn)' <=> (Queued(pn) /\ pn \notin exhausted)
    BY <1>1, <1>2, RemoveFromQueueEffect DEF Queued
  <2> QED  BY <1>1, <1>2, <2>1 DEF Confirmed
<1>5. Held' = Held
  BY <1>1 DEF Held, Buffered, receiverVars
<1>6. exhausted \in SUBSET Channel!Accepted
  <2>1. \A pn \in exhausted : pn \in Nat /\ pn < Len(accepted) /\ Len(accepted) \in Nat
    BY <1>2, <1>3 DEF SafetyInv, TypeOK, NumbersAgree, Pn
  <2> QED  BY <2>1 DEF Channel!Accepted
<1>7. Channel!Fail(exhausted)
  BY <1>1, <1>3, <1>4, <1>5, <1>6 DEF Channel!Fail, receiverVars
<1> QED  BY <1>6, <1>7 DEF Channel!Next

\* ACK and SACK release what the receiver holds.
LEMMA AcknowledgementRefines ==
    ASSUME SafetyInv, CustodyInv,
           \/ \E pn \in Pn : ReceiveAck(pn)
           \/ \E sack \in wire_sack : ReceiveSack(sack)
           \/ \E sack \in wire_sack, stop \in Pn : ReceiveSackCutShort(sack, stop)
    PROVE  Channel!Next
<1>1. ASSUME NEW pn \in Pn, ReceiveAck(pn) PROVE Channel!Next
  <2>1. /\ Queued(pn) /\ Custody(pn)
        /\ RemoveFromQueue({pn})
        /\ UNCHANGED <<next_packet_number, accepted, failed>>
        /\ UNCHANGED receiverVars
    BY <1>1 DEF ReceiveAck, CustodyInv, AckMeansCustody
  <2> QED  BY <2>1, ReleaseRefines
<1>2. ASSUME NEW sack \in wire_sack, ReceiveSack(sack) PROVE Channel!Next
  <2> DEFINE released == {pn \in sack.received : Queued(pn)}
  <2>1. /\ RemoveFromQueue(released)
        /\ UNCHANGED <<next_packet_number, accepted, failed>>
        /\ UNCHANGED receiverVars
    BY <1>2 DEF ReceiveSack
  <2>2. released \in SUBSET Pn /\ \A pn \in released : Queued(pn) /\ Custody(pn)
    BY DEF SafetyInv, TypeOK, CustodyInv, SackMeansCustody
  <2> HIDE DEF released
  <2> QED  BY <2>1, <2>2, ReleaseRefines
<1>3. ASSUME NEW sack \in wire_sack, NEW stop \in Pn, ReceiveSackCutShort(sack, stop)
      PROVE  Channel!Next
  <2> DEFINE released == {pn \in sack.received : Queued(pn) /\ pn < stop}
  <2>1. /\ RemoveFromQueue(released)
        /\ UNCHANGED <<next_packet_number, accepted, failed>>
        /\ UNCHANGED receiverVars
    BY <1>3 DEF ReceiveSackCutShort
  <2>2. released \in SUBSET Pn /\ \A pn \in released : Queued(pn) /\ Custody(pn)
    BY DEF SafetyInv, TypeOK, CustodyInv, SackMeansCustody
  <2> HIDE DEF released
  <2> QED  BY <2>1, <2>2, ReleaseRefines
<1> QED  BY <1>1, <1>2, <1>3

\* Caching a packet is the channel's Hold; a packet already cached, or not
\* cached for want of room, changes nothing.
LEMMA OutOfOrderRefines ==
    ASSUME SafetyInv, NEW pn \in Pn, NEW data \in Payload, ReceiveOutOfOrder(pn, data)
    PROVE  [Channel!Next]_(Channel!channelVars)
<1>1. /\ <<pn, data>> \in wire_data /\ pn > rx_next_packet_number
      /\ UNCHANGED <<accepted, delivered, failed, next_packet_number, reliable_queue>>
  BY DEF ReceiveOutOfOrder, senderVars, windowVars
<1>2. CASE rx_buffered' = rx_buffered
  BY <1>1, <1>2, StutterRefines
<1>3. CASE rx_buffered' = [rx_buffered EXCEPT ![pn] = data]
  <2>1. Held' = Held \cup {pn}
    BY <1>3, StreamAssumption DEF SafetyInv, TypeOK, Held, Buffered
  <2>2. Confirmed' = Confirmed
    BY <1>1 DEF Confirmed, Queued
  <2>3. /\ pn \in Nat /\ Len(accepted) \in Nat /\ pn < Len(accepted)
        /\ Len(delivered) = rx_next_packet_number
    BY <1>1 DEF SafetyInv, TypeOK, NumbersAgree, DeliveredInOrder,
                OnePayloadPerPacketNumber, Pn
  <2>4. pn \in Channel!Accepted
    BY <2>3 DEF Channel!Accepted
  <2>5. Channel!Hold(pn)
    BY <1>1, <2>1, <2>2, <2>3, <2>4 DEF Channel!Hold
  <2> QED  BY <2>4, <2>5 DEF Channel!Next
<1> QED  BY <1>2, <1>3 DEF ReceiveOutOfOrder

\* Delivery and drain are the channel's Deliver.
LEMMA InOrderRefines ==
    ASSUME SafetyInv, NEW pn \in Pn, NEW data \in Payload, ReceiveInOrder(pn, data)
    PROVE  Channel!Next
<1>1. PICK next \in (pn + 1)..PnMax :
        /\ <<pn, data>> \in wire_data
        /\ pn = rx_next_packet_number
        /\ \A p \in (pn + 1)..(next - 1) : Buffered(p)
        /\ ~Buffered(next)
        /\ delivered' = DeliveredUpTo(next, pn, data)
        /\ rx_buffered' = [p \in Pn |-> IF p < next THEN NoData ELSE rx_buffered[p]]
        /\ UNCHANGED senderVars
  BY DEF ReceiveInOrder
<1>2. /\ next \in Pn /\ next > pn /\ pn \in Nat /\ next \in Nat /\ next <= PnMax
      /\ PnMax \in Nat
  BY StreamAssumption DEF Pn
<1>3. /\ next <= next_packet_number
      /\ delivered' \in Seq(Payload)
      /\ Len(delivered') = next
      /\ \A i \in 1..next : delivered'[i] = accepted[i]
  BY <1>1, <1>2, DrainDeliversAccepted
<1>4. /\ accepted \in Seq(Payload) /\ Len(accepted) = next_packet_number
      /\ Len(delivered) = pn /\ next_packet_number \in Nat
  BY <1>1 DEF SafetyInv, TypeOK, NumbersAgree, DeliveredInOrder, Pn
<1>5. delivered' = SubSeq(accepted, 1, next)
  BY <1>2, <1>3, <1>4
<1>6. next - 1 \in Channel!Accepted /\ next - 1 >= Len(delivered)
  BY <1>2, <1>3, <1>4 DEF Channel!Accepted
<1>7. \A p \in (Len(delivered) + 1)..(next - 1) : p \in Held
  BY <1>1, <1>2, <1>4 DEF Held, Pn
<1>8. next \notin Held
  BY <1>1 DEF Held
<1>9. Held' = {p \in Held : p > next - 1}
  BY <1>1, <1>2 DEF Held, Buffered, Pn
<1>10. Confirmed' = Confirmed /\ accepted' = accepted /\ failed' = failed
  BY <1>1 DEF Confirmed, Queued, senderVars, windowVars
<1>11. Channel!Deliver(next - 1)
  <2>1. next - 1 + 1 = next
    BY <1>2
  <2> QED
    BY <1>5, <1>6, <1>7, <1>8, <1>9, <1>10, <2>1 DEF Channel!Deliver
<1> QED  BY <1>6, <1>11 DEF Channel!Next

\* Every step of the stream is a step of the channel or none.
LEMMA StepRefines ==
    ~DeliverCanFail =>
        (SafetyInv /\ CustodyInv /\ [Next]_vars => [Channel!Next]_(Channel!channelVars))
<1> SUFFICES ASSUME ~DeliverCanFail, SafetyInv, CustodyInv, [Next]_vars
             PROVE  [Channel!Next]_(Channel!channelVars)
  OBVIOUS
<1>1. CASE Sender
  <2>1. CASE \E data \in Payload : SendAccepted(data)
    BY <2>1, SendRefines
  <2>2. CASE SendRefused
    BY <2>2, StutterRefines DEF SendRefused, windowVars, receiverVars
  <2>3. CASE \E expired, refused \in SUBSET Pn :
                refused \subseteq expired /\ ProcessRetransmissions(expired, refused)
    BY <2>3, GiveUpRefines
  <2>4. CASE \/ \E pn \in Pn : ReceiveAck(pn)
             \/ \E sack \in wire_sack : ReceiveSack(sack)
             \/ \E sack \in wire_sack, stop \in Pn : ReceiveSackCutShort(sack, stop)
    BY <2>4, AcknowledgementRefines
  <2>5. CASE \E sack \in wire_sack : ReceiveEmptySack(sack)
    BY <2>5, StutterRefines DEF ReceiveEmptySack, windowVars, receiverVars
  <2> QED  BY <1>1, <2>1, <2>2, <2>3, <2>4, <2>5 DEF Sender
<1>2. CASE Receiver
  <2>1. CASE ReceiveHello
    BY <2>1, StutterRefines DEF ReceiveHello, senderVars, windowVars
  <2>2. ASSUME NEW packet \in wire_data,
               \/ ReceiveDuplicate(packet[1], packet[2])
               \/ ReceiveOutOfOrder(packet[1], packet[2])
               \/ ReceiveInOrder(packet[1], packet[2])
               \/ \E stop \in Pn : ReceiveInOrderFails(packet[1], packet[2], stop)
        PROVE  [Channel!Next]_(Channel!channelVars)
    <3>1. packet[1] \in Pn /\ packet[2] \in Payload
      BY DEF SafetyInv, TypeOK
    <3>2. CASE ReceiveDuplicate(packet[1], packet[2])
      BY <3>2, StutterRefines DEF ReceiveDuplicate, senderVars, windowVars
    <3>3. CASE ReceiveOutOfOrder(packet[1], packet[2])
      BY <3>1, <3>3, OutOfOrderRefines
    <3>4. CASE ReceiveInOrder(packet[1], packet[2])
      BY <3>1, <3>4, InOrderRefines
    <3>5. ~(\E stop \in Pn : ReceiveInOrderFails(packet[1], packet[2], stop))
      BY DEF ReceiveInOrderFails
    <3> QED  BY <2>2, <3>2, <3>3, <3>4, <3>5
  <2> QED  BY <1>2, <2>1, <2>2 DEF Receiver
<1>3. CASE UNCHANGED vars
  BY <1>3, StutterRefines DEF vars, senderVars, windowVars, receiverVars
<1> QED  BY <1>1, <1>2, <1>3 DEF Next

\* The stream is an ordered channel: window, acknowledgements, SACK walks,
\* retransmissions and duplicates do not show at the two applications.
THEOREM StreamImplementsChannel == ~DeliverCanFail => (Spec => ImplementsChannel)
<1> SUFFICES ASSUME ~DeliverCanFail PROVE Spec => ImplementsChannel
  OBVIOUS
<1>1. Init => Channel!Init
  BY InitRefines
<1>2. SafetyInv /\ CustodyInv /\ [Next]_vars => [Channel!Next]_(Channel!channelVars)
  BY StepRefines
<1>3. Spec => []CustodyInv
  BY CustodyInvariant
<1> QED  BY <1>1, <1>2, <1>3, SafetyInvariant, PTL DEF Spec, ImplementsChannel, Channel!Spec
=============================================================================
