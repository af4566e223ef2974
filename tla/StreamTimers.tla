---------------------------- MODULE StreamTimers ----------------------------
(***************************************************************************)
(* The stream of ReliableStream with the timers of its queued packets: a   *)
(* packet is stamped whenever it is sent, a pass of                        *)
(* transport_process_retransmissions takes up the packets whose timeout    *)
(* has elapsed since, and a retransmission that a SACK asks for stamps the *)
(* packet anew.  A packet stamped at millisecond 0 of the clock counts as  *)
(* not sent yet and no pass takes it up.                                   *)
(*                                                                         *)
(* Time goes in ticks.  A timeout is AckTicks of them: backoff, which makes*)
(* later ones longer, is a matter of Runtime, as are passes that work with *)
(* an old reading of the clock.                                            *)
(***************************************************************************)
EXTENDS ReliableStream

CONSTANT AckTicks   \* ticks from a stamp to its timeout

ASSUME TickAssumption == AckTicks \in Nat \ {0}

NoTimer == -1   \* the packet is not queued
Never == -2     \* its send_timestamp is 0

VARIABLES
    timer,     \* packet number -> ticks left, NoTimer or Never
    by_sack    \* packets the last step stamped because of a SACK

timedVars == <<vars, timer, by_sack>>

Elapsed == {pn \in Pn : timer[pn] = 0}

\* send_timestamp of each of pns becomes the reading of the clock, which may be
\* 0.  Packets that leave the queue take their stamps with them.
Stamp(pns) ==
    timer' \in {[pn \in Pn |-> IF reliable_queue'[pn] = NoData THEN NoTimer
                               ELSE IF pn \in pns THEN stamp
                               ELSE timer[pn]] : stamp \in {AckTicks, Never}}

TimedInit ==
    /\ Init
    /\ timer = [pn \in Pn |-> NoTimer]
    /\ by_sack = {}

-----------------------------------------------------------------------------
TimedSend ==
    /\ \/ (\E data \in Payload : SendAccepted(data)) /\ Stamp({next_packet_number})
       \/ SendRefused /\ UNCHANGED timer
    /\ by_sack' = {}

\* One pass over the queue.  What the lower layer refuses keeps its stamp.
Pass(refused) ==
    /\ refused \subseteq Elapsed
    /\ ProcessRetransmissions(Elapsed, refused)
    /\ Stamp(Elapsed \ refused)
    /\ by_sack' = {}

TimedAck ==
    /\ \E pn \in Pn : ReceiveAck(pn)
    /\ Stamp({})
    /\ by_sack' = {}

TimedSack(sack) ==
    \/ /\ ReceiveEmptySack(sack)
       /\ Stamp({sack.base})
       /\ by_sack' = {sack.base}
    \/ /\ ReceiveSack(sack)
       /\ Stamp(Missing(sack))
       /\ by_sack' = Missing(sack)
    \/ \E stop \in Pn :
          /\ ReceiveSackCutShort(sack, stop)
          /\ Stamp({pn \in Missing(sack) : pn < stop})
          /\ by_sack' = {pn \in Missing(sack) : pn < stop}

TimedReceiver ==
    /\ Receiver
    /\ UNCHANGED timer
    /\ by_sack' = {}

\* A millisecond or more goes by.
Tick ==
    /\ \E pn \in Pn : timer[pn] > 0
    /\ timer' = [pn \in Pn |-> IF timer[pn] > 0 THEN timer[pn] - 1 ELSE timer[pn]]
    /\ by_sack' = {}
    /\ UNCHANGED vars

TimedNext ==
    \/ TimedSend
    \/ \E refused \in SUBSET Pn : Pass(refused)
    \/ TimedAck
    \/ \E sack \in wire_sack : TimedSack(sack)
    \/ TimedReceiver
    \/ Tick

(***************************************************************************)
(* Fairness.  The clock moves, and a packet whose timeout stays elapsed is *)
(* taken up by a pass in which the lower layer does not refuse it: xgl_run *)
(* keeps being called, and the link takes a frame now and then.  Nothing   *)
(* is assumed of the network, nor of SACKs, which may stamp a packet again *)
(* before its timeout elapses or after.                                    *)
(***************************************************************************)
TakenUp(pn) == \E refused \in SUBSET (Pn \ {pn}) : pn \in Elapsed /\ Pass(refused)

FairSpec ==
    /\ TimedInit /\ [][TimedNext]_timedVars
    /\ WF_timedVars(Tick)
    /\ \A pn \in Pn : WF_timedVars(TakenUp(pn))

-----------------------------------------------------------------------------
\* What keeps a packet queued for ever: SACKs that stamp it again and again
\* (xgl_transport_retransmit.c:50), or a stamp of 0 that stays (:68).
HeldUp(pn) == []<>(pn \in by_sack) \/ <>[](timer[pn] = Never)

\* Every queued packet leaves the queue, acknowledged or given up, unless it is
\* held up; in particular a retry_count that SACKs made wrap delays the end and
\* does not prevent it.
QueueDrains == \A pn \in Pn : (Queued(pn) ~> ~Queued(pn)) \/ HeldUp(pn)

\* As long as no packet is held up or given up, and none is acknowledged whose
\* delivery fails, every accepted packet is delivered.
DeliveredUnlessGivenUp ==
    \/ \A pn \in Pn : pn < next_packet_number ~>
          (pn < rx_next_packet_number \/ failed # {} \/ ~AckMeansCustody)
    \/ \E pn \in Pn : HeldUp(pn)

\* docs/en/reference/validation-matrix.md:35: "reliable packets delivered in
\* order or fail by retry limit" - each packet, one or the other.
DeliveredOrGivenUp ==
    \A pn \in Pn : pn < next_packet_number ~>
                      (pn < rx_next_packet_number \/ pn \in failed)

\* docs/en/guide/send-api.md:30: after XGL_ERR_WINDOW_FULL "Retry later": a full
\* window does not stay full.
WindowReopens == []<>CanSend
=============================================================================
