-------------------------- MODULE AuthenticatedLink --------------------------
(***************************************************************************)
(* The packets one node sends in its authenticated connections, with the   *)
(* packet numbers its transport gives them, arriving at the anti-replay    *)
(* table of the data link layer of another node.  The link loses, repeats  *)
(* and reorders them.                                                      *)
(***************************************************************************)
EXTENDS Datalink, FiniteSets

CONSTANTS
    Bitmap,     \* the bitmaps a SACK may carry
    MaxPackets  \* bound: distinct packets sent in all

VARIABLES
    hello_sent,          \* scope -> has HELLO been sent?
    next_packet_number,  \* scope -> tx_window.next_packet_number
    wire,                \* the packets sent, each taken any number of times
    entered,             \* packets that entered the receiver's network layer
    dropped              \* packets its table took for replays

senderVars == <<hello_sent, next_packet_number>>
linkVars == <<senderVars, wire, entered, dropped>>

\* Two packets are the same if they say the same: an ACK sent again for the
\* same number is a repetition.  Messages are told apart by their body.
Packet(kind, s, pn, body) ==
    [kind |-> kind, scope |-> s, packet_number |-> pn, body |-> body]

\* datalink_is_ack_eliciting
AckEliciting(packet) == packet.kind = "reliable"

LinkInit ==
    /\ Init
    /\ hello_sent = [s \in Scope |-> FALSE]
    /\ next_packet_number = [s \in Scope |-> 0]
    /\ wire = {}
    /\ entered = {}
    /\ dropped = {}

Transmit(packets) ==
    /\ Cardinality(wire \cup packets) <= MaxPackets
    /\ wire' = wire \cup packets
    /\ UNCHANGED <<entered, dropped, vars>>

\* A reliable packet takes the next number of the window.  The first one of a
\* peer state is preceded by HELLO, which is numbered 0.
SendReliable(s) ==
    LET pn == next_packet_number[s]
        hello == IF hello_sent[s] THEN {} ELSE {Packet("hello", s, 0, {})}
    IN  /\ pn < PnMax
        /\ Transmit(hello \cup {Packet("reliable", s, pn, {})})
        /\ hello_sent' = [hello_sent EXCEPT ![s] = TRUE]
        /\ next_packet_number' = [next_packet_number EXCEPT ![s] = pn + 1]

\* An unreliable message or fragment has no window to number it.
SendUnreliable(s) ==
    /\ Transmit({Packet("unreliable", s, 0, {Cardinality(wire)})})
    /\ UNCHANGED senderVars

\* An ACK carries the number it acknowledges, which the other side chose.
SendAck(s, acknowledged) ==
    /\ Transmit({Packet("ack", s, acknowledged, {})})
    /\ UNCHANGED senderVars

\* A SACK carries the first number the node still lacks.
SendSack(s, base, bitmap) ==
    /\ Transmit({Packet("sack", s, base, bitmap)})
    /\ UNCHANGED senderVars

Arrive(packet) ==
    /\ Receive(packet.scope, packet.packet_number, AckEliciting(packet))
    /\ IF discarded' = {}
       THEN entered' = entered \cup {packet} /\ UNCHANGED dropped
       ELSE dropped' = dropped \cup {packet} /\ UNCHANGED entered
    /\ UNCHANGED <<senderVars, wire>>

LinkNext ==
    \/ \E s \in Scope :
        \/ SendReliable(s)
        \/ SendUnreliable(s)
        \/ \E pn \in PacketNumber :
            SendAck(s, pn) \/ \E bitmap \in Bitmap : SendSack(s, pn, bitmap)
    \/ \E packet \in wire : Arrive(packet)

LinkSpec == LinkInit /\ [][LinkNext]_<<vars, linkVars>>

\* "New authenticated packets enter network/transport handling": a message or
\* an acknowledgement that xgl_datalink_process_frame drops as a replay entered
\* the network layer before.  (A HELLO overtaken by the data behind it does no
\* harm: the data creates the peer state too.)
NewPacketsEnter ==
    \A packet \in dropped : packet.kind # "hello" => packet \in entered
=============================================================================
