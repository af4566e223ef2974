---------------------------- MODULE MCFrameRelay ----------------------------
(* FrameRelay on the line 1 - 2 - 3, with routes to node 4 that form a loop. *)
EXTENDS FrameRelay

Nodes == {1, 2, 3}
Lines == {<<1, 2>>, <<2, 1>>, <<2, 3>>, <<3, 2>>}

Via(phy) == [phy |-> phy, max_frame_size |-> 64]

\* The route from 2 to 3 has the smallest frame limit.
Routes == <<
    [t \in {2, 3, 4, BROADCAST_ID} |-> Via(2)],
    [t \in {1} |-> Via(1)] @@
        [t \in {3, 4, BROADCAST_ID} |-> [phy |-> 3, max_frame_size |-> 46]],
    [t \in {1, 2, 4} |-> Via(2)]>>

\* The end nodes require tags and the relay can verify them; only node 3
\* requires them; no node knows of them.
Settings == {<<"required", "verify", "required">>, <<"off", "verify", "required">>,
             <<"off", "off", "off">>}

Base == [source_id |-> 1, target_id |-> 3, session_id |-> 1, connection_id |-> 0,
         packet_number |-> 0, packet_type |-> TYPE_DATA, data_type |-> 0,
         reliable |-> RELIABILITY_NONE, fragment |-> FALSE, priority |-> 0,
         extension |-> NoExtension, payload |-> <<>>, zerocopy |-> FALSE]

\* A reliable message whose payload looks like the start of a frame.
Reliable == [Base EXCEPT !.packet_number = 1, !.reliable = RELIABILITY_ACK_ELICITING,
                         !.data_type = 7, !.payload = <<MAGIC_0, MAGIC_1>>]
\* A reliable fragment; with a tag it is over the frame limit of the relay.
Fragment == [Base EXCEPT !.packet_number = 2, !.reliable = RELIABILITY_ACK_ELICITING,
                         !.connection_id = 300, !.fragment = TRUE, !.priority = 5,
                         !.payload = <<9>>,
                         !.extension = [type |-> EXT_FRAGMENT, message_id |-> 258,
                                        fragment_offset |-> 1, message_len |-> 2]]
Ack == [Base EXCEPT !.source_id = 3, !.target_id = 1, !.packet_number = 1,
                    !.packet_type = TYPE_ACK, !.reliable = RELIABILITY_ACK_ONLY,
                    !.extension = [type |-> EXT_ACK_RANGE, largest_ack |-> 1,
                                   ack_delay_us |-> 0,
                                   ranges |-> <<[gap |-> 0, length |-> 1]>>]]
Sack == [Base EXCEPT !.source_id = 3, !.target_id = 1, !.packet_number = 0,
                     !.packet_type = TYPE_ACK, !.reliable = RELIABILITY_ACK_ONLY,
                     !.extension = [type |-> EXT_SACK, base_packet |-> 1,
                                    bitmap |-> <<2>>]]
\* Zero-copy data for node 4, which the routes of 2 and 3 send in circles.
Looping == [Base EXCEPT !.target_id = 4, !.session_id = 0, !.zerocopy = TRUE,
                        !.payload = <<7>>]
Hello == [Base EXCEPT !.source_id = 2, !.target_id = BROADCAST_ID,
                      !.packet_type = TYPE_CONTROL]

Packets == {Reliable, Fragment, Ack, Sack, Looping, Hello}

\* A lone first magic byte, a stray magic, and line noise.
NoiseBytes == {<<MAGIC_0>>, <<MAGIC_0, MAGIC_1>>, <<0>>}
=============================================================================
