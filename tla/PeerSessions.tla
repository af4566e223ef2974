---------------------------- MODULE PeerSessions ----------------------------
(***************************************************************************)
(* The peer tables of XGL nodes that exchange reliable messages: which     *)
(* peer state a packet is sent from, what the header carries of its        *)
(* connection and session, which peer state of the other node it reaches,  *)
(* and which peer state the acknowledgement comes back to.  Peers are      *)
(* created by sending and by receiving, reset by HELLO, reclaimed when     *)
(* idle and lost when a node restarts.                                     *)
(*                                                                         *)
(* Of the stream inside one peer state, the subject of ReliableStream, the *)
(* order of delivery and the acknowledgements are kept.  Retransmissions   *)
(* need no action, because the network may repeat what was sent; the send  *)
(* window never fills, because MaxMessages is below its size.  All session *)
(* epochs are 0: no sending path encodes one.                              *)
(***************************************************************************)
EXTENDS Integers, Sequences, FiniteSets, SequencesExt

CONSTANTS
    Node,         \* node ids, positive numbers: session ids follow from them
    Senders,      \* nodes whose application sends reliable messages
    Connections,  \* connection_ids the applications use; 0 is "none"
    SessionMask,  \* XGL_SESSION_ID_MASK, 2^k - 1; 63 in the code
    IdleTimeout,  \* nodes whose peer_idle_timeout_ms is not 0
    MaxMessages,  \* bound: messages sent in all
    MaxSessions,  \* bound: session ids a node takes from its counter
    MaxRestarts   \* bound: restarts in all

ASSUME SessionAssumption ==
    /\ Node \subseteq Nat \ {0}
    /\ Senders \subseteq Node
    /\ Connections \subseteq Nat
    /\ IdleTimeout \subseteq Node
    /\ MaxMessages \in Nat
    /\ {MaxSessions, MaxRestarts} \subseteq Nat

\* Session ids are 16 bits wide.
ASSUME MaskAssumption == SessionMask \in Nat \ {0} /\ SessionMask < 65536

Message == 1..MaxMessages
PacketNumber == 0..MaxMessages
NoMessage == 0
NoScope == 0   \* has_connection_scope is false

VARIABLES
    peers,            \* node -> its peer states, the newest first
    next_session_id,
    wire,             \* every packet sent, taken any number of times or never
    sent,             \* messages accepted so far; the n-th is message n
    acknowledged,     \* messages an ACK or SACK released at their sender
    failed,           \* messages reported with XGL_ERR_ACK_TIMEOUT
    delivered,        \* messages handed to rx_callback ...
    redelivered,      \* ... and the ones handed over again
    lost,             \* messages queued or cached at a node when it restarted
    forgot,           \* nodes that reclaimed a peer state or restarted
    sessions,         \* node -> session ids taken
    restarts

historyVars == <<lost, forgot, restarts>>
vars == <<peers, next_session_id, wire, sent, acknowledged, failed, delivered,
          redelivered, sessions, historyVars>>

-----------------------------------------------------------------------------
(***************************************************************************)
(* The header has one field for the connection and the session             *)
(***************************************************************************)
Masked(session) == session % (SessionMask + 1)

NonZero(session) == IF session = 0 THEN 1 ELSE session

\* xgl_frame_build: the connection_id, or the session_id where there is none.
\* The session_epoch is not encoded.
HeaderConnection(connection, session) ==
    IF connection # NoScope THEN connection ELSE session

\* network_deliver_local: both ids of the packet are read from that field.
PacketSession(packet) == packet.connection % 65536

Packet(kind, from, to, connection, body) ==
    [kind |-> kind, from |-> from, to |-> to, connection |-> connection,
     body |-> body]

-----------------------------------------------------------------------------
(***************************************************************************)
(* The peer table                                                          *)
(***************************************************************************)
EmptyQueue == [pn \in PacketNumber |-> NoMessage]

NewPeer(id, scope, session) ==
    [peer_id |-> id, scope |-> scope, session_id |-> session,
     hello_sent |-> FALSE, next_packet_number |-> 0,
     reliable_queue |-> EmptyQueue, rx_next |-> 0, rx_buffered |-> EmptyQueue]

\* Indices of the peer states that answer a lookup.  Without a scope any peer
\* state of the node does, also one that has a scope.
Matches(table, id, scope) ==
    {i \in DOMAIN table : /\ table[i].peer_id = id
                          /\ scope = NoScope \/ table[i].scope = scope}

\* Mutant of Found: a peer state that never sent its own HELLO is passed over.
FoundOpened(table, id, scope) ==
    \E i \in Matches(table, id, scope) : table[i].hello_sent

Found(table, id, scope) == Matches(table, id, scope) # {}

First(table, id, scope) ==
    CHOOSE i \in Matches(table, id, scope) :
        \A j \in Matches(table, id, scope) : i <= j

\* The message is queued or cached at node n.
Queued(n, m) == \E i \in DOMAIN peers[n], pn \in PacketNumber :
                    peers[n][i].reliable_queue[pn] = m
Cached(n, m) == \E i \in DOMAIN peers[n], pn \in PacketNumber :
                    peers[n][i].rx_buffered[pn] = m

\* The session id the next peer state of node n gets.
FreshSession(n) == NonZero(Masked(next_session_id[n]))

\* transport_get_or_create_peer(_scope): the table it leaves, where in it the
\* peer state is, and whether it is new.
Lookup(n, id, scope) ==
    IF Found(peers[n], id, scope)
    THEN [table |-> peers[n], at |-> First(peers[n], id, scope), new |-> FALSE]
    ELSE [table |-> <<NewPeer(id, scope, FreshSession(n))>> \o peers[n],
          at |-> 1, new |-> TRUE]

\* A new peer state takes a session id from the counter.
TakeSession(n, new) ==
    IF new
    THEN /\ sessions[n] < MaxSessions
         /\ sessions' = [sessions EXCEPT ![n] = @ + 1]
         /\ next_session_id' = [next_session_id EXCEPT
                ![n] = NonZero(Masked(FreshSession(n) + 1))]
    ELSE UNCHANGED <<sessions, next_session_id>>

\* transport_reset_peer_state.
Reset(peer, session) == NewPeer(peer.peer_id, peer.scope, Masked(session))

-----------------------------------------------------------------------------
Init ==
    /\ peers = [n \in Node |-> <<>>]
    /\ next_session_id = [n \in Node |-> NonZero(Masked(n))]
    /\ wire = {}
    /\ sent = 0
    /\ acknowledged = {}
    /\ failed = {}
    /\ delivered = {}
    /\ redelivered = {}
    /\ lost = {}
    /\ forgot = {}
    /\ sessions = [n \in Node |-> 0]
    /\ restarts = 0

(***************************************************************************)
(* Sending                                                                 *)
(***************************************************************************)
\* transport_prepare_reliable_send: HELLO in the scope of the peer state ...
Hello(n, peer) ==
    IF peer.hello_sent THEN {}
    ELSE {Packet("hello", n, peer.peer_id,
                 HeaderConnection(peer.scope, peer.session_id), NoMessage)}

\* ... but data in the scope the application named.
Data(n, peer, connection, message) ==
    Packet("data", n, peer.peer_id,
           HeaderConnection(connection, peer.session_id),
           [packet_number |-> peer.next_packet_number, message |-> message])

\* xgl_transport_send of a reliable message that one frame holds.
Send(n, to, connection) ==
    LET found   == Lookup(n, to, connection)
        peer    == found.table[found.at]
        message == sent + 1
    IN  /\ sent < MaxMessages
        /\ TakeSession(n, found.new)
        /\ peers' = [peers EXCEPT ![n] = [found.table EXCEPT ![found.at] =
              [peer EXCEPT !.hello_sent = TRUE,
                           !.next_packet_number = @ + 1,
                           !.reliable_queue[peer.next_packet_number] = message]]]
        /\ wire' = wire \cup Hello(n, peer)
                        \cup {Data(n, peer, connection, message)}
        /\ sent' = message
        /\ UNCHANGED <<acknowledged, failed, delivered, redelivered, historyVars>>

\* The same refused by the lower layer or for want of memory: at the HELLO
\* (hello is FALSE) or after it.  The peer state stays.
SendRefused(n, to, connection, hello) ==
    LET found == Lookup(n, to, connection)
        peer  == found.table[found.at]
    IN  /\ ~peer.hello_sent
        /\ TakeSession(n, found.new)
        /\ peers' = [peers EXCEPT ![n] =
              [found.table EXCEPT ![found.at].hello_sent = hello]]
        /\ wire' = wire \cup {packet \in Hello(n, peer) : hello}
        /\ UNCHANGED <<sent, acknowledged, failed, delivered, redelivered,
                       historyVars>>

\* The peer state could not be built: its session id is taken all the same.
CreationFails(n) ==
    /\ TakeSession(n, TRUE)
    /\ UNCHANGED <<peers, wire, sent, acknowledged, failed, delivered,
                   redelivered, historyVars>>

\* A packet out of retries is removed and reported.
GiveUp(n, i, pn) ==
    /\ peers[n][i].reliable_queue[pn] # NoMessage
    /\ failed' = failed \cup {peers[n][i].reliable_queue[pn]}
    /\ peers' = [peers EXCEPT ![n][i].reliable_queue[pn] = NoMessage]
    /\ UNCHANGED <<next_session_id, wire, sent, acknowledged, delivered,
                   redelivered, sessions, historyVars>>

-----------------------------------------------------------------------------
(***************************************************************************)
(* Receiving                                                               *)
(***************************************************************************)
\* Mutant of AfterHello: a repeated HELLO resets, too.
AfterAnyHello(peer, session) == Reset(peer, session)

\* A HELLO of another session resets the peer state.
AfterHello(peer, session) ==
    IF peer.session_id # session THEN Reset(peer, session) ELSE peer

\* transport_process_control_packet of a HELLO.
ReceiveHello(packet) ==
    LET n       == packet.to
        session == Masked(PacketSession(packet))
        found   == Lookup(n, packet.from, packet.connection)
        peer    == found.table[found.at]
    IN  /\ packet.kind = "hello"
        /\ session # 0
        /\ TakeSession(n, found.new)
        /\ peers' = [peers EXCEPT ![n] = [found.table EXCEPT ![found.at] =
              AfterHello(peer, session)]]
        /\ UNCHANGED <<wire, sent, acknowledged, failed, delivered,
                       redelivered, historyVars>>

\* transport_prepare_rx_peer: a new peer state adopts the session of the
\* packet.
RxPeer(n, packet) ==
    LET found == Lookup(n, packet.from, packet.connection)
    IN  IF found.new
        THEN [found EXCEPT !.table[found.at] = Reset(@, PacketSession(packet))]
        ELSE found

\* The packets that are in order once pn is: pn and the cached ones behind it.
Drained(peer, pn) ==
    {p \in PacketNumber : p >= pn /\ \A q \in (pn + 1)..p :
        peer.rx_buffered[q] # NoMessage}

Acks(packet, pns) ==
    {Packet("ack", packet.to, packet.from, packet.connection,
            [base |-> pn, received |-> {pn}]) : pn \in pns}

Sack(packet, peer) ==
    Packet("ack", packet.to, packet.from, packet.connection,
           [base |-> peer.rx_next,
            received |-> {pn \in PacketNumber :
                             peer.rx_buffered[pn] # NoMessage}])

Deliver(messages) ==
    /\ delivered' = delivered \cup messages
    /\ redelivered' = redelivered \cup (messages \cap delivered)

\* xgl_transport_receive of a reliable packet that the peer state accepts.
ReceiveData(packet) ==
    LET n     == packet.to
        pn    == packet.body.packet_number
        found == RxPeer(n, packet)
        peer  == found.table[found.at]
        Store(new) == peers' = [peers EXCEPT ![n] =
                                   [found.table EXCEPT ![found.at] = new]]
    IN  /\ packet.kind = "data"
        /\ TakeSession(n, found.new)
        /\ found.new \/ PacketSession(packet) = peer.session_id
        /\ \/ /\ pn < peer.rx_next      \* acknowledge again
              /\ Store(peer)
              /\ wire' = wire \cup Acks(packet, {pn})
              /\ Deliver({})
           \/ /\ pn > peer.rx_next      \* cache, or drop for want of memory
              /\ \E new \in {peer, [peer EXCEPT !.rx_buffered[pn] =
                    IF @ = NoMessage THEN packet.body.message ELSE @]} :
                    /\ Store(new)
                    /\ wire' = wire \cup {Sack(packet, new)}
              /\ Deliver({})
           \/ /\ pn = peer.rx_next      \* deliver, then drain the cache
              /\ LET in_order == Drained(peer, pn) IN
                 /\ Store([peer EXCEPT
                        !.rx_next = pn + Cardinality(in_order),
                        !.rx_buffered = [p \in PacketNumber |->
                            IF p \in in_order THEN NoMessage ELSE @[p]]])
                 /\ wire' = wire \cup Acks(packet, in_order)
                 /\ Deliver({packet.body.message} \cup
                       {peer.rx_buffered[p] : p \in in_order \ {pn}})
        /\ UNCHANGED <<sent, acknowledged, failed, historyVars>>

\* transport_find_ack_peer: the scope, else any peer state of that node.
AckScope(n, packet) ==
    IF Found(peers[n], packet.from, packet.connection)
    THEN packet.connection ELSE NoScope

\* Mutant of AckAccepted: the session of the packet is not compared.
AckAcceptedAnySession(n, packet) ==
    Found(peers[n], packet.from, AckScope(n, packet))

AckAccepted(n, packet) ==
    /\ Found(peers[n], packet.from, AckScope(n, packet))
    /\ PacketSession(packet) =
          peers[n][First(peers[n], packet.from, AckScope(n, packet))].session_id

\* An ACK or SACK releases what it names and is still queued.
ReceiveAck(packet) ==
    LET n    == packet.to
        i    == First(peers[n], packet.from, AckScope(n, packet))
        queue == peers[n][i].reliable_queue
        released == {pn \in packet.body.received : queue[pn] # NoMessage}
    IN  /\ packet.kind = "ack"
        /\ AckAccepted(n, packet)
        /\ released # {}
        /\ peers' = [peers EXCEPT ![n][i].reliable_queue =
              [pn \in PacketNumber |->
                  IF pn \in released THEN NoMessage ELSE @[pn]]]
        /\ acknowledged' = acknowledged \cup {queue[pn] : pn \in released}
        /\ UNCHANGED <<next_session_id, wire, sent, failed, delivered,
                       redelivered, sessions, historyVars>>

-----------------------------------------------------------------------------
(***************************************************************************)
(* Idle peers and restarts                                                 *)
(***************************************************************************)
\* Mutant of Reclaimable: queued packets are not looked at.
ReclaimableQueued(peer) == peer.rx_buffered = EmptyQueue

Reclaimable(peer) ==
    peer.reliable_queue = EmptyQueue /\ peer.rx_buffered = EmptyQueue

\* transport_reclaim_idle_peers finds the timeout of one peer state elapsed.
ReclaimIdle(n, i) ==
    /\ n \in IdleTimeout
    /\ Reclaimable(peers[n][i])
    /\ peers' = [peers EXCEPT ![n] = RemoveAt(@, i)]
    /\ forgot' = forgot \cup {n}
    /\ UNCHANGED <<next_session_id, wire, sent, acknowledged, failed,
                   delivered, redelivered, sessions, lost, restarts>>

\* The node comes back with an empty table and the session ids it began with.
Restart(n) ==
    /\ restarts < MaxRestarts
    /\ peers[n] # <<>>
    /\ restarts' = restarts + 1
    /\ forgot' = forgot \cup {n}
    /\ lost' = lost \cup {m \in Message : Queued(n, m) \/ Cached(n, m)}
    /\ peers' = [peers EXCEPT ![n] = <<>>]
    /\ next_session_id' = [next_session_id EXCEPT ![n] = NonZero(Masked(n))]
    /\ UNCHANGED <<wire, sent, acknowledged, failed, delivered, redelivered,
                   sessions>>

Next ==
    \/ \E n \in Senders, to \in Node, connection \in Connections :
        /\ to # n
        /\ \/ Send(n, to, connection)
           \/ \E hello \in BOOLEAN : SendRefused(n, to, connection, hello)
    \/ \E n \in Node : CreationFails(n)
    \/ \E n \in Node : \E i \in DOMAIN peers[n] :
        ReclaimIdle(n, i) \/ \E pn \in PacketNumber : GiveUp(n, i, pn)
    \/ \E packet \in wire :
        ReceiveHello(packet) \/ ReceiveData(packet) \/ ReceiveAck(packet)
    \/ \E n \in Node : Restart(n)

Spec == Init /\ [][Next]_vars

-----------------------------------------------------------------------------
Peer == [peer_id : Node, scope : Nat, session_id : 1..SessionMask,
         hello_sent : BOOLEAN, next_packet_number : PacketNumber,
         reliable_queue : [PacketNumber -> 0..MaxMessages],
         rx_next : 0..(MaxMessages + 1),
         rx_buffered : [PacketNumber -> 0..MaxMessages]]

\* Every peer state has a session id that is not 0, the value that stands for
\* "no session" on the wire, and a node holds at most one peer state per remote
\* node and scope, whichever of sending, HELLO and data created it, so a stream
\* is never split over two.
TypeOK ==
    /\ \A n \in Node : \A i \in DOMAIN peers[n] : peers[n][i] \in Peer
    /\ \A n \in Node : next_session_id[n] \in 1..SessionMask
    /\ sent \in 0..MaxMessages
    /\ acknowledged \cup failed \cup delivered \cup lost \subseteq 1..sent
    /\ \A n \in Node : \A i, j \in DOMAIN peers[n] :
          /\ peers[n][i].peer_id = peers[n][j].peer_id
          /\ peers[n][i].scope = peers[n][j].scope
          => i = j

\* What a sender drops on an acknowledgement, its receiver has: every message
\* released by an ACK or SACK was delivered or is cached by the receiver.
AckedWasDelivered ==
    \A m \in acknowledged :
        m \in delivered \/ \E n \in Node : Cached(n, m)

\* Two messages went out under one connection field and packet number.
NumberReused(m) ==
    \E p, q \in {packet \in wire : packet.kind = "data"} :
        /\ p.body.message = m
        /\ q.body.message # m
        /\ <<q.from, q.connection, q.body.packet_number>> =
              <<p.from, p.connection, p.body.packet_number>>

\* The only ways to an acknowledged message the receiver never had: the sender
\* used its packet number twice, or the receiver restarted with it cached.
AckedWithoutReuse ==
    \A m \in acknowledged :
        \/ m \in delivered \cup lost
        \/ \E n \in Node : Cached(n, m)
        \/ NumberReused(m)

\* A message the application was told is accepted stays queued until it is
\* acknowledged or reported: no lookup, reset or reclaim forgets it.  (With
\* Connections other than {0} a HELLO of the other node can reset the peer state
\* of a connection whose own session differs, and its queue with it.)
AcceptedNotForgotten ==
    \A m \in 1..sent :
        m \in acknowledged \cup failed \cup lost \/ \E n \in Node : Queued(n, m)

\* However often the network repeats a packet, its message is handed over once,
\* unless the receiver dropped the peer state it had counted it in.
DeliveredOnce ==
    \A packet \in wire :
        packet.kind = "data" /\ packet.body.message \in redelivered
            => packet.to \in forgot
=============================================================================
