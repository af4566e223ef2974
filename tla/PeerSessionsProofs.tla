------------------------ MODULE PeerSessionsProofs ------------------------
(***************************************************************************)
(* Reliable messages between nodes whose applications name no connection:  *)
(* for every number of nodes, messages, sessions and restarts, no message  *)
(* is forgotten or delivered twice behind the back of the application.     *)
(***************************************************************************)
EXTENDS PeerSessions, CommonLemmas, SequenceTheorems, TLAPS

\* The data packet of a message, as Data builds it.
DataPacket(from, to, connection, pn, m) ==
    Packet("data", from, to, connection, [packet_number |-> pn, message |-> m])

\* The receiver has the message, had it, or lost it in a restart.
Reached(m) == m \in delivered \cup lost \/ \E n \in Node : Cached(n, m)

\* A packet with this number was sent there, and its message reached the node.
Arrived(from, to, connection, pn) ==
    \E m \in Message : DataPacket(from, to, connection, pn, m) \in wire /\ Reached(m)

\* A peer state of node n: what it queues was sent in its session, what it caches
\* lies behind rx_next and was sent to it, and everything below rx_next
\* arrived.  Its scope, if it has one, is its session.
PeerOK(n, peer) ==
    /\ peer \in Peer
    /\ peer.scope # NoScope => peer.scope = peer.session_id
    /\ peer.next_packet_number <= sent
    /\ \A pn \in PacketNumber : peer.reliable_queue[pn] # NoMessage =>
          /\ pn < peer.next_packet_number
          /\ DataPacket(n, peer.peer_id, peer.session_id, pn, peer.reliable_queue[pn]) \in wire
    /\ \A pn \in PacketNumber : peer.rx_buffered[pn] # NoMessage =>
          /\ pn > peer.rx_next
          /\ DataPacket(peer.peer_id, n, peer.scope, pn, peer.rx_buffered[pn]) \in wire
    /\ \A pn \in PacketNumber : pn < peer.rx_next =>
          Arrived(peer.peer_id, n, peer.scope, pn)

\* A packet on the wire: its connection field is a session, data names a message
\* that was sent, and an acknowledgement names numbers that arrived.
PacketOK(packet) ==
    /\ packet.kind \in {"hello", "data", "ack"}
    /\ packet.from \in Node /\ packet.to \in Node
    /\ packet.connection \in 1..SessionMask
    /\ packet.kind = "data" =>
          /\ packet.body.packet_number \in PacketNumber
          /\ packet.body.message \in 1..sent
          /\ packet = DataPacket(packet.from, packet.to, packet.connection,
                                 packet.body.packet_number, packet.body.message)
    /\ packet.kind = "ack" =>
          \A pn \in packet.body.received :
              pn \in PacketNumber /\ Arrived(packet.to, packet.from, packet.connection, pn)

DataOnWire == {packet \in wire : packet.kind = "data"}

\* One packet per message.
OnePacketPerMessage ==
    \A p, q \in DataOnWire : p.body.message = q.body.message => p = q

\* At most one peer state per remote node and scope.
OnePeerPerScope(table) ==
    \A i, j \in DOMAIN table :
        table[i].peer_id = table[j].peer_id /\ table[i].scope = table[j].scope => i = j

\* The peer states of node n.
Held(n) == {peers[n][i] : i \in DOMAIN peers[n]}

\* The peer state the packet belongs to has its number behind it.
CountedAt(packet) ==
    \E peer \in Held(packet.to) :
        /\ peer.peer_id = packet.from
        /\ peer.scope = packet.connection
        /\ packet.body.packet_number < peer.rx_next

\* A node that dropped no peer state has counted what it delivered.
Counted(packet) ==
    packet.body.message \in delivered /\ packet.to \notin forgot => CountedAt(packet)

HistoryOK ==
    /\ sent \in 0..MaxMessages
    /\ acknowledged \cup failed \cup delivered \cup lost \subseteq 1..sent
    /\ redelivered \subseteq delivered
    /\ next_session_id \in [Node -> 1..SessionMask]

SessionsInv ==
    /\ HistoryOK
    /\ peers \in [Node -> Seq(Peer)]
    /\ \A n \in Node : OnePeerPerScope(peers[n])
    /\ \A n \in Node : \A peer \in Held(n) : PeerOK(n, peer)
    /\ \A packet \in wire : PacketOK(packet)
    /\ OnePacketPerMessage
    /\ \A packet \in DataOnWire : Counted(packet)
    /\ AckedWithoutReuse
    /\ AcceptedNotForgotten
    /\ DeliveredOnce

-----------------------------------------------------------------------------
\* The assumption on the constants, one by one.
LEMMA ConstantBounds ==
    /\ MaxMessages \in Nat
    /\ SessionMask \in Nat /\ 1 <= SessionMask /\ SessionMask < 65536
    /\ Senders \subseteq Node
    /\ \A n \in Node : n \in Nat
<1>1. MaxMessages \in Nat /\ Senders \subseteq Node /\ \A n \in Node : n \in Nat
  BY SessionAssumption
<1>2. SessionMask \in Nat /\ 1 <= SessionMask /\ SessionMask < 65536
  BY MaskAssumption
<1> QED
  BY <1>1, <1>2

\* No message has the number that stands for none.
LEMMA NotNone ==
    \A m \in Message : m # NoMessage
  BY ConstantBounds DEF Message, NoMessage

-----------------------------------------------------------------------------
(***************************************************************************)
(* Session ids and the connection field                                    *)
(***************************************************************************)
\* A session id that is not 0 passes through the masks unchanged.
LEMMA MaskKeeps ==
    /\ \A x \in Nat : Masked(x) \in 0..SessionMask
    /\ \A x \in 1..SessionMask : Masked(x) = x /\ x % 65536 = x
<1> DEFINE m == SessionMask + 1
<1>1. SessionMask \in Nat /\ m \in Nat \ {0} /\ SessionMask < m /\ SessionMask < 65536
  BY ConstantBounds
<1>2. ASSUME NEW x \in Nat
      PROVE  Masked(x) \in 0..SessionMask
  <2>1. x % m \in 0..(m - 1)
    <3> HIDE DEF m
    <3> QED
      BY <1>1
  <2> QED
    BY <1>1, <2>1 DEF Masked
<1>3. ASSUME NEW x \in 1..SessionMask
      PROVE  Masked(x) = x /\ x % 65536 = x
  <2>1. x \in Nat /\ x < m /\ x < 65536
    BY <1>1
  <2>2. x % m = x
    <3> HIDE DEF m
    <3> QED
      BY <1>1, <2>1, OwnRemainder
  <2>3. x % 65536 = x
    BY <2>1, OwnRemainder
  <2> QED
    BY <2>2, <2>3 DEF Masked
<1> QED
  BY <1>2, <1>3

\* What a node takes from its counter is a session id.
LEMMA FreshIsSession ==
    ASSUME NEW x \in Nat
    PROVE  NonZero(Masked(x)) \in 1..SessionMask
<1>1. Masked(x) \in 0..SessionMask
  BY MaskKeeps
<1> QED
  BY <1>1, ConstantBounds DEF NonZero

-----------------------------------------------------------------------------
(***************************************************************************)
(* What a step may change without touching the invariant of a peer state   *)
(* or of a packet                                                          *)
(***************************************************************************)
\* Numbers of messages grow, the wire only gains packets, and what reached its
\* node stays so.
Onward ==
    /\ sent \in Nat /\ sent' \in Nat /\ sent <= sent'
    /\ wire \subseteq wire'
    /\ \A m \in Message : Reached(m) => Reached(m)'

\* What has arrived stays arrived.
LEMMA ArrivedOnward ==
    ASSUME Onward, NEW from, NEW to, NEW connection, NEW pn,
           Arrived(from, to, connection, pn)
    PROVE  Arrived(from, to, connection, pn)'
  BY DEF Onward, Arrived, DataPacket, Packet

\* A peer state in order stays so when the history only grows.
LEMMA PeerOnward ==
    ASSUME Onward, NEW n, NEW peer, PeerOK(n, peer)
    PROVE  PeerOK(n, peer)'
<1>1. peer \in Peer
  BY DEF PeerOK
<1>2. peer.next_packet_number \in Nat
  BY <1>1 DEF Peer, PacketNumber
<1>3. \A pn \in PacketNumber : pn < peer.rx_next =>
          Arrived(peer.peer_id, n, peer.scope, pn)'
  BY ArrivedOnward DEF PeerOK
<1> QED
  BY <1>1, <1>2, <1>3 DEF PeerOK, Onward, DataPacket, Packet, Peer, PacketNumber, NoMessage, NoScope

\* A packet in order stays so when the history only grows.
LEMMA PacketOnward ==
    ASSUME Onward, NEW packet, PacketOK(packet)
    PROVE  PacketOK(packet)'
<1>1. packet.kind = "ack" =>
          \A pn \in packet.body.received :
              pn \in PacketNumber
              /\ Arrived(packet.to, packet.from, packet.connection, pn)'
  BY ArrivedOnward DEF PacketOK
<1> QED
  BY <1>1 DEF PacketOK, Onward, DataPacket, Packet, PacketNumber

\* A message stays where it got to if every cache loses it only to delivery or
\* to a restart.
LEMMA ReachedOnward ==
    ASSUME delivered \subseteq delivered', lost \subseteq lost',
           \A n \in Node, m \in Message : Cached(n, m) => Reached(m)',
           NEW m \in Message, Reached(m)
    PROVE  Reached(m)'
  BY DEF Reached

-----------------------------------------------------------------------------
(***************************************************************************)
(* Tables of peer states                                                   *)
(***************************************************************************)
\* A lookup that finds something answers with one of the matches.
LEMMA FirstMatches ==
    ASSUME NEW table \in Seq(Peer), NEW id, NEW scope, Found(table, id, scope)
    PROVE  First(table, id, scope) \in Matches(table, id, scope)
<1> DEFINE matches == Matches(table, id, scope)
<1>1. matches \subseteq 1..Len(table) /\ matches # {} /\ Len(table) \in Nat
  BY DEF Matches, Found
<1>2. \E i \in matches : \A j \in matches : i <= j
  <2> HIDE DEF matches
  <2>1. IsFiniteSet(1..Len(table))
    BY <1>1, FS_Interval
  <2>2. IsFiniteSet(matches)
    BY <1>1, <2>1, FS_Subset
  <2>3. matches \in SUBSET Int
    BY <1>1
  <2> QED
    BY <1>1, <2>2, <2>3, SmallestExists
<1> QED
  BY <1>2 DEF First

\* What a lookup at node n answers: a table that is a table, and in it the peer
\* state asked for, which is new only if there was none.
Answers(n, id, scope, table, at, new) ==
    /\ table \in Seq(Peer)
    /\ at \in DOMAIN table
    /\ table[at].peer_id = id
    /\ scope # NoScope => table[at].scope = scope
    /\ \/ /\ new = FALSE
          /\ table = peers[n]
       \/ /\ new = TRUE
          /\ table = <<NewPeer(id, scope, FreshSession(n))>> \o peers[n]
          /\ at = 1
          /\ NewPeer(id, scope, FreshSession(n)) \in Peer
          /\ \A i \in DOMAIN peers[n] :
                ~(/\ peers[n][i].peer_id = id
                  /\ scope = NoScope \/ peers[n][i].scope = scope)

\* The peer state that answers a lookup, and the table with it.
LEMMA LookupAnswers ==
    ASSUME SessionsInv, NEW n \in Node, NEW id \in Node, NEW scope \in Nat,
           NEW found, found = Lookup(n, id, scope)
    PROVE  Answers(n, id, scope, found.table, found.at, found.new)
<1>1. peers[n] \in Seq(Peer)
  BY DEF SessionsInv
<1>2. CASE Found(peers[n], id, scope)
  <2>3. First(peers[n], id, scope) \in Matches(peers[n], id, scope)
    BY <1>1, <1>2, FirstMatches
  <2>4. Lookup(n, id, scope) =
           [table |-> peers[n], at |-> First(peers[n], id, scope), new |-> FALSE]
    BY <1>2 DEF Lookup
  <2> QED
    BY <1>1, <2>3, <2>4 DEF Matches, Answers
<1>3. CASE ~Found(peers[n], id, scope)
  <2> DEFINE fresh == NewPeer(id, scope, FreshSession(n))
  <2>1. FreshSession(n) \in 1..SessionMask
    <3>1. next_session_id[n] \in Nat
      BY DEF SessionsInv, HistoryOK
    <3> QED
      BY <3>1, FreshIsSession DEF FreshSession
  <2>2. fresh \in Peer /\ fresh.peer_id = id /\ fresh.scope = scope
    <3>1. EmptyQueue \in [PacketNumber -> 0..MaxMessages] /\ 0 \in 0..(MaxMessages + 1)
          /\ 0 \in PacketNumber
      BY ConstantBounds DEF EmptyQueue, NoMessage, PacketNumber
    <3> QED
      BY <2>1, <3>1 DEF NewPeer, Peer
  <2>3. Lookup(n, id, scope) = [table |-> <<fresh>> \o peers[n], at |-> 1, new |-> TRUE]
    BY <1>3 DEF Lookup
  <2> HIDE DEF fresh
  <2>4. <<fresh>> \in Seq(Peer) /\ Len(<<fresh>>) = 1 /\ <<fresh>>[1] = fresh
    BY <2>2
  <2>5. /\ <<fresh>> \o peers[n] \in Seq(Peer)
        /\ Len(<<fresh>> \o peers[n]) = 1 + Len(peers[n])
        /\ (<<fresh>> \o peers[n])[1] = fresh
    BY <1>1, <2>4, ConcatProperties
  <2>6. 1 \in DOMAIN (<<fresh>> \o peers[n])
    BY <1>1, <2>5
  <2>7. \A i \in DOMAIN peers[n] :
           ~(peers[n][i].peer_id = id /\ (scope = NoScope \/ peers[n][i].scope = scope))
    BY <1>3 DEF Found, Matches
  <2> QED
    BY <2>2, <2>3, <2>5, <2>6, <2>7 DEF fresh, Answers
<1> QED
  BY <1>2, <1>3

\* One peer state of node n changed from old to new, or was created as new; the
\* other peer states are the ones there were.
Swapped(n, old, new) ==
    /\ peers' \in [Node -> Seq(Peer)]
    /\ \A k \in Node : OnePeerPerScope(peers'[k])
    /\ \A k \in Node \ {n} : Held(k)' = Held(k)
    /\ Held(n)' \subseteq Held(n) \cup {new}
    /\ new \in Held(n)'
    /\ Held(n) \subseteq Held(n)' \cup {old}

\* Storing a peer state under its own id and scope keeps the table a table.
LEMMA StoreKeepsTable ==
    ASSUME NEW table \in Seq(Peer), OnePeerPerScope(table), NEW at \in DOMAIN table,
           NEW new \in Peer, new.peer_id = table[at].peer_id, new.scope = table[at].scope
    PROVE  LET stored == [table EXCEPT ![at] = new] IN
           /\ stored \in Seq(Peer)
           /\ OnePeerPerScope(stored)
           /\ DOMAIN stored = DOMAIN table
           /\ stored[at] = new
           /\ \A i \in DOMAIN table : i # at => stored[i] = table[i]
<1> DEFINE stored == [table EXCEPT ![at] = new]
<1>1. stored \in Seq(Peer)
  OBVIOUS
<1>2. /\ DOMAIN stored = DOMAIN table
      /\ stored[at] = new
      /\ \A i \in DOMAIN table : i # at => stored[i] = table[i]
  OBVIOUS
<1>3. \A i \in DOMAIN table : /\ stored[i].peer_id = table[i].peer_id
                              /\ stored[i].scope = table[i].scope
  BY <1>2
<1>4. OnePeerPerScope(stored)
  <2> HIDE DEF stored
  <2> QED
    BY <1>2, <1>3 DEF OnePeerPerScope
<1> QED
  BY <1>1, <1>2, <1>4

\* One table replaced, the other nodes' tables left alone.
LEMMA TablePut ==
    ASSUME SessionsInv, NEW n \in Node, NEW table \in Seq(Peer), OnePeerPerScope(table),
           peers' = [peers EXCEPT ![n] = table]
    PROVE  /\ peers' \in [Node -> Seq(Peer)]
           /\ peers'[n] = table
           /\ \A k \in Node \ {n} : peers'[k] = peers[k]
           /\ \A k \in Node : OnePeerPerScope(peers'[k])
<1>1. peers \in [Node -> Seq(Peer)] /\ (\A k \in Node : OnePeerPerScope(peers[k]))
  BY DEF SessionsInv
<1>2. /\ peers' \in [Node -> Seq(Peer)]
      /\ peers'[n] = table
      /\ \A k \in Node \ {n} : peers'[k] = peers[k]
  BY <1>1
<1> QED
  BY <1>1, <1>2

\* A table in which only old became new, or new was added.
LEMMA SwapIntro ==
    ASSUME SessionsInv, NEW n \in Node, NEW old, NEW new,
           NEW stored \in Seq(Peer), OnePeerPerScope(stored),
           peers' = [peers EXCEPT ![n] = stored],
           \E j \in DOMAIN stored : stored[j] = new,
           \A j \in DOMAIN stored :
               stored[j] = new \/ \E i \in DOMAIN peers[n] : stored[j] = peers[n][i],
           \A i \in DOMAIN peers[n] :
               peers[n][i] = old \/ \E j \in DOMAIN stored : stored[j] = peers[n][i]
    PROVE  Swapped(n, old, new)
<1>1. /\ peers' \in [Node -> Seq(Peer)]
      /\ peers'[n] = stored
      /\ \A k \in Node \ {n} : peers'[k] = peers[k]
      /\ \A k \in Node : OnePeerPerScope(peers'[k])
  BY TablePut
<1>2. \A k \in Node \ {n} : Held(k)' = Held(k)
  BY <1>1 DEF Held
<1>3. Held(n)' = {stored[j] : j \in DOMAIN stored}
  BY <1>1 DEF Held
<1>4. Held(n)' \subseteq Held(n) \cup {new} /\ new \in Held(n)' /\ Held(n) \subseteq Held(n)' \cup {old}
  BY <1>3 DEF Held
<1> QED
  BY <1>1, <1>2, <1>4 DEF Swapped

\* Changing a peer state in place.
LEMMA ChangeSwaps ==
    ASSUME SessionsInv, NEW n \in Node, NEW at \in DOMAIN peers[n], NEW new \in Peer,
           new.peer_id = peers[n][at].peer_id, new.scope = peers[n][at].scope,
           peers' = [peers EXCEPT ![n] = [peers[n] EXCEPT ![at] = new]]
    PROVE  Swapped(n, peers[n][at], new)
<1> DEFINE stored == [peers[n] EXCEPT ![at] = new]
<1>1. peers \in [Node -> Seq(Peer)] /\ (\A k \in Node : OnePeerPerScope(peers[k]))
      /\ peers[n] \in Seq(Peer)
  BY DEF SessionsInv
<1>2. /\ stored \in Seq(Peer)
      /\ OnePeerPerScope(stored)
      /\ DOMAIN stored = DOMAIN peers[n]
      /\ stored[at] = new
      /\ \A i \in DOMAIN peers[n] : i # at => stored[i] = peers[n][i]
  BY <1>1, StoreKeepsTable
<1> HIDE DEF stored
<1>3. peers' = [peers EXCEPT ![n] = stored]
  BY DEF stored
<1> QED
  BY <1>2, <1>3, SwapIntro

\* Storing what a lookup answered, changed or not.
LEMMA LookupSwaps ==
    ASSUME SessionsInv, NEW n \in Node, NEW id \in Node, NEW scope \in Nat,
           NEW table, NEW at, NEW created, Answers(n, id, scope, table, at, created),
           NEW new \in Peer, new.peer_id = id, new.scope = table[at].scope,
           peers' = [peers EXCEPT ![n] = [table EXCEPT ![at] = new]]
    PROVE  Swapped(n, table[at], new)
<1>1. (\A k \in Node : OnePeerPerScope(peers[k])) /\ peers[n] \in Seq(Peer)
  BY DEF SessionsInv
<1>2. /\ table \in Seq(Peer)
      /\ at \in DOMAIN table
      /\ table[at].peer_id = id
      /\ \/ table = peers[n]
         \/ /\ table = <<NewPeer(id, scope, FreshSession(n))>> \o peers[n]
            /\ at = 1
            /\ NewPeer(id, scope, FreshSession(n)) \in Peer
            /\ \A i \in DOMAIN peers[n] :
                  ~(/\ peers[n][i].peer_id = id
                    /\ scope = NoScope \/ peers[n][i].scope = scope)
  BY DEF Answers
<1>3. CASE table = peers[n]
  BY <1>2, <1>3, ChangeSwaps
<1>4. CASE /\ table = <<NewPeer(id, scope, FreshSession(n))>> \o peers[n]
           /\ at = 1
           /\ NewPeer(id, scope, FreshSession(n)) \in Peer
           /\ \A i \in DOMAIN peers[n] :
                 ~(/\ peers[n][i].peer_id = id
                   /\ scope = NoScope \/ peers[n][i].scope = scope)
  <2> DEFINE fresh == NewPeer(id, scope, FreshSession(n))
  <2>1. fresh \in Peer /\ fresh.peer_id = id /\ fresh.scope = scope
    BY <1>4 DEF NewPeer
  <2>2. table = <<fresh>> \o peers[n]
    BY <1>4
  <2> HIDE DEF fresh
  <2>3. <<fresh>> \in Seq(Peer) /\ Len(<<fresh>>) = 1 /\ <<fresh>>[1] = fresh
    BY <2>1
  <2>4. /\ table \in Seq(Peer)
        /\ Len(table) = 1 + Len(peers[n])
        /\ table[1] = fresh
        /\ \A i \in 1..Len(table) : i > 1 => table[i] = peers[n][i - 1]
    BY <1>1, <2>2, <2>3, ConcatProperties
  <2>5. DOMAIN table = 1..(1 + Len(peers[n])) /\ DOMAIN peers[n] = 1..Len(peers[n])
        /\ Len(peers[n]) \in Nat
    BY <1>1, <2>4
  <2>6. \A i \in DOMAIN table : i # 1 => i - 1 \in DOMAIN peers[n] /\ table[i] = peers[n][i - 1]
    BY <2>4, <2>5
  <2>7. \A i \in DOMAIN peers[n] : i + 1 \in DOMAIN table /\ i + 1 # 1 /\ table[i + 1] = peers[n][i]
    <3> TAKE i \in DOMAIN peers[n]
    <3>1. i \in Nat /\ i + 1 \in 1..Len(table) /\ i + 1 > 1 /\ (i + 1) - 1 = i /\ i + 1 # 1
      BY <2>4, <2>5
    <3> QED
      BY <2>4, <2>5, <3>1
  <2>8. OnePeerPerScope(table)
    <3> SUFFICES ASSUME NEW i \in DOMAIN table, NEW j \in DOMAIN table,
                        table[i].peer_id = table[j].peer_id, table[i].scope = table[j].scope
                 PROVE  i = j
      BY DEF OnePeerPerScope
    <3>1. CASE i # 1 /\ j # 1
      <4>1. i - 1 = j - 1
        BY <1>1, <2>6, <3>1 DEF OnePeerPerScope
      <4> QED
        BY <4>1, <2>5
    <3>2. CASE i = 1 /\ j # 1
      BY <1>4, <2>1, <2>4, <2>6, <3>2
    <3>3. CASE i # 1 /\ j = 1
      BY <1>4, <2>1, <2>4, <2>6, <3>3
    <3> QED
      BY <3>1, <3>2, <3>3
  <2> DEFINE stored == [table EXCEPT ![at] = new]
  <2>9. /\ stored \in Seq(Peer)
        /\ OnePeerPerScope(stored)
        /\ DOMAIN stored = DOMAIN table
        /\ stored[at] = new
        /\ \A i \in DOMAIN table : i # at => stored[i] = table[i]
    BY <1>2, <2>8, StoreKeepsTable
  <2>10. peers' = [peers EXCEPT ![n] = stored]
    OBVIOUS
  <2> HIDE DEF stored
  <2>11. \E j \in DOMAIN stored : stored[j] = new
    BY <1>2, <2>9
  <2>12. \A j \in DOMAIN stored :
            stored[j] = new \/ \E i \in DOMAIN peers[n] : stored[j] = peers[n][i]
    BY <1>4, <2>6, <2>9
  <2>13. \A i \in DOMAIN peers[n] : \E j \in DOMAIN stored : stored[j] = peers[n][i]
    <3> TAKE i \in DOMAIN peers[n]
    <3>1. i + 1 \in DOMAIN table /\ i + 1 # at /\ table[i + 1] = peers[n][i]
      BY <1>4, <2>7
    <3>2. i + 1 \in DOMAIN stored /\ stored[i + 1] = peers[n][i]
      BY <2>9, <3>1
    <3> QED
      BY <3>2
  <2> QED
    BY <2>9, <2>10, <2>11, <2>12, <2>13, SwapIntro
<1> QED
  BY <1>2, <1>3, <1>4

-----------------------------------------------------------------------------
(***************************************************************************)
(* A step that changes one peer state                                      *)
(***************************************************************************)
\* The count of messages and its bound.
LEMMA SentBounded ==
    ASSUME SessionsInv
    PROVE  MaxMessages \in Nat /\ sent \in 0..MaxMessages /\ sent \in Nat
<1>1. HistoryOK
  BY DEF SessionsInv
<1> QED
  BY <1>1, ConstantBounds DEF HistoryOK

\* Caches and queues by peer state instead of by position, before and after.
LEMMA CachedHeld ==
    ASSUME NEW n, NEW m
    PROVE  /\ Cached(n, m) <=> \E peer \in Held(n), pn \in PacketNumber : peer.rx_buffered[pn] = m
           /\ Cached(n, m)' <=> \E peer \in Held(n)', pn \in PacketNumber : peer.rx_buffered[pn] = m
  BY DEF Cached, Held, PacketNumber

\* Being queued, in terms of the peer states a node holds.
LEMMA QueuedHeld ==
    ASSUME NEW n, NEW m
    PROVE  /\ Queued(n, m) <=> \E peer \in Held(n), pn \in PacketNumber : peer.reliable_queue[pn] = m
           /\ Queued(n, m)' <=> \E peer \in Held(n)', pn \in PacketNumber : peer.reliable_queue[pn] = m
  BY DEF Queued, Held, PacketNumber

\* Two peer states of a node with the same remote node and scope are the same.
LEMMA HeldOnce ==
    ASSUME SessionsInv, NEW n \in Node, NEW p \in Held(n), NEW q \in Held(n),
           p.peer_id = q.peer_id, p.scope = q.scope
    PROVE  p = q
  BY DEF SessionsInv, OnePeerPerScope, Held

\* What the old peer state cached the new one caches, unless it is delivered.
LEMMA SwapOnward ==
    ASSUME SessionsInv, NEW n \in Node, NEW old, NEW new, Swapped(n, old, new),
           sent \in Nat, sent' \in Nat, sent <= sent', wire \subseteq wire',
           delivered \subseteq delivered', lost \subseteq lost',
           \A pn \in PacketNumber : old.rx_buffered[pn] # NoMessage =>
               \/ new.rx_buffered[pn] = old.rx_buffered[pn]
               \/ old.rx_buffered[pn] \in delivered'
    PROVE  Onward
<1>1. ASSUME NEW k \in Node, NEW m \in Message, Cached(k, m)
      PROVE  Reached(m)'
  <2>1. PICK peer \in Held(k), pn \in PacketNumber : peer.rx_buffered[pn] = m
    BY <1>1, CachedHeld
  <2>2. m # NoMessage
    BY NotNone
  <2>3. CASE peer \in Held(k)'
    <3>1. Cached(k, m)'
      BY <2>1, <2>3, CachedHeld
    <3> QED
      BY <3>1 DEF Reached
  <2>4. CASE peer \notin Held(k)'
    <3>1. k = n /\ peer = old
      BY <2>4 DEF Swapped
    <3>2. CASE old.rx_buffered[pn] \in delivered'
      BY <2>1, <3>1, <3>2 DEF Reached
    <3>3. CASE new.rx_buffered[pn] = old.rx_buffered[pn]
      <4>1. new \in Held(k)' /\ new.rx_buffered[pn] = m
        BY <2>1, <3>1, <3>3 DEF Swapped
      <4>2. Cached(k, m)'
        BY <4>1, CachedHeld
      <4> QED
        BY <4>2 DEF Reached
    <3> QED
      BY <2>1, <2>2, <3>1, <3>2, <3>3
  <2> QED
    BY <2>3, <2>4
<1>2. \A m \in Message : Reached(m) => Reached(m)'
  BY <1>1, ReachedOnward
<1> QED
  BY <1>2 DEF Onward

\* Queued messages stay queued, unless they are acknowledged or reported.
LEMMA SwapAccepted ==
    ASSUME SessionsInv, NEW n \in Node, NEW old, NEW new, Swapped(n, old, new),
           acknowledged \subseteq acknowledged', failed \subseteq failed', lost \subseteq lost',
           \A pn \in PacketNumber : old.reliable_queue[pn] # NoMessage =>
               \/ new.reliable_queue[pn] = old.reliable_queue[pn]
               \/ old.reliable_queue[pn] \in acknowledged' \cup failed'
    PROVE  \A m \in 1..sent :
               \/ m \in acknowledged' \cup failed' \cup lost'
               \/ \E k \in Node : Queued(k, m)'
<1> SUFFICES ASSUME NEW m \in 1..sent, m \notin acknowledged' \cup failed' \cup lost'
             PROVE  \E k \in Node : Queued(k, m)'
  OBVIOUS
<1>1. PICK k \in Node : Queued(k, m)
  BY DEF SessionsInv, AcceptedNotForgotten
<1>2. PICK peer \in Held(k), pn \in PacketNumber : peer.reliable_queue[pn] = m
  BY <1>1, QueuedHeld
<1>3. m # NoMessage
  BY DEF NoMessage, SessionsInv, HistoryOK
<1>4. CASE peer \in Held(k)'
  BY <1>2, <1>4, QueuedHeld
<1>5. CASE peer \notin Held(k)'
  <2>1. k = n /\ peer = old
    BY <1>5 DEF Swapped
  <2>2. new \in Held(k)' /\ new.reliable_queue[pn] = m
    BY <1>2, <1>3, <2>1 DEF Swapped
  <2> QED
    BY <2>2, QueuedHeld
<1> QED
  BY <1>4, <1>5

\* What a peer state has counted it does not uncount.
LEMMA SwapCounted ==
    ASSUME SessionsInv, NEW n \in Node, NEW old \in Peer, NEW new \in Peer, Swapped(n, old, new),
           new.peer_id = old.peer_id, new.scope = old.scope, old.rx_next <= new.rx_next,
           NEW packet \in DataOnWire, CountedAt(packet)
    PROVE  CountedAt(packet)'
<1>1. PICK peer \in Held(packet.to) :
        /\ peer.peer_id = packet.from
        /\ peer.scope = packet.connection
        /\ packet.body.packet_number < peer.rx_next
  BY DEF CountedAt
<1>2. packet.to \in Node /\ packet.body.packet_number \in Int
  BY DEF SessionsInv, PacketOK, DataOnWire, PacketNumber
<1>3. CASE peer \in Held(packet.to)'
  BY <1>1, <1>3 DEF CountedAt
<1>4. CASE peer \notin Held(packet.to)'
  <2>1. packet.to = n /\ peer = old /\ new \in Held(packet.to)'
    BY <1>2, <1>4 DEF Swapped
  <2>2. old.rx_next \in Int /\ new.rx_next \in Int
    BY DEF Peer
  <2>3. packet.body.packet_number < new.rx_next
    BY <1>1, <1>2, <2>1, <2>2
  <2> QED
    BY <1>1, <2>1, <2>3 DEF CountedAt
<1> QED
  BY <1>3, <1>4

\* What was acknowledged stays accounted for.
LEMMA AckedOnward ==
    ASSUME SessionsInv, Onward, NEW m \in acknowledged
    PROVE  Reached(m)' \/ NumberReused(m)'
<1>1. m \in Message
  <2>1. MaxMessages \in Nat /\ sent \in 0..MaxMessages
    BY SentBounded
  <2>2. m \in 1..sent
    BY DEF SessionsInv, HistoryOK
  <2> QED
    BY <2>1, <2>2 DEF Message
<1>2. Reached(m) \/ NumberReused(m)
  BY DEF SessionsInv, AckedWithoutReuse, Reached
<1>3. NumberReused(m) => NumberReused(m)'
  BY DEF Onward, NumberReused
<1> QED
  BY <1>1, <1>2, <1>3 DEF Onward

\* A step that changes one peer state keeps the invariant if what it adds is in
\* order: the peer state, the packets, the deliveries and the acknowledgements.
LEMMA SwapStep ==
    ASSUME SessionsInv, NEW n \in Node, NEW old \in Peer, NEW new \in Peer, Swapped(n, old, new),
           new.peer_id = old.peer_id, new.scope = old.scope, old.rx_next <= new.rx_next,
           \A pn \in PacketNumber : old.reliable_queue[pn] # NoMessage =>
               \/ new.reliable_queue[pn] = old.reliable_queue[pn]
               \/ old.reliable_queue[pn] \in acknowledged' \cup failed',
           Onward, HistoryOK', forgot' = forgot, lost' = lost,
           acknowledged \subseteq acknowledged', failed \subseteq failed',
           PeerOK(n, new)',
           \A packet \in wire' \ wire : PacketOK(packet)',
           OnePacketPerMessage',
           \A packet \in DataOnWire' :
               Counted(packet)' \/ (packet \in wire /\ packet.body.message \in delivered),
           \A m \in acknowledged' \ acknowledged : Reached(m)' \/ NumberReused(m)',
           \A m \in (1..sent') \ (1..sent) : \E k \in Node : Queued(k, m)',
           DeliveredOnce'
    PROVE  SessionsInv'
<1>1. peers' \in [Node -> Seq(Peer)] /\ (\A k \in Node : OnePeerPerScope(peers'[k]))
  BY DEF Swapped
<1>2. (\A k \in Node : \A peer \in Held(k) : PeerOK(k, peer))'
  <2> SUFFICES ASSUME NEW k \in Node, NEW peer \in Held(k)'
               PROVE  PeerOK(k, peer)'
    OBVIOUS
  <2>1. CASE peer \in Held(k)
    <3>1. PeerOK(k, peer)
      BY <2>1 DEF SessionsInv
    <3> QED
      BY <3>1, PeerOnward
  <2>2. CASE peer \notin Held(k)
    <3>1. k = n /\ peer = new
      BY <2>2 DEF Swapped
    <3> QED
      BY <3>1
  <2> QED
    BY <2>1, <2>2
<1>3. (\A packet \in wire : PacketOK(packet))'
  <2> SUFFICES ASSUME NEW packet \in wire'
               PROVE  PacketOK(packet)'
    OBVIOUS
  <2>1. CASE packet \in wire
    <3>1. PacketOK(packet)
      BY <2>1 DEF SessionsInv
    <3> QED
      BY <3>1, PacketOnward
  <2> QED
    BY <2>1
<1>4. (\A packet \in DataOnWire : Counted(packet))'
  <2> SUFFICES ASSUME NEW packet \in DataOnWire'
               PROVE  Counted(packet)'
    OBVIOUS
  <2>1. CASE packet \in wire /\ packet.body.message \in delivered
    <3>1. packet \in DataOnWire
      BY <2>1 DEF DataOnWire
    <3>2. packet.to \notin forgot => CountedAt(packet)
      BY <2>1, <3>1 DEF SessionsInv, Counted
    <3>3. CountedAt(packet) => CountedAt(packet)'
      BY <3>1, SwapCounted
    <3> QED
      BY <3>2, <3>3 DEF Counted
  <2> QED
    BY <2>1
<1>5. AckedWithoutReuse'
  <2>1. \A m \in acknowledged' : Reached(m)' \/ NumberReused(m)'
    BY AckedOnward
  <2> QED
    BY <2>1 DEF AckedWithoutReuse, Reached
<1>6. AcceptedNotForgotten'
  <2>1. \A m \in 1..sent :
            m \in acknowledged' \cup failed' \cup lost' \/ \E k \in Node : Queued(k, m)'
    BY SwapAccepted
  <2> QED
    BY <2>1 DEF AcceptedNotForgotten
<1> QED
  BY <1>1, <1>2, <1>3, <1>4, <1>5, <1>6 DEF SessionsInv

\* The same for a step that neither sends data nor delivers nor acknowledges.
LEMMA QuietStep ==
    ASSUME SessionsInv, NEW n \in Node, NEW old \in Peer, NEW new \in Peer, Swapped(n, old, new),
           new.peer_id = old.peer_id, new.scope = old.scope, old.rx_next <= new.rx_next,
           \A pn \in PacketNumber : old.reliable_queue[pn] # NoMessage =>
               \/ new.reliable_queue[pn] = old.reliable_queue[pn]
               \/ old.reliable_queue[pn] \in failed',
           Onward, next_session_id' \in [Node -> 1..SessionMask],
           UNCHANGED <<sent, acknowledged, delivered, redelivered, historyVars>>,
           failed \subseteq failed', failed' \subseteq 1..sent,
           PeerOK(n, new)',
           \A packet \in wire' \ wire : PacketOK(packet)' /\ packet.kind # "data"
    PROVE  SessionsInv'
<1>1. DataOnWire' = DataOnWire
  BY DEF DataOnWire, Onward
<1>2. HistoryOK'
  BY DEF SessionsInv, HistoryOK, historyVars
<1>3. OnePacketPerMessage'
  BY <1>1 DEF SessionsInv, OnePacketPerMessage
<1>4. DeliveredOnce'
  <2>1. \A packet \in DataOnWire : packet.body.message \in redelivered => packet.to \in forgot
    BY DEF SessionsInv, DeliveredOnce, DataOnWire
  <2>2. redelivered' = redelivered /\ forgot' = forgot
    BY DEF historyVars
  <2> QED
    BY <1>1, <2>1, <2>2 DEF DeliveredOnce, DataOnWire
<1>5. \A packet \in DataOnWire' :
         Counted(packet)' \/ (packet \in wire /\ packet.body.message \in delivered)
  BY <1>1 DEF Counted, DataOnWire
<1>6. /\ forgot' = forgot /\ lost' = lost /\ acknowledged \subseteq acknowledged'
      /\ (\A m \in acknowledged' \ acknowledged : Reached(m)' \/ NumberReused(m)')
      /\ (\A m \in (1..sent') \ (1..sent) : \E k \in Node : Queued(k, m)')
  BY DEF historyVars
<1>7. \A pn \in PacketNumber : old.reliable_queue[pn] # NoMessage =>
         \/ new.reliable_queue[pn] = old.reliable_queue[pn]
         \/ old.reliable_queue[pn] \in acknowledged' \cup failed'
  OBVIOUS
<1>8. \A packet \in wire' \ wire : PacketOK(packet)'
  OBVIOUS
<1> QED
  BY <1>2, <1>3, <1>4, <1>5, <1>6, <1>7, <1>8, SwapStep

-----------------------------------------------------------------------------
(***************************************************************************)
(* The peer state a packet or a message meets                              *)
(***************************************************************************)
\* A peer state as it is created satisfies its invariant.
LEMMA FreshOK ==
    ASSUME sent \in Nat, NEW n, NEW id \in Node, NEW session \in 1..SessionMask,
           NEW scope \in {NoScope, session}
    PROVE  PeerOK(n, NewPeer(id, scope, session))
<1> DEFINE fresh == NewPeer(id, scope, session)
<1>1. EmptyQueue \in [PacketNumber -> 0..MaxMessages] /\ 0 \in 0..(MaxMessages + 1)
      /\ 0 \in PacketNumber /\ scope \in Nat
  BY ConstantBounds DEF EmptyQueue, NoMessage, NoScope, PacketNumber
<1>2. fresh \in Peer
  BY <1>1 DEF NewPeer, Peer
<1>3. /\ fresh.scope = scope /\ fresh.session_id = session
      /\ fresh.next_packet_number = 0 /\ fresh.rx_next = 0
      /\ \A pn \in PacketNumber :
            fresh.reliable_queue[pn] = NoMessage /\ fresh.rx_buffered[pn] = NoMessage
  BY DEF NewPeer, EmptyQueue
<1> HIDE DEF fresh
<1>4. PeerOK(n, fresh)
  BY <1>2, <1>3 DEF PeerOK, PacketNumber
<1> QED
  BY <1>4 DEF fresh

\* A lookup without a scope answers with a peer state that is in order; a lookup
\* with one does, too, unless it creates the peer state.
LEMMA AnswerOK ==
    ASSUME SessionsInv, NEW n \in Node, NEW id \in Node, NEW scope \in Nat,
           NEW table, NEW at, NEW created, Answers(n, id, scope, table, at, created),
           scope = NoScope \/ ~created
    PROVE  /\ PeerOK(n, table[at])
           /\ ~created => table[at] \in Held(n)
<1>1. CASE created = FALSE
  <2>1. table[at] \in Held(n)
    BY <1>1 DEF Answers, Held
  <2> QED
    BY <2>1 DEF SessionsInv
<1>2. CASE created = TRUE
  <2>1. table[at] = NewPeer(id, scope, FreshSession(n))
    <3> DEFINE fresh == NewPeer(id, scope, FreshSession(n))
    <3>1. fresh \in Peer /\ table = <<fresh>> \o peers[n] /\ at = 1
      BY <1>2 DEF Answers
    <3> HIDE DEF fresh
    <3>2. <<fresh>> \in Seq(Peer) /\ Len(<<fresh>>) = 1 /\ <<fresh>>[1] = fresh
      BY <3>1
    <3>3. peers[n] \in Seq(Peer)
      BY DEF SessionsInv
    <3>4. table[1] = fresh
      BY <3>1, <3>2, <3>3, ConcatProperties
    <3> QED
      BY <3>1, <3>4 DEF fresh
  <2>2. FreshSession(n) \in 1..SessionMask
    <3>1. next_session_id[n] \in Nat
      BY DEF SessionsInv, HistoryOK
    <3> QED
      BY <3>1, FreshIsSession DEF FreshSession
  <2>3. sent \in Nat
    BY DEF SessionsInv, HistoryOK
  <2>4. PeerOK(n, NewPeer(id, scope, FreshSession(n)))
    BY <1>2, <2>2, <2>3, FreshOK
  <2> QED
    BY <1>2, <2>1, <2>4
<1> QED
  BY <1>1, <1>2 DEF Answers

\* The counter of session ids stays a counter of session ids.
LEMMA TakeSessionOK ==
    ASSUME SessionsInv, NEW n \in Node, NEW new \in BOOLEAN, TakeSession(n, new)
    PROVE  next_session_id' \in [Node -> 1..SessionMask]
<1>1. next_session_id \in [Node -> 1..SessionMask]
  BY DEF SessionsInv, HistoryOK
<1>2. CASE new
  <2>1. next_session_id[n] \in Nat
    BY <1>1
  <2>2. FreshSession(n) \in 1..SessionMask
    BY <2>1, FreshIsSession DEF FreshSession
  <2>3. FreshSession(n) + 1 \in Nat
    BY <2>2
  <2>4. NonZero(Masked(FreshSession(n) + 1)) \in 1..SessionMask
    BY <2>3, FreshIsSession
  <2> QED
    BY <1>1, <1>2, <2>4 DEF TakeSession
<1>3. CASE ~new
  BY <1>1, <1>3 DEF TakeSession
<1> QED
  BY <1>2, <1>3

\* HELLO goes out with the session of its peer state in the connection field.
LEMMA HelloOK ==
    ASSUME NEW n \in Node, NEW peer, PeerOK(n, peer), NEW packet \in Hello(n, peer)
    PROVE  PacketOK(packet)' /\ packet.kind = "hello"
<1>1. peer.peer_id \in Node /\ peer.session_id \in 1..SessionMask
  BY DEF PeerOK, Peer
<1>2. HeaderConnection(peer.scope, peer.session_id) = peer.session_id
  BY DEF HeaderConnection, PeerOK
<1>3. packet = Packet("hello", n, peer.peer_id, peer.session_id, NoMessage)
  BY <1>2 DEF Hello
<1> QED
  BY <1>1, <1>3 DEF PacketOK, Packet

-----------------------------------------------------------------------------
(***************************************************************************)
(* The actions that send                                                   *)
(***************************************************************************)
LEMMA SendInv ==
    ASSUME SessionsInv, NEW n \in Node, NEW to \in Node, Send(n, to, NoScope)
    PROVE  SessionsInv'
<1>1. PICK found : found = Lookup(n, to, NoScope)
  OBVIOUS
<1>2. PICK peer : peer = found.table[found.at]
  OBVIOUS
<1>3. PICK message : message = sent + 1
  OBVIOUS
<1>4. PICK new : new = [peer EXCEPT !.hello_sent = TRUE,
                                    !.next_packet_number = @ + 1,
                                    !.reliable_queue[peer.next_packet_number] = message]
  OBVIOUS
<1>5. /\ sent < MaxMessages
      /\ TakeSession(n, found.new)
      /\ peers' = [peers EXCEPT ![n] = [found.table EXCEPT ![found.at] = new]]
      /\ wire' = wire \cup Hello(n, peer) \cup {Data(n, peer, NoScope, message)}
      /\ sent' = message
      /\ UNCHANGED <<acknowledged, failed, delivered, redelivered, lost, forgot, restarts>>
  BY <1>1, <1>2, <1>3, <1>4 DEF Send, historyVars
<1>6. Answers(n, to, NoScope, found.table, found.at, found.new) /\ NoScope \in Nat
  BY <1>1, LookupAnswers DEF NoScope
<1>7. PeerOK(n, peer) /\ peer.peer_id = to /\ found.new \in BOOLEAN
  BY <1>2, <1>6, AnswerOK DEF Answers
<1>8. /\ peer \in Peer
      /\ peer.next_packet_number \in PacketNumber
      /\ peer.reliable_queue \in [PacketNumber -> 0..MaxMessages]
      /\ peer.session_id \in 1..SessionMask
  BY <1>7 DEF PeerOK, Peer
<1>9. /\ sent \in Nat /\ MaxMessages \in Nat /\ sent' = sent + 1 /\ sent' <= MaxMessages
      /\ message \in 1..MaxMessages
  <2>1. MaxMessages \in Nat /\ sent \in Nat
    BY SentBounded
  <2>2. sent < MaxMessages /\ sent' = message
    BY <1>5
  <2> QED
    BY <1>3, <2>1, <2>2
<1>10. peer.next_packet_number + 1 \in PacketNumber /\ peer.next_packet_number + 1 <= sent'
       /\ peer.next_packet_number \in Nat
  <2>1. peer.next_packet_number <= sent
    BY <1>7 DEF PeerOK
  <2>2. peer.next_packet_number \in 0..MaxMessages
    BY <1>8 DEF PacketNumber
  <2>3. peer.next_packet_number + 1 \in 0..MaxMessages
    BY <1>9, <2>1, <2>2
  <2> QED
    BY <1>9, <2>1, <2>2, <2>3 DEF PacketNumber
<1>11. /\ new \in Peer
       /\ new.peer_id = peer.peer_id /\ new.scope = peer.scope
       /\ new.session_id = peer.session_id
       /\ new.rx_next = peer.rx_next /\ new.rx_buffered = peer.rx_buffered
       /\ new.next_packet_number = peer.next_packet_number + 1
       /\ new.reliable_queue[peer.next_packet_number] = message
       /\ \A pn \in PacketNumber : pn # peer.next_packet_number =>
             new.reliable_queue[pn] = peer.reliable_queue[pn]
  <2>1. [peer.reliable_queue EXCEPT ![peer.next_packet_number] = message]
            \in [PacketNumber -> 0..MaxMessages]
    BY <1>8, <1>9
  <2> QED
    BY <1>4, <1>8, <1>10, <2>1 DEF Peer
<1>12. Swapped(n, peer, new)
  BY <1>2, <1>5, <1>6, <1>7, <1>11, LookupSwaps
<1>13. Onward
  <2>1. sent' \in Nat /\ sent <= sent' /\ wire \subseteq wire'
    BY <1>5, <1>9
  <2> QED
    BY <1>5, <1>9, <1>11, <1>12, <2>1, SwapOnward
<1> DEFINE data == DataPacket(n, to, peer.session_id, peer.next_packet_number, message)
<1>14. Data(n, peer, NoScope, message) = data
  BY <1>7 DEF Data, DataPacket, HeaderConnection
<1>15. data \in wire'
  BY <1>5, <1>14
<1>16. PeerOK(n, new)'
  <2>1. PeerOK(n, peer)'
    BY <1>7, <1>13, PeerOnward
  <2>2. peer.scope # NoScope => peer.scope = peer.session_id
    BY <1>7 DEF PeerOK
  <2>3. ASSUME NEW pn \in PacketNumber, new.reliable_queue[pn] # NoMessage
        PROVE  /\ pn < new.next_packet_number
               /\ DataPacket(n, new.peer_id, new.session_id, pn, new.reliable_queue[pn]) \in wire'
    <3>1. CASE pn = peer.next_packet_number
      BY <1>7, <1>10, <1>11, <1>15, <3>1
    <3>2. CASE pn # peer.next_packet_number
      <4>1. /\ pn < peer.next_packet_number
            /\ DataPacket(n, peer.peer_id, peer.session_id, pn, peer.reliable_queue[pn]) \in wire
        BY <1>7, <1>11, <2>3, <3>2 DEF PeerOK
      <4>2. wire \subseteq wire' /\ pn \in Nat
        BY <1>5 DEF PacketNumber
      <4> QED
        BY <1>10, <1>11, <3>2, <4>1, <4>2
    <3> QED
      BY <3>1, <3>2
  <2>4. \A pn \in PacketNumber : new.rx_buffered[pn] # NoMessage =>
          /\ pn > new.rx_next
          /\ DataPacket(new.peer_id, n, new.scope, pn, new.rx_buffered[pn]) \in wire'
    BY <1>11, <2>1 DEF PeerOK, DataPacket, Packet
  <2>5. \A pn \in PacketNumber : pn < new.rx_next =>
          Arrived(new.peer_id, n, new.scope, pn)'
    BY <1>11, <2>1 DEF PeerOK
  <2> QED
    BY <1>10, <1>11, <2>2, <2>3, <2>4, <2>5 DEF PeerOK, DataPacket, Packet
<1>17. ASSUME NEW packet \in wire' \ wire
       PROVE  PacketOK(packet)' /\ (packet.kind = "data" => packet = data)
  <2>1. CASE packet \in Hello(n, peer)
    BY <1>7, <2>1, HelloOK
  <2>2. CASE packet = data
    <3>1. message \in 1..sent'
      BY <1>9, <1>5
    <3> QED
      BY <1>8, <2>2, <3>1 DEF PacketOK, DataPacket, Packet
  <2> QED
    BY <1>5, <1>14, <2>1, <2>2
<1>18. \A packet \in DataOnWire : packet.body.message \in 1..sent
  BY DEF SessionsInv, PacketOK, DataOnWire
<1>19. message \notin 1..sent /\ data.body.message = message
  BY <1>3, <1>9 DEF DataPacket, Packet
<1>20. \A packet \in DataOnWire' : packet \in DataOnWire \/ packet = data
  BY <1>17 DEF DataOnWire
<1> HIDE DEF data
<1>21. OnePacketPerMessage'
  <2> SUFFICES ASSUME NEW p \in DataOnWire', NEW q \in DataOnWire',
                      p.body.message = q.body.message
               PROVE  p = q
    BY DEF OnePacketPerMessage
  <2> QED
    BY <1>18, <1>19, <1>20 DEF SessionsInv, OnePacketPerMessage
<1>22. HistoryOK'
  BY <1>5, <1>7, <1>9, TakeSessionOK DEF SessionsInv, HistoryOK
<1>23. message \notin delivered /\ message \notin redelivered
  BY <1>19 DEF SessionsInv, HistoryOK
<1>24. \A packet \in DataOnWire' :
          Counted(packet)' \/ (packet \in wire /\ packet.body.message \in delivered)
  BY <1>5, <1>19, <1>20, <1>23 DEF Counted, DataOnWire
<1>25. DeliveredOnce'
  <2>1. \A packet \in DataOnWire : packet.body.message \in redelivered => packet.to \in forgot
    BY DEF SessionsInv, DeliveredOnce, DataOnWire
  <2>2. \A packet \in DataOnWire' : packet.body.message \in redelivered => packet.to \in forgot
    BY <1>19, <1>20, <1>23, <2>1
  <2> QED
    BY <1>5, <2>2 DEF DeliveredOnce, DataOnWire
<1>26. \A m \in (1..sent') \ (1..sent) : \E k \in Node : Queued(k, m)'
  <2> SUFFICES ASSUME NEW m \in (1..sent') \ (1..sent)
               PROVE  Queued(n, m)'
    OBVIOUS
  <2>1. m = message
    BY <1>3, <1>9
  <2>2. new \in Held(n)'
    BY <1>12 DEF Swapped
  <2> QED
    BY <1>8, <1>11, <2>1, <2>2, QueuedHeld
<1>27. \A pn \in PacketNumber : peer.reliable_queue[pn] # NoMessage =>
           \/ new.reliable_queue[pn] = peer.reliable_queue[pn]
           \/ peer.reliable_queue[pn] \in acknowledged' \cup failed'
  <2>1. \A pn \in PacketNumber : peer.reliable_queue[pn] # NoMessage => pn < peer.next_packet_number
    BY <1>7 DEF PeerOK
  <2> QED
    BY <1>10, <1>11, <2>1 DEF PacketNumber
<1>28. peer.rx_next <= new.rx_next
  BY <1>8, <1>11 DEF Peer
<1>29. /\ forgot' = forgot /\ lost' = lost
       /\ acknowledged \subseteq acknowledged' /\ failed \subseteq failed'
       /\ (\A m \in acknowledged' \ acknowledged : Reached(m)' \/ NumberReused(m)')
  BY <1>5
<1> QED
  BY <1>8, <1>11, <1>12, <1>13, <1>16, <1>17, <1>21, <1>22, <1>24, <1>25, <1>26, <1>27,
     <1>28, <1>29, SwapStep

\* A send the lower layer refuses keeps the invariant.
LEMMA SendRefusedInv ==
    ASSUME SessionsInv, NEW n \in Node, NEW to \in Node, NEW hello \in BOOLEAN,
           SendRefused(n, to, NoScope, hello)
    PROVE  SessionsInv'
<1>1. PICK found : found = Lookup(n, to, NoScope)
  OBVIOUS
<1>2. PICK peer : peer = found.table[found.at]
  OBVIOUS
<1>3. PICK new : new = [peer EXCEPT !.hello_sent = hello]
  OBVIOUS
<1>4. Answers(n, to, NoScope, found.table, found.at, found.new) /\ NoScope \in Nat
  BY <1>1, LookupAnswers DEF NoScope
<1>5. PeerOK(n, peer) /\ peer.peer_id = to /\ found.new \in BOOLEAN /\ peer \in Peer
  <2>1. PeerOK(n, peer) /\ peer.peer_id = to /\ found.new \in BOOLEAN
    BY <1>2, <1>4, AnswerOK DEF Answers
  <2> QED
    BY <2>1 DEF PeerOK
<1>6. [found.table EXCEPT ![found.at].hello_sent = hello] = [found.table EXCEPT ![found.at] = new]
  BY <1>2, <1>3, <1>4 DEF Answers
<1>7. /\ TakeSession(n, found.new)
      /\ peers' = [peers EXCEPT ![n] = [found.table EXCEPT ![found.at] = new]]
      /\ wire' = wire \cup {packet \in Hello(n, peer) : hello}
      /\ UNCHANGED <<sent, acknowledged, failed, delivered, redelivered, historyVars>>
  BY <1>1, <1>2, <1>6 DEF SendRefused
<1>8. /\ new \in Peer
      /\ new.peer_id = peer.peer_id /\ new.scope = peer.scope
      /\ new.session_id = peer.session_id
      /\ new.rx_next = peer.rx_next /\ new.rx_buffered = peer.rx_buffered
      /\ new.next_packet_number = peer.next_packet_number
      /\ new.reliable_queue = peer.reliable_queue
  BY <1>3, <1>5 DEF Peer
<1>9. Swapped(n, peer, new)
  BY <1>2, <1>4, <1>5, <1>7, <1>8, LookupSwaps
<1>10. sent \in Nat /\ sent' = sent /\ wire \subseteq wire' /\ delivered' = delivered /\ lost' = lost
       /\ failed' = failed /\ failed \subseteq 1..sent
  BY <1>7 DEF SessionsInv, HistoryOK, historyVars
<1>11. Onward
  BY <1>8, <1>9, <1>10, SwapOnward
<1>12. PeerOK(n, new)'
  <2>1. PeerOK(n, new)
    BY <1>5, <1>8 DEF PeerOK
  <2> QED
    BY <1>11, <2>1, PeerOnward
<1>13. ASSUME NEW packet \in wire' \ wire
       PROVE  PacketOK(packet)' /\ packet.kind # "data"
  <2>1. packet \in Hello(n, peer)
    BY <1>7
  <2>2. PacketOK(packet)' /\ packet.kind = "hello"
    BY <1>5, <2>1, HelloOK
  <2> QED
    BY <2>2
<1>14. peer.rx_next <= new.rx_next
  BY <1>5, <1>8 DEF Peer
<1>15. next_session_id' \in [Node -> 1..SessionMask]
  BY <1>5, <1>7, TakeSessionOK
<1> QED
  BY <1>5, <1>7, <1>8, <1>9, <1>10, <1>11, <1>12, <1>13, <1>14, <1>15, QuietStep

\* Giving a packet up after its last retry keeps the invariant.
LEMMA GiveUpInv ==
    ASSUME SessionsInv, NEW n \in Node, NEW i \in DOMAIN peers[n], NEW pn \in PacketNumber,
           GiveUp(n, i, pn)
    PROVE  SessionsInv'
<1>1. PICK peer : peer = peers[n][i]
  OBVIOUS
<1>2. PICK new : new = [peer EXCEPT !.reliable_queue[pn] = NoMessage]
  OBVIOUS
<1>3. peer \in Held(n) /\ PeerOK(n, peer) /\ peer \in Peer
  BY <1>1 DEF Held, SessionsInv, PeerOK
<1>4. peers \in [Node -> Seq(Peer)]
  BY DEF SessionsInv
<1>5. [peers EXCEPT ![n][i].reliable_queue[pn] = NoMessage]
        = [peers EXCEPT ![n] = [peers[n] EXCEPT ![i] = new]]
  BY <1>1, <1>2, <1>4
<1>6. /\ peer.reliable_queue[pn] # NoMessage
      /\ failed' = failed \cup {peer.reliable_queue[pn]}
      /\ peers' = [peers EXCEPT ![n] = [peers[n] EXCEPT ![i] = new]]
      /\ UNCHANGED <<next_session_id, wire, sent, acknowledged, delivered, redelivered,
                     sessions, historyVars>>
  BY <1>1, <1>5 DEF GiveUp
<1>7. peer.reliable_queue \in [PacketNumber -> 0..MaxMessages]
  BY <1>3 DEF Peer
<1>8. /\ new \in Peer
      /\ new.peer_id = peer.peer_id /\ new.scope = peer.scope
      /\ new.session_id = peer.session_id
      /\ new.rx_next = peer.rx_next /\ new.rx_buffered = peer.rx_buffered
      /\ new.next_packet_number = peer.next_packet_number
      /\ new.reliable_queue[pn] = NoMessage
      /\ \A q \in PacketNumber : q # pn => new.reliable_queue[q] = peer.reliable_queue[q]
  <2>1. [peer.reliable_queue EXCEPT ![pn] = NoMessage] \in [PacketNumber -> 0..MaxMessages]
    <3>1. NoMessage \in 0..MaxMessages
      BY ConstantBounds DEF NoMessage
    <3> QED
      BY <1>7, <3>1
  <2> QED
    BY <1>2, <1>3, <1>7, <2>1 DEF Peer
<1>9. Swapped(n, peer, new)
  BY <1>1, <1>6, <1>8, ChangeSwaps
<1>10. sent \in Nat /\ sent' = sent /\ wire' = wire /\ delivered' = delivered /\ lost' = lost
       /\ next_session_id' \in [Node -> 1..SessionMask] /\ failed \subseteq failed'
  BY <1>6 DEF SessionsInv, HistoryOK, historyVars
<1>11. Onward
  BY <1>8, <1>9, <1>10, SwapOnward
<1>12. PeerOK(n, new)'
  <2>1. PeerOK(n, new)
    BY <1>3, <1>8 DEF PeerOK
  <2> QED
    BY <1>11, <2>1, PeerOnward
<1>13. failed' \subseteq 1..sent
  <2>1. DataPacket(n, peer.peer_id, peer.session_id, pn, peer.reliable_queue[pn]) \in wire
    BY <1>3, <1>6 DEF PeerOK
  <2>2. peer.reliable_queue[pn] \in 1..sent
    BY <2>1 DEF SessionsInv, PacketOK, DataPacket, Packet
  <2> QED
    BY <1>6, <2>2 DEF SessionsInv, HistoryOK
<1>14. peer.rx_next <= new.rx_next
  BY <1>3, <1>8 DEF Peer
<1>15. \A q \in PacketNumber : peer.reliable_queue[q] # NoMessage =>
          new.reliable_queue[q] = peer.reliable_queue[q] \/ peer.reliable_queue[q] \in failed'
  BY <1>6, <1>8
<1> QED
  BY <1>3, <1>6, <1>8, <1>9, <1>10, <1>11, <1>12, <1>13, <1>14, <1>15, QuietStep

-----------------------------------------------------------------------------
(***************************************************************************)
(* The actions that receive                                                *)
(***************************************************************************)
\* The peer state a received packet meets: the one its connection names, or one
\* made for it, in the session the packet carries.
LEMMA ReceiverOK ==
    ASSUME SessionsInv, NEW packet \in wire, NEW found,
           found = Lookup(packet.to, packet.from, packet.connection)
    PROVE  /\ packet.to \in Node /\ packet.from \in Node /\ packet.connection \in 1..SessionMask
           /\ packet.connection \in Nat /\ packet.connection # NoScope
           /\ PacketSession(packet) = packet.connection
           /\ Masked(PacketSession(packet)) = packet.connection
           /\ Answers(packet.to, packet.from, packet.connection, found.table, found.at, found.new)
           /\ found.new \in BOOLEAN
           /\ ~found.new => /\ found.table[found.at] \in Held(packet.to)
                            /\ PeerOK(packet.to, found.table[found.at])
                            /\ found.table[found.at].session_id = packet.connection
           /\ found.new =>
                 /\ found.table[found.at] =
                       NewPeer(packet.from, packet.connection, FreshSession(packet.to))
                 /\ \A peer \in Held(packet.to) :
                       ~(peer.peer_id = packet.from /\ peer.scope = packet.connection)
           /\ PeerOK(packet.to, NewPeer(packet.from, packet.connection, packet.connection))
<1>1. packet.to \in Node /\ packet.from \in Node /\ packet.connection \in 1..SessionMask
  BY DEF SessionsInv, PacketOK
<1>2. packet.connection \in Nat /\ packet.connection # NoScope
  BY <1>1, ConstantBounds DEF NoScope
<1>3. PacketSession(packet) = packet.connection /\ Masked(packet.connection) = packet.connection
  BY <1>1, MaskKeeps DEF PacketSession
<1>4. Answers(packet.to, packet.from, packet.connection, found.table, found.at, found.new)
  BY <1>1, <1>2, LookupAnswers
<1>5. found.new \in BOOLEAN
  BY <1>4 DEF Answers
<1>6. ASSUME ~found.new
      PROVE  /\ found.table[found.at] \in Held(packet.to)
             /\ PeerOK(packet.to, found.table[found.at])
             /\ found.table[found.at].session_id = packet.connection
  <2>1. PeerOK(packet.to, found.table[found.at]) /\ found.table[found.at] \in Held(packet.to)
    BY <1>1, <1>2, <1>4, <1>6, AnswerOK
  <2>2. found.table[found.at].scope = packet.connection
    BY <1>2, <1>4 DEF Answers
  <2> QED
    BY <1>2, <2>1, <2>2 DEF PeerOK
<1>7. ASSUME found.new
      PROVE  /\ found.table[found.at] =
                   NewPeer(packet.from, packet.connection, FreshSession(packet.to))
             /\ \A peer \in Held(packet.to) :
                   ~(peer.peer_id = packet.from /\ peer.scope = packet.connection)
  <2>1. \A peer \in Held(packet.to) :
           ~(peer.peer_id = packet.from /\ peer.scope = packet.connection)
    BY <1>4, <1>7 DEF Answers, Held
  <2>2. PICK fresh : fresh = NewPeer(packet.from, packet.connection, FreshSession(packet.to))
    OBVIOUS
  <2>3. fresh \in Peer /\ found.table = <<fresh>> \o peers[packet.to] /\ found.at = 1
    BY <1>4, <1>7, <2>2 DEF Answers
  <2>4. <<fresh>> \in Seq(Peer) /\ Len(<<fresh>>) = 1 /\ <<fresh>>[1] = fresh
    BY <2>3
  <2>5. peers[packet.to] \in Seq(Peer)
    BY <1>1 DEF SessionsInv
  <2>6. (<<fresh>> \o peers[packet.to])[1] = fresh
    BY <2>4, <2>5, ConcatProperties
  <2> QED
    BY <2>1, <2>2, <2>3, <2>6
<1>8. PeerOK(packet.to, NewPeer(packet.from, packet.connection, packet.connection))
  <2>1. sent \in Nat
    BY DEF SessionsInv, HistoryOK
  <2> QED
    BY <1>1, <2>1, FreshOK
<1> QED
  BY <1>1, <1>2, <1>3, <1>4, <1>5, <1>6, <1>7, <1>8

\* xgl_transport_handle_hello keeps the invariant: a HELLO of another session
\* resets the peer state, one of the same session leaves it.
LEMMA ReceiveHelloInv ==
    ASSUME SessionsInv, NEW packet \in wire, ReceiveHello(packet)
    PROVE  SessionsInv'
<1>1. PICK n, from, c : n = packet.to /\ from = packet.from /\ c = packet.connection
  OBVIOUS
<1>2. PICK found : found = Lookup(n, from, c)
  OBVIOUS
<1>3. PICK peer : peer = found.table[found.at]
  OBVIOUS
<1>4. /\ n \in Node /\ from \in Node /\ c \in 1..SessionMask /\ c \in Nat /\ c # NoScope
      /\ Masked(PacketSession(packet)) = c /\ Masked(c) = c
      /\ Answers(n, from, c, found.table, found.at, found.new)
      /\ found.new \in BOOLEAN
      /\ ~found.new => peer \in Held(n) /\ PeerOK(n, peer) /\ peer.session_id = c
      /\ found.new => peer = NewPeer(from, c, FreshSession(n))
      /\ PeerOK(n, NewPeer(from, c, c))
  BY <1>1, <1>2, <1>3, ReceiverOK, MaskKeeps
<1>5. PICK new : new = AfterHello(peer, c)
  OBVIOUS
<1>6. /\ TakeSession(n, found.new)
      /\ peers' = [peers EXCEPT ![n] = [found.table EXCEPT ![found.at] = new]]
      /\ UNCHANGED <<wire, sent, acknowledged, failed, delivered, redelivered, historyVars>>
  BY <1>1, <1>2, <1>3, <1>4, <1>5 DEF ReceiveHello
<1>7. /\ new = peer \/ new = NewPeer(from, c, c)
      /\ PeerOK(n, new) /\ (found.new => new = NewPeer(from, c, c))
      /\ (~found.new => new = peer)
  <2>1. CASE found.new
    <3>1. peer = NewPeer(from, c, FreshSession(n))
      BY <1>4, <2>1
    <3>2. peer.peer_id = from /\ peer.scope = c /\ peer.session_id = FreshSession(n)
      BY <3>1 DEF NewPeer
    <3>3. Reset(peer, c) = NewPeer(from, c, c)
      BY <1>4, <3>2 DEF Reset
    <3> QED
      BY <1>4, <1>5, <2>1, <3>1, <3>2, <3>3 DEF AfterHello
  <2>2. CASE ~found.new
    BY <1>4, <1>5, <2>2 DEF AfterHello
  <2> QED
    BY <1>4, <2>1, <2>2
<1>8. peer \in Peer /\ peer.peer_id = from /\ peer.scope = c
  <2>1. peer.peer_id = from /\ peer.scope = c
    BY <1>3, <1>4 DEF Answers
  <2>2. found.table \in Seq(Peer) /\ found.at \in DOMAIN found.table
    BY <1>4 DEF Answers
  <2> QED
    BY <1>3, <2>1, <2>2
<1>9. new \in Peer
  BY <1>7 DEF PeerOK
<1>10. /\ new.peer_id = peer.peer_id /\ new.scope = peer.scope /\ new.rx_next = peer.rx_next
       /\ new.rx_buffered = peer.rx_buffered /\ new.reliable_queue = peer.reliable_queue
  BY <1>4, <1>7, <1>8 DEF NewPeer
<1>11. Swapped(n, peer, new)
  BY <1>3, <1>4, <1>6, <1>8, <1>9, <1>10, LookupSwaps
<1>12. sent \in Nat /\ sent' = sent /\ wire' = wire /\ delivered' = delivered /\ lost' = lost
       /\ failed' = failed /\ failed \subseteq 1..sent
  BY <1>6 DEF SessionsInv, HistoryOK, historyVars
<1>13. Onward
  BY <1>4, <1>10, <1>11, <1>12, SwapOnward
<1>14. PeerOK(n, new)'
  BY <1>7, <1>13, PeerOnward
<1>15. next_session_id' \in [Node -> 1..SessionMask]
  BY <1>4, <1>6, TakeSessionOK
<1>16. peer.rx_next <= new.rx_next
  BY <1>8, <1>10 DEF Peer
<1> QED
  BY <1>4, <1>6, <1>8, <1>9, <1>10, <1>11, <1>12, <1>13, <1>14, <1>15, <1>16, QuietStep

\* The peer state reliable data meets, and what storing it changed does.
LEMMA RxPeerOK ==
    ASSUME SessionsInv, NEW packet \in wire, NEW n, n = packet.to,
           NEW found, found = RxPeer(n, packet), NEW peer, peer = found.table[found.at]
    PROVE  /\ n \in Node /\ packet.from \in Node
           /\ found.new \in BOOLEAN
           /\ PeerOK(n, peer) /\ peer.peer_id = packet.from /\ peer.scope = packet.connection
           /\ \/ peer \in Held(n)
              \/ /\ peer = NewPeer(packet.from, packet.connection, packet.connection)
                 /\ \A p \in Held(n) :
                       ~(p.peer_id = packet.from /\ p.scope = packet.connection)
           /\ \A new \in Peer :
                 /\ new.peer_id = peer.peer_id /\ new.scope = peer.scope
                 /\ peers' = [peers EXCEPT ![n] = [found.table EXCEPT ![found.at] = new]]
                 => Swapped(n, peer, new)
<1>1. PICK from, c : from = packet.from /\ c = packet.connection
  OBVIOUS
<1>2. PICK answer : answer = Lookup(n, from, c)
  OBVIOUS
<1>3. PICK first : first = answer.table[answer.at]
  OBVIOUS
<1>4. /\ n \in Node /\ from \in Node /\ c \in 1..SessionMask /\ c \in Nat /\ c # NoScope
      /\ PacketSession(packet) = c /\ Masked(c) = c
      /\ Answers(n, from, c, answer.table, answer.at, answer.new)
      /\ answer.new \in BOOLEAN
      /\ ~answer.new => first \in Held(n) /\ PeerOK(n, first)
      /\ answer.new => /\ first = NewPeer(from, c, FreshSession(n))
                       /\ \A p \in Held(n) : ~(p.peer_id = from /\ p.scope = c)
      /\ PeerOK(n, NewPeer(from, c, c))
  BY <1>1, <1>2, <1>3, ReceiverOK, MaskKeeps
<1>5. /\ first.peer_id = from /\ first.scope = c
      /\ answer.table \in Seq(Peer) /\ answer.at \in DOMAIN answer.table
  BY <1>3, <1>4 DEF Answers
<1>6. ASSUME NEW new \in Peer, new.peer_id = from, new.scope = c,
             peers' = [peers EXCEPT ![n] = [answer.table EXCEPT ![answer.at] = new]]
      PROVE  Swapped(n, first, new)
  BY <1>3, <1>4, <1>5, <1>6, LookupSwaps
<1>7. CASE ~answer.new
  <2>1. found = answer
    BY <1>1, <1>2, <1>7 DEF RxPeer
  <2>2. peer = first
    BY <1>3, <2>1
  <2> QED
    BY <1>1, <1>4, <1>5, <1>6, <1>7, <2>1, <2>2
<1>8. CASE answer.new
  <2>1. found = [answer EXCEPT !.table[answer.at] = Reset(@, c)]
    BY <1>1, <1>2, <1>4, <1>8 DEF RxPeer
  <2>2. Reset(first, c) = NewPeer(from, c, c)
    BY <1>4, <1>5 DEF Reset
  <2>3. \E table, at, new : answer = [table |-> table, at |-> at, new |-> new]
    BY <1>2 DEF Lookup
  <2>4. /\ found.table = [answer.table EXCEPT ![answer.at] = NewPeer(from, c, c)]
        /\ found.at = answer.at
        /\ found.new = answer.new
    BY <1>3, <2>1, <2>2, <2>3
  <2>5. peer = NewPeer(from, c, c)
    BY <1>5, <2>4
  <2>6. \A new : [found.table EXCEPT ![found.at] = new] = [answer.table EXCEPT ![answer.at] = new]
    BY <1>5, <2>4
  <2>7. peer.peer_id = from /\ peer.scope = c
    BY <2>5 DEF NewPeer
  <2>8. ASSUME NEW new \in Peer, new.peer_id = from, new.scope = c,
               peers' = [peers EXCEPT ![n] = [found.table EXCEPT ![found.at] = new]]
        PROVE  Swapped(n, peer, new)
    <3>1. Swapped(n, first, new)
      BY <1>6, <2>6, <2>8
    <3>2. first \notin Held(n)
      BY <1>4, <1>5, <1>8
    <3> QED
      BY <3>1, <3>2 DEF Swapped
  <2> QED
    BY <1>1, <1>4, <1>8, <2>4, <2>5, <2>7, <2>8
<1> QED
  BY <1>4, <1>7, <1>8

\* What a packet in order sets free is an interval of numbers that starts with
\* it, and the number behind the interval is not cached.
LEMMA DrainedInterval ==
    ASSUME NEW peer \in Peer, NEW pn \in PacketNumber
    PROVE  \E last \in PacketNumber :
             /\ pn <= last
             /\ Drained(peer, pn) = pn..last
             /\ Cardinality(Drained(peer, pn)) = last + 1 - pn
             /\ \A p \in (pn + 1)..last : peer.rx_buffered[p] # NoMessage
             /\ last + 1 \in PacketNumber => peer.rx_buffered[last + 1] = NoMessage
<1> DEFINE full == {p \in PacketNumber : p >= pn /\ \A q \in (pn + 1)..p :
                        peer.rx_buffered[q] # NoMessage}
           rest == {q \in (pn + 1)..(MaxMessages + 1) : q \notin full}
<1>1. MaxMessages \in Nat /\ pn \in 0..MaxMessages
  BY ConstantBounds DEF PacketNumber
<1>2. \E s \in rest : \A q \in rest : s <= q
  <2>1. IsFiniteSet((pn + 1)..(MaxMessages + 1))
    BY <1>1, FS_Interval
  <2>2. rest \in SUBSET Int /\ rest \subseteq (pn + 1)..(MaxMessages + 1)
    BY <1>1
  <2>3. MaxMessages + 1 \in rest
    BY <1>1 DEF PacketNumber
  <2> HIDE DEF rest
  <2>4. IsFiniteSet(rest)
    BY <2>1, <2>2, FS_Subset
  <2> QED
    BY <2>2, <2>3, <2>4, SmallestExists
<1>3. PICK s : s \in rest /\ \A q \in rest : s <= q
  BY <1>2
<1>4. s \in Int /\ s >= pn + 1 /\ s <= MaxMessages + 1 /\ s \notin full
  BY <1>1, <1>3
<1>5. \A q \in pn..(s - 1) : q \in full
  <2> SUFFICES ASSUME NEW q \in pn..(s - 1)
               PROVE  q \in full
    OBVIOUS
  <2>1. q \in Int /\ pn <= q /\ q < s /\ q \in PacketNumber
    BY <1>1, <1>4 DEF PacketNumber
  <2>2. CASE q = pn
    BY <1>1, <2>1, <2>2
  <2>3. CASE q # pn
    <3>1. q \in (pn + 1)..(MaxMessages + 1) /\ ~(s <= q)
      BY <1>1, <1>4, <2>1, <2>3
    <3> QED
      BY <1>3, <3>1
  <2> QED
    BY <2>2, <2>3
<1>6. \A p \in (pn + 1)..(s - 1) : peer.rx_buffered[p] # NoMessage
  BY <1>1, <1>4, <1>5
<1>7. s \in PacketNumber => peer.rx_buffered[s] = NoMessage
  <2> SUFFICES ASSUME s \in PacketNumber, peer.rx_buffered[s] # NoMessage
               PROVE  FALSE
    OBVIOUS
  <2>1. \A q \in (pn + 1)..s : peer.rx_buffered[q] # NoMessage
    <3> SUFFICES ASSUME NEW q \in (pn + 1)..s
                 PROVE  peer.rx_buffered[q] # NoMessage
      OBVIOUS
    <3>1. q = s \/ q \in (pn + 1)..(s - 1)
      BY <1>1, <1>4
    <3> QED
      BY <1>6, <3>1
  <2> QED
    BY <1>1, <1>4, <2>1
<1>8. \A q \in full : q \in pn..(s - 1)
  <2> SUFFICES ASSUME NEW q \in full, ~(q <= s - 1)
               PROVE  FALSE
    BY <1>1, <1>4 DEF PacketNumber
  <2>1. q \in Int /\ s <= q /\ s \in PacketNumber
    BY <1>1, <1>4 DEF PacketNumber
  <2>2. s \in (pn + 1)..q
    BY <1>1, <1>4, <2>1
  <2>3. peer.rx_buffered[s] # NoMessage
    BY <2>2
  <2> QED
    BY <1>7, <2>1, <2>3
<1>9. full = pn..(s - 1)
  <2> HIDE DEF full
  <2> QED
    BY <1>5, <1>8
<1>10. Drained(peer, pn) = pn..(s - 1)
  BY <1>9 DEF Drained
<1>11. Cardinality(pn..(s - 1)) = s - pn
  BY <1>1, <1>4, IntervalCounts
<1>12. s - 1 \in PacketNumber /\ pn <= s - 1 /\ (s - 1) + 1 = s
  BY <1>1, <1>4 DEF PacketNumber
<1>13. PICK last : last = s - 1
  OBVIOUS
<1>14. /\ last \in PacketNumber /\ pn <= last
       /\ Drained(peer, pn) = pn..last
       /\ Cardinality(Drained(peer, pn)) = last + 1 - pn
       /\ \A p \in (pn + 1)..last : peer.rx_buffered[p] # NoMessage
       /\ last + 1 \in PacketNumber => peer.rx_buffered[last + 1] = NoMessage
  BY <1>1, <1>4, <1>6, <1>7, <1>10, <1>11, <1>12, <1>13
<1> QED
  BY <1>14

\* An acknowledgement may name what arrived.
LEMMA AckOK ==
    ASSUME NEW n \in Node, NEW from \in Node, NEW c \in 1..SessionMask, NEW base, NEW received,
           \A pn \in received : pn \in PacketNumber /\ Arrived(from, n, c, pn)',
           NEW packet, packet = Packet("ack", n, from, c, [base |-> base, received |-> received])
    PROVE  PacketOK(packet)' /\ packet.kind # "data"
<1>1. /\ packet.kind = "ack" /\ packet.from = n /\ packet.to = from
      /\ packet.connection = c /\ packet.body.received = received
  BY DEF Packet
<1> QED
  BY <1>1 DEF PacketOK

\* What the receiver does with data below or behind the number it waits for:
\* acknowledge it again, or cache or drop it.
OutOfOrder(packet, pn, peer, new, ack) ==
    \/ pn < peer.rx_next /\ new = peer /\ ack \in Acks(packet, {pn})
    \/ /\ pn > peer.rx_next
       /\ new \in {peer, [peer EXCEPT !.rx_buffered[pn] =
                       IF @ = NoMessage THEN packet.body.message ELSE @]}
       /\ ack = Sack(packet, new)

\* The peer state it leaves: at most the packet is added to the cache.
CachedAtMost(peer, pn, message, new) ==
    /\ new \in Peer
    /\ new.peer_id = peer.peer_id /\ new.scope = peer.scope
    /\ new.session_id = peer.session_id
    /\ new.rx_next = peer.rx_next
    /\ new.next_packet_number = peer.next_packet_number
    /\ new.reliable_queue = peer.reliable_queue
    /\ \A q \in PacketNumber :
          \/ new.rx_buffered[q] = peer.rx_buffered[q]
          \/ q = pn /\ pn > peer.rx_next /\ peer.rx_buffered[q] = NoMessage
             /\ new.rx_buffered[q] = message

\* Out of order data adds at most itself to the cache.
LEMMA OutOfOrderPeer ==
    ASSUME NEW peer \in Peer, NEW packet, NEW pn \in PacketNumber, NEW message \in 0..MaxMessages,
           message = packet.body.message, NEW new, NEW ack,
           OutOfOrder(packet, pn, peer, new, ack)
    PROVE  CachedAtMost(peer, pn, message, new)
<1>1. \/ new = peer
      \/ /\ new = [peer EXCEPT !.rx_buffered[pn] = IF @ = NoMessage THEN message ELSE @]
         /\ pn > peer.rx_next
  BY DEF OutOfOrder
<1>2. peer.rx_buffered \in [PacketNumber -> 0..MaxMessages]
  BY DEF Peer
<1>3. CASE new = peer
  BY <1>3 DEF CachedAtMost
<1>4. CASE /\ new = [peer EXCEPT !.rx_buffered[pn] = IF @ = NoMessage THEN message ELSE @]
           /\ pn > peer.rx_next
  <2>1. PICK kept : kept = IF peer.rx_buffered[pn] = NoMessage THEN message
                           ELSE peer.rx_buffered[pn]
    OBVIOUS
  <2>2. \/ peer.rx_buffered[pn] = NoMessage /\ kept = message
        \/ kept = peer.rx_buffered[pn]
    BY <2>1
  <2>3. kept \in 0..MaxMessages
    BY <1>2, <2>2
  <2>4. [peer.rx_buffered EXCEPT ![pn] = kept] \in [PacketNumber -> 0..MaxMessages]
    BY <1>2, <2>3
  <2>5. new = [peer EXCEPT !.rx_buffered = [peer.rx_buffered EXCEPT ![pn] = kept]]
    BY <1>4, <2>1 DEF Peer
  <2>6. /\ new \in Peer
        /\ new.peer_id = peer.peer_id /\ new.scope = peer.scope
        /\ new.session_id = peer.session_id
        /\ new.rx_next = peer.rx_next
        /\ new.next_packet_number = peer.next_packet_number
        /\ new.reliable_queue = peer.reliable_queue
        /\ new.rx_buffered = [peer.rx_buffered EXCEPT ![pn] = kept]
    BY <2>4, <2>5 DEF Peer
  <2>7. \A q \in PacketNumber :
           new.rx_buffered[q] = IF q = pn THEN kept ELSE peer.rx_buffered[q]
    BY <1>2, <2>6
  <2> QED
    BY <1>4, <2>2, <2>6, <2>7 DEF CachedAtMost
<1> QED
  BY <1>1, <1>3, <1>4

\* Data below or behind the number the receiver waits for.
LEMMA ReceiveDataKept ==
    ASSUME SessionsInv, NEW packet \in wire, NEW n \in Node, NEW from \in Node,
           NEW c \in 1..SessionMask, NEW pn \in PacketNumber, NEW message \in 0..MaxMessages,
           packet = DataPacket(from, n, c, pn, message),
           NEW peer \in Peer, PeerOK(n, peer), peer.peer_id = from, peer.scope = c,
           NEW new, NEW ack, OutOfOrder(packet, pn, peer, new, ack),
           CachedAtMost(peer, pn, message, new), Swapped(n, peer, new),
           next_session_id' \in [Node -> 1..SessionMask],
           wire' = wire \cup {ack},
           UNCHANGED <<sent, acknowledged, failed, delivered, redelivered, historyVars>>
    PROVE  SessionsInv'
<1>1. MaxMessages \in Nat /\ sent \in 0..MaxMessages /\ sent \in Nat
  BY SentBounded
<1>2. sent' = sent /\ wire \subseteq wire' /\ delivered' = delivered
      /\ lost' = lost /\ failed' = failed /\ failed \subseteq 1..sent
  BY DEF SessionsInv, HistoryOK, historyVars
<1>3. /\ new \in Peer
      /\ new.peer_id = peer.peer_id /\ new.scope = peer.scope
      /\ new.session_id = peer.session_id
      /\ new.rx_next = peer.rx_next
      /\ new.next_packet_number = peer.next_packet_number
      /\ new.reliable_queue = peer.reliable_queue
      /\ \A q \in PacketNumber :
            \/ new.rx_buffered[q] = peer.rx_buffered[q]
            \/ q = pn /\ pn > peer.rx_next /\ peer.rx_buffered[q] = NoMessage
               /\ new.rx_buffered[q] = message
  BY DEF CachedAtMost
<1>4. Onward
  <2>1. \A q \in PacketNumber : peer.rx_buffered[q] # NoMessage =>
           new.rx_buffered[q] = peer.rx_buffered[q] \/ peer.rx_buffered[q] \in delivered'
    BY <1>3
  <2>2. /\ sent \in Nat /\ sent' \in Nat /\ sent <= sent' /\ wire \subseteq wire'
        /\ delivered \subseteq delivered' /\ lost \subseteq lost'
    BY <1>1, <1>2
  <2> QED
    BY <2>1, <2>2, SwapOnward
<1>5. wire' = wire \cup {ack} /\ packet \in wire'
  OBVIOUS
<1>6. \A q \in PacketNumber : new.rx_buffered[q] # NoMessage =>
          /\ q > new.rx_next
          /\ DataPacket(from, n, c, q, new.rx_buffered[q]) \in wire
  <2> SUFFICES ASSUME NEW q \in PacketNumber, new.rx_buffered[q] # NoMessage
               PROVE  /\ q > new.rx_next
                      /\ DataPacket(from, n, c, q, new.rx_buffered[q]) \in wire
    OBVIOUS
  <2>1. CASE new.rx_buffered[q] = peer.rx_buffered[q]
    BY <1>3, <2>1 DEF PeerOK
  <2>2. CASE q = pn /\ pn > peer.rx_next /\ new.rx_buffered[q] = message
    BY <1>3, <2>2
  <2> QED
    BY <1>3, <2>1, <2>2
<1>7. PeerOK(n, new)'
  <2>1. PeerOK(n, new)
    BY <1>3, <1>6 DEF PeerOK
  <2> QED
    BY <1>4, <2>1, PeerOnward
<1>8. PacketOK(ack)' /\ ack.kind # "data"
  <2>0. packet.to = n /\ packet.from = from /\ packet.connection = c
    BY DEF DataPacket, Packet
  <2>1. CASE pn < peer.rx_next /\ ack \in Acks(packet, {pn})
    <3>1. ack = Packet("ack", n, from, c, [base |-> pn, received |-> {pn}])
      BY <2>0, <2>1 DEF Acks
    <3>2. Arrived(from, n, c, pn)
      BY <2>1 DEF PeerOK
    <3>3. Arrived(from, n, c, pn)'
      BY <1>4, <3>2, ArrivedOnward
    <3> QED
      BY <3>1, <3>3, AckOK
  <2>2. CASE ack = Sack(packet, new)
    <3>1. PICK received : received = {q \in PacketNumber : new.rx_buffered[q] # NoMessage}
      OBVIOUS
    <3>2. ack = Packet("ack", n, from, c, [base |-> new.rx_next, received |-> received])
      BY <2>0, <2>2, <3>1 DEF Sack
    <3>3. ASSUME NEW q \in received
          PROVE  q \in PacketNumber /\ Arrived(from, n, c, q)'
      <4>1. q \in PacketNumber /\ new.rx_buffered[q] # NoMessage
        BY <3>1
      <4>2. PICK m : m = new.rx_buffered[q]
        OBVIOUS
      <4>3. m \in Message /\ DataPacket(from, n, c, q, m) \in wire'
        <5>1. m \in 0..MaxMessages
          <6>1. new.rx_buffered \in [PacketNumber -> 0..MaxMessages]
            BY <1>3 DEF Peer
          <6> QED
            BY <4>1, <4>2, <6>1
        <5>2. m \in Message
          BY <1>1, <4>1, <4>2, <5>1 DEF Message, NoMessage
        <5>3. DataPacket(from, n, c, q, m) \in wire
          BY <1>6, <4>1, <4>2
        <5> QED
          BY <1>2, <5>2, <5>3
      <4>4. Cached(n, m)'
        <5>1. new \in Held(n)'
          BY DEF Swapped
        <5> QED
          BY <4>1, <4>2, <5>1, CachedHeld
      <4>5. Reached(m)'
        BY <4>4 DEF Reached
      <4> QED
        BY <4>1, <4>3, <4>5 DEF Arrived, DataPacket, Packet
    <3> QED
      BY <3>2, <3>3, AckOK
  <2> QED
    BY <2>1, <2>2 DEF OutOfOrder
<1>9. \A p \in wire' \ wire : PacketOK(p)' /\ p.kind # "data"
  BY <1>5, <1>8
<1>10. peer.rx_next <= new.rx_next
  <2>1. peer.rx_next \in 0..(MaxMessages + 1)
    BY DEF Peer
  <2>2. new.rx_next = peer.rx_next
    BY <1>3
  <2> QED
    BY <1>1, <2>1, <2>2
<1> QED
  BY <1>2, <1>3, <1>4, <1>7, <1>9, <1>10, QuietStep

\* The peer state after the number it waited for came in: the interval up to
\* last is counted and out of the cache.
DrainedTo(peer, pn, last, new) ==
    /\ new \in Peer
    /\ new.peer_id = peer.peer_id /\ new.scope = peer.scope
    /\ new.session_id = peer.session_id
    /\ new.next_packet_number = peer.next_packet_number
    /\ new.reliable_queue = peer.reliable_queue
    /\ new.rx_next = last + 1
    /\ \A q \in PacketNumber :
          new.rx_buffered[q] = IF q \in pn..last THEN NoMessage ELSE peer.rx_buffered[q]

\* The peer state after in-order delivery up to a packet number: the receive
\* window starts behind it and those packets have left the buffer.
LEMMA InOrderPeer ==
    ASSUME NEW peer \in Peer, NEW pn \in PacketNumber, NEW last \in PacketNumber, pn <= last,
           NEW in_order, in_order = pn..last, Cardinality(in_order) = last + 1 - pn,
           NEW new, new = [peer EXCEPT
               !.rx_next = pn + Cardinality(in_order),
               !.rx_buffered = [p \in PacketNumber |->
                                   IF p \in in_order THEN NoMessage ELSE @[p]]]
    PROVE  DrainedTo(peer, pn, last, new)
<1>1. MaxMessages \in Nat /\ pn \in Nat /\ last \in Nat /\ last <= MaxMessages
  BY ConstantBounds DEF PacketNumber
<1>2. PICK cache : cache = [p \in PacketNumber |->
                               IF p \in pn..last THEN NoMessage ELSE peer.rx_buffered[p]]
  OBVIOUS
<1>3. pn + Cardinality(in_order) = last + 1 /\ last + 1 \in 0..(MaxMessages + 1)
  BY <1>1
<1>4. cache \in [PacketNumber -> 0..MaxMessages]
  <2>1. peer.rx_buffered \in [PacketNumber -> 0..MaxMessages]
    BY DEF Peer
  <2> QED
    BY <1>1, <1>2, <2>1 DEF NoMessage
<1>5. new = [peer EXCEPT !.rx_next = last + 1, !.rx_buffered = cache]
  BY <1>2, <1>3
<1>6. /\ new \in Peer
      /\ new.peer_id = peer.peer_id /\ new.scope = peer.scope
      /\ new.session_id = peer.session_id
      /\ new.next_packet_number = peer.next_packet_number
      /\ new.reliable_queue = peer.reliable_queue
      /\ new.rx_next = last + 1
      /\ new.rx_buffered = cache
  BY <1>3, <1>4, <1>5 DEF Peer
<1> QED
  BY <1>2, <1>6 DEF DrainedTo

\* The numbers up to last are cached, the one behind it is not.
FullTo(peer, pn, last) ==
    /\ pn = peer.rx_next /\ pn <= last
    /\ \A p \in (pn + 1)..last : peer.rx_buffered[p] # NoMessage
    /\ last + 1 \in PacketNumber => peer.rx_buffered[last + 1] = NoMessage

\* What is handed to the application when pn comes in.
Handed(peer, message, pn, last) ==
    {message} \cup {peer.rx_buffered[p] : p \in (pn..last) \ {pn}}

\* ... and what is acknowledged.
AcksTo(packet, pn, last) == Acks(packet, pn..last)

\* No other peer state of the node has its remote node and scope.
HeldIfAny(n, peer) ==
    \/ peer \in Held(n)
    \/ \A p \in Held(n) : ~(p.peer_id = peer.peer_id /\ p.scope = peer.scope)

\* Data with the number the receiver waits for: its message and the ones cached
\* behind it are delivered.
LEMMA ReceiveDataDrained ==
    ASSUME SessionsInv, NEW packet \in wire, NEW n \in Node, NEW from \in Node,
           NEW c \in 1..SessionMask, NEW pn \in PacketNumber, NEW message \in 0..MaxMessages,
           packet = DataPacket(from, n, c, pn, message),
           NEW peer \in Peer, PeerOK(n, peer), peer.peer_id = from, peer.scope = c,
           HeldIfAny(n, peer),
           NEW last \in PacketNumber, FullTo(peer, pn, last),
           NEW new, DrainedTo(peer, pn, last, new), Swapped(n, peer, new),
           next_session_id' \in [Node -> 1..SessionMask],
           wire' = wire \cup AcksTo(packet, pn, last),
           NEW messages, messages = Handed(peer, message, pn, last),
           Deliver(messages),
           UNCHANGED <<sent, acknowledged, failed, historyVars>>
    PROVE  SessionsInv'
<1>1. /\ MaxMessages \in Nat /\ sent \in 0..MaxMessages /\ sent \in Nat
      /\ pn \in Nat /\ last \in Nat /\ last <= MaxMessages /\ pn <= last /\ pn = peer.rx_next
  <2>1. MaxMessages \in Nat /\ sent \in 0..MaxMessages /\ sent \in Nat
    BY SentBounded
  <2>2. pn <= last /\ pn = peer.rx_next
    BY DEF FullTo
  <2> QED
    BY <2>1, <2>2 DEF PacketNumber
<1>2. /\ sent' = sent /\ wire \subseteq wire' /\ lost' = lost /\ failed' = failed
      /\ forgot' = forgot /\ acknowledged' = acknowledged
      /\ delivered' = delivered \cup messages
      /\ redelivered' = redelivered \cup (messages \cap delivered)
  BY DEF historyVars, Deliver
<1>3. /\ new \in Peer
      /\ new.peer_id = peer.peer_id /\ new.scope = peer.scope
      /\ new.session_id = peer.session_id
      /\ new.next_packet_number = peer.next_packet_number
      /\ new.reliable_queue = peer.reliable_queue
      /\ new.rx_next = last + 1
      /\ \A q \in PacketNumber :
            new.rx_buffered[q] = IF q \in pn..last THEN NoMessage ELSE peer.rx_buffered[q]
  BY DEF DrainedTo
<1>4. \A q \in PacketNumber : peer.rx_buffered[q] # NoMessage =>
         q > pn /\ DataPacket(from, n, c, q, peer.rx_buffered[q]) \in wire
  BY <1>1 DEF PeerOK
\* Every number of the interval has a message on the wire, and that is what is
\* delivered.
<1>5. ASSUME NEW q \in pn..last
      PROVE  \E m \in messages : DataPacket(from, n, c, q, m) \in wire
  <2>1. q \in PacketNumber
    BY <1>1 DEF PacketNumber
  <2>2. CASE q = pn
    BY <2>2 DEF Handed
  <2>3. CASE q # pn
    <3>1. q \in (pn + 1)..last /\ q \in (pn..last) \ {pn}
      BY <1>1, <2>3
    <3>2. peer.rx_buffered[q] \in messages /\ peer.rx_buffered[q] # NoMessage
      BY <3>1 DEF Handed, FullTo
    <3> QED
      BY <1>4, <2>1, <3>2
  <2> QED
    BY <2>2, <2>3
<1>6. ASSUME NEW m \in messages
      PROVE  \E q \in pn..last : DataPacket(from, n, c, q, m) \in wire
  <2>1. CASE m = message
    <3>1. pn \in pn..last
      BY <1>1
    <3> QED
      BY <2>1, <3>1
  <2>2. CASE m \in {peer.rx_buffered[p] : p \in (pn..last) \ {pn}}
    <3>1. PICK p \in (pn..last) \ {pn} : m = peer.rx_buffered[p]
      BY <2>2
    <3>2. p \in (pn + 1)..last /\ p \in PacketNumber /\ p \in pn..last
      BY <1>1 DEF PacketNumber
    <3>3. peer.rx_buffered[p] # NoMessage
      BY <3>2 DEF FullTo
    <3> QED
      BY <1>4, <3>1, <3>2, <3>3
  <2> QED
    BY <2>1, <2>2 DEF Handed
<1>7. messages \subseteq 1..sent
  <2> SUFFICES ASSUME NEW m \in messages
               PROVE  m \in 1..sent
    OBVIOUS
  <2>1. PICK q \in pn..last : DataPacket(from, n, c, q, m) \in wire
    BY <1>6
  <2>2. PICK p : p = DataPacket(from, n, c, q, m)
    OBVIOUS
  <2>3. PacketOK(p) /\ p.kind = "data" /\ p.body.message = m
    BY <2>1, <2>2 DEF SessionsInv, DataPacket, Packet
  <2> QED
    BY <2>3 DEF PacketOK
<1>8. Onward
  <2>1. \A q \in PacketNumber : peer.rx_buffered[q] # NoMessage =>
           new.rx_buffered[q] = peer.rx_buffered[q] \/ peer.rx_buffered[q] \in delivered'
    <3> SUFFICES ASSUME NEW q \in PacketNumber, peer.rx_buffered[q] # NoMessage,
                        q \in pn..last
                 PROVE  peer.rx_buffered[q] \in delivered'
      BY <1>3
    <3>1. q \in (pn..last) \ {pn}
      BY <1>1, <1>4
    <3>2. peer.rx_buffered[q] \in messages
      BY <3>1 DEF Handed
    <3> QED
      BY <1>2, <3>2
  <2> QED
    BY <1>1, <1>2, <2>1, SwapOnward
<1>9. ASSUME NEW q \in pn..last
      PROVE  q \in PacketNumber /\ Arrived(from, n, c, q)'
  <2>1. PICK m \in messages : DataPacket(from, n, c, q, m) \in wire
    BY <1>5
  <2>2. m \in Message /\ m \in delivered'
    BY <1>1, <1>2, <1>7 DEF Message
  <2>3. Reached(m)'
    BY <2>2 DEF Reached
  <2>4. DataPacket(from, n, c, q, m) \in wire'
    BY <1>2, <2>1
  <2>5. q \in PacketNumber
    BY <1>1 DEF PacketNumber
  <2> QED
    BY <2>2, <2>3, <2>4, <2>5 DEF Arrived, DataPacket, Packet
<1>10. PeerOK(n, new)'
  <2>1. PeerOK(n, peer)'
    BY <1>8, PeerOnward
  <2>2. ASSUME NEW q \in PacketNumber, new.rx_buffered[q] # NoMessage
        PROVE  /\ q > last + 1
               /\ DataPacket(new.peer_id, n, new.scope, q, new.rx_buffered[q]) \in wire'
    <3>1. q \notin pn..last /\ new.rx_buffered[q] = peer.rx_buffered[q]
      BY <1>3, <2>2
    <3>2. q > pn /\ DataPacket(from, n, c, q, peer.rx_buffered[q]) \in wire
      BY <1>4, <2>2, <3>1
    <3>3. q # last + 1
      BY <2>2, <3>1 DEF FullTo
    <3>4. q > last + 1
      BY <1>1, <3>1, <3>2, <3>3 DEF PacketNumber
    <3> QED
      BY <1>2, <1>3, <3>1, <3>2, <3>4
  <2>3. ASSUME NEW q \in PacketNumber, q < last + 1
        PROVE  Arrived(new.peer_id, n, new.scope, q)'
    <3>1. CASE q \in pn..last
      <4>1. Arrived(from, n, c, q)'
        BY <1>9, <3>1
      <4> QED
        BY <1>3, <4>1
    <3>2. CASE q \notin pn..last
      <4>1. q < peer.rx_next
        BY <1>1, <2>3, <3>2 DEF PacketNumber
      <4>2. Arrived(peer.peer_id, n, peer.scope, q)'
        BY <2>1, <4>1 DEF PeerOK
      <4> QED
        BY <1>3, <4>2
    <3> QED
      BY <3>1, <3>2
  <2>4. /\ new.scope # NoScope => new.scope = new.session_id
        /\ new.next_packet_number <= sent'
        /\ \A q \in PacketNumber : new.reliable_queue[q] # NoMessage =>
              /\ q < new.next_packet_number
              /\ DataPacket(n, new.peer_id, new.session_id, q, new.reliable_queue[q]) \in wire'
    <3>1. /\ peer.scope # NoScope => peer.scope = peer.session_id
          /\ peer.next_packet_number <= sent
          /\ \A q \in PacketNumber : peer.reliable_queue[q] # NoMessage =>
                /\ q < peer.next_packet_number
                /\ DataPacket(n, peer.peer_id, peer.session_id, q, peer.reliable_queue[q]) \in wire
      BY DEF PeerOK
    <3> QED
      BY <1>2, <1>3, <3>1
  <2> QED
    BY <1>3, <2>2, <2>3, <2>4 DEF PeerOK, DataPacket, Packet
<1>11. \A p \in wire' \ wire : PacketOK(p)' /\ p.kind # "data"
  <2> SUFFICES ASSUME NEW p \in AcksTo(packet, pn, last)
               PROVE  PacketOK(p)' /\ p.kind # "data"
    OBVIOUS
  <2>1. PICK q \in pn..last : p = Packet("ack", n, from, c, [base |-> q, received |-> {q}])
    <3>1. packet.to = n /\ packet.from = from /\ packet.connection = c
      BY DEF DataPacket, Packet
    <3> QED
      BY <3>1 DEF Acks, AcksTo
  <2>2. PICK received : received = {q}
    OBVIOUS
  <2>3. \A pnum \in received : pnum \in PacketNumber /\ Arrived(from, n, c, pnum)'
    BY <1>9, <2>2
  <2> QED
    BY <2>1, <2>2, <2>3, AckOK
<1>12. DataOnWire' = DataOnWire
  BY <1>2, <1>11 DEF DataOnWire
<1>13. OnePacketPerMessage'
  BY <1>12 DEF SessionsInv, OnePacketPerMessage
<1>14. HistoryOK'
  <2>1. HistoryOK
    BY DEF SessionsInv
  <2> QED
    BY <1>2, <1>7, <2>1 DEF HistoryOK
\* The packet of a delivered message is one of those, and no other.
<1>15. ASSUME NEW p \in DataOnWire, p.body.message \in messages
       PROVE  \E q \in pn..last : p = DataPacket(from, n, c, q, p.body.message)
  <2>1. PICK q \in pn..last : DataPacket(from, n, c, q, p.body.message) \in wire
    BY <1>6, <1>15
  <2>2. DataPacket(from, n, c, q, p.body.message) \in DataOnWire
    BY <2>1 DEF DataOnWire, DataPacket, Packet
  <2>3. DataPacket(from, n, c, q, p.body.message).body.message = p.body.message
    BY DEF DataPacket, Packet
  <2> QED
    BY <2>2, <2>3 DEF SessionsInv, OnePacketPerMessage
<1>16. \A p \in DataOnWire' :
          Counted(p)' \/ (p \in wire /\ p.body.message \in delivered)
  <2> SUFFICES ASSUME NEW p \in DataOnWire, p.body.message \notin delivered
               PROVE  Counted(p)'
    BY <1>12 DEF DataOnWire
  <2>1. CASE p.body.message \in messages
    <3>1. PICK q \in pn..last : p = DataPacket(from, n, c, q, p.body.message)
      BY <1>15, <2>1
    <3>2. p.to = n /\ p.from = from /\ p.connection = c /\ p.body.packet_number = q
      BY <3>1 DEF DataPacket, Packet
    <3>3. new \in Held(n)' /\ q < new.rx_next
      BY <1>1, <1>3 DEF Swapped
    <3>4. CountedAt(p)'
      BY <1>3, <3>2, <3>3 DEF CountedAt
    <3> QED
      BY <3>4 DEF Counted
  <2>2. CASE p.body.message \notin messages
    BY <1>2, <2>2 DEF Counted
  <2> QED
    BY <2>1, <2>2
<1>17. DeliveredOnce'
  <2>1. \A p \in DataOnWire : p.body.message \in redelivered => p.to \in forgot
    BY DEF SessionsInv, DeliveredOnce, DataOnWire
  <2>2. ASSUME NEW p \in DataOnWire, p.body.message \in messages \cap delivered
        PROVE  p.to \in forgot
    <3> SUFFICES ASSUME p.to \notin forgot
                 PROVE  FALSE
      OBVIOUS
    <3>1. PICK q \in pn..last : p = DataPacket(from, n, c, q, p.body.message)
      BY <1>15, <2>2
    <3>2. p.to = n /\ p.from = from /\ p.connection = c /\ p.body.packet_number = q
      BY <3>1 DEF DataPacket, Packet
    <3>3. CountedAt(p)
      BY <2>2 DEF SessionsInv, Counted
    <3>4. PICK h \in Held(n) : h.peer_id = from /\ h.scope = c /\ q < h.rx_next
      BY <3>2, <3>3 DEF CountedAt
    <3>5. peer \in Held(n)
      BY <3>4 DEF HeldIfAny
    <3>6. h = peer
      BY <3>4, <3>5, HeldOnce
    <3> QED
      BY <1>1, <3>4, <3>6
  <2>3. \A p \in DataOnWire : p.body.message \in redelivered' => p.to \in forgot'
    BY <1>2, <2>1, <2>2
  <2> QED
    BY <1>12, <2>3 DEF DeliveredOnce, DataOnWire
<1>18. peer.rx_next <= new.rx_next
  BY <1>1, <1>3
<1>19. /\ \A q \in PacketNumber : peer.reliable_queue[q] # NoMessage =>
             \/ new.reliable_queue[q] = peer.reliable_queue[q]
             \/ peer.reliable_queue[q] \in acknowledged' \cup failed'
       /\ \A p \in wire' \ wire : PacketOK(p)'
       /\ acknowledged \subseteq acknowledged' /\ failed \subseteq failed'
       /\ \A m \in acknowledged' \ acknowledged : Reached(m)' \/ NumberReused(m)'
       /\ \A m \in (1..sent') \ (1..sent) : \E k \in Node : Queued(k, m)'
  BY <1>2, <1>3, <1>11
<1> QED
  BY <1>2, <1>3, <1>8, <1>10, <1>13, <1>14, <1>16, <1>17, <1>18, <1>19, SwapStep

\* Receiving a data packet keeps the invariant: delivered with what it
\* releases from the buffer, buffered, or dropped as a duplicate.
LEMMA ReceiveDataInv ==
    ASSUME SessionsInv, NEW packet \in wire, ReceiveData(packet)
    PROVE  SessionsInv'
<1>1. PICK n, from, c, pn, message :
        /\ n = packet.to /\ from = packet.from /\ c = packet.connection
        /\ pn = packet.body.packet_number /\ message = packet.body.message
  OBVIOUS
<1>2. PICK found : found = RxPeer(n, packet)
  OBVIOUS
<1>3. PICK peer : peer = found.table[found.at]
  OBVIOUS
<1>4. /\ packet.kind = "data" /\ TakeSession(n, found.new)
      /\ sent' = sent /\ acknowledged' = acknowledged /\ failed' = failed
      /\ historyVars' = historyVars
  BY <1>1, <1>2 DEF ReceiveData
<1>5. \/ /\ pn < peer.rx_next
         /\ peers' = [peers EXCEPT ![n] = [found.table EXCEPT ![found.at] = peer]]
         /\ wire' = wire \cup Acks(packet, {pn})
         /\ Deliver({})
      \/ /\ pn > peer.rx_next
         /\ \E new \in {peer, [peer EXCEPT !.rx_buffered[pn] =
                IF @ = NoMessage THEN packet.body.message ELSE @]} :
               /\ peers' = [peers EXCEPT ![n] = [found.table EXCEPT ![found.at] = new]]
               /\ wire' = wire \cup {Sack(packet, new)}
         /\ Deliver({})
      \/ /\ pn = peer.rx_next
         /\ peers' = [peers EXCEPT ![n] = [found.table EXCEPT ![found.at] =
               [peer EXCEPT
                   !.rx_next = pn + Cardinality(Drained(peer, pn)),
                   !.rx_buffered = [p \in PacketNumber |->
                       IF p \in Drained(peer, pn) THEN NoMessage ELSE @[p]]]]]
         /\ wire' = wire \cup Acks(packet, Drained(peer, pn))
         /\ Deliver({message} \cup {peer.rx_buffered[p] : p \in Drained(peer, pn) \ {pn}})
  BY <1>1, <1>2, <1>3, ZenonT(60) DEF ReceiveData
<1>6. /\ n \in Node /\ from \in Node
      /\ found.new \in BOOLEAN
      /\ PeerOK(n, peer) /\ peer.peer_id = from /\ peer.scope = c
      /\ \/ peer \in Held(n)
         \/ \A p \in Held(n) : ~(p.peer_id = from /\ p.scope = c)
      /\ \A new \in Peer :
            /\ new.peer_id = peer.peer_id /\ new.scope = peer.scope
            /\ peers' = [peers EXCEPT ![n] = [found.table EXCEPT ![found.at] = new]]
            => Swapped(n, peer, new)
  BY <1>1, <1>2, <1>3, RxPeerOK
<1>7. /\ pn \in PacketNumber /\ message \in 1..sent /\ c \in 1..SessionMask
      /\ packet = DataPacket(from, n, c, pn, message)
  BY <1>1, <1>4 DEF SessionsInv, PacketOK
<1>8. message \in 0..MaxMessages /\ peer \in Peer
  <2>1. MaxMessages \in Nat /\ sent \in 0..MaxMessages
    BY SentBounded
  <2>2. peer \in Peer
    BY <1>6 DEF PeerOK
  <2> QED
    BY <1>7, <2>1, <2>2
<1>9. next_session_id' \in [Node -> 1..SessionMask]
  BY <1>4, <1>6, TakeSessionOK
<1>10. ASSUME NEW new, NEW ack, OutOfOrder(packet, pn, peer, new, ack),
              peers' = [peers EXCEPT ![n] = [found.table EXCEPT ![found.at] = new]],
              wire' = wire \cup {ack}, Deliver({})
       PROVE  SessionsInv'
  <2>1. UNCHANGED <<sent, acknowledged, failed, delivered, redelivered, historyVars>>
    BY <1>4, <1>10 DEF Deliver
  <2>2. CachedAtMost(peer, pn, message, new)
    BY <1>1, <1>7, <1>8, <1>10, OutOfOrderPeer
  <2>3. Swapped(n, peer, new)
    BY <1>6, <1>10, <2>2 DEF CachedAtMost
  <2>4. n \in Node /\ from \in Node /\ PeerOK(n, peer) /\ peer.peer_id = from /\ peer.scope = c
    BY <1>6
  <2>5. OutOfOrder(packet, pn, peer, new, ack) /\ wire' = wire \cup {ack}
    BY <1>10
  <2> QED
    BY <1>7, <1>8, <1>9, <2>1, <2>2, <2>3, <2>4, <2>5, ReceiveDataKept
<1>11. CASE /\ pn < peer.rx_next
            /\ peers' = [peers EXCEPT ![n] = [found.table EXCEPT ![found.at] = peer]]
            /\ wire' = wire \cup Acks(packet, {pn})
            /\ Deliver({})
  <2>1. PICK ack : Acks(packet, {pn}) = {ack}
    BY DEF Acks
  <2>2. OutOfOrder(packet, pn, peer, peer, ack)
    BY <1>11, <2>1 DEF OutOfOrder
  <2> QED
    BY <1>10, <1>11, <2>1, <2>2
<1>12. CASE /\ pn > peer.rx_next
            /\ \E new \in {peer, [peer EXCEPT !.rx_buffered[pn] =
                   IF @ = NoMessage THEN packet.body.message ELSE @]} :
                  /\ peers' = [peers EXCEPT ![n] = [found.table EXCEPT ![found.at] = new]]
                  /\ wire' = wire \cup {Sack(packet, new)}
            /\ Deliver({})
  <2>1. PICK new : /\ new \in {peer, [peer EXCEPT !.rx_buffered[pn] =
                                   IF @ = NoMessage THEN packet.body.message ELSE @]}
                   /\ peers' = [peers EXCEPT ![n] = [found.table EXCEPT ![found.at] = new]]
                   /\ wire' = wire \cup {Sack(packet, new)}
    BY <1>12, Zenon
  <2>2. PICK ack : ack = Sack(packet, new)
    OBVIOUS
  <2>3. OutOfOrder(packet, pn, peer, new, ack)
    BY <1>12, <2>1, <2>2, Zenon DEF OutOfOrder
  <2> QED
    BY <1>10, <1>12, <2>1, <2>2, <2>3
<1>13. CASE /\ pn = peer.rx_next
            /\ peers' = [peers EXCEPT ![n] = [found.table EXCEPT ![found.at] =
                  [peer EXCEPT
                      !.rx_next = pn + Cardinality(Drained(peer, pn)),
                      !.rx_buffered = [p \in PacketNumber |->
                          IF p \in Drained(peer, pn) THEN NoMessage ELSE @[p]]]]]
            /\ wire' = wire \cup Acks(packet, Drained(peer, pn))
            /\ Deliver({message} \cup {peer.rx_buffered[p] : p \in Drained(peer, pn) \ {pn}})
  <2>1. PICK in_order : in_order = Drained(peer, pn)
    OBVIOUS
  <2>2. PICK new : new = [peer EXCEPT
                      !.rx_next = pn + Cardinality(in_order),
                      !.rx_buffered = [p \in PacketNumber |->
                          IF p \in in_order THEN NoMessage ELSE @[p]]]
    OBVIOUS
  <2>3. /\ peers' = [peers EXCEPT ![n] = [found.table EXCEPT ![found.at] = new]]
        /\ wire' = wire \cup Acks(packet, in_order)
        /\ Deliver({message} \cup {peer.rx_buffered[p] : p \in in_order \ {pn}})
    BY <1>13, <2>1, <2>2
  <2>4. PICK last \in PacketNumber :
          /\ pn <= last
          /\ in_order = pn..last
          /\ Cardinality(in_order) = last + 1 - pn
          /\ \A p \in (pn + 1)..last : peer.rx_buffered[p] # NoMessage
          /\ last + 1 \in PacketNumber => peer.rx_buffered[last + 1] = NoMessage
    BY <1>7, <1>8, <2>1, DrainedInterval
  <2>5. DrainedTo(peer, pn, last, new)
    BY <1>7, <1>8, <2>2, <2>4, InOrderPeer
  <2>6. Swapped(n, peer, new)
    BY <1>6, <2>3, <2>5 DEF DrainedTo
  <2>7. FullTo(peer, pn, last)
    BY <1>13, <2>4 DEF FullTo
  <2>8. wire' = wire \cup AcksTo(packet, pn, last)
    BY <2>3, <2>4 DEF AcksTo
  <2>9. PICK messages : messages = Handed(peer, message, pn, last)
    OBVIOUS
  <2>10. Deliver(messages)
    BY <2>3, <2>4, <2>9 DEF Handed
  <2>11. HeldIfAny(n, peer)
    BY <1>6 DEF HeldIfAny
  <2>12. UNCHANGED <<sent, acknowledged, failed, historyVars>>
    BY <1>4
  <2> QED
    BY <1>6, <1>7, <1>8, <1>9, <2>5, <2>6, <2>7, <2>8, <2>9, <2>10, <2>11, <2>12,
       ReceiveDataDrained
<1> QED
  BY <1>5, <1>11, <1>12, <1>13

\* Receiving an acknowledgement keeps the invariant: it releases only packets
\* that arrived.
LEMMA ReceiveAckInv ==
    ASSUME SessionsInv, NEW packet \in wire, ReceiveAck(packet)
    PROVE  SessionsInv'
<1>1. PICK n, from, c : n = packet.to /\ from = packet.from /\ c = packet.connection
  OBVIOUS
<1>2. PICK i : i = First(peers[n], from, AckScope(n, packet))
  OBVIOUS
<1>3. PICK peer : peer = peers[n][i]
  OBVIOUS
<1>4. PICK released : released = {pn \in packet.body.received : peer.reliable_queue[pn] # NoMessage}
  OBVIOUS
<1>5. PICK new : new = [peer EXCEPT !.reliable_queue =
                            [pn \in PacketNumber |-> IF pn \in released THEN NoMessage ELSE @[pn]]]
  OBVIOUS
<1>6. /\ packet.kind = "ack"
      /\ AckAccepted(n, packet)
      /\ peers' = [peers EXCEPT ![n][i].reliable_queue =
            [pn \in PacketNumber |-> IF pn \in released THEN NoMessage ELSE @[pn]]]
      /\ acknowledged' = acknowledged \cup {peer.reliable_queue[pn] : pn \in released}
      /\ UNCHANGED <<next_session_id, wire, sent, failed, delivered, redelivered, sessions,
                     lost, forgot, restarts>>
  BY <1>1, <1>2, <1>3, <1>4 DEF ReceiveAck, historyVars
<1>7. /\ n \in Node /\ from \in Node /\ c \in 1..SessionMask
      /\ \A pn \in packet.body.received : pn \in PacketNumber /\ Arrived(n, from, c, pn)
  BY <1>1, <1>6 DEF SessionsInv, PacketOK
<1>8. i \in DOMAIN peers[n] /\ peer.peer_id = from /\ peer.session_id = c
  <2>1. Found(peers[n], from, AckScope(n, packet)) /\ PacketSession(packet) = peer.session_id
    BY <1>1, <1>2, <1>3, <1>6 DEF AckAccepted
  <2>2. peers[n] \in Seq(Peer)
    BY <1>7 DEF SessionsInv
  <2>3. i \in Matches(peers[n], from, AckScope(n, packet))
    BY <1>2, <2>1, <2>2, FirstMatches
  <2>4. PacketSession(packet) = c
    BY <1>1, <1>7, MaskKeeps DEF PacketSession
  <2> QED
    BY <1>3, <2>1, <2>3, <2>4 DEF Matches
<1>9. peer \in Held(n) /\ PeerOK(n, peer)
  BY <1>3, <1>7, <1>8 DEF Held, SessionsInv
<1>10. peer \in Peer /\ peer.reliable_queue \in [PacketNumber -> 0..MaxMessages]
  BY <1>9 DEF PeerOK, Peer
<1>11. peers' = [peers EXCEPT ![n] = [peers[n] EXCEPT ![i] = new]]
  <2>1. peers \in [Node -> Seq(Peer)]
    BY DEF SessionsInv
  <2> QED
    BY <1>3, <1>5, <1>6, <1>7, <1>8, <2>1
<1>12. /\ new \in Peer
       /\ new.peer_id = peer.peer_id /\ new.scope = peer.scope
       /\ new.session_id = peer.session_id
       /\ new.rx_next = peer.rx_next /\ new.rx_buffered = peer.rx_buffered
       /\ new.next_packet_number = peer.next_packet_number
       /\ \A pn \in PacketNumber :
             new.reliable_queue[pn] = IF pn \in released THEN NoMessage
                                      ELSE peer.reliable_queue[pn]
  <2>1. PICK queue : queue = [pn \in PacketNumber |-> IF pn \in released THEN NoMessage
                                                       ELSE peer.reliable_queue[pn]]
    OBVIOUS
  <2>2. MaxMessages \in Nat
    BY SentBounded
  <2>3. queue \in [PacketNumber -> 0..MaxMessages]
    BY <1>10, <2>1, <2>2 DEF NoMessage
  <2>4. new = [peer EXCEPT !.reliable_queue = queue]
    BY <1>5, <2>1
  <2>5. /\ new \in Peer
        /\ new.peer_id = peer.peer_id /\ new.scope = peer.scope
        /\ new.session_id = peer.session_id
        /\ new.rx_next = peer.rx_next /\ new.rx_buffered = peer.rx_buffered
        /\ new.next_packet_number = peer.next_packet_number
        /\ new.reliable_queue = queue
    BY <1>10, <2>3, <2>4 DEF Peer
  <2> QED
    BY <2>1, <2>5
<1>13. Swapped(n, peer, new)
  BY <1>3, <1>7, <1>8, <1>11, <1>12, ChangeSwaps
<1>14. sent \in Nat /\ sent' = sent /\ wire' = wire /\ delivered' = delivered /\ lost' = lost
       /\ failed' = failed
  BY <1>6, SentBounded
<1>15. Onward
  BY <1>7, <1>12, <1>13, <1>14, SwapOnward
<1>16. PeerOK(n, new)'
  <2>1. PeerOK(n, new)
    BY <1>9, <1>12 DEF PeerOK
  <2> QED
    BY <1>15, <2>1, PeerOnward
\* A released message was sent under the number the acknowledgement names.
<1>17. ASSUME NEW pn \in released
       PROVE  /\ pn \in PacketNumber /\ Arrived(n, from, c, pn)
              /\ DataPacket(n, from, c, pn, peer.reliable_queue[pn]) \in wire
  <2>1. pn \in packet.body.received /\ peer.reliable_queue[pn] # NoMessage
    BY <1>4
  <2> QED
    BY <1>7, <1>8, <1>9, <2>1 DEF PeerOK
<1>18. ASSUME NEW m \in acknowledged' \ acknowledged
       PROVE  m \in 1..sent /\ (Reached(m)' \/ NumberReused(m)')
  <2>1. PICK pn \in released : m = peer.reliable_queue[pn]
    BY <1>6
  <2>2. DataPacket(n, from, c, pn, m) \in wire
    BY <1>17, <2>1
  <2>3. PICK p : p = DataPacket(n, from, c, pn, m)
    OBVIOUS
  <2>4. /\ p \in wire /\ p.kind = "data" /\ p.body.message = m /\ p.from = n /\ p.connection = c
        /\ p.body.packet_number = pn
    BY <2>2, <2>3 DEF DataPacket, Packet
  <2>5. m \in 1..sent
    BY <2>4 DEF SessionsInv, PacketOK
  <2>6. PICK other \in Message : DataPacket(n, from, c, pn, other) \in wire /\ Reached(other)
    BY <1>17 DEF Arrived
  <2>7. CASE other = m
    <3>1. Reached(m)'
      BY <1>15, <2>6, <2>7 DEF Onward
    <3> QED
      BY <2>5, <3>1
  <2>8. CASE other # m
    <3>1. PICK q : q = DataPacket(n, from, c, pn, other)
      OBVIOUS
    <3>2. /\ q \in wire /\ q.kind = "data" /\ q.body.message = other /\ q.from = n
          /\ q.connection = c /\ q.body.packet_number = pn
      BY <2>6, <3>1 DEF DataPacket, Packet
    <3>3. NumberReused(m)'
      BY <1>14, <2>4, <2>8, <3>2 DEF NumberReused
    <3> QED
      BY <2>5, <3>3
  <2> QED
    BY <2>7, <2>8
<1>19. HistoryOK'
  <2>1. HistoryOK
    BY DEF SessionsInv
  <2> QED
    BY <1>6, <1>18, <2>1 DEF HistoryOK
<1>20. DataOnWire' = DataOnWire
  BY <1>14 DEF DataOnWire
<1>21. OnePacketPerMessage'
  BY <1>20 DEF SessionsInv, OnePacketPerMessage
<1>22. DeliveredOnce'
  <2>1. \A p \in DataOnWire : p.body.message \in redelivered => p.to \in forgot
    BY DEF SessionsInv, DeliveredOnce, DataOnWire
  <2> QED
    BY <1>6, <2>1 DEF DeliveredOnce, DataOnWire
<1>23. \A p \in DataOnWire' : Counted(p)' \/ (p \in wire /\ p.body.message \in delivered)
  BY <1>6, <1>20 DEF Counted, DataOnWire
<1>24. \A pn \in PacketNumber : peer.reliable_queue[pn] # NoMessage =>
          \/ new.reliable_queue[pn] = peer.reliable_queue[pn]
          \/ peer.reliable_queue[pn] \in acknowledged' \cup failed'
  BY <1>6, <1>12
<1>25. peer.rx_next <= new.rx_next
  BY <1>10, <1>12 DEF Peer
<1>26. /\ acknowledged \subseteq acknowledged' /\ failed \subseteq failed'
       /\ forgot' = forgot /\ lost' = lost
       /\ \A p \in wire' \ wire : PacketOK(p)'
       /\ \A m \in (1..sent') \ (1..sent) : \E k \in Node : Queued(k, m)'
  BY <1>6, <1>14
<1>27. \A m \in acknowledged' \ acknowledged : Reached(m)' \/ NumberReused(m)'
  BY <1>18
<1> QED
  BY <1>7, <1>10, <1>12, <1>13, <1>15, <1>16, <1>19, <1>21, <1>22, <1>23, <1>24, <1>25,
     <1>26, <1>27, SwapStep

-----------------------------------------------------------------------------
(***************************************************************************)
(* The actions that touch no peer state, and the ones that drop some       *)
(***************************************************************************)
\* A step that changes at most the counter of session ids.
LEMMA UntouchedInv ==
    ASSUME SessionsInv, next_session_id' \in [Node -> 1..SessionMask],
           UNCHANGED <<peers, wire, sent, acknowledged, failed, delivered, redelivered,
                       historyVars>>
    PROVE  SessionsInv'
<1>1. /\ peers' = peers /\ wire' = wire /\ sent' = sent /\ acknowledged' = acknowledged
      /\ failed' = failed /\ delivered' = delivered /\ redelivered' = redelivered
      /\ lost' = lost /\ forgot' = forgot
  BY DEF historyVars
<1>2. \A n : Held(n)' = Held(n)
  BY <1>1 DEF Held
<1>3. \A n, m : /\ Cached(n, m) <=> Cached(n, m)'
                /\ Queued(n, m) <=> Queued(n, m)'
  BY <1>1 DEF Cached, Queued
<1>4. Onward
  <2>1. sent \in Nat
    BY SentBounded
  <2> QED
    BY <1>1, <1>3, <2>1 DEF Onward, Reached
<1>5. (\A n \in Node : \A peer \in Held(n) : PeerOK(n, peer))'
  <2> SUFFICES ASSUME NEW n \in Node, NEW peer \in Held(n)
               PROVE  PeerOK(n, peer)'
    BY <1>2
  <2>1. PeerOK(n, peer)
    BY DEF SessionsInv
  <2> QED
    BY <1>4, <2>1, PeerOnward
<1>6. (\A packet \in wire : PacketOK(packet))'
  <2> SUFFICES ASSUME NEW packet \in wire
               PROVE  PacketOK(packet)'
    BY <1>1
  <2>1. PacketOK(packet)
    BY DEF SessionsInv
  <2> QED
    BY <1>4, <2>1, PacketOnward
<1>7. (\A packet \in DataOnWire : Counted(packet))'
  <2> SUFFICES ASSUME NEW packet \in DataOnWire
               PROVE  Counted(packet)'
    BY <1>1 DEF DataOnWire
  <2>1. Counted(packet)
    BY DEF SessionsInv
  <2> QED
    BY <1>1, <1>2, <2>1 DEF Counted, CountedAt
<1>8. AckedWithoutReuse'
  <2>1. \A m \in acknowledged : Reached(m)' \/ NumberReused(m)'
    BY <1>4, AckedOnward
  <2> QED
    BY <1>1, <2>1 DEF AckedWithoutReuse, Reached
<1>9. AcceptedNotForgotten'
  BY <1>1, <1>3 DEF SessionsInv, AcceptedNotForgotten
<1>10. OnePacketPerMessage' /\ DeliveredOnce'
  BY <1>1 DEF SessionsInv, OnePacketPerMessage, DeliveredOnce, DataOnWire
<1>11. HistoryOK' /\ peers' \in [Node -> Seq(Peer)] /\ (\A n \in Node : OnePeerPerScope(peers[n]))'
  <2>1. HistoryOK /\ peers \in [Node -> Seq(Peer)] /\ (\A n \in Node : OnePeerPerScope(peers[n]))
    BY DEF SessionsInv
  <2> QED
    BY <1>1, <2>1 DEF HistoryOK, OnePeerPerScope
<1> QED
  BY <1>5, <1>6, <1>7, <1>8, <1>9, <1>10, <1>11 DEF SessionsInv

\* A session id spent on a peer state that could not be created keeps the
\* invariant.
LEMMA CreationFailsInv ==
    ASSUME SessionsInv, NEW n \in Node, CreationFails(n)
    PROVE  SessionsInv'
<1>1. next_session_id' \in [Node -> 1..SessionMask]
  BY TakeSessionOK DEF CreationFails
<1> QED
  BY <1>1, UntouchedInv DEF CreationFails

\* A node that drops peer states is marked, and loses no message that is not
\* accounted for.
LEMMA ForgetInv ==
    ASSUME SessionsInv, NEW n \in Node, NEW table \in Seq(Peer), OnePeerPerScope(table),
           peers' = [peers EXCEPT ![n] = table],
           \A j \in DOMAIN table : \E i \in DOMAIN peers[n] : table[j] = peers[n][i],
           forgot' = forgot \cup {n}, lost \subseteq lost', lost' \subseteq 1..sent,
           \A m \in Message : Cached(n, m) \/ Queued(n, m) =>
              \/ m \in lost'
              \/ /\ Cached(n, m) => Cached(n, m)'
                 /\ Queued(n, m) => Queued(n, m)',
           next_session_id' \in [Node -> 1..SessionMask],
           UNCHANGED <<wire, sent, acknowledged, failed, delivered, redelivered>>
    PROVE  SessionsInv'
<1>1. /\ peers' \in [Node -> Seq(Peer)]
      /\ peers'[n] = table
      /\ \A k \in Node \ {n} : peers'[k] = peers[k]
      /\ \A k \in Node : OnePeerPerScope(peers'[k])
  BY TablePut
<1>2. \A k \in Node \ {n} : Held(k)' = Held(k)
  BY <1>1 DEF Held
<1>3. Held(n)' \subseteq Held(n)
  BY <1>1 DEF Held
<1>4. /\ wire' = wire /\ sent' = sent /\ acknowledged' = acknowledged
      /\ failed' = failed /\ delivered' = delivered /\ redelivered' = redelivered
  OBVIOUS
<1>5. ASSUME NEW k \in Node, NEW m \in Message
      PROVE  /\ Cached(k, m) => m \in lost' \/ Cached(k, m)'
             /\ Queued(k, m) => m \in lost' \/ Queued(k, m)'
  <2>1. CASE k = n
    BY <2>1
  <2>2. CASE k # n
    BY <1>1, <2>2 DEF Cached, Queued
  <2> QED
    BY <2>1, <2>2
<1>6. Onward
  <2>1. sent \in Nat
    BY SentBounded
  <2>2. \A m \in Message : Reached(m) => Reached(m)'
    BY <1>4, <1>5 DEF Reached
  <2> QED
    BY <1>4, <2>1, <2>2 DEF Onward
<1>7. (\A k \in Node : \A peer \in Held(k) : PeerOK(k, peer))'
  <2> SUFFICES ASSUME NEW k \in Node, NEW peer \in Held(k)'
               PROVE  PeerOK(k, peer)'
    OBVIOUS
  <2>1. peer \in Held(k)
    BY <1>2, <1>3
  <2>2. PeerOK(k, peer)
    BY <2>1 DEF SessionsInv
  <2> QED
    BY <1>6, <2>2, PeerOnward
<1>8. (\A packet \in wire : PacketOK(packet))'
  <2> SUFFICES ASSUME NEW packet \in wire
               PROVE  PacketOK(packet)'
    BY <1>4
  <2>1. PacketOK(packet)
    BY DEF SessionsInv
  <2> QED
    BY <1>6, <2>1, PacketOnward
<1>9. (\A packet \in DataOnWire : Counted(packet))'
  <2> SUFFICES ASSUME NEW packet \in DataOnWire
               PROVE  Counted(packet)'
    BY <1>4 DEF DataOnWire
  <2>1. Counted(packet) /\ packet.to \in Node
    BY DEF SessionsInv, PacketOK, DataOnWire
  <2>2. CASE packet.to = n
    BY <2>2 DEF Counted
  <2>3. CASE packet.to # n
    BY <1>2, <1>4, <2>1, <2>3 DEF Counted, CountedAt
  <2> QED
    BY <2>2, <2>3
<1>10. AckedWithoutReuse'
  <2>1. \A m \in acknowledged : Reached(m)' \/ NumberReused(m)'
    BY <1>6, AckedOnward
  <2> QED
    BY <1>4, <2>1 DEF AckedWithoutReuse, Reached
<1>11. AcceptedNotForgotten'
  <2>1. \A m \in 1..sent : m \in acknowledged \cup failed \cup lost \/ \E k \in Node : Queued(k, m)
    BY DEF SessionsInv, AcceptedNotForgotten
  <2>2. \A m \in 1..sent : m \in Message
    <3>1. MaxMessages \in Nat /\ sent \in 0..MaxMessages
      BY SentBounded
    <3> QED
      BY <3>1 DEF Message
  <2> QED
    BY <1>4, <1>5, <2>1, <2>2 DEF AcceptedNotForgotten
<1>12. OnePacketPerMessage' /\ DeliveredOnce'
  BY <1>4 DEF SessionsInv, OnePacketPerMessage, DeliveredOnce, DataOnWire
<1>13. HistoryOK'
  <2>1. HistoryOK
    BY DEF SessionsInv
  <2> QED
    BY <1>4, <2>1 DEF HistoryOK
<1> QED
  BY <1>1, <1>7, <1>8, <1>9, <1>10, <1>11, <1>12, <1>13 DEF SessionsInv

\* What is left of a table when one peer state is taken out.
LEMMA RemovedTable ==
    ASSUME NEW table \in Seq(Peer), NEW i \in DOMAIN table
    PROVE  /\ RemoveAt(table, i) \in Seq(Peer)
           /\ DOMAIN RemoveAt(table, i) = 1..(Len(table) - 1)
           /\ \A j \in 1..(Len(table) - 1) :
                 RemoveAt(table, i)[j] = IF j < i THEN table[j] ELSE table[j + 1]
<1>1. Len(table) \in Nat /\ i \in 1..Len(table)
  OBVIOUS
<1>2. PICK front : front = SubSeq(table, 1, i - 1)
  OBVIOUS
<1>3. PICK back : back = SubSeq(table, i + 1, Len(table))
  OBVIOUS
<1>4. /\ front \in Seq(Peer) /\ Len(front) = i - 1
      /\ \A j \in 1..(i - 1) : front[j] = table[j]
  BY <1>1, <1>2
<1>5. /\ back \in Seq(Peer) /\ Len(back) = Len(table) - i
      /\ \A j \in 1..(Len(table) - i) : back[j] = table[i + j]
  BY <1>1, <1>3
<1>6. RemoveAt(table, i) = front \o back
  BY <1>2, <1>3 DEF RemoveAt
<1>7. /\ front \o back \in Seq(Peer)
      /\ Len(front \o back) = Len(front) + Len(back)
      /\ \A j \in 1..(Len(front) + Len(back)) :
            (front \o back)[j] = IF j <= Len(front) THEN front[j] ELSE back[j - Len(front)]
  BY <1>4, <1>5, ConcatProperties
<1>8. Len(front) + Len(back) = Len(table) - 1
  BY <1>1, <1>4, <1>5
<1>9. ASSUME NEW j \in 1..(Len(table) - 1)
      PROVE  (front \o back)[j] = IF j < i THEN table[j] ELSE table[j + 1]
  <2>1. CASE j < i
    BY <1>1, <1>4, <1>7, <1>8, <2>1
  <2>2. CASE ~(j < i)
    <3>1. j - (i - 1) \in 1..(Len(table) - i) /\ i + (j - (i - 1)) = j + 1
      BY <1>1, <2>2
    <3>2. (front \o back)[j] = back[j - (i - 1)]
      BY <1>1, <1>4, <1>7, <1>8, <2>2
    <3> QED
      BY <1>5, <2>2, <3>1, <3>2
  <2> QED
    BY <2>1, <2>2
<1>10. DOMAIN (front \o back) = 1..(Len(table) - 1)
  BY <1>7, <1>8
<1> QED
  BY <1>6, <1>7, <1>9, <1>10

\* Reclaiming an idle peer state keeps the invariant.
LEMMA ReclaimIdleInv ==
    ASSUME SessionsInv, NEW n \in Node, NEW i \in DOMAIN peers[n], ReclaimIdle(n, i)
    PROVE  SessionsInv'
<1>1. PICK left : left = RemoveAt(peers[n], i)
  OBVIOUS
<1>2. /\ Reclaimable(peers[n][i])
      /\ peers' = [peers EXCEPT ![n] = left]
      /\ forgot' = forgot \cup {n}
      /\ UNCHANGED <<next_session_id, wire, sent, acknowledged, failed, delivered, redelivered>>
      /\ lost' = lost
  BY <1>1 DEF ReclaimIdle
<1>3. peers[n] \in Seq(Peer) /\ OnePeerPerScope(peers[n]) /\ peers \in [Node -> Seq(Peer)]
  BY DEF SessionsInv
<1>4. /\ left \in Seq(Peer)
      /\ DOMAIN left = 1..(Len(peers[n]) - 1)
      /\ \A j \in 1..(Len(peers[n]) - 1) :
            left[j] = IF j < i THEN peers[n][j] ELSE peers[n][j + 1]
  BY <1>1, <1>3, RemovedTable
<1>5. Len(peers[n]) \in Nat /\ DOMAIN peers[n] = 1..Len(peers[n]) /\ i \in 1..Len(peers[n])
  BY <1>3
<1>6. PICK at : at = [j \in DOMAIN left |-> IF j < i THEN j ELSE j + 1]
  OBVIOUS
<1>7. /\ \A j \in DOMAIN left : at[j] \in DOMAIN peers[n] /\ left[j] = peers[n][at[j]]
      /\ \A j, k \in DOMAIN left : at[j] = at[k] => j = k
      /\ \A k \in DOMAIN peers[n] : k # i => \E j \in DOMAIN left : at[j] = k
  <2>1. ASSUME NEW j \in DOMAIN left
        PROVE  at[j] \in DOMAIN peers[n] /\ left[j] = peers[n][at[j]]
    <3>1. j \in 1..(Len(peers[n]) - 1) /\ at[j] = IF j < i THEN j ELSE j + 1
      BY <1>4, <1>6
    <3>2. left[j] = peers[n][at[j]]
      BY <1>4, <3>1
    <3> QED
      BY <1>5, <3>1, <3>2
  <2>2. ASSUME NEW j \in DOMAIN left, NEW k \in DOMAIN left, at[j] = at[k]
        PROVE  j = k
    <3>1. /\ j \in Int /\ k \in Int
          /\ at[j] = IF j < i THEN j ELSE j + 1
          /\ at[k] = IF k < i THEN k ELSE k + 1
      BY <1>4, <1>5, <1>6
    <3>2. (IF j < i THEN j ELSE j + 1) = (IF k < i THEN k ELSE k + 1)
      BY <2>2, <3>1
    <3>3. i \in Int
      BY <1>5
    <3> QED
      BY <3>1, <3>2, <3>3
  <2>3. ASSUME NEW k \in DOMAIN peers[n], k # i
        PROVE  \E j \in DOMAIN left : at[j] = k
    <3>1. CASE k < i
      <4>1. k \in DOMAIN left /\ at[k] = k
        BY <1>4, <1>5, <1>6, <3>1
      <4> QED
        BY <4>1
    <3>2. CASE k > i
      <4>1. k - 1 \in DOMAIN left /\ at[k - 1] = k
        BY <1>4, <1>5, <1>6, <3>2
      <4> QED
        BY <4>1
    <3> QED
      BY <1>5, <2>3, <3>1, <3>2
  <2> QED
    BY <2>1, <2>2, <2>3
<1>8. OnePeerPerScope(left)
  <2> SUFFICES ASSUME NEW j \in DOMAIN left, NEW k \in DOMAIN left,
                      left[j].peer_id = left[k].peer_id, left[j].scope = left[k].scope
               PROVE  j = k
    BY DEF OnePeerPerScope
  <2>1. at[j] = at[k]
    BY <1>3, <1>7 DEF OnePeerPerScope
  <2> QED
    BY <1>7, <2>1
<1>9. \A j \in DOMAIN left : \E k \in DOMAIN peers[n] : left[j] = peers[n][k]
  BY <1>7
<1>10. peers'[n] = left
  BY <1>2, <1>3
<1>11. \A pn \in PacketNumber : /\ peers[n][i].reliable_queue[pn] = NoMessage
                                /\ peers[n][i].rx_buffered[pn] = NoMessage
  BY <1>2 DEF Reclaimable, EmptyQueue
<1>12. ASSUME NEW m \in Message
       PROVE  (Cached(n, m) => Cached(n, m)') /\ (Queued(n, m) => Queued(n, m)')
  <2>1. m # NoMessage
    BY NotNone
  <2>2. ASSUME Cached(n, m)
        PROVE  Cached(n, m)'
    <3>1. PICK k \in DOMAIN peers[n], pn \in PacketNumber : peers[n][k].rx_buffered[pn] = m
      BY <2>2 DEF Cached
    <3>2. PICK j \in DOMAIN left : at[j] = k
      BY <1>7, <1>11, <2>1, <3>1
    <3>3. left[j].rx_buffered[pn] = m
      BY <1>7, <3>1, <3>2
    <3> QED
      BY <1>10, <3>3 DEF Cached, PacketNumber
  <2>3. ASSUME Queued(n, m)
        PROVE  Queued(n, m)'
    <3>1. PICK k \in DOMAIN peers[n], pn \in PacketNumber : peers[n][k].reliable_queue[pn] = m
      BY <2>3 DEF Queued
    <3>2. PICK j \in DOMAIN left : at[j] = k
      BY <1>7, <1>11, <2>1, <3>1
    <3>3. left[j].reliable_queue[pn] = m
      BY <1>7, <3>1, <3>2
    <3> QED
      BY <1>10, <3>3 DEF Queued, PacketNumber
  <2> QED
    BY <2>2, <2>3
<1>13. next_session_id' \in [Node -> 1..SessionMask] /\ lost' \subseteq 1..sent
  BY <1>2 DEF SessionsInv, HistoryOK
<1>14. /\ UNCHANGED <<wire, sent, acknowledged, failed, delivered, redelivered>>
       /\ lost \subseteq lost'
  BY <1>2
<1> QED
  BY <1>2, <1>4, <1>8, <1>9, <1>12, <1>13, <1>14, ForgetInv

\* A restart of a node keeps the invariant.
LEMMA RestartInv ==
    ASSUME SessionsInv, NEW n \in Node, Restart(n)
    PROVE  SessionsInv'
<1>1. PICK none : none = <<>>
  OBVIOUS
<1>2. none \in Seq(Peer) /\ OnePeerPerScope(none) /\ DOMAIN none = {}
  BY <1>1 DEF OnePeerPerScope
<1>3. /\ peers' = [peers EXCEPT ![n] = none]
      /\ forgot' = forgot \cup {n}
      /\ lost' = lost \cup {m \in Message : Queued(n, m) \/ Cached(n, m)}
      /\ next_session_id' = [next_session_id EXCEPT ![n] = NonZero(Masked(n))]
      /\ UNCHANGED <<wire, sent, acknowledged, failed, delivered, redelivered>>
  BY <1>1 DEF Restart
<1>4. next_session_id' \in [Node -> 1..SessionMask]
  <2>1. NonZero(Masked(n)) \in 1..SessionMask
    BY ConstantBounds, FreshIsSession
  <2> QED
    BY <1>3, <2>1 DEF SessionsInv, HistoryOK
<1>5. ASSUME NEW m \in Message, Queued(n, m) \/ Cached(n, m)
      PROVE  m \in 1..sent
  <2>1. CASE Queued(n, m)
    <3>1. PICK peer \in Held(n), pn \in PacketNumber : peer.reliable_queue[pn] = m
      BY <2>1, QueuedHeld
    <3>2. m # NoMessage
      BY NotNone
    <3>3. PeerOK(n, peer)
      BY DEF SessionsInv
    <3>4. DataPacket(n, peer.peer_id, peer.session_id, pn, m) \in wire
      BY <3>1, <3>2, <3>3 DEF PeerOK
    <3> QED
      BY <3>4 DEF SessionsInv, PacketOK, DataPacket, Packet
  <2>2. CASE Cached(n, m)
    <3>1. PICK peer \in Held(n), pn \in PacketNumber : peer.rx_buffered[pn] = m
      BY <2>2, CachedHeld
    <3>2. m # NoMessage
      BY NotNone
    <3>3. PeerOK(n, peer)
      BY DEF SessionsInv
    <3>4. DataPacket(peer.peer_id, n, peer.scope, pn, m) \in wire
      BY <3>1, <3>2, <3>3 DEF PeerOK
    <3> QED
      BY <3>4 DEF SessionsInv, PacketOK, DataPacket, Packet
  <2> QED
    BY <1>5, <2>1, <2>2
<1>6. lost' \subseteq 1..sent /\ lost \subseteq lost'
  BY <1>3, <1>5 DEF SessionsInv, HistoryOK
<1>7. \A m \in Message : Cached(n, m) \/ Queued(n, m) =>
         \/ m \in lost'
         \/ /\ Cached(n, m) => Cached(n, m)'
            /\ Queued(n, m) => Queued(n, m)'
  BY <1>3
<1>8. \A j \in DOMAIN none : \E i \in DOMAIN peers[n] : none[j] = peers[n][i]
  BY <1>2
<1> QED
  BY <1>2, <1>3, <1>4, <1>6, <1>7, <1>8, ForgetInv

-----------------------------------------------------------------------------
(***************************************************************************)
(* The theorems                                                            *)
(***************************************************************************)
LEMMA InitInv ==
    Init => SessionsInv
<1> SUFFICES ASSUME Init
             PROVE  SessionsInv
  OBVIOUS
<1>1. peers \in [Node -> Seq(Peer)] /\ \A n \in Node : peers[n] = <<>>
  BY DEF Init
<1>2. \A n \in Node : OnePeerPerScope(peers[n]) /\ Held(n) = {}
  BY <1>1 DEF OnePeerPerScope, Held
<1>3. next_session_id \in [Node -> 1..SessionMask]
  <2>1. \A n \in Node : NonZero(Masked(n)) \in 1..SessionMask
    BY ConstantBounds, FreshIsSession
  <2> QED
    BY <2>1 DEF Init
<1>4. HistoryOK
  BY <1>3, ConstantBounds DEF Init, HistoryOK
<1>5. wire = {} /\ DataOnWire = {}
  BY DEF Init, DataOnWire
<1>6. AckedWithoutReuse /\ AcceptedNotForgotten /\ DeliveredOnce
  BY DEF Init, AckedWithoutReuse, AcceptedNotForgotten, DeliveredOnce
<1>7. OnePacketPerMessage
  BY <1>5 DEF OnePacketPerMessage
<1> QED
  BY <1>1, <1>2, <1>4, <1>5, <1>6, <1>7 DEF SessionsInv

\* Every step keeps the invariant.
LEMMA NextInv ==
    ASSUME Connections = {NoScope}, SessionsInv, [Next]_vars
    PROVE  SessionsInv'
<1>1. CASE UNCHANGED vars
  <2>1. /\ UNCHANGED <<peers, wire, sent, acknowledged, failed, delivered, redelivered,
                       historyVars>>
        /\ next_session_id' = next_session_id
    BY <1>1 DEF vars
  <2>2. next_session_id' \in [Node -> 1..SessionMask]
    BY <2>1 DEF SessionsInv, HistoryOK
  <2> QED
    BY <2>1, <2>2, UntouchedInv
<1>2. ASSUME NEW n \in Senders, NEW to \in Node, NEW connection \in Connections,
             Send(n, to, connection)
      PROVE  SessionsInv'
  <2>1. n \in Node /\ connection = NoScope
    BY ConstantBounds
  <2> QED
    BY <1>2, <2>1, SendInv
<1>3. ASSUME NEW n \in Senders, NEW to \in Node, NEW connection \in Connections,
             NEW hello \in BOOLEAN, SendRefused(n, to, connection, hello)
      PROVE  SessionsInv'
  <2>1. n \in Node /\ connection = NoScope
    BY ConstantBounds
  <2> QED
    BY <1>3, <2>1, SendRefusedInv
<1> QED
  BY <1>1, <1>2, <1>3, CreationFailsInv, ReclaimIdleInv, GiveUpInv, ReceiveHelloInv,
     ReceiveDataInv, ReceiveAckInv, RestartInv DEF Next

\* The inductive invariant, for applications that name no connection.
THEOREM SessionsInvariant ==
    Connections = {NoScope} => (Spec => []SessionsInv)
<1> SUFFICES ASSUME Connections = {NoScope}
             PROVE  Spec => []SessionsInv
  OBVIOUS
<1>1. SessionsInv /\ [Next]_vars => SessionsInv'
  BY NextInv
<1> QED
  BY <1>1, InitInv, PTL DEF Spec

\* A node holds at most one peer state per remote node and scope, each with a
\* session id that is not 0, however sending, HELLO and data create them.
THEOREM SessionTypes ==
    Connections = {NoScope} => (Spec => []TypeOK)
<1>1. SessionsInv => TypeOK
  <2> SUFFICES ASSUME SessionsInv
               PROVE  TypeOK
    OBVIOUS
  <2>1. \A n \in Node : OnePeerPerScope(peers[n])
    BY DEF SessionsInv
  <2>2. \A n \in Node : \A i \in DOMAIN peers[n] : peers[n][i] \in Peer
    BY DEF SessionsInv
  <2> QED
    BY <2>1, <2>2 DEF SessionsInv, HistoryOK, TypeOK, OnePeerPerScope
<1> QED
  BY <1>1, SessionsInvariant, PTL

\* What an acknowledgement releases has reached the receiver, unless its packet
\* number went out twice.
THEOREM AcknowledgedIsThere ==
    Connections = {NoScope} => (Spec => []AckedWithoutReuse)
<1>1. SessionsInv => AckedWithoutReuse
  BY DEF SessionsInv
<1> QED
  BY <1>1, SessionsInvariant, PTL

\* A message the application was told is accepted is queued until it is
\* acknowledged, reported or lost in a restart.
THEOREM AcceptedIsKept ==
    Connections = {NoScope} => (Spec => []AcceptedNotForgotten)
<1>1. SessionsInv => AcceptedNotForgotten
  BY DEF SessionsInv
<1> QED
  BY <1>1, SessionsInvariant, PTL

\* A node that dropped no peer state delivers no message twice.
THEOREM DeliveredAtMostOnce ==
    Connections = {NoScope} => (Spec => []DeliveredOnce)
<1>1. SessionsInv => DeliveredOnce
  BY DEF SessionsInv
<1> QED
  BY <1>1, SessionsInvariant, PTL

=============================================================================
