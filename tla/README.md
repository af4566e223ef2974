# A verification project for xgen-link

XGL (xgen-link) is a layered protocol stack in C for embedded links: an
application sends messages to nodes, a transport makes them reliable and ordered
and cuts large ones into fragments, a network layer routes and forwards, a data
link layer frames and authenticates. This directory holds TLA+ models of its
protocol logic, TLC runs over small instances of them, and TLAPS proofs for
instances of every size. Paths below are relative to the repository.

## Inventory

| Component | State it keeps | Operations | What makes it correct |
|---|---|---|---|
| Sliding window (`src/transport/xgl_window.c`) | base, next number, marks of acknowledged slots | can_send, commit of a number, mark, advance | every number in the window is queued, acknowledged or given up |
| Reliable queue (`xgl_reliable*.c`) | copies of unacknowledged packets, retry counts, timers | insert, find, remove, backoff | a copy is kept until the receiver has the packet or the failure is reported |
| Send path (`xgl_transport_send*.c`) | HELLO flag of the peer | HELLO, queue, transmit, commit, rollback | one payload per number |
| Receive path (`xgl_transport_receive*.c`, `xgl_transport_rx_*.c`) | next expected number, out-of-order cache | duplicate, out of order, in order, drain | ordered, once-only delivery |
| ACK / SACK (`xgl_transport_ack*.c`, `xgl_transport_sack*.c`) | none of its own | send ACK, send SACK, apply ranges, walk the bitmap | an acknowledgement vouches for the packet |
| Retransmission (`xgl_transport_retransmit.c`) | none of its own | one pass over every queue, exhaustion | every queued packet leaves the queue |
| Fragmentation (`xgl_fragment*.c`) | next message id, reassembly buffers, received ranges, bytes reserved | cut, process a fragment, complete, time out, clear a scope | only whole messages, exact budget, no leak |
| Peer table and sessions (`xgl_transport_peer.c`, `xgl_transport_control.c`) | list of peers, session ids, activity times | create, HELLO, RESET, idle reclaim | packets of one session are not taken for another's |
| RTT (`xgl_rtt.c`) | smoothed RTT, variance | sample, timeout | the estimate lies between the samples, the timeout within its limits |
| Network (`src/network/`) | route table | send, receive, forward, mutate routes | no packet circles for ever, none is delivered but at its target, the route array and its hash index agree |
| Data link and replay (`src/datalink/`, `src/security/`) | parser, replay windows | feed bytes, verify, check replay, send | no packet is accepted twice as new, no new packet is taken for a replay |
| Parser and wire codec (`src/wire/`) | parser state, cache, expected lengths | feed a byte, time out, reset; encode, decode | resynchronises, never overruns, completes only frames that were sent |
| Runtime (`src/api/xgl_runtime.c`) | last read per route, cached deadlines | run, next deadline | sleeping until the deadline misses nothing, timers fire when due |
| Instance (`src/api/xgl_instance*.c`, `xgl_config.c`, `src/codec/`) | configuration, layers, codec registry | create, init, destroy | all or nothing, no leak |
| Pools and allocators (`src/memory/`) | free lists, reference counts, accounts | allocate, free, share, reset statistics | every block has one owner, the books are exact |
| Lists, hash table, platform, timers, statistics, logging | containers, counters | | supporting code |

How they interact: `xgl_send` enters the transport, which calls the network, the
data link and the PHY synchronously and learns from the return value whether the
frame left. `xgl_run` polls each PHY; complete frames climb through the layers
inside that call up to `rx_callback`, and acknowledgements are sent from inside
it. Then it runs the timers (retransmission, reassembly, idle peers). One
recursive lock per instance serialises the calls in thread-safe builds, so each
handler is atomic with respect to its own node; two nodes interleave freely, and
nothing is known of the link between them: packets are lost, repeated, delayed
and reordered.

What is hard: the interplay of timeouts, SACK-driven retransmission, refusals of
the lower layer in the middle of a handler, exhausted retries, late
acknowledgements, deliveries that fail after the acknowledgement left, restarts
with the same identifiers, and budgets at their limit. `PROJECT.json` lists these
hazards at their lines, with the properties that watch over them.

## Modules

* `ReliableStream` - one reliable stream: the sending peer state of one node, the
  receiving peer state of the other, and the network between them. The variables
  carry the names of the structure fields (`send_base_packet_number`,
  `reliable_queue`, `rx_next_packet_number`, `rx_buffered`, ...). `wire_*` is the
  set of everything ever sent; receiving does not remove, so that loss,
  duplication and reordering need no actions of their own. One action per
  handler:
  `SendAccepted`, `SendRefused` (`xgl_transport_send`), `ProcessRetransmissions`
  (a pass with any set of elapsed timers, any of whose sends is refused),
  `ReceiveAck`, `ReceiveEmptySack`, `ReceiveSack`, `ReceiveSackCutShort` (the
  walk that ends at a refused retransmission), `ReceiveHello`,
  `ReceiveDuplicate`, `ReceiveOutOfOrder`, `ReceiveInOrder` (with the drain), and
  `ReceiveInOrderFails` (a delivery fails, at once or in the drain).
* `OrderedChannel` - what the stream promises its two applications: accept,
  hold, deliver in order, confirm, give up.
* `MCReliableStream` - the stream with the symmetry of payloads, for TLC.
* `StreamTimers` - extends the stream with the timers of its queued packets: a
  stamp at every transmission, also the ones a SACK asks for, a pass that takes up
  exactly the packets whose timeout has elapsed, and stamps of 0, which no pass
  takes up. For liveness.
* `ReliableStreamProofs` - the theorems about the stream, with its refinement.
* `FragmentReassembly` - senders that cut messages, and the fragment manager of
  the receiver: sorted received ranges and their merges, buffer and byte budgets,
  completion, timeouts, clearing of a scope, restart of a sender. The bytes of a
  buffer hold the number of the send they came from, so that a mixture shows.
* `FragmentTimers` - extends it with the timers of the buffers, stamped by their
  first fragment only, stamps of 0 included. Buffers expire in
  the order they were opened, as in the code, where all have the same timeout
  (`FragmentReassembly` and its theorems allow any order). Its run checks safety
  as well as liveness.
* `FragmentProofs` - the theorems about `FragmentReassembly`.
* `Datalink` - the anti-replay table of a receiving data link layer
  (`datalink_check_replay`, `xgl_replay_window_check`): slots, the shifted bitmap,
  the verdicts new, duplicate and rejected, and what goes up to the network layer.
  Nothing is assumed of the senders: any verified frame may arrive at any time.
* `DatalinkProofs` - its theorems.
* `AuthenticatedLink` - extends `Datalink` with one sending node and the packet
  numbers its transport gives to messages, HELLO, ACK and SACK packets.
* `RouteTable` - the array of routes, its growth, the shift on removal, and the
  hash table of pointers into it, with allocations that may fail at each of the
  code's checks. A pointer is an allocation and an index, so a pointer into freed
  memory shows. `Load` and `LoadNext` are one call, during which no other action
  is enabled. The library itself only loads a table when an instance is created;
  the other operations are its internal interface.
* `RouteMap` - what the table promises: a map from targets to routes.
* `RouteTableProofs` - its theorems.

* `PeerSessions` - the peer tables of two nodes: the lookup with and without a
  scope, creation by sending, by HELLO and by data, the session counter, the one
  header field that carries connection or session, HELLO and the reset it causes,
  the peer an ACK comes back to and its fallback, idle reclaim, restart. The
  network repeats, loses and reorders anything (`wire`). Of the stream inside a
  peer only order and acknowledgements are kept.
* `PeerSessionsProofs` - its theorems.
* `FrameCodec` - frames as bytes: header and its CRC, extensions, payload, tag,
  frame CRC, in both directions, the authenticated and the zero-copy builders.
* `FrameParser` - the byte-fed parser and the loop that feeds it a chunk.
* `FrameRelay` - composes both with the network layer: nodes on serial lines send
  packets, read chunks, check, deliver and forward frames. Lines corrupt, lose and
  add bytes; a parser may time out in the middle of a frame. `MCFrameRelay` gives
  it a line of three nodes, routes and packets.
* `MemoryPools` - allocators and pools as values: the tracking allocator over a
  heap whose addresses are reused, the fixed-block pool, the three-tier TX pool,
  the packet pool.
* `Instance` - `xgl_create`, `xgl_init` with each allocation that can be refused
  and the cleanup label it jumps to, `xgl_destroy`, and the pools in use in
  between; codec registration. `MCInstance` gives it ten configurations, seven of
  which `xgl_config_validate` rejects.
* `InstanceProofs` - its theorems, and with them those of the pools.
* `Runtime` - time: a millisecond clock that wraps, `xgl_run` from its clock
  reading to its end with arrivals and sends in between, retransmission with
  backoff, reassembly timeout, idle reclaim, the cached deadline and
  `xgl_next_deadline_ms`, and the RTT estimator as a pure function. Beside each
  stamp the real time is kept, for the properties to compare with.
* `RuntimeProofs` - its theorems.
* `CommonLemmas` - induction over the subsets of a finite set and over numbers up
  to a bound, the existence of folds, sums over finite sets, counting of
  intervals, remainders: what several proof modules need.

Operators whose comment begins with "Mutant of" are wrong variants of the
definition that follows them; each breaks the property it is paired with in
`PROJECT.json`, which shows that the property can fail.

### Abstractions

* A payload is a model value, except in `FrameRelay`, where it is bytes. Codecs
  are not applied (see "Not modelled").
* For safety, time is "the timeout elapsed": in `ReliableStream` and
  `FragmentReassembly` any subset of the queued packets or buffers may be due in a
  pass. Every schedule of the code is among these. `StreamTimers` and
  `FragmentTimers` count ticks from each stamp, with timeouts of equal length; the
  clock itself, its wrap and backoff are in `Runtime`. The sentinels for time 0
  (`xgl_transport_retransmit.c:68`, `xgl_fragment_maintenance.c:29`) are in all
  three.
* The retry counter of a packet wraps (`RetryCounts`, 256 in the code): a pass
  compares it with the limit, a SACK-driven retransmission does not.
* The ACKs the code sends carry one range of one packet; `wire_ack` holds that
  number. A SACK is its base and the set of numbers whose bit is set.
* A replay bitmap is the set of its one bits. A scope is the triple of source,
  connection and epoch as one value. In `AuthenticatedLink` two packets are the
  same if they say the same, so an ACK repeated for the same number is a
  repetition; the numbers of ACKs and SACKs are chosen by the other node and hence
  arbitrary.
* In `ReliableStream`, a packet rejected below the transport (routing, CRC, authentication, replay
  window) is a lost packet.
* `ReliableStream` stays within one session (no restart, reset or reclaim) and
  below the wrap of packet numbers (`PnMax`).
* The window `ctx->window`, shared by all peers, decides nothing in these paths
  and is left out.
* Rejected inputs leave the fragment manager unchanged and are no steps.
  The same holds of frames that the data link layer rejects and of routes that
  are not found.
* The hash table of `RouteTable` is a function: how keys spread over buckets and
  chains decides no lookup. The settings of a route other than its metric are one
  value, `link`.
  `max_message_size` and `max_reassembly_bytes` 0 stand for no limit, as in
  `xgl_fragment_set_limits`.
* `PeerSessions` has no retransmission action, since the network repeats what was
  sent, and no window, since `MaxMessages` is below its size. Session epochs are
  all 0: no send path encodes one. RESET is sent by no code of the library.
* In `FrameRelay` a tag stands for what was signed and the key it was signed
  with; the anti-replay table is the set of accepted numbers (`Datalink` has the
  real one); numbers fit 32 bits. The parser's timestamp is whether the timeout
  has passed.
* In `Instance` a block is an address with size, allocator and phase; contents
  are left out. Freeing a pointer that no live block of that allocator has sets
  `damaged`. Route, PHY and authentication checks of the configuration are one
  flag each. Packets are freed by those who hold them: `xgl_packet_free` has no
  guard against a second call, which the models do not make, while the guards of
  the TX pool are tried with double and foreign frees.
* `Runtime` has one peer, one route and one reassembly buffer. The peer's
  out-of-order buffer is empty.

## Runs

| Run | Instance | Shows |
|---|---|---|
| `StreamSafety` | 2 payloads, windows of 3, 4 SACK bits, 1 retry, a retry counter of 2 values, 4 packets | the type invariant, `DeliveredInOrder`, `OnePayloadPerPacketNumber`, `NoSilentLoss`, `WindowAccounting`, `ReceiverHasRoom`, and `ImplementsChannel` (refinement of `OrderedChannel`) |
| `StreamLiveness` | timers: 1 payload, 3 packets, receiver window 2, sender window 3, a timeout of 1 tick, stamps of 0, deliveries may fail | `QueueDrains`, `DeliveredUnlessGivenUp` |
| `FragmentSafety` | `FragmentTimers`: 2 senders that may restart, messages of 2 and 5 bytes, fragments of 1 and 2 bytes, 2 buffers, 7 bytes, 2 ranges, a timeout of 1 tick, stamps of 0 | `RangesTrackBytes`, `BudgetExact`, `CompletedWhole`, `BuffersReleased` |
| `Sessions` | 2 nodes that both send, 2 messages, session ids 1 to 3, 2 per node, 1 restart, idle reclaim | `AckedWithoutReuse`, `AcceptedNotForgotten`, `DeliveredOnce`, one peer state per scope |
| `SessionsBothWays` | violation: 2 nodes, 3 messages, no restart, no reclaim | a message acknowledged and never delivered |
| `Frames` | 3 nodes in a line, 6 packets, 1 fault, reads of 20 and 64 bytes, cache of 64, hop limits 3 and 4, 3 authentication settings | `OnlySentFrames`, `CleanLineComplete`, `DeliveredAsSent`, `HopsBounded`, `AuthenticationEndToEnd` |
| `DatalinkReplay` | 3 scopes, 2 slots, 3-bit bitmap, window of 2, numbers 0 to 5 | `NewOnce`, `DuplicatesWereAccepted`, `WindowTracks` |
| `DatalinkNumbering` | violation | new packets are dropped as replays |
| `RouteLookup` | 3 targets, capacity from 0, growth from 1, loads of 2 | `IndexAgrees`, `ImplementsMap` (refinement of `RouteMap`) |
| `Memory` | 10 configurations, 2 creations, 2 initialisations, 5 uses of the pools | `EveryBlockOwned`, `InitAllOrNothing`, `AccountingExact`, `PoolPartition` |
| `RuntimeTiming` | clock modulo 64 that starts 3 before its wrap, 6 ms, 4 sends and arrivals, 2 packets in flight | `DeadlineCovers`, `ExpiryOnTime`, `EstimatorSound` |
| `RuntimeStaleClock` | violation: the same instance | a reassembly buffer freed in the `xgl_run` that made it |

Why the bounds are enough. Four packets and a window of three let the window
fill, slide and fill again, with a hole in the middle and a packet on both sides
of it; four SACK bits are more than the window, as the 64 bits of the code are
more than its 32 packets at most (`xgl_config_validate`); one retry separates
"retransmitted" from "given up", and a counter of two values wraps at the second
retransmission a SACK asks for. In `FragmentSafety` two fragment sizes give partial overlaps, five
bytes give three fragments and hence the merge of two ranges, two ranges make the
array fill up, and seven bytes hold just one long and one short message, not two
long ones. In `DatalinkReplay` one scope finds no slot, numbers jump by more than
the bitmap, and some lie within the bitmap but outside the window. In
`RouteLookup` three targets make the array grow three times and let a removal
shift two routes. In `Sessions` a session mask of 3 makes the counter wrap past 0,
two messages give one each way or two in order, and two session ids per node let a
peer state be made, lost and made again, or two exist side by side; `Connections` is {0}, the traffic of
applications that name none (with others `AcceptedNotForgotten` fails, as its
comment says). In `Frames` a read of 20 bytes cuts every header, the fault can hit
any byte, a payload that begins with the magic bytes and a stray magic before a
frame lead the parser astray, one frame is too long for the relay's route, and two
events are two packets or a packet and a fault; the routes of nodes 2 and 3 to
node 4 form a loop longer than the hop limit. In `Memory` the requests are 0, a
full small block, one byte more, and more than the largest block; each pool of the
smallest configuration has one or a few blocks, so each runs dry. In
`RuntimeTiming` the clock reads 61 to 63 and then 0 to 3, timeouts are 2 and 3 and
double to at most 6, so stamps and deadlines lie on both sides of the wrap, and
the time horizon covers a retransmission and the give-up after it. The theorems
remove the bounds for the safety of the stream, of reassembly, of the anti-replay
table, of the route table, of sessions between applications that name no
connection, of the runtime, and of an instance and its pools.

Fairness. The timers are part of the models whose liveness is checked, and no
fairness is assumed of a timeout. `StreamLiveness` assumes that the clock moves
(`Tick`) and that a packet whose timeout stays elapsed is taken up by a pass in
which the link does not refuse it (`TakenUp`, weak fairness per packet): `xgl_run`
is called again and again, and the link accepts a frame now and then.
`FragmentSafety` assumes the clock and the pass over the buffers. Nothing is
assumed of the network, nor of when SACKs and fragments arrive, and so two things
can hold a packet for ever, which the properties name as `HeldUp`: SACKs that keep
asking for it, since each retransmission moves its stamp
(`xgl_transport_retransmit.c:50`), and a stamp of 0, which no pass takes up
(`:68`). Both are necessary: without either exception TLC refutes `QueueDrains`.
`BuffersReleased` needs only a stamp other than 0, because no fragment but the first
stamps a buffer (`xgl_fragment_maintenance.c:29`). `DeliveredUnlessGivenUp` says
that all is delivered, or some packet is given up or held up, or one was
acknowledged whose delivery failed. That timers do not fire too early is a matter
of `Runtime`.

Deadlock. The stream, fragment, data link and route runs check it: their bounded
systems do not stop. `Sessions`, `Frames`, `Memory`, `RuntimeTiming` and the two
violation runs beside them do not, because their bounds (messages, events, calls,
time) end every behaviour.

### What the violations say

1. `SessionsBothWays`: the header has one field for connection and session. The
   receiver of traffic sent without a connection files it under the sender's
   session id as a connection; its answers come back under that connection and
   make a second, scoped peer state at the first node, which a lookup without a
   scope then prefers. Packets from it carry numbers used before, in the same
   session: they are acknowledged as duplicates and dropped. (In TLC's behaviour
   both nodes open at once and their HELLOs cross.) So two nodes that
   both send reliably can lose messages that were reported delivered.
   `docs/en/protocol/transport-internals.md:53` says that peer state is uniquely
   identified. `AckedWithoutReuse` shows that the reuse of a number is the only
   way to such a loss, apart from a restart of the receiver.
2. `DatalinkNumbering`: the anti-replay window of a connection looks at the packet
   number only, and the numbers of a connection come from several counters.
   Unreliable messages and HELLO are all numbered 0, ACKs repeat the number they
   acknowledge and SACKs their base. So with authentication only the first
   unreliable message of a connection is taken, and an ACK is lost, every time it
   is sent, if a SACK or a packet of the node's own stream used its number before.
   `docs/en/protocol/security.md:98` says that new packets enter the network layer.
3. `RuntimeStaleClock`: `xgl_run` reads the clock once, at its start
   (`src/api/xgl_runtime.c:149`), and what arrives while it runs is stamped with
   the clock of that moment. One millisecond between the two, and the unsigned
   difference is almost 2^32: the reassembly buffer of an acknowledged fragment is
   freed, a peer that was active a moment ago is reclaimed, a packet sent by
   `rx_callback` is retransmitted or given up at once. `ExpiryOnTime` shows that
   nothing else is early or missed.

### Stated and known not to hold

These definitions stay in the modules because the documentation states them; each
is refuted by a short behaviour, and the runs check what remains true.

* `StreamTimers!DeliveredOrGivenUp`, `WindowReopens`:
  `transport_process_retransmission_queue` removes an exhausted packet and reports
  it, but neither end moves past its number. The receiver waits for it for ever,
  the packets behind it are released by SACKs without being delivered or reported
  (`docs/en/reference/validation-matrix.md:35` promises one or the other), and the
  sender's window fills up and stays full (`docs/en/guide/send-api.md:30`,
  `docs/en/guide/troubleshooting.md:19` advise to wait). This lasts until the peer
  state is reclaimed after `peer_idle_timeout_ms`, 60 s by default, without
  activity. What holds is `DeliveredUnlessGivenUp`.
* `ReliableStream!AckMeansCustody`: the ACK leaves before the delivery
  (`xgl_transport_receive_order.c:45`), and the drain acknowledges a packet it
  failed to deliver and frees it; `docs/en/protocol/state-machines.md:119-124`
  draws the ACK after delivery and drain. It holds where `DeliverCanFail` is
  FALSE, which is the premise of the custody theorems.
* `FragmentReassembly!MessagesNotMixed`: `docs/en/protocol/state-machines.md:149`
  says the key keeps sessions apart, but message ids restart at 0 and no send path
  puts an epoch on the wire, so fragments of two lives of a sender meet.

Further disagreements met while modelling, without a property of their own: the
TX pool takes its buffers from the default allocator whatever `config.memory` says
(`src/memory/xgl_tiered_pool.c:75`), so with `XGL_ALLOW_FALLBACK_MALLOC=0`
`xgl_init` cannot succeed; `xgl_rtt_update` and `ack_timeout_ms` have no user, so
every timeout is the default or the caller's (`transport-internals.md:130` says
otherwise); a `connection_id` above 63 is rejected by the receiver, and one up to
63 is delivered but its ACK is refused unless it equals the sender's session id;
`datalink.md:59` says the header CRC leaves out the hop limit, the code includes
it; a stray `A5 5A` before a frame swallows the frame
(`FrameRelay!CleanLineComplete` counts it as the fault's cost).

## Proofs

All theorems hold for every value of the constants allowed by `StreamAssumption`,
`FragmentAssumption`, `DatalinkAssumption`, `RouteAssumption`,
`SessionAssumption`, `MaskAssumption`, `RuntimeAssumption`, `FallbackAssumption`
and `InstanceAssumption`, which state the types of the constants, that a replay
window fits its bitmap, that session ids have 16 bits, that the clock has an even
number of readings, that the timeout limits are in order, that the retry limit is
below the number of values of the retry counter, and that a configuration
has at most the two routes for which `Instance` has pointers to hash entries. A
theorem that needs more says so as its premise.

* `SafetyInvariant`: `Spec => []SafetyInv`. `DeliveredInOrder` alone is not
  inductive: a packet delivered in order comes from the wire or from the cache, so
  the invariant says of both, and of the queue that feeds the wire, that what they
  hold under a number is what was accepted under it (`OnePayloadPerPacketNumber`,
  `QueueHoldsAccepted`, `BufferHoldsAccepted`, `NumbersAgree`).
  `WindowAccounting` joins it because the sender's steps are constrained by it.
  Its parts are the theorems `TypeCorrect`, `InOrderDelivery`,
  `NumbersNameOnePayload` and `WindowAccounts`.
* `CustodyInvariant`: if deliveries do not fail, every ACK and SACK bit on the
  wire and every mark in the window stands for a packet the receiver holds, now
  and later - what the receiver holds it never loses, so old acknowledgements stay
  true. `SilentLossFree` and, with a receiver window at least as large as the
  sender's, `BufferNeverRefuses` follow: the sender's base never passes the
  receiver's next number.
* `StreamImplementsChannel`: if deliveries do not fail, the stream refines
  `OrderedChannel`; held packets are the cached ones, confirmed the ones that left
  the queue without a report. Each action maps to one abstract step or a stutter,
  with the two invariants as premises.

* `ReplayInvariant`: `NewOnce` is not inductive, since it says nothing of the
  bitmap by which the next frame is judged. The invariant adds `WindowTracks` (the
  bitmap is exactly the set of accepted numbers within its width, nothing above
  the largest was accepted, and a scope without a slot had nothing accepted) and
  that no two slots share a scope. The lemma `AfterNewTracks` carries it over the
  shift, including the bits that fall off. The assumption used is that a window is
  no larger than the bitmap, which `xgl_replay_window_init` checks. `NoNumberTwice`,
  `ReplayTypes`, `NoFalseDuplicate` and `BitmapsTrack` are its parts.

* `TableInvariant`: `IndexAgrees` in both directions makes the targets in the
  array distinct, since equal targets would have equal pointers. That is what the
  pointers rewritten by a growth or a removal rest on, one per slot. A lemma per
  operation says that it keeps the invariant and how lookups change; `LookupIsMap`
  maps them to the steps of `RouteMap`. `TableTypes` and `PointersAgree` are parts
  of the invariant.

* `FragmentInvariant`: per buffer, the ranges are sorted with gaps between them, a
  byte is written if and only if a range covers it, and every written byte comes
  from a message of the buffer's source, type and length. The last part is what
  `CompletedWhole` lacks to be inductive. `InsertRangeKeeps` covers a
  new range that meets its left neighbour, its right one, both or neither; that it
  overlaps none of the others follows from their order. `received_bytes` is exact because the bytes of
  an accepted fragment were not written before, and a count equal to the length
  leaves no byte out. For `BudgetExact` the sum over the buffers
  (`MapThenSumSet`) is shown to be independent of the order in which it picks
  them, so that adding or removing a buffer changes it by that buffer's length.
  `FragmentTypes`, `RangesDescribeBytes`, `BudgetStaysExact` and
  `OnlyWholeMessages` follow.
* `SessionsInvariant`: per peer state, what is queued is on the wire under its
  number, what is cached was sent to it, and every number below `rx_next` arrived;
  per packet, an acknowledgement names only numbers that arrived ("arrived" being
  stable: nothing that reached the receiver stops having reached it, since a
  restart moves it to `lost`); and a node that dropped no peer state has counted
  what it delivered. The peer a lookup finds or makes is replaced by one of the
  same scope (`Swapped`), and a lemma says what such a step keeps; each handler is
  an instance of it. `SessionTypes`, `AcknowledgedIsThere`, `AcceptedIsKept` and
  `DeliveredAtMostOnce` follow. The premise `Connections = {NoScope}` (the
  applications name no connection) is necessary: with a named connection a HELLO
  of the other node resets a peer state whose session differs, and with it a queue
  of accepted messages.
* `RuntimeInvariant`: every stamp is what the clock read at the real time kept
  beside it, a packet's timeout is a given one, the default or a backed-off one,
  and outside `xgl_run` the cached deadline of the peer is the one its queue
  yields, which each handler that touches the queue must have recomputed.
  `RuntimeTypes` follows. `NeverEarly` needs no bound on time: a remainder never
  exceeds the difference it is taken of, so a wrapped difference is never too
  large, except where the stamp is younger than the reading (the violation
  `RuntimeStaleClock`). `ExpiresOnTime` has the premise `MaxTime < ClockSize`: a
  packet that waits a whole turn of the clock looks fresh. `DeadlinesCover` has
  the premise `WithinHalfTurn`: deadlines are ordered by a signed difference,
  which orders readings only that far apart. Both are about the time since boot in
  the model, and with 2^32 ms a turn is 49 days. The deadlines themselves are a
  fold over the queue, shown to be the least of the packets' deadlines.
  `EstimatorStaysSound` is arithmetic: the smoothed RTT is a weighted mean, and
  the doubling loop has the closed form `Lesser(initial * 2^n, cap)`.
* `InstanceInvariant`: for every set of configurations, whether or not there is a
  fallback allocator, and for any number of calls. `EveryBlockOwned` counts blocks
  and says neither which allocator they came from nor what is on the free lists,
  so it is not inductive: a release through the wrong allocator, or of a block
  two fields share, would break it a step later. The invariant says of the heap
  that every pointer that is not NULL has a live block of its own, from the
  allocator its field uses (`PointersOK`); that the tracker's counts are the sums
  of the sizes of the live blocks, in all and per phase (`BooksOK`); that what no
  field points to is packet data with its buffer, or what a destroyed instance
  left out (`DataOK`), with reference counts equal to the number of packets that
  have the data; and that the free lists are the complement of what is out,
  without repetition (`TxPoolOK`, `PacketPoolOK`).
  The heart is `xgl_init`. Its allocations and releases are folds over lists of
  fields; `AllocFieldsKeep` and `FreeFieldsKeep` carry `PointersOK` over a list of
  any length, field by field. `OrderRises` shows that no field is allocated twice,
  `CleanupCovers` that the labels control falls through from the one a failure
  jumps to, with what the failing initialiser releases itself, reach every field
  allocated before it, and `DestroyCovers` that `xgl_destroy` reaches every field;
  a field reached twice is NULL the second time. `NeverRejected` shows that
  validation leaves parser and window nothing to reject.
  `InstanceTypes`, `EveryBlockHasAnOwner`, `InitIsAllOrNothing`,
  `AccountingIsExact` and `PoolsArePartitioned` follow; for the last, a tier whose
  free list is not empty has blocks, so that `xgl_tiered_pool_alloc` passes over no
  tier that could serve the request.

The premise `~DeliverCanFail` is necessary: without it a failed delivery refutes
`AckMeansCustody`.

Induction. `CommonLemmas!SubsetInduction` takes the property as the set of the
subsets that have it, not as an operator, so that it can be instantiated; the
least element of a set of numbers (`SmallestExists`), the function that a fold
defines (`FoldExists`) and the sum of a function over a set (`SumOf`, with
`SumRemove` saying that the order does not matter) rest on it. That is how the
proofs reach what `MapThenSumSet`, `FoldFunction`, `FoldLeft`, `FlattenSeq` and the
recursive functions of the models compute.

Only model-checked: liveness and fairness (`QueueDrains`,
`DeliveredUnlessGivenUp`, `BuffersReleased`), outside the prover's logic; and
`FrameRelay`, which processes the frames of a chunk
with a RECURSIVE operator and XORs bytes with `Bitwise`, both out of the prover's
reach.

## Plan

1. Done: the stream with its refinement and proofs; reassembly, replay protection,
   sessions, time, memory and the life of an instance with proofs; the route table
   with refinement and proofs; frames, parser and forwarding.
2. A composition still open: fragmentation over the reliable stream (a window that
   fills in the middle of a message, a reassembly timeout after acknowledgement).
3. Packet numbers that wrap at 2^32 in the send window and the receive order.

## Not modelled

* Operating-system wrappers: mutexes of three platforms, time providers, software
  timers, atomics, platform information. One recursive instance lock makes the
  handlers atomic; the models rely on that. The locked wrappers `xgl_mempool_ts`
  and `xgl_list_ts` take a lock around the modelled operations.
* Statistics and logging: no decision depends on them.
* Codecs in use: `xgl_transport_send` encodes with a registered compression codec
  but never marks the packet, so the receiver delivers the encoded bytes
  (`xgl_transport_send.c:105`); `docs/en/protocol/codec.md:101` calls compression
  reserved. Registration is in `Instance`.
* Code without a caller: CRC-8, the route extension, the session-extension
  encoder, `xgl_reliable_process_timeouts`, statically backed tiers.
* Examples, tests, benchmarks and build files.

`PROJECT.json` gives the state of each component.
