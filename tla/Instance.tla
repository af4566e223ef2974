------------------------------ MODULE Instance ------------------------------
(***************************************************************************)
(* The life of an XGL instance and of the memory behind it: xgl_create,    *)
(* xgl_init with its chain of allocations and the cleanup labels it jumps  *)
(* to when one is refused, a second attempt, xgl_destroy in any state, and *)
(* in between the TX pool, the packet pool and the tracking allocator in   *)
(* use.                                                                    *)
(*                                                                         *)
(* A field of the instance is a pointer, NULL or an address.  One call is  *)
(* one step: the calls of the application do not overlap, and neither      *)
(* xgl_create, xgl_init nor xgl_destroy takes the instance's mutex.        *)
(***************************************************************************)
EXTENDS MemoryPools

CONSTANTS
    Configs,         \* configurations the application tries
    ThreadSafeBuild, \* XGL_THREAD_SAFE
    Sizeof,          \* field -> bytes of the structure or array behind it
    Requests,        \* sizes asked of the TX pool
    Phases,          \* accounting phases the application selects
    MaxCreates,      \* bound: calls of xgl_create
    MaxInits,        \* bound: calls of xgl_init
    MaxUses          \* bound: operations on pools and tracker

TxFields == <<"small_buffer", "medium_buffer", "large_buffer">>
EntryFields == <<"entry_1", "entry_2">>

\* Pointers to owned memory; "instance" is the handle itself.
Field == ToSet(TxFields) \union ToSet(EntryFields) \union
         {"instance", "packets", "buckets", "routes", "route_last_read_ms",
          "rx_cache", "ack_received", "fragment_mgr"}

ASSUME InstanceAssumption ==
    /\ ThreadSafeBuild \in BOOLEAN
    /\ Sizeof \in [Field -> Nat \ {0}]
    /\ Requests \subseteq Nat
    /\ Phases \subseteq Phase
    /\ {MaxCreates, MaxInits, MaxUses} \subseteq Nat
    /\ \A c \in Configs : /\ c.allocator \in Allocator /\ c.thread_safe \in BOOLEAN
                          /\ c.route_table_len \in 0..2 /\ c.codecs \in Seq(Nat)

VARIABLES
    handle,       \* the application's handle: "none", "created" or "ready"
    config,       \* handle->config
    ptr,          \* field -> address or NULL
    mutex,        \* handle->mutex.initialized
    mem,          \* the heap and the tracking allocator
    tx_pool,      \* tier -> pool
    packet_pool,
    data,         \* address of packet data -> its count and buffer
    codecs,       \* codec_registry: the codecs registered, in order
    held,         \* TX blocks the application has, with the size it asked for
    packets,      \* packets the application has
    orphans,      \* data of packets still out when the instance went
    outcome,      \* of the last xgl_init: "ok", "refused" or "rejected"
    calls         \* calls so far: creates, inits, uses

vars == <<handle, config, ptr, mutex, mem, tx_pool, packet_pool, data, codecs,
          held, packets, orphans, outcome, calls>>

-----------------------------------------------------------------------------
(***************************************************************************)
(* Configuration                                                           *)
(***************************************************************************)
BROADCAST_ID == 65535
AckTimeouts == 100..10000
FrameSizes == 64..2048
TxPoolSizes == 512..65536
RxBufferSizes == 64..4096

ValidProtocol(c) ==
    /\ c.ack_timeout_ms \in AckTimeouts
    /\ c.max_retry_count \in 1..10
    /\ c.window_size \in 1..32
    /\ c.max_frame_size \in FrameSizes

\* An authenticated configuration brings an allocator and a provider.
ValidAuth(c) ==
    c.auth_required => c.allocator # "none" /\ c.tag_len \in 1..16

xgl_config_validate(c) ==
    /\ c.source_id # 0 /\ c.source_id # BROADCAST_ID
    /\ c.tx_pool_size \in TxPoolSizes
    /\ c.rx_buffer_size \in RxBufferSizes
    /\ ValidProtocol(c)
    /\ ~c.reserved_features       \* enable_compression, enable_encryption
    /\ ValidAuth(c)
    /\ c.thread_safe => ThreadSafeBuild
    /\ c.rx_buffer_size >= c.max_frame_size
    /\ c.routes_valid             \* phy, frame size and frequency of each

NoConfig == [allocator |-> "none"]

-----------------------------------------------------------------------------
(***************************************************************************)
(* Fields that own memory                                                  *)
(***************************************************************************)
\* xgl_tiered_pool_init passes NULL for the allocator.
AllocatorOf(c, f) == IF f \in ToSet(TxFields) THEN "none" ELSE c.allocator

Bytes(c, f) ==
    CASE f = "small_buffer"  -> PoolCounts(c.tx_pool_size)["small"] * TierSize["small"]
      [] f = "medium_buffer" -> PoolCounts(c.tx_pool_size)["medium"] * TierSize["medium"]
      [] f = "large_buffer"  -> PoolCounts(c.tx_pool_size)["large"] * TierSize["large"]
      [] f = "packets"       -> PacketCount(c.tx_pool_size) * Sizeof[f]
      [] f = "rx_cache"      -> c.rx_buffer_size
      [] f = "ack_received"  -> c.window_size * Sizeof[f]
      [] f = "route_last_read_ms" -> c.route_table_len * Sizeof[f]
      [] OTHER -> Sizeof[f]

\* Each destructor uses the allocator its initialiser used.
ReleasedThrough(c, f) == AllocatorOf(c, f)

\* s is a pair of memory and pointers.
AllocField(c, s, f) ==
    [mem |-> xgl_alloc(s.mem, AllocatorOf(c, f), Bytes(c, f)),
     ptr |-> [s.ptr EXCEPT ![f] = FreshAddress(s.mem.blocks)]]

\* Memory released while the pointer to it stays.
FreeBehind(c, s, f) ==
    [s EXCEPT !.mem = xgl_free(@, ReleasedThrough(c, f), s.ptr[f])]

\* The destructors clear the pointers they free.
FreeField(c, s, f) == [FreeBehind(c, s, f) EXCEPT !.ptr[f] = NULL]

AllocFields(c, s, fields) == FoldLeft(LAMBDA t, f : AllocField(c, t, f), s, fields)
FreeFields(c, s, fields) == FoldLeft(LAMBDA t, f : FreeField(c, t, f), s, fields)

-----------------------------------------------------------------------------
(***************************************************************************)
(* xgl_init: its allocations in order, and where it goes when one fails    *)
(***************************************************************************)
InitOrder(c) ==
    TxFields \o <<"packets", "buckets", "routes">>
    \o SubSeq(EntryFields, 1, c.route_table_len)
    \o (IF c.route_table_len > 0 THEN <<"route_last_read_ms">> ELSE <<>>)
    \o <<"rx_cache", "ack_received">>
    \o (IF c.enable_fragmentation THEN <<"fragment_mgr">> ELSE <<>>)

\* Mutant of OwnRollback: xgl_transport_init keeps the window when it fails.
OwnRollbackNoWindow(f) ==
    CASE f \in ToSet(TxFields)  -> TxFields
      [] f = "routes"           -> <<"buckets">>
      [] OTHER                  -> <<>>

\* What the initialiser that fails at f releases before it returns:
\* xgl_tiered_pool_init, xgl_route_table_init and xgl_transport_init.
OwnRollback(f) ==
    CASE f \in ToSet(TxFields)  -> TxFields
      [] f = "routes"           -> <<"buckets">>
      [] f = "fragment_mgr"     -> <<"ack_received">>
      [] OTHER                  -> <<>>

\* The cleanup labels in the order control falls through them.
Labels == <<"cleanup_transport", "cleanup_network", "cleanup_datalink",
            "cleanup_rx_buffer", "cleanup_route_read_times",
            "cleanup_route_table", "cleanup_packet_pool", "cleanup_tx_pool",
            "cleanup">>

ReleasedAt(label) ==
    CASE label = "cleanup_transport"        -> <<"fragment_mgr", "ack_received">>
      [] label = "cleanup_rx_buffer"        -> <<"rx_cache">>
      [] label = "cleanup_route_read_times" -> <<"route_last_read_ms">>
      [] label = "cleanup_route_table"      -> EntryFields \o <<"buckets", "routes">>
      [] label = "cleanup_packet_pool"      -> <<"packets">>
      [] label = "cleanup_tx_pool"          -> TxFields
      [] OTHER                              -> <<>>

LabelOf(f) ==
    CASE f \in ToSet(TxFields)               -> "cleanup"
      [] f = "packets"                       -> "cleanup_tx_pool"
      [] f \in {"buckets", "routes"}         -> "cleanup_packet_pool"
      [] f \in ToSet(EntryFields)            -> "cleanup_route_table"
      [] f = "route_last_read_ms"            -> "cleanup_route_table"
      [] f = "rx_cache"                      -> "cleanup_route_read_times"
      [] f \in {"ack_received", "fragment_mgr"} -> "cleanup_network"

CleanupFrom(label) ==
    LET i == CHOOSE j \in DOMAIN Labels : Labels[j] = label
    IN  FlattenSeq([j \in 1..(Len(Labels) - i + 1) |-> ReleasedAt(Labels[i + j - 1])])

\* xgl_parser_init and xgl_window_init check their arguments once more.
ParserRejects(c) == c.rx_buffer_size < 26
WindowRejects(c) == c.window_size \notin 1..128
Rejects(c, f) == \/ f = "rx_cache" /\ ParserRejects(c)
                 \/ f = "ack_received" /\ WindowRejects(c)

\* xgl_init as far as the allocation of f, which fails, and the cleanup.  When
\* the parser rejects the receive buffer, cleanup_rx_buffer frees it and the
\* data link layer keeps the pointer.
InitFailingAt(c, s, f) ==
    LET order == InitOrder(c)
        before == SubSeq(order, 1, (CHOOSE i \in DOMAIN order : order[i] = f) - 1)
        reached == AllocFields(c, s, before)
        stopped == IF f = "rx_cache" /\ ParserRejects(c)
                   THEN FreeBehind(c, AllocField(c, reached, f), f)
                   ELSE reached
    IN  FreeFields(c, stopped, OwnRollback(f) \o CleanupFrom(LabelOf(f)))

\* Fields xgl_init can get to, and fail at.
MayFailAt(c) ==
    LET order == InitOrder(c)
        Passes(f) == Serves(AllocatorOf(c, f)) /\ ~Rejects(c, f)
    IN  {order[i] : i \in {j \in DOMAIN order : \A k \in 1..(j - 1) : Passes(order[k])}}
MaySucceed(c) == \A f \in ToSet(InitOrder(c)) :
                     Serves(AllocatorOf(c, f)) /\ ~Rejects(c, f)

\* Mutant of xgl_codec_register: the same codec is registered twice.
RegisterAgain(registry, codec) ==
    IF Len(registry) >= 4 THEN registry ELSE Append(registry, codec)

\* A full registry and a second codec of that kind and id are reported only.
xgl_codec_register(registry, codec) ==
    IF Len(registry) >= 4 \/ codec \in ToSet(registry)
    THEN registry ELSE Append(registry, codec)

-----------------------------------------------------------------------------
(***************************************************************************)
(* Creation, initialisation and destruction                                *)
(***************************************************************************)
NoPointers == [f \in Field |-> NULL]
Counted(call) == calls' = [calls EXCEPT ![call] = @ + 1]

Init ==
    /\ handle = "none" /\ config = NoConfig
    /\ ptr = NoPointers /\ mutex = FALSE
    /\ mem = NewMemory
    /\ tx_pool = [t \in Tier |-> NoPool] /\ packet_pool = NoPackets
    /\ data = <<>> /\ codecs = <<>>
    /\ held = {} /\ packets = {} /\ orphans = {}
    /\ outcome = "ok"
    /\ calls = [create |-> 0, init |-> 0, use |-> 0]

\* Rejected configurations and a refused structure give the NULL handle.
xgl_create(c) ==
    /\ handle = "none"
    /\ calls.create < MaxCreates
    /\ xgl_config_validate(c)
    /\ Serves(c.allocator)
    /\ LET s == AllocField(c, [mem |-> mem, ptr |-> NoPointers], "instance")
       IN  mem' = s.mem /\ ptr' = s.ptr
    /\ handle' = "created"
    /\ config' = c
    /\ Counted("create")
    /\ UNCHANGED <<mutex, tx_pool, packet_pool, data, codecs, held, packets,
                   orphans, outcome>>

InitSucceeds ==
    /\ MaySucceed(config)
    /\ LET s == AllocFields(config, [mem |-> mem, ptr |-> ptr], InitOrder(config))
       IN  mem' = s.mem /\ ptr' = s.ptr
    /\ mutex' = config.thread_safe
    /\ tx_pool' = xgl_tiered_pool_init(PoolCounts(config.tx_pool_size))
    /\ packet_pool' = xgl_packet_pool_init(PacketCount(config.tx_pool_size))
    /\ codecs' = FoldLeft(xgl_codec_register, <<>>, config.codecs)
    /\ handle' = "ready"
    /\ outcome' = "ok"

\* The mutex, the first thing made, is destroyed last.
InitFails(f) ==
    /\ LET s == InitFailingAt(config, [mem |-> mem, ptr |-> ptr], f)
       IN  mem' = s.mem /\ ptr' = s.ptr
    /\ UNCHANGED <<handle, mutex, tx_pool, packet_pool, codecs>>

\* xgl_init on an instance that is ready changes nothing.
xgl_init ==
    /\ handle = "created"
    /\ calls.init < MaxInits
    /\ \/ InitSucceeds
       \/ \E f \in MayFailAt(config) :
            /\ InitFails(f)
            /\ outcome' = IF Rejects(config, f) THEN "rejected" ELSE "refused"
       \/ /\ config.thread_safe           \* xgl_mutex_init fails
          /\ outcome' = "refused"
          /\ UNCHANGED <<handle, mutex, mem, ptr, tx_pool, packet_pool, codecs>>
    /\ Counted("init")
    /\ UNCHANGED <<config, data, held, packets, orphans>>

\* xgl_destroy reaches the fields in this order: transport layer, receive
\* buffer, polling times, route table, packet pool, TX pool.
DestroyOrder == <<"fragment_mgr", "ack_received", "rx_cache",
                  "route_last_read_ms">> \o EntryFields
                \o <<"buckets", "routes", "packets">> \o TxFields

\* Addresses of the data of the packets the application has.
DataOf(some) == {packet_pool.data[p] : p \in some} \ {NULL}
DataBlocks(some) == DataOf(some) \union {data[d].owned_data : d \in DataOf(some)}

\* Data of packets that were not returned is not released.
xgl_destroy ==
    /\ handle # "none"
    /\ mem' = FreeFields(config, [mem |-> mem, ptr |-> ptr],
                         Append(DestroyOrder, "instance")).mem
    /\ ptr' = NoPointers
    /\ orphans' = orphans \union DataBlocks(packets)
    /\ handle' = "none"
    /\ config' = NoConfig
    /\ mutex' = FALSE
    /\ tx_pool' = [t \in Tier |-> NoPool]
    /\ packet_pool' = NoPackets
    /\ data' = <<>> /\ codecs' = <<>>
    /\ held' = {} /\ packets' = {}
    /\ UNCHANGED <<outcome, calls>>

-----------------------------------------------------------------------------
(***************************************************************************)
(* Use of the pools and of the tracking allocator                          *)
(***************************************************************************)
InUse == handle = "ready" /\ calls.use < MaxUses /\ Counted("use")
lifeVars == <<handle, config, ptr, mutex, codecs, orphans, outcome>>

TxAlloc(size) ==
    /\ InUse
    /\ tx_pool' = xgl_tiered_pool_alloc(tx_pool, size)
    /\ held' = IF TieredPointer(tx_pool, size) = NoPointer THEN held
               ELSE held \union {[pointer |-> TieredPointer(tx_pool, size), size |-> size]}
    /\ UNCHANGED <<lifeVars, mem, packet_pool, data, packets>>

\* The application frees a block it has, one it freed before, or a pointer of
\* another pool.
TxFree(pointer) ==
    /\ InUse
    /\ tx_pool' = xgl_tiered_pool_free(tx_pool, pointer)
    /\ held' = {h \in held : h.pointer # pointer}
    /\ UNCHANGED <<lifeVars, mem, packet_pool, data, packets>>

PacketAlloc ==
    /\ InUse
    /\ packet_pool.free_list # <<>>
    /\ packet_pool' = xgl_packet_alloc(packet_pool)
    /\ packets' = packets \union {Head(packet_pool.free_list)}
    /\ UNCHANGED <<lifeVars, mem, tx_pool, data, held>>

\* xgl_packet_data_create for a packet that has no data: the structure, then
\* the buffer; if that is refused the structure goes back.
PacketDataCreate(p, granted) ==
    /\ InUse
    /\ packet_pool.data[p] = NULL
    /\ Serves(config.allocator)
    /\ LET d == FreshAddress(mem.blocks)
           one == xgl_alloc(mem, config.allocator, Sizeof["instance"])
           two == xgl_alloc(one, config.allocator, 1)
       IN  IF granted
           THEN /\ mem' = two
                /\ data' = With(data, d, [ref_count |-> 1,
                                          owned_data |-> FreshAddress(one.blocks)])
                /\ packet_pool' = [packet_pool EXCEPT !.data[p] = d]
           ELSE /\ mem' = xgl_free(one, config.allocator, d)
                /\ UNCHANGED <<data, packet_pool>>
    /\ UNCHANGED <<lifeVars, tx_pool, held, packets>>

\* xgl_packet_data_ref: packet q gets the data of packet p.
PacketDataRef(p, q) ==
    /\ InUse
    /\ packet_pool.data[p] # NULL /\ packet_pool.data[q] = NULL
    /\ data' = [data EXCEPT ![packet_pool.data[p]].ref_count = @ + 1]
    /\ packet_pool' = [packet_pool EXCEPT !.data[q] = packet_pool.data[p]]
    /\ UNCHANGED <<lifeVars, mem, tx_pool, held, packets>>

\* Mutant of LastReference: the data goes with the first packet freed.
AnyReference(d) == data[d].ref_count >= 1

\* xgl_packet_data_unref takes the count to 0.
LastReference(d) == data[d].ref_count <= 1

\* xgl_packet_free has no guard against a packet that is free already; its
\* callers free what they hold.
PacketFree(p) ==
    /\ InUse
    /\ packet_pool' = xgl_packet_free(packet_pool, p)
    /\ packets' = packets \ {p}
    /\ LET d == packet_pool.data[p]
       IN  IF d = NULL THEN UNCHANGED <<mem, data>>
           ELSE IF LastReference(d)
           THEN /\ mem' = xgl_free(xgl_free(mem, config.allocator, data[d].owned_data),
                                   config.allocator, d)
                /\ data' = Without(data, d)
           ELSE /\ data' = [data EXCEPT ![d].ref_count = @ - 1]
                /\ UNCHANGED mem
    /\ UNCHANGED <<lifeVars, tx_pool, held>>

SetPhase(phase) ==
    /\ InUse
    /\ mem' = [mem EXCEPT !.tracker = xgl_tracking_allocator_set_phase(@, phase)]
    /\ UNCHANGED <<lifeVars, tx_pool, packet_pool, data, held, packets>>

\* The statistics of the tracking allocator and of the pools start again.
ResetAllStats ==
    /\ InUse
    /\ mem' = [mem EXCEPT !.tracker = xgl_tracking_allocator_reset_stats(@)]
    /\ tx_pool' = xgl_tiered_pool_reset_stats(tx_pool)
    /\ packet_pool' = xgl_packet_pool_reset_stats(packet_pool)
    /\ UNCHANGED <<lifeVars, data, held, packets>>

AllPointers ==
    {NoPointer} \union {[tier |-> t, block |-> b] : t \in Tier, b \in 1..tx_pool["small"].block_count}

Next ==
    \/ \E c \in Configs : xgl_create(c)
    \/ xgl_init
    \/ xgl_destroy
    \/ \E size \in Requests : TxAlloc(size)
    \/ \E pointer \in AllPointers : TxFree(pointer)
    \/ PacketAlloc
    \/ \E p \in packets, granted \in BOOLEAN : PacketDataCreate(p, granted)
    \/ \E p, q \in packets : PacketDataRef(p, q)
    \/ \E p \in packets : PacketFree(p)
    \/ \E phase \in Phases : SetPhase(phase)
    \/ ResetAllStats

Spec == Init /\ [][Next]_vars

-----------------------------------------------------------------------------
(***************************************************************************)
(* Properties                                                              *)
(***************************************************************************)
Address == DOMAIN mem.blocks

\* Every variable has its type; a registry has no codec twice.
TypeOK ==
    /\ handle \in {"none", "created", "ready"}
    /\ ptr \in [Field -> Nat]
    /\ mutex \in BOOLEAN /\ mem.damaged \in BOOLEAN
    /\ DOMAIN data \subseteq Address
    /\ \A d \in DOMAIN data : data[d].ref_count \in Nat \ {0} /\ data[d].owned_data \in Address
    /\ packets \subseteq 1..packet_pool.total_count
    /\ Len(codecs) <= 4 /\ IsInjective(codecs)
    /\ orphans \subseteq Address
    /\ outcome \in {"ok", "refused", "rejected"}

\* The count of shared packet data is the number of packets that have it.
CountsExact ==
    \A d \in DOMAIN data :
        data[d].ref_count = Cardinality({p \in packets : packet_pool.data[p] = d})

\* Every live block has one owner: a field of the instance, the data packets
\* share, or a packet that was never given back.  So whatever allocation of
\* xgl_init is refused, however often it is tried again, whenever the instance is
\* destroyed and in whatever order packets that share data are freed, nothing
\* leaks, no two owners share a block, and nothing is freed twice, early or
\* through another allocator.
EveryBlockOwned ==
    LET owned == {ptr[f] : f \in Field} \ {NULL}
        shared == DOMAIN data \union {data[d].owned_data : d \in DOMAIN data}
    IN  /\ ~mem.damaged
        /\ Address = owned \union shared \union orphans
        /\ Cardinality(Address) = Cardinality({f \in Field : ptr[f] # NULL})
                                  + 2 * Cardinality(DOMAIN data) + Cardinality(orphans)
        /\ DataOf(packets) = DOMAIN data
        /\ CountsExact

\* xgl_init does all or nothing.  After a failure the instance is as xgl_create
\* left it, so a second try is possible; when it is ready it has every field and
\* its mutex; and what xgl_create's validation accepts no layer's initialiser
\* rejects, so that xgl_init fails for want of memory or of a mutex only.
InitAllOrNothing ==
    /\ outcome # "rejected"
    /\ handle # "ready" =>
           /\ \A f \in Field \ {"instance"} : ptr[f] = NULL
           /\ ~mutex /\ tx_pool = [t \in Tier |-> NoPool]
    /\ handle = "ready" =>
           /\ mutex = config.thread_safe
           /\ \A f \in ToSet(InitOrder(config)) : ptr[f] # NULL

TrackedBytes(phases) ==
    LET tracked == {a \in Address : /\ mem.blocks[a].allocator = "tracking"
                                    /\ mem.blocks[a].phase \in phases}
    IN  FoldFunction(+, 0, [a \in tracked |-> mem.blocks[a].size])

\* What the tracking allocator reports, in all and for every phase, is what
\* is allocated, whatever phase is current when a block is released and also
\* after its statistics were reset; the peak is never below it.
AccountingExact ==
    LET tracker == mem.tracker IN
    /\ tracker.stats.current_allocated = TrackedBytes(Phase)
    /\ tracker.stats.peak_allocated >= tracker.stats.current_allocated
    /\ \A p \in Phase :
           tracker.phase_stats[p].current_allocated = TrackedBytes({p})
    /\ tracker.stats.total_allocated - tracker.stats.total_freed = TrackedBytes(Phase)

\* The TX pool gives a block that holds what was asked for, and refuses only
\* when every block large enough is taken.
ServesWhatFits ==
    /\ \A h \in held : h.size <= TierSize[h.pointer.tier]
    /\ \A size \in Requests \ {0} :
          TieredPointer(tx_pool, size) = NoPointer =>
              \A t \in Tier : size <= TierSize[t] => tx_pool[t].free_list = <<>>
    /\ FreeMemory(tx_pool) + UsedMemory(tx_pool)
           = FoldFunction(+, 0, [t \in Tier |-> tx_pool[t].block_count * TierSize[t]])

\* Every block of the TX pool is either on the free list of its tier, once, or
\* in the application's hands, whatever block was freed twice or wrongly; so is
\* every packet of the packet pool, as long as packets are freed by those who
\* hold them; the counters agree with that, and a request is refused only when
\* no block that would hold it is left.
PoolPartition ==
    handle = "ready" =>
        /\ \A t \in Tier :
            LET free == ToSet(tx_pool[t].free_list)
                used == {h.pointer.block : h \in {g \in held : g.pointer.tier = t}}
            IN  /\ free \intersect used = {}
                /\ free \union used = 1..tx_pool[t].block_count
                /\ Len(tx_pool[t].free_list) = tx_pool[t].free_count
                /\ Cardinality(free) = tx_pool[t].free_count
        /\ \A g, h \in held : g.pointer = h.pointer => g = h
        /\ ToSet(packet_pool.free_list) = (1..packet_pool.total_count) \ packets
        /\ Len(packet_pool.free_list) = packet_pool.free_count
        /\ ServesWhatFits
=============================================================================
