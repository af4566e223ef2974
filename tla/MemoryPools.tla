----------------------------- MODULE MemoryPools -----------------------------
(***************************************************************************)
(* The memory services of XGL as values and what their functions make of   *)
(* them: the tracking allocator over a heap, the fixed-block pool, the     *)
(* three-tier TX pool and the packet pool with its reference-counted data. *)
(* Instance is the state machine that uses them.                           *)
(*                                                                         *)
(* A heap block is an address; an address freed is given out again, so a   *)
(* pointer kept too long points at someone else's block.  Contents are     *)
(* left out, except the header the tracking allocator puts before a block. *)
(***************************************************************************)
EXTENDS Integers, Sequences, FiniteSets, SequencesExt

CONSTANT Fallback   \* XGL_ALLOW_FALLBACK_MALLOC

ASSUME FallbackAssumption == Fallback \in BOOLEAN

NULL == 0
Phase == {"INIT", "RUNTIME_TX", "RUNTIME_RX", "RELIABLE", "FRAGMENT"}

\* The allocators a call can name; "none" is the NULL pointer, which stands
\* for the default allocator where the build has one.
Allocator == {"none", "tracking"}

-----------------------------------------------------------------------------
(***************************************************************************)
(* Allocators.  mem.blocks maps a live address to its block; mem.damaged   *)
(* records that a pointer was freed that no live block of that allocator   *)
(* has, which in the code is a read or a release of freed memory.          *)
(***************************************************************************)
NoStats == [total_allocated |-> 0, total_freed |-> 0, current_allocated |-> 0,
            peak_allocated |-> 0, alloc_count |-> 0, free_count |-> 0]

\* xgl_tracking_allocator_init
NewTracker == [current_phase |-> "INIT", stats |-> NoStats,
               phase_stats |-> [p \in Phase |-> NoStats]]

NewMemory == [blocks |-> <<>>, tracker |-> NewTracker, damaged |-> FALSE]

Larger(a, b) == IF a >= b THEN a ELSE b

update_alloc_stats(s, size) ==
    [s EXCEPT !.total_allocated = @ + size,
              !.current_allocated = @ + size,
              !.peak_allocated = Larger(@, s.current_allocated + size),
              !.alloc_count = @ + 1]

update_free_stats(s, size) ==
    [s EXCEPT !.total_freed = @ + size,
              !.current_allocated = Larger(0, @ - size),
              !.free_count = @ + 1]

\* Both the totals and the numbers of one phase change.
tracking_malloc_impl(tracker, size) ==
    [tracker EXCEPT !.stats = update_alloc_stats(@, size),
                    !.phase_stats[tracker.current_phase] = update_alloc_stats(@, size)]

\* Mutant of tracking_free_impl: the phase of the release is charged.
FreeChargesCurrentPhase(tracker, block) ==
    [tracker EXCEPT
        !.stats = update_free_stats(@, block.size),
        !.phase_stats[tracker.current_phase] = update_free_stats(@, block.size)]

\* The header keeps size and phase: the phase of the allocation is credited.
tracking_free_impl(tracker, block) ==
    [tracker EXCEPT !.stats = update_free_stats(@, block.size),
                    !.phase_stats[block.phase] = update_free_stats(@, block.size)]

ResetStats(s) ==
    [NoStats EXCEPT !.total_allocated = s.current_allocated,
                    !.current_allocated = s.current_allocated,
                    !.peak_allocated = s.current_allocated]

xgl_tracking_allocator_reset_stats(tracker) ==
    [tracker EXCEPT !.stats = ResetStats(@),
                    !.phase_stats = [p \in Phase |-> ResetStats(@[p])]]

xgl_tracking_allocator_set_phase(tracker, phase) ==
    [tracker EXCEPT !.current_phase = phase]

\* xgl_alloc gets past its own checks; the memory may still be refused.
Serves(allocator) == allocator # "none" \/ Fallback

\* malloc: any free address will do, the lowest stands for it.
FreshAddress(blocks) ==
    CHOOSE a \in 1..(Cardinality(DOMAIN blocks) + 1) :
        /\ a \notin DOMAIN blocks
        /\ \A b \in 1..(a - 1) : b \in DOMAIN blocks

Without(f, x) == [a \in DOMAIN f \ {x} |-> f[a]]
With(f, x, y) == [a \in DOMAIN f \union {x} |-> IF a = x THEN y ELSE f[a]]

\* A successful xgl_alloc; the address is FreshAddress(mem.blocks).
xgl_alloc(mem, allocator, size) ==
    [mem EXCEPT
        !.blocks = With(@, FreshAddress(mem.blocks),
                        [size |-> size, allocator |-> allocator,
                         phase |-> mem.tracker.current_phase]),
        !.tracker = IF allocator = "tracking"
                    THEN tracking_malloc_impl(@, size) ELSE @]

xgl_free(mem, allocator, address) ==
    IF address = NULL \/ ~Serves(allocator)
    THEN mem
    ELSE IF /\ address \in DOMAIN mem.blocks
            /\ mem.blocks[address].allocator = allocator
    THEN [mem EXCEPT
            !.blocks = Without(@, address),
            !.tracker = IF allocator = "tracking"
                        THEN tracking_free_impl(@, mem.blocks[address]) ELSE @]
    ELSE [mem EXCEPT !.damaged = TRUE]

-----------------------------------------------------------------------------
(***************************************************************************)
(* Fixed-block pool: blocks 1..block_count of one buffer, the free ones on *)
(* a list whose head is taken first                                        *)
(***************************************************************************)
NoPool == [block_count |-> 0, free_list |-> <<>>, free_count |-> 0,
           peak_used |-> 0]

xgl_mempool_init(count) ==
    [block_count |-> count, free_count |-> count, peak_used |-> 0,
     free_list |-> [i \in 1..count |-> count + 1 - i]]

\* The pool after a block of it was taken; the block is Head(free_list).
xgl_mempool_alloc(pool) ==
    [pool EXCEPT
        !.free_list = Tail(@), !.free_count = @ - 1,
        !.peak_used = Larger(@, pool.block_count - pool.free_count + 1)]

mempool_contains_block(pool, block) == block \in 1..pool.block_count
mempool_free_list_contains(pool, block) == block \in ToSet(pool.free_list)

\* Mutant of xgl_mempool_free: a block freed twice enters the list twice.
FreeUnchecked(pool, block) ==
    IF mempool_contains_block(pool, block)
    THEN [pool EXCEPT !.free_list = <<block>> \o @, !.free_count = @ + 1]
    ELSE pool

xgl_mempool_free(pool, block) ==
    IF \/ ~mempool_contains_block(pool, block)
       \/ pool.free_count >= pool.block_count
       \/ mempool_free_list_contains(pool, block)
    THEN pool
    ELSE [pool EXCEPT !.free_list = <<block>> \o @, !.free_count = @ + 1]

xgl_mempool_reset_stats(pool) ==
    [pool EXCEPT !.peak_used = pool.block_count - pool.free_count]

-----------------------------------------------------------------------------
(***************************************************************************)
(* Three-tier pool.  A pointer is a tier and a block of it; the tier       *)
(* "foreign" stands for addresses outside the three buffers.               *)
(***************************************************************************)
Tier == {"small", "medium", "large"}
TierOrder == <<"small", "medium", "large">>
TierSize == [small |-> 64, medium |-> 256, large |-> 1024]
NoPointer == [tier |-> "foreign", block |-> 0]

\* xgl_init: about 40, 40 and 20 percent of the TX pool, one block at least.
PoolCounts(tx_pool_size) ==
    [t \in Tier |-> Larger(1, ((tx_pool_size \div TierSize[t])
                              * (IF t = "large" THEN 2 ELSE 4)) \div 10)]

xgl_tiered_pool_init(counts) == [t \in Tier |-> xgl_mempool_init(counts[t])]

\* The attempt to take a block of this size from tier t succeeds.
Takes(pools, size, t) ==
    /\ size <= TierSize[t]
    /\ pools[t].block_count > 0
    /\ pools[t].free_list # <<>>

\* xgl_tiered_pool_alloc: the pointer it returns ...
TieredPointer(pools, size) ==
    LET i == SelectInSeq(TierOrder, LAMBDA t : Takes(pools, size, t))
    IN  IF size = 0 \/ i = 0
        THEN NoPointer
        ELSE [tier |-> TierOrder[i], block |-> Head(pools[TierOrder[i]].free_list)]

\* ... and the pools it leaves.
xgl_tiered_pool_alloc(pools, size) ==
    LET p == TieredPointer(pools, size)
    IN  IF p = NoPointer THEN pools ELSE [pools EXCEPT ![p.tier] = xgl_mempool_alloc(@)]

\* The tier is found by the address, not by the size the caller passes.
xgl_tiered_pool_free(pools, pointer) ==
    IF pointer.tier \in Tier
    THEN [pools EXCEPT ![pointer.tier] = xgl_mempool_free(@, pointer.block)]
    ELSE pools

xgl_tiered_pool_reset_stats(pools) ==
    [t \in Tier |-> xgl_mempool_reset_stats(pools[t])]

\* xgl_tiered_pool_get_free_memory and _get_used_memory
FreeMemory(pools) ==
    FoldFunction(+, 0, [t \in Tier |-> pools[t].free_count * TierSize[t]])
UsedMemory(pools) ==
    FoldFunction(+, 0, [t \in Tier |-> (pools[t].block_count - pools[t].free_count)
                                       * TierSize[t]])

-----------------------------------------------------------------------------
(***************************************************************************)
(* Packet pool: a list of free packets, first in first out; a packet of    *)
(* the pool holds the address of its shared data, or NULL                  *)
(***************************************************************************)
xgl_list_insert_tail(list, node) == Append(list, node)
xgl_list_remove_head(list) == Tail(list)

NoPackets == [total_count |-> 0, free_count |-> 0, peak_used |-> 0,
              free_list |-> <<>>, data |-> <<>>]

\* xgl_init: one packet for 256 bytes of TX pool, between 4 and 64.
PacketCount(tx_pool_size) ==
    LET n == tx_pool_size \div 256
    IN  IF n < 4 THEN 4 ELSE IF n > 64 THEN 64 ELSE n

xgl_packet_pool_init(count) ==
    [total_count |-> count, free_count |-> count, peak_used |-> 0,
     free_list |-> [i \in 1..count |-> i], data |-> [i \in 1..count |-> NULL]]

xgl_packet_alloc(pool) ==
    [pool EXCEPT
        !.free_list = xgl_list_remove_head(@), !.free_count = @ - 1,
        !.peak_used = Larger(@, pool.total_count - pool.free_count + 1)]

\* The pool's part of xgl_packet_free; the data loses one reference.
xgl_packet_free(pool, packet) ==
    [pool EXCEPT !.free_list = xgl_list_insert_tail(@, packet),
                 !.free_count = @ + 1, !.data[packet] = NULL]

xgl_packet_pool_reset_stats(pool) ==
    [pool EXCEPT !.peak_used = pool.total_count - pool.free_count]
=============================================================================
