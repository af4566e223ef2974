--------------------------- MODULE InstanceProofs ---------------------------
(***************************************************************************)
(* The life of an instance and its memory, proved for all configurations,  *)
(* pool sizes, requests and numbers of calls: no block leaks or is freed   *)
(* twice, the books of the tracking allocator are exact, xgl_init does all *)
(* or nothing, and the pools are partitioned into free and used blocks.    *)
(***************************************************************************)
EXTENDS Instance, CommonLemmas, SequenceTheorems, TLAPS

-----------------------------------------------------------------------------
(***************************************************************************)
(* Folds over sequences: the states between their steps                    *)
(***************************************************************************)
\* One step of the three loops of xgl_init and xgl_destroy.
StepOf(kind, c, t, x) ==
    IF kind = "alloc" THEN AllocField(c, t, x)
    ELSE IF kind = "free" THEN FreeField(c, t, x)
    ELSE xgl_codec_register(t, x)

RunStep(g, kind, c, base, seq, s) ==
    IF s = {} THEN base ELSE StepOf(kind, c, g[s \ {Max(s)}], seq[Max(s)])
IsRun(g, kind, c, base, seq) ==
    g = [s \in SUBSET DOMAIN seq |-> RunStep(g, kind, c, base, seq, s)]

\* The largest of a finite set of numbers, as Max gives it.
LEMMA LargestIs ==
    ASSUME NEW s \in SUBSET Int, IsFiniteSet(s), s # {}
    PROVE  Max(s) \in s /\ \A x \in s : Max(s) >= x
<1>1. \E x \in s : \A y \in s : x >= y
  BY LargestExists
<1> QED
  BY <1>1 DEF Max

\* The positions of a sequence.
LEMMA Positions ==
    ASSUME NEW S, NEW seq \in Seq(S)
    PROVE  /\ Len(seq) \in Nat /\ DOMAIN seq = 1..Len(seq)
           /\ IsFiniteSet(DOMAIN seq) /\ DOMAIN seq \in SUBSET Int
<1>1. Len(seq) \in Nat /\ DOMAIN seq = 1..Len(seq)
  OBVIOUS
<1>2. IsFiniteSet(1..Len(seq))
  BY <1>1, UpTo
<1> QED
  BY <1>1, <1>2

\* There is a function that runs a loop over every subset of the positions, so
\* the recursive definition inside FoldLeft denotes one.
LEMMA RunExists ==
    ASSUME NEW kind, NEW c, NEW base, NEW S, NEW seq \in Seq(S)
    PROVE  \E g : IsRun(g, kind, c, base, seq)
<1>0. PICK D : D = DOMAIN seq
  OBVIOUS
<1> DEFINE Step(g, s) == RunStep(g, kind, c, base, seq, s)
           Upto(g, T) == \A s \in SUBSET D :
                            Cardinality(s) <= Cardinality(T) => g[s] = Step(g, s)
           Good == {T \in SUBSET D :
                      \E g : g = [s \in SUBSET D |-> g[s]] /\ Upto(g, T)}
<1>1. IsFiniteSet(D) /\ D \in SUBSET Int
  BY <1>0, Positions
<1>2. \A s \in SUBSET D : IsFiniteSet(s) /\ Cardinality(s) \in Nat /\ s \in SUBSET Int
  BY <1>1, FS_Subset, FS_CardinalityType
<1>3. ASSUME NEW g, NEW h, NEW s \in SUBSET D, s # {} => g[s \ {Max(s)}] = h[s \ {Max(s)}]
      PROVE  Step(g, s) = Step(h, s)
  BY <1>3 DEF RunStep
<1>4. \A g, h : Step(g, {}) = Step(h, {})
  BY DEF RunStep
<1> HIDE DEF Step
<1>5. ASSUME NEW T \in SUBSET D, \A x \in T : T \ {x} \in Good
      PROVE  T \in Good
  <2>1. CASE T = {}
    <3> DEFINE g == [s \in SUBSET D |-> Step(<<>>, {})]
    <3>1. ASSUME NEW s \in SUBSET D, Cardinality(s) <= Cardinality(T)
          PROVE  g[s] = Step(g, s)
      <4>1. s = {}
        BY <1>2, <2>1, <3>1, FS_EmptySet
      <4> QED
        BY <1>4, <4>1
    <3>2. g = [s \in SUBSET D |-> g[s]]
      OBVIOUS
    <3> HIDE DEF g
    <3> QED
      BY <3>1, <3>2
  <2>2. CASE T # {}
    <3>1. PICK x \in T : TRUE
      BY <2>2
    <3>2. PICK g : g = [s \in SUBSET D |-> g[s]] /\ Upto(g, T \ {x})
      BY <1>5, <3>1
    <3>3. Cardinality(T \ {x}) = Cardinality(T) - 1
      BY <1>2, <3>1, FS_RemoveElement
    <3> DEFINE h == [s \in SUBSET D |-> Step(g, s)]
    <3>4. ASSUME NEW s \in SUBSET D, Cardinality(s) <= Cardinality(T)
          PROVE  h[s] = Step(h, s)
      <4>1. CASE s = {}
        BY <1>4, <4>1
      <4>2. CASE s # {}
        <5>0. PICK t : t = s \ {Max(s)}
          OBVIOUS
        <5>1. Max(s) \in s /\ t \in SUBSET D
          BY <1>2, <4>2, <5>0, LargestIs
        <5>2. Cardinality(t) = Cardinality(s) - 1
          <6>1. IsFiniteSet(s)
            BY <1>2
          <6> QED
            BY <5>0, <5>1, <6>1, FS_RemoveElement
        <5>3. Cardinality(t) <= Cardinality(T \ {x})
          BY <1>2, <3>3, <3>4, <5>2
        <5>4. g[t] = Step(g, t) /\ h[t] = Step(g, t)
          BY <3>2, <5>1, <5>3
        <5>5. Step(g, s) = Step(h, s)
          BY <1>3, <5>0, <5>4
        <5>6. h[s] = Step(g, s)
          OBVIOUS
        <5> QED
          BY <5>5, <5>6
      <4> QED
        BY <4>1, <4>2
    <3>5. h = [s \in SUBSET D |-> h[s]]
      OBVIOUS
    <3> HIDE DEF h
    <3> QED
      BY <3>4, <3>5
  <2> QED
    BY <2>1, <2>2
<1>6. D \in Good
  <2> HIDE DEF Good
  <2> QED
    BY <1>1, <1>5, SubsetInduction
<1>7. PICK g : g = [s \in SUBSET D |-> g[s]] /\ Upto(g, D)
  BY <1>6
<1>8. \A s \in SUBSET D : Cardinality(s) <= Cardinality(D)
  BY <1>1, FS_Subset
<1>9. \A s \in SUBSET D : g[s] = Step(g, s)
  BY <1>7, <1>8
<1> QED
  BY <1>0, <1>7, <1>9 DEF IsRun, Step

\* What such a function gives for the first i positions is the state after i
\* steps.
LEMMA RunSteps ==
    ASSUME NEW kind, NEW c, NEW base, NEW S, NEW seq \in Seq(S), NEW g,
           IsRun(g, kind, c, base, seq)
    PROVE  \E after : /\ after[0] = base
                      /\ \A i \in 1..Len(seq) :
                            after[i] = StepOf(kind, c, after[i - 1], seq[i])
                      /\ g[DOMAIN seq] = after[Len(seq)]
<1>0. PICK n : n = Len(seq)
  OBVIOUS
<1>1. n \in Nat /\ DOMAIN seq = 1..n
  BY <1>0, Positions
<1> DEFINE after == [i \in 0..n |-> g[1..i]]
<1>2. after[0] = base
  <2>1. 1..0 = {}
    OBVIOUS
  <2>2. g[{}] = base
    BY DEF IsRun, RunStep
  <2> QED
    BY <1>1, <2>1, <2>2
<1>3. ASSUME NEW i \in 1..n
      PROVE  after[i] = StepOf(kind, c, after[i - 1], seq[i])
  <2>0. PICK s : s = 1..i
    OBVIOUS
  <2>1. s \in SUBSET DOMAIN seq /\ s # {} /\ s \in SUBSET Int /\ i \in s
    <3>1. i \in Int /\ 1 <= i /\ i <= n
      BY <1>1
    <3>2. \A x \in 1..i : x \in 1..n /\ x \in Int
      BY <1>1, <3>1
    <3>3. i \in 1..i
      BY <3>1
    <3> QED
      BY <1>1, <2>0, <3>2, <3>3
  <2>2. IsFiniteSet(s)
    BY <2>1, FS_Subset, Positions
  <2>3. Max(s) = i
    BY <2>0, <2>1, <2>2, LargestIs
  <2>4. s \ {i} = 1..(i - 1)
    BY <1>1, <2>0
  <2>5. g[s] = StepOf(kind, c, g[s \ {i}], seq[i])
    BY <2>1, <2>3 DEF IsRun, RunStep
  <2>6. i \in 0..n /\ i - 1 \in 0..n
    BY <1>1
  <2>7. after[i] = g[1..i] /\ after[i - 1] = g[1..(i - 1)]
    BY <2>6
  <2> QED
    BY <2>0, <2>4, <2>5, <2>7
<1>4. after[n] = g[DOMAIN seq]
  BY <1>1
<1> HIDE DEF after
<1> QED
  BY <1>0, <1>2, <1>3, <1>4

IsAlloc(g, c, base, seq) ==
    g = [s \in SUBSET DOMAIN seq |->
            IF s = {} THEN base ELSE AllocField(c, g[s \ {Max(s)}], seq[Max(s)])]
IsFree(g, c, base, seq) ==
    g = [s \in SUBSET DOMAIN seq |->
            IF s = {} THEN base ELSE FreeField(c, g[s \ {Max(s)}], seq[Max(s)])]
IsRegister(g, base, seq) ==
    g = [s \in SUBSET DOMAIN seq |->
            IF s = {} THEN base ELSE xgl_codec_register(g[s \ {Max(s)}], seq[Max(s)])]

\* The states of a sequence of allocations.
LEMMA AllocSteps ==
    ASSUME NEW c, NEW s, NEW fields \in Seq(Field)
    PROVE  \E after : /\ after[0] = s
                      /\ \A i \in 1..Len(fields) :
                            after[i] = AllocField(c, after[i - 1], fields[i])
                      /\ AllocFields(c, s, fields) = after[Len(fields)]
<1>1. \A g : IsAlloc(g, c, s, fields) <=> IsRun(g, "alloc", c, s, fields)
  BY DEF IsAlloc, IsRun, RunStep, StepOf
<1> DEFINE I == CHOOSE g : IsAlloc(g, c, s, fields)
<1>2. IsAlloc(I, c, s, fields)
  BY <1>1, RunExists
<1>3. AllocFields(c, s, fields) = I[DOMAIN fields]
  BY DEF AllocFields, FoldLeft, MapThenFoldSet, IsAlloc
<1> HIDE DEF I
<1>4. IsRun(I, "alloc", c, s, fields)
  BY <1>1, <1>2
<1>5. \A t, x : StepOf("alloc", c, t, x) = AllocField(c, t, x)
  BY DEF StepOf
<1> QED
  BY <1>3, <1>4, <1>5, RunSteps

\* The states of a sequence of releases.
LEMMA FreeSteps ==
    ASSUME NEW c, NEW s, NEW fields \in Seq(Field)
    PROVE  \E after : /\ after[0] = s
                      /\ \A i \in 1..Len(fields) :
                            after[i] = FreeField(c, after[i - 1], fields[i])
                      /\ FreeFields(c, s, fields) = after[Len(fields)]
<1>1. \A g : IsFree(g, c, s, fields) <=> IsRun(g, "free", c, s, fields)
  BY DEF IsFree, IsRun, RunStep, StepOf
<1> DEFINE I == CHOOSE g : IsFree(g, c, s, fields)
<1>2. IsFree(I, c, s, fields)
  BY <1>1, RunExists
<1>3. FreeFields(c, s, fields) = I[DOMAIN fields]
  BY DEF FreeFields, FoldLeft, MapThenFoldSet, IsFree
<1> HIDE DEF I
<1>4. IsRun(I, "free", c, s, fields)
  BY <1>1, <1>2
<1>5. \A t, x : StepOf("free", c, t, x) = FreeField(c, t, x)
  BY DEF StepOf
<1> QED
  BY <1>3, <1>4, <1>5, RunSteps

\* The registrations of a list of codecs.
LEMMA RegisterSteps ==
    ASSUME NEW seq \in Seq(Nat)
    PROVE  \E after : /\ after[0] = <<>>
                      /\ \A i \in 1..Len(seq) :
                            after[i] = xgl_codec_register(after[i - 1], seq[i])
                      /\ FoldLeft(xgl_codec_register, <<>>, seq) = after[Len(seq)]
<1>0. PICK none, kind, c : none = <<>> /\ kind = "register" /\ c = 0
  OBVIOUS
<1>1. \A g : IsRegister(g, none, seq) <=> IsRun(g, kind, c, none, seq)
  BY <1>0 DEF IsRegister, IsRun, RunStep, StepOf
<1> DEFINE I == CHOOSE g : IsRegister(g, none, seq)
<1>2. IsRegister(I, none, seq)
  BY <1>1, RunExists
<1>3. FoldLeft(xgl_codec_register, none, seq) = I[DOMAIN seq]
  BY <1>0 DEF FoldLeft, MapThenFoldSet, IsRegister
<1> HIDE DEF I
<1>4. IsRun(I, kind, c, none, seq)
  BY <1>1, <1>2
<1>5. \A t, x : StepOf(kind, c, t, x) = xgl_codec_register(t, x)
  BY <1>0 DEF StepOf
<1>6. PICK after : /\ after[0] = none
                   /\ \A i \in 1..Len(seq) :
                         after[i] = StepOf(kind, c, after[i - 1], seq[i])
                   /\ I[DOMAIN seq] = after[Len(seq)]
  BY <1>4, RunSteps
<1>7. \A i \in 1..Len(seq) : after[i] = xgl_codec_register(after[i - 1], seq[i])
  BY <1>5, <1>6
<1>8. FoldLeft(xgl_codec_register, none, seq) = after[Len(seq)]
  BY <1>3, <1>6
<1> QED
  BY <1>0, <1>6, <1>7, <1>8

-----------------------------------------------------------------------------
(***************************************************************************)
(* The inductive invariant                                                 *)
(***************************************************************************)
Stats == [total_allocated : Nat, total_freed : Nat, current_allocated : Nat,
          peak_allocated : Nat, alloc_count : Nat, free_count : Nat]
Tracker == [current_phase : Phase, stats : Stats, phase_stats : [Phase -> Stats]]
Block == [size : Nat, allocator : Allocator, phase : Phase]

Tracked(blocks, phases) ==
    {a \in DOMAIN blocks : /\ blocks[a].allocator = "tracking"
                           /\ blocks[a].phase \in phases}

\* TrackedBytes, for any heap.
SizeOf(blocks, phases) ==
    FoldFunction(+, 0, [a \in Tracked(blocks, phases) |-> blocks[a].size])

\* AccountingExact, for any heap.
BooksOK(m) ==
    /\ m.tracker.stats.current_allocated = SizeOf(m.blocks, Phase)
    /\ m.tracker.stats.peak_allocated >= m.tracker.stats.current_allocated
    /\ m.tracker.stats.total_allocated
           = m.tracker.stats.total_freed + SizeOf(m.blocks, Phase)
    /\ \A p \in Phase :
           m.tracker.phase_stats[p].current_allocated = SizeOf(m.blocks, {p})

\* A map of live blocks.
BlocksOK(blocks) ==
    /\ blocks = [a \in DOMAIN blocks |-> blocks[a]]
    /\ IsFiniteSet(DOMAIN blocks) /\ DOMAIN blocks \subseteq Nat \ {0}
    /\ \A a \in DOMAIN blocks : blocks[a] \in Block /\ Serves(blocks[a].allocator)

HeapOK(m) ==
    /\ m = [blocks |-> m.blocks, tracker |-> m.tracker, damaged |-> FALSE]
    /\ BlocksOK(m.blocks)
    /\ m.tracker \in Tracker
    /\ BooksOK(m)

\* Memory and pointers: every pointer is NULL or has a block of its own, from
\* the allocator its field uses.
PointersOK(c, s) ==
    /\ s = [mem |-> s.mem, ptr |-> s.ptr]
    /\ HeapOK(s.mem)
    /\ s.ptr \in [Field -> Nat]
    /\ \A f \in Field : s.ptr[f] # NULL =>
          /\ s.ptr[f] \in DOMAIN s.mem.blocks
          /\ s.mem.blocks[s.ptr[f]].allocator = AllocatorOf(c, f)
    /\ \A f, g \in Field : s.ptr[f] # NULL /\ s.ptr[f] = s.ptr[g] => f = g

\* The blocks no field points to.
Unowned(s) == DOMAIN s.mem.blocks \ {s.ptr[f] : f \in Field}

Now == [mem |-> mem, ptr |-> ptr]

\* A configuration the application may create an instance with.
Accepted(c) == c \in Configs /\ xgl_config_validate(c) /\ Serves(c.allocator)

\* The instance between its calls.
LifeOK ==
    /\ handle \in {"none", "created", "ready"}
    /\ handle = "none" => config = NoConfig /\ ptr = NoPointers
    /\ handle # "none" => Accepted(config)
    /\ handle # "ready" =>
          /\ \A f \in Field \ {"instance"} : ptr[f] = NULL
          /\ mutex = FALSE /\ tx_pool = [t \in Tier |-> NoPool]
          /\ packet_pool = NoPackets
    /\ handle = "ready" =>
          /\ mutex = config.thread_safe
          /\ \A f \in ToSet(InitOrder(config)) : ptr[f] # NULL
    /\ outcome \in {"ok", "refused"}

\* Lists of free blocks and packets name nothing twice.
FreeList(seq, free) ==
    seq \in Seq(Nat) /\ IsInjective(seq) /\ ToSet(seq) = free

Pool == [block_count : Nat, free_list : Seq(Nat), free_count : Nat, peak_used : Int]
Holding == [pointer : [tier : Tier, block : Nat], size : Nat]
Used(t) == {h.pointer.block : h \in {g \in held : g.pointer.tier = t}}

TxPoolOK ==
    /\ tx_pool \in [Tier -> Pool]
    /\ held \subseteq Holding
    /\ \A h \in held : /\ h.size <= TierSize[h.pointer.tier]
                       /\ h.pointer.block \in 1..tx_pool[h.pointer.tier].block_count
    /\ \A g, h \in held : g.pointer = h.pointer => g = h
    /\ \A t \in Tier :
          /\ FreeList(tx_pool[t].free_list, (1..tx_pool[t].block_count) \ Used(t))
          /\ Len(tx_pool[t].free_list) = tx_pool[t].free_count

\* The data of 1..n packets.
Slots == UNION {[1..n -> Nat] : n \in Nat}
PacketPool == [total_count : Nat, free_count : Nat, peak_used : Int,
               free_list : Seq(Nat), data : Slots]

\* A packet on the free list has no data.
PacketPoolOK ==
    /\ packet_pool \in PacketPool
    /\ packets \subseteq 1..packet_pool.total_count
    /\ FreeList(packet_pool.free_list, (1..packet_pool.total_count) \ packets)
    /\ Len(packet_pool.free_list) = packet_pool.free_count
    /\ packet_pool.data \in [1..packet_pool.total_count -> Nat]
    /\ \A p \in (1..packet_pool.total_count) \ packets : packet_pool.data[p] = NULL

Buffers == {data[d].owned_data : d \in DOMAIN data}
Users(d) == {p \in packets : packet_pool.data[p] = d}

\* What no field owns is the data of packets, or was when an instance went.
DataOK ==
    /\ data = [d \in DOMAIN data |-> data[d]]
    /\ \A d \in DOMAIN data : data[d] \in [ref_count : Nat \ {0}, owned_data : Nat]
    /\ Unowned(Now) = DOMAIN data \union Buffers \union orphans
    /\ DOMAIN data \intersect Buffers = {}
    /\ (DOMAIN data \union Buffers) \intersect orphans = {}
    /\ \A d, e \in DOMAIN data : data[d].owned_data = data[e].owned_data => d = e
    /\ \A a \in DOMAIN data \union Buffers : mem.blocks[a].allocator = config.allocator
    /\ \A d \in DOMAIN data : data[d].ref_count = Cardinality(Users(d))
    /\ DataOf(packets) = DOMAIN data

CodecsOK == codecs \in Seq(Nat) /\ Len(codecs) <= 4 /\ IsInjective(codecs)

InstanceInv ==
    /\ PointersOK(config, Now)
    /\ LifeOK
    /\ TxPoolOK
    /\ PacketPoolOK
    /\ DataOK
    /\ CodecsOK
-----------------------------------------------------------------------------
(***************************************************************************)
(* Fields and what they ask for                                            *)
(***************************************************************************)
\* The sets of the sequences of fields.
LEMMA FieldSets ==
    /\ ToSet(TxFields) = {"small_buffer", "medium_buffer", "large_buffer"}
    /\ ToSet(EntryFields) = {"entry_1", "entry_2"}
    /\ Field = {"small_buffer", "medium_buffer", "large_buffer", "entry_1", "entry_2",
                "instance", "packets", "buckets", "routes", "route_last_read_ms",
                "rx_cache", "ack_received", "fragment_mgr"}
<1>1. ToSet(TxFields) = {"small_buffer", "medium_buffer", "large_buffer"}
  BY DEF ToSet, TxFields
<1>2. ToSet(EntryFields) = {"entry_1", "entry_2"}
  BY DEF ToSet, EntryFields
<1> QED
  BY <1>1, <1>2 DEF Field

\* There are finitely many fields.
LEMMA FieldFinite == IsFiniteSet(Field)
<1>1. /\ IsFiniteSet({"small_buffer", "medium_buffer", "large_buffer"})
      /\ IsFiniteSet({"entry_1", "entry_2"})
      /\ IsFiniteSet({"instance", "packets", "buckets"})
      /\ IsFiniteSet({"routes", "route_last_read_ms", "rx_cache"})
      /\ IsFiniteSet({"ack_received", "fragment_mgr"})
  <2>1. ASSUME NEW a, NEW b
        PROVE  IsFiniteSet({a, b})
    <3>1. {a} \union {b} = {a, b}
      OBVIOUS
    <3>2. IsFiniteSet({a} \union {b})
      BY FS_Singleton, FS_Union
    <3> QED
      BY <3>1, <3>2
  <2>2. ASSUME NEW a, NEW b, NEW d
        PROVE  IsFiniteSet({a, b, d})
    <3>1. {a, b} \union {d} = {a, b, d}
      OBVIOUS
    <3>2. IsFiniteSet({a, b} \union {d})
      BY <2>1, FS_Singleton, FS_Union
    <3> QED
      BY <3>1, <3>2
  <2> QED
    BY <2>1, <2>2, Zenon
<1>2. Field = {"small_buffer", "medium_buffer", "large_buffer"}
              \union {"entry_1", "entry_2"}
              \union {"instance", "packets", "buckets"}
              \union {"routes", "route_last_read_ms", "rx_cache"}
              \union {"ack_received", "fragment_mgr"}
  BY FieldSets
<1>3. \A A, B, C, D, E :
         IsFiniteSet(A) /\ IsFiniteSet(B) /\ IsFiniteSet(C) /\ IsFiniteSet(D)
         /\ IsFiniteSet(E)
         => IsFiniteSet(A \union B \union C \union D \union E)
  BY FS_Union
<1> QED
  BY <1>1, <1>2, <1>3

\* The sizes of the TX tiers.
LEMMA TierSizes ==
    /\ TierSize["small"] = 64 /\ TierSize["medium"] = 256 /\ TierSize["large"] = 1024
    /\ \A t \in Tier : TierSize[t] \in Nat \ {0}
BY DEF TierSize, Tier

\* The tiers of the TX pool have blocks, as many as the TX pool has room for.
LEMMA CountsPositive ==
    ASSUME NEW n \in Nat
    PROVE  /\ PoolCounts(n) \in [Tier -> Nat \ {0}]
           /\ PacketCount(n) \in Nat
<1>1. ASSUME NEW t \in Tier
      PROVE  PoolCounts(n)[t] \in Nat \ {0}
  <2>1. PICK q : q = n \div TierSize[t]
    OBVIOUS
  <2>2. q \in Nat
    BY <2>1, TierSizes
  <2>3. \A k \in {2, 4} : (q * k) \div 10 \in Nat
    BY <2>2
  <2>4. \A x \in Nat : Larger(1, x) \in Nat \ {0}
    BY DEF Larger
  <2>5. PoolCounts(n)[t] = Larger(1, (q * (IF t = "large" THEN 2 ELSE 4)) \div 10)
    BY <2>1 DEF PoolCounts
  <2> QED
    BY <2>3, <2>4, <2>5
<1>2. PoolCounts(n) \in [Tier -> Nat \ {0}]
  <2>1. PoolCounts(n) = [t \in Tier |-> PoolCounts(n)[t]]
    BY DEF PoolCounts
  <2> HIDE DEF PoolCounts
  <2> QED
    BY <1>1, <2>1
<1>3. PacketCount(n) \in Nat
  BY DEF PacketCount
<1> QED
  BY <1>2, <1>3

\* The sizes an accepted configuration gives.
LEMMA AcceptedSizes ==
    ASSUME NEW c, Accepted(c)
    PROVE  /\ c.tx_pool_size \in Nat
           /\ c.rx_buffer_size \in Nat /\ c.rx_buffer_size >= 64
           /\ c.window_size \in 1..32
<1>1. /\ c.tx_pool_size \in TxPoolSizes /\ c.rx_buffer_size \in RxBufferSizes
      /\ c.window_size \in 1..32
  <2>1. xgl_config_validate(c)
    BY Zenon DEF Accepted
  <2>2. /\ c.tx_pool_size \in TxPoolSizes /\ c.rx_buffer_size \in RxBufferSizes
        /\ ValidProtocol(c)
    BY <2>1, Zenon DEF xgl_config_validate
  <2> QED
    BY <2>2, Zenon DEF ValidProtocol
<1>2. \A low, high \in Nat : low..high \subseteq Nat
  OBVIOUS
<1>3. TxPoolSizes \subseteq Nat
  <2>1. 512 \in Nat /\ 65536 \in Nat
    OBVIOUS
  <2>2. PICK low \in Nat, high \in Nat : low = 512 /\ high = 65536
    BY <2>1
  <2>3. TxPoolSizes = low..high
    BY <2>2, SMT DEF TxPoolSizes
  <2> QED
    BY <1>2, <2>3
<1>4. ASSUME NEW x, x \in RxBufferSizes
      PROVE  x \in Nat /\ x >= 64
  BY <1>4 DEF RxBufferSizes
<1> QED
  BY <1>1, <1>3, <1>4

\* Every field of an accepted configuration asks for a number of bytes, of an
\* allocator that is there.
LEMMA FieldAsks ==
    ASSUME NEW c, Accepted(c), NEW f \in Field
    PROVE  Bytes(c, f) \in Nat /\ AllocatorOf(c, f) \in Allocator
<1>0. /\ c.tx_pool_size \in Nat /\ c.rx_buffer_size \in Nat /\ c.window_size \in Nat
      /\ c.route_table_len \in Nat /\ c.allocator \in Allocator
  <2>1. c.route_table_len \in 0..2 /\ c.allocator \in Allocator
    BY InstanceAssumption, Zenon DEF Accepted
  <2> QED
    BY <2>1, AcceptedSizes
<1>1. Sizeof[f] \in Nat
  BY InstanceAssumption
<1>2. PICK s, m, l, p : /\ s = PoolCounts(c.tx_pool_size)["small"]
                        /\ m = PoolCounts(c.tx_pool_size)["medium"]
                        /\ l = PoolCounts(c.tx_pool_size)["large"]
                        /\ p = PacketCount(c.tx_pool_size)
  OBVIOUS
<1>3. s \in Nat /\ m \in Nat /\ l \in Nat /\ p \in Nat
  BY <1>0, <1>2, CountsPositive DEF Tier
<1>4. /\ s * 64 \in Nat /\ m * 256 \in Nat /\ l * 1024 \in Nat
      /\ p * Sizeof[f] \in Nat /\ c.window_size * Sizeof[f] \in Nat
      /\ c.route_table_len * Sizeof[f] \in Nat
  <2>1. \A x, y \in Nat : x * y \in Nat
    OBVIOUS
  <2> QED
    BY <1>0, <1>1, <1>3, <2>1
<1>5. Bytes(c, f) \in {s * 64, m * 256, l * 1024, p * Sizeof[f], c.rx_buffer_size,
                       c.window_size * Sizeof[f], c.route_table_len * Sizeof[f], Sizeof[f]}
  BY <1>2, TierSizes DEF Bytes
<1>6. AllocatorOf(c, f) \in Allocator
  BY <1>0 DEF AllocatorOf, Allocator
<1> QED
  BY <1>0, <1>1, <1>4, <1>5, <1>6

\* What validation accepts no layer's initialiser rejects.
LEMMA NeverRejected ==
    ASSUME NEW c, Accepted(c)
    PROVE  \A f : ~Rejects(c, f)
BY AcceptedSizes DEF Rejects, ParserRejects, WindowRejects

-----------------------------------------------------------------------------
(***************************************************************************)
(* The heap                                                                *)
(***************************************************************************)
\* There is always a free address, and malloc returns one.
LEMMA FreshIsFree ==
    ASSUME NEW blocks, IsFiniteSet(DOMAIN blocks), DOMAIN blocks \subseteq Nat \ {0}
    PROVE  FreshAddress(blocks) \in Nat \ {0} /\ FreshAddress(blocks) \notin DOMAIN blocks
<1>0. PICK D, n : D = DOMAIN blocks /\ n = Cardinality(D)
  OBVIOUS
<1>1. n \in Nat /\ IsFiniteSet(D)
  BY <1>0, FS_CardinalityType
<1>2. IsFiniteSet(1..(n + 1)) /\ Cardinality(1..(n + 1)) = n + 1
  BY <1>1, UpTo
<1> DEFINE Free == (1..(n + 1)) \ D
<1>3. Free # {}
  <2>1. SUFFICES ASSUME Free = {} PROVE FALSE
    OBVIOUS
  <2>2. 1..(n + 1) \in SUBSET D
    BY <2>1
  <2>3. Cardinality(1..(n + 1)) <= n
    BY <1>0, <1>1, <2>2, FS_Subset
  <2> QED
    BY <1>1, <1>2, <2>3
<1>4. IsFiniteSet(Free) /\ Free \in SUBSET Int
  <2>1. \A x \in 1..(n + 1) : x \in Int
    OBVIOUS
  <2>2. Free \in SUBSET (1..(n + 1))
    OBVIOUS
  <2> HIDE DEF Free
  <2> QED
    BY <1>2, <2>1, <2>2, FS_Subset
<1>5. PICK m \in Free : \A x \in Free : m <= x
  BY <1>3, <1>4, SmallestExists
<1>6. ASSUME NEW b \in 1..(m - 1)
      PROVE  b \in D
  <2>1. b \in 1..(n + 1) /\ b < m
    BY <1>1, <1>5
  <2> QED
    BY <1>5, <2>1
<1>7. \E a \in 1..(n + 1) : a \notin D /\ \A b \in 1..(a - 1) : b \in D
  BY <1>5, <1>6
<1>8. FreshAddress(blocks) \in 1..(n + 1) /\ FreshAddress(blocks) \notin D
  BY <1>0, <1>7 DEF FreshAddress
<1> QED
  BY <1>0, <1>1, <1>8

\* The bytes of a set of tracked blocks as a sum.
LEMMA SizeIsSum ==
    ASSUME NEW blocks, BlocksOK(blocks), NEW phases
    PROVE  /\ IsFiniteSet(Tracked(blocks, phases))
           /\ \A a \in Tracked(blocks, phases) : blocks[a].size \in Nat
           /\ \A e : (\A a \in Tracked(blocks, phases) : e[a] = blocks[a].size)
                     => SizeOf(blocks, phases) = SumOf(e, Tracked(blocks, phases))
<1>0. PICK T : T = Tracked(blocks, phases)
  OBVIOUS
<1>1. IsFiniteSet(T) /\ T \subseteq DOMAIN blocks
  BY <1>0, FS_Subset DEF BlocksOK, Tracked
<1>2. \A a \in T : blocks[a].size \in Nat
  BY <1>1 DEF BlocksOK, Block
<1>3. PICK f : f = [a \in T |-> blocks[a].size]
  OBVIOUS
<1>4. DOMAIN f = T /\ \A a \in T : f[a] = blocks[a].size
  BY <1>3
<1>5. SizeOf(blocks, phases) = SumOf(f, T)
  <2>1. SizeOf(blocks, phases) = FoldFunction(+, 0, f)
    BY <1>0, <1>3 DEF SizeOf
  <2>2. FoldFunction(+, 0, f) = FoldFunctionOnSet(+, 0, f, DOMAIN f)
    BY DEF FoldFunction
  <2> QED
    BY <1>4, <2>1, <2>2 DEF SumOf
<1>6. ASSUME NEW e, \A a \in T : e[a] = blocks[a].size
      PROVE  SizeOf(blocks, phases) = SumOf(e, T)
  BY <1>1, <1>4, <1>5, <1>6, SumSame
<1> QED
  BY <1>0, <1>1, <1>2, <1>6

\* The bytes of blocks are a number.
LEMMA SizeNat ==
    ASSUME NEW blocks, BlocksOK(blocks), NEW phases
    PROVE  SizeOf(blocks, phases) \in Nat
<1>0. PICK T : T = Tracked(blocks, phases)
  OBVIOUS
<1>1. PICK f : f = [a \in T |-> blocks[a].size]
  OBVIOUS
<1>2. \A a \in T : f[a] = blocks[a].size /\ f[a] \in Nat
  BY <1>0, <1>1, SizeIsSum
<1>3. SizeOf(blocks, phases) = SumOf(f, T) /\ IsFiniteSet(T)
  BY <1>0, <1>2, SizeIsSum
<1> QED
  BY <1>2, <1>3, SumNat

\* What a block adds to the bytes of its phases.
Share(block, phases) ==
    IF block.allocator = "tracking" /\ block.phase \in phases THEN block.size ELSE 0

\* Taking a block out keeps the heap well formed and takes its share.
LEMMA SizeWithout ==
    ASSUME NEW blocks, BlocksOK(blocks), NEW a \in DOMAIN blocks
    PROVE  /\ BlocksOK(Without(blocks, a))
           /\ DOMAIN Without(blocks, a) = DOMAIN blocks \ {a}
           /\ \A b \in DOMAIN blocks \ {a} : Without(blocks, a)[b] = blocks[b]
           /\ \A phases : SizeOf(blocks, phases)
                  = SizeOf(Without(blocks, a), phases) + Share(blocks[a], phases)
<1>0. PICK less : less = Without(blocks, a)
  OBVIOUS
<1>1. /\ DOMAIN less = DOMAIN blocks \ {a}
      /\ less = [b \in DOMAIN less |-> less[b]]
      /\ \A b \in DOMAIN blocks \ {a} : less[b] = blocks[b]
  BY <1>0 DEF Without
<1>2. BlocksOK(less)
  <2>1. IsFiniteSet(DOMAIN less)
    BY <1>1, FS_Subset DEF BlocksOK
  <2> QED
    BY <1>1, <2>1 DEF BlocksOK
<1>3. ASSUME NEW phases
      PROVE  SizeOf(blocks, phases) = SizeOf(less, phases) + Share(blocks[a], phases)
  <2>0. PICK T, U : T = Tracked(blocks, phases) /\ U = Tracked(less, phases)
    OBVIOUS
  <2>1. U = T \ {a}
    BY <1>1, <2>0 DEF Tracked
  <2>2. PICK f : f = [b \in T |-> blocks[b].size]
    OBVIOUS
  <2>3. IsFiniteSet(T) /\ \A b \in T : f[b] = blocks[b].size /\ f[b] \in Nat
    BY <2>0, <2>2, SizeIsSum
  <2>4. SizeOf(blocks, phases) = SumOf(f, T)
    BY <2>0, <2>3, SizeIsSum
  <2>5. \A b \in U : f[b] = less[b].size
    BY <1>1, <2>0, <2>1, <2>3 DEF Tracked
  <2>6. SizeOf(less, phases) = SumOf(f, U)
    BY <1>2, <2>0, <2>5, SizeIsSum
  <2>7. CASE a \in T
    <3>1. SumOf(f, T) = f[a] + SumOf(f, T \ {a})
      BY <2>3, <2>7, SumRemove
    <3>2. Share(blocks[a], phases) = f[a]
      BY <2>0, <2>3, <2>7 DEF Share, Tracked
    <3>3. SizeOf(less, phases) \in Nat /\ f[a] \in Nat
      BY <1>2, <2>3, <2>7, SizeNat
    <3> QED
      BY <2>1, <2>4, <2>6, <3>1, <3>2, <3>3
  <2>8. CASE a \notin T
    <3>1. Share(blocks[a], phases) = 0 /\ U = T
      BY <2>0, <2>1, <2>8 DEF Share, Tracked
    <3>2. SizeOf(less, phases) \in Nat
      BY <1>2, SizeNat
    <3> QED
      BY <2>4, <2>6, <3>1, <3>2
  <2> QED
    BY <2>7, <2>8
<1> QED
  BY <1>0, <1>1, <1>2, <1>3

\* Putting a block in keeps the heap well formed and adds its share.
LEMMA SizeWith ==
    ASSUME NEW blocks, BlocksOK(blocks), NEW a \in Nat \ {0}, a \notin DOMAIN blocks,
           NEW block \in Block, Serves(block.allocator)
    PROVE  /\ BlocksOK(With(blocks, a, block))
           /\ DOMAIN With(blocks, a, block) = DOMAIN blocks \union {a}
           /\ With(blocks, a, block)[a] = block
           /\ \A b \in DOMAIN blocks : With(blocks, a, block)[b] = blocks[b]
           /\ \A phases : SizeOf(With(blocks, a, block), phases)
                  = SizeOf(blocks, phases) + Share(block, phases)
<1>0. PICK more : more = With(blocks, a, block)
  OBVIOUS
<1>1. /\ DOMAIN more = DOMAIN blocks \union {a}
      /\ more = [b \in DOMAIN more |-> more[b]]
      /\ \A b \in DOMAIN blocks : more[b] = blocks[b]
      /\ more[a] = block
  BY <1>0 DEF With
<1>2. BlocksOK(more)
  <2>1. IsFiniteSet(DOMAIN more)
    BY <1>1, FS_AddElement DEF BlocksOK
  <2> QED
    BY <1>1, <2>1 DEF BlocksOK
<1>3. Without(more, a) = blocks
  <2>1. DOMAIN more \ {a} = DOMAIN blocks
    BY <1>1
  <2>2. Without(more, a) = [b \in DOMAIN blocks |-> blocks[b]]
    BY <1>1, <2>1 DEF Without
  <2> QED
    BY <2>2 DEF BlocksOK
<1>4. \A phases : SizeOf(more, phases) = SizeOf(blocks, phases) + Share(block, phases)
  <2>1. a \in DOMAIN more
    BY <1>1
  <2>2. \A phases : SizeOf(more, phases)
                        = SizeOf(Without(more, a), phases) + Share(more[a], phases)
    BY <1>2, <2>1, SizeWithout
  <2> QED
    BY <1>1, <1>3, <2>2
<1> QED
  BY <1>0, <1>1, <1>2, <1>4

\* update_alloc_stats and update_free_stats.
LEMMA StatsStep ==
    ASSUME NEW s \in Stats, NEW size \in Nat
    PROVE  /\ update_alloc_stats(s, size) \in Stats
           /\ update_alloc_stats(s, size).total_allocated = s.total_allocated + size
           /\ update_alloc_stats(s, size).total_freed = s.total_freed
           /\ update_alloc_stats(s, size).current_allocated = s.current_allocated + size
           /\ update_alloc_stats(s, size).peak_allocated >= s.current_allocated + size
           /\ update_free_stats(s, size) \in Stats
           /\ update_free_stats(s, size).total_allocated = s.total_allocated
           /\ update_free_stats(s, size).total_freed = s.total_freed + size
           /\ update_free_stats(s, size).peak_allocated = s.peak_allocated
           /\ s.current_allocated >= size =>
                 update_free_stats(s, size).current_allocated = s.current_allocated - size
<1>1. /\ s.total_allocated \in Nat /\ s.total_freed \in Nat /\ s.current_allocated \in Nat
      /\ s.peak_allocated \in Nat /\ s.alloc_count \in Nat /\ s.free_count \in Nat
  BY DEF Stats
<1>2. PICK ta, tf, ca, peak, left, ac, fc :
         /\ ta = s.total_allocated + size /\ tf = s.total_freed + size
         /\ ca = s.current_allocated + size
         /\ peak = Larger(s.peak_allocated, s.current_allocated + size)
         /\ left = Larger(0, s.current_allocated - size)
         /\ ac = s.alloc_count + 1 /\ fc = s.free_count + 1
  OBVIOUS
<1>3. /\ ta \in Nat /\ tf \in Nat /\ ca \in Nat /\ ac \in Nat /\ fc \in Nat
      /\ peak \in Nat /\ peak >= ca /\ left \in Nat
      /\ s.current_allocated >= size => left = s.current_allocated - size
  BY <1>1, <1>2 DEF Larger
<1>4. update_alloc_stats(s, size) =
         [s EXCEPT !.total_allocated = ta, !.current_allocated = ca,
                   !.peak_allocated = peak, !.alloc_count = ac]
  BY <1>2 DEF update_alloc_stats, Stats
<1>5. update_free_stats(s, size) =
         [s EXCEPT !.total_freed = tf, !.current_allocated = left, !.free_count = fc]
  BY <1>2 DEF update_free_stats, Stats
<1>6. update_alloc_stats(s, size) \in Stats
  BY <1>3, <1>4 DEF Stats
<1>7. update_free_stats(s, size) \in Stats
  BY <1>3, <1>5 DEF Stats
<1>8. /\ update_alloc_stats(s, size).total_allocated = ta
      /\ update_alloc_stats(s, size).total_freed = s.total_freed
      /\ update_alloc_stats(s, size).current_allocated = ca
      /\ update_alloc_stats(s, size).peak_allocated = peak
  BY <1>4 DEF Stats
<1>9. /\ update_free_stats(s, size).total_allocated = s.total_allocated
      /\ update_free_stats(s, size).total_freed = tf
      /\ update_free_stats(s, size).current_allocated = left
      /\ update_free_stats(s, size).peak_allocated = s.peak_allocated
  BY <1>5 DEF Stats
<1> QED
  BY <1>2, <1>3, <1>6, <1>7, <1>8, <1>9

\* The parts of the tracker.
LEMMA TrackerParts ==
    ASSUME NEW t \in Tracker
    PROVE  /\ t = [current_phase |-> t.current_phase, stats |-> t.stats,
                   phase_stats |-> t.phase_stats]
           /\ t.current_phase \in Phase /\ t.stats \in Stats
           /\ t.phase_stats \in [Phase -> Stats]
BY DEF Tracker

\* tracking_malloc_impl counts in the totals and in the current phase.
LEMMA MallocCounts ==
    ASSUME NEW t \in Tracker, NEW size \in Nat
    PROVE  LET u == tracking_malloc_impl(t, size)
           IN  /\ u \in Tracker
               /\ u.stats = update_alloc_stats(t.stats, size)
               /\ \A p \in Phase : u.phase_stats[p] =
                     IF p = t.current_phase THEN update_alloc_stats(t.phase_stats[p], size)
                     ELSE t.phase_stats[p]
<1>0. PICK ph, st, ps : ph = t.current_phase /\ st = t.stats /\ ps = t.phase_stats
  OBVIOUS
<1>1. /\ t = [current_phase |-> ph, stats |-> st, phase_stats |-> ps]
      /\ ph \in Phase /\ st \in Stats /\ ps \in [Phase -> Stats]
  BY <1>0, TrackerParts
<1>2. PICK st2, one : st2 = update_alloc_stats(st, size)
                      /\ one = update_alloc_stats(ps[ph], size)
  OBVIOUS
<1>3. st2 \in Stats /\ one \in Stats
  BY <1>1, <1>2, StatsStep
<1>4. PICK more : more = [ps EXCEPT ![ph] = one]
  OBVIOUS
<1>5. /\ more \in [Phase -> Stats]
      /\ \A p \in Phase : more[p] = IF p = ph THEN one ELSE ps[p]
  BY <1>1, <1>3, <1>4
<1>6. tracking_malloc_impl(t, size) = [t EXCEPT !.stats = st2, !.phase_stats = more]
  BY <1>1, <1>2, <1>4 DEF tracking_malloc_impl
<1>7. /\ tracking_malloc_impl(t, size) \in Tracker
      /\ tracking_malloc_impl(t, size).stats = st2
      /\ tracking_malloc_impl(t, size).phase_stats = more
  BY <1>3, <1>5, <1>6 DEF Tracker
<1> QED
  BY <1>0, <1>2, <1>5, <1>7

\* tracking_free_impl counts in the totals and in the phase of the block.
LEMMA FreeCounts ==
    ASSUME NEW t \in Tracker, NEW block \in Block
    PROVE  LET u == tracking_free_impl(t, block)
           IN  /\ u \in Tracker
               /\ u.stats = update_free_stats(t.stats, block.size)
               /\ \A p \in Phase : u.phase_stats[p] =
                     IF p = block.phase THEN update_free_stats(t.phase_stats[p], block.size)
                     ELSE t.phase_stats[p]
<1>0. PICK ph, st, ps, bp, size :
         /\ ph = t.current_phase /\ st = t.stats /\ ps = t.phase_stats
         /\ bp = block.phase /\ size = block.size
  OBVIOUS
<1>1. /\ t = [current_phase |-> ph, stats |-> st, phase_stats |-> ps]
      /\ ph \in Phase /\ st \in Stats /\ ps \in [Phase -> Stats]
      /\ bp \in Phase /\ size \in Nat
  BY <1>0, TrackerParts DEF Block
<1>2. PICK st2, one : st2 = update_free_stats(st, size)
                      /\ one = update_free_stats(ps[bp], size)
  OBVIOUS
<1>3. st2 \in Stats /\ one \in Stats
  BY <1>1, <1>2, StatsStep
<1>4. PICK more : more = [ps EXCEPT ![bp] = one]
  OBVIOUS
<1>5. /\ more \in [Phase -> Stats]
      /\ \A p \in Phase : more[p] = IF p = bp THEN one ELSE ps[p]
  BY <1>1, <1>3, <1>4
<1>6. tracking_free_impl(t, block) = [t EXCEPT !.stats = st2, !.phase_stats = more]
  BY <1>0, <1>1, <1>2, <1>4 DEF tracking_free_impl
<1>7. /\ tracking_free_impl(t, block) \in Tracker
      /\ tracking_free_impl(t, block).stats = st2
      /\ tracking_free_impl(t, block).phase_stats = more
  BY <1>3, <1>5, <1>6 DEF Tracker
<1> QED
  BY <1>0, <1>2, <1>5, <1>7

\* xgl_alloc gives an address nobody has and keeps the books.
LEMMA AllocKeeps ==
    ASSUME NEW m, HeapOK(m), NEW allocator \in Allocator, Serves(allocator),
           NEW size \in Nat
    PROVE  LET a == FreshAddress(m.blocks)
               n == xgl_alloc(m, allocator, size)
           IN  /\ a \in Nat \ {0} /\ a \notin DOMAIN m.blocks
               /\ HeapOK(n)
               /\ DOMAIN n.blocks = DOMAIN m.blocks \union {a}
               /\ n.blocks[a].allocator = allocator
               /\ \A b \in DOMAIN m.blocks : n.blocks[b] = m.blocks[b]
<1>0. PICK blocks, t, a, block, more, u, n :
         /\ blocks = m.blocks /\ t = m.tracker /\ a = FreshAddress(blocks)
         /\ block = [size |-> size, allocator |-> allocator, phase |-> t.current_phase]
         /\ more = With(blocks, a, block)
         /\ u = IF allocator = "tracking" THEN tracking_malloc_impl(t, size) ELSE t
         /\ n = xgl_alloc(m, allocator, size)
  OBVIOUS
<1>1. /\ m = [blocks |-> blocks, tracker |-> t, damaged |-> FALSE]
      /\ BlocksOK(blocks) /\ t \in Tracker
  BY <1>0 DEF HeapOK
<1>2. a \in Nat \ {0} /\ a \notin DOMAIN blocks
  BY <1>0, <1>1, FreshIsFree DEF BlocksOK
<1>3. n = [blocks |-> more, tracker |-> u, damaged |-> FALSE]
  <2>1. n = [m EXCEPT !.blocks = more, !.tracker = u]
    BY <1>0, <1>1 DEF xgl_alloc
  <2> QED
    BY <1>1, <2>1
<1>4. /\ block \in Block /\ block.allocator = allocator /\ block.size = size
      /\ block.phase = t.current_phase /\ t.current_phase \in Phase
  BY <1>0, <1>1 DEF Block, Tracker
<1>5. /\ BlocksOK(more) /\ DOMAIN more = DOMAIN blocks \union {a} /\ more[a] = block
      /\ \A b \in DOMAIN blocks : more[b] = blocks[b]
      /\ \A phases : SizeOf(more, phases) = SizeOf(blocks, phases) + Share(block, phases)
  <2>1. more = With(blocks, a, block) /\ Serves(block.allocator) /\ block \in Block
    BY <1>0, <1>4
  <2>2. BlocksOK(blocks) /\ a \in Nat \ {0} /\ a \notin DOMAIN blocks
    BY <1>1, <1>2
  <2>3. /\ BlocksOK(With(blocks, a, block))
        /\ DOMAIN With(blocks, a, block) = DOMAIN blocks \union {a}
        /\ With(blocks, a, block)[a] = block
        /\ \A b \in DOMAIN blocks : With(blocks, a, block)[b] = blocks[b]
        /\ \A phases : SizeOf(With(blocks, a, block), phases)
               = SizeOf(blocks, phases) + Share(block, phases)
    BY <2>1, <2>2, SizeWith
  <2> QED
    BY <2>1, <2>3
<1>6. \A phases : SizeOf(blocks, phases) \in Nat
  BY <1>1, SizeNat
<1>7. u \in Tracker /\ BooksOK([blocks |-> more, tracker |-> u, damaged |-> FALSE])
  <2>0. /\ t.stats.current_allocated = SizeOf(blocks, Phase)
        /\ t.stats.peak_allocated >= t.stats.current_allocated
        /\ t.stats.total_allocated = t.stats.total_freed + SizeOf(blocks, Phase)
        /\ \A p \in Phase : t.phase_stats[p].current_allocated = SizeOf(blocks, {p})
    BY <1>0 DEF HeapOK, BooksOK
  <2>1. CASE allocator = "tracking"
    <3>1. /\ Share(block, Phase) = size
          /\ \A p \in Phase : Share(block, {p}) = IF p = t.current_phase THEN size ELSE 0
      BY <1>4, <2>1 DEF Share
    <3>2. u = tracking_malloc_impl(t, size)
      BY <1>0, <2>1
    <3>3. /\ u \in Tracker /\ u.stats = update_alloc_stats(t.stats, size)
          /\ \A p \in Phase : u.phase_stats[p] =
                 IF p = t.current_phase THEN update_alloc_stats(t.phase_stats[p], size)
                 ELSE t.phase_stats[p]
      BY <1>1, <3>2, MallocCounts
    <3>4. t.stats \in Stats /\ \A p \in Phase : t.phase_stats[p] \in Stats
      BY <1>1 DEF Tracker
    <3>5. /\ u.stats.current_allocated = SizeOf(more, Phase)
          /\ u.stats.peak_allocated >= u.stats.current_allocated
          /\ u.stats.total_allocated = u.stats.total_freed + SizeOf(more, Phase)
      <4>1. /\ u.stats.current_allocated = t.stats.current_allocated + size
            /\ u.stats.peak_allocated >= t.stats.current_allocated + size
            /\ u.stats.total_allocated = t.stats.total_allocated + size
            /\ u.stats.total_freed = t.stats.total_freed
        BY <3>3, <3>4, StatsStep
      <4>2. SizeOf(more, Phase) = SizeOf(blocks, Phase) + size
        BY <1>5, <3>1
      <4>3. t.stats.total_freed \in Nat /\ t.stats.current_allocated \in Nat
        BY <3>4 DEF Stats
      <4> QED
        BY <1>6, <2>0, <4>1, <4>2, <4>3
    <3>6. ASSUME NEW p \in Phase
          PROVE  u.phase_stats[p].current_allocated = SizeOf(more, {p})
      <4>1. CASE p = t.current_phase
        <5>1. u.phase_stats[p].current_allocated = t.phase_stats[p].current_allocated + size
          BY <3>3, <3>4, <4>1, StatsStep
        <5>2. SizeOf(more, {p}) = SizeOf(blocks, {p}) + size
          BY <1>5, <3>1, <4>1
        <5> QED
          BY <2>0, <5>1, <5>2
      <4>2. CASE p # t.current_phase
        <5>1. SizeOf(more, {p}) = SizeOf(blocks, {p}) + 0
          BY <1>5, <3>1, <4>2
        <5>2. SizeOf(more, {p}) = SizeOf(blocks, {p})
          BY <1>6, <5>1
        <5> QED
          BY <2>0, <3>3, <4>2, <5>2
      <4> QED
        BY <4>1, <4>2
    <3> QED
      BY <3>3, <3>5, <3>6 DEF BooksOK
  <2>2. CASE allocator # "tracking"
    <3>1. u = t
      BY <1>0, <2>2
    <3>2. \A phases : SizeOf(more, phases) = SizeOf(blocks, phases)
      <4>1. \A phases : Share(block, phases) = 0
        BY <1>4, <2>2 DEF Share
      <4> QED
        BY <1>5, <1>6, <4>1
    <3> QED
      BY <1>1, <2>0, <3>1, <3>2 DEF BooksOK
  <2> QED
    BY <2>1, <2>2
<1>8. HeapOK(n)
  BY <1>3, <1>5, <1>7 DEF HeapOK
<1> QED
  BY <1>0, <1>2, <1>3, <1>4, <1>5, <1>8

\* A part is no more than the whole: one phase, and one block.
LEMMA ShareWithin ==
    ASSUME NEW blocks, BlocksOK(blocks), NEW a \in DOMAIN blocks, NEW phases
    PROVE  Share(blocks[a], phases) \in Nat /\ Share(blocks[a], phases) <= SizeOf(blocks, phases)
<1>0. PICK less : less = Without(blocks, a)
  OBVIOUS
<1>1. /\ BlocksOK(less)
      /\ SizeOf(blocks, phases) = SizeOf(less, phases) + Share(blocks[a], phases)
  BY <1>0, SizeWithout
<1>2. SizeOf(less, phases) \in Nat
  BY <1>1, SizeNat
<1>3. Share(blocks[a], phases) \in Nat
  BY DEF BlocksOK, Block, Share
<1> QED
  BY <1>1, <1>2, <1>3

\* xgl_free of a live block through its own allocator keeps the books and
\* touches no other block.
LEMMA FreeKeeps ==
    ASSUME NEW m, HeapOK(m), NEW a \in DOMAIN m.blocks, NEW allocator,
           m.blocks[a].allocator = allocator
    PROVE  LET n == xgl_free(m, allocator, a)
           IN  /\ HeapOK(n)
               /\ DOMAIN n.blocks = DOMAIN m.blocks \ {a}
               /\ \A b \in DOMAIN m.blocks \ {a} : n.blocks[b] = m.blocks[b]
<1>0. PICK blocks, t, block, less, u, n :
         /\ blocks = m.blocks /\ t = m.tracker /\ block = blocks[a]
         /\ less = Without(blocks, a)
         /\ u = IF allocator = "tracking" THEN tracking_free_impl(t, block) ELSE t
         /\ n = xgl_free(m, allocator, a)
  OBVIOUS
<1>1. /\ m = [blocks |-> blocks, tracker |-> t, damaged |-> FALSE]
      /\ BlocksOK(blocks) /\ t \in Tracker
  BY <1>0 DEF HeapOK
<1>2. a # NULL /\ Serves(allocator)
  BY <1>0, <1>1 DEF BlocksOK, NULL
<1>3. n = [blocks |-> less, tracker |-> u, damaged |-> FALSE]
  <2>1. n = [m EXCEPT !.blocks = less, !.tracker = u]
    BY <1>0, <1>1, <1>2 DEF xgl_free
  <2> QED
    BY <1>1, <2>1
<1>4. /\ block \in Block /\ block.allocator = allocator
      /\ block.size \in Nat /\ block.phase \in Phase
  BY <1>0, <1>1 DEF BlocksOK, Block
<1>5. /\ BlocksOK(less) /\ DOMAIN less = DOMAIN blocks \ {a}
      /\ \A b \in DOMAIN blocks \ {a} : less[b] = blocks[b]
      /\ \A phases : SizeOf(blocks, phases) = SizeOf(less, phases) + Share(block, phases)
  <2>1. less = Without(blocks, a) /\ block = blocks[a] /\ a \in DOMAIN blocks
    BY <1>0
  <2> QED
    BY <1>1, <2>1, SizeWithout
<1>6. \A phases : /\ SizeOf(less, phases) \in Nat /\ SizeOf(blocks, phases) \in Nat
                  /\ Share(block, phases) \in Nat
                  /\ Share(block, phases) <= SizeOf(blocks, phases)
  BY <1>0, <1>1, <1>5, SizeNat, ShareWithin
<1>7. u \in Tracker /\ BooksOK([blocks |-> less, tracker |-> u, damaged |-> FALSE])
  <2>0. /\ t.stats.current_allocated = SizeOf(blocks, Phase)
        /\ t.stats.peak_allocated >= t.stats.current_allocated
        /\ t.stats.total_allocated = t.stats.total_freed + SizeOf(blocks, Phase)
        /\ \A p \in Phase : t.phase_stats[p].current_allocated = SizeOf(blocks, {p})
    BY <1>0 DEF HeapOK, BooksOK
  <2>1. CASE allocator = "tracking"
    <3>0. PICK size : size = block.size
      OBVIOUS
    <3>1. /\ Share(block, Phase) = size /\ size \in Nat
          /\ \A p \in Phase : Share(block, {p}) = IF p = block.phase THEN size ELSE 0
      BY <1>4, <2>1, <3>0 DEF Share
    <3>2. u = tracking_free_impl(t, block)
      BY <1>0, <2>1
    <3>3. /\ u \in Tracker /\ u.stats = update_free_stats(t.stats, size)
          /\ \A p \in Phase : u.phase_stats[p] =
                 IF p = block.phase THEN update_free_stats(t.phase_stats[p], size)
                 ELSE t.phase_stats[p]
      BY <1>1, <1>4, <3>0, <3>2, FreeCounts
    <3>4. t.stats \in Stats /\ \A p \in Phase : t.phase_stats[p] \in Stats
      BY <1>1 DEF Tracker
    <3>5. /\ u.stats.current_allocated = SizeOf(less, Phase)
          /\ u.stats.peak_allocated >= u.stats.current_allocated
          /\ u.stats.total_allocated = u.stats.total_freed + SizeOf(less, Phase)
      <4>1. SizeOf(blocks, Phase) = SizeOf(less, Phase) + size /\ size <= SizeOf(blocks, Phase)
        BY <1>5, <1>6, <3>1
      <4>2. /\ u.stats.current_allocated = t.stats.current_allocated - size
            /\ u.stats.peak_allocated = t.stats.peak_allocated
            /\ u.stats.total_allocated = t.stats.total_allocated
            /\ u.stats.total_freed = t.stats.total_freed + size
        BY <2>0, <3>1, <3>3, <3>4, <4>1, StatsStep
      <4>3. t.stats.total_freed \in Nat /\ t.stats.peak_allocated \in Nat
        BY <3>4 DEF Stats
      <4> QED
        BY <1>6, <2>0, <3>1, <4>1, <4>2, <4>3
    <3>6. ASSUME NEW p \in Phase
          PROVE  u.phase_stats[p].current_allocated = SizeOf(less, {p})
      <4>1. CASE p = block.phase
        <5>1. /\ SizeOf(blocks, {p}) = SizeOf(less, {p}) + size
              /\ size <= SizeOf(blocks, {p})
          BY <1>5, <1>6, <3>1, <4>1
        <5>2. u.phase_stats[p].current_allocated = t.phase_stats[p].current_allocated - size
          BY <2>0, <3>1, <3>3, <3>4, <4>1, <5>1, StatsStep
        <5> QED
          BY <1>6, <2>0, <3>1, <5>1, <5>2
      <4>2. CASE p # block.phase
        <5>1. SizeOf(blocks, {p}) = SizeOf(less, {p}) + 0
          BY <1>5, <3>1, <4>2
        <5>2. SizeOf(blocks, {p}) = SizeOf(less, {p})
          BY <1>6, <5>1
        <5> QED
          BY <2>0, <3>3, <4>2, <5>2
      <4> QED
        BY <4>1, <4>2
    <3> QED
      BY <3>3, <3>5, <3>6 DEF BooksOK
  <2>2. CASE allocator # "tracking"
    <3>1. u = t
      BY <1>0, <2>2
    <3>2. \A phases : SizeOf(less, phases) = SizeOf(blocks, phases)
      <4>1. \A phases : Share(block, phases) = 0
        BY <1>4, <2>2 DEF Share
      <4> QED
        BY <1>5, <1>6, <4>1
    <3> QED
      BY <1>1, <2>0, <3>1, <3>2 DEF BooksOK
  <2> QED
    BY <2>1, <2>2
<1>8. HeapOK(n)
  BY <1>3, <1>5, <1>7 DEF HeapOK
<1> QED
  BY <1>0, <1>3, <1>5, <1>8

\* Freeing NULL does nothing.
LEMMA FreeNull == \A m, allocator : xgl_free(m, allocator, NULL) = m
BY DEF xgl_free

\* Selecting a phase and resetting the statistics keep the books.
LEMMA BooksReset ==
    ASSUME NEW m, HeapOK(m), NEW phase \in Phase
    PROVE  LET n == [m EXCEPT !.tracker = xgl_tracking_allocator_set_phase(@, phase)]
               r == [m EXCEPT !.tracker = xgl_tracking_allocator_reset_stats(@)]
           IN  HeapOK(n) /\ n.blocks = m.blocks /\ HeapOK(r) /\ r.blocks = m.blocks
<1>0. PICK blocks, t, u, v, n, r :
         /\ blocks = m.blocks /\ t = m.tracker
         /\ u = xgl_tracking_allocator_set_phase(t, phase)
         /\ v = xgl_tracking_allocator_reset_stats(t)
         /\ n = [m EXCEPT !.tracker = xgl_tracking_allocator_set_phase(@, phase)]
         /\ r = [m EXCEPT !.tracker = xgl_tracking_allocator_reset_stats(@)]
  OBVIOUS
<1>1. /\ m = [blocks |-> blocks, tracker |-> t, damaged |-> FALSE]
      /\ BlocksOK(blocks) /\ t \in Tracker
  BY <1>0 DEF HeapOK
<1>2. n = [blocks |-> blocks, tracker |-> u, damaged |-> FALSE]
  <2>1. n = [m EXCEPT !.tracker = u]
    BY <1>0, <1>1
  <2> QED
    BY <1>1, <2>1
<1>3. r = [blocks |-> blocks, tracker |-> v, damaged |-> FALSE]
  <2>1. r = [m EXCEPT !.tracker = v]
    BY <1>0, <1>1
  <2> QED
    BY <1>1, <2>1
<1>4. /\ t.stats.current_allocated = SizeOf(blocks, Phase)
      /\ t.stats.peak_allocated >= t.stats.current_allocated
      /\ t.stats.total_allocated = t.stats.total_freed + SizeOf(blocks, Phase)
      /\ \A p \in Phase : t.phase_stats[p].current_allocated = SizeOf(blocks, {p})
  BY <1>0 DEF HeapOK, BooksOK
<1>5. u \in Tracker /\ u.stats = t.stats /\ u.phase_stats = t.phase_stats
  BY <1>0, <1>1 DEF xgl_tracking_allocator_set_phase, Tracker
<1>6. HeapOK(n)
  <2>1. BooksOK([blocks |-> blocks, tracker |-> u, damaged |-> FALSE])
    BY <1>4, <1>5 DEF BooksOK
  <2> QED
    BY <1>1, <1>2, <1>5, <2>1 DEF HeapOK
<1>7. ASSUME NEW s \in Stats
      PROVE  /\ ResetStats(s) \in Stats
             /\ ResetStats(s).current_allocated = s.current_allocated
             /\ ResetStats(s).peak_allocated = s.current_allocated
             /\ ResetStats(s).total_allocated = s.current_allocated
             /\ ResetStats(s).total_freed = 0
  <2>1. NoStats \in Stats /\ s.current_allocated \in Nat
    BY DEF NoStats, Stats
  <2>2. /\ ResetStats(s).current_allocated = s.current_allocated
        /\ ResetStats(s).peak_allocated = s.current_allocated
        /\ ResetStats(s).total_allocated = s.current_allocated
        /\ ResetStats(s).total_freed = 0
    BY DEF ResetStats, NoStats
  <2>3. ResetStats(s) \in Stats
    BY <2>1 DEF ResetStats, Stats
  <2> QED
    BY <2>2, <2>3
<1>8. PICK more : more = [p \in Phase |-> ResetStats(t.phase_stats[p])]
  OBVIOUS
<1>9. more \in [Phase -> Stats] /\ \A p \in Phase : more[p] = ResetStats(t.phase_stats[p])
  BY <1>1, <1>7, <1>8 DEF Tracker
<1>10. v = [t EXCEPT !.stats = ResetStats(t.stats), !.phase_stats = more]
  BY <1>0, <1>1, <1>8 DEF xgl_tracking_allocator_reset_stats, Tracker
<1>11. t.stats \in Stats /\ \A p \in Phase : t.phase_stats[p] \in Stats
  BY <1>1 DEF Tracker
<1>12. v \in Tracker /\ v.stats = ResetStats(t.stats) /\ v.phase_stats = more
  BY <1>1, <1>7, <1>9, <1>10, <1>11 DEF Tracker
<1>13. HeapOK(r)
  <2>1. /\ v.stats.current_allocated = t.stats.current_allocated
        /\ v.stats.peak_allocated = t.stats.current_allocated
        /\ v.stats.total_allocated = t.stats.current_allocated
        /\ v.stats.total_freed = 0
        /\ \A p \in Phase : v.phase_stats[p].current_allocated
                              = t.phase_stats[p].current_allocated
    BY <1>7, <1>9, <1>11, <1>12
  <2>2. SizeOf(blocks, Phase) \in Nat
    BY <1>1, SizeNat
  <2>3. BooksOK([blocks |-> blocks, tracker |-> v, damaged |-> FALSE])
    BY <1>4, <2>1, <2>2 DEF BooksOK
  <2> QED
    BY <1>1, <1>3, <1>12, <2>3 DEF HeapOK
<1> QED
  BY <1>0, <1>2, <1>3, <1>6, <1>13

-----------------------------------------------------------------------------
(***************************************************************************)
(* Fields that get memory and give it back                                 *)
(***************************************************************************)
\* What no field points to stays as it is.
Untouched(s, t) ==
    /\ Unowned(t) = Unowned(s)
    /\ \A a \in Unowned(s) : t.mem.blocks[a] = s.mem.blocks[a]

\* It stays as it is over several steps.
LEMMA UntouchedTwice ==
    ASSUME NEW s, NEW t, NEW u, Untouched(s, t), Untouched(t, u)
    PROVE  Untouched(s, u)
BY DEF Untouched

\* An allocation for a field that is NULL.
LEMMA AllocFieldKeeps ==
    ASSUME NEW c, Accepted(c), NEW s, PointersOK(c, s), NEW f \in Field,
           s.ptr[f] = NULL, Serves(AllocatorOf(c, f))
    PROVE  LET t == AllocField(c, s, f)
           IN  /\ PointersOK(c, t)
               /\ t.ptr[f] # NULL
               /\ \A g \in Field \ {f} : t.ptr[g] = s.ptr[g]
               /\ Untouched(s, t)
<1>0. PICK m, p, a, n, q, t :
         /\ m = s.mem /\ p = s.ptr /\ a = FreshAddress(m.blocks)
         /\ n = xgl_alloc(m, AllocatorOf(c, f), Bytes(c, f))
         /\ q = [p EXCEPT ![f] = a] /\ t = AllocField(c, s, f)
  OBVIOUS
<1>1. t = [mem |-> n, ptr |-> q]
  BY <1>0 DEF AllocField
<1>2. /\ HeapOK(m) /\ p \in [Field -> Nat]
      /\ \A g \in Field : p[g] # NULL =>
            p[g] \in DOMAIN m.blocks /\ m.blocks[p[g]].allocator = AllocatorOf(c, g)
      /\ \A g, h \in Field : p[g] # NULL /\ p[g] = p[h] => g = h
  BY <1>0 DEF PointersOK
<1>3. /\ a \in Nat \ {0} /\ a \notin DOMAIN m.blocks /\ HeapOK(n)
      /\ DOMAIN n.blocks = DOMAIN m.blocks \union {a}
      /\ n.blocks[a].allocator = AllocatorOf(c, f)
      /\ \A b \in DOMAIN m.blocks : n.blocks[b] = m.blocks[b]
  <2>1. PICK allocator, size : allocator = AllocatorOf(c, f) /\ size = Bytes(c, f)
    OBVIOUS
  <2>2. allocator \in Allocator /\ Serves(allocator) /\ size \in Nat
    BY <2>1, FieldAsks
  <2>3. n = xgl_alloc(m, allocator, size) /\ a = FreshAddress(m.blocks) /\ HeapOK(m)
    BY <1>0, <1>2, <2>1
  <2>4. /\ a \in Nat \ {0} /\ a \notin DOMAIN m.blocks /\ HeapOK(n)
        /\ DOMAIN n.blocks = DOMAIN m.blocks \union {a}
        /\ n.blocks[a].allocator = allocator
        /\ \A b \in DOMAIN m.blocks : n.blocks[b] = m.blocks[b]
    BY <2>2, <2>3, AllocKeeps
  <2> QED
    BY <2>1, <2>4
<1>4. /\ q \in [Field -> Nat] /\ q[f] = a /\ \A g \in Field \ {f} : q[g] = p[g]
  BY <1>0, <1>2, <1>3
<1>5. p[f] = NULL /\ NULL = 0
  BY <1>0 DEF NULL
<1>6. PointersOK(c, t)
  <2>1. \A g \in Field : q[g] # NULL =>
           q[g] \in DOMAIN n.blocks /\ n.blocks[q[g]].allocator = AllocatorOf(c, g)
    BY <1>2, <1>3, <1>4
  <2>2. \A g, h \in Field : q[g] # NULL /\ q[g] = q[h] => g = h
    BY <1>2, <1>3, <1>4, <1>5
  <2> QED
    BY <1>1, <1>3, <1>4, <2>1, <2>2 DEF PointersOK
<1>7. Unowned(s) = DOMAIN m.blocks \ {p[g] : g \in Field}
  BY <1>0 DEF Unowned
<1>8. Unowned(t) = DOMAIN n.blocks \ {q[g] : g \in Field}
  BY <1>1 DEF Unowned
<1>9. Unowned(t) = Unowned(s)
  <2>1. ASSUME NEW b
        PROVE  b \in Unowned(t) <=> b \in Unowned(s)
    <3>1. b \in DOMAIN m.blocks => b # 0
      BY <1>2 DEF HeapOK, BlocksOK
    <3> QED
      BY <1>3, <1>4, <1>5, <1>7, <1>8, <3>1
  <2> QED
    BY <2>1
<1>10. \A b \in Unowned(s) : n.blocks[b] = m.blocks[b]
  BY <1>3, <1>7
<1> QED
  BY <1>0, <1>1, <1>3, <1>4, <1>5, <1>6, <1>9, <1>10 DEF Untouched

\* The release of a field, NULL or not.
LEMMA FreeFieldKeeps ==
    ASSUME NEW c, NEW s, PointersOK(c, s), NEW f \in Field
    PROVE  LET t == FreeField(c, s, f)
           IN  /\ PointersOK(c, t)
               /\ t.ptr[f] = NULL
               /\ \A g \in Field \ {f} : t.ptr[g] = s.ptr[g]
               /\ Untouched(s, t)
<1>0. PICK m, p, n, q, t :
         /\ m = s.mem /\ p = s.ptr /\ n = xgl_free(m, AllocatorOf(c, f), p[f])
         /\ q = [p EXCEPT ![f] = NULL] /\ t = FreeField(c, s, f)
  OBVIOUS
<1>1. t = [mem |-> n, ptr |-> q]
  <2>1. s = [mem |-> m, ptr |-> p]
    BY <1>0 DEF PointersOK
  <2>2. PICK r : r = FreeBehind(c, s, f)
    OBVIOUS
  <2>3. r = [mem |-> n, ptr |-> p]
    BY <1>0, <2>1, <2>2 DEF FreeBehind, ReleasedThrough
  <2>4. t = [r EXCEPT !.ptr[f] = NULL]
    BY <1>0, <2>2 DEF FreeField
  <2> QED
    BY <1>0, <2>3, <2>4
<1>2. /\ HeapOK(m) /\ p \in [Field -> Nat]
      /\ \A g \in Field : p[g] # NULL =>
            p[g] \in DOMAIN m.blocks /\ m.blocks[p[g]].allocator = AllocatorOf(c, g)
      /\ \A g, h \in Field : p[g] # NULL /\ p[g] = p[h] => g = h
  BY <1>0 DEF PointersOK
<1>3. /\ HeapOK(n)
      /\ DOMAIN n.blocks = DOMAIN m.blocks \ {p[f]}
      /\ \A b \in DOMAIN m.blocks \ {p[f]} : n.blocks[b] = m.blocks[b]
  <2>1. CASE p[f] = NULL
    <3>1. n = m
      BY <1>0, <2>1, FreeNull
    <3>2. NULL \notin DOMAIN m.blocks
      BY <1>2 DEF HeapOK, BlocksOK, NULL
    <3> QED
      BY <1>2, <2>1, <3>1, <3>2
  <2>2. CASE p[f] # NULL
    <3>1. p[f] \in DOMAIN m.blocks /\ m.blocks[p[f]].allocator = AllocatorOf(c, f)
      BY <1>2, <2>2
    <3> QED
      BY <1>0, <1>2, <3>1, FreeKeeps
  <2> QED
    BY <2>1, <2>2
<1>4. /\ q \in [Field -> Nat] /\ q[f] = NULL /\ \A g \in Field \ {f} : q[g] = p[g]
  BY <1>0, <1>2 DEF NULL
<1>5. PointersOK(c, t)
  <2>1. ASSUME NEW g \in Field, q[g] # NULL
        PROVE  q[g] \in DOMAIN n.blocks /\ n.blocks[q[g]].allocator = AllocatorOf(c, g)
    <3>1. g # f /\ q[g] = p[g]
      BY <1>4, <2>1
    <3>2. p[g] # p[f]
      BY <1>2, <2>1, <3>1
    <3> QED
      BY <1>2, <1>3, <2>1, <3>1, <3>2
  <2>2. \A g, h \in Field : q[g] # NULL /\ q[g] = q[h] => g = h
    BY <1>2, <1>4
  <2> QED
    BY <1>1, <1>3, <1>4, <2>1, <2>2 DEF PointersOK
<1>6. Unowned(s) = DOMAIN m.blocks \ {p[g] : g \in Field}
  BY <1>0 DEF Unowned
<1>7. Unowned(t) = DOMAIN n.blocks \ {q[g] : g \in Field}
  BY <1>1 DEF Unowned
<1>8. Unowned(t) = Unowned(s)
  <2>1. ASSUME NEW b
        PROVE  b \in Unowned(t) <=> b \in Unowned(s)
    <3>1. b \in DOMAIN m.blocks => b # NULL
      BY <1>2 DEF HeapOK, BlocksOK, NULL
    <3> QED
      BY <1>3, <1>4, <1>6, <1>7, <3>1
  <2> QED
    BY <2>1
<1>9. \A b \in Unowned(s) : n.blocks[b] = m.blocks[b]
  BY <1>3, <1>6
<1> QED
  BY <1>0, <1>1, <1>4, <1>5, <1>8, <1>9 DEF Untouched

\* A chain of allocations for different fields that are NULL gives memory to
\* all of them.
LEMMA AllocFieldsKeep ==
    ASSUME NEW c, Accepted(c), NEW s, PointersOK(c, s), NEW fields \in Seq(Field),
           \A i, j \in 1..Len(fields) : fields[i] = fields[j] => i = j,
           \A i \in 1..Len(fields) :
               s.ptr[fields[i]] = NULL /\ Serves(AllocatorOf(c, fields[i]))
    PROVE  LET t == AllocFields(c, s, fields)
           IN  /\ PointersOK(c, t)
               /\ \A i \in 1..Len(fields) : t.ptr[fields[i]] # NULL
               /\ \A g \in Field : (\A i \in 1..Len(fields) : fields[i] # g)
                                   => t.ptr[g] = s.ptr[g]
               /\ Untouched(s, t)
<1>0. PICK n : n = Len(fields)
  OBVIOUS
<1>1. n \in Nat /\ \A i \in 1..n : fields[i] \in Field
  BY <1>0
<1>2. PICK after : /\ after[0] = s
                   /\ \A i \in 1..n : after[i] = AllocField(c, after[i - 1], fields[i])
                   /\ AllocFields(c, s, fields) = after[n]
  <2>1. PICK after : /\ after[0] = s
                     /\ \A i \in 1..Len(fields) :
                           after[i] = AllocField(c, after[i - 1], fields[i])
                     /\ AllocFields(c, s, fields) = after[Len(fields)]
    BY AllocSteps
  <2> QED
    BY <1>0, <2>1
<1> DEFINE Holds(i) ==
             /\ PointersOK(c, after[i])
             /\ \A j \in 1..i : after[i].ptr[fields[j]] # NULL
             /\ \A g \in Field : (\A j \in 1..i : fields[j] # g)
                                 => after[i].ptr[g] = s.ptr[g]
             /\ Untouched(s, after[i])
           P == {i \in 0..n : Holds(i)}
<1>3. 0 \in P
  <2>1. Untouched(s, s)
    BY DEF Untouched
  <2> QED
    BY <1>1, <1>2, <2>1
<1>4. ASSUME NEW i \in 1..n, i - 1 \in P
      PROVE  i \in P
  <2>0. PICK r, t, f, k : r = after[i - 1] /\ t = after[i] /\ f = fields[i] /\ k = i - 1
    OBVIOUS
  <2>1. /\ PointersOK(c, r) /\ Untouched(s, r)
        /\ \A j \in 1..k : r.ptr[fields[j]] # NULL
        /\ \A g \in Field : (\A j \in 1..k : fields[j] # g) => r.ptr[g] = s.ptr[g]
    BY <1>4, <2>0
  <2>2. t = AllocField(c, r, f) /\ f \in Field
    BY <1>1, <1>2, <2>0
  <2>3. \A j \in 1..k : j \in 1..n /\ j # i
    BY <1>1, <2>0
  <2>4. \A j \in 1..k : fields[j] # f /\ fields[j] \in Field
    BY <1>0, <1>1, <2>0, <2>3
  <2>5. r.ptr[f] = NULL /\ Serves(AllocatorOf(c, f))
    BY <1>0, <2>0, <2>1, <2>2, <2>4
  <2>6. /\ PointersOK(c, t) /\ t.ptr[f] # NULL
        /\ \A g \in Field \ {f} : t.ptr[g] = r.ptr[g]
        /\ Untouched(r, t)
    BY <2>1, <2>2, <2>5, AllocFieldKeeps
  <2>7. \A j \in 1..i : j \in 1..k \/ j = i
    BY <1>1, <2>0
  <2>8. \A j \in 1..i : t.ptr[fields[j]] # NULL
    BY <2>0, <2>1, <2>4, <2>6, <2>7
  <2>9. ASSUME NEW g \in Field, \A j \in 1..i : fields[j] # g
        PROVE  t.ptr[g] = s.ptr[g]
    <3>1. i \in 1..i /\ \A j \in 1..k : j \in 1..i
      BY <1>1, <2>0
    <3>2. g # f /\ \A j \in 1..k : fields[j] # g
      BY <2>0, <2>9, <3>1
    <3> QED
      BY <2>1, <2>6, <3>2
  <2>10. Untouched(s, t)
    BY <2>1, <2>6, UntouchedTwice
  <2>11. i \in 0..n
    BY <1>1
  <2> QED
    BY <2>0, <2>6, <2>8, <2>9, <2>10, <2>11
<1>5. n \in P
  <2> HIDE DEF P
  <2>1. \A i \in 0..n : i \in P
    BY <1>1, <1>3, <1>4, StepInduction
  <2>2. n \in 0..n
    BY <1>1
  <2> QED
    BY <2>1, <2>2
<1>6. Holds(n)
  BY <1>5
<1> QED
  BY <1>0, <1>2, <1>6

\* A chain of releases leaves NULL in all of its fields.
LEMMA FreeFieldsKeep ==
    ASSUME NEW c, NEW s, PointersOK(c, s), NEW fields \in Seq(Field)
    PROVE  LET t == FreeFields(c, s, fields)
           IN  /\ PointersOK(c, t)
               /\ \A i \in 1..Len(fields) : t.ptr[fields[i]] = NULL
               /\ \A g \in Field : s.ptr[g] = NULL => t.ptr[g] = NULL
               /\ \A g \in Field : (\A i \in 1..Len(fields) : fields[i] # g)
                                   => t.ptr[g] = s.ptr[g]
               /\ Untouched(s, t)
<1>0. PICK n : n = Len(fields)
  OBVIOUS
<1>1. n \in Nat /\ \A i \in 1..n : fields[i] \in Field
  BY <1>0
<1>2. PICK after : /\ after[0] = s
                   /\ \A i \in 1..n : after[i] = FreeField(c, after[i - 1], fields[i])
                   /\ FreeFields(c, s, fields) = after[n]
  <2>1. PICK after : /\ after[0] = s
                     /\ \A i \in 1..Len(fields) :
                           after[i] = FreeField(c, after[i - 1], fields[i])
                     /\ FreeFields(c, s, fields) = after[Len(fields)]
    BY FreeSteps
  <2> QED
    BY <1>0, <2>1
<1> DEFINE Holds(i) ==
             /\ PointersOK(c, after[i])
             /\ \A j \in 1..i : after[i].ptr[fields[j]] = NULL
             /\ \A g \in Field : s.ptr[g] = NULL => after[i].ptr[g] = NULL
             /\ \A g \in Field : (\A j \in 1..i : fields[j] # g)
                                 => after[i].ptr[g] = s.ptr[g]
             /\ Untouched(s, after[i])
           P == {i \in 0..n : Holds(i)}
<1>3. 0 \in P
  <2>1. Untouched(s, s)
    BY DEF Untouched
  <2> QED
    BY <1>1, <1>2, <2>1
<1>4. ASSUME NEW i \in 1..n, i - 1 \in P
      PROVE  i \in P
  <2>0. PICK r, t, f, k : r = after[i - 1] /\ t = after[i] /\ f = fields[i] /\ k = i - 1
    OBVIOUS
  <2>1. /\ PointersOK(c, r) /\ Untouched(s, r)
        /\ \A j \in 1..k : r.ptr[fields[j]] = NULL
        /\ \A g \in Field : s.ptr[g] = NULL => r.ptr[g] = NULL
        /\ \A g \in Field : (\A j \in 1..k : fields[j] # g) => r.ptr[g] = s.ptr[g]
    BY <1>4, <2>0
  <2>2. t = FreeField(c, r, f) /\ f \in Field
    BY <1>1, <1>2, <2>0
  <2>3. \A j \in 1..k : fields[j] \in Field
    BY <1>1, <2>0
  <2>4. /\ PointersOK(c, t) /\ t.ptr[f] = NULL
        /\ \A g \in Field \ {f} : t.ptr[g] = r.ptr[g]
        /\ Untouched(r, t)
    BY <2>1, <2>2, FreeFieldKeeps
  <2>5. \A j \in 1..i : j \in 1..k \/ j = i
    BY <1>1, <2>0
  <2>6. \A j \in 1..i : t.ptr[fields[j]] = NULL
    BY <2>0, <2>1, <2>3, <2>4, <2>5
  <2>7. \A g \in Field : s.ptr[g] = NULL => t.ptr[g] = NULL
    BY <2>1, <2>4
  <2>8. ASSUME NEW g \in Field, \A j \in 1..i : fields[j] # g
        PROVE  t.ptr[g] = s.ptr[g]
    <3>1. i \in 1..i /\ \A j \in 1..k : j \in 1..i
      BY <1>1, <2>0
    <3>2. g # f /\ \A j \in 1..k : fields[j] # g
      BY <2>0, <2>8, <3>1
    <3> QED
      BY <2>1, <2>4, <3>2
  <2>9. Untouched(s, t)
    BY <2>1, <2>4, UntouchedTwice
  <2>10. i \in 0..n
    BY <1>1
  <2> QED
    BY <2>0, <2>4, <2>6, <2>7, <2>8, <2>9, <2>10
<1>5. n \in P
  <2> HIDE DEF P
  <2>1. \A i \in 0..n : i \in P
    BY <1>1, <1>3, <1>4, StepInduction
  <2>2. n \in 0..n
    BY <1>1
  <2> QED
    BY <2>1, <2>2
<1>6. Holds(n)
  BY <1>5
<1> QED
  BY <1>0, <1>2, <1>6

-----------------------------------------------------------------------------
(***************************************************************************)
(* The order of xgl_init and its cleanup labels                            *)
(***************************************************************************)
\* The place of every field in the longest order.
Rank == [instance |-> 0, small_buffer |-> 1, medium_buffer |-> 2, large_buffer |-> 3,
         packets |-> 4, buckets |-> 5, routes |-> 6, entry_1 |-> 7, entry_2 |-> 8,
         route_last_read_ms |-> 9, rx_cache |-> 10, ack_received |-> 11,
         fragment_mgr |-> 12]

\* Fields in the order of their ranks, all of them in one range.
Rising(fields, low, high) ==
    /\ fields \in Seq(Field)
    /\ \A i \in 1..Len(fields) : low < Rank[fields[i]] /\ Rank[fields[i]] <= high
    /\ \A i, j \in 1..Len(fields) : i < j => Rank[fields[i]] < Rank[fields[j]]

\* Every field has a rank of its own.
LEMMA Ranks ==
    /\ \A f \in Field : Rank[f] \in 0..12
    /\ \A f, g \in Field : Rank[f] = Rank[g] => f = g
    /\ \A f \in Field : Rank[f] = 0 <=> f = "instance"
BY FieldSets DEF Rank

\* One range after the other.
LEMMA RisingJoin ==
    ASSUME NEW low \in Nat, NEW mid \in Nat, NEW high \in Nat, low <= mid, mid <= high,
           NEW s, NEW t, Rising(s, low, mid), Rising(t, mid, high)
    PROVE  Rising(s \o t, low, high)
<1>0. PICK u, m, n : u = s \o t /\ m = Len(s) /\ n = Len(t)
  OBVIOUS
<1>1. s \in Seq(Field) /\ t \in Seq(Field)
  BY DEF Rising
<1>2. /\ u \in Seq(Field) /\ Len(u) = m + n /\ m \in Nat /\ n \in Nat
      /\ \A i \in 1..(m + n) : u[i] = IF i <= m THEN s[i] ELSE t[i - m]
  BY <1>0, <1>1, ConcatProperties
<1>3. /\ \A i \in 1..m : s[i] \in Field /\ Rank[s[i]] \in Int
      /\ \A i \in 1..n : t[i] \in Field /\ Rank[t[i]] \in Int
  <2>1. \A f \in Field : Rank[f] \in Int
    BY Ranks
  <2>2. \A i \in 1..m : s[i] \in Field
    BY <1>0, <1>1
  <2>3. \A i \in 1..n : t[i] \in Field
    BY <1>0, <1>1
  <2> QED
    BY <2>1, <2>2, <2>3
<1>4. /\ \A i \in 1..m : low < Rank[s[i]] /\ Rank[s[i]] <= mid
      /\ \A i, j \in 1..m : i < j => Rank[s[i]] < Rank[s[j]]
      /\ \A i \in 1..n : mid < Rank[t[i]] /\ Rank[t[i]] <= high
      /\ \A i, j \in 1..n : i < j => Rank[t[i]] < Rank[t[j]]
  BY <1>0 DEF Rising
<1>5. ASSUME NEW i \in 1..(m + n)
      PROVE  \/ i \in 1..m /\ u[i] = s[i]
             \/ i - m \in 1..n /\ u[i] = t[i - m]
  BY <1>2
<1>6. \A i \in 1..(m + n) : low < Rank[u[i]] /\ Rank[u[i]] <= high
  BY <1>3, <1>4, <1>5
<1>7. ASSUME NEW i \in 1..(m + n), NEW j \in 1..(m + n), i < j
      PROVE  Rank[u[i]] < Rank[u[j]]
  <2>1. CASE j \in 1..m /\ u[j] = s[j]
    <3>1. i \in 1..m /\ u[i] = s[i]
      BY <1>2, <1>7, <2>1
    <3> QED
      BY <1>4, <1>7, <2>1, <3>1
  <2>2. CASE j - m \in 1..n /\ u[j] = t[j - m]
    <3>1. CASE i \in 1..m /\ u[i] = s[i]
      BY <1>3, <1>4, <2>2, <3>1
    <3>2. CASE i - m \in 1..n /\ u[i] = t[i - m]
      <4>1. i - m < j - m
        BY <1>2, <1>7
      <4> QED
        BY <1>4, <2>2, <3>2, <4>1
    <3> QED
      BY <1>5, <3>1, <3>2
  <2> QED
    BY <1>5, <2>1, <2>2
<1> QED
  BY <1>0, <1>2, <1>6, <1>7 DEF Rising

\* xgl_init allocates its fields in the order of their ranks.
LEMMA OrderRises ==
    ASSUME NEW c, Accepted(c)
    PROVE  Rising(InitOrder(c), 0, 12)
<1>0. PICK tx, pool, entries, reads, layers, last :
         /\ tx = TxFields /\ pool = <<"packets", "buckets", "routes">>
         /\ entries = SubSeq(EntryFields, 1, c.route_table_len)
         /\ reads = (IF c.route_table_len > 0 THEN <<"route_last_read_ms">> ELSE <<>>)
         /\ layers = <<"rx_cache", "ack_received">>
         /\ last = (IF c.enable_fragmentation THEN <<"fragment_mgr">> ELSE <<>>)
  OBVIOUS
<1>1. InitOrder(c) = ((((tx \o pool) \o entries) \o reads) \o layers) \o last
  BY <1>0, Zenon DEF InitOrder
<1>2. Rising(tx, 0, 3)
  BY <1>0, FieldSets DEF Rising, TxFields, Rank
<1>3. Rising(pool, 3, 6)
  BY <1>0, FieldSets DEF Rising, Rank
<1>4. Rising(entries, 6, 8)
  <2>0. PICK k : k = c.route_table_len
    OBVIOUS
  <2>1. k \in 0..2
    BY <2>0, InstanceAssumption, Zenon DEF Accepted
  <2>2. EntryFields[1] = "entry_1" /\ EntryFields[2] = "entry_2"
    BY DEF EntryFields
  <2>3. \A i \in 1..k : i = 1 \/ i = 2
    BY <2>1
  <2>4. \A i \in 1..k : EntryFields[i] \in Field
    BY <2>2, <2>3, FieldSets
  <2>5. /\ entries \in Seq(Field) /\ Len(entries) = k
        /\ \A i \in 1..k : entries[i] = EntryFields[i]
    <3>1. entries = SubSeq(EntryFields, 1, k)
      BY <1>0, <2>0, Zenon
    <3> QED
      BY <2>1, <2>4, <3>1, SubSeqProperties
  <2>6. /\ Rank["entry_1"] = 7 /\ Rank["entry_2"] = 8
    BY DEF Rank
  <2>7. \A i \in 1..k : Rank[entries[i]] = i + 6
    BY <2>2, <2>3, <2>5, <2>6
  <2>8. \A i \in 1..k : 6 < i + 6 /\ i + 6 <= 8
    BY <2>1
  <2> QED
    BY <2>5, <2>7, <2>8 DEF Rising
<1>5. Rising(reads, 8, 9)
  <2>1. reads \in {<<>>, <<"route_last_read_ms">>}
    BY <1>0, Zenon
  <2>2. Rising(<<>>, 8, 9)
    BY DEF Rising
  <2>3. Rising(<<"route_last_read_ms">>, 8, 9)
    BY FieldSets DEF Rising, Rank
  <2> QED
    BY <2>1, <2>2, <2>3
<1>6. Rising(layers, 9, 11)
  BY <1>0, FieldSets DEF Rising, Rank
<1>7. Rising(last, 11, 12)
  <2>1. last \in {<<>>, <<"fragment_mgr">>}
    BY <1>0, Zenon
  <2>2. Rising(<<>>, 11, 12)
    BY DEF Rising
  <2>3. Rising(<<"fragment_mgr">>, 11, 12)
    BY FieldSets DEF Rising, Rank
  <2> QED
    BY <2>1, <2>2, <2>3
<1>8. Rising(tx \o pool, 0, 6)
  BY <1>2, <1>3, RisingJoin
<1>9. Rising((tx \o pool) \o entries, 0, 8)
  BY <1>4, <1>8, RisingJoin
<1>10. Rising(((tx \o pool) \o entries) \o reads, 0, 9)
  BY <1>5, <1>9, RisingJoin
<1>11. Rising((((tx \o pool) \o entries) \o reads) \o layers, 0, 11)
  BY <1>6, <1>10, RisingJoin
<1> QED
  BY <1>1, <1>7, <1>11, RisingJoin

\* So no field comes twice in it, and the instance itself does not.
LEMMA OrderDistinct ==
    ASSUME NEW c, Accepted(c)
    PROVE  LET order == InitOrder(c)
           IN  /\ order \in Seq(Field)
               /\ \A i, j \in 1..Len(order) : order[i] = order[j] => i = j
               /\ \A i \in 1..Len(order) : order[i] # "instance"
<1>0. PICK order, n : order = InitOrder(c) /\ n = Len(order)
  OBVIOUS
<1>1. /\ order \in Seq(Field)
      /\ \A i \in 1..n : 0 < Rank[order[i]]
      /\ \A i, j \in 1..n : i < j => Rank[order[i]] < Rank[order[j]]
  BY <1>0, OrderRises DEF Rising
<1>2. n \in Nat /\ \A i \in 1..n : order[i] \in Field /\ Rank[order[i]] \in Int
  BY <1>0, <1>1, Ranks
<1>3. ASSUME NEW i \in 1..n, NEW j \in 1..n, order[i] = order[j]
      PROVE  i = j
  BY <1>1, <1>2, <1>3
<1>4. \A i \in 1..n : order[i] # "instance"
  BY <1>1, <1>2, Ranks
<1> QED
  BY <1>0, <1>1, <1>3, <1>4

\* The prefixes FlattenSeq builds.
Prefix(g, seqs, i) == IF i = 1 THEN seqs[i] ELSE g[i - 1] \o seqs[i]

\* The recursive function inside FlattenSeq exists.
LEMMA FlattenExists ==
    ASSUME NEW n \in Nat, NEW seqs
    PROVE  \E g : g = [i \in 1..n |-> Prefix(g, seqs, i)]
<1> DEFINE Upto(g, i) == \A k \in 1..i : g[k] = Prefix(g, seqs, k)
           P == {i \in 0..n : \E g : g = [k \in 1..n |-> g[k]] /\ Upto(g, i)}
<1>1. 0 \in P
  <2>1. PICK g : g = [k \in 1..n |-> 0]
    OBVIOUS
  <2>2. g = [k \in 1..n |-> g[k]] /\ Upto(g, 0)
    BY <2>1
  <2> QED
    BY <2>2
<1>2. ASSUME NEW i \in 1..n, i - 1 \in P
      PROVE  i \in P
  <2>1. PICK g : g = [k \in 1..n |-> g[k]] /\ Upto(g, i - 1)
    BY <1>2
  <2>2. PICK h : h = [k \in 1..n |-> IF k = i THEN Prefix(g, seqs, i) ELSE g[k]]
    OBVIOUS
  <2>3. h = [k \in 1..n |-> h[k]]
    BY <2>2
  <2>4. ASSUME NEW k \in 1..i
        PROVE  h[k] = Prefix(h, seqs, k)
    <3>1. k \in 1..n /\ (k # 1 => k - 1 \in 1..n /\ k - 1 # i)
      OBVIOUS
    <3>2. k # 1 => h[k - 1] = g[k - 1]
      BY <2>2, <3>1
    <3>3. Prefix(h, seqs, k) = Prefix(g, seqs, k)
      BY <3>2 DEF Prefix
    <3>4. CASE k = i
      BY <2>2, <3>1, <3>3, <3>4
    <3>5. CASE k # i
      <4>1. k \in 1..(i - 1)
        BY <3>5
      <4>2. h[k] = g[k]
        BY <2>2, <3>1, <3>5
      <4> QED
        BY <2>1, <3>3, <4>1, <4>2
    <3> QED
      BY <3>4, <3>5
  <2>5. i \in 0..n
    OBVIOUS
  <2> QED
    BY <2>3, <2>4, <2>5
<1>3. n \in P
  <2> HIDE DEF P
  <2>1. \A i \in 0..n : i \in P
    BY <1>1, <1>2, StepInduction
  <2> QED
    BY <2>1
<1>4. PICK g : g = [k \in 1..n |-> g[k]] /\ Upto(g, n)
  BY <1>3
<1>5. [k \in 1..n |-> g[k]] = [k \in 1..n |-> Prefix(g, seqs, k)]
  BY <1>4
<1> QED
  BY <1>4, <1>5

\* A concatenation has the elements of both its parts.
LEMMA ConcatHas ==
    ASSUME NEW S, NEW s \in Seq(S), NEW t \in Seq(S)
    PROVE  /\ s \o t \in Seq(S)
           /\ ToSet(s \o t) = ToSet(s) \union ToSet(t)
<1>0. PICK u, m, n : u = s \o t /\ m = Len(s) /\ n = Len(t)
  OBVIOUS
<1>1. /\ u \in Seq(S) /\ Len(u) = m + n /\ m \in Nat /\ n \in Nat
      /\ \A i \in 1..(m + n) : u[i] = IF i <= m THEN s[i] ELSE t[i - m]
  BY <1>0, ConcatProperties
<1>2. DOMAIN u = 1..(m + n) /\ DOMAIN s = 1..m /\ DOMAIN t = 1..n
  BY <1>0, <1>1
<1>3. \A i \in 1..m : i \in 1..(m + n) /\ u[i] = s[i]
  BY <1>1
<1>4. \A i \in 1..n : i + m \in 1..(m + n) /\ u[i + m] = t[i]
  BY <1>1
<1>5. \A i \in 1..(m + n) : \/ i \in 1..m /\ u[i] = s[i]
                            \/ i - m \in 1..n /\ u[i] = t[i - m]
  BY <1>1
<1>6. ToSet(u) \subseteq ToSet(s) \union ToSet(t)
  BY <1>2, <1>5 DEF ToSet
<1>7. ToSet(s) \subseteq ToSet(u)
  BY <1>2, <1>3 DEF ToSet
<1>8. ToSet(t) \subseteq ToSet(u)
  BY <1>2, <1>4 DEF ToSet
<1> QED
  BY <1>0, <1>1, <1>6, <1>7, <1>8

\* FlattenSeq of sequences is a sequence that has all their elements.
LEMMA FlattenHas ==
    ASSUME NEW S, NEW n \in Nat \ {0}, NEW seqs, seqs \in Seq(Seq(S)), Len(seqs) = n
    PROVE  /\ FlattenSeq(seqs) \in Seq(S)
           /\ \A j \in 1..n : ToSet(seqs[j]) \subseteq ToSet(FlattenSeq(seqs))
<1> DEFINE I == CHOOSE g : g = [i \in 1..n |-> IF i = 1 THEN seqs[i] ELSE g[i - 1] \o seqs[i]]
<1>1. FlattenSeq(seqs) = I[n]
  BY DEF FlattenSeq
<1>2. I = [i \in 1..n |-> Prefix(I, seqs, i)]
  <2>1. \E g : g = [i \in 1..n |-> IF i = 1 THEN seqs[i] ELSE g[i - 1] \o seqs[i]]
    BY FlattenExists DEF Prefix
  <2>2. I = [i \in 1..n |-> IF i = 1 THEN seqs[i] ELSE I[i - 1] \o seqs[i]]
    BY <2>1
  <2> HIDE DEF I
  <2> QED
    BY <2>2 DEF Prefix
<1> HIDE DEF I
<1>3. \A i \in 1..n : seqs[i] \in Seq(S)
  OBVIOUS
<1> DEFINE Holds(i) == /\ I[i] \in Seq(S)
                       /\ \A j \in 1..i : ToSet(seqs[j]) \subseteq ToSet(I[i])
           P == {i \in 0..n : i = 0 \/ Holds(i)}
<1>4. 0 \in P
  OBVIOUS
<1>5. ASSUME NEW i \in 1..n, i - 1 \in P
      PROVE  i \in P
  <2>1. I[i] = Prefix(I, seqs, i)
    BY <1>2
  <2>2. CASE i = 1
    <3>1. I[i] = seqs[i]
      BY <2>1, <2>2 DEF Prefix
    <3>2. \A j \in 1..i : j = i
      BY <2>2
    <3>3. I[i] \in Seq(S) /\ \A j \in 1..i : ToSet(seqs[j]) \subseteq ToSet(I[i])
      BY <1>3, <3>1, <3>2
    <3>4. i \in 0..n
      OBVIOUS
    <3> QED
      BY <3>3, <3>4
  <2>3. CASE i # 1
    <3>1. I[i] = I[i - 1] \o seqs[i]
      BY <2>1, <2>3 DEF Prefix
    <3>2. i - 1 # 0 /\ i \in 0..n
      BY <2>3
    <3>3. Holds(i - 1)
      BY <1>5, <3>2
    <3>4. /\ I[i] \in Seq(S)
          /\ ToSet(I[i]) = ToSet(I[i - 1]) \union ToSet(seqs[i])
      BY <1>3, <3>1, <3>3, ConcatHas
    <3>5. \A j \in 1..i : j \in 1..(i - 1) \/ j = i
      OBVIOUS
    <3>6. Holds(i)
      BY <3>3, <3>4, <3>5
    <3> QED
      BY <3>2, <3>6
  <2> QED
    BY <2>2, <2>3
<1>6. n \in P
  <2> HIDE DEF P
  <2>1. \A i \in 0..n : i \in P
    BY <1>4, <1>5, StepInduction
  <2> QED
    BY <2>1
<1>7. Holds(n)
  BY <1>6
<1> QED
  BY <1>1, <1>7

\* What every label releases.
LEMMA ReleasedSets ==
    /\ \A k \in 1..9 : ReleasedAt(Labels[k]) \in Seq(Field)
    /\ "rx_cache" \in ToSet(ReleasedAt(Labels[4]))
    /\ "route_last_read_ms" \in ToSet(ReleasedAt(Labels[5]))
    /\ {"entry_1", "entry_2", "buckets", "routes"} \subseteq ToSet(ReleasedAt(Labels[6]))
    /\ "packets" \in ToSet(ReleasedAt(Labels[7]))
    /\ {"small_buffer", "medium_buffer", "large_buffer"} \subseteq ToSet(ReleasedAt(Labels[8]))
<1>1. /\ ReleasedAt(Labels[1]) = <<"fragment_mgr", "ack_received">>
      /\ ReleasedAt(Labels[2]) = <<>> /\ ReleasedAt(Labels[3]) = <<>>
      /\ ReleasedAt(Labels[4]) = <<"rx_cache">>
      /\ ReleasedAt(Labels[5]) = <<"route_last_read_ms">>
      /\ ReleasedAt(Labels[6]) = EntryFields \o <<"buckets", "routes">>
      /\ ReleasedAt(Labels[7]) = <<"packets">>
      /\ ReleasedAt(Labels[8]) = TxFields
      /\ ReleasedAt(Labels[9]) = <<>>
  BY DEF Labels, ReleasedAt
<1>2. TxFields \in Seq(Field) /\ EntryFields \in Seq(Field)
  BY FieldSets DEF TxFields, EntryFields
<1>3. <<"buckets", "routes">> \in Seq(Field)
  BY FieldSets
<1>4. ToSet(<<"buckets", "routes">>) = {"buckets", "routes"}
  BY DEF ToSet
<1>5. /\ EntryFields \o <<"buckets", "routes">> \in Seq(Field)
      /\ ToSet(EntryFields \o <<"buckets", "routes">>)
            = {"entry_1", "entry_2"} \union {"buckets", "routes"}
  <2>1. PICK e, t : e = EntryFields /\ t = <<"buckets", "routes">>
    OBVIOUS
  <2>2. e \in Seq(Field) /\ t \in Seq(Field)
    BY <1>2, <1>3, <2>1
  <2>3. e \o t \in Seq(Field) /\ ToSet(e \o t) = ToSet(e) \union ToSet(t)
    BY <2>2, ConcatHas
  <2> QED
    BY <1>4, <2>1, <2>3, FieldSets
<1>6. /\ <<"fragment_mgr", "ack_received">> \in Seq(Field) /\ <<>> \in Seq(Field)
      /\ <<"rx_cache">> \in Seq(Field) /\ <<"route_last_read_ms">> \in Seq(Field)
      /\ <<"packets">> \in Seq(Field)
  BY FieldSets
<1>7. \A k \in 1..9 : k = 1 \/ k = 2 \/ k = 3 \/ k = 4 \/ k = 5 \/ k = 6 \/ k = 7
                      \/ k = 8 \/ k = 9
  OBVIOUS
<1>8. ASSUME NEW k \in 1..9
      PROVE  ReleasedAt(Labels[k]) \in Seq(Field)
  BY <1>1, <1>2, <1>5, <1>6, <1>7, Zenon
<1>9. /\ "rx_cache" \in ToSet(<<"rx_cache">>)
      /\ "route_last_read_ms" \in ToSet(<<"route_last_read_ms">>)
      /\ "packets" \in ToSet(<<"packets">>)
  BY DEF ToSet
<1>10. ToSet(ReleasedAt(Labels[6])) = {"entry_1", "entry_2"} \union {"buckets", "routes"}
  BY <1>1, <1>5
<1>11. ToSet(ReleasedAt(Labels[8])) = {"small_buffer", "medium_buffer", "large_buffer"}
  BY <1>1, FieldSets
<1> QED
  BY <1>1, <1>8, <1>9, <1>10, <1>11

\* Control falls through the labels: from label i on, all is released.
LEMMA CleanupHas ==
    ASSUME NEW i \in 1..9
    PROVE  /\ CleanupFrom(Labels[i]) \in Seq(Field)
           /\ \A k \in i..9 :
                 ToSet(ReleasedAt(Labels[k])) \subseteq ToSet(CleanupFrom(Labels[i]))
<1>1. Len(Labels) = 9 /\ DOMAIN Labels = 1..9
  BY DEF Labels
<1>2. \A j \in 1..9 : Labels[j] = Labels[i] => j = i
  <2>1. \A j \in 1..9 : j = 1 \/ j = 2 \/ j = 3 \/ j = 4 \/ j = 5 \/ j = 6 \/ j = 7
                        \/ j = 8 \/ j = 9
    OBVIOUS
  <2>2. /\ Labels[1] = "cleanup_transport" /\ Labels[2] = "cleanup_network"
        /\ Labels[3] = "cleanup_datalink" /\ Labels[4] = "cleanup_rx_buffer"
        /\ Labels[5] = "cleanup_route_read_times" /\ Labels[6] = "cleanup_route_table"
        /\ Labels[7] = "cleanup_packet_pool" /\ Labels[8] = "cleanup_tx_pool"
        /\ Labels[9] = "cleanup"
    BY DEF Labels
  <2> QED
    BY <2>1, <2>2
<1>3. (CHOOSE j \in DOMAIN Labels : Labels[j] = Labels[i]) = i
  BY <1>1, <1>2
<1>4. PICK n, seqs : /\ n = 9 - i + 1
                     /\ seqs = [j \in 1..n |-> ReleasedAt(Labels[i + j - 1])]
  OBVIOUS
<1>5. n \in Nat \ {0} /\ \A j \in 1..n : i + j - 1 \in 1..9
  BY <1>4
<1>6. \A j \in 1..n : seqs[j] = ReleasedAt(Labels[i + j - 1]) /\ seqs[j] \in Seq(Field)
  BY <1>4, <1>5, ReleasedSets
<1>7. seqs \in Seq(Seq(Field)) /\ Len(seqs) = n
  BY <1>4, <1>5, <1>6
<1>8. CleanupFrom(Labels[i]) = FlattenSeq(seqs)
  BY <1>1, <1>3, <1>4 DEF CleanupFrom
<1>9. /\ FlattenSeq(seqs) \in Seq(Field)
      /\ \A j \in 1..n : ToSet(seqs[j]) \subseteq ToSet(FlattenSeq(seqs))
  BY <1>5, <1>7, FlattenHas
<1>10. ASSUME NEW k \in i..9
       PROVE  ToSet(ReleasedAt(Labels[k])) \subseteq ToSet(FlattenSeq(seqs))
  <2>1. k - i + 1 \in 1..n /\ i + (k - i + 1) - 1 = k
    BY <1>4
  <2>2. seqs[k - i + 1] = ReleasedAt(Labels[k])
    BY <1>6, <2>1
  <2> QED
    BY <1>9, <2>1, <2>2
<1> QED
  BY <1>8, <1>9, <1>10

\* What is released when the allocation of a field fails: all that was
\* allocated before it.
LEMMA CleanupCovers ==
    ASSUME NEW f \in Field, f # "instance"
    PROVE  LET seq == OwnRollback(f) \o CleanupFrom(LabelOf(f))
           IN  /\ seq \in Seq(Field)
               /\ \A g \in Field : 0 < Rank[g] /\ Rank[g] < Rank[f] => g \in ToSet(seq)
<1>0. PICK own, rest : own = OwnRollback(f) /\ rest = CleanupFrom(LabelOf(f))
  OBVIOUS
<1>1. own \in Seq(Field)
  <2>1. <<"buckets">> \in Seq(Field) /\ <<"ack_received">> \in Seq(Field)
        /\ <<>> \in Seq(Field) /\ TxFields \in Seq(Field)
    BY FieldSets DEF TxFields
  <2>2. own \in {TxFields, <<"buckets">>, <<"ack_received">>, <<>>}
    BY <1>0, FieldSets DEF OwnRollback
  <2> QED
    BY <2>1, <2>2
<1>2. PICK i \in 1..9 : LabelOf(f) = Labels[i] /\
         i = CASE f \in {"small_buffer", "medium_buffer", "large_buffer"} -> 9
               [] f = "packets" -> 8
               [] f \in {"buckets", "routes"} -> 7
               [] f \in {"entry_1", "entry_2", "route_last_read_ms"} -> 6
               [] f = "rx_cache" -> 5
               [] f \in {"ack_received", "fragment_mgr"} -> 2
  BY FieldSets DEF LabelOf, Labels
<1>3. /\ rest \in Seq(Field)
      /\ \A k \in i..9 : ToSet(ReleasedAt(Labels[k])) \subseteq ToSet(rest)
  BY <1>0, <1>2, CleanupHas
<1>4. own \o rest \in Seq(Field) /\ ToSet(own \o rest) = ToSet(own) \union ToSet(rest)
  BY <1>1, <1>3, ConcatHas
<1>5. /\ i <= 4 => "rx_cache" \in ToSet(rest)
      /\ i <= 5 => "route_last_read_ms" \in ToSet(rest)
      /\ i <= 6 => {"entry_1", "entry_2", "buckets", "routes"} \subseteq ToSet(rest)
      /\ i <= 7 => "packets" \in ToSet(rest)
      /\ i <= 8 => {"small_buffer", "medium_buffer", "large_buffer"} \subseteq ToSet(rest)
  <2>1. \A k \in 1..9 : i <= k => k \in i..9
    OBVIOUS
  <2> QED
    BY <1>3, <2>1, ReleasedSets
<1>6. /\ f \in {"small_buffer", "medium_buffer", "large_buffer"} =>
            ToSet(own) = {"small_buffer", "medium_buffer", "large_buffer"}
      /\ f = "routes" => "buckets" \in ToSet(own)
      /\ f = "fragment_mgr" => "ack_received" \in ToSet(own)
  <2>1. /\ f \in {"small_buffer", "medium_buffer", "large_buffer"} => own = TxFields
        /\ f = "routes" => own = <<"buckets">>
        /\ f = "fragment_mgr" => own = <<"ack_received">>
    BY <1>0, FieldSets DEF OwnRollback
  <2>2. "buckets" \in ToSet(<<"buckets">>) /\ "ack_received" \in ToSet(<<"ack_received">>)
    BY DEF ToSet
  <2> QED
    BY <2>1, <2>2, FieldSets
<1>7. ASSUME NEW g \in Field, 0 < Rank[g], Rank[g] < Rank[f]
      PROVE  g \in ToSet(own) \union ToSet(rest)
  <2>1. Rank[f] \in 1..12 /\ Rank[g] \in 1..12
    BY <1>7, Ranks
  <2>2. /\ Rank["small_buffer"] = 1 /\ Rank["medium_buffer"] = 2 /\ Rank["large_buffer"] = 3
        /\ Rank["packets"] = 4 /\ Rank["buckets"] = 5 /\ Rank["routes"] = 6
        /\ Rank["entry_1"] = 7 /\ Rank["entry_2"] = 8 /\ Rank["route_last_read_ms"] = 9
        /\ Rank["rx_cache"] = 10 /\ Rank["ack_received"] = 11 /\ Rank["fragment_mgr"] = 12
        /\ Rank["instance"] = 0
    BY DEF Rank
  <2>3. CASE f \in {"small_buffer", "medium_buffer", "large_buffer"}
    <3>1. g \in {"small_buffer", "medium_buffer"}
      BY <1>7, <2>2, <2>3, FieldSets
    <3> QED
      BY <1>6, <2>3, <3>1
  <2>4. CASE f = "packets"
    <3>1. g \in {"small_buffer", "medium_buffer", "large_buffer"}
      BY <1>7, <2>2, <2>4, FieldSets
    <3> QED
      BY <1>2, <1>5, <2>4, <3>1
  <2>5. CASE f \in {"buckets", "routes"}
    <3>1. \/ g \in {"small_buffer", "medium_buffer", "large_buffer", "packets"}
          \/ f = "routes" /\ g = "buckets"
      BY <1>7, <2>2, <2>5, FieldSets
    <3> QED
      BY <1>2, <1>5, <1>6, <2>5, <3>1
  <2>6. CASE f \in {"entry_1", "entry_2", "route_last_read_ms"}
    <3>1. g \in {"small_buffer", "medium_buffer", "large_buffer", "packets", "buckets",
                 "routes", "entry_1", "entry_2"}
      BY <1>7, <2>2, <2>6, FieldSets
    <3> QED
      BY <1>2, <1>5, <2>6, <3>1
  <2>7. CASE f = "rx_cache"
    <3>1. g \in {"small_buffer", "medium_buffer", "large_buffer", "packets", "buckets",
                 "routes", "entry_1", "entry_2", "route_last_read_ms"}
      BY <1>7, <2>2, <2>7, FieldSets
    <3> QED
      BY <1>2, <1>5, <2>7, <3>1
  <2>8. CASE f \in {"ack_received", "fragment_mgr"}
    <3>1. \/ g \in {"small_buffer", "medium_buffer", "large_buffer", "packets", "buckets",
                    "routes", "entry_1", "entry_2", "route_last_read_ms", "rx_cache"}
          \/ f = "fragment_mgr" /\ g = "ack_received"
      BY <1>7, <2>2, <2>8, FieldSets
    <3> QED
      BY <1>2, <1>5, <1>6, <2>8, <3>1
  <2> QED
    BY <2>3, <2>4, <2>5, <2>6, <2>7, <2>8, FieldSets
<1> QED
  BY <1>0, <1>4, <1>7

\* The instance has no memory but its own structure.
Bare(s) == \A f \in Field \ {"instance"} : s.ptr[f] = NULL

\* xgl_init that gets through leaves every field of its order with memory.
LEMMA InitAllocates ==
    ASSUME NEW c, Accepted(c), NEW s, PointersOK(c, s), Bare(s), MaySucceed(c)
    PROVE  LET t == AllocFields(c, s, InitOrder(c))
           IN  /\ PointersOK(c, t) /\ Untouched(s, t)
               /\ \A f \in ToSet(InitOrder(c)) : t.ptr[f] # NULL
<1>0. PICK order, t : order = InitOrder(c) /\ t = AllocFields(c, s, order)
  OBVIOUS
<1>1. /\ order \in Seq(Field)
      /\ \A i, j \in 1..Len(order) : order[i] = order[j] => i = j
      /\ \A i \in 1..Len(order) : order[i] # "instance"
  BY <1>0, OrderDistinct
<1>2. DOMAIN order = 1..Len(order)
  BY <1>1
<1>3. \A i \in 1..Len(order) : Serves(AllocatorOf(c, order[i]))
  BY <1>0, <1>2 DEF MaySucceed, ToSet
<1>4. \A i \in 1..Len(order) : order[i] \in Field /\ s.ptr[order[i]] = NULL
  BY <1>1 DEF Bare
<1>5. /\ PointersOK(c, t) /\ Untouched(s, t)
      /\ \A i \in 1..Len(order) : t.ptr[order[i]] # NULL
  BY <1>0, <1>1, <1>3, <1>4, AllocFieldsKeep
<1>6. \A f \in ToSet(order) : t.ptr[f] # NULL
  BY <1>2, <1>5 DEF ToSet
<1> QED
  BY <1>0, <1>5, <1>6

\* Wherever xgl_init fails, its cleanup takes back what it had allocated, and
\* nothing else.
LEMMA InitCleansUp ==
    ASSUME NEW c, Accepted(c), NEW s, PointersOK(c, s), Bare(s), NEW f \in MayFailAt(c)
    PROVE  LET t == InitFailingAt(c, s, f)
           IN  PointersOK(c, t) /\ Untouched(s, t) /\ Bare(t)
<1>0. PICK order, n : order = InitOrder(c) /\ n = Len(order)
  OBVIOUS
<1>1. /\ order \in Seq(Field) /\ n \in Nat /\ DOMAIN order = 1..n
      /\ \A i, j \in 1..n : order[i] = order[j] => i = j
      /\ \A i \in 1..n : order[i] # "instance" /\ order[i] \in Field
  BY <1>0, OrderDistinct
<1>2. PICK k \in 1..n : /\ order[k] = f
                        /\ \A i \in 1..(k - 1) : Serves(AllocatorOf(c, order[i]))
  BY <1>0, <1>1 DEF MayFailAt
<1>3. (CHOOSE i \in DOMAIN order : order[i] = f) = k
  BY <1>1, <1>2
<1>4. PICK before, reached, seq, t :
         /\ before = SubSeq(order, 1, k - 1) /\ reached = AllocFields(c, s, before)
         /\ seq = OwnRollback(f) \o CleanupFrom(LabelOf(f))
         /\ t = FreeFields(c, reached, seq)
  OBVIOUS
<1>5. InitFailingAt(c, s, f) = t
  <2>1. ~(f = "rx_cache" /\ ParserRejects(c))
    BY NeverRejected DEF Rejects
  <2> QED
    BY <1>0, <1>3, <1>4, <2>1 DEF InitFailingAt
<1>6. \A i \in 1..(k - 1) : i \in 1..n /\ i < k /\ order[i] \in Field
  BY <1>1
<1>7. /\ before \in Seq(Field) /\ Len(before) = k - 1
      /\ \A i \in 1..(k - 1) : before[i] = order[i]
  <2>1. k - 1 \in Int /\ 1 \in Int /\ k - 1 >= 0
    BY <1>1
  <2> QED
    BY <1>4, <1>6, <2>1, SubSeqProperties
<1>8. /\ \A i, j \in 1..Len(before) : before[i] = before[j] => i = j
      /\ \A i \in 1..Len(before) :
            s.ptr[before[i]] = NULL /\ Serves(AllocatorOf(c, before[i]))
  BY <1>1, <1>2, <1>6, <1>7 DEF Bare
<1>9. /\ PointersOK(c, reached) /\ Untouched(s, reached)
      /\ \A g \in Field : (\A i \in 1..Len(before) : before[i] # g)
                          => reached.ptr[g] = s.ptr[g]
  <2>1. reached = AllocFields(c, s, before)
    BY <1>4
  <2> QED
    BY <1>7, <1>8, <2>1, AllocFieldsKeep
<1>10. f \in Field /\ f # "instance"
  BY <1>1, <1>2
<1>11. /\ seq \in Seq(Field)
       /\ \A g \in Field : 0 < Rank[g] /\ Rank[g] < Rank[f] => g \in ToSet(seq)
  BY <1>4, <1>10, CleanupCovers
<1>12. /\ PointersOK(c, t) /\ Untouched(reached, t)
       /\ \A i \in 1..Len(seq) : t.ptr[seq[i]] = NULL
       /\ \A g \in Field : reached.ptr[g] = NULL => t.ptr[g] = NULL
  <2>1. t = FreeFields(c, reached, seq)
    BY <1>4
  <2> QED
    BY <1>9, <1>11, <2>1, FreeFieldsKeep
<1>13. ASSUME NEW g \in Field, g # "instance"
       PROVE  t.ptr[g] = NULL
  <2>1. CASE \E i \in 1..(k - 1) : order[i] = g
    <3>1. PICK i \in 1..(k - 1) : order[i] = g
      BY <2>1
    <3>2. Rank[g] < Rank[f]
      BY <1>0, <1>2, <1>6, <3>1, OrderRises DEF Rising
    <3>3. 0 < Rank[g]
      BY <1>13, Ranks
    <3>4. g \in ToSet(seq)
      BY <1>11, <3>2, <3>3
    <3>5. PICK j \in DOMAIN seq : seq[j] = g
      BY <3>4 DEF ToSet
    <3>6. j \in 1..Len(seq)
      BY <1>11, <3>5
    <3> QED
      BY <1>12, <3>5, <3>6
  <2>2. CASE \A i \in 1..(k - 1) : order[i] # g
    <3>1. reached.ptr[g] = s.ptr[g]
      BY <1>7, <1>9, <2>2
    <3> QED
      BY <1>12, <1>13, <3>1 DEF Bare
  <2> QED
    BY <2>1, <2>2
<1>14. Untouched(s, t)
  BY <1>9, <1>12, UntouchedTwice
<1> QED
  BY <1>5, <1>12, <1>13, <1>14 DEF Bare

\* xgl_destroy reaches every field.
LEMMA DestroyCovers ==
    LET seq == Append(DestroyOrder, "instance")
    IN  seq \in Seq(Field) /\ Field \subseteq ToSet(seq)
<1>0. PICK first, entries, table, tx :
         /\ first = <<"fragment_mgr", "ack_received", "rx_cache", "route_last_read_ms">>
         /\ entries = EntryFields /\ table = <<"buckets", "routes", "packets">>
         /\ tx = TxFields
  OBVIOUS
<1>1. DestroyOrder = ((first \o entries) \o table) \o tx
  BY <1>0 DEF DestroyOrder
<1>2. first \in Seq(Field) /\ table \in Seq(Field)
  BY <1>0, FieldSets
<1>3. entries \in Seq(Field) /\ tx \in Seq(Field)
  BY <1>0, FieldSets DEF EntryFields, TxFields
<1>4. /\ ToSet(first) = {"fragment_mgr", "ack_received", "rx_cache", "route_last_read_ms"}
      /\ ToSet(table) = {"buckets", "routes", "packets"}
  <2>1. ToSet(first) = {"fragment_mgr", "ack_received", "rx_cache", "route_last_read_ms"}
    <3>1. first = <<"fragment_mgr", "ack_received", "rx_cache", "route_last_read_ms">>
      BY <1>0
    <3> QED
      BY <3>1 DEF ToSet
  <2>2. ToSet(table) = {"buckets", "routes", "packets"}
    <3>1. table = <<"buckets", "routes", "packets">>
      BY <1>0
    <3> QED
      BY <3>1 DEF ToSet
  <2> QED
    BY <2>1, <2>2
<1>5. PICK a : a = first \o entries
  OBVIOUS
<1>6. a \in Seq(Field) /\ ToSet(a) = ToSet(first) \union ToSet(entries)
  BY <1>2, <1>3, <1>5, ConcatHas
<1>7. PICK b : /\ b = a \o table /\ b \in Seq(Field)
               /\ ToSet(b) = ToSet(a) \union ToSet(table)
  <2>1. a \in Seq(Field) /\ table \in Seq(Field)
    BY <1>2, <1>6
  <2>2. a \o table \in Seq(Field) /\ ToSet(a \o table) = ToSet(a) \union ToSet(table)
    BY <2>1, ConcatHas
  <2> QED
    BY <2>2
<1>8. PICK d : /\ d = b \o tx /\ d \in Seq(Field)
               /\ ToSet(d) = ToSet(b) \union ToSet(tx)
  <2>1. b \in Seq(Field) /\ tx \in Seq(Field)
    BY <1>3, <1>7
  <2>2. b \o tx \in Seq(Field) /\ ToSet(b \o tx) = ToSet(b) \union ToSet(tx)
    BY <2>1, ConcatHas
  <2> QED
    BY <2>2
<1>9. PICK seq : seq = Append(d, "instance")
  OBVIOUS
<1>10. "instance" \in Field
  BY FieldSets
<1>11. /\ seq \in Seq(Field) /\ Len(seq) = Len(d) + 1 /\ seq[Len(d) + 1] = "instance"
       /\ \A i \in 1..Len(d) : seq[i] = d[i]
  BY <1>8, <1>9, <1>10, AppendProperties
<1>12. Len(d) \in Nat /\ DOMAIN d = 1..Len(d) /\ DOMAIN seq = 1..(Len(d) + 1)
  BY <1>8, <1>11
<1>13. ToSet(d) \subseteq ToSet(seq) /\ "instance" \in ToSet(seq)
  <2>1. \A i \in 1..Len(d) : i \in 1..(Len(d) + 1)
    BY <1>12
  <2>2. Len(d) + 1 \in 1..(Len(d) + 1)
    BY <1>12
  <2> QED
    BY <1>11, <1>12, <2>1, <2>2 DEF ToSet
<1>14. Field \subseteq ToSet(seq)
  BY <1>0, <1>4, <1>6, <1>7, <1>8, <1>13, FieldSets
<1> QED
  BY <1>1, <1>5, <1>7, <1>8, <1>9, <1>11, <1>14

-----------------------------------------------------------------------------
(***************************************************************************)
(* Codecs, free lists and pools                                            *)
(***************************************************************************)
\* A new element at the end of a sequence without repetitions.
LEMMA AppendNew ==
    ASSUME NEW s \in Seq(Nat), IsInjective(s), NEW x \in Nat, x \notin ToSet(s)
    PROVE  /\ Append(s, x) \in Seq(Nat) /\ IsInjective(Append(s, x))
           /\ Len(Append(s, x)) = Len(s) + 1
           /\ ToSet(Append(s, x)) = ToSet(s) \union {x}
<1>0. PICK t, n : t = Append(s, x) /\ n = Len(s)
  OBVIOUS
<1>1. /\ t \in Seq(Nat) /\ Len(t) = n + 1 /\ t[n + 1] = x /\ n \in Nat
      /\ \A i \in 1..n : t[i] = s[i]
  BY <1>0, AppendProperties
<1>2. DOMAIN t = 1..(n + 1) /\ DOMAIN s = 1..n
  BY <1>0, <1>1
<1>3. \A i \in 1..(n + 1) : i \in 1..n \/ i = n + 1
  BY <1>1
<1>4. \A i \in 1..n : i \in 1..(n + 1) /\ s[i] # x
  BY <1>1, <1>2 DEF ToSet
<1>5. IsInjective(t)
  BY <1>1, <1>2, <1>3, <1>4 DEF IsInjective
<1>6. n + 1 \in 1..(n + 1)
  BY <1>1
<1>7. ToSet(t) = ToSet(s) \union {x}
  BY <1>1, <1>2, <1>3, <1>4, <1>6 DEF ToSet
<1> QED
  BY <1>0, <1>1, <1>5, <1>7

\* A new element before it.
LEMMA PushNew ==
    ASSUME NEW s \in Seq(Nat), IsInjective(s), NEW x \in Nat, x \notin ToSet(s)
    PROVE  /\ <<x>> \o s \in Seq(Nat) /\ IsInjective(<<x>> \o s)
           /\ Len(<<x>> \o s) = Len(s) + 1
           /\ ToSet(<<x>> \o s) = ToSet(s) \union {x}
<1>0. PICK one, t, n : one = <<x>> /\ t = one \o s /\ n = Len(s)
  OBVIOUS
<1>1. one \in Seq(Nat) /\ Len(one) = 1 /\ one[1] = x
  BY <1>0
<1>2. /\ t \in Seq(Nat) /\ Len(t) = 1 + n /\ n \in Nat
      /\ \A i \in 1..(1 + n) : t[i] = IF i <= 1 THEN one[i] ELSE s[i - 1]
  BY <1>0, <1>1, ConcatProperties
<1>3. DOMAIN t = 1..(n + 1) /\ DOMAIN s = 1..n
  BY <1>0, <1>2
<1>4. t[1] = x /\ 1 \in 1..(n + 1)
  <2>1. 1 \in 1..(1 + n)
    BY <1>2
  <2> QED
    BY <1>1, <1>2, <2>1
<1>5. ASSUME NEW i \in 1..n
      PROVE  i + 1 \in 1..(n + 1) /\ t[i + 1] = s[i]
  <2>1. PICK k : k = i + 1
    OBVIOUS
  <2>2. k \in 1..(1 + n) /\ k \in 1..(n + 1) /\ ~(k <= 1) /\ k - 1 = i
    BY <1>2, <2>1
  <2>3. t[k] = s[k - 1]
    BY <1>2, <2>2
  <2>4. t[k] = s[i]
    BY <2>2, <2>3
  <2> QED
    BY <2>1, <2>2, <2>4
<1>6. ASSUME NEW i \in 1..(n + 1), i # 1
      PROVE  i - 1 \in 1..n /\ t[i] = s[i - 1]
  <2>1. i \in 1..(1 + n) /\ ~(i <= 1) /\ i - 1 \in 1..n
    BY <1>2, <1>6
  <2> QED
    BY <1>2, <2>1
<1>7. IsInjective(t)
  <2>0. /\ \A i \in 1..n : s[i] # x
        /\ \A i, j \in 1..n : s[i] = s[j] => i = j
    BY <1>3 DEF ToSet, IsInjective
  <2>1. ASSUME NEW i \in 1..(n + 1), NEW j \in 1..(n + 1), t[i] = t[j]
        PROVE  i = j
    <3>1. CASE i = 1 \/ j = 1
      BY <1>4, <1>6, <2>0, <2>1, <3>1
    <3>2. CASE i # 1 /\ j # 1
      <4>1. i - 1 = j - 1
        BY <1>6, <2>0, <2>1, <3>2
      <4> QED
        BY <4>1
    <3> QED
      BY <3>1, <3>2
  <2> QED
    BY <1>3, <2>1 DEF IsInjective
<1>8. ToSet(t) = ToSet(s) \union {x}
  <2>0. ToSet(t) = {t[i] : i \in 1..(n + 1)} /\ ToSet(s) = {s[i] : i \in 1..n}
    BY <1>3 DEF ToSet
  <2>1. ASSUME NEW y \in ToSet(t)
        PROVE  y \in ToSet(s) \union {x}
    <3>1. PICK i \in 1..(n + 1) : y = t[i]
      BY <2>0
    <3> QED
      BY <1>4, <1>6, <2>0, <3>1
  <2>2. ASSUME NEW y \in ToSet(s)
        PROVE  y \in ToSet(t)
    <3>1. PICK i \in 1..n : y = s[i]
      BY <2>0
    <3> QED
      BY <1>5, <2>0, <3>1
  <2>3. x \in ToSet(t)
    BY <1>4, <2>0
  <2> QED
    BY <2>1, <2>2, <2>3
<1> QED
  BY <1>0, <1>2, <1>7, <1>8

\* The first element taken off.
LEMMA PopFirst ==
    ASSUME NEW s \in Seq(Nat), IsInjective(s), s # <<>>
    PROVE  /\ Tail(s) \in Seq(Nat) /\ IsInjective(Tail(s))
           /\ Len(Tail(s)) = Len(s) - 1 /\ Len(s) > 0
           /\ Head(s) \in ToSet(s)
           /\ ToSet(Tail(s)) = ToSet(s) \ {Head(s)}
<1>0. PICK t, n, x : t = Tail(s) /\ n = Len(s) /\ x = Head(s)
  OBVIOUS
<1>1. /\ t \in Seq(Nat) /\ Len(t) = n - 1 /\ n \in Nat /\ n > 0 /\ x = s[1]
      /\ \A i \in 1..(n - 1) : t[i] = s[i + 1]
  BY <1>0, HeadTailProperties
<1>2. DOMAIN t = 1..(n - 1) /\ DOMAIN s = 1..n
  BY <1>0, <1>1
<1>3. \A i, j \in 1..n : s[i] = s[j] => i = j
  BY <1>2 DEF IsInjective
<1>4. \A i \in 1..(n - 1) : i + 1 \in 1..n /\ i + 1 # 1
  BY <1>1
<1>5. IsInjective(t)
  <2>1. ASSUME NEW i \in 1..(n - 1), NEW j \in 1..(n - 1), t[i] = t[j]
        PROVE  i = j
    <3>1. i + 1 = j + 1
      BY <1>1, <1>3, <1>4, <2>1
    <3> QED
      BY <3>1
  <2> QED
    BY <1>2, <2>1 DEF IsInjective
<1>6. 1 \in 1..n
  BY <1>1
<1>7. \A i \in 1..n : i = 1 \/ (i - 1 \in 1..(n - 1) /\ t[i - 1] = s[i])
  BY <1>1
<1>8. ToSet(t) = {t[i] : i \in 1..(n - 1)} /\ ToSet(s) = {s[i] : i \in 1..n}
  BY <1>2 DEF ToSet
<1>9. ToSet(t) = ToSet(s) \ {x}
  <2>1. ASSUME NEW y \in ToSet(t)
        PROVE  y \in ToSet(s) \ {x}
    <3>1. PICK i \in 1..(n - 1) : y = t[i]
      BY <1>8
    <3>2. i + 1 \in 1..n /\ i + 1 # 1 /\ y = s[i + 1]
      BY <1>1, <1>4, <3>1
    <3>3. s[i + 1] # s[1]
      BY <1>3, <1>6, <3>2
    <3> QED
      BY <1>1, <1>8, <3>2, <3>3
  <2>2. ASSUME NEW y \in ToSet(s) \ {x}
        PROVE  y \in ToSet(t)
    <3>1. PICK i \in 1..n : y = s[i]
      BY <1>8
    <3>2. i # 1
      BY <1>1, <2>2, <3>1
    <3> QED
      BY <1>7, <1>8, <3>1, <3>2
  <2> QED
    BY <2>1, <2>2
<1>10. x \in ToSet(s)
  BY <1>1, <1>6, <1>8
<1> QED
  BY <1>0, <1>1, <1>5, <1>9, <1>10

\* A free list is as long as the set of what it names is large.
LEMMA ListCounts ==
    ASSUME NEW s \in Seq(Nat), IsInjective(s)
    PROVE  IsFiniteSet(ToSet(s)) /\ Cardinality(ToSet(s)) = Len(s)
<1>0. PICK n : n = Len(s)
  OBVIOUS
<1>1. n \in Nat /\ DOMAIN s = 1..n /\ s \in [1..n -> Nat]
  BY <1>0
<1>2. IsFiniteSet(1..n) /\ Cardinality(1..n) = n
  BY <1>1, UpTo
<1>3. s \in Bijection(1..n, ToSet(s))
  <2>1. s \in [1..n -> ToSet(s)]
    BY <1>1 DEF ToSet
  <2>2. \A a, b \in 1..n : s[a] = s[b] => a = b
    BY <1>1 DEF IsInjective
  <2>3. \A y \in ToSet(s) : \E a \in 1..n : s[a] = y
    BY <1>1 DEF ToSet
  <2> QED
    BY <2>1, <2>2, <2>3 DEF Bijection, Injection, Surjection, IsInjective
<1> QED
  BY <1>0, <1>2, <1>3, FS_Bijection DEF ExistsBijection

\* A registry keeps each codec once and has four slots.
LEMMA RegisterAll ==
    ASSUME NEW seq \in Seq(Nat)
    PROVE  LET r == FoldLeft(xgl_codec_register, <<>>, seq)
           IN  r \in Seq(Nat) /\ Len(r) <= 4 /\ IsInjective(r)
<1> DEFINE Registry(r) == r \in Seq(Nat) /\ Len(r) <= 4 /\ IsInjective(r)
<1>0. PICK n : n = Len(seq)
  OBVIOUS
<1>1. n \in Nat /\ \A i \in 1..n : seq[i] \in Nat
  BY <1>0
<1>2. PICK after : /\ after[0] = <<>>
                   /\ \A i \in 1..Len(seq) :
                         after[i] = xgl_codec_register(after[i - 1], seq[i])
                   /\ FoldLeft(xgl_codec_register, <<>>, seq) = after[Len(seq)]
  BY RegisterSteps
<1> DEFINE P == {i \in 0..n : Registry(after[i])}
<1>3. 0 \in P
  <2>1. Registry(<<>>)
    BY DEF IsInjective
  <2>2. 0 \in 0..n
    BY <1>1
  <2> HIDE DEF Registry
  <2> QED
    BY <1>2, <2>1, <2>2
<1>4. ASSUME NEW i \in 1..n, i - 1 \in P
      PROVE  i \in P
  <2>1. PICK r, x : r = after[i - 1] /\ x = seq[i]
    OBVIOUS
  <2>2. Registry(r) /\ x \in Nat /\ after[i] = xgl_codec_register(r, x)
    BY <1>0, <1>1, <1>2, <1>4, <2>1
  <2>3. CASE Len(r) >= 4 \/ x \in ToSet(r)
    BY <2>2, <2>3 DEF xgl_codec_register
  <2>4. CASE ~(Len(r) >= 4 \/ x \in ToSet(r))
    <3>1. after[i] = Append(r, x)
      BY <2>2, <2>4 DEF xgl_codec_register
    <3>2. /\ Append(r, x) \in Seq(Nat) /\ IsInjective(Append(r, x))
          /\ Len(Append(r, x)) = Len(r) + 1
      BY <2>2, <2>4, AppendNew
    <3>3. Len(r) \in Nat /\ Len(r) < 4
      BY <2>2, <2>4
    <3>4. Registry(after[i])
      BY <3>1, <3>2, <3>3
    <3>5. i \in 0..n
      BY <1>1
    <3> QED
      BY <3>4, <3>5
  <2> QED
    BY <2>3, <2>4
<1>5. n \in P
  <2> HIDE DEF P
  <2>1. \A i \in 0..n : i \in P
    BY <1>1, <1>3, <1>4, StepInduction
  <2>2. n \in 0..n
    BY <1>1
  <2> QED
    BY <2>1, <2>2
<1>6. Registry(after[n])
  BY <1>5
<1> QED
  BY <1>0, <1>2, <1>6

-----------------------------------------------------------------------------
(***************************************************************************)
(* Parts of the invariant a step leaves alone                              *)
(***************************************************************************)
\* The TX pool is not touched.
LEMMA TxPoolFrame ==
    ASSUME TxPoolOK, UNCHANGED <<tx_pool, held>>
    PROVE  TxPoolOK'
BY DEF TxPoolOK, Used

\* The packet pool is not touched.
LEMMA PacketPoolFrame ==
    ASSUME PacketPoolOK, UNCHANGED <<packet_pool, packets>>
    PROVE  PacketPoolOK'
BY DEF PacketPoolOK

\* The codec registry is not touched.
LEMMA CodecsFrame ==
    ASSUME CodecsOK, UNCHANGED codecs
    PROVE  CodecsOK'
BY DEF CodecsOK

\* Only statistics change in the life of the instance.
LEMMA LifeFrame ==
    ASSUME LifeOK, handle = "ready", UNCHANGED lifeVars
    PROVE  LifeOK'
BY DEF LifeOK, lifeVars

\* A step that leaves the packets, their data and all blocks alone that no
\* field owns.
LEMMA DataFrame ==
    ASSUME DataOK, UNCHANGED <<data, packets, orphans, config>>,
           packet_pool'.data = packet_pool.data, Untouched(Now, Now')
    PROVE  DataOK'
<1>1. Buffers' = Buffers /\ \A d : Users(d)' = Users(d)
  BY DEF Buffers, Users
<1>2. DataOf(packets)' = DataOf(packets)
  BY DEF DataOf
<1>3. Unowned(Now)' = Unowned(Now)
  BY DEF Untouched, Unowned, Now
<1>4. \A a \in DOMAIN data \union Buffers : mem.blocks[a]' = mem.blocks[a]
  <2>1. \A a \in Unowned(Now) : Now'.mem.blocks[a] = Now.mem.blocks[a]
    BY DEF Untouched
  <2>2. DOMAIN data \union Buffers \subseteq Unowned(Now)
    BY DEF DataOK
  <2>3. Now'.mem = mem' /\ Now.mem = mem
    BY DEF Now
  <2> QED
    BY <2>1, <2>2, <2>3
<1> QED
  BY <1>1, <1>2, <1>3, <1>4 DEF DataOK

\* There are no packets, and no data.
LEMMA NoData ==
    ASSUME packets' = {}, data' = <<>>, Unowned(Now') = orphans'
    PROVE  DataOK'
<1>1. DOMAIN <<>> = {} /\ <<>> = [d \in {} |-> 0]
  OBVIOUS
<1>2. DOMAIN data' = {} /\ data' = [d \in DOMAIN data' |-> data'[d]]
  BY <1>1
<1>3. Buffers' = {}
  BY <1>2 DEF Buffers
<1>4. DataOf(packets)' = {}
  BY DEF DataOf
<1>5. Unowned(Now)' = orphans'
  BY DEF Unowned, Now
<1> QED
  BY <1>2, <1>3, <1>4, <1>5 DEF DataOK

\* An instance that is not ready has no packets and no blocks out.
LEMMA NothingOut ==
    ASSUME InstanceInv, handle # "ready"
    PROVE  /\ held = {} /\ packets = {} /\ data = <<>> /\ Unowned(Now) = orphans
           /\ Bare(Now) /\ mutex = FALSE
           /\ tx_pool = [t \in Tier |-> NoPool] /\ packet_pool = NoPackets
<1>1. /\ mutex = FALSE /\ tx_pool = [t \in Tier |-> NoPool] /\ packet_pool = NoPackets
      /\ \A f \in Field \ {"instance"} : ptr[f] = NULL
  BY DEF InstanceInv, LifeOK
<1>2. packets = {}
  <2>1. packet_pool.total_count = 0
    BY <1>1 DEF NoPackets
  <2>2. packets \subseteq 1..0
    BY <2>1 DEF InstanceInv, PacketPoolOK
  <2> QED
    BY <2>2
<1>3. held = {}
  <2>1. \A t \in Tier : tx_pool[t].block_count = 0
    BY <1>1 DEF NoPool
  <2>2. ASSUME NEW h \in held
        PROVE  FALSE
    <3>1. h.pointer.tier \in Tier /\ h.pointer.block \in 1..tx_pool[h.pointer.tier].block_count
      BY DEF InstanceInv, TxPoolOK, Holding
    <3>2. tx_pool[h.pointer.tier].block_count = 0
      BY <2>1, <3>1
    <3>3. h.pointer.block \in 1..0
      BY <3>1, <3>2
    <3> QED
      BY <3>3
  <2> QED
    BY <2>2
<1>4. DOMAIN data = {}
  BY <1>2 DEF InstanceInv, DataOK, DataOf
<1>5. data = <<>>
  <2>1. data = [d \in {} |-> data[d]]
    BY <1>4 DEF InstanceInv, DataOK
  <2> QED
    BY <2>1
<1>6. Buffers = {}
  BY <1>4 DEF Buffers
<1>7. Unowned(Now) = orphans
  BY <1>4, <1>6 DEF InstanceInv, DataOK
<1>8. Bare(Now)
  BY <1>1 DEF Bare, Now
<1> QED
  BY <1>1, <1>2, <1>3, <1>5, <1>7, <1>8

-----------------------------------------------------------------------------
(***************************************************************************)
(* Creation, initialisation and destruction keep the invariant             *)
(***************************************************************************)
\* The heap is empty at first.
LEMMA NewHeap == HeapOK(NewMemory)
<1>1. DOMAIN <<>> = {} /\ <<>> = [a \in {} |-> 0]
  OBVIOUS
<1>2. BlocksOK(<<>>)
  <2>1. <<>> = [a \in DOMAIN <<>> |-> <<>>[a]]
    BY <1>1
  <2> QED
    BY <1>1, <2>1, FS_EmptySet DEF BlocksOK
<1>3. \A phases : SizeOf(<<>>, phases) = 0
  <2>1. ASSUME NEW phases
        PROVE  SizeOf(<<>>, phases) = 0
    <3>1. Tracked(<<>>, phases) = {}
      BY <1>1 DEF Tracked
    <3>2. PICK e : e = [a \in {} |-> 0]
      OBVIOUS
    <3>3. SizeOf(<<>>, phases) = SumOf(e, {})
      BY <1>2, <3>1, SizeIsSum
    <3>4. SumOf(e, {}) = 0
      BY FS_EmptySet, SumUnfold
    <3> QED
      BY <3>3, <3>4
  <2> QED
    BY <2>1
<1>4. NoStats \in Stats
  BY DEF NoStats, Stats
<1>5. NewTracker \in Tracker
  <2>1. "INIT" \in Phase /\ [p \in Phase |-> NoStats] \in [Phase -> Stats]
    BY <1>4 DEF Phase
  <2> QED
    BY <1>4, <2>1 DEF NewTracker, Tracker
<1>6. /\ NewMemory.blocks = <<>> /\ NewMemory.tracker = NewTracker
      /\ NewMemory = [blocks |-> NewMemory.blocks, tracker |-> NewMemory.tracker,
                      damaged |-> FALSE]
  BY DEF NewMemory
<1>7. /\ NewTracker.stats.current_allocated = 0 /\ NewTracker.stats.peak_allocated = 0
      /\ NewTracker.stats.total_allocated = 0 /\ NewTracker.stats.total_freed = 0
      /\ \A p \in Phase : NewTracker.phase_stats[p].current_allocated = 0
  BY DEF NewTracker, NoStats
<1>8. BooksOK(NewMemory)
  BY <1>3, <1>6, <1>7 DEF BooksOK
<1> QED
  BY <1>2, <1>5, <1>6, <1>8 DEF HeapOK

\* Nothing points anywhere: so it is for every configuration.
LEMMA NoPointersOK ==
    ASSUME NEW c, NEW m, HeapOK(m)
    PROVE  PointersOK(c, [mem |-> m, ptr |-> NoPointers])
BY DEF PointersOK, NoPointers, NULL

\* The empty packet pool is a packet pool.
LEMMA NoPacketsType == NoPackets \in PacketPool
<1>1. <<>> \in [1..0 -> Nat]
  OBVIOUS
<1>2. <<>> \in Slots
  BY <1>1 DEF Slots
<1> QED
  BY <1>2 DEF NoPackets, PacketPool

\* The pools of an instance that is not ready.
LEMMA NoPoolsOK ==
    ASSUME tx_pool' = [t \in Tier |-> NoPool], packet_pool' = NoPackets,
           held' = {}, packets' = {}
    PROVE  TxPoolOK' /\ PacketPoolOK'
<1>1. <<>> \in Seq(Nat) /\ IsInjective(<<>>) /\ ToSet(<<>>) = {} /\ Len(<<>>) = 0
      /\ 1..0 = {}
  BY DEF IsInjective, ToSet
<1>2. TxPoolOK'
  <2>1. NoPool \in Pool
    BY <1>1 DEF NoPool, Pool
  <2>2. ASSUME NEW t \in Tier
        PROVE  /\ FreeList(tx_pool'[t].free_list, (1..tx_pool'[t].block_count) \ Used(t)')
               /\ Len(tx_pool'[t].free_list) = tx_pool'[t].free_count
    <3>1. /\ tx_pool'[t].free_list = <<>> /\ tx_pool'[t].block_count = 0
          /\ tx_pool'[t].free_count = 0
      BY DEF NoPool
    <3>2. Used(t)' = {}
      BY DEF Used
    <3> QED
      BY <1>1, <3>1, <3>2 DEF FreeList
  <2> QED
    BY <2>1, <2>2 DEF TxPoolOK
<1>3. PacketPoolOK'
  <2>1. /\ packet_pool'.total_count = 0 /\ packet_pool'.free_count = 0
        /\ packet_pool'.free_list = <<>> /\ packet_pool'.data = <<>>
    BY DEF NoPackets
  <2>2. <<>> \in [1..0 -> Nat] /\ FreeList(<<>>, (1..0) \ {})
    BY <1>1 DEF FreeList
  <2>3. packet_pool' \in PacketPool
    BY NoPacketsType
  <2> QED
    BY <1>1, <2>1, <2>2, <2>3 DEF PacketPoolOK
<1> QED
  BY <1>2, <1>3

\* The invariant holds before the first call.
LEMMA InitHolds == Init => InstanceInv
<1>1. SUFFICES ASSUME Init PROVE InstanceInv
  OBVIOUS
<1>2. PointersOK(config, Now)
  BY <1>1, NewHeap, NoPointersOK DEF Init, Now
<1>3. LifeOK
  BY <1>1 DEF Init, LifeOK, NoPointers
<1>4. <<>> \in Seq(Nat) /\ IsInjective(<<>>) /\ ToSet(<<>>) = {} /\ Len(<<>>) = 0
      /\ 1..0 = {} /\ DOMAIN <<>> = {} /\ <<>> = [d \in {} |-> 0]
  BY DEF IsInjective, ToSet
<1>5. TxPoolOK
  <2>1. NoPool \in Pool
    BY <1>4 DEF NoPool, Pool
  <2>2. ASSUME NEW t \in Tier
        PROVE  /\ FreeList(tx_pool[t].free_list, (1..tx_pool[t].block_count) \ Used(t))
               /\ Len(tx_pool[t].free_list) = tx_pool[t].free_count
    <3>1. /\ tx_pool[t].free_list = <<>> /\ tx_pool[t].block_count = 0
          /\ tx_pool[t].free_count = 0
      BY <1>1 DEF Init, NoPool
    <3>2. Used(t) = {}
      BY <1>1 DEF Init, Used
    <3> QED
      BY <1>4, <3>1, <3>2 DEF FreeList
  <2> QED
    BY <1>1, <2>1, <2>2 DEF Init, TxPoolOK
<1>6. PacketPoolOK
  <2>0. packet_pool = NoPackets /\ packets = {}
    BY <1>1 DEF Init
  <2>1. /\ packet_pool.total_count = 0 /\ packet_pool.free_count = 0
        /\ packet_pool.free_list = <<>> /\ packet_pool.data = <<>>
    BY <2>0 DEF NoPackets
  <2>2. <<>> \in [1..0 -> Nat] /\ FreeList(<<>>, (1..0) \ {})
    BY <1>4 DEF FreeList
  <2>3. packet_pool \in PacketPool
    BY <2>0, NoPacketsType
  <2> QED
    BY <1>4, <2>0, <2>1, <2>2, <2>3 DEF PacketPoolOK
<1>7. DataOK
  <2>1. /\ data = <<>> /\ packets = {} /\ orphans = {} /\ mem.blocks = <<>>
    BY <1>1 DEF Init, NewMemory
  <2>2. DOMAIN data = {} /\ data = [d \in DOMAIN data |-> data[d]] /\ Buffers = {}
    BY <1>4, <2>1 DEF Buffers
  <2>3. DataOf(packets) = {} /\ Unowned(Now) = {}
    BY <1>4, <2>1 DEF DataOf, Unowned, Now
  <2> QED
    BY <2>1, <2>2, <2>3 DEF DataOK
<1>8. CodecsOK
  BY <1>1, <1>4 DEF Init, CodecsOK
<1> QED
  BY <1>2, <1>3, <1>5, <1>6, <1>7, <1>8 DEF InstanceInv

\* A new instance has its structure and nothing else.
LEMMA CreateKeeps ==
    ASSUME InstanceInv, NEW c \in Configs, xgl_create(c)
    PROVE  InstanceInv'
<1>1. handle = "none" /\ Accepted(c) /\ config' = c /\ handle' = "created"
  BY DEF xgl_create, Accepted
<1>2. /\ held = {} /\ packets = {} /\ data = <<>> /\ Unowned(Now) = orphans
      /\ mutex = FALSE /\ tx_pool = [t \in Tier |-> NoPool] /\ packet_pool = NoPackets
  BY <1>1, NothingOut
<1>3. UNCHANGED <<mutex, tx_pool, packet_pool, data, codecs, held, packets, orphans, outcome>>
  BY DEF xgl_create
<1>4. PICK s, t : s = [mem |-> mem, ptr |-> NoPointers] /\ t = AllocField(c, s, "instance")
  OBVIOUS
<1>5. Now = s
  BY <1>1, <1>4 DEF InstanceInv, LifeOK, Now
<1>6. Now' = t
  <2>1. mem' = t.mem /\ ptr' = t.ptr
    BY <1>4 DEF xgl_create
  <2>2. t = [mem |-> t.mem, ptr |-> t.ptr]
    BY <1>4 DEF AllocField
  <2> QED
    BY <2>1, <2>2 DEF Now
<1>7. PointersOK(c, s)
  <2>1. HeapOK(mem)
    BY DEF InstanceInv, PointersOK, Now
  <2> QED
    BY <1>4, <2>1, NoPointersOK
<1>8. "instance" \in Field /\ s.ptr["instance"] = NULL /\ Serves(AllocatorOf(c, "instance"))
  <2>1. "instance" \in Field /\ AllocatorOf(c, "instance") = c.allocator
    BY FieldSets DEF AllocatorOf
  <2> QED
    BY <1>1, <1>4, <2>1 DEF NoPointers, Accepted
<1>9. /\ PointersOK(c, t) /\ Untouched(s, t)
      /\ \A g \in Field \ {"instance"} : t.ptr[g] = s.ptr[g]
  BY <1>1, <1>4, <1>7, <1>8, AllocFieldKeeps
<1>10. PointersOK(config, Now)'
  BY <1>1, <1>6, <1>9 DEF PointersOK
<1>11. LifeOK'
  <2>1. \A f \in Field \ {"instance"} : ptr'[f] = NULL
    BY <1>4, <1>6, <1>9 DEF Now, NoPointers
  <2>2. outcome \in {"ok", "refused"}
    BY DEF InstanceInv, LifeOK
  <2> QED
    BY <1>1, <1>2, <1>3, <2>1, <2>2 DEF LifeOK
<1>12. TxPoolOK' /\ PacketPoolOK'
  BY <1>2, <1>3, NoPoolsOK
<1>13. DataOK'
  <2>1. Unowned(Now') = orphans'
    BY <1>2, <1>3, <1>5, <1>6, <1>9 DEF Untouched
  <2> QED
    BY <1>2, <1>3, <2>1, NoData
<1>14. CodecsOK'
  BY <1>3, CodecsFrame DEF InstanceInv
<1> QED
  BY <1>10, <1>11, <1>12, <1>13, <1>14 DEF InstanceInv

\* A pool as xgl_mempool_init makes it: every block is free.
LEMMA FreshPool ==
    ASSUME NEW n \in Nat
    PROVE  LET pool == xgl_mempool_init(n)
           IN  /\ pool \in Pool /\ pool.block_count = n /\ pool.free_count = n
               /\ FreeList(pool.free_list, 1..n) /\ Len(pool.free_list) = n
<1>0. PICK seq, pool : seq = [i \in 1..n |-> n + 1 - i] /\ pool = xgl_mempool_init(n)
  OBVIOUS
<1>1. pool = [block_count |-> n, free_count |-> n, peak_used |-> 0, free_list |-> seq]
  BY <1>0 DEF xgl_mempool_init
<1>2. \A i \in 1..n : n + 1 - i \in 1..n /\ n + 1 - i \in Nat /\ n + 1 - (n + 1 - i) = i
  OBVIOUS
<1>3. seq \in Seq(Nat) /\ Len(seq) = n /\ DOMAIN seq = 1..n
      /\ \A i \in 1..n : seq[i] = n + 1 - i
  BY <1>0, <1>2
<1>4. IsInjective(seq)
  <2>1. ASSUME NEW i \in 1..n, NEW j \in 1..n, seq[i] = seq[j]
        PROVE  i = j
    <3>1. n + 1 - i = n + 1 - j
      BY <1>3, <2>1
    <3> QED
      BY <3>1
  <2> QED
    BY <1>3, <2>1 DEF IsInjective
<1>5. ToSet(seq) = 1..n
  <2>1. ToSet(seq) = {seq[i] : i \in 1..n}
    BY <1>3 DEF ToSet
  <2>2. ASSUME NEW x \in 1..n
        PROVE  x \in ToSet(seq)
    <3>1. n + 1 - x \in 1..n /\ seq[n + 1 - x] = n + 1 - (n + 1 - x)
      BY <1>2, <1>3
    <3>2. seq[n + 1 - x] = x
      BY <1>2, <3>1
    <3> QED
      BY <2>1, <3>1, <3>2
  <2>3. \A x \in ToSet(seq) : x \in 1..n
    BY <1>2, <1>3, <2>1
  <2> QED
    BY <2>2, <2>3
<1>6. pool \in Pool
  BY <1>1, <1>3 DEF Pool
<1> QED
  BY <1>0, <1>1, <1>3, <1>4, <1>5, <1>6 DEF FreeList

\* The pools of an instance that has just become ready.
LEMMA FreshPoolsOK ==
    ASSUME NEW counts \in [Tier -> Nat], NEW n \in Nat,
           tx_pool' = xgl_tiered_pool_init(counts),
           packet_pool' = xgl_packet_pool_init(n), held' = {}, packets' = {}
    PROVE  TxPoolOK' /\ PacketPoolOK'
<1>1. TxPoolOK'
  <2>1. \A t \in Tier : tx_pool'[t] = xgl_mempool_init(counts[t]) /\ counts[t] \in Nat
    BY DEF xgl_tiered_pool_init
  <2>2. ASSUME NEW t \in Tier
        PROVE  /\ tx_pool'[t] \in Pool
               /\ FreeList(tx_pool'[t].free_list, (1..tx_pool'[t].block_count) \ Used(t)')
               /\ Len(tx_pool'[t].free_list) = tx_pool'[t].free_count
    <3>1. Used(t)' = {}
      BY DEF Used
    <3>2. PICK pool, k : pool = tx_pool'[t] /\ k = counts[t]
      OBVIOUS
    <3>3. pool = xgl_mempool_init(k) /\ k \in Nat
      BY <2>1, <3>2
    <3>4. /\ pool \in Pool /\ pool.block_count = k /\ pool.free_count = k
          /\ FreeList(pool.free_list, 1..k) /\ Len(pool.free_list) = k
      BY <3>3, FreshPool
    <3>5. (1..pool.block_count) \ {} = 1..k
      BY <3>4
    <3> QED
      BY <3>1, <3>2, <3>4, <3>5
  <2>3. tx_pool' \in [Tier -> Pool]
    BY <2>2 DEF xgl_tiered_pool_init
  <2> QED
    BY <2>2, <2>3 DEF TxPoolOK
<1>2. PacketPoolOK'
  <2>0. PICK seq, none : seq = [i \in 1..n |-> i] /\ none = [i \in 1..n |-> NULL]
    OBVIOUS
  <2>1. packet_pool' = [total_count |-> n, free_count |-> n, peak_used |-> 0,
                        free_list |-> seq, data |-> none]
    BY <2>0 DEF xgl_packet_pool_init
  <2>2. seq \in Seq(Nat) /\ Len(seq) = n /\ DOMAIN seq = 1..n /\ \A i \in 1..n : seq[i] = i
    BY <2>0
  <2>3. IsInjective(seq) /\ ToSet(seq) = 1..n
    BY <2>2 DEF IsInjective, ToSet
  <2>4. none \in [1..n -> Nat] /\ \A i \in 1..n : none[i] = NULL
    BY <2>0 DEF NULL
  <2>5. /\ packet_pool'.total_count = n /\ packet_pool'.free_count = n
        /\ packet_pool'.free_list = seq /\ packet_pool'.data = none
    BY <2>1
  <2>6. packet_pool' \in PacketPool
    <3>1. none \in Slots
      BY <2>4 DEF Slots
    <3> QED
      BY <2>1, <2>2, <3>1 DEF PacketPool
  <2>7. FreeList(packet_pool'.free_list, (1..packet_pool'.total_count) \ packets')
    BY <2>2, <2>3, <2>5 DEF FreeList
  <2> QED
    BY <2>2, <2>4, <2>5, <2>6, <2>7 DEF PacketPoolOK
<1> QED
  BY <1>1, <1>2

\* xgl_init, whether it succeeds, fails at some allocation or has no mutex.
LEMMA XglInitKeeps ==
    ASSUME InstanceInv, xgl_init
    PROVE  InstanceInv'
<1>1. handle = "created" /\ UNCHANGED <<config, data, held, packets, orphans>>
  BY DEF xgl_init
<1>2. /\ held = {} /\ packets = {} /\ data = <<>> /\ Unowned(Now) = orphans
      /\ mutex = FALSE /\ tx_pool = [t \in Tier |-> NoPool] /\ packet_pool = NoPackets
      /\ Bare(Now)
  BY <1>1, NothingOut
<1>3. Accepted(config) /\ PointersOK(config, Now)
  BY <1>1 DEF InstanceInv, LifeOK
<1>4. \/ InitSucceeds
      \/ \E f \in MayFailAt(config) :
            InitFails(f) /\ outcome' = IF Rejects(config, f) THEN "rejected" ELSE "refused"
      \/ /\ outcome' = "refused"
         /\ UNCHANGED <<handle, mutex, mem, ptr, tx_pool, packet_pool, codecs>>
  BY DEF xgl_init
<1>5. CASE InitSucceeds
  <2>0. PICK t : t = AllocFields(config, Now, InitOrder(config))
    OBVIOUS
  <2>1. MaySucceed(config) /\ mem' = t.mem /\ ptr' = t.ptr
    BY <1>5, <2>0 DEF InitSucceeds, Now
  <2>2. /\ mutex' = config.thread_safe
        /\ tx_pool' = xgl_tiered_pool_init(PoolCounts(config.tx_pool_size))
        /\ packet_pool' = xgl_packet_pool_init(PacketCount(config.tx_pool_size))
        /\ handle' = "ready" /\ outcome' = "ok"
    BY <1>5 DEF InitSucceeds
  <2>3. codecs' = FoldLeft(xgl_codec_register, <<>>, config.codecs)
    BY <1>5 DEF InitSucceeds
  <2>4. /\ PointersOK(config, t) /\ Untouched(Now, t)
        /\ \A f \in ToSet(InitOrder(config)) : t.ptr[f] # NULL
    BY <1>2, <1>3, <2>0, <2>1, InitAllocates
  <2>5. Now' = t
    <3>1. t = [mem |-> t.mem, ptr |-> t.ptr]
      BY <2>4 DEF PointersOK
    <3> QED
      BY <2>1, <3>1 DEF Now
  <2>6. PointersOK(config, Now)'
    BY <1>1, <2>4, <2>5 DEF PointersOK
  <2>7. LifeOK'
    <3>1. InitOrder(config)' = InitOrder(config)
      BY <1>1 DEF InitOrder
    <3>2. \A f \in ToSet(InitOrder(config))' : ptr'[f] # NULL
      BY <2>1, <2>4, <3>1
    <3>3. Accepted(config)'
      BY <1>1, <1>3
    <3>4. mutex' = config'.thread_safe
      BY <1>1, <2>2
    <3> QED
      BY <2>2, <3>2, <3>3, <3>4 DEF LifeOK
  <2>8. TxPoolOK' /\ PacketPoolOK'
    <3>1. config.tx_pool_size \in Nat
      BY <1>3, AcceptedSizes
    <3>2. /\ PoolCounts(config.tx_pool_size) \in [Tier -> Nat]
          /\ PacketCount(config.tx_pool_size) \in Nat
      BY <3>1, CountsPositive
    <3>3. held' = {} /\ packets' = {}
      BY <1>1, <1>2
    <3> QED
      BY <2>2, <3>2, <3>3, FreshPoolsOK
  <2>9. DataOK'
    <3>1. Unowned(Now') = orphans'
      BY <1>1, <1>2, <2>4, <2>5 DEF Untouched
    <3>2. packets' = {} /\ data' = <<>>
      BY <1>1, <1>2
    <3> QED
      BY <3>1, <3>2, NoData
  <2>10. CodecsOK'
    <3>1. config.codecs \in Seq(Nat)
      BY <1>3, InstanceAssumption, Zenon DEF Accepted
    <3> QED
      BY <2>3, <3>1, RegisterAll DEF CodecsOK
  <2> QED
    BY <2>6, <2>7, <2>8, <2>9, <2>10 DEF InstanceInv
<1>6. ASSUME NEW f \in MayFailAt(config), InitFails(f),
             outcome' = IF Rejects(config, f) THEN "rejected" ELSE "refused"
      PROVE  InstanceInv'
  <2>0. PICK t : t = InitFailingAt(config, Now, f)
    OBVIOUS
  <2>1. mem' = t.mem /\ ptr' = t.ptr
    BY <1>6, <2>0 DEF InitFails, Now
  <2>2. UNCHANGED <<handle, mutex, tx_pool, packet_pool, codecs>>
    BY <1>6 DEF InitFails
  <2>3. outcome' = "refused"
    BY <1>3, <1>6, NeverRejected
  <2>4. PointersOK(config, t) /\ Untouched(Now, t) /\ Bare(t)
    BY <1>2, <1>3, <1>6, <2>0, InitCleansUp
  <2>5. Now' = t
    <3>1. t = [mem |-> t.mem, ptr |-> t.ptr]
      BY <2>4 DEF PointersOK
    <3> QED
      BY <2>1, <3>1 DEF Now
  <2>6. PointersOK(config, Now)'
    BY <1>1, <2>4, <2>5 DEF PointersOK
  <2>7. LifeOK'
    <3>1. \A g \in Field \ {"instance"} : ptr'[g] = NULL
      BY <2>1, <2>4 DEF Bare
    <3>2. Accepted(config)'
      BY <1>1, <1>3
    <3> QED
      BY <1>1, <1>2, <2>2, <2>3, <3>1, <3>2 DEF LifeOK
  <2>8. TxPoolOK' /\ PacketPoolOK'
    BY <1>1, <2>2, TxPoolFrame, PacketPoolFrame DEF InstanceInv
  <2>9. DataOK'
    <3>1. Unowned(Now') = orphans'
      BY <1>1, <1>2, <2>4, <2>5 DEF Untouched
    <3>2. packets' = {} /\ data' = <<>>
      BY <1>1, <1>2
    <3> QED
      BY <3>1, <3>2, NoData
  <2>10. CodecsOK'
    BY <2>2, CodecsFrame DEF InstanceInv
  <2> QED
    BY <2>6, <2>7, <2>8, <2>9, <2>10 DEF InstanceInv
<1>7. CASE /\ outcome' = "refused"
           /\ UNCHANGED <<handle, mutex, mem, ptr, tx_pool, packet_pool, codecs>>
  <2>1. Now' = Now
    BY <1>7 DEF Now
  <2>2. PointersOK(config, Now)'
    BY <1>1, <1>3, <2>1 DEF PointersOK
  <2>3. LifeOK'
    BY <1>1, <1>3, <1>7 DEF InstanceInv, LifeOK
  <2>4. TxPoolOK' /\ PacketPoolOK'
    BY <1>1, <1>7, TxPoolFrame, PacketPoolFrame DEF InstanceInv
  <2>5. DataOK'
    <3>1. Unowned(Now') = orphans'
      BY <1>1, <1>2, <2>1
    <3>2. packets' = {} /\ data' = <<>>
      BY <1>1, <1>2
    <3> QED
      BY <3>1, <3>2, NoData
  <2>6. CodecsOK'
    BY <1>7, CodecsFrame DEF InstanceInv
  <2> QED
    BY <2>2, <2>3, <2>4, <2>5, <2>6 DEF InstanceInv
<1> QED
  BY <1>4, <1>5, <1>6, <1>7

\* xgl_destroy gives back every field; what packets still have is orphaned.
LEMMA DestroyKeeps ==
    ASSUME InstanceInv, xgl_destroy
    PROVE  InstanceInv'
<1>0. PICK seq, t : seq = Append(DestroyOrder, "instance") /\ t = FreeFields(config, Now, seq)
  OBVIOUS
<1>1. /\ mem' = t.mem /\ ptr' = NoPointers
      /\ orphans' = orphans \union DataBlocks(packets)
      /\ handle' = "none" /\ config' = NoConfig /\ mutex' = FALSE
      /\ tx_pool' = [x \in Tier |-> NoPool] /\ packet_pool' = NoPackets
      /\ data' = <<>> /\ codecs' = <<>> /\ held' = {} /\ packets' = {}
      /\ outcome' = outcome
  BY <1>0 DEF xgl_destroy, Now
<1>2. seq \in Seq(Field) /\ Field \subseteq ToSet(seq)
  BY <1>0, DestroyCovers
<1>3. PointersOK(config, Now)
  BY DEF InstanceInv
<1>4. /\ PointersOK(config, t) /\ Untouched(Now, t)
      /\ \A i \in 1..Len(seq) : t.ptr[seq[i]] = NULL
  <2>1. t = FreeFields(config, Now, seq)
    BY <1>0
  <2> QED
    BY <1>2, <1>3, <2>1, FreeFieldsKeep
<1>5. t.ptr = NoPointers
  <2>1. \A f \in Field : t.ptr[f] = NULL
    <3>1. DOMAIN seq = 1..Len(seq)
      BY <1>2
    <3> QED
      BY <1>2, <1>4, <3>1 DEF ToSet
  <2>2. t.ptr \in [Field -> Nat]
    BY <1>4 DEF PointersOK
  <2> QED
    BY <2>1, <2>2 DEF NoPointers
<1>6. Now' = t
  <2>1. t = [mem |-> t.mem, ptr |-> t.ptr]
    BY <1>4 DEF PointersOK
  <2> QED
    BY <1>1, <1>5, <2>1 DEF Now
<1>7. PointersOK(config, Now)'
  <2>1. HeapOK(t.mem)
    BY <1>4 DEF PointersOK
  <2>2. PointersOK(NoConfig, [mem |-> t.mem, ptr |-> NoPointers])
    BY <2>1, NoPointersOK
  <2>3. Now' = [mem |-> t.mem, ptr |-> NoPointers]
    BY <1>1 DEF Now
  <2> QED
    BY <1>1, <2>2, <2>3
<1>8. LifeOK'
  <2>1. outcome \in {"ok", "refused"}
    BY DEF InstanceInv, LifeOK
  <2> QED
    BY <1>1, <2>1 DEF LifeOK, NoPointers
<1>9. TxPoolOK' /\ PacketPoolOK'
  BY <1>1, NoPoolsOK
<1>10. DataOK'
  <2>1. DataBlocks(packets) = DOMAIN data \union Buffers
    BY DEF DataBlocks, Buffers, InstanceInv, DataOK
  <2>2. Unowned(Now) = orphans \union DataBlocks(packets)
    BY <2>1 DEF InstanceInv, DataOK
  <2>3. Unowned(Now') = orphans'
    BY <1>1, <1>4, <1>6, <2>2 DEF Untouched
  <2> QED
    BY <1>1, <2>3, NoData
<1>11. CodecsOK'
  BY <1>1 DEF CodecsOK, IsInjective
<1> QED
  BY <1>7, <1>8, <1>9, <1>10, <1>11 DEF InstanceInv

-----------------------------------------------------------------------------
(***************************************************************************)
(* Use of the TX pool                                                      *)
(***************************************************************************)
\* The pointer xgl_tiered_pool_alloc returns: a block of a tier that holds the
\* size, or none if no tier can serve it.
LEMMA PointerIs ==
    ASSUME NEW pools, NEW size
    PROVE  LET p == TieredPointer(pools, size)
           IN  \/ p = NoPointer /\ (size = 0 \/ \A t \in Tier : ~Takes(pools, size, t))
               \/ \E t \in Tier : /\ p = [tier |-> t, block |-> Head(pools[t].free_list)]
                                  /\ p # NoPointer /\ Takes(pools, size, t)
<1> DEFINE I == {i \in 1..Len(TierOrder) : Takes(pools, size, TierOrder[i])}
<1>1. PICK k : k = SelectInSeq(TierOrder, LAMBDA t : Takes(pools, size, t))
  OBVIOUS
<1>2. k = IF I # {} THEN Min(I) ELSE 0
  BY <1>1 DEF SelectInSeq
<1>3. /\ Len(TierOrder) = 3 /\ TierOrder[1] = "small" /\ TierOrder[2] = "medium"
      /\ TierOrder[3] = "large"
  BY DEF TierOrder
<1>4. \A i \in 1..3 : i = 1 \/ i = 2 \/ i = 3
  OBVIOUS
<1>5. TieredPointer(pools, size) =
         IF size = 0 \/ k = 0 THEN NoPointer
         ELSE [tier |-> TierOrder[k], block |-> Head(pools[TierOrder[k]].free_list)]
  BY <1>1 DEF TieredPointer
<1>6. CASE I = {}
  <2>1. k = 0
    BY <1>2, <1>6
  <2>2. \A t \in Tier : ~Takes(pools, size, t)
    <3>1. 1 \in 1..3 /\ 2 \in 1..3 /\ 3 \in 1..3
      OBVIOUS
    <3> QED
      BY <1>3, <1>6, <3>1 DEF Tier
  <2> QED
    BY <1>5, <2>1, <2>2
<1>7. CASE I # {}
  <2>1. I \in SUBSET (1..3)
    BY <1>3
  <2>2. IsFiniteSet(I) /\ I \in SUBSET Int
    <3>1. IsFiniteSet(1..3)
      <4>1. \A n \in Nat : IsFiniteSet(1..n)
        BY UpTo
      <4> QED
        BY <4>1
    <3>2. \A x \in 1..3 : x \in Int
      OBVIOUS
    <3> HIDE DEF I
    <3> QED
      BY <2>1, <3>1, <3>2, FS_Subset
  <2>3. Min(I) \in I
    <3> HIDE DEF I
    <3>1. \E x \in I : \A y \in I : x <= y
      BY <1>7, <2>2, SmallestExists
    <3> QED
      BY <3>1 DEF Min
  <2>4. k \in I
    BY <1>2, <1>7, <2>3
  <2>5. k \in 1..3 /\ Takes(pools, size, TierOrder[k])
    BY <1>3, <2>4
  <2>6. TierOrder[k] \in Tier /\ k # 0
    BY <1>3, <1>4, <2>5 DEF Tier
  <2>7. CASE size = 0
    BY <1>5, <2>7
  <2>8. CASE size # 0
    <3>1. PICK t \in Tier : t = TierOrder[k]
      BY <2>6
    <3>2. TieredPointer(pools, size) = [tier |-> t, block |-> Head(pools[t].free_list)]
      BY <1>5, <2>6, <2>8, <3>1
    <3>3. [tier |-> t, block |-> Head(pools[t].free_list)] # NoPointer
      BY <3>1 DEF NoPointer, Tier
    <3> QED
      BY <2>5, <3>1, <3>2, <3>3
  <2> QED
    BY <2>7, <2>8
<1> QED
  BY <1>6, <1>7

\* xgl_mempool_alloc takes the first free block.
LEMMA PoolTakes ==
    ASSUME NEW pool \in Pool, NEW free, FreeList(pool.free_list, free),
           Len(pool.free_list) = pool.free_count, pool.free_list # <<>>
    PROVE  LET new == xgl_mempool_alloc(pool)
               b == Head(pool.free_list)
           IN  /\ new \in Pool /\ new.block_count = pool.block_count /\ b \in free
               /\ FreeList(new.free_list, free \ {b})
               /\ Len(new.free_list) = new.free_count
<1>0. PICK seq, n, k, peak, b :
         /\ seq = pool.free_list /\ n = pool.free_count /\ k = pool.block_count
         /\ peak = Larger(pool.peak_used, pool.block_count - pool.free_count + 1)
         /\ b = Head(seq)
  OBVIOUS
<1>1. /\ seq \in Seq(Nat) /\ IsInjective(seq) /\ ToSet(seq) = free /\ Len(seq) = n
      /\ seq # <<>> /\ n \in Nat /\ k \in Nat /\ pool.peak_used \in Int
  BY <1>0 DEF FreeList, Pool
<1>2. /\ Tail(seq) \in Seq(Nat) /\ IsInjective(Tail(seq)) /\ Len(Tail(seq)) = n - 1
      /\ n > 0 /\ b \in free /\ ToSet(Tail(seq)) = free \ {b}
  BY <1>0, <1>1, PopFirst
<1>3. peak \in Int
  BY <1>0, <1>1 DEF Larger
<1>4. PICK rest : rest = Tail(seq)
  OBVIOUS
<1>5. xgl_mempool_alloc(pool) =
         [pool EXCEPT !.free_list = rest, !.free_count = n - 1, !.peak_used = peak]
  BY <1>0, <1>4 DEF xgl_mempool_alloc, Pool
<1>6. n - 1 \in Nat /\ rest \in Seq(Nat)
  BY <1>1, <1>2, <1>4
<1>7. /\ xgl_mempool_alloc(pool) \in Pool
      /\ xgl_mempool_alloc(pool).block_count = pool.block_count
      /\ xgl_mempool_alloc(pool).free_list = rest
      /\ xgl_mempool_alloc(pool).free_count = n - 1
  BY <1>3, <1>5, <1>6 DEF Pool
<1> QED
  BY <1>0, <1>2, <1>4, <1>7 DEF FreeList

\* xgl_mempool_free puts a block of the pool back that is not on the list, and
\* does nothing with any other.
LEMMA PoolTakesBack ==
    ASSUME NEW pool \in Pool, NEW used \in SUBSET (1..pool.block_count), NEW b \in Nat,
           FreeList(pool.free_list, (1..pool.block_count) \ used),
           Len(pool.free_list) = pool.free_count
    PROVE  LET new == xgl_mempool_free(pool, b)
           IN  /\ new \in Pool /\ new.block_count = pool.block_count
               /\ FreeList(new.free_list, (1..pool.block_count) \ (used \ {b}))
               /\ Len(new.free_list) = new.free_count
<1>0. PICK seq, n, k, free :
         /\ seq = pool.free_list /\ n = pool.free_count /\ k = pool.block_count
         /\ free = (1..k) \ used
  OBVIOUS
<1>1. /\ seq \in Seq(Nat) /\ IsInjective(seq) /\ ToSet(seq) = free /\ Len(seq) = n
      /\ n \in Nat /\ k \in Nat
  BY <1>0 DEF FreeList, Pool
<1>2. CASE b \in used
  <2>1. b \in 1..k /\ b \notin ToSet(seq)
    BY <1>0, <1>1, <1>2
  <2>2. n < k
    <3>1. IsFiniteSet(1..k) /\ Cardinality(1..k) = k
      BY <1>1, UpTo
    <3>2. Cardinality((1..k) \ {b}) = k - 1 /\ IsFiniteSet((1..k) \ {b})
      <4>1. PICK I : I = 1..k
        OBVIOUS
      <4>2. IsFiniteSet(I) /\ Cardinality(I) = k /\ b \in I
        BY <2>1, <3>1, <4>1
      <4>3. Cardinality(I \ {b}) = k - 1 /\ IsFiniteSet(I \ {b})
        BY <4>2, FS_RemoveElement
      <4> QED
        BY <4>1, <4>3
    <3>3. ToSet(seq) \in SUBSET ((1..k) \ {b})
      BY <1>0, <1>1, <2>1
    <3>4. Cardinality(ToSet(seq)) = n
      BY <1>1, ListCounts
    <3>5. n <= k - 1
      BY <3>2, <3>3, <3>4, FS_Subset
    <3> QED
      BY <1>1, <3>5
  <2>3. PICK more : more = <<b>> \o seq
    OBVIOUS
  <2>4. /\ more \in Seq(Nat) /\ IsInjective(more) /\ Len(more) = n + 1
        /\ ToSet(more) = free \union {b}
    BY <1>1, <2>1, <2>3, PushNew
  <2>5. xgl_mempool_free(pool, b) = [pool EXCEPT !.free_list = more, !.free_count = n + 1]
    <3>1. ~(n >= k)
      BY <1>1, <2>2
    <3> QED
      BY <1>0, <2>1, <2>3, <3>1
      DEF xgl_mempool_free, mempool_contains_block, mempool_free_list_contains, Pool
  <2>6. /\ xgl_mempool_free(pool, b) \in Pool
        /\ xgl_mempool_free(pool, b).block_count = pool.block_count
        /\ xgl_mempool_free(pool, b).free_list = more
        /\ xgl_mempool_free(pool, b).free_count = n + 1
    <3>1. n + 1 \in Nat
      BY <1>1
    <3> QED
      BY <2>4, <2>5, <3>1 DEF Pool
  <2>7. free \union {b} = (1..k) \ (used \ {b})
    BY <1>0, <2>1
  <2> QED
    BY <1>0, <2>4, <2>6, <2>7 DEF FreeList
<1>3. CASE b \notin used
  <2>1. b \notin 1..k \/ b \in ToSet(seq)
    BY <1>0, <1>1, <1>3
  <2>2. xgl_mempool_free(pool, b) = pool
    BY <1>0, <2>1 DEF xgl_mempool_free, mempool_contains_block, mempool_free_list_contains
  <2>3. used \ {b} = used
    BY <1>3
  <2> QED
    BY <2>2, <2>3
<1> QED
  BY <1>2, <1>3

\* A step on one tier of the TX pool keeps the partition.
LEMMA TxStep ==
    ASSUME TxPoolOK, NEW t \in Tier, NEW new,
           tx_pool' = [tx_pool EXCEPT ![t] = new], held' \subseteq Holding,
           new \in Pool, new.block_count = tx_pool[t].block_count,
           FreeList(new.free_list, (1..new.block_count) \ Used(t)'),
           Len(new.free_list) = new.free_count,
           \A u \in Tier \ {t} : Used(u)' = Used(u),
           \A h \in held' : /\ h.size <= TierSize[h.pointer.tier]
                            /\ h.pointer.block \in 1..tx_pool[h.pointer.tier].block_count,
           \A g, h \in held' : g.pointer = h.pointer => g = h
    PROVE  TxPoolOK'
<1>1. tx_pool \in [Tier -> Pool]
  BY DEF TxPoolOK
<1>2. tx_pool' \in [Tier -> Pool] /\ tx_pool'[t] = new
      /\ \A u \in Tier \ {t} : tx_pool'[u] = tx_pool[u]
  BY <1>1
<1>3. \A u \in Tier : tx_pool'[u].block_count = tx_pool[u].block_count
  BY <1>2
<1>4. ASSUME NEW u \in Tier
      PROVE  /\ FreeList(tx_pool'[u].free_list, (1..tx_pool'[u].block_count) \ Used(u)')
             /\ Len(tx_pool'[u].free_list) = tx_pool'[u].free_count
  <2>1. CASE u = t
    BY <1>2, <2>1
  <2>2. CASE u # t
    <3>1. tx_pool'[u] = tx_pool[u] /\ Used(u)' = Used(u)
      BY <1>2, <2>2
    <3>2. /\ FreeList(tx_pool[u].free_list, (1..tx_pool[u].block_count) \ Used(u))
          /\ Len(tx_pool[u].free_list) = tx_pool[u].free_count
      BY DEF TxPoolOK
    <3> QED
      BY <3>1, <3>2
  <2> QED
    BY <2>1, <2>2
<1>5. ASSUME NEW h \in held'
      PROVE  /\ h.size <= TierSize[h.pointer.tier]
             /\ h.pointer.block \in 1..tx_pool'[h.pointer.tier].block_count
  <2>1. h.pointer.tier \in Tier
    BY DEF Holding
  <2>2. tx_pool'[h.pointer.tier].block_count = tx_pool[h.pointer.tier].block_count
    BY <1>3, <2>1
  <2> QED
    BY <2>2
<1> QED
  BY <1>2, <1>4, <1>5 DEF TxPoolOK

\* xgl_tiered_pool_alloc hands out a block nobody has.
LEMMA TxAllocPool ==
    ASSUME TxPoolOK, NEW size \in Requests, TxAlloc(size)
    PROVE  TxPoolOK'
<1>0. PICK p : p = TieredPointer(tx_pool, size)
  OBVIOUS
<1>1. /\ tx_pool' = IF p = NoPointer THEN tx_pool
                    ELSE [tx_pool EXCEPT ![p.tier] = xgl_mempool_alloc(@)]
      /\ held' = IF p = NoPointer THEN held ELSE held \union {[pointer |-> p, size |-> size]}
  BY <1>0 DEF TxAlloc, xgl_tiered_pool_alloc
<1>2. CASE p = NoPointer
  <2>1. UNCHANGED <<tx_pool, held>>
    BY <1>1, <1>2
  <2> QED
    BY <2>1, TxPoolFrame
<1>3. CASE p # NoPointer
  <2>1. PICK t \in Tier : /\ p = [tier |-> t, block |-> Head(tx_pool[t].free_list)]
                          /\ Takes(tx_pool, size, t)
    BY <1>0, <1>3, PointerIs
  <2>2. PICK pool, new, b : /\ pool = tx_pool[t] /\ new = xgl_mempool_alloc(pool)
                            /\ b = Head(pool.free_list)
    OBVIOUS
  <2>3. p.tier = t /\ p.block = b /\ p = [tier |-> t, block |-> b]
    BY <2>1, <2>2
  <2>4. size <= TierSize[t] /\ pool.free_list # <<>>
    BY <2>1, <2>2 DEF Takes
  <2>5. /\ pool \in Pool /\ FreeList(pool.free_list, (1..pool.block_count) \ Used(t))
        /\ Len(pool.free_list) = pool.free_count
    BY <2>2 DEF TxPoolOK
  <2>6. /\ new \in Pool /\ new.block_count = pool.block_count
        /\ b \in (1..pool.block_count) \ Used(t)
        /\ FreeList(new.free_list, ((1..pool.block_count) \ Used(t)) \ {b})
        /\ Len(new.free_list) = new.free_count
    BY <2>2, <2>4, <2>5, PoolTakes
  <2>7. PICK h : h = [pointer |-> p, size |-> size]
    OBVIOUS
  <2>8. h.pointer = p /\ h.size = size /\ held' = held \union {h}
    BY <1>1, <1>3, <2>7
  <2>9. tx_pool' = [tx_pool EXCEPT ![t] = new]
    BY <1>1, <1>3, <2>2, <2>3
  <2>10. Used(t)' = Used(t) \union {b}
    BY <2>3, <2>8 DEF Used
  <2>11. \A u \in Tier \ {t} : Used(u)' = Used(u)
    BY <2>3, <2>8 DEF Used
  <2>12. FreeList(new.free_list, (1..new.block_count) \ Used(t)')
    <3>1. (1..new.block_count) \ Used(t)' = ((1..pool.block_count) \ Used(t)) \ {b}
      BY <2>6, <2>10
    <3> QED
      BY <2>6, <3>1
  <2>13. held \subseteq Holding
    BY DEF TxPoolOK
  <2>14. h \in Holding
    <3>1. size \in Nat /\ b \in Nat
      BY <2>6, InstanceAssumption
    <3> QED
      BY <2>3, <2>7, <3>1 DEF Holding
  <2>15. \A g \in held' : /\ g.size <= TierSize[g.pointer.tier]
                          /\ g.pointer.block \in 1..tx_pool[g.pointer.tier].block_count
    BY <2>2, <2>3, <2>4, <2>6, <2>8 DEF TxPoolOK
  <2>16. \A g \in held : g.pointer # p
    BY <2>3, <2>6 DEF Used
  <2>17. \A g, k \in held' : g.pointer = k.pointer => g = k
    BY <2>8, <2>16 DEF TxPoolOK
  <2>18. held' \subseteq Holding /\ new.block_count = tx_pool[t].block_count
    BY <2>2, <2>6, <2>8, <2>13, <2>14
  <2> QED
    BY <2>6, <2>9, <2>11, <2>12, <2>15, <2>17, <2>18, TxStep
<1> QED
  BY <1>2, <1>3

\* xgl_tiered_pool_free takes a block back once; a second release and a foreign
\* pointer change nothing.
LEMMA TxFreePool ==
    ASSUME TxPoolOK, NEW pointer \in AllPointers, TxFree(pointer)
    PROVE  TxPoolOK'
<1>1. /\ tx_pool' = xgl_tiered_pool_free(tx_pool, pointer)
      /\ held' = {h \in held : h.pointer # pointer}
  BY DEF TxFree
<1>2. \/ pointer = NoPointer
      \/ \E t \in Tier, b \in 1..tx_pool["small"].block_count :
            pointer = [tier |-> t, block |-> b]
  BY DEF AllPointers
<1>3. held \subseteq Holding
  BY DEF TxPoolOK
<1>4. CASE pointer = NoPointer
  <2>1. pointer.tier \notin Tier
    BY <1>4 DEF NoPointer, Tier
  <2>2. \A h \in held : h.pointer.tier \in Tier
    BY <1>3 DEF Holding
  <2>3. held' = held
    BY <1>1, <2>1, <2>2
  <2>4. tx_pool' = tx_pool
    BY <1>1, <2>1 DEF xgl_tiered_pool_free
  <2> QED
    BY <2>3, <2>4, TxPoolFrame
<1>5. ASSUME NEW t \in Tier, NEW b \in 1..tx_pool["small"].block_count,
             pointer = [tier |-> t, block |-> b]
      PROVE  TxPoolOK'
  <2>1. PICK pool, new : pool = tx_pool[t] /\ new = xgl_mempool_free(pool, b)
    OBVIOUS
  <2>2. pointer.tier = t /\ pointer.block = b
    BY <1>5
  <2>3. tx_pool' = [tx_pool EXCEPT ![t] = new]
    BY <1>1, <2>1, <2>2 DEF xgl_tiered_pool_free
  <2>4. /\ pool \in Pool /\ FreeList(pool.free_list, (1..pool.block_count) \ Used(t))
        /\ Len(pool.free_list) = pool.free_count
    BY <2>1 DEF TxPoolOK
  <2>5. Used(t) \in SUBSET (1..pool.block_count)
    BY <2>1 DEF TxPoolOK, Used
  <2>6. b \in Nat
    <3>1. tx_pool["small"].block_count \in Nat
      BY DEF TxPoolOK, Pool, Tier
    <3> QED
      BY <1>5, <3>1
  <2>7. /\ new \in Pool /\ new.block_count = pool.block_count
        /\ FreeList(new.free_list, (1..pool.block_count) \ (Used(t) \ {b}))
        /\ Len(new.free_list) = new.free_count
    BY <2>1, <2>4, <2>5, <2>6, PoolTakesBack
  <2>8. \A h \in held : /\ h.pointer = [tier |-> h.pointer.tier, block |-> h.pointer.block]
                        /\ h.pointer.tier \in Tier
    BY <1>3 DEF Holding
  <2>9. \A h \in held : h.pointer = pointer <=> h.pointer.tier = t /\ h.pointer.block = b
    BY <1>5, <2>2, <2>8
  <2>10. Used(t)' = Used(t) \ {b}
    <3>1. Used(t)' = {h.pointer.block : h \in {g \in held' : g.pointer.tier = t}}
      BY DEF Used
    <3>2. Used(t) = {h.pointer.block : h \in {g \in held : g.pointer.tier = t}}
      BY DEF Used
    <3> QED
      BY <1>1, <2>9, <3>1, <3>2
  <2>11. ASSUME NEW u \in Tier \ {t}
         PROVE  Used(u)' = Used(u)
    <3>1. Used(u)' = {h.pointer.block : h \in {g \in held' : g.pointer.tier = u}}
      BY DEF Used
    <3>2. Used(u) = {h.pointer.block : h \in {g \in held : g.pointer.tier = u}}
      BY DEF Used
    <3> QED
      BY <1>1, <2>9, <3>1, <3>2
  <2>12. FreeList(new.free_list, (1..new.block_count) \ Used(t)')
    BY <2>7, <2>10
  <2>13. held' \subseteq held
    BY <1>1
  <2>14. /\ \A h \in held' : /\ h.size <= TierSize[h.pointer.tier]
                             /\ h.pointer.block \in 1..tx_pool[h.pointer.tier].block_count
         /\ \A g, h \in held' : g.pointer = h.pointer => g = h
    BY <2>13 DEF TxPoolOK
  <2>15. held' \subseteq Holding /\ new.block_count = tx_pool[t].block_count
    BY <1>3, <2>1, <2>7, <2>13
  <2> QED
    BY <2>3, <2>7, <2>11, <2>12, <2>14, <2>15, TxStep
<1> QED
  BY <1>2, <1>4, <1>5

\* Steps that leave the heap and the pointers alone.
LEMMA SameHeap ==
    ASSUME InstanceInv, UNCHANGED <<mem, ptr, config>>
    PROVE  PointersOK(config, Now)' /\ Untouched(Now, Now')
<1>1. Now' = Now
  BY DEF Now
<1>2. PointersOK(config, Now)'
  BY <1>1 DEF InstanceInv, PointersOK
<1> QED
  BY <1>1, <1>2 DEF Untouched

\* Use of the TX pool keeps the invariant.
LEMMA TxKeeps ==
    ASSUME InstanceInv, handle = "ready",
           UNCHANGED <<lifeVars, mem, packet_pool, data, packets>>, TxPoolOK'
    PROVE  InstanceInv'
<1>1. UNCHANGED <<handle, config, ptr, mutex, codecs, orphans, outcome>>
  BY DEF lifeVars
<1>2. PointersOK(config, Now)' /\ Untouched(Now, Now')
  BY <1>1, SameHeap
<1>3. LifeOK'
  BY LifeFrame DEF InstanceInv
<1>4. PacketPoolOK' /\ CodecsOK'
  BY <1>1, PacketPoolFrame, CodecsFrame DEF InstanceInv
<1>5. DataOK'
  BY <1>1, <1>2, DataFrame DEF InstanceInv
<1> QED
  BY <1>2, <1>3, <1>4, <1>5 DEF InstanceInv

-----------------------------------------------------------------------------
(***************************************************************************)
(* Packets and their data                                                  *)
(***************************************************************************)
\* Blocks that no field owns come and go; the fields do not notice.
LEMMA HeapStep ==
    ASSUME InstanceInv, UNCHANGED <<ptr, config>>, HeapOK(mem'), NEW fresh, NEW gone,
           fresh \intersect DOMAIN mem.blocks = {}, NULL \notin fresh,
           gone \subseteq Unowned(Now),
           DOMAIN mem'.blocks = (DOMAIN mem.blocks \ gone) \union fresh,
           \A a \in DOMAIN mem.blocks \ gone : mem'.blocks[a] = mem.blocks[a]
    PROVE  /\ PointersOK(config, Now)'
           /\ Unowned(Now') = (Unowned(Now) \ gone) \union fresh
<1>1. /\ ptr \in [Field -> Nat]
      /\ \A f \in Field : ptr[f] # NULL =>
            ptr[f] \in DOMAIN mem.blocks /\ mem.blocks[ptr[f]].allocator = AllocatorOf(config, f)
      /\ \A f, g \in Field : ptr[f] # NULL /\ ptr[f] = ptr[g] => f = g
  BY DEF InstanceInv, PointersOK, Now
<1>2. Unowned(Now) = DOMAIN mem.blocks \ {ptr[f] : f \in Field}
  BY DEF Unowned, Now
<1>3. \A f \in Field : ptr[f] \notin gone /\ ptr[f] \notin fresh
  BY <1>1, <1>2
<1>4. \A f \in Field : ptr[f] # NULL =>
         ptr[f] \in DOMAIN mem'.blocks /\ mem'.blocks[ptr[f]].allocator = AllocatorOf(config, f)
  BY <1>1, <1>3
<1>5. Now' = [mem |-> mem', ptr |-> ptr]
  BY DEF Now
<1>6. PointersOK(config, Now)'
  BY <1>1, <1>4, <1>5 DEF PointersOK
<1>7. Unowned(Now') = DOMAIN mem'.blocks \ {ptr[f] : f \in Field}
  BY <1>5 DEF Unowned
<1>8. Unowned(Now') = (Unowned(Now) \ gone) \union fresh
  BY <1>2, <1>3, <1>7
<1> QED
  BY <1>6, <1>8

\* What the invariant says of the packets.
LEMMA PacketFacts ==
    ASSUME InstanceInv
    PROVE  /\ HeapOK(mem) /\ NULL \notin DOMAIN mem.blocks
           /\ DOMAIN data \subseteq DOMAIN mem.blocks /\ Buffers \subseteq DOMAIN mem.blocks
           /\ packet_pool \in PacketPool /\ packet_pool.total_count \in Nat
           /\ packets \subseteq 1..packet_pool.total_count
           /\ IsFiniteSet(packets)
           /\ packet_pool.data \in [1..packet_pool.total_count -> Nat]
           /\ \A p \in packets : packet_pool.data[p] = NULL \/ packet_pool.data[p] \in DOMAIN data
<1>1. HeapOK(mem) /\ NULL \notin DOMAIN mem.blocks
  BY DEF InstanceInv, PointersOK, Now, HeapOK, BlocksOK, NULL
<1>2. DOMAIN data \subseteq DOMAIN mem.blocks /\ Buffers \subseteq DOMAIN mem.blocks
  BY DEF InstanceInv, DataOK, Unowned, Now
<1>3. /\ packet_pool \in PacketPool /\ packets \subseteq 1..packet_pool.total_count
      /\ packet_pool.data \in [1..packet_pool.total_count -> Nat]
  BY DEF InstanceInv, PacketPoolOK
<1>4. packet_pool.total_count \in Nat
  BY <1>3 DEF PacketPool
<1>5. IsFiniteSet(packets)
  <2>1. IsFiniteSet(1..packet_pool.total_count)
    BY <1>4, UpTo
  <2> QED
    BY <1>3, <2>1, FS_Subset
<1>6. \A p \in packets : packet_pool.data[p] = NULL \/ packet_pool.data[p] \in DOMAIN data
  BY DEF InstanceInv, DataOK, DataOf
<1> QED
  BY <1>1, <1>2, <1>3, <1>4, <1>5, <1>6

\* xgl_packet_alloc takes a packet without data off the list.
LEMMA PacketAllocKeeps ==
    ASSUME InstanceInv, handle = "ready", PacketAlloc
    PROVE  InstanceInv'
<1>0. PICK seq, n, k, peak, p :
         /\ seq = packet_pool.free_list /\ n = packet_pool.free_count
         /\ k = packet_pool.total_count
         /\ peak = Larger(packet_pool.peak_used, packet_pool.total_count
                                                 - packet_pool.free_count + 1)
         /\ p = Head(seq)
  OBVIOUS
<1>1. /\ seq # <<>> /\ packet_pool' = xgl_packet_alloc(packet_pool)
      /\ packets' = packets \union {p}
      /\ UNCHANGED <<lifeVars, mem, tx_pool, data, held>>
  BY <1>0 DEF PacketAlloc
<1>2. /\ packet_pool \in PacketPool /\ packets \subseteq 1..k
      /\ FreeList(seq, (1..k) \ packets) /\ Len(seq) = n
      /\ packet_pool.data \in [1..k -> Nat]
      /\ \A q \in (1..k) \ packets : packet_pool.data[q] = NULL
  BY <1>0 DEF InstanceInv, PacketPoolOK
<1>3. n \in Nat /\ k \in Nat /\ packet_pool.peak_used \in Int /\ seq \in Seq(Nat)
  BY <1>0, <1>2 DEF PacketPool
<1>4. PICK rest : rest = Tail(seq)
  OBVIOUS
<1>5. /\ rest \in Seq(Nat) /\ IsInjective(rest) /\ Len(rest) = n - 1 /\ n > 0
      /\ p \in (1..k) \ packets /\ ToSet(rest) = ((1..k) \ packets) \ {p}
  BY <1>0, <1>1, <1>2, <1>4, PopFirst DEF FreeList
<1>6. peak \in Int /\ n - 1 \in Nat
  BY <1>0, <1>3, <1>5 DEF Larger
<1>7. packet_pool' = [packet_pool EXCEPT !.free_list = rest, !.free_count = n - 1,
                                         !.peak_used = peak]
  BY <1>0, <1>1, <1>2, <1>4 DEF xgl_packet_alloc, xgl_list_remove_head, PacketPool
<1>8. /\ packet_pool' \in PacketPool /\ packet_pool'.total_count = k
      /\ packet_pool'.free_list = rest /\ packet_pool'.free_count = n - 1
      /\ packet_pool'.data = packet_pool.data
  BY <1>0, <1>2, <1>5, <1>6, <1>7 DEF PacketPool
<1>9. PacketPoolOK'
  <2>1. packets' \subseteq 1..k
    BY <1>1, <1>2, <1>5
  <2>2. FreeList(rest, (1..k) \ packets')
    BY <1>1, <1>5 DEF FreeList
  <2>3. \A q \in (1..k) \ packets' : packet_pool.data[q] = NULL
    BY <1>1, <1>2
  <2> QED
    BY <1>2, <1>5, <1>8, <2>1, <2>2, <2>3 DEF PacketPoolOK
<1>10. UNCHANGED <<handle, config, ptr, mutex, codecs, orphans, outcome>>
  BY <1>1 DEF lifeVars
<1>11. PointersOK(config, Now)' /\ Untouched(Now, Now')
  BY <1>1, <1>10, SameHeap
<1>12. DataOK'
  <2>1. packet_pool.data[p] = NULL
    BY <1>2, <1>5
  <2>2. NULL \notin DOMAIN data
    BY PacketFacts
  <2>3. \A d \in DOMAIN data : Users(d)' = Users(d)
    BY <1>1, <1>8, <2>1, <2>2 DEF Users
  <2>4. DataOf(packets)' = DataOf(packets)
    BY <1>1, <1>8, <2>1 DEF DataOf
  <2>5. Buffers' = Buffers
    BY <1>1 DEF Buffers
  <2>6. Unowned(Now)' = Unowned(Now)
    BY <1>1, <1>10 DEF Unowned, Now
  <2> QED
    BY <1>1, <1>10, <2>3, <2>4, <2>5, <2>6 DEF InstanceInv, DataOK
<1>13. LifeOK' /\ TxPoolOK' /\ CodecsOK'
  BY <1>1, <1>10, LifeFrame, TxPoolFrame, CodecsFrame DEF InstanceInv
<1> QED
  BY <1>9, <1>11, <1>12, <1>13 DEF InstanceInv

\* The data of one packet changes, in the pool and nowhere else.
LEMMA SlotStep ==
    ASSUME InstanceInv, NEW p \in packets, NEW d \in Nat, packets' = packets,
           packet_pool' = [packet_pool EXCEPT !.data[p] = d]
    PROVE  /\ PacketPoolOK'
           /\ packet_pool'.data[p] = d
           /\ \A q \in packets \ {p} : packet_pool'.data[q] = packet_pool.data[q]
<1>0. PICK k, slots, new : /\ k = packet_pool.total_count /\ slots = packet_pool.data
                           /\ new = [slots EXCEPT ![p] = d]
  OBVIOUS
<1>1. /\ packet_pool \in PacketPool /\ packets \subseteq 1..k /\ k \in Nat
      /\ slots \in [1..k -> Nat]
  BY <1>0, PacketFacts
<1>2. /\ FreeList(packet_pool.free_list, (1..k) \ packets)
      /\ Len(packet_pool.free_list) = packet_pool.free_count
      /\ \A q \in (1..k) \ packets : slots[q] = NULL
  BY <1>0 DEF InstanceInv, PacketPoolOK
<1>3. /\ new \in [1..k -> Nat] /\ new[p] = d
      /\ \A q \in (1..k) \ {p} : new[q] = slots[q]
  BY <1>0, <1>1
<1>4. packet_pool' = [packet_pool EXCEPT !.data = new]
  BY <1>0, <1>1 DEF PacketPool
<1>5. new \in Slots
  BY <1>1, <1>3 DEF Slots
<1>6. /\ packet_pool' \in PacketPool /\ packet_pool'.data = new
      /\ packet_pool'.total_count = k
      /\ packet_pool'.free_list = packet_pool.free_list
      /\ packet_pool'.free_count = packet_pool.free_count
  BY <1>0, <1>1, <1>4, <1>5 DEF PacketPool
<1>7. \A q \in (1..k) \ packets : new[q] = NULL
  BY <1>2, <1>3
<1>8. PacketPoolOK'
  BY <1>1, <1>2, <1>3, <1>6, <1>7 DEF PacketPoolOK
<1> QED
  BY <1>0, <1>1, <1>3, <1>6, <1>8


\* The packets that have data are found, whoever of them has which.
LEMMA UsersAre ==
    ASSUME InstanceInv
    PROVE  /\ NULL \notin DOMAIN data
           /\ \A d : IsFiniteSet(Users(d)) /\ Cardinality(Users(d)) \in Nat
           /\ \A d \in DOMAIN data : data[d].ref_count = Cardinality(Users(d))
           /\ \A d \in DOMAIN data : data[d] \in [ref_count : Nat \ {0}, owned_data : Nat]
<1>1. IsFiniteSet(packets) /\ NULL \notin DOMAIN data
  BY PacketFacts
<1>2. ASSUME NEW d
      PROVE  IsFiniteSet(Users(d)) /\ Cardinality(Users(d)) \in Nat
  <2>1. Users(d) \subseteq packets
    BY DEF Users
  <2>2. IsFiniteSet(Users(d))
    BY <1>1, <2>1, FS_Subset
  <2> QED
    BY <2>2, FS_CardinalityType
<1>3. \A d \in DOMAIN data : /\ data[d].ref_count = Cardinality(Users(d))
                             /\ data[d] \in [ref_count : Nat \ {0}, owned_data : Nat]
  BY DEF InstanceInv, DataOK
<1> QED
  BY <1>1, <1>2, <1>3

\* A count of data that stays changes with the packets that have it.
LEMMA CountStep ==
    ASSUME InstanceInv, NEW d \in DOMAIN data, NEW r \in [ref_count : Nat \ {0}, owned_data : Nat],
           data' = [data EXCEPT ![d] = r], r.owned_data = data[d].owned_data,
           UNCHANGED <<mem, ptr, config, orphans>>,
           r.ref_count = Cardinality(Users(d)'),
           \A e \in DOMAIN data \ {d} : Users(e)' = Users(e),
           DataOf(packets)' = DOMAIN data
    PROVE  DataOK'
<1>1. /\ data = [e \in DOMAIN data |-> data[e]]
      /\ \A e \in DOMAIN data : data[e] \in [ref_count : Nat \ {0}, owned_data : Nat]
  BY DEF InstanceInv, DataOK
<1>2. /\ DOMAIN data' = DOMAIN data /\ data' = [e \in DOMAIN data' |-> data'[e]]
      /\ data'[d] = r /\ \A e \in DOMAIN data \ {d} : data'[e] = data[e]
  BY <1>1
<1>3. \A e \in DOMAIN data : data'[e].owned_data = data[e].owned_data
  BY <1>2
<1>4. Buffers' = Buffers
  BY <1>2, <1>3 DEF Buffers
<1>5. Unowned(Now)' = Unowned(Now)
  BY DEF Unowned, Now
<1>6. \A e \in DOMAIN data' : data'[e] \in [ref_count : Nat \ {0}, owned_data : Nat]
  BY <1>1, <1>2
<1>7. \A e \in DOMAIN data' : data'[e].ref_count = Cardinality(Users(e)')
  BY <1>2, UsersAre
<1>8. \A e, g \in DOMAIN data' : data'[e].owned_data = data'[g].owned_data => e = g
  BY <1>2, <1>3 DEF InstanceInv, DataOK
<1> QED
  BY <1>2, <1>4, <1>5, <1>6, <1>7, <1>8 DEF InstanceInv, DataOK

\* xgl_packet_data_ref
LEMMA PacketDataRefKeeps ==
    ASSUME InstanceInv, handle = "ready", NEW p \in packets, NEW q \in packets,
           PacketDataRef(p, q)
    PROVE  InstanceInv'
<1>0. PICK d, n, r : /\ d = packet_pool.data[p] /\ n = data[d].ref_count
                     /\ r = [data[d] EXCEPT !.ref_count = n + 1]
  OBVIOUS
<1>1. /\ d # NULL /\ packet_pool.data[q] = NULL
      /\ packet_pool' = [packet_pool EXCEPT !.data[q] = d]
      /\ UNCHANGED <<lifeVars, mem, tx_pool, held, packets>>
  BY <1>0 DEF PacketDataRef
<1>2. UNCHANGED <<handle, config, ptr, mutex, codecs, orphans, outcome>>
  BY <1>1 DEF lifeVars
<1>3. d \in DOMAIN data /\ DOMAIN data \subseteq Nat /\ NULL \notin DOMAIN data
  <2>1. packet_pool.data[p] = NULL \/ packet_pool.data[p] \in DOMAIN data
    BY PacketFacts
  <2>2. DOMAIN data \subseteq DOMAIN mem.blocks /\ HeapOK(mem) /\ NULL \notin DOMAIN mem.blocks
    BY PacketFacts
  <2> QED
    BY <1>0, <1>1, <2>1, <2>2 DEF HeapOK, BlocksOK
<1>4. /\ data[d] \in [ref_count : Nat \ {0}, owned_data : Nat]
      /\ n = Cardinality(Users(d)) /\ n \in Nat /\ IsFiniteSet(Users(d))
  BY <1>0, <1>3, UsersAre
<1>5. /\ r \in [ref_count : Nat \ {0}, owned_data : Nat]
      /\ r.ref_count = n + 1 /\ r.owned_data = data[d].owned_data
  BY <1>0, <1>4
<1>6. data' = [data EXCEPT ![d] = r]
  BY <1>0, <1>3 DEF PacketDataRef
<1>7. /\ PacketPoolOK' /\ packet_pool'.data[q] = d
      /\ \A x \in packets \ {q} : packet_pool'.data[x] = packet_pool.data[x]
  <2>1. packets' = packets /\ d \in Nat
    BY <1>1, <1>3
  <2> QED
    BY <1>1, <2>1, SlotStep
<1>8. \A e : Users(e)' = {x \in packets : packet_pool'.data[x] = e}
  BY <1>1 DEF Users
<1>9. r.ref_count = Cardinality(Users(d)')
  <2>1. Users(d)' = Users(d) \union {q} /\ q \notin Users(d)
    BY <1>1, <1>7, <1>8 DEF Users
  <2> QED
    BY <1>4, <1>5, <2>1, FS_AddElement
<1>10. \A e \in DOMAIN data \ {d} : Users(e)' = Users(e)
  BY <1>1, <1>3, <1>7, <1>8 DEF Users
<1>11. DataOf(packets)' = DOMAIN data
  <2>1. DataOf(packets) = DOMAIN data
    BY DEF InstanceInv, DataOK
  <2>2. DataOf(packets)' = {packet_pool'.data[x] : x \in packets} \ {NULL}
    BY <1>1 DEF DataOf
  <2>3. DataOf(packets) = {packet_pool.data[x] : x \in packets} \ {NULL}
    BY DEF DataOf
  <2> QED
    BY <1>1, <1>3, <1>7, <2>1, <2>2, <2>3
<1>12. DataOK'
  BY <1>1, <1>2, <1>3, <1>5, <1>6, <1>9, <1>10, <1>11, CountStep
<1>13. PointersOK(config, Now)'
  BY <1>1, <1>2, SameHeap
<1>14. LifeOK' /\ TxPoolOK' /\ CodecsOK'
  BY <1>1, <1>2, LifeFrame, TxPoolFrame, CodecsFrame DEF InstanceInv
<1> QED
  BY <1>7, <1>12, <1>13, <1>14 DEF InstanceInv

\* xgl_packet_data_create finds memory for the structure and for the buffer.
LEMMA TwoBlocks ==
    ASSUME InstanceInv, handle = "ready", Serves(config.allocator), NEW size \in Nat
    PROVE  LET one == xgl_alloc(mem, config.allocator, size)
               two == xgl_alloc(one, config.allocator, 1)
               d == FreshAddress(mem.blocks)
               o == FreshAddress(one.blocks)
           IN  /\ HeapOK(one) /\ HeapOK(two)
               /\ d \in Nat \ {0} /\ d \notin DOMAIN mem.blocks
               /\ o \in Nat \ {0} /\ o \notin DOMAIN mem.blocks /\ o # d
               /\ DOMAIN one.blocks = DOMAIN mem.blocks \union {d}
               /\ DOMAIN two.blocks = DOMAIN mem.blocks \union {d, o}
               /\ one.blocks[d].allocator = config.allocator
               /\ two.blocks[d].allocator = config.allocator
               /\ two.blocks[o].allocator = config.allocator
               /\ \A a \in DOMAIN mem.blocks : one.blocks[a] = mem.blocks[a]
               /\ \A a \in DOMAIN mem.blocks : two.blocks[a] = mem.blocks[a]
<1>0. PICK one : one = xgl_alloc(mem, config.allocator, size)
  OBVIOUS
<1>1. PICK two : two = xgl_alloc(one, config.allocator, 1)
  OBVIOUS
<1>2. PICK d : d = FreshAddress(mem.blocks)
  OBVIOUS
<1>3. PICK o : o = FreshAddress(one.blocks)
  OBVIOUS
<1>4. config.allocator \in Allocator
  BY InstanceAssumption DEF InstanceInv, LifeOK, Accepted
<1>5. /\ d \in Nat \ {0} /\ d \notin DOMAIN mem.blocks /\ HeapOK(one)
      /\ DOMAIN one.blocks = DOMAIN mem.blocks \union {d}
      /\ one.blocks[d].allocator = config.allocator
      /\ \A a \in DOMAIN mem.blocks : one.blocks[a] = mem.blocks[a]
  <2>1. HeapOK(mem)
    BY PacketFacts
  <2> QED
    BY <1>0, <1>2, <1>4, <2>1, AllocKeeps
<1>6. /\ o \in Nat \ {0} /\ o \notin DOMAIN one.blocks /\ HeapOK(two)
      /\ DOMAIN two.blocks = DOMAIN one.blocks \union {o}
      /\ two.blocks[o].allocator = config.allocator
      /\ \A a \in DOMAIN one.blocks : two.blocks[a] = one.blocks[a]
  <2>1. PICK unit \in Nat : unit = 1
    OBVIOUS
  <2>2. two = xgl_alloc(one, config.allocator, unit) /\ HeapOK(one)
    BY <1>1, <1>5, <2>1
  <2> QED
    BY <1>3, <1>4, <2>2, AllocKeeps
<1>7. /\ DOMAIN two.blocks = DOMAIN mem.blocks \union {d, o} /\ o # d
      /\ o \notin DOMAIN mem.blocks /\ two.blocks[d].allocator = config.allocator
      /\ \A a \in DOMAIN mem.blocks : two.blocks[a] = mem.blocks[a]
  BY <1>5, <1>6
<1> QED
  BY <1>0, <1>1, <1>2, <1>3, <1>5, <1>6, <1>7

\* xgl_packet_data_create, granted: one packet has the new data.
LEMMA DataCreated ==
    ASSUME InstanceInv, handle = "ready", NEW p \in packets, PacketDataCreate(p, TRUE)
    PROVE  InstanceInv'
<1>0. PICK size : size = Sizeof["instance"]
  OBVIOUS
<1>1. PICK one : one = xgl_alloc(mem, config.allocator, size)
  OBVIOUS
<1>2. PICK d, o : d = FreshAddress(mem.blocks) /\ o = FreshAddress(one.blocks)
  OBVIOUS
<1>3. PICK r : r = [ref_count |-> 1, owned_data |-> o]
  OBVIOUS
<1>4. /\ mem' = xgl_alloc(one, config.allocator, 1)
      /\ data' = With(data, d, r)
      /\ packet_pool' = [packet_pool EXCEPT !.data[p] = d]
      /\ packet_pool.data[p] = NULL /\ Serves(config.allocator)
      /\ UNCHANGED <<lifeVars, tx_pool, held, packets>>
  BY <1>0, <1>1, <1>2, <1>3 DEF PacketDataCreate
<1>5. UNCHANGED <<handle, config, ptr, mutex, codecs, orphans, outcome>>
  BY <1>4 DEF lifeVars
<1>6. /\ HeapOK(mem') /\ d \in Nat \ {0} /\ d \notin DOMAIN mem.blocks
      /\ o \in Nat \ {0} /\ o \notin DOMAIN mem.blocks /\ o # d
      /\ DOMAIN mem'.blocks = DOMAIN mem.blocks \union {d, o}
      /\ mem'.blocks[d].allocator = config.allocator
      /\ mem'.blocks[o].allocator = config.allocator
      /\ \A a \in DOMAIN mem.blocks : mem'.blocks[a] = mem.blocks[a]
  <2>1. size \in Nat
    BY <1>0, InstanceAssumption DEF Field
  <2> QED
    BY <1>1, <1>2, <1>4, <2>1, TwoBlocks
<1>7. PICK fresh, gone : fresh = {d, o} /\ gone = {}
  OBVIOUS
<1>8. PointersOK(config, Now)' /\ Unowned(Now') = Unowned(Now) \union {d, o}
  <2>1. fresh \intersect DOMAIN mem.blocks = {} /\ NULL \notin fresh
    BY <1>6, <1>7 DEF NULL
  <2>2. /\ gone \subseteq Unowned(Now)
        /\ DOMAIN mem'.blocks = (DOMAIN mem.blocks \ gone) \union fresh
        /\ \A a \in DOMAIN mem.blocks \ gone : mem'.blocks[a] = mem.blocks[a]
    BY <1>6, <1>7
  <2>3. /\ PointersOK(config, Now)'
        /\ Unowned(Now') = (Unowned(Now) \ gone) \union fresh
    BY <1>5, <1>6, <2>1, <2>2, HeapStep
  <2> QED
    BY <1>7, <2>3
<1>9. /\ DOMAIN data' = DOMAIN data \union {d} /\ d \notin DOMAIN data
      /\ data' = [e \in DOMAIN data' |-> data'[e]]
      /\ data'[d] = r /\ \A e \in DOMAIN data : data'[e] = data[e]
  <2>1. d \notin DOMAIN data
    BY <1>6, PacketFacts
  <2> QED
    BY <1>4, <2>1 DEF With
<1>10. /\ PacketPoolOK' /\ packet_pool'.data[p] = d
       /\ \A x \in packets \ {p} : packet_pool'.data[x] = packet_pool.data[x]
  <2>1. packets' = packets /\ d \in Nat
    BY <1>4, <1>6
  <2> QED
    BY <1>4, <2>1, SlotStep
<1>11. \A e : Users(e)' = {x \in packets : packet_pool'.data[x] = e}
  BY <1>4 DEF Users
<1>12. DataOK'
  <2>1. r \in [ref_count : Nat \ {0}, owned_data : Nat] /\ r.ref_count = 1 /\ r.owned_data = o
    BY <1>3, <1>6
  <2>2. \A e \in DOMAIN data' : data'[e] \in [ref_count : Nat \ {0}, owned_data : Nat]
    BY <1>9, <2>1, UsersAre
  <2>3. Buffers' = Buffers \union {o}
    BY <1>9, <2>1 DEF Buffers
  <2>4. /\ DOMAIN data \subseteq DOMAIN mem.blocks /\ Buffers \subseteq DOMAIN mem.blocks
        /\ orphans \subseteq DOMAIN mem.blocks
    <3>1. orphans \subseteq DOMAIN mem.blocks
      BY DEF InstanceInv, DataOK, Unowned, Now
    <3> QED
      BY <3>1, PacketFacts
  <2>5. /\ Unowned(Now) = DOMAIN data \union Buffers \union orphans
        /\ DOMAIN data \intersect Buffers = {}
        /\ (DOMAIN data \union Buffers) \intersect orphans = {}
    BY DEF InstanceInv, DataOK
  <2>6. Unowned(Now)' = DOMAIN data' \union Buffers' \union orphans'
    <3>1. Unowned(Now)' = Unowned(Now')
      BY DEF Unowned, Now
    <3> QED
      BY <1>5, <1>8, <1>9, <2>3, <2>5, <3>1
  <2>7. DOMAIN data' \intersect Buffers' = {}
    BY <1>6, <1>9, <2>3, <2>4, <2>5
  <2>8. (DOMAIN data' \union Buffers') \intersect orphans' = {}
    BY <1>5, <1>6, <1>9, <2>3, <2>4, <2>5
  <2>9. \A e, g \in DOMAIN data' : data'[e].owned_data = data'[g].owned_data => e = g
    <3>1. \A e \in DOMAIN data : data[e].owned_data # o
      BY <1>6, <2>4 DEF Buffers
    <3>2. \A e, g \in DOMAIN data : data[e].owned_data = data[g].owned_data => e = g
      BY DEF InstanceInv, DataOK
    <3> QED
      BY <1>9, <2>1, <3>1, <3>2
  <2>10. \A a \in DOMAIN data' \union Buffers' : mem'.blocks[a].allocator = config'.allocator
    <3>1. \A a \in DOMAIN data \union Buffers : mem.blocks[a].allocator = config.allocator
      BY DEF InstanceInv, DataOK
    <3> QED
      BY <1>5, <1>6, <1>9, <2>3, <2>4, <3>1
  <2>11. \A e \in DOMAIN data' : data'[e].ref_count = Cardinality(Users(e)')
    <3>1. \A x \in packets : packet_pool.data[x] # d
      BY <1>6, <1>9, PacketFacts DEF NULL
    <3>2. Users(d)' = {p}
      BY <1>10, <1>11, <3>1
    <3>3. Cardinality({p}) = 1
      BY FS_Singleton
    <3>4. \A e \in DOMAIN data : Users(e)' = Users(e)
      BY <1>4, <1>9, <1>10, <1>11, UsersAre DEF Users
    <3> QED
      BY <1>9, <2>1, <3>2, <3>3, <3>4, UsersAre
  <2>12. DataOf(packets)' = DOMAIN data'
    <3>1. DataOf(packets) = DOMAIN data
      BY DEF InstanceInv, DataOK
    <3>2. DataOf(packets)' = {packet_pool'.data[x] : x \in packets} \ {NULL}
      BY <1>4 DEF DataOf
    <3>3. DataOf(packets) = {packet_pool.data[x] : x \in packets} \ {NULL}
      BY DEF DataOf
    <3>4. d # NULL
      BY <1>6 DEF NULL
    <3> QED
      BY <1>4, <1>9, <1>10, <3>1, <3>2, <3>3, <3>4
  <2> QED
    BY <1>9, <2>2, <2>6, <2>7, <2>8, <2>9, <2>10, <2>11, <2>12 DEF DataOK
<1>13. LifeOK' /\ TxPoolOK' /\ CodecsOK'
  BY <1>4, <1>5, LifeFrame, TxPoolFrame, CodecsFrame DEF InstanceInv
<1> QED
  BY <1>8, <1>10, <1>12, <1>13 DEF InstanceInv

\* Steps that leave the packets and every block alone, if not the books.
LEMMA BooksKeep ==
    ASSUME InstanceInv, handle = "ready", HeapOK(mem'), DOMAIN mem'.blocks = DOMAIN mem.blocks,
           \A a \in DOMAIN mem.blocks : mem'.blocks[a] = mem.blocks[a],
           UNCHANGED <<lifeVars, data, held, packets>>,
           packet_pool'.data = packet_pool.data, TxPoolOK', PacketPoolOK'
    PROVE  InstanceInv'
<1>1. UNCHANGED <<handle, config, ptr, mutex, codecs, orphans, outcome>>
  BY DEF lifeVars
<1>2. PICK fresh, gone : fresh = {} /\ gone = {}
  OBVIOUS
<1>3. PointersOK(config, Now)' /\ Unowned(Now') = Unowned(Now)
  <2>1. /\ fresh \intersect DOMAIN mem.blocks = {} /\ NULL \notin fresh
        /\ gone \subseteq Unowned(Now)
        /\ DOMAIN mem'.blocks = (DOMAIN mem.blocks \ gone) \union fresh
        /\ \A a \in DOMAIN mem.blocks \ gone : mem'.blocks[a] = mem.blocks[a]
    BY <1>2
  <2>2. /\ PointersOK(config, Now)'
        /\ Unowned(Now') = (Unowned(Now) \ gone) \union fresh
    BY <1>1, <2>1, HeapStep
  <2> QED
    BY <1>2, <2>2
<1>4. Untouched(Now, Now')
  <2>1. Unowned(Now) \subseteq DOMAIN mem.blocks /\ Now.mem = mem /\ Now'.mem = mem'
    BY DEF Unowned, Now
  <2> QED
    BY <1>3, <2>1 DEF Untouched
<1>5. DataOK'
  BY <1>1, <1>4, DataFrame DEF InstanceInv
<1>6. LifeOK' /\ CodecsOK'
  BY <1>1, LifeFrame, CodecsFrame DEF InstanceInv
<1> QED
  BY <1>3, <1>5, <1>6 DEF InstanceInv

\* xgl_packet_data_create, the buffer refused: the structure goes back.
LEMMA DataRefused ==
    ASSUME InstanceInv, handle = "ready", NEW p \in packets, PacketDataCreate(p, FALSE)
    PROVE  InstanceInv'
<1>0. PICK size : size = Sizeof["instance"]
  OBVIOUS
<1>1. PICK one : one = xgl_alloc(mem, config.allocator, size)
  OBVIOUS
<1>2. PICK d : d = FreshAddress(mem.blocks)
  OBVIOUS
<1>3. /\ mem' = xgl_free(one, config.allocator, d) /\ Serves(config.allocator)
      /\ UNCHANGED <<lifeVars, data, packet_pool, tx_pool, held, packets>>
  BY <1>0, <1>1, <1>2 DEF PacketDataCreate
<1>4. /\ HeapOK(one) /\ d \notin DOMAIN mem.blocks
      /\ DOMAIN one.blocks = DOMAIN mem.blocks \union {d}
      /\ one.blocks[d].allocator = config.allocator
      /\ \A a \in DOMAIN mem.blocks : one.blocks[a] = mem.blocks[a]
  <2>1. size \in Nat
    BY <1>0, InstanceAssumption DEF Field
  <2> QED
    BY <1>1, <1>2, <1>3, <2>1, TwoBlocks
<1>5. /\ HeapOK(mem') /\ DOMAIN mem'.blocks = DOMAIN one.blocks \ {d}
      /\ \A b \in DOMAIN one.blocks \ {d} : mem'.blocks[b] = one.blocks[b]
  <2>1. d \in DOMAIN one.blocks
    BY <1>4
  <2> QED
    BY <1>3, <1>4, <2>1, FreeKeeps
<1>6. /\ DOMAIN mem'.blocks = DOMAIN mem.blocks
      /\ \A a \in DOMAIN mem.blocks : mem'.blocks[a] = mem.blocks[a]
  BY <1>4, <1>5
<1>7. TxPoolOK' /\ PacketPoolOK' /\ packet_pool'.data = packet_pool.data
  BY <1>3, TxPoolFrame, PacketPoolFrame DEF InstanceInv
<1> QED
  BY <1>3, <1>5, <1>6, <1>7, BooksKeep

\* xgl_packet_free, as far as the pool: the packet goes to the end of the list
\* without data.
LEMMA PacketBack ==
    ASSUME InstanceInv, NEW p \in packets, packets' = packets \ {p},
           packet_pool' = xgl_packet_free(packet_pool, p)
    PROVE  /\ PacketPoolOK'
           /\ \A q \in packets' : packet_pool'.data[q] = packet_pool.data[q]
<1>0. PICK seq, n, k, slots, more, new :
         /\ seq = packet_pool.free_list /\ n = packet_pool.free_count
         /\ k = packet_pool.total_count /\ slots = packet_pool.data
         /\ more = Append(seq, p) /\ new = [slots EXCEPT ![p] = NULL]
  OBVIOUS
<1>1. /\ packet_pool \in PacketPool /\ packets \subseteq 1..k /\ k \in Nat
      /\ slots \in [1..k -> Nat]
  BY <1>0, PacketFacts
<1>2. /\ FreeList(seq, (1..k) \ packets) /\ Len(seq) = n
      /\ \A q \in (1..k) \ packets : slots[q] = NULL
  BY <1>0 DEF InstanceInv, PacketPoolOK
<1>3. n \in Nat /\ seq \in Seq(Nat)
  BY <1>0, <1>1 DEF PacketPool
<1>4. p \in 1..k /\ p \in Nat
  BY <1>1
<1>5. /\ more \in Seq(Nat) /\ IsInjective(more) /\ Len(more) = n + 1
      /\ ToSet(more) = ((1..k) \ packets) \union {p}
  <2>1. IsInjective(seq) /\ ToSet(seq) = (1..k) \ packets /\ p \notin ToSet(seq)
    BY <1>2 DEF FreeList
  <2> QED
    BY <1>0, <1>2, <1>3, <1>4, <2>1, AppendNew
<1>6. NULL \in Nat
  BY DEF NULL
<1>7. /\ new \in [1..k -> Nat] /\ new[p] = NULL
      /\ \A q \in (1..k) \ {p} : new[q] = slots[q]
  BY <1>0, <1>1, <1>4, <1>6
<1>8. packet_pool' = [packet_pool EXCEPT !.free_list = more, !.free_count = n + 1,
                                         !.data = new]
  BY <1>0, <1>1 DEF xgl_packet_free, xgl_list_insert_tail, PacketPool
<1>9. new \in Slots /\ n + 1 \in Nat
  BY <1>1, <1>3, <1>7 DEF Slots
<1>10. /\ packet_pool' \in PacketPool /\ packet_pool'.total_count = k
       /\ packet_pool'.free_list = more /\ packet_pool'.free_count = n + 1
       /\ packet_pool'.data = new
  BY <1>0, <1>1, <1>5, <1>8, <1>9 DEF PacketPool
<1>11. FreeList(more, (1..k) \ packets')
  <2>1. (1..k) \ packets' = ((1..k) \ packets) \union {p}
    BY <1>4
  <2> QED
    BY <1>5, <2>1 DEF FreeList
<1>12. \A q \in (1..k) \ packets' : new[q] = NULL
  BY <1>2, <1>7
<1>13. packets' \subseteq 1..k
  BY <1>1
<1>14. PacketPoolOK'
  BY <1>5, <1>7, <1>10, <1>11, <1>12, <1>13 DEF PacketPoolOK
<1>15. \A q \in packets' : packet_pool'.data[q] = slots[q]
  BY <1>7, <1>10, <1>13
<1> QED
  BY <1>0, <1>14, <1>15

\* xgl_packet_free of a packet that has no data.
LEMMA FreeBare ==
    ASSUME InstanceInv, handle = "ready", NEW p \in packets, PacketFree(p),
           packet_pool.data[p] = NULL
    PROVE  InstanceInv'
<1>1. /\ packet_pool' = xgl_packet_free(packet_pool, p) /\ packets' = packets \ {p}
      /\ UNCHANGED <<lifeVars, mem, data, tx_pool, held>>
  BY DEF PacketFree
<1>2. UNCHANGED <<handle, config, ptr, mutex, codecs, orphans, outcome>>
  BY <1>1 DEF lifeVars
<1>3. PacketPoolOK' /\ \A q \in packets' : packet_pool'.data[q] = packet_pool.data[q]
  BY <1>1, PacketBack
<1>4. DataOK'
  <2>1. \A d \in DOMAIN data : Users(d)' = Users(d)
    BY <1>1, <1>3, UsersAre DEF Users
  <2>2. DataOf(packets)' = DataOf(packets)
    BY <1>1, <1>3 DEF DataOf
  <2>3. Buffers' = Buffers
    BY <1>1 DEF Buffers
  <2>4. Unowned(Now)' = Unowned(Now)
    BY <1>1, <1>2 DEF Unowned, Now
  <2> QED
    BY <1>1, <1>2, <2>1, <2>2, <2>3, <2>4 DEF InstanceInv, DataOK
<1>5. PointersOK(config, Now)'
  BY <1>1, <1>2, SameHeap
<1>6. LifeOK' /\ TxPoolOK' /\ CodecsOK'
  BY <1>1, <1>2, LifeFrame, TxPoolFrame, CodecsFrame DEF InstanceInv
<1> QED
  BY <1>3, <1>4, <1>5, <1>6 DEF InstanceInv

\* xgl_packet_free of a packet with data: who is left to use which data.
LEMMA UserGone ==
    ASSUME InstanceInv, NEW p \in packets, NEW d, d = packet_pool.data[p], d # NULL,
           packets' = packets \ {p},
           \A q \in packets' : packet_pool'.data[q] = packet_pool.data[q]
    PROVE  /\ d \in DOMAIN data
           /\ Users(d)' = Users(d) \ {p} /\ p \in Users(d)
           /\ Cardinality(Users(d)') = data[d].ref_count - 1
           /\ \A e \in DOMAIN data \ {d} : Users(e)' = Users(e)
           /\ DataOf(packets)' = IF data[d].ref_count = 1 THEN DOMAIN data \ {d} ELSE DOMAIN data
<1>1. d \in DOMAIN data
  BY PacketFacts
<1>2. \A e : Users(e)' = {q \in packets \ {p} : packet_pool.data[q] = e}
  BY DEF Users
<1>3. Users(d)' = Users(d) \ {p} /\ p \in Users(d)
  BY <1>2 DEF Users
<1>4. /\ data[d].ref_count = Cardinality(Users(d)) /\ IsFiniteSet(Users(d))
      /\ Cardinality(Users(d)) \in Nat
  BY <1>1, UsersAre
<1>5. IsFiniteSet(Users(d)') /\ Cardinality(Users(d)') = data[d].ref_count - 1
  BY <1>3, <1>4, FS_RemoveElement
<1>6. \A e \in DOMAIN data \ {d} : Users(e)' = Users(e)
  BY <1>2 DEF Users
<1>7. DataOf(packets) = DOMAIN data
  BY DEF InstanceInv, DataOK
<1>8. DataOf(packets) = {packet_pool.data[q] : q \in packets} \ {NULL}
  BY DEF DataOf
<1>9. DataOf(packets)' = {packet_pool.data[q] : q \in packets \ {p}} \ {NULL}
  BY DEF DataOf
<1>10. d \in DataOf(packets)' <=> Users(d)' # {}
  BY <1>2, <1>9
<1>11. DataOf(packets)' \ {d} = DOMAIN data \ {d}
  BY <1>7, <1>8, <1>9
<1>12. Users(d)' = {} <=> data[d].ref_count = 1
  <2>1. Users(d)' = {} <=> Cardinality(Users(d)') = 0
    BY <1>5, FS_EmptySet
  <2> QED
    BY <1>4, <1>5, <2>1
<1>13. DataOf(packets)' = IF data[d].ref_count = 1 THEN DOMAIN data \ {d} ELSE DOMAIN data
  <2>1. PICK S : S = DataOf(packets)'
    OBVIOUS
  <2>2. (d \in S <=> data[d].ref_count # 1) /\ S \ {d} = DOMAIN data \ {d}
    BY <1>10, <1>11, <1>12, <2>1
  <2>3. S = IF data[d].ref_count = 1 THEN DOMAIN data \ {d} ELSE DOMAIN data
    BY <1>1, <2>2
  <2> QED
    BY <2>1, <2>3
<1> QED
  BY <1>1, <1>3, <1>5, <1>6, <1>13

\* xgl_packet_free while another packet has the data too.
LEMMA FreeShared ==
    ASSUME InstanceInv, handle = "ready", NEW p \in packets, PacketFree(p),
           packet_pool.data[p] # NULL, ~LastReference(packet_pool.data[p])
    PROVE  InstanceInv'
<1>0. PICK d, n, r : /\ d = packet_pool.data[p] /\ n = data[d].ref_count
                     /\ r = [data[d] EXCEPT !.ref_count = n - 1]
  OBVIOUS
<1>1. /\ packet_pool' = xgl_packet_free(packet_pool, p) /\ packets' = packets \ {p}
      /\ data' = [data EXCEPT ![d].ref_count = @ - 1]
      /\ UNCHANGED <<lifeVars, mem, tx_pool, held>>
  BY <1>0 DEF PacketFree
<1>2. UNCHANGED <<handle, config, ptr, mutex, codecs, orphans, outcome>>
  BY <1>1 DEF lifeVars
<1>3. PacketPoolOK' /\ \A q \in packets' : packet_pool'.data[q] = packet_pool.data[q]
  BY <1>1, PacketBack
<1>4. ~(n <= 1) /\ d # NULL
  BY <1>0 DEF LastReference
<1>5. /\ d \in DOMAIN data /\ Cardinality(Users(d)') = n - 1
      /\ \A e \in DOMAIN data \ {d} : Users(e)' = Users(e)
      /\ DataOf(packets)' = IF n = 1 THEN DOMAIN data \ {d} ELSE DOMAIN data
  BY <1>0, <1>1, <1>3, <1>4, UserGone
<1>6. data[d] \in [ref_count : Nat \ {0}, owned_data : Nat] /\ n \in Nat
  BY <1>0, <1>5, UsersAre
<1>7. DataOf(packets)' = DOMAIN data
  BY <1>4, <1>5, <1>6
<1>8. /\ r \in [ref_count : Nat \ {0}, owned_data : Nat]
      /\ r.ref_count = n - 1 /\ r.owned_data = data[d].owned_data
  BY <1>0, <1>4, <1>6
<1>9. data' = [data EXCEPT ![d] = r]
  BY <1>0, <1>1, <1>5
<1>10. r.ref_count = Cardinality(Users(d)')
  BY <1>5, <1>8
<1>11. DataOK'
  BY <1>1, <1>2, <1>5, <1>7, <1>8, <1>9, <1>10, CountStep
<1>12. PointersOK(config, Now)'
  BY <1>1, <1>2, SameHeap
<1>13. LifeOK' /\ TxPoolOK' /\ CodecsOK'
  BY <1>1, <1>2, LifeFrame, TxPoolFrame, CodecsFrame DEF InstanceInv
<1> QED
  BY <1>3, <1>11, <1>12, <1>13 DEF InstanceInv

\* xgl_packet_free of the last packet that has the data: buffer and structure
\* are released.
LEMMA FreeLast ==
    ASSUME InstanceInv, handle = "ready", NEW p \in packets, PacketFree(p),
           packet_pool.data[p] # NULL, LastReference(packet_pool.data[p])
    PROVE  InstanceInv'
<1>0. PICK d, o : d = packet_pool.data[p] /\ o = data[d].owned_data
  OBVIOUS
<1>1. PICK one : one = xgl_free(mem, config.allocator, o)
  OBVIOUS
<1>2. /\ packet_pool' = xgl_packet_free(packet_pool, p) /\ packets' = packets \ {p}
      /\ mem' = xgl_free(one, config.allocator, d) /\ data' = Without(data, d)
      /\ UNCHANGED <<lifeVars, tx_pool, held>>
  BY <1>0, <1>1 DEF PacketFree
<1>3. UNCHANGED <<handle, config, ptr, mutex, codecs, orphans, outcome>>
  BY <1>2 DEF lifeVars
<1>4. PacketPoolOK' /\ \A q \in packets' : packet_pool'.data[q] = packet_pool.data[q]
  BY <1>2, PacketBack
<1>5. /\ d \in DOMAIN data
      /\ \A e \in DOMAIN data \ {d} : Users(e)' = Users(e)
      /\ DataOf(packets)' = IF data[d].ref_count = 1 THEN DOMAIN data \ {d} ELSE DOMAIN data
  BY <1>0, <1>2, <1>4, UserGone
<1>6. data[d].ref_count = 1
  <2>1. data[d].ref_count \in Nat \ {0}
    BY <1>5, UsersAre
  <2> QED
    BY <1>0, <2>1 DEF LastReference
<1>7. DataOf(packets)' = DOMAIN data \ {d}
  BY <1>5, <1>6
<1>8. /\ o \in Buffers /\ DOMAIN data \intersect Buffers = {}
      /\ Unowned(Now) = DOMAIN data \union Buffers \union orphans
      /\ (DOMAIN data \union Buffers) \intersect orphans = {}
      /\ mem.blocks[d].allocator = config.allocator
      /\ mem.blocks[o].allocator = config.allocator
      /\ \A e, g \in DOMAIN data : data[e].owned_data = data[g].owned_data => e = g
  <2>1. o \in Buffers
    BY <1>0, <1>5 DEF Buffers
  <2> QED
    BY <1>5, <2>1 DEF InstanceInv, DataOK
<1>9. HeapOK(mem) /\ d \in DOMAIN mem.blocks /\ o \in DOMAIN mem.blocks /\ o # d
  BY <1>5, <1>8, PacketFacts
<1>10. /\ HeapOK(one) /\ DOMAIN one.blocks = DOMAIN mem.blocks \ {o}
       /\ \A b \in DOMAIN mem.blocks \ {o} : one.blocks[b] = mem.blocks[b]
  BY <1>1, <1>8, <1>9, FreeKeeps
<1>11. /\ HeapOK(mem') /\ DOMAIN mem'.blocks = DOMAIN one.blocks \ {d}
       /\ \A b \in DOMAIN one.blocks \ {d} : mem'.blocks[b] = one.blocks[b]
  <2>1. d \in DOMAIN one.blocks /\ one.blocks[d].allocator = config.allocator
    BY <1>8, <1>9, <1>10
  <2> QED
    BY <1>2, <1>10, <2>1, FreeKeeps
<1>12. PICK fresh, gone : fresh = {} /\ gone = {d, o}
  OBVIOUS
<1>13. PointersOK(config, Now)' /\ Unowned(Now') = Unowned(Now) \ {d, o}
  <2>1. /\ fresh \intersect DOMAIN mem.blocks = {} /\ NULL \notin fresh
        /\ gone \subseteq Unowned(Now)
    BY <1>5, <1>8, <1>12
  <2>2. /\ DOMAIN mem'.blocks = (DOMAIN mem.blocks \ gone) \union fresh
        /\ \A a \in DOMAIN mem.blocks \ gone : mem'.blocks[a] = mem.blocks[a]
    BY <1>10, <1>11, <1>12
  <2>3. /\ PointersOK(config, Now)'
        /\ Unowned(Now') = (Unowned(Now) \ gone) \union fresh
    BY <1>3, <1>11, <2>1, <2>2, HeapStep
  <2> QED
    BY <1>12, <2>3
<1>14. /\ DOMAIN data' = DOMAIN data \ {d} /\ data' = [e \in DOMAIN data' |-> data'[e]]
       /\ \A e \in DOMAIN data \ {d} : data'[e] = data[e]
  BY <1>2 DEF Without
<1>15. Buffers' = Buffers \ {o}
  <2>1. Buffers' = {data[e].owned_data : e \in DOMAIN data \ {d}}
    BY <1>14 DEF Buffers
  <2>2. Buffers = {data[e].owned_data : e \in DOMAIN data}
    BY DEF Buffers
  <2> QED
    BY <1>0, <1>5, <1>8, <2>1, <2>2
<1>16. DataOK'
  <2>1. Unowned(Now)' = DOMAIN data' \union Buffers' \union orphans'
    <3>1. Unowned(Now)' = Unowned(Now')
      BY DEF Unowned, Now
    <3>2. d \notin orphans /\ o \notin orphans /\ d \notin Buffers /\ o \notin DOMAIN data
      BY <1>5, <1>8
    <3> QED
      BY <1>3, <1>8, <1>13, <1>14, <1>15, <3>1, <3>2
  <2>2. /\ DOMAIN data' \intersect Buffers' = {}
        /\ (DOMAIN data' \union Buffers') \intersect orphans' = {}
    BY <1>3, <1>8, <1>14, <1>15
  <2>3. \A e \in DOMAIN data' : /\ data'[e] \in [ref_count : Nat \ {0}, owned_data : Nat]
                                /\ data'[e].ref_count = Cardinality(Users(e)')
    BY <1>5, <1>14, UsersAre
  <2>4. \A e, g \in DOMAIN data' : data'[e].owned_data = data'[g].owned_data => e = g
    BY <1>8, <1>14
  <2>5. \A a \in DOMAIN data' \union Buffers' : mem'.blocks[a].allocator = config'.allocator
    <3>1. \A a \in DOMAIN data \union Buffers : mem.blocks[a].allocator = config.allocator
      BY DEF InstanceInv, DataOK
    <3>2. \A a \in DOMAIN data' \union Buffers' :
             a \in DOMAIN data \union Buffers /\ a # d /\ a # o
      BY <1>5, <1>8, <1>14, <1>15
    <3>3. \A a \in DOMAIN data \union Buffers : a \in DOMAIN mem.blocks
      BY PacketFacts
    <3> QED
      BY <1>3, <1>10, <1>11, <3>1, <3>2, <3>3
  <2>6. DataOf(packets)' = DOMAIN data'
    BY <1>7, <1>14
  <2> QED
    BY <1>14, <2>1, <2>2, <2>3, <2>4, <2>5, <2>6 DEF DataOK
<1>17. LifeOK' /\ TxPoolOK' /\ CodecsOK'
  BY <1>2, <1>3, LifeFrame, TxPoolFrame, CodecsFrame DEF InstanceInv
<1> QED
  BY <1>4, <1>13, <1>16, <1>17 DEF InstanceInv

-----------------------------------------------------------------------------
(***************************************************************************)
(* Statistics, and all steps together                                      *)
(***************************************************************************)
\* xgl_tracking_allocator_set_phase
LEMMA SetPhaseKeeps ==
    ASSUME InstanceInv, handle = "ready", NEW phase \in Phases, SetPhase(phase)
    PROVE  InstanceInv'
<1>1. PICK n : n = [mem EXCEPT !.tracker = xgl_tracking_allocator_set_phase(@, phase)]
  OBVIOUS
<1>2. HeapOK(n) /\ n.blocks = mem.blocks
  <2>1. phase \in Phase /\ HeapOK(mem)
    BY InstanceAssumption, PacketFacts
  <2> QED
    BY <1>1, <2>1, BooksReset
<1>3. mem' = n /\ UNCHANGED <<lifeVars, tx_pool, packet_pool, data, held, packets>>
  BY <1>1 DEF SetPhase
<1>4. TxPoolOK' /\ PacketPoolOK' /\ packet_pool'.data = packet_pool.data
  BY <1>3, TxPoolFrame, PacketPoolFrame DEF InstanceInv
<1>5. /\ HeapOK(mem') /\ DOMAIN mem'.blocks = DOMAIN mem.blocks
      /\ \A a \in DOMAIN mem.blocks : mem'.blocks[a] = mem.blocks[a]
  BY <1>2, <1>3
<1> QED
  BY <1>3, <1>4, <1>5, BooksKeep

\* The statistics of the TX pool start again.
LEMMA TxReset ==
    ASSUME TxPoolOK, tx_pool' = xgl_tiered_pool_reset_stats(tx_pool), held' = held
    PROVE  TxPoolOK'
<1>1. tx_pool \in [Tier -> Pool]
  BY DEF TxPoolOK
<1>2. ASSUME NEW t \in Tier
      PROVE  /\ tx_pool'[t] \in Pool
             /\ tx_pool'[t].block_count = tx_pool[t].block_count
             /\ tx_pool'[t].free_list = tx_pool[t].free_list
             /\ tx_pool'[t].free_count = tx_pool[t].free_count
  <2>1. PICK pool, peak : pool = tx_pool[t] /\ peak = pool.block_count - pool.free_count
    OBVIOUS
  <2>2. pool \in Pool
    BY <1>1, <2>1
  <2>3. peak \in Int
    BY <2>1, <2>2 DEF Pool
  <2>4. tx_pool'[t] = [pool EXCEPT !.peak_used = peak]
    BY <2>1 DEF xgl_tiered_pool_reset_stats, xgl_mempool_reset_stats
  <2>5. /\ [pool EXCEPT !.peak_used = peak] \in Pool
        /\ [pool EXCEPT !.peak_used = peak].block_count = pool.block_count
        /\ [pool EXCEPT !.peak_used = peak].free_list = pool.free_list
        /\ [pool EXCEPT !.peak_used = peak].free_count = pool.free_count
    BY <2>2, <2>3 DEF Pool
  <2> QED
    BY <2>1, <2>4, <2>5
<1>3. tx_pool' \in [Tier -> Pool]
  <2>1. tx_pool' = [t \in Tier |-> xgl_mempool_reset_stats(tx_pool[t])]
    BY DEF xgl_tiered_pool_reset_stats
  <2>2. \A t \in Tier : xgl_mempool_reset_stats(tx_pool[t]) \in Pool
    BY <1>2, <2>1
  <2> QED
    BY <2>1, <2>2
<1>4. \A t \in Tier : Used(t)' = Used(t)
  BY DEF Used
<1>5. \A h \in held' : /\ h.size <= TierSize[h.pointer.tier]
                       /\ h.pointer.block \in 1..tx_pool'[h.pointer.tier].block_count
  <2>1. \A h \in held : h.pointer.tier \in Tier
    BY DEF TxPoolOK, Holding
  <2>2. \A h \in held : /\ h.size <= TierSize[h.pointer.tier]
                        /\ h.pointer.block \in 1..tx_pool[h.pointer.tier].block_count
    BY DEF TxPoolOK
  <2> QED
    BY <1>2, <2>1, <2>2
<1>6. \A t \in Tier :
         /\ FreeList(tx_pool'[t].free_list, (1..tx_pool'[t].block_count) \ Used(t)')
         /\ Len(tx_pool'[t].free_list) = tx_pool'[t].free_count
  BY <1>2, <1>4 DEF TxPoolOK
<1>7. held' \subseteq Holding /\ \A g, h \in held' : g.pointer = h.pointer => g = h
  BY DEF TxPoolOK
<1> QED
  BY <1>3, <1>5, <1>6, <1>7 DEF TxPoolOK

\* The statistics of the packet pool start again.
LEMMA PacketReset ==
    ASSUME PacketPoolOK, packet_pool' = xgl_packet_pool_reset_stats(packet_pool),
           packets' = packets
    PROVE  PacketPoolOK' /\ packet_pool'.data = packet_pool.data
<1>1. PICK peak : peak = packet_pool.total_count - packet_pool.free_count
  OBVIOUS
<1>2. packet_pool \in PacketPool
  BY DEF PacketPoolOK
<1>3. peak \in Int
  BY <1>1, <1>2 DEF PacketPool
<1>4. packet_pool' = [packet_pool EXCEPT !.peak_used = peak]
  BY <1>1 DEF xgl_packet_pool_reset_stats
<1>5. /\ packet_pool' \in PacketPool /\ packet_pool'.data = packet_pool.data
      /\ packet_pool'.total_count = packet_pool.total_count
      /\ packet_pool'.free_list = packet_pool.free_list
      /\ packet_pool'.free_count = packet_pool.free_count
  BY <1>2, <1>3, <1>4 DEF PacketPool
<1> QED
  BY <1>5 DEF PacketPoolOK

\* Tracking allocator, TX pool and packet pool start their statistics again.
LEMMA ResetKeeps ==
    ASSUME InstanceInv, handle = "ready", ResetAllStats
    PROVE  InstanceInv'
<1>1. PICK r : r = [mem EXCEPT !.tracker = xgl_tracking_allocator_reset_stats(@)]
  OBVIOUS
<1>2. HeapOK(r) /\ r.blocks = mem.blocks
  <2>1. PICK phase \in Phase : phase = "INIT"
    BY DEF Phase
  <2>2. HeapOK(mem)
    BY PacketFacts
  <2> QED
    BY <1>1, <2>2, BooksReset
<1>3. /\ mem' = r /\ tx_pool' = xgl_tiered_pool_reset_stats(tx_pool)
      /\ packet_pool' = xgl_packet_pool_reset_stats(packet_pool)
      /\ UNCHANGED <<lifeVars, data, held, packets>>
  BY <1>1 DEF ResetAllStats
<1>4. TxPoolOK'
  BY <1>3, TxReset DEF InstanceInv
<1>5. PacketPoolOK' /\ packet_pool'.data = packet_pool.data
  BY <1>3, PacketReset DEF InstanceInv
<1>6. /\ HeapOK(mem') /\ DOMAIN mem'.blocks = DOMAIN mem.blocks
      /\ \A a \in DOMAIN mem.blocks : mem'.blocks[a] = mem.blocks[a]
  BY <1>2, <1>3
<1> QED
  BY <1>3, <1>4, <1>5, <1>6, BooksKeep

\* A step that changes nothing.
LEMMA StutterKeeps ==
    ASSUME InstanceInv, UNCHANGED vars
    PROVE  InstanceInv'
<1>1. UNCHANGED <<handle, config, ptr, mutex, mem, tx_pool, packet_pool, data, codecs,
                  held, packets, orphans, outcome>>
  BY DEF vars
<1>2. PointersOK(config, Now)' /\ Untouched(Now, Now')
  BY <1>1, SameHeap
<1>3. LifeOK'
  BY <1>1 DEF InstanceInv, LifeOK
<1>4. TxPoolOK' /\ PacketPoolOK' /\ CodecsOK'
  BY <1>1, TxPoolFrame, PacketPoolFrame, CodecsFrame DEF InstanceInv
<1>5. DataOK'
  BY <1>1, <1>2, DataFrame DEF InstanceInv
<1> QED
  BY <1>2, <1>3, <1>4, <1>5 DEF InstanceInv

\* Every call keeps the invariant.
LEMMA StepHolds == InstanceInv /\ [Next]_vars => InstanceInv'
<1> SUFFICES ASSUME InstanceInv, [Next]_vars PROVE InstanceInv'
  OBVIOUS
<1>1. ASSUME NEW c \in Configs, xgl_create(c) PROVE InstanceInv'
  BY <1>1, CreateKeeps
<1>2. CASE xgl_init
  BY <1>2, XglInitKeeps
<1>3. CASE xgl_destroy
  BY <1>3, DestroyKeeps
<1>4. ASSUME NEW size \in Requests, TxAlloc(size) PROVE InstanceInv'
  <2>1. handle = "ready" /\ UNCHANGED <<lifeVars, mem, packet_pool, data, packets>>
    BY <1>4 DEF TxAlloc, InUse
  <2>2. TxPoolOK'
    BY <1>4, TxAllocPool DEF InstanceInv
  <2> QED
    BY <2>1, <2>2, TxKeeps
<1>5. ASSUME NEW pointer \in AllPointers, TxFree(pointer) PROVE InstanceInv'
  <2>1. handle = "ready" /\ UNCHANGED <<lifeVars, mem, packet_pool, data, packets>>
    BY <1>5 DEF TxFree, InUse
  <2>2. TxPoolOK'
    BY <1>5, TxFreePool DEF InstanceInv
  <2> QED
    BY <2>1, <2>2, TxKeeps
<1>6. CASE PacketAlloc
  <2>1. handle = "ready"
    BY <1>6 DEF PacketAlloc, InUse
  <2> QED
    BY <1>6, <2>1, PacketAllocKeeps
<1>7. ASSUME NEW p \in packets, NEW granted \in BOOLEAN, PacketDataCreate(p, granted)
      PROVE  InstanceInv'
  <2>1. handle = "ready"
    BY <1>7 DEF PacketDataCreate, InUse
  <2>2. CASE granted = TRUE
    <3>1. PacketDataCreate(p, TRUE)
      BY <1>7, <2>2
    <3> QED
      BY <2>1, <3>1, DataCreated
  <2>3. CASE granted = FALSE
    <3>1. PacketDataCreate(p, FALSE)
      BY <1>7, <2>3
    <3> QED
      BY <2>1, <3>1, DataRefused
  <2> QED
    BY <2>2, <2>3
<1>8. ASSUME NEW p \in packets, NEW q \in packets, PacketDataRef(p, q) PROVE InstanceInv'
  <2>1. handle = "ready"
    BY <1>8 DEF PacketDataRef, InUse
  <2> QED
    BY <1>8, <2>1, PacketDataRefKeeps
<1>9. ASSUME NEW p \in packets, PacketFree(p) PROVE InstanceInv'
  <2>1. handle = "ready"
    BY <1>9 DEF PacketFree, InUse
  <2> QED
    BY <1>9, <2>1, FreeBare, FreeShared, FreeLast
<1>10. ASSUME NEW phase \in Phases, SetPhase(phase) PROVE InstanceInv'
  <2>1. handle = "ready"
    BY <1>10 DEF SetPhase, InUse
  <2> QED
    BY <1>10, <2>1, SetPhaseKeeps
<1>11. CASE ResetAllStats
  <2>1. handle = "ready"
    BY <1>11 DEF ResetAllStats, InUse
  <2> QED
    BY <1>11, <2>1, ResetKeeps
<1>12. CASE UNCHANGED vars
  BY <1>12, StutterKeeps
<1> QED
  BY <1>1, <1>2, <1>3, <1>4, <1>5, <1>6, <1>7, <1>8, <1>9, <1>10, <1>11, <1>12 DEF Next

\* However the application creates, initialises, uses and destroys its instance,
\* and whatever allocation is refused, memory, pools, packets and the tracking
\* allocator's books fit together.
THEOREM InstanceInvariant == Spec => []InstanceInv
<1>1. Init => InstanceInv
  BY InitHolds
<1>2. InstanceInv /\ [Next]_vars => InstanceInv'
  BY StepHolds
<1> QED
  BY <1>1, <1>2, PTL DEF Spec

-----------------------------------------------------------------------------
(***************************************************************************)
(* What follows from the invariant                                         *)
(***************************************************************************)
\* Every variable has its type; a registry has no codec twice.
LEMMA InvTypes == InstanceInv => TypeOK
<1> SUFFICES ASSUME InstanceInv PROVE TypeOK
  OBVIOUS
<1>1. handle \in {"none", "created", "ready"} /\ outcome \in {"ok", "refused", "rejected"}
  BY DEF InstanceInv, LifeOK
<1>2. ptr \in [Field -> Nat]
  BY DEF InstanceInv, PointersOK, Now
<1>3. mutex \in BOOLEAN
  <2>1. CASE handle = "ready"
    <3>1. mutex = config.thread_safe /\ config \in Configs
      BY <2>1 DEF InstanceInv, LifeOK, Accepted
    <3>2. config.thread_safe \in BOOLEAN
      BY <3>1, InstanceAssumption
    <3> QED
      BY <3>1, <3>2, Zenon
  <2>2. CASE handle # "ready"
    BY <2>2 DEF InstanceInv, LifeOK
  <2> QED
    BY <2>1, <2>2
<1>4. mem.damaged = FALSE
  <2>1. mem = [blocks |-> mem.blocks, tracker |-> mem.tracker, damaged |-> FALSE]
    BY PacketFacts DEF HeapOK
  <2> QED
    BY <2>1
<1>5. DOMAIN data \subseteq Address /\ Buffers \subseteq Address
  BY PacketFacts DEF Address
<1>6. \A d \in DOMAIN data : data[d].ref_count \in Nat \ {0} /\ data[d].owned_data \in Address
  <2>1. \A d \in DOMAIN data : data[d].owned_data \in Buffers
    BY DEF Buffers
  <2> QED
    BY <1>5, <2>1, UsersAre
<1>7. packets \subseteq 1..packet_pool.total_count
  BY PacketFacts
<1>8. Len(codecs) <= 4 /\ IsInjective(codecs)
  BY DEF InstanceInv, CodecsOK
<1>9. orphans \subseteq Address
  BY DEF InstanceInv, DataOK, Unowned, Now, Address
<1> QED
  BY <1>1, <1>2, <1>3, <1>4, <1>5, <1>6, <1>7, <1>8, <1>9 DEF TypeOK

\* A set has as many elements as one it is the image of, without collisions.
LEMMA ImageCounts ==
    ASSUME NEW S, IsFiniteSet(S), NEW f, NEW T, T = {f[x] : x \in S},
           \A x, y \in S : f[x] = f[y] => x = y
    PROVE  IsFiniteSet(T) /\ Cardinality(T) = Cardinality(S)
<1>1. PICK g : g = [x \in S |-> f[x]]
  OBVIOUS
<1>2. g \in Bijection(S, T)
  BY <1>1 DEF Bijection, Injection, Surjection, IsInjective
<1>3. ExistsBijection(S, T)
  BY <1>2 DEF ExistsBijection
<1> QED
  BY <1>3, FS_Bijection

\* Nothing leaks, no two owners share a block, nothing is freed twice.
LEMMA InvOwned == InstanceInv => EveryBlockOwned
<1> SUFFICES ASSUME InstanceInv PROVE EveryBlockOwned
  OBVIOUS
<1>0. PICK A, F, D, B, O : /\ A = {ptr[f] : f \in Field} \ {NULL}
                           /\ F = {f \in Field : ptr[f] # NULL}
                           /\ D = DOMAIN data /\ B = Buffers /\ O = orphans
  OBVIOUS
<1>1. mem.damaged = FALSE
  <2>1. mem = [blocks |-> mem.blocks, tracker |-> mem.tracker, damaged |-> FALSE]
    BY PacketFacts DEF HeapOK
  <2> QED
    BY <2>1
<1>2. /\ Unowned(Now) = D \union B \union O /\ D \intersect B = {}
      /\ (D \union B) \intersect O = {} /\ DataOf(packets) = DOMAIN data
      /\ \A d, e \in D : data[d].owned_data = data[e].owned_data => d = e
      /\ \A d \in D : data[d].ref_count = Cardinality(Users(d))
  BY <1>0 DEF InstanceInv, DataOK
<1>3. /\ \A f \in Field : ptr[f] # NULL => ptr[f] \in DOMAIN mem.blocks
      /\ \A f, g \in Field : ptr[f] # NULL /\ ptr[f] = ptr[g] => f = g
  BY DEF InstanceInv, PointersOK, Now
<1>4. Unowned(Now) = DOMAIN mem.blocks \ {ptr[f] : f \in Field}
  BY DEF Unowned, Now
<1>5. NULL \notin DOMAIN mem.blocks /\ IsFiniteSet(DOMAIN mem.blocks)
  BY PacketFacts DEF HeapOK, BlocksOK
<1>6. /\ Address = A \union (D \union B \union O)
      /\ A \intersect (D \union B \union O) = {}
  BY <1>0, <1>2, <1>3, <1>4, <1>5 DEF Address
<1>7. IsFiniteSet(A) /\ IsFiniteSet(D) /\ IsFiniteSet(B) /\ IsFiniteSet(O)
  <2>1. A \subseteq DOMAIN mem.blocks /\ D \subseteq DOMAIN mem.blocks
        /\ B \subseteq DOMAIN mem.blocks /\ O \subseteq DOMAIN mem.blocks
    BY <1>6 DEF Address
  <2> QED
    BY <1>5, <2>1, FS_Subset
<1>8. Cardinality(A) = Cardinality(F)
  <2>1. A = {ptr[f] : f \in F} /\ \A f, g \in F : ptr[f] = ptr[g] => f = g
    BY <1>0, <1>3
  <2>2. IsFiniteSet(F)
    <3>1. F \subseteq Field
      BY <1>0
    <3> QED
      BY <3>1, FieldFinite, FS_Subset
  <2> QED
    BY <2>1, <2>2, ImageCounts
<1>9. Cardinality(B) = Cardinality(D)
  <2>1. PICK own : own = [d \in D |-> data[d].owned_data]
    OBVIOUS
  <2>2. B = {own[d] : d \in D} /\ \A d, e \in D : own[d] = own[e] => d = e
    BY <1>0, <1>2, <2>1 DEF Buffers
  <2> QED
    BY <1>7, <2>2, ImageCounts
<1>10. Cardinality(Address) = Cardinality(F) + 2 * Cardinality(D) + Cardinality(O)
  <2>1. \A S, T : IsFiniteSet(S) /\ IsFiniteSet(T) /\ S \intersect T = {} =>
           /\ IsFiniteSet(S \union T)
           /\ Cardinality(S \union T) = Cardinality(S) + Cardinality(T)
    <3>1. SUFFICES ASSUME NEW S, NEW T, IsFiniteSet(S), IsFiniteSet(T), S \intersect T = {}
                   PROVE  /\ IsFiniteSet(S \union T)
                          /\ Cardinality(S \union T) = Cardinality(S) + Cardinality(T)
      OBVIOUS
    <3>2. /\ IsFiniteSet(S \union T)
          /\ Cardinality(S \union T) = Cardinality(S) + Cardinality(T) - Cardinality(S \intersect T)
      BY <3>1, FS_Union
    <3>3. Cardinality(S \intersect T) = 0
      BY <3>1, FS_EmptySet
    <3>4. Cardinality(S) \in Nat /\ Cardinality(T) \in Nat
      BY <3>1, FS_CardinalityType
    <3> QED
      BY <3>2, <3>3, <3>4
  <2>2. IsFiniteSet(D \union B) /\ Cardinality(D \union B) = Cardinality(D) + Cardinality(B)
    BY <1>2, <1>7, <2>1
  <2>3. /\ IsFiniteSet(D \union B \union O)
        /\ Cardinality(D \union B \union O) = Cardinality(D \union B) + Cardinality(O)
    BY <1>2, <1>7, <2>1, <2>2
  <2>4. Cardinality(Address) = Cardinality(A) + Cardinality(D \union B \union O)
    BY <1>6, <1>7, <2>1, <2>3
  <2>5. Cardinality(F) \in Nat /\ Cardinality(D) \in Nat /\ Cardinality(O) \in Nat
    BY <1>7, <1>8, FS_CardinalityType
  <2> QED
    BY <1>8, <1>9, <2>2, <2>3, <2>4, <2>5
<1>11. CountsExact
  BY <1>0, <1>2 DEF CountsExact, Users
<1> QED
  BY <1>0, <1>1, <1>2, <1>6, <1>10, <1>11 DEF EveryBlockOwned, Buffers

\* xgl_init did all, or nothing.
LEMMA InvAllOrNothing == InstanceInv => InitAllOrNothing
BY DEF InstanceInv, LifeOK, InitAllOrNothing

\* What the tracking allocator reports is what is allocated.
LEMMA InvAccounting == InstanceInv => AccountingExact
<1> SUFFICES ASSUME InstanceInv PROVE AccountingExact
  OBVIOUS
<1>1. HeapOK(mem)
  BY PacketFacts
<1>2. \A phases : TrackedBytes(phases) = SizeOf(mem.blocks, phases)
  BY DEF TrackedBytes, SizeOf, Tracked, Address
<1>3. PICK t, n : t = mem.tracker /\ n = SizeOf(mem.blocks, Phase)
  OBVIOUS
<1>4. /\ t.stats.current_allocated = n /\ t.stats.peak_allocated >= t.stats.current_allocated
      /\ t.stats.total_allocated = t.stats.total_freed + n
      /\ \A p \in Phase : t.phase_stats[p].current_allocated = SizeOf(mem.blocks, {p})
  BY <1>1, <1>3 DEF HeapOK, BooksOK
<1>5. n \in Nat
  BY <1>1, <1>3, SizeNat DEF HeapOK
<1>6. t.stats.total_freed \in Nat
  <2>1. t \in Tracker
    BY <1>1, <1>3 DEF HeapOK
  <2>2. t.stats \in Stats
    BY <2>1 DEF Tracker
  <2> QED
    BY <2>2 DEF Stats
<1>7. t.stats.total_allocated - t.stats.total_freed = n
  BY <1>4, <1>5, <1>6
<1> QED
  BY <1>2, <1>3, <1>4, <1>7 DEF AccountingExact

\* A sum over the three tiers.
LEMMA TierSum ==
    ASSUME NEW f, DOMAIN f = Tier, \A t \in Tier : f[t] \in Nat
    PROVE  FoldFunction(+, 0, f) = f["small"] + (f["medium"] + f["large"])
<1>0. PICK total : total = FoldFunction(+, 0, f)
  OBVIOUS
<1>1. total = SumOf(f, Tier)
  BY <1>0 DEF FoldFunction, SumOf
<1>2. IsFiniteSet(Tier)
  <2>1. PICK S, T, U : S = {"small"} /\ T = S \union {"medium"} /\ U = T \union {"large"}
    OBVIOUS
  <2>2. Tier = U
    BY <2>1 DEF Tier
  <2>3. IsFiniteSet(S)
    BY <2>1, FS_Singleton
  <2>4. IsFiniteSet(T)
    BY <2>1, <2>3, FS_AddElement
  <2>5. IsFiniteSet(U)
    BY <2>1, <2>4, FS_AddElement
  <2> QED
    BY <2>2, <2>5
<1>3. PICK two : two = Tier \ {"small"}
  OBVIOUS
<1>4. PICK one : one = two \ {"medium"}
  OBVIOUS
<1>5. /\ "small" \in Tier /\ "medium" \in two /\ "large" \in one /\ one \ {"large"} = {}
      /\ two \subseteq Tier /\ one \subseteq Tier
  BY <1>3, <1>4 DEF Tier
<1>6. IsFiniteSet(two) /\ IsFiniteSet(one)
  BY <1>2, <1>5, FS_Subset
<1>7. SumOf(f, Tier) = f["small"] + SumOf(f, two)
  BY <1>2, <1>3, <1>5, SumRemove
<1>8. SumOf(f, two) = f["medium"] + SumOf(f, one)
  <2>1. \A t \in two : f[t] \in Nat
    BY <1>5
  <2> QED
    BY <1>4, <1>5, <1>6, <2>1, SumRemove
<1>9. SumOf(f, one) = f["large"] + SumOf(f, {})
  <2>1. \A t \in one : f[t] \in Nat
    BY <1>5
  <2> QED
    BY <1>5, <1>6, <2>1, SumRemove
<1>10. SumOf(f, {}) = 0
  BY FS_EmptySet, SumUnfold
<1>11. f["small"] \in Nat /\ f["medium"] \in Nat /\ f["large"] \in Nat
  BY DEF Tier
<1>12. total = f["small"] + (f["medium"] + f["large"])
  BY <1>1, <1>7, <1>8, <1>9, <1>10, <1>11
<1> QED
  BY <1>0, <1>12

\* The counters of a tier.
LEMMA TierCounts ==
    ASSUME TxPoolOK, NEW t \in Tier
    PROVE  /\ tx_pool[t].block_count \in Nat /\ tx_pool[t].free_count \in Nat
           /\ tx_pool[t].free_count <= tx_pool[t].block_count
           /\ Cardinality(ToSet(tx_pool[t].free_list)) = tx_pool[t].free_count
           /\ tx_pool[t].block_count = 0 => tx_pool[t].free_list = <<>>
<1>0. PICK pool, n, seq : /\ pool = tx_pool[t] /\ n = pool.block_count
                          /\ seq = pool.free_list
  OBVIOUS
<1>1. pool \in Pool /\ FreeList(seq, (1..n) \ Used(t)) /\ Len(seq) = pool.free_count
  BY <1>0 DEF TxPoolOK
<1>2. n \in Nat /\ pool.free_count \in Nat /\ seq \in Seq(Nat) /\ IsInjective(seq)
  BY <1>0, <1>1 DEF Pool, FreeList
<1>3. ToSet(seq) \subseteq 1..n
  BY <1>1 DEF FreeList
<1>4. Cardinality(ToSet(seq)) = Len(seq)
  BY <1>2, ListCounts
<1>5. Cardinality(ToSet(seq)) <= n
  <2>1. IsFiniteSet(1..n) /\ Cardinality(1..n) = n
    BY <1>2, UpTo
  <2>2. Cardinality(ToSet(seq)) <= Cardinality(1..n)
    BY <1>3, <2>1, FS_Subset
  <2> QED
    BY <2>1, <2>2
<1>6. n = 0 => seq = <<>>
  <2>1. SUFFICES ASSUME n = 0 PROVE seq = <<>>
    OBVIOUS
  <2>2. Len(seq) \in Nat /\ Len(seq) <= 0
    BY <1>2, <1>4, <1>5, <2>1
  <2> QED
    BY <1>2, <2>2, EmptySeq
<1> QED
  BY <1>0, <1>1, <1>2, <1>4, <1>5, <1>6

\* Free and used memory of the TX pool are all of it.
LEMMA MemoryAddsUp ==
    ASSUME TxPoolOK
    PROVE  FreeMemory(tx_pool) + UsedMemory(tx_pool)
               = FoldFunction(+, 0, [t \in Tier |-> tx_pool[t].block_count * TierSize[t]])
<1>1. PICK f, u, b : /\ f = [t \in Tier |-> tx_pool[t].free_count * TierSize[t]]
                     /\ u = [t \in Tier |-> (tx_pool[t].block_count - tx_pool[t].free_count)
                                            * TierSize[t]]
                     /\ b = [t \in Tier |-> tx_pool[t].block_count * TierSize[t]]
  OBVIOUS
<1>2. ASSUME NEW t \in Tier
      PROVE  f[t] \in Nat /\ u[t] \in Nat /\ b[t] \in Nat /\ f[t] + u[t] = b[t]
  <2>1. PICK n, k, s : n = tx_pool[t].block_count /\ k = tx_pool[t].free_count /\ s = TierSize[t]
    OBVIOUS
  <2>2. n \in Nat /\ k \in Nat /\ k <= n /\ s \in Nat
    BY <2>1, TierCounts, TierSizes
  <2>3. f[t] = k * s /\ u[t] = (n - k) * s /\ b[t] = n * s
    BY <1>1, <2>1
  <2>4. s = 64 \/ s = 256 \/ s = 1024
    BY <2>1, TierSizes DEF Tier
  <2>5. k * s \in Nat /\ (n - k) * s \in Nat /\ n * s \in Nat /\ k * s + (n - k) * s = n * s
    BY <2>2, <2>4
  <2> QED
    BY <2>3, <2>5
<1>3. DOMAIN f = Tier /\ DOMAIN u = Tier /\ DOMAIN b = Tier
  BY <1>1
<1>4. PICK x, y, z : /\ x = FoldFunction(+, 0, f) /\ y = FoldFunction(+, 0, u)
                     /\ z = FoldFunction(+, 0, b)
  OBVIOUS
<1>5. x = f["small"] + (f["medium"] + f["large"])
  BY <1>2, <1>3, <1>4, TierSum
<1>6. y = u["small"] + (u["medium"] + u["large"])
  BY <1>2, <1>3, <1>4, TierSum
<1>7. z = b["small"] + (b["medium"] + b["large"])
  BY <1>2, <1>3, <1>4, TierSum
<1>8. "small" \in Tier /\ "medium" \in Tier /\ "large" \in Tier
  BY DEF Tier
<1>9. x + y = z
  BY <1>2, <1>5, <1>6, <1>7, <1>8
<1>10. FreeMemory(tx_pool) = x /\ UsedMemory(tx_pool) = y
  BY <1>1, <1>4 DEF FreeMemory, UsedMemory
<1> QED
  BY <1>1, <1>4, <1>9, <1>10

\* A request is refused only when no block that would hold it is left.
LEMMA InvServes == InstanceInv => ServesWhatFits
<1> SUFFICES ASSUME InstanceInv PROVE ServesWhatFits
  OBVIOUS
<1>0. TxPoolOK
  BY DEF InstanceInv
<1>1. \A h \in held : h.size <= TierSize[h.pointer.tier]
  BY <1>0 DEF TxPoolOK
<1>2. ASSUME NEW size \in Requests \ {0}, TieredPointer(tx_pool, size) = NoPointer,
             NEW t \in Tier, size <= TierSize[t]
      PROVE  tx_pool[t].free_list = <<>>
  <2>1. ~Takes(tx_pool, size, t)
    <3>1. PICK p : p = TieredPointer(tx_pool, size)
      OBVIOUS
    <3>2. \/ p = NoPointer /\ (size = 0 \/ \A u \in Tier : ~Takes(tx_pool, size, u))
          \/ \E u \in Tier : /\ p = [tier |-> u, block |-> Head(tx_pool[u].free_list)]
                             /\ p # NoPointer /\ Takes(tx_pool, size, u)
      BY <3>1, PointerIs
    <3> QED
      BY <1>2, <3>1, <3>2
  <2>2. ~(tx_pool[t].block_count > 0) \/ tx_pool[t].free_list = <<>>
    BY <1>2, <2>1 DEF Takes
  <2> QED
    BY <1>0, <2>2, TierCounts
<1>3. FreeMemory(tx_pool) + UsedMemory(tx_pool)
          = FoldFunction(+, 0, [t \in Tier |-> tx_pool[t].block_count * TierSize[t]])
  BY <1>0, MemoryAddsUp
<1> QED
  BY <1>1, <1>2, <1>3 DEF ServesWhatFits

\* Every block and every packet is free or out.
LEMMA InvPartition == InstanceInv => PoolPartition
<1> SUFFICES ASSUME InstanceInv PROVE PoolPartition
  OBVIOUS
<1>0. TxPoolOK /\ PacketPoolOK
  BY DEF InstanceInv
<1>1. ASSUME NEW t \in Tier
      PROVE  /\ ToSet(tx_pool[t].free_list) \intersect Used(t) = {}
             /\ ToSet(tx_pool[t].free_list) \union Used(t) = 1..tx_pool[t].block_count
             /\ Len(tx_pool[t].free_list) = tx_pool[t].free_count
             /\ Cardinality(ToSet(tx_pool[t].free_list)) = tx_pool[t].free_count
  <2>1. /\ ToSet(tx_pool[t].free_list) = (1..tx_pool[t].block_count) \ Used(t)
        /\ Len(tx_pool[t].free_list) = tx_pool[t].free_count
    BY <1>0 DEF TxPoolOK, FreeList
  <2>2. Used(t) \subseteq 1..tx_pool[t].block_count
    BY <1>0 DEF TxPoolOK, Used
  <2> QED
    BY <1>0, <2>1, <2>2, TierCounts
<1>2. \A g, h \in held : g.pointer = h.pointer => g = h
  BY <1>0 DEF TxPoolOK
<1>3. /\ ToSet(packet_pool.free_list) = (1..packet_pool.total_count) \ packets
      /\ Len(packet_pool.free_list) = packet_pool.free_count
  BY <1>0 DEF PacketPoolOK, FreeList
<1>4. ServesWhatFits
  BY InvServes
<1> QED
  BY <1>1, <1>2, <1>3, <1>4 DEF PoolPartition, Used

-----------------------------------------------------------------------------
(***************************************************************************)
(* Theorems                                                                *)
(***************************************************************************)
\* Every variable of the instance, its pools and its allocator has its type,
\* and no codec is registered twice.
THEOREM InstanceTypes == Spec => []TypeOK
<1>1. InstanceInv => TypeOK
  BY InvTypes
<1> QED
  BY <1>1, InstanceInvariant, PTL

\* Whatever allocation of xgl_init is refused and however packets share their
\* data, every live block has one owner: nothing leaks, and nothing is freed
\* twice, early or through another allocator.
THEOREM EveryBlockHasAnOwner == Spec => []EveryBlockOwned
<1>1. InstanceInv => EveryBlockOwned
  BY InvOwned
<1> QED
  BY <1>1, InstanceInvariant, PTL

\* xgl_init does all or nothing, and no layer's initialiser rejects what the
\* validation of xgl_create accepts.
THEOREM InitIsAllOrNothing == Spec => []InitAllOrNothing
<1>1. InstanceInv => InitAllOrNothing
  BY InvAllOrNothing
<1> QED
  BY <1>1, InstanceInvariant, PTL

\* The tracking allocator reports, in all and for every phase, what is
\* allocated.
THEOREM AccountingIsExact == Spec => []AccountingExact
<1>1. InstanceInv => AccountingExact
  BY InvAccounting
<1> QED
  BY <1>1, InstanceInvariant, PTL

\* Every block of the TX pool and every packet of the packet pool is free or in
\* the application's hands, once; a request is refused only when no block that
\* would hold it is left.
THEOREM PoolsArePartitioned == Spec => []PoolPartition
<1>1. InstanceInv => PoolPartition
  BY InvPartition
<1> QED
  BY <1>1, InstanceInvariant, PTL
=============================================================================
