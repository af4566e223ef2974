------------------------ MODULE FragmentReassembly -------------------------
(***************************************************************************)
(* Large messages of the XGL transport: the sender cuts a message into     *)
(* fragments, the receiver's fragment manager puts them together again     *)
(* under a budget of buffers and bytes, with a timeout.  Fragments may be  *)
(* lost, duplicated and reordered, as those of an unreliable message are.  *)
(*                                                                         *)
(* A source stands for a sending node with one connection, hence for one   *)
(* reassembly scope: source_id, connection_id and session_epoch as they    *)
(* arrive on the wire.                                                     *)
(***************************************************************************)
EXTENDS Integers, Sequences, FiniteSets, FiniteSetsExt

CONSTANTS
    Source,          \* reassembly scopes
    DataType,
    MessageLen,      \* lengths of the messages that are sent, in bytes
    ChunkLen,        \* fragment payload budgets the routes may leave
    MaxMessages,     \* bound: messages sent, over all sources
    MaxBuffers,      \* max_reassembly_buffers
    MaxMessageSize,  \* max_message_size, 0 for none
    MaxBytes,        \* max_reassembly_bytes, 0 for none
    MaxRanges,       \* XGL_FRAGMENT_MAX_RECEIVED_RANGES, 16 in the code
    SenderRestarts,  \* may a sending node restart?
    NoBuffer, NoByte

\* xgl_reassembly_buffer_t; a byte of its data is the number of the message it
\* came from.
Buffer ==
    [type : DataType, len : MessageLen, ranges : Seq([start : Nat, end : Nat]),
     received_bytes : Nat,
     data : UNION {[0..(len - 1) -> (1..MaxMessages) \cup {NoByte}] : len \in MessageLen}]

ASSUME FragmentAssumption ==
    /\ MessageLen \subseteq Nat \ {0}
    /\ ChunkLen \subseteq Nat \ {0}
    /\ MaxMessages \in Nat
    /\ {MaxBuffers, MaxMessageSize, MaxBytes} \subseteq Nat
    /\ MaxRanges \in Nat \ {0}
    /\ SenderRestarts \in BOOLEAN
    /\ NoByte \notin 1..MaxMessages
    /\ NoBuffer \notin Buffer

VARIABLES
    sent,             \* the messages sent, numbered by uid from 1
    next_message_id,  \* fragment_mgr->next_message_id of each sender
    reassembly,       \* <<source, message_id>> -> the buffer under that key
    current_reassembly_bytes,
    handed_over       \* the message last handed to rx_callback, if any

vars == <<sent, next_message_id, reassembly, current_reassembly_bytes, handed_over>>

MessageId == 0..(MaxMessages - 1)
Key == Source \X MessageId
Active(key) == reassembly[key] # NoBuffer
ActiveKeys == {key \in Key : Active(key)}

-----------------------------------------------------------------------------
(***************************************************************************)
(* The sender                                                              *)
(***************************************************************************)
\* transport_send_fragmented: the message takes the next id and is cut into
\* pieces of chunk bytes.  It is longer than one piece and the extension that
\* describes a piece; that extension has no length here.
SendFragmented(source, type, len, chunk) ==
    /\ Len(sent) < MaxMessages
    /\ len > chunk
    /\ sent' = Append(sent, [source |-> source, id |-> next_message_id[source],
                             type |-> type, len |-> len, chunk |-> chunk])
    /\ next_message_id' = [next_message_id EXCEPT ![source] = @ + 1]
    /\ UNCHANGED <<reassembly, current_reassembly_bytes, handed_over>>

\* The node starts again: xgl_fragment_init counts message ids from 0, and the
\* wire carries no epoch that tells the two lives of the node apart.
SenderRestart(source) ==
    /\ SenderRestarts
    /\ next_message_id[source] # 0
    /\ next_message_id' = [next_message_id EXCEPT ![source] = 0]
    /\ UNCHANGED <<sent, reassembly, current_reassembly_bytes, handed_over>>

-----------------------------------------------------------------------------
(***************************************************************************)
(* Received ranges: a sorted array of maximal intervals [start, end)       *)
(***************************************************************************)
Overlaps(range, start, end) == start < range.end /\ end > range.start

\* Where the new range goes, as the number of ranges before it.
InsertIndex(ranges, start) ==
    Cardinality({i \in DOMAIN ranges : \A j \in 1..i : ranges[j].start < start})

MeetsLeft(ranges, start) ==
    LET k == InsertIndex(ranges, start)
    IN  k > 0 /\ ranges[k].end = start

MeetsRight(ranges, start, end) ==
    LET k == InsertIndex(ranges, start)
    IN  k < Len(ranges) /\ ranges[k + 1].start = end

\* Mutant of CanInsert: a range is refused only when one range holds all of it,
\* so that the bytes of a partial overlap count twice.
CanInsertPartialOverlap(ranges, start, end) ==
    /\ \A i \in DOMAIN ranges : ~(ranges[i].start <= start /\ end <= ranges[i].end)
    /\ MeetsLeft(ranges, start) \/ MeetsRight(ranges, start, end)
          \/ Len(ranges) < MaxRanges

\* fragment_insert_received_range accepts the range.
CanInsert(ranges, start, end) ==
    /\ \A i \in DOMAIN ranges : ~Overlaps(ranges[i], start, end)
    /\ MeetsLeft(ranges, start) \/ MeetsRight(ranges, start, end)
          \/ Len(ranges) < MaxRanges

\* Mutant of InsertRange: a range that closes a gap swallows only its left
\* neighbour and leaves the right one in the array.
InsertRangeHalfMerged(ranges, start, end) ==
    LET k     == InsertIndex(ranges, start)
        left  == MeetsLeft(ranges, start)
        right == MeetsRight(ranges, start, end)
    IN  SubSeq(ranges, 1, IF left THEN k - 1 ELSE k)
        \o <<[start |-> IF left THEN ranges[k].start ELSE start,
              end   |-> IF right THEN ranges[k + 1].end ELSE end]>>
        \o SubSeq(ranges, IF right /\ ~left THEN k + 2 ELSE k + 1, Len(ranges))

\* It merges with the neighbours it meets.
InsertRange(ranges, start, end) ==
    LET k     == InsertIndex(ranges, start)
        left  == MeetsLeft(ranges, start)
        right == MeetsRight(ranges, start, end)
    IN  SubSeq(ranges, 1, IF left THEN k - 1 ELSE k)
        \o <<[start |-> IF left THEN ranges[k].start ELSE start,
              end   |-> IF right THEN ranges[k + 1].end ELSE end]>>
        \o SubSeq(ranges, IF right THEN k + 2 ELSE k + 1, Len(ranges))

-----------------------------------------------------------------------------
(***************************************************************************)
(* The receiver                                                            *)
(***************************************************************************)
\* Mutant of BudgetAllows: the bytes already reserved are not counted.
BudgetAllowsPerMessage(len) ==
    /\ Cardinality(ActiveKeys) < MaxBuffers
    /\ MaxMessageSize # 0 => len <= MaxMessageSize
    /\ MaxBytes # 0 => len <= MaxBytes

\* fragment_create_reassembly_buffer has room for a message.
BudgetAllows(len) ==
    /\ Cardinality(ActiveKeys) < MaxBuffers
    /\ MaxMessageSize # 0 => len <= MaxMessageSize
    /\ MaxBytes # 0 => /\ current_reassembly_bytes <= MaxBytes
                       /\ len <= MaxBytes - current_reassembly_bytes

FreshBuffer(message) ==
    [type |-> message.type, len |-> message.len, ranges |-> <<>>,
     received_bytes |-> 0, data |-> [b \in 0..(message.len - 1) |-> NoByte]]

\* xgl_fragment_process_ext of the fragment of message uid at offset.  Every
\* rejection (no budget or memory, another type or length under the key, an
\* overlap, too many ranges) leaves the manager as it was.
ProcessFragment(uid, offset) ==
    LET message == sent[uid]
        key     == <<message.source, message.id>>
        end     == Min({offset + message.chunk, message.len})
        buffer  == IF Active(key) THEN reassembly[key] ELSE FreshBuffer(message)
        filled  == [buffer EXCEPT
                       !.ranges = InsertRange(@, offset, end),
                       !.received_bytes = @ + (end - offset),
                       !.data = [b \in DOMAIN @ |->
                                    IF b \in offset..(end - 1) THEN uid ELSE @[b]]]
        reserved == current_reassembly_bytes + (IF Active(key) THEN 0 ELSE buffer.len)
    IN  /\ Active(key) \/ BudgetAllows(message.len)
        /\ buffer.type = message.type /\ buffer.len = message.len
        /\ CanInsert(buffer.ranges, offset, end)
        /\ \/ /\ filled.received_bytes < filled.len
              /\ reassembly' = [reassembly EXCEPT ![key] = filled]
              /\ current_reassembly_bytes' = reserved
              /\ UNCHANGED handed_over
           \/ /\ filled.received_bytes = filled.len
              /\ reassembly' = [reassembly EXCEPT ![key] = NoBuffer]
              /\ current_reassembly_bytes' = reserved - filled.len
              /\ handed_over' =
                     {[source |-> message.source, type |-> filled.type, data |-> filled.data]}
        /\ UNCHANGED <<sent, next_message_id>>

\* Mutant of Free: the reservation is given back once more when a buffer goes.
FreeTwice(keys) ==
    /\ reassembly' = [key \in Key |-> IF key \in keys THEN NoBuffer ELSE reassembly[key]]
    /\ current_reassembly_bytes' =
           current_reassembly_bytes - 2 * MapThenSumSet(LAMBDA key : reassembly[key].len, keys)
    /\ UNCHANGED <<sent, next_message_id, handed_over>>

\* fragment_free_reassembly_buffer of several buffers.  Its guard against a
\* reservation larger than what is reserved never holds back (BudgetExact).
Free(keys) ==
    /\ reassembly' = [key \in Key |-> IF key \in keys THEN NoBuffer ELSE reassembly[key]]
    /\ current_reassembly_bytes' =
           current_reassembly_bytes - MapThenSumSet(LAMBDA key : reassembly[key].len, keys)
    /\ UNCHANGED <<sent, next_message_id, handed_over>>

\* Mutant of ProcessTimeouts: only buffers whose first byte arrived expire.
ProcessTimeoutsHeadOnly(expired) ==
    /\ expired # {}
    /\ \A key \in expired : reassembly[key].data[0] # NoByte
    /\ Free(expired)

\* xgl_fragment_process_timeouts: the buffers whose timeout elapsed go.
ProcessTimeouts(expired) ==
    /\ expired # {}
    /\ Free(expired)

\* xgl_fragment_clear_reassembly_scope: RESET, or the HELLO of a new session.
ClearScope(source) ==
    /\ \E key \in ActiveKeys : key[1] = source
    /\ Free({key \in ActiveKeys : key[1] = source})

-----------------------------------------------------------------------------
Init ==
    /\ sent = <<>>
    /\ next_message_id = [source \in Source |-> 0]
    /\ reassembly = [key \in Key |-> NoBuffer]
    /\ current_reassembly_bytes = 0
    /\ handed_over = {}

Offsets(message) == {b \in 0..(message.len - 1) : b % message.chunk = 0}

Next ==
    \/ \E source \in Source, type \in DataType, len \in MessageLen, chunk \in ChunkLen :
          SendFragmented(source, type, len, chunk)
    \/ \E source \in Source : SenderRestart(source)
    \/ \E uid \in DOMAIN sent : \E offset \in Offsets(sent[uid]) :
          ProcessFragment(uid, offset)
    \/ \E expired \in SUBSET ActiveKeys : ProcessTimeouts(expired)
    \/ \E source \in Source : ClearScope(source)

Spec == Init /\ [][Next]_vars

-----------------------------------------------------------------------------
Bytes(range) == range.start..(range.end - 1)
Written(buffer) == {b \in DOMAIN buffer.data : buffer.data[b] # NoByte}

\* The type invariant of the fragment manager and the senders' counters.
TypeOK ==
    /\ \A uid \in DOMAIN sent :
          sent[uid] \in [source : Source, id : MessageId, type : DataType,
                         len : MessageLen, chunk : ChunkLen]
    /\ next_message_id \in [Source -> 0..MaxMessages]
    /\ reassembly \in [Key -> Buffer \cup {NoBuffer}]
    /\ \A key \in ActiveKeys :
          DOMAIN reassembly[key].data = 0..(reassembly[key].len - 1)
    /\ current_reassembly_bytes \in Nat

\* The array of received ranges describes the bytes written exactly: its ranges
\* are sorted, non-empty and separated by gaps, they cover what was copied into
\* the buffer, and received_bytes counts it.  A message is therefore complete
\* (received_bytes = buffer_size) only when no byte of it is missing.
RangesTrackBytes ==
    \A key \in ActiveKeys :
        LET buffer == reassembly[key]
            ranges == buffer.ranges
        IN  /\ \A i \in DOMAIN ranges : ranges[i].start < ranges[i].end
            /\ \A i \in 1..(Len(ranges) - 1) : ranges[i].end < ranges[i + 1].start
            /\ UNION {Bytes(ranges[i]) : i \in DOMAIN ranges} = Written(buffer)
            /\ buffer.received_bytes = Cardinality(Written(buffer))
            /\ Len(ranges) <= MaxRanges

\* The budget is exact: what is reserved is what the active buffers hold, it is
\* released once on every way out (completion, timeout, reset of the scope), and
\* neither limit is exceeded.
BudgetExact ==
    /\ current_reassembly_bytes =
           MapThenSumSet(LAMBDA key : reassembly[key].len, ActiveKeys)
    /\ MaxBytes # 0 => current_reassembly_bytes <= MaxBytes
    /\ Cardinality(ActiveKeys) <= MaxBuffers

\* What reaches rx_callback has no missing byte, and every byte of it comes from
\* a message of that source with that length and type.
CompletedWhole ==
    \A message \in handed_over :
        \A b \in DOMAIN message.data :
            \E uid \in DOMAIN sent :
                /\ message.data[b] = uid
                /\ sent[uid].source = message.source
                /\ sent[uid].type = message.type
                /\ DOMAIN message.data = 0..(sent[uid].len - 1)

\* What reaches rx_callback is a message as one send handed it over.
\* docs/en/protocol/state-machines.md:149: "The key prevents the same message_id
\* from being mixed across nodes, connections, or sessions."
MessagesNotMixed ==
    \A message \in handed_over :
        \E uid \in DOMAIN sent :
            /\ sent[uid].source = message.source
            /\ sent[uid].type = message.type
            /\ message.data = [b \in 0..(sent[uid].len - 1) |-> uid]
=============================================================================
