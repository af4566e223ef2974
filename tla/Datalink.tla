------------------------------ MODULE Datalink ------------------------------
(***************************************************************************)
(* The anti-replay table of a receiving data link layer: what              *)
(* xgl_datalink_process_frame does with a frame whose checksums and        *)
(* authentication tag were verified.  Such frames come in any order and    *)
(* any number of times, from senders about which nothing is assumed.       *)
(*                                                                         *)
(* Frames that fail decoding or verification, and frames the table         *)
(* rejects, change nothing but statistics and are no steps; frames that    *)
(* carry no authentication never reach the table.                          *)
(***************************************************************************)
EXTENDS Integers

CONSTANTS
    Scope,        \* the (source_id, connection_id, session_epoch) of frames
    WindowCount,  \* XGL_DATALINK_REPLAY_WINDOW_COUNT, 16 in the code
    WindowSize,   \* window_size, 64 in the code
    BitmapBits,   \* bits of received_bitmap, 64 in the code
    PnMax,        \* the largest packet number, 2^32 - 1 in the code
    NoWindow      \* "replay_window_used is false"

ASSUME DatalinkAssumption ==
    /\ WindowCount \in Nat
    /\ BitmapBits \in Nat
    /\ WindowSize \in 1..BitmapBits
    /\ PnMax \in Nat
    /\ NoWindow \notin [scope : Scope, largest_packet_number : 0..PnMax,
                        received_bitmap : SUBSET (0..(BitmapBits - 1))]

PacketNumber == 0..PnMax
Slots == 0..(WindowCount - 1)

\* A window in use.  received_bitmap is the set of its one bits: bit i stands
\* for packet number largest_packet_number - i.  xgl_replay_window_init is
\* always followed by a first check, so has_largest is TRUE.
Window == [scope : Scope, largest_packet_number : PacketNumber,
           received_bitmap : SUBSET (0..(BitmapBits - 1))]

VARIABLES
    replay_windows,  \* slot -> its window, or NoWindow
    accepted,        \* scope -> packet number -> times judged new
    repeated,        \* the duplicate just handed up, <<scope, packet number>>
    discarded        \* the duplicate just dropped, <<scope, packet number>>

vars == <<replay_windows, accepted, repeated, discarded>>

-----------------------------------------------------------------------------
\* xgl_replay_window_check

\* Mutant of Shifted: without the test for diff >= 64, the processor shifts by
\* diff modulo the width.
ShiftedModulo(bitmap, diff) ==
    {bit \in 0..(BitmapBits - 1) :
        bit >= diff % BitmapBits /\ (bit - (diff % BitmapBits)) \in bitmap}

\* Mutant of Shifted: the shift is one short.
ShiftedOneShort(bitmap, diff) ==
    {bit \in 0..(BitmapBits - 1) :
        bit >= diff - 1 /\ (bit - diff + 1) \in bitmap}

\* Mutant of Shifted: bits shifted out at the top are kept.
ShiftedWide(bitmap, diff) == {bit + diff : bit \in bitmap}

\* received_bitmap <<= diff.  Nothing is left from diff = BitmapBits on, which
\* the code tests for.
Shifted(bitmap, diff) ==
    {bit \in 0..(BitmapBits - 1) : bit >= diff /\ (bit - diff) \in bitmap}

Offset(w, pn) == w.largest_packet_number - pn

IsAhead(w, pn) == pn > w.largest_packet_number

InReach(w, pn) ==
    /\ ~IsAhead(w, pn)
    /\ Offset(w, pn) < WindowSize
    /\ Offset(w, pn) < BitmapBits

IsNew(w, pn) ==
    \/ IsAhead(w, pn)
    \/ InReach(w, pn) /\ Offset(w, pn) \notin w.received_bitmap

IsDuplicate(w, pn) ==
    InReach(w, pn) /\ Offset(w, pn) \in w.received_bitmap

\* The window after a number judged new.
AfterNew(w, pn) ==
    IF IsAhead(w, pn)
    THEN [w EXCEPT !.largest_packet_number = pn,
                   !.received_bitmap =
                       Shifted(@, pn - w.largest_packet_number) \cup {0}]
    ELSE [w EXCEPT !.received_bitmap = @ \cup {Offset(w, pn)}]

FirstWindow(s, pn) ==
    [scope |-> s, largest_packet_number |-> pn, received_bitmap |-> {0}]

-----------------------------------------------------------------------------
\* datalink_check_replay: the slot of a scope, and the first free one.

HasScope(i, s) == replay_windows[i] # NoWindow /\ replay_windows[i].scope = s

SlotOf(i, s) ==
    /\ HasScope(i, s)
    /\ \A j \in Slots : j < i => ~HasScope(j, s)

\* Mutant of FreeSlotFor: with no slot free, the first one is taken over.
FreeSlotOrFirst(i, s) ==
    /\ \A j \in Slots : ~HasScope(j, s)
    /\ \/ replay_windows[i] = NoWindow
       \/ i = 0 /\ \A j \in Slots : replay_windows[j] # NoWindow
    /\ \A j \in Slots : j < i => replay_windows[j] # NoWindow

FreeSlotFor(i, s) ==
    /\ \A j \in Slots : ~HasScope(j, s)
    /\ replay_windows[i] = NoWindow
    /\ \A j \in Slots : j < i => replay_windows[j] # NoWindow

-----------------------------------------------------------------------------
\* xgl_datalink_process_frame, on a verified frame

Init ==
    /\ replay_windows = [i \in Slots |-> NoWindow]
    /\ accepted = [s \in Scope |-> [pn \in PacketNumber |-> 0]]
    /\ repeated = {}
    /\ discarded = {}

\* XGL_REPLAY_ACCEPT_NEW: the frame enters the network layer.
Accept(s, pn) ==
    /\ accepted' = [accepted EXCEPT ![s][pn] = @ + 1]
    /\ repeated' = {}
    /\ discarded' = {}

\* The first frame of a scope takes a free slot, for good.
ReceiveFirst(s, pn) ==
    /\ \E i \in Slots :
        /\ FreeSlotFor(i, s)
        /\ replay_windows' = [replay_windows EXCEPT ![i] = FirstWindow(s, pn)]
    /\ Accept(s, pn)

ReceiveNew(s, pn) ==
    /\ \E i \in Slots :
        /\ SlotOf(i, s)
        /\ IsNew(replay_windows[i], pn)
        /\ replay_windows' =
            [replay_windows EXCEPT ![i] = AfterNew(replay_windows[i], pn)]
    /\ Accept(s, pn)

\* A duplicate goes up only if it is ACK-eliciting: the transport then
\* acknowledges it again.
ReceiveDuplicate(s, pn, ack_eliciting) ==
    /\ \E i \in Slots : SlotOf(i, s) /\ IsDuplicate(replay_windows[i], pn)
    /\ repeated' = {d \in {<<s, pn>>} : ack_eliciting}
    /\ discarded' = {d \in {<<s, pn>>} : ~ack_eliciting}
    /\ UNCHANGED <<replay_windows, accepted>>

Receive(s, pn, ack_eliciting) ==
    \/ ReceiveFirst(s, pn)
    \/ ReceiveNew(s, pn)
    \/ ReceiveDuplicate(s, pn, ack_eliciting)

Next ==
    \E s \in Scope, pn \in PacketNumber, ack_eliciting \in BOOLEAN :
        Receive(s, pn, ack_eliciting)

Spec == Init /\ [][Next]_vars

-----------------------------------------------------------------------------
\* The types of the table and of the histories.
TypeOK ==
    /\ replay_windows \in [Slots -> Window \cup {NoWindow}]
    /\ accepted \in [Scope -> [PacketNumber -> Nat]]
    /\ repeated \subseteq Scope \X PacketNumber
    /\ discarded \subseteq Scope \X PacketNumber

\* xgl_replay_window_check answers XGL_REPLAY_ACCEPT_NEW at most once for a
\* packet number of a scope, whatever the order of the frames, however far
\* the numbers jump and however many scopes compete for the slots.  So a frame
\* that does not elicit an ACK enters the network layer at most once.
NewOnce == \A s \in Scope : \A pn \in PacketNumber : accepted[s][pn] <= 1

\* What the window calls XGL_REPLAY_ACCEPT_DUPLICATE was accepted before: no
\* frame is dropped, or reaches the transport as a repetition, because of a
\* bit that an earlier number left behind in the shifted bitmap.
DuplicatesWereAccepted ==
    \A d \in repeated \cup discarded : accepted[d[1]][d[2]] > 0

\* The bitmap of a scope says of each number within its 64 whether it was
\* accepted, no number above largest_packet_number was, and a scope without a
\* slot had nothing accepted.
WindowTracks ==
    /\ \A i \in Slots : replay_windows[i] # NoWindow =>
        LET w == replay_windows[i] IN
        \A pn \in PacketNumber :
            /\ IsAhead(w, pn) => accepted[w.scope][pn] = 0
            /\ (~IsAhead(w, pn) /\ Offset(w, pn) < BitmapBits) =>
                (Offset(w, pn) \in w.received_bitmap <=> accepted[w.scope][pn] > 0)
    /\ \A s \in Scope :
        (\A i \in Slots : ~HasScope(i, s)) =>
            \A pn \in PacketNumber : accepted[s][pn] = 0
=============================================================================
