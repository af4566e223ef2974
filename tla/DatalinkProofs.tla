--------------------------- MODULE DatalinkProofs ---------------------------
(***************************************************************************)
(* The anti-replay table judges every packet number of a scope new at most *)
(* once, for every number of slots, width of the bitmap and window size.   *)
(***************************************************************************)
EXTENDS Datalink, TLAPS

\* No two slots hold windows of the same scope: datalink_check_replay takes a
\* free slot only after it searched all of them.
OneSlotPerScope ==
    \A s \in Scope : \A i, j \in Slots : HasScope(i, s) /\ HasScope(j, s) => i = j

ReplayInv ==
    /\ TypeOK
    /\ OneSlotPerScope
    /\ WindowTracks
    /\ NewOnce
    /\ DuplicatesWereAccepted

\* What WindowTracks says of one window.
Tracks(w, counts) ==
    \A pn \in PacketNumber :
        /\ IsAhead(w, pn) => counts[pn] = 0
        /\ (~IsAhead(w, pn) /\ Offset(w, pn) < BitmapBits) =>
            (Offset(w, pn) \in w.received_bitmap <=> counts[pn] > 0)

\* What one accepted number does to the counts of its scope.
Counted(counts, pn) == [counts EXCEPT ![pn] = @ + 1]

\* A number judged new had not been accepted: it lies above all accepted
\* numbers, or its bit, which is the truth about it, is not set.
LEMMA NewWasNotAccepted ==
    ASSUME NEW w \in Window, NEW counts \in [PacketNumber -> Nat],
           NEW pn \in PacketNumber, Tracks(w, counts), IsNew(w, pn)
    PROVE  counts[pn] = 0
  BY DatalinkAssumption
     DEF Tracks, IsNew, IsAhead, InReach, Offset, Window, PacketNumber

\* The window moved to a new number keeps its bits in step with the counts, the
\* shifted ones and the ones that fall off the bitmap included.
LEMMA AfterNewTracks ==
    ASSUME NEW w \in Window, NEW counts \in [PacketNumber -> Nat],
           NEW pn \in PacketNumber, Tracks(w, counts), IsNew(w, pn)
    PROVE  /\ AfterNew(w, pn) \in Window
           /\ AfterNew(w, pn).scope = w.scope
           /\ Tracks(AfterNew(w, pn), Counted(counts, pn))
<1> USE DatalinkAssumption
<1>1. counts[pn] = 0
  BY NewWasNotAccepted
<1> DEFINE largest == w.largest_packet_number
<1>t. largest \in PacketNumber /\ w.received_bitmap \subseteq 0..(BitmapBits - 1)
  BY DEF Window
<1>2. CASE IsAhead(w, pn)
  <2> DEFINE bits == Shifted(w.received_bitmap, pn - largest) \cup {0}
  <2>1. AfterNew(w, pn) = [w EXCEPT !.largest_packet_number = pn,
                                    !.received_bitmap = bits]
    BY <1>2 DEF AfterNew
  <2>2. bits \subseteq 0..(BitmapBits - 1)
    BY DEF Shifted
  <2>3. /\ AfterNew(w, pn) \in Window
        /\ AfterNew(w, pn).scope = w.scope
        /\ AfterNew(w, pn).largest_packet_number = pn
        /\ AfterNew(w, pn).received_bitmap = bits
    BY <2>1, <2>2 DEF Window
  <2>4. ASSUME NEW n \in PacketNumber
        PROVE  /\ n > pn => Counted(counts, pn)[n] = 0
               /\ (~(n > pn) /\ pn - n < BitmapBits) =>
                    (pn - n \in bits <=> Counted(counts, pn)[n] > 0)
    <3>1. Counted(counts, pn)[n] = IF n = pn THEN counts[n] + 1 ELSE counts[n]
      BY DEF Counted
    <3>2. CASE n = pn
      BY <3>1, <3>2, <1>1 DEF PacketNumber
    <3>3. CASE n > pn
      BY <3>1, <3>3, <1>t, <1>2 DEF Tracks, IsAhead, PacketNumber
    <3>4. CASE n < pn /\ n > largest
      <4>1. counts[n] = 0
        BY <3>4 DEF Tracks, IsAhead
      <4>2. pn - n \notin bits
        BY <3>4, <1>t DEF Shifted, PacketNumber
      <4> QED
        BY <4>1, <4>2, <3>1, <3>4 DEF PacketNumber
    <3>5. CASE n < pn /\ n <= largest
      <4>1. pn - n < BitmapBits => (pn - n \in bits <=> largest - n \in w.received_bitmap)
        BY <3>5, <1>2, <1>t DEF Shifted, PacketNumber, IsAhead
      <4>2. largest - n < BitmapBits => (largest - n \in w.received_bitmap <=> counts[n] > 0)
        BY <3>5, <1>t DEF Tracks, IsAhead, Offset, PacketNumber
      <4>3. pn - n < BitmapBits => largest - n < BitmapBits
        BY <3>5, <1>2, <1>t DEF PacketNumber, IsAhead
      <4> QED
        BY <4>1, <4>2, <4>3, <3>1, <3>5, <1>t DEF PacketNumber
    <3> QED
      BY <3>2, <3>3, <3>4, <3>5, <1>t DEF PacketNumber
  <2> QED
    BY <2>3, <2>4 DEF Tracks, IsAhead, Offset
<1>3. CASE ~IsAhead(w, pn)
  <2> DEFINE bits == w.received_bitmap \cup {largest - pn}
  <2>0. largest - pn \in 0..(BitmapBits - 1)
    BY <1>3, <1>t DEF IsNew, InReach, Offset, IsAhead, PacketNumber
  <2>1. AfterNew(w, pn) = [w EXCEPT !.received_bitmap = bits]
    BY <1>3 DEF AfterNew, Offset
  <2>2. /\ AfterNew(w, pn) \in Window
        /\ AfterNew(w, pn).scope = w.scope
        /\ AfterNew(w, pn).largest_packet_number = largest
        /\ AfterNew(w, pn).received_bitmap = bits
    BY <2>0, <2>1, <1>t DEF Window
  <2>3. ASSUME NEW n \in PacketNumber
        PROVE  /\ n > largest => Counted(counts, pn)[n] = 0
               /\ (~(n > largest) /\ largest - n < BitmapBits) =>
                    (largest - n \in bits <=> Counted(counts, pn)[n] > 0)
    <3>1. Counted(counts, pn)[n] = IF n = pn THEN counts[n] + 1 ELSE counts[n]
      BY DEF Counted
    <3>2. CASE n = pn
      BY <3>1, <3>2, <1>3, <1>1, <1>t DEF PacketNumber, IsAhead
    <3>3. CASE n # pn
      <4>1. largest - n # largest - pn
        BY <3>3, <1>t DEF PacketNumber
      <4> QED
        BY <4>1, <3>1, <3>3, <1>t DEF Tracks, IsAhead, Offset
    <3> QED
      BY <3>2, <3>3
  <2> QED
    BY <2>2, <2>3 DEF Tracks, IsAhead, Offset
<1> QED
  BY <1>2, <1>3

\* The window of a scope's first number.
LEMMA FirstWindowTracks ==
    ASSUME NEW s \in Scope, NEW counts \in [PacketNumber -> Nat],
           NEW pn \in PacketNumber, \A n \in PacketNumber : counts[n] = 0
    PROVE  /\ FirstWindow(s, pn) \in Window
           /\ Tracks(FirstWindow(s, pn), Counted(counts, pn))
<1> USE DatalinkAssumption
<1>1. FirstWindow(s, pn) \in Window
  BY DEF FirstWindow, Window, PacketNumber
<1>2. ASSUME NEW n \in PacketNumber
      PROVE  Counted(counts, pn)[n] = IF n = pn THEN 1 ELSE 0
  BY DEF Counted
<1> QED
  BY <1>1, <1>2 DEF Tracks, FirstWindow, IsAhead, Offset, PacketNumber

\* WindowTracks, said with Tracks.
LEMMA WindowTracksForm ==
    WindowTracks <=>
        /\ \A i \in Slots : replay_windows[i] # NoWindow =>
            Tracks(replay_windows[i], accepted[replay_windows[i].scope])
        /\ \A s \in Scope : (\A i \in Slots : ~HasScope(i, s)) =>
            \A pn \in PacketNumber : accepted[s][pn] = 0
  BY DEF WindowTracks, Tracks

\* A number judged new joins the table: slot i becomes w, a window of the scope,
\* and tracks the new counts; nothing else changes.
LEMMA AcceptPreserves ==
    ASSUME ReplayInv,
           NEW s \in Scope, NEW pn \in PacketNumber, NEW i \in Slots,
           NEW w \in Window, w.scope = s,
           Tracks(w, Counted(accepted[s], pn)),
           \A j \in Slots : HasScope(j, s) => j = i,
           replay_windows[i] # NoWindow => replay_windows[i].scope = s,
           accepted[s][pn] = 0,
           replay_windows' = [replay_windows EXCEPT ![i] = w],
           Accept(s, pn)
    PROVE  ReplayInv'
<1> USE DatalinkAssumption
<1>1. TypeOK /\ OneSlotPerScope /\ WindowTracks /\ NewOnce
  BY DEF ReplayInv
<1>w. w # NoWindow
  BY DEF Window, PacketNumber
<1>2. accepted' = [accepted EXCEPT ![s] = Counted(accepted[s], pn)]
  BY <1>1 DEF Accept, TypeOK, Counted
<1>3. /\ accepted[s] \in [PacketNumber -> Nat]
      /\ Counted(accepted[s], pn) \in [PacketNumber -> Nat]
  BY <1>1 DEF TypeOK, Counted
<1>4. /\ accepted' \in [Scope -> [PacketNumber -> Nat]]
      /\ accepted'[s] = Counted(accepted[s], pn)
      /\ \A t \in Scope : t # s => accepted'[t] = accepted[t]
  BY <1>1, <1>2, <1>3 DEF TypeOK
<1>5. /\ replay_windows' \in [Slots -> Window \cup {NoWindow}]
      /\ replay_windows'[i] = w
      /\ \A j \in Slots : j # i => replay_windows'[j] = replay_windows[j]
  BY <1>1 DEF TypeOK
<1>6. TypeOK'
  BY <1>4, <1>5 DEF TypeOK, Accept
<1>7. \A j \in Slots : \A t \in Scope :
        HasScope(j, t)' <=> IF j = i THEN t = s ELSE HasScope(j, t)
  BY <1>5, <1>w DEF HasScope
<1>8. OneSlotPerScope'
  BY <1>1, <1>7 DEF OneSlotPerScope
<1>9. WindowTracks'
  <2>1. ASSUME NEW j \in Slots, replay_windows'[j] # NoWindow
        PROVE  Tracks(replay_windows'[j], accepted'[replay_windows'[j].scope])
    <3>1. CASE j = i
      BY <3>1, <1>4, <1>5
    <3>2. CASE j # i
      <4>1. replay_windows'[j] = replay_windows[j] /\ replay_windows[j] \in Window
        BY <3>2, <2>1, <1>1, <1>5 DEF TypeOK
      <4>2. replay_windows[j].scope \in Scope
        BY <4>1 DEF Window
      <4>3. replay_windows[j].scope # s
        BY <4>1, <3>2, <2>1 DEF HasScope
      <4>4. Tracks(replay_windows[j], accepted[replay_windows[j].scope])
        BY <4>1, <2>1, <1>1, WindowTracksForm
      <4> QED
        BY <4>1, <4>2, <4>3, <4>4, <1>4
    <3> QED
      BY <3>1, <3>2
  <2>2. ASSUME NEW t \in Scope, \A j \in Slots : ~HasScope(j, t)',
               NEW n \in PacketNumber
        PROVE  accepted'[t][n] = 0
    <3>1. t # s
      BY <2>2, <1>7
    <3>2. \A j \in Slots : ~HasScope(j, t)
      <4> SUFFICES ASSUME NEW j \in Slots, HasScope(j, t) PROVE FALSE
        OBVIOUS
      <4>1. j = i
        BY <2>2, <1>7
      <4> QED
        BY <4>1, <3>1 DEF HasScope
    <3> QED
      BY <3>1, <3>2, <1>1, <1>4 DEF WindowTracks
  <2> QED
    BY <2>1, <2>2 DEF WindowTracks, Tracks, HasScope, IsAhead, Offset
<1>10. NewOnce'
  <2> SUFFICES ASSUME NEW t \in Scope, NEW n \in PacketNumber
               PROVE  accepted'[t][n] <= 1
    BY DEF NewOnce
  <2>1. CASE t = s
    BY <2>1, <1>1, <1>3, <1>4 DEF Counted, NewOnce
  <2>2. CASE t # s
    BY <2>2, <1>1, <1>4 DEF NewOnce
  <2> QED
    BY <2>1, <2>2
<1>11. DuplicatesWereAccepted'
  BY DEF DuplicatesWereAccepted, Accept
<1> QED
  BY <1>6, <1>8, <1>9, <1>10, <1>11 DEF ReplayInv

\* The table is sound whatever frames arrive: Spec => []ReplayInv.
THEOREM ReplayInvariant == Spec => []ReplayInv
<1> USE DatalinkAssumption
<1>1. Init => ReplayInv
  BY DEF Init, ReplayInv, TypeOK, OneSlotPerScope, WindowTracks, NewOnce,
         DuplicatesWereAccepted, HasScope, PacketNumber
<1>2. ASSUME ReplayInv, [Next]_vars
      PROVE  ReplayInv'
  <2>1. TypeOK /\ OneSlotPerScope /\ WindowTracks
    BY <1>2 DEF ReplayInv
  <2>2. ASSUME NEW s \in Scope, NEW pn \in PacketNumber, ReceiveFirst(s, pn)
        PROVE  ReplayInv'
    <3>1. PICK i \in Slots :
            /\ FreeSlotFor(i, s)
            /\ replay_windows' = [replay_windows EXCEPT ![i] = FirstWindow(s, pn)]
      BY <2>2 DEF ReceiveFirst
    <3>2. \A n \in PacketNumber : accepted[s][n] = 0
      BY <3>1, <2>1 DEF FreeSlotFor, WindowTracks
    <3>3. accepted[s] \in [PacketNumber -> Nat]
      BY <2>1 DEF TypeOK
    <3>4. /\ FirstWindow(s, pn) \in Window
          /\ Tracks(FirstWindow(s, pn), Counted(accepted[s], pn))
      BY <3>2, <3>3, FirstWindowTracks
    <3>5. FirstWindow(s, pn).scope = s
      BY DEF FirstWindow
    <3>6. /\ \A j \in Slots : HasScope(j, s) => j = i
          /\ replay_windows[i] # NoWindow => replay_windows[i].scope = s
      BY <3>1 DEF FreeSlotFor
    <3>7. Accept(s, pn)
      BY <2>2 DEF ReceiveFirst
    <3> QED
      BY <1>2, <3>1, <3>2, <3>4, <3>5, <3>6, <3>7, AcceptPreserves
  <2>3. ASSUME NEW s \in Scope, NEW pn \in PacketNumber, ReceiveNew(s, pn)
        PROVE  ReplayInv'
    <3>1. PICK i \in Slots :
            /\ SlotOf(i, s)
            /\ IsNew(replay_windows[i], pn)
            /\ replay_windows' =
                [replay_windows EXCEPT ![i] = AfterNew(replay_windows[i], pn)]
      BY <2>3 DEF ReceiveNew
    <3>2. /\ replay_windows[i] \in Window
          /\ replay_windows[i].scope = s
          /\ accepted[s] \in [PacketNumber -> Nat]
      BY <3>1, <2>1 DEF SlotOf, HasScope, TypeOK
    <3>3. Tracks(replay_windows[i], accepted[s])
      BY <3>1, <3>2, <2>1, WindowTracksForm DEF SlotOf, HasScope
    <3>4. accepted[s][pn] = 0
      BY <3>1, <3>2, <3>3, NewWasNotAccepted
    <3>5. /\ AfterNew(replay_windows[i], pn) \in Window
          /\ AfterNew(replay_windows[i], pn).scope = s
          /\ Tracks(AfterNew(replay_windows[i], pn), Counted(accepted[s], pn))
      BY <3>1, <3>2, <3>3, AfterNewTracks
    <3>6. \A j \in Slots : HasScope(j, s) => j = i
      BY <3>1, <2>1 DEF SlotOf, OneSlotPerScope
    <3>7. Accept(s, pn)
      BY <2>3 DEF ReceiveNew
    <3> QED
      BY <1>2, <3>1, <3>2, <3>4, <3>5, <3>6, <3>7, AcceptPreserves
  <2>4. ASSUME NEW s \in Scope, NEW pn \in PacketNumber,
               NEW ack_eliciting \in BOOLEAN,
               ReceiveDuplicate(s, pn, ack_eliciting)
        PROVE  ReplayInv'
    <3>1. PICK i \in Slots : SlotOf(i, s) /\ IsDuplicate(replay_windows[i], pn)
      BY <2>4 DEF ReceiveDuplicate
    <3>2. /\ replay_windows[i] \in Window
          /\ replay_windows[i].scope = s
      BY <3>1, <2>1 DEF SlotOf, HasScope, TypeOK
    <3>3. Tracks(replay_windows[i], accepted[s])
      BY <3>1, <3>2, <2>1, WindowTracksForm DEF SlotOf, HasScope
    <3>4. accepted[s][pn] > 0
      BY <3>1, <3>2, <3>3 DEF Tracks, IsDuplicate, InReach
    <3>5. UNCHANGED <<replay_windows, accepted>>
      BY <2>4 DEF ReceiveDuplicate
    <3>6. repeated' \subseteq {<<s, pn>>} /\ discarded' \subseteq {<<s, pn>>}
      BY <2>4 DEF ReceiveDuplicate
    <3>7. DuplicatesWereAccepted'
      BY <3>4, <3>5, <3>6 DEF DuplicatesWereAccepted
    <3>8. TypeOK'
      BY <3>5, <3>6, <2>1 DEF TypeOK
    <3> QED
      BY <3>5, <3>7, <3>8, <1>2
         DEF ReplayInv, OneSlotPerScope, WindowTracks, NewOnce, HasScope
  <2>5. CASE UNCHANGED vars
    BY <2>5, <1>2 DEF vars, ReplayInv, TypeOK, OneSlotPerScope, WindowTracks,
         NewOnce, DuplicatesWereAccepted, HasScope
  <2> QED
    BY <1>2, <2>2, <2>3, <2>4, <2>5 DEF Next, Receive
<1> QED
  BY <1>1, <1>2, PTL DEF Spec

\* The table keeps its types: largest_packet_number within the packet numbers,
\* no bit of received_bitmap outside its width.
THEOREM ReplayTypes == Spec => []TypeOK
  BY ReplayInvariant, PTL DEF ReplayInv

\* No packet number of a scope is judged new twice by xgl_replay_window_check,
\* for every bitmap width, window size, number of slots and of scopes.
THEOREM NoNumberTwice == Spec => []NewOnce
  BY ReplayInvariant, PTL DEF ReplayInv

\* Only numbers accepted before are judged duplicates by
\* xgl_replay_window_check, so that no bit left by another number costs a
\* packet.
THEOREM NoFalseDuplicate == Spec => []DuplicatesWereAccepted
  BY ReplayInvariant, PTL DEF ReplayInv

\* The bitmap of xgl_replay_window_check tells the truth about every number
\* within its width.
THEOREM BitmapsTrack == Spec => []WindowTracks
  BY ReplayInvariant, PTL DEF ReplayInv
=============================================================================
