--------------------------- MODULE FragmentTimers ---------------------------
(***************************************************************************)
(* The reassembly of FragmentReassembly with the timers of its buffers: a  *)
(* buffer is stamped by its first fragment, and by no other, and a pass of *)
(* xgl_fragment_process_timeouts frees the ones whose timeout has elapsed  *)
(* since.  One stamped at millisecond 0 of the clock counts as empty and   *)
(* no pass frees it.  Time goes in ticks.                                  *)
(***************************************************************************)
EXTENDS FragmentReassembly

CONSTANT FragmentTicks   \* ticks from a stamp to its timeout

ASSUME TickAssumption == FragmentTicks \in Nat \ {0}

NoTimer == -1   \* there is no buffer
Never == -2     \* its first_fragment_time is 0

VARIABLE timer   \* key -> ticks left, NoTimer or Never

timedVars == <<vars, timer>>

Elapsed == {key \in ActiveKeys : timer[key] = 0}

\* A buffer that was not there before gets the reading of the clock, which may
\* be 0, as its first_fragment_time.
Stamp ==
    timer' \in {[key \in Key |-> IF reassembly'[key] = NoBuffer THEN NoTimer
                                 ELSE IF ~Active(key) THEN stamp
                                 ELSE timer[key]] : stamp \in {FragmentTicks, Never}}

TimedFragment(uid, offset) == ProcessFragment(uid, offset) /\ Stamp

Pass == ProcessTimeouts(Elapsed) /\ Stamp

Tick ==
    /\ \E key \in Key : timer[key] > 0
    /\ timer' = [key \in Key |-> IF timer[key] > 0 THEN timer[key] - 1 ELSE timer[key]]
    /\ UNCHANGED vars

TimedInit == Init /\ timer = [key \in Key |-> NoTimer]

TimedNext ==
    \/ \E source \in Source, type \in DataType, len \in MessageLen, chunk \in ChunkLen :
          SendFragmented(source, type, len, chunk) /\ UNCHANGED timer
    \/ \E source \in Source : SenderRestart(source) /\ UNCHANGED timer
    \/ \E uid \in DOMAIN sent : \E offset \in Offsets(sent[uid]) :
          TimedFragment(uid, offset)
    \/ Pass
    \/ \E source \in Source : ClearScope(source) /\ Stamp
    \/ Tick

\* The clock moves, and xgl_run keeps being called: a pass is made once timeouts
\* have elapsed.
FairSpec ==
    /\ TimedInit /\ [][TimedNext]_timedVars
    /\ WF_timedVars(Tick)
    /\ WF_timedVars(Pass)

-----------------------------------------------------------------------------
\* A buffer does not stay for ever: its message completes, times out or is
\* cleared (docs/en/reference/validation-matrix.md:36, "timeout releases
\* resources"), however often repeated fragments open it again.  Only a stamp of
\* 0 exempts a buffer (xgl_fragment_maintenance.c:29).
BuffersReleased ==
    \A key \in Key : (Active(key) /\ timer[key] # Never) ~> ~Active(key)
=============================================================================
