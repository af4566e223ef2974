------------------------------- MODULE Runtime -------------------------------
(***************************************************************************)
(* Time in XGL: a node with one peer, the millisecond clock that wraps,    *)
(* xgl_run, which reads the clock once at its start and uses that reading  *)
(* for polling, retransmissions, reassembly timeouts and idle peers, the   *)
(* packets that arrive or are sent while it runs, stamped with the clock   *)
(* of that moment, and the deadline the sleeping main loop asks for.       *)
(*                                                                         *)
(* Stamps are clock readings; beside each stamp the model keeps, for the   *)
(* properties only, the real time it was taken at.  The peer has no packet *)
(* in its out-of-order buffer, which would keep it from being reclaimed.   *)
(***************************************************************************)
EXTENDS Integers, Sequences, FiniteSets, SequencesExt

CONSTANTS
    ClockSize,        \* 2^32: the clock counts modulo this
    BootReadings,     \* what the clock may read at first
    DefaultRto,       \* XGL_DEFAULT_RTO_MS
    MinRto, MaxRto,   \* XGL_MIN_RTO_MS, XGL_MAX_RTO_MS
    BackoffCap,       \* 30000 in xgl_reliable_calc_backoff
    MaxRetry,         \* config.protocol.max_retry_count
    FragmentTimeout,  \* XGL_FRAGMENT_TIMEOUT_MS
    IdleTimeout,      \* peer_idle_timeout_ms; 0 is "never"
    PollInterval,     \* 1000 / read_freq_hz of the route
    SendTimeouts,     \* timeout_ms of xgl_tx_data_t; 0 is "not given"
    RttSamples,       \* measurements the estimator is tried with
    MaxTime,          \* bound: milliseconds the model runs
    MaxPackets,       \* bound: packets in the queue
    MaxEvents         \* bound: sends and arrivals

ASSUME RuntimeAssumption ==
    /\ ClockSize \in Nat \ {0} /\ ClockSize % 2 = 0
    /\ BootReadings \subseteq 0..(ClockSize - 1)
    /\ {DefaultRto, MinRto, MaxRto, BackoffCap, FragmentTimeout, PollInterval} \subseteq Nat \ {0}
    /\ MinRto <= DefaultRto /\ DefaultRto <= MaxRto
    /\ {MaxRetry, IdleTimeout, MaxTime, MaxPackets, MaxEvents} \subseteq Nat
    /\ SendTimeouts \subseteq Nat /\ RttSamples \subseteq Nat

VARIABLES
    boot, now,          \* the clock reads (boot + now) modulo its size
    running,            \* between the clock reading of xgl_run and its end
    reading,            \* xgl_run reads the route this time
    run_time, run_at,   \* the reading xgl_run uses, and its real time
    queue,              \* wait_ack_list of the peer
    peer,               \* the peer state, or NoPeer
    buffer,             \* the reassembly buffer, or NoBuffer
    route_last_read_ms,
    events              \* sends and arrivals so far

vars == <<boot, now, running, reading, run_time, run_at, queue, peer, buffer,
          route_last_read_ms, events>>

-----------------------------------------------------------------------------
(***************************************************************************)
(* The clock and its differences                                           *)
(***************************************************************************)
xgl_time_ms == (boot + now) % ClockSize

\* uint32_t subtraction, and the same cast to int32_t.
Elapsed(later, earlier) == (later - earlier) % ClockSize
SignedDifference(a, b) ==
    LET d == Elapsed(a, b) IN IF d >= ClockSize \div 2 THEN d - ClockSize ELSE d

\* Mutant of EarlierThan: deadlines are compared without the wrap in mind.
EarlierUnsigned(a, b) == a < b

EarlierThan(a, b) == SignedDifference(a, b) < 0

Lesser(a, b) == IF a <= b THEN a ELSE b
Clamp(x, lo, hi) == IF x < lo THEN lo ELSE IF x > hi THEN hi ELSE x

-----------------------------------------------------------------------------
(***************************************************************************)
(* Retransmission timeouts                                                 *)
(***************************************************************************)
\* The loop doubles until the cap is passed.
xgl_reliable_calc_backoff(initial, retry_count) ==
    LET Doubled[n \in 0..10] ==
            IF n = 0 THEN initial ELSE Lesser(Doubled[n - 1] * 2, BackoffCap)
    IN  Doubled[Lesser(retry_count, 10)]

xgl_rtt_init == [srtt |-> 0, rttvar |-> 0, rto |-> DefaultRto, initialized |-> FALSE]

Magnitude(x) == IF x < 0 THEN -x ELSE x

\* Mutant of Smoothed: the shift rounds away from the estimate.
SmoothedUp(old, error, shift) == old + (error \div 2^shift) + 1

\* An arithmetic right shift rounds down, for negative errors too.
Smoothed(old, error, shift) == old + (error \div 2^shift)

xgl_rtt_update(est, measured) ==
    LET m == IF measured < 0 THEN 0 ELSE measured
        srtt == IF est.initialized THEN Smoothed(est.srtt, m - est.srtt, 3) ELSE m
        rttvar == IF est.initialized
                  THEN Smoothed(est.rttvar, Magnitude(m - est.srtt) - est.rttvar, 2)
                  ELSE m \div 2
    IN  [srtt |-> srtt, rttvar |-> rttvar, initialized |-> TRUE,
         rto |-> Clamp(srtt + 4 * rttvar, MinRto, MaxRto)]

\* No caller of xgl_rtt_update: the estimator of a peer stays as initialised,
\* and default_timeout_ms, used when the RTO is 0, never is.
transport_send_timeout_ms(given) == IF given > 0 THEN given ELSE xgl_rtt_init.rto

-----------------------------------------------------------------------------
(***************************************************************************)
(* Packets in flight and the deadline kept for them                        *)
(***************************************************************************)
Stamped(p, stamp, at) == [p EXCEPT !.send_timestamp = stamp, !.at = at]

\* transport_retransmit_reliable_packet, when the lower layer takes it.
Resent(p, stamp, at) ==
    [Stamped(p, stamp, at) EXCEPT
        !.retry_count = @ + 1,
        !.timeout_ms = xgl_reliable_calc_backoff(p.initial_timeout_ms, p.retry_count + 1)]

AbsoluteDeadline(p) == (p.send_timestamp + p.timeout_ms) % ClockSize

\* 0 stands for "none", in a stamp and in a deadline.
transport_update_peer_deadline(q) ==
    LET Take(earliest, p) ==
            IF /\ p.send_timestamp # 0
               /\ \/ earliest = 0
                  \/ EarlierThan(AbsoluteDeadline(p), earliest)
            THEN AbsoluteDeadline(p) ELSE earliest
    IN  FoldLeft(Take, 0, q)

NoPeer == [exists |-> FALSE]
NoBuffer == [exists |-> FALSE]
NewPeer == [exists |-> TRUE, last_active_ms |-> 0, active_at |-> -IdleTimeout,
            earliest_deadline_ms |-> 0]
GetOrCreate == IF peer.exists THEN peer ELSE NewPeer
Active(p) == [p EXCEPT !.last_active_ms = xgl_time_ms, !.active_at = now]
WithDeadline(p, q) ==
    [p EXCEPT !.earliest_deadline_ms = transport_update_peer_deadline(q)]

\* What is left of a queue: the entries at these positions, in their order.
Chosen(q, indices) ==
    LET Nth(j) == CHOOSE i \in indices : Cardinality({h \in indices : h <= i}) = j
    IN  [j \in 1..Cardinality(indices) |-> q[Nth(j)]]

-----------------------------------------------------------------------------
(***************************************************************************)
(* The deadline query                                                      *)
(***************************************************************************)
NoDeadline == ClockSize   \* XGL_NO_DEADLINE_MS

deadline_delta_ms(start, timeout) ==
    IF Elapsed(xgl_time_ms, start) >= timeout
    THEN 0 ELSE timeout - Elapsed(xgl_time_ms, start)

RouteDeadline ==
    IF route_last_read_ms = 0 THEN 0 ELSE deadline_delta_ms(route_last_read_ms, PollInterval)

ReliableDeadline ==
    IF ~peer.exists \/ peer.earliest_deadline_ms = 0 THEN NoDeadline
    ELSE LET remaining == SignedDifference(peer.earliest_deadline_ms, xgl_time_ms)
         IN  IF remaining <= 0 THEN 0 ELSE remaining

ReassemblyDeadline ==
    IF ~buffer.exists \/ buffer.first_fragment_time = 0 THEN NoDeadline
    ELSE deadline_delta_ms(buffer.first_fragment_time, FragmentTimeout)

xgl_next_deadline_ms ==
    Lesser(RouteDeadline, Lesser(ReliableDeadline, ReassemblyDeadline))

-----------------------------------------------------------------------------
(***************************************************************************)
(* Actions: time, sending, receiving and the run loop                      *)
(***************************************************************************)
Init ==
    /\ boot \in BootReadings /\ now = 0
    /\ running = FALSE /\ reading = FALSE
    /\ run_time = 0 /\ run_at = 0
    /\ queue = <<>> /\ peer = NoPeer /\ buffer = NoBuffer
    /\ route_last_read_ms = 0
    /\ events = 0

clockVars == <<boot, now>>
runVars == <<running, reading, run_time, run_at, route_last_read_ms>>

Tick ==
    /\ now < MaxTime
    /\ now' = now + 1
    /\ UNCHANGED <<boot, runVars, queue, peer, buffer, events>>

Event == events < MaxEvents /\ events' = events + 1

\* A reliable xgl_send: by the application, by rx_callback during xgl_run, or
\* by another thread before xgl_run has the mutex.
Send(given) ==
    /\ Len(queue) < MaxPackets
    /\ Event
    /\ queue' = Append(queue, [retry_count |-> 0, at |-> now,
                               send_timestamp |-> xgl_time_ms,
                               initial_timeout_ms |-> transport_send_timeout_ms(given),
                               timeout_ms |-> transport_send_timeout_ms(given)])
    /\ peer' = Active(WithDeadline(GetOrCreate, queue'))
    /\ UNCHANGED <<clockVars, runVars, buffer>>

\* The lower layer refuses: the packet leaves the queue, the peer state stays.
SendRefused ==
    /\ Len(queue) < MaxPackets
    /\ Event
    /\ peer' = GetOrCreate
    /\ UNCHANGED <<clockVars, runVars, queue, buffer>>

\* A route slower than the freq_hz given to xgl_run is not read every time.
ShouldRead(throttled) ==
    \/ ~throttled
    \/ route_last_read_ms = 0
    \/ Elapsed(xgl_time_ms, route_last_read_ms) >= PollInterval

xgl_run(throttled) ==
    /\ ~running
    /\ running' = TRUE
    /\ run_time' = xgl_time_ms /\ run_at' = now
    /\ reading' = ShouldRead(throttled)
    /\ route_last_read_ms' = IF ShouldRead(throttled) THEN xgl_time_ms ELSE route_last_read_ms
    /\ UNCHANGED <<clockVars, queue, peer, buffer, events>>

Receiving == running /\ reading /\ Event /\ UNCHANGED <<clockVars, runVars>>

\* A data packet; a fragment opens a reassembly buffer or completes it.
ReceiveData(fragment) ==
    /\ Receiving
    /\ peer' = Active(GetOrCreate)
    /\ buffer' = IF ~fragment THEN buffer
                 ELSE IF buffer.exists THEN NoBuffer
                 ELSE [exists |-> TRUE, first_fragment_time |-> xgl_time_ms, at |-> now]
    /\ UNCHANGED queue

ReceiveAck(i) ==
    /\ Receiving
    /\ queue' = Chosen(queue, DOMAIN queue \ {i})
    /\ peer' = WithDeadline(peer, queue')
    /\ UNCHANGED buffer

\* A SACK whose bitmap spans the packets at the positions walked: the ones it
\* names leave the queue, the holes are sent again.  Packets it names may be gone
\* already, then it has holes only, or nothing to do.  From position stop on
\* nothing is done: the lower layer refused there, and the deadline is not
\* computed again.
ReceiveSack(walked, received, stop) ==
    LET holes == walked \ received
    IN  /\ Receiving
        /\ peer.exists
        /\ stop = Len(queue) + 1 \/ stop \in holes
        /\ queue' = Chosen([i \in DOMAIN queue |->
                               IF i \in holes /\ i < stop
                               THEN Resent(queue[i], xgl_time_ms, now) ELSE queue[i]],
                           {i \in DOMAIN queue : i \notin received \/ i >= stop})
        /\ peer' = IF stop = Len(queue) + 1 THEN WithDeadline(peer, queue') ELSE peer
        /\ UNCHANGED buffer

\* A SACK without a bit set asks for its base packet only.
ReceiveEmptySack(i) ==
    /\ Receiving
    /\ queue' = [queue EXCEPT ![i] = Resent(@, xgl_time_ms, now)]
    /\ UNCHANGED <<peer, buffer>>

\* HELLO of another session: queue and reassembly are cleared, the deadline
\* is not computed again.
ReceiveHello ==
    /\ Receiving
    /\ queue' = <<>>
    /\ peer' = Active(GetOrCreate)
    /\ buffer' = NoBuffer

\* Mutant of Expired: the limit itself does not count.
ExpiredLate(stamp, timeout) == stamp # 0 /\ Elapsed(run_time, stamp) > timeout

Expired(stamp, timeout) == stamp # 0 /\ Elapsed(run_time, stamp) >= timeout

Due(p) == Expired(p.send_timestamp, p.timeout_ms)

\* transport_process_retransmissions: what is left of the queue when the lower
\* layer refuses the packets of the set.
AfterRetransmissions(refused) ==
    LET gone == {i \in DOMAIN queue : Due(queue[i]) /\ queue[i].retry_count >= MaxRetry}
    IN  Chosen([i \in DOMAIN queue |->
                   IF Due(queue[i]) /\ i \notin refused
                   THEN Resent(queue[i], run_time, run_at) ELSE queue[i]],
               DOMAIN queue \ gone)

\* xgl_fragment_process_timeouts
BufferTimedOut == buffer.exists /\ Expired(buffer.first_fragment_time, FragmentTimeout)

\* Mutant of Reclaimed: packets in flight do not keep the peer.
ReclaimedPending(q) ==
    /\ peer.exists /\ IdleTimeout # 0
    /\ Elapsed(run_time, peer.last_active_ms) >= IdleTimeout

\* transport_reclaim_idle_peers; a peer that was never active has the stamp 0.
Reclaimed(q) ==
    /\ peer.exists /\ IdleTimeout # 0
    /\ q = <<>>
    /\ Elapsed(run_time, peer.last_active_ms) >= IdleTimeout

\* xgl_transport_run and the end of xgl_run.
xgl_transport_run(refused) ==
    /\ running
    /\ running' = FALSE /\ reading' = FALSE
    /\ run_time' = 0 /\ run_at' = 0
    /\ queue' = AfterRetransmissions(refused)
    /\ buffer' = IF BufferTimedOut THEN NoBuffer ELSE buffer
    /\ peer' = IF Reclaimed(queue') THEN NoPeer
               ELSE IF peer.exists THEN WithDeadline(peer, queue') ELSE peer
    /\ UNCHANGED <<clockVars, route_last_read_ms, events>>

Next ==
    \/ Tick
    \/ \E given \in SendTimeouts : Send(given)
    \/ SendRefused
    \/ \E throttled \in BOOLEAN : xgl_run(throttled)
    \/ \E fragment \in BOOLEAN : ReceiveData(fragment)
    \/ \E i \in DOMAIN queue : ReceiveAck(i)
    \/ \E first \in DOMAIN queue \cup {1}, last \in DOMAIN queue \cup {0} :
          \E received \in SUBSET (first..last), stop \in 1..(Len(queue) + 1) :
             ReceiveSack(first..last, received, stop)
    \/ \E i \in DOMAIN queue : ReceiveEmptySack(i)
    \/ ReceiveHello
    \/ \E refused \in SUBSET DOMAIN queue : xgl_transport_run(refused)

Spec == Init /\ [][Next]_vars

-----------------------------------------------------------------------------
(***************************************************************************)
(* Properties                                                              *)
(***************************************************************************)
Reading == 0..(ClockSize - 1)

\* Stamps are clock readings of a moment that has passed; there are packets in
\* flight only for a peer that exists.
TypeOK ==
    /\ running \in BOOLEAN /\ reading \in BOOLEAN
    /\ run_time \in Reading /\ route_last_read_ms \in Reading
    /\ queue \in Seq([send_timestamp : Reading, timeout_ms : Nat \ {0},
                      initial_timeout_ms : Nat \ {0},
                      retry_count : Nat, at : 0..now])
    /\ queue # <<>> => peer.exists
    /\ peer.exists => peer.last_active_ms \in Reading /\ peer.earliest_deadline_ms \in Reading
    /\ buffer.exists => buffer.first_fragment_time \in Reading /\ buffer.at \in 0..now

Remaining(at, timeout) == IF now - at >= timeout THEN 0 ELSE timeout - (now - at)

\* 0 is a clock reading as well as the mark of "none".
ReadsZero(p) == p.send_timestamp = 0 \/ AbsoluteDeadline(p) = 0

\* A main loop that sleeps for xgl_next_deadline_ms does not sleep through a
\* retransmission, a retry limit or a reassembly timeout, also when the clock
\* wraps, packets were sent again by SACK and a HELLO cleared the queue -
\* unless the clock read 0 when a packet was sent, falls due or a fragment
\* came in.
DeadlineCovers ==
    ~running =>
        /\ (\A i \in DOMAIN queue : ~ReadsZero(queue[i])) =>
               \A i \in DOMAIN queue :
                   xgl_next_deadline_ms <= Remaining(queue[i].at, queue[i].timeout_ms)
        /\ buffer.exists /\ buffer.first_fragment_time # 0 =>
               xgl_next_deadline_ms <= Remaining(buffer.at, FragmentTimeout)

\* What the end of xgl_run found expired, and real time says is not.
EarlyPackets ==
    {i \in DOMAIN queue : Due(queue[i]) /\ now - queue[i].at < queue[i].timeout_ms}
EarlyBuffer == BufferTimedOut /\ now - buffer.at < FragmentTimeout
EarlyPeer == /\ Reclaimed(AfterRetransmissions({}))
             /\ now - peer.active_at < IdleTimeout

\* At the end of xgl_run a packet is retransmitted or given up, a reassembly
\* buffer freed and a peer reclaimed when its time has come: not missed by a run
\* that starts after the timeout, also across the wrap of the clock, and not
\* early - except what was stamped after xgl_run had read the clock: that
\* reading lies before the stamp and the unsigned difference wraps.
ExpiryOnTime ==
    running =>
        /\ \A i \in EarlyPackets : queue[i].at > run_at
        /\ EarlyBuffer => buffer.at > run_at
        /\ EarlyPeer => peer.active_at > run_at
        /\ \A i \in DOMAIN queue :
               /\ queue[i].send_timestamp # 0
               /\ run_at - queue[i].at >= queue[i].timeout_ms
               => Due(queue[i])
        /\ /\ buffer.exists /\ buffer.first_fragment_time # 0
           /\ run_at - buffer.at >= FragmentTimeout
           => BufferTimedOut

\* The statement without the exception, as the documentation has it:
\* xgl_fragment_process_timeouts frees a reassembly buffer when it is stale, that
\* is when reassembly_timeout_ms has passed since its first fragment.
BufferLivesItsTimeout == running => ~EarlyBuffer

SampleSequences == {<<a, b, c>> : a, b, c \in RttSamples \union {-1}}
NonNegative(x) == IF x < 0 THEN 0 ELSE x

\* The estimate stays between the smallest and the largest sample, the RTO
\* within its limits, and the backoff is the doubled timeout up to the cap,
\* never less than before while the first timeout is below the cap.
EstimatorSound ==
    now = 0 /\ queue = <<>> =>
        /\ \A s \in SampleSequences :
               LET est == FoldLeft(xgl_rtt_update, xgl_rtt_init, s)
                   samples == {NonNegative(s[i]) : i \in 1..3}
               IN  /\ \E m \in samples : m <= est.srtt
                   /\ \E m \in samples : est.srtt <= m
                   /\ est.rttvar >= 0
                   /\ est.rto \in MinRto..MaxRto
        /\ \A initial \in 1..BackoffCap, n \in 0..12 :
               /\ xgl_reliable_calc_backoff(initial, n)
                      = Lesser(initial * 2^Lesser(n, 10), BackoffCap)
               /\ xgl_reliable_calc_backoff(initial, n)
                      <= xgl_reliable_calc_backoff(initial, n + 1)
=============================================================================
