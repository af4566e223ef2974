--------------------------- MODULE OrderedChannel ---------------------------
(***************************************************************************)
(* What a reliable peer scope of the XGL transport promises its two        *)
(* applications, without windows, packet numbers on the wire,              *)
(* acknowledgements or retransmissions.  The packets are numbered from 0   *)
(* in the order in which they were accepted.                               *)
(***************************************************************************)
EXTENDS Integers, Sequences

CONSTANT Payload

VARIABLES
    accepted,   \* payloads the sending application handed over, in order
    delivered,  \* payloads the receiving application was given, in order
    held,       \* packets the receiver keeps until the ones before them arrive
    confirmed,  \* packets the sender stopped keeping a copy of
    failed      \* packets the sending application was told have failed

channelVars == <<accepted, delivered, held, confirmed, failed>>

Accepted == 0..(Len(accepted) - 1)
Delivered == 0..(Len(delivered) - 1)

Init ==
    /\ accepted = <<>>
    /\ delivered = <<>>
    /\ held = {}
    /\ confirmed = {}
    /\ failed = {}

Accept(data) ==
    /\ accepted' = Append(accepted, data)
    /\ UNCHANGED <<delivered, held, confirmed, failed>>

\* The receiver takes a packet that is not the next one to deliver.
Hold(pn) ==
    /\ pn \in Accepted
    /\ pn > Len(delivered)
    /\ held' = held \cup {pn}
    /\ UNCHANGED <<accepted, delivered, confirmed, failed>>

\* The next packet arrives; it is delivered together with the held packets that
\* follow it without a gap.
Deliver(upTo) ==
    /\ upTo \in Accepted
    /\ upTo >= Len(delivered)
    /\ \A pn \in (Len(delivered) + 1)..upTo : pn \in held
    /\ upTo + 1 \notin held
    /\ delivered' = SubSeq(accepted, 1, upTo + 1)
    /\ held' = {pn \in held : pn > upTo}
    /\ UNCHANGED <<accepted, confirmed, failed>>

\* The sender lets go of packets the receiver has.
Confirm(pns) ==
    /\ pns \subseteq (Delivered \cup held) \ (confirmed \cup failed)
    /\ confirmed' = confirmed \cup pns
    /\ UNCHANGED <<accepted, delivered, held, failed>>

\* The sender gives up on packets and says so.
Fail(pns) ==
    /\ pns \subseteq Accepted \ (confirmed \cup failed)
    /\ failed' = failed \cup pns
    /\ UNCHANGED <<accepted, delivered, held, confirmed>>

Next ==
    \/ \E data \in Payload : Accept(data)
    \/ \E pn \in Accepted : Hold(pn) \/ Deliver(pn)
    \/ \E pns \in SUBSET Accepted : Confirm(pns) \/ Fail(pns)

Spec == Init /\ [][Next]_channelVars
=============================================================================
