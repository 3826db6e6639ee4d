---------------------------- MODULE AtemReceive ----------------------------
(***************************************************************************)
(* The receive half of atemwire's UDP transport (transport.py): what one   *)
(* established session does with the reliable packets of the switcher.     *)
(* _receive_packet_low remembers the sequence numbers it saw, walks the    *)
(* cumulative ACK number over them (_update_ack_number), and hands packets *)
(* to thread_recv_queue in sequence order, parking the ones that arrive    *)
(* ahead of a gap.  ACKs are owed per packet and sent per burst.           *)
(*                                                                         *)
(* Packets are numbered 1, 2, 3, ... by the switcher; the wire carries     *)
(* NumOf(i) only.  The field `no' of a packet and of a remembered number   *)
(* is its identity: the client's decisions never read it.                  *)
(***************************************************************************)
EXTENDS Integers, Sequences, SequencesExt

CONSTANTS
    SeqSpace,      \* size of the sequence space: 0x8000
    Half,          \* half of it: 0x4000
    First,         \* the sequence number before the switcher's first packet
    ParkWindow,    \* DELIVERY_PARK_WINDOW
    SeenMax,       \* received_packets = _SeenWindow(1024)
    AckEvery,      \* ACK_EVERY
    ControlSeqs,   \* sequence numbers on the switcher's unreliable frames
    SendWindow,    \* external: unacknowledged packets the switcher keeps
    MaxAge,        \* external: newer packets a datagram can be overtaken by
    Total          \* bound: reliable packets the switcher sends in all

ASSUME SizesAssumption ==
    /\ Half \in Nat \ {0} /\ SeqSpace = 2 * Half
    /\ First \in 0..SeqSpace-1 /\ ControlSeqs \subseteq 0..SeqSpace-1
    /\ ParkWindow \in 1..Half-1 /\ SeenMax \in Nat \ {0} /\ AckEvery \in Nat \ {0}
    /\ SendWindow \in Nat \ {0} /\ MaxAge \in Nat \ {0} /\ Total \in Nat \ {0}

VARIABLES
    \* the switcher and the wire (external)
    sent,             \* reliable packets sent so far: 1..sent
    acked,            \* the switcher knows the client has 1..acked
    net,              \* datagrams on their way to the client
    acks,             \* ACK numbers on their way to the switcher
    \* UdpProtocol
    receivedPackets,  \* the seen window, oldest first
    rxEstablished, ackNumber,
    deliverNext,      \* the delivery cursor; meaningful once rxEstablished
    parked,           \* sequence number -> packet held ahead of a gap
    enableAck, acksOwed,
    delivered         \* all that was put on thread_recv_queue, in order

wire   == <<sent, acked, net, acks>>
client == <<receivedPackets, rxEstablished, ackNumber, deliverNext, parked,
            enableAck, acksOwed, delivered>>
vars   == <<wire, client>>

Seqs      == 0..SeqSpace-1
NumOf(i)  == (First + i) % SeqSpace
Plus(s, n) == (s + n) % SeqSpace
\* (seq - cursor) & 0x7FFF
Dist(s, t) == (s - t) % SeqSpace

Packets == [no : 1..Total, resent : BOOLEAN]
Heard   == [seq : Seqs, no : 0..Total]

---------------------------------------------------------------------------
(* _SeenWindow *)

Seen(window, s) == \E p \in 1..Len(window) : window[p].seq = s

\* Mutant: the window never forgets.
RememberForEver(window, entry) == Append(window, entry)

\* append: a number seen again moves to the young end; the oldest falls out.
Remember(window, entry) ==
    LET old  == {p \in 1..Len(window) : window[p].seq = entry.seq}
        kept == IF old = {} THEN window ELSE RemoveAt(window, CHOOSE p \in old : TRUE)
        all  == Append(kept, entry)
    IN  IF Len(all) > SeenMax THEN Tail(all) ELSE all

\* Mutant: the ACK mirrors the latest number received, gap or not.
MirrorAck(window) == ackNumber' = window[Len(window)].seq

\* The while loop of _update_ack_number: as far as the numbers seen go.
WalkAck(window) ==
    \E n \in 0..SeqSpace-1 :
        /\ \A k \in 1..n : Seen(window, Plus(ackNumber, k))
        /\ ~Seen(window, Plus(ackNumber, n + 1))
        /\ ackNumber' = Plus(ackNumber, n)

---------------------------------------------------------------------------
(* The in-order gate at the end of _receive_packet_low *)

\* Mutant: the gap fills, the parked successors are forgotten.
DeliverWithoutDrain(seq, no) ==
    /\ Dist(seq, deliverNext) = 0
    /\ delivered' = Append(delivered, no)
    /\ deliverNext' = Plus(seq, 1)
    /\ UNCHANGED parked

\* Mutant: the parked successors are handed on, and kept.
DeliverKeepingParked(seq, no) ==
    /\ Dist(seq, deliverNext) = 0
    /\ \E n \in 0..SeqSpace-1 :
          /\ \A k \in 1..n : Plus(seq, k) \in DOMAIN parked
          /\ Plus(seq, n + 1) \notin DOMAIN parked
          /\ delivered' = delivered \o
                [k \in 1..n+1 |-> IF k = 1 THEN no ELSE parked[Plus(seq, k - 1)]]
          /\ deliverNext' = Plus(seq, n + 1)
          /\ UNCHANGED parked

\* The packet owed next: hand it on, and every parked successor with it.
DeliverRun(seq, no) ==
    /\ Dist(seq, deliverNext) = 0
    /\ \E n \in 0..SeqSpace-1 :
          /\ \A k \in 1..n : Plus(seq, k) \in DOMAIN parked
          /\ Plus(seq, n + 1) \notin DOMAIN parked
          /\ delivered' = delivered \o
                [k \in 1..n+1 |-> IF k = 1 THEN no ELSE parked[Plus(seq, k - 1)]]
          /\ parked' = [s \in DOMAIN parked \ {Plus(seq, k) : k \in 1..n} |-> parked[s]]
          /\ deliverNext' = Plus(seq, n + 1)

\* Behind the cursor: delivered before, or older than the baseline.
DropBehind(seq) ==
    /\ Dist(seq, deliverNext) > Half
    /\ UNCHANGED <<delivered, parked, deliverNext>>

\* Mutant: delivery in arrival order.
DeliverAheadOfGap(seq, no) ==
    /\ Dist(seq, deliverNext) \in 1..ParkWindow
    /\ delivered' = Append(delivered, no)
    /\ deliverNext' = Plus(seq, 1)
    /\ UNCHANGED parked

\* Ahead of a gap.
Park(seq, no) ==
    /\ Dist(seq, deliverNext) \in 1..ParkWindow
    /\ parked' = [s \in DOMAIN parked \cup {seq} |-> IF s = seq THEN no ELSE parked[s]]
    /\ UNCHANGED <<delivered, deliverNext>>

\* Mutant: the cursor stays on the packet just handed on.
ResyncToSelf(seq, no) ==
    /\ Dist(seq, deliverNext) \in ParkWindow+1..Half
    /\ delivered' = Append(delivered, no)
    /\ parked' = <<>>
    /\ deliverNext' = seq

\* Too far ahead: give up on the gap.
Resync(seq, no) ==
    /\ Dist(seq, deliverNext) \in ParkWindow+1..Half
    /\ delivered' = Append(delivered, no)
    /\ parked' = <<>>
    /\ deliverNext' = Plus(seq, 1)

---------------------------------------------------------------------------
(* One datagram read by the UDP thread *)

\* A resend of something remembered: only its ACK is said again.
ReAck(p) ==
    /\ p.resent /\ Seen(receivedPackets, NumOf(p.no))
    /\ UNCHANGED <<receivedPackets, rxEstablished, ackNumber, deliverNext, parked, delivered>>

\* Mutant: the baseline acknowledges the packet after the one that arrived.
BaselineAhead(p) ==
    /\ ~(p.resent /\ Seen(receivedPackets, NumOf(p.no)))
    /\ ~rxEstablished
    /\ receivedPackets' = Remember(receivedPackets, [seq |-> NumOf(p.no), no |-> p.no])
    /\ rxEstablished' = TRUE
    /\ ackNumber' = Plus(NumOf(p.no), 1)
    /\ deliverNext' = Plus(NumOf(p.no), 1)
    /\ delivered' = Append(delivered, p.no)
    /\ UNCHANGED parked

\* The first reliable packet to arrive sets the ACK baseline and the cursor.
Baseline(p) ==
    /\ ~(p.resent /\ Seen(receivedPackets, NumOf(p.no)))
    /\ ~rxEstablished
    /\ receivedPackets' = Remember(receivedPackets, [seq |-> NumOf(p.no), no |-> p.no])
    /\ rxEstablished' = TRUE
    /\ ackNumber' = NumOf(p.no)
    /\ deliverNext' = Plus(NumOf(p.no), 1)
    /\ delivered' = Append(delivered, p.no)
    /\ UNCHANGED parked

InSession(p) ==
    /\ ~(p.resent /\ Seen(receivedPackets, NumOf(p.no)))
    /\ rxEstablished
    /\ receivedPackets' = Remember(receivedPackets, [seq |-> NumOf(p.no), no |-> p.no])
    /\ WalkAck(receivedPackets')
    /\ \/ DeliverRun(NumOf(p.no), p.no)
       \/ DropBehind(NumOf(p.no))
       \/ Park(NumOf(p.no), p.no)
       \/ Resync(NumOf(p.no), p.no)
    /\ UNCHANGED rxEstablished

\* _ack_owed, and _drain_socket's flush once ACK_EVERY are owed.
OweAck ==
    IF acksOwed + 1 < AckEvery
    THEN acksOwed' = acksOwed + 1 /\ UNCHANGED acks
    ELSE acksOwed' = 0 /\ acks' = acks \cup {ackNumber'}

\* Mutant: a resend of something remembered is dropped without a word.
ReadSilentOnResend(p) ==
    /\ \/ ReAck(p) /\ UNCHANGED <<acksOwed, acks>>
       \/ (Baseline(p) \/ InSession(p)) /\ OweAck
    /\ enableAck' = TRUE

\* _receive_packet_low on a reliable packet; every path of it owes an ACK.
Read(p) ==
    /\ ReAck(p) \/ Baseline(p) \/ InSession(p)
    /\ enableAck' = TRUE
    /\ OweAck

Receive(p) == p \in net /\ net' = net \ {p} /\ Read(p) /\ UNCHANGED <<sent, acked>>

\* The network delivers a second copy.
ReceiveCopy(p) == p \in net /\ Read(p) /\ UNCHANGED <<sent, acked, net>>

\* _receive_packet_low on an unreliable frame without data (an ACK of ours, the
\* end of the dump): it passes the gate, its sequence number is remembered.
ReceiveControl(s) ==
    /\ receivedPackets' = Remember(receivedPackets, [seq |-> s, no |-> 0])
    /\ IF rxEstablished THEN WalkAck(receivedPackets') ELSE ackNumber' = s
    /\ enableAck' = TRUE
    /\ IF enableAck THEN UNCHANGED <<acksOwed, acks>> ELSE OweAck
    /\ UNCHANGED <<sent, acked, net, rxEstablished, deliverNext, parked, delivered>>

\* _flush_ack at the end of a drain.
FlushAck ==
    /\ acksOwed > 0
    /\ acksOwed' = 0
    /\ acks' = acks \cup {ackNumber}
    /\ UNCHANGED <<sent, acked, net, receivedPackets, rxEstablished, ackNumber,
                   deliverNext, parked, enableAck, delivered>>

---------------------------------------------------------------------------
(* External: the switcher, and a network that loses, reorders, duplicates *)
(* and delays, but not past MaxAge newer packets.                          *)

Young(i) == i + MaxAge > sent'

SwitcherSend ==
    /\ sent < Total /\ sent < acked + SendWindow
    /\ sent' = sent + 1
    /\ net' = {p \in net : Young(p.no)} \cup {[no |-> sent + 1, resent |-> FALSE]}
    /\ acks' = {a \in acks : \E i \in 0..sent+1 : Young(i) /\ NumOf(i) = a}
    /\ UNCHANGED <<acked, client>>

\* Every ~80 ms: all that is not acknowledged, again.
SwitcherResend ==
    /\ acked < sent
    /\ net' = net \cup {[no |-> i, resent |-> TRUE] : i \in acked+1..sent}
    /\ UNCHANGED <<sent, acked, acks, client>>

\* A cumulative ACK; one that acknowledges nothing new is ignored.
SwitcherHearsAck(a) ==
    /\ a \in acks
    /\ acks' = acks \ {a}
    /\ acked' = IF \E i \in acked+1..sent : NumOf(i) = a
                THEN CHOOSE i \in acked+1..sent : NumOf(i) = a
                ELSE acked
    /\ UNCHANGED <<sent, net, client>>

LosePacket(p) == p \in net /\ net' = net \ {p} /\ UNCHANGED <<sent, acked, acks, client>>
LoseAck(a) == a \in acks /\ acks' = acks \ {a} /\ UNCHANGED <<sent, acked, net, client>>

---------------------------------------------------------------------------
Init ==
    /\ sent = 0 /\ acked = 0 /\ net = {} /\ acks = {}
    /\ receivedPackets = <<>> /\ rxEstablished = FALSE
    /\ ackNumber = 0 /\ deliverNext = 0 /\ parked = <<>>
    /\ enableAck = FALSE /\ acksOwed = 0 /\ delivered = <<>>

Next ==
    \/ \E p \in net : Receive(p) \/ ReceiveCopy(p) \/ LosePacket(p)
    \/ \E s \in ControlSeqs : ReceiveControl(s)
    \/ FlushAck
    \/ SwitcherSend
    \/ SwitcherResend
    \/ \E a \in acks : SwitcherHearsAck(a) \/ LoseAck(a)

Spec == Init /\ [][Next]_vars

\* The UDP thread flushes what it owes; the switcher goes on resending; the
\* network does not lose every resend of a packet, nor every copy of an ACK.
Fairness ==
    /\ WF_vars(FlushAck) /\ WF_vars(SwitcherResend)
    /\ \A i \in 1..Total : SF_vars(Receive([no |-> i, resent |-> TRUE]))
    /\ \A a \in Seqs : SF_vars(SwitcherHearsAck(a))

FairSpec == Spec /\ Fairness
---------------------------------------------------------------------------
(* The sizes at which the receive path keeps its promises. *)

\* Nothing on the wire is older than half the sequence space, the switcher's window
\* included; the remembered numbers are too few to reach around the space; an
\* unreliable frame carries no number a reliable packet has.
NumbersFit ==
    /\ SendWindow <= MaxAge /\ MaxAge < Half
    /\ SendWindow + MaxAge + SeenMax <= SeqSpace
    /\ \A i \in 1..Total+1 : NumOf(i) \notin ControlSeqs

\* ... and the switcher does not run past the park window.
WindowsFit == NumbersFit /\ SendWindow <= ParkWindow + 1

---------------------------------------------------------------------------
(* Properties *)

\* The packet the consumer is owed next.
Owed == Last(delivered) + 1

\* Type invariant: every variable of the receive path and of its surroundings
\* stays in its domain, the windows within their caps.
TypeOK ==
    /\ sent \in 0..Total /\ acked \in 0..sent
    /\ net \subseteq Packets /\ acks \subseteq Seqs
    /\ receivedPackets \in Seq(Heard) /\ Len(receivedPackets) <= SeenMax
    /\ rxEstablished \in BOOLEAN /\ enableAck \in BOOLEAN
    /\ ackNumber \in Seqs /\ deliverNext \in Seqs
    /\ DOMAIN parked \subseteq Seqs /\ \A s \in DOMAIN parked : parked[s] \in 1..Total
    /\ acksOwed \in 0..AckEvery-1
    /\ delivered \in Seq(1..Total)

\* thread_recv_queue gets the packets in the switcher's order, each at most
\* once, whatever the network does, and also across a resync of the gate.
OnlyForward ==
    \A k \in 1..Len(delivered)-1 : delivered[k] < delivered[k+1]

\* ... and, while the switcher keeps to its window, without a hole: from the
\* first packet that arrived on, nothing is skipped (the gate never resyncs).
NoHole ==
    \A k \in 1..Len(delivered) : delivered[k] = delivered[1] + k - 1

\* What the switcher was told it may forget was handed to the consumer: every
\* packet from the baseline through the acknowledged one (_update_ack_number
\* and the gate advance over different sets and must agree).
AckedWasDelivered ==
    rxEstablished => \A i \in delivered[1]..acked : \E k \in 1..Len(delivered) : delivered[k] = i

\* A parked packet is held under its own number, strictly ahead of the cursor and
\* inside the park window: the drain cannot hand on a stale one after a wrap.
ParkedAhead ==
    \A s \in DOMAIN parked :
        /\ NumOf(parked[s]) = s /\ parked[s] > Owed
        /\ Dist(s, deliverNext) \in 1..ParkWindow

Channel == INSTANCE OrderedDelivery
    WITH Total <- Total, sent <- sent, delivered <- delivered, acked <- acked
\* The receive path implements in-order delivery, and the ACKs it sends let the
\* switcher forget only what was handed on.
ImplementsOrderedDelivery == Channel!Spec

\* The packet was lost or overtaken before the one that set the baseline came in: a resend
\* of it is dropped as a duplicate, and the ACK of the baseline lets the switcher forget it.
BeforeBaseline(i) == delivered # <<>> /\ i < Head(delivered)

\* Loss is repaired: from the baseline on, whatever the switcher sent is itself handed on
\* in the end, also when it had to wait behind a gap.
EverythingDelivered ==
    \A i \in 1..Total :
        (sent >= i) ~> (BeforeBaseline(i) \/ \E k \in 1..Len(delivered) : delivered[k] = i)

\* ... and the switcher hears of it, also when the ACK was lost and only resends of
\* packets already received still arrive (the re-ACK of a duplicate).
EverythingAcknowledged == \A i \in 1..Total : (sent >= i) ~> (acked >= i)
=============================================================================
