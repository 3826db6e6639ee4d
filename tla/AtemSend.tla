------------------------------ MODULE AtemSend ------------------------------
(***************************************************************************)
(* The send path of UdpProtocol inside one session: how a packet gets its  *)
(* number, what is kept of it, and what is sent again, when the switcher   *)
(* asks (a packet it finds missing when a later one arrives) or when it    *)
(* has acknowledged nothing for RESEND_AFTER.  It is the twin of           *)
(* AtemReceive and promises the switcher the same: OrderedDelivery, with   *)
(* the client as the sender.  All of it runs on the UDP thread.            *)
(***************************************************************************)
EXTENDS Integers, Sequences, FiniteSets, FiniteSetsExt

CONSTANTS SeqSpace,   \* numbers there are (0x8000)
          Window,     \* RETRANSMIT_WINDOW, how far back the buffer reaches
          Burst,      \* RETRANSMIT_MAX_BURST, packets of one volley
          Ahead,      \* packets the callers send beyond what the switcher has
          MaxAge,     \* the network delivers nothing older than this many packets
          Total       \* packets of the run

ASSUME SendSizes ==
    /\ {SeqSpace, Window, Burst, Ahead, MaxAge, Total} \subseteq Nat \ {0}
    /\ 2 * Window <= SeqSpace

\* What the numbers ask of the sizes: the callers and the network stay within one round
\* of the numbers, and within what the buffer holds.
NumbersFit == Ahead <= SeqSpace /\ MaxAge < SeqSpace
BufferFits == Ahead <= Window

VARIABLES sent,          \* packets numbered; local_sequence_number is NumOf(sent)
          buffer,        \* retransmission_buffer: number -> packet
          ackedThrough,  \* _acked_through, a number or None
          resendDue,     \* is the resend timer running?
          net,           \* packets on the wire
          acks, asks,    \* the switcher's ACKs and requests on the wire
          taken          \* what the switcher took, in its order

wVars == <<sent, buffer, ackedThrough, resendDue, net, acks, asks, taken>>

Seqs == 0 .. SeqSpace - 1
NoNumber == -1
NumOf(i) == i % SeqSpace
Plus(n, k) == (n + k) % SeqSpace
Behind(n) == (NumOf(sent) - n) % SeqSpace     \* how far n is behind the latest

Packet(i) == [num |-> NumOf(i), no |-> i]

-----------------------------------------------------------------------------
(* Keeping and sending again. *)

\* Mutant: the entry that falls out of the window is looked for one off.
KeptOneOff(i) ==
    [n \in (DOMAIN buffer \cup {NumOf(i)}) \ {(NumOf(i) - Window - 1) % SeqSpace} |->
        IF n = NumOf(i) THEN i ELSE buffer[n]]

\* The new packet enters the buffer, the one a window back leaves it.
Kept(i) ==
    [n \in (DOMAIN buffer \cup {NumOf(i)}) \ {(NumOf(i) - Window) % SeqSpace} |->
        IF n = NumOf(i) THEN i ELSE buffer[n]]

\* Mutant: what is sent again goes as a new packet does, under the next number.
VolleyRenumbered(from) ==
    IF Behind(from) >= Window THEN {}
    ELSE {[num |-> NumOf(sent + 1), no |-> buffer[n]] : n \in {from} \cap DOMAIN buffer}

\* _retransmit_from: what is buffered from that number on, one volley of it,
\* nothing if the number is outside the window.
Volley(from) ==
    IF Behind(from) >= Window THEN {}
    ELSE LET numbers == {Plus(from, k) : k \in 0 .. Min({Behind(from), Burst - 1})}
         IN {[num |-> n, no |-> buffer[n]] : n \in numbers \cap DOMAIN buffer}

\* The volley goes out, or stops where the socket refuses a packet.
ResendFrom(from) ==
    \E cut \in 0 .. Burst :
        net' = net \cup {q \in Volley(from) : (q.num - from) % SeqSpace < cut}

-----------------------------------------------------------------------------
(* The UDP thread. *)

Young(i) == i + MaxAge > sent'

\* _send_packet_low on a reliable packet: whether the socket takes it or refuses
\* it for the moment, it has its number and its place in the buffer.
SendReliable ==
    /\ sent < Total /\ sent < Len(taken) + Ahead
    /\ sent' = sent + 1
    /\ buffer' = Kept(sent + 1)
    /\ resendDue' = TRUE
    /\ LET young == {q \in net : Young(q.no)} IN
       \/ net' = young \cup {Packet(sent + 1)}
       \/ net' = young
    /\ acks' = {a \in acks : \E i \in 0 .. sent : Young(i) /\ NumOf(i) = a}
    /\ asks' = {a \in asks : \E i \in 0 .. sent : Young(i) /\ NumOf(i) = a}
    /\ UNCHANGED <<ackedThrough, taken>>

\* Mutant: an ACK stops the timer, whatever is still unacknowledged.
HearAckStops(a) ==
    /\ a \in acks /\ acks' = acks \ {a}
    /\ ackedThrough' = a /\ resendDue' = (resendDue /\ a = ackedThrough)
    /\ UNCHANGED <<sent, buffer, net, asks, taken>>

\* _on_ack: the timer starts again while something is unacknowledged.
HearAck(a) ==
    /\ a \in acks /\ acks' = acks \ {a}
    /\ ackedThrough' = a
    /\ resendDue' = IF a = ackedThrough THEN resendDue ELSE Behind(a) \in 1 .. Window - 1
    /\ UNCHANGED <<sent, buffer, net, asks, taken>>

\* A request for retransmission, from the first packet the switcher misses.
HearAsk(a) ==
    /\ a \in asks /\ asks' = asks \ {a}
    /\ ResendFrom(a)
    /\ UNCHANGED <<sent, buffer, ackedThrough, resendDue, acks, taken>>

\* RESEND_AFTER has passed: from the first unacknowledged packet, and the timer
\* runs again; before the switcher's first ACK it only stops.
ResendTimer ==
    /\ resendDue
    /\ IF ackedThrough # NoNumber /\ Behind(ackedThrough) \in 1 .. Window - 1
       THEN ResendFrom(Plus(ackedThrough, 1)) /\ UNCHANGED resendDue
       ELSE resendDue' = FALSE /\ UNCHANGED net
    /\ UNCHANGED <<sent, buffer, ackedThrough, acks, asks, taken>>

-----------------------------------------------------------------------------
(* External: the switcher and the network. *)

Wanted == NumOf(Len(taken) + 1)

\* The packet wanted next is taken, one ahead of it is asked for again, one it
\* has is ignored.
SwitcherHears(q) ==
    /\ q \in net
    /\ \E gone \in {{q}, {}} : net' = net \ gone          \* or a copy of it
    /\ IF q.num = Wanted
       THEN taken' = Append(taken, q.no) /\ UNCHANGED asks
       ELSE /\ asks' = IF (q.num - Wanted) % SeqSpace < SeqSpace \div 2
                       THEN asks \cup {Wanted} ELSE asks
            /\ UNCHANGED taken
    /\ UNCHANGED <<sent, buffer, ackedThrough, resendDue, acks>>

\* Everything the switcher sends carries its acknowledgement.
SwitcherAcks ==
    /\ acks' = acks \cup {NumOf(Len(taken))}
    /\ UNCHANGED <<sent, buffer, ackedThrough, resendDue, net, asks, taken>>

Loses ==
    \/ \E q \in net : net' = net \ {q} /\ UNCHANGED <<acks, asks>>
    \/ \E a \in acks : acks' = acks \ {a} /\ UNCHANGED <<net, asks>>
    \/ \E a \in asks : asks' = asks \ {a} /\ UNCHANGED <<net, acks>>

Lose == Loses /\ UNCHANGED <<sent, buffer, ackedThrough, resendDue, taken>>

-----------------------------------------------------------------------------

SendInit ==
    /\ sent = 0 /\ buffer = <<>> /\ ackedThrough = NoNumber /\ resendDue = FALSE
    /\ net = {} /\ acks = {} /\ asks = {} /\ taken = <<>>

SendNext ==
    \/ SendReliable \/ ResendTimer \/ SwitcherAcks \/ Lose
    \/ \E a \in acks : HearAck(a)
    \/ \E a \in asks : HearAsk(a)
    \/ \E q \in net : SwitcherHears(q)

SendSpec == SendInit /\ [][SendNext]_wVars

\* The timer and the switcher's pings come; the network does not lose every copy.
SendFairness ==
    /\ WF_wVars(ResendTimer) /\ WF_wVars(SwitcherAcks)
    /\ SF_wVars(HearAck(NumOf(Len(taken))))
    /\ SF_wVars(SwitcherHears(Packet(Len(taken) + 1)))

FairSendSpec == SendSpec /\ SendFairness

-----------------------------------------------------------------------------
(* Properties. *)

\* What the switcher may still ask for is held under its own number, and no more
\* than a window is held: an entry that leaves too early can never be served, one
\* that stays is met by a number of the next round (both bite at the wrap).
StillHeld ==
    /\ Cardinality(DOMAIN buffer) <= Window
    /\ \A n \in DOMAIN buffer : NumOf(buffer[n]) = n
    /\ \A i \in Len(taken) + 1 .. sent : NumOf(i) \in DOMAIN buffer /\ buffer[NumOf(i)] = i

\* The switcher takes every packet once and in the order they were queued: no
\* resend of the timer's or of a request's, doubled or late, is taken for another.
InOrder == taken = [i \in 1 .. Len(taken) |-> i]

\* To the switcher, the client is the sender of an ordered channel (what the client is to
\* it is AtemReceive's); what it acknowledges is not looked at.
Channel == INSTANCE OrderedDelivery WITH delivered <- taken, acked <- 0

\* A step of the switcher takes the packets it is owed next, each once, or none.
SendsInOrder == Channel!Spec

\* A lost packet is not left behind, the last one before a pause included, for
\* which no later packet makes the switcher ask (RESEND_AFTER).
EverythingTaken == []<>(Len(taken) = sent)
=============================================================================
