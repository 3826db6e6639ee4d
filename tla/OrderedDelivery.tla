--------------------------- MODULE OrderedDelivery ---------------------------
(***************************************************************************)
(* What the receive path promises its consumer and the switcher            *)
(* (transport.py, "In-order delivery" and "Contiguous-ACK" in              *)
(* UdpProtocol.__init__): from the first packet that arrives on, every     *)
(* packet is handed on once and in order, and the sender is told to forget *)
(* a packet only after it was handed on.                                   *)
(***************************************************************************)
EXTENDS Integers, Sequences

CONSTANT Total
VARIABLES sent, delivered, acked

vars == <<sent, delivered, acked>>

Init == sent = 0 /\ delivered = <<>> /\ acked = 0

Send == sent < Total /\ sent' = sent + 1 /\ UNCHANGED <<delivered, acked>>

\* The first packet to arrive, or the ones owed next.
Deliver ==
    /\ \/ delivered = <<>> /\ \E i \in 1..sent : delivered' = <<i>>
       \/ /\ delivered # <<>>
          /\ \E last \in delivered[Len(delivered)]+1..sent :
                delivered' = delivered \o
                    [k \in 1..last - delivered[Len(delivered)] |-> delivered[Len(delivered)] + k]
    /\ UNCHANGED <<sent, acked>>

Forget ==
    /\ delivered # <<>>
    /\ \E i \in acked+1..delivered[Len(delivered)] : acked' = i
    /\ UNCHANGED <<sent, delivered>>

Next == Send \/ Deliver \/ Forget
Spec == Init /\ [][Next]_vars
=============================================================================
