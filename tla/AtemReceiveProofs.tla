------------------------- MODULE AtemReceiveProofs -------------------------
(***************************************************************************)
(* Proofs about AtemReceive: type correctness and, for sizes that fit      *)
(* (WindowsFit), in-order delivery without a hole, the truth of the        *)
(* cumulative ACK, and that every step is one of OrderedDelivery.          *)
(***************************************************************************)
EXTENDS AtemReceive, FiniteSetTheorems, SequenceTheorems, TLAPS

---------------------------------------------------------------------------
(* Arithmetic of the sequence space *)

\* There is a number after the first.
LEMMA SpaceType == SeqSpace \in Nat /\ SeqSpace > 1 /\ First \in Nat
BY SizesAssumption

\* A number of the sequence space plus anything is again one.
LEMMA PlusType == ASSUME NEW s \in Int, NEW n \in Int PROVE Plus(s, n) \in Seqs
BY SpaceType, SMT DEF Plus, Seqs

\* The number of a packet is one of the sequence space.
LEMMA NumOfType == ASSUME NEW i \in Int PROVE NumOf(i) \in Seqs
BY SpaceType, SMT DEF NumOf, Seqs

\* Division with remainder by the size of the space,
LEMMA DivMod ==
    ASSUME NEW a \in Int
    PROVE  /\ a \div SeqSpace \in Int /\ a % SeqSpace \in 0..SeqSpace-1
           /\ a = SeqSpace * (a \div SeqSpace) + (a % SeqSpace)
BY SpaceType, SMT

\* whose remainder is the only one.
LEMMA RemainderUnique ==
    ASSUME NEW q \in Int, NEW r \in 0..SeqSpace-1, NEW u \in Int, NEW v \in 0..SeqSpace-1,
           SeqSpace * q + r = SeqSpace * u + v
    PROVE  r = v
BY SpaceType, Z3

\* So counting on from a packet's number gives the number of the packet counted on to.
LEMMA PlusNumOf ==
    ASSUME NEW i \in Int, NEW n \in Int
    PROVE  Plus(NumOf(i), n) = NumOf(i + n)
<1> DEFINE q == (First + i) \div SeqSpace
           r == NumOf(i)
           u == (r + n) \div SeqSpace
           x == (First + (i + n)) \div SeqSpace
<1>1. q \in Int /\ r \in 0..SeqSpace-1 /\ First + i = SeqSpace * q + r
  BY DivMod, SpaceType, First + i \in Int DEF NumOf
<1>2. u \in Int /\ Plus(r, n) \in 0..SeqSpace-1 /\ r + n = SeqSpace * u + Plus(r, n)
  BY DivMod, <1>1 DEF Plus
<1>3. /\ x \in Int /\ NumOf(i + n) \in 0..SeqSpace-1
      /\ First + (i + n) = SeqSpace * x + NumOf(i + n)
  BY DivMod, SpaceType, First + (i + n) \in Int DEF NumOf
<1> HIDE DEF q, r, u, x
<1>4. SeqSpace * (q + u) + Plus(r, n) = SeqSpace * x + NumOf(i + n)
  <2>1. SeqSpace * (q + u) = SeqSpace * q + SeqSpace * u
    BY <1>1, <1>2, SpaceType
  <2>2. /\ SeqSpace * q \in Int /\ SeqSpace * u \in Int
        /\ Plus(r, n) \in Int /\ r \in Int
    BY <1>1, <1>2, SpaceType
  <2>3. First + (i + n) = SeqSpace * q + (SeqSpace * u + Plus(r, n))
    <3>1. First + (i + n) = (First + i) + n
      BY SpaceType
    <3> QED BY <3>1, <2>2, <1>1, <1>2
  <2> QED BY <2>1, <2>2, <2>3, <1>3
<1>5. Plus(r, n) = NumOf(i + n)
  BY <1>1, <1>2, <1>3, <1>4, RemainderUnique
<1> QED BY <1>5 DEF r

\* The distance computed on the wire is the distance between the packets, while they are
\* less than a space apart.
LEMMA DistNumOf ==
    ASSUME NEW i \in Int, NEW j \in Int, i - j < SeqSpace, j - i < SeqSpace
    PROVE  Dist(NumOf(i), NumOf(j)) = IF i >= j THEN i - j ELSE i - j + SeqSpace
<1> DEFINE q == (First + i) \div SeqSpace
           u == (First + j) \div SeqSpace
           r == NumOf(i)
           v == NumOf(j)
           x == (r - v) \div SeqSpace
           d == Dist(r, v)
<1>1. q \in Int /\ r \in 0..SeqSpace-1 /\ First + i = SeqSpace * q + r
  BY DivMod, SpaceType, First + i \in Int DEF NumOf
<1>2. u \in Int /\ v \in 0..SeqSpace-1 /\ First + j = SeqSpace * u + v
  BY DivMod, SpaceType, First + j \in Int DEF NumOf
<1>3. x \in Int /\ d \in 0..SeqSpace-1 /\ r - v = SeqSpace * x + d
  BY DivMod, <1>1, <1>2 DEF Dist
<1> HIDE DEF q, u, r, v, x, d
<1>4. i - j = SeqSpace * (q - u + x) + d
  BY <1>1, <1>2, <1>3, SpaceType
<1>5. CASE i >= j
  <2>1. SeqSpace * (q - u + x) + d = SeqSpace * 0 + (i - j)
    BY <1>4, <1>5, SpaceType
  <2>2. i - j \in 0..SeqSpace-1 /\ q - u + x \in Int
    BY <1>1, <1>2, <1>3, <1>5, SpaceType
  <2>3. d = i - j
    BY <2>1, <2>2, <1>3, RemainderUnique
  <2> QED BY <2>3, <1>5 DEF d, r, v
<1>6. CASE ~(i >= j)
  <2>1. SeqSpace * (q - u + x) + d = SeqSpace * (-1) + (i - j + SeqSpace)
    BY <1>4, <1>6, SpaceType
  <2>2. i - j + SeqSpace \in 0..SeqSpace-1 /\ q - u + x \in Int
    BY <1>1, <1>2, <1>3, <1>6, SpaceType
  <2>3. d = i - j + SeqSpace
    BY <2>1, <2>2, <1>3, RemainderUnique
  <2> QED BY <2>3, <1>6 DEF d, r, v
<1> QED BY <1>5, <1>6

\* Packets less than a whole space apart have different numbers.
LEMMA NumOfInjective ==
    ASSUME NEW i \in Int, NEW j \in Int, NumOf(i) = NumOf(j),
           i - j < SeqSpace, j - i < SeqSpace
    PROVE  i = j
<1>1. Dist(NumOf(i), NumOf(j)) = 0
  <2>1. NumOf(i) - NumOf(j) = 0
    BY NumOfType DEF Seqs
  <2> QED BY <2>1, SpaceType DEF Dist
<1>2. Dist(NumOf(i), NumOf(j)) = IF i >= j THEN i - j ELSE i - j + SeqSpace
  BY DistNumOf
<1> QED BY <1>1, <1>2, SpaceType

---------------------------------------------------------------------------
(* The seen window *)

\* What _SeenWindow.append leaves behind: one place d of the old window is dropped, that of
\* the same number if it is there, else the oldest one of a full window, or none (d is past
\* the end); the entries behind it move up, and the new entry is the youngest.
Appended(w, e, d, r) ==
    /\ r \in Seq(Heard) /\ Len(r) \in 1..SeenMax
    /\ Len(r) = IF d = Len(w) + 1 THEN Len(w) + 1 ELSE Len(w)
    /\ r[Len(r)] = e
    /\ \A p \in 1..Len(r)-1 : r[p] = w[IF p < d THEN p ELSE p + 1]
    /\ IF Seen(w, e.seq) THEN d \in 1..Len(w) /\ w[d].seq = e.seq ELSE d \in {1, Len(w) + 1}

\* What receive_packet keeps of the numbers it heard: the new one last, at most one gone
LEMMA RememberEffect ==
    ASSUME NEW w \in Seq(Heard), Len(w) <= SeenMax, NEW e \in Heard
    PROVE  \E d \in 1..Len(w)+1 : Appended(w, e, d, Remember(w, e))
<1> DEFINE old == {p \in 1..Len(w) : w[p].seq = e.seq}
           all == Append(w, e)
<1>1. CASE old = {}
  <2>0. ~Seen(w, e.seq)
    BY <1>1 DEF Seen
  <2>1. Remember(w, e) = IF Len(all) > SeenMax THEN Tail(all) ELSE all
    BY <1>1 DEF Remember
  <2>2. all \in Seq(Heard) /\ Len(all) = Len(w) + 1
    OBVIOUS
  <2>3. CASE Len(all) > SeenMax
    <3>1. Remember(w, e) = Tail(all)
      BY <2>1, <2>3
    <3>2. /\ Tail(all) \in Seq(Heard) /\ Len(Tail(all)) = Len(w)
          /\ \A p \in 1..Len(w) : Tail(all)[p] = all[p+1]
      BY <2>2
    <3>3. Len(w) = SeenMax
      BY <2>2, <2>3, SizesAssumption
    <3>4. \A p \in 1..Len(w)-1 : p + 1 \in 1..Len(w) /\ Tail(all)[p] = w[p+1]
      BY <3>2
    <3>5. Tail(all)[Len(w)] = e
      BY <3>2, <3>3, SizesAssumption
    <3> DEFINE r == Tail(all)
    <3>6. r \in Seq(Heard) /\ Len(r) = Len(w) /\ r[Len(w)] = e /\ Len(w) \in 1..SeenMax
      BY <3>2, <3>3, <3>5, SizesAssumption
    <3>7. \A p \in 1..Len(r)-1 : r[p] = w[IF p < 1 THEN p ELSE p + 1]
      BY <3>4, <3>6
    <3>8. Remember(w, e) = r /\ ~Seen(w, e.seq) /\ 1 # Len(w) + 1
      BY <3>1, <3>6, <2>0
    <3> HIDE DEF r
    <3>9. Appended(w, e, 1, Remember(w, e))
      BY <3>6, <3>7, <3>8 DEF Appended
    <3> QED BY <3>9
  <2>4. CASE ~(Len(all) > SeenMax)
    <3>1. Remember(w, e) = all
      BY <2>1, <2>4
    <3> DEFINE r == all
               d == Len(w) + 1
    <3>2. /\ r \in Seq(Heard) /\ Len(r) = d /\ d \in 1..Len(w)+1 /\ Len(r) \in 1..SeenMax
          /\ r[Len(r)] = e
      BY <2>2, <2>4, SizesAssumption
    <3>3. \A p \in 1..Len(r)-1 : r[p] = w[IF p < d THEN p ELSE p + 1]
      BY <3>2
    <3>4. Remember(w, e) = r /\ ~Seen(w, e.seq) /\ d = Len(w) + 1
      BY <3>1, <2>0
    <3> HIDE DEF r, d
    <3>5. Appended(w, e, d, Remember(w, e))
      BY <3>2, <3>3, <3>4 DEF Appended
    <3> QED BY <3>2, <3>5
  <2> QED BY <2>3, <2>4
<1>2. CASE old # {}
  <2> DEFINE d == CHOOSE p \in old : TRUE
             kept == RemoveAt(w, d)
  <2>1. d \in 1..Len(w) /\ w[d].seq = e.seq
    BY <1>2
  <2>2. Seen(w, e.seq)
    BY <2>1 DEF Seen
  <2>3. kept = SubSeq(w, 1, d - 1) \o SubSeq(w, d + 1, Len(w))
    BY DEF RemoveAt
  <2>4. /\ SubSeq(w, 1, d-1) \in Seq(Heard) /\ Len(SubSeq(w, 1, d-1)) = d - 1
        /\ \A p \in 1..d-1 : SubSeq(w, 1, d-1)[p] = w[p]
    BY <2>1, SubSeqProperties
  <2>5. /\ SubSeq(w, d+1, Len(w)) \in Seq(Heard) /\ Len(SubSeq(w, d+1, Len(w))) = Len(w) - d
        /\ \A p \in 1..Len(w)-d : SubSeq(w, d+1, Len(w))[p] = w[d + p]
    BY <2>1, SubSeqProperties
  <2> HIDE DEF d
  <2>6. /\ kept \in Seq(Heard) /\ Len(kept) = Len(w) - 1
        /\ \A p \in 1..Len(w)-1 : kept[p] = IF p < d THEN w[p] ELSE w[p+1]
    <3> DEFINE front == SubSeq(w, 1, d - 1)
               back  == SubSeq(w, d + 1, Len(w))
    <3>1. /\ front \in Seq(Heard) /\ Len(front) = d - 1
          /\ \A p \in 1..d-1 : front[p] = w[p]
          /\ back \in Seq(Heard) /\ Len(back) = Len(w) - d
          /\ \A p \in 1..Len(w)-d : back[p] = w[d + p]
      BY <2>4, <2>5
    <3>2. kept = front \o back
      BY <2>3
    <3> HIDE DEF front, back, kept
    <3>3. /\ kept \in Seq(Heard) /\ Len(kept) = Len(front) + Len(back)
          /\ \A p \in 1..Len(front) + Len(back) :
                kept[p] = IF p <= Len(front) THEN front[p] ELSE back[p - Len(front)]
      BY <3>1, <3>2, ConcatProperties
    <3>4. Len(front) = d - 1 /\ d \in 1..Len(w)
      BY <3>1, <2>1
    <3>5. Len(front) + Len(back) = Len(w) - 1
      BY <3>1, <3>4
    <3>6. ASSUME NEW p \in 1..Len(w)-1
          PROVE  kept[p] = IF p < d THEN w[p] ELSE w[p+1]
      <4>1. CASE p < d
        <5>1. p \in 1..d-1 /\ p <= Len(front) /\ p \in 1..Len(front) + Len(back)
          BY <4>1, <3>4, <3>5
        <5>2. kept[p] = front[p]
          BY <5>1, <3>3
        <5>3. front[p] = w[p]
          BY <5>1, <3>1
        <5> QED BY <5>2, <5>3, <4>1
      <4>2. CASE ~(p < d)
        <5>1. p - (d - 1) \in 1..Len(w)-d /\ d + (p - (d - 1)) = p + 1
          BY <4>2, <3>4
        <5>2. back[p - (d - 1)] = w[p + 1]
          BY <5>1, <3>1
        <5>3. ~(p <= Len(front)) /\ p \in 1..Len(front) + Len(back)
          BY <4>2, <3>4, <3>5
        <5>4. kept[p] = back[p - Len(front)]
          BY <5>3, <3>3
        <5>5. kept[p] = w[p + 1]
          BY <5>2, <5>4, <3>4
        <5> QED BY <5>5, <4>2
      <4> QED BY <4>1, <4>2
    <3> QED BY <3>3, <3>5, <3>6
  <2> HIDE DEF kept
  <2>7. Remember(w, e) = IF Len(Append(kept, e)) > SeenMax THEN Tail(Append(kept, e)) ELSE Append(kept, e)
    BY <1>2 DEF Remember, kept, d
  <2>8. /\ Len(Append(kept, e)) = Len(w) /\ Append(kept, e) \in Seq(Heard)
        /\ Append(kept, e)[Len(w)] = e
        /\ \A p \in 1..Len(w)-1 : Append(kept, e)[p] = IF p < d THEN w[p] ELSE w[p+1]
    BY <2>6, <2>1
  <2>9. Remember(w, e) = Append(kept, e)
    BY <2>7, <2>8, SizesAssumption
  <2> DEFINE r == Append(kept, e)
  <2>10. /\ r \in Seq(Heard) /\ Len(r) = Len(w) /\ r[Len(w)] = e /\ Remember(w, e) = r
         /\ \A p \in 1..Len(r)-1 : r[p] = w[IF p < d THEN p ELSE p + 1]
    BY <2>8, <2>9
  <2>11. Len(w) \in 1..SeenMax /\ d # Len(w) + 1 /\ d \in 1..Len(w)+1
    BY <2>1, SizesAssumption
  <2> HIDE DEF r
  <2>12. Appended(w, e, d, Remember(w, e))
    BY <2>1, <2>2, <2>10, <2>11 DEF Appended
  <2> QED BY <2>11, <2>12
<1> QED BY <1>1, <1>2
---------------------------------------------------------------------------
(* Type correctness *)

\* Delivering a run of parked packets keeps the types,
LEMMA DeliverRunType ==
    ASSUME TypeOK, NEW no \in 1..Total, DeliverRun(NumOf(no), no)
    PROVE  /\ delivered' \in Seq(1..Total) /\ deliverNext' \in Seqs
           /\ DOMAIN parked' \subseteq Seqs /\ \A s \in DOMAIN parked' : parked'[s] \in 1..Total
<1> DEFINE seq == NumOf(no)
           run(n) == [k \in 1..n+1 |-> IF k = 1 THEN no ELSE parked[Plus(seq, k - 1)]]
<1>1. PICK n \in 0..SeqSpace-1 :
         /\ \A k \in 1..n : Plus(seq, k) \in DOMAIN parked
         /\ delivered' = delivered \o run(n)
         /\ parked' = [s \in DOMAIN parked \ {Plus(seq, k) : k \in 1..n} |-> parked[s]]
         /\ deliverNext' = Plus(seq, n + 1)
  BY DEF DeliverRun
<1>2. ASSUME NEW k \in 1..n+1
      PROVE  (IF k = 1 THEN no ELSE parked[Plus(seq, k - 1)]) \in 1..Total
  <2>1. CASE k = 1
    BY <2>1
  <2>2. CASE k # 1
    <3>1. k - 1 \in 1..n
      BY <2>2, <1>1, SpaceType
    <3> QED BY <3>1, <2>2, <1>1 DEF TypeOK
  <2> QED BY <2>1, <2>2
<1>3. run(n) \in Seq(1..Total)
  <2>1. n + 1 \in Nat
    BY SpaceType
  <2>2. run(n) \in [1..n+1 -> 1..Total]
    BY <1>2
  <2> QED BY <2>1, <2>2, SeqDef
<1>4. deliverNext' \in Seqs
  <2>1. no \in Int /\ n + 1 \in Int
    BY SpaceType
  <2>2. seq \in Int
    BY <2>1, NumOfType, SpaceType DEF Seqs
  <2> QED BY <2>1, <2>2, <1>1, PlusType
<1> HIDE DEF run, seq
<1>5. delivered' \in Seq(1..Total)
  BY <1>1, <1>3 DEF TypeOK
<1>6. DOMAIN parked' \subseteq DOMAIN parked /\ \A s \in DOMAIN parked' : parked'[s] = parked[s]
  BY <1>1
<1> QED BY <1>4, <1>5, <1>6 DEF TypeOK

\* reading a datagram does,
LEMMA ReadType ==
    ASSUME TypeOK, SizesAssumption, NEW p \in Packets, Read(p)
    PROVE  /\ receivedPackets' \in Seq(Heard) /\ Len(receivedPackets') <= SeenMax
           /\ rxEstablished' \in BOOLEAN /\ enableAck' \in BOOLEAN
           /\ ackNumber' \in Seqs /\ deliverNext' \in Seqs
           /\ DOMAIN parked' \subseteq Seqs /\ \A s \in DOMAIN parked' : parked'[s] \in 1..Total
           /\ acksOwed' \in 0..AckEvery-1 /\ acks' \subseteq Seqs
           /\ delivered' \in Seq(1..Total)
<1> DEFINE e == [seq |-> NumOf(p.no), no |-> p.no]
<1>1. p.no \in 1..Total /\ p.no \in Int /\ NumOf(p.no) \in Seqs /\ NumOf(p.no) \in Int
  BY NumOfType, SpaceType DEF Packets, Seqs
<1>2. e \in Heard
  BY <1>1 DEF Heard
<1>3. /\ Remember(receivedPackets, e) \in Seq(Heard)
      /\ Len(Remember(receivedPackets, e)) <= SeenMax
  BY <1>2, RememberEffect, SizesAssumption DEF TypeOK, Appended
<1>4. /\ receivedPackets' \in Seq(Heard) /\ Len(receivedPackets') <= SeenMax
      /\ rxEstablished' \in BOOLEAN /\ enableAck' \in BOOLEAN
      /\ ackNumber' \in Seqs /\ deliverNext' \in Seqs
      /\ DOMAIN parked' \subseteq Seqs /\ \A s \in DOMAIN parked' : parked'[s] \in 1..Total
      /\ delivered' \in Seq(1..Total)
  <2>1. CASE ReAck(p)
    BY <2>1 DEF ReAck, Read, TypeOK
  <2>2. CASE Baseline(p)
    BY <2>2, <1>1, <1>3, PlusType DEF Baseline, Read, TypeOK
  <2>3. CASE InSession(p)
    <3>1. ackNumber' \in Seqs
      BY <2>3, PlusType, SpaceType DEF InSession, WalkAck, TypeOK, Seqs
    <3>2. CASE DeliverRun(NumOf(p.no), p.no)
      BY <2>3, <3>1, <3>2, <1>1, <1>3, DeliverRunType DEF InSession, Read, TypeOK
    <3>3. CASE DropBehind(NumOf(p.no))
      BY <2>3, <3>1, <3>3, <1>3 DEF InSession, DropBehind, Read, TypeOK
    <3>4. CASE Park(NumOf(p.no), p.no)
      BY <2>3, <3>1, <3>4, <1>1, <1>3 DEF InSession, Park, Read, TypeOK
    <3>5. CASE Resync(NumOf(p.no), p.no)
      BY <2>3, <3>1, <3>5, <1>1, <1>3, PlusType DEF InSession, Resync, Read, TypeOK
    <3> QED BY <2>3, <3>2, <3>3, <3>4, <3>5 DEF InSession
  <2> QED BY <2>1, <2>2, <2>3 DEF Read
<1>5. acksOwed' \in 0..AckEvery-1 /\ acks' \subseteq Seqs
  BY <1>4, SizesAssumption DEF Read, OweAck, TypeOK
<1> QED BY <1>4, <1>5

\* and at the start everything has its type.
LEMMA TypeInit == Init => TypeOK
<1> SUFFICES ASSUME Init PROVE TypeOK
  OBVIOUS
<1>1. sent = 0 /\ acked = 0 /\ acksOwed = 0 /\ 0 \in 0..Total /\ 0 \in 0..AckEvery-1 /\ 0 \in Seqs
  BY SizesAssumption DEF Init, Seqs
<1>2. DOMAIN parked \subseteq Seqs /\ \A s \in DOMAIN parked : parked[s] \in 1..Total
  <2>1. DOMAIN parked = {}
    BY DEF Init
  <2> QED BY <2>1
<1>3. /\ receivedPackets \in Seq(Heard) /\ Len(receivedPackets) <= SeenMax
      /\ delivered \in Seq(1..Total)
  BY SizesAssumption DEF Init
<1>4. net = {} /\ acks = {} /\ rxEstablished = FALSE /\ enableAck = FALSE
      /\ ackNumber = 0 /\ deliverNext = 0
  BY DEF Init
<1>5. 0 \in 0..0
  OBVIOUS
<1> QED BY <1>1, <1>2, <1>3, <1>4, <1>5 DEF TypeOK

\* Every step of Next keeps the types.
LEMMA TypeStep == TypeOK /\ [Next]_vars => TypeOK'
<1> SUFFICES ASSUME TypeOK, [Next]_vars PROVE TypeOK'
  OBVIOUS
<1>1. ASSUME NEW p \in net, Receive(p) PROVE TypeOK'
  <2>1. p \in Packets
    BY DEF TypeOK
  <2> QED BY <1>1, <2>1, ReadType, SizesAssumption DEF Receive, TypeOK
<1>2. ASSUME NEW p \in net, ReceiveCopy(p) PROVE TypeOK'
  <2>1. p \in Packets
    BY DEF TypeOK
  <2> QED BY <1>2, <2>1, ReadType, SizesAssumption DEF ReceiveCopy, TypeOK
<1>3. ASSUME NEW p \in net, LosePacket(p) PROVE TypeOK'
  BY <1>3 DEF LosePacket, TypeOK, client
<1>4. ASSUME NEW s \in ControlSeqs, ReceiveControl(s) PROVE TypeOK'
  <2>1. s \in Seqs
    BY SizesAssumption DEF Seqs
  <2>2. [seq |-> s, no |-> 0] \in Heard
    BY <2>1, SizesAssumption DEF Heard
  <2>3. receivedPackets' \in Seq(Heard) /\ Len(receivedPackets') <= SeenMax
    BY <1>4, <2>2, RememberEffect, SizesAssumption DEF ReceiveControl, TypeOK, Appended
  <2>4. ackNumber' \in Seqs
    <3>1. CASE rxEstablished
      <4>1. PICK n \in 0..SeqSpace-1 : ackNumber' = Plus(ackNumber, n)
        BY <1>4, <3>1 DEF ReceiveControl, WalkAck
      <4>2. ackNumber \in Int /\ n \in Int
        BY SpaceType DEF TypeOK, Seqs
      <4> QED BY <4>1, <4>2, PlusType
    <3>2. CASE ~rxEstablished
      BY <1>4, <2>1, <3>2 DEF ReceiveControl
    <3> QED BY <3>1, <3>2
  <2>5. acksOwed' \in 0..AckEvery-1 /\ acks' \subseteq Seqs
    BY <1>4, <2>4, SizesAssumption DEF ReceiveControl, OweAck, TypeOK
  <2> QED BY <1>4, <2>3, <2>4, <2>5 DEF ReceiveControl, TypeOK
<1>5. CASE FlushAck
  BY <1>5, SizesAssumption DEF FlushAck, TypeOK
<1>6. CASE SwitcherSend
  <2>1. [no |-> sent + 1, resent |-> FALSE] \in Packets
    BY <1>6, SizesAssumption DEF SwitcherSend, Packets, TypeOK
  <2>2. net' \subseteq Packets /\ acks' \subseteq Seqs
    BY <1>6, <2>1 DEF SwitcherSend, TypeOK
  <2>3. sent' \in 0..Total /\ acked' \in 0..sent'
    BY <1>6, SizesAssumption DEF SwitcherSend, TypeOK
  <2> QED BY <1>6, <2>2, <2>3 DEF SwitcherSend, TypeOK, client
<1>7. CASE SwitcherResend
  <2>1. \A i \in acked+1..sent : [no |-> i, resent |-> TRUE] \in Packets
    BY SizesAssumption DEF Packets, TypeOK
  <2>2. net' \subseteq Packets
    BY <1>7, <2>1 DEF SwitcherResend, TypeOK
  <2> QED BY <1>7, <2>2 DEF SwitcherResend, TypeOK, client
<1>8. ASSUME NEW a \in acks, SwitcherHearsAck(a) PROVE TypeOK'
  <2>1. acked' \in 0..sent
    BY <1>8 DEF SwitcherHearsAck, TypeOK
  <2> QED BY <1>8, <2>1 DEF SwitcherHearsAck, TypeOK, client
<1>9. ASSUME NEW a \in acks, LoseAck(a) PROVE TypeOK'
  BY <1>9 DEF LoseAck, TypeOK, client
<1>10. CASE UNCHANGED vars
  BY <1>10 DEF vars, wire, client, TypeOK
<1> QED BY <1>1, <1>2, <1>3, <1>4, <1>5, <1>6, <1>7, <1>8, <1>9, <1>10 DEF Next

\* Every variable of the receive path stays in its domain and every window within its cap,
\* for all sizes of the sequence space and of the windows.
THEOREM TypeCorrect == Spec => []TypeOK
BY TypeInit, TypeStep, PTL DEF Spec


---------------------------------------------------------------------------
(* The inductive invariant *)

\* Packets that were not sent yet when the entry at p of the window came, and that the ACK
\* number (that of packet a) or a younger entry stands for.
Newer(w, p, a) ==
    {i \in 1..Total : i >= w[p].no + MaxAge /\ (i <= a \/ \E q \in p+1..Len(w) : w[q].no = i)}

\* A remembered number is that of an unreliable frame, or young: every newer packet that was
\* received since has pushed it down by one place, so it is gone before the numbers have
\* come around the sequence space.
EntryInv(w, p, a) ==
    \/ w[p].no = 0 /\ w[p].seq \in ControlSeqs
    \/ /\ w[p].no \in 1..sent /\ w[p].seq = NumOf(w[p].no)
       /\ \A q \in p+1..Len(w) : w[q].no # 0 => w[p].no < w[q].no + MaxAge
       /\ Cardinality(Newer(w, p, a)) <= Len(w) - p

WindowInv(w, a) == \A p \in 1..Len(w) : EntryInv(w, p, a)

WireInv ==
    /\ sent <= acked + SendWindow
    /\ \A p \in net : p.no <= sent /\ p.no + MaxAge > sent

\* Before the first reliable packet nothing but unreliable frames was heard.
BeforeInv ==
    ~rxEstablished =>
        /\ delivered = <<>> /\ acked = 0 /\ DOMAIN parked = {}
        /\ acks \subseteq ControlSeqs
        /\ acksOwed > 0 => ackNumber \in ControlSeqs
        /\ \A p \in 1..Len(receivedPackets) :
              receivedPackets[p].no = 0 /\ receivedPackets[p].seq \in ControlSeqs

\* The cursor is the number of the packet owed; what is parked is ahead of it, inside the
\* park window.
GateInv ==
    rxEstablished =>
        /\ delivered # <<>> /\ OnlyForward
        /\ deliverNext = NumOf(Owed) /\ Owed <= sent + 1
        /\ \A s \in DOMAIN parked : /\ s = NumOf(parked[s])
                                    /\ parked[s] \in Owed+1..sent
                                    /\ parked[s] <= Owed + ParkWindow
        /\ WindowsFit => NoHole

\* What is remembered was handed on, dropped behind the cursor, or is parked.
TakenInv ==
    \A p \in 1..Len(receivedPackets) :
        \/ receivedPackets[p].no = 0
        \/ receivedPackets[p].no < Owed
        \/ \E s \in DOMAIN parked : parked[s] = receivedPackets[p].no

\* The ACK number is that of a packet before the cursor, and no older ACK in flight says more.
AckInv ==
    rxEstablished =>
        \E a \in delivered[1]..Owed-1 :
            /\ ackNumber = NumOf(a) /\ acked <= a
            /\ \A x \in acks : \/ x \in ControlSeqs
                               \/ \E i \in 1..a : x = NumOf(i) /\ i + MaxAge >= sent
            /\ WindowInv(receivedPackets, a)

IInv == TypeOK /\ WireInv /\ BeforeInv /\ GateInv /\ (rxEstablished => TakenInv) /\ AckInv
---------------------------------------------------------------------------
(* The remembered numbers stay young *)

\* What NumbersFit says of the sizes
LEMMA FitBounds ==
    ASSUME NumbersFit
    PROVE  /\ SendWindow \in Nat /\ MaxAge \in Nat /\ SeenMax \in Nat /\ ParkWindow \in Nat
           /\ SendWindow >= 1 /\ MaxAge >= 1 /\ SeenMax >= 1 /\ ParkWindow >= 1
           /\ SeqSpace \in Nat /\ Half \in Nat /\ SeqSpace = Half + Half /\ ParkWindow < Half
           /\ SendWindow <= MaxAge /\ MaxAge < Half /\ SendWindow + MaxAge + SeenMax <= SeqSpace
BY SizesAssumption DEF NumbersFit

\* The packets sent after one are counted by a number.
LEMMA NewerFinite ==
    ASSUME NEW w, NEW p, NEW a
    PROVE  IsFiniteSet(Newer(w, p, a)) /\ Cardinality(Newer(w, p, a)) \in Nat
<1>1. Newer(w, p, a) \in SUBSET (1..Total)
  BY DEF Newer
<1>2. IsFiniteSet(1..Total)
  BY SizesAssumption, FS_Interval
<1> QED BY <1>1, <1>2, FS_Subset, FS_CardinalityType

\* What is remembered of a reliable packet.
LEMMA EntryFacts ==
    ASSUME NumbersFit, TypeOK, NEW w \in Seq(Heard), NEW a, WindowInv(w, a),
           NEW p \in 1..Len(w)
    PROVE  /\ w[p] \in Heard /\ w[p].no \in Nat /\ w[p].seq \in Seqs
           /\ w[p].no = 0 => w[p].seq \in ControlSeqs
           /\ w[p].no # 0 => /\ w[p].no \in 1..sent /\ w[p].seq = NumOf(w[p].no)
                             /\ \A q \in p+1..Len(w) : w[q].no # 0 => w[p].no < w[q].no + MaxAge
                             /\ Cardinality(Newer(w, p, a)) <= Len(w) - p
<1>1. w[p] \in Heard
  OBVIOUS
<1>2. w[p].no \in Nat /\ w[p].seq \in Seqs
  BY <1>1 DEF Heard
<1>3. EntryInv(w, p, a)
  BY DEF WindowInv
<1>4. 0 \notin 1..sent
  BY DEF TypeOK
<1> QED BY <1>1, <1>2, <1>3, <1>4 DEF EntryInv

\* At most k packets acknowledged past no + MaxAge: the next one to be sent is near to no.
LEMMA Reach ==
    ASSUME NumbersFit, NEW s \in Nat, NEW a \in Nat, NEW no \in Nat, NEW k \in Nat,
           k <= SeenMax - 1, a - (no + MaxAge) + 1 <= k, s <= a + SendWindow
    PROVE  s + 1 - no < SeqSpace
BY FitBounds

\* What the switcher may have unacknowledged is less than a sequence space.
LEMMA Ahead ==
    ASSUME NumbersFit, NEW s \in Nat, NEW a \in Nat, NEW i \in Nat, s <= a + SendWindow, i > a
    PROVE  s - i < SendWindow /\ s - i < SeqSpace
BY FitBounds

\* No remembered packet is a sequence space away from the next one to be sent.
LEMMA EntryIsYoung ==
    ASSUME NumbersFit, TypeOK, NEW w \in Seq(Heard), Len(w) <= SeenMax, NEW a \in 0..sent,
           WindowInv(w, a), sent <= a + SendWindow, NEW p \in 1..Len(w), w[p].no # 0
    PROVE  sent + 1 - w[p].no < SeqSpace
<1>1. PICK no \in Nat : no = w[p].no
  BY EntryFacts
<1> DEFINE b == no + MaxAge
           newer == Cardinality(Newer(w, p, a))
<1>2. no \in 1..sent /\ newer <= Len(w) - p /\ newer \in Nat
  BY <1>1, EntryFacts, NewerFinite
<1>3. sent \in Nat /\ sent <= Total /\ Total \in Nat /\ Len(w) \in Nat /\ b \in Nat
  <2>1. sent \in Nat /\ sent <= Total /\ Total \in Nat
    BY SizesAssumption DEF TypeOK
  <2>2. MaxAge \in Nat
    BY SizesAssumption
  <2> QED BY <2>1, <2>2
<1> HIDE DEF newer
<1>4. CASE a < b
  <2>1. sent + 1 - no < SeqSpace
    BY <1>2, <1>3, <1>4, FitBounds, SMTT(30)
  <2> QED BY <2>1, <1>1
<1>5. CASE b <= a
  <2>1. b..a \subseteq Newer(w, p, a)
    <3>1. b >= 1 /\ a <= Total
      BY <1>2, <1>3, SizesAssumption
    <3> QED BY <3>1, <1>1, <1>3 DEF Newer
  <2>2. Cardinality(b..a) <= newer
    BY <2>1, NewerFinite, FS_Subset DEF newer
  <2>3. Cardinality(b..a) = a - b + 1
    <3>1. a \in Int /\ b \in Int /\ ~(b > a)
      BY <1>3, <1>5
    <3> HIDE DEF b
    <3> QED BY <3>1, FS_Interval
  <2>4. a - b + 1 <= newer
    BY <2>2, <2>3
  <2>5. a - (no + MaxAge) + 1 <= newer
    BY <2>4
  <2> HIDE DEF b
  <2>6. newer <= SeenMax - 1
    BY <1>2, <1>3, FitBounds
  <2>7. sent + 1 - no < SeqSpace
    BY <1>3, <2>5, <2>6, <1>2, Reach
  <2> QED BY <2>7, <1>1
<1> QED BY <1>3, <1>4, <1>5

\* A remembered number is that of one packet only.
LEMMA EntryIsIt ==
    ASSUME NumbersFit, TypeOK, NEW w \in Seq(Heard), Len(w) <= SeenMax, NEW a \in 0..sent,
           WindowInv(w, a), sent <= a + SendWindow, NEW p \in 1..Len(w),
           NEW i \in 1..sent+1, w[p].seq = NumOf(i), sent - i < SeqSpace
    PROVE  w[p].no = i
<1>1. w[p].no # 0
  <2>1. i \in 1..Total+1
    BY SizesAssumption DEF TypeOK
  <2> QED BY <2>1, EntryFacts DEF NumbersFit
<1>2. w[p].no \in 1..sent /\ NumOf(w[p].no) = NumOf(i) /\ sent \in Nat
  BY <1>1, EntryFacts DEF TypeOK
<1>3. i - w[p].no < SeqSpace /\ w[p].no - i < SeqSpace
  BY <1>1, <1>2, EntryIsYoung, SpaceType, SMTT(30)
<1> QED BY <1>2, <1>3, NumOfInjective

\* One more number is remembered: that of a young packet, or of an unreliable frame.
LEMMA RememberKeeps ==
    ASSUME NumbersFit, TypeOK, NEW w \in Seq(Heard), Len(w) <= SeenMax, NEW a \in 0..sent,
           WindowInv(w, a), sent <= a + SendWindow, NEW e \in Heard,
           \/ e.no = 0 /\ e.seq \in ControlSeqs
           \/ e.no \in 1..sent /\ e.seq = NumOf(e.no) /\ e.no + MaxAge > sent
    PROVE  WindowInv(Remember(w, e), a)
<1> DEFINE r == Remember(w, e)
<1>1. PICK d \in 1..Len(w)+1 : Appended(w, e, d, r)
  BY RememberEffect
<1> HIDE DEF r
<1>2. /\ r \in Seq(Heard) /\ Len(r) \in 1..SeenMax /\ r[Len(r)] = e
      /\ Len(r) = IF d = Len(w) + 1 THEN Len(w) + 1 ELSE Len(w)
      /\ Len(w) \in Nat /\ d \in Nat /\ sent \in Nat /\ sent <= Total
  BY <1>1, SizesAssumption DEF Appended, TypeOK
<1> DEFINE src(p) == IF p < d THEN p ELSE p + 1
<1>3. \A p \in 1..Len(r)-1 : r[p] = w[src(p)] /\ src(p) \in 1..Len(w)
  BY <1>1, <1>2 DEF Appended
<1> SUFFICES ASSUME NEW p \in 1..Len(r) PROVE EntryInv(r, p, a)
  BY DEF WindowInv, r
<1>4. CASE p = Len(r)
  <2>1. r[p] = e /\ p+1..Len(r) = {}
    BY <1>2, <1>4
  <2>2. CASE e.no = 0 /\ e.seq \in ControlSeqs
    BY <2>1, <2>2 DEF EntryInv
  <2>3. CASE e.no \in 1..sent /\ e.seq = NumOf(e.no) /\ e.no + MaxAge > sent
    <3>1. Newer(r, p, a) = {}
      <4> SUFFICES ASSUME NEW i \in 1..Total, i >= r[p].no + MaxAge, i <= a PROVE FALSE
        BY <2>1 DEF Newer
      <4>1. PICK no \in 1..sent : no = r[p].no
        BY <2>1, <2>3
      <4>2. no + MaxAge > sent /\ i >= no + MaxAge
        BY <4>1, <2>1, <2>3
      <4> QED BY <4>2, <1>2, FitBounds, SMTT(30)
    <3>2. Cardinality(Newer(r, p, a)) <= Len(r) - p
      BY <3>1, <1>2, <1>4, FS_EmptySet
    <3> QED BY <2>1, <2>3, <3>2 DEF EntryInv
  <2> QED BY <2>2, <2>3
<1>5. CASE p \in 1..Len(r)-1
  <2> DEFINE o == src(p)
             before == Newer(w, o, a)
  <2>1. o \in 1..Len(w) /\ r[p] = w[o]
    BY <1>3, <1>5
  <2>2. CASE w[o].no = 0
    BY <2>1, <2>2, EntryFacts DEF EntryInv
  <2>3. CASE w[o].no # 0
    <3>1. /\ w[o].no \in 1..sent /\ w[o].seq = NumOf(w[o].no)
          /\ \A q \in o+1..Len(w) : w[q].no # 0 => w[o].no < w[q].no + MaxAge
          /\ Cardinality(Newer(w, o, a)) <= Len(w) - o
      BY <2>1, <2>3, EntryFacts
    <3>2. ASSUME NEW q \in p+1..Len(r)
          PROVE  r[q] = e \/ \E x \in o+1..Len(w) : r[q] = w[x]
      <4>1. CASE q = Len(r)
        BY <4>1, <1>2
      <4>2. CASE q # Len(r)
        <5>1. q \in 1..Len(r)-1 /\ src(q) > o
          BY <4>2, <1>2, <1>5
        <5>2. r[q] = w[src(q)] /\ src(q) \in o+1..Len(w)
          BY <5>1, <1>3, <2>1, <1>2
        <5> QED BY <5>2
      <4> QED BY <4>1, <4>2
    <3>3. ASSUME NEW q \in p+1..Len(r), r[q].no # 0
          PROVE  r[p].no < r[q].no + MaxAge
      <4>1. CASE r[q] = e
        <5>1. PICK x \in 1..sent, y \in 1..sent : x = r[p].no /\ y = r[q].no
          BY <4>1, <3>1, <3>3, <2>1, EntryFacts
        <5>2. y + MaxAge > sent
          BY <4>1, <5>1
        <5>3. x < y + MaxAge
          BY <5>2, <1>2, FitBounds, SMTT(30)
        <5> QED BY <5>1, <5>3
      <4>2. CASE \E x \in o+1..Len(w) : r[q] = w[x]
        BY <4>2, <3>1, <3>3, <2>1
      <4> QED BY <4>1, <4>2, <3>2
    <3>4. Newer(r, p, a) \subseteq Newer(w, o, a) \cup {e.no}
      BY <3>2, <2>1 DEF Newer
    <3>5. CASE Len(r) - p >= Len(w) - o + 1
      <4> DEFINE more == before \cup {e.no}
                 now == Newer(r, p, a)
      <4>1. IsFiniteSet(before) /\ Cardinality(before) \in Nat /\ now \in SUBSET more
        BY <3>4, NewerFinite
      <4>2. Cardinality(before) <= Len(w) - o
        BY <3>1
      <4> HIDE DEF before, now
      <4>3. IsFiniteSet(more) /\ Cardinality(more) <= Cardinality(before) + 1
        <5>1. Cardinality(more) = IF e.no \in before THEN Cardinality(before) ELSE Cardinality(before) + 1
          BY <4>1, FS_AddElement
        <5>2. IsFiniteSet(more)
          BY <4>1, FS_AddElement
        <5> QED BY <5>1, <5>2, <4>1
      <4> HIDE DEF more, o
      <4>4. Cardinality(now) <= Cardinality(more) /\ Cardinality(more) \in Nat
        BY <4>1, <4>3, FS_Subset, FS_CardinalityType
      <4>5. Cardinality(now) \in Nat
        BY NewerFinite DEF now
      <4>6. Cardinality(now) <= Len(r) - p
        BY <4>1, <4>2, <4>3, <4>4, <4>5, <3>5, <1>2, <2>1, SMTT(30)
      <4> QED BY <4>6, <3>1, <3>3, <2>1 DEF EntryInv, now
    <3>6. CASE ~(Len(r) - p >= Len(w) - o + 1)
      <4>1. p < d /\ d # 1 /\ d # Len(w) + 1
        BY <3>6, <1>2, <1>5
      <4>2. d \in o+1..Len(w) /\ w[d].seq = e.seq /\ o = p /\ Len(r) = Len(w)
        BY <4>1, <1>1, <1>2 DEF Appended
      <4>3. e.no # 0 => w[d].no = e.no
        <5> SUFFICES ASSUME e.no # 0 PROVE w[d].no = e.no
          OBVIOUS
        <5>1. e.no \in 1..sent+1 /\ w[d].seq = NumOf(e.no) /\ d \in 1..Len(w)
          BY <4>2, <1>2
        <5>2. sent - e.no < SeqSpace
          <6>1. PICK no \in 1..sent : no = e.no
            BY <5>1, <4>2, <1>2
          <6>2. no + MaxAge > sent
            BY <6>1
          <6>3. sent - no < SeqSpace
            BY <6>2, <1>2, FitBounds, SMTT(30)
          <6> QED BY <6>1, <6>3
        <5> QED BY <5>1, <5>2, EntryIsIt
      <4>4. Newer(r, p, a) \subseteq Newer(w, o, a)
        <5> SUFFICES ASSUME NEW i \in Newer(r, p, a), i = e.no PROVE i \in Newer(w, o, a)
          BY <3>4
        <5>1. i \in 1..Total /\ i >= w[o].no + MaxAge
          BY <2>1 DEF Newer
        <5>2. w[d].no = i
          BY <5>1, <4>3
        <5> QED BY <5>1, <5>2, <4>2 DEF Newer
      <4>5. Cardinality(Newer(r, p, a)) <= Cardinality(Newer(w, o, a))
        BY <4>4, NewerFinite, FS_Subset
      <4> HIDE DEF o
      <4>6. Cardinality(Newer(r, p, a)) <= Len(r) - p
        BY <4>5, <4>2, <3>1, NewerFinite, <1>2
      <4> QED BY <4>6, <3>1, <3>3, <2>1 DEF EntryInv
    <3> QED BY <3>5, <3>6
  <2> QED BY <2>2, <2>3
<1> QED BY <1>4, <1>5, <1>2

\* The ACK number walks to a packet before the one owed, and the window stays as young as
\* the new ACK number needs it.
LEMMA WalkKeeps ==
    ASSUME NumbersFit, TypeOK, NEW w \in Seq(Heard), Len(w) <= SeenMax, NEW a \in 0..sent,
           WindowInv(w, a), sent <= a + SendWindow, NEW o \in a+1..sent+1,
           \A p \in 1..Len(w) : w[p].no # o,
           ackNumber = NumOf(a), WalkAck(w)
    PROVE  \E b \in a..o-1 : ackNumber' = NumOf(b) /\ WindowInv(w, b)
<1>1. PICK n \in 0..SeqSpace-1 :
         (\A k \in 1..n : Seen(w, Plus(ackNumber, k))) /\ ackNumber' = Plus(ackNumber, n)
  BY DEF WalkAck
<1>2. sent \in Nat /\ sent <= Total /\ n \in Nat /\ Len(w) \in Nat
  BY SpaceType, SizesAssumption DEF TypeOK
<1>3. ASSUME NEW i \in a+1..a+n, i <= o
      PROVE  \E q \in 1..Len(w) : w[q].no = i
  <2>1. i - a \in 1..n /\ a + (i - a) = i
    BY <1>2
  <2>2. Plus(ackNumber, i - a) = NumOf(i)
    BY <2>1, PlusNumOf
  <2>3. PICK q \in 1..Len(w) : w[q].seq = NumOf(i)
    BY <1>1, <2>1, <2>2 DEF Seen
  <2>4. i \in 1..sent+1 /\ i \in Nat /\ i > a /\ a \in Nat
    BY <1>2, <1>3
  <2>5. sent - i < SeqSpace
    BY <1>2, <2>4, Ahead
  <2>6. w[q].no = i
    BY <2>3, <2>4, <2>5, EntryIsIt
  <2> QED BY <2>6
<1>4. a + n < o
  <2> SUFFICES ASSUME a + n >= o PROVE FALSE
    BY <1>2
  <2>1. o \in a+1..a+n
    BY <1>2
  <2> QED BY <2>1, <1>3, <1>2
<1> DEFINE b == a + n
<1>5. b \in a..o-1 /\ ackNumber' = NumOf(b)
  <2>1. Plus(NumOf(a), n) = NumOf(a + n)
    BY <1>2, PlusNumOf
  <2>2. a + n \in a..o-1
    BY <1>2, <1>4
  <2> QED BY <2>1, <2>2, <1>1
<1>6. ASSUME NEW p \in 1..Len(w) PROVE EntryInv(w, p, b)
  <2>1. CASE w[p].no = 0
    BY <2>1, EntryFacts DEF EntryInv
  <2>2. CASE w[p].no # 0
    <3>1. /\ w[p].no \in 1..sent /\ w[p].seq = NumOf(w[p].no)
          /\ \A q \in p+1..Len(w) : w[q].no # 0 => w[p].no < w[q].no + MaxAge
          /\ Cardinality(Newer(w, p, a)) <= Len(w) - p
      BY <2>2, EntryFacts
    <3>2. Newer(w, p, b) \subseteq Newer(w, p, a)
      <4> SUFFICES ASSUME NEW i \in 1..Total, i >= w[p].no + MaxAge, i <= b, i > a
                   PROVE  \E q \in p+1..Len(w) : w[q].no = i
        BY DEF Newer
      <4>1. i \in a+1..a+n /\ i <= o
        BY <1>2, <1>5
      <4>2. PICK q \in 1..Len(w) : w[q].no = i
        BY <4>1, <1>3
      <4>3. q # p
        <5>1. PICK no \in 1..sent : no = w[p].no
          BY <3>1
        <5>2. i >= no + MaxAge
          BY <5>1
        <5>3. i # no
          BY <5>2, <1>2, FitBounds, SMTT(30)
        <5> QED BY <5>1, <5>3, <4>2
      <4>4. ~(q < p)
        <5> SUFFICES ASSUME q < p PROVE FALSE
          OBVIOUS
        <5>1. w[q].no # 0 /\ p \in q+1..Len(w)
          BY <4>2, <1>2
        <5>2. w[q].no < w[p].no + MaxAge
          BY <5>1, <2>2, EntryFacts
        <5>3. PICK no \in 1..sent : no = w[p].no
          BY <3>1
        <5>4. i < no + MaxAge
          BY <5>2, <5>3, <4>2
        <5>5. i >= no + MaxAge
          BY <5>3
        <5> QED BY <5>4, <5>5, <1>2, FitBounds, SMTT(30)
      <4> QED BY <4>2, <4>3, <4>4
    <3>3. Cardinality(Newer(w, p, b)) <= Cardinality(Newer(w, p, a))
      BY <3>2, NewerFinite, FS_Subset
    <3> HIDE DEF b
    <3>4. Cardinality(Newer(w, p, b)) <= Len(w) - p
      BY <3>1, <3>3, NewerFinite, <1>2
    <3> QED BY <3>1, <3>4 DEF EntryInv
  <2> QED BY <2>1, <2>2
<1> QED BY <1>5, <1>6 DEF WindowInv
---------------------------------------------------------------------------
(* The in-order gate *)

\* Where a packet lies that is not further from the cursor than the switcher and the network
\* can bring it.
LEMMA Position ==
    ASSUME NumbersFit, NEW o \in Nat, NEW no \in Nat, no - o < SendWindow, o - no <= MaxAge
    PROVE  /\ Dist(NumOf(no), NumOf(o)) = 0 => no = o
           /\ Dist(NumOf(no), NumOf(o)) > Half => no < o
           /\ Dist(NumOf(no), NumOf(o)) \in 1..ParkWindow => no \in o+1..o+ParkWindow
           /\ Dist(NumOf(no), NumOf(o)) \in ParkWindow+1..Half => no > o + ParkWindow
<1> DEFINE d == Dist(NumOf(no), NumOf(o))
<1>1. no - o < SeqSpace /\ o - no < SeqSpace /\ no - o < Half /\ o - no < Half
  BY FitBounds
<1>2. d = IF no >= o THEN no - o ELSE no - o + SeqSpace
  BY <1>1, DistNumOf
<1> HIDE DEF d
<1>3. CASE no >= o
  <2>1. d = no - o /\ d \in Nat /\ d < Half
    BY <1>1, <1>2, <1>3
  <2> HIDE DEF d
  <2>2. ~(d > Half) /\ (d = 0 => no = o)
    BY <2>1, FitBounds
  <2>3. /\ d \in 1..ParkWindow => no \in o+1..o+ParkWindow
        /\ d \in ParkWindow+1..Half => no > o + ParkWindow
    BY <2>1, FitBounds
  <2> QED BY <2>2, <2>3 DEF d
<1>4. CASE ~(no >= o)
  <2>1. d = no - o + SeqSpace
    BY <1>2, <1>4
  <2>2. d > Half /\ d \in Nat
    BY <1>1, <1>4, <2>1, FitBounds
  <2>3. d # 0 /\ d \notin 1..ParkWindow /\ d \notin ParkWindow+1..Half
    BY <2>2, FitBounds
  <2> QED BY <1>4, <2>3 DEF d
<1> QED BY <1>3, <1>4

\* The cursor, and what is parked ahead of it.
LEMMA GateFacts ==
    ASSUME NumbersFit, IInv, rxEstablished
    PROVE  /\ Owed \in Nat /\ Owed >= 2 /\ Owed <= sent + 1 /\ sent < Owed + SendWindow
           /\ sent \in Nat /\ sent <= Total /\ deliverNext = NumOf(Owed)
           /\ delivered \in Seq(1..Total) /\ Len(delivered) \in Nat /\ Len(delivered) >= 1
           /\ delivered[Len(delivered)] = Owed - 1
           /\ \A s \in DOMAIN parked : /\ s = NumOf(parked[s]) /\ parked[s] \in Nat
                                       /\ parked[s] > Owed /\ parked[s] <= sent
                                       /\ parked[s] <= Owed + ParkWindow
<1>1. /\ delivered \in Seq(1..Total) /\ delivered # <<>> /\ Owed <= sent + 1
      /\ sent \in 0..Total /\ deliverNext = NumOf(Owed) /\ sent <= acked + SendWindow
  BY DEF IInv, TypeOK, GateInv, WireInv
<1>2. Len(delivered) \in Nat /\ Len(delivered) >= 1
  BY <1>1
<1>3. delivered[Len(delivered)] \in 1..Total /\ Owed = delivered[Len(delivered)] + 1
  <2>1. Len(delivered) \in 1..Len(delivered)
    BY <1>2
  <2>2. delivered[Len(delivered)] \in 1..Total
    BY <1>1, <2>1, ElementOfSeq
  <2> QED BY <2>2 DEF Owed, Last
<1>4. Owed \in Nat /\ Owed >= 2 /\ sent \in Nat /\ sent <= Total
  BY <1>1, <1>3, SizesAssumption
<1>5. delivered[Len(delivered)] = Owed - 1
  <2>1. PICK x \in 1..Total : x = delivered[Len(delivered)]
    BY <1>3
  <2>2. Owed = x + 1
    BY <2>1, <1>3
  <2>3. x = Owed - 1
    BY <2>2, <2>1
  <2> QED BY <2>1, <2>3
<1>6. PICK a \in delivered[1]..Owed-1 : acked <= a
  BY DEF IInv, AckInv
<1>7. acked \in Nat /\ a \in Int /\ a <= Owed - 1
  <2>1. delivered[1] \in 1..Total
    <3>1. 1 \in 1..Len(delivered)
      BY <1>2
    <3> QED BY <1>1, <3>1, ElementOfSeq
  <2>2. delivered[1] \in Int
    BY <2>1, SizesAssumption
  <2> QED BY <2>2, <1>4 DEF IInv, TypeOK
<1>8. sent < Owed + SendWindow
  BY <1>1, <1>4, <1>6, <1>7, SizesAssumption
<1>9. ASSUME NEW s \in DOMAIN parked
      PROVE  /\ s = NumOf(parked[s]) /\ parked[s] \in Nat /\ parked[s] > Owed
             /\ parked[s] <= sent /\ parked[s] <= Owed + ParkWindow
  <2>1. parked[s] \in Owed+1..sent /\ s = NumOf(parked[s]) /\ parked[s] <= Owed + ParkWindow
    BY DEF IInv, GateInv
  <2> QED BY <2>1, <1>4
<1> QED BY <1>1, <1>2, <1>4, <1>5, <1>8, <1>9

\* One owns more after a sequence that is appended to.
LEMMA AppendedLast ==
    ASSUME NEW S, NEW d \in Seq(S), NEW r \in Seq(S), Len(d) >= 1, Len(r) >= 1
    PROVE  /\ d \o r # <<>> /\ (d \o r)[1] = d[1] /\ Len(d \o r) = Len(d) + Len(r)
           /\ Last(d \o r) = r[Len(r)]
           /\ \A k \in 1..Len(d) : (d \o r)[k] = d[k]
           /\ \A k \in 1..Len(r) : (d \o r)[Len(d) + k] = r[k]
<1>1. /\ d \o r \in Seq(S) /\ Len(d \o r) = Len(d) + Len(r)
      /\ \A k \in 1..Len(d) + Len(r) : (d \o r)[k] = IF k <= Len(d) THEN d[k] ELSE r[k - Len(d)]
  BY ConcatProperties
<1>2. Len(d) \in Nat /\ Len(r) \in Nat
  OBVIOUS
<1>3. \A k \in 1..Len(d) : (d \o r)[k] = d[k]
  BY <1>1, <1>2
<1>4. ASSUME NEW k \in 1..Len(r) PROVE (d \o r)[Len(d) + k] = r[k]
  <2>1. Len(d) + k \in 1..Len(d) + Len(r) /\ ~(Len(d) + k <= Len(d)) /\ Len(d) + k - Len(d) = k
    BY <1>2
  <2> QED BY <2>1, <1>1
<1>5. (d \o r)[1] = d[1]
  BY <1>2, <1>3
<1>6. Last(d \o r) = r[Len(r)]
  BY <1>1, <1>2, <1>4 DEF Last
<1>7. d \o r # <<>>
  BY <1>1, <1>2
<1> QED BY <1>1, <1>3, <1>4, <1>5, <1>6, <1>7

\* What a packet is once the client has it: handed on, dropped behind the cursor, or parked.
Taken(i) == i < Owed \/ \E s \in DOMAIN parked : parked[s] = i

\* What the gate does with packet no keeps its invariant, and loses nothing that was taken.
GateKept(no) ==
    /\ GateInv' /\ delivered'[1] = delivered[1] /\ Owed' \in Nat /\ Owed <= Owed'
    /\ Taken(no)' /\ \A i \in Nat : Taken(i) => Taken(i)'

\* The packets handed on are the ones owed, in a row.
HandsOnRun ==
    \E n \in Nat : /\ n >= 1 /\ Owed + n - 1 <= sent
                   /\ delivered' = delivered \o [k \in 1..n |-> Owed - 1 + k]

\* A run of packets from the one owed is handed on.
LEMMA RunKeeps ==
    ASSUME NumbersFit, IInv, rxEstablished, rxEstablished', sent' = sent,
           NEW no \in 1..sent, no + MaxAge > sent, DeliverRun(NumOf(no), no)
    PROVE  GateKept(no) /\ HandsOnRun
<1>a. PICK o \in Nat : o = Owed
  BY GateFacts
<1>0. o >= 2 /\ o <= sent + 1 /\ sent < o + SendWindow /\ sent \in Nat /\ sent <= Total
  BY <1>a, GateFacts
<1>1. /\ delivered \in Seq(1..Total) /\ Len(delivered) \in Nat /\ Len(delivered) >= 1
      /\ delivered[Len(delivered)] = o - 1 /\ deliverNext = NumOf(o)
  BY <1>a, GateFacts
<1>2. \A s \in DOMAIN parked : /\ s = NumOf(parked[s]) /\ parked[s] \in Nat
                               /\ parked[s] > o /\ parked[s] <= sent
                               /\ parked[s] <= o + ParkWindow
  BY <1>a, GateFacts
<1>b. /\ SendWindow \in Nat /\ SeqSpace \in Nat /\ SendWindow < SeqSpace
      /\ Len(delivered) \in Nat /\ Len(delivered) >= 1
  BY <1>1, FitBounds
<1>3. no = o
  <2>1. no \in Nat /\ no - o < SendWindow /\ o - no <= MaxAge
    BY <1>0, <1>1, FitBounds, SMTT(30)
  <2>2. Dist(NumOf(no), NumOf(o)) = 0
    BY <1>0, <1>1 DEF DeliverRun
  <2> QED BY <2>1, <2>2, <1>0, <1>1, Position
<1>4. PICK m \in 0..SeqSpace-1 :
         /\ \A k \in 1..m : Plus(NumOf(no), k) \in DOMAIN parked
         /\ Plus(NumOf(no), m + 1) \notin DOMAIN parked
         /\ delivered' = delivered \o
               [k \in 1..m+1 |-> IF k = 1 THEN no ELSE parked[Plus(NumOf(no), k - 1)]]
         /\ parked' = [s \in DOMAIN parked \ {Plus(NumOf(no), k) : k \in 1..m} |-> parked[s]]
         /\ deliverNext' = Plus(NumOf(no), m + 1)
  BY DEF DeliverRun
<1>5. m \in Nat /\ m < SeqSpace
  BY SpaceType
<1>6. \A k \in Nat : Plus(NumOf(no), k) = NumOf(o + k)
  BY <1>0, <1>1, <1>3, PlusNumOf
<1>7. ASSUME NEW k \in 1..m
      PROVE  NumOf(o + k) \in DOMAIN parked /\ parked[NumOf(o + k)] = o + k /\ o + k <= sent
  <2>0. k \in Nat /\ k <= m
    BY <1>5
  <2>1. NumOf(o + k) \in DOMAIN parked
    <3>1. Plus(NumOf(no), k) \in DOMAIN parked
      BY <1>4
    <3> QED BY <3>1, <2>0, <1>6
  <2>2. PICK i \in Nat : /\ i = parked[NumOf(o + k)] /\ NumOf(o + k) = NumOf(i)
                         /\ i > o /\ i <= sent
    BY <2>1, <1>2
  <2>3. i - (o + k) < SeqSpace /\ (o + k) - i < SeqSpace /\ o + k \in Int /\ i \in Int
    BY <2>0, <2>2, <1>0, <1>5, <1>b
  <2>4. i = o + k
    BY <2>2, <2>3, NumOfInjective
  <2> QED BY <2>1, <2>2, <2>4
<1> DEFINE n == m + 1
           run == [k \in 1..n |-> o - 1 + k]
<1>8. n \in Nat /\ n >= 1 /\ o + n - 1 <= sent
  <2>1. CASE m = 0
    BY <2>1, <1>0, <1>1, <1>3
  <2>2. CASE m # 0
    <3>1. m \in 1..m
      BY <2>2, <1>5
    <3> QED BY <3>1, <1>7, <1>5, <1>0, <1>1, SMTT(30)
  <2> QED BY <2>1, <2>2
<1>9. [k \in 1..m+1 |-> IF k = 1 THEN no ELSE parked[Plus(NumOf(no), k - 1)]] = run
  <2>1. ASSUME NEW k \in 1..m+1
        PROVE  (IF k = 1 THEN no ELSE parked[Plus(NumOf(no), k - 1)]) = o - 1 + k
    <3>1. CASE k = 1
      BY <3>1, <1>0, <1>1, <1>3
    <3>2. CASE k # 1
      <4>1. k - 1 \in 1..m /\ k - 1 \in Nat /\ o + (k - 1) = o - 1 + k
        BY <3>2, <1>0, <1>1, <1>5
      <4>2. parked[Plus(NumOf(no), k - 1)] = o + (k - 1)
        BY <4>1, <1>6, <1>7
      <4> QED BY <4>1, <4>2, <3>2
    <3> QED BY <3>1, <3>2
  <2> QED BY <2>1
<1>10. delivered' = delivered \o run
  BY <1>4, <1>9
<1>11. run \in Seq(1..Total) /\ Len(run) = n /\ \A k \in 1..n : run[k] = o - 1 + k
  <2>1. ASSUME NEW k \in 1..n PROVE o - 1 + k \in 1..Total
    <3>1. k \in Nat /\ k >= 1 /\ k <= n /\ n \in Nat
      BY <1>8
    <3> HIDE DEF n
    <3>2. o - 1 + k >= 1 /\ o - 1 + k <= Total /\ o - 1 + k \in Int
      <4>1. Total \in Nat
        BY SizesAssumption
      <4> QED BY <4>1, <3>1, <1>0, <1>8
    <3> QED BY <3>2, SizesAssumption
  <2> QED BY <2>1, <1>8, SeqDef
<1> HIDE DEF run
<1>12. /\ delivered' # <<>> /\ delivered'[1] = delivered[1] /\ Len(delivered') = Len(delivered) + n
       /\ Last(delivered') = run[n]
       /\ \A k \in 1..Len(delivered) : delivered'[k] = delivered[k]
       /\ \A k \in 1..n : delivered'[Len(delivered) + k] = o - 1 + k
  <2>1. delivered \in Seq(1..Total) /\ Len(delivered) >= 1 /\ Len(run) >= 1
    BY <1>1, <1>8, <1>11
  <2> HIDE DEF n
  <2>2. /\ delivered \o run # <<>> /\ (delivered \o run)[1] = delivered[1]
        /\ Len(delivered \o run) = Len(delivered) + Len(run)
        /\ Last(delivered \o run) = run[Len(run)]
        /\ \A k \in 1..Len(delivered) : (delivered \o run)[k] = delivered[k]
        /\ \A k \in 1..Len(run) : (delivered \o run)[Len(delivered) + k] = run[k]
    BY <2>1, <1>11, AppendedLast
  <2> QED BY <2>2, <1>10, <1>11
<1>13. Owed' = o + n
  <2>1. run[n] = o - 1 + n
    BY <1>8, <1>11
  <2> QED BY <2>1, <1>12, <1>0, <1>1, <1>8 DEF Owed
<1>14. deliverNext' = NumOf(o + n)
  BY <1>4, <1>6, <1>8
<1>15. ASSUME NEW s \in DOMAIN parked'
       PROVE  /\ s \in DOMAIN parked /\ parked'[s] = parked[s]
              /\ s = NumOf(parked'[s]) /\ parked'[s] \in o+n+1..sent
              /\ parked'[s] <= o + n + ParkWindow
  <2>1. /\ s \in DOMAIN parked /\ parked'[s] = parked[s]
        /\ s \notin {Plus(NumOf(no), k) : k \in 1..m}
    BY <1>4
  <2>2. PICK i \in Nat : i = parked[s] /\ s = NumOf(i) /\ i > o /\ i <= sent /\ i <= o + ParkWindow
    BY <2>1, <1>2
  <2>3. ~(i <= o + m)
    <3> SUFFICES ASSUME i <= o + m PROVE FALSE
      OBVIOUS
    <3>1. i - o \in 1..m /\ i - o \in Nat /\ o + (i - o) = i
      BY <2>2, <1>0, <1>1, <1>5
    <3>2. s = Plus(NumOf(no), i - o)
      BY <3>1, <2>2, <1>6
    <3> QED BY <3>1, <3>2, <2>1
  <2>4. i # o + n
    BY <2>1, <2>2, <1>4, <1>6, <1>8
  <2>5. i \in o+n+1..sent /\ i <= o + n + ParkWindow
    <3>1. i > o + n /\ n \in Nat /\ ParkWindow \in Nat
      BY <2>2, <2>3, <2>4, <1>0, <1>5, SizesAssumption
    <3> HIDE DEF n
    <3> QED BY <2>2, <3>1, <1>0
  <2> QED BY <2>1, <2>2, <2>5
<1>16. OnlyForward'
  <2>1. ASSUME NEW k \in 1..Len(delivered) + n - 1 PROVE delivered'[k] < delivered'[k+1]
    <3>1. CASE k < Len(delivered)
      <4>1. k \in 1..Len(delivered)-1 /\ k \in 1..Len(delivered) /\ k+1 \in 1..Len(delivered)
        BY <3>1, <1>b, <1>8
      <4>2. delivered[k] < delivered[k+1]
        BY <4>1 DEF IInv, GateInv, OnlyForward
      <4> QED BY <4>1, <4>2, <1>12
    <3>2. CASE k = Len(delivered)
      <4>1. delivered'[k] = o - 1
        BY <3>2, <1>0, <1>1, <1>12
      <4>2. delivered'[k+1] = o - 1 + 1
        BY <3>2, <1>8, <1>12
      <4> QED BY <4>1, <4>2, <1>0, <1>1
    <3>3. CASE k > Len(delivered)
      <4>1. PICK j \in 1..n-1 : k = Len(delivered) + j /\ j \in 1..n /\ j + 1 \in 1..n
                                /\ k + 1 = Len(delivered) + (j + 1)
        <5>1. k - Len(delivered) \in 1..n-1 /\ k = Len(delivered) + (k - Len(delivered))
              /\ k + 1 = Len(delivered) + (k - Len(delivered) + 1)
          BY <3>3, <1>0, <1>1, <1>8
        <5>2. k - Len(delivered) \in 1..n /\ k - Len(delivered) + 1 \in 1..n
          BY <5>1, <1>8
        <5> QED BY <5>1, <5>2
      <4>2. delivered'[k] = o - 1 + j /\ delivered'[k+1] = o - 1 + (j + 1)
        BY <4>1, <1>12
      <4> QED BY <4>2, <1>0, <1>1, <1>8
    <3> QED BY <3>1, <3>2, <3>3, <1>0, <1>1, <1>8
  <2> QED BY <2>1, <1>12 DEF OnlyForward
<1>17. WindowsFit => NoHole'
  <2> SUFFICES ASSUME WindowsFit, NEW k \in 1..Len(delivered) + n
               PROVE  delivered'[k] = delivered[1] + k - 1
    BY <1>12 DEF NoHole
  <2>1. \A j \in 1..Len(delivered) : delivered[j] = delivered[1] + j - 1
    BY DEF IInv, GateInv, NoHole
  <2>2. delivered[1] \in Nat /\ o - 1 = delivered[1] + Len(delivered) - 1
    <3>1. Len(delivered) \in 1..Len(delivered) /\ 1 \in 1..Len(delivered)
      BY <1>0, <1>1
    <3>2. delivered[1] \in 1..Total
      BY <3>1, <1>1, ElementOfSeq
    <3> QED BY <3>1, <3>2, <2>1, <1>0, <1>1, SizesAssumption
  <2>3. CASE k <= Len(delivered)
    BY <2>1, <2>3, <1>0, <1>1, <1>12
  <2>4. CASE k > Len(delivered)
    <3>1. PICK j \in 1..n : k = Len(delivered) + j
      <4>1. k - Len(delivered) \in 1..n /\ k = Len(delivered) + (k - Len(delivered))
        BY <2>4, <1>0, <1>1, <1>8
      <4> QED BY <4>1
    <3>2. delivered'[k] = o - 1 + j
      BY <3>1, <1>12
    <3>3. o - 1 + j = delivered[1] + k - 1
      BY <3>1, <2>2, <1>0, <1>1, <1>8, SMTT(30)
    <3> QED BY <3>2, <3>3
  <2> QED BY <2>3, <2>4, <1>0, <1>1, <1>8
<1>18. GateInv'
  <2>1. o + n <= sent + 1
    BY <1>0, <1>1, <1>8
  <2> QED BY <2>1, <1>12, <1>13, <1>14, <1>15, <1>16, <1>17 DEF GateInv
<1>19. Taken(no)'
  BY <1>3, <1>13, <1>8, <1>1 DEF Taken
<1>20. ASSUME NEW i \in Nat, Taken(i) PROVE Taken(i)'
  <2>1. CASE i < o + n
    BY <2>1, <1>13 DEF Taken
  <2>2. CASE ~(i < o + n)
    <3>1. PICK s \in DOMAIN parked : parked[s] = i
      BY <1>a, <1>20, <2>2, <1>0, <1>1, <1>8 DEF Taken
    <3>2. s \in DOMAIN parked'
      <4> SUFFICES ASSUME NEW k \in 1..m, s = Plus(NumOf(no), k) PROVE FALSE
        BY <1>4
      <4>1. parked[s] = o + k
        BY <1>5, <1>6, <1>7
      <4> QED BY <4>1, <3>1, <2>2, <1>0, <1>1, <1>5
    <3>3. parked'[s] = i
      BY <3>1, <3>2, <1>15
    <3> QED BY <3>2, <3>3 DEF Taken
  <2> QED BY <2>1, <2>2
<1>21. Owed' \in Nat /\ Owed <= Owed' /\ Owed + n - 1 <= sent
       /\ delivered' = delivered \o [k \in 1..n |-> Owed - 1 + k]
  BY <1>a, <1>0, <1>8, <1>10, <1>13 DEF run
<1>22. HandsOnRun
  BY <1>8, <1>21 DEF HandsOnRun
<1> QED BY <1>12, <1>18, <1>19, <1>20, <1>21, <1>22 DEF GateKept

\* Behind the cursor nothing changes.
LEMMA DropKeeps ==
    ASSUME NumbersFit, IInv, rxEstablished, rxEstablished', sent' = sent,
           NEW no \in 1..sent, no + MaxAge > sent, DropBehind(NumOf(no))
    PROVE  GateKept(no)
<1>1. delivered' = delivered /\ parked' = parked /\ deliverNext' = deliverNext
  BY DEF DropBehind
<1>2. Owed' = Owed /\ Owed \in Nat
  BY <1>1, GateFacts DEF Owed
<1>a. PICK o \in Nat : o = Owed
  BY GateFacts
<1>3. no < o
  <2>1. o <= sent + 1 /\ sent \in Nat /\ sent < o + SendWindow /\ deliverNext = NumOf(o)
    BY <1>a, GateFacts
  <2>2. no \in Nat /\ no - o < SendWindow /\ o - no <= MaxAge
    BY <2>1, SizesAssumption
  <2>3. Dist(NumOf(no), NumOf(o)) > Half
    BY <2>1 DEF DropBehind
  <2> QED BY <2>2, <2>3, Position
<1>4. GateInv'
  BY <1>1, <1>2 DEF IInv, GateInv, OnlyForward, NoHole
<1>5. \A i : Taken(i)' <=> Taken(i)
  BY <1>1, <1>2 DEF Taken
<1>6. Taken(no)
  BY <1>3, <1>a DEF Taken
<1> QED BY <1>1, <1>2, <1>4, <1>5, <1>6 DEF GateKept

\* Ahead of a gap the packet is parked under its own number.
LEMMA ParkKeeps ==
    ASSUME NumbersFit, IInv, rxEstablished, rxEstablished', sent' = sent,
           NEW no \in 1..sent, no + MaxAge > sent, Park(NumOf(no), no)
    PROVE  GateKept(no) /\ delivered' = delivered
<1>1. /\ delivered' = delivered /\ deliverNext' = deliverNext
      /\ DOMAIN parked' = DOMAIN parked \cup {NumOf(no)}
      /\ \A s \in DOMAIN parked' : parked'[s] = IF s = NumOf(no) THEN no ELSE parked[s]
  BY DEF Park
<1>2. Owed' = Owed /\ Owed \in Nat
  BY <1>1, GateFacts DEF Owed
<1>a. PICK o \in Nat : o = Owed
  BY GateFacts
<1>3. no \in o+1..o+ParkWindow
  <2>1. o <= sent + 1 /\ sent \in Nat /\ sent < o + SendWindow /\ deliverNext = NumOf(o)
    BY <1>a, GateFacts
  <2>2. no \in Nat /\ no - o < SendWindow /\ o - no <= MaxAge
    BY <2>1, SizesAssumption
  <2>3. Dist(NumOf(no), NumOf(o)) \in 1..ParkWindow
    BY <2>1 DEF Park
  <2> QED BY <2>2, <2>3, Position
<1>4. ASSUME NEW s \in DOMAIN parked'
      PROVE  /\ s = NumOf(parked'[s]) /\ parked'[s] \in o+1..sent
             /\ parked'[s] <= o + ParkWindow
  <2>1. CASE s = NumOf(no)
    <3>1. parked'[s] = no
      BY <1>1, <2>1
    <3>2. no \in o+1..sent /\ no <= o + ParkWindow
      BY <1>3, SizesAssumption DEF IInv, TypeOK
    <3> QED BY <3>1, <3>2, <2>1
  <2>2. CASE s # NumOf(no)
    <3>1. parked'[s] = parked[s] /\ s \in DOMAIN parked
      BY <1>1, <2>2
    <3>2. s = NumOf(parked[s]) /\ parked[s] \in Owed+1..sent /\ parked[s] <= Owed + ParkWindow
      BY <3>1 DEF IInv, GateInv
    <3> QED BY <3>1, <3>2, <1>a
  <2> QED BY <2>1, <2>2
<1>5. GateInv'
  BY <1>1, <1>2, <1>4, <1>a DEF IInv, GateInv, OnlyForward, NoHole
<1>6. Taken(no)'
  <2>1. NumOf(no) \in DOMAIN parked' /\ parked'[NumOf(no)] = no
    BY <1>1
  <2> QED BY <2>1 DEF Taken
<1>7. ASSUME NEW i \in Nat, Taken(i) PROVE Taken(i)'
  <2>1. CASE i < Owed
    BY <2>1, <1>2 DEF Taken
  <2>2. CASE \E s \in DOMAIN parked : parked[s] = i
    <3>1. PICK s \in DOMAIN parked : parked[s] = i
      BY <2>2
    <3>2. CASE s # NumOf(no)
      <4>1. s \in DOMAIN parked' /\ parked'[s] = i
        BY <3>1, <3>2, <1>1
      <4> QED BY <4>1 DEF Taken
    <3>3. CASE s = NumOf(no)
      <4>1. i <= sent /\ NumOf(i) = NumOf(no) /\ i > o /\ sent < o + SendWindow /\ sent \in Nat
        BY <3>1, <3>3, <1>a, GateFacts
      <4>2. no \in Int /\ no > o /\ no <= sent
        BY <1>3, <4>1, SizesAssumption
      <4>3. i - no < SendWindow /\ no - i < SendWindow
        BY <4>1, <4>2, SizesAssumption
      <4>4. i - no < SeqSpace /\ no - i < SeqSpace
        BY <4>3, <4>2, FitBounds
      <4>5. i = no
        BY <4>1, <4>2, <4>4, NumOfInjective
      <4> QED BY <4>5, <1>6
    <3> QED BY <3>2, <3>3
  <2> QED BY <1>7, <2>1, <2>2 DEF Taken
<1> QED BY <1>1, <1>2, <1>5, <1>6, <1>7 DEF GateKept

\* The gate gives up on a gap only when the switcher runs past the park window; all that was
\* parked is behind the packet handed on.
LEMMA ResyncKeeps ==
    ASSUME NumbersFit, IInv, rxEstablished, rxEstablished', sent' = sent,
           NEW no \in 1..sent, no + MaxAge > sent, Resync(NumOf(no), no)
    PROVE  GateKept(no) /\ ~WindowsFit
<1>a. PICK o \in Nat : o = Owed
  BY GateFacts
<1>b. /\ o <= sent + 1 /\ sent \in Nat /\ sent < o + SendWindow /\ deliverNext = NumOf(o)
      /\ o >= 2 /\ ParkWindow \in Nat /\ SendWindow \in Nat
  BY <1>a, GateFacts, SizesAssumption
<1>1. /\ delivered' = Append(delivered, no) /\ parked' = <<>>
      /\ deliverNext' = NumOf(no + 1)
  <2>1. Plus(NumOf(no), 1) = NumOf(no + 1)
    BY <1>b, PlusNumOf
  <2> QED BY <2>1 DEF Resync
<1>2. /\ delivered \in Seq(1..Total) /\ Len(delivered) \in Nat /\ Len(delivered) >= 1
      /\ delivered[Len(delivered)] = o - 1
  BY <1>a, GateFacts
<1>3. no > o + ParkWindow /\ no \in Nat /\ no > o
  <2>2. no \in Nat /\ no - o < SendWindow /\ o - no <= MaxAge
    BY <1>b, SizesAssumption
  <2>3. Dist(NumOf(no), NumOf(o)) \in ParkWindow+1..Half
    BY <1>b DEF Resync
  <2>4. no > o + ParkWindow
    BY <2>2, <2>3, Position
  <2> QED BY <2>2, <2>4, <1>b
<1>4. ~WindowsFit
  <2> SUFFICES ASSUME SendWindow <= ParkWindow + 1 PROVE FALSE
    BY DEF WindowsFit
  <2> QED BY <1>3, <1>b
<1>5. /\ Len(delivered') = Len(delivered) + 1 /\ delivered'[Len(delivered)+1] = no
      /\ \A k \in 1..Len(delivered) : delivered'[k] = delivered[k]
  BY <1>1, <1>2
<1>6. Owed' = no + 1 /\ delivered' # <<>> /\ delivered'[1] = delivered[1]
  <2>1. Last(delivered') = no
    BY <1>5 DEF Last
  <2>2. 1 \in 1..Len(delivered)
    BY <1>2
  <2>3. delivered' # <<>>
    BY <1>1
  <2> QED BY <2>1, <2>2, <2>3, <1>5 DEF Owed
<1>7. DOMAIN parked' = {}
  BY <1>1
<1>8. OnlyForward'
  <2>1. ASSUME NEW k \in 1..Len(delivered) PROVE delivered'[k] < delivered'[k+1]
    <3>1. CASE k = Len(delivered)
      BY <3>1, <1>b, <1>2, <1>3, <1>5
    <3>2. CASE k # Len(delivered)
      <4>1. k \in 1..Len(delivered)-1 /\ k+1 \in 1..Len(delivered)
        BY <3>2, <1>2
      <4>2. delivered[k] < delivered[k+1]
        BY <4>1 DEF IInv, GateInv, OnlyForward
      <4> QED BY <4>1, <4>2, <1>5
    <3> QED BY <3>1, <3>2
  <2>2. Len(delivered') - 1 = Len(delivered)
    BY <1>2, <1>5
  <2> QED BY <2>1, <2>2 DEF OnlyForward
<1>9. GateInv'
  <2>1. no + 1 <= sent + 1
    BY <1>b
  <2>2. ~WindowsFit'
    BY <1>4 DEF WindowsFit, NumbersFit, NumOf
  <2> QED BY <2>1, <2>2, <1>1, <1>6, <1>7, <1>8 DEF GateInv
<1>10. Taken(no)'
  <2>1. no < no + 1
    BY <1>3
  <2> QED BY <2>1, <1>6 DEF Taken
<1>11. ASSUME NEW i \in Nat, Taken(i) PROVE Taken(i)'
  <2>1. i < o \/ i <= o + ParkWindow
    <3>1. ASSUME NEW s \in DOMAIN parked, parked[s] = i PROVE i <= o + ParkWindow
      BY <3>1, <1>a, GateFacts
    <3> QED BY <3>1, <1>a, <1>11 DEF Taken
  <2>2. i < no + 1
    BY <2>1, <1>3, <1>b
  <2> QED BY <2>2, <1>6 DEF Taken
<1>12. Owed' \in Nat /\ Owed <= Owed'
  BY <1>a, <1>3, <1>6
<1> QED BY <1>4, <1>6, <1>9, <1>10, <1>11, <1>12 DEF GateKept
---------------------------------------------------------------------------
(* The acknowledged number *)

\* What is remembered after one more number is that number, or was remembered before.
LEMMA RememberOnly ==
    ASSUME NEW w \in Seq(Heard), Len(w) <= SeenMax, NEW e \in Heard
    PROVE  /\ Remember(w, e) \in Seq(Heard) /\ Len(Remember(w, e)) <= SeenMax
           /\ \A p \in 1..Len(Remember(w, e)) :
                 Remember(w, e)[p] = e \/ \E q \in 1..Len(w) : Remember(w, e)[p] = w[q]
<1> DEFINE r == Remember(w, e)
<1>1. PICK d \in 1..Len(w)+1 : Appended(w, e, d, r)
  BY RememberEffect
<1> HIDE DEF r
<1>2. /\ r \in Seq(Heard) /\ Len(r) \in 1..SeenMax /\ r[Len(r)] = e
      /\ Len(r) = IF d = Len(w) + 1 THEN Len(w) + 1 ELSE Len(w)
      /\ Len(w) \in Nat /\ d \in Nat
  BY <1>1 DEF Appended
<1>3. ASSUME NEW p \in 1..Len(r) PROVE r[p] = e \/ \E q \in 1..Len(w) : r[p] = w[q]
  <2>1. CASE p = Len(r)
    BY <2>1, <1>2
  <2>2. CASE p # Len(r)
    <3> DEFINE q == IF p < d THEN p ELSE p + 1
    <3>1. p \in 1..Len(r)-1
      BY <2>2, <1>2
    <3>2. r[p] = w[q]
      BY <3>1, <1>1 DEF Appended
    <3>3. q \in 1..Len(w)
      BY <3>1, <1>2
    <3> QED BY <3>2, <3>3
  <2> QED BY <2>1, <2>2
<1>4. Len(r) <= SeenMax
  BY <1>2, SizesAssumption
<1> QED BY <1>2, <1>3, <1>4 DEF r

\* What an ACK on its way may say while the client is at packet a.
AcksSay(a) ==
    \A x \in acks : x \in ControlSeqs \/ \E i \in 1..a : x = NumOf(i) /\ i + MaxAge >= sent

\* The packet the ACK number is that of.
LEMMA AckFacts ==
    ASSUME NumbersFit, IInv, rxEstablished
    PROVE  \E a \in 1..Owed-1 :
              /\ a \in delivered[1]..Owed-1 /\ a <= sent
              /\ ackNumber = NumOf(a) /\ acked <= a /\ sent <= a + SendWindow
              /\ AcksSay(a) /\ WindowInv(receivedPackets, a)
<1>1. PICK a \in delivered[1]..Owed-1 :
         /\ ackNumber = NumOf(a) /\ acked <= a /\ AcksSay(a) /\ WindowInv(receivedPackets, a)
  BY DEF IInv, AckInv, AcksSay
<1>2. delivered[1] \in 1..Total
  <2>1. delivered \in Seq(1..Total) /\ 1 \in 1..Len(delivered)
    BY GateFacts
  <2> QED BY <2>1, ElementOfSeq
<1>3. Owed \in Nat /\ Owed <= sent + 1 /\ sent \in Nat
  BY GateFacts
<1>4. delivered[1] \in Nat /\ delivered[1] >= 1
  BY <1>2, SizesAssumption
<1>5. a \in 1..Owed-1 /\ a <= sent
  BY <1>3, <1>4
<1>6. sent <= a + SendWindow
  <2>1. sent <= acked + SendWindow /\ acked \in Nat /\ SendWindow \in Nat
    BY SizesAssumption DEF IInv, WireInv, TypeOK
  <2> QED BY <2>1, <1>1, <1>3, <1>5
<1> QED BY <1>1, <1>5, <1>6

\* An ACK that is said now says the ACK number of now.
LEMMA SaysAck ==
    ASSUME NumbersFit, IInv, sent' = sent, NEW a \in Nat, AcksSay(a),
           NEW b \in Nat, a <= b, b >= 1, acked <= b, ackNumber' = NumOf(b),
           OweAck \/ UNCHANGED acks \/ acks' = acks \cup {ackNumber'}
    PROVE  AcksSay(b)'
<1>1. b + MaxAge >= sent
  <2>1. /\ sent <= acked + SendWindow /\ acked \in Nat /\ sent \in Nat
        /\ SendWindow \in Nat /\ MaxAge \in Nat
    BY SizesAssumption DEF IInv, WireInv, TypeOK
  <2>2. SendWindow <= MaxAge
    BY DEF NumbersFit
  <2> QED BY <2>1, <2>2
<1>2. acks' = acks \/ acks' = acks \cup {ackNumber'}
  BY DEF OweAck
<1> SUFFICES ASSUME NEW x \in acks', x \notin ControlSeqs
             PROVE  \E i \in 1..b : x = NumOf(i) /\ i + MaxAge >= sent
  BY DEF AcksSay, NumOf
<1>3. CASE x = NumOf(b)
  BY <1>1, <1>3
<1>4. CASE x \in acks
  <2>1. PICK i \in 1..a : x = NumOf(i) /\ i + MaxAge >= sent
    BY <1>4 DEF AcksSay
  <2>2. i \in 1..b
    OBVIOUS
  <2> QED BY <2>1, <2>2
<1> QED BY <1>2, <1>3, <1>4

\* Nothing that is remembered is the packet owed.
LEMMA OwedIsNew ==
    ASSUME GateInv', TakenInv', rxEstablished', Owed' \in Nat, Owed' >= 1, sent' \in Nat
    PROVE  \A p \in 1..Len(receivedPackets') : receivedPackets'[p].no # Owed'
<1> SUFFICES ASSUME NEW p \in 1..Len(receivedPackets'), receivedPackets'[p].no = Owed'
             PROVE  FALSE
  OBVIOUS
<1>1. PICK s \in DOMAIN parked' : parked'[s] = Owed'
  BY DEF TakenInv
<1>2. parked'[s] \in Owed'+1..sent'
  BY DEF GateInv
<1>3. PICK o \in Nat : o = Owed'
  OBVIOUS
<1>4. o \in o+1..sent'
  BY <1>1, <1>2, <1>3
<1> QED BY <1>4

\* One more number is remembered and the ACK number walks on: never up to the packet owed.
LEMMA AckKept ==
    ASSUME NumbersFit, IInv, TypeOK', rxEstablished, rxEstablished',
           sent' = sent, acked' = acked,
           GateInv', TakenInv', delivered'[1] = delivered[1], Owed' \in Nat, Owed <= Owed',
           NEW e \in Heard,
           \/ e.no = 0 /\ e.seq \in ControlSeqs
           \/ e.no \in 1..sent /\ e.seq = NumOf(e.no) /\ e.no + MaxAge > sent,
           receivedPackets' = Remember(receivedPackets, e), WalkAck(receivedPackets'),
           OweAck \/ UNCHANGED acks
    PROVE  AckInv'
<1> DEFINE w == receivedPackets
           r == Remember(w, e)
<1>1. PICK a \in 1..Owed-1 :
         /\ a \in delivered[1]..Owed-1 /\ a <= sent
         /\ ackNumber = NumOf(a) /\ acked <= a /\ sent <= a + SendWindow
         /\ AcksSay(a) /\ WindowInv(w, a)
  BY AckFacts
<1>2. TypeOK /\ w \in Seq(Heard) /\ Len(w) <= SeenMax /\ sent \in Nat /\ acked \in Nat
  BY DEF IInv, TypeOK
<1>3. a \in 0..sent /\ a \in Nat /\ a >= 1 /\ Owed \in Nat
  BY <1>1, <1>2, GateFacts
<1>4. r \in Seq(Heard) /\ Len(r) <= SeenMax
  BY <1>2, RememberOnly
<1>5. WindowInv(r, a)
  BY <1>1, <1>2, <1>3, RememberKeeps
<1>6. Owed' \in a+1..sent+1
  <2>1. Owed' <= sent + 1
    BY DEF GateInv
  <2> QED BY <2>1, <1>1, <1>2, <1>3
<1>7. \A p \in 1..Len(r) : r[p].no # Owed'
  <2>1. Owed' >= 1
    BY <1>3, <1>6
  <2>2. \A p \in 1..Len(receivedPackets') : receivedPackets'[p].no # Owed'
    BY <2>1, <1>2, OwedIsNew
  <2> QED BY <2>2
<1> HIDE DEF r, w
<1>8. PICK b \in a..Owed'-1 : ackNumber' = NumOf(b) /\ WindowInv(r, b)
  <2>1. WalkAck(r)
    BY DEF r, w
  <2> QED BY <2>1, <1>1, <1>2, <1>3, <1>4, <1>5, <1>6, <1>7, WalkKeeps
<1>9. b \in delivered'[1]..Owed'-1 /\ b \in Nat /\ a <= b /\ acked' <= b /\ acked <= b /\ b >= 1
  <2>1. PICK f \in Nat : f = delivered'[1] /\ f <= a
    <3>1. delivered \in Seq(1..Total) /\ 1 \in 1..Len(delivered)
      BY GateFacts
    <3>2. delivered[1] \in 1..Total
      BY <3>1, ElementOfSeq
    <3> QED BY <3>2, <1>1, SizesAssumption
  <2>2. PICK o \in Nat : o = Owed'
    OBVIOUS
  <2>3. b \in a..o-1
    BY <2>2
  <2>4. b \in Nat /\ a <= b /\ b <= o - 1 /\ b >= 1 /\ acked <= b
    BY <2>3, <1>1, <1>2, <1>3
  <2>5. b \in f..o-1
    BY <2>1, <2>4, <1>3
  <2> QED BY <2>1, <2>2, <2>4, <2>5
<1>10. AcksSay(b)'
  BY <1>1, <1>3, <1>8, <1>9, SaysAck
<1>11. WindowInv(receivedPackets, b)'
  BY <1>8 DEF WindowInv, EntryInv, Newer, NumOf, r, w
<1> QED BY <1>8, <1>9, <1>10, <1>11 DEF AckInv, AcksSay, NumOf
---------------------------------------------------------------------------
(* One datagram read *)

\* What a packet number can be once the packet is on the wire.
LEMMA NotControl ==
    ASSUME NumbersFit, NEW i \in 1..Total
    PROVE  NumOf(i) \notin ControlSeqs
<1>1. i \in 1..Total+1
  BY SizesAssumption
<1> QED BY <1>1 DEF NumbersFit

\* What may change on the queue to the consumer when packet no is read.
HandsOn(no) ==
    \/ delivered' = delivered
    \/ rxEstablished /\ HandsOnRun
    \/ ~rxEstablished /\ delivered' = <<no>>
    \/ rxEstablished /\ ~WindowsFit

\* A packet inside the session: the window, the ACK number and the gate together.
LEMMA InSessionKeeps ==
    ASSUME NumbersFit, IInv, TypeOK', NEW p \in Packets, p.no <= sent, p.no + MaxAge > sent,
           sent' = sent, acked' = acked, InSession(p), OweAck
    PROVE  GateInv' /\ TakenInv' /\ AckInv' /\ rxEstablished' /\ HandsOn(p.no)
<1> DEFINE no == p.no
           e == [seq |-> NumOf(no), no |-> no]
<1>1. sent \in Nat /\ sent <= Total /\ Total \in Nat /\ p.no \in 1..Total
  BY SizesAssumption DEF IInv, TypeOK, Packets
<1>2. no \in 1..sent /\ no \in Nat /\ e.no = no /\ e.seq = NumOf(no)
  BY <1>1
<1>3. e \in Heard
  BY <1>1, <1>2, NumOfType DEF Heard
<1>4. rxEstablished /\ rxEstablished'
  BY DEF InSession
<1>5. receivedPackets' = Remember(receivedPackets, e) /\ WalkAck(receivedPackets')
  BY DEF InSession
<1> HIDE DEF e, no
<1>6. GateKept(no) /\ HandsOn(no)
  <2>0. no + MaxAge > sent
    BY DEF no
  <2>1. CASE DeliverRun(NumOf(no), no)
    BY <2>0, <2>1, <1>2, <1>4, RunKeeps DEF HandsOn
  <2>2. CASE DropBehind(NumOf(no))
    <3>1. delivered' = delivered
      BY <2>2 DEF DropBehind
    <3> QED BY <3>1, <2>0, <2>2, <1>2, <1>4, DropKeeps DEF HandsOn
  <2>3. CASE Park(NumOf(no), no)
    BY <2>0, <2>3, <1>2, <1>4, ParkKeeps DEF HandsOn
  <2>4. CASE Resync(NumOf(no), no)
    BY <2>0, <2>4, <1>2, <1>4, ResyncKeeps DEF HandsOn
  <2> QED BY <2>1, <2>2, <2>3, <2>4 DEF InSession, no
<1>7. TakenInv'
  <2>1. receivedPackets \in Seq(Heard) /\ Len(receivedPackets) <= SeenMax
    BY DEF IInv, TypeOK
  <2> SUFFICES ASSUME NEW q \in 1..Len(receivedPackets'), NEW i, i = receivedPackets'[q].no, i # 0
               PROVE  Taken(i)'
    BY DEF TakenInv, Taken
  <2>2. receivedPackets'[q] = e \/ \E x \in 1..Len(receivedPackets) : receivedPackets'[q] = receivedPackets[x]
    BY <2>1, <1>3, <1>5, RememberOnly
  <2>3. CASE receivedPackets'[q] = e
    BY <2>3, <1>2, <1>6 DEF GateKept
  <2>4. CASE \E x \in 1..Len(receivedPackets) : receivedPackets'[q] = receivedPackets[x]
    <3>1. PICK x \in 1..Len(receivedPackets) : receivedPackets'[q] = receivedPackets[x]
      BY <2>4
    <3>2. receivedPackets[x] \in Heard
      BY <2>1, ElementOfSeq
    <3>3. receivedPackets[x].no \in Nat
      BY <3>2 DEF Heard
    <3>4. Taken(receivedPackets[x].no)
      BY <3>1, <1>4 DEF IInv, TakenInv, Taken
    <3>5. i \in Nat /\ Taken(i)
      BY <3>1, <3>3, <3>4
    <3> QED BY <3>5, <1>6 DEF GateKept
  <2> QED BY <2>2, <2>3, <2>4
<1>8. AckInv'
  <2>1. GateInv' /\ delivered'[1] = delivered[1] /\ Owed' \in Nat /\ Owed <= Owed'
    BY <1>6 DEF GateKept
  <2>2. e.no \in 1..sent /\ e.seq = NumOf(e.no) /\ e.no + MaxAge > sent
    BY <1>2 DEF no
  <2> QED BY <2>1, <2>2, <1>3, <1>4, <1>5, <1>7, AckKept
<1> QED BY <1>4, <1>6, <1>7, <1>8 DEF GateKept, no

\* The first reliable packet: the cursor, the ACK number and the window start together.
LEMMA BaselineKeeps ==
    ASSUME NumbersFit, IInv, TypeOK', NEW p \in Packets, p.no <= sent, p.no + MaxAge > sent,
           sent' = sent, acked' = acked, Baseline(p), OweAck
    PROVE  GateInv' /\ TakenInv' /\ AckInv' /\ rxEstablished' /\ HandsOn(p.no)
<1> PICK no \in 1..Total : no = p.no
  BY DEF Packets
<1>1. sent \in Nat /\ sent <= Total /\ Total \in Nat /\ no <= sent /\ no + MaxAge > sent /\ no \in Nat
  BY SizesAssumption DEF IInv, TypeOK
<1> DEFINE e == [seq |-> NumOf(no), no |-> no]
           w == receivedPackets
<1>2. e \in Heard /\ e.no = no /\ e.seq = NumOf(no)
  BY <1>1, NumOfType DEF Heard
<1>3. /\ ~rxEstablished /\ rxEstablished'
      /\ receivedPackets' = Remember(w, e) /\ ackNumber' = NumOf(no)
      /\ deliverNext' = Plus(NumOf(no), 1) /\ delivered' = Append(delivered, no)
      /\ parked' = parked
  BY DEF Baseline
<1>4. /\ delivered = <<>> /\ acked = 0 /\ DOMAIN parked = {} /\ acks \subseteq ControlSeqs
      /\ \A q \in 1..Len(w) : w[q].no = 0 /\ w[q].seq \in ControlSeqs
  BY <1>3 DEF IInv, BeforeInv
<1> HIDE DEF e
<1>5. delivered' = <<no>> /\ Len(delivered') = 1 /\ delivered'[1] = no /\ delivered' # <<>>
  BY <1>3, <1>4
<1>6. Owed' = no + 1
  <2>1. Last(delivered') = no
    BY <1>5 DEF Last
  <2> QED BY <2>1 DEF Owed
<1>7. GateInv'
  <2>1. deliverNext' = NumOf(no + 1)
    <3>1. no \in Int /\ 1 \in Int
      BY <1>1
    <3>2. Plus(NumOf(no), 1) = NumOf(no + 1)
      BY <3>1, PlusNumOf, Zenon
    <3> QED BY <3>2, <1>3
  <2>2. no + 1 <= sent + 1
    BY <1>1
  <2>3. OnlyForward'
    BY <1>5 DEF OnlyForward
  <2>4. NoHole'
    BY <1>1, <1>5 DEF NoHole
  <2> QED BY <2>1, <2>2, <2>3, <2>4, <1>3, <1>4, <1>5, <1>6 DEF GateInv
<1>8. w \in Seq(Heard) /\ Len(w) <= SeenMax /\ TypeOK
  BY DEF IInv, TypeOK
<1>9. TakenInv'
  <2> SUFFICES ASSUME NEW q \in 1..Len(receivedPackets'), receivedPackets'[q].no # 0
               PROVE  receivedPackets'[q].no < Owed'
    BY DEF TakenInv
  <2>1. receivedPackets'[q] = e
    <3>1. receivedPackets'[q] = e \/ \E x \in 1..Len(w) : receivedPackets'[q] = w[x]
      BY <1>2, <1>3, <1>8, RememberOnly
    <3> QED BY <3>1, <1>4
  <2>2. no < no + 1
    BY <1>1
  <2> QED BY <2>1, <2>2, <1>2, <1>6
<1>10. AckInv'
  <2>1. WindowInv(w, no)
    BY <1>4 DEF WindowInv, EntryInv
  <2>2. sent <= no + SendWindow /\ no \in 0..sent
    <3>1. sent <= acked + SendWindow /\ SendWindow \in Nat
      BY SizesAssumption DEF IInv, WireInv
    <3> QED BY <3>1, <1>1, <1>4
  <2>3. e.no \in 1..sent /\ e.seq = NumOf(e.no) /\ e.no + MaxAge > sent
    BY <1>1, <1>2
  <2>4. WindowInv(Remember(w, e), no)
    BY <2>1, <2>2, <2>3, <1>2, <1>8, RememberKeeps
  <2>5. WindowInv(receivedPackets, no)'
    BY <2>4, <1>3 DEF WindowInv, EntryInv, Newer, NumOf
  <2>6. AcksSay(0)
    BY <1>4 DEF AcksSay
  <2>7. no >= 1 /\ acked <= no
    BY <1>1, <1>4
  <2>8. AcksSay(no)'
    BY <2>6, <2>7, <1>1, <1>3, SaysAck
  <2>9. no \in delivered'[1]..Owed'-1 /\ acked' <= no
    <3>1. no \in no..no+1-1 /\ acked <= no
      BY <1>1, <2>7
    <3> QED BY <3>1, <1>5, <1>6
  <2> QED BY <2>5, <2>8, <2>9, <1>3 DEF AckInv, AcksSay, NumOf
<1>11. HandsOn(no)
  BY <1>3, <1>5 DEF HandsOn
<1> QED BY <1>3, <1>7, <1>9, <1>10, <1>11

\* A resend of something remembered: only what is on its way to the switcher changes.
LEMMA ReAckKeeps ==
    ASSUME NumbersFit, IInv, TypeOK', NEW p \in Packets, p.no <= sent, p.no + MaxAge > sent,
           sent' = sent, acked' = acked, ReAck(p), OweAck
    PROVE  GateInv' /\ TakenInv' /\ AckInv' /\ rxEstablished' /\ HandsOn(p.no)
<1>1. UNCHANGED <<receivedPackets, rxEstablished, ackNumber, deliverNext, parked, delivered>>
  BY DEF ReAck
<1>2. rxEstablished
  <2> SUFFICES ASSUME ~rxEstablished PROVE FALSE
    OBVIOUS
  <2>1. PICK q \in 1..Len(receivedPackets) : receivedPackets[q].seq = NumOf(p.no)
    BY DEF ReAck, Seen
  <2>2. receivedPackets[q].seq \in ControlSeqs
    BY DEF IInv, BeforeInv
  <2>3. p.no \in 1..Total
    BY DEF Packets
  <2> QED BY <2>1, <2>2, <2>3, NotControl
<1>3. Owed' = Owed
  BY <1>1 DEF Owed
<1>4. GateInv'
  BY <1>1, <1>2, <1>3 DEF IInv, GateInv, OnlyForward, NoHole
<1>5. TakenInv'
  BY <1>1, <1>2, <1>3 DEF IInv, TakenInv
<1>6. AckInv'
  <2>1. PICK a \in 1..Owed-1 :
           /\ a \in delivered[1]..Owed-1 /\ a <= sent
           /\ ackNumber = NumOf(a) /\ acked <= a /\ sent <= a + SendWindow
           /\ AcksSay(a) /\ WindowInv(receivedPackets, a)
    BY <1>2, AckFacts
  <2>2. a \in Nat /\ a >= 1 /\ ackNumber' = NumOf(a)
    BY <2>1, <1>1, <1>2, GateFacts
  <2>3. AcksSay(a)'
    BY <2>1, <2>2, SaysAck
  <2>4. WindowInv(receivedPackets, a)'
    BY <2>1, <1>1 DEF WindowInv, EntryInv, Newer, NumOf
  <2> QED BY <2>1, <2>2, <2>3, <2>4, <1>1, <1>3 DEF AckInv, AcksSay, NumOf
<1>7. HandsOn(p.no)
  BY <1>1 DEF HandsOn
<1> QED BY <1>1, <1>2, <1>4, <1>5, <1>6, <1>7

\* Every way a reliable packet is read.
LEMMA ReadKeeps ==
    ASSUME NumbersFit, IInv, TypeOK', NEW p \in net, Read(p), sent' = sent, acked' = acked,
           net' \subseteq net
    PROVE  IInv' /\ HandsOn(p.no)
<1>1. p \in Packets /\ p.no <= sent /\ p.no + MaxAge > sent
  BY DEF IInv, TypeOK, WireInv
<1>2. OweAck
  BY DEF Read
<1>3. GateInv' /\ TakenInv' /\ AckInv' /\ rxEstablished' /\ HandsOn(p.no)
  BY <1>1, <1>2, InSessionKeeps, BaselineKeeps, ReAckKeeps DEF Read
<1>4. WireInv'
  BY DEF IInv, WireInv
<1> QED BY <1>3, <1>4 DEF IInv, BeforeInv

\* An unreliable frame: its number is remembered, and the ACK number walks over it.
LEMMA ControlKeeps ==
    ASSUME NumbersFit, IInv, TypeOK', NEW s \in ControlSeqs, ReceiveControl(s)
    PROVE  IInv' /\ delivered' = delivered
<1> DEFINE e == [seq |-> s, no |-> 0]
<1>1. e \in Heard /\ e.no = 0 /\ e.seq = s
  BY SizesAssumption DEF Heard, Seqs
<1> HIDE DEF e
<1>2. /\ UNCHANGED <<sent, acked, net, rxEstablished, deliverNext, parked, delivered>>
      /\ receivedPackets' = Remember(receivedPackets, e)
      /\ IF rxEstablished THEN WalkAck(receivedPackets') ELSE ackNumber' = s
      /\ UNCHANGED <<acksOwed, acks>> \/ OweAck
  BY DEF ReceiveControl, e
<1>3. receivedPackets \in Seq(Heard) /\ Len(receivedPackets) <= SeenMax
  BY DEF IInv, TypeOK
<1>4. \A q \in 1..Len(receivedPackets') :
         receivedPackets'[q] = e \/ \E x \in 1..Len(receivedPackets) : receivedPackets'[q] = receivedPackets[x]
  BY <1>1, <1>2, <1>3, RememberOnly
<1>5. WireInv'
  BY <1>2 DEF IInv, WireInv
<1>6. Owed' = Owed
  BY <1>2 DEF Owed
<1>7. CASE rxEstablished
  <2>1. GateInv'
    BY <1>2, <1>6 DEF IInv, GateInv, OnlyForward, NoHole
  <2>2. TakenInv'
    <3> SUFFICES ASSUME NEW q \in 1..Len(receivedPackets'), receivedPackets'[q].no # 0
                 PROVE  \/ receivedPackets'[q].no < Owed
                        \/ \E x \in DOMAIN parked : parked[x] = receivedPackets'[q].no
      BY <1>2, <1>6 DEF TakenInv
    <3>1. PICK x \in 1..Len(receivedPackets) : receivedPackets'[q] = receivedPackets[x]
      BY <1>1, <1>4
    <3> QED BY <3>1, <1>7 DEF IInv, TakenInv
  <2>3. AckInv'
    <3>1. Owed \in Nat /\ Owed' \in Nat /\ Owed <= Owed'
      BY <1>6, <1>7, GateFacts
    <3> QED BY <2>1, <2>2, <3>1, <1>1, <1>2, <1>7, AckKept
  <2> QED BY <2>1, <2>2, <2>3, <1>2, <1>5, <1>7 DEF IInv, BeforeInv
<1>8. CASE ~rxEstablished
  <2>1. /\ delivered = <<>> /\ acked = 0 /\ DOMAIN parked = {}
        /\ acks \subseteq ControlSeqs
        /\ \A p \in 1..Len(receivedPackets) :
              receivedPackets[p].no = 0 /\ receivedPackets[p].seq \in ControlSeqs
    BY <1>8 DEF IInv, BeforeInv
  <2>2. ackNumber' \in ControlSeqs /\ acks' \subseteq ControlSeqs
    <3>1. ackNumber' = s
      BY <1>2, <1>8
    <3>2. acks' = acks \/ acks' = acks \cup {ackNumber'}
      BY <1>2 DEF OweAck
    <3> QED BY <2>1, <3>1, <3>2
  <2>3. \A q \in 1..Len(receivedPackets') :
           receivedPackets'[q].no = 0 /\ receivedPackets'[q].seq \in ControlSeqs
    BY <2>1, <1>1, <1>4
  <2> QED BY <2>1, <2>2, <2>3, <1>2, <1>5, <1>8 DEF IInv, BeforeInv, GateInv, AckInv
<1> QED BY <1>2, <1>7, <1>8

---------------------------------------------------------------------------
(* The steps that leave the receive path as it is *)

\* Of the client at most the count of owed ACKs moves, and the wire only forgets or says
\* again: what the client knows stays as it was.
LEMMA ClientKept ==
    ASSUME NumbersFit, IInv, TypeOK', sent' = sent, acked' = acked,
           UNCHANGED <<receivedPackets, rxEstablished, ackNumber, deliverNext, parked, delivered>>,
           acks' \subseteq acks \cup {ackNumber}, acks' \subseteq acks \/ acksOwed > 0,
           acksOwed' \in {0, acksOwed}, WireInv'
    PROVE  IInv'
<1>1. Owed' = Owed
  BY DEF Owed
<1>2. BeforeInv'
  <2>1. acksOwed' > 0 => acksOwed > 0
    OBVIOUS
  <2> QED BY <2>1 DEF IInv, BeforeInv
<1>3. GateInv'
  BY <1>1 DEF IInv, GateInv, OnlyForward, NoHole
<1>4. rxEstablished' => TakenInv'
  BY <1>1 DEF IInv, TakenInv
<1>5. AckInv'
  <2> SUFFICES ASSUME rxEstablished PROVE AckInv'
    BY DEF AckInv
  <2>1. PICK a \in 1..Owed-1 :
           /\ a \in delivered[1]..Owed-1 /\ a <= sent
           /\ ackNumber = NumOf(a) /\ acked <= a /\ sent <= a + SendWindow
           /\ AcksSay(a) /\ WindowInv(receivedPackets, a)
    BY AckFacts
  <2>2. a \in 1..a /\ a + MaxAge >= sent
    <3>1. a \in Nat /\ a >= 1 /\ sent \in Nat /\ SendWindow \in Nat /\ MaxAge \in Nat
      BY <2>1, GateFacts, SizesAssumption
    <3>2. SendWindow <= MaxAge
      BY DEF NumbersFit
    <3> QED BY <2>1, <3>1, <3>2
  <2>3. AcksSay(a)'
    BY <2>1, <2>2 DEF AcksSay, NumOf
  <2>4. WindowInv(receivedPackets, a)'
    BY <2>1 DEF WindowInv, EntryInv, Newer, NumOf
  <2> QED BY <2>1, <2>3, <2>4, <1>1 DEF AckInv, AcksSay, NumOf
<1> QED BY <1>2, <1>3, <1>4, <1>5 DEF IInv

\* An ACK sent keeps the invariant,
LEMMA FlushKeeps == ASSUME NumbersFit, IInv, TypeOK', FlushAck PROVE IInv'
<1>1. WireInv'
  BY DEF IInv, WireInv, FlushAck
<1> QED BY <1>1, ClientKept DEF FlushAck

\* a datagram lost does,
LEMMA LoseKeeps ==
    ASSUME NumbersFit, IInv, TypeOK',
           \/ \E p \in net : LosePacket(p)
           \/ \E a \in acks : LoseAck(a)
    PROVE  IInv'
<1>1. WireInv' /\ net' \subseteq net /\ sent' = sent /\ acked' = acked
  BY DEF IInv, WireInv, LosePacket, LoseAck
<1>2. UNCHANGED client /\ acks' \subseteq acks
  BY DEF LosePacket, LoseAck
<1> QED BY <1>1, <1>2, ClientKept DEF client

\* and one that the switcher sends again.
LEMMA ResendKeeps == ASSUME NumbersFit, IInv, TypeOK', SwitcherResend PROVE IInv'
<1>1. \A i \in acked+1..sent : i <= sent /\ i + MaxAge > sent
  <2>1. sent <= acked + SendWindow /\ acked \in Nat /\ sent \in Nat
    BY DEF IInv, WireInv, TypeOK
  <2>2. SendWindow \in Nat /\ MaxAge \in Nat /\ SendWindow <= MaxAge
    BY SizesAssumption DEF NumbersFit
  <2> QED BY <2>1, <2>2
<1>2. WireInv'
  BY <1>1 DEF IInv, WireInv, SwitcherResend
<1> QED BY <1>2, ClientKept DEF SwitcherResend, client

\* The number of an ACK that says something new is that of one packet only, and the client
\* is past it.
LEMMA HearsKeeps ==
    ASSUME NumbersFit, IInv, TypeOK', NEW x \in acks, SwitcherHearsAck(x)
    PROVE  IInv' /\ (acked' = acked \/ (rxEstablished /\ acked' \in acked+1..Owed-1))
<1>1. /\ UNCHANGED <<sent, net, client>> /\ acks' \subseteq acks
      /\ acked' = IF \E i \in acked+1..sent : NumOf(i) = x
                  THEN CHOOSE i \in acked+1..sent : NumOf(i) = x
                  ELSE acked
  BY DEF SwitcherHearsAck
<1>2. sent \in Nat /\ sent <= Total /\ acked \in Nat /\ sent <= acked + SendWindow
  BY SizesAssumption DEF IInv, TypeOK, WireInv
<1>3. CASE acked' = acked
  <2>1. WireInv'
    BY <1>1, <1>3 DEF IInv, WireInv
  <2>2. /\ UNCHANGED <<receivedPackets, rxEstablished, ackNumber, deliverNext, parked, delivered>>
        /\ acksOwed' = acksOwed /\ sent' = sent /\ acks' \subseteq acks
    BY <1>1 DEF client
  <2>3. IInv'
    BY <2>1, <2>2, <1>3, ClientKept
  <2>4. acked' = acked
    BY <1>3
  <2> QED BY <2>3, <2>4
<1>4. CASE acked' # acked
  <2>1. PICK i \in acked+1..sent : NumOf(i) = x /\ acked' = i
    BY <1>1, <1>4
  <2>2. i \in Nat /\ i > acked /\ i <= sent /\ i \in 1..Total
    BY <2>1, <1>2, SizesAssumption
  <2>3. x \notin ControlSeqs
    BY <2>1, <2>2, NotControl
  <2>4. rxEstablished
    BY <2>3 DEF IInv, BeforeInv
  <2>5. PICK a \in 1..Owed-1 :
           /\ a \in delivered[1]..Owed-1 /\ a <= sent
           /\ ackNumber = NumOf(a) /\ acked <= a /\ sent <= a + SendWindow
           /\ AcksSay(a) /\ WindowInv(receivedPackets, a)
    BY <2>4, AckFacts
  <2>6. PICK j \in 1..a : x = NumOf(j) /\ j + MaxAge >= sent
    BY <2>3, <2>5 DEF AcksSay
  <2>7. i = j
    <3>1. a \in Nat /\ j \in Nat /\ j <= a /\ a <= sent
      BY <2>4, <2>5, GateFacts
    <3>2. SendWindow < SeqSpace /\ MaxAge < SeqSpace /\ SendWindow \in Nat /\ MaxAge \in Nat
          /\ SeqSpace \in Nat
      BY FitBounds
    <3>3. i - j < SeqSpace /\ j - i < SeqSpace
      BY <2>2, <2>6, <3>1, <3>2, <1>2
    <3> QED BY <2>1, <2>2, <2>6, <3>1, <3>3, NumOfInjective
  <2>8. acked' <= a /\ Owed \in Nat /\ a \in Nat /\ a <= Owed - 1
    BY <2>1, <2>4, <2>5, <2>7, GateFacts
  <2>9. acked' \in acked+1..Owed-1
    BY <2>1, <2>2, <2>8
  <2>10. Owed' = Owed
    BY <1>1 DEF Owed, client
  <2>11. WireInv'
    <3>1. sent <= acked' + SendWindow
      BY <2>1, <2>2, <1>2, SizesAssumption
    <3> QED BY <3>1, <1>1 DEF IInv, WireInv
  <2>12. GateInv'
    BY <2>10, <1>1 DEF IInv, GateInv, OnlyForward, NoHole, client
  <2>13. TakenInv'
    BY <2>4, <2>10, <1>1 DEF IInv, TakenInv, client
  <2>14. AckInv'
    <3>1. AcksSay(a)'
      BY <2>5, <1>1 DEF AcksSay, NumOf
    <3>2. WindowInv(receivedPackets, a)'
      BY <2>5, <1>1 DEF WindowInv, EntryInv, Newer, NumOf, client
    <3> QED BY <2>5, <2>8, <2>10, <3>1, <3>2, <1>1 DEF AckInv, AcksSay, NumOf, client
  <2> QED BY <2>4, <2>9, <2>11, <2>12, <2>13, <2>14, <1>1 DEF IInv, BeforeInv, client
<1> QED BY <1>3, <1>4

\* A new packet ages what is on the wire; what is too old is gone.
LEMMA SendKeeps == ASSUME NumbersFit, IInv, TypeOK', SwitcherSend PROVE IInv'
<1>1. /\ sent' = sent + 1 /\ sent < acked + SendWindow /\ acked' = acked /\ UNCHANGED client
      /\ net' = {p \in net : p.no + MaxAge > sent + 1} \cup {[no |-> sent + 1, resent |-> FALSE]}
      /\ acks' = {x \in acks : \E i \in 0..sent+1 : i + MaxAge > sent + 1 /\ NumOf(i) = x}
  BY DEF SwitcherSend, Young
<1>2. sent \in Nat /\ sent' \in 0..Total /\ Total \in Nat /\ acked \in Nat /\ MaxAge \in Nat /\ MaxAge >= 1
      /\ SendWindow \in Nat
  <2>1. MaxAge \in Nat /\ MaxAge >= 1 /\ SendWindow \in Nat /\ Total \in Nat
    BY SizesAssumption
  <2>2. sent \in Nat /\ acked \in Nat /\ sent' \in 0..Total
    BY <2>1 DEF IInv, TypeOK
  <2> QED BY <2>1, <2>2
<1>3. WireInv'
  <2>1. sent + 1 <= acked + SendWindow
    BY <1>1, <1>2
  <2>2. ASSUME NEW p \in net' PROVE p.no <= sent + 1 /\ p.no + MaxAge > sent + 1
    <3>1. CASE p \in net
      <4>1. p.no \in 1..Total /\ p.no <= sent
        BY <3>1 DEF IInv, WireInv, TypeOK, Packets
      <4>2. CASE p.no + MaxAge > sent + 1
        BY <4>1, <4>2, <1>2
      <4>3. CASE ~(p.no + MaxAge > sent + 1)
        BY <4>1, <4>3, <1>1, <1>2
      <4> QED BY <4>2, <4>3
    <3>2. CASE p = [no |-> sent + 1, resent |-> FALSE]
      BY <3>2, <1>2
    <3> QED BY <3>1, <3>2, <1>1
  <2> QED BY <2>1, <2>2, <1>1 DEF WireInv
<1>4. Owed' = Owed
  BY <1>1 DEF Owed, client
<1>5. CASE ~rxEstablished
  <2>1. BeforeInv'
    BY <1>1, <1>5 DEF IInv, BeforeInv, client
  <2> QED BY <2>1, <1>1, <1>3, <1>5 DEF IInv, GateInv, AckInv, client
<1>6. CASE rxEstablished
  <2>1. GateInv'
    <3>1. Owed <= sent + 1 /\ Owed \in Nat
      BY <1>6, GateFacts
    <3>2. \A s \in DOMAIN parked : /\ s = NumOf(parked[s]) /\ parked[s] \in Owed+1..sent+1
                                   /\ parked[s] <= Owed + ParkWindow
      <4> SUFFICES ASSUME NEW s \in DOMAIN parked
                   PROVE  /\ s = NumOf(parked[s]) /\ parked[s] \in Owed+1..sent+1
                          /\ parked[s] <= Owed + ParkWindow
        OBVIOUS
      <4>1. /\ s = NumOf(parked[s]) /\ parked[s] \in Owed+1..sent
            /\ parked[s] <= Owed + ParkWindow
        BY <1>6 DEF IInv, GateInv
      <4> QED BY <4>1, <3>1, <1>2
    <3>3. Owed <= sent + 1 + 1
      BY <3>1, <1>2
    <3> QED BY <3>2, <3>3, <1>1, <1>4, <1>6 DEF IInv, GateInv, OnlyForward, NoHole, client
  <2>2. TakenInv'
    BY <1>1, <1>4, <1>6 DEF IInv, TakenInv, client
  <2>3. AckInv'
    <3>1. PICK a \in 1..Owed-1 :
             /\ a \in delivered[1]..Owed-1 /\ a <= sent
             /\ ackNumber = NumOf(a) /\ acked <= a /\ sent <= a + SendWindow
             /\ AcksSay(a) /\ WindowInv(receivedPackets, a)
      BY <1>6, AckFacts
    <3>2. ASSUME NEW x \in acks', x \notin ControlSeqs
          PROVE  \E i \in 1..a : x = NumOf(i) /\ i + MaxAge >= sent + 1
      <4>1. PICK i \in 1..a : x = NumOf(i) /\ i + MaxAge >= sent
        BY <3>1, <3>2, <1>1 DEF AcksSay
      <4>2. PICK j \in 0..sent+1 : j + MaxAge > sent + 1 /\ NumOf(j) = x
        BY <1>1
      <4>3. a \in Nat /\ i \in Nat /\ i <= a /\ j \in Nat /\ j <= sent + 1
        BY <3>1, <1>2, <1>6, GateFacts
      <4>4. MaxAge + 1 < SeqSpace /\ SeqSpace \in Nat
        BY FitBounds
      <4>5. i - j < SeqSpace /\ j - i < SeqSpace
        BY <3>1, <4>1, <4>2, <4>3, <4>4, <1>2
      <4>6. i = j
        BY <4>1, <4>2, <4>3, <4>5, NumOfInjective
      <4> QED BY <4>1, <4>2, <4>3, <4>6, <1>2
    <3>3. AcksSay(a)'
      BY <3>2, <1>1 DEF AcksSay, NumOf
    <3>4. WindowInv(receivedPackets, a)'
      <4> SUFFICES ASSUME NEW p \in 1..Len(receivedPackets) PROVE EntryInv(receivedPackets, p, a)'
        BY <1>1 DEF WindowInv, client
      <4>1. EntryInv(receivedPackets, p, a)
        BY <3>1 DEF WindowInv
      <4>2. receivedPackets[p].no \in 1..sent => receivedPackets[p].no \in 1..sent+1
        BY <1>2
      <4> QED BY <4>1, <4>2, <1>1 DEF EntryInv, Newer, NumOf, client
    <3> QED BY <3>1, <3>3, <3>4, <1>1, <1>4 DEF AckInv, AcksSay, NumOf, client
  <2> QED BY <2>1, <2>2, <2>3, <1>1, <1>3, <1>6 DEF IInv, BeforeInv, client
<1> QED BY <1>5, <1>6

---------------------------------------------------------------------------
(* The theorems *)

\* The invariant holds at the start.
LEMMA InvInit == Init => IInv
<1> SUFFICES ASSUME Init PROVE IInv
  OBVIOUS
<1>1. TypeOK
  BY TypeInit
<1>2. WireInv
  BY SizesAssumption DEF Init, WireInv
<1>3. BeforeInv
  BY DEF Init, BeforeInv
<1>4. GateInv /\ AckInv /\ (rxEstablished => TakenInv)
  BY DEF Init, GateInv, AckInv
<1> QED BY <1>1, <1>2, <1>3, <1>4 DEF IInv

\* What a step does to the three variables the abstract specification has: it reads a packet,
\* sends one, or hears of an acknowledged one.
LEMMA StepKeeps ==
    ASSUME NumbersFit, IInv, [Next]_vars
    PROVE  /\ IInv'
           /\ \/ UNCHANGED <<sent, acked>> /\ \E p \in net : p.no \in 1..sent /\ HandsOn(p.no)
              \/ sent < Total /\ sent' = sent + 1 /\ UNCHANGED <<acked, delivered>>
              \/ /\ UNCHANGED <<sent, delivered>>
                 /\ acked' = acked \/ (rxEstablished /\ acked' \in acked+1..Owed-1)
<1>1. TypeOK'
  BY TypeStep DEF IInv
<1>2. ASSUME NEW p \in net, Receive(p) \/ ReceiveCopy(p)
      PROVE  IInv' /\ UNCHANGED <<sent, acked>> /\ p.no \in 1..sent /\ HandsOn(p.no)
  <2>1. Read(p) /\ UNCHANGED <<sent, acked>> /\ net' \subseteq net
    BY <1>2 DEF Receive, ReceiveCopy
  <2>2. p.no \in 1..sent
    <3>1. p.no \in 1..Total /\ p.no <= sent /\ sent \in Nat
      BY DEF IInv, WireInv, TypeOK, Packets
    <3> QED BY <3>1, SizesAssumption
  <2> QED BY <2>1, <2>2, <1>1, ReadKeeps
<1>3. ASSUME NEW s \in ControlSeqs, ReceiveControl(s)
      PROVE  IInv' /\ UNCHANGED <<sent, acked, delivered>>
  BY <1>1, <1>3, ControlKeeps DEF ReceiveControl
<1>4. CASE FlushAck
  BY <1>1, <1>4, FlushKeeps DEF FlushAck
<1>5. CASE SwitcherSend
  BY <1>1, <1>5, SendKeeps DEF SwitcherSend, client
<1>6. CASE SwitcherResend
  BY <1>1, <1>6, ResendKeeps DEF SwitcherResend, client
<1>7. ASSUME NEW a \in acks, SwitcherHearsAck(a)
      PROVE  /\ IInv' /\ UNCHANGED <<sent, delivered>>
             /\ acked' = acked \/ (rxEstablished /\ acked' \in acked+1..Owed-1)
  BY <1>1, <1>7, HearsKeeps DEF SwitcherHearsAck, client
<1>8. CASE \/ \E p \in net : LosePacket(p)
           \/ \E a \in acks : LoseAck(a)
  BY <1>1, <1>8, LoseKeeps DEF LosePacket, LoseAck, client
<1>9. CASE UNCHANGED vars
  <2>1. WireInv'
    BY <1>9 DEF IInv, WireInv, vars, wire
  <2>2. UNCHANGED <<sent, acked, acks, client>>
    BY <1>9 DEF vars, wire
  <2>3. /\ UNCHANGED <<receivedPackets, rxEstablished, ackNumber, deliverNext, parked, delivered>>
        /\ acksOwed' = acksOwed
    BY <2>2 DEF client
  <2> QED BY <2>1, <2>2, <2>3, <1>1, ClientKept
<1> QED BY <1>2, <1>3, <1>4, <1>5, <1>6, <1>7, <1>8, <1>9 DEF Next

\* A hole in what was delivered would have to be parked behind: NoHole follows.
LEMMA NoHoleUnderInv ==
    ASSUME WindowsFit, IInv
    PROVE  NoHole
<1>1. CASE rxEstablished
  BY <1>1 DEF IInv, GateInv
<1>2. CASE ~rxEstablished
  BY <1>2 DEF IInv, BeforeInv, NoHole
<1> QED BY <1>1, <1>2

\* The consumer's queue is in the switcher's order and says nothing twice, whatever the
\* network does and also across a resync: for all sizes at which the numbers on the wire fit
\* the sequence space.
THEOREM Forward == NumbersFit => (Spec => []OnlyForward)
<1> SUFFICES ASSUME NumbersFit PROVE Spec => []OnlyForward
  OBVIOUS
<1>1. IInv => OnlyForward
  <2>1. CASE rxEstablished
    BY <2>1 DEF IInv, GateInv
  <2>2. CASE ~rxEstablished
    BY <2>2 DEF IInv, BeforeInv, OnlyForward
  <2> QED BY <2>1, <2>2
<1>2. IInv /\ [Next]_vars => IInv'
  BY StepKeeps
<1> QED BY <1>1, <1>2, InvInit, PTL DEF Spec

\* ... and, while the switcher keeps inside the park window, nothing is skipped.
THEOREM WithoutHole == WindowsFit => (Spec => []NoHole)
<1> SUFFICES ASSUME WindowsFit PROVE Spec => []NoHole
  OBVIOUS
<1>1. IInv => NoHole
  BY NoHoleUnderInv
<1>2. IInv /\ [Next]_vars => IInv'
  BY StepKeeps DEF WindowsFit
<1> QED BY <1>1, <1>2, InvInit, PTL DEF Spec

\* What is parked lies under its own number, ahead of the cursor and inside the park window.
THEOREM ParkedIsAhead == NumbersFit => (Spec => []ParkedAhead)
<1> SUFFICES ASSUME NumbersFit PROVE Spec => []ParkedAhead
  OBVIOUS
<1>1. IInv => ParkedAhead
  <2> SUFFICES ASSUME IInv, NEW s \in DOMAIN parked
               PROVE  /\ NumOf(parked[s]) = s /\ parked[s] > Owed
                      /\ Dist(s, deliverNext) \in 1..ParkWindow
    BY DEF ParkedAhead
  <2>1. rxEstablished
    BY DEF IInv, BeforeInv
  <2>2. PICK o \in Nat : o = Owed
    BY <2>1, GateFacts
  <2>3. PICK i \in Nat : /\ i = parked[s] /\ s = NumOf(i) /\ i > o /\ i <= o + ParkWindow
                         /\ deliverNext = NumOf(o)
    BY <2>1, <2>2, GateFacts
  <2>4. i - o \in 1..ParkWindow /\ o - i < SeqSpace /\ i - o < SeqSpace
    BY <2>3, FitBounds
  <2>5. Dist(NumOf(i), NumOf(o)) = i - o
    BY <2>3, <2>4, DistNumOf
  <2> QED BY <2>2, <2>3, <2>4, <2>5
<1>2. IInv /\ [Next]_vars => IInv'
  BY StepKeeps
<1> QED BY <1>1, <1>2, InvInit, PTL DEF Spec

\* What the switcher was told it may forget was handed to the consumer.
THEOREM AckedIsDelivered == WindowsFit => (Spec => []AckedWasDelivered)
<1> SUFFICES ASSUME WindowsFit PROVE Spec => []AckedWasDelivered
  OBVIOUS
<1>1. IInv => AckedWasDelivered
  <2> SUFFICES ASSUME IInv, rxEstablished, NEW i \in delivered[1]..acked
               PROVE  \E k \in 1..Len(delivered) : delivered[k] = i
    BY DEF AckedWasDelivered
  <2>0. NumbersFit
    BY DEF WindowsFit
  <2>1. \A k \in 1..Len(delivered) : delivered[k] = delivered[1] + k - 1
    BY NoHoleUnderInv DEF NoHole
  <2>2. PICK a \in 1..Owed-1 : acked <= a
    BY <2>0, AckFacts
  <2>3. PICK o \in Nat : o = Owed
    BY <2>0, GateFacts
  <2>4. PICK L \in Nat : L = Len(delivered) /\ L >= 1 /\ delivered[L] = o - 1 /\ delivered \in Seq(1..Total)
    BY <2>0, <2>3, GateFacts
  <2>5. PICK f \in Nat : f = delivered[1]
    <3>1. delivered[1] \in 1..Total
      BY <2>4, ElementOfSeq, 1 \in 1..Len(delivered)
    <3> QED BY <3>1, SizesAssumption
  <2>6. o - 1 = f + L - 1
    BY <2>1, <2>3, <2>4, <2>5
  <2>7. i \in f..acked /\ acked \in Nat /\ acked <= o - 1
    BY <2>2, <2>3, <2>5 DEF IInv, TypeOK
  <2>8. i - f + 1 \in 1..L /\ f + (i - f + 1) - 1 = i
    BY <2>3, <2>4, <2>5, <2>6, <2>7
  <2>9. delivered[i - f + 1] = i
    BY <2>1, <2>4, <2>5, <2>8
  <2> QED BY <2>4, <2>8, <2>9
<1>2. IInv /\ [Next]_vars => IInv'
  BY StepKeeps DEF WindowsFit
<1> QED BY <1>1, <1>2, InvInit, PTL DEF Spec

\* The receive path implements in-order delivery (OrderedDelivery): a read hands on the
\* packets owed next, the first of them with the baseline, and an ACK that says something
\* new says only what was handed on.
THEOREM Implements == WindowsFit => (Spec => ImplementsOrderedDelivery)
<1> SUFFICES ASSUME WindowsFit PROVE Spec => ImplementsOrderedDelivery
  OBVIOUS
<1>0. NumbersFit
  BY DEF WindowsFit
<1>1. Init => Channel!Init
  BY DEF Init, Channel!Init
<1>2. IInv /\ [Next]_vars => IInv' /\ [Channel!Next]_(Channel!vars)
  <2> SUFFICES ASSUME IInv, [Next]_vars PROVE IInv' /\ [Channel!Next]_(Channel!vars)
    OBVIOUS
  <2>0. IInv'
    BY <1>0, StepKeeps
  <2> SUFFICES [Channel!Next]_(Channel!vars)
    BY <2>0
  <2>1. CASE UNCHANGED <<sent, acked>> /\ \E p \in net : p.no \in 1..sent /\ HandsOn(p.no)
    <3>1. PICK i \in 1..sent : HandsOn(i)
      BY <2>1
    <3>2. CASE delivered' = delivered
      BY <2>1, <3>2 DEF Channel!vars
    <3>3. CASE rxEstablished /\ HandsOnRun
      <4>1. PICK o \in Nat : o = Owed
        BY <1>0, <3>3, GateFacts
      <4>2. o >= 2 /\ delivered # <<>> /\ delivered[Len(delivered)] = o - 1
        BY <1>0, <3>3, <4>1, GateFacts
      <4>3. PICK n \in Nat : /\ n >= 1 /\ o + n - 1 <= sent
                             /\ delivered' = delivered \o [k \in 1..n |-> o - 1 + k]
        BY <3>3, <4>1 DEF HandsOnRun
      <4> DEFINE last == o + n - 1
      <4>4. last \in o-1+1..sent /\ last - (o - 1) = n
        BY <4>2, <4>3 DEF IInv, TypeOK
      <4>5. \E x \in delivered[Len(delivered)]+1..sent :
               delivered' = delivered \o
                   [k \in 1..x - delivered[Len(delivered)] |-> delivered[Len(delivered)] + k]
        BY <4>2, <4>3, <4>4
      <4>6. Channel!Deliver
        BY <2>1, <4>2, <4>5 DEF Channel!Deliver
      <4> QED BY <4>6 DEF Channel!Next
    <3>4. CASE ~rxEstablished /\ delivered' = <<i>>
      <4>1. delivered = <<>>
        BY <3>4 DEF IInv, BeforeInv
      <4>2. Channel!Deliver
        BY <2>1, <3>4, <4>1 DEF Channel!Deliver
      <4> QED BY <4>2 DEF Channel!Next
    <3> QED BY <3>1, <3>2, <3>3, <3>4 DEF HandsOn
  <2>2. CASE sent < Total /\ sent' = sent + 1 /\ UNCHANGED <<acked, delivered>>
    BY <2>2 DEF Channel!Send, Channel!Next
  <2>3. CASE UNCHANGED <<sent, acked, delivered>>
    BY <2>3 DEF Channel!vars
  <2>4. CASE UNCHANGED <<sent, delivered>> /\ rxEstablished /\ acked' \in acked+1..Owed-1
    <3>1. delivered # <<>> /\ delivered[Len(delivered)] = Owed - 1
      BY <1>0, <2>4, GateFacts
    <3>2. Channel!Forget
      BY <2>4, <3>1 DEF Channel!Forget
    <3> QED BY <3>2 DEF Channel!Next
  <2> QED BY <1>0, <2>1, <2>2, <2>3, <2>4, StepKeeps
<1> QED BY <1>1, <1>2, InvInit, PTL DEF Spec, ImplementsOrderedDelivery, Channel!Spec
=============================================================================
