--------------------------- MODULE AtemSendProofs ---------------------------
(***************************************************************************)
(* Proofs about AtemSend, for any size of the number space, of the window  *)
(* and of the network's delay: the buffer is the last window of packets,   *)
(* each under its own number, and the switcher takes every packet once, in *)
(* the order they were queued.                                             *)
(***************************************************************************)
EXTENDS AtemSend, FiniteSetTheorems, TLAPS

---------------------------------------------------------------------------
(* Numbers *)

\* The sizes are numbers, and the buffer holds fewer packets than there are numbers.
LEMMA Sizes ==
    /\ SeqSpace \in Nat /\ Window \in Nat /\ Ahead \in Nat /\ MaxAge \in Nat /\ Total \in Nat
    /\ Window > 0 /\ Window < SeqSpace /\ SeqSpace > 1
BY SendSizes

\* Division with remainder by the size of the space,
LEMMA DivMod ==
    ASSUME NEW a \in Int
    PROVE  /\ a \div SeqSpace \in Int /\ a % SeqSpace \in 0..SeqSpace-1
           /\ a = SeqSpace * (a \div SeqSpace) + (a % SeqSpace)
BY Sizes, SMT

\* whose remainder is the only one.
LEMMA RemainderUnique ==
    ASSUME NEW q \in Int, NEW r \in 0..SeqSpace-1, NEW u \in Int, NEW v \in 0..SeqSpace-1,
           SeqSpace * q + r = SeqSpace * u + v
    PROVE  r = v
BY Sizes, Z3

\* Two quotients by the number space that agree up to less than a space are the same.
LEMMA SameQuotient ==
    ASSUME NEW q \in Int, NEW u \in Int, NEW r \in Int, NEW i \in Int, NEW j \in Int,
           i = SeqSpace * q + r, j = SeqSpace * u + r, i - j < SeqSpace, j - i < SeqSpace
    PROVE  i = j
<1>1. CASE q = u
  BY <1>1
<1>2. CASE q > u
  <2>1. SeqSpace * q >= SeqSpace * u + SeqSpace
    BY <1>2, Sizes, Z3
  <2> QED BY <2>1, Sizes
<1>3. CASE u > q
  <2>1. SeqSpace * u >= SeqSpace * q + SeqSpace
    BY <1>3, Sizes, Z3
  <2> QED BY <2>1, Sizes
<1> QED BY <1>1, <1>2, <1>3

\* Packets less than a whole space apart have different numbers.
LEMMA NumOfInjective ==
    ASSUME NEW i \in Int, NEW j \in Int, NumOf(i) = NumOf(j),
           i - j < SeqSpace, j - i < SeqSpace
    PROVE  i = j
<1> DEFINE q == i \div SeqSpace
           u == j \div SeqSpace
           r == i % SeqSpace
<1>1. q \in Int /\ r \in Int /\ i = SeqSpace * q + r
  BY DivMod
<1>2. u \in Int /\ j = SeqSpace * u + r
  BY DivMod DEF NumOf
<1> HIDE DEF q, u, r
<1> QED BY <1>1, <1>2, SameQuotient

\* The number computed for the packet a window back is its number.
LEMMA NumOfBack ==
    ASSUME NEW i \in Int
    PROVE  (NumOf(i) - Window) % SeqSpace = NumOf(i - Window)
<1> DEFINE q == i \div SeqSpace
           r == NumOf(i)
           u == (r - Window) \div SeqSpace
           v == (r - Window) % SeqSpace
           x == (i - Window) \div SeqSpace
           y == NumOf(i - Window)
<1>1. q \in Int /\ r \in Int /\ i = SeqSpace * q + r
  BY DivMod DEF NumOf
<1>2. u \in Int /\ v \in 0..SeqSpace-1 /\ r - Window = SeqSpace * u + v
  BY DivMod, <1>1, Sizes, r - Window \in Int
<1>3. x \in Int /\ y \in 0..SeqSpace-1 /\ i - Window = SeqSpace * x + y
  BY DivMod, Sizes, i - Window \in Int DEF NumOf
<1> HIDE DEF q, r, u, v, x, y
<1>4. SeqSpace * (q + u) + v = SeqSpace * x + y
  <2>1. SeqSpace * (q + u) = SeqSpace * q + SeqSpace * u
    BY <1>1, <1>2, Sizes
  <2>2. SeqSpace * q \in Int /\ SeqSpace * u \in Int /\ SeqSpace * x \in Int
    BY <1>1, <1>2, <1>3, Sizes
  <2> QED BY <2>1, <2>2, <1>1, <1>2, <1>3, Sizes
<1>5. v = y
  <2>1. PICK w \in Int : w = q + u
    BY <1>1, <1>2
  <2>2. SeqSpace * w + v = SeqSpace * x + y
    BY <2>1, <1>4
  <2> QED BY <2>1, <2>2, <1>2, <1>3, RemainderUnique
<1> QED BY <1>5 DEF v, y, r

---------------------------------------------------------------------------
(* The inductive invariant *)

SendTypeOK ==
    /\ sent \in 0..Total /\ taken \in Seq(Nat) /\ Len(taken) \in 0..sent
    /\ sent <= Len(taken) + Ahead

\* The buffer is the last window of packets, each under its own number.
BufferInv ==
    /\ buffer \in [DOMAIN buffer -> 1..sent]
    /\ \A n \in DOMAIN buffer : buffer[n] + Window > sent /\ NumOf(buffer[n]) = n
    /\ \A i \in 1..sent : i + Window > sent => NumOf(i) \in DOMAIN buffer /\ buffer[NumOf(i)] = i

\* A packet on the wire bears its own number, and is no older than the network delivers or
\* than a volley reaches back.
WireInv ==
    \A q \in net :
        /\ q.no \in 1..sent /\ q.num = NumOf(q.no)
        /\ q.no + MaxAge > sent \/ q.no + Window > sent

SendInv == SendTypeOK /\ BufferInv /\ WireInv /\ InOrder

---------------------------------------------------------------------------
(* The steps *)

\* A packet enters the buffer and the one a window back leaves it: what is left is again
\* the last window.
LEMMA KeptKeeps ==
    ASSUME SendTypeOK, BufferInv, sent' = sent + 1, buffer' = Kept(sent + 1)
    PROVE  BufferInv'
<1> PICK i \in Nat : i = sent + 1
  BY Sizes DEF SendTypeOK
<1> DEFINE gone == NumOf(i - Window)
<1>1. /\ DOMAIN buffer' = (DOMAIN buffer \cup {NumOf(i)}) \ {gone}
      /\ \A n \in DOMAIN buffer' : buffer'[n] = IF n = NumOf(i) THEN i ELSE buffer[n]
  BY NumOfBack DEF Kept
<1>2. sent' = i /\ sent \in Nat /\ sent = i - 1 /\ i >= 1
  BY Sizes DEF SendTypeOK
<1>3. ASSUME NEW n \in DOMAIN buffer'
      PROVE  /\ buffer'[n] \in 1..i /\ buffer'[n] + Window > i
             /\ NumOf(buffer'[n]) = n
  <2>1. CASE n = NumOf(i)
    BY <2>1, <1>1, <1>2, Sizes
  <2>2. CASE n # NumOf(i)
    <3>1. n \in DOMAIN buffer /\ n # gone /\ buffer'[n] = buffer[n]
      BY <2>2, <1>1
    <3>2. PICK j \in 1..sent : j = buffer[n] /\ j + Window > sent /\ NumOf(j) = n
      BY <3>1 DEF BufferInv
    <3>3. j # i - Window
      BY <3>1, <3>2
    <3> QED BY <3>1, <3>2, <3>3, <1>2, Sizes
  <2> QED BY <2>1, <2>2
<1>4. ASSUME NEW j \in 1..i, j + Window > i
      PROVE  NumOf(j) \in DOMAIN buffer' /\ buffer'[NumOf(j)] = j
  <2>1. NumOf(j) # gone
    <3>1. SUFFICES ASSUME NumOf(j) = NumOf(i - Window) PROVE FALSE
      OBVIOUS
    <3>2. i - Window \in Int /\ j - (i - Window) < SeqSpace /\ (i - Window) - j < SeqSpace
      BY <1>2, <1>4, Sizes
    <3>3. j = i - Window
      BY <3>1, <3>2, NumOfInjective
    <3> QED BY <3>3, <1>4, <1>2, Sizes
  <2>2. CASE j = i
    BY <2>1, <2>2, <1>1
  <2>3. CASE j # i
    <3>1. j \in 1..sent /\ j + Window > sent
      BY <2>3, <1>2, <1>4, Sizes
    <3>2. NumOf(j) \in DOMAIN buffer /\ buffer[NumOf(j)] = j
      BY <3>1 DEF BufferInv
    <3>3. NumOf(j) # NumOf(i)
      <4>1. j - i < SeqSpace /\ i - j < SeqSpace
        BY <1>2, <1>4, Sizes
      <4> QED BY <4>1, <2>3, NumOfInjective
    <3> QED BY <3>2, <3>3, <2>1, <1>1
  <2> QED BY <2>2, <2>3
<1>5. buffer' \in [DOMAIN buffer' -> 1..i]
  <2>1. buffer' = [n \in DOMAIN buffer' |-> buffer'[n]]
    BY DEF Kept
  <2> QED BY <2>1, <1>3
<1> QED BY <1>2, <1>3, <1>4, <1>5 DEF BufferInv

\* What a volley sends is what the buffer holds, under the number it is held.
LEMMA VolleyKeeps ==
    ASSUME SendTypeOK, BufferInv, WireInv, NEW from, ResendFrom(from), UNCHANGED sent
    PROVE  WireInv'
<1>1. \A q \in Volley(from) : q.num \in DOMAIN buffer /\ q.no = buffer[q.num]
  BY DEF Volley
<1>2. \A q \in Volley(from) : q.no \in 1..sent /\ q.num = NumOf(q.no) /\ q.no + Window > sent
  BY <1>1 DEF BufferInv
<1>3. \A q \in net' : q \in net \/ q \in Volley(from)
  BY DEF ResendFrom
<1> QED BY <1>2, <1>3 DEF WireInv

\* Whatever is lost or taken from the wire, the rest is as it was.
LEMMA FewerOnWire ==
    ASSUME WireInv, net' \subseteq net, UNCHANGED sent
    PROVE  WireInv'
BY DEF WireInv

\* A new packet keeps the invariant: its place in the buffer was that of one taken.
LEMMA SendKeeps ==
    ASSUME SendInv, SendReliable
    PROVE  SendInv'
<1>1. SendTypeOK'
  BY Sizes DEF SendInv, SendTypeOK, SendReliable
<1>2. BufferInv'
  BY KeptKeeps DEF SendInv, SendReliable
<1>3. WireInv'
  <2> SUFFICES ASSUME NEW q \in net'
               PROVE  /\ q.no \in 1..sent' /\ q.num = NumOf(q.no)
                      /\ q.no + MaxAge > sent' \/ q.no + Window > sent'
    BY DEF WireInv
  <2>1. sent' = sent + 1 /\ sent \in Nat
    BY Sizes DEF SendReliable, SendInv, SendTypeOK
  <2>2. \/ q = Packet(sent + 1)
        \/ q \in net /\ q.no + MaxAge > sent'
    BY DEF SendReliable, Young
  <2>3. CASE q = Packet(sent + 1)
    BY <2>1, <2>3, Sizes DEF Packet
  <2>4. CASE q \in net /\ q.no + MaxAge > sent'
    BY <2>1, <2>4 DEF SendInv, WireInv
  <2> QED BY <2>2, <2>3, <2>4
<1>4. InOrder'
  BY DEF SendReliable, SendInv, InOrder
<1> QED BY <1>1, <1>2, <1>3, <1>4 DEF SendInv

\* The packet with the number the switcher wants is the packet it wants.
LEMMA WantedIsNext ==
    ASSUME NumbersFit, SendInv, NEW q \in net, q.num = Wanted
    PROVE  q.no = Len(taken) + 1
<1>1. PICK i \in 1..sent : i = q.no /\ q.num = NumOf(i) /\ (i + MaxAge > sent \/ i + Window > sent)
  BY DEF SendInv, WireInv
<1>2. PICK t \in 0..sent : t = Len(taken) /\ sent <= t + Ahead
  BY DEF SendInv, SendTypeOK
<1>3. sent \in Nat
  BY Sizes DEF SendInv, SendTypeOK
<1>4. i - (t + 1) < SeqSpace /\ (t + 1) - i < SeqSpace
  BY <1>1, <1>2, <1>3, Sizes DEF NumbersFit
<1>5. NumOf(i) = NumOf(t + 1)
  BY <1>1, <1>2 DEF Wanted
<1>6. i = t + 1
  BY <1>1, <1>2, <1>3, <1>4, <1>5, NumOfInjective
<1> QED BY <1>1, <1>2, <1>6

\* What the switcher hears keeps it, and is taken only when it is next.
LEMMA HearsKeeps ==
    ASSUME NumbersFit, SendInv, NEW q \in net, SwitcherHears(q)
    PROVE  /\ SendInv'
           /\ \/ taken' = taken
              \/ taken' = Append(taken, Len(taken) + 1) /\ Len(taken) < sent
<1>1. UNCHANGED <<sent, buffer>> /\ net' \subseteq net
  BY DEF SwitcherHears
<1>2. BufferInv'
  BY <1>1 DEF SendInv, BufferInv
<1>3. WireInv'
  BY <1>1, FewerOnWire DEF SendInv
<1>4. CASE q.num = Wanted
  <2>1. PICK t \in Nat : t = Len(taken) /\ t + 1 <= sent /\ sent <= t + Ahead
    BY <1>4, WantedIsNext, Sizes DEF SendInv, SendTypeOK, WireInv
  <2>2. taken' = Append(taken, t + 1) /\ taken \in Seq(Nat) /\ sent \in 0..Total
    BY <1>4, <2>1, WantedIsNext DEF SwitcherHears, SendInv, SendTypeOK
  <2>3. Len(taken') = t + 1 /\ taken' \in Seq(Nat)
    BY <2>1, <2>2
  <2>4. SendTypeOK'
    BY <1>1, <2>1, <2>2, <2>3, Sizes DEF SendTypeOK
  <2>5. InOrder'
    BY <2>1, <2>2, <2>3 DEF SendInv, InOrder
  <2> QED BY <1>2, <1>3, <2>1, <2>2, <2>4, <2>5 DEF SendInv
<1>5. CASE q.num # Wanted
  <2>1. taken' = taken
    BY <1>5 DEF SwitcherHears
  <2>2. SendTypeOK' /\ InOrder'
    BY <1>1, <2>1 DEF SendInv, SendTypeOK, InOrder
  <2>3. SendInv'
    BY <1>2, <1>3, <2>2 DEF SendInv
  <2> QED BY <2>1, <2>3
<1> QED BY <1>4, <1>5

\* The steps that neither number a packet nor take one.
LEMMA OthersKeep ==
    ASSUME SendInv,
           \/ ResendTimer \/ SwitcherAcks \/ Lose \/ UNCHANGED wVars
           \/ \E a \in acks : HearAck(a)
           \/ \E a \in asks : HearAsk(a)
    PROVE  SendInv' /\ UNCHANGED <<sent, taken>>
<1>1. UNCHANGED <<sent, buffer, taken>>
  BY DEF ResendTimer, SwitcherAcks, Lose, wVars, HearAck, HearAsk
<1>2. SendTypeOK' /\ BufferInv' /\ InOrder'
  BY <1>1 DEF SendInv, SendTypeOK, BufferInv, InOrder
<1>3. net' \subseteq net \/ \E from : ResendFrom(from)
  <2>1. CASE ResendTimer
    <3>1. net' = net \/ ResendFrom(Plus(ackedThrough, 1))
      BY <2>1 DEF ResendTimer
    <3> QED BY <3>1
  <2>2. CASE SwitcherAcks \/ Lose \/ UNCHANGED wVars \/ \E a \in acks : HearAck(a)
    BY <2>2 DEF SwitcherAcks, Lose, Loses, wVars, HearAck
  <2>3. CASE \E a \in asks : HearAsk(a)
    BY <2>3 DEF HearAsk
  <2> QED BY <2>1, <2>2, <2>3
<1>4. WireInv'
  BY <1>1, <1>3, FewerOnWire, VolleyKeeps DEF SendInv
<1> QED BY <1>1, <1>2, <1>4 DEF SendInv

\* The invariant holds at the start,
LEMMA InitHolds == SendInit => SendInv
<1> SUFFICES ASSUME SendInit PROVE SendInv
  OBVIOUS
<1>1. SendTypeOK
  BY Sizes DEF SendInit, SendTypeOK
<1>2. BufferInv /\ WireInv
  BY DEF SendInit, BufferInv, WireInv
<1>3. InOrder
  <2>1. taken = <<>> /\ Len(taken) = 0
    BY DEF SendInit
  <2> QED BY <2>1 DEF InOrder
<1> QED BY <1>1, <1>2, <1>3 DEF SendInv

\* every step keeps it,
LEMMA StepKeeps == ASSUME NumbersFit PROVE SendInv /\ [SendNext]_wVars => SendInv'
<1> SUFFICES ASSUME SendInv, [SendNext]_wVars PROVE SendInv'
  OBVIOUS
<1>1. CASE SendReliable
  BY <1>1, SendKeeps
<1>2. CASE \E q \in net : SwitcherHears(q)
  BY <1>2, HearsKeeps
<1> QED BY <1>1, <1>2, OthersKeep DEF SendNext

\* and so it always holds.
LEMMA Invariant == ASSUME NumbersFit PROVE SendSpec => []SendInv
BY InitHolds, StepKeeps, PTL DEF SendSpec

---------------------------------------------------------------------------
(* The theorems *)

\* The switcher takes every packet once, in the order they were queued, whatever is lost,
\* doubled, late, asked for again or sent again by the timer.
THEOREM TakenInOrder == NumbersFit => (SendSpec => []InOrder)
<1> SUFFICES ASSUME NumbersFit PROVE SendSpec => []InOrder
  OBVIOUS
<1>1. SendInv => InOrder
  BY DEF SendInv
<1> QED BY <1>1, Invariant, PTL

\* The buffer holds no two packets under one number, and no more than a window of them:
\* its entries are as many as their packets, which are the last ones.
LEMMA BufferIsBounded ==
    ASSUME SendTypeOK, BufferInv
    PROVE  Cardinality(DOMAIN buffer) <= Window
<1> PICK s \in Nat : s = sent
  BY Sizes DEF SendTypeOK
<1> PICK a \in Int : a = s - Window + 1
  BY Sizes
<1> DEFINE last == a .. s
<1>1. buffer \in Injection(DOMAIN buffer, last)
  <2>1. \A n \in DOMAIN buffer : buffer[n] \in last
    BY Sizes DEF BufferInv
  <2>2. buffer \in [DOMAIN buffer -> last]
    BY <2>1 DEF BufferInv
  <2>3. \A m, n \in DOMAIN buffer : buffer[m] = buffer[n] => m = n
    BY DEF BufferInv
  <2> QED BY <2>2, <2>3 DEF Injection, IsInjective
<1>2. IsFiniteSet(last) /\ Cardinality(last) = Window
  BY FS_Interval, Sizes
<1> HIDE DEF last
<1>3. Cardinality(DOMAIN buffer) <= Cardinality(last)
  BY <1>1, <1>2, FS_Injection
<1> QED BY <1>2, <1>3

\* What the switcher may still ask for is held, under its own number; it needs only that
\* the callers are never further ahead of the switcher than the buffer reaches back.
THEOREM StillHeldInTheBuffer == NumbersFit /\ BufferFits => (SendSpec => []StillHeld)
<1> SUFFICES ASSUME NumbersFit, BufferFits PROVE SendSpec => []StillHeld
  OBVIOUS
<1>1. SendInv => StillHeld
  <2> SUFFICES ASSUME SendInv PROVE StillHeld
    OBVIOUS
  <2>1. Cardinality(DOMAIN buffer) <= Window
    BY BufferIsBounded DEF SendInv
  <2>2. \A n \in DOMAIN buffer : NumOf(buffer[n]) = n
    BY DEF SendInv, BufferInv
  <2>3. ASSUME NEW i \in Len(taken)+1..sent
        PROVE  NumOf(i) \in DOMAIN buffer /\ buffer[NumOf(i)] = i
    <3>1. i \in 1..sent /\ i + Window > sent
      BY Sizes DEF SendInv, SendTypeOK, BufferFits
    <3> QED BY <3>1 DEF SendInv, BufferInv
  <2> QED BY <2>1, <2>2, <2>3 DEF StillHeld
<1> QED BY <1>1, Invariant, PTL

\* The send path implements in-order delivery (OrderedDelivery): every step of the client,
\* of the network and of the switcher queues a packet, takes the one owed next, or changes
\* nothing the switcher could see.
THEOREM SendImplements == NumbersFit => (SendSpec => SendsInOrder)
<1> SUFFICES ASSUME NumbersFit PROVE SendSpec => SendsInOrder
  OBVIOUS
<1>1. SendInit => Channel!Init
  BY DEF SendInit, Channel!Init
<1>2. SendInv /\ [SendNext]_wVars => [Channel!Next]_(Channel!vars)
  <2> SUFFICES ASSUME SendInv, [SendNext]_wVars PROVE [Channel!Next]_(Channel!vars)
    OBVIOUS
  <2>1. CASE SendReliable
    <3>1. Channel!Send
      BY <2>1 DEF SendReliable, Channel!Send
    <3> QED BY <3>1 DEF Channel!Next
  <2>2. CASE \E q \in net : SwitcherHears(q)
    <3>1. PICK t \in Nat : t = Len(taken)
      BY Sizes DEF SendInv, SendTypeOK
    <3>2. sent' = sent /\ sent \in Nat
      BY <2>2, Sizes DEF SwitcherHears, SendInv, SendTypeOK
    <3>3. CASE taken' = taken
      BY <3>2, <3>3 DEF Channel!vars
    <3>4. CASE taken' = Append(taken, t + 1) /\ t < sent
      <4>1. CASE t = 0
        <5>1. taken = <<>> /\ taken' = <<1>> /\ 1 \in 1..sent
          BY <4>1, <3>1, <3>2, <3>4 DEF SendInv, SendTypeOK
        <5>2. Channel!Deliver
          BY <5>1, <3>2 DEF Channel!Deliver
        <5> QED BY <5>2 DEF Channel!Next
      <4>2. CASE t # 0
        <5>1. taken # <<>> /\ taken[t] = t
          BY <4>2, <3>1 DEF SendInv, InOrder
        <5>2. taken' = taken \o [k \in 1..(t + 1) - t |-> t + k]
          <6>1. [k \in 1..(t + 1) - t |-> t + k] = <<t + 1>>
            BY <3>1
          <6> QED BY <6>1, <3>1, <3>4 DEF SendInv, SendTypeOK
        <5>3. t + 1 \in t + 1..sent
          BY <3>1, <3>2, <3>4
        <5>4. \E last \in taken[Len(taken)]+1..sent :
                 taken' = taken \o
                     [k \in 1..last - taken[Len(taken)] |-> taken[Len(taken)] + k]
          BY <5>1, <5>2, <5>3, <3>1
        <5>5. Channel!Deliver
          BY <5>1, <5>4, <3>2 DEF Channel!Deliver
        <5> QED BY <5>5 DEF Channel!Next
      <4> QED BY <4>1, <4>2
    <3> QED BY <2>2, <3>1, <3>3, <3>4, HearsKeeps
  <2>3. CASE UNCHANGED <<sent, taken>>
    BY <2>3 DEF Channel!vars
  <2> QED BY <2>1, <2>2, <2>3, OthersKeep DEF SendNext
<1> QED BY <1>1, <1>2, Invariant, PTL DEF SendSpec, SendsInOrder, Channel!Spec
=============================================================================
