-------------------------- MODULE HyperdeckProofs ---------------------------
(***************************************************************************)
(* The HyperDeck client, for every value of its constants: a call's answer *)
(* is its own and no notification gets lost (Hyperdeck), and an upload and *)
(* a change of settings end the way they say (HyperdeckUpload,             *)
(* NetworkSetup).                                                          *)
(***************************************************************************)
EXTENDS Hyperdeck, HyperdeckUpload, NetworkSetup, FiniteSetTheorems, SequenceTheorems,
        WellFoundedInduction, TLAPS

---------------------------------------------------------------------------
(* The commands: Hyperdeck *)

Kinds  == {"answer", "garbled", "note", "stray", "greeting", "refusal"}
Resps  == [kind : Kinds, no : Int]
PieceT == {q \in [of : Resps, last : BOOLEAN] : q.of.kind = "garbled" => q.last}

\* What has not been taken for a response yet.
Coming == hd.buf \o stream

DeckTypeOK ==
    /\ hd = [open |-> hd.open, buf |-> hd.buf, notes |-> hd.notes, call |-> hd.call,
             sent |-> hd.sent, early |-> hd.early]
    /\ hd.buf \in Seq(PieceT) /\ stream \in Seq(PieceT) /\ hd.sent \in Nat
    /\ hd.call \in {NoCall, Greeting, hd.sent} /\ hd.early \subseteq Resps
    /\ hd.call # NoCall => hd.open
    /\ hd.call = Greeting => hd.early = {}
    /\ deck = [up |-> deck.up, owed |-> deck.owed, answered |-> deck.answered,
               noted |-> deck.noted, conns |-> deck.conns, strays |-> deck.strays,
               strayed |-> deck.strayed]
    /\ deck.owed \in Seq(Int) /\ deck.noted \in Nat /\ deck.strays \in Nat

Whole(C, i)  == C[i].last
Single(r)    == r.kind \in {"answer", "stray"}
Result(C, i) == C[i].last /\ C[i].of.kind # "note"

\* No answer is on its way twice, nor one that the deck has yet to send.
Once(C, owed, sent, strays) ==
    /\ \A i, j \in 1..Len(C) :
          Whole(C, i) /\ Whole(C, j) /\ C[i].of = C[j].of /\ Single(C[i].of) => i = j
    /\ \A i \in 1..Len(C) : Whole(C, i) =>
          /\ C[i].of.kind = "answer" =>
                C[i].of.no <= sent /\ \A j \in 1..Len(owed) : owed[j] # C[i].of.no
          /\ C[i].of.kind = "stray" => C[i].of.no > strays
    /\ \A j \in 1..Len(owed) : owed[j] <= sent
    /\ \A i, j \in 1..Len(owed) : owed[i] = owed[j] => i = j

\* What had arrived before the command went out was dropped, and does not come again.
Gone(C, early, owed, strays) ==
    /\ \A i \in 1..Len(C) : Whole(C, i) /\ Single(C[i].of) => C[i].of \notin early
    /\ \A r \in early :
          /\ r.kind = "answer" => \A j \in 1..Len(owed) : owed[j] # r.no
          /\ r.kind = "stray" => r.no > strays

\* Of a deck that answers each command once: one result is owed or on its way while a call
\* waits for it, and otherwise none.
OneResult(C, call, owed, alive) ==
    /\ \A i, j \in 1..Len(C) : Result(C, i) /\ Result(C, j) => i = j
    /\ Len(owed) <= 1
    /\ alive /\ owed # <<>> => owed[1] = call /\ call \notin {NoCall, Greeting}
    /\ \A i \in 1..Len(C) : Result(C, i) =>
          /\ alive => owed = <<>>
          /\ IF C[i].of.kind \in {"answer", "garbled"}
             THEN C[i].of.no = call /\ call \notin {NoCall, Greeting}
             ELSE C[i].of.kind \in {"greeting", "refusal"} /\ call = Greeting

\* While a call waits, the buffer holds half a response, or nothing.
BufferIsHalf == hd.call # NoCall => \A i \in 1..Len(hd.buf) : ~hd.buf[i].last

DeckInv ==
    /\ DeckTypeOK /\ BufferIsHalf
    /\ hd.open => Once(Coming, deck.owed, hd.sent, deck.strays)
    /\ hd.call \notin {NoCall, Greeting} => Gone(Coming, hd.early, deck.owed, deck.strays)
    /\ hd.open /\ ~deck.strayed => OneResult(Coming, hd.call, deck.owed, deck.up)
    /\ AnswerIsOwn

\* A sequence without its first k elements
LEMMA RestFrom ==
    ASSUME NEW S, NEW a \in Seq(S), NEW k \in 0..Len(a)
    PROVE  /\ SubSeq(a, k + 1, Len(a)) \in Seq(S) /\ Len(SubSeq(a, k + 1, Len(a))) = Len(a) - k
           /\ \A i \in 1..Len(a) - k : SubSeq(a, k + 1, Len(a))[i] = a[i + k]
OBVIOUS

\* The first k elements of a sequence, put behind another one
LEMMA JoinedFirst ==
    ASSUME NEW S, NEW a \in Seq(S), NEW b \in Seq(S), NEW k \in 0..Len(b)
    PROVE  /\ a \o SubSeq(b, 1, k) \in Seq(S) /\ Len(a \o SubSeq(b, 1, k)) = Len(a) + k
           /\ \A i \in 1..Len(a) + k : (a \o SubSeq(b, 1, k))[i] = (a \o b)[i]
OBVIOUS

\* Two sequences joined
LEMMA Concat ==
    ASSUME NEW S, NEW a \in Seq(S), NEW r \in Seq(S), NEW l, l = a \o r
    PROVE  /\ l \in Seq(S) /\ Len(l) = Len(a) + Len(r)
           /\ \A i \in 1..Len(a) : l[i] = a[i]
           /\ \A i \in 1..Len(r) : l[i + Len(a)] = r[i]
OBVIOUS

\* What is left of x and the first k elements of y without their first d, before the rest of y
LeftOf(x, y, k, d) ==
    SubSeq(x \o SubSeq(y, 1, k), d + 1, Len(x) + k) \o SubSeq(y, k + 1, Len(y))

\* It is the two sequences joined, without the first d elements.
LEMMA LeftOver ==
    ASSUME NEW S, NEW x \in Seq(S), NEW y \in Seq(S), NEW k \in 0..Len(y),
           NEW n \in Int, n = Len(x) + k, NEW d \in 0..n
    PROVE  LET l == LeftOf(x, y, k, d) IN
           /\ l \in Seq(S) /\ Len(l) = Len(x \o y) - d
           /\ \A i \in 1..Len(x \o y) - d : l[i] = (x \o y)[i + d]
<1>0. PICK l : l = LeftOf(x, y, k, d)
  OBVIOUS
<1>1. PICK a : a = SubSeq(x \o SubSeq(y, 1, k), d + 1, n)
  OBVIOUS
<1>2. PICK r : r = SubSeq(y, k + 1, Len(y))
  OBVIOUS
<1>3. PICK c : c = x \o y
  OBVIOUS
<1>4. /\ a \in Seq(S) /\ Len(a) = n - d
      /\ \A i \in 1..n - d : a[i] = c[i + d]
  <2>1. LET b == SubSeq(x \o SubSeq(y, 1, k), d + 1, n)
        IN  b \in Seq(S) /\ Len(b) = n - d /\ \A i \in 1..n - d : b[i] = (x \o y)[i + d]
    OBVIOUS
  <2> QED BY <1>1, <1>3, <2>1
<1>5. /\ r \in Seq(S) /\ Len(r) = Len(y) - k /\ \A i \in 1..Len(r) : r[i] = c[i + n]
  <2>1. LET r0 == SubSeq(y, k + 1, Len(y)) IN
        /\ r0 \in Seq(S) /\ Len(r0) = Len(y) - k /\ \A i \in 1..Len(r0) : r0[i] = (x \o y)[i + n]
    OBVIOUS
  <2> QED BY <1>2, <1>3, <2>1
<1>6. /\ l \in Seq(S) /\ Len(l) = Len(a) + Len(r)
      /\ \A i \in 1..Len(a) : l[i] = a[i]
      /\ \A i \in 1..Len(r) : l[i + Len(a)] = r[i]
  <2>1. l = a \o r
    BY <1>0, <1>1, <1>2 DEF LeftOf
  <2>2. a \in Seq(S)
    BY <1>4
  <2>3. r \in Seq(S)
    BY <1>5
  <2> QED BY <2>2, <2>3, <2>1, Concat, SMTT(30)
<1>7. c \in Seq(S) /\ n \in 0..Len(c) /\ Len(r) = Len(c) - n
  BY <1>3, <1>5
<1>8. /\ Len(l) = Len(c) - d /\ \A i \in 1..Len(c) - d : l[i] = c[i + d]
  <2>1. n \in 0..Len(c) /\ a \in Seq(S) /\ r \in Seq(S) /\ l \in Seq(S) /\ c \in Seq(S)
    BY <1>4, <1>5, <1>6, <1>7
  <2>2. Len(a) = n - d /\ Len(r) = Len(c) - n /\ Len(l) = Len(a) + Len(r)
    BY <1>4, <1>6, <1>7
  <2>3. \A i \in 1..n - d : a[i] = c[i + d]
    BY <1>4
  <2>4. \A i \in 1..Len(r) : r[i] = c[i + n]
    BY <1>5
  <2>5. \A i \in 1..Len(a) : l[i] = a[i]
    BY <1>6
  <2>6. \A i \in 1..Len(r) : l[i + Len(a)] = r[i]
    BY <1>6
  <2>7. Len(l) = Len(c) - d
    BY <2>1, <2>2
  <2>8. ASSUME NEW i \in 1..Len(c) - d PROVE l[i] = c[i + d]
    <3>1. CASE i <= n - d
      BY <2>1, <2>2, <2>3, <2>5, <3>1
    <3>2. CASE i > n - d
      <4>1. PICK j \in 1..Len(r) : i = j + (n - d)
        <5>1. i - (n - d) \in 1..Len(r) /\ i = (i - (n - d)) + (n - d)
          BY <2>1, <2>2, <3>2
        <5> QED BY <5>1
      <4>2. l[j + Len(a)] = r[j] /\ r[j] = c[j + n]
        BY <2>4, <2>6
      <4>3. j + Len(a) = i /\ j + n = i + d
        BY <2>1, <2>2, <4>1
      <4> QED BY <4>2, <4>3
    <3> QED BY <3>1, <3>2
  <2> QED BY <2>7, <2>8
<1> QED BY <1>0, <1>3, <1>6, <1>8

\* What is left of the pieces from some place on holds no response twice either.
LEMMA OnceOfRest ==
    ASSUME NEW C \in Seq(PieceT), NEW D \in Seq(PieceT), NEW d \in 0..Len(C),
           Len(D) = Len(C) - d, \A i \in 1..Len(D) : D[i] = C[i + d],
           NEW o \in Seq(Int), NEW s \in Nat, NEW t \in Nat, Once(C, o, s, t)
    PROVE  Once(D, o, s, t)
<1>1. \A i \in 1..Len(D) : i + d \in 1..Len(C) /\ (Whole(D, i) <=> Whole(C, i + d))
  BY DEF Whole
<1>2. ASSUME NEW i \in 1..Len(D), NEW j \in 1..Len(D),
             Whole(D, i), Whole(D, j), D[i].of = D[j].of, Single(D[i].of)
      PROVE  i = j
  <2>1. i + d = j + d
    BY <1>1, <1>2 DEF Once
  <2> QED BY <2>1
<1>3. ASSUME NEW i \in 1..Len(D), Whole(D, i)
      PROVE  /\ D[i].of.kind = "answer" =>
                    D[i].of.no <= s /\ \A j \in 1..Len(o) : o[j] # D[i].of.no
             /\ D[i].of.kind = "stray" => D[i].of.no > t
  BY <1>1, <1>3 DEF Once
<1> QED BY <1>2, <1>3 DEF Once

\* The same of the one result a call waits for
LEMMA OneResultOfRest ==
    ASSUME NEW C \in Seq(PieceT), NEW D \in Seq(PieceT), NEW d \in 0..Len(C),
           Len(D) = Len(C) - d, \A i \in 1..Len(D) : D[i] = C[i + d],
           NEW call, NEW o \in Seq(Int), NEW alive, OneResult(C, call, o, alive)
    PROVE  OneResult(D, call, o, alive)
<1>1. \A i \in 1..Len(D) : i + d \in 1..Len(C) /\ (Result(D, i) <=> Result(C, i + d))
  BY DEF Result
<1>2. ASSUME NEW i \in 1..Len(D), NEW j \in 1..Len(D), Result(D, i), Result(D, j)
      PROVE  i = j
  <2>1. i + d = j + d
    BY <1>1, <1>2 DEF OneResult
  <2> QED BY <2>1
<1>3. ASSUME NEW i \in 1..Len(D), Result(D, i)
      PROVE  /\ alive => o = <<>>
             /\ IF D[i].of.kind \in {"answer", "garbled"}
                THEN D[i].of.no = call /\ call \notin {NoCall, Greeting}
                ELSE D[i].of.kind \in {"greeting", "refusal"} /\ call = Greeting
  <2>1. Result(C, i + d) /\ i + d \in 1..Len(C) /\ D[i] = C[i + d]
    BY <1>1, <1>3
  <2> QED BY <2>1 DEF OneResult
<1> QED BY <1>2, <1>3 DEF OneResult

\* The same of what was dropped before the command
LEMMA GoneFromRest ==
    ASSUME NEW C \in Seq(PieceT), NEW D \in Seq(PieceT), NEW d \in 0..Len(C),
           Len(D) = Len(C) - d, \A i \in 1..Len(D) : D[i] = C[i + d],
           NEW early, NEW o \in Seq(Int), NEW t \in Nat, Gone(C, early, o, t)
    PROVE  Gone(D, early, o, t)
<1>1. \A i \in 1..Len(D) : i + d \in 1..Len(C) /\ (Whole(D, i) <=> Whole(C, i + d))
  BY DEF Whole
<1> QED BY <1>1 DEF Gone

\* The deck sends the response r: its last piece comes last, after what was coming.
Sends(C, D, r) ==
    /\ Len(D) > Len(C) /\ \A i \in 1..Len(C) : D[i] = C[i]
    /\ \A i \in Len(C)+1..Len(D) : D[i].last => i = Len(D) /\ D[i].of = r
    /\ D[Len(D)].last

\* A piece on its way was there before or has just been sent.
LEMMA ThereOrSent ==
    ASSUME NEW C \in Seq(PieceT), NEW D \in Seq(PieceT), NEW r, Sends(C, D, r),
           NEW i \in 1..Len(D)
    PROVE  \/ i \in 1..Len(C) /\ D[i] = C[i] /\ (Whole(D, i) <=> Whole(C, i))
           \/ i > Len(C) /\ (Whole(D, i) => i = Len(D) /\ D[i].of = r)
<1>1. i \in 1..Len(C) \/ i \in Len(C)+1..Len(D)
  OBVIOUS
<1>2. CASE i \in 1..Len(C)
  BY <1>2 DEF Sends, Whole
<1>3. CASE i \in Len(C)+1..Len(D)
  BY <1>3 DEF Sends, Whole
<1> QED BY <1>1, <1>2, <1>3

\* A response that is not on its way, and is owed no longer, is on its way once.
LEMMA OnceWithMore ==
    ASSUME NEW C \in Seq(PieceT), NEW D \in Seq(PieceT), NEW r \in Resps, Sends(C, D, r),
           NEW o \in Seq(Int), NEW p \in Seq(Int), NEW e \in Nat,
           Len(p) = Len(o) - e, \A j \in 1..Len(p) : p[j] = o[j + e],
           NEW s \in Nat, NEW t \in Nat, NEW u \in Nat, u <= t, Once(C, o, s, t),
           r.kind = "answer" => e >= 1 /\ Len(o) >= 1 /\ r.no = o[1],
           r.kind = "stray" => r.no = t /\ u < t
    PROVE  Once(D, p, s, u)
<1>1. \A i \in 1..Len(D) : \/ i \in 1..Len(C) /\ D[i] = C[i] /\ (Whole(D, i) <=> Whole(C, i))
                           \/ i > Len(C) /\ (Whole(D, i) => i = Len(D) /\ D[i].of = r)
  BY ThereOrSent
<1>2. \A j \in 1..Len(p) : j + e \in 1..Len(o)
  OBVIOUS
<1>3. ASSUME NEW i \in 1..Len(C), Whole(C, i), Single(C[i].of) PROVE C[i].of # r
  <2>1. CASE r.kind = "answer"
    BY <1>3, <2>1, 1 \in 1..Len(o) DEF Once
  <2>2. CASE r.kind = "stray"
    <3>1. C[i].of \in Resps
      BY <1>3, ElementOfSeq DEF PieceT
    <3>2. C[i].of.kind = "stray" => C[i].of.no > t
      BY <1>3 DEF Once
    <3>3. \A x \in Resps : x.kind = "stray" /\ x.no > t => x # r
      BY <2>2
    <3> QED BY <2>2, <3>1, <3>2, <3>3
  <2>3. CASE r.kind \notin {"answer", "stray"}
    BY <1>3, <2>3 DEF Single
  <2> QED BY <2>1, <2>2, <2>3
<1>4. ASSUME NEW i \in 1..Len(D), NEW j \in 1..Len(D),
             Whole(D, i), Whole(D, j), D[i].of = D[j].of, Single(D[i].of)
      PROVE  i = j
  <2>a. \/ i \in 1..Len(C) /\ D[i] = C[i] /\ Whole(C, i)
        \/ i = Len(D) /\ D[i].of = r
    BY <1>1, <1>4
  <2>b. \/ j \in 1..Len(C) /\ D[j] = C[j] /\ Whole(C, j)
        \/ j = Len(D) /\ D[j].of = r
    BY <1>1, <1>4
  <2>1. CASE /\ i \in 1..Len(C) /\ D[i] = C[i] /\ Whole(C, i)
             /\ j \in 1..Len(C) /\ D[j] = C[j] /\ Whole(C, j)
    BY <1>4, <2>1 DEF Once
  <2>2. CASE i = Len(D) /\ j = Len(D)
    BY <2>2
  <2>3. CASE i \in 1..Len(C) /\ D[i] = C[i] /\ Whole(C, i) /\ D[j].of = r
    BY <1>3, <1>4, <2>3
  <2>4. CASE j \in 1..Len(C) /\ D[j] = C[j] /\ Whole(C, j) /\ D[i].of = r
    BY <1>3, <1>4, <2>4
  <2> QED BY <2>a, <2>b, <2>1, <2>2, <2>3, <2>4
<1>5. ASSUME NEW i \in 1..Len(D), Whole(D, i)
      PROVE  /\ D[i].of.kind = "answer" =>
                    D[i].of.no <= s /\ \A j \in 1..Len(p) : p[j] # D[i].of.no
             /\ D[i].of.kind = "stray" => D[i].of.no > u
  <2>1. CASE i <= Len(C)
    <3>1. i \in 1..Len(C) /\ Whole(C, i) /\ D[i] = C[i] /\ C[i].of \in Resps
      <4>1. i \in 1..Len(C)
        BY <2>1
      <4>2. C[i] \in PieceT
        BY <4>1, ElementOfSeq
      <4> QED BY <1>1, <1>5, <4>1, <4>2 DEF PieceT
    <3>2. C[i].of.kind = "answer" => C[i].of.no <= s /\ \A j \in 1..Len(o) : o[j] # C[i].of.no
      BY <3>1 DEF Once
    <3>3. C[i].of.kind = "stray" => C[i].of.no > t
      BY <3>1 DEF Once
    <3>4. C[i].of.kind = "stray" => C[i].of.no > u
      BY <3>1, <3>3 DEF Resps
    <3> QED BY <1>2, <3>1, <3>2, <3>4
  <2>2. CASE i > Len(C)
    <3>1. D[i].of = r
      <4>1. i \notin 1..Len(C)
        BY <2>2
      <4> QED BY <1>1, <1>5, <4>1
    <3>2. r.kind = "answer" => r.no <= s /\ \A j \in 1..Len(p) : p[j] # r.no
      <4> SUFFICES ASSUME r.kind = "answer" PROVE r.no <= s /\ \A j \in 1..Len(p) : p[j] # r.no
        OBVIOUS
      <4>1. 1 \in 1..Len(o) /\ r.no = o[1] /\ e >= 1
        OBVIOUS
      <4>2. r.no <= s
        BY <4>1 DEF Once
      <4>3. ASSUME NEW j \in 1..Len(p) PROVE p[j] # r.no
        BY <1>2, <4>1 DEF Once
      <4> QED BY <4>2, <4>3
    <3> QED BY <3>1, <3>2
  <2> QED BY <2>1, <2>2
<1>6. /\ \A j \in 1..Len(p) : p[j] <= s
      /\ \A i, j \in 1..Len(p) : p[i] = p[j] => i = j
  <2>1. \A j \in 1..Len(p) : p[j] <= s
    BY <1>2 DEF Once
  <2>2. ASSUME NEW i \in 1..Len(p), NEW j \in 1..Len(p), p[i] = p[j] PROVE i = j
    <3>1. i + e = j + e
      BY <1>2, <2>2, ZenonT(30) DEF Once
    <3> QED BY <3>1
  <2> QED BY <2>1, <2>2
<1> QED BY <1>4, <1>5, <1>6 DEF Once

Within(p, o) == \A j \in 1..Len(p) : \E i \in 1..Len(o) : p[j] = o[i]

\* What was dropped does not come again with what the deck sends.
LEMMA GoneWithMore ==
    ASSUME NEW C \in Seq(PieceT), NEW D \in Seq(PieceT), NEW r \in Resps, Sends(C, D, r),
           NEW o \in Seq(Int), NEW p \in Seq(Int),
           Within(p, o), NEW t \in Nat, NEW u \in Nat, u <= t, NEW early, early \subseteq Resps,
           Gone(C, early, o, t),
           r.kind = "answer" => Len(o) >= 1 /\ r.no = o[1],
           r.kind = "stray" => r.no = t
    PROVE  Gone(D, early, p, u)
<1>1. \A i \in 1..Len(D) : \/ i \in 1..Len(C) /\ D[i] = C[i] /\ (Whole(D, i) <=> Whole(C, i))
                           \/ Whole(D, i) => D[i].of = r
  BY ThereOrSent
<1>2. Single(r) => r \notin early
  <2>1. r.kind = "answer" => r \notin early
    <3> SUFFICES ASSUME r.kind = "answer", r \in early PROVE FALSE
      OBVIOUS
    <3>1. \A j \in 1..Len(o) : o[j] # r.no
      BY DEF Gone
    <3> QED BY <3>1, 1 \in 1..Len(o)
  <2>2. r.kind = "stray" => r \notin early
    <3> SUFFICES ASSUME r.kind = "stray", r \in early PROVE FALSE
      OBVIOUS
    <3>1. r.no > t
      BY DEF Gone
    <3> QED BY <3>1
  <2> QED BY <2>1, <2>2 DEF Single
<1>3. \A i \in 1..Len(D) : Whole(D, i) /\ Single(D[i].of) => D[i].of \notin early
  BY <1>1, <1>2 DEF Gone
<1>4. ASSUME NEW q \in early
      PROVE  /\ q.kind = "answer" => \A j \in 1..Len(p) : p[j] # q.no
             /\ q.kind = "stray" => q.no > u
  <2>1. q.no \in Int
    BY DEF Resps
  <2>3. q.kind = "answer" => \A j \in 1..Len(o) : o[j] # q.no
    BY DEF Gone
  <2>4. q.kind = "stray" => q.no > t
    BY DEF Gone
  <2>5. q.kind = "stray" => q.no > u
    BY <2>1, <2>4
  <2>6. q.kind = "answer" => \A j \in 1..Len(p) : p[j] # q.no
    BY <2>3 DEF Within
  <2> QED BY <2>5, <2>6
<1> QED BY <1>3, <1>4 DEF Gone

Below == OpToRel(<, Nat)

\* The order of the places a search goes through
LEMMA BelowIsWellFounded == IsWellFoundedOn(Below, Nat)
BY NatLessThanWellFounded DEF Below

\* A smaller place comes before.
LEMMA BelowIsLess == ASSUME NEW m \in Nat, NEW n \in Nat, m < n PROVE <<m, n>> \in Below
BY DEF Below, OpToRel

\* What is still to be read, piece by piece
LEMMA ComingType ==
    ASSUME DeckTypeOK
    PROVE  /\ Coming \in Seq(PieceT) /\ Len(Coming) = Len(hd.buf) + Len(stream)
           /\ \A i \in 1..Len(hd.buf) : Coming[i] = hd.buf[i]
           /\ \A i \in 1..Len(stream) : Coming[i + Len(hd.buf)] = stream[i]
BY DEF DeckTypeOK, Coming

\* What has arrived with the first k pieces of the stream
LEMMA ArrivedType ==
    ASSUME DeckTypeOK, NEW k \in 0..Len(stream)
    PROVE  LET all == hd.buf \o SubSeq(stream, 1, k)
           IN  /\ all \in Seq(PieceT) /\ Len(all) = Len(hd.buf) + k
               /\ \A i \in 1..Len(all) : all[i] = Coming[i]
<1> USE DEF Coming
<1>1. hd.buf \in Seq(PieceT) /\ stream \in Seq(PieceT)
  BY DEF DeckTypeOK
<1> DEFINE all == hd.buf \o SubSeq(stream, 1, k)
<1>2. /\ all \in Seq(PieceT) /\ Len(all) = Len(hd.buf) + k
      /\ \A i \in 1..Len(hd.buf) + k : all[i] = Coming[i]
  <2> HIDE DEF PieceT
  <2> QED BY <1>1, JoinedFirst
<1> HIDE DEF all
<1>3. \A i \in 1..Len(all) : all[i] = Coming[i]
  BY <1>2
<1> QED BY <1>2, <1>3 DEF all

\* The responses that have arrived are those that are whole.
LEMMA ArrivedAre ==
    ASSUME DeckTypeOK, NEW k \in 0..Len(stream)
    PROVE  /\ \A r \in Arrived(k) :
                 \E j \in 1..Len(hd.buf) + k : j \in 1..Len(Coming) /\ Coming[j].last /\ r = Coming[j].of
           /\ \A j \in 1..Len(hd.buf) + k : Coming[j].last => Coming[j].of \in Arrived(k)
           /\ Arrived(k) \subseteq Resps
<1> DEFINE all == hd.buf \o SubSeq(stream, 1, k)
<1>1. all \in Seq(PieceT) /\ Len(all) = Len(hd.buf) + k /\ \A i \in 1..Len(all) : all[i] = Coming[i]
  BY ArrivedType
<1>2. Arrived(k) = {q.of : q \in {r \in Range(all) : r.last}}
  BY DEF Arrived
<1> HIDE DEF all
<1>3. Range(all) = {all[i] : i \in 1..Len(all)}
  BY <1>1 DEF Range
<1>4. 1..Len(hd.buf) + k \subseteq 1..Len(Coming)
  BY ComingType DEF DeckTypeOK
<1>5. \A r \in Arrived(k) : \E j \in 1..Len(all) : all[j].last /\ r = all[j].of
  BY <1>2, <1>3
<1>6. \A j \in 1..Len(all) : all[j].last => all[j].of \in Arrived(k)
  BY <1>2, <1>3
<1>7. \A j \in 1..Len(all) : all[j].of \in Resps
  BY <1>1, ElementOfSeq DEF PieceT
<1>8. \A r \in Arrived(k) :
         \E j \in 1..Len(hd.buf) + k : j \in 1..Len(Coming) /\ Coming[j].last /\ r = Coming[j].of
  BY <1>1, <1>4, <1>5
<1>9. \A j \in 1..Len(hd.buf) + k : Coming[j].last => Coming[j].of \in Arrived(k)
  BY <1>1, <1>6
<1>10. Arrived(k) \subseteq Resps
  BY <1>5, <1>7
<1> QED BY <1>8, <1>9, <1>10

\* What _drop_unrequested leaves is the rest of what was coming, from some place d on; if
\* everything that had arrived could be read, at most half a response of it.  What goes has
\* been gone through for notifications.
LEMMA DropLeaves ==
    ASSUME DeckTypeOK, NEW k \in 0..Len(stream)
    PROVE  LET left == Dropped(hd, k).buf \o Rest(k)
           IN  /\ Dropped(hd, k).buf \in Seq(PieceT) /\ Rest(k) \in Seq(PieceT)
               /\ \E d \in 0..Len(Coming) :
                     /\ Len(left) = Len(Coming) - d /\ \A i \in 1..Len(left) : left[i] = Coming[i + d]
                     /\ ~Garbled(k) =>
                           /\ \A i \in 1..Len(Dropped(hd, k).buf) : ~Dropped(hd, k).buf[i].last
                           /\ \A i \in d+1..Len(Coming) : Coming[i].last => i > Len(hd.buf) + k
                     /\ \E done \in Seq(PieceT) :
                           /\ Len(done) = d /\ \A i \in 1..d : done[i] = Coming[i]
                           /\ Dropped(hd, k).notes = NotesOf(hd.notes, done)
<1> DEFINE all  == hd.buf \o SubSeq(stream, 1, k)
           bad  == SelectInSeq(all, LAMBDA q : q.of.kind = "garbled")
           done == IF bad = 0 THEN Len(all) - (IF all # <<>> /\ ~Last(all).last THEN 1 ELSE 0)
                   ELSE bad
           b    == SubSeq(all, done + 1, Len(all))
           left == b \o Rest(k)
           taken == SubSeq(all, 1, done)
<1>1. all \in Seq(PieceT) /\ Len(all) = Len(hd.buf) + k /\ \A i \in 1..Len(all) : all[i] = Coming[i]
  BY ArrivedType
<1>2. Dropped(hd, k).buf = b /\ Dropped(hd, k).notes = NotesOf(hd.notes, taken)
  BY DEF Dropped, DeckTypeOK
<1>3. /\ bad \in 0..Len(all)
      /\ bad = 0 => \A i \in 1..Len(all) : all[i].of.kind # "garbled"
      /\ bad # 0 => all[bad].of.kind = "garbled"
  <2> DEFINE I == {i \in 1..Len(all) : all[i].of.kind = "garbled"}
  <2>1. bad = IF I # {} THEN Min(I) ELSE 0
    BY DEF SelectInSeq
  <2> HIDE DEF bad, all
  <2>2. ASSUME I # {} PROVE Min(I) \in I
    <3>1. I \subseteq Nat
      BY <1>1
    <3>2. PICK m \in I : \A y \in I : m <= y
      <4> HIDE DEF I
      <4>1. \E m \in I : \A y \in I : <<y, m>> \notin Below
        BY <2>2, <3>1, BelowIsWellFounded, WFMin, Zenon
      <4>2. \A m, y \in I : y < m => <<y, m>> \in Below
        BY <3>1, BelowIsLess
      <4>3. PICK m \in I : \A y \in I : <<y, m>> \notin Below
        BY <4>1
      <4>4. \A y \in I : ~(y < m)
        BY <4>2, <4>3
      <4>5. \A y \in I : m <= y
        BY <4>4, <3>1
      <4> QED BY <4>5
    <3> QED BY <3>2 DEF Min
  <2>3. Len(all) \in Nat
    BY <1>1
  <2> QED BY <2>1, <2>2, <2>3
<1> HIDE DEF bad, all
<1>4. done \in 0..Len(all) /\ Len(all) \in Nat
  <2>1. Len(all) \in Nat /\ (all # <<>> => Len(all) >= 1)
    BY <1>1
  <2> QED BY <2>1, <1>3
<1>5. Rest(k) \in Seq(PieceT) /\ Len(Rest(k)) = Len(stream) - k
      /\ \A i \in 1..Len(Rest(k)) : Rest(k)[i] = stream[i + k]
  BY RestFrom DEF Rest, DeckTypeOK
<1> HIDE DEF done
<1>6. b \in Seq(PieceT) /\ Len(b) = Len(all) - done /\ \A i \in 1..Len(b) : b[i] = all[i + done]
  BY <1>1, <1>4
<1>7. Len(Coming) = Len(hd.buf) + Len(stream) /\ Len(hd.buf) \in Nat /\ Len(stream) \in Nat
  BY ComingType DEF DeckTypeOK
<1>8. left \in Seq(PieceT)
      /\ Len(left) = Len(Coming) - done /\ \A i \in 1..Len(Coming) - done : left[i] = Coming[i + done]
  <2>1. hd.buf \in Seq(PieceT) /\ stream \in Seq(PieceT)
    BY DEF DeckTypeOK
  <2>2. left = LeftOf(hd.buf, stream, k, done)
    BY <1>1 DEF b, all, Rest, LeftOf
  <2> HIDE DEF left
  <2>3. PICK n \in Int : n = Len(hd.buf) + k /\ done \in 0..n
    BY <1>1, <1>4
  <2>4. LET l == LeftOf(hd.buf, stream, k, done) IN
        /\ l \in Seq(PieceT) /\ Len(l) = Len(hd.buf \o stream) - done
        /\ \A i \in 1..Len(hd.buf \o stream) - done : l[i] = (hd.buf \o stream)[i + done]
    <3>1. PICK x \in Seq(PieceT), y \in Seq(PieceT), d \in 0..n :
             x = hd.buf /\ y = stream /\ d = done
      BY <2>1, <2>3
    <3>2. k \in 0..Len(y) /\ n = Len(x) + k
      BY <2>3, <3>1
    <3>3. LET l == LeftOf(x, y, k, d) IN
          /\ l \in Seq(PieceT) /\ Len(l) = Len(x \o y) - d
          /\ \A i \in 1..Len(x \o y) - d : l[i] = (x \o y)[i + d]
      BY <3>2, LeftOver
    <3> QED BY <3>1, <3>3
  <2> QED BY <2>2, <2>4 DEF Coming
<1>9. taken \in Seq(PieceT) /\ Len(taken) = done /\ \A i \in 1..done : taken[i] = Coming[i]
  <2>1. taken \in Seq(PieceT) /\ Len(taken) = done /\ \A i \in 1..done : taken[i] = all[i]
    <3> HIDE DEF PieceT
    <3> QED BY <1>1, <1>4
  <2> HIDE DEF taken
  <2> QED BY <1>1, <1>4, <2>1
<1> HIDE DEF taken
<1> HIDE DEF left, b
<1>11. ASSUME ~Garbled(k) PROVE bad = 0
  <2> SUFFICES ASSUME bad # 0 PROVE FALSE
    OBVIOUS
  <2>1. bad \in 1..Len(all) /\ all[bad].of.kind = "garbled" /\ all[bad] \in PieceT
    BY <1>1, <1>3, ElementOfSeq
  <2>2. all[bad].last
    BY <2>1 DEF PieceT
  <2>3. all[bad].of \in Arrived(k)
    BY <1>1, <2>1, <2>2, ArrivedAre
  <2> QED BY <2>1, <2>3, <1>11 DEF Garbled
<1>12. ASSUME ~Garbled(k)
       PROVE  /\ \A i \in 1..Len(b) : ~b[i].last
              /\ \A i \in done+1..Len(Coming) : Coming[i].last => i > Len(hd.buf) + k
  <2>1. done = Len(all) - (IF all # <<>> /\ ~Last(all).last THEN 1 ELSE 0)
    BY <1>11, <1>12 DEF done
  <2>2. CASE all # <<>> /\ ~Last(all).last
    <3>1. done = Len(all) - 1 /\ Len(all) \in 1..Len(all) /\ ~all[Len(all)].last
      BY <2>1, <2>2, <1>1 DEF Last
    <3>2. \A i \in 1..Len(b) : i + done = Len(all)
      BY <3>1, <1>4, <1>6
    <3>3. ~Coming[Len(all)].last
      BY <3>1, <1>1
    <3>4. \A i \in done+1..Len(Coming) : i = Len(all) \/ i > Len(all)
      BY <3>1, <1>4, <1>7
    <3> QED BY <3>1, <3>2, <3>3, <3>4, <1>1, <1>6
  <2>3. CASE ~(all # <<>> /\ ~Last(all).last)
    <3>1. done = Len(all)
      BY <2>1, <2>3, <1>4
    <3> QED BY <3>1, <1>1, <1>4, <1>6, <1>7
  <2> QED BY <2>2, <2>3
<1>13. done \in 0..Len(Coming)
  BY <1>1, <1>4, <1>7
<1> QED BY <1>2, <1>5, <1>6, <1>8, <1>9, <1>12, <1>13 DEF left

\* A whole response sent in two pieces, or a line that is none in one
LEMMA SentTwo ==
    ASSUME NEW S, NEW x \in Seq(S), NEW y \in Seq(S), NEW a \in S, NEW b \in S
    PROVE  /\ y \o <<a, b>> \in Seq(S) /\ x \o (y \o <<a, b>>) \in Seq(S)
           /\ Len(x \o (y \o <<a, b>>)) = Len(x \o y) + 2
           /\ \A i \in 1..Len(x \o y) : (x \o (y \o <<a, b>>))[i] = (x \o y)[i]
           /\ (x \o (y \o <<a, b>>))[Len(x \o y) + 1] = a
           /\ (x \o (y \o <<a, b>>))[Len(x \o y) + 2] = b
OBVIOUS

\* A line that is none, sent in one piece
LEMMA SentOne ==
    ASSUME NEW S, NEW x \in Seq(S), NEW y \in Seq(S), NEW a \in S
    PROVE  /\ Append(y, a) \in Seq(S) /\ x \o Append(y, a) \in Seq(S)
           /\ Len(x \o Append(y, a)) = Len(x \o y) + 1
           /\ \A i \in 1..Len(x \o y) : (x \o Append(y, a))[i] = (x \o y)[i]
           /\ (x \o Append(y, a))[Len(x \o y) + 1] = a
OBVIOUS

\* A command's number is new.
LEMMA OnceAsked ==
    ASSUME NEW C \in Seq(PieceT), NEW o \in Seq(Int), NEW p, NEW s \in Nat, NEW t \in Nat,
           p = Append(o, s + 1), Once(C, o, s, t)
    PROVE  Once(C, p, s + 1, t)
<1>1. /\ Len(p) = Len(o) + 1 /\ Len(o) \in Nat /\ p[Len(p)] = s + 1
      /\ \A j \in 1..Len(o) : p[j] = o[j]
  OBVIOUS
<1>2. \A j \in 1..Len(p) : (j \in 1..Len(o) /\ p[j] = o[j]) \/ (j = Len(p) /\ p[j] = s + 1)
  BY <1>1
<1>3. \A j \in 1..Len(o) : o[j] \in Int /\ o[j] <= s
  BY ElementOfSeq DEF Once
<1>4. /\ \A j \in 1..Len(p) : p[j] <= s + 1
      /\ \A i, j \in 1..Len(p) : p[i] = p[j] => i = j
  <2>1. \A j \in 1..Len(p) : p[j] <= s + 1
    BY <1>2, <1>3
  <2>2. ASSUME NEW i \in 1..Len(p), NEW j \in 1..Len(p), p[i] = p[j] PROVE i = j
    <3>1. CASE i \in 1..Len(o) /\ p[i] = o[i] /\ j \in 1..Len(o) /\ p[j] = o[j]
      BY <2>2, <3>1 DEF Once
    <3>2. CASE i = Len(p) /\ j = Len(p)
      BY <3>2
    <3>3. CASE i \in 1..Len(o) /\ p[i] = o[i] /\ p[j] = s + 1
      BY <1>3, <2>2, <3>3
    <3>4. CASE j \in 1..Len(o) /\ p[j] = o[j] /\ p[i] = s + 1
      <4>1. o[j] = s + 1 /\ o[j] \in Int /\ o[j] <= s
        BY <1>3, <2>2, <3>4
      <4> QED BY <4>1
    <3> QED BY <1>2, <3>1, <3>2, <3>3, <3>4
  <2> QED BY <2>1, <2>2
<1>5. ASSUME NEW i \in 1..Len(C), Whole(C, i), C[i].of.kind = "answer"
      PROVE  C[i].of.no <= s + 1 /\ \A j \in 1..Len(p) : p[j] # C[i].of.no
  <2>1. C[i].of.no <= s /\ \A j \in 1..Len(o) : o[j] # C[i].of.no
    BY <1>5 DEF Once
  <2>2. C[i].of.no \in Int
    <3>1. C[i] \in PieceT
      BY ElementOfSeq
    <3> QED BY <3>1 DEF PieceT, Resps
  <2>3. C[i].of.no # s + 1 /\ C[i].of.no <= s + 1
    BY <2>1, <2>2
  <2> QED BY <1>2, <2>1, <2>3
<1>6. \A i \in 1..Len(C) : Whole(C, i) /\ C[i].of.kind = "stray" => C[i].of.no > t
  BY DEF Once
<1>7. \A i, j \in 1..Len(C) :
          Whole(C, i) /\ Whole(C, j) /\ C[i].of = C[j].of /\ Single(C[i].of) => i = j
  BY DEF Once
<1> QED BY <1>4, <1>5, <1>6, <1>7 DEF Once

\* No result is owed or on its way when no call waits: the next one is the command's.
LEMMA OneResultAsked ==
    ASSUME NEW C \in Seq(PieceT), NEW D \in Seq(PieceT), NEW d \in 0..Len(C),
           Len(D) = Len(C) - d, \A i \in 1..Len(D) : D[i] = C[i + d],
           NEW o \in Seq(Int), NEW p, NEW s \in Nat, p = Append(o, s + 1),
           OneResult(C, NoCall, o, TRUE)
    PROVE  OneResult(D, s + 1, p, TRUE)
<1>1. OneResult(D, NoCall, o, TRUE)
  BY OneResultOfRest
<1>2. \A i \in 1..Len(D) : ~Result(D, i)
  BY <1>1 DEF OneResult, NoCall, Greeting
<1>3. o = <<>>
  BY <1>1 DEF OneResult
<1>4. Len(p) = 1 /\ p[1] = s + 1 /\ s + 1 \notin {NoCall, Greeting}
  BY <1>3 DEF NoCall, Greeting
<1> QED BY <1>2, <1>4 DEF OneResult

\* The call has its result.
LEMMA OneResultTaken ==
    ASSUME NEW C \in Seq(PieceT), NEW D \in Seq(PieceT), NEW d \in 1..Len(C),
           Len(D) = Len(C) - d, \A i \in 1..Len(D) : D[i] = C[i + d],
           NEW call, NEW o \in Seq(Int), NEW alive, OneResult(C, call, o, alive), Result(C, d)
    PROVE  OneResult(D, NoCall, o, alive)
<1>1. ASSUME NEW i \in 1..Len(D), Result(D, i) PROVE FALSE
  <2>1. i + d \in 1..Len(C) /\ Result(C, i + d) /\ i + d # d
    BY <1>1 DEF Result
  <2> QED BY <2>1 DEF OneResult
<1>2. Len(o) <= 1 /\ (alive => o = <<>>)
  BY DEF OneResult
<1> QED BY <1>1, <1>2 DEF OneResult

\* The answer that was owed is on its way.
LEMMA OneResultSent ==
    ASSUME NEW C \in Seq(PieceT), NEW D \in Seq(PieceT), NEW r \in Resps, Sends(C, D, r),
           r.kind \in {"answer", "garbled"}, NEW call, NEW o \in Seq(Int), NEW p \in Seq(Int),
           o # <<>>, r.no = o[1], Len(p) = Len(o) - 1, OneResult(C, call, o, TRUE)
    PROVE  OneResult(D, call, p, TRUE)
<1>1. Len(o) = 1 /\ o[1] = call /\ call \notin {NoCall, Greeting} /\ p = <<>>
  BY DEF OneResult
<1>2. \A i \in 1..Len(C) : ~Result(C, i)
  BY DEF OneResult
<1>3. \A i \in 1..Len(D) : Result(D, i) => i = Len(D) /\ D[i].of = r
  <2> TAKE i \in 1..Len(D)
  <2>1. i \in 1..Len(C) => D[i] = C[i] /\ ~Result(C, i)
    BY <1>2 DEF Sends
  <2>2. i \notin 1..Len(C) => i \in Len(C)+1..Len(D)
    OBVIOUS
  <2>3. \A j \in Len(C)+1..Len(D) : D[j].last => j = Len(D) /\ D[j].of = r
    BY DEF Sends
  <2> QED BY <2>1, <2>2, <2>3 DEF Result
<1> QED BY <1>1, <1>3 DEF OneResult

\* A notification is no result.
LEMMA OneResultNoted ==
    ASSUME NEW C \in Seq(PieceT), NEW D \in Seq(PieceT), NEW r \in Resps, Sends(C, D, r),
           r.kind = "note", NEW call, NEW o \in Seq(Int), NEW alive, OneResult(C, call, o, alive)
    PROVE  OneResult(D, call, o, alive)
<1>1. \A i \in 1..Len(D) : Result(D, i) => i \in 1..Len(C) /\ D[i] = C[i] /\ Result(C, i)
  BY DEF Sends, Result
<1> QED BY <1>1 DEF OneResult

\* The parts the step lemmas name
LEMMA PartsOfComing ==
    ASSUME DeckTypeOK
    PROVE  /\ hd.buf \in Seq(PieceT) /\ stream \in Seq(PieceT) /\ Coming \in Seq(PieceT)
           /\ deck.owed \in Seq(Int) /\ hd.sent \in Nat /\ deck.strays \in Nat /\ deck.noted \in Nat
           /\ hd.early \in SUBSET Resps
BY ComingType DEF DeckTypeOK

\* A response goes out in two pieces.
LEMMA SendsPieces ==
    ASSUME DeckTypeOK, hd' = hd, NEW r \in Resps, r.kind # "garbled", stream' = stream \o Pieces(r)
    PROVE  stream' \in Seq(PieceT) /\ Coming' \in Seq(PieceT) /\ Sends(Coming, Coming', r)
<1>0. hd.buf \in Seq(PieceT) /\ stream \in Seq(PieceT) /\ Coming \in Seq(PieceT)
  BY PartsOfComing
<1>1. PICK a \in PieceT, b \in PieceT :
         Pieces(r) = <<a, b>> /\ ~a.last /\ b.last /\ b.of = r
  <2>1. Piece(r, FALSE) \in PieceT /\ Piece(r, TRUE) \in PieceT
    BY DEF Piece, PieceT
  <2> QED BY <2>1 DEF Pieces, Piece
<1>2. stream' = stream \o <<a, b>> /\ Coming' = hd.buf \o (stream \o <<a, b>>)
  BY <1>1 DEF Coming
<1>3. /\ stream' \in Seq(PieceT) /\ Coming' \in Seq(PieceT) /\ Len(Coming') = Len(Coming) + 2
      /\ \A i \in 1..Len(Coming) : Coming'[i] = Coming[i]
      /\ Coming'[Len(Coming) + 1] = a /\ Coming'[Len(Coming) + 2] = b
  <2> HIDE DEF PieceT
  <2>1. PICK x \in Seq(PieceT), y \in Seq(PieceT) : x = hd.buf /\ y = stream
    BY <1>0
  <2>2. /\ y \o <<a, b>> \in Seq(PieceT) /\ x \o (y \o <<a, b>>) \in Seq(PieceT)
        /\ Len(x \o (y \o <<a, b>>)) = Len(x \o y) + 2
        /\ \A i \in 1..Len(x \o y) : (x \o (y \o <<a, b>>))[i] = (x \o y)[i]
        /\ (x \o (y \o <<a, b>>))[Len(x \o y) + 1] = a
        /\ (x \o (y \o <<a, b>>))[Len(x \o y) + 2] = b
    BY SentTwo
  <2> QED BY <1>2, <2>1, <2>2 DEF Coming
<1>4. \A i \in Len(Coming)+1..Len(Coming') : i = Len(Coming) + 1 \/ i = Len(Coming')
  BY <1>0, <1>3
<1>5. Len(Coming') > Len(Coming)
  BY <1>0, <1>3
<1> QED BY <1>1, <1>3, <1>4, <1>5 DEF Sends

\* A line that is no response goes out in one.
LEMMA SendsLine ==
    ASSUME DeckTypeOK, hd' = hd, NEW r \in Resps, stream' = Append(stream, Piece(r, TRUE))
    PROVE  stream' \in Seq(PieceT) /\ Coming' \in Seq(PieceT) /\ Sends(Coming, Coming', r)
<1>0. hd.buf \in Seq(PieceT) /\ stream \in Seq(PieceT) /\ Coming \in Seq(PieceT)
  BY PartsOfComing
<1>1. PICK a \in PieceT : Piece(r, TRUE) = a /\ a.last /\ a.of = r
  <2>1. Piece(r, TRUE) \in PieceT
    BY DEF Piece, PieceT
  <2> QED BY <2>1 DEF Piece
<1>2. stream' = Append(stream, a) /\ Coming' = hd.buf \o Append(stream, a)
  BY <1>1 DEF Coming
<1>3. /\ stream' \in Seq(PieceT) /\ Coming' \in Seq(PieceT) /\ Len(Coming') = Len(Coming) + 1
      /\ \A i \in 1..Len(Coming) : Coming'[i] = Coming[i]
      /\ Coming'[Len(Coming) + 1] = a
  <2> HIDE DEF PieceT
  <2>1. PICK x \in Seq(PieceT), y \in Seq(PieceT) : x = hd.buf /\ y = stream
    BY <1>0
  <2>2. /\ Append(y, a) \in Seq(PieceT) /\ x \o (Append(y, a)) \in Seq(PieceT)
        /\ Len(x \o (Append(y, a))) = Len(x \o y) + 1
        /\ \A i \in 1..Len(x \o y) : (x \o (Append(y, a)))[i] = (x \o y)[i]
        /\ (x \o (Append(y, a)))[Len(x \o y) + 1] = a
    BY SentOne
  <2> QED BY <1>2, <2>1, <2>2 DEF Coming
<1>4. Sends(Coming, Coming', r)
  <2>1. \A i \in Len(Coming)+1..Len(Coming') : i = Len(Coming')
    BY <1>0, <1>3
  <2>2. Len(Coming') > Len(Coming)
    BY <1>0, <1>3
  <2> QED BY <1>1, <1>3, <2>1, <2>2 DEF Sends
<1> QED BY <1>3, <1>4

\* The deck's own moves
LEMMA AnswerStep == ASSUME DeckInv, DeckAnswers PROVE DeckInv'
<1> DEFINE r0 == Resp("answer", Head(deck.owed))
           r1 == Resp("garbled", Head(deck.owed))
<1>1. /\ deck.owed # <<>> /\ deck.owed \in Seq(Int) /\ Len(deck.owed) >= 1
      /\ Head(deck.owed) = deck.owed[1] /\ Head(deck.owed) \in Int
      /\ Tail(deck.owed) \in Seq(Int) /\ Len(Tail(deck.owed)) = Len(deck.owed) - 1
      /\ \A j \in 1..Len(Tail(deck.owed)) : Tail(deck.owed)[j] = deck.owed[j + 1]
  BY DEF DeckAnswers, DeckInv, DeckTypeOK
<1>2. /\ deck'.owed = Tail(deck.owed) /\ deck'.up = deck.up /\ deck.up
      /\ deck'.strays = deck.strays /\ deck'.strayed = deck.strayed /\ deck'.noted = deck.noted
      /\ deck' = [up |-> deck'.up, owed |-> deck'.owed, answered |-> deck'.answered,
                  noted |-> deck'.noted, conns |-> deck'.conns, strays |-> deck'.strays,
                  strayed |-> deck'.strayed]
      /\ hd' = hd /\ got' = got
  BY DEF DeckAnswers, DeckInv, DeckTypeOK
<1>3. PICK r \in Resps : /\ r.kind \in {"answer", "garbled"} /\ r.no = deck.owed[1]
                         /\ Sends(Coming, Coming', r) /\ Coming' \in Seq(PieceT)
                         /\ stream' \in Seq(PieceT)
  <2>0. DeckTypeOK
    BY DEF DeckInv
  <2>1. CASE stream' = stream \o Pieces(r0)
    <3>1. r0 \in Resps /\ r0.kind = "answer" /\ r0.no = deck.owed[1]
      BY <1>1 DEF Resps, Kinds, Resp
    <3> HIDE DEF r0
    <3> QED BY <1>2, <2>0, <2>1, <3>1, SendsPieces
  <2>2. CASE stream' = Append(stream, Piece(r1, TRUE))
    <3>1. r1 \in Resps /\ r1.kind = "garbled" /\ r1.no = deck.owed[1]
      BY <1>1 DEF Resps, Kinds, Resp
    <3> HIDE DEF r1
    <3> QED BY <1>2, <2>0, <2>2, <3>1, SendsLine
  <2> QED BY <2>1, <2>2 DEF DeckAnswers
<1> HIDE DEF r0, r1
<1>4. DeckTypeOK'
  BY <1>1, <1>2, <1>3 DEF DeckInv, DeckTypeOK
<1>5. BufferIsHalf' /\ AnswerIsOwn'
  BY <1>2 DEF DeckInv, BufferIsHalf, AnswerIsOwn
<1>6. ASSUME hd'.open PROVE Once(Coming', deck'.owed, hd'.sent, deck'.strays)
  <2>1. /\ Once(Coming, deck.owed, hd.sent, deck.strays)
        /\ Coming \in Seq(PieceT) /\ hd.sent \in Nat /\ deck.strays \in Nat
    BY <1>2, <1>6, PartsOfComing DEF DeckInv
  <2> PICK o \in Seq(Int), p \in Seq(Int) : o = deck.owed /\ p = Tail(deck.owed)
    BY <1>1
  <2>2. Once(Coming', p, hd.sent, deck.strays)
    <3>1. Len(p) = Len(o) - 1 /\ \A j \in 1..Len(p) : p[j] = o[j + 1]
      BY <1>1
    <3>2. deck.strays <= deck.strays /\ 1 \in Nat /\ r.kind # "stray"
      BY <1>3, <2>1
    <3>3. r.kind = "answer" => 1 >= 1 /\ Len(o) >= 1 /\ r.no = o[1]
      BY <1>1, <1>3
    <3>4. PICK C \in Seq(PieceT), D \in Seq(PieceT), s \in Nat, t \in Nat :
             C = Coming /\ D = Coming' /\ s = hd.sent /\ t = deck.strays
      BY <1>3, <2>1
    <3>5. Sends(C, D, r) /\ Once(C, o, s, t) /\ t <= t
      BY <1>3, <2>1, <3>4
    <3>6. Once(D, p, s, t)
      BY <3>1, <3>2, <3>3, <3>5, OnceWithMore
    <3> QED BY <3>4, <3>6
  <2> QED BY <1>2, <2>2
<1>7. ASSUME hd'.call \notin {NoCall, Greeting} PROVE Gone(Coming', hd'.early, deck'.owed, deck'.strays)
  <2>1. /\ Gone(Coming, hd.early, deck.owed, deck.strays) /\ hd.early \in SUBSET Resps
        /\ Coming \in Seq(PieceT) /\ deck.strays \in Nat
    BY <1>2, <1>7, PartsOfComing DEF DeckInv
  <2> PICK o \in Seq(Int), p \in Seq(Int) : o = deck.owed /\ p = Tail(deck.owed)
    BY <1>1
  <2>2. Gone(Coming', hd.early, p, deck.strays)
    <3>1. Len(p) = Len(o) - 1 /\ \A j \in 1..Len(p) : p[j] = o[j + 1]
      BY <1>1
    <3>2. deck.strays <= deck.strays /\ 1 \in Nat /\ r.kind # "stray"
      BY <1>3, <2>1
    <3>3. r.kind = "answer" => Len(o) >= 1 /\ r.no = o[1]
      BY <1>1, <1>3
    <3>4. PICK C \in Seq(PieceT), D \in Seq(PieceT), e \in SUBSET Resps, t \in Nat :
             C = Coming /\ D = Coming' /\ e = hd.early /\ t = deck.strays
      BY <1>3, <2>1
    <3>5. Sends(C, D, r) /\ Gone(C, e, o, t) /\ t <= t
      BY <1>3, <2>1, <3>4
    <3>6. Gone(D, e, p, t)
      <4>2. Within(p, o)
        <5>1. \A j \in 1..Len(p) : j + 1 \in 1..Len(o)
          BY <3>1
        <5> QED BY <3>1, <5>1 DEF Within
      <4>3. (r.kind = "stray" => r.no = t) /\ e \subseteq Resps
        BY <3>2
      <4> QED BY <3>3, <3>5, <4>2, <4>3, GoneWithMore, ZenonT(30)
    <3> QED BY <3>4, <3>6
  <2> QED BY <1>2, <2>2
<1>8. ASSUME hd'.open, ~deck'.strayed PROVE OneResult(Coming', hd'.call, deck'.owed, deck'.up)
  <2>1. OneResult(Coming, hd.call, deck.owed, deck.up) /\ Coming \in Seq(PieceT)
    BY <1>2, <1>8, PartsOfComing DEF DeckInv
  <2> PICK o \in Seq(Int), p \in Seq(Int) : o = deck.owed /\ p = Tail(deck.owed)
    BY <1>1
  <2>2. OneResult(Coming, hd.call, o, TRUE) /\ Len(p) = Len(o) - 1 /\ o # <<>> /\ r.no = o[1]
    BY <1>1, <1>2, <1>3, <2>1 DEF OneResult
  <2>3. OneResult(Coming', hd.call, p, TRUE)
    BY <1>3, <2>1, <2>2, OneResultSent
  <2> QED BY <1>2, <2>3 DEF OneResult
<1> QED BY <1>4, <1>5, <1>6, <1>7, <1>8 DEF DeckInv

\* A notification or a stray is no answer of the deck's.
LEMMA NoteStep == ASSUME DeckInv, DeckNotifies \/ DeckStrays PROVE DeckInv'
<1>1. PICK r \in Resps, u \in Nat :
         /\ r.kind \in {"note", "stray"} /\ stream' = stream \o Pieces(r)
         /\ r.kind = "note" => u = deck.strays /\ deck'.strayed = deck.strayed
         /\ r.kind = "stray" => /\ u < deck.strays /\ deck'.strayed = TRUE
                                /\ r.no = deck.strays
         /\ u = deck'.strays /\ u <= deck.strays
  <2>1. CASE DeckNotifies
    <3>1. PICK r \in Resps : r = Resp("note", deck.noted + 1) /\ r.kind = "note"
      <4>1. Resp("note", deck.noted + 1) \in Resps
        BY DEF DeckInv, DeckTypeOK, Resps, Kinds, Resp
      <4> QED BY <4>1 DEF Resp
    <3>2. deck'.strays = deck.strays /\ deck'.strayed = deck.strayed /\ deck.strays \in Nat
      BY <2>1 DEF DeckNotifies, DeckInv, DeckTypeOK
    <3>3. stream' = stream \o Pieces(r)
      BY <2>1, <3>1 DEF DeckNotifies
    <3>4. r.kind \in {"note", "stray"} /\ r.kind # "stray" /\ deck.strays <= deck.strays
      BY <3>1, <3>2
    <3> HIDE DEF Resps
    <3> QED BY <3>2, <3>3, <3>4
  <2>2. CASE DeckStrays
    <3>1. PICK r \in Resps : r = Resp("stray", deck.strays) /\ r.kind = "stray" /\ r.no = deck.strays
      <4>1. Resp("stray", deck.strays) \in Resps
        BY DEF DeckInv, DeckTypeOK, Resps, Kinds, Resp
      <4> QED BY <4>1 DEF Resp
    <3>2. deck'.strays = deck.strays - 1 /\ deck'.strays \in Nat /\ deck.strays \in Nat
      BY <2>2 DEF DeckStrays, DeckInv, DeckTypeOK
    <3>3. deck'.strayed = TRUE
      BY <2>2 DEF DeckStrays, DeckInv, DeckTypeOK
    <3>4. stream' = stream \o Pieces(r)
      BY <2>2, <3>1 DEF DeckStrays
    <3>5. deck'.strays < deck.strays
      BY <3>2
    <3> QED BY <3>1, <3>2, <3>3, <3>4, <3>5
  <2> QED BY <2>1, <2>2
<1>2. /\ deck'.owed = deck.owed /\ deck'.up = deck.up
      /\ deck'.strays \in Nat /\ deck'.noted \in Nat
      /\ deck' = [up |-> deck'.up, owed |-> deck'.owed, answered |-> deck'.answered,
                  noted |-> deck'.noted, conns |-> deck'.conns, strays |-> deck'.strays,
                  strayed |-> deck'.strayed]
      /\ hd' = hd /\ got' = got
  <2>0. /\ deck.strays \in Nat /\ deck.noted \in Nat
        /\ deck = [up |-> deck.up, owed |-> deck.owed, answered |-> deck.answered,
                   noted |-> deck.noted, conns |-> deck.conns, strays |-> deck.strays,
                   strayed |-> deck.strayed]
    BY DEF DeckInv, DeckTypeOK
  <2>1. CASE DeckNotifies
    <3>1. deck' = [deck EXCEPT !.noted = @ + 1] /\ hd' = hd /\ got' = got
      BY <2>1 DEF DeckNotifies
    <3>2. deck.noted + 1 \in Nat
      BY <2>0
    <3> QED BY <2>0, <3>1, <3>2
  <2>2. CASE DeckStrays
    <3>1. /\ deck' = [deck EXCEPT !.strays = @ - 1, !.strayed = TRUE] /\ hd' = hd /\ got' = got
          /\ deck.strays > 0
      BY <2>2 DEF DeckStrays
    <3>2. deck.strays - 1 \in Nat
      BY <2>0, <3>1
    <3> QED BY <2>0, <3>1, <3>2
  <2> QED BY <2>1, <2>2
<1>3. stream' \in Seq(PieceT) /\ Coming' \in Seq(PieceT) /\ Sends(Coming, Coming', r)
  BY <1>1, <1>2, SendsPieces DEF DeckInv
<1>4. DeckTypeOK'
  BY <1>2, <1>3 DEF DeckInv, DeckTypeOK
<1>5. BufferIsHalf' /\ AnswerIsOwn'
  BY <1>1, <1>2 DEF DeckInv, BufferIsHalf, AnswerIsOwn
<1>a. PICK C \in Seq(PieceT), D \in Seq(PieceT), o \in Seq(Int), s \in Nat, t \in Nat, e \in SUBSET Resps :
         /\ C = Coming /\ D = Coming' /\ o = deck.owed /\ s = hd.sent /\ t = deck.strays /\ e = hd.early
         /\ Sends(C, D, r)
  BY <1>3, PartsOfComing DEF DeckInv
<1>b. /\ u <= t /\ r.kind # "answer" /\ (r.kind = "stray" => r.no = t /\ u < t)
      /\ u = deck'.strays
  BY <1>1, <1>a
<1>6. ASSUME hd'.open PROVE Once(Coming', deck'.owed, hd'.sent, deck'.strays)
  <2>1. Once(C, o, s, t)
    BY <1>2, <1>6, <1>a DEF DeckInv
  <2>2. PICK z \in Nat : z = 0
    OBVIOUS
  <2>3. Len(o) = Len(o) - z /\ \A j \in 1..Len(o) : o[j] = o[j + z]
    BY <2>2
  <2>4. Once(D, o, s, u)
    <3>1. (r.kind = "answer" => z >= 1 /\ Len(o) >= 1 /\ r.no = o[1]) /\ Sends(C, D, r) /\ u <= t
      BY <1>a, <1>b
    <3>2. r.kind = "stray" => r.no = t /\ u < t
      BY <1>b
    <3> QED BY <2>1, <2>3, <3>1, <3>2, OnceWithMore
  <2> QED BY <1>2, <1>a, <1>b, <2>4
<1>7. ASSUME hd'.call \notin {NoCall, Greeting} PROVE Gone(Coming', hd'.early, deck'.owed, deck'.strays)
  <2>1. Gone(C, e, o, t) /\ e \subseteq Resps
    BY <1>2, <1>7, <1>a DEF DeckInv
  <2>2. Within(o, o)
    BY DEF Within
  <2>4. Gone(D, e, o, u)
    BY <1>a, <1>b, <2>1, <2>2, GoneWithMore
  <2> QED BY <1>2, <1>a, <1>b, <2>4
<1>8. ASSUME hd'.open, ~deck'.strayed PROVE OneResult(Coming', hd'.call, deck'.owed, deck'.up)
  <2>1. r.kind = "note" /\ OneResult(C, hd.call, o, deck.up)
    BY <1>1, <1>2, <1>8, <1>a DEF DeckInv
  <2>2. OneResult(D, hd.call, o, deck.up)
    BY <1>a, <2>1, OneResultNoted
  <2> QED BY <1>2, <1>a, <2>2
<1> QED BY <1>4, <1>5, <1>6, <1>7, <1>8 DEF DeckInv

\* The deck closes: what it sent is still to be read.
LEMMA DeckClosesStep == ASSUME DeckInv, DeckCloses PROVE DeckInv'
<1>1. /\ hd' = hd /\ got' = got /\ stream' = stream /\ Coming' = Coming
      /\ deck'.up = FALSE /\ deck'.owed = deck.owed /\ deck'.strays = deck.strays
      /\ deck'.strayed = deck.strayed /\ deck'.noted = deck.noted
      /\ deck' = [up |-> deck'.up, owed |-> deck'.owed, answered |-> deck'.answered,
                  noted |-> deck'.noted, conns |-> deck'.conns, strays |-> deck'.strays,
                  strayed |-> deck'.strayed]
  BY DEF DeckCloses, DeckInv, DeckTypeOK, Coming
<1>2. DeckTypeOK'
  BY <1>1 DEF DeckInv, DeckTypeOK
<1>3. BufferIsHalf' /\ AnswerIsOwn'
  BY <1>1 DEF DeckInv, BufferIsHalf, AnswerIsOwn
<1>4. OneResult(Coming, hd.call, deck.owed, deck.up) =>
         OneResult(Coming, hd.call, deck.owed, FALSE)
  BY DEF OneResult
<1> QED BY <1>1, <1>2, <1>3, <1>4 DEF DeckInv

\* _drop_unrequested changes what is unread and the backlog.
LEMMA DropKeeps ==
    ASSUME DeckTypeOK, NEW k
    PROVE  LET h == Dropped(hd, k)
           IN  h = [open |-> hd.open, buf |-> h.buf, notes |-> h.notes, call |-> hd.call,
                    sent |-> hd.sent, early |-> hd.early]
<1> DEFINE all  == hd.buf \o SubSeq(stream, 1, k)
           bad  == SelectInSeq(all, LAMBDA q : q.of.kind = "garbled")
           done == IF bad = 0 THEN Len(all) - (IF all # <<>> /\ ~Last(all).last THEN 1 ELSE 0)
                   ELSE bad
           x    == SubSeq(all, done + 1, Len(all))
           y    == NotesOf(hd.notes, SubSeq(all, 1, done))
<1>1. Dropped(hd, k) = [hd EXCEPT !.buf = x, !.notes = y]
  BY DEF Dropped
<1> HIDE DEF x, y
<1> QED BY <1>1 DEF DeckTypeOK

\* A step of the client that takes the first d pieces off and gives no answer
LEMMA RestStep ==
    ASSUME DeckInv, hd'.buf \in Seq(PieceT), stream' \in Seq(PieceT), DeckTypeOK', BufferIsHalf',
           got' = got, deck' = deck, NEW d \in 0..Len(Coming),
           Len(Coming') = Len(Coming) - d, \A i \in 1..Len(Coming') : Coming'[i] = Coming[i + d],
           hd'.open => hd.open, hd'.sent = hd.sent, hd'.call = hd.call, hd'.early = hd.early
    PROVE  DeckInv'
<1>1. PICK C, D, o, s, t, e :
         /\ C \in Seq(PieceT) /\ D \in Seq(PieceT) /\ o \in Seq(Int) /\ s \in Nat /\ t \in Nat
         /\ C = Coming /\ D = Coming' /\ o = deck.owed /\ s = hd.sent /\ t = deck.strays /\ e = hd.early
  <2>1. Coming' \in Seq(PieceT)
    <3> HIDE DEF PieceT
    <3> QED BY DEF Coming
  <2> QED BY <2>1, PartsOfComing DEF DeckInv
<1>2. d \in 0..Len(C) /\ Len(D) = Len(C) - d /\ \A i \in 1..Len(D) : D[i] = C[i + d]
  BY <1>1
<1>3. hd'.open => Once(D, o, s, t)
  BY <1>1, <1>2, OnceOfRest DEF DeckInv
<1>4. hd.call \notin {NoCall, Greeting} => Gone(D, e, o, t)
  BY <1>1, <1>2, GoneFromRest DEF DeckInv
<1>5. hd'.open /\ ~deck.strayed => OneResult(D, hd.call, o, deck.up)
  BY <1>1, <1>2, OneResultOfRest DEF DeckInv
<1>6. AnswerIsOwn'
  BY DEF DeckInv, AnswerIsOwn
<1> QED BY <1>1, <1>3, <1>4, <1>5, <1>6 DEF DeckInv

\* What arrived before a command went out does not come after it, and no other result does
\* unless the deck has sent one unasked.
LEMMA RequestStep == ASSUME DeckInv, Request PROVE DeckInv'
<1>1. PICK k \in 0..Len(stream), broken \in BOOLEAN :
          /\ stream' = Rest(k)
          /\ IF broken \/ ~deck.up \/ Garbled(k)
             THEN hd' = Dropped(hd, k) /\ UNCHANGED deck
             ELSE /\ hd.sent < MaxCalls
                  /\ hd' = [Dropped(hd, k) EXCEPT !.call = hd.sent + 1, !.sent = @ + 1,
                                                  !.early = Arrived(k)]
                  /\ deck' = [deck EXCEPT !.owed = Append(@, hd.sent + 1)]
  BY DEF Request
<1>2. hd.open /\ hd.call = NoCall /\ got' = got
  BY DEF Request
<1>3. DeckTypeOK
  BY DEF DeckInv
<1>4. PICK h : /\ h = Dropped(hd, k)
               /\ h = [open |-> hd.open, buf |-> h.buf, notes |-> h.notes, call |-> hd.call,
                       sent |-> hd.sent, early |-> hd.early]
  BY <1>3, DropKeeps
<1>5. hd'.buf = h.buf
  BY <1>1, <1>4
<1>6. /\ h.buf \in Seq(PieceT) /\ stream' \in Seq(PieceT)
      /\ \E d \in 0..Len(Coming) :
            /\ Len(Coming') = Len(Coming) - d /\ \A i \in 1..Len(Coming') : Coming'[i] = Coming[i + d]
            /\ ~Garbled(k) =>
                  /\ \A i \in 1..Len(h.buf) : ~h.buf[i].last
                  /\ \A i \in d+1..Len(Coming) : Coming[i].last => i > Len(hd.buf) + k
  <2>1. Coming' = h.buf \o Rest(k)
    BY <1>1, <1>5 DEF Coming
  <2> QED BY <1>1, <1>3, <1>4, <2>1, DropLeaves
<1>7. PICK d \in 0..Len(Coming) :
         /\ Len(Coming') = Len(Coming) - d /\ \A i \in 1..Len(Coming') : Coming'[i] = Coming[i + d]
         /\ ~Garbled(k) =>
               /\ \A i \in 1..Len(h.buf) : ~h.buf[i].last
               /\ \A i \in d+1..Len(Coming) : Coming[i].last => i > Len(hd.buf) + k
  BY <1>6
<1>8. CASE broken \/ ~deck.up \/ Garbled(k)
  <2>1. hd' = h /\ deck' = deck
    BY <1>1, <1>4, <1>8
  <2>2. DeckTypeOK' /\ BufferIsHalf'
    BY <1>2, <1>3, <1>4, <1>6, <2>1 DEF DeckTypeOK, BufferIsHalf
  <2> QED BY <1>2, <1>4, <1>5, <1>6, <1>7, <2>1, <2>2, RestStep
<1>9. CASE ~(broken \/ ~deck.up \/ Garbled(k))
  <2>1. /\ hd' = [open |-> hd'.open, buf |-> hd'.buf, notes |-> hd'.notes, call |-> hd'.call,
                  sent |-> hd'.sent, early |-> hd'.early]
        /\ hd'.open = hd.open /\ hd'.buf = h.buf /\ hd'.call = hd.sent + 1
        /\ hd'.sent = hd.sent + 1 /\ hd'.early = Arrived(k)
        /\ deck' = [deck EXCEPT !.owed = Append(@, hd.sent + 1)]
        /\ deck.up /\ ~Garbled(k)
    <3>1. PICK a : a = Arrived(k)
      OBVIOUS
    <3>2. hd' = [h EXCEPT !.call = hd.sent + 1, !.sent = @ + 1, !.early = a]
      BY <1>1, <1>4, <1>9, <3>1
    <3>3. /\ hd' = [open |-> hd'.open, buf |-> hd'.buf, notes |-> hd'.notes, call |-> hd'.call,
                    sent |-> hd'.sent, early |-> hd'.early]
          /\ hd'.open = h.open /\ hd'.buf = h.buf /\ hd'.notes = h.notes
          /\ hd'.call = hd.sent + 1 /\ hd'.early = a
      BY <1>4, <3>2
    <3>4. h.open = hd.open /\ h.sent = hd.sent
      BY <1>4
    <3>5. hd'.sent = hd.sent + 1
      BY <1>4, <3>2, <3>4
    <3> QED BY <1>1, <1>9, <3>1, <3>3, <3>4, <3>5
  <2>2. PICK C, D, o, p, s, t, e :
           /\ C \in Seq(PieceT) /\ D \in Seq(PieceT) /\ o \in Seq(Int) /\ p \in Seq(Int)
           /\ s \in Nat /\ t \in Nat
           /\ C = Coming /\ D = Coming' /\ o = deck.owed /\ s = hd.sent /\ t = deck.strays
           /\ e = Arrived(k) /\ e \subseteq Resps /\ p = Append(o, s + 1)
    <3>1. Coming' \in Seq(PieceT)
      <4> HIDE DEF PieceT
      <4> QED BY <1>5, <1>6 DEF Coming
    <3>2. Append(deck.owed, hd.sent + 1) \in Seq(Int)
      BY <1>3 DEF DeckTypeOK
    <3>3. Arrived(k) \subseteq Resps
      BY <1>3, ArrivedAre
    <3> QED BY <1>3, <3>1, <3>2, <3>3, PartsOfComing
  <2>3. /\ deck'.owed = p /\ deck'.strays = t /\ deck'.strayed = deck.strayed /\ deck'.up = deck.up
        /\ deck'.noted = deck.noted
        /\ deck' = [up |-> deck'.up, owed |-> deck'.owed, answered |-> deck'.answered,
                    noted |-> deck'.noted, conns |-> deck'.conns, strays |-> deck'.strays,
                    strayed |-> deck'.strayed]
    BY <1>3, <2>1, <2>2 DEF DeckTypeOK
  <2>4. /\ d \in 0..Len(C) /\ Len(D) = Len(C) - d /\ \A i \in 1..Len(D) : D[i] = C[i + d]
        /\ \A i \in d+1..Len(C) : C[i].last => i > Len(hd.buf) + k
    BY <1>7, <2>1, <2>2
  <2>5. Once(C, o, s, t)
    BY <1>2, <2>2 DEF DeckInv
  <2>6. Once(D, p, s + 1, t)
    <3>1. Once(D, o, s, t)
      BY <2>2, <2>4, <2>5, OnceOfRest
    <3> QED BY <2>2, <3>1, OnceAsked
  <2>7. s + 1 \in Nat /\ s + 1 \notin {NoCall, Greeting}
    BY <2>2 DEF NoCall, Greeting
  <2>8. DeckTypeOK'
    <3>1. deck'.owed \in Seq(Int) /\ deck'.strays \in Nat /\ deck'.noted \in Nat
      BY <1>3, <2>2, <2>3 DEF DeckTypeOK
    <3>2. /\ hd' = [open |-> hd'.open, buf |-> hd'.buf, notes |-> hd'.notes, call |-> hd'.call,
                    sent |-> hd'.sent, early |-> hd'.early]
          /\ hd'.open = hd.open /\ hd'.buf = h.buf /\ hd'.call = s + 1 /\ hd'.sent = s + 1 /\ hd'.early = e
      BY <2>1, <2>2
    <3> QED BY <1>2, <1>6, <2>2, <2>3, <2>7, <3>1, <3>2 DEF DeckTypeOK
  <2>9. BufferIsHalf'
    BY <1>5, <1>7, <2>1 DEF BufferIsHalf
  <2>10. Gone(D, e, p, t)
    <3>1. /\ \A r \in e : \E j \in 1..Len(hd.buf) + k : j \in 1..Len(C) /\ Whole(C, j) /\ r = C[j].of
      BY <1>3, <2>2, ArrivedAre DEF Whole
    <3>2. ASSUME NEW i \in 1..Len(D), Whole(D, i), Single(D[i].of), D[i].of \in e PROVE FALSE
      <4>1. i + d \in 1..Len(C) /\ Whole(C, i + d) /\ D[i] = C[i + d] /\ i + d > Len(hd.buf) + k
        <5>1. i + d \in d+1..Len(C)
          BY <2>4
        <5> QED BY <2>4, <3>2, <5>1 DEF Whole
      <4>2. PICK j \in 1..Len(hd.buf) + k : j \in 1..Len(C) /\ Whole(C, j) /\ D[i].of = C[j].of
        BY <3>1, <3>2
      <4>3. i + d = j
        BY <2>5, <3>2, <4>1, <4>2 DEF Once
      <4>4. Len(hd.buf) \in Nat /\ k \in Nat
        BY <1>3 DEF DeckTypeOK
      <4> QED BY <4>1, <4>2, <4>3, <4>4
    <3>3. ASSUME NEW r \in e
          PROVE  /\ r.kind = "answer" => \A j \in 1..Len(p) : p[j] # r.no
                 /\ r.kind = "stray" => r.no > t
      <4>1. PICK j \in 1..Len(C) : Whole(C, j) /\ r = C[j].of
        BY <3>1
      <4>2. Once(C, p, s + 1, t)
        BY <2>2, <2>5, OnceAsked
      <4> QED BY <4>1, <4>2 DEF Once
    <3> QED BY <3>2, <3>3 DEF Gone
  <2>11. ASSUME ~deck.strayed PROVE OneResult(D, s + 1, p, TRUE)
    <3>1. OneResult(C, NoCall, o, TRUE)
      <4>1. OneResult(Coming, hd.call, deck.owed, deck.up)
        BY <1>2, <2>11 DEF DeckInv
      <4> QED BY <1>2, <2>1, <2>2, <4>1 DEF OneResult
    <3> QED BY <2>2, <2>4, <3>1, OneResultAsked
  <2>12. AnswerIsOwn'
    BY <1>2, <2>3 DEF DeckInv, AnswerIsOwn
  <2>13. hd'.call = s + 1 /\ hd'.sent = s + 1 /\ hd'.early = e
    BY <2>1, <2>2
  <2>14. ~deck'.strayed => OneResult(D, s + 1, p, deck'.up)
    BY <2>1, <2>3, <2>11 DEF OneResult
  <2> QED BY <2>2, <2>3, <2>6, <2>8, <2>9, <2>10, <2>12, <2>13, <2>14 DEF DeckInv
<1> QED BY <1>8, <1>9

\* read_notifications() takes what has arrived off, and no answer.
LEMMA ReadNotificationsStep == ASSUME DeckInv, ReadNotifications PROVE DeckInv'
<1>1. PICK k \in 0..Len(stream) :
          /\ stream' = Rest(k)
          /\ hd' = IF Garbled(k) \/ ~deck.up THEN Dropped(hd, k)
                   ELSE [Dropped(hd, k) EXCEPT !.notes = <<>>]
  BY DEF ReadNotifications
<1>2. hd.open /\ hd.call = NoCall /\ got' = got /\ deck' = deck
  BY DEF ReadNotifications
<1>3. DeckTypeOK
  BY DEF DeckInv
<1>4. PICK h : /\ h = Dropped(hd, k)
               /\ h = [open |-> hd.open, buf |-> h.buf, notes |-> h.notes, call |-> hd.call,
                       sent |-> hd.sent, early |-> hd.early]
  BY <1>3, DropKeeps
<1>5. /\ hd' = [open |-> hd.open, buf |-> h.buf, notes |-> hd'.notes, call |-> hd.call,
                sent |-> hd.sent, early |-> hd.early]
  BY <1>1, <1>4
<1>6. /\ h.buf \in Seq(PieceT) /\ stream' \in Seq(PieceT)
      /\ \E d \in 0..Len(Coming) :
            Len(Coming') = Len(Coming) - d /\ \A i \in 1..Len(Coming') : Coming'[i] = Coming[i + d]
  <2>0. hd'.buf = h.buf
    BY <1>5
  <2>1. Coming' = h.buf \o Rest(k)
    BY <1>1, <2>0 DEF Coming
  <2> QED BY <1>1, <1>3, <1>4, <2>1, DropLeaves
<1>7. /\ hd'.open = hd.open /\ hd'.buf = h.buf /\ hd'.call = hd.call /\ hd'.sent = hd.sent
      /\ hd'.early = hd.early
  BY <1>5
<1>8. DeckTypeOK'
  BY <1>2, <1>3, <1>5, <1>6, <1>7 DEF DeckTypeOK
<1>9. BufferIsHalf'
  BY <1>2, <1>7 DEF BufferIsHalf
<1> QED BY <1>2, <1>6, <1>7, <1>8, <1>9, RestStep

\* A new connection starts with nothing of the old one.
LEMMA ConnectStep == ASSUME DeckInv, DeckConnect PROVE DeckInv'
<1>1. PICK r \in Resps : r.kind \in {"greeting", "refusal"} /\ stream' = Pieces(r)
  <2>1. PICK kind \in {"greeting", "refusal"} : stream' = Pieces(Resp(kind, 0))
    BY DEF DeckConnect
  <2>2. Resp(kind, 0) \in Resps /\ Resp(kind, 0).kind = kind
    BY DEF Resps, Kinds, Resp
  <2> QED BY <2>1, <2>2
<1>2. /\ hd' = [open |-> hd'.open, buf |-> hd'.buf, notes |-> hd'.notes, call |-> hd'.call,
                sent |-> hd'.sent, early |-> hd'.early]
      /\ hd'.open = TRUE /\ hd'.buf = <<>> /\ hd'.call = Greeting /\ hd'.sent = hd.sent
      /\ hd'.early = {} /\ got' = Nothing
  BY DEF DeckConnect
<1>3. /\ deck' = [up |-> deck'.up, owed |-> deck'.owed, answered |-> deck'.answered,
                  noted |-> deck'.noted, conns |-> deck'.conns, strays |-> deck'.strays,
                  strayed |-> deck'.strayed]
      /\ deck'.owed = <<>> /\ deck'.strays = deck.strays /\ deck'.noted = 0
  BY DEF DeckConnect, DeckInv, DeckTypeOK
<1>4. PICK a \in PieceT, b \in PieceT : Pieces(r) = <<a, b>> /\ ~a.last /\ b.last /\ b.of = r
  <2>1. Piece(r, FALSE) \in PieceT /\ Piece(r, TRUE) \in PieceT
    BY <1>1 DEF Piece, PieceT
  <2> QED BY <2>1 DEF Pieces, Piece
<1>5. /\ stream' \in Seq(PieceT) /\ hd'.buf \in Seq(PieceT)
      /\ Len(Coming') = 2 /\ Coming'[1] = a /\ Coming'[2] = b
  <2>1. stream' = <<a, b>> /\ Coming' = <<>> \o <<a, b>>
    BY <1>1, <1>2, <1>4 DEF Coming
  <2> QED BY <1>2, <2>1
<1>6. \A i \in 1..Len(Coming') : i = 1 \/ i = 2
  BY <1>5
<1>7. hd.sent \in Nat /\ deck.strays \in Nat
  BY DEF DeckInv, DeckTypeOK
<1>8. DeckTypeOK'
  BY <1>2, <1>3, <1>5, <1>7 DEF DeckTypeOK
<1>9. BufferIsHalf' /\ AnswerIsOwn'
  BY <1>2 DEF BufferIsHalf, AnswerIsOwn
<1>10. Once(Coming', deck'.owed, hd'.sent, deck'.strays)
  <2>1. \A i \in 1..Len(Coming') : Whole(Coming', i) => i = 2 /\ Coming'[i].of = r
    BY <1>4, <1>5, <1>6 DEF Whole
  <2> QED BY <1>1, <1>3, <2>1 DEF Once, Single
<1>11. OneResult(Coming', hd'.call, deck'.owed, deck'.up)
  <2>1. \A i \in 1..Len(Coming') : Result(Coming', i) => i = 2 /\ Coming'[i].of = r
    BY <1>4, <1>5, <1>6 DEF Result
  <2> QED BY <1>1, <1>2, <1>3, <2>1 DEF OneResult
<1> QED BY <1>2, <1>8, <1>9, <1>10, <1>11 DEF DeckInv

\* close(), and a call that times out, leave nothing that could answer another command.
LEMMA CloseStep ==
    ASSUME DeckInv, deck' = deck, got' = got, stream' \in Seq(PieceT), NEW h, hd' = Closed(h),
           h = [open |-> h.open, buf |-> h.buf, notes |-> h.notes, call |-> h.call,
                sent |-> h.sent, early |-> h.early],
           h.buf \in Seq(PieceT), h.sent = hd.sent, h.early = hd.early
    PROVE  DeckInv'
<1>1. /\ hd' = [open |-> hd'.open, buf |-> hd'.buf, notes |-> hd'.notes, call |-> hd'.call,
                sent |-> hd'.sent, early |-> hd'.early]
      /\ hd'.open = FALSE /\ hd'.buf = h.buf /\ hd'.call = NoCall /\ hd'.sent = hd.sent
      /\ hd'.early = hd.early
  BY DEF Closed
<1>2. NoCall # Greeting
  BY DEF NoCall, Greeting
<1>3. DeckTypeOK'
  BY <1>1, <1>2 DEF DeckInv, DeckTypeOK
<1>4. BufferIsHalf' /\ AnswerIsOwn'
  BY <1>1 DEF DeckInv, BufferIsHalf, AnswerIsOwn
<1> QED BY <1>1, <1>3, <1>4 DEF DeckInv

\* Nothing whole is left when the deck has closed and all was read.
LEMMA PeerClosedStep == ASSUME DeckInv, PeerClosed PROVE DeckInv'
<1>1. /\ deck' = deck /\ got' = got /\ stream' = stream /\ stream \in Seq(PieceT)
      /\ hd.buf \in Seq(PieceT) /\ hd.call # NoCall /\ stream = <<>> /\ ~deck.up
      /\ hd = [open |-> hd.open, buf |-> hd.buf, notes |-> hd.notes, call |-> hd.call,
               sent |-> hd.sent, early |-> hd.early]
  BY DEF PeerClosed, DeckInv, DeckTypeOK
<1>2. CASE hd' = Closed(hd)
  BY <1>1, <1>2, CloseStep
<1>3. CASE hd' = [hd EXCEPT !.call = NoCall]
  <2>1. /\ hd' = [open |-> hd'.open, buf |-> hd'.buf, notes |-> hd'.notes, call |-> hd'.call,
                  sent |-> hd'.sent, early |-> hd'.early]
        /\ hd'.open = hd.open /\ hd'.buf = hd.buf /\ hd'.call = NoCall /\ hd'.sent = hd.sent
        /\ hd'.early = hd.early
    BY <1>1, <1>3
  <2>2. NoCall # Greeting
    BY DEF NoCall, Greeting
  <2>3. DeckTypeOK'
    BY <1>1, <2>1, <2>2 DEF DeckInv, DeckTypeOK
  <2>4. BufferIsHalf' /\ AnswerIsOwn'
    BY <1>1, <2>1 DEF DeckInv, BufferIsHalf, AnswerIsOwn
  <2>5. Coming' = Coming
    BY <1>1, <2>1 DEF Coming
  <2>6. \A i \in 1..Len(Coming) : ~Coming[i].last
    <3>1. Len(Coming) = Len(hd.buf) /\ \A i \in 1..Len(hd.buf) : Coming[i] = hd.buf[i]
      BY <1>1, ComingType DEF DeckInv
    <3> QED BY <1>1, <3>1 DEF DeckInv, BufferIsHalf
  <2>7. hd.open /\ ~deck.strayed => OneResult(Coming, NoCall, deck.owed, deck.up)
    BY <1>1, <2>6 DEF DeckInv, OneResult, Result
  <2> QED BY <1>1, <2>1, <2>3, <2>4, <2>5, <2>7 DEF DeckInv
<1> QED BY <1>2, <1>3 DEF PeerClosed

\* The next whole response is the command's own.
LEMMA ReadStep == ASSUME DeckInv, DeckRead PROVE DeckInv'
<1>0. DeckTypeOK
  BY DEF DeckInv
<1>1. /\ deck' = deck /\ hd.call # NoCall /\ hd.open /\ stream # <<>> /\ stream \in Seq(PieceT)
      /\ stream' = Tail(stream) /\ hd.buf \in Seq(PieceT) /\ hd.sent \in Nat
      /\ hd.call \in {NoCall, Greeting, hd.sent}
      /\ hd = [open |-> hd.open, buf |-> hd.buf, notes |-> hd.notes, call |-> hd.call,
               sent |-> hd.sent, early |-> hd.early]
  BY DEF DeckRead, DeckInv, DeckTypeOK
<1>2. PICK q \in PieceT : q = Head(stream) /\ q = stream[1]
  BY <1>1
<1>3. /\ hd' = IF q.last THEN TakenFrom([hd EXCEPT !.buf = <<>>], q.of)
               ELSE [hd EXCEPT !.buf = <<q>>]
      /\ got' = IF q.last /\ q.of.kind \in {"answer", "stray"}
                THEN [cmd |-> hd.call, resp |-> q.of, early |-> q.of \in hd.early]
                ELSE got
  BY <1>2 DEF DeckRead
<1>4. PICK n \in Nat : /\ n = Len(hd.buf) /\ n + 1 \in 1..Len(Coming) /\ Coming[n + 1] = q
                       /\ Len(Coming) = n + Len(stream) /\ Len(stream) \in Nat
                       /\ \A i \in 1..Len(stream) : Coming[i + n] = stream[i]
  <2>1. /\ Len(Coming) = Len(hd.buf) + Len(stream)
        /\ \A i \in 1..Len(stream) : Coming[i + Len(hd.buf)] = stream[i]
    BY <1>0, ComingType
  <2>2. Len(hd.buf) \in Nat /\ Len(stream) \in Nat /\ 1 \in 1..Len(stream)
    BY <1>1
  <2>3. PICK n \in Nat : n = Len(hd.buf)
    BY <2>2
  <2>4. n + 1 \in 1..Len(Coming) /\ 1 + n = n + 1
    BY <2>1, <2>2, <2>3
  <2>5. Coming[n + 1] = q
    BY <1>2, <2>1, <2>2, <2>3, <2>4
  <2> QED BY <2>1, <2>2, <2>3, <2>4, <2>5
<1>5. /\ stream' \in Seq(PieceT) /\ Len(stream') = Len(stream) - 1
      /\ \A i \in 1..Len(stream') : stream'[i] = stream[i + 1] /\ i + 1 \in 1..Len(stream)
  BY <1>1
<1>6. Coming \in Seq(PieceT)
  BY <1>0, PartsOfComing
<1>7. CASE ~q.last
  <2>1. /\ hd' = [open |-> hd'.open, buf |-> hd'.buf, notes |-> hd'.notes, call |-> hd'.call,
                  sent |-> hd'.sent, early |-> hd'.early]
        /\ hd'.open = hd.open /\ hd'.buf = <<q>> /\ hd'.call = hd.call /\ hd'.sent = hd.sent
        /\ hd'.early = hd.early /\ got' = got
    BY <1>1, <1>3, <1>7
  <2>2. hd'.buf \in Seq(PieceT) /\ BufferIsHalf'
    BY <1>7, <2>1 DEF BufferIsHalf
  <2>3. DeckTypeOK'
    BY <1>0, <1>1, <1>5, <2>1, <2>2 DEF DeckTypeOK
  <2>4. Coming' = stream
    BY <1>1, <1>2, <2>1 DEF Coming
  <2>5. n \in 0..Len(Coming) /\ Len(Coming') = Len(Coming) - n
        /\ \A i \in 1..Len(Coming') : Coming'[i] = Coming[i + n]
    BY <1>4, <2>4
  <2> QED BY <1>1, <1>5, <2>1, <2>2, <2>3, <2>5, RestStep
<1>8. CASE q.last
  <2>1. PICK h : /\ h = [hd EXCEPT !.buf = <<>>]
                 /\ h = [open |-> h.open, buf |-> h.buf, notes |-> h.notes, call |-> h.call,
                         sent |-> h.sent, early |-> h.early]
                 /\ h.open = hd.open /\ h.buf = <<>> /\ h.call = hd.call /\ h.sent = hd.sent
                 /\ h.early = hd.early /\ h.notes = hd.notes
    <3>1. PICK h : h = [hd EXCEPT !.buf = <<>>]
      OBVIOUS
    <3>2. /\ h = [open |-> h.open, buf |-> h.buf, notes |-> h.notes, call |-> h.call,
                  sent |-> h.sent, early |-> h.early]
          /\ h.open = hd.open /\ h.buf = <<>> /\ h.call = hd.call /\ h.sent = hd.sent
          /\ h.early = hd.early /\ h.notes = hd.notes
      BY <1>1, <3>1
    <3> QED BY <3>1, <3>2
  <2>2. hd' = TakenFrom(h, q.of) /\ <<>> \in Seq(PieceT)
    BY <1>3, <1>8, <2>1
  <2>3. CASE q.of.kind = "refusal"
    <3>1. hd' = Closed(h) /\ got' = got
      BY <1>3, <2>2, <2>3 DEF TakenFrom
    <3>2. h.buf \in Seq(PieceT) /\ h.sent = hd.sent /\ h.early = hd.early
      BY <2>1, <2>2
    <3>3. h = [open |-> h.open, buf |-> h.buf, notes |-> h.notes, call |-> h.call,
               sent |-> h.sent, early |-> h.early]
      BY <2>1
    <3>4. deck' = deck /\ stream' \in Seq(PieceT)
      BY <1>1, <1>5
    <3> QED BY <3>1, <3>2, <3>3, <3>4, CloseStep
  <2>4. CASE q.of.kind # "refusal"
    <3>1. /\ hd' = [open |-> hd'.open, buf |-> hd'.buf, notes |-> hd'.notes, call |-> hd'.call,
                    sent |-> hd'.sent, early |-> hd'.early]
          /\ hd'.open = hd.open /\ hd'.buf = <<>> /\ hd'.sent = hd.sent /\ hd'.early = hd.early
          /\ hd'.call = IF q.of.kind = "note" THEN hd.call ELSE NoCall
      <4>1. CASE q.of.kind = "note"
        <5>1. PICK ns : hd' = [h EXCEPT !.notes = ns]
          BY <2>2, <4>1 DEF TakenFrom
        <5> QED BY <2>1, <4>1, <5>1
      <4>2. CASE q.of.kind # "note"
        <5>1. hd' = [h EXCEPT !.call = NoCall]
          BY <2>2, <2>4, <4>2 DEF TakenFrom
        <5> QED BY <2>1, <4>2, <5>1
      <4> QED BY <4>1, <4>2
    <3>2. /\ n + 1 \in 0..Len(Coming) /\ Len(Coming') = Len(Coming) - (n + 1)
          /\ \A i \in 1..Len(Coming') : Coming'[i] = Coming[i + (n + 1)]
      <4>1. Coming' = stream'
        BY <1>5, <3>1 DEF Coming
      <4>2. Len(Coming') = Len(Coming) - (n + 1)
        BY <1>4, <1>5, <4>1
      <4>3. ASSUME NEW i \in 1..Len(Coming') PROVE Coming'[i] = Coming[i + (n + 1)]
        <5>1. stream'[i] = stream[i + 1] /\ i + 1 \in 1..Len(stream)
          BY <1>5, <4>1
        <5>2. (i + 1) + n = i + (n + 1)
          <6>1. i \in Int
            BY <1>5, <4>1
          <6> QED BY <6>1
        <5> QED BY <1>4, <4>1, <5>1, <5>2
      <4> QED BY <1>4, <4>2, <4>3
    <3>3. DeckTypeOK' /\ BufferIsHalf'
      <4>1. BufferIsHalf' /\ hd'.buf \in Seq(PieceT)
        BY <3>1 DEF BufferIsHalf
      <4>2. DeckTypeOK'
        BY <1>0, <1>1, <1>5, <3>1, <4>1 DEF DeckTypeOK, NoCall, Greeting
      <4> QED BY <4>1, <4>2
    <3>4. CASE q.of.kind = "note"
      <4>1. hd'.call = hd.call /\ got' = got
        BY <1>3, <3>1, <3>4
      <4>2. hd'.buf \in Seq(PieceT)
        BY <3>1
      <4> QED BY <1>1, <1>4, <1>5, <3>1, <3>2, <3>3, <4>1, <4>2, RestStep
    <3>5. CASE q.of.kind # "note"
      <4>1. hd'.call = NoCall
        BY <3>1, <3>5
      <4> PICK C \in Seq(PieceT), D \in Seq(PieceT), o \in Seq(Int), s \in Nat, t \in Nat, d \in Nat :
             /\ C = Coming /\ D = Coming' /\ o = deck.owed /\ s = hd.sent /\ t = deck.strays
             /\ d = n + 1
        <5>1. Coming' \in Seq(PieceT)
          <6>1. Coming' = stream'
            BY <1>5, <3>1 DEF Coming
          <6> QED BY <1>5, <6>1
        <5> QED BY <1>0, <1>4, <1>6, <5>1, PartsOfComing, SMTT(30)
      <4>2. /\ d \in 0..Len(C) /\ d \in 1..Len(C) /\ Len(D) = Len(C) - d
            /\ \A i \in 1..Len(D) : D[i] = C[i + d]
        BY <1>4, <3>2
      <4>3. Once(C, o, s, t)
        BY <1>1 DEF DeckInv
      <4>4. Once(D, o, s, t)
        BY <4>2, <4>3, OnceOfRest
      <4>5. C[d] = q /\ Result(C, d) /\ Whole(C, d)
        BY <1>4, <1>8, <3>5 DEF Result, Whole
      <4>6. ~deck.strayed => OneResult(D, NoCall, o, deck.up)
        <5> SUFFICES ASSUME ~deck.strayed PROVE OneResult(D, NoCall, o, deck.up)
          OBVIOUS
        <5>1. OneResult(C, hd.call, o, deck.up)
          BY <1>1 DEF DeckInv
        <5> QED BY <4>2, <4>5, <5>1, OneResultTaken
      <4>7. AnswerIsOwn'
        <5>1. CASE q.of.kind \in {"answer", "stray"}
          <6>1. got' = [cmd |-> hd.call, resp |-> q.of, early |-> q.of \in hd.early]
            BY <1>3, <1>8, <5>1
          <6>2. q.of \notin hd.early
            <7>1. CASE hd.call = Greeting
              BY <1>0, <7>1 DEF DeckTypeOK
            <7>2. CASE hd.call # Greeting
              <8>1. Gone(C, hd.early, o, t)
                BY <1>1, <7>2 DEF DeckInv
              <8>2. Single(C[d].of)
                BY <4>5, <5>1 DEF Single
              <8> QED BY <4>2, <4>5, <8>1, <8>2 DEF Gone
            <7> QED BY <7>1, <7>2
          <6>3. ~deck.strayed => q.of = Resp("answer", hd.call)
            <7> SUFFICES ASSUME ~deck.strayed PROVE q.of = Resp("answer", hd.call)
              OBVIOUS
            <7>1. OneResult(C, hd.call, o, deck.up)
              BY <1>1 DEF DeckInv
            <7>2. q.of.kind = "answer" /\ q.of.no = hd.call
              BY <4>2, <4>5, <5>1, <7>1 DEF OneResult
            <7>3. q.of \in Resps
              BY <1>2 DEF PieceT
            <7> QED BY <7>2, <7>3 DEF Resps, Resp
          <6> QED BY <1>1, <6>1, <6>2, <6>3 DEF AnswerIsOwn
        <5>2. CASE q.of.kind \notin {"answer", "stray"}
          <6>1. got' = got
            BY <1>3, <5>2
          <6> QED BY <1>1, <6>1 DEF DeckInv, AnswerIsOwn
        <5> QED BY <5>1, <5>2
      <4> QED BY <1>1, <3>1, <3>3, <4>1, <4>4, <4>6, <4>7 DEF DeckInv
    <3> QED BY <3>4, <3>5
  <2> QED BY <2>3, <2>4
<1> QED BY <1>7, <1>8

\* The invariant holds from the start.
LEMMA DeckInvHolds == DeckSpec => []DeckInv
<1>1. DeckInit => DeckInv
  <2> SUFFICES ASSUME DeckInit PROVE DeckInv
    OBVIOUS
  <2>1. NoCall # Greeting /\ MaxStrays \in Nat
    BY DeckBounds DEF NoCall, Greeting
  <2>2. DeckTypeOK
    BY <2>1 DEF DeckInit, DeckTypeOK
  <2>3. hd.open = FALSE /\ hd.call = NoCall /\ got = Nothing
    BY DEF DeckInit
  <2> QED BY <2>2, <2>3 DEF DeckInv, BufferIsHalf, AnswerIsOwn
<1>2. DeckInv /\ [DeckNext]_dVars => DeckInv'
  <2> SUFFICES ASSUME DeckInv, [DeckNext]_dVars PROVE DeckInv'
    OBVIOUS
  <2>1. CASE DeckClose \/ TimesOut
    <3>1. /\ hd' = Closed(hd) /\ deck' = deck /\ got' = got /\ stream' = stream
      BY <2>1 DEF DeckClose, TimesOut
    <3>2. /\ stream \in Seq(PieceT) /\ hd.buf \in Seq(PieceT)
          /\ hd = [open |-> hd.open, buf |-> hd.buf, notes |-> hd.notes, call |-> hd.call,
                   sent |-> hd.sent, early |-> hd.early]
      BY DEF DeckInv, DeckTypeOK
    <3> QED BY <3>1, <3>2, CloseStep
  <2>2. CASE UNCHANGED dVars
    BY <2>2 DEF dVars, DeckInv, DeckTypeOK, BufferIsHalf, AnswerIsOwn, Coming
  <2> QED BY <2>1, <2>2, ConnectStep, RequestStep, ReadStep, PeerClosedStep, ReadNotificationsStep,
             AnswerStep, NoteStep, DeckClosesStep DEF DeckNext
<1> QED BY <1>1, <1>2, PTL DEF DeckSpec

\* request() returns its command's own answer, for every number of calls, connections,
\* notifications and strays.
THEOREM AnswersAreOwn == DeckSpec => []AnswerIsOwn
BY DeckInvHolds, PTL DEF DeckInv

---------------------------------------------------------------------------
(* The notifications: Hyperdeck *)

IsNote(q) == q.last /\ q.of.kind = "note"

\* Notifications up to the t-th of the connection, the first s of them returned: those kept
Waiting(t, s) ==
    LET n == IF t - s > Backlog THEN Backlog ELSE t - s IN [i \in 1..n |-> t - n + i]

\* The notifications of C bear the numbers in order: c[i] were sent before its i-th piece ended,
\* and z in all
Numbers(c, C, z) ==
    /\ c \in [0..Len(C) -> Nat] /\ c[Len(C)] = z
    /\ \A i \in 1..Len(C) : IF IsNote(C[i]) THEN c[i] = c[i-1] + 1 /\ C[i].of.no = c[i]
                                            ELSE c[i] = c[i-1]

NotesInv ==
    hd.open => \E c : /\ Numbers(c, Coming, deck.noted)
                       /\ seen \in 0..c[0] /\ hd.notes = Waiting(c[0], seen)

\* The numbers of what is left without the first d pieces
LEMMA NumbersOfRest ==
    ASSUME NEW C \in Seq(PieceT), NEW z, NEW c, Numbers(c, C, z),
           NEW d \in 0..Len(C), NEW L \in Seq(PieceT), Len(L) = Len(C) - d,
           \A i \in 1..Len(L) : L[i] = C[i + d]
    PROVE  Numbers([i \in 0..Len(L) |-> c[i + d]], L, z)
<1> HIDE DEF PieceT
<1> DEFINE e == [i \in 0..Len(L) |-> c[i + d]]
<1>1. Len(C) \in Nat /\ Len(L) \in Nat
  OBVIOUS
<1>2. \A i \in 0..Len(L) : i + d \in 0..Len(C)
  BY <1>1
<1>3. c \in [0..Len(C) -> Nat] /\ c[Len(C)] = z
      /\ \A i \in 1..Len(C) : IF IsNote(C[i]) THEN c[i] = c[i-1] + 1 /\ C[i].of.no = c[i]
                                              ELSE c[i] = c[i-1]
  BY DEF Numbers
<1>4. e \in [0..Len(L) -> Nat] /\ e[Len(L)] = z
  BY <1>1, <1>2, <1>3
<1>5. ASSUME NEW i \in 1..Len(L)
      PROVE  IF IsNote(L[i]) THEN e[i] = e[i-1] + 1 /\ L[i].of.no = e[i] ELSE e[i] = e[i-1]
  <2>1. i + d \in 1..Len(C) /\ (i + d) - 1 = (i - 1) + d /\ i \in 0..Len(L) /\ i - 1 \in 0..Len(L)
    BY <1>1
  <2>2. e[i] = c[i + d] /\ e[i-1] = c[(i + d) - 1] /\ L[i] = C[i + d]
    BY <2>1
  <2> HIDE DEF e
  <2>3. IF IsNote(C[i+d]) THEN c[i+d] = c[(i+d)-1] + 1 /\ C[i+d].of.no = c[i+d]
                          ELSE c[i+d] = c[(i+d)-1]
    BY <1>3, <2>1
  <2> QED BY <2>2, <2>3
<1> HIDE DEF e
<1>6. Numbers(e, L, z)
  BY <1>4, <1>5 DEF Numbers
<1> QED BY <1>6 DEF e

\* The numbers when the deck has sent one response more
LEMMA NumbersOfMore ==
    ASSUME NEW C \in Seq(PieceT), NEW z \in Nat, NEW c, Numbers(c, C, z),
           NEW D \in Seq(PieceT), NEW r, Sends(C, D, r), r.kind = "note" => r.no = z + 1
    PROVE  \E e : e[0] = c[0] /\ Numbers(e, D, IF r.kind = "note" THEN z + 1 ELSE z)
<1> HIDE DEF PieceT
<1> DEFINE w == IF r.kind = "note" THEN z + 1 ELSE z
           e == [i \in 0..Len(D) |-> IF i <= Len(C) THEN c[i] ELSE IF i = Len(D) THEN w ELSE z]
<1>1. Len(C) \in Nat /\ Len(D) \in Nat /\ w \in Nat
  OBVIOUS
<1>2. /\ Len(D) > Len(C) /\ \A i \in 1..Len(C) : D[i] = C[i]
      /\ \A i \in Len(C)+1..Len(D)-1 : ~IsNote(D[i])
      /\ IsNote(D[Len(D)]) <=> r.kind = "note"
      /\ D[Len(D)].of = r
  <2>1. /\ Len(D) > Len(C) /\ \A i \in 1..Len(C) : D[i] = C[i]
        /\ \A i \in Len(C)+1..Len(D) : D[i].last => i = Len(D) /\ D[i].of = r
        /\ D[Len(D)].last
    BY DEF Sends
  <2>2. Len(D) \in Len(C)+1..Len(D) /\ \A i \in Len(C)+1..Len(D)-1 : i \in Len(C)+1..Len(D) /\ i # Len(D)
    BY <1>1, <2>1
  <2>3. \A i \in Len(C)+1..Len(D)-1 : ~IsNote(D[i])
    BY <2>1, <2>2 DEF IsNote
  <2>4. D[Len(D)].of = r /\ (IsNote(D[Len(D)]) <=> r.kind = "note")
    BY <2>1, <2>2 DEF IsNote
  <2> QED BY <2>1, <2>3, <2>4
<1>3. c \in [0..Len(C) -> Nat] /\ c[Len(C)] = z
      /\ \A i \in 1..Len(C) : IF IsNote(C[i]) THEN c[i] = c[i-1] + 1 /\ C[i].of.no = c[i]
                                              ELSE c[i] = c[i-1]
  BY DEF Numbers
<1>4. w = (IF r.kind = "note" THEN z + 1 ELSE z)
  OBVIOUS
<1> HIDE DEF w
<1>5. e \in [0..Len(D) -> Nat] /\ e[Len(D)] = w /\ e[0] = c[0]
  BY <1>1, <1>2, <1>3
<1>6. ASSUME NEW i \in 1..Len(D)
      PROVE  IF IsNote(D[i]) THEN e[i] = e[i-1] + 1 /\ D[i].of.no = e[i] ELSE e[i] = e[i-1]
  <2>1. CASE i <= Len(C)
    <3>1. i \in 1..Len(C) /\ e[i] = c[i] /\ e[i-1] = c[i-1] /\ D[i] = C[i]
      BY <2>1, <1>1, <1>2
    <3> QED BY <3>1, <1>3
  <2>2. CASE i > Len(C)
    <3>1. e[i-1] = z
      BY <2>2, <1>1, <1>3
    <3>2. CASE i = Len(D)
      <4>1. e[i] = w
        BY <2>2, <3>2, <1>1
      <4> HIDE DEF e
      <4> QED BY <4>1, <3>1, <3>2, <1>2, <1>4
    <3>3. CASE i # Len(D)
      <4>1. e[i] = z /\ i \in Len(C)+1..Len(D)-1
        BY <2>2, <3>3, <1>1
      <4> HIDE DEF e
      <4> QED BY <4>1, <3>1, <1>2
    <3> QED BY <3>2, <3>3
  <2> QED BY <2>1, <2>2, <1>1
<1> HIDE DEF e
<1>7. Numbers(e, D, w)
  BY <1>5, <1>6 DEF Numbers
<1> QED BY <1>5, <1>7, <1>4

\* A function of the first n numbers is a sequence.
LEMMA FunctionIsSeq == ASSUME NEW S, NEW n \in Nat, NEW f \in [1..n -> S] PROVE f \in Seq(S)
BY SeqDef

\* A notification joins those that wait.
LEMMA WaitingGrows ==
    ASSUME NEW t \in Nat, NEW s \in 0..t, NEW r, r.no = t + 1
    PROVE  KeptNotes(Waiting(t, s), r) = Waiting(t + 1, s)
<1>1. Backlog \in Nat /\ Backlog > 0
  BY DeckBounds
<1>2. PICK n \in Nat : n = IF t - s > Backlog THEN Backlog ELSE t - s
  BY <1>1
<1>3. PICK m \in Nat : m = IF (t + 1) - s > Backlog THEN Backlog ELSE (t + 1) - s
  <2>1. (t + 1) - s \in Nat
    OBVIOUS
  <2> QED BY <1>1, <2>1
<1>4. Waiting(t, s) = [i \in 1..n |-> t - n + i]
  BY <1>2 DEF Waiting
<1>5. Waiting(t + 1, s) = [i \in 1..m |-> (t + 1) - m + i]
  BY <1>3 DEF Waiting
<1>6. PICK w \in Seq(Int) : w = [i \in 1..n |-> t - n + i]
  <2>1. [i \in 1..n |-> t - n + i] \in [1..n -> Int]
    OBVIOUS
  <2>2. [i \in 1..n |-> t - n + i] \in Seq(Int)
    BY <2>1, FunctionIsSeq
  <2> QED BY <2>2, Zenon
<1>7. Len(w) = n /\ \A i \in 1..n : w[i] = t - n + i
  BY <1>6
<1>8. PICK v \in Seq(Int) : v = [i \in 1..m |-> (t + 1) - m + i]
  <2>1. [i \in 1..m |-> (t + 1) - m + i] \in [1..m -> Int]
    OBVIOUS
  <2>2. [i \in 1..m |-> (t + 1) - m + i] \in Seq(Int)
    BY <2>1, FunctionIsSeq
  <2> QED BY <2>2, Zenon
<1>9. Len(v) = m /\ \A i \in 1..m : v[i] = (t + 1) - m + i
  BY <1>8
<1>10. CASE n = Backlog
  <2>1. m = n /\ n > 0
    BY <1>1, <1>2, <1>3, <1>10
  <2>2. PICK u \in Seq(Int) : u = Append(Tail(w), t + 1)
    <3>1. w # <<>>
      BY <2>1, <1>7
    <3>2. t + 1 \in Int /\ Tail(w) \in Seq(Int)
      BY <3>1
    <3> QED BY <3>2, AppendProperties
  <2>3. Len(u) = n /\ \A i \in 1..n : u[i] = IF i = n THEN t + 1 ELSE w[i + 1]
    BY <2>1, <2>2, <1>7
  <2>4. \A i \in 1..n : u[i] = v[i]
    BY <2>1, <2>3, <1>7, <1>9
  <2>5. u = v
    BY <2>1, <2>3, <2>4, <1>9, SeqEqual
  <2> QED BY <2>2, <2>5, <1>4, <1>5, <1>6, <1>7, <1>8, <1>10 DEF KeptNotes
<1>11. CASE n # Backlog
  <2>1. m = n + 1
    BY <1>1, <1>2, <1>3, <1>11
  <2>2. PICK u \in Seq(Int) : u = Append(w, t + 1)
    <3>1. t + 1 \in Int
      OBVIOUS
    <3> QED BY <3>1, AppendProperties
  <2>3. Len(u) = n + 1 /\ \A i \in 1..n+1 : u[i] = IF i = n + 1 THEN t + 1 ELSE w[i]
    BY <2>2, <1>7
  <2>4. \A i \in 1..n+1 : u[i] = v[i]
    BY <2>1, <2>3, <1>7, <1>9
  <2>5. u = v
    BY <2>1, <2>3, <2>4, <1>9, SeqEqual
  <2> QED BY <2>2, <2>5, <1>4, <1>5, <1>6, <1>7, <1>8, <1>11 DEF KeptNotes
<1> QED BY <1>10, <1>11

\* Of some places up to n, the last
LEMMA LastPlace ==
    ASSUME NEW n \in Nat, NEW s \in SUBSET (1..n), s # {}
    PROVE  Max(s) \in s /\ \A y \in s : y <= Max(s)
<1>1. PICK k \in {n - x : x \in s} : \A j \in {n - x : x \in s} : <<j, k>> \notin Below
  <2>1. \A x \in s : n - x \in Nat
    OBVIOUS
  <2>2. {n - x : x \in s} \subseteq Nat /\ {n - x : x \in s} # {}
    BY <2>1, Zenon
  <2> QED BY <2>2, BelowIsWellFounded, WFMin, Zenon
<1>2. PICK x \in s : k = n - x
  BY <1>1
<1>3. \A y \in s : y <= x
  <2>1. SUFFICES ASSUME NEW y \in s, y > x PROVE FALSE
    OBVIOUS
  <2>2. n - y \in Nat /\ n - x \in Nat /\ n - y < n - x
    BY <2>1
  <2>3. <<n - y, n - x>> \in Below
    BY <2>2, BelowIsLess
  <2> QED BY <2>3, <1>1, <1>2
<1>4. \A y \in s : x >= y
  BY <1>3
<1>5. Max(s) \in s /\ \A y \in s : Max(s) >= y
  BY <1>4, Zenon DEF Max
<1> QED BY <1>5

\* The backlog when the pieces of done are gone through, the first of them first
NotesAt(f, notes, done) ==
    /\ f[0] = notes
    /\ \A j \in 1..Len(done) :
          f[j] = IF IsNote(done[j]) THEN KeptNotes(f[j-1], done[j].of) ELSE f[j-1]

LEMMA NotesOfSteps ==
    ASSUME NEW notes, NEW done \in Seq(PieceT)
    PROVE  \E f : NotesAt(f, notes, done) /\ NotesOf(notes, done) = f[Len(done)]
<1> HIDE DEF PieceT
<1> DEFINE Added(x, v) == IF IsNote(done[x]) THEN KeptNotes(v, done[x].of) ELSE v
           Rec(g, n) == g = [s \in SUBSET (1..n) |->
                               IF s = {} THEN notes ELSE Added(Max(s), g[s \ {Max(s)}])]
           iter == CHOOSE g : Rec(g, Len(done))
<1>0. Len(done) \in Nat /\ DOMAIN done = 1..Len(done)
  OBVIOUS
<1>1. NotesOf(notes, done) = iter[1..Len(done)]
  BY <1>0 DEF NotesOf, FoldLeft, MapThenFoldSet, IsNote
<1> HIDE DEF Added
<1>2. \A n \in Nat : \E g : Rec(g, n)
  <2> DEFINE B == {n \in Nat : ~\E g : Rec(g, n)}
  <2>1. SUFFICES ASSUME B # {} PROVE FALSE
    OBVIOUS
  <2>2. PICK m \in B : \A j \in B : <<j, m>> \notin Below
    <3>1. B \subseteq Nat
      OBVIOUS
    <3> HIDE DEF B
    <3> QED BY <3>1, <2>1, BelowIsWellFounded, WFMin, Zenon
  <2>3. m \in Nat /\ ~\E g : Rec(g, m)
    OBVIOUS
  <2>4. CASE m = 0
    <3> DEFINE g == [s \in SUBSET (1..0) |-> notes]
    <3>1. \A s \in SUBSET (1..0) : s = {}
      OBVIOUS
    <3>2. Rec(g, 0)
      BY <3>1, Zenon
    <3> QED BY <2>3, <2>4, <3>2
  <2>5. CASE m # 0
    <3>1. m - 1 \in Nat /\ m - 1 < m
      BY <2>5, <2>3
    <3>2. m - 1 \notin B
      BY <3>1, <2>2, <2>3, BelowIsLess
    <3>3. PICK g : Rec(g, m - 1)
      BY <3>1, <3>2
    <3> DEFINE h == [s \in SUBSET (1..m) |-> IF m \in s THEN Added(m, g[s \ {m}]) ELSE g[s]]
    <3>4. ASSUME NEW s \in SUBSET (1..m)
          PROVE  h[s] = IF s = {} THEN notes ELSE Added(Max(s), h[s \ {Max(s)}])
      <4>1. CASE m \in s
        <5>1. Max(s) = m /\ s # {}
          <6>1. Max(s) \in s /\ \A y \in s : y <= Max(s)
            BY <4>1, <2>3, LastPlace
          <6>2. Max(s) \in 1..m /\ m <= Max(s)
            BY <6>1, <4>1
          <6> HIDE DEF B
          <6> QED BY <6>2, <4>1, <2>3
        <5>2. s \ {m} \in SUBSET (1..m) /\ m \notin s \ {m}
          OBVIOUS
        <5>3. h[s] = Added(m, g[s \ {m}]) /\ h[s \ {m}] = g[s \ {m}]
          BY <4>1, <5>2, Zenon
        <5> HIDE DEF h
        <5> QED BY <5>1, <5>3
      <4>2. CASE m \notin s
        <5>1. s \in SUBSET (1..m-1)
          BY <4>2, <2>3
        <5>2. s # {} => Max(s) \in s
          BY <5>1, <3>1, LastPlace
        <5>3. h[s] = g[s] /\ h[s \ {Max(s)}] = g[s \ {Max(s)}]
          <6>1. s \ {Max(s)} \in SUBSET (1..m) /\ m \notin s \ {Max(s)}
            BY <4>2
          <6> QED BY <4>2, <6>1, Zenon
        <5>4. g[s] = IF s = {} THEN notes ELSE Added(Max(s), g[s \ {Max(s)}])
          BY <5>1, <3>3, Zenon
        <5> HIDE DEF h
        <5> QED BY <5>3, <5>4
      <4> QED BY <4>1, <4>2
    <3>5. Rec(h, m)
      <4>1. h = [s \in SUBSET (1..m) |-> h[s]]
        OBVIOUS
      <4> HIDE DEF h
      <4> QED BY <3>4, <4>1, Zenon
    <3> QED BY <3>5, <2>3
  <2> QED BY <2>4, <2>5
<1>3. Rec(iter, Len(done))
  BY <1>0, <1>2
<1> HIDE DEF iter
<1> DEFINE f == [j \in 0..Len(done) |-> iter[1..j]]
<1>4. f[0] = notes
  <2>1. 1..0 = {} /\ {} \in SUBSET (1..Len(done)) /\ 0 \in 0..Len(done)
    BY <1>0
  <2>2. f[0] = iter[{}]
    BY <2>1, Zenon
  <2> HIDE DEF f
  <2>3. iter[{}] = notes
    BY <2>1, <1>3, Zenon
  <2> QED BY <2>2, <2>3
<1>5. ASSUME NEW j \in 1..Len(done)
      PROVE  f[j] = IF IsNote(done[j]) THEN KeptNotes(f[j-1], done[j].of) ELSE f[j-1]
  <2>1. 1..j \in SUBSET (1..Len(done)) /\ 1..j # {} /\ j \in Nat
    <3>1. j \in 1..j /\ \A i \in 1..j : i \in 1..Len(done)
      BY <1>0
    <3> QED BY <3>1
  <2>2. Max(1..j) = j
    <3>1. 1..j \in SUBSET (1..j)
      OBVIOUS
    <3>2. Max(1..j) \in 1..j /\ \A y \in 1..j : y <= Max(1..j)
      BY <2>1, <3>1, LastPlace
    <3>3. j \in 1..j
      BY <2>1
    <3> QED BY <3>2, <3>3
  <2>3. (1..j) \ {j} = 1..j-1
    BY <2>1
  <2>4. iter[1..j] = Added(j, iter[1..j-1])
    <3>1. iter[1..j] = IF 1..j = {} THEN notes ELSE Added(Max(1..j), iter[(1..j) \ {Max(1..j)}])
      BY <2>1, <1>3, Zenon
    <3> QED BY <3>1, <2>1, <2>2, <2>3
  <2>5. f[j] = iter[1..j] /\ f[j-1] = iter[1..j-1]
    <3>1. j \in 0..Len(done) /\ j - 1 \in 0..Len(done)
      BY <1>0
    <3> QED BY <3>1, Zenon
  <2> HIDE DEF f
  <2> QED BY <2>4, <2>5 DEF Added
<1>6. f[Len(done)] = iter[1..Len(done)]
  <2>1. Len(done) \in 0..Len(done)
    BY <1>0
  <2> QED BY <2>1, Zenon
<1> HIDE DEF f
<1>7. NotesAt(f, notes, done)
  BY <1>4, <1>5 DEF NotesAt
<1> QED BY <1>1, <1>6, <1>7

\* What goes through _drop_unrequested leaves of the notifications those that wait.
LEMMA NotesTaken ==
    ASSUME NEW C \in Seq(PieceT), NEW z, NEW c, Numbers(c, C, z),
           NEW done \in Seq(PieceT), Len(done) <= Len(C),
           \A i \in 1..Len(done) : done[i] = C[i],
           NEW s \in 0..c[0]
    PROVE  NotesOf(Waiting(c[0], s), done) = Waiting(c[Len(done)], s) /\ c[Len(done)] >= c[0]
<1> HIDE DEF PieceT
<1>1. Len(C) \in Nat /\ Len(done) \in Nat /\ 0 \in 0..Len(C)
  OBVIOUS
<1>2. c \in [0..Len(C) -> Nat]
      /\ \A i \in 1..Len(C) : IF IsNote(C[i]) THEN c[i] = c[i-1] + 1 /\ C[i].of.no = c[i]
                                              ELSE c[i] = c[i-1]
  BY DEF Numbers
<1>3. PICK f : NotesAt(f, Waiting(c[0], s), done)
               /\ NotesOf(Waiting(c[0], s), done) = f[Len(done)]
  BY NotesOfSteps, Zenon
<1> DEFINE Fits(j) == f[j] = Waiting(c[j], s) /\ c[j] >= c[0]
           B == {j \in 0..Len(done) : ~Fits(j)}
<1>4. SUFFICES ASSUME B # {} PROVE FALSE
  <2>1. B = {} => Fits(Len(done))
    BY <1>1
  <2> QED BY <2>1, <1>3
<1>5. PICK m \in B : \A j \in B : <<j, m>> \notin Below
  <2>1. B \subseteq Nat
    BY <1>1
  <2> HIDE DEF B
  <2> QED BY <2>1, <1>4, BelowIsWellFounded, WFMin, Zenon
<1>6. m \in 0..Len(done) /\ ~Fits(m)
  OBVIOUS
<1>7. CASE m = 0
  BY <1>1, <1>2, <1>3, <1>6, <1>7 DEF NotesAt
<1>8. CASE m # 0
  <2>1. m - 1 \in 0..Len(done) /\ m \in 1..Len(done) /\ m \in 1..Len(C) /\ m - 1 \in 0..Len(C)
        /\ m - 1 \in Nat /\ m \in Nat /\ m - 1 < m /\ m \in 0..Len(C)
    BY <1>1, <1>6, <1>8
  <2>2. Fits(m - 1)
    <3>1. <<m - 1, m>> \in Below
      BY <2>1, BelowIsLess
    <3>2. m - 1 \notin B
      BY <3>1, <1>5
    <3> QED BY <3>2, <2>1
  <2>3. f[m] = IF IsNote(done[m]) THEN KeptNotes(f[m-1], done[m].of) ELSE f[m-1]
    BY <1>3, <2>1 DEF NotesAt
  <2>4. done[m] = C[m] /\ c[m-1] \in Nat /\ c[0] \in Nat /\ c[m] \in Nat
    BY <1>1, <1>2, <2>1
  <2>5. CASE IsNote(C[m])
    <3>1. c[m] = c[m-1] + 1 /\ done[m].of.no = c[m-1] + 1
      BY <1>2, <2>1, <2>4, <2>5
    <3>2. PICK t \in Nat : t = c[m-1] /\ s \in 0..t
      BY <2>2, <2>4
    <3>3. KeptNotes(Waiting(t, s), done[m].of) = Waiting(t + 1, s)
      BY <3>1, <3>2, WaitingGrows
    <3>4. f[m] = Waiting(c[m], s)
      BY <2>2, <2>3, <2>4, <2>5, <3>1, <3>2, <3>3
    <3>5. c[m] >= c[0]
      BY <2>2, <2>4, <3>1
    <3> QED BY <3>4, <3>5, <1>6
  <2>6. CASE ~IsNote(C[m])
    BY <1>2, <1>6, <2>1, <2>2, <2>3, <2>4, <2>6
  <2> QED BY <2>5, <2>6
<1> QED BY <1>7, <1>8

\* How many notifications are on their way
LEMMA NotesComing ==
    ASSUME NEW C \in Seq(PieceT), NEW z \in Nat, NEW c, Numbers(c, C, z)
    PROVE  c[0] = z - Cardinality({i \in 1..Len(C) : IsNote(C[i])})
<1> HIDE DEF PieceT
<1> DEFINE N(j) == {i \in 1..j : IsNote(C[i])}
           Fits(j) == IsFiniteSet(N(j)) /\ Cardinality(N(j)) = c[j] - c[0]
           B == {j \in 0..Len(C) : ~Fits(j)}
<1>1. Len(C) \in Nat /\ 0 \in 0..Len(C) /\ Len(C) \in 0..Len(C)
  OBVIOUS
<1>2. c \in [0..Len(C) -> Nat] /\ c[Len(C)] = z
      /\ \A i \in 1..Len(C) : IF IsNote(C[i]) THEN c[i] = c[i-1] + 1 /\ C[i].of.no = c[i]
                                              ELSE c[i] = c[i-1]
  BY DEF Numbers
<1>3. \A j \in 0..Len(C) : Fits(j)
  <2>1. SUFFICES ASSUME B # {} PROVE FALSE
    OBVIOUS
  <2>2. PICK m \in B : \A j \in B : <<j, m>> \notin Below
    <3>1. B \subseteq Nat
      BY <1>1
    <3> HIDE DEF B
    <3> QED BY <3>1, <2>1, BelowIsWellFounded, WFMin, Zenon
  <2>3. m \in 0..Len(C) /\ ~Fits(m)
    OBVIOUS
  <2>4. CASE m = 0
    <3>1. N(0) = {}
      OBVIOUS
    <3>2. IsFiniteSet(N(0)) /\ Cardinality(N(0)) = 0
      BY <3>1, FS_EmptySet
    <3> HIDE DEF N
    <3> QED BY <1>1, <1>2, <2>3, <2>4, <3>2
  <2>5. CASE m # 0
    <3>0. m - 1 \in 0..Len(C) /\ m \in 1..Len(C) /\ m - 1 \in Nat /\ m \in Nat /\ m - 1 < m
      BY <1>1, <2>3, <2>5
    <3>1. m - 1 \in 0..Len(C) /\ m \in 1..Len(C) /\ m - 1 \in Nat /\ m \in Nat /\ m - 1 < m
          /\ c[m] \in Nat /\ c[m-1] \in Nat /\ c[0] \in Nat
      <4> HIDE DEF B, Fits
      <4> QED BY <1>1, <1>2, <2>3, <3>0
    <3>2. Fits(m - 1)
      <4>1. m - 1 \notin B
        BY <3>1, <2>2, BelowIsLess
      <4> QED BY <4>1, <3>1
    <3>3. CASE IsNote(C[m])
      <4>1. N(m) = N(m - 1) \cup {m} /\ m \notin N(m - 1)
        BY <3>1, <3>3
      <4> HIDE DEF N
      <4>2. IsFiniteSet(N(m)) /\ Cardinality(N(m)) = Cardinality(N(m - 1)) + 1
        BY <3>2, <4>1, FS_AddElement
      <4>3. c[m] = c[m-1] + 1
        BY <1>2, <3>1, <3>3
      <4> QED BY <2>3, <3>1, <3>2, <4>2, <4>3
    <3>4. CASE ~IsNote(C[m])
      <4>1. N(m) = N(m - 1)
        BY <3>1, <3>4
      <4> HIDE DEF N
      <4>3. c[m] = c[m-1]
        BY <1>2, <3>1, <3>4
      <4> QED BY <2>3, <3>2, <4>1, <4>3
    <3> QED BY <3>3, <3>4
  <2> QED BY <2>4, <2>5
<1>4. Fits(Len(C)) /\ c[0] \in Nat
  BY <1>1, <1>2, <1>3
<1>5. Cardinality(N(Len(C))) = z - c[0] /\ IsFiniteSet(N(Len(C)))
  BY <1>2, <1>4
<1>6. Cardinality(N(Len(C))) \in Nat
  BY <1>5, FS_CardinalityType
<1> HIDE DEF N
<1>7. c[0] = z - Cardinality(N(Len(C)))
  BY <1>4, <1>5, <1>6
<1> QED BY <1>7 DEF N

\* Every notification that was taken off the wire waits or was returned.
LEMMA NotesInvKeeps == ASSUME DeckInv, NotesInv PROVE NotesKept
<1> SUFFICES ASSUME hd.open PROVE NotesKept
  BY DEF NotesKept
<1>1. PICK c : /\ Numbers(c, Coming, deck.noted)
               /\ seen \in 0..c[0] /\ hd.notes = Waiting(c[0], seen)
  BY DEF NotesInv
<1>2. Coming \in Seq(PieceT) /\ deck.noted \in Nat
  BY PartsOfComing DEF DeckInv
<1> DEFINE coming == {i \in 1 .. Len(Coming) : Coming[i].last /\ Coming[i].of.kind = "note"}
           taken  == deck.noted - Cardinality(coming)
<1>3. c[0] = taken
  <2>1. c[0] = deck.noted - Cardinality({i \in 1..Len(Coming) : IsNote(Coming[i])})
    BY <1>1, <1>2, NotesComing
  <2> QED BY <2>1 DEF IsNote
<1>4. hd.notes = Waiting(taken, seen)
  BY <1>1, <1>3
<1> QED BY <1>4 DEF NotesKept, Waiting, Coming

\* The last that waits is the last there is, and when it is returned none waits.
LEMMA AllReturned ==
    ASSUME NEW t \in Nat, NEW s \in 0..t
    PROVE  /\ Waiting(t, t) = <<>>
           /\ t = IF Waiting(t, s) = <<>> THEN s ELSE Last(Waiting(t, s))
<1>1. Backlog \in Nat /\ Backlog > 0
  BY DeckBounds
<1>2. Waiting(t, t) = <<>>
  BY <1>1 DEF Waiting
<1>3. PICK n \in Nat : n = IF t - s > Backlog THEN Backlog ELSE t - s
  BY <1>1
<1>4. PICK w \in Seq(Int) : w = [i \in 1..n |-> t - n + i]
  <2>1. [i \in 1..n |-> t - n + i] \in [1..n -> Int]
    OBVIOUS
  <2>2. [i \in 1..n |-> t - n + i] \in Seq(Int)
    BY <2>1, FunctionIsSeq
  <2> QED BY <2>2, Zenon
<1>5. Waiting(t, s) = w
  BY <1>3, <1>4 DEF Waiting
<1>6. Len(w) = n /\ \A i \in 1..n : w[i] = t - n + i
  BY <1>4
<1>7. CASE n = 0
  <2>1. w = <<>> /\ s = t
    BY <1>1, <1>3, <1>6, <1>7
  <2> QED BY <1>2, <1>5, <2>1
<1>8. CASE n # 0
  <2>1. w # <<>> /\ w[n] = t
    BY <1>6, <1>8
  <2> QED BY <1>2, <1>5, <1>6, <2>1 DEF Last
<1> QED BY <1>7, <1>8

\* The first d pieces are off, and the backlog is what waits then.
LEMMA NotesRest ==
    ASSUME DeckInv, hd'.buf \in Seq(PieceT), stream' \in Seq(PieceT), deck'.noted = deck.noted,
           NEW d \in 0..Len(Coming), Len(Coming') = Len(Coming) - d,
           \A i \in 1..Len(Coming') : Coming'[i] = Coming[i + d],
           NEW c, Numbers(c, Coming, deck.noted),
           seen' \in 0..c[d], hd'.notes = Waiting(c[d], seen')
    PROVE  NotesInv'
<1>1. PICK C \in Seq(PieceT), D \in Seq(PieceT) : C = Coming /\ D = Coming'
  <2>1. Coming' \in Seq(PieceT)
    <3> HIDE DEF PieceT
    <3> QED BY DEF Coming
  <2> QED BY <2>1, PartsOfComing DEF DeckInv
<1> DEFINE e == [i \in 0..Len(D) |-> c[i + d]]
<1>2. Numbers(e, D, deck.noted)
  <2>1. d \in 0..Len(C) /\ Len(D) = Len(C) - d /\ \A i \in 1..Len(D) : D[i] = C[i + d]
    BY <1>1
  <2>2. Numbers(c, C, deck.noted)
    BY <1>1
  <2> QED BY <2>1, <2>2, NumbersOfRest
<1>3. e[0] = c[d]
  <2>1. Len(D) \in Nat
    BY <1>1
  <2>2. 0 \in 0..Len(D) /\ 0 + d = d
    BY <2>1
  <2> QED BY <2>2
<1> HIDE DEF e
<1>4. Numbers(e, Coming', deck'.noted) /\ seen' \in 0..e[0] /\ hd'.notes = Waiting(e[0], seen')
  BY <1>1, <1>2, <1>3
<1> QED BY <1>4 DEF NotesInv

\* What _drop_unrequested does to the backlog
LEMMA NotesDropped ==
    ASSUME DeckInv, NotesInv, hd.open, NEW k \in 0..Len(stream)
    PROVE  LET left == Dropped(hd, k).buf \o Rest(k)
           IN  /\ Dropped(hd, k).buf \in Seq(PieceT) /\ Rest(k) \in Seq(PieceT)
               /\ \E d \in 0..Len(Coming) : \E c :
                     /\ Len(left) = Len(Coming) - d /\ \A i \in 1..Len(left) : left[i] = Coming[i + d]
                     /\ Numbers(c, Coming, deck.noted) /\ c[d] \in Nat /\ seen \in 0..c[d]
                     /\ Dropped(hd, k).notes = Waiting(c[d], seen)
<1> DEFINE left == Dropped(hd, k).buf \o Rest(k)
<1>0. DeckTypeOK
  BY DEF DeckInv
<1>1. PICK d \in 0..Len(Coming), done \in Seq(PieceT) :
         /\ Dropped(hd, k).buf \in Seq(PieceT) /\ Rest(k) \in Seq(PieceT)
         /\ Len(left) = Len(Coming) - d /\ \A i \in 1..Len(left) : left[i] = Coming[i + d]
         /\ Len(done) = d /\ \A i \in 1..d : done[i] = Coming[i]
         /\ Dropped(hd, k).notes = NotesOf(hd.notes, done)
  BY <1>0, DropLeaves
<1> HIDE DEF left
<1>2. PICK c : /\ Numbers(c, Coming, deck.noted)
               /\ seen \in 0..c[0] /\ hd.notes = Waiting(c[0], seen)
  BY DEF NotesInv
<1>3. PICK C \in Seq(PieceT) : C = Coming
  BY PartsOfComing DEF DeckInv
<1>4. NotesOf(Waiting(c[0], seen), done) = Waiting(c[d], seen) /\ c[d] >= c[0]
  <2>1. Numbers(c, C, deck.noted) /\ Len(done) <= Len(C) /\ \A i \in 1..Len(done) : done[i] = C[i]
    BY <1>1, <1>2, <1>3
  <2>2. PICK s \in 0..c[0] : s = seen
    BY <1>2
  <2>3. NotesOf(Waiting(c[0], s), done) = Waiting(c[Len(done)], s) /\ c[Len(done)] >= c[0]
    BY <2>1, NotesTaken
  <2> QED BY <1>1, <2>2, <2>3
<1>5. c[d] \in Nat /\ c[0] \in Nat
  <2>1. c \in [0..Len(C) -> Nat] /\ Len(C) \in Nat /\ d \in 0..Len(C)
    BY <1>2, <1>3 DEF Numbers
  <2> QED BY <2>1
<1>6. seen \in 0..c[d]
  BY <1>2, <1>4, <1>5
<1>7. Dropped(hd, k).notes = Waiting(c[d], seen)
  BY <1>1, <1>2, <1>4
<1> QED BY <1>1, <1>2, <1>5, <1>6, <1>7 DEF left

\* request(): what it drops before the command goes out
LEMMA NotesRequest == ASSUME DeckInv, NotesInv, Request PROVE NotesInv'
<1>1. PICK k \in 0..Len(stream), broken \in BOOLEAN :
          /\ stream' = Rest(k)
          /\ IF broken \/ ~deck.up \/ Garbled(k)
             THEN hd' = Dropped(hd, k) /\ UNCHANGED deck
             ELSE /\ hd.sent < MaxCalls
                  /\ hd' = [Dropped(hd, k) EXCEPT !.call = hd.sent + 1, !.sent = @ + 1,
                                                  !.early = Arrived(k)]
                  /\ deck' = [deck EXCEPT !.owed = Append(@, hd.sent + 1)]
  BY DEF Request
<1>2. hd.open /\ seen' = seen
  BY DEF Request
<1>3. DeckTypeOK
  BY DEF DeckInv
<1>4. PICK h : /\ h = Dropped(hd, k)
               /\ h = [open |-> hd.open, buf |-> h.buf, notes |-> h.notes, call |-> hd.call,
                       sent |-> hd.sent, early |-> hd.early]
  BY <1>3, DropKeeps
<1>5. hd'.buf = h.buf /\ hd'.notes = h.notes /\ deck'.noted = deck.noted
  <2>1. CASE broken \/ ~deck.up \/ Garbled(k)
    BY <1>1, <1>4, <2>1
  <2>2. CASE ~(broken \/ ~deck.up \/ Garbled(k))
    <3>1. PICK a : hd' = [h EXCEPT !.call = hd.sent + 1, !.sent = @ + 1, !.early = a]
      BY <1>1, <1>4, <2>2
    <3>2. hd'.buf = h.buf /\ hd'.notes = h.notes
      BY <1>4, <3>1
    <3>3. PICK o : deck' = [deck EXCEPT !.owed = o]
      BY <1>1, <2>2
    <3>4. deck'.noted = deck.noted
      BY <1>3, <3>3 DEF DeckTypeOK
    <3> QED BY <3>2, <3>4
  <2> QED BY <2>1, <2>2
<1>6. Coming' = Dropped(hd, k).buf \o Rest(k)
  BY <1>1, <1>4, <1>5 DEF Coming
<1>7. PICK d \in 0..Len(Coming) : \E c :
         /\ h.buf \in Seq(PieceT) /\ Rest(k) \in Seq(PieceT)
         /\ Len(Coming') = Len(Coming) - d /\ \A i \in 1..Len(Coming') : Coming'[i] = Coming[i + d]
         /\ Numbers(c, Coming, deck.noted) /\ c[d] \in Nat /\ seen \in 0..c[d]
         /\ h.notes = Waiting(c[d], seen)
  BY <1>2, <1>4, <1>6, NotesDropped
<1>8. PICK c : /\ Numbers(c, Coming, deck.noted) /\ seen \in 0..c[d]
               /\ h.notes = Waiting(c[d], seen)
  BY <1>7
<1> QED BY <1>1, <1>2, <1>5, <1>7, <1>8, NotesRest

\* read_notifications() returns what waits, unless it raises.
LEMMA NotesReturned == ASSUME DeckInv, NotesInv, ReadNotifications PROVE NotesInv'
<1>1. PICK k \in 0..Len(stream) :
          LET g == Dropped(hd, k)
              raises == Garbled(k) \/ ~deck.up
          IN /\ stream' = Rest(k)
             /\ hd' = IF raises THEN g ELSE [g EXCEPT !.notes = <<>>]
             /\ seen' = IF raises \/ g.notes = <<>> THEN seen ELSE Last(g.notes)
  BY DEF ReadNotifications
<1>2. hd.open /\ deck' = deck
  BY DEF ReadNotifications
<1>3. DeckTypeOK
  BY DEF DeckInv
<1>4. PICK h : /\ h = Dropped(hd, k)
               /\ h = [open |-> hd.open, buf |-> h.buf, notes |-> h.notes, call |-> hd.call,
                       sent |-> hd.sent, early |-> hd.early]
  BY <1>3, DropKeeps
<1>5. /\ hd'.buf = h.buf
      /\ \/ hd'.notes = h.notes /\ seen' = seen
         \/ hd'.notes = <<>> /\ seen' = IF h.notes = <<>> THEN seen ELSE Last(h.notes)
  <2>1. CASE Garbled(k) \/ ~deck.up
    BY <1>1, <1>4, <2>1
  <2>2. CASE ~(Garbled(k) \/ ~deck.up)
    <3>1. hd' = [h EXCEPT !.notes = <<>>] /\ seen' = IF h.notes = <<>> THEN seen ELSE Last(h.notes)
      BY <1>1, <1>4, <2>2
    <3>2. hd'.buf = h.buf /\ hd'.notes = <<>>
      BY <1>4, <3>1
    <3> QED BY <3>1, <3>2
  <2> QED BY <2>1, <2>2
<1>6. Coming' = Dropped(hd, k).buf \o Rest(k)
  BY <1>1, <1>4, <1>5 DEF Coming
<1>7. PICK d \in 0..Len(Coming) : \E c :
         /\ h.buf \in Seq(PieceT) /\ Rest(k) \in Seq(PieceT)
         /\ Len(Coming') = Len(Coming) - d /\ \A i \in 1..Len(Coming') : Coming'[i] = Coming[i + d]
         /\ Numbers(c, Coming, deck.noted) /\ c[d] \in Nat /\ seen \in 0..c[d]
         /\ h.notes = Waiting(c[d], seen)
  BY <1>2, <1>4, <1>6, NotesDropped
<1>8. PICK c : /\ Numbers(c, Coming, deck.noted) /\ c[d] \in Nat /\ seen \in 0..c[d]
               /\ h.notes = Waiting(c[d], seen)
  BY <1>7
<1>9. seen' \in 0..c[d] /\ hd'.notes = Waiting(c[d], seen')
  <2>1. CASE hd'.notes = h.notes /\ seen' = seen
    BY <1>8, <2>1
  <2>2. CASE hd'.notes = <<>> /\ seen' = IF h.notes = <<>> THEN seen ELSE Last(h.notes)
    <3>1. PICK t \in Nat : t = c[d] /\ seen \in 0..t
      BY <1>8
    <3>2. PICK s \in 0..t : s = seen
      BY <3>1
    <3>3. Waiting(t, t) = <<>> /\ seen' = t
      BY <1>8, <2>2, <3>2, <3>1, AllReturned
    <3> QED BY <2>2, <3>1, <3>3
  <2> QED BY <1>5, <2>1, <2>2
<1> QED BY <1>1, <1>2, <1>5, <1>7, <1>8, <1>9, NotesRest

\* The deck sends one response more.
LEMMA NotesSent ==
    ASSUME DeckInv, NotesInv, hd' = hd, seen' = seen, NEW r, Coming' \in Seq(PieceT),
           Sends(Coming, Coming', r), r.kind = "note" => r.no = deck.noted + 1,
           deck'.noted = IF r.kind = "note" THEN deck.noted + 1 ELSE deck.noted
    PROVE  NotesInv'
<1> SUFFICES ASSUME hd.open PROVE NotesInv'
  BY DEF NotesInv
<1>1. PICK c : /\ Numbers(c, Coming, deck.noted)
               /\ seen \in 0..c[0] /\ hd.notes = Waiting(c[0], seen)
  BY DEF NotesInv
<1>2. PICK C \in Seq(PieceT), D \in Seq(PieceT), z \in Nat :
         C = Coming /\ D = Coming' /\ z = deck.noted
  BY PartsOfComing DEF DeckInv
<1>3. \E e : e[0] = c[0] /\ Numbers(e, D, IF r.kind = "note" THEN z + 1 ELSE z)
  <2>1. Numbers(c, C, z) /\ Sends(C, D, r) /\ (r.kind = "note" => r.no = z + 1)
    BY <1>1, <1>2
  <2> QED BY <2>1, NumbersOfMore
<1>4. PICK e : e[0] = c[0] /\ Numbers(e, Coming', deck'.noted)
  BY <1>2, <1>3
<1>5. seen' \in 0..e[0] /\ hd'.notes = Waiting(e[0], seen')
  BY <1>1, <1>4
<1> QED BY <1>4, <1>5 DEF NotesInv

\* The deck's own moves
LEMMA NotesDeck ==
    ASSUME DeckInv, NotesInv, DeckAnswers \/ DeckNotifies \/ DeckStrays PROVE NotesInv'
<1>0. DeckTypeOK
  BY DEF DeckInv
<1>1. CASE DeckAnswers
  <2> DEFINE r0 == Resp("answer", Head(deck.owed))
             r1 == Resp("garbled", Head(deck.owed))
  <2>1. Head(deck.owed) \in Int /\ hd' = hd /\ seen' = seen /\ deck'.noted = deck.noted
    BY <1>0, <1>1 DEF DeckAnswers, DeckTypeOK
  <2>2. PICK r \in Resps : r.kind # "note" /\ Coming' \in Seq(PieceT) /\ Sends(Coming, Coming', r)
    <3>1. CASE stream' = stream \o Pieces(r0)
      <4>1. r0 \in Resps /\ r0.kind = "answer"
        BY <2>1 DEF Resps, Kinds, Resp
      <4> HIDE DEF r0
      <4> QED BY <1>0, <2>1, <3>1, <4>1, SendsPieces
    <3>2. CASE stream' = Append(stream, Piece(r1, TRUE))
      <4>1. r1 \in Resps /\ r1.kind = "garbled"
        BY <2>1 DEF Resps, Kinds, Resp
      <4> HIDE DEF r1
      <4> QED BY <1>0, <2>1, <3>2, <4>1, SendsLine
    <3> QED BY <1>1, <3>1, <3>2 DEF DeckAnswers
  <2> QED BY <2>1, <2>2, NotesSent
<1>2. CASE DeckNotifies
  <2>1. PICK r \in Resps : r = Resp("note", deck.noted + 1) /\ r.kind = "note" /\ r.no = deck.noted + 1
    <3>1. Resp("note", deck.noted + 1) \in Resps
      BY <1>0 DEF DeckTypeOK, Resps, Kinds, Resp
    <3> QED BY <3>1 DEF Resp
  <2>2. hd' = hd /\ seen' = seen /\ deck'.noted = deck.noted + 1 /\ stream' = stream \o Pieces(r)
    BY <1>0, <1>2, <2>1 DEF DeckNotifies, DeckTypeOK
  <2>3. Coming' \in Seq(PieceT) /\ Sends(Coming, Coming', r)
    BY <1>0, <2>1, <2>2, SendsPieces
  <2> QED BY <2>1, <2>2, <2>3, NotesSent
<1>3. CASE DeckStrays
  <2>1. PICK r \in Resps : r = Resp("stray", deck.strays) /\ r.kind = "stray"
    <3>1. Resp("stray", deck.strays) \in Resps
      BY <1>0 DEF DeckTypeOK, Resps, Kinds, Resp
    <3> QED BY <3>1 DEF Resp
  <2>2. hd' = hd /\ seen' = seen /\ deck'.noted = deck.noted /\ stream' = stream \o Pieces(r)
    BY <1>0, <1>3, <2>1 DEF DeckStrays, DeckTypeOK
  <2>3. Coming' \in Seq(PieceT) /\ Sends(Coming, Coming', r)
    BY <1>0, <2>1, <2>2, SendsPieces
  <2> QED BY <2>1, <2>2, <2>3, NotesSent
<1> QED BY <1>1, <1>2, <1>3

\* A new connection has no notification yet.
LEMMA NotesConnect == ASSUME DeckInv, NotesInv, DeckConnect PROVE NotesInv'
<1>1. PICK kind \in {"greeting", "refusal"} : stream' = Pieces(Resp(kind, 0))
  BY DEF DeckConnect
<1>2. hd'.buf = <<>> /\ hd'.notes = <<>> /\ seen' = 0
  BY DEF DeckConnect
<1>3. deck'.noted = 0
  BY DEF DeckConnect, DeckInv, DeckTypeOK
<1>4. PICK a, b : /\ Pieces(Resp(kind, 0)) = <<a, b>> /\ ~IsNote(a) /\ ~IsNote(b)
  BY <1>1 DEF Pieces, Piece, Resp, IsNote
<1>5. Len(Coming') = 2 /\ Coming'[1] = a /\ Coming'[2] = b
  <2>1. Coming' = <<>> \o <<a, b>>
    BY <1>1, <1>2, <1>4 DEF Coming
  <2> QED BY <2>1
<1> DEFINE e == [i \in 0..2 |-> 0]
<1>6. Numbers(e, Coming', 0)
  <2>1. \A i \in 1..2 : i = 1 \/ i = 2
    OBVIOUS
  <2>2. \A i \in 1..2 : ~IsNote(Coming'[i])
    BY <1>4, <1>5, <2>1
  <2> QED BY <1>5, <2>2 DEF Numbers
<1>7. 0 \in 0..e[0] /\ <<>> = Waiting(e[0], 0)
  <2>1. e[0] = 0
    OBVIOUS
  <2>2. Waiting(0, 0) = <<>>
    BY DeckBounds DEF Waiting
  <2> QED BY <2>1, <2>2
<1> HIDE DEF e
<1> QED BY <1>2, <1>3, <1>6, <1>7 DEF NotesInv

\* A call's next piece: a notification it meets joins those that wait.
LEMMA NotesRead == ASSUME DeckInv, NotesInv, DeckRead PROVE NotesInv'
<1>0. DeckTypeOK
  BY DEF DeckInv
<1>1. /\ deck' = deck /\ seen' = seen /\ hd.call # NoCall /\ hd.open
      /\ stream # <<>> /\ stream \in Seq(PieceT)
      /\ stream' = Tail(stream) /\ hd.buf \in Seq(PieceT)
      /\ hd = [open |-> hd.open, buf |-> hd.buf, notes |-> hd.notes, call |-> hd.call,
               sent |-> hd.sent, early |-> hd.early]
  BY DEF DeckRead, DeckInv, DeckTypeOK
<1>2. PICK q \in PieceT : q = Head(stream) /\ q = stream[1]
  BY <1>1
<1>3. hd' = IF q.last THEN TakenFrom([hd EXCEPT !.buf = <<>>], q.of) ELSE [hd EXCEPT !.buf = <<q>>]
  BY <1>2 DEF DeckRead
<1>4. PICK n \in Nat, z \in Nat :
         /\ n = Len(hd.buf) /\ z = Len(stream) /\ z >= 1 /\ Len(Coming) = n + z
         /\ Coming[n + 1] = q
         /\ \A i \in 1..n : ~IsNote(Coming[i])
         /\ \A i \in 1..z : Coming[i + n] = stream[i]
  <2>1. /\ Len(Coming) = Len(hd.buf) + Len(stream)
        /\ \A i \in 1..Len(hd.buf) : Coming[i] = hd.buf[i]
        /\ \A i \in 1..Len(stream) : Coming[i + Len(hd.buf)] = stream[i]
    BY <1>0, ComingType
  <2>2. Len(hd.buf) \in Nat /\ Len(stream) \in Nat /\ 1 \in 1..Len(stream) /\ Len(stream) >= 1
    BY <1>1
  <2>3. \A i \in 1..Len(hd.buf) : ~IsNote(Coming[i])
    BY <1>1, <2>1 DEF DeckInv, BufferIsHalf, IsNote
  <2>4. PICK n \in Nat, z \in Nat : n = Len(hd.buf) /\ z = Len(stream)
    BY <2>2
  <2>5. 1 + n = n + 1 /\ Coming[1 + n] = stream[1]
    BY <2>1, <2>2, <2>4
  <2>6. Coming[n + 1] = q
    BY <1>2, <2>5
  <2>7. \A i \in 1..n : ~IsNote(Coming[i])
    BY <2>3, <2>4
  <2>8. Len(Coming) = n + z /\ z >= 1 /\ \A i \in 1..z : Coming[i + n] = stream[i]
    BY <2>1, <2>2, <2>4
  <2> QED BY <2>4, <2>6, <2>7, <2>8
<1>5. stream' \in Seq(PieceT) /\ Len(stream') = z - 1 /\ \A i \in 1..z - 1 : stream'[i] = stream[i + 1]
  BY <1>1, <1>4
<1>6. PICK c : /\ Numbers(c, Coming, deck.noted)
               /\ seen \in 0..c[0] /\ hd.notes = Waiting(c[0], seen)
  BY <1>1 DEF NotesInv
<1>7. /\ c \in [0..n + z -> Nat]
      /\ \A i \in 1..n + z : IF IsNote(Coming[i]) THEN c[i] = c[i-1] + 1 /\ Coming[i].of.no = c[i]
                                                  ELSE c[i] = c[i-1]
  BY <1>4, <1>6 DEF Numbers
<1>8. c[n] = c[0] /\ c[n] \in Nat
  <2> DEFINE B == {j \in 0..n : c[j] # c[0]}
  <2>1. SUFFICES ASSUME B # {} PROVE FALSE
    <3>1. n \in 0..n /\ n \in 0..n + z
      BY <1>4
    <3> QED BY <3>1, <1>7
  <2>2. PICK m \in B : \A j \in B : <<j, m>> \notin Below
    <3>1. B \subseteq Nat
      OBVIOUS
    <3> HIDE DEF B
    <3> QED BY <3>1, <2>1, BelowIsWellFounded, WFMin, Zenon
  <2>3. m \in 0..n /\ c[m] # c[0]
    OBVIOUS
  <2>4. m # 0 /\ m - 1 \in 0..n /\ m \in 1..n /\ m \in 1..n + z /\ m - 1 \in Nat /\ m \in Nat /\ m - 1 < m
    BY <1>4, <2>3
  <2>5. c[m] = c[m - 1]
    BY <1>4, <1>7, <2>4
  <2>6. m - 1 \notin B
    BY <2>2, <2>4, BelowIsLess
  <2> QED BY <2>3, <2>4, <2>5, <2>6
<1>9. CASE ~q.last
  <2>1. hd'.buf = <<q>> /\ hd'.notes = hd.notes
    BY <1>1, <1>3, <1>9
  <2>2. hd'.buf \in Seq(PieceT)
    BY <2>1
  <2>3. Coming' = stream
    BY <1>1, <1>2, <2>1 DEF Coming
  <2>4. n \in 0..Len(Coming) /\ Len(Coming') = Len(Coming) - n
        /\ \A i \in 1..Len(Coming') : Coming'[i] = Coming[i + n]
    BY <1>4, <2>3
  <2>5. seen' \in 0..c[n] /\ hd'.notes = Waiting(c[n], seen')
    BY <1>1, <1>6, <1>8, <2>1
  <2> QED BY <1>1, <1>5, <1>6, <2>2, <2>4, <2>5, NotesRest
<1>10. CASE q.last
  <2>1. PICK h : /\ h = [hd EXCEPT !.buf = <<>>]
                 /\ h = [open |-> h.open, buf |-> h.buf, notes |-> h.notes, call |-> h.call,
                         sent |-> h.sent, early |-> h.early]
                 /\ h.buf = <<>> /\ h.notes = hd.notes
    <3>1. PICK h : h = [hd EXCEPT !.buf = <<>>]
      OBVIOUS
    <3> QED BY <1>1, <3>1
  <2>2. hd' = TakenFrom(h, q.of)
    BY <1>3, <1>10, <2>1
  <2>3. CASE q.of.kind = "refusal"
    <3>1. hd'.open = FALSE
      BY <2>1, <2>2, <2>3 DEF TakenFrom, Closed
    <3> QED BY <3>1 DEF NotesInv
  <2>4. CASE q.of.kind # "refusal"
    <3>1. /\ hd'.buf = <<>>
          /\ hd'.notes = IF q.of.kind = "note" THEN KeptNotes(hd.notes, q.of) ELSE hd.notes
      <4>1. CASE q.of.kind = "note"
        <5>1. hd' = [h EXCEPT !.notes = KeptNotes(@, q.of)]
          BY <2>2, <4>1 DEF TakenFrom
        <5>2. PICK ns : ns = KeptNotes(h.notes, q.of)
          OBVIOUS
        <5>3. hd' = [h EXCEPT !.notes = ns]
          BY <2>1, <5>1, <5>2
        <5> QED BY <2>1, <4>1, <5>2, <5>3
      <4>2. CASE q.of.kind # "note"
        <5>1. hd' = [h EXCEPT !.call = NoCall]
          BY <2>2, <2>4, <4>2 DEF TakenFrom
        <5> QED BY <2>1, <4>2, <5>1
      <4> QED BY <4>1, <4>2
    <3>2. Coming' = stream' /\ hd'.buf \in Seq(PieceT)
      BY <1>5, <3>1 DEF Coming
    <3>3. n + 1 \in 0..Len(Coming) /\ Len(Coming') = Len(Coming) - (n + 1)
          /\ \A i \in 1..Len(Coming') : Coming'[i] = Coming[i + (n + 1)]
      <4>1. \A i \in 1..z - 1 : i + 1 \in 1..z /\ (i + 1) + n = i + (n + 1)
        OBVIOUS
      <4>2. \A i \in 1..z - 1 : stream'[i] = Coming[i + (n + 1)]
        BY <1>4, <1>5, <4>1
      <4>3. n + 1 \in 0..n + z /\ z - 1 = (n + z) - (n + 1)
        BY <1>4
      <4>4. Len(Coming') = z - 1 /\ \A i \in 1..Len(Coming') : Coming'[i] = Coming[i + (n + 1)]
        BY <1>5, <3>2, <4>2
      <4>5. Len(Coming) = n + z
        BY <1>4
      <4> QED BY <4>3, <4>4, <4>5
    <3>4. n + 1 \in 1..n + z /\ (n + 1) - 1 = n
      BY <1>4
    <3>5. seen' \in 0..c[n + 1] /\ hd'.notes = Waiting(c[n + 1], seen')
      <4>1. CASE q.of.kind = "note"
        <5>1. c[n + 1] = c[n] + 1 /\ q.of.no = c[n] + 1
          BY <1>4, <1>7, <1>10, <3>4, <4>1 DEF IsNote
        <5>2. PICK t \in Nat : t = c[n]
          BY <1>8
        <5>3. PICK s \in 0..t : s = seen
          BY <1>6, <1>8, <5>2
        <5>4. KeptNotes(Waiting(t, s), q.of) = Waiting(t + 1, s)
          BY <5>1, <5>2, WaitingGrows
        <5>5. hd'.notes = Waiting(c[n + 1], seen')
          BY <1>1, <1>6, <1>8, <3>1, <4>1, <5>1, <5>2, <5>3, <5>4
        <5>6. seen' \in 0..c[n + 1]
          BY <1>1, <5>1, <5>2, <5>3
        <5> QED BY <5>5, <5>6
      <4>2. CASE q.of.kind # "note"
        <5>1. c[n + 1] = c[n]
          BY <1>4, <1>7, <3>4, <4>2 DEF IsNote
        <5> QED BY <1>1, <1>6, <1>8, <3>1, <4>2, <5>1
      <4> QED BY <4>1, <4>2
    <3> QED BY <1>1, <1>5, <1>6, <3>2, <3>3, <3>5, NotesRest
  <2> QED BY <2>3, <2>4
<1> QED BY <1>9, <1>10

\* Every notification that was read off the wire waits, or was returned, in its order, but for
\* those a full backlog pushed out, the oldest: for every number of calls, connections,
\* notifications and strays and every length of the backlog.
THEOREM NotificationsAreKept == DeckSpec => []NotesKept
<1>1. DeckInit => NotesInv
  BY DEF DeckInit, NotesInv
<1>2. DeckInv /\ NotesInv /\ [DeckNext]_dVars => NotesInv'
  <2> SUFFICES ASSUME DeckInv, NotesInv, [DeckNext]_dVars PROVE NotesInv'
    OBVIOUS
  <2>0. hd = [open |-> hd.open, buf |-> hd.buf, notes |-> hd.notes, call |-> hd.call,
              sent |-> hd.sent, early |-> hd.early]
        /\ deck = [up |-> deck.up, owed |-> deck.owed, answered |-> deck.answered,
                   noted |-> deck.noted, conns |-> deck.conns, strays |-> deck.strays,
                   strayed |-> deck.strayed]
    BY DEF DeckInv, DeckTypeOK
  <2>1. CASE hd' = Closed(hd)
    <3>1. hd'.open = FALSE
      BY <2>0, <2>1 DEF Closed
    <3> QED BY <3>1 DEF NotesInv
  <2>2. ASSUME hd'.open = hd.open, hd'.buf = hd.buf, hd'.notes = hd.notes, stream' = stream,
               seen' = seen, deck'.noted = deck.noted
        PROVE  NotesInv'
    BY <2>2 DEF NotesInv, Coming
  <2>3. CASE hd' = [hd EXCEPT !.call = NoCall] /\ UNCHANGED <<stream, deck, got, seen>>
    <3>1. hd'.open = hd.open /\ hd'.buf = hd.buf /\ hd'.notes = hd.notes
      BY <2>0, <2>3
    <3> QED BY <2>2, <2>3, <3>1
  <2>4. CASE PeerClosed
    BY <2>1, <2>3, <2>4 DEF PeerClosed
  <2>5. CASE DeckClose \/ TimesOut
    BY <2>1, <2>5 DEF DeckClose, TimesOut
  <2>6. CASE DeckCloses
    <3>1. deck' = [deck EXCEPT !.up = FALSE] /\ UNCHANGED <<hd, stream, got, seen>>
      BY <2>6 DEF DeckCloses
    <3>2. deck'.noted = deck.noted
      BY <2>0, <3>1
    <3> QED BY <2>2, <3>1, <3>2
  <2>7. CASE UNCHANGED dVars
    BY <2>2, <2>7 DEF dVars
  <2> QED BY <2>4, <2>5, <2>6, <2>7, NotesConnect, NotesRequest, NotesRead, NotesReturned,
             NotesDeck DEF DeckNext
<1> QED BY <1>1, <1>2, DeckInvHolds, NotesInvKeeps, PTL DEF DeckSpec

---------------------------------------------------------------------------
(* The upload: HyperdeckUpload *)

Records ==
    /\ up = [at |-> up.at, slot |-> up.slot, dir |-> up.dir, retried |-> up.retried,
             sent |-> up.sent, cancellable |-> up.cancellable,
             removed |-> up.removed, why |-> up.why]
    /\ ftp = [roots |-> ftp.roots, file |-> ftp.file, busy |-> ftp.busy,
              dead |-> ftp.dead, mayDie |-> ftp.mayDie]

\* While a file may be deleted or looked for, no transfer is left to write it
\* again, unless the connection is dead and nothing is believed any more; the
\* same once the end is told.
Quiet ==
    /\ up.at \in {"deleting", "listing"} /\ Alive => ~ftp.busy
    /\ up.at = "cancelled" /\ up.removed => ~ftp.busy
    /\ up.at = "ok" => ~ftp.busy

UploadInv == Records /\ Quiet /\ EndIsTrue

\* The steps up to the end of the file.
LEMMA SendingKeeps ==
  UploadInv /\ (Begin \/ Login \/ ChangeDir \/ Store \/ SendChunk \/ Finish) => UploadInv'
  <1> SUFFICES ASSUME UploadInv,
                      Begin \/ Login \/ ChangeDir \/ Store \/ SendChunk \/ Finish
               PROVE  UploadInv'
    OBVIOUS
  <1> USE DEF UploadInv, Records, Quiet, EndIsTrue, Alive, Goto, Fail
  <1>1. CASE Begin
    <2>1. PICK at \in {"login", "failed"}, slot \in Volumes \cup {NoDir}, patient \in BOOLEAN :
            up' = [up EXCEPT !.at = at, !.slot = slot, !.cancellable = patient]
      BY <1>1 DEF Begin
    <2>2. PICK roots \in SUBSET Volumes, mayDie \in BOOLEAN, old \in {"none", "old"} :
            ftp' = [ftp EXCEPT !.roots = roots, !.mayDie = mayDie, !.file = old]
      BY <1>1 DEF Begin
    <2>3. Records'
      BY <2>1, <2>2
    <2>4. up'.at \in {"login", "failed"}
      BY <2>1
    <2> QED
      BY <2>3, <2>4
  <1>2. CASE Login
    BY <1>2 DEF Login
  <1>3. CASE ChangeDir
    <2>1. /\ ftp' = ftp
          /\ \/ \E dir : up' = [up EXCEPT !.at = "stor", !.dir = dir]
             \/ up' = [up EXCEPT !.at = "failed", !.why = "no volume"]
      BY <1>3 DEF ChangeDir
    <2>2. Records'
      BY <2>1
    <2>3. up'.at \in {"stor", "failed"}
      BY <2>1
    <2> QED
      BY <2>2, <2>3
  <1>4. CASE Store
    BY <1>4 DEF Store
  <1>5. CASE SendChunk
    BY <1>5 DEF SendChunk
  <1>6. CASE Finish
    BY <1>6 DEF Finish
  <1> QED
    BY <1>1, <1>2, <1>3, <1>4, <1>5, <1>6

\* The removal of a partial file, and the deck's own steps.
LEMMA DiscardingKeeps ==
  UploadInv /\ (ReadStopped \/ Delete \/ List \/ Dies \/ DeckEnds) => UploadInv'
  <1> SUFFICES ASSUME UploadInv,
                      ReadStopped \/ Delete \/ List \/ Dies \/ DeckEnds
               PROVE  UploadInv'
    OBVIOUS
  <1> USE DEF UploadInv, Records, Quiet, EndIsTrue, Alive, Goto
  <1>1. CASE ReadStopped
    BY <1>1 DEF ReadStopped
  <1>2. CASE Delete
    BY <1>2 DEF Delete
  <1>3. CASE List
    BY <1>3 DEF List
  <1>4. CASE Dies
    BY <1>4 DEF Dies, Ends
  <1>5. CASE DeckEnds
    BY <1>5 DEF DeckEnds, Ends
  <1> QED
    BY <1>1, <1>2, <1>3, <1>4, <1>5

\* What upload_clip says of the file is true, then and ever after: for a file of
\* any length, whatever the deck answers, however late, and wherever the
\* connection ends.
THEOREM UploadsEndTruly == UploadSpec => []EndIsTrue
  <1>1. UploadInit => UploadInv
    <2> SUFFICES ASSUME UploadInit PROVE UploadInv
      OBVIOUS
    <2>1. Records
      BY DEF UploadInit, Records
    <2>2. up.at = "idle"
      BY DEF UploadInit
    <2> QED
      BY <2>1, <2>2 DEF UploadInv, Quiet, EndIsTrue
  <1>2. UploadInv /\ [UploadNext]_uVars => UploadInv'
    <2>1. UploadInv /\ UNCHANGED uVars => UploadInv'
      BY DEF uVars, UploadInv, Records, Quiet, EndIsTrue, Alive
    <2> QED
      BY <2>1, SendingKeeps, DiscardingKeeps DEF UploadNext
  <1>3. UploadInv => EndIsTrue
    BY DEF UploadInv
  <1> QED
    BY <1>1, <1>2, <1>3, PTL DEF UploadSpec

---------------------------------------------------------------------------
(* The settings: NetworkSetup *)

Args  == [type : Types \cup {NotGiven}, addr : Addresses \cup {NotGiven},
          mask : Masks \cup {NotGiven}]
NoArgs == [type |-> NotGiven, addr |-> NotGiven, mask |-> NotGiven]

SetupTypeOK ==
    /\ op = [at |-> op.at, api |-> op.api, args |-> op.args, host |-> op.host,
             readback |-> op.readback, before |-> op.before, want |-> op.want,
             got |-> op.got, set |-> op.set, list |-> op.list, why |-> op.why]
    /\ unit = [conf |-> unit.conf, run |-> unit.run, keeps |-> unit.keeps,
               pending |-> unit.pending]
    /\ unit.conf \in Confs /\ op.before \in Confs /\ op.args \in Args

\* Until a call has begun, and in a call that touches no interface, the interface is left
\* alone and runs what it is configured with.
LeftAlone ==
    op.at \in {"idle", "merge", "put", "verify", "reboot"} =>
        /\ Running /\ op.before = unit.conf /\ op.args = NoArgs /\ op.api = "deck"
        /\ op.got.run.addr # Nowhere

\* A call that changes the interface touches no other setting.
NothingSet ==
    op.at \in {"idle", "read", "write", "poll"} => \A s \in Settings : op.set[s] = NotGiven

\* The call came for the address the unit ran on, and reads back where the unit goes.
Configures ==
    /\ op.at = "read" => op.host = RunsOf(unit.conf).addr
    /\ op.at \in {"write", "poll"} /\ op.api = "deck" => op.host = RunsOf(op.before).addr
    /\ op.at = "poll" => op.want = Body /\ op.readback = ReadBackHost

\* What is put holds what was given, and so does what the next reboot brings.
Lists ==
    /\ op.at \in {"put", "reboot"} =>
          \A s \in Settings : op.set[s] # NotGiven => op.list[s] = op.set[s]
    /\ op.at = "reboot" => unit.pending = op.list

SetupInv ==
    /\ SetupTypeOK /\ LeftAlone /\ NothingSet /\ Configures /\ Lists
    /\ op.at # "raised" => op.why # "check this unit"
    /\ EndIsTold

\* A call that is not about to return, and has raised nothing to be checked, has nothing to
\* be true to.
LEMMA NothingToTell ==
    ASSUME op.at # "done", op.why # "check this unit"
    PROVE  EndIsTold
BY DEF EndIsTold, AlarmIsTrue

\* What is written is a configuration, of what was given and else of what was read.
LEMMA BodyType ==
    ASSUME SetupTypeOK
    PROVE  /\ Body \in Confs
           /\ \A f \in DOMAIN op.args : Body[f] = Given(op.args[f], op.before[f])
<1> PICK a \in Args, b \in Confs : a = op.args /\ b = op.before
  BY DEF SetupTypeOK
<1>1. DOMAIN a = {"type", "addr", "mask"}
  BY DEF Args
<1>2. Body = [type |-> Given(a.type, b.type), addr |-> Given(a.addr, b.addr),
              mask |-> Given(a.mask, b.mask)]
  BY DEF Body
<1>3. Given(a.type, b.type) \in Types /\ Given(a.addr, b.addr) \in Addresses /\ Given(a.mask, b.mask) \in Masks
  BY DEF Given, Args, Confs
<1>4. Body \in Confs
  BY <1>2, <1>3 DEF Confs
<1>5. \A f \in DOMAIN a : Body[f] = Given(a[f], b[f])
  BY <1>1, <1>2
<1> QED BY <1>4, <1>5

\* A call has not begun.
LEMMA SetupInitHolds == SetupInit => SetupInv
<1> SUFFICES ASSUME SetupInit PROVE SetupInv
  OBVIOUS
<1>1. SetupTypeOK
  BY SetupValues DEF SetupInit, SetupTypeOK, Confs, Args, Types
<1>2. LeftAlone /\ NothingSet /\ Configures /\ Lists /\ op.why # "check this unit" /\ op.at # "done"
  BY SetupValues DEF SetupInit, LeftAlone, NothingSet, Configures, Lists, NoArgs, Running, RunsOf
<1> QED BY <1>1, <1>2, NothingToTell DEF SetupInv

\* The steps of set_network up to the read-back.
LEMMA WritingKeeps ==
    ASSUME SetupInv, AskedNetwork \/ ReadBefore \/ Write
    PROVE  SetupInv'
<1>0. op.why # "check this unit"
  BY DEF SetupInv, AskedNetwork, ReadBefore, Write
<1>1. CASE AskedNetwork
  <2>1. PICK conf \in Confs, api \in Apis :
           /\ unit' = [unit EXCEPT !.conf = conf, !.run = RunsOf(conf)]
           /\ \E args \in Arguments(api) :
                op' = [op EXCEPT !.at = IF api = "deck" THEN "read" ELSE "write",
                                 !.api = api, !.args = args,
                                 !.host = RunsOf(conf).addr,
                                 !.before = IF api = "deck" THEN @ ELSE conf]
    BY <1>1 DEF AskedNetwork, Confs
  <2>2. PICK args \in Args :
                op' = [op EXCEPT !.at = IF api = "deck" THEN "read" ELSE "write",
                                 !.api = api, !.args = args,
                                 !.host = RunsOf(conf).addr,
                                 !.before = IF api = "deck" THEN @ ELSE conf]
    BY <2>1 DEF Arguments, Args
  <2>3. SetupTypeOK'
    BY <2>1, <2>2 DEF SetupInv, SetupTypeOK
  <2>4. /\ op'.at \in {"read", "write"} /\ op'.set = op.set /\ op'.why = op.why
        /\ op'.at = "read" <=> api = "deck"
        /\ op'.api = api /\ op'.host = RunsOf(conf).addr /\ unit'.conf = conf
    BY <2>1, <2>2 DEF SetupInv, SetupTypeOK
  <2>5. (LeftAlone /\ NothingSet /\ Configures /\ Lists)'
    BY <1>1, <2>4 DEF AskedNetwork, SetupInv, LeftAlone, NothingSet, Configures, Lists, RunsOf
  <2>6. op'.at # "done" /\ op'.why # "check this unit"
    BY <1>0, <2>4
  <2> QED BY <2>3, <2>5, <2>6 DEF SetupInv, EndIsTold, AlarmIsTrue
<1>2. CASE ReadBefore
  <2>1. /\ unit' = unit /\ op.at = "read"
        /\ \/ op' = [op EXCEPT !.at = "write", !.before = unit.conf]
           \/ op' = [op EXCEPT !.at = "raised", !.why = "unreachable"]
    BY <1>2 DEF ReadBefore
  <2>3. SetupTypeOK'
    BY <2>1 DEF SetupInv, SetupTypeOK
  <2>4. /\ op'.at \in {"write", "raised"} /\ op'.set = op.set /\ op'.why \in {op.why, "unreachable"}
        /\ op'.at = "write" => op'.before = unit.conf
        /\ op'.host = op.host
    BY <2>1 DEF SetupInv, SetupTypeOK
  <2>5. (LeftAlone /\ NothingSet /\ Configures /\ Lists)'
    BY <2>1, <2>4 DEF SetupInv, LeftAlone, NothingSet, Configures, Lists, RunsOf
  <2>6. op'.at # "done" /\ op'.why # "check this unit"
    BY <1>0, <2>4
  <2> QED BY <2>3, <2>5, <2>6 DEF SetupInv, EndIsTold, AlarmIsTrue
<1>3. CASE Write
  <2>1. op.at = "write" /\ Body \in Confs
    BY <1>3, BodyType DEF Write, SetupInv
  <2>2. CASE /\ \E held \in Confs \cup {Body} : unit' = [unit EXCEPT !.conf = held]
             /\ op' = [op EXCEPT !.at = "poll", !.want = Body, !.readback = ReadBackHost]
    <3>1. SetupTypeOK'
      BY <2>1, <2>2 DEF SetupInv, SetupTypeOK
    <3>2. /\ op'.at = "poll" /\ op'.set = op.set /\ op'.why = op.why
          /\ op'.want = Body /\ op'.readback = ReadBackHost
          /\ op'.args = op.args /\ op'.before = op.before /\ op'.api = op.api /\ op'.host = op.host
      BY <2>2 DEF SetupInv, SetupTypeOK
    <3>3. Configures'
      BY <2>1, <3>2 DEF SetupInv, Configures, Body, ReadBackHost, RunsOf
    <3>4. (LeftAlone /\ NothingSet /\ Lists)'
      BY <2>1, <3>2 DEF SetupInv, LeftAlone, NothingSet, Lists
    <3>5. op'.at # "done" /\ op'.why # "check this unit"
      BY <1>0, <3>2
    <3> QED BY <3>1, <3>3, <3>4, <3>5 DEF SetupInv, EndIsTold, AlarmIsTrue
  <2>3. CASE /\ unit' \in {unit, [unit EXCEPT !.conf = Body]}
             /\ \E why \in {"refused", "no answer"} : op' = [op EXCEPT !.at = "raised", !.why = why]
    <3>1. SetupTypeOK'
      BY <2>1, <2>3 DEF SetupInv, SetupTypeOK
    <3>2. op'.at = "raised" /\ op'.why # "check this unit"
      BY <2>3 DEF SetupInv, SetupTypeOK
    <3>3. (LeftAlone /\ NothingSet /\ Configures /\ Lists)'
      BY <3>2 DEF LeftAlone, NothingSet, Configures, Lists
    <3> QED BY <3>1, <3>2, <3>3 DEF SetupInv, EndIsTold, AlarmIsTrue
  <2> QED BY <1>3, <2>2, <2>3 DEF Write
<1> QED BY <1>1, <1>2, <1>3

\* The interface reapplies: not under a call that returned an interface that runs what it
\* is configured with, and what was said of the configuration stays true.
LEMMA ReapplyingKeeps ==
    ASSUME SetupInv, UnitReapplies
    PROVE  SetupInv'
<1>1. PICK run : unit' = [unit EXCEPT !.run = run]
  BY DEF UnitReapplies
<1>2. op' = op /\ op.at \in {"poll", "done", "raised"} /\ ~Running
  BY DEF UnitReapplies, Running
<1>3. unit'.conf = unit.conf /\ unit'.pending = unit.pending /\ unit'.keeps = unit.keeps /\ SetupTypeOK'
  BY <1>1, <1>2 DEF SetupInv, SetupTypeOK
<1>4. Body' = Body /\ ReadBackHost' = ReadBackHost
  BY <1>2 DEF Body, ReadBackHost
<1>5. (LeftAlone /\ NothingSet /\ Configures /\ Lists)'
  BY <1>2, <1>3, <1>4 DEF SetupInv, LeftAlone, NothingSet, Configures, Lists
<1>6. AlarmIsTrue'
  BY <1>2, <1>3 DEF SetupInv, EndIsTold, AlarmIsTrue
<1>7. op.at = "done" => IF op.api = "deck" THEN DeckIsTold' ELSE UltimatteIsTold'
  BY <1>2, <1>3 DEF SetupInv, EndIsTold, DeckIsTold, UltimatteIsTold
<1>8. EndIsTold'
  BY <1>2, <1>3, <1>6, <1>7 DEF SetupInv, EndIsTold
<1> QED BY <1>2, <1>3, <1>5, <1>8 DEF SetupInv

\* The read-back that is good: a deck holds what was written, and what was read runs.
LEMMA GoodIsTold ==
    ASSUME SetupInv, PollGood
    PROVE  SetupInv'
<1>1. /\ unit' = unit /\ op.at = "poll" /\ Settled /\ ConfiguredOk
      /\ op' = [op EXCEPT !.at = "done", !.got = [conf |-> unit.conf, run |-> unit.run]]
  BY DEF PollGood, Good
<1>2. /\ op'.at = "done" /\ op'.args = op.args /\ op'.before = op.before /\ op'.set = op.set
      /\ op'.api = op.api /\ op'.why = op.why /\ op.why # "check this unit" /\ SetupTypeOK'
      /\ op'.got = [conf |-> unit.conf, run |-> unit.run]
  BY <1>1 DEF SetupInv, SetupTypeOK
<1>3. \A s \in Settings : op.set[s] = NotGiven
  BY <1>1 DEF SetupInv, NothingSet
<1>g. op'.got.run = unit.run /\ op'.got.conf = unit.conf
  <2>1. [conf |-> unit.conf, run |-> unit.run].run = unit.run
    OBVIOUS
  <2>2. [conf |-> unit.conf, run |-> unit.run].conf = unit.conf
    OBVIOUS
  <2> QED BY <1>2, <2>1, <2>2
<1>u. unit'.conf = unit.conf /\ unit'.run = unit.run
  BY <1>1
<1>4. op.want = Body /\ Body \in Confs /\ unit.conf \in Confs
  BY <1>1, BodyType DEF SetupInv, Configures, SetupTypeOK
<1>5. CASE op.api = "deck"
  <2>1. unit.run.addr # Nowhere
    BY <1>1, <1>5 DEF Settled
  <2>2. Body.type = Given(op.args.type, op.before.type)
    BY DEF Body
  <2>3. unit.conf.type = Body.type /\ (unit.conf.type = "Static" => unit.conf = Body)
    BY <1>1, <1>4, <1>5 DEF ConfiguredOk, Confs, Types
  <2>4. unit.conf.type = "Static" => Running
    BY <1>1, <1>5 DEF Settled, Running
  <2>5. unit.conf.type = "Static" => \A f \in DOMAIN op.args : unit.conf[f] = Given(op.args[f], op.before[f])
    BY <2>3, BodyType DEF SetupInv
  <2>6. DeckIsTold'
    <3>1. /\ unit'.conf = unit.conf /\ unit'.run = unit.run /\ op'.got.run = unit.run
          /\ op'.args = op.args /\ op'.before = op.before
      BY <1>2, <1>g, <1>u
    <3>2. unit'.conf.type = Given(op'.args.type, op'.before.type)
      BY <2>2, <2>3, <3>1
    <3>3. Running' <=> Running
      BY <3>1 DEF Running
    <3>4. unit'.conf.type = "Static" =>
            \A f \in DOMAIN op'.args : unit'.conf[f] = Given(op'.args[f], op'.before[f])
      BY <2>5, <3>1
    <3>5. op'.got.run.addr # Nowhere
      BY <2>1, <3>1
    <3> QED BY <2>4, <3>1, <3>2, <3>3, <3>4, <3>5 DEF DeckIsTold
  <2> QED BY <1>1, <1>2, <1>3, <1>5, <2>6 DEF EndIsTold, AlarmIsTrue, SetupInv, LeftAlone, NothingSet, Configures, Lists
<1>6. CASE op.api # "deck"
  <2>1. op.args.addr # NotGiven => unit.run = [addr |-> unit.conf.addr, mask |-> unit.conf.mask]
    BY <1>1, <1>6 DEF Settled
  <2>2. op.args.addr # NotGiven /\ unit.conf.type = "Static" => Running
    BY <2>1 DEF Running, RunsOf
  <2>3. UltimatteIsTold'
    <3>1. /\ unit'.conf = unit.conf /\ unit'.run = unit.run /\ op'.got.run = unit.run
          /\ op'.got.conf = unit.conf /\ op'.args = op.args
      BY <1>2, <1>g, <1>u
    <3>2. Running' <=> Running
      BY <3>1 DEF Running
    <3> QED BY <2>1, <2>2, <3>1, <3>2 DEF UltimatteIsTold
  <2> QED BY <1>1, <1>2, <1>3, <1>6, <2>3 DEF EndIsTold, AlarmIsTrue, SetupInv, LeftAlone, NothingSet, Configures, Lists
<1> QED BY <1>5, <1>6

\* The read-back that is given up on: a deck with a static interface would have answered
\* there and been good, had it held what was written.
LEMMA AlarmKeeps ==
    ASSUME SetupInv, GivesUp
    PROVE  SetupInv'
<1>1. /\ unit' = unit /\ op.at = "poll" /\ ~Good /\ unit.run = RunsOf(unit.conf)
      /\ op' = [op EXCEPT !.at = "raised", !.why = "check this unit"]
  BY DEF GivesUp
<1>2. /\ op'.at = "raised" /\ op'.args = op.args /\ op'.want = op.want /\ op'.before = op.before
      /\ op'.api = op.api /\ SetupTypeOK'
  BY <1>1 DEF SetupInv, SetupTypeOK
<1>3. /\ op.want = Body /\ Body \in Confs /\ op.readback = ReadBackHost
      /\ op.args \in Args
  BY <1>1, BodyType DEF SetupInv, Configures, SetupTypeOK
<1>4. ASSUME op.api = "deck", op.want.type = "Static", unit.conf = op.want,
             op.before.type = "Static" \/ op.args.addr # NotGiven
      PROVE  Good
  <2>1. unit.run.addr = Body.addr /\ Body.addr \in Addresses
    BY <1>1, <1>3, <1>4 DEF RunsOf, Confs
  <2>2. op.readback = Body.addr
    <3>1. CASE op.args.addr # NotGiven
      BY <1>3, <1>4, <3>1 DEF ReadBackHost, Body, Given
    <3>2. CASE op.args.addr = NotGiven
      <4>1. op.host = op.before.addr
        BY <1>1, <1>4, <3>2 DEF SetupInv, Configures, RunsOf
      <4> QED BY <1>3, <3>2, <4>1 DEF ReadBackHost, Body, Given
    <3> QED BY <3>1, <3>2
  <2>3. Answers(op.readback)
    BY <2>1, <2>2 DEF Answers
  <2>4. ConfiguredOk
    BY <1>4 DEF ConfiguredOk
  <2>5. Settled
    BY <1>1, <1>4, <2>1, SetupValues DEF Settled
  <2> QED BY <2>3, <2>4, <2>5 DEF Good
<1>5. AlarmIsTrue'
  BY <1>1, <1>2, <1>4 DEF AlarmIsTrue
<1> QED BY <1>2, <1>5 DEF SetupInv, EndIsTold, LeftAlone, NothingSet, Configures, Lists

\* The settings without an interface.
LEMMA SettingsKeep ==
    ASSUME SetupInv, AskedSetting \/ Merge \/ Put \/ Verify \/ Reboot
    PROVE  SetupInv'
<1>1. /\ Running /\ op.before = unit.conf /\ op.args = NoArgs /\ op.api = "deck"
      /\ op.why # "check this unit" /\ op.got.run.addr # Nowhere
  BY DEF AskedSetting, Merge, Put, Verify, Reboot, SetupInv, LeftAlone
<1>2. /\ op'.before = op.before /\ op'.args = op.args /\ op'.api = op.api /\ op'.got = op.got
      /\ unit'.conf = unit.conf /\ unit'.run = unit.run /\ SetupTypeOK'
      /\ op'.at \in {"merge", "put", "verify", "reboot", "done", "raised"}
      /\ op'.at # "raised" => op'.why = op.why
  BY ZenonT(30) DEF AskedSetting, Merge, Put, Verify, Reboot, SetupInv, SetupTypeOK
<1>3. (LeftAlone /\ NothingSet /\ Configures)'
  BY <1>1, <1>2 DEF LeftAlone, NothingSet, Configures, Running
<1>4. Lists'
  <2>1. CASE AskedSetting
    BY <2>1 DEF AskedSetting, Lists, SetupInv, SetupTypeOK
  <2>2. CASE Merge
    <3>1. CASE op' = [op EXCEPT !.at = "put", !.list = [s \in Settings |-> Given(op.set[s], unit.keeps[s])]]
      <4>1. /\ op'.at = "put" /\ op'.set = op.set
            /\ op'.list = [s \in Settings |-> Given(op.set[s], unit.keeps[s])]
        BY <3>1 DEF SetupInv, SetupTypeOK
      <4>2. \A s \in Settings : op'.set[s] # NotGiven => op'.list[s] = op'.set[s]
        BY <4>1 DEF Given
      <4> QED BY <4>1, <4>2 DEF Lists
    <3>2. CASE op' = [op EXCEPT !.at = "raised", !.why = "unreachable"]
      <4>1. op'.at = "raised"
        BY <3>2 DEF SetupInv, SetupTypeOK
      <4> QED BY <4>1 DEF Lists
    <3> QED BY <2>2, <3>1, <3>2 DEF Merge
  <2>3. CASE Put
    BY <2>3 DEF Put, Lists, SetupInv, SetupTypeOK
  <2>4. CASE Verify \/ Reboot
    BY <2>4 DEF Verify, Reboot, Lists, SetupInv, SetupTypeOK
  <2> QED BY <2>1, <2>2, <2>3, <2>4
<1>5. op'.at = "done" => \A s \in Settings : op'.set[s] \in {NotGiven, unit'.keeps[s]}
  <2>1. CASE Reboot
    BY <2>1 DEF Reboot, SetupInv, SetupTypeOK, Lists
  <2>2. CASE Verify
    BY <2>2 DEF Verify, SetupInv, SetupTypeOK
  <2>3. CASE AskedSetting \/ Merge \/ Put
    BY <2>3 DEF AskedSetting, Merge, Put, SetupInv, SetupTypeOK
  <2> QED BY <2>1, <2>2, <2>3
<1>6. \A f \in DOMAIN op.args : unit.conf[f] = Given(op.args[f], op.before[f])
  <2>1. DOMAIN NoArgs = {"type", "addr", "mask"}
    BY DEF NoArgs
  <2>2. \A f \in DOMAIN NoArgs : NoArgs[f] = NotGiven
    BY DEF NoArgs
  <2> QED BY <1>1, <2>2 DEF Given
<1>7. op'.why = "check this unit" => \E s \in Settings : op'.set[s] \notin {NotGiven, unit'.keeps[s]}
  <2>1. CASE Verify
    BY <1>1, <2>1 DEF Verify, SetupInv, SetupTypeOK
  <2>2. CASE AskedSetting \/ Merge \/ Put \/ Reboot
    BY <1>1, <2>2 DEF AskedSetting, Merge, Put, Reboot, SetupInv, SetupTypeOK
  <2> QED BY <2>1, <2>2
<1>8. EndIsTold'
  <2>1. unit'.conf.type = Given(op'.args.type, op'.before.type)
    <3>1. NoArgs.type = NotGiven
      BY DEF NoArgs
    <3> QED BY <1>1, <1>2, <3>1 DEF Given
  <2>2. Running' /\ \A f \in DOMAIN op'.args : unit'.conf[f] = Given(op'.args[f], op'.before[f])
    BY <1>1, <1>2, <1>6 DEF Running
  <2>3. DeckIsTold' /\ op'.api = "deck"
    BY <1>1, <1>2, <2>1, <2>2 DEF DeckIsTold
  <2> QED BY <1>5, <1>7, <2>3 DEF EndIsTold, AlarmIsTrue
<1>9. op'.at # "raised" => op'.why # "check this unit"
  BY <1>1, <1>2
<1> QED BY <1>2, <1>3, <1>4, <1>8, <1>9 DEF SetupInv

\* What a call says of an interface or a setting is true, for any addresses, netmasks and
\* values, and whatever the unit makes of what was written: a deck's static interface holds
\* and runs what was given and else what it had, an Ultimatte's runs the static address it
\* holds, and the warning of a deck with a static interface is never a false alarm.
THEOREM SettingsEndTruly == SetupSpec => []EndIsTold
<1>1. SetupInv /\ [SetupNext]_nVars => SetupInv'
  <2> SUFFICES ASSUME SetupInv, [SetupNext]_nVars PROVE SetupInv'
    OBVIOUS
  <2>1. CASE UNCHANGED nVars
    BY <2>1 DEF nVars, SetupInv, SetupTypeOK, LeftAlone, NothingSet, Configures, Lists, EndIsTold,
         DeckIsTold, UltimatteIsTold, AlarmIsTrue, Running, Body, ReadBackHost
  <2> QED BY <2>1, WritingKeeps, ReapplyingKeeps, GoodIsTold, AlarmKeeps, SettingsKeep DEF SetupNext
<1>2. SetupInv => EndIsTold
  BY DEF SetupInv
<1> QED BY <1>1, <1>2, SetupInitHolds, PTL DEF SetupSpec
=============================================================================
