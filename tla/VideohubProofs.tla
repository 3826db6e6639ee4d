--------------------------- MODULE VideohubProofs ---------------------------
(***************************************************************************)
(* What the Videohub client shows, for every number of entries, changes,   *)
(* sessions and calls given up on, and every order of the answers among    *)
(* the pushes: as long as no call was given up on, an entry is one the hub *)
(* had, a push takes it back only while a newer one is to come, and a      *)
(* quiet wire means that it is current, but for what an ACK put back.      *)
(*                                                                         *)
(* An answer names no command, so the invariant says whose answer it is:   *)
(* one at most is on its way, as a command or as an answer, and it is the  *)
(* pending call's (OneAnswer).  An ACK thus announces a change the hub did *)
(* make (Due).  What is on the wire about one entry is what the hub had    *)
(* (Told), in the order it had it (Ordered), down to what it has now       *)
(* (Latest), and where it begins before what is shown already, or will be  *)
(* at the ACK, it still holds the push of that (Early).  A call that is    *)
(* given up on breaks all of it until the next connect, whose preamble     *)
(* starts afresh.                                                          *)
(***************************************************************************)
EXTENDS Videohub, FiniteSetTheorems, TLAPS

Blocks   == [type : {"device", "end"}] \cup [type : {"entry"}, key : Keys, change : Int]
Answers  == [type : {"ack", "nak"}, change : Int]
Commands == [key : Keys, change : Nat \ {0}] \cup {PingBlock}

\* While an answer is waited for
Waiting == {"await", "ping"}

HubTypeOK ==
    /\ log \in [Keys -> Seq(Int)] /\ \A k \in Keys : Len(log[k]) >= 1
    /\ link \in {"up", "down"} /\ (link = "down" => commands = <<>>)
    /\ commands \in Seq(Commands) /\ toHubClient \in Seq(Blocks)
    /\ pc \in {"off", "preamble", "idle", "await", "ping", "drain"} /\ (pc = "off" => link = "down")
    /\ view \in [Keys -> Int] /\ pending \in [key : Keys, change : Nat]
    /\ changes \in Nat /\ timeouts \in Nat /\ (timeouts = 0 => ~gaveUp)

Vals(l) == {l[p] : p \in 1..Len(l)}

\* A block about the entry k
About(b, k) == b.type = "entry" /\ b.key = k

\* The command that is on its way, or its answer, is the pending one's.
OneAnswer(A, cs, at, pend) ==
    \/ A = <<>> /\ cs = <<>>
    \/ /\ at \in Waiting /\ A = <<>>
       /\ cs = <<IF at = "await" THEN pend ELSE PingBlock>> /\ (at = "await" => pend.change # 0)
    \/ at \in Waiting /\ cs = <<>> /\ \E a \in Answers : A = <<a>>

\* The change that the next ACK will show
Acked  == pc = "await" /\ answers # <<>> /\ answers[1].type = "ack"
Due(k) == IF Acked /\ pending.key = k THEN {pending.change} ELSE {}

\* In the log l, c comes before d.
Before(l, c, d) == \E i, j \in 1..Len(l) : i < j /\ l[i] = c /\ l[j] = d

\* What is on the wire about an entry, the hub had.
Told(W, k, l) == \A i \in 1..Len(W) : About(W[i], k) => W[i].change \in Vals(l)

\* The last of it is what the hub has, and where nothing is on its way the client shows it,
\* or its own change that an ACK put there (o).
Latest(W, k, l, v, o) ==
    /\ \A i \in 1..Len(W) :
          About(W[i], k) /\ (\A j \in 1..Len(W) : j > i => ~About(W[j], k)) => W[i].change = l[Len(l)]
    /\ (\A i \in 1..Len(W) : ~About(W[i], k)) => v = l[Len(l)] \/ o

\* It comes in the order of the hub's changes.
Ordered(W, k, l) ==
    \A i, j \in 1..Len(W) :
        i <= j /\ About(W[i], k) /\ About(W[j], k) => ~Before(l, W[j].change, W[i].change)

\* If a push older than x is to come, so is the push of x.
Early(W, k, l, x) ==
    \A i \in 1..Len(W) : About(W[i], k) /\ Before(l, W[i].change, x) =>
        \E j \in 1..Len(W) : About(W[j], k) /\ W[j].change = x

\* The changes of an entry have numbers of their own.
Numbered(l, n) ==
    /\ \A p, q \in 1..Len(l) : l[p] = l[q] => p = q
    /\ \A p \in 1..Len(l) : 0 <= l[p] /\ l[p] <= n

KeyInv(W, k, l, v, D, o, lk, n, t) ==
    /\ Told(W, k, l) /\ D \subseteq Vals(l)
    /\ lk = "up" => Latest(W, k, l, v, o)
    /\ t => /\ v # Unset => v \in Vals(l)
            /\ Numbered(l, n) /\ Ordered(W, k, l) /\ \A x \in D \cup {v} : Early(W, k, l, x)

\* A command's number is new to the hub.
Fresh ==
    timeouts = 0 => \A j \in 1..Len(commands) : commands[j] # PingBlock =>
        commands[j].change <= changes /\ commands[j].change \notin Vals(log[commands[j].key])

\* As long as no command was given up on
Faithful ==
    ~gaveUp =>
       /\ OneAnswer(answers, commands, pc, pending)
       /\ \A k \in Keys : KeyInv(toHubClient, k, log[k], view[k], Due(k), k \in overtaken, link,
                                 changes, timeouts = 0)

HubInv == HubTypeOK /\ Faithful /\ Fresh

---------------------------------------------------------------------------
(* One entry and what is on the wire about it *)

\* One block less on the wire
Shorter(V, W) == Len(W) >= 1 /\ Len(V) = Len(W) - 1 /\ \A i \in 1..Len(V) : V[i] = W[i + 1]

\* What is on the wire of one block less is told as it was.
LEMMA RestOf ==
    ASSUME NEW W \in Seq(Blocks), NEW V \in Seq(Blocks), Shorter(V, W)
    PROVE  /\ \A i \in 1..Len(V) : i + 1 \in 1..Len(W) /\ V[i] = W[i + 1]
           /\ \A j \in 1..Len(W) : j = 1 \/ (j - 1 \in 1..Len(V) /\ V[j - 1] = W[j])
           /\ 1 \in 1..Len(W)
<1>1. \A i \in 1..Len(V) : i + 1 \in 1..Len(W) /\ V[i] = W[i + 1]
  BY DEF Shorter
<1>2. ASSUME NEW j \in 1..Len(W), j # 1 PROVE j - 1 \in 1..Len(V) /\ V[j - 1] = W[j]
  <2>1. j - 1 \in 1..Len(V) /\ (j - 1) + 1 = j
    BY <1>2 DEF Shorter
  <2> QED BY <1>1, <2>1
<1>3. 1 \in 1..Len(W)
  BY DEF Shorter
<1> QED BY <1>1, <1>2, <1>3

\* The first push is taken off, and shown where it is about the entry.
LEMMA TakenOff ==
    ASSUME NEW W \in Seq(Blocks), NEW V \in Seq(Blocks), Shorter(V, W),
           NEW k, NEW l \in Seq(Int), NEW v, NEW w, NEW D, NEW o, NEW p,
           About(W[1], k) => w = W[1].change, ~About(W[1], k) => w = v, ~About(W[1], k) /\ o => p,
           NEW lk, NEW n, NEW t, KeyInv(W, k, l, v, D, o, lk, n, t)
    PROVE  /\ KeyInv(V, k, l, w, D, p, lk, n, t)
           /\ t /\ Before(l, w, v) => \E j \in 1..Len(V) : About(V[j], k) /\ V[j].change = v
<1>1. /\ \A i \in 1..Len(V) : i + 1 \in 1..Len(W) /\ V[i] = W[i + 1]
      /\ \A j \in 1..Len(W) : j = 1 \/ (j - 1 \in 1..Len(V) /\ V[j - 1] = W[j])
      /\ 1 \in 1..Len(W)
  BY RestOf
<1>2. Told(V, k, l) /\ D \subseteq Vals(l)
  BY <1>1 DEF KeyInv, Told
<1>3. ASSUME lk = "up" PROVE Latest(V, k, l, w, p)
  <2>1. Latest(W, k, l, v, o)
    BY <1>3 DEF KeyInv
  <2>2. ASSUME NEW i \in 1..Len(V), About(V[i], k), \A j \in 1..Len(V) : j > i => ~About(V[j], k)
        PROVE  V[i].change = l[Len(l)]
    <3>1. ASSUME NEW j \in 1..Len(W), j > i + 1 PROVE ~About(W[j], k)
      <4>1. j - 1 \in 1..Len(V) /\ j - 1 > i /\ V[j - 1] = W[j]
        BY <1>1, <3>1
      <4> QED BY <2>2, <4>1
    <3>2. i + 1 \in 1..Len(W) /\ About(W[i + 1], k)
      BY <1>1, <2>2
    <3>3. W[i + 1].change = l[Len(l)]
      BY <2>1, <3>1, <3>2 DEF Latest
    <3> QED BY <1>1, <3>3
  <2>3. ASSUME \A i \in 1..Len(V) : ~About(V[i], k) PROVE w = l[Len(l)] \/ p
    <3>1. \A j \in 1..Len(W) : j = 1 \/ ~About(W[j], k)
      BY <1>1, <2>3
    <3>2. CASE About(W[1], k)
      BY <1>1, <2>1, <3>1, <3>2 DEF Latest
    <3>3. CASE ~About(W[1], k)
      <4>1. \A j \in 1..Len(W) : ~About(W[j], k)
        BY <3>1, <3>3
      <4> QED BY <2>1, <3>3, <4>1 DEF Latest
    <3> QED BY <3>2, <3>3
  <2> QED BY <2>2, <2>3 DEF Latest
<1>4. ASSUME t
      PROVE  /\ w # Unset => w \in Vals(l)
             /\ Numbered(l, n) /\ Ordered(V, k, l) /\ \A x \in D \cup {w} : Early(V, k, l, x)
             /\ Before(l, w, v) => \E j \in 1..Len(V) : About(V[j], k) /\ V[j].change = v
  <2>1. /\ v # Unset => v \in Vals(l)
        /\ Numbered(l, n) /\ Ordered(W, k, l) /\ Told(W, k, l)
        /\ \A x \in D \cup {v} : Early(W, k, l, x)
    BY <1>4 DEF KeyInv
  <2>2. w # Unset => w \in Vals(l)
    BY <1>1, <2>1 DEF Told
  <2>3. Ordered(V, k, l)
    <3> SUFFICES ASSUME NEW i \in 1..Len(V), NEW j \in 1..Len(V), i <= j, About(V[i], k), About(V[j], k)
                 PROVE  ~Before(l, V[j].change, V[i].change)
      BY DEF Ordered
    <3>1. i + 1 <= j + 1
      OBVIOUS
    <3> QED BY <1>1, <2>1, <3>1 DEF Ordered
  <2>4. ASSUME NEW x, Early(W, k, l, x) PROVE Early(V, k, l, x)
    <3> SUFFICES ASSUME NEW i \in 1..Len(V), About(V[i], k), Before(l, V[i].change, x)
                 PROVE  \E j \in 1..Len(V) : About(V[j], k) /\ V[j].change = x
      BY DEF Early
    <3>1. i + 1 \in 1..Len(W) /\ V[i] = W[i + 1] /\ 1 <= i + 1
      BY <1>1
    <3>2. PICK j \in 1..Len(W) : About(W[j], k) /\ W[j].change = x
      BY <2>4, <3>1 DEF Early
    <3>3. j # 1
      <4>1. ASSUME j = 1 PROVE ~Before(l, W[i + 1].change, W[1].change)
        BY <1>1, <2>1, <3>1, <3>2, <4>1 DEF Ordered
      <4> QED BY <3>1, <3>2, <4>1
    <3>4. j - 1 \in 1..Len(V) /\ V[j - 1] = W[j]
      BY <1>1, <3>3
    <3> QED BY <3>2, <3>4
  <2>5. Early(W, k, l, w)
    <3>1. CASE About(W[1], k)
      BY <1>1, <3>1 DEF Early
    <3>2. CASE ~About(W[1], k)
      BY <2>1, <3>2
    <3> QED BY <3>1, <3>2
  <2>6. \A x \in D \cup {w} : Early(V, k, l, x)
    BY <2>1, <2>4, <2>5
  <2>7. ASSUME Before(l, w, v) PROVE \E j \in 1..Len(V) : About(V[j], k) /\ V[j].change = v
    <3>1. w # v
      BY <2>1, <2>7 DEF Before, Numbered
    <3>2. About(W[1], k) /\ W[1].change = w
      BY <3>1
    <3>3. PICK j \in 1..Len(W) : About(W[j], k) /\ W[j].change = v
      BY <1>1, <2>1, <2>7, <3>2 DEF Early
    <3>4. j - 1 \in 1..Len(V) /\ V[j - 1] = W[j]
      BY <1>1, <3>1, <3>2, <3>3
    <3> QED BY <3>3, <3>4
  <2> QED BY <2>1, <2>2, <2>3, <2>6, <2>7
<1> QED BY <1>2, <1>3, <1>4 DEF KeyInv

\* The ACK shows our own change, and an entry that was newer is put back.
LEMMA AckShown ==
    ASSUME NEW W, NEW k, NEW l \in Seq(Int), Len(l) >= 1, NEW v, NEW x, NEW o, NEW p,
           Before(l, x, v) \/ o => p, NEW lk, NEW n, NEW t, KeyInv(W, k, l, v, {x}, o, lk, n, t)
    PROVE  KeyInv(W, k, l, x, {}, p, lk, n, t)
<1>1. Told(W, k, l) /\ x \in Vals(l)
  BY DEF KeyInv
<1>2. ASSUME lk = "up" PROVE Latest(W, k, l, x, p)
  <2>1. Latest(W, k, l, v, o)
    BY <1>2 DEF KeyInv
  <2>2. ASSUME v = l[Len(l)] PROVE x = l[Len(l)] \/ Before(l, x, v)
    <3>1. PICK i \in 1..Len(l) : l[i] = x
      BY <1>1 DEF Vals
    <3>2. i = Len(l) \/ i < Len(l)
      OBVIOUS
    <3>3. Len(l) \in 1..Len(l)
      OBVIOUS
    <3> QED BY <2>2, <3>1, <3>2, <3>3 DEF Before
  <2> QED BY <2>1, <2>2 DEF Latest
<1>3. ASSUME t PROVE /\ Numbered(l, n) /\ Ordered(W, k, l) /\ Early(W, k, l, x)
  BY <1>3 DEF KeyInv
<1> QED BY <1>1, <1>2, <1>3 DEF KeyInv

\* Where less is due, less is asked for.
LEMMA FewerDue ==
    ASSUME NEW W, NEW k, NEW l, NEW v, NEW D, NEW E, E \subseteq D, NEW o, NEW lk, NEW n, NEW t,
           KeyInv(W, k, l, v, D, o, lk, n, t)
    PROVE  KeyInv(W, k, l, v, E, o, lk, n, t)
BY DEF KeyInv

\* One block more on the wire
Longer(V, W, b) == Len(V) = Len(W) + 1 /\ V[Len(W) + 1] = b /\ \A i \in 1..Len(W) : V[i] = W[i]

\* A block of a longer wire was there before or is the new one.
LEMMA OldOrNew ==
    ASSUME NEW W \in Seq(Blocks), NEW V \in Seq(Blocks), NEW b, Longer(V, W, b)
    PROVE  /\ \A i \in 1..Len(V) : (i \in 1..Len(W) /\ V[i] = W[i]) \/ (i = Len(W) + 1 /\ V[i] = b)
           /\ \A i \in 1..Len(W) : i \in 1..Len(V) /\ V[i] = W[i]
           /\ Len(W) + 1 \in 1..Len(V) /\ V[Len(W) + 1] = b
BY DEF Longer

\* A block about another entry disturbs nothing.
LEMMA Unrelated ==
    ASSUME NEW W \in Seq(Blocks), NEW V \in Seq(Blocks), NEW b, Longer(V, W, b),
           NEW k, ~About(b, k), NEW l, NEW v, NEW D, NEW o, NEW lk, NEW n, NEW t,
           KeyInv(W, k, l, v, D, o, lk, n, t)
    PROVE  KeyInv(V, k, l, v, D, o, lk, n, t)
<1>1. /\ \A i \in 1..Len(V) : About(V[i], k) => i \in 1..Len(W) /\ V[i] = W[i]
      /\ \A i \in 1..Len(W) : i \in 1..Len(V) /\ V[i] = W[i]
  BY OldOrNew
<1>2. Told(V, k, l)
  BY <1>1 DEF KeyInv, Told
<1>3. lk = "up" => Latest(V, k, l, v, o)
  BY <1>1 DEF KeyInv, Latest
<1>4. t => Ordered(V, k, l)
  BY <1>1 DEF KeyInv, Ordered
<1>5. ASSUME NEW x, Early(W, k, l, x) PROVE Early(V, k, l, x)
  <2> SUFFICES ASSUME NEW i \in 1..Len(V), About(V[i], k), Before(l, V[i].change, x)
               PROVE  \E j \in 1..Len(V) : About(V[j], k) /\ V[j].change = x
    BY DEF Early
  <2>1. i \in 1..Len(W) /\ V[i] = W[i]
    BY <1>1
  <2>2. PICK j \in 1..Len(W) : About(W[j], k) /\ W[j].change = x
    BY <1>5, <2>1 DEF Early
  <2> QED BY <1>1, <2>2
<1> QED BY <1>2, <1>3, <1>4, <1>5 DEF KeyInv

\* The hub makes a change with a number of its own; nothing is said of what the wire ends with.
LEMMA Changed ==
    ASSUME NEW W \in Seq(Blocks), NEW k, NEW l \in Seq(Int), NEW v, NEW D, NEW o, NEW n \in Nat, NEW t,
           KeyInv(W, k, l, v, D, o, "down", n, t), NEW c \in Nat, NEW u \in Nat, n <= u,
           t => c \notin Vals(l) /\ c <= u
    PROVE  KeyInv(W, k, Append(l, c), v, D, o, "down", u, t)
<1>a. Append(l, c) \in Seq(Int)
  OBVIOUS
<1> PICK h \in Seq(Int) : h = Append(l, c)
  BY <1>a
<1>1. /\ Len(h) = Len(l) + 1 /\ Len(l) \in Nat /\ h[Len(h)] = c
      /\ \A p \in 1..Len(l) : h[p] = l[p] /\ p \in 1..Len(h)
  OBVIOUS
<1>2. \A p \in 1..Len(h) : p \in 1..Len(l) \/ p = Len(h)
  BY <1>1
<1>3. Vals(l) \subseteq Vals(h)
  BY <1>1 DEF Vals
<1>4. Told(W, k, h) /\ D \subseteq Vals(h)
  BY <1>3 DEF KeyInv, Told
<1>5. ASSUME t PROVE /\ v # Unset => v \in Vals(h)
                     /\ Numbered(h, u) /\ Ordered(W, k, h) /\ \A x \in D \cup {v} : Early(W, k, h, x)
  <2>1. /\ v # Unset => v \in Vals(l)
        /\ Numbered(l, n) /\ Ordered(W, k, l) /\ Told(W, k, l) /\ D \subseteq Vals(l)
        /\ \A x \in D \cup {v} : Early(W, k, l, x)
        /\ c \notin Vals(l) /\ c <= u
    BY <1>5 DEF KeyInv
  <2>2. \A p \in 1..Len(l) : l[p] # c
    BY <2>1 DEF Vals
  <2>3. Numbered(h, u)
    <3>1. \A p, q \in 1..Len(h) : h[p] = h[q] => p = q
      BY <1>1, <1>2, <2>1, <2>2 DEF Numbered
    <3>2. \A p \in 1..Len(h) : 0 <= h[p] /\ h[p] <= u
      <4>1. \A p \in 1..Len(l) : l[p] \in Int /\ 0 <= l[p] /\ l[p] <= n
        BY <2>1 DEF Numbered
      <4>2. \A p \in 1..Len(l) : 0 <= l[p] /\ l[p] <= u
        BY <4>1
      <4> QED BY <1>1, <1>2, <2>1, <4>2
    <3> QED BY <3>1, <3>2 DEF Numbered
  <2>4. \A a, b : b # c /\ Before(h, a, b) => Before(l, a, b)
    BY <1>1, <1>2 DEF Before
  <2>5. \A i \in 1..Len(W) : About(W[i], k) => W[i].change # c
    BY <2>1 DEF Told
  <2>6. Ordered(W, k, h)
    BY <2>1, <2>4, <2>5 DEF Ordered
  <2>7. ASSUME NEW x \in D \cup {v} PROVE Early(W, k, h, x)
    <3>1. x # c
      <4>1. Unset # c
        BY DEF Unset
      <4> QED BY <2>1, <4>1
    <3>2. Early(W, k, l, x)
      BY <2>1
    <3> QED BY <2>4, <3>1, <3>2 DEF Early
  <2> QED BY <1>3, <2>1, <2>3, <2>6, <2>7
<1> QED BY <1>4, <1>5 DEF KeyInv

\* What the hub has now is put on the wire, behind everything else about the entry; it may be due
\* by an ACK too.
LEMMA Announced ==
    ASSUME NEW W \in Seq(Blocks), NEW V \in Seq(Blocks), NEW b, Longer(V, W, b),
           NEW k, About(b, k), NEW l \in Seq(Int), Len(l) >= 1, b.change = l[Len(l)],
           NEW v, NEW D, NEW E, E \subseteq D \cup {b.change}, NEW o, NEW lk, NEW n, NEW t,
           KeyInv(W, k, l, v, D, o, "down", n, t)
    PROVE  KeyInv(V, k, l, v, E, o, lk, n, t)
<1>1. /\ \A i \in 1..Len(V) : (i \in 1..Len(W) /\ V[i] = W[i]) \/ (i = Len(W) + 1 /\ V[i] = b)
      /\ \A i \in 1..Len(W) : i \in 1..Len(V) /\ V[i] = W[i]
      /\ Len(W) + 1 \in 1..Len(V) /\ V[Len(W) + 1] = b
  BY OldOrNew
<1>2. Len(l) \in 1..Len(l)
  OBVIOUS
<1>3. Told(V, k, l) /\ E \subseteq Vals(l)
  BY <1>1, <1>2 DEF KeyInv, Told, Vals
<1>4. Latest(V, k, l, v, o)
  <2>1. \A i \in 1..Len(V) : i = Len(W) + 1 \/ Len(W) + 1 > i
    BY <1>1
  <2> QED BY <1>1, <2>1 DEF Latest
<1>5. ASSUME t PROVE /\ v # Unset => v \in Vals(l)
                     /\ Numbered(l, n) /\ Ordered(V, k, l) /\ \A x \in E \cup {v} : Early(V, k, l, x)
  <2>1. /\ v # Unset => v \in Vals(l)
        /\ Numbered(l, n) /\ Ordered(W, k, l) /\ \A x \in D \cup {v} : Early(W, k, l, x)
    BY <1>5 DEF KeyInv
  <2>2. \A a : ~Before(l, l[Len(l)], a)
    BY <1>2, <2>1 DEF Numbered, Before
  <2>3. Ordered(V, k, l)
    <3> SUFFICES ASSUME NEW i \in 1..Len(V), NEW j \in 1..Len(V), i <= j, About(V[i], k), About(V[j], k)
                 PROVE  ~Before(l, V[j].change, V[i].change)
      BY DEF Ordered
    <3>1. CASE V[j] = b
      BY <2>2, <3>1
    <3>2. CASE j \in 1..Len(W) /\ V[j] = W[j]
      <4>1. i \in 1..Len(W) /\ V[i] = W[i]
        BY <1>1, <3>2
      <4> QED BY <2>1, <3>2, <4>1 DEF Ordered
    <3> QED BY <1>1, <3>1, <3>2
  <2>4. ASSUME NEW x \in E \cup {v} PROVE Early(V, k, l, x)
    <3> SUFFICES ASSUME NEW i \in 1..Len(V), About(V[i], k), Before(l, V[i].change, x)
                 PROVE  \E j \in 1..Len(V) : About(V[j], k) /\ V[j].change = x
      BY DEF Early
    <3>1. CASE x = b.change
      BY <1>1, <3>1
    <3>2. CASE x \in D \cup {v}
      <4>1. i \in 1..Len(W) /\ V[i] = W[i]
        BY <1>1, <2>2
      <4>2. PICK j \in 1..Len(W) : About(W[j], k) /\ W[j].change = x
        BY <2>1, <3>2, <4>1 DEF Early
      <4> QED BY <1>1, <4>2
    <3> QED BY <2>4, <3>1, <3>2
  <2> QED BY <2>1, <2>3, <2>4
<1> QED BY <1>3, <1>4, <1>5 DEF KeyInv

\* A change is made, and its push is put on the wire.
LEMMA ChangeTold ==
    ASSUME NEW W \in Seq(Blocks), NEW V \in Seq(Blocks), NEW b, Longer(V, W, b),
           NEW k, About(b, k), NEW l \in Seq(Int), NEW v, NEW D, NEW E, NEW o,
           NEW n \in Nat, NEW u \in Nat, n <= u, NEW c \in Nat, b.change = c, E \subseteq D \cup {c},
           NEW lk, NEW t, t => c \notin Vals(l) /\ c <= u, KeyInv(W, k, l, v, D, o, lk, n, t)
    PROVE  KeyInv(V, k, Append(l, c), v, E, o, lk, u, t)
<1>1. KeyInv(W, k, l, v, D, o, "down", n, t)
  BY DEF KeyInv
<1>a. Append(l, c) \in Seq(Int)
  OBVIOUS
<1>2. PICK h \in Seq(Int) : h = Append(l, c)
  BY <1>a
<1>3. Len(h) >= 1 /\ h[Len(h)] = c
  BY <1>2
<1>4. KeyInv(W, k, h, v, D, o, "down", u, t)
  BY <1>1, <1>2, Changed
<1>5. KeyInv(V, k, h, v, E, o, lk, u, t)
  BY <1>3, <1>4, Announced
<1> QED BY <1>2, <1>5

\* A fresh dump tells what the hub has now, and nothing else.
LEMMA Dumped ==
    ASSUME NEW V \in Seq(Blocks), NEW k, NEW l \in Seq(Int), Len(l) >= 1, NEW v, NEW o,
           \A i \in 1..Len(V) : About(V[i], k) => V[i].change = l[Len(l)],
           \E i \in 1..Len(V) : About(V[i], k),
           NEW lk, NEW n, NEW t, t => (v # Unset => v \in Vals(l)) /\ Numbered(l, n)
    PROVE  KeyInv(V, k, l, v, {}, o, lk, n, t)
<1>1. Len(l) \in 1..Len(l)
  OBVIOUS
<1>2. Told(V, k, l) /\ Latest(V, k, l, v, o)
  BY <1>1 DEF Told, Latest, Vals
<1>3. ASSUME t PROVE Ordered(V, k, l) /\ Early(V, k, l, v)
  <2>1. \A a : ~Before(l, l[Len(l)], a)
    BY <1>1, <1>3 DEF Numbered, Before
  <2> QED BY <2>1 DEF Ordered, Early
<1> QED BY <1>2, <1>3 DEF KeyInv

\* Nothing is on the wire of a closed connection.
LEMMA Cleared ==
    ASSUME NEW k, NEW l, NEW v, NEW o, NEW n, NEW t,
           t => (v # Unset => v \in Vals(l)) /\ Numbered(l, n)
    PROVE  KeyInv(<<>>, k, l, v, {}, o, "down", n, t)
BY DEF KeyInv, Told, Ordered, Early

\* Numbers given out elsewhere do not matter here.
LEMMA MoreNumbers ==
    ASSUME NEW W, NEW k, NEW l \in Seq(Int), NEW v, NEW D, NEW o, NEW lk, NEW n \in Nat, NEW t,
           KeyInv(W, k, l, v, D, o, lk, n, t), NEW u \in Nat, n <= u
    PROVE  KeyInv(W, k, l, v, D, o, lk, u, t)
<1>1. Numbered(l, n) => Numbered(l, u)
  <2> SUFFICES ASSUME Numbered(l, n) PROVE Numbered(l, u)
    OBVIOUS
  <2>1. \A p \in 1..Len(l) : l[p] \in Int /\ 0 <= l[p] /\ l[p] <= n
    BY DEF Numbered
  <2>2. \A p \in 1..Len(l) : 0 <= l[p] /\ l[p] <= u
    BY <2>1
  <2> QED BY <2>2 DEF Numbered
<1> QED BY <1>1 DEF KeyInv

---------------------------------------------------------------------------
(* The calls and their answers *)

\* Answers come to an end with their call.
LEMMA NothingWaited ==
    ASSUME NEW A, NEW cs, NEW at, NEW pend, OneAnswer(A, cs, at, pend), at \notin Waiting
    PROVE  A = <<>> /\ cs = <<>>
BY DEF OneAnswer

\* Only a waiting call has anything due.
LEMMA NothingDue == ASSUME pc # "await" \/ answers = <<>>, NEW k PROVE Due(k) = {}
BY DEF Due, Acked

\* The answer is taken off, and none is left.
LEMMA AnswerTaken ==
    ASSUME NEW A, NEW cs, NEW at, NEW pend, OneAnswer(A, cs, at, pend), A # <<>>
    PROVE  at \in Waiting /\ cs = <<>> /\ Tail(A) = <<>> /\ Head(A) = A[1]
<1>1. PICK a \in Answers : A = <<a>> /\ at \in Waiting /\ cs = <<>>
  BY DEF OneAnswer
<1> HIDE DEF Answers
<1>2. Tail(<<a>>) = <<>> /\ Head(<<a>>) = a /\ <<a>>[1] = a
  OBVIOUS
<1> QED BY <1>1, <1>2

\* The client takes the first push.
LEMMA PushStep ==
    ASSUME HubInv, TakesPush, pc' \in {"preamble", "idle", "await", "ping", "drain"}, pc # "off",
           pc' = pc \/ (pc \notin Waiting /\ pc' \notin Waiting)
    PROVE  /\ HubInv'
           /\ timeouts = 0 => \A k \in Keys : Before(log[k], view'[k], view[k]) =>
                  \E j \in DOMAIN toHubClient' : toHubClient'[j] = EntryBlock(k, view[k])
<1>1. /\ toHubClient # <<>> /\ toHubClient' = Tail(toHubClient) /\ log' = log /\ link' = link
      /\ commands' = commands /\ answers' = answers /\ gaveUp' = gaveUp /\ pending' = pending
      /\ changes' = changes /\ timeouts' = timeouts
  BY DEF TakesPush, hub, counts
<1>2. PICK W \in Seq(Blocks), V \in Seq(Blocks), b \in Blocks :
         /\ W = toHubClient /\ V = toHubClient' /\ Shorter(V, W) /\ b = W[1] /\ b = Head(toHubClient)
         /\ DOMAIN V = 1..Len(V) /\ \A i \in 1..Len(V) : V[i] \in Blocks
  <2>1. toHubClient \in Seq(Blocks)
    BY DEF HubInv, HubTypeOK
  <2> HIDE DEF Blocks
  <2>2. /\ Tail(toHubClient) \in Seq(Blocks) /\ Len(toHubClient) >= 1
        /\ Len(Tail(toHubClient)) = Len(toHubClient) - 1
        /\ \A i \in 1..Len(Tail(toHubClient)) : Tail(toHubClient)[i] = toHubClient[i + 1]
        /\ Head(toHubClient) = toHubClient[1] /\ toHubClient[1] \in Blocks
    BY <1>1, <2>1
  <2>3. \A V \in Seq(Blocks) : DOMAIN V = 1..Len(V) /\ \A i \in 1..Len(V) : V[i] \in Blocks
    OBVIOUS
  <2> QED BY <1>1, <2>1, <2>2, <2>3 DEF Shorter
<1>3. /\ b.type = "entry" => b.key \in Keys /\ b.change \in Int
      /\ view' = IF b.type = "entry" THEN [view EXCEPT ![b.key] = b.change] ELSE view
      /\ overtaken' = IF b.type = "entry" THEN overtaken \ {b.key} ELSE overtaken
      /\ view \in [Keys -> Int]
  BY <1>2 DEF TakesPush, Apply, HubInv, HubTypeOK, Blocks
<1>4. view' \in [Keys -> Int]
  BY <1>3
<1>5. \A k \in Keys : /\ view'[k] = IF About(b, k) THEN b.change ELSE view[k]
                      /\ ~About(b, k) /\ k \in overtaken => k \in overtaken'
  BY <1>3 DEF About
<1>6. HubTypeOK'
  <2> HIDE DEF Blocks, Commands
  <2> QED BY <1>1, <1>2, <1>4 DEF HubInv, HubTypeOK
<1>7. Fresh'
  BY <1>1 DEF HubInv, Fresh
<1>8. ASSUME ~gaveUp, NEW k \in Keys
      PROVE  /\ KeyInv(V, k, log[k], view'[k], Due(k)', k \in overtaken', link, changes, timeouts = 0)
             /\ timeouts = 0 /\ Before(log[k], view'[k], view[k]) =>
                    \E j \in 1..Len(V) : About(V[j], k) /\ V[j].change = view[k]
  <2> PICK l, v, w, D, o, p, t :
         /\ l \in Seq(Int) /\ l = log[k] /\ v = view[k] /\ w = view'[k] /\ D = Due(k)
         /\ o = (k \in overtaken) /\ p = (k \in overtaken') /\ t = (timeouts = 0)
    BY DEF HubInv, HubTypeOK
  <2>1. KeyInv(W, k, l, v, D, o, link, changes, t)
    BY <1>2, <1>8 DEF HubInv, Faithful
  <2>2. /\ About(W[1], k) => w = W[1].change
        /\ ~About(W[1], k) => w = v
        /\ ~About(W[1], k) /\ o => p
    BY <1>2, <1>5
  <2>3. /\ KeyInv(V, k, l, w, D, p, link, changes, t)
        /\ t /\ Before(l, w, v) => \E j \in 1..Len(V) : About(V[j], k) /\ V[j].change = v
    <3>1. Shorter(V, W) /\ l \in Seq(Int)
      BY <1>2
    <3> HIDE DEF KeyInv, About, Shorter, Before, Blocks
    <3> QED BY <2>1, <2>2, <3>1, TakenOff
  <2>4. Due(k)' = D
    BY <1>1 DEF Due, Acked, Waiting
  <2> QED BY <2>3, <2>4
<1>9. ASSUME ~gaveUp PROVE OneAnswer(answers, commands, pc', pending)
  <2>1. OneAnswer(answers, commands, pc, pending)
    BY <1>9 DEF HubInv, Faithful
  <2>2. CASE pc' = pc
    BY <2>1, <2>2
  <2>3. CASE pc \notin Waiting
    BY <2>1, <2>3, NothingWaited DEF OneAnswer
  <2> QED BY <2>2, <2>3
<1>10. Faithful'
  BY <1>1, <1>2, <1>8, <1>9 DEF Faithful
<1>11. ASSUME timeouts = 0, NEW k \in Keys, Before(log[k], view'[k], view[k])
       PROVE  \E j \in DOMAIN V : V[j] = EntryBlock(k, view[k])
  <2>1. ~gaveUp
    BY <1>11 DEF HubInv, HubTypeOK
  <2>2. PICK j \in 1..Len(V) : About(V[j], k) /\ V[j].change = view[k]
    BY <1>8, <1>11, <2>1
  <2>3. V[j] \in [type : {"entry"}, key : Keys, change : Int]
    BY <1>2, <2>2 DEF About, Blocks
  <2>4. V[j] = [type |-> "entry", key |-> k, change |-> view[k]]
    BY <2>2, <2>3 DEF About
  <2> QED BY <1>2, <2>4 DEF EntryBlock
<1> QED BY <1>2, <1>6, <1>7, <1>10, <1>11 DEF HubInv

\* Where the tables and the wire are left alone, nothing more may be due.
LEMMA SameTables ==
    ASSUME HubInv, NEW k \in Keys, ~gaveUp, NEW D, D \subseteq Due(k)
    PROVE  KeyInv(toHubClient, k, log[k], view[k], D, k \in overtaken, link, changes, timeouts = 0)
<1> PICK W, l, v, E, o, t :
       /\ W = toHubClient /\ l = log[k] /\ v = view[k] /\ E = Due(k)
       /\ o = (k \in overtaken) /\ t = (timeouts = 0)
  OBVIOUS
<1>1. KeyInv(W, k, l, v, E, o, link, changes, t)
  BY DEF HubInv, Faithful
<1>2. KeyInv(W, k, l, v, D, o, link, changes, t)
  BY <1>1, FewerDue
<1> QED BY <1>2

\* The ACK is taken, and the entry shown.
LEMMA AcknowledgedStep == ASSUME HubInv, Acknowledged PROVE HubInv'
<1>1. /\ answers # <<>> /\ Head(answers).type = "ack" /\ answers' = Tail(answers)
      /\ pc = "await" /\ pc' = "idle" /\ log' = log /\ link' = link
      /\ commands' = commands /\ toHubClient' = toHubClient /\ gaveUp' = gaveUp /\ pending' = pending
      /\ changes' = changes /\ timeouts' = timeouts
      /\ view' = [view EXCEPT ![pending.key] = pending.change]
      /\ overtaken' = IF Older(pending.key, pending.change, view[pending.key])
                      THEN overtaken \cup {pending.key} ELSE overtaken
  BY DEF Acknowledged, TakesAnswer, hub, counts
<1>2. view \in [Keys -> Int] /\ pending.key \in Keys /\ pending.change \in Nat
  BY DEF HubInv, HubTypeOK
<1>3. view' \in [Keys -> Int]
  BY <1>1, <1>2
<1>4. HubTypeOK'
  <2> HIDE DEF Blocks, Commands
  <2> QED BY <1>1, <1>3 DEF HubInv, HubTypeOK
<1>5. Fresh'
  BY <1>1 DEF HubInv, Fresh
<1>6. ASSUME ~gaveUp PROVE Faithful'
  <2>1. OneAnswer(answers, commands, pc, pending)
    BY <1>6 DEF HubInv, Faithful
  <2>2. commands = <<>> /\ Tail(answers) = <<>> /\ Head(answers) = answers[1]
    BY <1>1, <2>1, AnswerTaken
  <2>3. OneAnswer(answers', commands', pc', pending')
    BY <1>1, <2>2 DEF OneAnswer
  <2>4. ASSUME NEW k \in Keys
        PROVE  /\ Due(k)' = {}
               /\ KeyInv(toHubClient, k, log[k], view'[k], {}, k \in overtaken', link, changes, timeouts = 0)
    <3>1. Due(k)' = {}
      BY <1>1 DEF Due, Acked
    <3>2. CASE k # pending.key
      <4>1. view'[k] = view[k] /\ (k \in overtaken' <=> k \in overtaken)
        BY <1>1, <1>2, <3>2
      <4>2. KeyInv(toHubClient, k, log[k], view[k], {}, k \in overtaken, link, changes, timeouts = 0)
        BY <1>6, SameTables
      <4> PICK o, p : o = (k \in overtaken) /\ p = (k \in overtaken')
        OBVIOUS
      <4>3. KeyInv(toHubClient, k, log[k], view'[k], {}, p, link, changes, timeouts = 0)
        BY <4>1, <4>2
      <4> QED BY <3>1, <4>3
    <3>3. CASE k = pending.key
      <4> PICK W, v, x, o, p, t :
             /\ W = toHubClient /\ v = view[k] /\ x = pending.change
             /\ o = (k \in overtaken) /\ p = (k \in overtaken') /\ t = (timeouts = 0)
        OBVIOUS
      <4> PICK l \in Seq(Int) : l = log[k] /\ Len(l) >= 1
        BY DEF HubInv, HubTypeOK
      <4>1. Due(k) = {x}
        BY <1>1, <2>2, <3>3 DEF Due, Acked
      <4>2. KeyInv(W, k, l, v, {x}, o, link, changes, t)
        BY <1>6, <4>1 DEF HubInv, Faithful
      <4>3. Before(l, x, v) \/ o => p
        BY <1>1, <3>3 DEF Before, Older
      <4>4. KeyInv(W, k, l, x, {}, p, link, changes, t)
        BY <4>2, <4>3, AckShown
      <4>5. view'[k] = x
        BY <1>1, <1>2, <3>3
      <4> QED BY <3>1, <4>4, <4>5
    <3> QED BY <3>2, <3>3
  <2> QED BY <1>1, <2>3, <2>4 DEF Faithful
<1> QED BY <1>1, <1>4, <1>5, <1>6 DEF HubInv, Faithful

\* Any other answer is taken, and the tables stay.
LEMMA OtherAnswerStep ==
    ASSUME HubInv, pc # "off", pc' \in {"idle", "await", "ping", "drain"}, UNCHANGED entries,
           TakesAnswer({"ack", "nak"}), pc' = pc \/ pc' \notin Waiting, pc' = "await" => FALSE
    PROVE  HubInv'
<1>1. /\ answers # <<>> /\ answers' = Tail(answers) /\ log' = log /\ link' = link
      /\ commands' = commands /\ toHubClient' = toHubClient /\ gaveUp' = gaveUp /\ pending' = pending
      /\ changes' = changes /\ timeouts' = timeouts /\ view' = view /\ overtaken' = overtaken
  BY DEF TakesAnswer, hub, counts, entries
<1>2. HubTypeOK'
  <2> HIDE DEF Blocks, Commands
  <2> QED BY <1>1 DEF HubInv, HubTypeOK
<1>3. Fresh'
  BY <1>1 DEF HubInv, Fresh
<1>4. ASSUME ~gaveUp PROVE Faithful'
  <2>1. OneAnswer(answers, commands, pc, pending)
    BY <1>4 DEF HubInv, Faithful
  <2>2. commands = <<>> /\ Tail(answers) = <<>>
    BY <1>1, <2>1, AnswerTaken
  <2>3. OneAnswer(answers', commands', pc', pending')
    BY <1>1, <2>2 DEF OneAnswer
  <2>4. \A k \in Keys : Due(k)' = {}
    BY DEF Due, Acked
  <2>5. \A k \in Keys : KeyInv(toHubClient, k, log[k], view[k], {}, k \in overtaken, link, changes, timeouts = 0)
    BY <1>4, SameTables
  <2> QED BY <1>1, <2>3, <2>4, <2>5 DEF Faithful
<1> QED BY <1>1, <1>2, <1>3, <1>4 DEF HubInv, Faithful

\* Only the place of the caller changes, and no answer is waited for before or after.
LEMMA QuietStep ==
    ASSUME HubInv, PreambleQuiet \/ StateCall \/ DrainQuiet \/ ClosedByHub
    PROVE  HubInv'
<1>1. /\ log' = log /\ link' = link /\ commands' = commands /\ toHubClient' = toHubClient
      /\ answers' = answers /\ view' = view /\ overtaken' = overtaken /\ pending' = pending
      /\ gaveUp' = gaveUp /\ changes' = changes /\ timeouts' = timeouts
  BY DEF PreambleQuiet, StateCall, DrainQuiet, ClosedByHub, hub, counts, onTheWire, entries
<1>2. /\ pc' \in {"idle", "drain"} /\ pc # "off"
      /\ pc \notin Waiting \/ (link = "down" /\ answers = <<>>)
  BY DEF PreambleQuiet, StateCall, DrainQuiet, ClosedByHub, Waiting
<1>3. HubTypeOK'
  <2> HIDE DEF Blocks, Commands
  <2> QED BY <1>1, <1>2 DEF HubInv, HubTypeOK
<1>4. Fresh'
  BY <1>1 DEF HubInv, Fresh
<1>5. ASSUME ~gaveUp PROVE Faithful'
  <2>1. OneAnswer(answers, commands, pc, pending) /\ (link = "down" => commands = <<>>)
    BY <1>5 DEF HubInv, Faithful, HubTypeOK
  <2>2. answers = <<>> /\ commands = <<>>
    BY <1>2, <2>1, NothingWaited
  <2>3. OneAnswer(answers', commands', pc', pending')
    BY <1>1, <2>2 DEF OneAnswer
  <2>4. \A k \in Keys : Due(k)' = {}
    BY <1>1, <2>2 DEF Due, Acked
  <2>5. \A k \in Keys : KeyInv(toHubClient, k, log[k], view[k], {}, k \in overtaken, link, changes, timeouts = 0)
    BY <1>5, SameTables
  <2> QED BY <1>1, <2>3, <2>4, <2>5 DEF Faithful
<1> QED BY <1>1, <1>3, <1>4, <1>5 DEF HubInv, Faithful

\* The connection is closed by the client.
LEMMA CloseStep == ASSUME HubInv, ConnectFails \/ Close \/ PreambleFails PROVE HubInv'
<1>1. /\ log' = log /\ link' = "down" /\ commands' = <<>> /\ toHubClient' = <<>> /\ answers' = <<>>
      /\ view' = view /\ pending' = pending /\ gaveUp' = gaveUp /\ pc' = "off"
      /\ changes' = changes /\ timeouts' = timeouts
  BY DEF ConnectFails, Close, PreambleFails, HangUp, counts, entries
<1>2. HubTypeOK'
  <2>1. <<>> \in Seq(Blocks) /\ <<>> \in Seq(Commands)
    <3> HIDE DEF Blocks, Commands
    <3> QED OBVIOUS
  <2> HIDE DEF Blocks, Commands
  <2> QED BY <1>1, <2>1 DEF HubInv, HubTypeOK
<1>3. Fresh'
  BY <1>1 DEF Fresh
<1>4. ASSUME ~gaveUp PROVE Faithful'
  <2>1. OneAnswer(<<>>, <<>>, pc', pending)
    BY DEF OneAnswer
  <2>2. ASSUME NEW k \in Keys
        PROVE  KeyInv(<<>>, k, log[k], view[k], {}, k \in overtaken', "down", changes, timeouts = 0)
    <3> PICK l, v, D, o, p, t :
           /\ l = log[k] /\ v = view[k] /\ D = Due(k) /\ o = (k \in overtaken) /\ p = (k \in overtaken')
           /\ t = (timeouts = 0)
      OBVIOUS
    <3>1. KeyInv(toHubClient, k, l, v, D, o, link, changes, t)
      BY <1>4 DEF HubInv, Faithful
    <3>2. t => (v # Unset => v \in Vals(l)) /\ Numbered(l, changes)
      BY <3>1 DEF KeyInv
    <3>3. KeyInv(<<>>, k, l, v, {}, p, "down", changes, t)
      BY <3>2, Cleared
    <3> QED BY <3>3
  <2>3. \A k \in Keys : Due(k)' = {}
    BY <1>1 DEF Due, Acked
  <2> QED BY <1>1, <2>1, <2>2, <2>3 DEF Faithful
<1> QED BY <1>1, <1>2, <1>3, <1>4 DEF HubInv, Faithful

\* The hub hangs up: what was sent may still be read, what was asked is lost.
LEMMA HubClosesStep == ASSUME HubInv, HubCloses PROVE HubInv'
<1>1. /\ log' = log /\ link' = "down" /\ commands' = <<>> /\ toHubClient' = toHubClient
      /\ answers' = answers /\ view' = view /\ overtaken' = overtaken /\ pending' = pending
      /\ gaveUp' = gaveUp /\ pc' = pc /\ changes' = changes /\ timeouts' = timeouts
  BY DEF HubCloses, counts, hubClient, onTheWire, entries
<1>2. HubTypeOK'
  <2>1. <<>> \in Seq(Commands)
    <3> HIDE DEF Commands
    <3> QED OBVIOUS
  <2> HIDE DEF Blocks, Commands
  <2> QED BY <1>1, <2>1 DEF HubInv, HubTypeOK
<1>3. Fresh'
  BY <1>1 DEF Fresh
<1>4. ASSUME ~gaveUp PROVE Faithful'
  <2>1. OneAnswer(answers, <<>>, pc, pending)
    BY <1>4 DEF HubInv, Faithful, OneAnswer
  <2>2. \A k \in Keys : KeyInv(toHubClient, k, log[k], view[k], Due(k), k \in overtaken, "down", changes,
                               timeouts = 0)
    BY <1>4 DEF HubInv, Faithful, KeyInv
  <2>3. \A k \in Keys : Due(k)' = Due(k)
    BY <1>1 DEF Due, Acked
  <2> QED BY <1>1, <2>1, <2>2, <2>3 DEF Faithful
<1> QED BY <1>1, <1>2, <1>3, <1>4 DEF HubInv, Faithful

\* A call is given up on: nothing is believed until the next connect.
LEMMA TimedOutStep == ASSUME HubInv, TimedOut PROVE HubInv'
<1>1. /\ log' = log /\ link' = link /\ commands' = commands /\ toHubClient' = toHubClient
      /\ view' = view /\ pending' = pending /\ gaveUp' = TRUE /\ pc' = "idle"
      /\ changes' = changes /\ timeouts' = timeouts + 1 /\ pc # "off"
  BY DEF TimedOut, hub, onTheWire, entries
<1>2. timeouts \in Nat
  BY DEF HubInv, HubTypeOK
<1>3. timeouts' \in Nat /\ timeouts' # 0
  BY <1>1, <1>2
<1>4. HubTypeOK'
  <2> HIDE DEF Blocks, Commands
  <2> QED BY <1>1, <1>3 DEF HubInv, HubTypeOK
<1> QED BY <1>1, <1>3, <1>4 DEF HubInv, Faithful, Fresh

\* A command or a ping goes out.
Asks(c, u) ==
    /\ pc = "idle" /\ log' = log /\ link' = link /\ toHubClient' = toHubClient /\ answers' = answers
    /\ view' = view /\ overtaken' = overtaken
    /\ gaveUp' = gaveUp /\ timeouts' = timeouts /\ changes' = u /\ changes <= u
    /\ commands' = IF link = "up" THEN Append(commands, c) ELSE commands
    /\ pending' \in [key : Keys, change : Nat]
    /\ \/ c = PingBlock /\ pc' = "ping" /\ u = changes
       \/ /\ c # PingBlock /\ pc' = "await" /\ pending' = c /\ u = changes + 1
          /\ c.change = u /\ c.change # 0 /\ c.key \in Keys

\* When it does, no answer is on its way.
LEMMA AskStep ==
    ASSUME HubInv, Ping \/ \E k \in Keys : Send(k) PROVE HubInv'
<1>0. \E c \in Commands, u \in Nat : Asks(c, u)
  <2>0. changes \in Nat /\ pending \in [key : Keys, change : Nat]
    BY DEF HubInv, HubTypeOK
  <2>1. CASE Ping
    <3>1. PingBlock \in Commands /\ changes <= changes
      BY <2>0 DEF Commands
    <3>2. /\ pc = "idle" /\ log' = log /\ link' = link /\ toHubClient' = toHubClient /\ view' = view
          /\ answers' = answers /\ overtaken' = overtaken
          /\ gaveUp' = gaveUp /\ timeouts' = timeouts /\ changes' = changes /\ pending' = pending
          /\ commands' = IF link = "up" THEN Append(commands, PingBlock) ELSE commands
          /\ pc' = "ping"
      BY <2>1 DEF Ping, counts, onTheWire, entries
    <3>3. Asks(PingBlock, changes)
      <4> HIDE DEF PingBlock
      <4> QED BY <2>0, <3>1, <3>2 DEF Asks
    <3> QED BY <2>0, <3>1, <3>3
  <2>2. ASSUME NEW k \in Keys, Send(k) PROVE \E c \in Commands, u \in Nat : Asks(c, u)
    <3>1. PICK c \in Commands, u \in Nat :
             /\ c = Changing(k, changes + 1) /\ u = changes + 1 /\ c # PingBlock
             /\ c.change = u /\ c.change # 0 /\ c.key \in Keys /\ changes <= u
             /\ c \in [key : Keys, change : Nat]
      <4>1. Changing(k, changes + 1) \in [key : Keys, change : Nat \ {0}]
        BY <2>0 DEF Changing
      <4>2. Changing(k, changes + 1).change = changes + 1 /\ Changing(k, changes + 1).key = k
        BY DEF Changing
      <4>3. PingBlock.change = 0 /\ changes + 1 # 0 /\ changes + 1 \in Nat /\ changes <= changes + 1
        BY <2>0 DEF PingBlock
      <4>4. PICK c : c = Changing(k, changes + 1)
        OBVIOUS
      <4>5. c \in Commands /\ c \in [key : Keys, change : Nat]
        BY <4>1, <4>4 DEF Commands
      <4> QED BY <4>2, <4>3, <4>4, <4>5
    <3>2. /\ pc = "idle" /\ log' = log /\ link' = link /\ toHubClient' = toHubClient /\ view' = view
          /\ answers' = answers /\ overtaken' = overtaken
          /\ gaveUp' = gaveUp /\ timeouts' = timeouts /\ changes' = u /\ pending' = c
          /\ commands' = IF link = "up" THEN Append(commands, c) ELSE commands
          /\ pc' = "await"
      BY <2>2, <3>1 DEF Send, onTheWire, entries
    <3>3. Asks(c, u)
      BY <3>1, <3>2 DEF Asks
    <3> QED BY <3>3
  <2> QED BY <2>1, <2>2
<1>1. PICK c \in Commands, u \in Nat : Asks(c, u)
  BY <1>0
<1>2. PICK W \in Seq(Blocks), cs \in Seq(Commands), n \in Nat :
         W = toHubClient /\ cs = commands /\ n = changes
  BY DEF HubInv, HubTypeOK
<1>3. HubTypeOK'
  <2>1. commands' \in Seq(Commands)
    <3>1. Append(cs, c) \in Seq(Commands)
      OBVIOUS
    <3> QED BY <1>1, <1>2, <3>1 DEF Asks
  <2> HIDE DEF Blocks, Commands, PingBlock
  <2> QED BY <1>1, <2>1 DEF HubInv, HubTypeOK, Asks
<1>4. ASSUME ~gaveUp PROVE answers = <<>> /\ cs = <<>>
  <2>1. OneAnswer(answers, cs, pc, pending) /\ pc \notin Waiting
    BY <1>1, <1>2, <1>4 DEF HubInv, Faithful, Waiting, Asks
  <2> QED BY <2>1, NothingWaited
<1>5. ASSUME ~gaveUp PROVE commands' = <<>> \/ commands' = <<c>>
  BY <1>1, <1>2, <1>4, <1>5 DEF Asks
<1>6. ASSUME ~gaveUp PROVE Faithful'
  <2>1. OneAnswer(answers, commands', pc', pending')
    <3>1. CASE commands' = <<>>
      BY <1>4, <1>6, <3>1 DEF OneAnswer
    <3>2. CASE commands' = <<c>>
      <4>1. pc' \in Waiting /\ c = IF pc' = "await" THEN pending' ELSE PingBlock
        BY <1>1 DEF Waiting, Asks
      <4>2. pc' = "await" => pending'.change # 0
        BY <1>1 DEF Asks
      <4> QED BY <1>4, <1>6, <3>2, <4>1, <4>2 DEF OneAnswer
    <3> QED BY <1>5, <1>6, <3>1, <3>2
  <2>2. ASSUME NEW k \in Keys
        PROVE  KeyInv(W, k, log[k], view[k], {}, k \in overtaken, link, u, timeouts = 0)
    <3> PICK v, o, t : v = view[k] /\ o = (k \in overtaken) /\ t = (timeouts = 0)
      OBVIOUS
    <3> PICK l \in Seq(Int) : l = log[k]
      BY DEF HubInv, HubTypeOK
    <3>1. KeyInv(toHubClient, k, log[k], view[k], {}, k \in overtaken, link, changes, timeouts = 0)
      BY <1>6, SameTables
    <3>2. KeyInv(W, k, l, v, {}, o, link, n, t)
      BY <1>2, <3>1
    <3>3. n <= u
      BY <1>1, <1>2 DEF Asks
    <3>4. KeyInv(W, k, l, v, {}, o, link, u, t)
      BY <3>2, <3>3, MoreNumbers
    <3> QED BY <3>4
  <2>3. \A k \in Keys : Due(k)' = {}
    BY <1>1, <1>4, <1>6 DEF Due, Acked, Asks
  <2> QED BY <1>1, <1>2, <2>1, <2>2, <2>3 DEF Faithful, Asks
<1>7. Fresh'
  <2> SUFFICES ASSUME timeouts' = 0, NEW j \in 1..Len(commands'), commands'[j] # PingBlock
               PROVE  commands'[j].change <= changes' /\ commands'[j].change \notin Vals(log'[commands'[j].key])
    BY DEF Fresh
  <2>1. ~gaveUp /\ timeouts = 0
    BY <1>1 DEF HubInv, HubTypeOK, Asks
  <2>2. commands' = <<c>>
    BY <1>5, <2>1
  <2>3. commands'[j] = c /\ c # PingBlock
    BY <2>2
  <2>4. c.change = u /\ u = n + 1 /\ c.key \in Keys
    BY <1>1, <1>2, <2>3 DEF Asks
  <2>5. Numbered(log[c.key], n)
    BY <1>2, <2>1, <2>4 DEF HubInv, Faithful, KeyInv
  <2>6. c.change \notin Vals(log[c.key])
    BY <2>4, <2>5 DEF Numbered, Vals
  <2> QED BY <1>1, <2>3, <2>4, <2>6 DEF Asks
<1> QED BY <1>1, <1>3, <1>6, <1>7 DEF HubInv, Faithful, Asks

---------------------------------------------------------------------------
(* The hub and the other panels *)

\* A push at the end of what is on the wire
LEMMA OneMore ==
    ASSUME NEW W \in Seq(Blocks), NEW b \in Blocks
    PROVE  Append(W, b) \in Seq(Blocks) /\ Longer(Append(W, b), W, b)
<1> HIDE DEF Blocks
<1> QED BY DEF Longer

\* The command is taken off.
LEMMA CommandTaken ==
    ASSUME NEW cs \in Seq(Commands), cs # <<>>
    PROVE  /\ Head(cs) = cs[1] /\ cs[1] \in Commands /\ Tail(cs) \in Seq(Commands) /\ Len(cs) >= 1
           /\ Len(cs) <= 1 => Tail(cs) = <<>>
<1> HIDE DEF Commands
<1>1. Len(Tail(cs)) = Len(cs) - 1 /\ Tail(cs) \in Seq(Commands) /\ Len(cs) >= 1
  OBVIOUS
<1> QED BY <1>1

\* The hub answers without a change: a NAK, or the ACK of a ping.
LEMMA BareAnswerStep == ASSUME HubInv, HubRefuses \/ HubAnswersPing PROVE HubInv'
<1>1. PICK cs \in Seq(Commands), c \in Commands, a \in Answers :
         /\ cs = commands /\ cs # <<>> /\ c = cs[1] /\ answers' = Append(answers, a)
         /\ link' = link /\ link = "up" /\ commands' = Tail(cs) /\ Tail(cs) \in Seq(Commands)
         /\ a.type = "nak" \/ c = PingBlock
         /\ log' = log /\ toHubClient' = toHubClient /\ hubClient' = hubClient /\ counts' = counts
  <2>1. PICK cs \in Seq(Commands), c \in Commands :
           /\ cs = commands /\ cs # <<>> /\ c = cs[1] /\ c = Head(commands)
           /\ Tail(cs) \in Seq(Commands) /\ commands' = Tail(cs)
    <3>1. commands \in Seq(Commands) /\ commands # <<>> /\ commands' = Tail(commands)
      BY DEF HubInv, HubTypeOK, HubRefuses, HubAnswersPing
    <3> HIDE DEF Commands
    <3> QED BY <3>1, CommandTaken
  <2>2. CASE HubRefuses
    <3>1. c.change \in Int /\ Nak(c.change) \in Answers /\ Nak(c.change).type = "nak"
      BY <2>1 DEF Commands, PingBlock, Nak, Answers
    <3> HIDE DEF Commands, Answers, Nak
    <3>2. /\ answers' = Append(answers, Nak(c.change)) /\ link' = link /\ link = "up" /\ log' = log
          /\ toHubClient' = toHubClient /\ hubClient' = hubClient /\ counts' = counts
      BY <2>1, <2>2 DEF HubRefuses
    <3> QED BY <2>1, <3>1, <3>2
  <2>3. CASE HubAnswersPing
    <3>1. Ack(0) \in Answers
      BY DEF Ack, Answers
    <3> HIDE DEF Commands, Answers, Ack, PingBlock
    <3>2. /\ answers' = Append(answers, Ack(0)) /\ link' = link /\ link = "up" /\ log' = log
          /\ c = PingBlock
          /\ toHubClient' = toHubClient /\ hubClient' = hubClient /\ counts' = counts
      BY <2>1, <2>3 DEF HubAnswersPing
    <3> QED BY <2>1, <3>1, <3>2
  <2> QED BY <2>2, <2>3
<1>2. /\ view' = view /\ pc' = pc /\ pending' = pending /\ gaveUp' = gaveUp /\ overtaken' = overtaken
      /\ changes' = changes /\ timeouts' = timeouts
  BY <1>1 DEF hubClient, counts, entries
<1>3. HubTypeOK'
  <2> HIDE DEF Blocks, Commands, Answers
  <2> QED BY <1>1, <1>2 DEF HubInv, HubTypeOK
<1>4. ASSUME ~gaveUp PROVE commands' = <<>> /\ Faithful'
  <2>1. OneAnswer(answers, cs, pc, pending)
    BY <1>1, <1>4 DEF HubInv, Faithful
  <2>2. /\ answers = <<>> /\ pc \in Waiting /\ cs = <<c>>
        /\ pc = "await" => c # PingBlock
    <3>1. /\ answers = <<>> /\ pc \in Waiting /\ cs = <<IF pc = "await" THEN pending ELSE PingBlock>>
          /\ pc = "await" => pending.change # 0
      BY <1>1, <2>1 DEF OneAnswer
    <3>2. PingBlock.change = 0
      BY DEF PingBlock
    <3> HIDE DEF PingBlock, Commands
    <3> QED BY <1>1, <3>1, <3>2
  <2>3. commands' = <<>>
    <3> HIDE DEF Commands
    <3> QED BY <1>1, <2>2
  <2>4. answers' = <<a>> /\ answers'[1] = a
    <3> HIDE DEF Answers
    <3> QED BY <1>1, <2>2
  <2>5. OneAnswer(answers', commands', pc', pending')
    BY <1>2, <2>2, <2>3, <2>4 DEF OneAnswer
  <2>6. \A k \in Keys : Due(k)' = {}
    BY <1>1, <1>2, <2>2, <2>4 DEF Due, Acked
  <2>7. \A k \in Keys : KeyInv(toHubClient, k, log[k], view[k], {}, k \in overtaken, link, changes, timeouts = 0)
    BY <1>4, SameTables
  <2> QED BY <1>1, <1>2, <2>3, <2>5, <2>6, <2>7 DEF Faithful
<1>5. Fresh'
  <2>1. timeouts = 0 => ~gaveUp
    BY DEF HubInv, HubTypeOK
  <2>2. timeouts' = 0 => commands' = <<>>
    BY <1>2, <1>4, <2>1
  <2> QED BY <2>2 DEF Fresh
<1> QED BY <1>2, <1>3, <1>4, <1>5 DEF HubInv, Faithful

\* The log with one more change
LEMMA LogTyped ==
    ASSUME HubInv, NEW k \in Keys, NEW c \in Int, log' = [log EXCEPT ![k] = Append(@, c)]
    PROVE  /\ log' \in [Keys -> Seq(Int)] /\ \A j \in Keys : Len(log'[j]) >= 1
           /\ log'[k] = Append(log[k], c) /\ \A j \in Keys : j # k => log'[j] = log[j]
<1>1. log \in [Keys -> Seq(Int)] /\ \A j \in Keys : Len(log[j]) >= 1
  BY DEF HubInv, HubTypeOK
<1>2. \A s \in Seq(Int) : Append(s, c) \in Seq(Int) /\ Len(Append(s, c)) = Len(s) + 1 /\ Len(s) \in Nat
  OBVIOUS
<1>3. log' \in [Keys -> Seq(Int)]
  BY <1>1, <1>2
<1>4. log'[k] = Append(log[k], c) /\ \A j \in Keys : j # k => log'[j] = log[j]
  BY <1>1
<1>5. ASSUME NEW j \in Keys PROVE Len(log'[j]) >= 1
  <2>1. CASE j = k
    BY <1>1, <1>2, <1>4, <2>1
  <2>2. CASE j # k
    BY <1>1, <1>4, <2>2
  <2> QED BY <2>1, <2>2
<1> QED BY <1>3, <1>4, <1>5

\* A push of an entry
LEMMA PushBlock ==
    ASSUME NEW key \in Keys, NEW x \in Nat
    PROVE  \E e \in Blocks : e = EntryBlock(key, x) /\ e.change = x /\ \A k : About(e, k) <=> k = key
<1>1. /\ EntryBlock(key, x) \in Blocks /\ EntryBlock(key, x).type = "entry"
      /\ EntryBlock(key, x).key = key /\ EntryBlock(key, x).change = x
  BY DEF EntryBlock, Blocks
<1> HIDE DEF EntryBlock, Blocks
<1> QED BY <1>1 DEF About

\* The hub carries out a command.
LEMMA AcceptStep == ASSUME HubInv, HubAccepts PROVE HubInv'
<1>1. PICK c \in Commands, cs \in Seq(Commands) :
         /\ cs = commands /\ cs # <<>> /\ c = cs[1] /\ c # PingBlock /\ link = "up" /\ link' = link
         /\ log' = [log EXCEPT ![c.key] = Append(@, c.change)]
         /\ toHubClient' = Append(toHubClient, EntryBlock(c.key, c.change))
         /\ answers' = Append(answers, Ack(c.change))
         /\ commands' = Tail(cs) /\ Tail(cs) \in Seq(Commands)
         /\ hubClient' = hubClient /\ counts' = counts
  <2>1. commands \in Seq(Commands) /\ commands # <<>>
    BY DEF HubInv, HubTypeOK, HubAccepts
  <2>2. Head(commands) = commands[1] /\ commands[1] \in Commands /\ Tail(commands) \in Seq(Commands)
    BY <2>1, CommandTaken
  <2> HIDE DEF Commands, Ack, EntryBlock, PingBlock
  <2>3. /\ Head(commands) # PingBlock /\ link = "up" /\ link' = link
        /\ log' = [log EXCEPT ![Head(commands).key] = Append(@, Head(commands).change)]
        /\ toHubClient' = Append(toHubClient, EntryBlock(Head(commands).key, Head(commands).change))
        /\ answers' = Append(answers, Ack(Head(commands).change))
        /\ commands' = Tail(commands) /\ hubClient' = hubClient /\ counts' = counts
    BY DEF HubAccepts
  <2> QED BY <2>1, <2>2, <2>3
<1>2. c \in [key : Keys, change : Nat \ {0}]
  BY <1>1 DEF Commands
<1>3. PICK key \in Keys, x \in Nat : key = c.key /\ x = c.change
  BY <1>2
<1>4. PICK e \in Blocks : e = EntryBlock(key, x) /\ e.change = x /\ \A k : About(e, k) <=> k = key
  BY PushBlock
<1>5. PICK a \in Answers : a = Ack(x) /\ a.type = "ack"
  <2>1. Ack(x) \in Answers /\ Ack(x).type = "ack"
    BY DEF Ack, Answers
  <2> HIDE DEF Ack, Answers
  <2> QED BY <2>1
<1>6. PICK W \in Seq(Blocks), V \in Seq(Blocks) : W = toHubClient /\ V = toHubClient' /\ Longer(V, W, e)
  <2>1. PICK W \in Seq(Blocks) : W = toHubClient
    BY DEF HubInv, HubTypeOK
  <2>2. Append(W, e) \in Seq(Blocks) /\ Longer(Append(W, e), W, e)
    BY OneMore
  <2>3. toHubClient' = Append(W, e)
    BY <1>1, <1>3, <1>4, <2>1
  <2> HIDE DEF Blocks, Longer
  <2> QED BY <2>1, <2>2, <2>3
<1>7. /\ log' \in [Keys -> Seq(Int)] /\ \A j \in Keys : Len(log'[j]) >= 1
      /\ log'[key] = Append(log[key], x) /\ \A j \in Keys : j # key => log'[j] = log[j]
  <2>1. log' = [log EXCEPT ![key] = Append(@, x)] /\ x \in Int
    BY <1>1, <1>3
  <2> QED BY <2>1, LogTyped
<1>8. /\ view' = view /\ pc' = pc /\ pending' = pending /\ gaveUp' = gaveUp /\ overtaken' = overtaken
      /\ changes' = changes /\ timeouts' = timeouts
  BY <1>1 DEF hubClient, counts, entries
<1>9. HubTypeOK'
  <2> HIDE DEF Blocks, Commands, Answers
  <2> QED BY <1>1, <1>6, <1>7, <1>8 DEF HubInv, HubTypeOK
<1>10. ASSUME ~gaveUp PROVE commands' = <<>> /\ Faithful'
  <2>1. OneAnswer(answers, cs, pc, pending)
    BY <1>1, <1>10 DEF HubInv, Faithful
  <2>2. answers = <<>> /\ pc = "await" /\ cs = <<c>> /\ pending = c
    <3>1. /\ answers = <<>> /\ cs = <<IF pc = "await" THEN pending ELSE PingBlock>>
      BY <1>1, <2>1 DEF OneAnswer
    <3> HIDE DEF PingBlock, Commands
    <3> QED BY <1>1, <3>1
  <2>3. commands' = <<>>
    <3> HIDE DEF Commands
    <3> QED BY <1>1, <2>2
  <2>4. answers' = <<a>> /\ answers'[1] = a
    <3>1. answers' = Append(answers, a)
      BY <1>1, <1>3, <1>5
    <3> HIDE DEF Answers
    <3> QED BY <2>2, <3>1
  <2>5. OneAnswer(answers', commands', pc', pending')
    BY <1>8, <2>2, <2>3, <2>4 DEF OneAnswer, Waiting
  <2>6. ASSUME NEW k \in Keys
        PROVE  KeyInv(V, k, log'[k], view[k], Due(k)', k \in overtaken, link, changes, timeouts = 0)
    <3> PICK v, o, t, lk, E : v = view[k] /\ o = (k \in overtaken) /\ t = (timeouts = 0) /\ lk = link
                              /\ E = Due(k)'
      OBVIOUS
    <3> PICK l \in Seq(Int), n \in Nat : l = log[k] /\ n = changes
      BY DEF HubInv, HubTypeOK
    <3>1. KeyInv(W, k, l, v, {}, o, lk, n, t)
      <4>1. KeyInv(toHubClient, k, log[k], view[k], {}, k \in overtaken, link, changes, timeouts = 0)
        BY <1>10, SameTables
      <4> QED BY <1>6, <4>1
    <3>2. CASE k = key
      <4>1. t => x \notin Vals(l) /\ x <= n
        <5>1. 1 \in 1..Len(commands) /\ commands[1] = c
          BY <1>1
        <5> QED BY <1>1, <1>3, <3>2, <5>1 DEF HubInv, Fresh
      <4>2. E \subseteq {} \cup {x} /\ n <= n
        BY <1>3, <1>8, <2>2 DEF Due
      <4>3. About(e, k) /\ e.change = x
        BY <1>4, <3>2
      <4>4. KeyInv(V, k, Append(l, x), v, E, o, lk, n, t)
        BY <1>6, <3>1, <4>1, <4>2, <4>3, ChangeTold
      <4> QED BY <1>7, <3>2, <4>4
    <3>3. CASE k # key
      <4>1. ~About(e, k)
        BY <1>4, <3>3
      <4>2. E = {}
        BY <1>3, <1>8, <2>2, <3>3 DEF Due
      <4>3. KeyInv(V, k, l, v, {}, o, lk, n, t)
        BY <1>6, <3>1, <4>1, Unrelated
      <4> QED BY <1>7, <3>3, <4>2, <4>3
    <3> QED BY <3>2, <3>3
  <2> QED BY <1>1, <1>6, <1>8, <2>3, <2>5, <2>6 DEF Faithful
<1>11. Fresh'
  <2>1. timeouts = 0 => ~gaveUp
    BY DEF HubInv, HubTypeOK
  <2>2. timeouts' = 0 => commands' = <<>>
    BY <1>8, <1>10, <2>1
  <2> QED BY <2>2 DEF Fresh
<1> QED BY <1>8, <1>9, <1>10, <1>11 DEF HubInv, Faithful

\* Another panel makes a change.
LEMMA OtherStep == ASSUME HubInv, NEW key \in Keys, OtherPanelSets(key) PROVE HubInv'
<1> PICK lk : lk = link
  OBVIOUS
<1>1. PICK n \in Nat, x \in Nat : n = changes /\ x = changes + 1 /\ lk = link
  BY DEF HubInv, HubTypeOK
<1>2. x = n + 1 /\ n <= x
  BY <1>1
<1>3. PICK e \in Blocks : e = EntryBlock(key, x) /\ e.change = x /\ \A k : About(e, k) <=> k = key
  BY PushBlock
<1>4. /\ changes' = x /\ log' = [log EXCEPT ![key] = Append(@, x)]
      /\ toHubClient' = IF lk = "up" THEN Append(toHubClient, e) ELSE toHubClient
      /\ link' = link /\ commands' = commands /\ answers' = answers
      /\ hubClient' = hubClient /\ timeouts' = timeouts
  BY <1>1, <1>3 DEF OtherPanelSets
<1>5. PICK W \in Seq(Blocks), V \in Seq(Blocks) :
         /\ W = toHubClient /\ V = toHubClient'
         /\ lk = "up" => Longer(V, W, e)
         /\ lk # "up" => V = W
  <2>1. PICK W \in Seq(Blocks) : W = toHubClient
    BY DEF HubInv, HubTypeOK
  <2>2. CASE lk = "up"
    <3>1. Append(W, e) \in Seq(Blocks) /\ Longer(Append(W, e), W, e)
      BY OneMore
    <3> HIDE DEF Blocks, Longer
    <3> QED BY <1>4, <2>1, <2>2, <3>1
  <2>3. CASE lk # "up"
    BY <1>4, <2>1, <2>3
  <2> QED BY <2>2, <2>3
<1>6. /\ log' \in [Keys -> Seq(Int)] /\ \A j \in Keys : Len(log'[j]) >= 1
      /\ log'[key] = Append(log[key], x) /\ \A j \in Keys : j # key => log'[j] = log[j]
  <2>1. x \in Int
    OBVIOUS
  <2> QED BY <1>4, <2>1, LogTyped
<1>7. /\ view' = view /\ pc' = pc /\ pending' = pending /\ gaveUp' = gaveUp /\ overtaken' = overtaken
  BY <1>4 DEF hubClient, entries
<1>8. HubTypeOK'
  <2>1. toHubClient' \in Seq(Blocks)
    BY <1>5
  <2> HIDE DEF Blocks, Commands
  <2> QED BY <1>4, <1>6, <1>7, <2>1 DEF HubInv, HubTypeOK
<1>9. PICK cs \in Seq(Commands) : cs = commands
  BY DEF HubInv, HubTypeOK
<1>10. ASSUME ~gaveUp PROVE Faithful'
  <2>1. OneAnswer(answers, cs, pc, pending)
    BY <1>9, <1>10 DEF HubInv, Faithful
  <2>2. ASSUME NEW k \in Keys
        PROVE  KeyInv(V, k, log'[k], view[k], Due(k), k \in overtaken, link, x, timeouts = 0)
    <3> PICK v, D, o, t : v = view[k] /\ D = Due(k) /\ o = (k \in overtaken) /\ t = (timeouts = 0)
      OBVIOUS
    <3> PICK l \in Seq(Int) : l = log[k]
      BY DEF HubInv, HubTypeOK
    <3>1. KeyInv(W, k, l, v, D, o, lk, n, t)
      BY <1>1, <1>5, <1>10 DEF HubInv, Faithful
    <3>2. CASE k # key
      <4>1. KeyInv(V, k, l, v, D, o, lk, n, t)
        <5>1. ~About(e, k)
          BY <1>3, <3>2
        <5>2. CASE lk = "up"
          BY <1>5, <3>1, <5>1, <5>2, Unrelated
        <5>3. CASE lk # "up"
          BY <1>5, <3>1, <5>3
        <5> QED BY <5>2, <5>3
      <4>2. KeyInv(V, k, l, v, D, o, lk, x, t)
        BY <1>2, <4>1, MoreNumbers
      <4> QED BY <1>1, <1>6, <3>2, <4>2
    <3>3. CASE k = key
      <4>1. t => x \notin Vals(l) /\ x <= x
        BY <1>2, <3>1 DEF KeyInv, Numbered, Vals
      <4>2. CASE lk = "up"
        <5>1. About(e, k) /\ e.change = x /\ Longer(V, W, e)
          BY <1>3, <1>5, <3>3, <4>2
        <5>2. D \subseteq D \cup {x}
          OBVIOUS
        <5>3. KeyInv(V, k, Append(l, x), v, D, o, lk, x, t)
          BY <1>2, <3>1, <4>1, <5>1, <5>2, ChangeTold
        <5> QED BY <1>1, <1>6, <3>3, <5>3
      <4>3. CASE lk # "up"
        <5>1. KeyInv(W, k, l, v, D, o, "down", n, t)
          BY <3>1 DEF KeyInv
        <5>2. KeyInv(W, k, Append(l, x), v, D, o, "down", x, t)
          BY <1>2, <4>1, <5>1, Changed
        <5>3. KeyInv(V, k, Append(l, x), v, D, o, lk, x, t)
          BY <1>5, <4>3, <5>2 DEF KeyInv
        <5> QED BY <1>1, <1>6, <3>3, <5>3
      <4> QED BY <4>2, <4>3
    <3> QED BY <3>2, <3>3
  <2>3. \A k \in Keys : Due(k)' = Due(k)
    BY <1>4, <1>7 DEF Due, Acked
  <2> QED BY <1>4, <1>5, <1>7, <1>9, <2>1, <2>2, <2>3 DEF Faithful
<1>11. Fresh'
  <2> SUFFICES ASSUME timeouts = 0, NEW j \in 1..Len(cs), cs[j] # PingBlock
               PROVE  cs[j].change <= x /\ cs[j].change \notin Vals(log'[cs[j].key])
    BY <1>4, <1>9 DEF Fresh
  <2>1. cs[j] \in [key : Keys, change : Nat \ {0}]
    <3>1. cs[j] \in Commands
      OBVIOUS
    <3> QED BY <3>1 DEF Commands
  <2>2. PICK k \in Keys, y \in Nat : k = cs[j].key /\ y = cs[j].change
    BY <2>1
  <2>3. y <= n /\ y \notin Vals(log[k])
    BY <1>1, <1>9, <2>2 DEF HubInv, Fresh
  <2>4. y <= x /\ y # x
    BY <1>2, <2>3
  <2>5. PICK l \in Seq(Int) : l = log[k]
    BY DEF HubInv, HubTypeOK
  <2>6. y \notin Vals(Append(l, x))
    BY <2>3, <2>4, <2>5 DEF Vals
  <2>7. log'[k] = Append(l, x) \/ log'[k] = l
    BY <1>6, <2>5
  <2> QED BY <2>2, <2>3, <2>4, <2>5, <2>6, <2>7
<1> QED BY <1>7, <1>8, <1>10, <1>11 DEF HubInv, Faithful

\* What is in two sequences one after the other
LEMMA InBoth ==
    ASSUME NEW a \in Seq(Blocks), NEW b \in Seq(Blocks)
    PROVE  /\ a \o b \in Seq(Blocks)
           /\ \A i \in 1..Len(a \o b) : \/ \E j \in 1..Len(a) : (a \o b)[i] = a[j]
                                        \/ \E j \in 1..Len(b) : (a \o b)[i] = b[j]
           /\ \A j \in 1..Len(a) : \E i \in 1..Len(a \o b) : (a \o b)[i] = a[j]
           /\ \A j \in 1..Len(b) : \E i \in 1..Len(a \o b) : (a \o b)[i] = b[j]
<1> HIDE DEF Blocks
<1>1. /\ a \o b \in Seq(Blocks) /\ Len(a \o b) = Len(a) + Len(b) /\ Len(a) \in Nat /\ Len(b) \in Nat
      /\ \A i \in 1..Len(a) : (a \o b)[i] = a[i]
      /\ \A i \in 1..Len(b) : (a \o b)[Len(a) + i] = b[i]
  OBVIOUS
<1> PICK V \in Seq(Blocks) : V = a \o b
  BY <1>1
<1>2. ASSUME NEW i \in 1..Len(V)
      PROVE  (\E j \in 1..Len(a) : V[i] = a[j]) \/ (\E j \in 1..Len(b) : V[i] = b[j])
  <2>1. CASE i <= Len(a)
    BY <1>1, <2>1
  <2>2. CASE i > Len(a)
    <3>1. i - Len(a) \in 1..Len(b) /\ i = Len(a) + (i - Len(a))
      BY <1>1, <2>2
    <3> QED BY <1>1, <3>1
  <2> QED BY <1>1, <2>1, <2>2
<1>3. ASSUME NEW j \in 1..Len(a) PROVE \E i \in 1..Len(V) : V[i] = a[j]
  BY <1>1
<1>4. ASSUME NEW j \in 1..Len(b) PROVE \E i \in 1..Len(V) : V[i] = b[j]
  <2>1. Len(a) + j \in 1..Len(V)
    BY <1>1
  <2> QED BY <1>1, <2>1
<1> QED BY <1>2, <1>3, <1>4

\* The preamble tells every entry once, as the hub has it.
LEMMA Preamble ==
    ASSUME HubInv, Connect
    PROVE  /\ toHubClient' \in Seq(Blocks)
           /\ \A i \in 1..Len(toHubClient') : toHubClient'[i].type = "entry" =>
                 toHubClient'[i].change = Now(toHubClient'[i].key)
           /\ \A k \in Keys : \E i \in 1..Len(toHubClient') :
                 toHubClient'[i].type = "entry" /\ toHubClient'[i].key = k
<1>1. PICK order \in Orders, end \in {<<>>, <<EndPrelude>>} :
         toHubClient' = <<DeviceBlock>> \o [i \in DOMAIN order |-> EntryBlock(order[i], Now(order[i]))] \o end
  BY DEF Connect
<1>2. Cardinality(Keys) \in Nat
  BY VideohubAssumption, FS_CardinalityType
<1>3. PICK n \in Nat : n = Cardinality(Keys)
  BY <1>2
<1>4. order \in [1..n -> Keys] /\ \A k \in Keys : \E i \in 1..n : order[i] = k
  BY <1>3 DEF Orders
<1>5. \A k \in Keys : Now(k) \in Int
  BY DEF HubInv, HubTypeOK, Now
<1>6. \A k \in Keys, c \in Int : EntryBlock(k, c) \in Blocks /\ EntryBlock(k, c).type = "entry"
                                 /\ EntryBlock(k, c).key = k /\ EntryBlock(k, c).change = c
  BY DEF EntryBlock, Blocks
<1>8. DeviceBlock \in Blocks /\ DeviceBlock.type = "device" /\ EndPrelude \in Blocks /\ EndPrelude.type = "end"
  BY DEF DeviceBlock, EndPrelude, Blocks
<1> HIDE DEF Blocks, EntryBlock, DeviceBlock, EndPrelude, Now
<1>9. PICK D \in Seq(Blocks) :
         /\ D = [i \in DOMAIN order |-> EntryBlock(order[i], Now(order[i]))]
         /\ Len(D) = n /\ \A i \in 1..n : D[i] = EntryBlock(order[i], Now(order[i]))
  <2>1. [i \in 1..n |-> EntryBlock(order[i], Now(order[i]))] \in Seq(Blocks)
    BY <1>4, <1>5, <1>6
  <2>2. DOMAIN order = 1..n
    BY <1>4
  <2>3. PICK D : D = [i \in 1..n |-> EntryBlock(order[i], Now(order[i]))]
    OBVIOUS
  <2>4. D \in Seq(Blocks) /\ D = [i \in DOMAIN order |-> EntryBlock(order[i], Now(order[i]))]
    BY <2>1, <2>2, <2>3
  <2>5. DOMAIN D = 1..n /\ \A i \in 1..n : D[i] = EntryBlock(order[i], Now(order[i]))
    BY <2>3
  <2>6. Len(D) = n
    BY <2>4, <2>5
  <2> QED BY <2>4, <2>5, <2>6
<1>10. PICK A \in Seq(Blocks) : A = <<DeviceBlock>> /\ Len(A) = 1 /\ A[1] = DeviceBlock
  <2>1. <<DeviceBlock>> \in Seq(Blocks) /\ Len(<<DeviceBlock>>) = 1 /\ <<DeviceBlock>>[1] = DeviceBlock
    BY <1>8
  <2> QED BY <2>1
<1>11. PICK E \in Seq(Blocks) : E = end /\ \A i \in 1..Len(E) : E[i] = EndPrelude
  <2>1. <<EndPrelude>> \in Seq(Blocks) /\ \A i \in 1..Len(<<EndPrelude>>) : <<EndPrelude>>[i] = EndPrelude
    BY <1>8
  <2>2. <<>> \in Seq(Blocks) /\ \A i \in 1..Len(<<>>) : <<>>[i] = EndPrelude
    OBVIOUS
  <2>3. end \in Seq(Blocks)
    BY <2>1, <2>2
  <2>4. \A i \in 1..Len(end) : end[i] = EndPrelude
    <3>1. CASE end = <<>>
      BY <3>1
    <3>2. CASE end = <<EndPrelude>>
      BY <2>1, <3>2
    <3> QED BY <3>1, <3>2
  <2> QED BY <2>3, <2>4
<1>12. PICK B \in Seq(Blocks) :
          /\ B = A \o D
          /\ \A i \in 1..Len(B) : (\E j \in 1..Len(A) : B[i] = A[j]) \/ (\E j \in 1..Len(D) : B[i] = D[j])
          /\ \A j \in 1..Len(D) : \E i \in 1..Len(B) : B[i] = D[j]
  <2>1. PICK B : B = A \o D
    OBVIOUS
  <2> QED BY <2>1, InBoth, ZenonT(30)
<1>13. PICK V \in Seq(Blocks) :
          /\ V = B \o E /\ V = toHubClient'
          /\ \A i \in 1..Len(V) : (\E j \in 1..Len(B) : V[i] = B[j]) \/ (\E j \in 1..Len(E) : V[i] = E[j])
          /\ \A j \in 1..Len(B) : \E i \in 1..Len(V) : V[i] = B[j]
  <2>1. PICK V : V = B \o E
    OBVIOUS
  <2>2. V = toHubClient'
    BY <1>1, <1>9, <1>10, <1>11, <1>12, <2>1
  <2>3. /\ V \in Seq(Blocks)
        /\ \A i \in 1..Len(V) : (\E j \in 1..Len(B) : V[i] = B[j]) \/ (\E j \in 1..Len(E) : V[i] = E[j])
        /\ \A j \in 1..Len(B) : \E i \in 1..Len(V) : V[i] = B[j]
    <3>1. /\ B \o E \in Seq(Blocks)
          /\ \A i \in 1..Len(B \o E) : \/ \E j \in 1..Len(B) : (B \o E)[i] = B[j]
                                       \/ \E j \in 1..Len(E) : (B \o E)[i] = E[j]
          /\ \A j \in 1..Len(B) : \E i \in 1..Len(B \o E) : (B \o E)[i] = B[j]
      BY InBoth
    <3> QED BY <2>1, <3>1, Zenon
  <2> QED BY <2>1, <2>2, <2>3
<1>14. \A i \in 1..Len(V) : V[i] \in {DeviceBlock, EndPrelude} \/ \E j \in 1..n : V[i] = D[j]
  BY <1>9, <1>10, <1>11, <1>12, <1>13
<1>15. \A j \in 1..n : \E i \in 1..Len(V) : V[i] = D[j]
  <2> TAKE j \in 1..n
  <2>1. PICK i \in 1..Len(B) : B[i] = D[j]
    BY <1>9, <1>12
  <2> QED BY <1>13, <2>1
<1>16. \A j \in 1..n : /\ D[j].type = "entry" /\ D[j].key = order[j] /\ D[j].key \in Keys
                       /\ D[j].change = Now(D[j].key)
  BY <1>4, <1>5, <1>6, <1>9
<1>17. ASSUME NEW i \in 1..Len(V)
       PROVE V[i].type = "entry" => V[i].change = Now(V[i].key)
  <2>1. CASE V[i] \in {DeviceBlock, EndPrelude}
    BY <1>8, <2>1
  <2>2. CASE \E j \in 1..n : V[i] = D[j]
    BY <1>16, <2>2
  <2> QED BY <1>14, <2>1, <2>2
<1>18. ASSUME NEW k \in Keys PROVE \E i \in 1..Len(V) : V[i].type = "entry" /\ V[i].key = k
  <2>1. PICK j \in 1..n : order[j] = k
    BY <1>4
  <2>2. PICK i \in 1..Len(V) : V[i] = D[j]
    BY <1>15
  <2> QED BY <1>16, <2>1, <2>2
<1> QED BY <1>13, <1>17, <1>18

\* The next connect: what the client knows is put right by the preamble.
LEMMA ConnectStep == ASSUME HubInv, Connect PROVE HubInv'
<1>1. /\ link' = "up" /\ commands' = <<>> /\ answers' = <<>> /\ pc' = "preamble" /\ gaveUp' = FALSE
      /\ log' = log /\ view' = view /\ overtaken' = overtaken /\ pending' = pending
      /\ changes' = changes /\ timeouts' = timeouts
  BY DEF Connect, entries
<1>2. PICK V \in Seq(Blocks) :
         /\ V = toHubClient'
         /\ \A i \in 1..Len(V) : V[i].type = "entry" => V[i].change = Now(V[i].key)
         /\ \A k \in Keys : \E i \in 1..Len(V) : V[i].type = "entry" /\ V[i].key = k
  BY Preamble
<1>3. HubTypeOK'
  <2>1. <<>> \in Seq(Commands)
    <3> HIDE DEF Commands
    <3> QED OBVIOUS
  <2> HIDE DEF Blocks, Commands
  <2> QED BY <1>1, <1>2, <2>1 DEF HubInv, HubTypeOK
<1>4. Fresh'
  BY <1>1 DEF Fresh
<1>5. OneAnswer(<<>>, <<>>, pc', pending')
  BY DEF OneAnswer
<1>6. ASSUME NEW k \in Keys
      PROVE  KeyInv(V, k, log[k], view[k], {}, k \in overtaken, "up", changes, timeouts = 0)
  <2> PICK v, D, o, t, n : v = view[k] /\ D = Due(k) /\ o = (k \in overtaken) /\ t = (timeouts = 0) /\ n = changes
    OBVIOUS
  <2> PICK l \in Seq(Int) : l = log[k] /\ Len(l) >= 1
    BY DEF HubInv, HubTypeOK
  <2>1. t => (v # Unset => v \in Vals(l)) /\ Numbered(l, n)
    <3>1. t => KeyInv(toHubClient, k, l, v, D, o, link, n, t)
      BY DEF HubInv, HubTypeOK, Faithful
    <3> QED BY <3>1 DEF KeyInv
  <2>2. \A i \in 1..Len(V) : About(V[i], k) => V[i].change = l[Len(l)]
    BY <1>2 DEF About, Now
  <2>3. \E i \in 1..Len(V) : About(V[i], k)
    BY <1>2 DEF About
  <2>4. KeyInv(V, k, l, v, {}, o, "up", n, t)
    BY <2>1, <2>2, <2>3, Dumped
  <2> QED BY <2>4
<1>7. \A k \in Keys : Due(k)' = {}
  BY <1>1 DEF Due, Acked
<1> QED BY <1>1, <1>2, <1>3, <1>4, <1>5, <1>6, <1>7 DEF HubInv, Faithful

---------------------------------------------------------------------------
(* The invariant *)

\* Nothing is on its way before the first connect.
LEMMA HubInitially == HubInit => HubInv
<1> SUFFICES ASSUME HubInit PROVE HubInv
  OBVIOUS
<1>1. <<0>> \in Seq(Int) /\ Len(<<0>>) = 1 /\ <<0>>[1] = 0 /\ Unset \in Int
  BY DEF Unset
<1>2. /\ log = [k \in Keys |-> <<0>>] /\ link = "down" /\ commands = <<>> /\ toHubClient = <<>>
      /\ answers = <<>>
      /\ pc = "off" /\ view = [k \in Keys |-> Unset] /\ gaveUp = FALSE
      /\ pending \in [key : Keys, change : {0}] /\ changes = 0 /\ timeouts = 0
  BY DEF HubInit
<1>3. HubTypeOK
  <2>1. commands \in Seq(Commands) /\ toHubClient \in Seq(Blocks)
    <3> HIDE DEF Commands, Blocks
    <3> QED BY <1>2
  <2>2. log \in [Keys -> Seq(Int)] /\ \A k \in Keys : Len(log[k]) >= 1
    BY <1>1, <1>2
  <2>3. view \in [Keys -> Int] /\ pending \in [key : Keys, change : Nat]
    BY <1>1, <1>2
  <2> QED BY <1>2, <2>1, <2>2, <2>3 DEF HubTypeOK
<1>4. Fresh
  BY <1>2 DEF Fresh
<1>5. OneAnswer(answers, commands, pc, pending)
  BY <1>2 DEF OneAnswer
<1>6. ASSUME NEW k \in Keys
      PROVE  KeyInv(toHubClient, k, log[k], view[k], Due(k), k \in overtaken, link, changes, timeouts = 0)
  <2>1. PICK l, v, o, t : l = <<0>> /\ l = log[k] /\ v = Unset /\ v = view[k] /\ o = (k \in overtaken)
                          /\ t = (timeouts = 0)
    BY <1>2
  <2>2. Numbered(l, 0)
    BY <1>1, <2>1 DEF Numbered
  <2>3. KeyInv(<<>>, k, l, v, {}, o, "down", 0, t)
    BY <2>1, <2>2, Cleared
  <2>4. Due(k) = {}
    BY <1>2, NothingDue
  <2> QED BY <1>2, <2>1, <2>3, <2>4
<1> QED BY <1>3, <1>4, <1>5, <1>6 DEF HubInv, Faithful

\* Every push that the client takes is handled so (ReadPreamble, PushWhileWaiting, ...).
PushSteps == ReadPreamble \/ (TakesPush /\ pc \in {"await", "ping", "drain"} /\ pc' = pc)

\* What a client that takes a push or an answer does is one of three things.
LEMMA Cases ==
    PushWhileWaiting \/ Refused \/ PushWhilePinging \/ PingAnswered \/ DrainBlock
        => \/ PushSteps
           \/ /\ TakesAnswer({"ack", "nak"}) /\ UNCHANGED entries
              /\ pc # "off" /\ pc' \in {"idle", "ping", "drain"} /\ (pc' = pc \/ pc' \notin Waiting)
BY DEF PushWhileWaiting, Refused, PushWhilePinging, PingAnswered, DrainBlock, PushSteps, TakesAnswer, Waiting

\* A push is shown; where that takes an entry back, the push of what was shown is to come.
LEMMA PushStepsKeep ==
    ASSUME HubInv, PushSteps
    PROVE  /\ HubInv'
           /\ timeouts = 0 => \A k \in Keys : Before(log[k], view'[k], view[k]) =>
                  \E j \in DOMAIN toHubClient' : toHubClient'[j] = EntryBlock(k, view[k])
<1>1. CASE ReadPreamble
  <2>1. TakesPush /\ pc = "preamble" /\ pc' \in {"preamble", "idle"}
    BY <1>1 DEF ReadPreamble
  <2>2. pc \notin Waiting /\ pc' \notin Waiting
    BY <2>1 DEF Waiting
  <2> QED BY <2>1, <2>2, PushStep
<1>2. CASE TakesPush /\ pc \in {"await", "ping", "drain"} /\ pc' = pc
  BY <1>2, PushStep
<1> QED BY <1>1, <1>2 DEF PushSteps

\* No step of the hub, of another panel or of the client breaks it.
LEMMA HubSteps == HubInv /\ [HubNext]_hubVars => HubInv'
<1> SUFFICES ASSUME HubInv, [HubNext]_hubVars PROVE HubInv'
  OBVIOUS
<1> HIDE DEF HubInv
<1>1. CASE UNCHANGED hubVars
  BY <1>1 DEF hubVars, hub, hubClient, onTheWire, entries, counts, HubInv, HubTypeOK, Faithful, Fresh,
              Due, Acked
<1>2. CASE HubNext
  <2>1. CASE HubAccepts
    BY <2>1, AcceptStep
  <2>2. CASE HubRefuses \/ HubAnswersPing
    BY <2>2, BareAnswerStep
  <2>3. CASE HubCloses
    BY <2>3, HubClosesStep
  <2>4. ASSUME NEW k \in Keys, OtherPanelSets(k) PROVE HubInv'
    BY <2>4, OtherStep
  <2>5. CASE Ping \/ \E k \in Keys : Send(k)
    BY <2>5, AskStep
  <2>6. CASE Connect
    BY <2>6, ConnectStep
  <2>7. CASE ConnectFails \/ Close \/ PreambleFails
    BY <2>7, CloseStep
  <2>8. CASE ReadPreamble
    BY <2>8, PushStepsKeep DEF PushSteps
  <2>9. CASE PushWhileWaiting \/ Refused \/ PushWhilePinging \/ PingAnswered \/ DrainBlock
    <3>1. CASE PushSteps
      BY <3>1, PushStepsKeep
    <3>2. CASE /\ TakesAnswer({"ack", "nak"}) /\ UNCHANGED entries
               /\ pc # "off" /\ pc' \in {"idle", "ping", "drain"} /\ (pc' = pc \/ pc' \notin Waiting)
      BY <3>2, OtherAnswerStep
    <3> QED BY <2>9, <3>1, <3>2, Cases
  <2>10. CASE Acknowledged
    BY <2>10, AcknowledgedStep
  <2>11. CASE PreambleQuiet \/ StateCall \/ DrainQuiet \/ ClosedByHub
    BY <2>11, QuietStep
  <2>12. CASE TimedOut
    BY <2>12, TimedOutStep
  <2> QED BY <1>2, <2>1, <2>2, <2>3, <2>4, <2>5, <2>6, <2>7, <2>8, <2>9, <2>10, <2>11, <2>12 DEF HubNext
<1> QED BY <1>1, <1>2

\* It holds in every state.
LEMMA HubInvHolds == HubSpec => []HubInv
BY HubInitially, HubSteps, PTL DEF HubSpec

\* The invariant is enough.
LEMMA HubInvSuffices == HubInv => ShowsWhatTheHubHad /\ CatchesUp
<1> SUFFICES ASSUME HubInv PROVE ShowsWhatTheHubHad /\ CatchesUp
  OBVIOUS
<1>1. ASSUME timeouts = 0, NEW k \in Keys, view[k] # Unset PROVE view[k] \in Shown(k)
  <2>1. ~gaveUp
    BY <1>1 DEF HubInv, HubTypeOK
  <2>2. view[k] \in Vals(log[k])
    BY <1>1, <2>1 DEF HubInv, Faithful, KeyInv
  <2> QED BY <2>2 DEF Vals, Shown
<1>2. ASSUME ~gaveUp, link = "up", toHubClient = <<>>, NEW k \in Keys
      PROVE  view[k] = Now(k) \/ k \in overtaken
  <2>1. Latest(toHubClient, k, log[k], view[k], k \in overtaken)
    BY <1>2 DEF HubInv, Faithful, KeyInv
  <2> QED BY <1>2, <2>1 DEF Latest, Now
<1> QED BY <1>1, <1>2 DEF ShowsWhatTheHubHad, CatchesUp

\* Only an ACK takes an entry back for good.
LEMMA HubStepForward ==
    ASSUME HubInv, [HubNext]_hubVars
    PROVE  timeouts = 0 =>
              \A k \in Keys : Older(k, view'[k], view[k]) =>
                  Acknowledged \/ \E i \in DOMAIN toHubClient' : toHubClient'[i] = EntryBlock(k, view[k])
<1> SUFFICES ASSUME timeouts = 0, NEW k \in Keys, Older(k, view'[k], view[k]), ~Acknowledged
             PROVE  \E i \in DOMAIN toHubClient' : toHubClient'[i] = EntryBlock(k, view[k])
  OBVIOUS
<1>1. view' = view \/ PushSteps
  <2>1. CASE UNCHANGED hubVars
    BY <2>1 DEF hubVars, hubClient, entries
  <2>2. CASE HubAccepts \/ HubRefuses \/ HubAnswersPing \/ HubCloses
    BY <2>2 DEF HubAccepts, HubRefuses, HubAnswersPing, HubCloses, hubClient, entries
  <2>3. CASE \E key \in Keys : OtherPanelSets(key) \/ Send(key)
    BY <2>3 DEF OtherPanelSets, Send, hubClient, entries
  <2>4. CASE Connect \/ ConnectFails \/ Close \/ PreambleQuiet \/ PreambleFails \/ TimedOut \/ ClosedByHub
    BY <2>4 DEF Connect, ConnectFails, Close, PreambleQuiet, PreambleFails, TimedOut, ClosedByHub, entries
  <2>5. CASE Ping \/ StateCall \/ DrainQuiet
    BY <2>5 DEF Ping, StateCall, DrainQuiet, entries
  <2>6. CASE PushWhileWaiting \/ Refused \/ PushWhilePinging \/ PingAnswered \/ DrainBlock
    BY <2>6, Cases DEF entries
  <2>7. CASE ReadPreamble
    BY <2>7 DEF PushSteps
  <2> QED BY <2>1, <2>2, <2>3, <2>4, <2>5, <2>6, <2>7 DEF HubNext
<1>2. CASE PushSteps
  <2>1. Before(log[k], view'[k], view[k])
    BY DEF Older, Before
  <2> QED BY <1>2, <2>1, PushStepsKeep
<1>3. CASE view' = view
  <2>1. ~gaveUp
    BY DEF HubInv, HubTypeOK
  <2>2. Numbered(log[k], changes)
    BY <2>1 DEF HubInv, Faithful, KeyInv
  <2> QED BY <1>3, <2>2 DEF Numbered, Older
<1> QED BY <1>1, <1>2, <1>3

\* As long as no command was given up on, an entry that state() shows is one the hub had: the
\* optimistic entry of route() and of the label setters is never one it did not take.
THEOREM ShowsTheHub == HubSpec => []ShowsWhatTheHubHad
<1>1. HubInv => ShowsWhatTheHubHad
  BY HubInvSuffices
<1> QED BY <1>1, HubInvHolds, PTL

\* With no command given up on in this session, nothing on its way and nobody waiting, state()
\* shows what the hub has, but for the entries that an ACK put back to our own, older change and
\* that were not pushed since.
THEOREM QuietMeansCurrent == HubSpec => []CatchesUp
<1>1. HubInv => CatchesUp
  BY HubInvSuffices
<1> QED BY <1>1, HubInvHolds, PTL

\* A push takes an entry back to an older one only where our ACK came early, and then the push of
\* what was shown is still to come: only an ACK takes an entry back for longer.
THEOREM NeverBack == HubSpec => NeverShowsOlder
<1>1. HubInv /\ [HubNext]_hubVars =>
        [timeouts = 0 =>
            \A k \in Keys : Older(k, view'[k], view[k]) =>
                Acknowledged \/ \E i \in DOMAIN toHubClient' : toHubClient'[i] = EntryBlock(k, view[k])]_hubVars
  BY HubStepForward
<1> QED BY <1>1, HubInvHolds, PTL DEF HubSpec, NeverShowsOlder
=============================================================================
