------------------------- MODULE TransferLaneProofs -------------------------
(***************************************************************************)
(* Proofs about the transfer lane (module TransferLane): its type, that    *)
(* what is under way is at the head of its queue, that what a caller is    *)
(* told done has been carried out, and that the lock of the still store    *)
(* comes back, for any tasks and any bounds.                               *)
(*                                                                         *)
(* A handler is an operator from the lane before to the lane after, so its *)
(* part of the proof speaks of two lanes and of no step: Moves(l, h, may)  *)
(* says where a handler has got to from l.  It has asked for one transfer  *)
(* at the most, under a new number, or under l's own if that is free.  The *)
(* other part, Wire, is about the numbers: of the lane's own number at     *)
(* most one thing is on its way, its request, its transfer in the engine   *)
(* or its end, and nothing is while the transfer waits to be asked for     *)
(* again.  So an FTDC that names the lane's number is of the transfer      *)
(* under way, and that has been carried out.                               *)
(*                                                                         *)
(* The lock is a second invariant on top of the first.  Of one handler,    *)
(* Settles(p, h) says that a lock which the lane p holds is given back in  *)
(* h, or that h has a transfer or a drain that ends in giving it back;     *)
(* Heeds(p, h) says it of a lock that p minded already.  Of the wires,     *)
(* Kept says that a lock the switcher has given us is in an LKOB that has  *)
(* not come yet, minded by the lane, or in an unlock on its way.           *)
(***************************************************************************)
EXTENDS TransferLane, SequenceTheorems, WellFoundedInduction, TLAPS

\* What goes to the switcher and comes from it
ToMsg == [type : {"LOCK", "PLCK", "unlock"}] \cup [type : {"request"}, task : Tasks \ Clears, tid : Nat]
         \cup [type : {"data"}, tid : Nat] \cup [type : {"CSTL"}, task : Clears]
News == [type : {"LKST"}, taken : BOOLEAN]
FromMsg == [type : {"LKOB", "FTCD"}] \cup News \cup [type : {"FTDa", "FTDC"}, tid : Nat]
           \cup [type : {"FTDE"}, tid : Nat, status : {1, 2, 5, 6}]

\* LaneType inside a handler, too
LaneT ==
    [queue : [Stores -> Seq(Tasks)], locks : BOOLEAN, asked : BOOLEAN, foreign : BOOLEAN,
     yield : {"no", "quiet", "announced"}, transfer : Tasks \cup {None}, tid : Nat, requested : BOOLEAN,
     tries : [Tasks -> 0..Attempts], retry : BOOLEAN, started : BOOLEAN, dataSent : BOOLEAN,
     draining : Nat, cleared : SUBSET Clears, due : SUBSET Clocks,
     out : Seq(ToMsg), wants : SUBSET {"try", "other"},
     outcome : [Tasks -> {"new", "queued", "done", "failed", "gone"}]]

\* Only a clock that runs runs out.
DueOK(l) ==
    /\ "yield" \in l.due => l.yield # "no"
    /\ "asked" \in l.due => l.asked
    /\ "try" \in l.due => l.retry
    /\ "drain" \in l.due => l.draining # 0

Sorted(q) == \A s \in Stores : \A i \in 1..Len(q[s]) : Store(q[s][i]) = s

\* What is under way is at the head of its queue, and neither waits to be tried again nor shares
\* the engine with a drain.
CoreOK(l) ==
    /\ l.draining <= l.tid /\ Sorted(l.queue)
    /\ l.transfer \notin Clears /\ (l.transfer # None => l.tid # 0)
    /\ l.requested => /\ l.transfer # None /\ l.queue[Store(l.transfer)] # <<>>
                      /\ l.queue[Store(l.transfer)][1] = l.transfer
                      /\ l.draining = 0 /\ ~l.retry
    /\ l.retry => l.tid # 0

LaneOK(l) == l \in LaneT /\ DueOK(l) /\ CoreOK(l)

\* The transfer was refused, and is not asked for again yet.
Resting(l) == l.retry \/ (l.transfer # None /\ ~l.requested)

NoAsk(o) == \A i \in 1..Len(o) : o[i].type # "request"
OneAsk(o, t, id) ==
    /\ \A i \in 1..Len(o) : o[i].type = "request" => o[i] = Request(t, id)
    /\ \A i, j \in 1..Len(o) : o[i].type = "request" /\ o[j].type = "request" => i = j

\* Where a handler has got from the lane l: nothing new is under way, or one transfer is asked for.
\* It has a number of its own; l's is used again only where it may be.
Moves(l, h, may) ==
    /\ LaneOK(h)
    /\ \A t \in Tasks \ Clears : h.outcome[t] = "done" => l.outcome[t] = "done"
    /\ \/ /\ NoAsk(h.out) /\ h.tid = l.tid /\ h.transfer \in {l.transfer, None}
          /\ Resting(h) => may
       \/ /\ OneAsk(h.out, h.transfer, h.tid) /\ h.requested
          /\ h.tid = l.tid + 1 \/ (h.tid = l.tid /\ may)

\* Whether the number of l may be used again
Allowed(retry, l, may) == retry => may /\ l.tid # 0

Below == OpToRel(<, Nat)

\* There is a first place.
LEMMA FirstPlace ==
    ASSUME NEW S, NEW q \in Seq(S), NEW e, \E i \in 1..Len(q) : q[i] = e
    PROVE  \E i \in 1..Len(q) : q[i] = e /\ \A j \in 1..Len(q) : q[j] = e => i <= j
<1>1. PICK I : I = {i \in 1..Len(q) : q[i] = e}
  OBVIOUS
<1>2. I \subseteq Nat /\ I # {}
  BY <1>1
<1>3. IsWellFoundedOn(Below, Nat)
  BY NatLessThanWellFounded DEF Below
<1>4. \E m \in I : \A y \in I : <<y, m>> \notin Below
  BY <1>2, <1>3, WFMin, Zenon
<1>5. \A m, y \in I : y < m => <<y, m>> \in Below
  BY <1>2 DEF Below, OpToRel
<1>6. PICK m \in I : \A y \in I : <<y, m>> \notin Below
  BY <1>4
<1>7. \A y \in I : m <= y
  <2>1. \A y \in I : ~(y < m)
    BY <1>5, <1>6
  <2> QED BY <1>2, <2>1
<1> QED BY <1>1, <1>7

\* One element of a sequence is taken out.
LEMMA OneOut ==
    ASSUME NEW S, NEW q \in Seq(S), NEW i \in 1..Len(q)
    PROVE  /\ RemoveAt(q, i) \in Seq(S) /\ Len(RemoveAt(q, i)) = Len(q) - 1
           /\ \A j \in 1..Len(q)-1 : RemoveAt(q, i)[j] = IF j < i THEN q[j] ELSE q[j + 1]
<1>1. /\ SubSeq(q, 1, i-1) \in Seq(S) /\ Len(SubSeq(q, 1, i-1)) = i - 1
      /\ \A j \in 1..i-1 : SubSeq(q, 1, i-1)[j] = q[j]
  OBVIOUS
<1>2. /\ SubSeq(q, i+1, Len(q)) \in Seq(S) /\ Len(SubSeq(q, i+1, Len(q))) = Len(q) - i
      /\ \A j \in 1..Len(q)-i : SubSeq(q, i+1, Len(q))[j] = q[i + j]
  OBVIOUS
<1>3. PICK a, b : a = SubSeq(q, 1, i-1) /\ b = SubSeq(q, i+1, Len(q))
  OBVIOUS
<1>4. RemoveAt(q, i) = a \o b /\ a \in Seq(S) /\ b \in Seq(S) /\ Len(a) = i - 1 /\ Len(b) = Len(q) - i
  BY <1>1, <1>2, <1>3 DEF RemoveAt
<1>5. a \o b \in Seq(S) /\ Len(a \o b) = Len(a) + Len(b) /\ Len(q) \in Nat
  <2>1. a \o b \in Seq(S) /\ Len(a \o b) = Len(a) + Len(b)
    BY <1>4, ConcatProperties
  <2>2. Len(q) \in Nat
    BY LenProperties
  <2> QED BY <2>1, <2>2
<1>6. \A j \in 1..Len(a)+Len(b) : (a \o b)[j] = IF j <= Len(a) THEN a[j] ELSE b[j - Len(a)]
  BY <1>4, ConcatProperties
<1>7. ASSUME NEW j \in 1..Len(q)-1 PROVE (a \o b)[j] = IF j < i THEN q[j] ELSE q[j + 1]
  <2>1. CASE j < i
    <3>1. j \in 1..Len(a)+Len(b) /\ j <= Len(a) /\ j \in 1..i-1
      BY <1>4, <1>5, <2>1
    <3> QED BY <1>1, <1>3, <1>6, <2>1, <3>1
  <2>2. CASE j >= i
    <3>1. j - (i - 1) \in 1..Len(q)-i /\ i + (j - (i - 1)) = j + 1 /\ j \in 1..Len(a)+Len(b)
      BY <1>4, <1>5, <2>2
    <3>2. b[j - (i - 1)] = q[j + 1]
      BY <1>2, <1>3, <3>1
    <3> QED BY <1>4, <1>5, <1>6, <2>2, <3>1, <3>2
  <2>3. i \in Int /\ j \in Int
    BY <1>5
  <2>4. j < i \/ j >= i
    BY <2>3
  <2> QED BY <2>1, <2>2, <2>4
<1> QED BY <1>4, <1>5, <1>7

\* dequeue_clear leaves the others in their order.
LEMMA Removed ==
    ASSUME NEW S, NEW q \in Seq(S), NEW e
    PROVE  /\ RemoveFirst(q, e) \in Seq(S)
           /\ \A j \in 1..Len(RemoveFirst(q, e)) : \E k \in 1..Len(q) : RemoveFirst(q, e)[j] = q[k]
           /\ q # <<>> /\ q[1] # e => RemoveFirst(q, e) # <<>> /\ RemoveFirst(q, e)[1] = q[1]
<1>1. CASE \A i \in 1..Len(q) : q[i] # e
  <2>1. RemoveFirst(q, e) = q
    BY <1>1 DEF RemoveFirst
  <2> QED BY <2>1
<1>2. CASE \E i \in 1..Len(q) : q[i] = e
  <2>1. PICK i \in 1..Len(q) : q[i] = e /\ \A j \in 1..Len(q) : q[j] = e => i <= j
    BY <1>2, FirstPlace
  <2> DEFINE I == {j \in 1..Len(q) : q[j] = e}
  <2>2. RemoveFirst(q, e) = IF \E k \in 1..Len(q) : q[k] = e
                            THEN RemoveAt(q, IF I # {} THEN Min(I) ELSE 0) ELSE q
    BY DEF RemoveFirst, SelectInSeq
  <2>3. Min(I) = i /\ I # {}
    BY <2>1 DEF Min
  <2>4. RemoveFirst(q, e) = RemoveAt(q, i)
    BY <1>2, <2>2, <2>3
  <2>5. PICK r \in Seq(S) :
           /\ r = RemoveAt(q, i) /\ Len(r) = Len(q) - 1
           /\ \A j \in 1..Len(q)-1 : r[j] = IF j < i THEN q[j] ELSE q[j + 1]
    BY OneOut
  <2>6. ASSUME NEW j \in 1..Len(r) PROVE \E k \in 1..Len(q) : r[j] = q[k]
    BY <2>5
  <2>7. ASSUME q # <<>>, q[1] # e PROVE r # <<>> /\ r[1] = q[1]
    BY <2>1, <2>5, <2>7
  <2> QED BY <2>4, <2>5, <2>6, <2>7
<1> QED BY <1>1, <1>2

\* A store is one of the two.
LEMMA StoreIs == \A t : Store(t) \in Stores /\ (t \in Clears \cup {None} => Store(t) = "still")
BY LaneAssumption DEF Store, Stores, Tasks

\* What a handler does beside the transfers changes nothing of them.
SameCore(p, q) ==
    /\ q.queue = p.queue /\ q.transfer = p.transfer /\ q.tid = p.tid /\ q.requested = p.requested
    /\ q.retry = p.retry /\ q.draining = p.draining /\ q.outcome = p.outcome

\* Such a step keeps where the lane has got to.
LEMMA Beside ==
    ASSUME NEW l, NEW p, NEW may, Moves(l, p, may), NEW q \in LaneT, SameCore(p, q), DueOK(q), q.out = p.out
    PROVE  Moves(l, q, may)
<1>1. CoreOK(q)
  BY DEF Moves, Resting, LaneOK, CoreOK, SameCore
<1> QED BY <1>1 DEF Moves, Resting, LaneOK, SameCore

\* Another packet goes out, too.
LEMMA SaysMore ==
    ASSUME NEW l, NEW p, NEW may, Moves(l, p, may), NEW q \in LaneT, SameCore(p, q), DueOK(q),
           NEW m \in ToMsg, m.type # "request", q.out = Append(p.out, m)
    PROVE  Moves(l, q, may)
<1>1. CoreOK(q)
  BY DEF Moves, Resting, LaneOK, CoreOK, SameCore
<1>2. p.out \in Seq(ToMsg)
  BY DEF Moves, Resting, LaneOK, LaneT
<1>3. \A i \in 1..Len(q.out) : q.out[i].type = "request" => i \in 1..Len(p.out) /\ q.out[i] = p.out[i]
  <2> HIDE DEF ToMsg
  <2> QED BY <1>2
<1>4. NoAsk(p.out) => NoAsk(q.out)
  BY <1>3 DEF NoAsk
<1>5. \A t, id : OneAsk(p.out, t, id) => OneAsk(q.out, t, id)
  BY <1>3 DEF OneAsk
<1> QED BY <1>1, <1>4, <1>5 DEF Moves, Resting, LaneOK, SameCore

\* The packets of a handler
LEMMA Packets ==
    /\ Unlock \in ToMsg /\ Unlock.type # "request"
    /\ \A t \in Tasks : Ask(t) \in ToMsg /\ Ask(t).type # "request"
    /\ \A t \in Clears : Clear(t) \in ToMsg /\ Clear(t).type # "request"
    /\ \A id \in Nat : Data(id) \in ToMsg /\ Data(id).type # "request"
    /\ \A t \in Tasks \ Clears, id \in Nat :
          /\ Request(t, id) \in ToMsg /\ Request(t, id).type = "request"
          /\ Request(t, id).task = t /\ Request(t, id).tid = id
BY DEF ToMsg, Unlock, Ask, Clear, Data, Request

\* Sends and Wants
LEMMA SendsIs ==
    ASSUME NEW p \in LaneT, NEW m \in ToMsg
    PROVE  /\ Sends(p, m) \in LaneT /\ SameCore(p, Sends(p, m)) /\ Sends(p, m).out = Append(p.out, m)
           /\ Sends(p, m).locks = p.locks /\ Sends(p, m).yield = p.yield /\ Sends(p, m).asked = p.asked
           /\ Sends(p, m).due = p.due /\ (DueOK(p) => DueOK(Sends(p, m)))
<1>1. p.out \in Seq(ToMsg)
  BY DEF LaneT
<1>2. Append(p.out, m) \in Seq(ToMsg)
  <2> HIDE DEF ToMsg
  <2> QED BY <1>1
<1> HIDE DEF ToMsg
<1> QED BY <1>2 DEF Sends, LaneT, SameCore, DueOK

\* A wake-up is asked for.
LEMMA WantsKeep ==
    ASSUME NEW l, NEW may, NEW p, Moves(l, p, may), NEW w \in {"try", "other"}
    PROVE  Moves(l, Wants(p, w), may)
<1>1. p \in LaneT /\ DueOK(p)
  BY DEF Moves, Resting, LaneOK
<1>2. Wants(p, w) \in LaneT /\ SameCore(p, Wants(p, w)) /\ DueOK(Wants(p, w)) /\ Wants(p, w).out = p.out
  <2> HIDE DEF ToMsg
  <2> QED BY <1>1, ZenonT(30) DEF LaneT, Wants, SameCore, DueOK
<1> QED BY <1>2, Beside

\* A packet that asks for no transfer goes out.
LEMMA SendsKeep ==
    ASSUME NEW l, NEW may, NEW p, Moves(l, p, may), NEW m \in ToMsg, m.type # "request"
    PROVE  Moves(l, Sends(p, m), may)
<1>1. p \in LaneT /\ DueOK(p)
  BY DEF Moves, Resting, LaneOK
<1> PICK q : q = Sends(p, m)
  OBVIOUS
<1>2. q \in LaneT /\ SameCore(p, q) /\ DueOK(q) /\ q.out = Append(p.out, m)
  BY <1>1, SendsIs
<1> QED BY <1>2, SaysMore

\* The store is left free a while.
LEMMA LeaveFreeKeeps ==
    ASSUME NEW l, NEW may, NEW p, Moves(l, p, may) PROVE Moves(l, LeaveFree(p), may)
<1>1. p \in LaneT /\ DueOK(p)
  BY DEF Moves, Resting, LaneOK
<1>2. LeaveFree(p) \in LaneT /\ SameCore(p, LeaveFree(p)) /\ DueOK(LeaveFree(p)) /\ LeaveFree(p).out = p.out
  <2> HIDE DEF ToMsg
  <2> QED BY <1>1 DEF LaneT, LeaveFree, SameCore, DueOK
<1> QED BY <1>2, Beside

\* An idle lane gives the lock back.
LEMMA CleanLocksKeeps ==
    ASSUME NEW l, NEW may, NEW p, Moves(l, p, may) PROVE Moves(l, CleanLocks(p), may)
BY Packets, SendsKeep DEF CleanLocks

\* The lock goes back.
LEMMA GiveLockBackIs ==
    ASSUME NEW p \in LaneT, DueOK(p)
    PROVE  /\ GiveLockBack(p) \in LaneT /\ SameCore(p, GiveLockBack(p)) /\ DueOK(GiveLockBack(p))
           /\ ~GiveLockBack(p).locks
           /\ GiveLockBack(p).out = p.out \/ GiveLockBack(p).out = Append(p.out, Unlock)
<1> HIDE DEF ToMsg
<1>1. PICK f : f = [p EXCEPT !.locks = FALSE]
  OBVIOUS
<1>2. f \in LaneT /\ SameCore(p, f) /\ DueOK(f) /\ f.out = p.out /\ ~f.locks
  BY <1>1 DEF LaneT, SameCore, DueOK
<1>3. PICK g : g = Sends(f, Unlock)
  OBVIOUS
<1>4. g \in LaneT /\ SameCore(f, g) /\ DueOK(g) /\ g.out = Append(p.out, Unlock) /\ ~g.locks
  <2>1. Unlock \in ToMsg
    BY Packets
  <2>2. g \in LaneT /\ SameCore(f, g) /\ g.out = Append(f.out, Unlock) /\ DueOK(g) /\ g.locks = f.locks
    BY <1>2, <1>3, <2>1, SendsIs
  <2> QED BY <1>2, <2>2
<1>5. PICK h : h = LeaveFree(g)
  OBVIOUS
<1>6. h \in LaneT /\ SameCore(g, h) /\ DueOK(h) /\ h.out = g.out /\ ~h.locks
  BY <1>4, <1>5 DEF LaneT, LeaveFree, SameCore, DueOK
<1>7. GiveLockBack(p) = IF p.locks THEN h ELSE p
  BY <1>1, <1>3, <1>5 DEF GiveLockBack
<1>8. SameCore(p, h) /\ SameCore(p, p)
  BY <1>2, <1>4, <1>6 DEF SameCore
<1>9. p.locks \in BOOLEAN
  BY DEF LaneT
<1> QED BY <1>4, <1>6, <1>7, <1>8, <1>9

\* The lock goes back, and nothing of the transfers is touched.
LEMMA GiveLockBackKeeps ==
    ASSUME NEW l, NEW may, NEW p, Moves(l, p, may) PROVE Moves(l, GiveLockBack(p), may)
<1>1. p \in LaneT /\ DueOK(p)
  BY DEF Moves, Resting, LaneOK
<1> PICK q : q = GiveLockBack(p)
  OBVIOUS
<1>2. /\ q \in LaneT /\ SameCore(p, q) /\ DueOK(q)
      /\ q.out = p.out \/ q.out = Append(p.out, Unlock)
  BY <1>1, GiveLockBackIs
<1> QED BY <1>2, Packets, Beside, SaysMore

\* Another client's turn is waited for, or the lock is asked for.
LEMMA AskForLockKeeps ==
    ASSUME NEW l, NEW may, NEW p, Moves(l, p, may), NEW t \in Tasks PROVE Moves(l, AskForLock(p, t), may)
<1> HIDE DEF ToMsg
<1>1. p \in LaneT /\ DueOK(p)
  BY DEF Moves, Resting, LaneOK
<1>2. PICK free : free = [p EXCEPT !.yield = "no", !.due = @ \ {"yield"}]
  OBVIOUS
<1>3. free \in LaneT /\ SameCore(p, free) /\ DueOK(free) /\ free.out = p.out
  BY <1>1, <1>2 DEF LaneT, SameCore, DueOK
<1>4. Moves(l, free, may)
  BY <1>3, Beside
<1>5. PICK again : again = [free EXCEPT !.asked = TRUE, !.due = @ \ {"asked"}]
  OBVIOUS
<1>6. again \in LaneT /\ SameCore(free, again) /\ DueOK(again) /\ again.out = free.out
  BY <1>3, <1>5 DEF LaneT, SameCore, DueOK
<1>7. Moves(l, again, may)
  BY <1>4, <1>6, Beside
<1>8. Moves(l, Sends(again, Ask(t)), may)
  BY <1>7, Packets, SendsKeep
<1>9. Moves(l, Wants(p, "other"), may)
  BY WantsKeep
<1>10. AskForLock(p, t) \in {p, Wants(p, "other"), free, Sends(again, Ask(t))}
  <2>1. CASE p.foreign
    BY <2>1 DEF AskForLock
  <2>2. CASE ~p.foreign /\ p.yield # "no" /\ "yield" \notin p.due
    BY <2>2 DEF AskForLock
  <2>3. CASE ~p.foreign /\ ~(p.yield # "no" /\ "yield" \notin p.due)
    BY <2>3, <1>2, <1>5 DEF AskForLock
  <2>4. p.foreign \in BOOLEAN
    BY <1>1 DEF LaneT
  <2> QED BY <2>1, <2>2, <2>3, <2>4
<1> QED BY <1>4, <1>8, <1>9, <1>10

\* The next task is at the head of its queue.
LEMMA NextIs ==
    ASSUME NEW p, LaneOK(p), NEW store \in Stores
    PROVE  LET t == NextTask(p, store) IN
           \/ t = None
           \/ /\ t \in Tasks /\ p.queue[Store(t)] # <<>> /\ p.queue[Store(t)][1] = t
<1>1. PICK s \in Stores : s = IF p.queue[store] # <<>> THEN store ELSE Other(store)
  BY DEF Other, Stores
<1>2. PICK q \in Seq(Tasks) : q = p.queue[s]
  BY DEF LaneOK, LaneT
<1>3. NextTask(p, store) = IF q = <<>> THEN None ELSE Head(q)
  BY <1>1, <1>2 DEF NextTask
<1>4. CASE q # <<>>
  <2>1. Head(q) = q[1] /\ q[1] \in Tasks /\ 1 \in 1..Len(q)
    BY <1>4
  <2>2. Store(q[1]) = s
    BY <1>2, <2>1 DEF LaneOK, CoreOK, Sorted
  <2> QED BY <1>2, <1>3, <1>4, <2>1, <2>2
<1> QED BY <1>3, <1>4

\* A transfer is asked for.
LEMMA StartKeeps ==
    ASSUME NEW l, l.tid \in Nat, NEW may, NEW p, Moves(l, p, may), ~p.requested, ~p.retry, p.draining = 0,
           NEW t \in Tasks \ Clears, p.queue[Store(t)] # <<>>, p.queue[Store(t)][1] = t,
           NEW retry \in BOOLEAN, Allowed(retry, l, may)
    PROVE  Moves(l, StartTransfer(p, t, retry), may)
<1> HIDE DEF ToMsg
<1>1. /\ p \in LaneT /\ DueOK(p) /\ CoreOK(p) /\ NoAsk(p.out) /\ p.tid = l.tid /\ p.out \in Seq(ToMsg)
      /\ \A u \in Tasks \ Clears : p.outcome[u] = "done" => l.outcome[u] = "done"
  BY DEF Moves, Resting, LaneOK, LaneT
<1>2. PICK id \in Nat : id = IF retry THEN p.tid ELSE p.tid + 1
  BY <1>1
<1>3. id # 0 /\ p.tid <= id /\ (id = l.tid + 1 \/ (id = l.tid /\ may))
  BY <1>1, <1>2 DEF Allowed
<1>4. PICK f : f = [p EXCEPT !.tid = id, !.transfer = t, !.requested = TRUE, !.started = FALSE,
                             !.dataSent = FALSE]
  OBVIOUS
<1>5. /\ f \in LaneT /\ f.queue = p.queue /\ f.transfer = t /\ f.tid = id /\ f.requested = TRUE
      /\ f.retry = p.retry /\ f.draining = p.draining /\ f.outcome = p.outcome /\ f.out = p.out
      /\ DueOK(f)
  BY <1>1, <1>4 DEF LaneT, DueOK
<1>6. PICK m \in ToMsg : m = Request(t, id) /\ m.type = "request"
  BY Packets
<1>7. PICK h : h = Sends(f, m)
  OBVIOUS
<1>8. h \in LaneT /\ SameCore(f, h) /\ DueOK(h) /\ h.out = Append(p.out, m)
  BY <1>5, <1>7, SendsIs
<1>9. t # None
  BY LaneAssumption
<1>10. CoreOK(f)
  <2>1. f.draining <= f.tid
    BY <1>1, <1>3, <1>5
  <2>2. Sorted(f.queue)
    BY <1>1, <1>5 DEF CoreOK
  <2> QED BY <1>3, <1>5, <1>9, <2>1, <2>2 DEF CoreOK
<1>11. CoreOK(h)
  BY <1>8, <1>10 DEF CoreOK, SameCore
<1>12. OneAsk(h.out, t, id)
  <2>1. \A i \in 1..Len(h.out) : \/ i \in 1..Len(p.out) /\ h.out[i] = p.out[i]
                                 \/ i = Len(p.out) + 1 /\ h.out[i] = m
    BY <1>1, <1>8
  <2>2. \A i \in 1..Len(h.out) : h.out[i].type = "request" => i = Len(p.out) + 1 /\ h.out[i] = m
    BY <1>1, <2>1 DEF NoAsk
  <2> QED BY <1>6, <2>2 DEF OneAsk
<1>13. h = StartTransfer(p, t, retry)
  BY <1>2, <1>4, <1>6, <1>7 DEF StartTransfer
<1>14. h.transfer = t /\ h.tid = id /\ h.requested /\ h.outcome = p.outcome
  BY <1>5, <1>8 DEF SameCore
<1>15. Moves(l, h, may)
  BY <1>1, <1>3, <1>8, <1>11, <1>12, <1>14 DEF Moves, Resting, LaneOK
<1> QED BY <1>13, <1>15

\* The trigger, but for a clear that can go out
LEMMA AdvanceUnlessClearKeeps ==
    ASSUME NEW l, l.tid \in Nat, NEW may, NEW p, Moves(l, p, may), ~p.retry, p.draining = 0,
           NEW store \in Stores, NEW retry \in BOOLEAN, Allowed(retry, l, may),
           ~(NextTask(p, store) \in Clears /\ p.locks /\ ~p.requested)
    PROVE  Moves(l, AdvanceUnlessClear(p, store, retry), may)
<1>1. LaneOK(p) /\ p.locks \in BOOLEAN /\ p.requested \in BOOLEAN
  BY DEF Moves, Resting, LaneOK, LaneT
<1>2. PICK t : t = NextTask(p, store)
  OBVIOUS
<1>3. \/ t = None
      \/ t \in Tasks /\ p.queue[Store(t)] # <<>> /\ p.queue[Store(t)][1] = t
  BY <1>1, <1>2, NextIs
<1>4. PICK h : h = AdvanceUnlessClear(p, store, retry)
  OBVIOUS
<1>5. None \notin Tasks
  BY LaneAssumption
<1>6. CASE t = None
  <2>1. h = CleanLocks(p)
    BY <1>2, <1>4, <1>6 DEF AdvanceUnlessClear
  <2> QED BY <1>4, <2>1, CleanLocksKeeps
<1>7. CASE t \in Tasks /\ Store(t) = "still" /\ ~p.locks
  <2>1. h = AskForLock(p, t)
    BY <1>2, <1>4, <1>5, <1>7 DEF AdvanceUnlessClear
  <2> QED BY <1>4, <1>7, <2>1, AskForLockKeeps
<1>8. CASE t \in Tasks /\ (Store(t) = "macro" \/ p.locks) /\ p.requested
  <2>1. ~(Store(t) = "still" /\ ~p.locks)
    BY <1>8
  <2>2. h = p
    BY <1>2, <1>4, <1>5, <1>8, <2>1 DEF AdvanceUnlessClear
  <2> QED BY <1>4, <2>2
<1>9. CASE t \in Tasks /\ (Store(t) = "macro" \/ p.locks) /\ ~p.requested
  <2>1. ~(Store(t) = "still" /\ ~p.locks) /\ t # None
    BY <1>5, <1>9
  <2>2. h = StartTransfer(p, t, retry)
    BY <1>2, <1>4, <1>9, <2>1 DEF AdvanceUnlessClear
  <2>3. t \notin Clears
    BY <1>2, <1>9, StoreIs
  <2> QED BY <1>3, <1>4, <1>9, <2>1, <2>2, <2>3, StartKeeps
<1>10. Store(t) \in {"still", "macro"}
  BY StoreIs DEF Stores
<1> QED BY <1>1, <1>3, <1>6, <1>7, <1>8, <1>9, <1>10

\* A queue changes while nothing is under way, and nothing is sent.
LEMMA Requeued ==
    ASSUME NEW l, NEW may, NEW p, Moves(l, p, may), ~p.requested, NEW q \in LaneT, DueOK(q), Sorted(q.queue),
           q.transfer \in {p.transfer, None}, q.tid = p.tid, ~q.requested, q.retry => p.retry,
           q.draining <= q.tid, q.out = p.out,
           \A t \in Tasks \ Clears : q.outcome[t] = "done" => p.outcome[t] = "done"
    PROVE  Moves(l, q, may)
<1>1. CoreOK(q)
  BY LaneAssumption DEF Moves, Resting, LaneOK, CoreOK, Tasks
<1> QED BY <1>1 DEF Moves, Resting, LaneOK

\* Without its head a queue is as it was.
LEMMA PoppedIs ==
    ASSUME NEW p \in LaneT, Sorted(p.queue), NEW s \in Stores, p.queue[s] # <<>>
    PROVE  LET h == [p EXCEPT !.queue[s] = Tail(@)] IN
           h \in LaneT /\ Sorted(h.queue) /\ h = [p EXCEPT !.queue = h.queue]
<1> HIDE DEF ToMsg
<1>1. PICK q \in Seq(Tasks) : q = p.queue[s] /\ q # <<>>
  BY DEF LaneT
<1>2. /\ Tail(q) \in Seq(Tasks)
      /\ \A i \in 1..Len(Tail(q)) : i + 1 \in 1..Len(q) /\ Tail(q)[i] = q[i + 1]
  BY <1>1
<1>3. PICK Q : Q = [p.queue EXCEPT ![s] = Tail(@)]
  OBVIOUS
<1>4. p.queue \in [Stores -> Seq(Tasks)]
  BY DEF LaneT
<1>5. Q \in [Stores -> Seq(Tasks)] /\ Q[s] = Tail(q) /\ \A o \in Stores : o # s => Q[o] = p.queue[o]
  BY <1>1, <1>2, <1>3, <1>4
<1>6. Sorted(Q)
  <2> SUFFICES ASSUME NEW o \in Stores, NEW i \in 1..Len(Q[o]) PROVE Store(Q[o][i]) = o
    BY DEF Sorted
  <2>1. CASE o = s
    <3>1. i + 1 \in 1..Len(q) /\ Q[o][i] = q[i + 1]
      BY <1>2, <1>5, <2>1
    <3> QED BY <1>1, <2>1, <3>1 DEF Sorted
  <2>2. CASE o # s
    BY <1>5, <2>2 DEF Sorted
  <2> QED BY <2>1, <2>2
<1>7. [p EXCEPT !.queue[s] = Tail(@)] = [p EXCEPT !.queue = Q]
  BY <1>3
<1>8. [p EXCEPT !.queue = Q] \in LaneT /\ [p EXCEPT !.queue = Q].queue = Q
  BY <1>5 DEF LaneT
<1> QED BY <1>6, <1>7, <1>8

\* A caller is told.
LEMMA EndsIs ==
    ASSUME NEW p \in LaneT, NEW t \in Tasks, NEW o \in {"done", "gone", "failed"}
    PROVE  LET h == Ends(p, t, o) IN
           /\ h \in LaneT /\ h = [p EXCEPT !.outcome = h.outcome]
           /\ \A u \in Tasks : u # t => h.outcome[u] = p.outcome[u]
           /\ h.outcome[t] = p.outcome[t] \/ h.outcome[t] = o
<1> HIDE DEF ToMsg
<1>1. PICK O : O = [p.outcome EXCEPT ![t] = IF @ = "queued" THEN o ELSE @]
  OBVIOUS
<1>2. p.outcome \in [Tasks -> {"new", "queued", "done", "failed", "gone"}]
  BY DEF LaneT
<1>3. O \in [Tasks -> {"new", "queued", "done", "failed", "gone"}] /\ O[t] \in {p.outcome[t], o}
      /\ \A u \in Tasks : u # t => O[u] = p.outcome[u]
  BY <1>1, <1>2
<1>4. Ends(p, t, o) = [p EXCEPT !.outcome = O]
  BY <1>1 DEF Ends
<1>5. [p EXCEPT !.outcome = O] \in LaneT /\ [p EXCEPT !.outcome = O].outcome = O
  BY <1>3 DEF LaneT
<1> QED BY <1>3, <1>4, <1>5

\* A clear goes out, and the lock goes back.
LEMMA DispatchClearKeeps ==
    ASSUME NEW l, NEW may, NEW p, Moves(l, p, may), ~p.requested, NEW t \in Clears, p.queue["still"] # <<>>
    PROVE  LET h == DispatchClear(p, t) IN
           /\ Moves(l, h, may) /\ ~h.locks /\ h.retry = p.retry /\ h.draining = p.draining
<1> HIDE DEF ToMsg
<1>1. p \in LaneT /\ DueOK(p) /\ Sorted(p.queue) /\ "still" \in Stores /\ t \in Tasks
  BY DEF Moves, Resting, LaneOK, CoreOK, Stores, Tasks
<1>2. PICK a : a = [p EXCEPT !.queue["still"] = Tail(@)]
  OBVIOUS
<1>3. a \in LaneT /\ Sorted(a.queue) /\ a = [p EXCEPT !.queue = a.queue]
  BY <1>1, <1>2, PoppedIs
<1>4. /\ a.transfer = p.transfer /\ a.tid = p.tid /\ a.requested = p.requested /\ a.retry = p.retry
      /\ a.draining = p.draining /\ a.outcome = p.outcome /\ a.out = p.out /\ DueOK(a)
  BY <1>1, <1>3 DEF LaneT, DueOK
<1>5. a.draining <= a.tid
  BY <1>4 DEF Moves, Resting, LaneOK, CoreOK
<1>6. Moves(l, a, may)
  BY <1>3, <1>4, <1>5, Requeued
<1>7. PICK b : b = Sends(a, Clear(t))
  OBVIOUS
<1>8. Clear(t) \in ToMsg /\ Clear(t).type # "request"
  BY Packets
<1>9. Moves(l, b, may) /\ b \in LaneT /\ SameCore(a, b) /\ DueOK(b)
  BY <1>3, <1>4, <1>6, <1>7, <1>8, SendsKeep, SendsIs
<1>10. PICK e : e = Ends(b, t, "done")
  OBVIOUS
<1>11. /\ e \in LaneT /\ e = [b EXCEPT !.outcome = e.outcome]
       /\ \A u \in Tasks : u # t => e.outcome[u] = b.outcome[u]
  <2>1. "done" \in {"done", "gone", "failed"}
    OBVIOUS
  <2>2. LET x == Ends(b, t, "done") IN
        /\ x \in LaneT /\ x = [b EXCEPT !.outcome = x.outcome]
        /\ \A u \in Tasks : u # t => x.outcome[u] = b.outcome[u]
    BY <1>1, <1>9, <2>1, EndsIs, SMTT(30)
  <2> QED BY <1>10, <2>2
<1>12. PICK g : g = [e EXCEPT !.transfer = None, !.cleared = @ \cup {t}]
  OBVIOUS
<1>13. /\ g \in LaneT /\ g.queue = b.queue /\ g.transfer = None /\ g.tid = b.tid
       /\ g.requested = b.requested /\ g.retry = b.retry /\ g.draining = b.draining /\ g.out = b.out
       /\ g.outcome = e.outcome /\ DueOK(g)
  <2>1. /\ e.queue = b.queue /\ e.tid = b.tid /\ e.requested = b.requested /\ e.retry = b.retry
        /\ e.draining = b.draining /\ e.out = b.out /\ DueOK(e)
    BY <1>9, <1>11 DEF LaneT, DueOK
  <2>2. /\ g \in LaneT /\ g.queue = e.queue /\ g.transfer = None /\ g.tid = e.tid
        /\ g.requested = e.requested /\ g.retry = e.retry /\ g.draining = e.draining /\ g.out = e.out
        /\ g.outcome = e.outcome /\ (DueOK(e) => DueOK(g))
    <3>1. e \in LaneT /\ e.cleared \cup {t} \in SUBSET Clears
      BY <1>11 DEF LaneT
    <3>2. g = [e EXCEPT !.transfer = None, !.cleared = e.cleared \cup {t}]
      BY <1>12
    <3> QED BY <3>1, <3>2 DEF LaneT, DueOK
  <2> QED BY <2>1, <2>2
<1>14. Sorted(g.queue) /\ g.draining <= g.tid /\ ~g.requested
  BY <1>3, <1>4, <1>5, <1>9, <1>13 DEF SameCore
<1>15. Moves(l, g, may)
  <2>1. ~b.requested
    BY <1>4, <1>9 DEF SameCore
  <2> QED BY <1>9, <1>11, <1>13, <1>14, <2>1, Requeued
<1>16. PICK h : h = GiveLockBack(g)
  OBVIOUS
<1>17. Moves(l, h, may) /\ SameCore(g, h) /\ ~h.locks
  BY <1>13, <1>15, <1>16, GiveLockBackKeeps, GiveLockBackIs
<1>18. h = DispatchClear(p, t)
  BY <1>2, <1>7, <1>10, <1>12, <1>16 DEF DispatchClear
<1> QED BY <1>4, <1>9, <1>13, <1>17, <1>18 DEF SameCore

\* The next task, once nothing keeps the lane from it
LEMMA AdvanceKeeps ==
    ASSUME NEW l, l.tid \in Nat, NEW may, NEW p, Moves(l, p, may), ~p.retry, p.draining = 0,
           NEW store \in Stores, NEW retry \in BOOLEAN, Allowed(retry, l, may)
    PROVE  Moves(l, Advance(p, store, retry), may)
<1>1. PICK t : t = NextTask(p, store)
  OBVIOUS
<1>2. LaneOK(p)
  BY DEF Moves, Resting
<1>3. CASE t \in Clears /\ p.locks /\ ~p.requested
  <2>1. t # None /\ Store(t) = "still"
    BY <1>3, StoreIs, LaneAssumption DEF Tasks
  <2>2. p.queue["still"] # <<>>
    BY <1>1, <1>2, <2>1, NextIs
  <2>3. PICK h : h = DispatchClear(p, t)
    OBVIOUS
  <2>4. Moves(l, h, may) /\ ~h.locks /\ ~h.retry /\ h.draining = 0
    BY <1>3, <2>2, <2>3, DispatchClearKeeps
  <2>5. Allowed(FALSE, l, may) /\ "still" \in Stores /\ FALSE \in BOOLEAN
    BY DEF Allowed, Stores
  <2>6. Moves(l, AdvanceUnlessClear(h, "still", FALSE), may)
    BY <2>4, <2>5, AdvanceUnlessClearKeeps
  <2>7. Advance(p, store, retry) = AdvanceUnlessClear(h, "still", FALSE)
    BY <1>1, <1>3, <2>3 DEF Advance
  <2> QED BY <2>6, <2>7
<1>4. CASE ~(t \in Clears /\ p.locks /\ ~p.requested)
  <2>1. Moves(l, AdvanceUnlessClear(p, store, retry), may)
    BY <1>1, <1>4, AdvanceUnlessClearKeeps
  <2>2. Advance(p, store, retry) = AdvanceUnlessClear(p, store, retry)
    BY <1>1, <1>4 DEF Advance
  <2> QED BY <2>1, <2>2
<1> QED BY <1>3, <1>4

\* _transfer_trigger
LEMMA TriggerKeeps ==
    ASSUME NEW l, l.tid \in Nat, NEW may, NEW p, Moves(l, p, may),
           NEW store \in Stores, NEW retry \in BOOLEAN, Allowed(retry, l, may)
    PROVE  Moves(l, Trigger(p, store, retry), may)
<1>1. p \in LaneT /\ DueOK(p) /\ CoreOK(p) /\ p.retry \in BOOLEAN
  BY DEF Moves, Resting, LaneOK, LaneT
<1>2. CASE p.draining # 0
  BY <1>2 DEF Trigger
<1>3. CASE p.draining = 0 /\ p.retry /\ "try" \notin p.due
  <2>1. Trigger(p, store, retry) = Wants(p, "try")
    BY <1>3 DEF Trigger
  <2> QED BY <2>1, WantsKeep
<1>4. CASE p.draining = 0 /\ ~(p.retry /\ "try" \notin p.due)
  <2>1. PICK f : f = [p EXCEPT !.retry = FALSE, !.due = @ \ {"try"}]
    OBVIOUS
  <2>2. /\ f \in LaneT /\ f.queue = p.queue /\ f.transfer = p.transfer /\ f.tid = p.tid
        /\ f.requested = p.requested /\ f.retry = FALSE /\ f.draining = p.draining
        /\ f.outcome = p.outcome /\ f.out = p.out /\ DueOK(f)
    <3> HIDE DEF ToMsg
    <3> QED BY <1>1, <2>1 DEF LaneT, DueOK
  <2>3. CoreOK(f)
    BY <1>1, <2>2 DEF CoreOK
  <2>4. Moves(l, f, may)
    BY <2>2, <2>3 DEF Moves, Resting, LaneOK
  <2>5. PICK again \in BOOLEAN : again = (retry \/ p.retry)
    BY <1>1
  <2>6. Allowed(again, l, may)
    BY <1>1, <2>5 DEF Allowed, Moves, Resting, LaneOK, CoreOK
  <2>7. Moves(l, Advance(f, store, again), may)
    BY <1>4, <2>2, <2>4, <2>6, AdvanceKeeps
  <2>8. Trigger(p, store, retry) = Advance(f, store, again)
    BY <1>4, <2>1, <2>5 DEF Trigger
  <2> QED BY <2>7, <2>8
<1> QED BY <1>2, <1>3, <1>4

\* A trigger that asks anew
LEMMA Triggers ==
    ASSUME NEW l, l.tid \in Nat, NEW may, NEW p, Moves(l, p, may), NEW store \in Stores
    PROVE  Moves(l, Trigger(p, store, FALSE), may)
<1>1. Allowed(FALSE, l, may) /\ FALSE \in BOOLEAN
  BY DEF Allowed
<1> QED BY <1>1, TriggerKeeps

\* Nothing is under way any more.
LEMMA EndedKeeps ==
    ASSUME NEW l, NEW may, NEW p, Moves(l, p, may), ~p.requested
    PROVE  LET h == [p EXCEPT !.transfer = None] IN
           Moves(l, h, may) /\ h.locks = p.locks /\ h.requested = p.requested
<1> HIDE DEF ToMsg
<1>1. p \in LaneT /\ DueOK(p) /\ CoreOK(p)
  BY DEF Moves, Resting, LaneOK
<1> PICK h : h = [p EXCEPT !.transfer = None]
  OBVIOUS
<1>2. /\ h \in LaneT /\ h.queue = p.queue /\ h.transfer = None /\ h.tid = p.tid
      /\ h.requested = p.requested /\ h.retry = p.retry /\ h.draining = p.draining
      /\ h.outcome = p.outcome /\ h.out = p.out /\ DueOK(h) /\ h.locks = p.locks
  BY <1>1 DEF LaneT, DueOK
<1>3. Sorted(h.queue) /\ h.draining <= h.tid
  BY <1>1, <1>2 DEF CoreOK
<1> QED BY <1>2, <1>3, Requeued

\* _release_then_continue
LEMMA ReleaseKeeps ==
    ASSUME NEW l, l.tid \in Nat, NEW may, NEW p, Moves(l, p, may), ~p.requested, NEW store \in Stores
    PROVE  Moves(l, ReleaseThenContinue(p, store), may)
<1>1. PICK h : h = [p EXCEPT !.transfer = None]
  OBVIOUS
<1>2. Moves(l, h, may)
  BY <1>1, EndedKeeps
<1>3. PICK g : g = IF store = "still" THEN GiveLockBack(h) ELSE h
  OBVIOUS
<1>4. Moves(l, g, may)
  BY <1>2, <1>3, GiveLockBackKeeps
<1>5. ReleaseThenContinue(p, store) = Trigger(g, store, FALSE)
  BY <1>1, <1>3 DEF ReleaseThenContinue
<1> QED BY <1>4, <1>5, Triggers

\* A lane is where it is.
LEMMA Stays ==
    ASSUME NEW l, LaneOK(l), l.out = <<>>, NEW may, Resting(l) => may
    PROVE  Moves(l, l, may) /\ l.tid \in Nat
BY DEF Moves, Resting, NoAsk, LaneOK, LaneT

---------------------------------------------------------------------------
(* What comes from the switcher *)

\* The lock is ours.
LEMMA LkobKeeps ==
    ASSUME NEW l, l.tid \in Nat, NEW may, NEW p, Moves(l, p, may)
    PROVE  Moves(l, OnLkob(p), may)
<1>1. p \in LaneT /\ DueOK(p)
  BY DEF Moves, Resting, LaneOK
<1>2. PICK h : h = [p EXCEPT !.locks = TRUE, !.asked = FALSE, !.due = @ \ {"asked"}]
  OBVIOUS
<1>3. h \in LaneT /\ SameCore(p, h) /\ DueOK(h) /\ h.out = p.out
  <2> HIDE DEF ToMsg
  <2> QED BY <1>1, <1>2 DEF LaneT, SameCore, DueOK
<1>4. Moves(l, h, may) /\ "still" \in Stores
  BY <1>3, Beside DEF Stores
<1> QED BY <1>2, <1>4, Triggers DEF OnLkob

\* The lock is taken.
LEMMA TakenKeeps ==
    ASSUME NEW l, l.tid \in Nat, NEW may, NEW p, Moves(l, p, may)
    PROVE  Moves(l, OnTaken(p), may)
<1>1. PICK g : g = IF p.yield = "no" THEN p ELSE LeaveFree(p)
  OBVIOUS
<1>2. Moves(l, g, may)
  BY <1>1, LeaveFreeKeeps
<1>3. g \in LaneT /\ DueOK(g)
  BY <1>2 DEF Moves, Resting, LaneOK
<1>4. PICK h : h = [g EXCEPT !.foreign = TRUE]
  OBVIOUS
<1>5. h \in LaneT /\ SameCore(g, h) /\ DueOK(h) /\ h.out = g.out
  <2> HIDE DEF ToMsg
  <2> QED BY <1>3, <1>4 DEF LaneT, SameCore, DueOK
<1>6. Moves(l, h, may)
  BY <1>2, <1>5, Beside
<1>7. OnTaken(p) = IF p.locks THEN p ELSE h
  BY <1>1, <1>4 DEF OnTaken
<1> QED BY <1>6, <1>7

\* The lock is free.
LEMMA FreeKeeps ==
    ASSUME NEW l, l.tid \in Nat, NEW may, NEW p, Moves(l, p, may)
    PROVE  Moves(l, OnFree(p), may)
<1>1. p \in LaneT /\ DueOK(p) /\ p.locks \in BOOLEAN /\ p.requested \in BOOLEAN
  BY DEF Moves, Resting, LaneOK, LaneT
<1>2. PICK c \in SUBSET Clocks : c = p.due \ (IF p.yield = "announced" THEN {"asked"} ELSE {"asked", "yield"})
  BY <1>1 DEF LaneT
<1>3. PICK h : h = [p EXCEPT !.foreign = FALSE, !.asked = FALSE, !.yield = "announced", !.due = c]
  OBVIOUS
<1>4. h \in LaneT /\ SameCore(p, h) /\ DueOK(h) /\ h.out = p.out
  <2> HIDE DEF ToMsg
  <2> QED BY <1>1, <1>2, <1>3, ZenonT(30) DEF LaneT, SameCore, DueOK
<1>5. Moves(l, h, may) /\ "still" \in Stores
  BY <1>4, Beside DEF Stores
<1>6. Moves(l, Wants(h, "other"), may)
  BY <1>5, WantsKeep
<1>7. Moves(l, Trigger(Wants(h, "other"), "still", FALSE), may)
  BY <1>5, <1>6, Triggers
<1>8. OnFree(p) \in {p, h, Wants(h, "other"), Trigger(Wants(h, "other"), "still", FALSE)}
  <2>1. h = [p EXCEPT !.foreign = FALSE, !.asked = FALSE, !.yield = "announced",
                      !.due = @ \ (IF p.yield = "announced" THEN {"asked"} ELSE {"asked", "yield"})]
    BY <1>2, <1>3
  <2>2. CASE p.locks
    BY <2>2 DEF OnFree
  <2>3. CASE ~p.locks /\ p.queue["still"] = <<>>
    BY <2>1, <2>3 DEF OnFree
  <2>4. CASE ~p.locks /\ p.queue["still"] # <<>>
    BY <1>1, <2>1, <2>4 DEF OnFree
  <2> QED BY <2>2, <2>3, <2>4
<1> QED BY <1>5, <1>6, <1>7, <1>8

\* The switcher takes data.
LEMMA FtcdKeeps ==
    ASSUME NEW l, l.tid \in Nat, NEW may, NEW p, Moves(l, p, may)
    PROVE  Moves(l, OnFtcd(p), may)
<1>1. p \in LaneT /\ DueOK(p)
  BY DEF Moves, Resting, LaneOK
<1>2. PICK h : h = [p EXCEPT !.dataSent = TRUE]
  OBVIOUS
<1>3. h \in LaneT /\ SameCore(p, h) /\ DueOK(h) /\ h.out = p.out /\ p.tid \in Nat
  <2> HIDE DEF ToMsg
  <2> QED BY <1>1, <1>2 DEF LaneT, SameCore, DueOK
<1>4. Moves(l, h, may)
  BY <1>3, Beside
<1>5. Moves(l, Sends(h, Data(p.tid)), may)
  BY <1>3, <1>4, Packets, SendsKeep
<1>6. OnFtcd(p) = IF p.transfer \in Uploads /\ ~p.dataSent THEN Sends(h, Data(p.tid)) ELSE p
  BY <1>2 DEF OnFtcd
<1> QED BY <1>5, <1>6

\* A chunk of a download
LEMMA FtdaKeeps ==
    ASSUME NEW l, l.tid \in Nat, NEW may, NEW p, Moves(l, p, may), NEW id
    PROVE  Moves(l, OnFtda(p, id), may)
<1>1. p \in LaneT /\ DueOK(p)
  BY DEF Moves, Resting, LaneOK
<1>2. PICK h, g : h = [p EXCEPT !.due = @ \ {"drain"}] /\ g = [p EXCEPT !.started = TRUE]
  OBVIOUS
<1>3. /\ h \in LaneT /\ SameCore(p, h) /\ DueOK(h) /\ h.out = p.out
      /\ g \in LaneT /\ SameCore(p, g) /\ DueOK(g) /\ g.out = p.out
  <2> HIDE DEF ToMsg
  <2> QED BY <1>1, <1>2 DEF LaneT, SameCore, DueOK
<1>4. Moves(l, h, may) /\ Moves(l, g, may)
  BY <1>3, Beside
<1>5. OnFtda(p, id) \in {p, h, g}
  <2>1. CASE Drained(p, id)
    BY <1>2, <2>1 DEF OnFtda
  <2>2. CASE ~Drained(p, id)
    BY <1>2, <2>2 DEF OnFtda
  <2>3. Drained(p, id) \in BOOLEAN
    BY DEF Drained
  <2> QED BY <2>1, <2>2
<1> QED BY <1>4, <1>5

\* An abandoned download is over.
LEMMA EndDrainKeeps ==
    ASSUME NEW l, l.tid \in Nat, NEW may, NEW p, Moves(l, p, may)
    PROVE  Moves(l, EndDrain(p), may)
<1>1. p \in LaneT /\ DueOK(p) /\ CoreOK(p) /\ p.tid \in Nat
  BY DEF Moves, Resting, LaneOK, LaneT
<1>2. CASE p.draining = 0
  BY <1>2 DEF EndDrain
<1>3. CASE p.draining # 0
  <2>1. ~p.requested
    BY <1>1, <1>3 DEF CoreOK
  <2>2. PICK h : h = [p EXCEPT !.draining = 0, !.due = @ \ {"drain"}]
    OBVIOUS
  <2>3. /\ h \in LaneT /\ h.queue = p.queue /\ h.transfer = p.transfer /\ h.tid = p.tid
        /\ h.requested = p.requested /\ h.retry = p.retry /\ h.draining = 0
        /\ h.outcome = p.outcome /\ h.out = p.out /\ DueOK(h)
    <3> HIDE DEF ToMsg
    <3> QED BY <1>1, <2>2 DEF LaneT, DueOK
  <2>4. Sorted(h.queue) /\ h.draining <= h.tid
    BY <1>1, <2>3 DEF CoreOK
  <2>5. Moves(l, h, may) /\ ~h.requested /\ "still" \in Stores
    BY <2>1, <2>3, <2>4, Requeued DEF Stores
  <2>6. EndDrain(p) = ReleaseThenContinue(h, "still")
    BY <1>3, <2>2 DEF EndDrain
  <2> QED BY <2>5, <2>6, ReleaseKeeps
<1> QED BY <1>2, <1>3

\* Callers are told of what failed.
LEMMA ToldKeeps ==
    ASSUME NEW l, NEW may, NEW p, Moves(l, p, may) PROVE Moves(l, ToldOfError(p), may)
<1> HIDE DEF ToMsg
<1>1. p \in LaneT /\ DueOK(p) /\ CoreOK(p)
  BY DEF Moves, Resting, LaneOK
<1>2. PICK O : O = [t \in Tasks |-> IF p.outcome[t] = "queued" /\ t \notin Clears THEN "failed"
                                    ELSE p.outcome[t]]
  OBVIOUS
<1>3. p.outcome \in [Tasks -> {"new", "queued", "done", "failed", "gone"}]
  BY <1>1 DEF LaneT
<1>4. /\ O \in [Tasks -> {"new", "queued", "done", "failed", "gone"}]
      /\ \A t \in Tasks : O[t] = "done" => p.outcome[t] = "done"
  BY <1>2, <1>3
<1>5. PICK h : h = [p EXCEPT !.outcome = O]
  OBVIOUS
<1>6. /\ h \in LaneT /\ h.queue = p.queue /\ h.transfer = p.transfer /\ h.tid = p.tid
      /\ h.requested = p.requested /\ h.retry = p.retry /\ h.draining = p.draining
      /\ h.outcome = O /\ h.out = p.out /\ DueOK(h)
  BY <1>1, <1>4, <1>5 DEF LaneT, DueOK
<1>7. CoreOK(h)
  BY <1>1, <1>6 DEF CoreOK
<1>8. ToldOfError(p) = h
  BY <1>2, <1>5 DEF ToldOfError
<1>9. \A t \in Tasks \ Clears : h.outcome[t] = "done" => l.outcome[t] = "done"
  BY <1>4, <1>6 DEF Moves, Resting
<1>10. Moves(l, h, may)
  BY <1>6, <1>7, <1>9 DEF Moves, Resting, LaneOK
<1> QED BY <1>8, <1>10

\* _fail_transfer
LEMMA FailKeeps ==
    ASSUME NEW l, l.tid \in Nat, NEW may, NEW p, Moves(l, p, may), ~p.requested
    PROVE  Moves(l, Fail(p), may)
<1> HIDE DEF ToMsg
<1>1. p \in LaneT /\ DueOK(p) /\ CoreOK(p) /\ Sorted(p.queue)
  BY DEF Moves, Resting, LaneOK, CoreOK
<1>2. PICK s \in Stores : s = Store(p.transfer)
  BY StoreIs
<1>3. PICK g : g = IF p.queue[s] # <<>> /\ Head(p.queue[s]) = p.transfer THEN [p EXCEPT !.queue[s] = Tail(@)] ELSE p
  OBVIOUS
<1>4. /\ g \in LaneT /\ Sorted(g.queue) /\ g.transfer = p.transfer /\ g.tid = p.tid
      /\ g.requested = p.requested /\ g.retry = p.retry /\ g.draining = p.draining
      /\ g.outcome = p.outcome /\ g.out = p.out /\ DueOK(g)
  <2>1. CASE g = p
    BY <1>1, <2>1
  <2>2. CASE g # p
    <3>1. g = [p EXCEPT !.queue[s] = Tail(@)] /\ p.queue[s] # <<>>
      BY <1>3, <2>2
    <3>2. g \in LaneT /\ Sorted(g.queue) /\ g = [p EXCEPT !.queue = g.queue]
      BY <1>1, <3>1, PoppedIs
    <3> QED BY <1>1, <3>2 DEF LaneT, DueOK
  <2> QED BY <2>1, <2>2
<1>5. PICK h : h = [g EXCEPT !.retry = FALSE, !.due = @ \ {"try"}]
  OBVIOUS
<1>6. /\ h \in LaneT /\ h.queue = g.queue /\ h.transfer = g.transfer /\ h.tid = g.tid
      /\ h.requested = g.requested /\ h.retry = FALSE /\ h.draining = g.draining
      /\ h.outcome = g.outcome /\ h.out = g.out /\ DueOK(h)
  BY <1>4, <1>5 DEF LaneT, DueOK
<1>7. Sorted(h.queue) /\ h.draining <= h.tid
  BY <1>1, <1>4, <1>6 DEF CoreOK
<1>8. Moves(l, h, may) /\ ~h.requested
  BY <1>4, <1>6, <1>7, Requeued
<1>9. Moves(l, ToldOfError(ReleaseThenContinue(h, s)), may)
  BY <1>8, ReleaseKeeps, ToldKeeps
<1>10. Fail(p) = ToldOfError(ReleaseThenContinue(h, s))
  BY <1>2, <1>3, <1>5 DEF Fail
<1> QED BY <1>9, <1>10

\* A transfer is refused: its number may be used again.
LEMMA RefusedKeeps ==
    ASSUME NEW l, l.tid \in Nat, l.tid # 0, NEW p, Moves(l, p, TRUE), ~p.requested, p.transfer # None, NEW status
    PROVE  Moves(l, Refused(p, status), TRUE)
<1> HIDE DEF ToMsg
<1>1. p \in LaneT /\ DueOK(p) /\ CoreOK(p) /\ p.locks \in BOOLEAN
  BY DEF Moves, Resting, LaneOK, LaneT
<1>2. PICK t \in Tasks : t = p.transfer
  BY <1>1 DEF LaneT
<1>3. PICK s \in Stores : s = Store(t)
  BY StoreIs
<1>4. Allowed(TRUE, l, TRUE) /\ TRUE \in BOOLEAN
  BY DEF Allowed
<1>5. CASE status = 1 /\ MayRetry(p, t)
  <2>1. p.tries \in [Tasks -> 0..Attempts] /\ Attempts \in Nat
    BY <1>1, LaneAssumption DEF LaneT
  <2>2. PICK T : T = [p.tries EXCEPT ![t] = @ + 1]
    OBVIOUS
  <2>3. T \in [Tasks -> 0..Attempts]
    BY <1>5, <2>1, <2>2 DEF MayRetry
  <2>4. PICK h : h = [p EXCEPT !.tries = T, !.retry = TRUE, !.due = @ \ {"try"}]
    OBVIOUS
  <2>5. /\ h \in LaneT /\ h.queue = p.queue /\ h.transfer = p.transfer /\ h.tid = p.tid
        /\ h.requested = p.requested /\ h.retry = TRUE /\ h.draining = p.draining
        /\ h.outcome = p.outcome /\ h.out = p.out /\ DueOK(h)
    BY <1>1, <2>3, <2>4 DEF LaneT, DueOK
  <2>6. CoreOK(h)
    BY <1>1, <2>5 DEF CoreOK
  <2>7. Moves(l, h, TRUE)
    BY <2>5, <2>6 DEF Moves, Resting, LaneOK
  <2>8. Refused(p, status) = Wants(h, "try")
    BY <1>2, <1>5, <2>2, <2>4 DEF Refused
  <2> QED BY <2>7, <2>8, WantsKeep
<1>6. CASE status = 5
  <2>1. PICK b \in BOOLEAN : b = (p.locks /\ s = "macro")
    OBVIOUS
  <2>2. PICK h : h = [p EXCEPT !.locks = b]
    OBVIOUS
  <2>3. h \in LaneT /\ SameCore(p, h) /\ DueOK(h) /\ h.out = p.out
    BY <1>1, <2>2 DEF LaneT, SameCore, DueOK
  <2>4. Moves(l, Trigger(h, s, TRUE), TRUE)
    BY <1>4, <2>3, Beside, TriggerKeeps
  <2>5. Refused(p, status) = Trigger(h, s, TRUE)
    BY <1>2, <1>3, <1>6, <2>1, <2>2 DEF Refused
  <2> QED BY <2>4, <2>5
<1>7. CASE status = 6
  <2>1. PICK g : g = [p EXCEPT !.asked = FALSE, !.due = @ \ {"asked"}]
    OBVIOUS
  <2>2. g \in LaneT /\ SameCore(p, g) /\ DueOK(g) /\ g.out = p.out
    BY <1>1, <2>1 DEF LaneT, SameCore, DueOK
  <2>3. Moves(l, g, TRUE) /\ ~g.requested
    BY <2>2, Beside DEF SameCore
  <2>4. PICK h : h = [g EXCEPT !.transfer = None]
    OBVIOUS
  <2>5. Moves(l, h, TRUE)
    BY <2>3, <2>4, EndedKeeps
  <2>6. Moves(l, GiveLockBack(h), TRUE) /\ Moves(l, Trigger(h, s, FALSE), TRUE)
    BY <2>5, GiveLockBackKeeps, Triggers
  <2>7. h = [p EXCEPT !.asked = FALSE, !.due = @ \ {"asked"}, !.transfer = None]
    BY <2>1, <2>4
  <2>8. Refused(p, status) = IF s = "still" /\ p.locks THEN GiveLockBack(h) ELSE Trigger(h, s, FALSE)
    BY <1>2, <1>3, <1>7, <2>7 DEF Refused
  <2> QED BY <2>6, <2>8
<1>8. CASE ~(status = 1 /\ MayRetry(p, t)) /\ status # 5 /\ status # 6
  <2>1. Refused(p, status) = Fail(p)
    BY <1>2, <1>8 DEF Refused
  <2> QED BY <2>1, FailKeeps
<1> QED BY <1>5, <1>6, <1>7, <1>8

\* Whether a message gives a number back to the lane: the refusal of its transfer does.
Frees(l, msg) == Resting(l) \/ (msg.type = "FTDE" /\ msg.tid = l.tid)

\* The end of a transfer by FTDE: a drain is over, or the transfer was refused.
LEMMA FtdeMoves ==
    ASSUME NEW l, LaneOK(l), l.out = <<>>, NEW msg, msg.type = "FTDE"
    PROVE  Moves(l, OnFtde(l, msg.tid, msg.status), Frees(l, msg))
<1> HIDE DEF ToMsg
<1>1. l.tid \in Nat /\ Moves(l, l, Frees(l, msg))
  BY Stays DEF Frees
<1>2. CASE Drained(l, msg.tid)
  BY <1>1, <1>2, EndDrainKeeps DEF OnFtde
<1>3. CASE ~Drained(l, msg.tid) /\ l.transfer # None /\ l.tid = msg.tid
  <2>1. Frees(l, msg) = TRUE /\ l.tid # 0 /\ l \in LaneT /\ DueOK(l) /\ CoreOK(l)
    BY <1>3 DEF Frees, LaneOK, CoreOK, LaneT
  <2>2. PICK h : h = [l EXCEPT !.requested = FALSE]
    OBVIOUS
  <2>3. /\ h \in LaneT /\ h.queue = l.queue /\ h.transfer = l.transfer /\ h.tid = l.tid
        /\ h.requested = FALSE /\ h.retry = l.retry /\ h.draining = l.draining
        /\ h.outcome = l.outcome /\ h.out = l.out /\ DueOK(h)
    BY <2>1, <2>2 DEF LaneT, DueOK
  <2>4. CoreOK(h)
    BY <2>1, <2>3 DEF CoreOK
  <2>5. Moves(l, h, TRUE)
    BY <2>3, <2>4 DEF Moves, Resting, LaneOK, NoAsk
  <2>6. Moves(l, Refused(h, msg.status), TRUE)
    BY <1>1, <1>3, <2>1, <2>3, <2>5, RefusedKeeps
  <2>7. OnFtde(l, msg.tid, msg.status) = Refused(h, msg.status)
    BY <1>3, <2>2 DEF OnFtde
  <2> QED BY <2>1, <2>6, <2>7
<1>4. CASE ~Drained(l, msg.tid) /\ ~(l.transfer # None /\ l.tid = msg.tid)
  <2>1. OnFtde(l, msg.tid, msg.status) = l
    BY <1>4 DEF OnFtde
  <2> QED BY <1>1, <2>1
<1> QED BY <1>2, <1>3, <1>4

\* An FTDC that is not of the transfer under way
LEMMA CompleteKeeps ==
    ASSUME NEW l, l.tid \in Nat, NEW may, NEW p, Moves(l, p, may), NEW id
    PROVE  Moves(l, OnFtdc(p, id), may)
BY EndDrainKeeps, LeaveFreeKeeps DEF OnFtdc, SomeoneAtWork

\* save_field_data
LEMMA MessageMoves ==
    ASSUME NEW l, LaneOK(l), l.out = <<>>, NEW msg \in FromMsg
    PROVE  Moves(l, OnMessage(l, msg), Frees(l, msg))
<1>1. l.tid \in Nat /\ Moves(l, l, Frees(l, msg))
  BY Stays DEF Frees
<1>2. msg.type \in {"LKOB", "LKST", "FTCD", "FTDa", "FTDE", "FTDC"}
  BY DEF FromMsg, News
<1>3. CASE msg.type = "LKOB"
  <2>1. OnMessage(l, msg) = OnLkob(l)
    BY <1>3 DEF OnMessage
  <2> QED BY <1>1, <2>1, LkobKeeps
<1>4. CASE msg.type = "LKST"
  <2>1. OnMessage(l, msg) = IF msg.taken THEN OnTaken(l) ELSE OnFree(l)
    BY <1>4 DEF OnMessage
  <2> QED BY <1>1, <2>1, TakenKeeps, FreeKeeps
<1>5. CASE msg.type = "FTCD"
  <2>1. OnMessage(l, msg) = OnFtcd(l)
    BY <1>5 DEF OnMessage
  <2> QED BY <1>1, <2>1, FtcdKeeps
<1>6. CASE msg.type = "FTDa"
  <2>1. OnMessage(l, msg) = OnFtda(l, msg.tid)
    BY <1>6 DEF OnMessage
  <2> QED BY <1>1, <2>1, FtdaKeeps
<1>7. CASE msg.type = "FTDE"
  <2>1. OnMessage(l, msg) = OnFtde(l, msg.tid, msg.status)
    BY <1>7 DEF OnMessage
  <2> QED BY <1>7, <2>1, FtdeMoves
<1>8. CASE msg.type = "FTDC"
  <2>1. OnMessage(l, msg) = OnFtdc(l, msg.tid)
    BY <1>8 DEF OnMessage
  <2> QED BY <1>1, <2>1, CompleteKeeps
<1> QED BY <1>2, <1>3, <1>4, <1>5, <1>6, <1>7, <1>8

---------------------------------------------------------------------------
(* Timed work, and what callers ask for *)

\* A drain that has stalled is over.
LEMMA DrainServiced ==
    ASSUME NEW l, l.tid \in Nat, NEW may, NEW p, Moves(l, p, may)
    PROVE  Moves(l, ServiceDrain(p), may)
<1>1. CASE p.draining = 0
  BY <1>1 DEF ServiceDrain
<1>2. CASE p.draining # 0 /\ "drain" \in p.due
  <2>1. ServiceDrain(p) = EndDrain(p)
    BY <1>2 DEF ServiceDrain
  <2> QED BY <2>1, EndDrainKeeps
<1>3. CASE p.draining # 0 /\ "drain" \notin p.due
  <2>1. ServiceDrain(p) = Wants(p, "other")
    BY <1>3 DEF ServiceDrain
  <2> QED BY <2>1, WantsKeep
<1> QED BY <1>1, <1>2, <1>3

\* A transfer whose pause is over is tried again, under the number it had.
LEMMA RetryServiced ==
    ASSUME NEW l, l.tid \in Nat, NEW may, NEW p, Moves(l, p, may)
    PROVE  Moves(l, ServiceRetry(p), may)
<1>1. CASE ~(p.retry /\ "try" \in p.due /\ p.transfer # None)
  BY <1>1 DEF ServiceRetry
<1>2. CASE p.retry /\ "try" \in p.due /\ p.transfer # None
  <2>1. p \in LaneT /\ DueOK(p) /\ CoreOK(p)
    BY DEF Moves, Resting, LaneOK
  <2>2. PICK f : f = [p EXCEPT !.retry = FALSE, !.due = @ \ {"try"}]
    OBVIOUS
  <2>3. /\ f \in LaneT /\ f.queue = p.queue /\ f.transfer = p.transfer /\ f.tid = p.tid
        /\ f.requested = p.requested /\ f.retry = FALSE /\ f.draining = p.draining
        /\ f.outcome = p.outcome /\ f.out = p.out /\ DueOK(f)
    <3> HIDE DEF ToMsg
    <3> QED BY <2>1, <2>2 DEF LaneT, DueOK
  <2>4. Sorted(f.queue) /\ f.draining <= f.tid /\ ~f.requested
    BY <1>2, <2>1, <2>3 DEF CoreOK
  <2>5. Moves(l, f, may)
    BY <2>3, <2>4, Requeued
  <2>6. Allowed(TRUE, l, may) /\ TRUE \in BOOLEAN /\ Store(p.transfer) \in Stores
    <3>1. may /\ p.tid = l.tid /\ l.tid # 0
      BY <1>2, <2>1 DEF Moves, Resting, CoreOK
    <3> QED BY <3>1, StoreIs DEF Allowed
  <2>7. Moves(l, Trigger(f, Store(p.transfer), TRUE), may)
    BY <2>5, <2>6, TriggerKeeps
  <2>8. ServiceRetry(p) = Trigger(f, Store(p.transfer), TRUE)
    BY <1>2, <2>2 DEF ServiceRetry
  <2> QED BY <2>7, <2>8
<1> QED BY <1>1, <1>2

\* The courtesy pause is over, or no one needs it any more.
LEMMA YieldServiced ==
    ASSUME NEW l, l.tid \in Nat, NEW may, NEW p, Moves(l, p, may)
    PROVE  Moves(l, ServiceYield(p), may)
<1>1. p \in LaneT /\ DueOK(p) /\ "still" \in Stores
  BY DEF Moves, Resting, LaneOK, Stores
<1>2. PICK h : h = [p EXCEPT !.yield = "no", !.due = @ \ {"yield"}]
  OBVIOUS
<1>3. h \in LaneT /\ SameCore(p, h) /\ DueOK(h) /\ h.out = p.out
  <2> HIDE DEF ToMsg
  <2> QED BY <1>1, <1>2 DEF LaneT, SameCore, DueOK
<1>4. Moves(l, h, may)
  BY <1>3, Beside
<1>5. Moves(l, Trigger(p, "still", FALSE), may) /\ Moves(l, Wants(p, "other"), may)
  BY <1>1, Triggers, WantsKeep
<1>6. ServiceYield(p) \in {p, h, Trigger(p, "still", FALSE), Wants(p, "other")}
  <2>1. CASE p.yield = "no"
    BY <2>1 DEF ServiceYield
  <2>2. CASE p.yield # "no" /\ p.queue["still"] = <<>>
    BY <1>2, <2>2 DEF ServiceYield
  <2>3. CASE p.yield # "no" /\ p.queue["still"] # <<>> /\ (p.requested \/ p.locks \/ p.foreign)
    BY <2>3 DEF ServiceYield
  <2>4. CASE p.yield # "no" /\ p.queue["still"] # <<>> /\ ~(p.requested \/ p.locks \/ p.foreign)
    BY <2>4 DEF ServiceYield
  <2> QED BY <2>1, <2>2, <2>3, <2>4
<1> QED BY <1>4, <1>5, <1>6

\* _service_yields
LEMMA WakeupMoves ==
    ASSUME NEW l, LaneOK(l), l.out = <<>>
    PROVE  Moves(l, OnWakeup(l), Resting(l))
<1>1. l.tid \in Nat /\ Moves(l, l, Resting(l))
  BY Stays
<1> QED BY <1>1, DrainServiced, RetryServiced, YieldServiced DEF OnWakeup

\* A task joins its queue.
LEMMA Joins ==
    ASSUME NEW l, LaneOK(l), l.out = <<>>, NEW t \in Tasks
    PROVE  LET h == [l EXCEPT !.queue[Store(t)] = Append(@, t), !.outcome[t] = "queued"] IN
           /\ Moves(l, h, Resting(l)) /\ h.transfer = l.transfer /\ h.retry = l.retry
           /\ h.draining = l.draining /\ h.locks = l.locks /\ h.out = l.out
<1> HIDE DEF ToMsg
<1>1. l \in LaneT /\ DueOK(l) /\ CoreOK(l) /\ l.tid \in Nat /\ Moves(l, l, Resting(l))
  BY Stays DEF LaneOK
<1>2. PICK s \in Stores : s = Store(t)
  BY StoreIs
<1>3. PICK Q : Q = [l.queue EXCEPT ![s] = Append(@, t)]
  OBVIOUS
<1>4. l.queue \in [Stores -> Seq(Tasks)]
  BY <1>1 DEF LaneT
<1>5. /\ Q \in [Stores -> Seq(Tasks)] /\ Q[s] = Append(l.queue[s], t)
      /\ \A o \in Stores : o # s => Q[o] = l.queue[o]
  BY <1>3, <1>4
<1>6. Sorted(Q)
  <2> SUFFICES ASSUME NEW o \in Stores, NEW i \in 1..Len(Q[o]) PROVE Store(Q[o][i]) = o
    BY DEF Sorted
  <2>1. CASE o = s
    <3>1. PICK q \in Seq(Tasks) : q = l.queue[s]
      BY <1>4
    <3>2. (i \in 1..Len(q) /\ Append(q, t)[i] = q[i]) \/ Append(q, t)[i] = t
      BY <1>5, <2>1, <3>1
    <3>3. \A j \in 1..Len(q) : Store(q[j]) = s
      BY <1>1, <3>1 DEF CoreOK, Sorted
    <3>4. Q[o] = Append(q, t)
      BY <1>5, <2>1, <3>1
    <3> QED BY <1>2, <2>1, <3>2, <3>3, <3>4
  <2>2. CASE o # s
    BY <1>1, <1>5, <2>2 DEF CoreOK, Sorted
  <2> QED BY <2>1, <2>2
<1>7. \A o \in Stores : l.queue[o] # <<>> => Q[o] # <<>> /\ Q[o][1] = l.queue[o][1]
  <2> TAKE o \in Stores
  <2>1. CASE o = s
    <3>1. PICK q \in Seq(Tasks) : q = l.queue[s]
      BY <1>4
    <3>2. q # <<>> => Append(q, t) # <<>> /\ Append(q, t)[1] = q[1]
      OBVIOUS
    <3> QED BY <1>5, <2>1, <3>1, <3>2
  <2>2. CASE o # s
    BY <1>5, <2>2
  <2> QED BY <2>1, <2>2
<1>8. PICK O : O = [l.outcome EXCEPT ![t] = "queued"]
  OBVIOUS
<1>9. /\ O \in [Tasks -> {"new", "queued", "done", "failed", "gone"}]
      /\ \A u \in Tasks : O[u] = "done" => l.outcome[u] = "done"
  BY <1>1, <1>8 DEF LaneT
<1>10. PICK h : h = [l EXCEPT !.queue = Q, !.outcome = O]
  OBVIOUS
<1>11. /\ h \in LaneT /\ h.queue = Q /\ h.transfer = l.transfer /\ h.tid = l.tid
       /\ h.requested = l.requested /\ h.retry = l.retry /\ h.draining = l.draining
       /\ h.outcome = O /\ h.out = l.out /\ h.locks = l.locks /\ DueOK(h)
  BY <1>1, <1>5, <1>9, <1>10 DEF LaneT, DueOK
<1>12. CoreOK(h)
  <2>1. Store(l.transfer) \in Stores
    BY StoreIs
  <2>2. /\ h.draining <= h.tid /\ Sorted(h.queue) /\ h.transfer \notin Clears
        /\ (h.transfer # None => h.tid # 0) /\ (h.retry => h.tid # 0)
    BY <1>1, <1>6, <1>11 DEF CoreOK
  <2>3. h.requested => /\ h.transfer # None /\ l.queue[Store(l.transfer)] # <<>>
                       /\ l.queue[Store(l.transfer)][1] = l.transfer /\ h.draining = 0 /\ ~h.retry
    BY <1>1, <1>11 DEF CoreOK
  <2>4. h.requested => h.queue[Store(h.transfer)] # <<>> /\ h.queue[Store(h.transfer)][1] = h.transfer
    BY <1>7, <1>11, <2>1, <2>3
  <2> QED BY <2>2, <2>3, <2>4 DEF CoreOK
<1>13. Moves(l, h, Resting(l))
  BY <1>9, <1>11, <1>12 DEF Moves, Resting, LaneOK, NoAsk
<1>14. h = [l EXCEPT !.queue[Store(t)] = Append(@, t), !.outcome[t] = "queued"]
  BY <1>2, <1>3, <1>8, <1>10
<1> QED BY <1>11, <1>13, <1>14

\* A task is queued.
LEMMA QueuedMoves ==
    ASSUME NEW l, LaneOK(l), l.out = <<>>, NEW t \in Tasks
    PROVE  Moves(l, Queue(l, t), Resting(l))
<1>1. PICK h : h = [l EXCEPT !.queue[Store(t)] = Append(@, t), !.outcome[t] = "queued"]
  OBVIOUS
<1>2. Moves(l, h, Resting(l)) /\ l.tid \in Nat
  BY <1>1, Joins DEF LaneOK, LaneT
<1>3. Queue(l, t) = Trigger(h, Store(t), FALSE)
  BY <1>1 DEF Queue
<1> QED BY <1>2, <1>3, StoreIs, Triggers

\* All queues are emptied.
LEMMA EmptiedIs ==
    ASSUME NEW l, LaneOK(l), l.out = <<>>
    PROVE  LET h == Emptied(l) IN
           /\ h \in LaneT /\ DueOK(h) /\ Sorted(h.queue) /\ h.transfer = None /\ h.tid = l.tid
           /\ h.requested = FALSE /\ h.retry = FALSE /\ h.draining = l.draining /\ h.locks = l.locks
           /\ h.outcome = l.outcome /\ h.out = <<>>
<1> HIDE DEF ToMsg
<1>1. l \in LaneT /\ DueOK(l)
  BY DEF LaneOK
<1>2. PICK Q : Q = [s \in Stores |-> <<>>]
  OBVIOUS
<1>3. Q \in [Stores -> Seq(Tasks)] /\ Sorted(Q)
  BY <1>2 DEF Sorted
<1>4. PICK h : h = [l EXCEPT !.queue = Q, !.transfer = None, !.requested = FALSE,
                             !.retry = FALSE, !.asked = FALSE, !.due = @ \ {"try", "asked"}]
  OBVIOUS
<1>5. h = Emptied(l)
  BY <1>2, <1>4 DEF Emptied
<1>6. /\ h \in LaneT /\ h.queue = Q /\ h.transfer = None /\ h.tid = l.tid /\ h.requested = FALSE
      /\ h.retry = FALSE /\ h.draining = l.draining /\ h.outcome = l.outcome /\ h.out = <<>> /\ DueOK(h)
      /\ h.locks = l.locks
  BY <1>1, <1>3, <1>4 DEF LaneT, DueOK
<1> QED BY <1>3, <1>5, <1>6

\* abort_transfers
LEMMA AbortMoves ==
    ASSUME NEW l, LaneOK(l), l.out = <<>>, NEW heard \in BOOLEAN
    PROVE  Moves(l, Abort(l, heard), Resting(l))
<1> HIDE DEF ToMsg
<1>1. l.tid \in Nat /\ l.draining <= l.tid
  BY DEF LaneOK, LaneT, CoreOK
<1>2. PICK e : e = Emptied(l)
  OBVIOUS
<1>3. /\ e \in LaneT /\ DueOK(e) /\ Sorted(e.queue) /\ e.transfer = None /\ e.tid = l.tid
      /\ e.requested = FALSE /\ e.retry = FALSE /\ e.draining = l.draining
      /\ e.outcome = l.outcome /\ e.out = <<>>
  BY <1>2, EmptiedIs
<1>4. None \notin Clears
  BY LaneAssumption DEF Tasks
<1>5. CoreOK(e)
  BY <1>1, <1>3, <1>4 DEF CoreOK
<1>6. Moves(l, e, Resting(l))
  BY <1>3, <1>5 DEF Moves, Resting, LaneOK, NoAsk
<1>7. CASE CanDrain(l) /\ heard
  <2>1. PICK h : h = [e EXCEPT !.draining = l.tid, !.due = @ \ {"drain"}]
    OBVIOUS
  <2>2. /\ h \in LaneT /\ h.queue = e.queue /\ h.transfer = None /\ h.tid = l.tid
        /\ h.requested = FALSE /\ h.retry = FALSE /\ h.draining = l.tid
        /\ h.outcome = l.outcome /\ h.out = <<>> /\ DueOK(h)
    BY <1>1, <1>3, <2>1 DEF LaneT, DueOK
  <2>3. CoreOK(h)
    BY <1>1, <1>3, <1>4, <2>2 DEF CoreOK
  <2>4. Moves(l, h, Resting(l))
    BY <2>2, <2>3 DEF Moves, Resting, LaneOK, NoAsk
  <2>5. Abort(l, heard) = Wants(h, "other")
    BY <1>2, <1>7, <2>1 DEF Abort
  <2> QED BY <2>4, <2>5, WantsKeep
<1>8. CASE ~(CanDrain(l) /\ heard)
  <2>1. Abort(l, heard) = GiveLockBack(e)
    BY <1>2, <1>8 DEF Abort
  <2> QED BY <1>6, <2>1, GiveLockBackKeeps
<1> QED BY <1>7, <1>8

\* A caller is told that it is over.
LEMMA ToldOne ==
    ASSUME NEW l, NEW may, NEW p, Moves(l, p, may), NEW t \in Tasks, NEW o \in {"gone", "done"},
           o = "done" => t \in Clears
    PROVE  Moves(l, [p EXCEPT !.outcome[t] = o], may)
<1> HIDE DEF ToMsg
<1>1. p \in LaneT /\ DueOK(p) /\ CoreOK(p)
  BY DEF Moves, Resting, LaneOK
<1>2. PICK O : O = [p.outcome EXCEPT ![t] = o]
  OBVIOUS
<1>3. /\ O \in [Tasks -> {"new", "queued", "done", "failed", "gone"}]
      /\ \A u \in Tasks \ Clears : O[u] = "done" => p.outcome[u] = "done"
  BY <1>1, <1>2 DEF LaneT
<1>4. PICK h : h = [p EXCEPT !.outcome = O]
  OBVIOUS
<1>5. /\ h \in LaneT /\ h.queue = p.queue /\ h.transfer = p.transfer /\ h.tid = p.tid
      /\ h.requested = p.requested /\ h.retry = p.retry /\ h.draining = p.draining
      /\ h.outcome = O /\ h.out = p.out /\ DueOK(h)
  BY <1>1, <1>3, <1>4 DEF LaneT, DueOK
<1>6. CoreOK(h)
  BY <1>1, <1>5 DEF CoreOK
<1>7. \A u \in Tasks \ Clears : h.outcome[u] = "done" => l.outcome[u] = "done"
  BY <1>3, <1>5 DEF Moves, Resting
<1>8. Moves(l, h, may)
  BY <1>5, <1>6, <1>7 DEF Moves, Resting, LaneOK
<1>9. [p EXCEPT !.outcome[t] = o] = h
  BY <1>2, <1>4
<1> QED BY <1>8, <1>9

\* dequeue_clear: a clear is never what is under way.
LEMMA DequeueMoves ==
    ASSUME NEW l, LaneOK(l), l.out = <<>>, NEW t \in Clears
    PROVE  Moves(l, Dequeue(l, t), Resting(l))
<1> HIDE DEF ToMsg
<1>1. l \in LaneT /\ DueOK(l) /\ CoreOK(l) /\ "still" \in Stores /\ l.queue \in [Stores -> Seq(Tasks)]
  BY DEF LaneOK, LaneT, Stores
<1>2. PICK q \in Seq(Tasks) : q = l.queue["still"]
  BY <1>1
<1>3. PICK r : r = RemoveFirst(q, t)
  OBVIOUS
<1>4. /\ r \in Seq(Tasks) /\ \A j \in 1..Len(r) : \E k \in 1..Len(q) : r[j] = q[k]
      /\ q # <<>> /\ q[1] # t => r # <<>> /\ r[1] = q[1]
  BY <1>3, Removed
<1>5. PICK Q : Q = [l.queue EXCEPT !["still"] = r]
  OBVIOUS
<1>6. Q \in [Stores -> Seq(Tasks)] /\ Q["still"] = r /\ \A o \in Stores : o # "still" => Q[o] = l.queue[o]
  BY <1>1, <1>4, <1>5
<1>7. Sorted(Q)
  <2> SUFFICES ASSUME NEW o \in Stores, NEW i \in 1..Len(Q[o]) PROVE Store(Q[o][i]) = o
    BY DEF Sorted
  <2>1. CASE o = "still"
    <3>1. \A k \in 1..Len(q) : Store(q[k]) = "still"
      BY <1>1, <1>2 DEF CoreOK, Sorted
    <3>2. i \in 1..Len(r) /\ Q[o] = r
      BY <1>6, <2>1
    <3> QED BY <1>4, <2>1, <3>1, <3>2
  <2>2. CASE o # "still"
    BY <1>1, <1>6, <2>2 DEF CoreOK, Sorted
  <2> QED BY <2>1, <2>2
<1>8. PICK h : h = [l EXCEPT !.queue = Q]
  OBVIOUS
<1>9. /\ h \in LaneT /\ h.queue = Q /\ h.transfer = l.transfer /\ h.tid = l.tid
      /\ h.requested = l.requested /\ h.retry = l.retry /\ h.draining = l.draining
      /\ h.outcome = l.outcome /\ h.out = l.out /\ DueOK(h)
  BY <1>1, <1>6, <1>8 DEF LaneT, DueOK
<1>10. CoreOK(h)
  <2>1. Store(l.transfer) \in Stores /\ l.transfer \notin Clears
    BY <1>1, StoreIs DEF CoreOK
  <2>2. /\ h.draining <= h.tid /\ Sorted(h.queue) /\ h.transfer \notin Clears
        /\ (h.transfer # None => h.tid # 0) /\ (h.retry => h.tid # 0)
    BY <1>1, <1>7, <1>9 DEF CoreOK
  <2>3. h.requested => /\ h.transfer # None /\ l.queue[Store(l.transfer)] # <<>>
                       /\ l.queue[Store(l.transfer)][1] = l.transfer /\ h.draining = 0 /\ ~h.retry
    BY <1>1, <1>9 DEF CoreOK
  <2>4. h.requested => h.queue[Store(h.transfer)] # <<>> /\ h.queue[Store(h.transfer)][1] = h.transfer
    <3>1. CASE Store(l.transfer) = "still"
      BY <1>2, <1>4, <1>6, <1>9, <2>1, <2>3, <3>1
    <3>2. CASE Store(l.transfer) # "still"
      BY <1>6, <1>9, <2>1, <2>3, <3>2
    <3> QED BY <3>1, <3>2
  <2> QED BY <2>2, <2>3, <2>4 DEF CoreOK
<1>11. Moves(l, h, Resting(l))
  BY <1>9, <1>10 DEF Moves, Resting, LaneOK, NoAsk
<1>12. Dequeue(l, t) = h
  BY <1>2, <1>3, <1>5, <1>8 DEF Dequeue
<1> QED BY <1>11, <1>12

\* _reset_transfer_lane: nothing of the session is left but the numbers.
LEMMA ResetIs ==
    ASSUME NEW l, LaneOK(l), l.out = <<>>, l.wants = {}
    PROVE  LET h == Reset(l) IN
           /\ LaneOK(h) /\ h.out = <<>> /\ h.wants = {} /\ h.tid = l.tid /\ h.transfer = None /\ ~h.retry
           /\ ~h.requested /\ h.draining = 0 /\ \A t \in Tasks : h.outcome[t] = "done" => l.outcome[t] = "done"
<1> HIDE DEF ToMsg
<1>1. PICK e : e = Emptied(l)
  OBVIOUS
<1>2. /\ e \in LaneT /\ DueOK(e) /\ Sorted(e.queue) /\ e.transfer = None /\ e.tid = l.tid
      /\ e.requested = FALSE /\ e.retry = FALSE /\ e.outcome = l.outcome /\ e.out = <<>>
  BY <1>1, EmptiedIs
<1>3. e.wants = {}
  <2>1. l \in LaneT
    BY DEF LaneOK
  <2> QED BY <1>1, <2>1 DEF Emptied, LaneT
<1>4. PICK O : O = [t \in Tasks |-> IF e.outcome[t] = "queued" THEN "gone" ELSE e.outcome[t]]
  OBVIOUS
<1>5. /\ O \in [Tasks -> {"new", "queued", "done", "failed", "gone"}]
      /\ \A t \in Tasks : O[t] = "done" => l.outcome[t] = "done"
  BY <1>2, <1>4 DEF LaneT
<1>6. PICK h : h = [e EXCEPT !.outcome = O, !.locks = FALSE, !.foreign = FALSE, !.yield = "no",
                             !.draining = 0, !.due = {}]
  OBVIOUS
<1>7. /\ h \in LaneT /\ h.queue = e.queue /\ h.transfer = None /\ h.tid = l.tid /\ h.requested = FALSE
      /\ h.retry = FALSE /\ h.draining = 0 /\ h.outcome = O /\ h.out = <<>> /\ h.wants = {} /\ h.due = {}
  BY <1>2, <1>3, <1>5, <1>6 DEF LaneT
<1>8. CoreOK(h)
  <2>1. l.tid \in Nat /\ None \notin Clears
    BY LaneAssumption DEF LaneOK, LaneT, Tasks
  <2> QED BY <1>2, <1>7, <2>1 DEF CoreOK
<1>9. DueOK(h)
  BY <1>7 DEF DueOK
<1>10. Reset(l) = h
  <2>1. AllGone(e) = [e EXCEPT !.outcome = O]
    BY <1>4 DEF AllGone
  <2> QED BY <1>1, <1>6, <2>1 DEF Reset
<1> QED BY <1>5, <1>7, <1>8, <1>9, <1>10 DEF LaneOK

---------------------------------------------------------------------------
(* What is on its way *)

Jobs == [tid : Nat, task : Tasks \cup {None}, data : BOOLEAN]

\* A request, and what ends a transfer
IsRequest(m, id) == m.type = "request" /\ m.tid = id
Final(m) == m.type \in {"FTDE", "FTDC"}
IsEnd(m, id) == Final(m) /\ m.tid = id

\* Nothing of the number id is on its way.
Free(S, C, J, id) ==
    /\ \A i \in 1..Len(S) : ~IsRequest(S[i], id)
    /\ J.tid # id
    /\ \A i \in 1..Len(C) : ~IsEnd(C[i], id)

\* At most one thing of the number id is: its request, its transfer in the engine, or its end.
AtMostOne(S, C, J, id) ==
    /\ \A i, j \in 1..Len(S) : IsRequest(S[i], id) /\ IsRequest(S[j], id) => i = j
    /\ \A i, j \in 1..Len(C) : IsEnd(C[i], id) /\ IsEnd(C[j], id) => i = j
    /\ \A i \in 1..Len(S) : IsRequest(S[i], id) => J.tid # id /\ \A j \in 1..Len(C) : ~IsEnd(C[j], id)
    /\ J.tid = id => \A j \in 1..Len(C) : ~IsEnd(C[j], id)

\* It is of the task t, which has been carried out once its FTDC is on the way.
OfTask(S, C, J, D, id, t) ==
    /\ \A i \in 1..Len(S) : IsRequest(S[i], id) => S[i].task = t
    /\ J.tid = id => J.task = t
    /\ \A i \in 1..Len(C) : IsEnd(C[i], id) /\ C[i].type = "FTDC" => t \in D

\* No number is ahead of the lane's.
UpTo(S, C, J, n) ==
    /\ \A i \in 1..Len(S) : S[i].type = "request" => S[i].tid <= n
    /\ J.tid <= n
    /\ \A i \in 1..Len(C) : Final(C[i]) => C[i].tid <= n

Typed(S, C, J) == S \in Seq(ToMsg) /\ C \in Seq(FromMsg) /\ J \in Jobs

Wire(l, S, C, J, D) ==
    /\ Typed(S, C, J) /\ UpTo(S, C, J, l.tid)
    /\ l.tid # 0 => /\ AtMostOne(S, C, J, l.tid)
                    /\ l.transfer # None => OfTask(S, C, J, D, l.tid, l.transfer)
                    /\ Resting(l) => Free(S, C, J, l.tid)

\* A number ahead of the lane's is not on its way.
LEMMA NewIsFree ==
    ASSUME NEW n \in Nat, NEW S, NEW C, NEW J, Typed(S, C, J), UpTo(S, C, J, n)
    PROVE  Free(S, C, J, n + 1)
<1>1. \A i \in 1..Len(S) : ~IsRequest(S[i], n + 1)
  BY DEF UpTo, IsRequest
<1>2. \A i \in 1..Len(C) : ~IsEnd(C[i], n + 1)
  BY DEF UpTo, IsEnd, Final
<1>3. J.tid # n + 1
  BY DEF UpTo
<1> QED BY <1>1, <1>2, <1>3 DEF Free

\* Packets that ask for nothing
LEMMA NothingAsked ==
    ASSUME NEW S \in Seq(ToMsg), NEW o \in Seq(ToMsg), NoAsk(o)
    PROVE  /\ S \o o \in Seq(ToMsg)
           /\ \A i \in 1..Len(S \o o) : (S \o o)[i].type = "request" => i \in 1..Len(S) /\ (S \o o)[i] = S[i]
<1> HIDE DEF ToMsg
<1>1. \A i \in 1..Len(S \o o) : \/ i \in 1..Len(S) /\ (S \o o)[i] = S[i]
                                \/ \E k \in 1..Len(o) : (S \o o)[i] = o[k]
  <2>1. Len(S \o o) = Len(S) + Len(o) /\ Len(S) \in Nat /\ Len(o) \in Nat
    BY ConcatProperties, LenProperties
  <2> TAKE i \in 1..Len(S \o o)
  <2>2. (S \o o)[i] = IF i <= Len(S) THEN S[i] ELSE o[i - Len(S)]
    BY <2>1, ConcatProperties
  <2>3. CASE i <= Len(S)
    BY <2>1, <2>2, <2>3
  <2>4. CASE ~(i <= Len(S))
    <3>1. i - Len(S) \in 1..Len(o)
      BY <2>1, <2>4
    <3> QED BY <2>2, <2>4, <3>1
  <2> QED BY <2>3, <2>4
<1>2. S \o o \in Seq(ToMsg)
  BY ConcatProperties
<1> QED BY <1>1, <1>2 DEF NoAsk

\* Packets with one request at the most
LEMMA OneAsked ==
    ASSUME NEW S \in Seq(ToMsg), NEW o \in Seq(ToMsg), NEW t, NEW id, OneAsk(o, t, id)
    PROVE  LET R == S \o o IN
           /\ R \in Seq(ToMsg)
           /\ \A i \in 1..Len(R) : R[i].type = "request" =>
                 (i \in 1..Len(S) /\ R[i] = S[i]) \/ (i \notin 1..Len(S) /\ R[i] = Request(t, id))
           /\ \A i, j \in 1..Len(R) : R[i].type = "request" /\ R[j].type = "request"
                                      /\ i \notin 1..Len(S) /\ j \notin 1..Len(S) => i = j
<1> HIDE DEF ToMsg
<1>1. Len(S \o o) = Len(S) + Len(o) /\ Len(S) \in Nat /\ Len(o) \in Nat /\ S \o o \in Seq(ToMsg)
  BY ConcatProperties, LenProperties
<1>2. \A i \in 1..Len(S \o o) : (S \o o)[i] = IF i <= Len(S) THEN S[i] ELSE o[i - Len(S)]
  BY <1>1, ConcatProperties
<1>3. \A i \in 1..Len(S \o o) : i \notin 1..Len(S) => i - Len(S) \in 1..Len(o) /\ (S \o o)[i] = o[i - Len(S)]
  BY <1>1, <1>2
<1>4. \A i \in 1..Len(S \o o) : i \in 1..Len(S) => (S \o o)[i] = S[i]
  BY <1>1, <1>2
<1>5. ASSUME NEW i \in 1..Len(S \o o), (S \o o)[i].type = "request"
      PROVE  \/ i \in 1..Len(S) /\ (S \o o)[i] = S[i]
             \/ i \notin 1..Len(S) /\ (S \o o)[i] = Request(t, id)
  <2>1. CASE i \in 1..Len(S)
    BY <1>4, <2>1
  <2>2. CASE i \notin 1..Len(S)
    <3>1. i - Len(S) \in 1..Len(o) /\ (S \o o)[i] = o[i - Len(S)]
      BY <1>3, <2>2
    <3> QED BY <1>5, <2>2, <3>1 DEF OneAsk
  <2> QED BY <2>1, <2>2
<1>6. ASSUME NEW i \in 1..Len(S \o o), NEW j \in 1..Len(S \o o),
             (S \o o)[i].type = "request", (S \o o)[j].type = "request",
             i \notin 1..Len(S), j \notin 1..Len(S)
      PROVE  i = j
  <2>1. i - Len(S) \in 1..Len(o) /\ (S \o o)[i] = o[i - Len(S)]
    BY <1>3, <1>6
  <2>2. j - Len(S) \in 1..Len(o) /\ (S \o o)[j] = o[j - Len(S)]
    BY <1>3, <1>6
  <2>3. i - Len(S) = j - Len(S)
    BY <1>6, <2>1, <2>2 DEF OneAsk
  <2> QED BY <1>1, <2>3
<1> QED BY <1>1, <1>5, <1>6

\* What a handler of the lane sends keeps the wires as they should be.
LEMMA HandlerSends ==
    ASSUME NEW l, LaneOK(l), NEW S, NEW C, NEW J, NEW D, Wire(l, S, C, J, D),
           NEW may, NEW h, Moves(l, h, may), may /\ l.tid # 0 => Free(S, C, J, l.tid)
    PROVE  Wire(h, S \o h.out, C, J, D)
<1> HIDE DEF ToMsg, FromMsg, Jobs
<1>1. /\ S \in Seq(ToMsg) /\ C \in Seq(FromMsg) /\ J \in Jobs /\ h.out \in Seq(ToMsg)
      /\ h \in LaneT /\ CoreOK(h) /\ l.tid \in Nat /\ h.tid \in Nat /\ UpTo(S, C, J, l.tid)
  BY DEF Wire, Typed, Moves, Resting, LaneOK, LaneT
<1>2. CASE NoAsk(h.out) /\ h.tid = l.tid /\ h.transfer \in {l.transfer, None} /\ (Resting(h) => may)
  <2>1. PICK R \in Seq(ToMsg) :
           /\ R = S \o h.out
           /\ \A i \in 1..Len(R) : R[i].type = "request" => i \in 1..Len(S) /\ R[i] = S[i]
    BY <1>1, <1>2, NothingAsked
  <2>2. UpTo(R, C, J, h.tid)
    BY <1>1, <1>2, <2>1 DEF UpTo
  <2>3. l.tid # 0 => AtMostOne(R, C, J, l.tid)
    BY <2>1 DEF Wire, AtMostOne, IsRequest
  <2>4. l.tid # 0 /\ h.transfer # None => OfTask(R, C, J, D, l.tid, h.transfer)
    BY <1>2, <2>1 DEF Wire, OfTask, IsRequest
  <2>5. l.tid # 0 /\ Resting(h) => Free(R, C, J, l.tid)
    BY <1>2, <2>1 DEF Free, IsRequest
  <2> QED BY <1>1, <1>2, <2>1, <2>2, <2>3, <2>4, <2>5 DEF Wire, Typed
<1>3. CASE OneAsk(h.out, h.transfer, h.tid) /\ h.requested /\ (h.tid = l.tid + 1 \/ (h.tid = l.tid /\ may))
  <2>1. ~h.retry /\ h.transfer # None /\ h.tid # 0
    BY <1>1, <1>3 DEF CoreOK
  <2>2. PICK n \in Nat : n = h.tid
    BY <1>1
  <2>3. Free(S, C, J, n) /\ l.tid <= n
    BY <1>1, <1>3, <2>1, <2>2, NewIsFree DEF Wire
  <2>4. PICK t : t = h.transfer
    OBVIOUS
  <2>5. PICK R \in Seq(ToMsg) :
           /\ R = S \o h.out
           /\ \A i \in 1..Len(R) : R[i].type = "request" =>
                 (i \in 1..Len(S) /\ R[i] = S[i]) \/ (i \notin 1..Len(S) /\ R[i] = Request(t, n))
           /\ \A i, j \in 1..Len(R) : R[i].type = "request" /\ R[j].type = "request"
                                      /\ i \notin 1..Len(S) /\ j \notin 1..Len(S) => i = j
    <3>1. OneAsk(h.out, t, n)
      BY <1>3, <2>2, <2>4
    <3>2. LET R == S \o h.out IN
          /\ R \in Seq(ToMsg)
          /\ \A i \in 1..Len(R) : R[i].type = "request" =>
                (i \in 1..Len(S) /\ R[i] = S[i]) \/ (i \notin 1..Len(S) /\ R[i] = Request(t, n))
          /\ \A i, j \in 1..Len(R) : R[i].type = "request" /\ R[j].type = "request"
                                     /\ i \notin 1..Len(S) /\ j \notin 1..Len(S) => i = j
      BY <1>1, <3>1, OneAsked
    <3> QED BY <3>2, Zenon
  <2>6. Request(t, n).tid = n /\ Request(t, n).task = t
    BY DEF Request
  <2>7. UpTo(R, C, J, n)
    <3>1. ASSUME NEW i \in 1..Len(R), R[i].type = "request" PROVE R[i].tid <= n
      <4>1. CASE i \in 1..Len(S) /\ R[i] = S[i]
        <5>1. S[i] \in ToMsg /\ S[i].type = "request" /\ S[i].tid <= l.tid
          BY <1>1, <3>1, <4>1 DEF UpTo
        <5>2. S[i].tid \in Nat
          BY <5>1 DEF ToMsg
        <5> QED BY <1>1, <2>3, <4>1, <5>1, <5>2
      <4>2. CASE R[i] = Request(t, n)
        BY <2>6, <4>2
      <4> QED BY <2>5, <3>1, <4>1, <4>2
    <3>2. J.tid <= n
      <4>1. J.tid \in Nat
        BY <1>1 DEF Jobs
      <4> QED BY <1>1, <2>3, <4>1 DEF UpTo
    <3>3. ASSUME NEW i \in 1..Len(C), Final(C[i]) PROVE C[i].tid <= n
      <4>1. C[i] \in FromMsg /\ C[i].tid <= l.tid
        BY <1>1, <3>3 DEF UpTo
      <4>2. C[i].tid \in Nat
        BY <3>3, <4>1 DEF FromMsg, News, Final
      <4> QED BY <1>1, <2>3, <4>1, <4>2
    <3> QED BY <3>1, <3>2, <3>3 DEF UpTo
  <2>8. \A i \in 1..Len(R) : IsRequest(R[i], n) => i \notin 1..Len(S) /\ R[i] = Request(t, n)
    BY <2>3, <2>5 DEF Free, IsRequest
  <2>9. AtMostOne(R, C, J, n)
    <3>1. \A i, j \in 1..Len(R) : IsRequest(R[i], n) /\ IsRequest(R[j], n) => i = j
      BY <2>5, <2>8 DEF IsRequest
    <3> QED BY <2>3, <3>1 DEF AtMostOne, Free
  <2>10. OfTask(R, C, J, D, n, t)
    BY <2>3, <2>6, <2>8 DEF OfTask, Free
  <2>11. ~Resting(h)
    BY <1>3, <2>1 DEF Resting
  <2> QED BY <1>1, <2>1, <2>2, <2>4, <2>5, <2>7, <2>9, <2>10, <2>11 DEF Wire, Typed
<1> QED BY <1>2, <1>3 DEF Moves, Resting

\* The wires see no more of the lane than its transfer and the number of it.
LEMMA WireSeesNoMore ==
    ASSUME NEW l, NEW S, NEW C, NEW J, NEW D, Wire(l, S, C, J, D),
           NEW h, h.tid = l.tid, h.transfer \in {l.transfer, None}, Resting(h) => Resting(l)
    PROVE  Wire(h, S, C, J, D)
BY DEF Wire

\* The elements of a tail
LEMMA TailIs ==
    ASSUME NEW M, NEW q \in Seq(M), q # <<>>
    PROVE  /\ Head(q) = q[1] /\ q[1] \in M /\ 1 \in 1..Len(q) /\ Tail(q) \in Seq(M)
           /\ \A i \in 1..Len(Tail(q)) : i + 1 \in 1..Len(q) /\ i + 1 # 1 /\ Tail(q)[i] = q[i + 1]
           /\ \A i, j \in 1..Len(Tail(q)) : i + 1 = j + 1 => i = j
OBVIOUS

\* The client takes a packet; if it ends the transfer of the lane's number, nothing of that is left.
LEMMA PacketTaken ==
    ASSUME NEW l, NEW S, NEW C, NEW J, NEW D, Wire(l, S, C, J, D), C # <<>>
    PROVE  /\ Wire(l, S, Tail(C), J, D)
           /\ l.tid # 0 /\ IsEnd(Head(C), l.tid) =>
                 /\ Free(S, Tail(C), J, l.tid)
                 /\ l.transfer # None /\ Head(C).type = "FTDC" => l.transfer \in D
<1> HIDE DEF ToMsg, FromMsg, Jobs
<1>1. S \in Seq(ToMsg) /\ C \in Seq(FromMsg) /\ J \in Jobs /\ UpTo(S, C, J, l.tid)
  BY DEF Wire, Typed
<1>2. PICK T \in Seq(FromMsg) :
         /\ T = Tail(C) /\ Head(C) = C[1] /\ 1 \in 1..Len(C)
         /\ \A i \in 1..Len(T) : i + 1 \in 1..Len(C) /\ i + 1 # 1 /\ T[i] = C[i + 1]
         /\ \A i, j \in 1..Len(T) : i + 1 = j + 1 => i = j
  BY <1>1, TailIs
<1>3. UpTo(S, T, J, l.tid)
  BY <1>1, <1>2 DEF UpTo
<1>4. ASSUME l.tid # 0 PROVE AtMostOne(S, T, J, l.tid)
  BY <1>2, <1>4 DEF Wire, AtMostOne
<1>5. ASSUME l.tid # 0, l.transfer # None PROVE OfTask(S, T, J, D, l.tid, l.transfer)
  BY <1>2, <1>5 DEF Wire, OfTask
<1>6. ASSUME l.tid # 0, Resting(l) PROVE Free(S, T, J, l.tid)
  BY <1>2, <1>6 DEF Wire, Free
<1>7. Wire(l, S, T, J, D)
  BY <1>1, <1>2, <1>3, <1>4, <1>5, <1>6 DEF Wire, Typed
<1>8. ASSUME l.tid # 0, IsEnd(Head(C), l.tid) PROVE Free(S, T, J, l.tid)
  <2>1. IsEnd(C[1], l.tid) /\ 1 \in 1..Len(C) /\ AtMostOne(S, C, J, l.tid)
    BY <1>2, <1>8 DEF Wire
  <2>2. \A i \in 1..Len(T) : ~IsEnd(T[i], l.tid)
    BY <1>2, <2>1 DEF AtMostOne
  <2>3. J.tid # l.tid /\ \A i \in 1..Len(S) : ~IsRequest(S[i], l.tid)
    BY <2>1 DEF AtMostOne
  <2> QED BY <2>2, <2>3 DEF Free
<1>9. ASSUME l.tid # 0, IsEnd(Head(C), l.tid), l.transfer # None, Head(C).type = "FTDC" PROVE l.transfer \in D
  BY <1>2, <1>9 DEF Wire, OfTask
<1> QED BY <1>2, <1>7, <1>8, <1>9

\* The switcher takes a packet; after the request of the lane's number nothing of that is left.
LEMMA PacketHeard ==
    ASSUME NEW l, NEW S, NEW C, NEW J, NEW D, Wire(l, S, C, J, D), S # <<>>
    PROVE  /\ Wire(l, Tail(S), C, J, D)
           /\ Head(S).type = "request" => Head(S).tid <= l.tid
           /\ l.tid # 0 /\ IsRequest(Head(S), l.tid) =>
                 /\ Free(Tail(S), C, J, l.tid) /\ ~Resting(l)
                 /\ l.transfer # None => Head(S).task = l.transfer
<1> HIDE DEF ToMsg, FromMsg, Jobs
<1>1. S \in Seq(ToMsg) /\ C \in Seq(FromMsg) /\ J \in Jobs /\ UpTo(S, C, J, l.tid)
  BY DEF Wire, Typed
<1>2. PICK T \in Seq(ToMsg) :
         /\ T = Tail(S) /\ Head(S) = S[1] /\ 1 \in 1..Len(S)
         /\ \A i \in 1..Len(T) : i + 1 \in 1..Len(S) /\ i + 1 # 1 /\ T[i] = S[i + 1]
         /\ \A i, j \in 1..Len(T) : i + 1 = j + 1 => i = j
  BY <1>1, TailIs
<1>3. UpTo(T, C, J, l.tid)
  BY <1>1, <1>2 DEF UpTo
<1>4. ASSUME l.tid # 0 PROVE AtMostOne(T, C, J, l.tid)
  BY <1>2, <1>4 DEF Wire, AtMostOne
<1>5. ASSUME l.tid # 0, l.transfer # None PROVE OfTask(T, C, J, D, l.tid, l.transfer)
  BY <1>2, <1>5 DEF Wire, OfTask
<1>6. ASSUME l.tid # 0, Resting(l) PROVE Free(T, C, J, l.tid)
  BY <1>2, <1>6 DEF Wire, Free
<1>7. Wire(l, T, C, J, D)
  BY <1>1, <1>2, <1>3, <1>4, <1>5, <1>6 DEF Wire, Typed
<1>8. Head(S).type = "request" => Head(S).tid <= l.tid
  BY <1>1, <1>2 DEF UpTo
<1>9. ASSUME l.tid # 0, IsRequest(Head(S), l.tid)
      PROVE  Free(T, C, J, l.tid) /\ ~Resting(l) /\ (l.transfer # None => Head(S).task = l.transfer)
  <2>1. IsRequest(S[1], l.tid) /\ 1 \in 1..Len(S) /\ AtMostOne(S, C, J, l.tid)
    BY <1>2, <1>9 DEF Wire
  <2>2. \A i \in 1..Len(T) : ~IsRequest(T[i], l.tid)
    BY <1>2, <2>1 DEF AtMostOne
  <2>3. J.tid # l.tid /\ \A i \in 1..Len(C) : ~IsEnd(C[i], l.tid)
    BY <2>1 DEF AtMostOne
  <2>4. ~Resting(l)
    BY <1>9, <2>1 DEF Wire, Free
  <2>5. l.transfer # None => Head(S).task = l.transfer
    BY <1>2, <1>9, <2>1 DEF Wire, OfTask
  <2> QED BY <2>2, <2>3, <2>4, <2>5 DEF Free
<1> QED BY <1>2, <1>7, <1>8, <1>9

\* Packets that end no transfer of ours arrive.
LEMMA Arrive ==
    ASSUME NEW l, l.tid \in Nat, NEW S, NEW C, NEW J, NEW D, Wire(l, S, C, J, D),
           NEW E \in Seq(FromMsg), \A k \in 1..Len(E) : Final(E[k]) => E[k].tid = 0
    PROVE  Wire(l, S, C \o E, J, D)
<1> HIDE DEF ToMsg, FromMsg, Jobs
<1>1. S \in Seq(ToMsg) /\ C \in Seq(FromMsg) /\ J \in Jobs /\ UpTo(S, C, J, l.tid)
  BY DEF Wire, Typed
<1>2. PICK R \in Seq(FromMsg) :
         /\ R = C \o E
         /\ \A i \in 1..Len(R) : \/ i \in 1..Len(C) /\ R[i] = C[i]
                                 \/ Final(R[i]) => R[i].tid = 0
  <2>1. Len(C \o E) = Len(C) + Len(E) /\ Len(C) \in Nat /\ Len(E) \in Nat /\ C \o E \in Seq(FromMsg)
    BY <1>1, ConcatProperties, LenProperties
  <2>2. ASSUME NEW i \in 1..Len(C \o E)
        PROVE  \/ i \in 1..Len(C) /\ (C \o E)[i] = C[i]
               \/ Final((C \o E)[i]) => (C \o E)[i].tid = 0
    <3>1. (C \o E)[i] = IF i <= Len(C) THEN C[i] ELSE E[i - Len(C)]
      BY <1>1, <2>1, ConcatProperties
    <3>2. CASE i <= Len(C)
      BY <2>1, <3>1, <3>2
    <3>3. CASE ~(i <= Len(C))
      <4>1. i - Len(C) \in 1..Len(E) /\ (C \o E)[i] = E[i - Len(C)]
        BY <2>1, <3>1, <3>3
      <4> QED BY <4>1
    <3> QED BY <3>2, <3>3
  <2> QED BY <2>1, <2>2
<1>3. UpTo(S, R, J, l.tid)
  BY <1>1, <1>2 DEF UpTo
<1>4. l.tid # 0 => \A i \in 1..Len(R) : IsEnd(R[i], l.tid) => i \in 1..Len(C) /\ R[i] = C[i]
  BY <1>2 DEF IsEnd
<1>5. ASSUME l.tid # 0 PROVE AtMostOne(S, R, J, l.tid)
  BY <1>4, <1>5 DEF Wire, AtMostOne
<1>6. ASSUME l.tid # 0, l.transfer # None PROVE OfTask(S, R, J, D, l.tid, l.transfer)
  BY <1>4, <1>6 DEF Wire, OfTask
<1>7. ASSUME l.tid # 0, Resting(l) PROVE Free(S, R, J, l.tid)
  BY <1>4, <1>7 DEF Wire, Free
<1> QED BY <1>1, <1>2, <1>3, <1>5, <1>6, <1>7 DEF Wire, Typed

\* The end of a transfer is sent, when nothing else of its number is on the way.
LEMMA EndSent ==
    ASSUME NEW l, l.tid \in Nat, NEW S, NEW C, NEW J, NEW D, Wire(l, S, C, J, D),
           NEW m \in FromMsg, Final(m), m.tid <= l.tid,
           l.tid # 0 /\ m.tid = l.tid =>
              /\ Free(S, C, J, l.tid) /\ ~Resting(l)
              /\ m.type = "FTDC" /\ l.transfer # None => l.transfer \in D
    PROVE  Wire(l, S, Append(C, m), J, D)
<1> HIDE DEF ToMsg, FromMsg, Jobs
<1>1. S \in Seq(ToMsg) /\ C \in Seq(FromMsg) /\ J \in Jobs /\ UpTo(S, C, J, l.tid)
  BY DEF Wire, Typed
<1>2. PICK R \in Seq(FromMsg) :
         /\ R = Append(C, m)
         /\ \A i \in 1..Len(R) : \/ i \in 1..Len(C) /\ R[i] = C[i]
                                 \/ i = Len(C) + 1 /\ R[i] = m
  <2>1. Append(C, m) \in Seq(FromMsg) /\ Len(Append(C, m)) = Len(C) + 1 /\ Len(C) \in Nat
    BY <1>1
  <2>2. \A i \in 1..Len(C)+1 : i # Len(C) + 1 => i \in 1..Len(C)
    BY <2>1
  <2>3. \A i \in 1..Len(C)+1 : Append(C, m)[i] = IF i = Len(C) + 1 THEN m ELSE C[i]
    BY <1>1
  <2> QED BY <2>1, <2>2, <2>3
<1>3. UpTo(S, R, J, l.tid)
  BY <1>1, <1>2 DEF UpTo
<1>4. CASE m.tid # l.tid
  <2>1. \A i \in 1..Len(R) : IsEnd(R[i], l.tid) => i \in 1..Len(C) /\ R[i] = C[i]
    BY <1>2, <1>4 DEF IsEnd
  <2>2. ASSUME l.tid # 0 PROVE AtMostOne(S, R, J, l.tid)
    BY <2>1, <2>2 DEF Wire, AtMostOne
  <2>3. ASSUME l.tid # 0, l.transfer # None PROVE OfTask(S, R, J, D, l.tid, l.transfer)
    BY <2>1, <2>3 DEF Wire, OfTask
  <2>4. ASSUME l.tid # 0, Resting(l) PROVE Free(S, R, J, l.tid)
    BY <2>1, <2>4 DEF Wire, Free
  <2> QED BY <1>1, <1>2, <1>3, <2>2, <2>3, <2>4 DEF Wire, Typed
<1>5. CASE m.tid = l.tid
  <2>1. l.tid # 0 => \A i \in 1..Len(R) : IsEnd(R[i], l.tid) => i = Len(C) + 1 /\ R[i] = m
    BY <1>2, <1>5 DEF Free
  <2>2. ASSUME l.tid # 0 PROVE AtMostOne(S, R, J, l.tid)
    BY <1>5, <2>1, <2>2 DEF Free, AtMostOne
  <2>3. ASSUME l.tid # 0, l.transfer # None PROVE OfTask(S, R, J, D, l.tid, l.transfer)
    BY <1>5, <2>1, <2>3 DEF Free, OfTask
  <2> QED BY <1>1, <1>2, <1>3, <1>5, <2>2, <2>3 DEF Wire, Typed
<1> QED BY <1>4, <1>5

\* The engine's transfer is over, or it has its data.
LEMMA EngineGoesOn ==
    ASSUME NEW l, l.tid \in Nat, NEW S, NEW C, NEW J, NEW D, Wire(l, S, C, J, D),
           NEW K \in Jobs, K.tid = 0 \/ (K.tid = J.tid /\ K.task = J.task)
    PROVE  Wire(l, S, C, K, D)
<1> HIDE DEF ToMsg, FromMsg, Jobs
<1>1. S \in Seq(ToMsg) /\ C \in Seq(FromMsg) /\ UpTo(S, C, J, l.tid)
  BY DEF Wire, Typed
<1>2. UpTo(S, C, K, l.tid)
  BY <1>1 DEF UpTo
<1>3. ASSUME l.tid # 0 PROVE AtMostOne(S, C, K, l.tid)
  BY <1>3 DEF Wire, AtMostOne
<1>4. ASSUME l.tid # 0, l.transfer # None PROVE OfTask(S, C, K, D, l.tid, l.transfer)
  BY <1>4 DEF Wire, OfTask
<1>5. ASSUME l.tid # 0, Resting(l) PROVE Free(S, C, K, l.tid)
  BY <1>5 DEF Wire, Free
<1> QED BY <1>1, <1>2, <1>3, <1>4, <1>5 DEF Wire, Typed

\* The idle engine takes up a transfer, when nothing else of its number is on the way.
LEMMA EngineStarts ==
    ASSUME NEW l, l.tid \in Nat, NEW S, NEW C, NEW J, NEW D, Wire(l, S, C, J, D), J.tid = 0,
           NEW K \in Jobs, K.tid <= l.tid,
           l.tid # 0 /\ K.tid = l.tid =>
              Free(S, C, J, l.tid) /\ ~Resting(l) /\ (l.transfer # None => K.task = l.transfer)
    PROVE  Wire(l, S, C, K, D)
<1> HIDE DEF ToMsg, FromMsg, Jobs
<1>1. S \in Seq(ToMsg) /\ C \in Seq(FromMsg) /\ UpTo(S, C, J, l.tid)
  BY DEF Wire, Typed
<1>2. UpTo(S, C, K, l.tid)
  BY <1>1 DEF UpTo
<1>3. ASSUME l.tid # 0 PROVE AtMostOne(S, C, K, l.tid)
  BY <1>3 DEF Wire, AtMostOne, Free
<1>4. ASSUME l.tid # 0, l.transfer # None PROVE OfTask(S, C, K, D, l.tid, l.transfer)
  BY <1>4 DEF Wire, OfTask
<1>5. ASSUME l.tid # 0, Resting(l) PROVE Free(S, C, K, l.tid)
  BY <1>5 DEF Wire, Free
<1> QED BY <1>1, <1>2, <1>3, <1>4, <1>5 DEF Wire, Typed

\* More has been carried out.
LEMMA MoreServed ==
    ASSUME NEW l, NEW S, NEW C, NEW J, NEW D, Wire(l, S, C, J, D), NEW E, D \subseteq E
    PROVE  Wire(l, S, C, J, E)
BY DEF Wire, OfTask

---------------------------------------------------------------------------
(* The inductive invariant *)

\* What the FTDC handler holds is of the transfer that ended.
SliceOK ==
    slice # NoSlice =>
        /\ toClient # <<>>
        /\ slice.task \in Tasks \ Clears /\ slice.task \in served
        /\ slice.rest \in Seq(Tasks) /\ \A i \in 1..Len(slice.rest) : Store(slice.rest[i]) = Store(slice.task)

\* The lock of the still store, and who waits for it
LockOK ==
    /\ holder \in {"free", "us", "other"} /\ waiting \subseteq {"us", "other"} \ {holder}
    /\ holder = "free" => waiting = {}
    /\ news \in Seq(News)

WakeOK == wake \in {"none", "try", "other"}

AtRest == LaneOK(lane) /\ lane.out = <<>> /\ lane.wants = {}

OnTheWay == Wire(lane, toSwitcher, toClient, job, served)

LaneInv == AtRest /\ OnTheWay /\ SliceOK /\ LockOK /\ WakeOK /\ DoneWasServed

\* A handler's end: its packets are out, and it wants no more.
LEMMA DidKeeps ==
    ASSUME NEW l, LaneOK(l), NEW C, Wire(l, toSwitcher, C, job, served), NEW may, NEW h, Moves(l, h, may),
           may /\ l.tid # 0 => Free(toSwitcher, C, job, l.tid),
           NEW w \in {"none", "try", "other"}, Did(h, w)
    PROVE  /\ AtRest' /\ Wire(lane', toSwitcher', C, job, served) /\ WakeOK'
           /\ \A t \in Tasks \ Clears : lane'.outcome[t] = "done" => l.outcome[t] = "done"
<1> HIDE DEF ToMsg, FromMsg, Jobs
<1>1. h \in LaneT /\ DueOK(h) /\ CoreOK(h)
  BY DEF Moves, LaneOK
<1>2. PICK g : g = [h EXCEPT !.out = <<>>, !.wants = {}]
  OBVIOUS
<1>3. /\ g \in LaneT /\ g.queue = h.queue /\ g.transfer = h.transfer /\ g.tid = h.tid
      /\ g.requested = h.requested /\ g.retry = h.retry /\ g.draining = h.draining
      /\ g.outcome = h.outcome /\ g.out = <<>> /\ g.wants = {} /\ DueOK(g)
  <2>1. <<>> \in Seq(ToMsg)
    OBVIOUS
  <2> QED BY <1>1, <1>2, <2>1 DEF LaneT, DueOK
<1>4. CoreOK(g)
  BY <1>1, <1>3 DEF CoreOK
<1>5. lane' = g /\ toSwitcher' = toSwitcher \o h.out /\ wake' \in Wakes(w, h)
  BY <1>2 DEF Did
<1>6. AtRest'
  <2>1. LaneOK(g)
    BY <1>3, <1>4 DEF LaneOK
  <2> QED BY <1>3, <1>5, <2>1 DEF AtRest
<1>7. Wire(h, toSwitcher \o h.out, C, job, served)
  BY HandlerSends
<1>8. Wire(g, toSwitcher \o h.out, C, job, served)
  BY <1>3, <1>7, WireSeesNoMore DEF Resting
<1>9. WakeOK'
  <2>1. h.wants \in SUBSET {"try", "other"}
    BY <1>1 DEF LaneT
  <2>2. Wakes(w, h) \subseteq {"none", "try", "other"}
    BY <2>1 DEF Wakes
  <2> QED BY <1>5, <2>2 DEF WakeOK
<1>10. \A t \in Tasks \ Clears : lane'.outcome[t] = "done" => l.outcome[t] = "done"
  BY <1>3, <1>5 DEF Moves
<1> QED BY <1>5, <1>6, <1>8, <1>9, <1>10

\* Steps of the client that take no packet
LEMMA HandlerKeeps ==
    ASSUME LaneInv, NEW h, Moves(lane, h, Resting(lane)), NEW w \in {"none", "try", "other"}, Did(h, w),
           UNCHANGED <<slice, toClient, switcher>>
    PROVE  LaneInv'
<1>1. LaneOK(lane) /\ OnTheWay
  BY DEF LaneInv, AtRest
<1>2. Resting(lane) /\ lane.tid # 0 => Free(toSwitcher, toClient, job, lane.tid)
  BY <1>1 DEF OnTheWay, Wire
<1>3. UNCHANGED <<slice, toClient, holder, waiting, news, job, served>>
  BY DEF switcher
<1>4. /\ AtRest' /\ Wire(lane', toSwitcher', toClient, job, served) /\ WakeOK'
      /\ \A t \in Tasks \ Clears : lane'.outcome[t] = "done" => lane.outcome[t] = "done"
  BY <1>1, <1>2, DidKeeps DEF OnTheWay
<1>5. OnTheWay' /\ SliceOK' /\ LockOK' /\ DoneWasServed'
  <2>1. OnTheWay'
    BY <1>3, <1>4 DEF OnTheWay
  <2>2. SliceOK' /\ LockOK'
    BY <1>3 DEF LaneInv, SliceOK, LockOK
  <2>3. DoneWasServed'
    BY <1>3, <1>4 DEF LaneInv, DoneWasServed
  <2> QED BY <2>1, <2>2, <2>3
<1> QED BY <1>4, <1>5 DEF LaneInv

\* loop() on a packet
LEMMA ReceiveKeeps == LaneInv /\ Receive => LaneInv'
<1> SUFFICES ASSUME LaneInv, Receive PROVE LaneInv'
  OBVIOUS
<1> HIDE DEF ToMsg, FromMsg, Jobs
<1>1. LaneOK(lane) /\ lane.out = <<>> /\ OnTheWay /\ wake \in {"none", "try", "other"} /\ toClient # <<>>
  BY DEF LaneInv, AtRest, Receive, WakeOK
<1>2. PICK msg \in FromMsg : msg = Head(toClient)
  BY <1>1, TailIs DEF OnTheWay, Wire, Typed
<1>3. PICK C : C = Tail(toClient)
  OBVIOUS
<1>4. /\ Wire(lane, toSwitcher, C, job, served)
      /\ lane.tid # 0 /\ IsEnd(msg, lane.tid) => Free(toSwitcher, C, job, lane.tid)
  BY <1>1, <1>2, <1>3, PacketTaken DEF OnTheWay
<1>5. Frees(lane, msg) /\ lane.tid # 0 => Free(toSwitcher, C, job, lane.tid)
  BY <1>4 DEF Frees, Wire, IsEnd, Final
<1>6. Moves(lane, OnMessage(lane, msg), Frees(lane, msg))
  BY <1>1, MessageMoves
<1>7. Did(OnMessage(lane, msg), wake) /\ toClient' = C /\ UNCHANGED <<slice, holder, waiting, news, job, served>>
  BY <1>2, <1>3 DEF Receive, switcher
<1>8. /\ AtRest' /\ Wire(lane', toSwitcher', C, job, served) /\ WakeOK'
      /\ \A t \in Tasks \ Clears : lane'.outcome[t] = "done" => lane.outcome[t] = "done"
  BY <1>1, <1>4, <1>5, <1>6, <1>7, DidKeeps
<1>9. OnTheWay'
  BY <1>7, <1>8 DEF OnTheWay
<1>10. SliceOK' /\ LockOK'
  BY <1>7 DEF LaneInv, LockOK, SliceOK, Receive
<1>11. DoneWasServed'
  BY <1>7, <1>8 DEF LaneInv, DoneWasServed
<1> QED BY <1>8, <1>9, <1>10, <1>11 DEF LaneInv

\* What ends is under way: an FTDC of ours finds its transfer at the head of its queue.
LEMMA OursIsAtTheHead ==
    ASSUME LaneInv, toClient # <<>>, IsOurs(lane, Head(toClient))
    PROVE  /\ lane.transfer \in Tasks \ Clears /\ lane.transfer \in served /\ ~Resting(lane)
           /\ lane.queue[Store(lane.transfer)] # <<>>
           /\ Head(lane.queue[Store(lane.transfer)]) = lane.transfer
<1>1. /\ LaneOK(lane) /\ OnTheWay /\ lane \in LaneT /\ CoreOK(lane)
      /\ lane.transfer # None /\ lane.tid # 0
  BY DEF LaneInv, AtRest, LaneOK, CoreOK, IsOurs
<1>2. IsEnd(Head(toClient), lane.tid) /\ Head(toClient).type = "FTDC"
  BY DEF IsOurs, IsEnd, Final
<1>3. lane.transfer \in served
  BY <1>1, <1>2, PacketTaken DEF OnTheWay
<1>4. ~Resting(lane)
  <2>1. Head(toClient) = toClient[1] /\ 1 \in 1..Len(toClient)
    BY <1>1, TailIs DEF OnTheWay, Wire, Typed
  <2> QED BY <1>1, <1>2, <2>1 DEF OnTheWay, Wire, Free
<1>5. /\ lane.requested /\ lane.transfer \in Tasks \ Clears /\ lane.queue[Store(lane.transfer)] # <<>>
      /\ lane.queue[Store(lane.transfer)][1] = lane.transfer
  BY <1>1, <1>4 DEF Resting, CoreOK, LaneT
<1>6. PICK q \in Seq(Tasks) : q = lane.queue[Store(lane.transfer)]
  BY <1>1, StoreIs DEF LaneT
<1> QED BY <1>3, <1>4, <1>5, <1>6

\* The FTDC of ours: its slice is of what ended.
LEMMA TakesSliceKeeps == LaneInv /\ TakesSlice => LaneInv'
<1> SUFFICES ASSUME LaneInv, TakesSlice PROVE LaneInv'
  OBVIOUS
<1> HIDE DEF ToMsg, FromMsg, Jobs
<1>1. /\ UNCHANGED <<lane, wake, toSwitcher, toClient, holder, waiting, news, job, served>>
      /\ toClient # <<>> /\ IsOurs(lane, Head(toClient))
  BY DEF TakesSlice, switcher
<1>2. PICK t \in Tasks \ Clears : t = lane.transfer
  BY <1>1, OursIsAtTheHead
<1>3. PICK s \in Stores : s = Store(t)
  BY StoreIs
<1>4. PICK q \in Seq(Tasks) : q = lane.queue[s]
  BY DEF LaneInv, AtRest, LaneOK, LaneT
<1>5. t \in served /\ q # <<>>
  BY <1>1, <1>2, <1>3, <1>4, OursIsAtTheHead
<1>6. /\ Tail(q) \in Seq(Tasks)
      /\ \A i \in 1..Len(Tail(q)) : i + 1 \in 1..Len(q) /\ Tail(q)[i] = q[i + 1]
  BY <1>5, TailIs
<1>7. \A i \in 1..Len(q) : Store(q[i]) = s
  BY <1>4 DEF LaneInv, AtRest, LaneOK, CoreOK, Sorted
<1>8. slice' = [task |-> t, rest |-> Tail(q)]
  BY <1>2, <1>3, <1>4 DEF TakesSlice
<1>9. SliceOK'
  BY <1>1, <1>2, <1>3, <1>5, <1>6, <1>7, <1>8 DEF SliceOK
<1>10. AtRest' /\ OnTheWay' /\ LockOK' /\ WakeOK' /\ DoneWasServed'
  BY <1>1 DEF LaneInv, AtRest, OnTheWay, LockOK, WakeOK, DoneWasServed
<1> QED BY <1>9, <1>10 DEF LaneInv

\* What ended is off its queue and its caller is told; the lane b goes on from there.
LEMMA Completing ==
    ASSUME LaneInv, Completes
    PROVE  \E b : \E s \in Stores :
              /\ LaneOK(b) /\ b.transfer = None /\ b.requested = FALSE /\ b.out = <<>>
              /\ b.tid = lane.tid /\ b.retry = lane.retry /\ b.locks = lane.locks
              /\ \A u \in Tasks \ Clears : b.outcome[u] = "done" => u \in served
              /\ Did(ReleaseThenContinue(b, s), wake)
<1> HIDE DEF ToMsg, FromMsg, Jobs
<1>1. /\ LaneOK(lane) /\ lane \in LaneT /\ DueOK(lane) /\ CoreOK(lane) /\ lane.out = <<>> /\ OnTheWay
      /\ wake \in {"none", "try", "other"} /\ slice # NoSlice /\ toClient # <<>>
  BY DEF LaneInv, AtRest, LaneOK, Completes, WakeOK, SliceOK
<1>2. PICK t \in Tasks \ Clears : t = slice.task /\ t \in served
  BY <1>1 DEF LaneInv, SliceOK
<1>3. PICK rest \in Seq(Tasks) : rest = slice.rest
  BY <1>1 DEF LaneInv, SliceOK
<1>4. PICK s \in Stores : s = Store(t)
  BY StoreIs
<1>5. \A i \in 1..Len(rest) : Store(rest[i]) = s
  BY <1>1, <1>2, <1>3, <1>4 DEF LaneInv, SliceOK
<1>6. PICK Q : Q = [lane.queue EXCEPT ![s] = rest]
  OBVIOUS
<1>7. lane.queue \in [Stores -> Seq(Tasks)]
  BY <1>1 DEF LaneT
<1>8. Q \in [Stores -> Seq(Tasks)] /\ Q[s] = rest /\ \A o \in Stores : o # s => Q[o] = lane.queue[o]
  BY <1>6, <1>7
<1>9. Sorted(Q)
  <2> SUFFICES ASSUME NEW o \in Stores, NEW i \in 1..Len(Q[o]) PROVE Store(Q[o][i]) = o
    BY DEF Sorted
  <2>1. CASE o = s
    BY <1>5, <1>8, <2>1
  <2>2. CASE o # s
    BY <1>1, <1>8, <2>2 DEF CoreOK, Sorted
  <2> QED BY <2>1, <2>2
<1>10. PICK p : p = [lane EXCEPT !.queue = Q, !.requested = FALSE]
  OBVIOUS
<1>11. /\ p \in LaneT /\ p.queue = Q /\ p.requested = FALSE /\ p.tid = lane.tid /\ p.retry = lane.retry
       /\ p.draining = lane.draining /\ p.outcome = lane.outcome /\ p.out = <<>> /\ DueOK(p)
       /\ p.transfer = lane.transfer /\ p.locks = lane.locks
  BY <1>1, <1>8, <1>10 DEF LaneT, DueOK
<1>12. PICK e : e = Ends(p, t, "done")
  OBVIOUS
<1>13. /\ e \in LaneT /\ e = [p EXCEPT !.outcome = e.outcome]
       /\ \A u \in Tasks : u # t => e.outcome[u] = p.outcome[u]
  <2>1. "done" \in {"done", "gone", "failed"}
    OBVIOUS
  <2>2. LET x == Ends(p, t, "done") IN
        /\ x \in LaneT /\ x = [p EXCEPT !.outcome = x.outcome]
        /\ \A u \in Tasks : u # t => x.outcome[u] = p.outcome[u]
    BY <1>11, <2>1, EndsIs, ZenonT(30)
  <2> QED BY <1>12, <2>2
<1>14. /\ e.queue = Q /\ e.requested = FALSE /\ e.tid = lane.tid /\ e.retry = lane.retry
       /\ e.draining = lane.draining /\ e.out = <<>> /\ e.locks = lane.locks /\ DueOK(e)
  BY <1>11, <1>13 DEF LaneT, DueOK
<1>15. PICK b : b = [e EXCEPT !.transfer = None]
  OBVIOUS
<1>16. /\ b \in LaneT /\ b.queue = Q /\ b.requested = FALSE /\ b.tid = lane.tid /\ b.retry = lane.retry
       /\ b.draining = lane.draining /\ b.out = <<>> /\ DueOK(b) /\ b.transfer = None
       /\ b.outcome = e.outcome /\ b.locks = lane.locks
  BY <1>13, <1>14, <1>15 DEF LaneT, DueOK
<1>17. LaneOK(b)
  <2>1. None \notin Clears
    BY LaneAssumption DEF Tasks
  <2>2. CoreOK(b)
    BY <1>1, <1>9, <1>16, <2>1 DEF CoreOK
  <2> QED BY <1>16, <2>2 DEF LaneOK
<1>18. PICK h : h = ReleaseThenContinue(b, s)
  OBVIOUS
<1>19. h = ReleaseThenContinue(e, s)
  <2>1. [b EXCEPT !.transfer = None] = [e EXCEPT !.transfer = None]
    BY <1>13, <1>15 DEF LaneT
  <2> QED BY <1>18, <2>1 DEF ReleaseThenContinue
<1>20. Did(h, wake)
  <2>1. p = [lane EXCEPT !.queue[s] = slice.rest, !.requested = FALSE]
    BY <1>3, <1>6, <1>10
  <2>2. ReleaseThenContinue(e, s) =
           LET S == Store(slice.task)
               popped == [lane EXCEPT !.queue[S] = slice.rest, !.requested = FALSE]
           IN  ReleaseThenContinue(Ends(popped, slice.task, "done"), S)
    BY <1>2, <1>4, <1>12, <2>1
  <2> QED BY <1>19, <2>2 DEF Completes
<1>21. \A u \in Tasks \ Clears : b.outcome[u] = "done" => u \in served
  <2> TAKE u \in Tasks \ Clears
  <2>1. CASE u = t
    BY <1>2, <2>1
  <2>2. CASE u # t
    BY <1>11, <1>13, <1>16, <2>2 DEF LaneInv, DoneWasServed
  <2> QED BY <2>1, <2>2
<1> QED BY <1>16, <1>17, <1>18, <1>20, <1>21

\* The transfer's caller is told, and the lock goes back.
LEMMA CompletesKeeps == LaneInv /\ Completes => LaneInv'
<1> SUFFICES ASSUME LaneInv, Completes PROVE LaneInv'
  OBVIOUS
<1> HIDE DEF ToMsg, FromMsg, Jobs
<1>1. PICK b : \E s \in Stores :
         /\ LaneOK(b) /\ b.transfer = None /\ b.requested = FALSE /\ b.out = <<>>
         /\ b.tid = lane.tid /\ b.retry = lane.retry
         /\ \A u \in Tasks \ Clears : b.outcome[u] = "done" => u \in served
         /\ Did(ReleaseThenContinue(b, s), wake)
  BY Completing
<1>2. PICK s \in Stores : Did(ReleaseThenContinue(b, s), wake)
  BY <1>1
<1>3. OnTheWay /\ wake \in {"none", "try", "other"} /\ toClient # <<>>
  BY DEF LaneInv, Completes, WakeOK, SliceOK
<1>4. toClient' = Tail(toClient) /\ slice' = NoSlice /\ UNCHANGED <<holder, waiting, news, job, served>>
  BY DEF Completes, switcher
<1>5. Moves(b, b, Resting(b)) /\ b.tid \in Nat
  BY <1>1, Stays
<1>6. Moves(b, ReleaseThenContinue(b, s), Resting(b))
  BY <1>1, <1>5, ReleaseKeeps
<1>7. PICK C : C = Tail(toClient)
  OBVIOUS
<1>8. Wire(b, toSwitcher, C, job, served)
  <2>1. Wire(lane, toSwitcher, C, job, served)
    BY <1>3, <1>7, PacketTaken DEF OnTheWay
  <2>2. Resting(b) => Resting(lane)
    BY <1>1 DEF Resting
  <2> QED BY <1>1, <2>1, <2>2, WireSeesNoMore
<1>9. Resting(b) /\ b.tid # 0 => Free(toSwitcher, C, job, b.tid)
  BY <1>8 DEF Wire
<1>10. /\ AtRest' /\ Wire(lane', toSwitcher', C, job, served) /\ WakeOK'
      /\ \A u \in Tasks \ Clears : lane'.outcome[u] = "done" => b.outcome[u] = "done"
  BY <1>1, <1>3, <1>6, <1>8, <1>9, <1>2, DidKeeps
<1>11. OnTheWay'
  BY <1>4, <1>7, <1>10 DEF OnTheWay
<1>12. SliceOK' /\ LockOK'
  BY <1>4 DEF LaneInv, LockOK, SliceOK
<1>13. DoneWasServed'
  BY <1>1, <1>4, <1>10 DEF DoneWasServed
<1> QED BY <1>10, <1>11, <1>12, <1>13 DEF LaneInv

\* The transport's wake-up, and a caller's
LEMMA WakesKeep == LaneInv /\ (WakeFires \/ CallerWakes) => LaneInv'
<1> SUFFICES ASSUME LaneInv, WakeFires \/ CallerWakes PROVE LaneInv'
  OBVIOUS
<1>1. LaneOK(lane) /\ lane.out = <<>> /\ wake \in {"none", "try", "other"}
  BY DEF LaneInv, AtRest, WakeOK
<1>2. Moves(lane, OnWakeup(lane), Resting(lane))
  BY <1>1, WakeupMoves
<1>3. PICK w \in {"none", "try", "other"} : Did(OnWakeup(lane), w) /\ UNCHANGED <<slice, toClient, switcher>>
  BY <1>1 DEF WakeFires, CallerWakes
<1> QED BY <1>2, <1>3, HandlerKeeps

\* What changes nothing of the lane but a caller's word or a clock
LEMMA AsideKeeps ==
    ASSUME LaneInv, NEW g, LaneOK(g), g.out = <<>>, g.wants = {}, lane' = g,
           g.tid = lane.tid, g.transfer = lane.transfer, g.requested = lane.requested, g.retry = lane.retry,
           \A t \in Tasks \ Clears : g.outcome[t] = "done" => lane.outcome[t] = "done",
           UNCHANGED <<wake, slice, toSwitcher, toClient, switcher>>
    PROVE  LaneInv'
<1>1. UNCHANGED <<wake, slice, toSwitcher, toClient, holder, waiting, news, job, served>>
  BY DEF switcher
<1>2. AtRest'
  BY DEF AtRest
<1>3. OnTheWay'
  <2>1. Wire(g, toSwitcher, toClient, job, served)
    BY WireSeesNoMore DEF LaneInv, OnTheWay, Resting
  <2> QED BY <1>1, <2>1 DEF OnTheWay
<1>4. SliceOK' /\ LockOK' /\ WakeOK'
  BY <1>1 DEF LaneInv, SliceOK, LockOK, WakeOK
<1>5. DoneWasServed'
  BY <1>1 DEF LaneInv, DoneWasServed
<1> QED BY <1>2, <1>3, <1>4, <1>5 DEF LaneInv

\* Time passes.
LEMMA ElapseKeeps == ASSUME LaneInv, NEW c \in Clocks, Elapse(c) PROVE LaneInv'
<1> HIDE DEF ToMsg
<1>1. lane \in LaneT /\ DueOK(lane) /\ CoreOK(lane) /\ lane.out = <<>> /\ lane.wants = {}
  BY DEF LaneInv, AtRest, LaneOK
<1>2. PICK g : g = [lane EXCEPT !.due = @ \cup {c}]
  OBVIOUS
<1>3. /\ g \in LaneT /\ g.queue = lane.queue /\ g.transfer = lane.transfer /\ g.tid = lane.tid
      /\ g.requested = lane.requested /\ g.retry = lane.retry /\ g.draining = lane.draining
      /\ g.outcome = lane.outcome /\ g.out = <<>> /\ g.wants = {} /\ g.due = lane.due \cup {c}
      /\ g.yield = lane.yield /\ g.asked = lane.asked
  BY <1>1, <1>2 DEF LaneT
<1>4. Running(c) /\ lane' = g /\ UNCHANGED <<wake, slice, toSwitcher, toClient, switcher>>
  BY <1>2 DEF Elapse
<1>5. DueOK(g)
  BY <1>1, <1>3, <1>4 DEF DueOK, Running, Clocks
<1>6. CoreOK(g)
  BY <1>1, <1>3 DEF CoreOK
<1> QED BY <1>3, <1>4, <1>5, <1>6, AsideKeeps DEF LaneOK

\* download, upload, queue_clear
LEMMA CallerQueuesKeeps == ASSUME LaneInv, NEW t \in Tasks, CallerQueues(t) PROVE LaneInv'
<1>1. LaneOK(lane) /\ lane.out = <<>> /\ wake \in {"none", "try", "other"}
  BY DEF LaneInv, AtRest, WakeOK
<1>2. Moves(lane, Queue(lane, t), Resting(lane))
  BY <1>1, QueuedMoves
<1>3. Did(Queue(lane, t), wake) /\ UNCHANGED <<slice, toClient, switcher>>
  BY DEF CallerQueues
<1> QED BY <1>1, <1>2, <1>3, HandlerKeeps

\* A caller gives up.
LEMMA TimeoutsKeep ==
    ASSUME LaneInv, NEW t \in Tasks, DownloadTimesOut(t) \/ ClearTimesOut(t) \/ UploadTimesOut(t)
    PROVE  LaneInv'
<1>1. LaneOK(lane) /\ lane.out = <<>> /\ lane.wants = {} /\ wake \in {"none", "try", "other"}
  BY DEF LaneInv, AtRest, WakeOK
<1>2. CASE DownloadTimesOut(t)
  <2>1. PICK heard \in BOOLEAN : Did([Abort(lane, heard) EXCEPT !.outcome[t] = "gone"], wake)
    BY <1>2 DEF DownloadTimesOut
  <2>2. Moves(lane, Abort(lane, heard), Resting(lane))
    BY <1>1, AbortMoves
  <2>3. Moves(lane, [Abort(lane, heard) EXCEPT !.outcome[t] = "gone"], Resting(lane))
    BY <2>2, ToldOne
  <2>4. UNCHANGED <<slice, toClient, switcher>>
    BY <1>2 DEF DownloadTimesOut
  <2> QED BY <1>1, <2>1, <2>3, <2>4, HandlerKeeps
<1>3. CASE ClearTimesOut(t)
  <2>1. PICK o \in {"gone", "done"} : o = IF InQueue(t) THEN "gone" ELSE "done"
    OBVIOUS
  <2>2. t \in Clears /\ Did([Dequeue(lane, t) EXCEPT !.outcome[t] = o], wake) /\ UNCHANGED <<slice, toClient, switcher>>
    BY <1>3, <2>1 DEF ClearTimesOut
  <2>3. Moves(lane, Dequeue(lane, t), Resting(lane))
    BY <1>1, <2>2, DequeueMoves
  <2>4. Moves(lane, [Dequeue(lane, t) EXCEPT !.outcome[t] = o], Resting(lane))
    BY <2>2, <2>3, ToldOne
  <2> QED BY <1>1, <2>2, <2>4, HandlerKeeps
<1>4. CASE UploadTimesOut(t)
  <2>1. Moves(lane, lane, TRUE)
    BY <1>1, Stays
  <2>2. "gone" \in {"gone", "done"} /\ "gone" # "done"
    OBVIOUS
  <2>3. PICK g : g = [lane EXCEPT !.outcome[t] = "gone"]
    OBVIOUS
  <2>4. Moves(lane, g, TRUE)
    BY <2>1, <2>2, <2>3, ToldOne
  <2>5. /\ g.out = <<>> /\ g.wants = {} /\ g.tid = lane.tid /\ g.transfer = lane.transfer
        /\ g.requested = lane.requested /\ g.retry = lane.retry
    <3>1. lane \in LaneT
      BY <1>1 DEF LaneOK
    <3> QED BY <1>1, <2>3, <3>1 DEF LaneT
  <2>6. lane' = g /\ UNCHANGED <<wake, slice, toSwitcher, toClient, switcher>>
    BY <1>4, <2>3 DEF UploadTimesOut
  <2>7. LaneOK(g) /\ \A u \in Tasks \ Clears : g.outcome[u] = "done" => lane.outcome[u] = "done"
    BY <2>4 DEF Moves
  <2> QED BY <2>5, <2>6, <2>7, AsideKeeps
<1> QED BY <1>2, <1>3, <1>4

---------------------------------------------------------------------------
(* The switcher, and the other client *)

\* A step of the switcher leaves the lane alone, and adds to what comes to the client.
LEMMA SwitcherKeeps ==
    ASSUME LaneInv, UNCHANGED <<lane, wake, slice>>, OnTheWay', LockOK', served \subseteq served',
           toClient # <<>> => toClient' # <<>>
    PROVE  LaneInv'
<1>1. AtRest' /\ WakeOK'
  BY DEF LaneInv, AtRest, WakeOK
<1>2. SliceOK' /\ DoneWasServed'
  BY DEF LaneInv, SliceOK, DoneWasServed
<1> QED BY <1>1, <1>2 DEF LaneInv

\* A packet more is never none.
LEMMA NotEmpty ==
    ASSUME NEW M, NEW q \in Seq(M), NEW m \in M
    PROVE  Append(q, m) \in Seq(M) /\ Append(q, m) # <<>>
<1>1. Append(q, m) \in Seq(M) /\ Len(Append(q, m)) = Len(q) + 1 /\ Len(q) \in Nat
  OBVIOUS
<1>2. Len(Append(q, m)) # 0
  BY <1>1
<1> QED BY <1>1, <1>2

\* Two more
LEMMA TwoMore ==
    ASSUME NEW M, NEW q \in Seq(M), NEW a \in M, NEW b \in M
    PROVE  q \o <<a, b>> \in Seq(M)
<1>1. <<a, b>> \in Seq(M)
  OBVIOUS
<1> QED BY <1>1, ConcatProperties

\* The packets of the switcher
LEMMA Answers ==
    /\ LKOB \in FromMsg /\ ~Final(LKOB) /\ FTCD \in FromMsg /\ ~Final(FTCD)
    /\ \A b \in BOOLEAN : LKST(b) \in News
    /\ \A id \in Nat :
          /\ FTDa(id) \in FromMsg /\ ~Final(FTDa(id))
          /\ FTDC(id) \in FromMsg /\ Final(FTDC(id)) /\ FTDC(id).tid = id /\ FTDC(id).type = "FTDC"
          /\ \A s \in {1, 2, 5, 6} :
                FTDE(id, s) \in FromMsg /\ Final(FTDE(id, s)) /\ FTDE(id, s).tid = id /\ FTDE(id, s).type = "FTDE"
    /\ \A m \in News : m \in FromMsg /\ ~Final(m)
BY DEF LKOB, LKST, FTCD, FTDa, FTDC, FTDE, Final, News, FromMsg

\* The lock changes hands.
LEMMA HandsOverKeeps ==
    ASSUME LockOK, NEW to \in {"free", "us", "other"}, to = "free" => waiting = {}, HandsOver(to)
    PROVE  LockOK'
<1> HIDE DEF News
<1>1. news \in Seq(News) /\ LKST(FALSE) \in News /\ LKST(TRUE) \in News
  BY Answers DEF LockOK
<1>2. Append(news, LKST(FALSE)) \in Seq(News) /\ news \o <<LKST(FALSE), LKST(TRUE)>> \in Seq(News)
  BY <1>1, NotEmpty, TwoMore
<1>3. news' \in Seq(News)
  BY <1>1, <1>2 DEF HandsOver
<1>4. holder' = to /\ waiting' = waiting \ {to}
  BY DEF HandsOver
<1> QED BY <1>3, <1>4 DEF LockOK

\* A packet that ends nothing is sent to the client.
LEMMA Sent ==
    ASSUME NEW l, l.tid \in Nat, NEW S, NEW C, NEW J, NEW D, Wire(l, S, C, J, D),
           NEW m \in FromMsg, Final(m) => m.tid = 0
    PROVE  Wire(l, S, Append(C, m), J, D) /\ Append(C, m) # <<>>
<1> HIDE DEF FromMsg, ToMsg, Jobs
<1>1. C \in Seq(FromMsg)
  BY DEF Wire, Typed
<1>2. <<m>> \in Seq(FromMsg) /\ \A k \in 1..Len(<<m>>) : <<m>>[k] = m
  OBVIOUS
<1>3. Wire(l, S, C \o <<m>>, J, D)
  BY <1>2, Arrive
<1>4. C \o <<m>> = Append(C, m) /\ Append(C, m) # <<>>
  BY <1>1
<1> QED BY <1>3, <1>4

\* The switcher is asked for the lock.
LEMMA AskHeard ==
    ASSUME LaneInv, NEW T, Wire(lane, T, toClient, job, served), toSwitcher' = T,
           NEW full \in BOOLEAN, HearsAsk(full), UNCHANGED <<lane, wake, slice>>
    PROVE  LaneInv'
<1> HIDE DEF FromMsg, ToMsg, Jobs, News
<1>1. lane.tid \in Nat /\ LockOK /\ UNCHANGED <<job, served>> /\ news \in Seq(News)
  BY DEF LaneInv, AtRest, LaneOK, LaneT, HearsAsk, LockOK
<1>2. LKOB \in FromMsg /\ ~Final(LKOB) /\ LKST(TRUE) \in News
  BY Answers
<1>3. CASE holder = "free" /\ holder' = "us" /\ news' = Append(news, LKST(TRUE))
           /\ toClient' = Append(toClient, LKOB) /\ UNCHANGED waiting
  <2>1. news' \in Seq(News)
    BY <1>1, <1>2, <1>3, NotEmpty
  <2>2. LockOK'
    BY <1>1, <1>3, <2>1 DEF LockOK
  <2>3. Wire(lane, T, toClient', job, served) /\ toClient' # <<>>
    BY <1>1, <1>2, <1>3, Sent
  <2> QED BY <1>1, <2>2, <2>3, SwitcherKeeps DEF OnTheWay
<1>4. CASE holder = "us" /\ UNCHANGED <<holder, waiting, news, toClient>>
  <2>1. LockOK'
    BY <1>1, <1>4 DEF LockOK
  <2> QED BY <1>1, <1>4, <2>1, SwitcherKeeps DEF OnTheWay
<1>5. CASE /\ holder = "other"
           /\ waiting' = IF full THEN waiting ELSE waiting \cup {"us"}
           /\ UNCHANGED <<holder, news, toClient>>
  <2>1. LockOK'
    BY <1>1, <1>5 DEF LockOK
  <2> QED BY <1>1, <1>5, <2>1, SwitcherKeeps DEF OnTheWay
<1> QED BY <1>3, <1>4, <1>5 DEF HearsAsk

\* The lock is given back.
LEMMA UnlockHeard ==
    ASSUME LaneInv, NEW T, Wire(lane, T, toClient, job, served), toSwitcher' = T,
           HearsUnlock, UNCHANGED <<lane, wake, slice>>
    PROVE  LaneInv'
<1>1. LockOK /\ UNCHANGED <<toClient, job, served>>
  BY DEF LaneInv, HearsUnlock
<1>2. OnTheWay'
  BY <1>1 DEF OnTheWay
<1>3. LockOK'
  <2>1. CASE holder = "us"
    <3>1. PICK to \in {"free", "us", "other"} : to = IF "other" \in waiting THEN "other" ELSE "free"
      OBVIOUS
    <3>2. to = "free" => waiting = {}
      BY <1>1, <2>1, <3>1 DEF LockOK
    <3>3. HandsOver(to)
      BY <2>1, <3>1 DEF HearsUnlock
    <3> QED BY <1>1, <3>2, <3>3, HandsOverKeeps
  <2>2. CASE holder # "us"
    BY <1>1, <2>2 DEF HearsUnlock, LockOK
  <2> QED BY <2>1, <2>2
<1> QED BY <1>1, <1>2, <1>3, SwitcherKeeps

\* A clear is carried out, or ignored.
LEMMA ClearHeard ==
    ASSUME LaneInv, NEW T, Wire(lane, T, toClient, job, served), toSwitcher' = T,
           NEW t, HearsClear(t), UNCHANGED <<lane, wake, slice>>
    PROVE  LaneInv'
<1>1. UNCHANGED <<toClient, holder, waiting, news, job>> /\ served \subseteq served'
  BY DEF HearsClear
<1>2. LockOK'
  BY <1>1 DEF LaneInv, LockOK
<1>3. OnTheWay'
  <2>1. Wire(lane, T, toClient, job, served')
    BY <1>1, MoreServed
  <2> QED BY <1>1, <2>1 DEF OnTheWay
<1> QED BY <1>1, <1>2, <1>3, SwitcherKeeps

\* Data has come.
LEMMA DataHeard ==
    ASSUME LaneInv, NEW T, Wire(lane, T, toClient, job, served), toSwitcher' = T,
           NEW id, HearsData(id), UNCHANGED <<lane, wake, slice>>
    PROVE  LaneInv'
<1>1. UNCHANGED <<toClient, holder, waiting, news, served>> /\ job \in Jobs /\ lane.tid \in Nat
  BY DEF HearsData, Wire, Typed, LaneInv, AtRest, LaneOK, LaneT
<1>2. LockOK'
  BY <1>1 DEF LaneInv, LockOK
<1>3. job' \in Jobs /\ job'.tid = job.tid /\ job'.task = job.task
  BY <1>1 DEF HearsData, Jobs
<1>4. OnTheWay'
  <2>1. Wire(lane, T, toClient, job', served)
    BY <1>1, <1>3, EngineGoesOn
  <2> QED BY <1>1, <2>1 DEF OnTheWay
<1> QED BY <1>1, <1>2, <1>4, SwitcherKeeps

\* A transfer is asked for: it is refused, or it starts.
LEMMA RequestHeard ==
    ASSUME LaneInv, toSwitcher # <<>>, NEW t \in Tasks \ Clears, NEW id \in Nat,
           Head(toSwitcher) = Request(t, id), toSwitcher' = Tail(toSwitcher),
           HearsRequest(t, id), UNCHANGED <<lane, wake, slice>>
    PROVE  LaneInv'
<1> HIDE DEF FromMsg, ToMsg, Jobs, News
<1>1. lane.tid \in Nat /\ OnTheWay /\ UNCHANGED <<holder, waiting, news, served>>
  BY DEF LaneInv, AtRest, LaneOK, LaneT, HearsRequest
<1>2. PICK T : T = Tail(toSwitcher)
  OBVIOUS
<1>3. Request(t, id).type = "request" /\ Request(t, id).tid = id /\ Request(t, id).task = t
  BY DEF Request
<1>4. /\ Wire(lane, T, toClient, job, served) /\ id <= lane.tid
      /\ lane.tid # 0 /\ id = lane.tid =>
            /\ Free(T, toClient, job, lane.tid) /\ ~Resting(lane)
            /\ lane.transfer # None => t = lane.transfer
  BY <1>1, <1>2, <1>3, PacketHeard DEF OnTheWay, IsRequest
<1>5. LockOK'
  BY <1>1 DEF LaneInv, LockOK
<1>6. CASE Refuses(t, id) /\ UNCHANGED job
  <2>1. PICK s \in {1, 2, 5, 6} : toClient' = Append(toClient, FTDE(id, s))
    BY <1>6 DEF Refuses
  <2>2. PICK m \in FromMsg : m = FTDE(id, s) /\ Final(m) /\ m.tid = id /\ m.type = "FTDE"
    BY Answers
  <2>3. Wire(lane, T, Append(toClient, m), job, served)
    BY <1>1, <1>4, <2>2, EndSent
  <2>4. toClient' # <<>>
    BY <1>1, <2>1, <2>2, NotEmpty DEF OnTheWay, Wire, Typed
  <2>5. OnTheWay'
    BY <1>1, <1>2, <1>6, <2>1, <2>2, <2>3 DEF OnTheWay
  <2> QED BY <1>1, <1>5, <2>4, <2>5, SwitcherKeeps
<1>7. CASE /\ job = Idle
           /\ job' = [tid |-> id, task |-> t, data |-> t \in Downloads]
           /\ toClient' = IF t \in Uploads THEN Append(toClient, FTCD) ELSE Append(toClient, FTDa(id))
  <2>1. job.tid = 0
    BY <1>7 DEF Idle
  <2>2. job' \in Jobs /\ job'.tid = id /\ job'.task = t
    BY <1>7 DEF Jobs
  <2>3. Wire(lane, T, toClient, job', served)
    BY <1>1, <1>4, <2>1, <2>2, EngineStarts
  <2>4. PICK m \in FromMsg : ~Final(m) /\ toClient' = Append(toClient, m)
    <3>1. FTCD \in FromMsg /\ ~Final(FTCD) /\ FTDa(id) \in FromMsg /\ ~Final(FTDa(id))
      BY Answers
    <3> QED BY <1>7, <3>1
  <2>5. Wire(lane, T, toClient', job', served) /\ toClient' # <<>>
    BY <1>1, <2>3, <2>4, Sent
  <2>6. OnTheWay'
    BY <1>1, <1>2, <2>5 DEF OnTheWay
  <2> QED BY <1>1, <1>5, <2>5, <2>6, SwitcherKeeps
<1> QED BY <1>6, <1>7 DEF HearsRequest

\* Every packet to the switcher
LEMMA SwitcherHearsKeeps == LaneInv /\ SwitcherHears => LaneInv'
<1> SUFFICES ASSUME LaneInv, SwitcherHears PROVE LaneInv'
  OBVIOUS
<1>1. PICK T : T = Tail(toSwitcher)
  OBVIOUS
<1>2. toSwitcher # <<>> /\ toSwitcher' = T /\ Hears(Head(toSwitcher)) /\ UNCHANGED <<lane, wake, slice>>
  BY <1>1 DEF SwitcherHears
<1>3. Wire(lane, T, toClient, job, served)
  BY <1>1, <1>2, PacketHeard DEF LaneInv, OnTheWay
<1>4. PICK m \in ToMsg : m = Head(toSwitcher)
  <2> HIDE DEF ToMsg
  <2> QED BY <1>2, TailIs DEF LaneInv, OnTheWay, Wire, Typed
<1>5. CASE m.type \in {"LOCK", "PLCK"}
  <2>1. HearsAsk(m.type = "LOCK") /\ (m.type = "LOCK") \in BOOLEAN
    BY <1>2, <1>4, <1>5 DEF Hears
  <2> QED BY <1>2, <1>3, <2>1, AskHeard
<1>6. CASE m.type = "unlock"
  <2>1. HearsUnlock
    BY <1>2, <1>4, <1>6 DEF Hears
  <2> QED BY <1>2, <1>3, <2>1, UnlockHeard
<1>7. CASE m.type = "CSTL"
  <2>1. HearsClear(m.task)
    BY <1>2, <1>4, <1>7 DEF Hears
  <2> QED BY <1>2, <1>3, <2>1, ClearHeard
<1>8. CASE m.type = "request"
  <2>1. m.task \in Tasks \ Clears /\ m.tid \in Nat /\ m = Request(m.task, m.tid)
    BY <1>4, <1>8 DEF ToMsg, Request
  <2>2. HearsRequest(m.task, m.tid)
    BY <1>2, <1>4, <1>8 DEF Hears
  <2> QED BY <1>1, <1>2, <1>4, <2>1, <2>2, RequestHeard
<1>9. CASE m.type = "data"
  <2>1. HearsData(m.tid)
    BY <1>2, <1>4, <1>9 DEF Hears
  <2> QED BY <1>2, <1>3, <2>1, DataHeard
<1>10. m.type \in {"LOCK", "PLCK", "unlock", "CSTL", "request", "data"}
  BY <1>4 DEF ToMsg
<1> QED BY <1>5, <1>6, <1>7, <1>8, <1>9, <1>10

\* The engine is done: its FTDC is the only thing left of the number.
LEMMA JobEndsKeeps == LaneInv /\ JobEnds => LaneInv'
<1> SUFFICES ASSUME LaneInv, JobEnds PROVE LaneInv'
  OBVIOUS
<1> HIDE DEF FromMsg, ToMsg, Jobs, News
<1>1. /\ lane.tid \in Nat /\ OnTheWay /\ job \in Jobs /\ job.tid <= lane.tid
      /\ UNCHANGED <<lane, wake, slice, toSwitcher, holder, waiting, news>>
  BY DEF LaneInv, AtRest, LaneOK, LaneT, JobEnds, OnTheWay, Wire, Typed, UpTo
<1>2. PICK D : D = served \cup {job.task}
  OBVIOUS
<1>3. Idle \in Jobs /\ Idle.tid = 0
  BY DEF Idle, Jobs
<1>4. PICK id \in Nat : id = job.tid
  BY <1>1 DEF Jobs
<1>5. Wire(lane, toSwitcher, toClient, Idle, D)
  BY <1>1, <1>2, <1>3, EngineGoesOn, MoreServed DEF OnTheWay
<1>6. PICK m \in FromMsg : m = FTDC(id) /\ Final(m) /\ m.tid = id /\ m.type = "FTDC"
  BY Answers
<1>7. ASSUME lane.tid # 0, id = lane.tid
      PROVE  /\ Free(toSwitcher, toClient, Idle, lane.tid) /\ ~Resting(lane)
             /\ lane.transfer # None => lane.transfer \in D
  <2>1. AtMostOne(toSwitcher, toClient, job, lane.tid) /\ job.tid = lane.tid
    BY <1>1, <1>4, <1>7 DEF OnTheWay, Wire
  <2>2. Free(toSwitcher, toClient, Idle, lane.tid)
    BY <1>3, <1>7, <2>1 DEF AtMostOne, Free
  <2>3. ~Resting(lane)
    BY <1>1, <1>7, <2>1 DEF OnTheWay, Wire, Free
  <2>4. lane.transfer # None => job.task = lane.transfer
    BY <1>1, <1>7, <2>1 DEF OnTheWay, Wire, OfTask
  <2> QED BY <1>2, <2>2, <2>3, <2>4
<1>8. Wire(lane, toSwitcher, Append(toClient, m), Idle, D)
  BY <1>1, <1>4, <1>5, <1>6, <1>7, EndSent
<1>9. toClient' = Append(toClient, m) /\ job' = Idle /\ served' = D
  BY <1>2, <1>4, <1>6 DEF JobEnds
<1>10. OnTheWay'
  BY <1>1, <1>8, <1>9 DEF OnTheWay
<1>11. LockOK' /\ served \subseteq served'
  BY <1>1, <1>2, <1>9 DEF LaneInv, LockOK
<1>12. toClient' # <<>>
  BY <1>1, <1>9, NotEmpty DEF OnTheWay, Wire, Typed
<1> QED BY <1>1, <1>10, <1>11, <1>12, SwitcherKeeps

\* The engine drops an upload without data.
LEMMA JobDroppedKeeps == LaneInv /\ JobDropped => LaneInv'
<1> SUFFICES ASSUME LaneInv, JobDropped PROVE LaneInv'
  OBVIOUS
<1>1. /\ lane.tid \in Nat /\ OnTheWay /\ job' = Idle
      /\ UNCHANGED <<lane, wake, slice, toSwitcher, toClient, holder, waiting, news, served>>
  BY DEF LaneInv, AtRest, LaneOK, LaneT, JobDropped
<1>2. Idle \in Jobs /\ Idle.tid = 0
  BY DEF Idle, Jobs
<1>3. OnTheWay'
  <2>1. Wire(lane, toSwitcher, toClient, Idle, served)
    BY <1>1, <1>2, EngineGoesOn DEF OnTheWay
  <2> QED BY <1>1, <2>1 DEF OnTheWay
<1>4. LockOK'
  BY <1>1 DEF LaneInv, LockOK
<1> QED BY <1>1, <1>3, <1>4, SwitcherKeeps

\* More packets are never none.
LEMMA StillNotEmpty ==
    ASSUME NEW M, NEW q \in Seq(M), NEW r \in Seq(M), q # <<>>
    PROVE  q \o r # <<>>
<1>1. Len(q \o r) = Len(q) + Len(r) /\ Len(q) \in Nat /\ Len(r) \in Nat /\ Len(q) # 0
  BY ConcatProperties, LenProperties, EmptySeq
<1>2. Len(q \o r) # 0
  BY <1>1
<1> QED BY <1>2

\* The news of the lock go out.
LEMMA FrameTickKeeps == LaneInv /\ FrameTick => LaneInv'
<1> SUFFICES ASSUME LaneInv, FrameTick PROVE LaneInv'
  OBVIOUS
<1> HIDE DEF FromMsg, ToMsg, Jobs, News
<1>1. /\ lane.tid \in Nat /\ OnTheWay /\ news \in Seq(News) /\ toClient \in Seq(FromMsg)
      /\ toClient' = toClient \o news /\ news' = <<>>
      /\ UNCHANGED <<lane, wake, slice, toSwitcher, holder, waiting, job, served>>
  BY DEF LaneInv, AtRest, LaneOK, LaneT, FrameTick, LockOK, OnTheWay, Wire, Typed
<1>2. news \in Seq(FromMsg) /\ \A k \in 1..Len(news) : Final(news[k]) => news[k].tid = 0
  <2>1. \A m \in News : m \in FromMsg /\ ~Final(m)
    BY Answers
  <2>2. \A k \in 1..Len(news) : news[k] \in News
    BY <1>1
  <2>3. Len(news) \in Nat /\ news \in [1..Len(news) -> FromMsg]
    BY <1>1, <2>1, <2>2
  <2>4. news \in Seq(FromMsg)
    BY <2>3
  <2> QED BY <2>1, <2>2, <2>4
<1>3. Wire(lane, toSwitcher, toClient \o news, job, served)
  BY <1>1, <1>2, Arrive DEF OnTheWay
<1>4. OnTheWay'
  BY <1>1, <1>3 DEF OnTheWay
<1>5. <<>> \in Seq(News)
  OBVIOUS
<1>6. LockOK'
  BY <1>1, <1>5 DEF LaneInv, LockOK
<1>7. toClient # <<>> => toClient' # <<>>
  BY <1>1, <1>2, StillNotEmpty
<1> QED BY <1>1, <1>4, <1>6, <1>7, SwitcherKeeps

\* The other client asks for the lock.
LEMMA OtherAsksKeeps == LaneInv /\ OtherAsks => LaneInv'
<1> SUFFICES ASSUME LaneInv, OtherAsks PROVE LaneInv'
  OBVIOUS
<1> HIDE DEF FromMsg, ToMsg, Jobs, News
<1>1. UNCHANGED <<lane, wake, slice, toSwitcher, toClient, job, served>>
  BY DEF OtherAsks
<1>2. OnTheWay'
  BY <1>1 DEF LaneInv, OnTheWay
<1>3. LockOK'
  <2>1. CASE holder = "free"
    <3>1. LKST(TRUE) \in News /\ news \in Seq(News)
      BY Answers DEF LaneInv, LockOK
    <3>2. holder' = "other" /\ news' = Append(news, LKST(TRUE)) /\ waiting' = waiting /\ waiting = {}
      BY <2>1 DEF OtherAsks, LaneInv, LockOK
    <3>3. news' \in Seq(News)
      BY <3>1, <3>2, NotEmpty
    <3> QED BY <3>2, <3>3 DEF LockOK
  <2>2. CASE holder # "free"
    <3>1. waiting' = waiting \cup {"other"} /\ UNCHANGED <<holder, news>> /\ holder # "other"
      BY <2>2 DEF OtherAsks
    <3> QED BY <2>2, <3>1 DEF LaneInv, LockOK
  <2> QED BY <2>1, <2>2
<1> QED BY <1>1, <1>2, <1>3, SwitcherKeeps

\* A packet, or none
LEMMA OneOrNone ==
    ASSUME NEW M, NEW a \in M, NEW d \in {<<>>, <<a>>}
    PROVE  d \in Seq(M) /\ \A k \in 1..Len(d) : d[k] = a
<1>1. CASE d = <<>>
  BY <1>1
<1>2. CASE d = <<a>>
  BY <1>2
<1> QED BY <1>1, <1>2

\* The other client gives the lock back.
LEMMA OtherReleasesKeeps == LaneInv /\ OtherReleases => LaneInv'
<1> SUFFICES ASSUME LaneInv, OtherReleases PROVE LaneInv'
  OBVIOUS
<1> HIDE DEF FromMsg, ToMsg, Jobs, News
<1>1. /\ lane.tid \in Nat /\ OnTheWay /\ LockOK /\ toClient \in Seq(FromMsg)
      /\ UNCHANGED <<lane, wake, slice, toSwitcher, job, served>>
  BY DEF LaneInv, AtRest, LaneOK, LaneT, OtherReleases, OnTheWay, Wire, Typed
<1>2. PICK to \in {"free", "us", "other"} : to = IF "us" \in waiting THEN "us" ELSE "free"
  OBVIOUS
<1>3. to = "free" => waiting = {}
  BY <1>1, <1>2 DEF LockOK, OtherReleases
<1>4. HandsOver(to)
  BY <1>2 DEF OtherReleases
<1>5. LockOK'
  BY <1>1, <1>3, <1>4, HandsOverKeeps
<1>6. PICK a \in FromMsg, b \in FromMsg : a = FTDC(0) /\ b = LKOB /\ (Final(a) => a.tid = 0) /\ ~Final(b)
  <2>1. 0 \in Nat
    OBVIOUS
  <2> QED BY <2>1, Answers
<1>7. PICK d \in {<<>>, <<a>>} : toClient' = toClient \o d \o (IF "us" \in waiting THEN <<b>> ELSE <<>>)
  BY <1>6 DEF OtherReleases
<1>8. PICK e \in {<<>>, <<b>>} : toClient' = toClient \o d \o e
  BY <1>7
<1>9. d \in Seq(FromMsg) /\ \A k \in 1..Len(d) : Final(d[k]) => d[k].tid = 0
  <2>1. d \in Seq(FromMsg) /\ \A k \in 1..Len(d) : d[k] = a
    BY OneOrNone, ZenonT(30)
  <2> QED BY <1>6, <2>1
<1>10. e \in Seq(FromMsg) /\ \A k \in 1..Len(e) : Final(e[k]) => e[k].tid = 0
  <2>1. e \in Seq(FromMsg) /\ \A k \in 1..Len(e) : e[k] = b
    BY OneOrNone, ZenonT(30)
  <2> QED BY <1>6, <2>1
<1>11. PICK F : F = toClient \o d
  OBVIOUS
<1>12. Wire(lane, toSwitcher, F, job, served) /\ F \in Seq(FromMsg)
  BY <1>1, <1>9, <1>11, Arrive, ConcatProperties DEF OnTheWay
<1>13. Wire(lane, toSwitcher, F \o e, job, served)
  BY <1>1, <1>10, <1>12, Arrive
<1>14. OnTheWay'
  BY <1>1, <1>8, <1>11, <1>13 DEF OnTheWay
<1>15. toClient # <<>> => toClient' # <<>>
  BY <1>1, <1>8, <1>9, <1>10, <1>11, <1>12, StillNotEmpty
<1> QED BY <1>1, <1>5, <1>14, <1>15, SwitcherKeeps

\* The session dies.
LEMMA SessionLostKeeps == LaneInv /\ SessionLost => LaneInv'
<1> SUFFICES ASSUME LaneInv, SessionLost PROVE LaneInv'
  OBVIOUS
<1> HIDE DEF FromMsg, ToMsg, Jobs, News
<1>1. /\ LaneOK(lane) /\ lane.out = <<>> /\ lane.wants = {} /\ lane.tid \in Nat
      /\ slice = NoSlice /\ lane' = Reset(lane) /\ toSwitcher' = <<>> /\ toClient' = <<>> /\ job' = Idle
      /\ news' = <<>> /\ UNCHANGED <<wake, slice, served>>
  BY DEF LaneInv, AtRest, LaneOK, LaneT, SessionLost
<1>2. PICK g : g = Reset(lane)
  OBVIOUS
<1>3. /\ LaneOK(g) /\ g.out = <<>> /\ g.wants = {} /\ g.tid = lane.tid /\ g.transfer = None /\ ~g.retry
      /\ \A t \in Tasks : g.outcome[t] = "done" => lane.outcome[t] = "done"
  BY <1>1, <1>2, ResetIs
<1>4. AtRest' /\ SliceOK' /\ WakeOK'
  BY <1>1, <1>2, <1>3 DEF AtRest, SliceOK, LaneInv, WakeOK
<1>5. OnTheWay'
  <2>1. Typed(<<>>, <<>>, Idle) /\ Idle.tid = 0
    BY DEF Typed, Idle, Jobs
  <2>2. UpTo(<<>>, <<>>, Idle, lane.tid)
    BY <1>1, <2>1 DEF UpTo
  <2>3. lane.tid # 0 => AtMostOne(<<>>, <<>>, Idle, lane.tid)
    BY <2>1 DEF AtMostOne
  <2>4. Wire(g, <<>>, <<>>, Idle, served)
    BY <1>3, <2>1, <2>2, <2>3 DEF Wire, Resting
  <2> QED BY <1>1, <1>2, <2>4 DEF OnTheWay
<1>6. LockOK'
  <2>1. <<>> \in Seq(News)
    OBVIOUS
  <2>2. /\ holder' = IF holder # "us" THEN holder ELSE IF "other" \in waiting THEN "other" ELSE "free"
        /\ waiting' = IF holder = "us" THEN {} ELSE waiting \ {"us"}
    BY DEF SessionLost
  <2>3. holder \in {"free", "us", "other"} /\ waiting \subseteq {"us", "other"} \ {holder} /\ (holder = "free" => waiting = {})
    BY DEF LaneInv, LockOK
  <2> QED BY <1>1, <2>1, <2>2, <2>3 DEF LockOK
<1>7. DoneWasServed'
  BY <1>1, <1>2, <1>3 DEF LaneInv, DoneWasServed
<1> QED BY <1>4, <1>5, <1>6, <1>7 DEF LaneInv

---------------------------------------------------------------------------
(* The lock goes back *)

\* Nothing is tried again that is not under way, and nothing is under way while a download drains.
HoldOK(l) == (l.retry => l.transfer # None) /\ (l.draining # 0 => l.transfer = None)

\* What ends with the lock given back
Engaged(l) == l.transfer # None \/ l.draining # 0

\* The lock is among what goes out.
Gives(o) == \E i \in 1..Len(o) : o[i].type = "unlock"

\* The lane takes the lock for its own, or is giving it back ...
Owes(p) == p.locks \/ Gives(p.out)

\* ... and something will make it give it back.
Minds(p) == (p.locks /\ Engaged(p)) \/ Gives(p.out)

\* A handler goes on from p to h: what was owed is minded.
Settles(p, h) == HoldOK(h) /\ (Owes(p) => Minds(h)) /\ (h.retry => p.retry)

\* Nothing of the lock's
HoldSame(p, q) ==
    q.transfer = p.transfer /\ q.retry = p.retry /\ q.draining = p.draining /\ q.locks = p.locks

\* What went out stays out.
LEMMA GivesMore ==
    ASSUME NEW o \in Seq(ToMsg), NEW m \in ToMsg
    PROVE  Gives(Append(o, m)) <=> Gives(o) \/ m.type = "unlock"
<1> HIDE DEF ToMsg
<1>1. /\ Len(Append(o, m)) = Len(o) + 1 /\ Len(o) \in Nat
      /\ \A i \in 1..Len(o) : i \in 1..Len(o)+1 /\ Append(o, m)[i] = o[i]
      /\ Append(o, m)[Len(o) + 1] = m /\ Len(o) + 1 \in 1..Len(o)+1
  OBVIOUS
<1>2. \A i \in 1..Len(o)+1 : i \in 1..Len(o) \/ i = Len(o) + 1
  BY <1>1
<1> QED BY <1>1, <1>2 DEF Gives

\* A packet more goes out.
LEMMA SendsHold ==
    ASSUME NEW p \in LaneT, NEW m \in ToMsg
    PROVE  /\ HoldSame(p, Sends(p, m))
           /\ Gives(Sends(p, m).out) <=> Gives(p.out) \/ m.type = "unlock"
<1> HIDE DEF ToMsg
<1>1. PICK q : q = Sends(p, m)
  OBVIOUS
<1>2. q \in LaneT /\ SameCore(p, q) /\ q.out = Append(p.out, m) /\ q.locks = p.locks
  BY <1>1, SendsIs
<1>3. p.out \in Seq(ToMsg)
  BY DEF LaneT
<1> QED BY <1>1, <1>2, <1>3, GivesMore DEF SameCore, HoldSame

\* A wake-up is asked for.
LEMMA WantsHold ==
    ASSUME NEW p \in LaneT, NEW w PROVE HoldSame(p, Wants(p, w)) /\ Wants(p, w).out = p.out
<1> HIDE DEF ToMsg
<1> QED BY DEF LaneT, Wants, HoldSame

\* The store is left free a while.
LEMMA LeaveFreeHold ==
    ASSUME NEW p \in LaneT PROVE HoldSame(p, LeaveFree(p)) /\ LeaveFree(p).out = p.out
<1> HIDE DEF ToMsg
<1> QED BY DEF LaneT, LeaveFree, HoldSame

\* The lock that is given back goes out.
LEMMA BackIsOut ==
    ASSUME NEW p \in LaneT, DueOK(p)
    PROVE  LET h == GiveLockBack(p) IN
           /\ ~h.locks /\ h.transfer = p.transfer /\ h.retry = p.retry /\ h.draining = p.draining
           /\ Owes(p) => Gives(h.out)
<1> HIDE DEF ToMsg
<1>1. PICK f : f = [p EXCEPT !.locks = FALSE]
  OBVIOUS
<1>2. f \in LaneT /\ f.out = p.out
  BY <1>1 DEF LaneT
<1>3. PICK g : g = Sends(f, Unlock)
  OBVIOUS
<1>4. Unlock \in ToMsg /\ Unlock.type = "unlock"
  BY Packets DEF Unlock
<1>5. g \in LaneT /\ Gives(g.out)
  BY <1>2, <1>3, <1>4, SendsIs, SendsHold
<1>6. LeaveFree(g).out = g.out
  BY <1>5, LeaveFreeHold
<1>7. GiveLockBack(p) = IF p.locks THEN LeaveFree(g) ELSE p
  BY <1>1, <1>3 DEF GiveLockBack
<1>8. Owes(p) => Gives(GiveLockBack(p).out)
  BY <1>5, <1>6, <1>7 DEF Owes
<1>9. SameCore(p, GiveLockBack(p)) /\ ~GiveLockBack(p).locks
  BY GiveLockBackIs
<1> QED BY <1>8, <1>9 DEF SameCore

\* The same, of a lane that is at nothing else
LEMMA BackSettles ==
    ASSUME NEW p \in LaneT, DueOK(p), HoldOK(p) PROVE Settles(p, GiveLockBack(p))
<1>1. PICK h : h = GiveLockBack(p)
  OBVIOUS
<1>2. ~h.locks /\ h.transfer = p.transfer /\ h.retry = p.retry /\ h.draining = p.draining /\ (Owes(p) => Gives(h.out))
  BY <1>1, BackIsOut
<1> QED BY <1>1, <1>2 DEF Settles, HoldOK, Minds

\* The lock is asked for when it is not ours.
LEMMA AskSettles ==
    ASSUME NEW p \in LaneT, HoldOK(p), ~p.locks, NEW t \in Tasks PROVE Settles(p, AskForLock(p, t))
<1> HIDE DEF ToMsg
<1>1. PICK free : free = [p EXCEPT !.yield = "no", !.due = @ \ {"yield"}]
  OBVIOUS
<1>2. free \in LaneT /\ HoldSame(p, free) /\ free.out = p.out
  BY <1>1 DEF LaneT, HoldSame
<1>3. PICK again : again = [free EXCEPT !.asked = TRUE, !.due = @ \ {"asked"}]
  OBVIOUS
<1>4. again \in LaneT /\ HoldSame(free, again) /\ again.out = free.out
  BY <1>2, <1>3 DEF LaneT, HoldSame
<1>5. PICK s : s = Sends(again, Ask(t))
  OBVIOUS
<1>6. HoldSame(again, s) /\ (Gives(again.out) => Gives(s.out))
  BY <1>4, <1>5, Packets, SendsHold
<1>7. PICK w : w = Wants(p, "other")
  OBVIOUS
<1>8. HoldSame(p, w) /\ w.out = p.out
  BY <1>7, WantsHold
<1>9. AskForLock(p, t) \in {p, w, free, s}
  <2>1. CASE p.foreign
    BY <1>7, <2>1 DEF AskForLock
  <2>2. CASE ~p.foreign /\ p.yield # "no" /\ "yield" \notin p.due
    BY <1>7, <2>2 DEF AskForLock
  <2>3. CASE ~p.foreign /\ ~(p.yield # "no" /\ "yield" \notin p.due)
    BY <2>3, <1>1, <1>3, <1>5 DEF AskForLock
  <2>4. p.foreign \in BOOLEAN
    BY DEF LaneT
  <2> QED BY <2>1, <2>2, <2>3, <2>4
<1>10. \A h \in {p, w, free, s} : HoldSame(p, h) /\ (Gives(p.out) => Gives(h.out))
  BY <1>2, <1>4, <1>6, <1>8 DEF HoldSame
<1>11. \A h : HoldSame(p, h) /\ (Gives(p.out) => Gives(h.out)) => Settles(p, h)
  BY DEF HoldSame, Settles, HoldOK, Owes, Minds
<1> QED BY <1>9, <1>10, <1>11

\* What is asked for is under way.
LEMMA StartSettles ==
    ASSUME NEW p \in LaneT, ~p.retry, p.draining = 0, NEW t \in Tasks \ Clears, NEW retry \in BOOLEAN
    PROVE  Settles(p, StartTransfer(p, t, retry))
<1> HIDE DEF ToMsg
<1>1. PICK id \in Nat : id = IF retry THEN p.tid ELSE p.tid + 1
  BY DEF LaneT
<1>2. PICK f : f = [p EXCEPT !.tid = id, !.transfer = t, !.requested = TRUE, !.started = FALSE,
                             !.dataSent = FALSE]
  OBVIOUS
<1>3. f \in LaneT /\ f.transfer = t /\ f.retry = p.retry /\ f.draining = p.draining /\ f.out = p.out
      /\ f.locks = p.locks
  BY <1>1, <1>2 DEF LaneT
<1>4. PICK m \in ToMsg : m = Request(t, id)
  BY Packets
<1>5. PICK h : h = Sends(f, m)
  OBVIOUS
<1>6. HoldSame(f, h) /\ (Gives(f.out) => Gives(h.out))
  BY <1>3, <1>5, SendsHold
<1>7. h = StartTransfer(p, t, retry)
  BY <1>1, <1>2, <1>4, <1>5 DEF StartTransfer
<1>8. t # None
  BY LaneAssumption
<1>9. Settles(p, h)
  BY <1>3, <1>6, <1>8 DEF HoldSame, Settles, HoldOK, Owes, Minds, Engaged
<1> QED BY <1>7, <1>9

\* An idle lane gives the lock back.
LEMMA CleanSettles ==
    ASSUME NEW p \in LaneT, HoldOK(p) PROVE Settles(p, CleanLocks(p))
<1>1. CASE p.locks
  <2>1. PICK h : h = Sends(p, Unlock)
    OBVIOUS
  <2>2. HoldSame(p, h) /\ Gives(h.out)
    BY <2>1, Packets, SendsHold DEF Unlock
  <2>3. h = CleanLocks(p)
    BY <1>1, <2>1 DEF CleanLocks
  <2>4. Settles(p, h)
    BY <2>2 DEF HoldSame, Settles, HoldOK, Minds
  <2> QED BY <2>3, <2>4
<1>2. CASE ~p.locks
  <2>1. CleanLocks(p) = p
    BY <1>2 DEF CleanLocks
  <2>2. Settles(p, p)
    BY <1>2 DEF Settles, Owes, Minds
  <2> QED BY <2>1, <2>2
<1> QED BY <1>1, <1>2

\* The trigger, but for a clear that can go out
LEMMA AdvanceUnlessClearSettles ==
    ASSUME NEW p, LaneOK(p), HoldOK(p), ~p.retry, p.draining = 0,
           NEW store \in Stores, NEW retry \in BOOLEAN,
           ~(NextTask(p, store) \in Clears /\ p.locks /\ ~p.requested)
    PROVE  Settles(p, AdvanceUnlessClear(p, store, retry))
<1>1. p \in LaneT /\ CoreOK(p) /\ p.locks \in BOOLEAN /\ p.requested \in BOOLEAN
  BY DEF LaneOK, LaneT
<1>2. PICK t : t = NextTask(p, store)
  OBVIOUS
<1>3. t = None \/ t \in Tasks
  BY <1>2, NextIs
<1>4. PICK h : h = AdvanceUnlessClear(p, store, retry)
  OBVIOUS
<1>5. None \notin Tasks
  BY LaneAssumption
<1>6. CASE t = None
  <2>1. h = CleanLocks(p)
    BY <1>2, <1>4, <1>6 DEF AdvanceUnlessClear
  <2> QED BY <1>1, <1>4, <2>1, CleanSettles
<1>7. CASE t \in Tasks /\ Store(t) = "still" /\ ~p.locks
  <2>1. h = AskForLock(p, t)
    BY <1>2, <1>4, <1>5, <1>7 DEF AdvanceUnlessClear
  <2> QED BY <1>1, <1>4, <1>7, <2>1, AskSettles
<1>8. CASE t \in Tasks /\ (Store(t) = "macro" \/ p.locks) /\ p.requested
  <2>1. ~(Store(t) = "still" /\ ~p.locks)
    BY <1>8
  <2>2. h = p
    BY <1>2, <1>4, <1>5, <1>8, <2>1 DEF AdvanceUnlessClear
  <2>3. Settles(p, p)
    BY <1>1, <1>8 DEF CoreOK, Settles, Owes, Minds, Engaged
  <2> QED BY <1>4, <2>2, <2>3
<1>9. CASE t \in Tasks /\ (Store(t) = "macro" \/ p.locks) /\ ~p.requested
  <2>1. ~(Store(t) = "still" /\ ~p.locks) /\ t # None
    BY <1>5, <1>9
  <2>2. h = StartTransfer(p, t, retry)
    BY <1>2, <1>4, <1>9, <2>1 DEF AdvanceUnlessClear
  <2>3. t \notin Clears
    BY <1>2, <1>9, StoreIs
  <2> QED BY <1>1, <1>4, <1>9, <2>2, <2>3, StartSettles
<1>10. Store(t) \in {"still", "macro"}
  BY StoreIs DEF Stores
<1> QED BY <1>1, <1>3, <1>6, <1>7, <1>8, <1>9, <1>10

\* A clear goes out, and the lock behind it.
LEMMA DispatchClearOwes ==
    ASSUME NEW p, LaneOK(p), ~p.requested, NEW t \in Clears, p.queue["still"] # <<>>
    PROVE  LET h == DispatchClear(p, t) IN
           h.transfer = None /\ h.retry = p.retry /\ h.draining = p.draining /\ (Owes(p) => Gives(h.out))
<1> HIDE DEF ToMsg
<1>1. p \in LaneT /\ DueOK(p) /\ Sorted(p.queue) /\ "still" \in Stores /\ t \in Tasks
  BY DEF LaneOK, CoreOK, Stores, Tasks
<1>2. PICK a : a = [p EXCEPT !.queue["still"] = Tail(@)]
  OBVIOUS
<1>3. a \in LaneT /\ a = [p EXCEPT !.queue = a.queue]
  BY <1>1, <1>2, PoppedIs
<1>4. HoldSame(p, a) /\ a.out = p.out /\ DueOK(a)
  BY <1>1, <1>3 DEF LaneT, DueOK, HoldSame
<1>5. PICK b : b = Sends(a, Clear(t))
  OBVIOUS
<1>6. Clear(t) \in ToMsg
  BY Packets
<1>7. b \in LaneT /\ DueOK(b) /\ HoldSame(a, b) /\ (Gives(a.out) => Gives(b.out))
  BY <1>3, <1>4, <1>5, <1>6, SendsIs, SendsHold
<1>8. PICK e : e = Ends(b, t, "done")
  OBVIOUS
<1>9. e \in LaneT /\ e = [b EXCEPT !.outcome = e.outcome]
  <2>1. "done" \in {"done", "gone", "failed"}
    OBVIOUS
  <2>2. LET x == Ends(b, t, "done") IN x \in LaneT /\ x = [b EXCEPT !.outcome = x.outcome]
    BY <1>1, <1>7, <2>1, EndsIs, SMTT(30)
  <2> QED BY <1>8, <2>2
<1>10. HoldSame(b, e) /\ e.out = b.out /\ DueOK(e)
  BY <1>7, <1>9 DEF LaneT, DueOK, HoldSame
<1>11. PICK g : g = [e EXCEPT !.transfer = None, !.cleared = @ \cup {t}]
  OBVIOUS
<1>12. g \in LaneT /\ g.transfer = None /\ g.retry = e.retry /\ g.draining = e.draining /\ g.locks = e.locks
       /\ g.out = e.out /\ DueOK(g)
  <2>1. e \in LaneT /\ e.cleared \cup {t} \in SUBSET Clears
    BY <1>9 DEF LaneT
  <2>2. g = [e EXCEPT !.transfer = None, !.cleared = e.cleared \cup {t}]
    BY <1>11
  <2> QED BY <1>10, <2>1, <2>2 DEF LaneT, DueOK
<1>13. PICK h : h = GiveLockBack(g)
  OBVIOUS
<1>14. h.transfer = None /\ h.retry = g.retry /\ h.draining = g.draining /\ (Owes(g) => Gives(h.out))
  BY <1>12, <1>13, BackIsOut
<1>15. Owes(p) => Owes(g)
  BY <1>4, <1>7, <1>10, <1>12 DEF HoldSame, Owes
<1>16. h = DispatchClear(p, t)
  BY <1>2, <1>5, <1>8, <1>11, <1>13 DEF DispatchClear
<1> QED BY <1>4, <1>7, <1>10, <1>12, <1>14, <1>15, <1>16 DEF HoldSame

\* The next task, once nothing keeps the lane from it
LEMMA AdvanceSettles ==
    ASSUME NEW l, NEW may, NEW p, Moves(l, p, may), HoldOK(p), ~p.retry, p.draining = 0,
           NEW store \in Stores, NEW retry \in BOOLEAN
    PROVE  Settles(p, Advance(p, store, retry))
<1>1. PICK t : t = NextTask(p, store)
  OBVIOUS
<1>4. LaneOK(p)
  BY DEF Moves
<1>2. CASE t \in Clears /\ p.locks /\ ~p.requested
  <2>1. t # None /\ Store(t) = "still"
    BY <1>2, StoreIs, LaneAssumption DEF Tasks
  <2>2. p.queue["still"] # <<>>
    BY <1>1, <1>4, <2>1, NextIs
  <2>3. PICK h : h = DispatchClear(p, t)
    OBVIOUS
  <2>4. h.transfer = None /\ ~h.retry /\ h.draining = 0 /\ (Owes(p) => Gives(h.out))
    BY <1>2, <1>4, <2>2, <2>3, DispatchClearOwes
  <2>5. LaneOK(h) /\ ~h.locks
    <3>1. Moves(l, h, may) /\ ~h.locks
      BY <1>2, <2>2, <2>3, DispatchClearKeeps
    <3> QED BY <3>1 DEF Moves
  <2>6. HoldOK(h) /\ "still" \in Stores /\ FALSE \in BOOLEAN
    BY <2>4 DEF HoldOK, Stores
  <2>7. Settles(h, AdvanceUnlessClear(h, "still", FALSE))
    BY <2>4, <2>5, <2>6, AdvanceUnlessClearSettles
  <2>8. Settles(p, AdvanceUnlessClear(h, "still", FALSE))
    BY <2>4, <2>7 DEF Settles, Owes
  <2>9. Advance(p, store, retry) = AdvanceUnlessClear(h, "still", FALSE)
    BY <1>1, <1>2, <2>3 DEF Advance
  <2> QED BY <2>8, <2>9
<1>3. CASE ~(t \in Clears /\ p.locks /\ ~p.requested)
  <2>1. Settles(p, AdvanceUnlessClear(p, store, retry))
    BY <1>1, <1>3, <1>4, AdvanceUnlessClearSettles
  <2>2. Advance(p, store, retry) = AdvanceUnlessClear(p, store, retry)
    BY <1>1, <1>3 DEF Advance
  <2> QED BY <2>1, <2>2
<1> QED BY <1>2, <1>3

\* _transfer_trigger
LEMMA TriggerSettles ==
    ASSUME NEW l, NEW may, NEW p, Moves(l, p, may), HoldOK(p), NEW store \in Stores, NEW retry \in BOOLEAN
    PROVE  Settles(p, Trigger(p, store, retry))
<1>1. p \in LaneT /\ DueOK(p) /\ CoreOK(p) /\ p.retry \in BOOLEAN /\ p.draining \in Nat
  BY DEF Moves, LaneOK, LaneT
<1>2. CASE p.draining # 0
  <2>1. Trigger(p, store, retry) = p
    BY <1>2 DEF Trigger
  <2>2. Settles(p, p)
    BY <1>2 DEF Settles, Owes, Minds, Engaged
  <2> QED BY <2>1, <2>2
<1>3. CASE p.draining = 0 /\ p.retry /\ "try" \notin p.due
  <2>1. PICK h : h = Wants(p, "try")
    OBVIOUS
  <2>2. HoldSame(p, h) /\ h.out = p.out
    BY <1>1, <2>1, WantsHold
  <2>3. Trigger(p, store, retry) = h
    BY <1>3, <2>1 DEF Trigger
  <2>4. Settles(p, h)
    BY <1>3, <2>2 DEF Settles, HoldSame, HoldOK, Owes, Minds, Engaged
  <2> QED BY <2>3, <2>4
<1>4. CASE p.draining = 0 /\ ~(p.retry /\ "try" \notin p.due)
  <2>1. PICK f : f = [p EXCEPT !.retry = FALSE, !.due = @ \ {"try"}]
    OBVIOUS
  <2>2. /\ f \in LaneT /\ f.queue = p.queue /\ f.transfer = p.transfer /\ f.tid = p.tid
        /\ f.requested = p.requested /\ f.retry = FALSE /\ f.draining = p.draining
        /\ f.outcome = p.outcome /\ f.out = p.out /\ f.locks = p.locks /\ DueOK(f)
    <3> HIDE DEF ToMsg
    <3> QED BY <1>1, <2>1 DEF LaneT, DueOK
  <2>3. Moves(l, f, may)
    <3>1. CoreOK(f)
      BY <1>1, <2>2 DEF CoreOK
    <3> QED BY <2>2, <3>1 DEF Moves, Resting, LaneOK
  <2>4. HoldOK(f) /\ (Owes(p) => Owes(f))
    BY <2>2 DEF HoldOK, Owes
  <2>5. PICK again \in BOOLEAN : again = (retry \/ p.retry)
    BY <1>1
  <2>6. Settles(f, Advance(f, store, again))
    BY <1>4, <2>2, <2>3, <2>4, AdvanceSettles
  <2>7. Trigger(p, store, retry) = Advance(f, store, again)
    BY <1>4, <2>1, <2>5 DEF Trigger
  <2>8. Settles(p, Advance(f, store, again))
    BY <2>2, <2>4, <2>6 DEF Settles
  <2> QED BY <2>7, <2>8
<1> QED BY <1>2, <1>3, <1>4

\* A handler goes on from p to h: what was minded still is.
Heeds(p, h) == HoldOK(h) /\ (Minds(p) => Minds(h))

\* To settle is to heed, and both can be done one after the other.
LEMMA Heeding ==
    /\ \A p, h : Settles(p, h) => Heeds(p, h)
    /\ \A p, g, h : Settles(p, g) /\ Settles(g, h) => Settles(p, h)
    /\ \A p, g, h : Heeds(p, g) /\ Heeds(g, h) => Heeds(p, h)
    /\ \A p, h : HoldOK(p) /\ HoldSame(p, h) /\ (Gives(p.out) => Gives(h.out)) => Heeds(p, h)
BY DEF Settles, Heeds, Owes, Minds, Engaged, HoldOK, HoldSame

\* _release_then_continue
LEMMA ReleaseSettles ==
    ASSUME NEW l, l.tid \in Nat, NEW may, NEW p, Moves(l, p, may), ~p.requested, ~p.retry, NEW store \in Stores
    PROVE  Settles(p, ReleaseThenContinue(p, store))
<1>1. PICK h : h = [p EXCEPT !.transfer = None]
  OBVIOUS
<1>2. Moves(l, h, may) /\ h.locks = p.locks
  BY <1>1, EndedKeeps
<1>3. h.transfer = None /\ h.retry = p.retry /\ h.out = p.out
  <2> HIDE DEF ToMsg
  <2> QED BY <1>1 DEF Moves, LaneOK, LaneT
<1>4. HoldOK(h) /\ (Owes(p) => Owes(h))
  BY <1>2, <1>3 DEF HoldOK, Owes
<1>5. PICK g : g = IF store = "still" THEN GiveLockBack(h) ELSE h
  OBVIOUS
<1>6. Moves(l, g, may)
  BY <1>2, <1>5, GiveLockBackKeeps
<1>7. HoldOK(g) /\ (Owes(h) => Owes(g)) /\ ~g.retry
  <2>1. CASE store = "still"
    <3>1. h \in LaneT /\ DueOK(h)
      BY <1>2 DEF Moves, LaneOK
    <3>2. Settles(h, g)
      BY <1>4, <1>5, <2>1, <3>1, BackSettles
    <3> QED BY <1>3, <3>2 DEF Settles, Owes, Minds
  <2>2. CASE store # "still"
    BY <1>3, <1>4, <1>5, <2>2
  <2> QED BY <2>1, <2>2
<1>8. Settles(g, Trigger(g, store, FALSE))
  <2>1. FALSE \in BOOLEAN
    OBVIOUS
  <2> QED BY <1>6, <1>7, <2>1, TriggerSettles
<1>9. ReleaseThenContinue(p, store) = Trigger(g, store, FALSE)
  BY <1>1, <1>5 DEF ReleaseThenContinue
<1> QED BY <1>4, <1>7, <1>8, <1>9 DEF Settles

\* The lock is ours, and what asked for it goes on.
LEMMA LkobMinds ==
    ASSUME NEW l, NEW may, NEW p, Moves(l, p, may), HoldOK(p)
    PROVE  HoldOK(OnLkob(p)) /\ Minds(OnLkob(p))
<1>1. p \in LaneT /\ DueOK(p)
  BY DEF Moves, LaneOK
<1>2. PICK h : h = [p EXCEPT !.locks = TRUE, !.asked = FALSE, !.due = @ \ {"asked"}]
  OBVIOUS
<1>3. h \in LaneT /\ SameCore(p, h) /\ DueOK(h) /\ h.out = p.out /\ h.locks
  <2> HIDE DEF ToMsg
  <2> QED BY <1>1, <1>2 DEF LaneT, SameCore, DueOK
<1>4. Moves(l, h, may) /\ "still" \in Stores /\ FALSE \in BOOLEAN
  BY <1>3, Beside DEF Stores
<1>5. HoldOK(h) /\ Owes(h)
  BY <1>3 DEF HoldOK, SameCore, Owes
<1>6. Settles(h, Trigger(h, "still", FALSE))
  BY <1>4, <1>5, TriggerSettles
<1> QED BY <1>2, <1>5, <1>6 DEF OnLkob, Settles

\* The lock is taken.
LEMMA TakenHeeds ==
    ASSUME NEW p, LaneOK(p), HoldOK(p) PROVE Heeds(p, OnTaken(p))
<1> HIDE DEF ToMsg
<1>1. p \in LaneT
  BY DEF LaneOK
<1>2. PICK g : g = IF p.yield = "no" THEN p ELSE LeaveFree(p)
  OBVIOUS
<1>3. g \in LaneT /\ HoldSame(p, g) /\ g.out = p.out
  <2>1. LeaveFree(p) \in LaneT
    BY <1>1 DEF LaneT, LeaveFree
  <2> QED BY <1>1, <1>2, <2>1, LeaveFreeHold DEF HoldSame
<1>4. PICK h : h = [g EXCEPT !.foreign = TRUE]
  OBVIOUS
<1>5. HoldSame(g, h) /\ h.out = g.out
  BY <1>3, <1>4 DEF LaneT, HoldSame
<1>6. OnTaken(p) = p \/ OnTaken(p) = h
  BY <1>2, <1>4 DEF OnTaken
<1>7. HoldSame(p, h) /\ h.out = p.out /\ HoldSame(p, p)
  BY <1>3, <1>5 DEF HoldSame
<1> QED BY <1>6, <1>7, Heeding

\* The lock is free.
LEMMA FreeHeeds ==
    ASSUME NEW l, NEW may, NEW p, Moves(l, p, may), HoldOK(p) PROVE Heeds(p, OnFree(p))
<1>1. p \in LaneT /\ DueOK(p) /\ p.locks \in BOOLEAN /\ p.requested \in BOOLEAN
  BY DEF Moves, LaneOK, LaneT
<1>2. PICK c \in SUBSET Clocks : c = p.due \ (IF p.yield = "announced" THEN {"asked"} ELSE {"asked", "yield"})
  BY <1>1 DEF LaneT
<1>3. PICK h : h = [p EXCEPT !.foreign = FALSE, !.asked = FALSE, !.yield = "announced", !.due = c]
  OBVIOUS
<1>4. h \in LaneT /\ SameCore(p, h) /\ DueOK(h) /\ h.out = p.out /\ HoldSame(p, h)
  <2> HIDE DEF ToMsg
  <2> QED BY <1>1, <1>2, <1>3, ZenonT(30) DEF LaneT, SameCore, DueOK, HoldSame
<1>5. PICK w : w = Wants(h, "other")
  OBVIOUS
<1>6. Moves(l, w, may) /\ HoldSame(h, w) /\ w.out = h.out
  <2>1. Moves(l, h, may)
    BY <1>4, Beside
  <2> QED BY <1>4, <1>5, <2>1, WantsKeep, WantsHold
<1>7. HoldOK(w) /\ HoldSame(p, w) /\ w.out = p.out /\ "still" \in Stores /\ FALSE \in BOOLEAN
  BY <1>4, <1>6 DEF HoldOK, HoldSame, Stores
<1>8. Settles(w, Trigger(w, "still", FALSE))
  BY <1>6, <1>7, TriggerSettles
<1>9. Heeds(p, w)
  BY <1>7, Heeding
<1>10. OnFree(p) \in {p, h, w, Trigger(w, "still", FALSE)}
  <2>1. h = [p EXCEPT !.foreign = FALSE, !.asked = FALSE, !.yield = "announced",
                      !.due = @ \ (IF p.yield = "announced" THEN {"asked"} ELSE {"asked", "yield"})]
    BY <1>2, <1>3
  <2>2. CASE p.locks
    BY <2>2 DEF OnFree
  <2>3. CASE ~p.locks /\ p.queue["still"] = <<>>
    BY <2>1, <2>3 DEF OnFree
  <2>4. CASE ~p.locks /\ p.queue["still"] # <<>>
    BY <1>1, <1>5, <2>1, <2>4 DEF OnFree
  <2> QED BY <2>2, <2>3, <2>4
<1>11. HoldSame(p, p)
  BY DEF HoldSame
<1>12. Heeds(p, p) /\ Heeds(p, h)
  BY <1>4, <1>11, Heeding
<1>13. Heeds(p, Trigger(w, "still", FALSE))
  BY <1>8, <1>9, Heeding
<1> QED BY <1>9, <1>10, <1>12, <1>13

\* The switcher takes data.
LEMMA FtcdHeeds ==
    ASSUME NEW p, LaneOK(p), HoldOK(p) PROVE Heeds(p, OnFtcd(p))
<1> HIDE DEF ToMsg
<1>1. PICK h : h = [p EXCEPT !.dataSent = TRUE]
  OBVIOUS
<1>2. h \in LaneT /\ HoldSame(p, h) /\ h.out = p.out /\ p.tid \in Nat
  BY <1>1 DEF LaneOK, LaneT, HoldSame
<1>3. PICK s : s = Sends(h, Data(p.tid))
  OBVIOUS
<1>4. HoldSame(h, s) /\ (Gives(h.out) => Gives(s.out))
  BY <1>2, <1>3, Packets, SendsHold
<1>5. OnFtcd(p) = IF p.transfer \in Uploads /\ ~p.dataSent THEN s ELSE p
  BY <1>1, <1>3 DEF OnFtcd
<1>6. HoldSame(p, s) /\ HoldSame(p, p) /\ (Gives(p.out) => Gives(s.out))
  BY <1>2, <1>4 DEF HoldSame
<1> QED BY <1>5, <1>6, Heeding

\* A chunk of a download
LEMMA FtdaHeeds ==
    ASSUME NEW p, LaneOK(p), HoldOK(p), NEW id PROVE Heeds(p, OnFtda(p, id))
<1> HIDE DEF ToMsg
<1>1. PICK h, g : h = [p EXCEPT !.due = @ \ {"drain"}] /\ g = [p EXCEPT !.started = TRUE]
  OBVIOUS
<1>2. HoldSame(p, h) /\ h.out = p.out /\ HoldSame(p, g) /\ g.out = p.out /\ HoldSame(p, p)
  BY <1>1 DEF LaneOK, LaneT, HoldSame
<1>3. OnFtda(p, id) \in {p, h, g}
  <2>1. CASE Drained(p, id)
    BY <1>1, <2>1 DEF OnFtda
  <2>2. CASE ~Drained(p, id)
    BY <1>1, <2>2 DEF OnFtda
  <2> QED BY <2>1, <2>2
<1> QED BY <1>2, <1>3, Heeding

\* An abandoned download is over.
LEMMA EndDrainHeeds ==
    ASSUME NEW l, l.tid \in Nat, NEW may, NEW p, Moves(l, p, may), HoldOK(p) PROVE Heeds(p, EndDrain(p))
<1>1. p \in LaneT /\ DueOK(p) /\ CoreOK(p) /\ p.tid \in Nat
  BY DEF Moves, LaneOK, LaneT
<1>2. CASE p.draining = 0
  <2>1. EndDrain(p) = p
    BY <1>2 DEF EndDrain
  <2> QED BY <2>1 DEF Heeds
<1>3. CASE p.draining # 0
  <2>1. ~p.requested /\ ~p.retry
    BY <1>1, <1>3 DEF CoreOK, HoldOK
  <2>2. PICK h : h = [p EXCEPT !.draining = 0, !.due = @ \ {"drain"}]
    OBVIOUS
  <2>3. /\ h \in LaneT /\ h.queue = p.queue /\ h.transfer = p.transfer /\ h.tid = p.tid
        /\ h.requested = p.requested /\ h.retry = p.retry /\ h.draining = 0 /\ h.locks = p.locks
        /\ h.outcome = p.outcome /\ h.out = p.out /\ DueOK(h)
    <3> HIDE DEF ToMsg
    <3> QED BY <1>1, <2>2 DEF LaneT, DueOK
  <2>4. Sorted(h.queue) /\ h.draining <= h.tid
    BY <1>1, <2>3 DEF CoreOK
  <2>5. Moves(l, h, may) /\ "still" \in Stores
    BY <2>1, <2>3, <2>4, Requeued DEF Stores
  <2>6. Settles(h, ReleaseThenContinue(h, "still"))
    BY <2>1, <2>3, <2>5, ReleaseSettles
  <2>7. EndDrain(p) = ReleaseThenContinue(h, "still")
    BY <1>3, <2>2 DEF EndDrain
  <2>8. Minds(p) => Owes(h)
    BY <2>3 DEF Minds, Owes
  <2> QED BY <2>6, <2>7, <2>8 DEF Settles, Heeds
<1> QED BY <1>2, <1>3

\* Callers are told, and nothing else.
LEMMA ToldHolds ==
    ASSUME NEW p \in LaneT PROVE HoldSame(p, ToldOfError(p)) /\ ToldOfError(p).out = p.out
<1> HIDE DEF ToMsg
<1>1. PICK O : O = [t \in Tasks |-> IF p.outcome[t] = "queued" /\ t \notin Clears THEN "failed"
                                    ELSE p.outcome[t]]
  OBVIOUS
<1>2. PICK h : h = [p EXCEPT !.outcome = O]
  OBVIOUS
<1>3. h.transfer = p.transfer /\ h.retry = p.retry /\ h.draining = p.draining /\ h.locks = p.locks
      /\ h.out = p.out
  BY <1>2 DEF LaneT
<1>4. h = ToldOfError(p)
  BY <1>1, <1>2 DEF ToldOfError
<1> QED BY <1>3, <1>4 DEF HoldSame

\* _fail_transfer
LEMMA FailSettles ==
    ASSUME NEW l, l.tid \in Nat, NEW may, NEW p, Moves(l, p, may), ~p.requested
    PROVE  HoldOK(Fail(p)) /\ (Owes(p) => Minds(Fail(p)))
<1> HIDE DEF ToMsg
<1>1. p \in LaneT /\ DueOK(p) /\ CoreOK(p) /\ Sorted(p.queue)
  BY DEF Moves, LaneOK, CoreOK
<1>2. PICK s \in Stores : s = Store(p.transfer)
  BY StoreIs
<1>3. PICK g : g = IF p.queue[s] # <<>> /\ Head(p.queue[s]) = p.transfer THEN [p EXCEPT !.queue[s] = Tail(@)] ELSE p
  OBVIOUS
<1>4. /\ g \in LaneT /\ Sorted(g.queue) /\ g.transfer = p.transfer /\ g.tid = p.tid
      /\ g.requested = p.requested /\ g.retry = p.retry /\ g.draining = p.draining
      /\ g.outcome = p.outcome /\ g.out = p.out /\ DueOK(g) /\ g.locks = p.locks
  <2>1. CASE g = p
    BY <1>1, <2>1
  <2>2. CASE g # p
    <3>1. g = [p EXCEPT !.queue[s] = Tail(@)] /\ p.queue[s] # <<>>
      BY <1>3, <2>2
    <3>2. g \in LaneT /\ Sorted(g.queue) /\ g = [p EXCEPT !.queue = g.queue]
      BY <1>1, <3>1, PoppedIs
    <3> QED BY <1>1, <3>2 DEF LaneT, DueOK
  <2> QED BY <2>1, <2>2
<1>5. PICK h : h = [g EXCEPT !.retry = FALSE, !.due = @ \ {"try"}]
  OBVIOUS
<1>6. /\ h \in LaneT /\ h.queue = g.queue /\ h.transfer = g.transfer /\ h.tid = g.tid
      /\ h.requested = g.requested /\ h.retry = FALSE /\ h.draining = g.draining
      /\ h.outcome = g.outcome /\ h.out = g.out /\ DueOK(h) /\ h.locks = g.locks
  BY <1>4, <1>5 DEF LaneT, DueOK
<1>7. Sorted(h.queue) /\ h.draining <= h.tid
  BY <1>1, <1>4, <1>6 DEF CoreOK
<1>8. Moves(l, h, may) /\ ~h.requested
  BY <1>4, <1>6, <1>7, Requeued
<1>9. PICK r : r = ReleaseThenContinue(h, s)
  OBVIOUS
<1>10. Settles(h, r) /\ r \in LaneT
  BY <1>6, <1>8, <1>9, ReleaseSettles, ReleaseKeeps DEF Moves, LaneOK
<1>11. HoldSame(r, ToldOfError(r)) /\ ToldOfError(r).out = r.out
  BY <1>10, ToldHolds
<1>12. Fail(p) = ToldOfError(r)
  BY <1>2, <1>3, <1>5, <1>9 DEF Fail
<1>13. Owes(p) => Owes(h)
  BY <1>4, <1>6 DEF Owes
<1> QED BY <1>10, <1>11, <1>12, <1>13 DEF Settles, HoldSame, HoldOK, Minds, Engaged

\* A transfer is refused.  The lock that the switcher says is not ours is not minded.
LEMMA RefusedHolds ==
    ASSUME NEW l, l.tid \in Nat, NEW p, Moves(l, p, TRUE), ~p.requested, ~p.retry, p.transfer # None,
           HoldOK(p), NEW status
    PROVE  HoldOK(Refused(p, status)) /\ (status # 5 => Heeds(p, Refused(p, status)))
<1> HIDE DEF ToMsg
<1>1. p \in LaneT /\ DueOK(p) /\ CoreOK(p) /\ p.locks \in BOOLEAN
  BY DEF Moves, LaneOK, LaneT
<1>2. PICK t \in Tasks : t = p.transfer
  BY <1>1 DEF LaneT
<1>3. PICK s \in Stores : s = Store(t)
  BY StoreIs
<1>4. TRUE \in BOOLEAN /\ FALSE \in BOOLEAN
  OBVIOUS
<1>5. CASE status = 1 /\ MayRetry(p, t)
  <2>1. p.tries \in [Tasks -> 0..Attempts] /\ Attempts \in Nat
    BY <1>1, LaneAssumption DEF LaneT
  <2>2. PICK T : T = [p.tries EXCEPT ![t] = @ + 1]
    OBVIOUS
  <2>3. T \in [Tasks -> 0..Attempts]
    BY <1>5, <2>1, <2>2 DEF MayRetry
  <2>4. PICK h : h = [p EXCEPT !.tries = T, !.retry = TRUE, !.due = @ \ {"try"}]
    OBVIOUS
  <2>5. /\ h \in LaneT /\ h.transfer = p.transfer /\ h.draining = p.draining /\ h.out = p.out
        /\ h.locks = p.locks
    BY <1>1, <2>3, <2>4 DEF LaneT
  <2>6. PICK w : w = Wants(h, "try")
    OBVIOUS
  <2>7. HoldSame(h, w) /\ w.out = h.out
    BY <2>5, <2>6, WantsHold
  <2>8. Heeds(p, w)
    BY <2>5, <2>7 DEF HoldSame, Heeds, HoldOK, Minds, Engaged
  <2>9. Refused(p, status) = w
    BY <1>2, <1>5, <2>2, <2>4, <2>6 DEF Refused
  <2> QED BY <2>8, <2>9 DEF Heeds
<1>6. CASE status = 5
  <2>1. PICK b \in BOOLEAN : b = (p.locks /\ s = "macro")
    OBVIOUS
  <2>2. PICK h : h = [p EXCEPT !.locks = b]
    OBVIOUS
  <2>3. h \in LaneT /\ SameCore(p, h) /\ DueOK(h) /\ h.out = p.out
    BY <1>1, <2>2 DEF LaneT, SameCore, DueOK
  <2>4. Moves(l, h, TRUE) /\ HoldOK(h)
    BY <2>3, Beside DEF SameCore, HoldOK
  <2>5. Settles(h, Trigger(h, s, TRUE))
    BY <1>4, <2>4, TriggerSettles
  <2>6. Refused(p, status) = Trigger(h, s, TRUE)
    BY <1>2, <1>3, <1>6, <2>1, <2>2 DEF Refused
  <2> QED BY <1>6, <2>5, <2>6 DEF Settles
<1>7. CASE status = 6
  <2>1. PICK g : g = [p EXCEPT !.asked = FALSE, !.due = @ \ {"asked"}]
    OBVIOUS
  <2>2. g \in LaneT /\ SameCore(p, g) /\ DueOK(g) /\ g.out = p.out /\ g.locks = p.locks
    BY <1>1, <2>1 DEF LaneT, SameCore, DueOK
  <2>3. Moves(l, g, TRUE) /\ ~g.requested
    BY <2>2, Beside DEF SameCore
  <2>4. PICK h : h = [g EXCEPT !.transfer = None]
    OBVIOUS
  <2>5. Moves(l, h, TRUE) /\ h.locks = g.locks
    BY <2>3, <2>4, EndedKeeps
  <2>6. h.transfer = None /\ h.retry = g.retry /\ h.out = g.out /\ h.draining = g.draining
    BY <2>2, <2>4 DEF LaneT
  <2>7. HoldOK(h) /\ (Minds(p) => Owes(h)) /\ h \in LaneT /\ DueOK(h)
    BY <2>2, <2>5, <2>6 DEF SameCore, HoldOK, Minds, Owes, Moves, LaneOK
  <2>8. Settles(h, GiveLockBack(h)) /\ Settles(h, Trigger(h, s, FALSE))
    BY <1>4, <2>5, <2>7, BackSettles, TriggerSettles
  <2>9. h = [p EXCEPT !.asked = FALSE, !.due = @ \ {"asked"}, !.transfer = None]
    BY <2>1, <2>4
  <2>10. Refused(p, status) = IF s = "still" /\ p.locks THEN GiveLockBack(h) ELSE Trigger(h, s, FALSE)
    BY <1>2, <1>3, <1>7, <2>9 DEF Refused
  <2>11. Settles(h, Refused(p, status))
    BY <2>8, <2>10
  <2> QED BY <2>7, <2>11 DEF Settles, Heeds
<1>8. CASE ~(status = 1 /\ MayRetry(p, t)) /\ status # 5 /\ status # 6
  <2>1. Refused(p, status) = Fail(p)
    BY <1>2, <1>8 DEF Refused
  <2>2. Minds(p) => Owes(p)
    BY DEF Minds, Owes
  <2> QED BY <2>1, <2>2, FailSettles DEF Heeds
<1> QED BY <1>5, <1>6, <1>7, <1>8

\* The end of a transfer by FTDE
LEMMA FtdeHolds ==
    ASSUME NEW l, LaneOK(l), l.out = <<>>, HoldOK(l), NEW msg, msg.type = "FTDE",
           msg.tid = l.tid /\ l.transfer # None => ~l.retry
    PROVE  LET h == OnFtde(l, msg.tid, msg.status) IN HoldOK(h) /\ (msg.status # 5 => Heeds(l, h))
<1> HIDE DEF ToMsg
<1>1. l.tid \in Nat /\ Moves(l, l, Frees(l, msg))
  BY Stays DEF Frees
<1>2. CASE Drained(l, msg.tid)
  <2>1. Heeds(l, EndDrain(l))
    BY <1>1, EndDrainHeeds
  <2>2. OnFtde(l, msg.tid, msg.status) = EndDrain(l)
    BY <1>2 DEF OnFtde
  <2> QED BY <2>1, <2>2 DEF Heeds
<1>3. CASE ~Drained(l, msg.tid) /\ l.transfer # None /\ l.tid = msg.tid
  <2>1. l \in LaneT /\ DueOK(l) /\ CoreOK(l)
    BY DEF LaneOK
  <2>2. PICK h : h = [l EXCEPT !.requested = FALSE]
    OBVIOUS
  <2>3. /\ h \in LaneT /\ h.queue = l.queue /\ h.transfer = l.transfer /\ h.tid = l.tid
        /\ h.requested = FALSE /\ h.retry = l.retry /\ h.draining = l.draining
        /\ h.outcome = l.outcome /\ h.out = l.out /\ DueOK(h) /\ h.locks = l.locks
    BY <2>1, <2>2 DEF LaneT, DueOK
  <2>4. CoreOK(h)
    BY <2>1, <2>3 DEF CoreOK
  <2>5. Moves(l, h, TRUE)
    BY <2>3, <2>4 DEF Moves, Resting, LaneOK, NoAsk
  <2>6. HoldOK(h) /\ (Minds(l) => Minds(h))
    BY <2>3 DEF HoldOK, Minds, Engaged
  <2>7. HoldOK(Refused(h, msg.status)) /\ (msg.status # 5 => Heeds(h, Refused(h, msg.status)))
    BY <1>1, <1>3, <2>3, <2>5, <2>6, RefusedHolds
  <2>8. OnFtde(l, msg.tid, msg.status) = Refused(h, msg.status)
    BY <1>3, <2>2 DEF OnFtde
  <2> QED BY <2>6, <2>7, <2>8 DEF Heeds
<1>4. CASE ~Drained(l, msg.tid) /\ ~(l.transfer # None /\ l.tid = msg.tid)
  <2>1. OnFtde(l, msg.tid, msg.status) = l
    BY <1>4 DEF OnFtde
  <2> QED BY <2>1 DEF Heeds
<1> QED BY <1>2, <1>3, <1>4

\* An FTDC that is not of the transfer under way
LEMMA FtdcHeeds ==
    ASSUME NEW l, l.tid \in Nat, NEW may, NEW p, Moves(l, p, may), HoldOK(p), NEW id
    PROVE  Heeds(p, OnFtdc(p, id))
<1>1. Heeds(p, EndDrain(p))
  BY EndDrainHeeds
<1>2. Heeds(p, LeaveFree(p))
  <2>1. p \in LaneT
    BY DEF Moves, LaneOK
  <2> QED BY <2>1, LeaveFreeHold, Heeding
<1>3. Heeds(p, p)
  BY DEF Heeds
<1> QED BY <1>1, <1>2, <1>3 DEF OnFtdc, SomeoneAtWork

\* A refusal for want of the lock
NotOurs(msg) == msg.type = "FTDE" /\ msg.status = 5

\* save_field_data
LEMMA MessageHeeds ==
    ASSUME NEW l, LaneOK(l), l.out = <<>>, HoldOK(l), NEW msg \in FromMsg,
           msg.type = "FTDE" /\ msg.tid = l.tid /\ l.transfer # None => ~l.retry
    PROVE  LET h == OnMessage(l, msg) IN
           HoldOK(h) /\ (~NotOurs(msg) => Heeds(l, h)) /\ (msg.type = "LKOB" => Minds(h))
<1>1. l.tid \in Nat /\ Moves(l, l, Frees(l, msg))
  BY Stays DEF Frees
<1>2. msg.type \in {"LKOB", "LKST", "FTCD", "FTDa", "FTDE", "FTDC"}
  BY DEF FromMsg, News
<1>3. CASE msg.type = "LKOB"
  <2>1. OnMessage(l, msg) = OnLkob(l)
    BY <1>3 DEF OnMessage
  <2> QED BY <1>1, <2>1, LkobMinds DEF Heeds
<1>4. CASE msg.type = "LKST"
  <2>1. OnMessage(l, msg) = IF msg.taken THEN OnTaken(l) ELSE OnFree(l)
    BY <1>4 DEF OnMessage
  <2>2. Heeds(l, OnTaken(l)) /\ Heeds(l, OnFree(l))
    BY <1>1, TakenHeeds, FreeHeeds
  <2> QED BY <1>4, <2>1, <2>2 DEF Heeds
<1>5. CASE msg.type = "FTCD"
  <2>1. OnMessage(l, msg) = OnFtcd(l)
    BY <1>5 DEF OnMessage
  <2> QED BY <1>5, <2>1, FtcdHeeds DEF Heeds
<1>6. CASE msg.type = "FTDa"
  <2>1. OnMessage(l, msg) = OnFtda(l, msg.tid)
    BY <1>6 DEF OnMessage
  <2> QED BY <1>6, <2>1, FtdaHeeds DEF Heeds
<1>7. CASE msg.type = "FTDE"
  <2>1. OnMessage(l, msg) = OnFtde(l, msg.tid, msg.status)
    BY <1>7 DEF OnMessage
  <2> QED BY <1>7, <2>1, FtdeHolds DEF NotOurs
<1>8. CASE msg.type = "FTDC"
  <2>1. OnMessage(l, msg) = OnFtdc(l, msg.tid)
    BY <1>8 DEF OnMessage
  <2>2. Heeds(l, OnFtdc(l, msg.tid))
    BY <1>1, FtdcHeeds
  <2> QED BY <1>8, <2>1, <2>2 DEF Heeds
<1> QED BY <1>2, <1>3, <1>4, <1>5, <1>6, <1>7, <1>8

\* A drain that has stalled is over.
LEMMA DrainHeeds ==
    ASSUME NEW l, l.tid \in Nat, NEW may, NEW p, Moves(l, p, may), HoldOK(p) PROVE Heeds(p, ServiceDrain(p))
<1>1. Heeds(p, p) /\ Heeds(p, EndDrain(p))
  BY EndDrainHeeds DEF Heeds
<1>2. Heeds(p, Wants(p, "other"))
  <2>1. p \in LaneT
    BY DEF Moves, LaneOK
  <2> QED BY <2>1, WantsHold, Heeding
<1>3. ServiceDrain(p) \in {p, EndDrain(p), Wants(p, "other")}
  <2>1. CASE p.draining = 0
    BY <2>1 DEF ServiceDrain
  <2>2. CASE p.draining # 0 /\ "drain" \in p.due
    BY <2>2 DEF ServiceDrain
  <2>3. CASE p.draining # 0 /\ "drain" \notin p.due
    BY <2>3 DEF ServiceDrain
  <2> QED BY <2>1, <2>2, <2>3
<1> QED BY <1>1, <1>2, <1>3

\* A transfer whose pause is over is tried again.
LEMMA RetryHeeds ==
    ASSUME NEW l, l.tid \in Nat, NEW may, NEW p, Moves(l, p, may), HoldOK(p) PROVE Heeds(p, ServiceRetry(p))
<1>1. CASE ~(p.retry /\ "try" \in p.due /\ p.transfer # None)
  <2>1. ServiceRetry(p) = p
    BY <1>1 DEF ServiceRetry
  <2> QED BY <2>1 DEF Heeds
<1>2. CASE p.retry /\ "try" \in p.due /\ p.transfer # None
  <2>1. p \in LaneT /\ DueOK(p) /\ CoreOK(p)
    BY DEF Moves, LaneOK
  <2>2. PICK f : f = [p EXCEPT !.retry = FALSE, !.due = @ \ {"try"}]
    OBVIOUS
  <2>3. /\ f \in LaneT /\ f.queue = p.queue /\ f.transfer = p.transfer /\ f.tid = p.tid
        /\ f.requested = p.requested /\ f.retry = FALSE /\ f.draining = p.draining
        /\ f.outcome = p.outcome /\ f.out = p.out /\ DueOK(f) /\ f.locks = p.locks
    <3> HIDE DEF ToMsg
    <3> QED BY <2>1, <2>2 DEF LaneT, DueOK
  <2>4. Sorted(f.queue) /\ f.draining <= f.tid /\ ~f.requested
    BY <1>2, <2>1, <2>3 DEF CoreOK
  <2>5. Moves(l, f, may)
    BY <2>3, <2>4, Requeued
  <2>6. HoldOK(f) /\ (Minds(p) => Owes(f)) /\ TRUE \in BOOLEAN /\ Store(p.transfer) \in Stores
    BY <2>3, StoreIs DEF HoldOK, Minds, Owes
  <2>7. Settles(f, Trigger(f, Store(p.transfer), TRUE))
    BY <2>5, <2>6, TriggerSettles
  <2>8. ServiceRetry(p) = Trigger(f, Store(p.transfer), TRUE)
    BY <1>2, <2>2 DEF ServiceRetry
  <2> QED BY <2>6, <2>7, <2>8 DEF Settles, Heeds
<1> QED BY <1>1, <1>2

\* The courtesy pause is over, or no one needs it any more.
LEMMA YieldHeeds ==
    ASSUME NEW l, NEW may, NEW p, Moves(l, p, may), HoldOK(p) PROVE Heeds(p, ServiceYield(p))
<1>1. p \in LaneT /\ "still" \in Stores /\ FALSE \in BOOLEAN
  BY DEF Moves, LaneOK, Stores
<1>2. PICK h : h = [p EXCEPT !.yield = "no", !.due = @ \ {"yield"}]
  OBVIOUS
<1>3. HoldSame(p, h) /\ h.out = p.out /\ HoldSame(p, p)
  <2> HIDE DEF ToMsg
  <2> QED BY <1>1, <1>2 DEF LaneT, HoldSame
<1>4. Heeds(p, p) /\ Heeds(p, h) /\ Heeds(p, Wants(p, "other")) /\ Heeds(p, Trigger(p, "still", FALSE))
  BY <1>1, <1>3, WantsHold, TriggerSettles, Heeding
<1>5. ServiceYield(p) \in {p, h, Trigger(p, "still", FALSE), Wants(p, "other")}
  <2>1. CASE p.yield = "no"
    BY <2>1 DEF ServiceYield
  <2>2. CASE p.yield # "no" /\ p.queue["still"] = <<>>
    BY <1>2, <2>2 DEF ServiceYield
  <2>3. CASE p.yield # "no" /\ p.queue["still"] # <<>> /\ (p.requested \/ p.locks \/ p.foreign)
    BY <2>3 DEF ServiceYield
  <2>4. CASE p.yield # "no" /\ p.queue["still"] # <<>> /\ ~(p.requested \/ p.locks \/ p.foreign)
    BY <2>4 DEF ServiceYield
  <2> QED BY <2>1, <2>2, <2>3, <2>4
<1> QED BY <1>4, <1>5

\* _service_yields
LEMMA WakeupHeeds ==
    ASSUME NEW l, LaneOK(l), l.out = <<>>, HoldOK(l) PROVE Heeds(l, OnWakeup(l))
<1>1. l.tid \in Nat /\ Moves(l, l, Resting(l))
  BY Stays
<1>2. PICK d : d = ServiceDrain(l)
  OBVIOUS
<1>3. Moves(l, d, Resting(l)) /\ Heeds(l, d)
  BY <1>1, <1>2, DrainServiced, DrainHeeds
<1>4. PICK r : r = ServiceRetry(d)
  OBVIOUS
<1>5. Moves(l, r, Resting(l)) /\ Heeds(d, r)
  BY <1>1, <1>3, <1>4, RetryServiced, RetryHeeds DEF Heeds
<1>6. Heeds(r, ServiceYield(r))
  BY <1>5, YieldHeeds DEF Heeds
<1> QED BY <1>2, <1>3, <1>4, <1>5, <1>6, Heeding DEF OnWakeup

\* A task is queued.
LEMMA QueueSettles ==
    ASSUME NEW l, LaneOK(l), l.out = <<>>, HoldOK(l), NEW t \in Tasks PROVE Settles(l, Queue(l, t))
<1>1. PICK h : h = [l EXCEPT !.queue[Store(t)] = Append(@, t), !.outcome[t] = "queued"]
  OBVIOUS
<1>2. /\ Moves(l, h, Resting(l)) /\ h.transfer = l.transfer /\ h.retry = l.retry
      /\ h.draining = l.draining /\ h.locks = l.locks /\ h.out = l.out
  BY <1>1, Joins
<1>3. HoldOK(h) /\ (Owes(l) => Owes(h)) /\ FALSE \in BOOLEAN /\ Store(t) \in Stores
  BY <1>2, StoreIs DEF HoldOK, Owes
<1>4. Settles(h, Trigger(h, Store(t), FALSE))
  BY <1>2, <1>3, TriggerSettles
<1>5. Queue(l, t) = Trigger(h, Store(t), FALSE)
  BY <1>1 DEF Queue
<1> QED BY <1>2, <1>3, <1>4, <1>5 DEF Settles

\* abort_transfers: what is sent already is drained, or the lock goes back.
LEMMA AbortSettles ==
    ASSUME NEW l, LaneOK(l), l.out = <<>>, HoldOK(l), NEW heard \in BOOLEAN PROVE Settles(l, Abort(l, heard))
<1> HIDE DEF ToMsg
<1>1. l.tid \in Nat
  BY DEF LaneOK, LaneT
<1>2. PICK e : e = Emptied(l)
  OBVIOUS
<1>3. /\ e \in LaneT /\ DueOK(e) /\ e.transfer = None /\ e.retry = FALSE /\ e.draining = l.draining
      /\ e.locks = l.locks /\ e.out = <<>>
  BY <1>2, EmptiedIs
<1>4. HoldOK(e) /\ (Owes(l) => Owes(e))
  BY <1>3 DEF HoldOK, Owes
<1>5. CASE CanDrain(l) /\ heard
  <2>1. l.locks /\ l.tid # 0
    <3>1. l.transfer # None
      BY <1>5, LaneAssumption DEF CanDrain, Tasks
    <3> QED BY <1>5, <3>1 DEF CanDrain, LaneOK, CoreOK
  <2>2. PICK h : h = [e EXCEPT !.draining = l.tid, !.due = @ \ {"drain"}]
    OBVIOUS
  <2>3. h \in LaneT /\ h.transfer = None /\ h.retry = FALSE /\ h.draining = l.tid /\ h.locks = l.locks
    BY <1>1, <1>3, <2>2 DEF LaneT
  <2>4. HoldSame(h, Wants(h, "other"))
    BY <2>3, WantsHold
  <2>5. Abort(l, heard) = Wants(h, "other")
    BY <1>2, <1>5, <2>2 DEF Abort
  <2> QED BY <2>1, <2>3, <2>4, <2>5 DEF HoldSame, Settles, HoldOK, Minds, Engaged
<1>6. CASE ~(CanDrain(l) /\ heard)
  <2>1. Settles(e, GiveLockBack(e))
    BY <1>3, <1>4, BackSettles
  <2>2. Abort(l, heard) = GiveLockBack(e)
    BY <1>2, <1>6 DEF Abort
  <2> QED BY <1>3, <1>4, <2>1, <2>2 DEF Settles
<1> QED BY <1>5, <1>6

\* A caller is told that it is over.
LEMMA ToldOneHolds ==
    ASSUME NEW p \in LaneT, NEW t \in Tasks, NEW o
    PROVE  LET h == [p EXCEPT !.outcome[t] = o] IN HoldSame(p, h) /\ h.out = p.out
<1> HIDE DEF ToMsg
<1>1. PICK O : O = [p.outcome EXCEPT ![t] = o]
  OBVIOUS
<1>2. PICK h : h = [p EXCEPT !.outcome = O]
  OBVIOUS
<1>3. HoldSame(p, h) /\ h.out = p.out
  BY <1>2 DEF LaneT, HoldSame
<1>4. h = [p EXCEPT !.outcome[t] = o]
  BY <1>1, <1>2
<1> QED BY <1>3, <1>4

\* dequeue_clear
LEMMA DequeueHolds ==
    ASSUME NEW l, LaneOK(l), NEW t \in Clears PROVE HoldSame(l, Dequeue(l, t)) /\ Dequeue(l, t).out = l.out
<1> HIDE DEF ToMsg
<1>1. PICK Q : Q = [l.queue EXCEPT !["still"] = RemoveFirst(@, t)]
  OBVIOUS
<1>2. PICK h : h = [l EXCEPT !.queue = Q]
  OBVIOUS
<1>3. HoldSame(l, h) /\ h.out = l.out
  BY <1>2 DEF LaneOK, LaneT, HoldSame
<1>4. h = Dequeue(l, t)
  BY <1>1, <1>2 DEF Dequeue
<1> QED BY <1>3, <1>4

---------------------------------------------------------------------------
(* The lock that the switcher has given us is on its way, at work, or on its way back *)

Granted(C) == \E j \in 1..Len(C) : C[j].type = "LKOB"

\* No refusal for want of the lock comes last: the lock itself comes after it.
Answered(C) == \A i \in 1..Len(C) : NotOurs(C[i]) => \E j \in 1..Len(C) : j > i /\ C[j].type = "LKOB"

\* While the FTDC handler holds its slice, the FTDC is at the head of what has come.
SliceHolds == slice # NoSlice => ~lane.retry /\ toClient # <<>> /\ toClient[1].type = "FTDC"

\* The lock of the switcher's last grant, while it stands
Kept ==
    holder = "us" =>
        /\ Answered(toClient)
        /\ \/ Granted(toClient) \/ Gives(toSwitcher)
           \/ IF slice = NoSlice THEN Minds(lane) ELSE lane.locks

LockKept == HoldOK(lane) /\ SliceHolds /\ Kept

\* The packet at the head is taken: a refusal for want of the lock leaves the lock behind it.
LEMMA HeadTaken ==
    ASSUME NEW C \in Seq(FromMsg), C # <<>>
    PROVE  /\ Head(C) = C[1]
           /\ Answered(C) => Answered(Tail(C))
           /\ Granted(C) => C[1].type = "LKOB" \/ Granted(Tail(C))
           /\ Answered(C) /\ NotOurs(C[1]) => Granted(Tail(C))
<1> HIDE DEF FromMsg
<1>1. PICK T : T = Tail(C)
  OBVIOUS
<1>2. /\ Head(C) = C[1] /\ Len(C) \in Nat /\ Len(C) # 0 /\ Len(T) = Len(C) - 1
      /\ \A i \in 1..Len(T) : T[i] = C[i + 1]
  BY <1>1
<1>3. \A j \in 1..Len(C) : j # 1 => j - 1 \in 1..Len(T) /\ T[j - 1] = C[j]
  <2> TAKE j \in 1..Len(C)
  <2> HAVE j # 1
  <2>1. j - 1 \in 1..Len(T) /\ (j - 1) + 1 = j
    BY <1>2
  <2> QED BY <1>2, <2>1
<1>4. Answered(C) => Answered(T)
  <2> SUFFICES ASSUME Answered(C), NEW i \in 1..Len(T), NotOurs(T[i])
               PROVE  \E j \in 1..Len(T) : j > i /\ T[j].type = "LKOB"
    BY DEF Answered
  <2>1. i + 1 \in 1..Len(C) /\ NotOurs(C[i + 1])
    BY <1>2
  <2>2. PICK j \in 1..Len(C) : j > i + 1 /\ C[j].type = "LKOB"
    BY <2>1 DEF Answered
  <2>3. j - 1 \in 1..Len(T) /\ T[j - 1].type = "LKOB" /\ j - 1 > i
    <3>1. j # 1 /\ j - 1 > i
      BY <2>2
    <3> QED BY <1>3, <2>2, <3>1
  <2> QED BY <2>3
<1>5. Granted(C) => C[1].type = "LKOB" \/ Granted(T)
  BY <1>3 DEF Granted
<1>6. Answered(C) /\ NotOurs(C[1]) => Granted(T)
  <2> SUFFICES ASSUME Answered(C), NotOurs(C[1]) PROVE Granted(T)
    OBVIOUS
  <2>1. PICK j \in 1..Len(C) : j > 1 /\ C[j].type = "LKOB"
    BY <1>2 DEF Answered
  <2> QED BY <1>3, <2>1 DEF Granted
<1> QED BY <1>1, <1>2, <1>4, <1>5, <1>6

\* More packets come.
LEMMA MoreComes ==
    ASSUME NEW C \in Seq(FromMsg), NEW E \in Seq(FromMsg)
    PROVE  /\ C # <<>> => (C \o E)[1] = C[1] /\ C \o E # <<>>
           /\ Granted(C) => Granted(C \o E)
           /\ Answered(C) /\ (\A k \in 1..Len(E) : ~NotOurs(E[k])) => Answered(C \o E)
<1> HIDE DEF FromMsg
<1>1. PICK R : R = C \o E
  OBVIOUS
<1>2. /\ Len(R) = Len(C) + Len(E) /\ Len(C) \in Nat /\ Len(E) \in Nat
      /\ \A i \in 1..Len(C) : i \in 1..Len(R) /\ R[i] = C[i]
      /\ \A i \in 1..Len(R) : i \notin 1..Len(C) => i - Len(C) \in 1..Len(E) /\ R[i] = E[i - Len(C)]
  BY <1>1, ConcatProperties, LenProperties
<1>3. C # <<>> => R[1] = C[1] /\ R # <<>>
  <2> SUFFICES ASSUME C # <<>> PROVE R[1] = C[1] /\ R # <<>>
    OBVIOUS
  <2>1. Len(C) # 0
    BY EmptySeq
  <2>2. 1 \in 1..Len(C) /\ Len(R) # 0
    BY <1>2, <2>1
  <2> QED BY <1>2, <2>2
<1>4. Granted(C) => Granted(R)
  BY <1>2 DEF Granted
<1>5. Answered(C) /\ (\A k \in 1..Len(E) : ~NotOurs(E[k])) => Answered(R)
  <2> SUFFICES ASSUME Answered(C), \A k \in 1..Len(E) : ~NotOurs(E[k]), NEW i \in 1..Len(R), NotOurs(R[i])
               PROVE  \E j \in 1..Len(R) : j > i /\ R[j].type = "LKOB"
    BY DEF Answered
  <2>1. i \in 1..Len(C) /\ NotOurs(C[i])
    BY <1>2
  <2>2. PICK j \in 1..Len(C) : j > i /\ C[j].type = "LKOB"
    BY <2>1 DEF Answered
  <2> QED BY <1>2, <2>2
<1> QED BY <1>1, <1>3, <1>4, <1>5

\* The lock comes.
LEMMA LkobComes ==
    ASSUME NEW C \in Seq(FromMsg)
    PROVE  Granted(Append(C, LKOB)) /\ Answered(Append(C, LKOB))
<1> HIDE DEF FromMsg
<1>1. PICK m \in FromMsg : m = LKOB /\ m.type = "LKOB" /\ ~NotOurs(m)
  BY Answers DEF LKOB, NotOurs
<1>2. PICK R : R = Append(C, m)
  OBVIOUS
<1>3. /\ Len(R) = Len(C) + 1 /\ Len(C) \in Nat /\ R[Len(C) + 1] = m
      /\ \A i \in 1..Len(R) : i # Len(C) + 1 => i < Len(C) + 1
  BY <1>2
<1>4. Len(C) + 1 \in 1..Len(R)
  BY <1>3
<1> QED BY <1>1, <1>2, <1>3, <1>4 DEF Granted, Answered

\* What is on the wire stays there when more goes out.
LEMMA GivesBoth ==
    ASSUME NEW S \in Seq(ToMsg), NEW o \in Seq(ToMsg)
    PROVE  Gives(S) \/ Gives(o) => Gives(S \o o)
<1> HIDE DEF ToMsg
<1>1. /\ Len(S \o o) = Len(S) + Len(o) /\ Len(S) \in Nat /\ Len(o) \in Nat
      /\ \A i \in 1..Len(S) : i \in 1..Len(S \o o) /\ (S \o o)[i] = S[i]
      /\ \A i \in 1..Len(o) : Len(S) + i \in 1..Len(S \o o) /\ (S \o o)[Len(S) + i] = o[i]
  BY ConcatProperties, LenProperties
<1> QED BY <1>1 DEF Gives

\* A packet that is no unlock is heard.
LEMMA GivesTail ==
    ASSUME NEW S \in Seq(ToMsg), S # <<>>, Head(S).type # "unlock", Gives(S)
    PROVE  Gives(Tail(S))
<1> HIDE DEF ToMsg
<1>1. PICK i \in 1..Len(S) : S[i].type = "unlock"
  BY DEF Gives
<1>2. i # 1
  BY <1>1
<1>3. i - 1 \in 1..Len(Tail(S)) /\ Tail(S)[i - 1] = S[i]
  <2>1. Len(Tail(S)) = Len(S) - 1 /\ Len(S) \in Nat /\ i \in Nat /\ \A k \in 1..Len(S)-1 : Tail(S)[k] = S[k + 1]
    OBVIOUS
  <2>2. i - 1 \in 1..Len(S)-1 /\ (i - 1) + 1 = i
    BY <1>2, <2>1
  <2> QED BY <2>1, <2>2
<1> QED BY <1>1, <1>3 DEF Gives

\* A handler's end, of the lock
LEMMA DidHolds ==
    ASSUME LaneInv, NEW h, LaneOK(h), NEW w, Did(h, w)
    PROVE  /\ HoldSame(h, lane') /\ lane'.out = <<>>
           /\ Gives(toSwitcher) \/ Gives(h.out) => Gives(toSwitcher')
           /\ Minds(h) => Minds(lane') \/ Gives(toSwitcher')
<1> HIDE DEF ToMsg, FromMsg, Jobs
<1>1. h \in LaneT /\ toSwitcher \in Seq(ToMsg) /\ h.out \in Seq(ToMsg)
  BY DEF LaneOK, LaneT, LaneInv, OnTheWay, Wire, Typed
<1>2. lane' = [h EXCEPT !.out = <<>>, !.wants = {}] /\ toSwitcher' = toSwitcher \o h.out
  BY DEF Did
<1>3. HoldSame(h, lane') /\ lane'.out = <<>>
  BY <1>1, <1>2 DEF LaneT, HoldSame
<1>4. Gives(toSwitcher) \/ Gives(h.out) => Gives(toSwitcher')
  BY <1>1, <1>2, GivesBoth
<1> QED BY <1>3, <1>4 DEF HoldSame, Minds, Engaged

\* At rest the lane gives nothing: what it minds it holds.
LEMMA RestHolds == LaneInv /\ Minds(lane) => lane.locks /\ Engaged(lane)
BY DEF LaneInv, AtRest, Minds, Gives

\* Handlers that take no packet
LEMMA HandlerHolds ==
    ASSUME LaneInv, LockKept, NEW h, LaneOK(h), NEW w, Did(h, w),
           Settles(lane, h) \/ (slice = NoSlice /\ Heeds(lane, h)),
           UNCHANGED <<slice, toClient, switcher>>
    PROVE  LockKept'
<1>1. UNCHANGED <<slice, toClient, holder>>
  BY DEF switcher
<1>2. /\ HoldSame(h, lane') /\ lane'.out = <<>>
      /\ Gives(toSwitcher) \/ Gives(h.out) => Gives(toSwitcher')
      /\ Minds(h) => Minds(lane') \/ Gives(toSwitcher')
  BY DidHolds
<1>3. HoldOK(lane')
  BY <1>2 DEF Settles, Heeds, HoldOK, HoldSame
<1>4. SliceHolds'
  BY <1>1, <1>2 DEF LockKept, SliceHolds, Settles, HoldSame
<1>5. Kept'
  <2> SUFFICES ASSUME holder = "us" PROVE Kept'
    BY <1>1 DEF Kept
  <2>1. CASE Granted(toClient)
    BY <1>1, <2>1 DEF LockKept, Kept
  <2>2. CASE Gives(toSwitcher)
    BY <1>1, <1>2, <2>2 DEF LockKept, Kept
  <2>3. CASE slice = NoSlice /\ Minds(lane)
    <3>1. Minds(h)
      BY <2>3 DEF Settles, Heeds, Minds, Owes
    <3> QED BY <1>1, <1>2, <2>3, <3>1 DEF LockKept, Kept
  <2>4. CASE slice # NoSlice /\ lane.locks
    <3>1. Minds(h)
      BY <2>4 DEF Settles, Owes
    <3>2. lane'.locks \/ Gives(toSwitcher')
      BY <1>2, <3>1 DEF Minds, HoldSame
    <3> QED BY <1>1, <2>4, <3>2 DEF LockKept, Kept
  <2> QED BY <2>1, <2>2, <2>3, <2>4 DEF LockKept, Kept
<1> QED BY <1>3, <1>4, <1>5 DEF LockKept

\* loop() on a packet
LEMMA ReceiveHolds == LaneInv /\ LockKept /\ Receive => LockKept'
<1> SUFFICES ASSUME LaneInv, LockKept, Receive PROVE LockKept'
  OBVIOUS
<1> HIDE DEF ToMsg, FromMsg, Jobs
<1>1. LaneOK(lane) /\ lane.out = <<>> /\ OnTheWay /\ toClient # <<>> /\ toClient \in Seq(FromMsg)
  BY DEF LaneInv, AtRest, Receive, OnTheWay, Wire, Typed
<1>2. PICK msg \in FromMsg : msg = Head(toClient) /\ msg = toClient[1] /\ 1 \in 1..Len(toClient)
  BY <1>1, TailIs
<1>3. PICK h : h = OnMessage(lane, msg)
  OBVIOUS
<1>4. Did(h, wake) /\ toClient' = Tail(toClient) /\ UNCHANGED <<slice, holder>> /\ slice = NoSlice
  BY <1>2, <1>3 DEF Receive, switcher
<1>5. ASSUME msg.type = "FTDE", msg.tid = lane.tid, lane.transfer # None PROVE ~lane.retry
  <2>1. lane.tid # 0 /\ IsEnd(toClient[1], lane.tid)
    BY <1>1, <1>2, <1>5 DEF LaneOK, CoreOK, IsEnd, Final
  <2> QED BY <1>1, <1>2, <2>1 DEF OnTheWay, Wire, Resting, Free
<1>6. HoldOK(h) /\ (~NotOurs(msg) => Heeds(lane, h)) /\ (msg.type = "LKOB" => Minds(h))
  BY <1>1, <1>3, <1>5, MessageHeeds DEF LockKept
<1>7. LaneOK(h)
  BY <1>1, <1>3, MessageMoves DEF Moves
<1>8. /\ HoldSame(h, lane') /\ (Gives(toSwitcher) => Gives(toSwitcher'))
      /\ Minds(h) => Minds(lane') \/ Gives(toSwitcher')
  BY <1>4, <1>7, DidHolds
<1>9. HoldOK(lane') /\ SliceHolds'
  BY <1>4, <1>6, <1>8 DEF HoldOK, HoldSame, SliceHolds
<1>10. Kept'
  <2> SUFFICES ASSUME holder = "us"
               PROVE  Answered(toClient') /\ (Granted(toClient') \/ Gives(toSwitcher') \/ Minds(lane'))
    BY <1>4 DEF Kept
  <2>1. /\ Answered(toClient) /\ (Granted(toClient) \/ Gives(toSwitcher) \/ Minds(lane))
    BY <1>4 DEF LockKept, Kept
  <2>2. /\ Answered(toClient') /\ (Granted(toClient) => msg.type = "LKOB" \/ Granted(toClient'))
        /\ NotOurs(msg) => Granted(toClient')
    BY <1>1, <1>2, <1>4, <2>1, HeadTaken
  <2> QED BY <1>6, <1>8, <2>1, <2>2 DEF Heeds
<1> QED BY <1>9, <1>10 DEF LockKept

\* The FTDC of ours
LEMMA TakesSliceHolds == LaneInv /\ LockKept /\ TakesSlice => LockKept'
<1> SUFFICES ASSUME LaneInv, LockKept, TakesSlice PROVE LockKept'
  OBVIOUS
<1> HIDE DEF ToMsg, FromMsg, Jobs
<1>1. /\ UNCHANGED <<lane, toSwitcher, toClient, holder>> /\ slice = NoSlice
      /\ toClient # <<>> /\ IsOurs(lane, Head(toClient))
  BY DEF TakesSlice, switcher
<1>2. ~lane.retry
  BY <1>1, OursIsAtTheHead DEF Resting
<1>3. toClient[1].type = "FTDC"
  <2>1. Head(toClient) = toClient[1]
    BY <1>1, TailIs DEF LaneInv, OnTheWay, Wire, Typed
  <2> QED BY <1>1, <2>1 DEF IsOurs
<1>4. Minds(lane) => lane.locks
  BY RestHolds
<1>5. HoldOK(lane') /\ SliceHolds'
  BY <1>1, <1>2, <1>3 DEF LockKept, SliceHolds
<1>6. Kept'
  BY <1>1, <1>4 DEF LockKept, Kept
<1> QED BY <1>5, <1>6 DEF LockKept

\* The lock goes back after the transfer.
LEMMA CompletesHolds == LaneInv /\ LockKept /\ Completes => LockKept'
<1> SUFFICES ASSUME LaneInv, LockKept, Completes PROVE LockKept'
  OBVIOUS
<1> HIDE DEF ToMsg, FromMsg, Jobs
<1>1. PICK b : \E s \in Stores :
         /\ LaneOK(b) /\ b.transfer = None /\ b.requested = FALSE /\ b.out = <<>>
         /\ b.tid = lane.tid /\ b.retry = lane.retry /\ b.locks = lane.locks
         /\ Did(ReleaseThenContinue(b, s), wake)
  BY Completing
<1>2. PICK s \in Stores : Did(ReleaseThenContinue(b, s), wake)
  BY <1>1
<1>3. /\ slice # NoSlice /\ slice' = NoSlice /\ toClient' = Tail(toClient) /\ holder' = holder
      /\ toClient \in Seq(FromMsg) /\ toClient # <<>> /\ toClient[1].type = "FTDC" /\ ~lane.retry
  BY DEF Completes, switcher, LockKept, SliceHolds, LaneInv, OnTheWay, Wire, Typed
<1>4. Moves(b, b, Resting(b)) /\ b.tid \in Nat
  BY <1>1, Stays
<1>5. PICK h : h = ReleaseThenContinue(b, s)
  OBVIOUS
<1>6. Settles(b, h) /\ LaneOK(h)
  BY <1>1, <1>3, <1>4, <1>5, ReleaseSettles, ReleaseKeeps DEF Moves
<1>7. /\ HoldSame(h, lane') /\ (Gives(toSwitcher) => Gives(toSwitcher'))
      /\ Minds(h) => Minds(lane') \/ Gives(toSwitcher')
  BY <1>2, <1>5, <1>6, DidHolds
<1>8. HoldOK(lane') /\ SliceHolds'
  BY <1>3, <1>6, <1>7 DEF Settles, HoldOK, HoldSame, SliceHolds
<1>9. Kept'
  <2> SUFFICES ASSUME holder = "us"
               PROVE  Answered(toClient') /\ (Granted(toClient') \/ Gives(toSwitcher') \/ Minds(lane'))
    BY <1>3 DEF Kept
  <2>1. Answered(toClient) /\ (Granted(toClient) \/ Gives(toSwitcher) \/ lane.locks)
    BY <1>3 DEF LockKept, Kept
  <2>2. Answered(toClient') /\ (Granted(toClient) => Granted(toClient'))
    BY <1>3, <2>1, HeadTaken
  <2>3. lane.locks => Minds(h)
    BY <1>1, <1>6 DEF Settles, Owes
  <2> QED BY <1>7, <2>1, <2>2, <2>3
<1> QED BY <1>8, <1>9 DEF LockKept

\* The transport's wake-up, and a caller's
LEMMA WakesHold == LaneInv /\ LockKept /\ (WakeFires \/ CallerWakes) => LockKept'
<1> SUFFICES ASSUME LaneInv, LockKept, WakeFires \/ CallerWakes PROVE LockKept'
  OBVIOUS
<1>1. LaneOK(lane) /\ lane.out = <<>> /\ HoldOK(lane)
  BY DEF LaneInv, AtRest, LockKept
<1>2. LaneOK(OnWakeup(lane)) /\ Heeds(lane, OnWakeup(lane))
  BY <1>1, WakeupMoves, WakeupHeeds DEF Moves
<1>3. PICK w : Did(OnWakeup(lane), w) /\ slice = NoSlice /\ UNCHANGED <<slice, toClient, switcher>>
  BY DEF WakeFires, CallerWakes
<1> QED BY <1>2, <1>3, HandlerHolds

\* A task is queued.
LEMMA CallerQueuesHolds == ASSUME LaneInv, LockKept, NEW t \in Tasks, CallerQueues(t) PROVE LockKept'
<1>1. LaneOK(lane) /\ lane.out = <<>> /\ HoldOK(lane)
  BY DEF LaneInv, AtRest, LockKept
<1>2. LaneOK(Queue(lane, t)) /\ Settles(lane, Queue(lane, t))
  BY <1>1, QueuedMoves, QueueSettles DEF Moves
<1>3. Did(Queue(lane, t), wake) /\ UNCHANGED <<slice, toClient, switcher>>
  BY DEF CallerQueues
<1> QED BY <1>2, <1>3, HandlerHolds

\* Nothing of the lock's is touched.
LEMMA AsideHolds ==
    ASSUME LaneInv, LockKept, HoldSame(lane, lane'), lane'.out = lane.out,
           UNCHANGED <<slice, toSwitcher, toClient, holder>>
    PROVE  LockKept'
<1>1. HoldOK(lane') /\ SliceHolds'
  BY DEF LockKept, HoldOK, HoldSame, SliceHolds
<1>2. Minds(lane') <=> Minds(lane)
  BY DEF HoldSame, Minds, Engaged
<1>3. lane'.locks = lane.locks
  BY DEF HoldSame
<1>4. Kept'
  BY <1>2, <1>3 DEF LockKept, Kept
<1> QED BY <1>1, <1>4 DEF LockKept

\* Time passes.
LEMMA ElapseHolds == ASSUME LaneInv, LockKept, NEW c \in Clocks, Elapse(c) PROVE LockKept'
<1> HIDE DEF ToMsg
<1>1. lane \in LaneT
  BY DEF LaneInv, AtRest, LaneOK
<1>2. PICK g : g = [lane EXCEPT !.due = @ \cup {c}]
  OBVIOUS
<1>3. HoldSame(lane, g) /\ g.out = lane.out
  BY <1>1, <1>2 DEF LaneT, HoldSame
<1>4. lane' = g /\ UNCHANGED <<slice, toSwitcher, toClient, holder>>
  BY <1>2 DEF Elapse, switcher
<1> QED BY <1>3, <1>4, AsideHolds

\* A caller gives up.
LEMMA TimeoutsHold ==
    ASSUME LaneInv, LockKept, NEW t \in Tasks, DownloadTimesOut(t) \/ ClearTimesOut(t) \/ UploadTimesOut(t)
    PROVE  LockKept'
<1>1. LaneOK(lane) /\ lane.out = <<>> /\ HoldOK(lane) /\ lane \in LaneT
  BY DEF LaneInv, AtRest, LockKept, LaneOK
<1>2. CASE DownloadTimesOut(t)
  <2>1. PICK heard \in BOOLEAN : Did([Abort(lane, heard) EXCEPT !.outcome[t] = "gone"], wake)
    BY <1>2 DEF DownloadTimesOut
  <2>2. PICK a : a = Abort(lane, heard)
    OBVIOUS
  <2>3. Moves(lane, a, Resting(lane)) /\ Settles(lane, a)
    BY <1>1, <2>2, AbortMoves, AbortSettles
  <2>4. PICK h : h = [a EXCEPT !.outcome[t] = "gone"]
    OBVIOUS
  <2>5. HoldSame(a, h) /\ h.out = a.out
    BY <2>3, <2>4, ToldOneHolds DEF Moves, LaneOK
  <2>6. LaneOK(h)
    BY <2>3, <2>4, ToldOne DEF Moves
  <2>7. Settles(lane, h)
    BY <2>3, <2>5 DEF Settles, HoldSame, HoldOK, Minds, Engaged
  <2>8. Did(h, wake) /\ UNCHANGED <<slice, toClient, switcher>>
    BY <1>2, <2>1, <2>2, <2>4 DEF DownloadTimesOut
  <2> QED BY <2>6, <2>7, <2>8, HandlerHolds
<1>3. CASE ClearTimesOut(t)
  <2>1. PICK o : o = IF InQueue(t) THEN "gone" ELSE "done"
    OBVIOUS
  <2>2. PICK d : d = Dequeue(lane, t)
    OBVIOUS
  <2>3. PICK h : h = [d EXCEPT !.outcome[t] = o]
    OBVIOUS
  <2>4. t \in Clears /\ Did(h, wake) /\ UNCHANGED <<slice, toClient, switcher>>
    BY <1>3, <2>1, <2>2, <2>3 DEF ClearTimesOut
  <2>5. d \in LaneT /\ HoldSame(lane, d) /\ d.out = lane.out
    BY <1>1, <2>2, <2>4, DequeueMoves, DequeueHolds DEF Moves, LaneOK
  <2>6. HoldSame(d, h) /\ h.out = d.out
    BY <2>3, <2>5, ToldOneHolds
  <2>7. HoldSame(lane, lane') /\ lane'.out = lane.out
    <3>1. lane' = [h EXCEPT !.out = <<>>, !.wants = {}]
      BY <2>4 DEF Did
    <3>2. h \in LaneT
      <4>1. Moves(lane, d, Resting(lane))
        BY <1>1, <2>2, <2>4, DequeueMoves
      <4>2. o \in {"gone", "done"}
        BY <2>1
      <4>3. Moves(lane, h, Resting(lane))
        BY <2>3, <2>4, <4>1, <4>2, ToldOne
      <4> QED BY <4>3 DEF Moves, LaneOK
    <3>3. HoldSame(h, lane') /\ lane'.out = <<>>
      <4> HIDE DEF ToMsg
      <4> QED BY <3>1, <3>2 DEF LaneT, HoldSame
    <3> QED BY <1>1, <2>5, <2>6, <3>3 DEF HoldSame
  <2>8. toSwitcher' = toSwitcher /\ UNCHANGED <<slice, toClient, holder>>
    <3>1. toSwitcher' = toSwitcher \o <<>> /\ toSwitcher \in Seq(ToMsg)
      BY <1>1, <2>4, <2>5, <2>6 DEF Did, LaneInv, OnTheWay, Wire, Typed
    <3>2. toSwitcher \o <<>> = toSwitcher
      <4> HIDE DEF ToMsg
      <4> QED BY <3>1
    <3> QED BY <2>4, <3>1, <3>2 DEF switcher
  <2> QED BY <2>7, <2>8, AsideHolds
<1>4. CASE UploadTimesOut(t)
  <2>1. PICK h : h = [lane EXCEPT !.outcome[t] = "gone"]
    OBVIOUS
  <2>2. HoldSame(lane, h) /\ h.out = lane.out
    BY <1>1, <2>1, ToldOneHolds
  <2>3. lane' = h /\ UNCHANGED <<slice, toSwitcher, toClient, holder>>
    BY <1>4, <2>1 DEF UploadTimesOut, switcher
  <2> QED BY <2>2, <2>3, AsideHolds
<1> QED BY <1>2, <1>3, <1>4

\* A step of the switcher: what it gives us is on its way, and it takes back what it hears of.
LEMMA SwitcherHolds ==
    ASSUME LaneInv, LockKept, UNCHANGED <<lane, slice>>,
           NEW E \in Seq(FromMsg), toClient' = toClient \o E,
           holder' = "us" =>
              \/ \E D \in Seq(FromMsg) : toClient' = Append(D, LKOB)
              \/ /\ holder = "us" /\ \A k \in 1..Len(E) : ~NotOurs(E[k])
                 /\ Gives(toSwitcher) => Gives(toSwitcher')
    PROVE  LockKept'
<1> HIDE DEF FromMsg, ToMsg, Jobs
<1>1. toClient \in Seq(FromMsg)
  BY DEF LaneInv, OnTheWay, Wire, Typed
<1>2. /\ toClient # <<>> => toClient'[1] = toClient[1] /\ toClient' # <<>>
      /\ Granted(toClient) => Granted(toClient')
      /\ Answered(toClient) /\ (\A k \in 1..Len(E) : ~NotOurs(E[k])) => Answered(toClient')
  BY <1>1, MoreComes
<1>3. HoldOK(lane') /\ SliceHolds'
  BY <1>2 DEF LockKept, SliceHolds
<1>4. Kept'
  <2> SUFFICES ASSUME holder' = "us" PROVE Kept'
    BY DEF Kept
  <2>1. CASE \E D \in Seq(FromMsg) : toClient' = Append(D, LKOB)
    <3>1. PICK D \in Seq(FromMsg) : toClient' = Append(D, LKOB)
      BY <2>1
    <3>2. Granted(toClient') /\ Answered(toClient')
      BY <3>1, LkobComes
    <3> QED BY <3>2 DEF Kept
  <2>2. CASE /\ holder = "us" /\ \A k \in 1..Len(E) : ~NotOurs(E[k])
             /\ Gives(toSwitcher) => Gives(toSwitcher')
    BY <1>2, <2>2 DEF LockKept, Kept
  <2> QED BY <2>1, <2>2
<1> QED BY <1>3, <1>4 DEF LockKept

\* Nothing comes, or one packet.
LEMMA NothingComes ==
    ASSUME NEW C \in Seq(FromMsg)
    PROVE  /\ <<>> \in Seq(FromMsg) /\ C \o <<>> = C /\ \A k \in 1..Len(<<>>) : ~NotOurs(<<>>[k])
           /\ \A m \in FromMsg :
                 /\ <<m>> \in Seq(FromMsg) /\ C \o <<m>> = Append(C, m)
                 /\ ~NotOurs(m) => \A k \in 1..Len(<<m>>) : ~NotOurs(<<m>>[k])
<1> HIDE DEF FromMsg
<1>1. <<>> \in Seq(FromMsg) /\ C \o <<>> = C /\ 1..Len(<<>>) = {}
  OBVIOUS
<1>2. ASSUME NEW m \in FromMsg
      PROVE  <<m>> \in Seq(FromMsg) /\ C \o <<m>> = Append(C, m) /\ \A k \in 1..Len(<<m>>) : <<m>>[k] = m
  OBVIOUS
<1> QED BY <1>1, <1>2

\* A transfer is asked for: only who lacks the lock is refused for want of it.
LEMMA RequestHolds ==
    ASSUME LaneInv, LockKept, NEW t \in Tasks \ Clears, NEW id \in Nat, HearsRequest(t, id),
           UNCHANGED <<lane, slice>>, Gives(toSwitcher) => Gives(toSwitcher')
    PROVE  LockKept'
<1> HIDE DEF FromMsg, ToMsg, Jobs
<1>1. toClient \in Seq(FromMsg) /\ holder' = holder
  BY DEF LaneInv, OnTheWay, Wire, Typed, HearsRequest
<1>2. PICK m \in FromMsg : toClient' = Append(toClient, m) /\ (NotOurs(m) => holder # "us")
  <2>1. CASE Refuses(t, id)
    <3>1. \A s \in {1, 2, 5, 6} : FTDE(id, s) \in FromMsg /\ (NotOurs(FTDE(id, s)) => s = 5)
      BY Answers DEF NotOurs, FTDE
    <3>2. PICK s \in {1, 2, 5, 6} : toClient' = Append(toClient, FTDE(id, s)) /\ (s = 5 => holder # "us")
      BY <2>1 DEF Refuses
    <3> QED BY <3>1, <3>2
  <2>2. CASE toClient' = IF t \in Uploads THEN Append(toClient, FTCD) ELSE Append(toClient, FTDa(id))
    <3>1. FTCD \in FromMsg /\ FTDa(id) \in FromMsg /\ ~NotOurs(FTCD) /\ ~NotOurs(FTDa(id))
      BY Answers DEF NotOurs, FTCD, FTDa
    <3> QED BY <2>2, <3>1
  <2> QED BY <2>1, <2>2 DEF HearsRequest
<1>3. /\ <<m>> \in Seq(FromMsg) /\ toClient' = toClient \o <<m>>
      /\ ~NotOurs(m) => \A k \in 1..Len(<<m>>) : ~NotOurs(<<m>>[k])
  BY <1>1, <1>2, NothingComes
<1> QED BY <1>1, <1>2, <1>3, SwitcherHolds

\* Every packet to the switcher
LEMMA SwitcherHearsHolds == LaneInv /\ LockKept /\ SwitcherHears => LockKept'
<1> SUFFICES ASSUME LaneInv, LockKept, SwitcherHears PROVE LockKept'
  OBVIOUS
<1>1. toSwitcher # <<>> /\ toSwitcher' = Tail(toSwitcher) /\ Hears(Head(toSwitcher)) /\ UNCHANGED <<lane, slice>>
  BY DEF SwitcherHears
<1>2. toSwitcher \in Seq(ToMsg) /\ toClient \in Seq(FromMsg)
  BY DEF LaneInv, OnTheWay, Wire, Typed
<1>3. PICK m \in ToMsg : m = Head(toSwitcher)
  <2> HIDE DEF ToMsg
  <2> QED BY <1>1, <1>2, TailIs
<1>4. m.type # "unlock" /\ Gives(toSwitcher) => Gives(toSwitcher')
  BY <1>1, <1>2, <1>3, GivesTail
<1>5. ASSUME m.type # "unlock", UNCHANGED <<toClient, holder>> PROVE LockKept'
  <2>1. /\ <<>> \in Seq(FromMsg) /\ toClient' = toClient \o <<>>
        /\ \A k \in 1..Len(<<>>) : ~NotOurs(<<>>[k])
    BY <1>2, <1>5, NothingComes
  <2> HIDE DEF FromMsg, ToMsg
  <2> QED BY <1>1, <1>4, <1>5, <2>1, SwitcherHolds
<1>6. CASE m.type \in {"LOCK", "PLCK"}
  <2>1. HearsAsk(m.type = "LOCK")
    BY <1>1, <1>3, <1>6 DEF Hears
  <2>2. CASE toClient' = Append(toClient, LKOB)
    <3>1. LKOB \in FromMsg
      BY Answers
    <3>2. <<LKOB>> \in Seq(FromMsg) /\ toClient' = toClient \o <<LKOB>>
      BY <1>2, <2>2, <3>1, NothingComes
    <3> HIDE DEF FromMsg, ToMsg
    <3> QED BY <1>1, <1>2, <2>2, <3>2, SwitcherHolds
  <2>3. CASE UNCHANGED <<holder, toClient>>
    BY <1>5, <1>6, <2>3
  <2> QED BY <2>1, <2>2, <2>3 DEF HearsAsk
<1>7. CASE m.type = "unlock"
  <2>1. HearsUnlock
    BY <1>1, <1>3, <1>7 DEF Hears
  <2>2. holder' # "us" /\ toClient' = toClient
    BY <2>1 DEF HearsUnlock, HandsOver
  <2>3. <<>> \in Seq(FromMsg) /\ toClient' = toClient \o <<>>
    BY <1>2, <2>2, NothingComes
  <2> HIDE DEF FromMsg, ToMsg
  <2> QED BY <1>1, <2>2, <2>3, SwitcherHolds
<1>8. CASE m.type = "CSTL"
  <2>1. HearsClear(m.task)
    BY <1>1, <1>3, <1>8 DEF Hears
  <2> QED BY <1>5, <1>8, <2>1 DEF HearsClear
<1>9. CASE m.type = "data"
  <2>1. HearsData(m.tid)
    BY <1>1, <1>3, <1>9 DEF Hears
  <2> QED BY <1>5, <1>9, <2>1 DEF HearsData
<1>10. CASE m.type = "request"
  <2>1. HearsRequest(m.task, m.tid)
    BY <1>1, <1>3, <1>10 DEF Hears
  <2>2. m.task \in Tasks \ Clears /\ m.tid \in Nat
    BY <1>3, <1>10 DEF ToMsg
  <2> HIDE DEF FromMsg, ToMsg
  <2> QED BY <1>1, <1>4, <1>10, <2>1, <2>2, RequestHolds
<1>11. m.type \in {"LOCK", "PLCK", "unlock", "CSTL", "request", "data"}
  BY <1>3 DEF ToMsg
<1> QED BY <1>6, <1>7, <1>8, <1>9, <1>10, <1>11

\* The other steps of the switcher, and of the other client
LEMMA OthersHold ==
    ASSUME LaneInv, LockKept, JobEnds \/ JobDropped \/ FrameTick \/ OtherAsks \/ OtherReleases
    PROVE  LockKept'
<1> HIDE DEF FromMsg, ToMsg, Jobs, News
<1>1. /\ toClient \in Seq(FromMsg) /\ news \in Seq(News) /\ job \in Jobs /\ UNCHANGED <<lane, slice, toSwitcher>>
  BY DEF LaneInv, OnTheWay, Wire, Typed, LockOK, JobEnds, JobDropped, FrameTick, OtherAsks, OtherReleases
<1>2. CASE JobEnds
  <2>1. job.tid \in Nat
    BY <1>1 DEF Jobs
  <2>2. PICK m \in FromMsg : m = FTDC(job.tid) /\ m.type = "FTDC"
    BY <2>1, Answers
  <2>3. toClient' = Append(toClient, m) /\ holder' = holder /\ ~NotOurs(m)
    BY <1>2, <2>2 DEF JobEnds, NotOurs
  <2>4. <<m>> \in Seq(FromMsg) /\ toClient' = toClient \o <<m>> /\ \A k \in 1..Len(<<m>>) : ~NotOurs(<<m>>[k])
    BY <1>1, <2>3, NothingComes
  <2> QED BY <1>1, <2>3, <2>4, SwitcherHolds
<1>3. CASE JobDropped \/ OtherAsks
  <2>1. /\ <<>> \in Seq(FromMsg) /\ toClient' = toClient \o <<>>
        /\ \A k \in 1..Len(<<>>) : ~NotOurs(<<>>[k])
    BY <1>1, <1>3, NothingComes DEF JobDropped, OtherAsks
  <2>2. holder' = "us" => holder = "us"
    BY <1>3 DEF JobDropped, OtherAsks
  <2> QED BY <1>1, <2>1, <2>2, SwitcherHolds
<1>4. CASE FrameTick
  <2>1. \A k \in 1..Len(news) : news[k] \in FromMsg /\ ~NotOurs(news[k])
    <3>1. \A m \in News : m \in FromMsg /\ ~NotOurs(m)
      BY Answers DEF NotOurs, News
    <3> QED BY <1>1, <3>1
  <2>2. news \in Seq(FromMsg)
    <3>1. Len(news) \in Nat /\ news \in [1..Len(news) -> FromMsg]
      BY <1>1, <2>1
    <3> QED BY <3>1
  <2>3. toClient' = toClient \o news /\ holder' = holder
    BY <1>4 DEF FrameTick
  <2> QED BY <1>1, <2>1, <2>2, <2>3, SwitcherHolds
<1>5. CASE OtherReleases
  <2>1. PICK a \in FromMsg, b \in FromMsg : a = FTDC(0) /\ b = LKOB
    <3>1. 0 \in Nat
      OBVIOUS
    <3> QED BY <3>1, Answers
  <2>2. PICK d \in {<<>>, <<a>>} : toClient' = toClient \o d \o (IF "us" \in waiting THEN <<b>> ELSE <<>>)
    BY <1>5, <2>1 DEF OtherReleases
  <2>3. PICK e \in {<<>>, <<b>>} : e = IF "us" \in waiting THEN <<b>> ELSE <<>>
    OBVIOUS
  <2>4. d \in Seq(FromMsg) /\ e \in Seq(FromMsg)
    BY OneOrNone, ZenonT(30)
  <2>5. PICK F \in Seq(FromMsg) : F = toClient \o d
    BY <1>1, <2>4, ConcatProperties
  <2>6. toClient' = toClient \o (d \o e) /\ d \o e \in Seq(FromMsg)
    <3>1. toClient' = toClient \o d \o e
      BY <2>2, <2>3
    <3>2. d \o e \in Seq(FromMsg)
      BY <2>4, ConcatProperties
    <3>3. (toClient \o d) \o e = toClient \o (d \o e)
      BY <1>1, <2>4, ConcatAssociative
    <3> QED BY <3>1, <3>2, <3>3
  <2>7. holder' = "us" => \E D \in Seq(FromMsg) : toClient' = Append(D, LKOB)
    <3> SUFFICES ASSUME holder' = "us" PROVE \E D \in Seq(FromMsg) : toClient' = Append(D, LKOB)
      OBVIOUS
    <3>1. "us" \in waiting
      BY <1>5 DEF OtherReleases, HandsOver
    <3>2. toClient' = F \o <<b>>
      BY <2>2, <2>5, <3>1
    <3>3. F \o <<b>> = Append(F, b)
      BY <2>5, NothingComes
    <3> QED BY <2>1, <3>2, <3>3
  <2> QED BY <1>1, <2>6, <2>7, SwitcherHolds
<1> QED BY <1>2, <1>3, <1>4, <1>5

\* The session dies, and with it the lock.
LEMMA SessionLostHolds == LaneInv /\ LockKept /\ SessionLost => LockKept'
<1> SUFFICES ASSUME LaneInv, LockKept, SessionLost PROVE LockKept'
  OBVIOUS
<1> HIDE DEF FromMsg, ToMsg, Jobs, News
<1>1. /\ LaneOK(lane) /\ lane.out = <<>> /\ lane.wants = {} /\ lane' = Reset(lane)
      /\ slice' = NoSlice
  BY DEF LaneInv, AtRest, SessionLost
<1>2. PICK g : g = Reset(lane)
  OBVIOUS
<1>3. g.transfer = None /\ ~g.retry /\ g.draining = 0
  BY <1>1, <1>2, ResetIs
<1>4. HoldOK(lane') /\ SliceHolds'
  BY <1>1, <1>2, <1>3 DEF HoldOK, SliceHolds
<1>5. holder' # "us"
  BY DEF SessionLost
<1> QED BY <1>4, <1>5 DEF LockKept, Kept

\* Every step
LEMMA LockKeptOn == LaneInv /\ LockKept /\ [Next]_vars => LockKept'
<1> SUFFICES ASSUME LaneInv, LockKept, [Next]_vars PROVE LockKept'
  OBVIOUS
<1>1. CASE UNCHANGED vars
  <2>1. UNCHANGED <<lane, slice, toSwitcher, toClient, holder>>
    BY <1>1 DEF vars, switcher
  <2> QED BY <2>1 DEF LockKept, SliceHolds, Kept
<1>2. CASE Receive \/ TakesSlice \/ Completes \/ WakeFires \/ CallerWakes
  BY <1>2, ReceiveHolds, TakesSliceHolds, CompletesHolds, WakesHold
<1>3. CASE \E c \in Clocks : Elapse(c)
  BY <1>3, ElapseHolds
<1>4. CASE \E t \in Tasks : CallerQueues(t)
  BY <1>4, CallerQueuesHolds
<1>5. CASE \E t \in Tasks : DownloadTimesOut(t) \/ ClearTimesOut(t) \/ UploadTimesOut(t)
  BY <1>5, TimeoutsHold
<1>6. CASE SwitcherHears \/ SessionLost
  BY <1>6, SwitcherHearsHolds, SessionLostHolds
<1>7. CASE JobEnds \/ JobDropped \/ FrameTick \/ OtherAsks \/ OtherReleases
  BY <1>7, OthersHold
<1> QED BY <1>1, <1>2, <1>3, <1>4, <1>5, <1>6, <1>7 DEF Next

---------------------------------------------------------------------------
(* The theorems *)

\* The lane starts idle.
LEMMA Starts == Init => LaneInv
<1> SUFFICES ASSUME Init PROVE LaneInv
  OBVIOUS
<1> HIDE DEF FromMsg, ToMsg, Jobs, News
<1>1. lane \in LaneT /\ lane.out = <<>> /\ lane.wants = {}
  <2>1. <<>> \in Seq(ToMsg) /\ Attempts \in Nat
    BY LaneAssumption
  <2> QED BY <2>1 DEF Init, LaneT
<1>2. DueOK(lane)
  BY DEF Init, DueOK
<1>3. lane.transfer = None /\ lane.tid = 0 /\ lane.draining = 0 /\ ~lane.requested /\ ~lane.retry
  BY DEF Init
<1>4. Sorted(lane.queue)
  BY DEF Init, Sorted
<1>5. CoreOK(lane)
  <2>1. None \notin Clears
    BY LaneAssumption DEF Tasks
  <2> QED BY <1>3, <1>4, <2>1 DEF CoreOK
<1>6. OnTheWay
  <2>1. toSwitcher = <<>> /\ toClient = <<>> /\ job = Idle
    BY DEF Init
  <2>2. Typed(<<>>, <<>>, Idle) /\ Idle.tid = 0
    BY DEF Typed, Idle, Jobs
  <2>3. UpTo(<<>>, <<>>, Idle, 0)
    BY <2>2 DEF UpTo
  <2> QED BY <1>3, <2>1, <2>2, <2>3 DEF OnTheWay, Wire
<1>7. SliceOK /\ WakeOK
  BY DEF Init, SliceOK, WakeOK
<1>8. LockOK
  BY DEF Init, LockOK
<1>9. DoneWasServed
  BY DEF Init, DoneWasServed
<1> QED BY <1>1, <1>2, <1>5, <1>6, <1>7, <1>8, <1>9 DEF LaneInv, AtRest, LaneOK

\* Every step keeps the invariant.
LEMMA StepKeeps == LaneInv /\ [Next]_vars => LaneInv'
<1> SUFFICES ASSUME LaneInv, [Next]_vars PROVE LaneInv'
  OBVIOUS
<1>1. CASE UNCHANGED vars
  <2>1. UNCHANGED <<lane, wake, slice, toSwitcher, toClient, holder, waiting, news, job, served>>
    BY <1>1 DEF vars, switcher
  <2> QED BY <2>1 DEF LaneInv, AtRest, OnTheWay, SliceOK, LockOK, WakeOK, DoneWasServed
<1>2. CASE Receive \/ TakesSlice \/ Completes \/ WakeFires \/ CallerWakes
  BY <1>2, ReceiveKeeps, TakesSliceKeeps, CompletesKeeps, WakesKeep
<1>3. CASE \E c \in Clocks : Elapse(c)
  BY <1>3, ElapseKeeps
<1>4. CASE \E t \in Tasks : CallerQueues(t)
  BY <1>4, CallerQueuesKeeps
<1>5. CASE \E t \in Tasks : DownloadTimesOut(t) \/ ClearTimesOut(t) \/ UploadTimesOut(t)
  BY <1>5, TimeoutsKeep
<1>6. CASE SwitcherHears \/ JobEnds \/ JobDropped \/ FrameTick \/ OtherAsks \/ OtherReleases \/ SessionLost
  BY <1>6, SwitcherHearsKeeps, JobEndsKeeps, JobDroppedKeeps, FrameTickKeeps, OtherAsksKeeps,
     OtherReleasesKeeps, SessionLostKeeps
<1> QED BY <1>1, <1>2, <1>3, <1>4, <1>5, <1>6 DEF Next

\* The invariant holds throughout.
LEMMA Always == Spec => []LaneInv
<1> QED BY Starts, StepKeeps, PTL DEF Spec

\* Inside a handler or not, the lane has the type that the runs check.
LEMMA TypeFollows == LaneInv => TypeOK
<1> SUFFICES ASSUME LaneInv PROVE TypeOK
  OBVIOUS
<1>1. lane \in LaneT /\ lane.out = <<>> /\ lane.wants = {} /\ DueOK(lane) /\ CoreOK(lane)
  BY DEF LaneInv, AtRest, LaneOK
<1>2. lane \in LaneType
  <2> HIDE DEF ToMsg
  <2> QED BY <1>1 DEF LaneT, LaneType
<1>3. lane.draining <= lane.tid
  BY <1>1 DEF CoreOK
<1>4. \A s \in Stores : Range(lane.queue[s]) \subseteq {t \in Tasks : Store(t) = s}
  <2> TAKE s \in Stores
  <2>1. PICK q \in Seq(Tasks) : q = lane.queue[s]
    BY <1>1 DEF LaneT
  <2>2. \A i \in 1..Len(q) : Store(q[i]) = s
    BY <1>1, <2>1 DEF CoreOK, Sorted
  <2>3. Range(q) = {q[i] : i \in 1..Len(q)}
    BY DEF Range
  <2> QED BY <2>1, <2>2, <2>3
<1>5. lane.due \subseteq {c \in Clocks : Running(c)}
  <2>1. lane.due \subseteq Clocks
    BY <1>1 DEF LaneT
  <2>2. \A c \in lane.due : Running(c)
    BY <1>1, <2>1 DEF DueOK, Running, Clocks
  <2> QED BY <2>1, <2>2
<1>6. /\ wake \in {"none", "try", "other"} /\ holder \in {"free", "us", "other"}
      /\ waiting \subseteq {"us", "other"} \ {holder}
  BY DEF LaneInv, LockOK, WakeOK
<1> QED BY <1>2, <1>3, <1>4, <1>5, <1>6 DEF TypeOK

\* The lane, the wires and the switcher keep their types (AtemProtocol's transfer state).
THEOREM TypesHold == Spec => []TypeOK
BY Always, TypeFollows, PTL

\* What is under way is at the head of its queue, whatever was refused, dequeued, aborted or
\* drained meanwhile (_transfer_trigger, _fail_transfer, abort_transfers, dequeue_clear).
THEOREM UnderWayIsFirst == Spec => []HeadIsTransfer
<1>1. LaneInv => HeadIsTransfer
  <2> SUFFICES ASSUME LaneInv, lane.requested
               PROVE  /\ lane.queue[Store(lane.transfer)] # <<>>
                      /\ Head(lane.queue[Store(lane.transfer)]) = lane.transfer
    BY DEF HeadIsTransfer
  <2>1. lane \in LaneT /\ lane.queue[Store(lane.transfer)] # <<>> /\ lane.queue[Store(lane.transfer)][1] = lane.transfer
    BY DEF LaneInv, AtRest, LaneOK, CoreOK
  <2>2. PICK q \in Seq(Tasks) : q = lane.queue[Store(lane.transfer)]
    BY <2>1, StoreIs DEF LaneT
  <2> QED BY <2>1, <2>2
<1> QED BY <1>1, Always, PTL

\* A download or an upload is told done only after the switcher has carried it out: no FTDC of an
\* aborted transfer, of an earlier attempt or of another client completes it.
THEOREM DoneMeansServed == Spec => []DoneWasServed
<1>1. LaneInv => DoneWasServed
  BY DEF LaneInv
<1> QED BY <1>1, Always, PTL

\* The lane never goes quiet with the still store's lock: whatever was aborted, refused, dequeued
\* or crossed another client's request, the lock of the last grant has been given back
\* (_give_lock_back, _release_then_continue, abort_transfers, _clean_locks).
THEOREM LockComesBack == Spec => []NoLockLeft
<1>1. Init => LockKept
  BY DEF Init, LockKept, HoldOK, SliceHolds, Kept
<1>2. LaneInv /\ LockKept => NoLockLeft
  <2> SUFFICES ASSUME LaneInv, LockKept, Quiet, holder = "us" PROVE FALSE
    BY DEF NoLockLeft
  <2>1. toSwitcher = <<>> /\ toClient = <<>> /\ slice = NoSlice /\ ~Engaged(lane)
    BY DEF Quiet, Engaged
  <2>2. ~Granted(toClient) /\ ~Gives(toSwitcher)
    BY <2>1 DEF Granted, Gives
  <2>3. Minds(lane)
    BY <2>1, <2>2 DEF LockKept, Kept
  <2> QED BY <2>1, <2>3, RestHolds
<1> QED BY <1>1, <1>2, LockKeptOn, Always, PTL DEF Spec

\* The FTDC handler takes what ended off its queue, and nothing else: what it pops is the transfer
\* that the FTDC ends, which the switcher has carried out.
PopsItsOwn ==
    [][TakesSlice => /\ lane.queue[Store(lane.transfer)] # <<>>
                     /\ Head(lane.queue[Store(lane.transfer)]) = lane.transfer
                     /\ lane.transfer \in served]_vars

\* The same of save_field_data's FTDC branch, at every value of the constants
THEOREM PopsWhatEnded == Spec => PopsItsOwn
<1>1. LaneInv /\ [Next]_vars =>
         [TakesSlice => /\ lane.queue[Store(lane.transfer)] # <<>>
                        /\ Head(lane.queue[Store(lane.transfer)]) = lane.transfer
                        /\ lane.transfer \in served]_vars
  BY OursIsAtTheHead DEF TakesSlice
<1> QED BY <1>1, Always, PTL DEF Spec, PopsItsOwn
=============================================================================
