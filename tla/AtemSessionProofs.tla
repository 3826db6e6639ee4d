---------------------------- MODULE AtemSessionProofs ----------------------------
(***************************************************************************)
(* What always holds of a client's sessions with its switcher, for any     *)
(* number of sessions, losses, refusals, incomplete dumps, stragglers and  *)
(* commands, while the worker is no more than a silence window behind.     *)
(*                                                                         *)
(* Three invariants, each inductive on top of the one before it.  Types    *)
(* holds whether the worker keeps up or not.  Handover says what can be    *)
(* between the UDP thread and the worker: one hello, or one answer to one, *)
(* while a session is made and none after it; that a session is lost is    *)
(* the first thing the worker hears of it; and nothing of the session      *)
(* before reaches it once the next is established.  Once says that every   *)
(* command given out is in one place, with the callers, with the UDP       *)
(* thread, in the resend buffer or with the switcher, and that what is     *)
(* both in the buffer and with the switcher is before the number the       *)
(* switcher wants next.                                                    *)
(*                                                                         *)
(* The first part says what each step does, in the terms of the three.     *)
(***************************************************************************)
EXTENDS AtemSession, TLAPS

\* What the switcher sends, and what the worker is given.
Bodies   == {"mode", "incm", "ping", "data"}
Packets  == [kind : {"pkt"}, sid : Ids, body : Bodies, ack : Int]
Replies  == [kind : {"reply"}, sid : {Hello}, body : {"welcome", "full"}, ack : Int]
Arrivals == Packets \cup Replies
Given    == Arrivals \cup {Lost, Wake}
Numbered == [cmd : Nat, sid : Ids \cup {Hello}]

IsT(x) ==
    /\ x = [state |-> x.state, sid |-> x.sid, prev |-> x.prev, num |-> x.num, acked |-> x.acked,
            buf |-> x.buf, had |-> x.had, refused |-> x.refused, mark |-> x.mark, stash |-> x.stash]
    /\ x.state \in {"syn_sent", "established"} /\ x.sid \in Ids \cup {Hello, NoId}
    /\ x.prev \in Ids \cup {NoId} /\ x.num \in Nat /\ x.acked \in Int
    /\ x.buf \in Seq(Numbered) /\ Len(x.buf) = x.num
    /\ x.had \in BOOLEAN /\ x.refused \in BOOLEAN /\ x.mark \in BOOLEAN
    /\ x.stash \in Arrivals \cup {Empty}

IsP(q) ==
    /\ q = [connected |-> q.connected, initialized |-> q.initialized, told |-> q.told,
            state |-> q.state, incomplete |-> q.incomplete, ready |-> q.ready, up |-> q.up,
            gone |-> q.gone]
    /\ q.state \subseteq Ids \X {"mode", "incm", "data"}
    /\ q.state # {} => q.connected

IsSw(w) ==
    /\ w = [quiet |-> w.quiet, newest |-> w.newest, open |-> w.open, next |-> w.next,
            want |-> w.want, taken |-> w.taken]
    /\ w.newest \in 0..MaxSessions /\ w.open \subseteq Ids
    /\ w.next \in {"mode", "incm", "ping"} /\ w.want \in Nat \ {0} /\ w.taken \in Seq(Nat)

IsLeft(x) ==
    /\ x = [quiet |-> x.quiet, lost |-> x.lost, refused |-> x.refused, nomode |-> x.nomode,
            stragglers |-> x.stragglers, cmds |-> x.cmds]
    /\ x.cmds \in 0..MaxCmds

Queued == {Syn, Ack} \cup Nat

Types ==
    /\ IsT(t) /\ IsP(p) /\ IsSw(sw) /\ IsLeft(left)
    /\ recvq \in Seq(Given) /\ down \in Seq(Arrivals)
    /\ sendq \in Seq(Queued) /\ cmdq \in Seq(Nat \ {0})

-----------------------------------------------------------------------------
(* Of a session that was replaced nothing is left in the state of the next. *)

NoAnswer(S) == \A i \in 1..Len(S) : S[i].kind # "reply"
NoHello(Q)  == \A i \in 1..Len(Q) : Q[i] # Syn

\* One hello is on its way, or one answer to it, R and D the worker's queue and the
\* datagrams under way, Q the packets to send, m what was put aside.
OneHello(R, D, Q, m) ==
    /\ \A i, j \in 1..Len(R) : R[i].kind = "reply" /\ R[j].kind = "reply" => i = j
    /\ \A i, j \in 1..Len(D) : D[i].kind = "reply" /\ D[j].kind = "reply" => i = j
    /\ \A i, j \in 1..Len(Q) : Q[i] = Syn /\ Q[j] = Syn => i = j
    /\ NoAnswer(R) \/ (NoAnswer(D) /\ NoHello(Q))
    /\ NoAnswer(D) \/ NoHello(Q)
    /\ m.kind = "reply" => NoAnswer(R) /\ NoAnswer(D) /\ NoHello(Q)

\* No hello, and no answer to one.
Silent(R, D, Q, m) == NoAnswer(R) /\ NoAnswer(D) /\ NoHello(Q) /\ m.kind # "reply"

\* That a session is lost is the first thing the worker hears of it.
LostFirst(R, m, had, state) ==
    \A i \in 1..Len(R) : R[i].kind = "none" => i = 1 /\ m = Empty /\ ~had /\ state = "syn_sent"

\* Packets of the session before do not reach the worker of the new one,
NewOnly(R, m, prev) ==
    /\ \A i \in 1..Len(R) : R[i].kind = "pkt" => R[i].sid # prev
    /\ m.kind = "pkt" => m.sid # prev

\* and while the hello is out, the answer comes behind them.
AnswerLast(R, m) ==
    /\ \A i, j \in 1..Len(R) : i < j /\ R[i].kind = "reply" => R[j].kind # "pkt"
    /\ m.kind = "reply" => \A i \in 1..Len(R) : R[i].kind # "pkt"

Handover ==
    /\ IF t.state = "established"
       THEN Silent(recvq, down, sendq, t.stash) /\ NewOnly(recvq, t.stash, t.prev)
       ELSE OneHello(recvq, down, sendq, t.stash) /\ AnswerLast(recvq, t.stash)
    /\ LostFirst(recvq, t.stash, t.had, t.state)
    /\ ReplacedIsGone

HandoverInv == Types /\ Handover

-----------------------------------------------------------------------------
(* No command is carried out twice. *)

\* The commands, 1, 2, ..., in a sequence are below n; none is there twice; none of
\* one is in the other.
Under(S, n) == \A i \in 1..Len(S) : S[i] < n
Alone(S)    == \A i, j \in 1..Len(S) : S[i] > 0 /\ S[i] = S[j] => i = j
Apart(S, R) == \A i \in 1..Len(S), j \in 1..Len(R) : S[i] > 0 => S[i] # R[j]

Cmds(B) == [i \in 1..Len(B) |-> B[i].cmd]

\* What the switcher took of the buffer B has gone out under a session's id, before
\* the one it wants next, w; in one with no id there is nothing.
Settled(B, T, s, w) ==
    /\ s = Hello => \A i \in 1..Len(B) : B[i].sid \notin Ids
    /\ \A i \in 1..Len(B), j \in 1..Len(T) :
           B[i].cmd > 0 /\ B[i].cmd = T[j] => B[i].sid \in Ids /\ i < w

\* Where the commands are that were given out, n the next one: K queued by the
\* callers, Q to be sent, B in the resend buffer of the session with id s, T taken by
\* the switcher.
Once(K, Q, B, T, s, w, n) ==
    /\ Under(K, n) /\ Under(Q, n) /\ Under(Cmds(B), n) /\ Under(T, n)
    /\ Alone(K) /\ Alone(Q) /\ Alone(Cmds(B)) /\ Alone(T)
    /\ Apart(K, Q) /\ Apart(K, Cmds(B)) /\ Apart(K, T)
    /\ Apart(Q, Cmds(B)) /\ Apart(Q, T)
    /\ Settled(B, T, s, w)

\* Before a session is made nothing is numbered in one.
Unnumbered ==
    t.state = "syn_sent" =>
        t.sid \notin Ids /\ \A i \in 1..Len(t.buf) : t.buf[i].sid \notin Ids

OnceInv ==
    /\ Unnumbered
    /\ Once(cmdq, sendq, t.buf, sw.taken, t.sid, sw.want, MaxCmds - left.cmds + 1)

-----------------------------------------------------------------------------
(* What the worker does with one item.                                      *)

\* The item comes from where the worker looks first.
Taken(m) ==
    \/ t.stash # Empty /\ m = t.stash /\ recvq' = recvq
    \/ t.stash = Empty /\ recvq # <<>> /\ m = Head(recvq) /\ recvq' = Tail(recvq)

\* What goes to the UDP thread.
Passes(more) ==
    \/ sendq' = sendq \o more /\ cmdq' = cmdq
    \/ sendq' = (sendq \o more) \o cmdq /\ cmdq' = <<>>

\* The transport after it: what the callers' commands and the filter depend on.
SameSession == t'.sid = t.sid /\ t'.prev = t.prev /\ t'.buf = t.buf
NewSession  == /\ t'.sid = Hello /\ t'.buf = <<>> /\ ~t'.had /\ t'.stash = Empty
               /\ t'.state = "syn_sent"
               /\ t'.prev = IF t.sid \in Ids THEN t.sid ELSE NoId

\* The ways receive_packet and loop may go with item m.
Loses(m)    == /\ m = Lost /\ p'.state = {}
               /\ \/ SameSession /\ Passes(<<>>) /\ t'.state = t.state /\ t'.had = t.had /\ t'.stash = Empty
                  \/ t.had /\ NewSession /\ Passes(<<Syn>>)
Passing(m)  == /\ m # Lost /\ p'.state = p.state /\ SameSession /\ Passes(<<>>)
               /\ m = Wake \/ t.state = "established"
               /\ t'.state = t.state /\ t'.had = t.had /\ t'.stash = Empty
Readies(m)  == /\ m \notin {Lost, Wake} /\ p'.state = p.state /\ SameSession /\ Passes(<<Time>>)
               /\ t'.state = t.state /\ t'.had = t.had /\ t'.stash = m
Waits(m)    == /\ m \notin {Lost, Wake} /\ t.state = "syn_sent" /\ p'.state = p.state
               /\ SameSession /\ Passes(<<>>) /\ t'.state = "syn_sent" /\ t'.stash = Empty
Welcomes(m) == /\ m.kind = "reply" /\ t.state = "syn_sent" /\ p'.state = p.state
               /\ SameSession /\ Passes(<<Ack>>) /\ t'.state = "established" /\ t'.stash = Empty
StartsOver(m) == /\ m \notin {Lost, Wake} /\ t.state = "established" /\ p'.state = {}
                 /\ NewSession /\ Passes(<<Syn>>)
Merges(m)   == /\ m \notin {Lost, Wake} /\ t.state = "established"
               /\ \/ p'.state = p.state
                  \/ m.kind = "pkt" /\ p'.state = p.state \cup {<<m.sid, m.body>>}
               /\ SameSession /\ Passes(<<>>) /\ t'.state = t.state /\ t'.had = t.had
               /\ t'.stash = Empty

WorkerDoes(m) ==
    /\ m \in Given /\ Taken(m) /\ down' = down
    /\ IsT(t') /\ IsP(p') /\ IsSw(sw') /\ IsLeft(left')
    /\ sw'.taken = sw.taken /\ sw'.want = sw.want /\ left'.cmds = left.cmds
    /\ \/ Loses(m) \/ Passing(m) \/ Readies(m) \/ Waits(m) \/ Welcomes(m) \/ StartsOver(m) \/ Merges(m)

\* The names of the sentinels are not those of sessions.
LEMMA Sentinels ==
    /\ Hello \notin Ids /\ NoId \notin Ids /\ Hello # NoId
    /\ \A m \in Arrivals : m # Lost /\ m # Wake /\ m # Empty /\ m.kind \in {"pkt", "reply"}
    /\ Lost.kind = "none" /\ Wake.kind = "wake" /\ Empty.kind = "empty"
    /\ Syn \in Int /\ Ack \in Int /\ Time = 0 /\ Syn < 0 /\ Ack < 0 /\ Syn # Ack
<1>1. Hello \notin Ids /\ NoId \notin Ids /\ Hello # NoId
  BY SessionBounds DEF Hello, NoId, Ids
<1>2. Lost.kind = "none" /\ Wake.kind = "wake" /\ Empty.kind = "empty"
  BY DEF Lost, Wake, Empty, Item
<1>3. \A m \in Arrivals : m.kind \in {"pkt", "reply"}
  BY DEF Arrivals, Packets, Replies
<1> QED BY <1>1, <1>2, <1>3 DEF Syn, Ack, Time

\* The end of loop(), where Up is applied and the callers' commands are passed on
LEMMA DrainedIs ==
    ASSUME NEW q, IsP(q), NEW more, Drained(q, more)
    PROVE  IsP(p') /\ p'.state = q.state /\ Passes(more)
<1>1. p' = [q EXCEPT !.up = @ \/ ((q.told \/ q.initialized) /\ HasMode(q))]
  BY DEF Drained, Up
<1>2. IsP(p') /\ p'.state = q.state
  BY <1>1 DEF IsP
<1>3. Passes(more)
  BY DEF Drained, Passes
<1> QED BY <1>2, <1>3

\* What is forgotten with a session
LEMMA ForgottenIs == ASSUME NEW q, IsP(q) PROVE IsP(Forgotten(q)) /\ Forgotten(q).state = {}
<1> PICK no : no = FALSE
  OBVIOUS
<1>0. Forgotten(q) = [q EXCEPT !.connected = no, !.initialized = no, !.state = {}, !.ready = no]
  BY Zenon DEF Forgotten
<1>1. Forgotten(q) = [connected |-> no, initialized |-> no, told |-> q.told, state |-> {},
                      incomplete |-> q.incomplete, ready |-> no, up |-> q.up, gone |-> q.gone]
  BY <1>0 DEF IsP
<1> HIDE DEF Forgotten
<1> QED BY <1>1 DEF IsP

\* What connect() leaves
LEMMA ReconnectedIs ==
    ASSUME NEW u, IsT(u)
    PROVE  LET r == Reconnected(u)
           IN  /\ IsT(r) /\ r.sid = Hello /\ r.buf = <<>> /\ ~r.had /\ r.stash = Empty
               /\ r.state = "syn_sent" /\ r.prev = IF u.sid \in Ids THEN u.sid ELSE NoId
<1> DEFINE r == Reconnected(u)
<1>0. u = [state |-> u.state, sid |-> u.sid, prev |-> u.prev, num |-> u.num, acked |-> u.acked,
           buf |-> u.buf, had |-> u.had, refused |-> u.refused, mark |-> u.mark, stash |-> u.stash]
  BY DEF IsT
<1> PICK no : no = FALSE
  OBVIOUS
<1>a. r = [u EXCEPT !.state = "syn_sent", !.num = 0, !.acked = NoId, !.buf = <<>>,
                    !.prev = IF u.sid \in Ids THEN u.sid ELSE NoId, !.sid = Hello,
                    !.had = no, !.refused = no, !.stash = Empty]
  BY Zenon DEF Reconnected
<1>1. r = [state |-> "syn_sent", sid |-> Hello, prev |-> IF u.sid \in Ids THEN u.sid ELSE NoId,
           num |-> 0, acked |-> NoId, buf |-> <<>>, had |-> no, refused |-> no,
           mark |-> u.mark, stash |-> Empty]
  BY <1>0, <1>a
<1>2. NoId \in Int /\ <<>> \in Seq(Numbered) /\ Len(<<>>) = 0
  BY DEF NoId
<1> HIDE DEF r
<1>3. IsT(r)
  <2>1. r.had = no /\ r.refused = no /\ r.mark = u.mark /\ no \in BOOLEAN /\ u.mark \in BOOLEAN
    BY <1>1 DEF IsT
  <2>2. /\ r.state = "syn_sent" /\ r.sid = Hello /\ r.num = 0 /\ r.acked = NoId /\ r.buf = <<>>
        /\ r.prev = (IF u.sid \in Ids THEN u.sid ELSE NoId) /\ r.stash = Empty
    BY <1>1
  <2>3. r = [state |-> r.state, sid |-> r.sid, prev |-> r.prev, num |-> r.num, acked |-> r.acked,
             buf |-> r.buf, had |-> r.had, refused |-> r.refused, mark |-> r.mark, stash |-> r.stash]
    BY <1>1, <2>1, <2>2
  <2>4. r.had \in BOOLEAN /\ r.refused \in BOOLEAN /\ r.mark \in BOOLEAN
    BY <2>1
  <2> QED BY <1>2, <2>2, <2>3, <2>4 DEF IsT
<1>4. ~r.had
  BY <1>1
<1> QED BY <1>1, <1>3, <1>4 DEF r

\* A datagram of the client's that does not arrive costs no command.
LEMMA MissesIs == ASSUME Types, Misses PROVE IsLeft(left') /\ left'.cmds = left.cmds
BY DEF Types, Misses, IsLeft

Emptied(u) ==
    /\ IsT(u) /\ u.state = t.state /\ u.sid = t.sid /\ u.prev = t.prev /\ u.buf = t.buf
    /\ u.had = t.had /\ u.mark = t.mark /\ u.stash = Empty

\* What is the same whatever the worker does
Steady == /\ IsT(t') /\ IsP(p') /\ IsSw(sw') /\ IsLeft(left')
          /\ sw'.taken = sw.taken /\ sw'.want = sw.want /\ left'.cmds = left.cmds

\* The switcher and the bounds left alone keep their types
LEMMA Unmoved ==
    ASSUME Types, sw' = sw, left' = left
    PROVE  /\ IsSw(sw') /\ IsLeft(left')
           /\ sw'.taken = sw.taken /\ sw'.want = sw.want /\ left'.cmds = left.cmds
BY DEF Types

\* None, the end of a session: OnLost
LEMMA OnLostDoes ==
    ASSUME Types, NEW u, Emptied(u), OnLost(u) PROVE Steady /\ Loses(Lost)
<1> DEFINE again == u.had /\ u.state = "syn_sent" /\ ~u.refused
           q == IF p.connected THEN Forgotten(p) ELSE p
<1>1. /\ t' = IF again THEN Reconnected(u) ELSE u
      /\ Drained(q, IF again THEN <<Syn>> ELSE <<>>)
      /\ sw' = sw /\ left' = left
  BY DEF OnLost
<1>2. IsP(q) /\ q.state = {}
  BY ForgottenIs DEF Types, IsP
<1> HIDE DEF q
<1>3. IsP(p') /\ p'.state = {} /\ Passes(IF again THEN <<Syn>> ELSE <<>>)
  BY <1>1, <1>2, DrainedIs
<1>4. CASE again
  <2>1. IsT(t') /\ NewSession /\ t.had
    BY <1>1, <1>4, ReconnectedIs DEF NewSession, Emptied
  <2> QED BY <1>1, <1>3, <1>4, <2>1, Unmoved DEF Steady, Loses
<1>5. CASE ~again
  <2>1. IsT(t') /\ SameSession /\ t'.state = t.state /\ t'.had = t.had /\ t'.stash = Empty
    BY <1>1, <1>5 DEF Emptied, SameSession
  <2> QED BY <1>1, <1>3, <1>5, <2>1, Unmoved DEF Steady, Loses
<1> QED BY <1>4, <1>5

\* An item that changes nothing but what is put aside: OnWake, a ping
LEMMA NothingDone ==
    ASSUME Types, NEW u, Emptied(u), t' = u, IsP(p'), p'.state = p.state, Passes(<<>>),
           sw' = sw, left' = left, NEW m, m # Lost, m = Wake \/ t.state = "established"
    PROVE  Steady /\ Passing(m)
<1>1. IsT(t') /\ SameSession /\ t'.state = t.state /\ t'.had = t.had /\ t'.stash = Empty
  BY DEF Emptied, SameSession
<1> QED BY <1>1, Unmoved DEF Steady, Passing

\* The first item after the end of a dump: OnReady
LEMMA OnReadyDoes ==
    ASSUME Types, NEW m \in Arrivals, NEW u, Emptied(u), OnReady(m, u) PROVE Steady /\ Readies(m)
<1> PICK yes, no : yes = TRUE /\ no = FALSE
  OBVIOUS
<1> DEFINE q == [p EXCEPT !.connected = TRUE, !.initialized = TRUE, !.told = TRUE, !.ready = TRUE]
<1>1. Drained(q, <<Time>>) /\ sw' = sw /\ left' = left
  BY DEF OnReady
<1>2. t' = [u EXCEPT !.mark = no, !.stash = m]
  BY Zenon DEF OnReady
<1>3. q = [p EXCEPT !.connected = yes, !.initialized = yes, !.told = yes, !.ready = yes]
  BY Zenon
<1> HIDE DEF q
<1>4. q = [connected |-> yes, initialized |-> yes, told |-> yes, state |-> p.state,
           incomplete |-> p.incomplete, ready |-> yes, up |-> p.up, gone |-> p.gone]
  BY <1>3 DEF Types, IsP
<1>5. q.connected = yes /\ q.state = p.state /\ p.state \subseteq Ids \X {"mode", "incm", "data"}
  BY <1>4 DEF Types, IsP
<1>6. IsP(q)
  <2>1. q.connected
    BY <1>5
  <2>2. q = [connected |-> q.connected, initialized |-> q.initialized, told |-> q.told,
             state |-> q.state, incomplete |-> q.incomplete, ready |-> q.ready, up |-> q.up,
             gone |-> q.gone]
    BY <1>4
  <2> QED BY <1>5, <2>1, <2>2 DEF IsP
<1>7. IsP(p') /\ p'.state = p.state /\ Passes(<<Time>>)
  BY <1>1, <1>5, <1>6, DrainedIs
<1>8. /\ t' = [state |-> u.state, sid |-> u.sid, prev |-> u.prev, num |-> u.num, acked |-> u.acked,
               buf |-> u.buf, had |-> u.had, refused |-> u.refused, mark |-> no, stash |-> m]
  BY <1>2 DEF Emptied, IsT
<1>9. /\ t'.mark = no /\ no \in BOOLEAN
      /\ t'.state = u.state /\ t'.sid = u.sid /\ t'.prev = u.prev /\ t'.num = u.num
      /\ t'.acked = u.acked /\ t'.buf = u.buf /\ t'.had = u.had /\ t'.refused = u.refused
      /\ t'.stash = m
  BY <1>8
<1>10. IsT(t')
  <2>1. t'.mark \in BOOLEAN
    BY <1>9
  <2> QED BY <1>8, <1>9, <2>1 DEF Emptied, IsT
<1>11. SameSession /\ t'.state = t.state /\ t'.had = t.had
  BY <1>9 DEF Emptied, SameSession
<1>12. m \notin {Lost, Wake}
  BY Sentinels
<1> QED BY <1>1, <1>7, <1>9, <1>10, <1>11, <1>12, Unmoved DEF Steady, Readies

\* An item while the hello is out: OnHandshake
LEMMA OnHandshakeDoes ==
    ASSUME Types, NEW m \in Arrivals, NEW u, Emptied(u), u.state = "syn_sent", OnHandshake(m, u)
    PROVE  Steady /\ (Waits(m) \/ Welcomes(m))
<1> PICK yes : yes = TRUE
  OBVIOUS
<1>1. sw' = sw /\ left' = left /\ m \notin {Lost, Wake}
  BY Sentinels DEF OnHandshake
<1>2. IsP(p)
  BY DEF Types
<1>3. /\ sendq \o <<>> = sendq /\ Append(sendq, Ack) = sendq \o <<Ack>>
  <2>1. sendq \in Seq(Queued) /\ Ack \in Queued
    BY DEF Types, Queued
  <2> QED BY <2>1
<1>4. CASE m.kind # "reply"
  <2>1. t' = [u EXCEPT !.had = yes]
    BY <1>4, Zenon DEF OnHandshake
  <2>2. p' = p /\ sendq' = sendq /\ cmdq' = cmdq
    BY <1>4 DEF OnHandshake
  <2>3. /\ t' = [state |-> u.state, sid |-> u.sid, prev |-> u.prev, num |-> u.num, acked |-> u.acked,
                 buf |-> u.buf, had |-> yes, refused |-> u.refused, mark |-> u.mark, stash |-> u.stash]
    BY <2>1 DEF Emptied, IsT
  <2>4. /\ t'.had = yes /\ t'.state = u.state /\ t'.sid = u.sid /\ t'.prev = u.prev /\ t'.num = u.num
        /\ t'.acked = u.acked /\ t'.buf = u.buf /\ t'.refused = u.refused /\ t'.mark = u.mark
        /\ t'.stash = u.stash
    BY <2>3
  <2>5. t'.had \in BOOLEAN
    BY <2>4
  <2>6. IsT(t')
    BY <2>3, <2>4, <2>5 DEF Emptied, IsT
  <2>7. SameSession /\ t'.state = "syn_sent" /\ t'.stash = Empty /\ t.state = "syn_sent"
    BY <2>4 DEF Emptied, SameSession
  <2>8. Passes(<<>>)
    BY <1>3, <2>2 DEF Passes
  <2> QED BY <1>1, <1>2, <2>2, <2>6, <2>7, <2>8, Unmoved DEF Steady, Waits
<1>5. CASE m.kind = "reply" /\ m.body = "full"
  <2>1. t' = [u EXCEPT !.had = yes, !.refused = yes] /\ Drained(p, <<>>)
    BY <1>5, Zenon DEF OnHandshake
  <2>2. IsP(p') /\ p'.state = p.state /\ Passes(<<>>)
    BY <1>2, <2>1, DrainedIs
  <2>3. /\ t' = [state |-> u.state, sid |-> u.sid, prev |-> u.prev, num |-> u.num, acked |-> u.acked,
                 buf |-> u.buf, had |-> yes, refused |-> yes, mark |-> u.mark, stash |-> u.stash]
    BY <2>1 DEF Emptied, IsT
  <2>4. /\ t'.had = yes /\ t'.state = u.state /\ t'.sid = u.sid /\ t'.prev = u.prev /\ t'.num = u.num
        /\ t'.acked = u.acked /\ t'.buf = u.buf /\ t'.refused = yes /\ t'.mark = u.mark
        /\ t'.stash = u.stash
    BY <2>3
  <2>5. t'.had \in BOOLEAN /\ t'.refused \in BOOLEAN
    BY <2>4
  <2>6. IsT(t')
    BY <2>3, <2>4, <2>5 DEF Emptied, IsT
  <2>7. SameSession /\ t'.state = "syn_sent" /\ t'.stash = Empty /\ t.state = "syn_sent"
    BY <2>4 DEF Emptied, SameSession
  <2> QED BY <1>1, <2>2, <2>6, <2>7, Unmoved DEF Steady, Waits
<1>6. CASE m.kind = "reply" /\ m.body # "full"
  <2>1. t' = [u EXCEPT !.had = yes, !.state = "established"]
    BY <1>6, Zenon DEF OnHandshake
  <2>2. p' = p /\ cmdq' = cmdq /\ sendq' = sendq \o <<Ack>>
    BY <1>3, <1>6 DEF OnHandshake
  <2>3. /\ t' = [state |-> "established", sid |-> u.sid, prev |-> u.prev, num |-> u.num,
                 acked |-> u.acked, buf |-> u.buf, had |-> yes, refused |-> u.refused,
                 mark |-> u.mark, stash |-> u.stash]
    BY <2>1 DEF Emptied, IsT
  <2>4. /\ t'.had = yes /\ t'.state = "established" /\ t'.sid = u.sid /\ t'.prev = u.prev
        /\ t'.num = u.num /\ t'.acked = u.acked /\ t'.buf = u.buf /\ t'.refused = u.refused
        /\ t'.mark = u.mark /\ t'.stash = u.stash
    BY <2>3
  <2>5. t'.had \in BOOLEAN
    BY <2>4
  <2>6. IsT(t')
    BY <2>3, <2>4, <2>5 DEF Emptied, IsT
  <2>7. SameSession /\ t'.state = "established" /\ t'.stash = Empty /\ t.state = "syn_sent"
    BY <2>4 DEF Emptied, SameSession
  <2>8. Passes(<<Ack>>)
    BY <2>2 DEF Passes
  <2> QED BY <1>1, <1>2, <1>6, <2>2, <2>6, <2>7, <2>8, Unmoved DEF Steady, Welcomes
<1> QED BY <1>4, <1>5, <1>6

\* The end of a dump without a video mode: OnIncomplete
LEMMA OnIncompleteDoes ==
    ASSUME Types, NEW m \in Arrivals, NEW u, Emptied(u), u.state = "established", OnIncomplete(u)
    PROVE  Steady /\ StartsOver(m)
<1> DEFINE q == [Forgotten(p) EXCEPT !.incomplete = @ + 1]
<1>1. t' = Reconnected(u) /\ Drained(q, <<Syn>>)
  BY DEF OnIncomplete
<1>2. IsP(q) /\ q.state = {}
  <2>1. PICK f : f = Forgotten(p) /\ IsP(f) /\ f.state = {}
    BY ForgottenIs DEF Types
  <2>2. q = [f EXCEPT !.incomplete = @ + 1]
    BY <2>1
  <2> HIDE DEF q
  <2> QED BY <2>1, <2>2 DEF IsP
<1> HIDE DEF q
<1>3. IsP(p') /\ p'.state = {} /\ Passes(<<Syn>>)
  BY <1>1, <1>2, DrainedIs
<1>4. IsT(t') /\ NewSession /\ t.state = "established"
  BY <1>1, ReconnectedIs DEF NewSession, Emptied
<1>5. /\ IsSw(sw') /\ IsLeft(left')
      /\ sw'.taken = sw.taken /\ sw'.want = sw.want /\ left'.cmds = left.cmds
  <2>1. CASE Misses /\ sw' = sw
    BY <2>1, MissesIs DEF Types
  <2>2. CASE sw' = [sw EXCEPT !.open = @ \ {u.sid}] /\ left' = left
    BY <2>2 DEF Types, IsSw
  <2> QED BY <2>1, <2>2 DEF OnIncomplete
<1>6. m \notin {Lost, Wake}
  BY Sentinels
<1> QED BY <1>3, <1>4, <1>5, <1>6 DEF Steady, StartsOver

\* A packet of a dump: OnFields
LEMMA OnFieldsDoes ==
    ASSUME Types, NEW m \in Arrivals, m.body # "ping", NEW u, Emptied(u), u.state = "established",
           OnFields(m, u)
    PROVE  Steady /\ (StartsOver(m) \/ Merges(m))
<1>1. CASE m.body = "incm" /\ ~HasMode(p) /\ p.incomplete < Retries
  BY <1>1, OnIncompleteDoes DEF OnFields
<1>2. CASE ~(m.body = "incm" /\ ~HasMode(p) /\ p.incomplete < Retries)
  <2> PICK yes : yes = TRUE
    OBVIOUS
  <2> DEFINE n == IF m.body = "incm" THEN 0 ELSE p.incomplete
             S == IF m.kind = "pkt" THEN p.state \cup {<<m.sid, m.body>>} ELSE p.state
             q == [p EXCEPT !.connected = TRUE, !.incomplete = IF m.body = "incm" THEN 0 ELSE @,
                            !.state = IF m.kind = "pkt" THEN @ \cup {<<m.sid, m.body>>} ELSE @]
  <2>1. /\ t' = [u EXCEPT !.mark = @ \/ (m.body = "incm")]
        /\ Drained(q, <<>>)
        /\ sw' = sw /\ left' = left
    BY <1>2, Zenon DEF OnFields
  <2>2. q = [connected |-> yes, initialized |-> p.initialized, told |-> p.told, state |-> S,
             incomplete |-> n, ready |-> p.ready, up |-> p.up, gone |-> p.gone]
    <3>1. q = [p EXCEPT !.connected = yes, !.incomplete = IF m.body = "incm" THEN 0 ELSE @,
                            !.state = IF m.kind = "pkt" THEN @ \cup {<<m.sid, m.body>>} ELSE @]
      BY Zenon
    <3> HIDE DEF q
    <3> QED BY <3>1 DEF Types, IsP
  <2>3. /\ S \subseteq Ids \X {"mode", "incm", "data"}
        /\ S = p.state \/ (m.kind = "pkt" /\ S = p.state \cup {<<m.sid, m.body>>})
    <3>1. m.kind = "pkt" => m.sid \in Ids /\ m.body \in {"mode", "incm", "data"}
      BY DEF Arrivals, Packets, Replies, Bodies
    <3>2. p.state \subseteq Ids \X {"mode", "incm", "data"}
      BY DEF Types, IsP
    <3> QED BY <3>1, <3>2
  <2> HIDE DEF q, S, n
  <2>4. q.connected = yes /\ q.state = S
    BY <2>2
  <2>5. IsP(q)
    <3>1. q.connected
      BY <2>4
    <3>2. q = [connected |-> q.connected, initialized |-> q.initialized, told |-> q.told,
               state |-> q.state, incomplete |-> q.incomplete, ready |-> q.ready, up |-> q.up,
               gone |-> q.gone]
      BY <2>2
    <3> QED BY <2>3, <2>4, <3>1, <3>2 DEF IsP
  <2>6. IsP(p') /\ p'.state = S /\ Passes(<<>>)
    BY <2>1, <2>4, <2>5, DrainedIs
  <2>7. PICK b : b = (u.mark \/ m.body = "incm") /\ b \in BOOLEAN
    OBVIOUS
  <2>8. t' = [u EXCEPT !.mark = b]
    BY <2>1, <2>7, Zenon
  <2>9. t' = [state |-> u.state, sid |-> u.sid, prev |-> u.prev, num |-> u.num, acked |-> u.acked,
              buf |-> u.buf, had |-> u.had, refused |-> u.refused, mark |-> b, stash |-> u.stash]
    BY <2>8 DEF Emptied, IsT
  <2>10. /\ t'.had = u.had /\ t'.state = u.state /\ t'.sid = u.sid /\ t'.prev = u.prev
         /\ t'.num = u.num /\ t'.acked = u.acked /\ t'.buf = u.buf /\ t'.refused = u.refused
         /\ t'.mark = b /\ t'.stash = u.stash
    BY <2>9
  <2>11. IsT(t')
    BY <2>7, <2>9, <2>10 DEF Emptied, IsT
  <2>12. /\ SameSession /\ t'.state = t.state /\ t'.had = t.had /\ t'.stash = Empty
         /\ t.state = "established" /\ m \notin {Lost, Wake}
    BY <2>10, Sentinels DEF Emptied, SameSession
  <2> QED BY <2>1, <2>3, <2>6, <2>11, <2>12, Unmoved DEF Steady, Merges
<1> QED BY <1>1, <1>2

\* One item, whichever: the whole of the worker's step
LEMMA WorkerStep == ASSUME Types, WorkerTakes PROVE \E m \in Given : Taken(m) /\ down' = down /\ WorkerDoes(m)
<1> DEFINE u == [t EXCEPT !.stash = Empty]
<1>1. PICK m \in Given : Taken(m) /\ OnItem(m, u) /\ down' = down
  <2>1. CASE t.stash # Empty /\ OnItem(t.stash, u) /\ recvq' = recvq
    <3>1. t.stash \in Given
      BY <2>1 DEF Types, IsT, Given
    <3> QED BY <2>1, <3>1 DEF Taken, WorkerTakes
  <2>2. CASE t.stash = Empty /\ recvq # <<>> /\ OnItem(Head(recvq), t) /\ recvq' = Tail(recvq)
    <3>1. Head(recvq) \in Given
      <4> HIDE DEF Given
      <4> QED BY <2>2 DEF Types
    <3>2. u = t
      BY <2>2 DEF Types, IsT
    <3> QED BY <2>2, <3>1, <3>2 DEF Taken, WorkerTakes
  <2> QED BY <2>1, <2>2 DEF WorkerTakes
<1>2. Emptied(u)
  <2>0. t = [state |-> t.state, sid |-> t.sid, prev |-> t.prev, num |-> t.num, acked |-> t.acked,
             buf |-> t.buf, had |-> t.had, refused |-> t.refused, mark |-> t.mark, stash |-> t.stash]
    BY DEF Types, IsT
  <2>1. /\ u = [state |-> t.state, sid |-> t.sid, prev |-> t.prev, num |-> t.num, acked |-> t.acked,
                buf |-> t.buf, had |-> t.had, refused |-> t.refused, mark |-> t.mark, stash |-> Empty]
    BY <2>0
  <2> HIDE DEF u
  <2>2. /\ u.had = t.had /\ u.state = t.state /\ u.sid = t.sid /\ u.prev = t.prev
        /\ u.num = t.num /\ u.acked = t.acked /\ u.buf = t.buf /\ u.refused = t.refused
        /\ u.mark = t.mark /\ u.stash = Empty
    BY <2>1
  <2> QED BY <2>1, <2>2 DEF Types, IsT, Emptied
<1> HIDE DEF u
<1>3. Steady /\ (Loses(m) \/ Passing(m) \/ Readies(m) \/ Waits(m) \/ Welcomes(m) \/ StartsOver(m) \/ Merges(m))
  <2>1. CASE m = Lost /\ OnLost(u)
    BY <1>2, <2>1, OnLostDoes
  <2>2. CASE m = Wake /\ OnWake(u)
    <3>1. t' = u /\ Drained(p, <<>>) /\ sw' = sw /\ left' = left /\ m # Lost
      BY <2>2 DEF OnWake, Lost, Wake, Item
    <3>2. IsP(p') /\ p'.state = p.state /\ Passes(<<>>)
      BY <3>1, DrainedIs DEF Types
    <3> QED BY <1>2, <2>2, <3>1, <3>2, NothingDone
  <2>3. CASE m \notin {Lost, Wake} /\ OnReady(m, u)
    <3>1. m \in Arrivals
      BY <2>3 DEF Given
    <3> QED BY <1>2, <2>3, <3>1, OnReadyDoes
  <2>4. CASE m \notin {Lost, Wake} /\ u.state = "syn_sent" /\ OnHandshake(m, u)
    <3>1. m \in Arrivals
      BY <2>4 DEF Given
    <3> QED BY <1>2, <2>4, <3>1, OnHandshakeDoes
  <2>5. CASE /\ m \notin {Lost, Wake} /\ u.state = "established" /\ m.body = "ping"
             /\ t' = u /\ UNCHANGED <<p, sendq, cmdq, sw, left>>
    <3>1. sendq \o <<>> = sendq
      BY DEF Types
    <3>2. IsP(p') /\ p'.state = p.state /\ Passes(<<>>) /\ m # Lost /\ t.state = "established"
      BY <1>2, <2>5, <3>1 DEF Types, Passes, Emptied
    <3> QED BY <1>2, <2>5, <3>2, NothingDone
  <2>6. CASE m \notin {Lost, Wake} /\ u.state = "established" /\ m.body # "ping" /\ OnFields(m, u)
    <3>1. m \in Arrivals
      BY <2>6 DEF Given
    <3> QED BY <1>2, <2>6, <3>1, OnFieldsDoes
  <2> QED BY <1>1, <2>1, <2>2, <2>3, <2>4, <2>5, <2>6 DEF OnItem
<1> QED BY <1>1, <1>3 DEF WorkerDoes, Steady

-----------------------------------------------------------------------------
(* The switcher's part in the client's steps, and that every step keeps the types. *)

\* A sequence with one element appended,
LEMMA OneMore ==
    ASSUME NEW S, NEW s \in Seq(S), NEW e \in S
    PROVE  /\ Append(s, e) \in Seq(S) /\ Len(Append(s, e)) = Len(s) + 1
           /\ \A i \in 1..Len(s) : Append(s, e)[i] = s[i]
           /\ Append(s, e)[Len(s) + 1] = e
OBVIOUS

\* with its head taken,
LEMMA OneLess ==
    ASSUME NEW S, NEW s \in Seq(S), s # <<>>
    PROVE  /\ Head(s) \in S /\ Head(s) = s[1] /\ Len(s) >= 1 /\ Len(s) \in Nat
           /\ Tail(s) \in Seq(S) /\ Len(Tail(s)) = Len(s) - 1
           /\ \A i \in 1..Len(Tail(s)) : Tail(s)[i] = s[i + 1]
OBVIOUS

\* with another sequence behind it
LEMMA Joined ==
    ASSUME NEW S, NEW s \in Seq(S), NEW r \in Seq(S)
    PROVE  /\ s \o r \in Seq(S) /\ Len(s \o r) = Len(s) + Len(r)
           /\ \A i \in 1..Len(s) : (s \o r)[i] = s[i]
           /\ \A i \in 1..Len(r) : (s \o r)[Len(s) + i] = r[i]
OBVIOUS

\* The switcher answers a hello with one of two replies,
LEMMA ReplyIs == ASSUME NEW code \in {"welcome", "full"} PROVE Reply(code) \in Replies
<1>1. Reply(code) = [kind |-> "reply", sid |-> Hello, body |-> code, ack |-> 0]
  BY DEF Reply, Item
<1> QED BY <1>1 DEF Replies, Hello

\* and its packets are what the worker expects.
LEMMA PacketIs ==
    ASSUME NEW s \in Ids, NEW b \in Bodies, NEW a \in Int
    PROVE  Item("pkt", s, b, a) \in Packets
BY DEF Item, Packets

\* The switcher's record, field by field
LEMMA SwIs ==
    ASSUME NEW q, NEW n \in 0..MaxSessions, NEW o \in SUBSET Ids, NEW x \in {"mode", "incm", "ping"},
           NEW k \in Nat \ {0}, NEW S \in Seq(Nat), NEW w,
           w = [quiet |-> q, newest |-> n, open |-> o, next |-> x, want |-> k, taken |-> S]
    PROVE  IsSw(w) /\ w.want = k /\ w.taken = S /\ w.open = o /\ w.newest = n /\ w.next = x
<1>1. /\ w.quiet = q /\ w.newest = n /\ w.open = o /\ w.next = x /\ w.want = k /\ w.taken = S
  OBVIOUS
<1> QED BY <1>1 DEF IsSw

\* What a hello does: nothing, or an answer is under way
LEMMA HearsSynDoes ==
    ASSUME Types, NEW w, IsSw(w), HearsSyn(w)
    PROVE  /\ IsSw(sw') /\ IsLeft(left') /\ sw'.taken = w.taken /\ sw'.want = w.want
           /\ left'.cmds = left.cmds
           /\ down' = down \/ \E r \in Replies : down' = Append(down, r)
<1>1. CASE Misses /\ sw' = w /\ down' = down
  BY <1>1, MissesIs
<1>2. CASE /\ left' = [left EXCEPT !.refused = @ - 1] /\ down' = Append(down, Reply("full"))
           /\ sw' = w
  <2>1. IsLeft(left') /\ left'.cmds = left.cmds
    BY <1>2 DEF Types, IsLeft
  <2> QED BY <1>2, <2>1, ReplyIs
<1>3. CASE /\ w.newest < MaxSessions /\ sw' = [w EXCEPT !.newest = @ + 1]
           /\ down' = Append(down, Reply("welcome")) /\ left' = left
  <2>1. IsSw(sw') /\ sw'.taken = w.taken /\ sw'.want = w.want
    <3>1. sw' = [quiet |-> w.quiet, newest |-> w.newest + 1, open |-> w.open, next |-> w.next,
                 want |-> w.want, taken |-> w.taken]
      BY <1>3 DEF IsSw
    <3>2. w.newest + 1 \in 0..MaxSessions
      <4>1. w.newest \in 0..MaxSessions /\ w.newest < MaxSessions /\ MaxSessions \in Nat
        BY <1>3, SessionBounds DEF IsSw
      <4> QED BY <4>1
    <3> QED BY <3>1, <3>2, SwIs DEF IsSw
  <2> QED BY <1>3, <2>1, ReplyIs DEF Types
<1> QED BY <1>1, <1>2, <1>3 DEF HearsSyn

\* What the end of a handshake does: numbers start again only in a session not yet named
LEMMA HearsAckDoes ==
    ASSUME Types, NEW id, HearsAck(id)
    PROVE  /\ IsSw(sw') /\ IsLeft(left') /\ sw'.taken = sw.taken /\ left'.cmds = left.cmds
           /\ down' = down /\ (id # Hello => sw'.want = sw.want)
<1>1. CASE Misses /\ sw' = sw /\ down' = down
  BY <1>1, MissesIs DEF Types
<1>2. CASE ~(Misses /\ sw' = sw /\ down' = down)
  <2>1. down' = down /\ left' = left
    BY <1>2 DEF HearsAck
  <2>2. CASE sw' = sw
    BY <2>1, <2>2 DEF Types
  <2>3. CASE /\ id = Hello /\ sw.newest \in Ids
             /\ sw' = [sw EXCEPT !.open = @ \cup {sw.newest}, !.next = "mode", !.want = 1]
    <3>1. sw' = [quiet |-> sw.quiet, newest |-> sw.newest, open |-> sw.open \cup {sw.newest},
                 next |-> "mode", want |-> 1, taken |-> sw.taken]
      BY <2>3 DEF Types, IsSw
    <3>2. sw.open \cup {sw.newest} \in SUBSET Ids
      BY <2>3 DEF Types, IsSw
    <3>3. IsSw(sw') /\ sw'.taken = sw.taken
      BY <3>1, <3>2, SwIs DEF Types, IsSw
    <3> QED BY <2>1, <2>3, <3>3 DEF Types
  <2>4. sw' = sw \/ (id = Hello /\ sw.newest \in Ids
                     /\ sw' = [sw EXCEPT !.open = @ \cup {sw.newest}, !.next = "mode", !.want = 1])
    BY <1>2 DEF HearsAck
  <2> QED BY <2>1, <2>2, <2>3, <2>4 DEF Types
<1> QED BY <1>1, <1>2

\* What a command does: nothing, or it was next in number and is taken
LEMMA HearsCmdDoes ==
    ASSUME Types, NEW n \in Nat, NEW c \in Numbered, HearsCmd(n, c)
    PROVE  /\ IsSw(sw') /\ IsLeft(left') /\ left'.cmds = left.cmds /\ down' = down
           /\ \/ sw' = sw
              \/ /\ c.sid \in Ids /\ n = sw.want /\ sw'.want = n + 1
                 /\ sw'.taken = Append(sw.taken, c.cmd)
<1>1. CASE Misses /\ sw' = sw /\ down' = down
  BY <1>1, MissesIs DEF Types
<1>2. CASE sw' = Takes(sw, n, c) /\ down' = down /\ left' = left
  <2>1. CASE c.sid \in sw.open /\ c.sid = sw.newest /\ n = sw.want
    <3>1. sw' = [sw EXCEPT !.want = @ + 1, !.taken = Append(@, c.cmd)]
      BY <1>2, <2>1 DEF Takes
    <3>2. c.cmd \in Nat /\ c.sid \in Ids
      BY <2>1 DEF Numbered, Types, IsSw
    <3>3. PICK k : k = Append(sw.taken, c.cmd) /\ k \in Seq(Nat)
      BY <3>2, OneMore DEF Types, IsSw
    <3>4. IsSw(sw') /\ sw'.want = n + 1 /\ sw'.taken = k
      <4>1. sw' = [quiet |-> sw.quiet, newest |-> sw.newest, open |-> sw.open, next |-> sw.next,
                   want |-> n + 1, taken |-> k]
        BY <2>1, <3>1, <3>3 DEF Types, IsSw
      <4>2. n + 1 \in Nat \ {0}
        OBVIOUS
      <4> QED BY <3>3, <4>1, <4>2, SwIs DEF Types, IsSw
    <3> QED BY <1>2, <2>1, <3>2, <3>3, <3>4 DEF Types
  <2>2. CASE ~(c.sid \in sw.open /\ c.sid = sw.newest /\ n = sw.want)
    BY <1>2, <2>2 DEF Takes, Types
  <2> QED BY <2>1, <2>2
<1> QED BY <1>1, <1>2 DEF HearsCmd

\* The UDP thread's steps, what they do
LEMMA SilenceDoes ==
    ASSUME Types, Silence
    PROVE  /\ t' = Reconnected(t) /\ recvq' = Append(recvq, Lost) /\ IsT(t') /\ NewSession
           /\ sendq' = sendq /\ p' = p /\ cmdq' = cmdq /\ IsSw(sw') /\ IsLeft(left')
           /\ sw'.taken = sw.taken /\ sw'.want = sw.want /\ left'.cmds = left.cmds
           /\ down = <<>> /\ (down' = down \/ \E r \in Replies : down' = Append(down, r))
           /\ ~Lags => sendq = <<>> /\ recvq = <<>> /\ t.stash = Empty
<1> DEFINE w == [sw EXCEPT !.open = @ \cap {t.sid}]
<1>1. IsSw(w) /\ w.taken = sw.taken /\ w.want = sw.want
  <2>1. w = [quiet |-> sw.quiet, newest |-> sw.newest, open |-> sw.open \cap {t.sid},
             next |-> sw.next, want |-> sw.want, taken |-> sw.taken]
    <3>1. sw = [quiet |-> sw.quiet, newest |-> sw.newest, open |-> sw.open, next |-> sw.next,
                want |-> sw.want, taken |-> sw.taken]
      BY DEF Types, IsSw
    <3> QED BY <3>1
  <2> HIDE DEF w
  <2>2. sw.open \cap {t.sid} \in SUBSET Ids
    BY DEF Types, IsSw
  <2> QED BY <2>1, <2>2, SwIs DEF Types, IsSw
<1>2. HearsSyn(w)
  BY DEF Silence
<1> HIDE DEF w
<1>3. IsT(t') /\ NewSession
  BY ReconnectedIs DEF Silence, Types, NewSession
<1> QED BY <1>1, <1>2, <1>3, HearsSynDoes DEF Silence

\* What the UDP thread reads, dropped or passed to the worker: never a packet of the
\* session before, and while the hello is out nothing but an answer
LEMMA ReceiveDoes ==
    ASSUME Types, ReceiveDatagram
    PROVE  \E m \in Arrivals :
              /\ down # <<>> /\ m = Head(down) /\ down' = Tail(down)
              /\ sendq' = sendq /\ p' = p /\ cmdq' = cmdq /\ sw' = sw /\ left' = left
              /\ \/ t' = t /\ recvq' = recvq
                 \/ /\ m.kind = "pkt" => m.sid # t.prev /\ t.state = "established"
                    /\ recvq' = Append(recvq, m) /\ IsT(t')
                    /\ t'.state = t.state /\ t'.prev = t.prev /\ t'.buf = t.buf /\ t'.had = t.had
                    /\ t'.stash = t.stash
                    /\ t'.sid = t.sid \/ (t.sid = NoId /\ t'.sid = m.sid)
<1>1. PICK m \in Arrivals : m = Head(down) /\ down # <<>>
  <2> HIDE DEF Arrivals
  <2> QED BY OneLess DEF ReceiveDatagram, Types
<1>2. /\ down' = Tail(down) /\ sendq' = sendq /\ p' = p /\ cmdq' = cmdq /\ sw' = sw /\ left' = left
      /\ IF Dropped(m) THEN t' = t /\ recvq' = recvq
         ELSE /\ t' = [t EXCEPT !.sid = IF @ = NoId THEN m.sid ELSE @,
                                !.acked = IF m.kind = "pkt" THEN m.ack ELSE @]
              /\ recvq' = Append(recvq, m)
  BY <1>1 DEF ReceiveDatagram
<1>3. CASE ~Dropped(m)
  <2>1. m.kind = "pkt" => m.sid # t.prev /\ t.state = "established"
    <3>1. t.prev \in Ids \cup {NoId} /\ t.state \in {"syn_sent", "established"}
      BY DEF Types, IsT
    <3>2. m.kind = "pkt" => m.sid \in Ids
      BY DEF Arrivals, Packets, Replies
    <3> QED BY <1>3, <3>1, <3>2, Sentinels DEF Dropped
  <2>2. m.sid \in Ids \cup {Hello} /\ m.ack \in Int
    BY DEF Arrivals, Packets, Replies
  <2>3. PICK s, a : /\ s = IF t.sid = NoId THEN m.sid ELSE t.sid
                    /\ a = IF m.kind = "pkt" THEN m.ack ELSE t.acked
    OBVIOUS
  <2>4. t' = [t EXCEPT !.sid = s, !.acked = a] /\ recvq' = Append(recvq, m)
    BY <1>2, <1>3, <2>3
  <2>5. s \in Ids \cup {Hello, NoId} /\ a \in Int
    BY <2>2, <2>3 DEF Types, IsT
  <2>6. t = [state |-> t.state, sid |-> t.sid, prev |-> t.prev, num |-> t.num, acked |-> t.acked,
             buf |-> t.buf, had |-> t.had, refused |-> t.refused, mark |-> t.mark, stash |-> t.stash]
    BY DEF Types, IsT
  <2>7. t' = [state |-> t.state, sid |-> s, prev |-> t.prev, num |-> t.num, acked |-> a,
              buf |-> t.buf, had |-> t.had, refused |-> t.refused, mark |-> t.mark, stash |-> t.stash]
    BY <2>4, <2>6
  <2>8. /\ t'.state = t.state /\ t'.sid = s /\ t'.prev = t.prev /\ t'.num = t.num /\ t'.acked = a
        /\ t'.buf = t.buf /\ t'.had = t.had /\ t'.refused = t.refused /\ t'.mark = t.mark
        /\ t'.stash = t.stash
    BY <2>7
  <2>9. IsT(t')
    BY <2>5, <2>7, <2>8 DEF Types, IsT
  <2> QED BY <1>1, <1>2, <2>1, <2>3, <2>4, <2>8, <2>9
<1> QED BY <1>1, <1>2, <1>3

\* A command's place in the buffer
Stores(c) == t' = [t EXCEPT !.num = @ + 1, !.buf = Append(@, c)]

\* The buffer and its number grow by that one command.
LEMMA Stored ==
    ASSUME Types, NEW c \in Numbered, Stores(c)
    PROVE  /\ IsT(t') /\ t'.buf = Append(t.buf, c)
           /\ t'.state = t.state /\ t'.prev = t.prev /\ t'.had = t.had /\ t'.stash = t.stash
           /\ t'.sid = t.sid
<1>1. t = [state |-> t.state, sid |-> t.sid, prev |-> t.prev, num |-> t.num, acked |-> t.acked,
           buf |-> t.buf, had |-> t.had, refused |-> t.refused, mark |-> t.mark, stash |-> t.stash]
  BY DEF Types, IsT
<1>2. PICK b : b = Append(t.buf, c) /\ b \in Seq(Numbered) /\ Len(b) = t.num + 1
  <2>1. t.buf \in Seq(Numbered) /\ Len(t.buf) = t.num
    BY DEF Types, IsT
  <2>2. Append(t.buf, c) \in Seq(Numbered) /\ Len(Append(t.buf, c)) = t.num + 1
    <3> HIDE DEF Numbered
    <3> QED BY <2>1, OneMore
  <2> HIDE DEF Numbered
  <2> QED BY <2>2
<1>a. PICK n : n = t.num + 1 /\ n \in Nat
  BY DEF Types, IsT
<1>3. t' = [t EXCEPT !.num = n, !.buf = b]
  BY <1>2, <1>a DEF Stores
<1>4. t' = [state |-> t.state, sid |-> t.sid, prev |-> t.prev, num |-> n, acked |-> t.acked,
            buf |-> b, had |-> t.had, refused |-> t.refused, mark |-> t.mark, stash |-> t.stash]
  BY <1>1, <1>3
<1>5. /\ t'.state = t.state /\ t'.sid = t.sid /\ t'.prev = t.prev /\ t'.num = n
      /\ t'.acked = t.acked /\ t'.buf = b /\ t'.had = t.had /\ t'.refused = t.refused
      /\ t'.mark = t.mark /\ t'.stash = t.stash
  BY <1>4
<1>6. IsT(t')
  BY <1>2, <1>a, <1>4, <1>5 DEF Types, IsT
<1> QED BY <1>2, <1>5, <1>6

\* The id given up with the handshake's ACK
LEMMA Unnamed ==
    ASSUME Types, t' = [t EXCEPT !.sid = NoId]
    PROVE  /\ IsT(t') /\ t'.buf = t.buf /\ t'.sid = NoId
           /\ t'.state = t.state /\ t'.prev = t.prev /\ t'.had = t.had /\ t'.stash = t.stash
<1>1. t = [state |-> t.state, sid |-> t.sid, prev |-> t.prev, num |-> t.num, acked |-> t.acked,
           buf |-> t.buf, had |-> t.had, refused |-> t.refused, mark |-> t.mark, stash |-> t.stash]
  BY DEF Types, IsT
<1>2. t' = [state |-> t.state, sid |-> NoId, prev |-> t.prev, num |-> t.num, acked |-> t.acked,
            buf |-> t.buf, had |-> t.had, refused |-> t.refused, mark |-> t.mark, stash |-> t.stash]
  BY <1>1
<1>3. /\ t'.state = t.state /\ t'.sid = NoId /\ t'.prev = t.prev /\ t'.num = t.num
      /\ t'.acked = t.acked /\ t'.buf = t.buf /\ t'.had = t.had /\ t'.refused = t.refused
      /\ t'.mark = t.mark /\ t'.stash = t.stash
  BY <1>2
<1>4. IsT(t')
  BY <1>2, <1>3 DEF Types, IsT
<1> QED BY <1>3, <1>4

\* What a packet that goes out does: nothing to the sessions, or the answer to a hello
\* is on its way, or a handshake ends, or a command has its place and may be taken.
Hails     == t' = t /\ sw'.taken = sw.taken /\ sw'.want = sw.want
             /\ (down' = down \/ (Head(sendq) = Syn /\ \E r \in Replies : down' = Append(down, r)))
Finishes  == /\ t'.sid = NoId /\ t'.buf = t.buf /\ down' = down
             /\ sw'.taken = sw.taken /\ (t.sid # Hello => sw'.want = sw.want)
Commands  == \E c \in Numbered :
                /\ c.cmd = Head(sendq) /\ c.sid = t.sid /\ t.sid # NoId /\ t'.sid = t.sid
                /\ t'.buf = Append(t.buf, c) /\ down' = down
                /\ \/ sw'.taken = sw.taken /\ sw'.want = sw.want
                   \/ /\ c.sid \in Ids /\ Len(t.buf) + 1 = sw.want /\ sw'.want = sw.want + 1
                      /\ sw'.taken = Append(sw.taken, c.cmd)

\* What thread_queue sends does one of the three.
LEMMA SendDoes ==
    ASSUME Types, SendQueued
    PROVE  /\ sendq # <<>> /\ sendq' = Tail(sendq) /\ recvq' = recvq /\ p' = p /\ cmdq' = cmdq
           /\ IsT(t') /\ IsSw(sw') /\ IsLeft(left') /\ left'.cmds = left.cmds
           /\ t'.state = t.state /\ t'.prev = t.prev /\ t'.had = t.had /\ t'.stash = t.stash
           /\ Hails \/ Finishes \/ Commands
<1>1. /\ sendq # <<>> /\ sendq' = Tail(sendq) /\ recvq' = recvq /\ p' = p /\ cmdq' = cmdq
      /\ SendSyn \/ SendHandshakeAck \/ SendCommand
  BY DEF SendQueued
<1>2. Head(sendq) \in Queued
  <2> HIDE DEF Queued
  <2> QED BY <1>1, OneLess DEF Types
<1>3. CASE SendSyn
  BY <1>1, <1>3, HearsSynDoes DEF SendSyn, Hails, Types
<1>4. CASE t' = t /\ sw' = sw /\ down' = down /\ left' = left
  BY <1>1, <1>4 DEF Hails, Types
<1>5. CASE SendHandshakeAck /\ t.sid # NoId
  <2>1. HearsAck(t.sid) /\ t' = [t EXCEPT !.sid = NoId]
    BY <1>5 DEF SendHandshakeAck
  <2> QED BY <1>1, <2>1, HearsAckDoes, Unnamed DEF Finishes
<1>6. CASE SendCommand /\ t.sid # NoId
  <2>1. PICK c : c = [cmd |-> Head(sendq), sid |-> t.sid]
    OBVIOUS
  <2>2. Stores(c) /\ HearsCmd(t.num + 1, c)
    BY <1>6, <2>1 DEF SendCommand, Stores
  <2>3. Head(sendq) \in Nat
    BY <1>2, <1>6 DEF SendCommand, Queued
  <2>4. t.sid \in Ids \cup {Hello} /\ t.num + 1 \in Nat /\ Len(t.buf) = t.num
    BY <1>6 DEF Types, IsT
  <2>5. c \in Numbered /\ c.cmd = Head(sendq) /\ c.sid = t.sid
    BY <2>1, <2>3, <2>4 DEF Numbered
  <2> HIDE DEF Numbered
  <2>6. /\ IsT(t') /\ t'.buf = Append(t.buf, c) /\ t'.sid = t.sid
        /\ t'.state = t.state /\ t'.prev = t.prev /\ t'.had = t.had /\ t'.stash = t.stash
    BY <2>2, <2>5, Stored
  <2>7. /\ IsSw(sw') /\ IsLeft(left') /\ left'.cmds = left.cmds /\ down' = down
        /\ \/ sw' = sw
           \/ /\ c.sid \in Ids /\ t.num + 1 = sw.want /\ sw'.want = t.num + 1 + 1
              /\ sw'.taken = Append(sw.taken, c.cmd)
    BY <2>2, <2>4, <2>5, HearsCmdDoes
  <2>8. Commands
    BY <1>6, <2>4, <2>5, <2>6, <2>7 DEF Commands
  <2> QED BY <1>1, <2>6, <2>7, <2>8
<1> QED BY <1>1, <1>3, <1>4, <1>5, <1>6 DEF SendHandshakeAck, SendCommand

\* What a volley of resent commands does
LEMMA ResendDoes ==
    ASSUME Types, Resend
    PROVE  \E last \in Nat :
              /\ t' = t /\ recvq' = recvq /\ sendq' = sendq /\ p' = p /\ cmdq' = cmdq
              /\ down' = down /\ left' = left /\ t.state = "established"
              /\ sw.want <= last /\ last <= Len(t.buf) /\ sw'.want = last + 1
              /\ \A n \in sw.want..last : t.buf[n].sid \in Ids
              /\ sw'.taken = sw.taken \o [i \in 1..last - sw.want + 1 |-> t.buf[sw.want + i - 1].cmd]
              /\ [i \in 1..last - sw.want + 1 |-> t.buf[sw.want + i - 1].cmd] \in Seq(Nat)
              /\ IsSw(sw')
<1>1. PICK last \in sw.want..t.num :
          /\ \A n \in sw.want..last : t.buf[n].sid \in sw.open
          /\ sw' = [sw EXCEPT !.want = last + 1,
                       !.taken = @ \o [i \in 1..last - sw.want + 1 |-> t.buf[sw.want + i - 1].cmd]]
  BY DEF Resend
<1>2. t.num \in Nat /\ sw.want \in Nat \ {0} /\ last \in Nat /\ last <= t.num /\ Len(t.buf) = t.num
  BY DEF Types, IsT, IsSw
<1>3. PICK run : /\ run = [i \in 1..last - sw.want + 1 |-> t.buf[sw.want + i - 1].cmd]
                 /\ run \in Seq(Nat)
  <2>1. \A i \in 1..last - sw.want + 1 : t.buf[sw.want + i - 1].cmd \in Nat
    <3>1. t.buf \in Seq(Numbered) /\ Len(t.buf) = t.num
      BY DEF Types, IsT
    <3>2. \A n \in 1..t.num : t.buf[n] \in Numbered
      <4> HIDE DEF Numbered
      <4> QED BY <3>1
    <3>3. \A i \in 1..last - sw.want + 1 : sw.want + i - 1 \in 1..t.num
      BY <1>2
    <3> QED BY <3>2, <3>3 DEF Numbered
  <2>2. last - sw.want + 1 \in Nat
    BY <1>2
  <2>3. PICK k : k = last - sw.want + 1 /\ k \in Nat
    BY <2>2
  <2>4. PICK f : f = [i \in 1..k |-> t.buf[sw.want + i - 1].cmd]
    OBVIOUS
  <2>5. f \in [1..k -> Nat]
    BY <2>1, <2>3, <2>4
  <2>6. f \in Seq(Nat)
    BY <2>3, <2>5
  <2> QED BY <2>3, <2>4, <2>6
<1>4. IsSw(sw') /\ sw'.want = last + 1 /\ sw'.taken = sw.taken \o run
  <2>1. sw = [quiet |-> sw.quiet, newest |-> sw.newest, open |-> sw.open, next |-> sw.next,
              want |-> sw.want, taken |-> sw.taken]
    BY DEF Types, IsSw
  <2>2. PICK k : k = sw.taken \o run /\ k \in Seq(Nat)
    <3>1. sw.taken \in Seq(Nat)
      BY DEF Types, IsSw
    <3> QED BY <1>3, <3>1, Joined
  <2>3. sw' = [sw EXCEPT !.want = last + 1, !.taken = k]
    BY <1>1, <1>3, <2>2
  <2>4. sw' = [quiet |-> sw.quiet, newest |-> sw.newest, open |-> sw.open, next |-> sw.next,
               want |-> last + 1, taken |-> k]
    BY <2>1, <2>3
  <2>5. last + 1 \in Nat \ {0}
    BY <1>2
  <2> QED BY <2>2, <2>4, <2>5, SwIs DEF Types, IsSw
<1>5. \A n \in sw.want..last : t.buf[n].sid \in Ids
  BY <1>1 DEF Types, IsSw
<1>6. /\ t' = t /\ recvq' = recvq /\ sendq' = sendq /\ p' = p /\ cmdq' = cmdq
      /\ down' = down /\ left' = left /\ t.state = "established"
  BY DEF Resend
<1>7. sw.want <= last /\ last <= Len(t.buf)
  BY <1>2
<1> QED BY <1>2, <1>3, <1>4, <1>5, <1>6, <1>7

\* What the switcher does when it likes
LEMMA SwitcherDoes ==
    ASSUME Types, Switcher
    PROVE  /\ t' = t /\ recvq' = recvq /\ sendq' = sendq /\ p' = p /\ cmdq' = cmdq
           /\ IsSw(sw') /\ IsLeft(left') /\ sw'.taken = sw.taken /\ sw'.want = sw.want
           /\ left'.cmds = left.cmds
           /\ down' = down \/ \E m \in Packets : down' = Append(down, m)
<1>0. /\ sw = [quiet |-> sw.quiet, newest |-> sw.newest, open |-> sw.open, next |-> sw.next,
               want |-> sw.want, taken |-> sw.taken]
      /\ left = [quiet |-> left.quiet, lost |-> left.lost, refused |-> left.refused,
                 nomode |-> left.nomode, stragglers |-> left.stragglers, cmds |-> left.cmds]
  BY DEF Types, IsSw, IsLeft
<1>1. CASE SwitcherSend
  <2>1. IsSw(sw') /\ sw'.taken = sw.taken /\ sw'.want = sw.want
    <3>1. PICK x : x = (IF sw.next = "mode" THEN "incm" ELSE "ping")
      OBVIOUS
    <3>2. sw' = [quiet |-> sw.quiet, newest |-> sw.newest, open |-> sw.open, next |-> x,
                 want |-> sw.want, taken |-> sw.taken]
      BY <1>0, <1>1, <3>1 DEF SwitcherSend
    <3>3. x \in {"mode", "incm", "ping"}
      BY <3>1
    <3> QED BY <3>2, <3>3, SwIs DEF Types, IsSw
  <2>2. IsLeft(left') /\ left'.cmds = left.cmds
    BY <1>0, <1>1 DEF SwitcherSend, Types, IsLeft
  <2>3. down' = down \/ \E m \in Packets : down' = Append(down, m)
    <3>1. sw.newest \in Ids /\ sw.next \in Bodies /\ sw.want - 1 \in Int
      BY <1>1 DEF SwitcherSend, Types, IsSw, Bodies
    <3> QED BY <1>1, <3>1, PacketIs DEF SwitcherSend
  <2> QED BY <1>1, <2>1, <2>2, <2>3 DEF SwitcherSend
<1>2. CASE GoesQuiet
  <2>1. PICK yes : yes = TRUE
    OBVIOUS
  <2>2. sw' = [sw EXCEPT !.quiet = yes] /\ left' = [left EXCEPT !.quiet = @ - 1]
    BY <1>2, <2>1, Zenon DEF GoesQuiet
  <2>3. sw' = [quiet |-> yes, newest |-> sw.newest, open |-> sw.open, next |-> sw.next,
               want |-> sw.want, taken |-> sw.taken]
    BY <1>0, <2>2
  <2>4. IsSw(sw') /\ sw'.taken = sw.taken /\ sw'.want = sw.want
    BY <2>3, SwIs DEF Types, IsSw
  <2>5. IsLeft(left') /\ left'.cmds = left.cmds
    BY <1>0, <2>2 DEF Types, IsLeft
  <2> QED BY <1>2, <2>4, <2>5 DEF GoesQuiet
<1>3. CASE ComesBack
  <2>1. PICK no : no = FALSE
    OBVIOUS
  <2>2. PICK kept \in {sw.open, {}} : sw' = [sw EXCEPT !.quiet = no, !.open = kept]
    BY <1>3, <2>1, Zenon DEF ComesBack
  <2>3. sw' = [quiet |-> no, newest |-> sw.newest, open |-> kept, next |-> sw.next,
               want |-> sw.want, taken |-> sw.taken]
    BY <1>0, <2>2
  <2>4. kept \in SUBSET Ids
    BY DEF Types, IsSw
  <2>5. IsSw(sw') /\ sw'.taken = sw.taken /\ sw'.want = sw.want
    BY <2>3, <2>4, SwIs DEF Types, IsSw
  <2> QED BY <1>3, <2>5 DEF ComesBack, Types
<1>4. CASE \E s \in Ids : SwitcherStraggles(s)
  <2>1. PICK s \in Ids : SwitcherStraggles(s)
    BY <1>4
  <2>2. Item("pkt", s, "data", 0) \in Packets
    BY PacketIs DEF Bodies
  <2>3. IsLeft(left') /\ left'.cmds = left.cmds
    BY <1>0, <2>1 DEF SwitcherStraggles, Types, IsLeft
  <2> QED BY <2>1, <2>2, <2>3 DEF SwitcherStraggles, Types
<1>5. CASE \E s \in Ids : SwitcherReaps(s)
  <2>1. PICK s \in Ids : SwitcherReaps(s)
    BY <1>5
  <2>2. sw' = [quiet |-> sw.quiet, newest |-> sw.newest, open |-> sw.open \ {s}, next |-> sw.next,
               want |-> sw.want, taken |-> sw.taken]
    BY <1>0, <2>1 DEF SwitcherReaps
  <2>3. sw.open \ {s} \in SUBSET Ids
    BY DEF Types, IsSw
  <2>4. IsSw(sw') /\ sw'.taken = sw.taken /\ sw'.want = sw.want
    BY <2>2, <2>3, SwIs DEF Types, IsSw
  <2> QED BY <2>1, <2>4 DEF SwitcherReaps, Types
<1> QED BY <1>1, <1>2, <1>3, <1>4, <1>5 DEF Switcher

\* What the worker passes on
LEMMA PassesTypes ==
    ASSUME Types, NEW more \in {<<>>, <<Syn>>, <<Ack>>, <<Time>>}, Passes(more)
    PROVE  more \in Seq(Queued) /\ sendq' \in Seq(Queued) /\ cmdq' \in Seq(Nat \ {0})
           /\ sendq \o more \in Seq(Queued) /\ cmdq \in Seq(Queued)
<1>1. sendq \in Seq(Queued) /\ cmdq \in Seq(Nat \ {0})
  BY DEF Types
<1>2. more \in Seq(Queued)
  <2>1. Syn \in Queued /\ Ack \in Queued /\ Time \in Queued
    BY DEF Queued, Time
  <2> HIDE DEF Queued, Syn, Ack, Time
  <2>2. <<>> \in Seq(Queued)
    OBVIOUS
  <2>3. <<Syn>> \in Seq(Queued)
    BY <2>1
  <2>4. <<Ack>> \in Seq(Queued)
    BY <2>1
  <2>5. <<Time>> \in Seq(Queued)
    BY <2>1
  <2> QED BY <2>2, <2>3, <2>4, <2>5, Zenon
<1>3. cmdq \in Seq(Queued)
  <2>1. Nat \ {0} \subseteq Queued
    BY DEF Queued
  <2> HIDE DEF Queued
  <2> QED BY <1>1, <2>1
<1> HIDE DEF Queued
<1>4. sendq \o more \in Seq(Queued)
  BY <1>1, <1>2
<1>5. (sendq \o more) \o cmdq \in Seq(Queued)
  BY <1>3, <1>4
<1>6. <<>> \in Seq(Nat \ {0})
  OBVIOUS
<1> QED BY <1>1, <1>2, <1>3, <1>4, <1>5, <1>6 DEF Passes

\* Whatever the item, the worker passes on at most one packet of its own.
LEMMA WorkerPasses ==
    ASSUME NEW m, WorkerDoes(m)
    PROVE  \E more \in {<<>>, <<Syn>>, <<Ack>>, <<Time>>} : Passes(more)
BY DEF WorkerDoes, Loses, Passing, Readies, Waits, Welcomes, StartsOver, Merges

\* The types, at the start
LEMMA TypesInit == Init => Types
<1> SUFFICES ASSUME Init PROVE Types
  OBVIOUS
<1>1. IsT(t)
  BY DEF Init, IsT, NoId
<1>2. IsP(p)
  BY DEF Init, IsP
<1>3. IsSw(sw)
  BY SessionBounds DEF Init, IsSw
<1>4. IsLeft(left)
  BY SessionBounds DEF Init, IsLeft
<1>5. recvq \in Seq(Given) /\ down \in Seq(Arrivals) /\ sendq \in Seq(Queued) /\ cmdq \in Seq(Nat \ {0})
  BY DEF Init, Queued
<1> QED BY <1>1, <1>2, <1>3, <1>4, <1>5 DEF Types

\* Appended, the datagrams under way stay such
LEMMA MoreDown ==
    ASSUME Types, down' = down \/ \E m \in Arrivals : down' = Append(down, m)
    PROVE  down' \in Seq(Arrivals)
<1> HIDE DEF Arrivals
<1> QED BY OneMore DEF Types

\* and so do the items the worker has yet to take.
LEMMA MoreReceived ==
    ASSUME Types, NEW m \in Given, recvq' = Append(recvq, m)
    PROVE  recvq' \in Seq(Given)
<1> HIDE DEF Given
<1> QED BY OneMore DEF Types

\* Every step of Next keeps the types.
LEMMA TypesStep == Types /\ [Next]_sVars => Types'
<1> SUFFICES ASSUME Types, [Next]_sVars PROVE Types'
  OBVIOUS
<1>1. CASE Silence
  <2>1. Replies \subseteq Arrivals /\ Lost \in Given
    BY DEF Arrivals, Given
  <2>2. down' \in Seq(Arrivals) /\ recvq' \in Seq(Given)
    BY <1>1, <2>1, SilenceDoes, MoreDown, MoreReceived
  <2> QED BY <1>1, <2>2, SilenceDoes DEF Types
<1>2. CASE ReceiveDatagram
  <2>1. PICK m \in Arrivals :
            /\ down # <<>> /\ down' = Tail(down)
            /\ sendq' = sendq /\ p' = p /\ cmdq' = cmdq /\ sw' = sw /\ left' = left
            /\ (t' = t /\ recvq' = recvq) \/ (recvq' = Append(recvq, m) /\ IsT(t'))
    BY <1>2, ReceiveDoes
  <2>2. down' \in Seq(Arrivals)
    <3> HIDE DEF Arrivals
    <3> QED BY <2>1, OneLess DEF Types
  <2>3. recvq' \in Seq(Given)
    BY <2>1, MoreReceived DEF Types, Given
  <2> QED BY <2>1, <2>2, <2>3 DEF Types
<1>3. CASE SendQueued
  <2>1. sendq' \in Seq(Queued)
    <3> HIDE DEF Queued
    <3> QED BY <1>3, SendDoes, OneLess DEF Types
  <2>2. down' \in Seq(Arrivals)
    BY <1>3, SendDoes, MoreDown DEF Hails, Finishes, Commands, Arrivals
  <2> QED BY <1>3, <2>1, <2>2, SendDoes DEF Types
<1>4. CASE Resend
  BY <1>4, ResendDoes DEF Types
<1>5. CASE WorkerTakes
  <2>1. PICK m \in Given : Taken(m) /\ down' = down /\ WorkerDoes(m)
    BY <1>5, WorkerStep
  <2>2. sendq' \in Seq(Queued) /\ cmdq' \in Seq(Nat \ {0})
    BY <2>1, WorkerPasses, PassesTypes
  <2>3. recvq' \in Seq(Given)
    <3> HIDE DEF Given
    <3> QED BY <2>1, OneLess DEF Taken, Types
  <2> QED BY <2>1, <2>2, <2>3 DEF WorkerDoes, Types
<1>6. CASE GivesUp
  <2>1. PICK yes : yes = TRUE
    OBVIOUS
  <2>2. p' = [p EXCEPT !.gone = yes]
    BY <1>6, <2>1, Zenon DEF GivesUp
  <2>3. IsP(p')
    BY <2>2 DEF Types, IsP
  <2> QED BY <1>6, <2>3 DEF GivesUp, Types
<1>7. CASE Send
  <2>1. MaxCmds - left.cmds + 1 \in Nat \ {0} /\ Wake \in Given
    BY SessionBounds DEF Types, IsLeft, Given
  <2>2. IsLeft(left')
    <3>1. /\ left = [quiet |-> left.quiet, lost |-> left.lost, refused |-> left.refused,
                     nomode |-> left.nomode, stragglers |-> left.stragglers, cmds |-> left.cmds]
          /\ left.cmds \in 0..MaxCmds
      BY DEF Types, IsLeft
    <3>2. left' = [quiet |-> left.quiet, lost |-> left.lost, refused |-> left.refused,
                   nomode |-> left.nomode, stragglers |-> left.stragglers, cmds |-> left.cmds - 1]
      BY <1>7, <3>1 DEF Send
    <3>3. left.cmds > 0 /\ MaxCmds \in Nat
      BY <1>7, SessionBounds DEF Send
    <3>4. left.cmds - 1 \in 0..MaxCmds
      BY <3>1, <3>3
    <3> QED BY <3>2, <3>4 DEF IsLeft
  <2>3. cmdq' \in Seq(Nat \ {0})
    BY <1>7, <2>1 DEF Send, Types
  <2>4. recvq' \in Seq(Given)
    BY <1>7, <2>1, MoreReceived DEF Send
  <2> QED BY <1>7, <2>2, <2>3, <2>4 DEF Send, Types
<1>8. CASE Switcher
  <2>1. down' \in Seq(Arrivals)
    BY <1>8, SwitcherDoes, MoreDown DEF Arrivals
  <2> QED BY <1>8, <2>1, SwitcherDoes DEF Types
<1>9. CASE UNCHANGED sVars
  BY <1>9 DEF sVars, Types
<1> QED BY <1>1, <1>2, <1>3, <1>4, <1>5, <1>6, <1>7, <1>8, <1>9 DEF Next, UdpThread

\* All of it has its type in every state, and the resend buffer holds what was numbered
\* in this session: connect() restarts the numbers and empties the buffer in one go.
THEOREM TypesHold == Spec => []TypeOK
<1>1. Types => TypeOK
  BY DEF Types, IsT, IsP, TypeOK
<1> QED BY <1>1, TypesInit, TypesStep, PTL DEF Spec

-----------------------------------------------------------------------------
(* Of a session that was replaced nothing is left, proved.                  *)

OneSyn(Q) == \A i, j \in 1..Len(Q) : Q[i] = Syn /\ Q[j] = Syn => i = j

\* What was in the worker's queue is there, or is the item it took
LEMMA TakenRest ==
    ASSUME Types, NEW m \in Given, Taken(m)
    PROVE  /\ recvq' \in Seq(Given)
           /\ \/ t.stash # Empty /\ m = t.stash /\ recvq' = recvq
              \/ /\ t.stash = Empty /\ m = recvq[1] /\ 1 \in 1..Len(recvq)
                 /\ Len(recvq') = Len(recvq) - 1
                 /\ \A i \in 1..Len(recvq') : recvq'[i] = recvq[i + 1] /\ i + 1 \in 1..Len(recvq)
<1> HIDE DEF Given
<1>1. CASE t.stash # Empty /\ m = t.stash /\ recvq' = recvq
  BY <1>1 DEF Types
<1>2. CASE t.stash = Empty /\ recvq # <<>> /\ m = Head(recvq) /\ recvq' = Tail(recvq)
  <2>1. /\ Head(recvq) = recvq[1] /\ Len(recvq) >= 1 /\ Len(recvq) \in Nat
        /\ Tail(recvq) \in Seq(Given) /\ Len(Tail(recvq)) = Len(recvq) - 1
        /\ \A i \in 1..Len(Tail(recvq)) : Tail(recvq)[i] = recvq[i + 1]
    BY <1>2, OneLess DEF Types
  <2> QED BY <1>2, <2>1
<1> QED BY <1>1, <1>2 DEF Taken

\* That the session is lost is not among what is left, and when the item does not say
\* it, the state is empty while the hello is out.
LEMMA TakenLost ==
    ASSUME Types, Handover, NEW m \in Given, Taken(m)
    PROVE  /\ \A i \in 1..Len(recvq') : recvq'[i].kind # "none"
           /\ m # Lost /\ t.state = "syn_sent" => p.state = {}
           /\ m = Lost => ~t.had /\ t.state = "syn_sent"
<1>1. Len(recvq) \in Nat
  <2> HIDE DEF Given
  <2> QED BY DEF Types
<1>2. \A i \in 1..Len(recvq) : recvq[i].kind = "none" =>
          i = 1 /\ t.stash = Empty /\ ~t.had /\ t.state = "syn_sent"
  BY DEF Handover, LostFirst
<1>3. \A i \in 1..Len(recvq') : recvq'[i].kind # "none"
  BY <1>1, <1>2, TakenRest
<1>4. ASSUME m # Lost, t.state = "syn_sent" PROVE p.state = {}
  <2>1. SUFFICES ASSUME NEW i \in 1..Len(recvq), recvq[i] = Lost PROVE FALSE
    BY <1>4, <1>1 DEF Handover, ReplacedIsGone
  <2>2. recvq[i].kind = "none"
    BY <2>1, Sentinels
  <2> QED BY <1>2, <1>4, <2>1, <2>2, TakenRest
<1>5. ASSUME m = Lost PROVE ~t.had /\ t.state = "syn_sent"
  <2>1. t.stash # Lost
    BY Sentinels DEF Types, IsT
  <2> QED BY <1>1, <1>2, <1>5, <2>1, TakenRest, Sentinels
<1> QED BY <1>3, <1>4, <1>5

\* The item taken belongs to the session, as what is left does
LEMMA TakenSilent ==
    ASSUME Types, Handover, t.state = "established", NEW m \in Given, Taken(m)
    PROVE  /\ NoAnswer(recvq') /\ m.kind # "reply" /\ NoAnswer(down) /\ NoHello(sendq)
           /\ NewOnly(recvq', m, t.prev)
<1>1. Silent(recvq, down, sendq, t.stash) /\ NewOnly(recvq, t.stash, t.prev)
  BY DEF Handover
<1>2. /\ NoAnswer(recvq') /\ m.kind # "reply" /\ NewOnly(recvq', m, t.prev)
  BY <1>1, TakenRest DEF Silent, NewOnly, NoAnswer
<1> QED BY <1>1, <1>2 DEF Silent

\* and while the hello is out there is one answer at most, the one taken included.
LEMMA TakenAnswer ==
    ASSUME Types, Handover, t.state = "syn_sent", NEW m \in Given, Taken(m)
    PROVE  OneHello(recvq', down, sendq, m) /\ AnswerLast(recvq', m)
<1>0. Len(recvq) \in Nat
  <2> HIDE DEF Given
  <2> QED BY DEF Types
<1>1. OneHello(recvq, down, sendq, t.stash) /\ AnswerLast(recvq, t.stash)
  BY DEF Handover
<1>2. CASE m = t.stash /\ recvq' = recvq
  BY <1>1, <1>2
<1>3. CASE /\ m = recvq[1] /\ 1 \in 1..Len(recvq) /\ Len(recvq') = Len(recvq) - 1
           /\ \A i \in 1..Len(recvq') : recvq'[i] = recvq[i + 1] /\ i + 1 \in 1..Len(recvq)
  <2>1. NoAnswer(recvq) => NoAnswer(recvq') /\ m.kind # "reply"
    BY <1>3 DEF NoAnswer
  <2>2. m.kind = "reply" => NoAnswer(recvq')
    <3>1. ASSUME NEW i \in 1..Len(recvq'), m.kind = "reply", recvq'[i].kind = "reply" PROVE FALSE
      <4>1. recvq[i + 1].kind = "reply" /\ recvq[1].kind = "reply" /\ i + 1 \in 1..Len(recvq)
        BY <1>3, <3>1
      <4>2. i + 1 = 1
        BY <1>1, <1>3, <4>1 DEF OneHello
      <4> QED BY <3>1, <4>2, <1>0, <1>3
    <3> QED BY <3>1 DEF NoAnswer
  <2>3. \A i, j \in 1..Len(recvq') : recvq'[i].kind = "reply" /\ recvq'[j].kind = "reply" => i = j
    <3> SUFFICES ASSUME NEW i \in 1..Len(recvq'), NEW j \in 1..Len(recvq'),
                        recvq'[i].kind = "reply", recvq'[j].kind = "reply"
                 PROVE  i = j
      OBVIOUS
    <3>1. i + 1 = j + 1
      BY <1>1, <1>3 DEF OneHello
    <3> QED BY <3>1, <1>0, <1>3
  <2>4. OneHello(recvq', down, sendq, m)
    <3>1. m.kind = "reply" => ~NoAnswer(recvq)
      BY <2>1
    <3> QED BY <1>1, <2>1, <2>2, <2>3, <3>1 DEF OneHello
  <2>5. AnswerLast(recvq', m)
    <3>1. \A i, j \in 1..Len(recvq') : i < j /\ recvq'[i].kind = "reply" => recvq'[j].kind # "pkt"
      <4> SUFFICES ASSUME NEW i \in 1..Len(recvq'), NEW j \in 1..Len(recvq'), i < j,
                          recvq'[i].kind = "reply"
                   PROVE  recvq'[j].kind # "pkt"
        OBVIOUS
      <4>1. i + 1 < j + 1
        BY <1>0, <1>3
      <4> QED BY <1>1, <1>3, <4>1 DEF AnswerLast
    <3>2. m.kind = "reply" => \A i \in 1..Len(recvq') : recvq'[i].kind # "pkt"
      <4> SUFFICES ASSUME m.kind = "reply", NEW i \in 1..Len(recvq') PROVE recvq'[i].kind # "pkt"
        OBVIOUS
      <4>1. 1 < i + 1
        BY <1>0, <1>3
      <4> QED BY <1>1, <1>3, <4>1 DEF AnswerLast
    <3> QED BY <3>1, <3>2 DEF AnswerLast
  <2> QED BY <2>4, <2>5
<1> QED BY <1>2, <1>3, TakenRest

\* A hello among the packets to send
LEMMA PassesHello ==
    ASSUME Types, NEW more \in {<<>>, <<Syn>>, <<Ack>>, <<Time>>}, Passes(more)
    PROVE  /\ more # <<Syn>> /\ NoHello(sendq) => NoHello(sendq')
           /\ more # <<Syn>> /\ OneSyn(sendq) => OneSyn(sendq')
           /\ NoHello(sendq) => OneSyn(sendq')
<1> DEFINE q == sendq \o more
<1>1. /\ sendq \in Seq(Queued) /\ more \in Seq(Queued) /\ q \in Seq(Queued)
      /\ cmdq \in Seq(Queued) /\ cmdq \in Seq(Nat \ {0})
  BY PassesTypes DEF Types
<1>2. \A i \in 1..Len(cmdq) : cmdq[i] # Syn
  BY <1>1, Sentinels
<1>3. Len(more) \in {0, 1} /\ (Len(more) = 1 => (more[1] = Syn <=> more = <<Syn>>))
  <2>1. /\ Len(<<>>) = 0
        /\ Len(<<Syn>>) = 1 /\ <<Syn>>[1] = Syn /\ Len(<<Ack>>) = 1 /\ <<Ack>>[1] = Ack
        /\ Len(<<Time>>) = 1 /\ <<Time>>[1] = Time
    OBVIOUS
  <2>2. Syn # Ack /\ Syn # Time
    BY DEF Syn, Ack, Time
  <2>3. CASE more = <<>>
    BY <2>1, <2>3
  <2>4. CASE more = <<Syn>>
    BY <2>1, <2>4
  <2>5. CASE more = <<Ack>>
    BY <2>1, <2>2, <2>5
  <2>6. CASE more = <<Time>>
    BY <2>1, <2>2, <2>6
  <2> QED BY <2>3, <2>4, <2>5, <2>6
<1> HIDE DEF Queued
<1>4. /\ Len(q) = Len(sendq) + Len(more) /\ Len(sendq) \in Nat /\ Len(cmdq) \in Nat
      /\ \A i \in 1..Len(sendq) : q[i] = sendq[i]
      /\ Len(more) = 1 => q[Len(sendq) + 1] = more[1]
  BY <1>1, <1>3
<1> HIDE DEF q
<1>5. /\ Len(q \o cmdq) = Len(q) + Len(cmdq)
      /\ \A i \in 1..Len(q) : (q \o cmdq)[i] = q[i]
      /\ \A i \in Len(q) + 1..Len(q) + Len(cmdq) : (q \o cmdq)[i] # Syn
  <2>1. \A i \in Len(q) + 1..Len(q) + Len(cmdq) :
            (q \o cmdq)[i] = cmdq[i - Len(q)] /\ i - Len(q) \in 1..Len(cmdq)
    BY <1>1
  <2> QED BY <1>1, <1>2, <2>1
<1>6. /\ more # <<Syn>> /\ NoHello(sendq) => NoHello(q)
      /\ more # <<Syn>> /\ OneSyn(sendq) => OneSyn(q)
      /\ NoHello(sendq) => OneSyn(q)
  <2>1. \A i \in 1..Len(q) : i \in 1..Len(sendq) \/ (i = Len(sendq) + 1 /\ Len(more) = 1)
    <3>1. CASE Len(more) = 0
      BY <1>4, <3>1
    <3>2. CASE Len(more) = 1
      BY <1>4, <3>2
    <3> QED BY <1>3, <3>1, <3>2
  <2>2. \A i \in 1..Len(q) : q[i] = Syn /\ more # <<Syn>> => i \in 1..Len(sendq) /\ sendq[i] = Syn
    BY <1>3, <1>4, <2>1
  <2>3. \A i \in 1..Len(q) : q[i] = Syn => (i \in 1..Len(sendq) /\ sendq[i] = Syn) \/ i = Len(sendq) + 1
    BY <1>4, <2>1
  <2> QED BY <2>2, <2>3 DEF NoHello, OneSyn
<1>7. Len(q) \in Nat
  BY <1>3, <1>4
<1>8. /\ NoHello(q) => NoHello(q \o cmdq)
      /\ OneSyn(q) => OneSyn(q \o cmdq)
  BY <1>4, <1>5, <1>7 DEF NoHello, OneSyn
<1> QED BY <1>6, <1>8 DEF Passes, q

\* The worker's step keeps the handover, whatever the item
LEMMA HandoverWorker == Types /\ Handover /\ WorkerTakes => Handover'
<1> SUFFICES ASSUME Types, Handover, WorkerTakes PROVE Handover'
  OBVIOUS
<1>1. PICK m \in Given : Taken(m) /\ down' = down /\ WorkerDoes(m)
  BY WorkerStep
<1>2. PICK more \in {<<>>, <<Syn>>, <<Ack>>, <<Time>>} : Passes(more)
  BY <1>1, WorkerPasses
<1>3. /\ \A i \in 1..Len(recvq') : recvq'[i].kind # "none"
      /\ m # Lost /\ t.state = "syn_sent" => p.state = {}
      /\ m = Lost => ~t.had /\ t.state = "syn_sent"
  BY <1>1, TakenLost
<1>4. LostFirst(recvq', t'.stash, t'.had, t'.state)
  BY <1>3 DEF LostFirst
<1>5. t.state \in {"syn_sent", "established"}
  BY DEF Types, IsT
<1>6. Empty.kind = "empty" /\ <<Syn>> # <<Ack>> /\ <<Syn>> # <<Time>> /\ <<Syn>> # <<>>
  BY Sentinels DEF Syn, Ack, Time
<1>7. t.state = "established" =>
          /\ NoAnswer(recvq') /\ m.kind # "reply" /\ NoAnswer(down) /\ NoHello(sendq)
          /\ NewOnly(recvq', m, t.prev)
  BY <1>1, TakenSilent
<1>8. t.state = "syn_sent" => OneHello(recvq', down, sendq, m) /\ AnswerLast(recvq', m)
  BY <1>1, TakenAnswer
<1>9. NewOnly(recvq', m, t.prev) => NewOnly(recvq', Empty, t.prev)
  BY <1>6 DEF NewOnly
<1>10. AnswerLast(recvq', m) => AnswerLast(recvq', Empty)
  BY <1>6 DEF AnswerLast
<1>11. \A r : OneHello(recvq', down, sendq, m) /\ Passes(r) /\ r \in {<<>>, <<Ack>>, <<Time>>} =>
                 OneHello(recvq', down, sendq', m) /\ OneHello(recvq', down, sendq', Empty)
  BY <1>6, PassesHello DEF OneHello, OneSyn
<1>12. \A r : NoHello(sendq) /\ Passes(r) /\ r \in {<<>>, <<Ack>>, <<Time>>} => NoHello(sendq')
  BY <1>6, PassesHello
<1>13. CASE Loses(m)
  <2>1. /\ t'.state = "syn_sent" /\ t'.stash = Empty /\ p'.state = {} /\ Passes(<<>>)
    BY <1>3, <1>13 DEF Loses
  <2>2. OneHello(recvq', down', sendq', t'.stash) /\ AnswerLast(recvq', t'.stash)
    BY <1>1, <1>3, <1>8, <1>10, <1>11, <1>13, <2>1 DEF Loses
  <2> QED BY <1>4, <2>1, <2>2 DEF Handover, ReplacedIsGone
<1>14. CASE Passing(m)
  <2>1. /\ t'.state = t.state /\ t'.stash = Empty /\ p'.state = p.state /\ Passes(<<>>)
        /\ t'.prev = t.prev /\ m # Lost
    BY <1>14 DEF Passing, SameSession
  <2>2. CASE t.state = "established"
    <3>1. Silent(recvq', down', sendq', t'.stash) /\ NewOnly(recvq', t'.stash, t'.prev)
      BY <1>1, <1>6, <1>7, <1>9, <1>12, <2>1, <2>2 DEF Silent
    <3> QED BY <1>4, <2>1, <2>2, <3>1 DEF Handover, ReplacedIsGone
  <2>3. CASE t.state = "syn_sent"
    <3>1. OneHello(recvq', down', sendq', t'.stash) /\ AnswerLast(recvq', t'.stash)
      BY <1>1, <1>8, <1>10, <1>11, <2>1, <2>3
    <3> QED BY <1>3, <1>4, <2>1, <2>3, <3>1 DEF Handover, ReplacedIsGone
  <2> QED BY <1>5, <2>2, <2>3
<1>15. CASE Readies(m)
  <2>1. /\ t'.state = t.state /\ t'.stash = m /\ p'.state = p.state /\ Passes(<<Time>>)
        /\ t'.prev = t.prev /\ m # Lost
    BY <1>15 DEF Readies, SameSession
  <2>2. CASE t.state = "established"
    <3>1. Silent(recvq', down', sendq', t'.stash) /\ NewOnly(recvq', t'.stash, t'.prev)
      BY <1>1, <1>7, <1>12, <2>1, <2>2 DEF Silent
    <3> QED BY <1>4, <2>1, <2>2, <3>1 DEF Handover, ReplacedIsGone
  <2>3. CASE t.state = "syn_sent"
    <3>1. OneHello(recvq', down', sendq', t'.stash) /\ AnswerLast(recvq', t'.stash)
      BY <1>1, <1>8, <1>11, <2>1, <2>3
    <3> QED BY <1>3, <1>4, <2>1, <2>3, <3>1 DEF Handover, ReplacedIsGone
  <2> QED BY <1>5, <2>2, <2>3
<1>16. CASE Waits(m)
  <2>1. /\ t.state = "syn_sent" /\ t'.state = "syn_sent" /\ t'.stash = Empty /\ p'.state = p.state
        /\ Passes(<<>>) /\ m # Lost
    BY <1>16 DEF Waits
  <2>2. OneHello(recvq', down', sendq', t'.stash) /\ AnswerLast(recvq', t'.stash)
    BY <1>1, <1>8, <1>10, <1>11, <2>1
  <2> QED BY <1>3, <1>4, <2>1, <2>2 DEF Handover, ReplacedIsGone
<1>17. CASE Welcomes(m)
  <2>1. /\ t.state = "syn_sent" /\ t'.state = "established" /\ t'.stash = Empty
        /\ p'.state = p.state /\ Passes(<<Ack>>) /\ m.kind = "reply" /\ m # Lost
    BY <1>17, Sentinels DEF Welcomes
  <2>2. NoAnswer(recvq') /\ NoAnswer(down') /\ NoHello(sendq)
    BY <1>1, <1>8, <2>1 DEF OneHello
  <2>3. \A i \in 1..Len(recvq') : recvq'[i].kind # "pkt"
    BY <1>8, <2>1 DEF AnswerLast
  <2>4. Silent(recvq', down', sendq', t'.stash) /\ NewOnly(recvq', t'.stash, t'.prev)
    BY <1>6, <1>12, <2>1, <2>2, <2>3 DEF Silent, NewOnly
  <2>5. p'.state = {}
    BY <1>3, <2>1
  <2> QED BY <1>4, <2>1, <2>4, <2>5 DEF Handover, ReplacedIsGone
<1>18. CASE StartsOver(m)
  <2>1. /\ t.state = "established" /\ t'.state = "syn_sent" /\ t'.stash = Empty /\ p'.state = {}
        /\ Passes(<<Syn>>)
    BY <1>18 DEF StartsOver, NewSession
  <2>2. OneSyn(sendq')
    BY <1>7, <2>1, PassesHello
  <2>3. OneHello(recvq', down', sendq', t'.stash) /\ AnswerLast(recvq', t'.stash)
    BY <1>1, <1>6, <1>7, <2>1, <2>2 DEF OneHello, OneSyn, NoAnswer, AnswerLast
  <2> QED BY <1>4, <2>1, <2>3 DEF Handover, ReplacedIsGone
<1>19. CASE Merges(m)
  <2>1. /\ t.state = "established" /\ t'.state = t.state /\ t'.stash = Empty /\ t'.prev = t.prev
        /\ Passes(<<>>)
    BY <1>19 DEF Merges, SameSession
  <2>2. Silent(recvq', down', sendq', t'.stash) /\ NewOnly(recvq', t'.stash, t'.prev)
    BY <1>1, <1>6, <1>7, <1>9, <1>12, <2>1 DEF Silent
  <2>3. \A f \in p'.state : f[1] # t'.prev
    <3>1. \A f \in p.state : f[1] # t.prev
      BY <2>1 DEF Handover, ReplacedIsGone
    <3>2. m.kind = "pkt" => <<m.sid, m.body>>[1] # t.prev
      BY <1>7, <2>1 DEF NewOnly
    <3> QED BY <1>19, <2>1, <3>1, <3>2 DEF Merges
  <2> QED BY <1>4, <2>1, <2>2, <2>3 DEF Handover, ReplacedIsGone
<1> QED BY <1>1, <1>13, <1>14, <1>15, <1>16, <1>17, <1>18, <1>19 DEF WorkerDoes

\* so does what the UDP thread reads,
LEMMA HandoverReceive == Types /\ Handover /\ ReceiveDatagram => Handover'
<1> SUFFICES ASSUME Types, Handover, ReceiveDatagram PROVE Handover'
  OBVIOUS
<1>1. PICK m \in Arrivals :
          /\ down # <<>> /\ m = Head(down) /\ down' = Tail(down)
          /\ sendq' = sendq /\ p' = p /\ cmdq' = cmdq /\ sw' = sw /\ left' = left
          /\ \/ t' = t /\ recvq' = recvq
             \/ /\ m.kind = "pkt" => m.sid # t.prev /\ t.state = "established"
                /\ recvq' = Append(recvq, m) /\ IsT(t')
                /\ t'.state = t.state /\ t'.prev = t.prev /\ t'.buf = t.buf /\ t'.had = t.had
                /\ t'.stash = t.stash
  BY ReceiveDoes
<1>2. /\ m = down[1] /\ 1 \in 1..Len(down) /\ Len(down') = Len(down) - 1 /\ Len(down) \in Nat
      /\ \A i \in 1..Len(down') : down'[i] = down[i + 1] /\ i + 1 \in 1..Len(down)
  <2> HIDE DEF Arrivals
  <2>1. /\ Head(down) = down[1] /\ Len(down) >= 1 /\ Len(down) \in Nat
        /\ Len(Tail(down)) = Len(down) - 1
        /\ \A i \in 1..Len(Tail(down)) : Tail(down)[i] = down[i + 1]
    BY <1>1, OneLess DEF Types
  <2> QED BY <1>1, <2>1
<1>3. /\ NoAnswer(down) => NoAnswer(down') /\ m.kind # "reply"
      /\ OneHello(recvq, down, sendq, t.stash) => OneHello(recvq, down', sendq, t.stash)
  <2>1. NoAnswer(down) => NoAnswer(down') /\ m.kind # "reply"
    BY <1>2 DEF NoAnswer
  <2>2. ASSUME OneHello(recvq, down, sendq, t.stash),
               NEW i \in 1..Len(down'), NEW j \in 1..Len(down'),
               down'[i].kind = "reply", down'[j].kind = "reply"
        PROVE  i = j
    <3>1. i + 1 = j + 1
      BY <1>2, <2>2 DEF OneHello
    <3> QED BY <3>1, <1>2
  <2> QED BY <2>1, <2>2 DEF OneHello
<1>4. CASE t' = t /\ recvq' = recvq
  BY <1>1, <1>3, <1>4 DEF Handover, Silent, ReplacedIsGone
<1>5. CASE /\ m.kind = "pkt" => m.sid # t.prev /\ t.state = "established"
           /\ recvq' = Append(recvq, m)
           /\ t'.state = t.state /\ t'.prev = t.prev /\ t'.had = t.had /\ t'.stash = t.stash
  <2>1. /\ Len(recvq) \in Nat /\ Len(recvq') = Len(recvq) + 1 /\ recvq'[Len(recvq) + 1] = m
        /\ \A i \in 1..Len(recvq) : recvq'[i] = recvq[i]
        /\ \A i \in 1..Len(recvq') : i \in 1..Len(recvq) \/ i = Len(recvq) + 1
    <3>1. m \in Given /\ recvq \in Seq(Given)
      BY DEF Given, Types
    <3> HIDE DEF Given
    <3>2. Len(recvq) \in Nat
      BY <3>1
    <3> QED BY <1>5, <3>1, <3>2, OneMore
  <2>2. m.kind \in {"pkt", "reply"} /\ m # Lost
    BY Sentinels
  <2>3. LostFirst(recvq', t'.stash, t'.had, t'.state)
    BY <1>5, <2>1, <2>2 DEF Handover, LostFirst
  <2>4. CASE t.state = "established"
    <3>1. m.kind = "pkt" /\ m.sid # t.prev
      BY <1>3, <1>5, <2>2, <2>4 DEF Handover, Silent
    <3>2. Silent(recvq', down', sendq', t'.stash)
      BY <1>1, <1>3, <1>5, <2>1, <2>4, <3>1 DEF Handover, Silent, NoAnswer
    <3>3. NewOnly(recvq', t'.stash, t'.prev)
      BY <1>5, <2>1, <2>4, <3>1 DEF Handover, NewOnly
    <3>4. ReplacedIsGone'
      BY <1>1, <1>5, <2>4 DEF Handover, ReplacedIsGone
    <3> QED BY <1>5, <2>3, <2>4, <3>2, <3>3, <3>4 DEF Handover
  <2>5. CASE t.state = "syn_sent"
    <3>1. m.kind = "reply" /\ OneHello(recvq, down, sendq, t.stash) /\ AnswerLast(recvq, t.stash)
      BY <1>5, <2>2, <2>5 DEF Handover
    <3>2. NoAnswer(recvq) /\ NoHello(sendq) /\ t.stash.kind # "reply" /\ ~NoAnswer(down)
      BY <1>3, <3>1 DEF OneHello
    <3>3. NoAnswer(down')
      <4> SUFFICES ASSUME NEW i \in 1..Len(down'), down'[i].kind = "reply" PROVE FALSE
        BY DEF NoAnswer
      <4>1. i + 1 = 1
        BY <1>2, <3>1 DEF OneHello
      <4> QED BY <1>2, <4>1
    <3>4. OneHello(recvq', down', sendq', t'.stash)
      <4>1. \A i, j \in 1..Len(recvq') : recvq'[i].kind = "reply" /\ recvq'[j].kind = "reply" => i = j
        BY <2>1, <3>2 DEF NoAnswer
      <4>2. \A i, j \in 1..Len(down') : down'[i].kind = "reply" /\ down'[j].kind = "reply" => i = j
        BY <3>3 DEF NoAnswer
      <4> QED BY <1>1, <1>5, <3>1, <3>2, <3>3, <4>1, <4>2 DEF OneHello
    <3>5. AnswerLast(recvq', t'.stash)
      <4>1. \A i, j \in 1..Len(recvq') : i < j /\ recvq'[i].kind = "reply" => recvq'[j].kind # "pkt"
        BY <2>1, <3>1, <3>2 DEF NoAnswer
      <4> QED BY <1>5, <3>2, <4>1 DEF AnswerLast
    <3>6. ReplacedIsGone'
      <4>1. p.state = {} \/ \E i \in 1..Len(recvq) : recvq[i] = Lost
        BY <2>1, <2>5 DEF Handover, ReplacedIsGone
      <4>2. p.state = {} \/ \E i \in 1..Len(recvq') : recvq'[i] = Lost
        BY <2>1, <4>1
      <4> QED BY <1>1, <1>5, <2>5, <4>2 DEF ReplacedIsGone
    <3> QED BY <1>5, <2>3, <2>5, <3>4, <3>5, <3>6 DEF Handover
  <2> QED BY <2>4, <2>5 DEF Types, IsT
<1> QED BY <1>1, <1>4, <1>5

\* and what it sends;
LEMMA HandoverSend == Types /\ Handover /\ SendQueued => Handover'
<1> SUFFICES ASSUME Types, Handover, SendQueued PROVE Handover'
  OBVIOUS
<1>1. /\ sendq # <<>> /\ sendq' = Tail(sendq) /\ recvq' = recvq /\ p' = p
      /\ t'.state = t.state /\ t'.prev = t.prev /\ t'.had = t.had /\ t'.stash = t.stash
      /\ down' = down \/ (Head(sendq) = Syn /\ \E r \in Replies : down' = Append(down, r))
  BY SendDoes DEF Hails, Finishes, Commands
<1>2. /\ Head(sendq) = sendq[1] /\ 1 \in 1..Len(sendq) /\ Len(sendq') = Len(sendq) - 1
      /\ Len(sendq) \in Nat
      /\ \A i \in 1..Len(sendq') : sendq'[i] = sendq[i + 1] /\ i + 1 \in 1..Len(sendq)
  <2> HIDE DEF Queued
  <2>1. /\ Head(sendq) = sendq[1] /\ Len(sendq) >= 1 /\ Len(sendq) \in Nat
        /\ Len(Tail(sendq)) = Len(sendq) - 1
        /\ \A i \in 1..Len(Tail(sendq)) : Tail(sendq)[i] = sendq[i + 1]
    BY <1>1, OneLess DEF Types
  <2> QED BY <1>1, <2>1
<1>3. /\ NoHello(sendq) => NoHello(sendq') /\ Head(sendq) # Syn
      /\ OneSyn(sendq) => OneSyn(sendq') /\ (Head(sendq) = Syn => NoHello(sendq'))
  <2>1. NoHello(sendq) => NoHello(sendq') /\ Head(sendq) # Syn
    BY <1>2 DEF NoHello
  <2>2. ASSUME OneSyn(sendq), NEW i \in 1..Len(sendq'), NEW j \in 1..Len(sendq'),
               sendq'[i] = Syn, sendq'[j] = Syn
        PROVE  i = j
    <3>1. i + 1 = j + 1
      BY <1>2, <2>2 DEF OneSyn
    <3> QED BY <3>1, <1>2
  <2>3. ASSUME OneSyn(sendq), Head(sendq) = Syn, NEW i \in 1..Len(sendq'), sendq'[i] = Syn
        PROVE  FALSE
    <3>1. i + 1 = 1
      BY <1>2, <2>3 DEF OneSyn
    <3> QED BY <3>1, <1>2
  <2>4. OneSyn(sendq) => OneSyn(sendq')
    BY <2>2 DEF OneSyn
  <2>5. OneSyn(sendq) /\ Head(sendq) = Syn => NoHello(sendq')
    BY <2>3 DEF NoHello
  <2> QED BY <2>1, <2>4, <2>5
<1>4. LostFirst(recvq', t'.stash, t'.had, t'.state) /\ ReplacedIsGone'
  BY <1>1 DEF Handover, ReplacedIsGone
<1>5. CASE t.state = "established"
  <2>1. NoHello(sendq) /\ NoHello(sendq') /\ down' = down
    BY <1>1, <1>3, <1>5 DEF Handover, Silent
  <2> QED BY <1>1, <1>4, <1>5, <2>1 DEF Handover, Silent
<1>6. CASE t.state = "syn_sent"
  <2>1. OneHello(recvq, down, sendq, t.stash) /\ AnswerLast(recvq, t.stash)
    BY <1>6 DEF Handover
  <2>2. OneSyn(sendq')
    BY <1>3, <2>1 DEF OneHello, OneSyn
  <2>3. CASE down' = down
    <3>1. OneHello(recvq', down', sendq', t'.stash)
      BY <1>1, <1>3, <2>1, <2>2, <2>3 DEF OneHello, OneSyn
    <3> QED BY <1>1, <1>4, <1>6, <2>1, <3>1 DEF Handover
  <2>4. CASE Head(sendq) = Syn /\ \E r \in Replies : down' = Append(down, r)
    <3>1. PICK r \in Replies : down' = Append(down, r)
      BY <2>4
    <3>2. /\ Len(down) \in Nat /\ Len(down') = Len(down) + 1 /\ down'[Len(down) + 1] = r
          /\ \A i \in 1..Len(down) : down'[i] = down[i]
      <4>1. r \in Arrivals /\ down \in Seq(Arrivals)
        BY DEF Arrivals, Types
      <4> HIDE DEF Arrivals
      <4>2. Len(down) \in Nat
        BY <4>1
      <4> QED BY <3>1, <4>1, <4>2, OneMore
    <3>3. NoAnswer(recvq) /\ NoAnswer(down) /\ NoHello(sendq') /\ t.stash.kind # "reply"
      BY <1>3, <2>1, <2>4 DEF OneHello, OneSyn
    <3>4. \A i, j \in 1..Len(down') : down'[i].kind = "reply" /\ down'[j].kind = "reply" => i = j
      <4>1. \A i \in 1..Len(down') : i \in 1..Len(down) \/ i = Len(down) + 1
        BY <3>2
      <4> QED BY <3>2, <3>3, <4>1 DEF NoAnswer
    <3>5. OneHello(recvq', down', sendq', t'.stash)
      BY <1>1, <2>1, <2>2, <3>3, <3>4 DEF OneHello, OneSyn
    <3> QED BY <1>1, <1>4, <1>6, <2>1, <3>5 DEF Handover
  <2> QED BY <1>1, <2>3, <2>4
<1> QED BY <1>5, <1>6 DEF Types, IsT

\* an item is added to the worker's queue that is no packet and no answer, nor says that
\* a session is lost, or a packet to the datagrams under way.
LEMMA HandoverMore ==
    ASSUME Types, Handover, t' = t, sendq' = sendq, p'.state = p.state,
           recvq' = recvq \/ recvq' = Append(recvq, Wake),
           down' = down \/ \E m \in Packets : down' = Append(down, m)
    PROVE  Handover'
<1>1. \A i \in 1..Len(recvq') :
          (i \in 1..Len(recvq) /\ recvq'[i] = recvq[i]) \/ recvq'[i].kind = "wake"
  <2>1. Wake \in Given /\ recvq \in Seq(Given) /\ Wake.kind = "wake"
    BY Sentinels DEF Given, Types
  <2> HIDE DEF Given
  <2>2. CASE recvq' = recvq
    BY <2>2
  <2>3. CASE recvq' = Append(recvq, Wake)
    <3>1. Len(recvq') = Len(recvq) + 1 /\ Len(recvq) \in Nat /\ recvq'[Len(recvq) + 1] = Wake
      BY <2>1, <2>3
    <3>2. \A i \in 1..Len(recvq) : recvq'[i] = recvq[i]
      BY <2>1, <2>3
    <3> QED BY <2>1, <3>1, <3>2
  <2> QED BY <2>2, <2>3
<1>2. \A i \in 1..Len(down') :
          (i \in 1..Len(down) /\ down'[i] = down[i]) \/ down'[i].kind = "pkt"
  <2>1. \A m \in Packets : m.kind = "pkt" /\ m \in Arrivals
    BY DEF Packets, Arrivals
  <2>2. down \in Seq(Arrivals)
    BY DEF Types
  <2> HIDE DEF Arrivals, Packets
  <2>3. CASE down' = down
    BY <2>3
  <2>4. CASE \E m \in Packets : down' = Append(down, m)
    <3>1. PICK m \in Packets : down' = Append(down, m) /\ m \in Arrivals /\ m.kind = "pkt"
      BY <2>1, <2>4
    <3>2. Len(down') = Len(down) + 1 /\ Len(down) \in Nat /\ down'[Len(down) + 1] = m
      BY <2>2, <3>1
    <3>3. \A i \in 1..Len(down) : down'[i] = down[i]
      BY <2>2, <3>1
    <3> QED BY <3>1, <3>2, <3>3
  <2> QED BY <2>3, <2>4
<1>3. NoAnswer(recvq) => NoAnswer(recvq')
  BY <1>1 DEF NoAnswer
<1>4. NoAnswer(down) => NoAnswer(down')
  BY <1>2 DEF NoAnswer
<1>5. OneHello(recvq, down, sendq, t.stash) => OneHello(recvq', down', sendq, t.stash)
  <2>1. ASSUME OneHello(recvq, down, sendq, t.stash)
        PROVE  /\ \A i, j \in 1..Len(recvq') :
                      recvq'[i].kind = "reply" /\ recvq'[j].kind = "reply" => i = j
               /\ \A i, j \in 1..Len(down') :
                      down'[i].kind = "reply" /\ down'[j].kind = "reply" => i = j
    <3>1. ASSUME NEW i \in 1..Len(recvq'), NEW j \in 1..Len(recvq'),
                 recvq'[i].kind = "reply", recvq'[j].kind = "reply"
          PROVE  i = j
      BY <1>1, <2>1, <3>1 DEF OneHello
    <3>2. ASSUME NEW i \in 1..Len(down'), NEW j \in 1..Len(down'),
                 down'[i].kind = "reply", down'[j].kind = "reply"
          PROVE  i = j
      BY <1>2, <2>1, <3>2 DEF OneHello
    <3> QED BY <3>1, <3>2
  <2> QED BY <1>3, <1>4, <2>1 DEF OneHello
<1>6. /\ NewOnly(recvq, t.stash, t.prev) => NewOnly(recvq', t.stash, t.prev)
      /\ AnswerLast(recvq, t.stash) => AnswerLast(recvq', t.stash)
      /\ LostFirst(recvq', t.stash, t.had, t.state)
  BY <1>1 DEF NewOnly, AnswerLast, LostFirst, Handover
<1>7. ReplacedIsGone'
  <2>1. ASSUME NEW i \in 1..Len(recvq) PROVE i \in 1..Len(recvq') /\ recvq'[i] = recvq[i]
    <3>1. Wake \in Given /\ recvq \in Seq(Given) /\ Len(recvq) \in Nat
      BY DEF Given, Types
    <3> HIDE DEF Given
    <3> QED BY <2>1, <3>1, OneMore
  <2> QED BY <2>1 DEF Handover, ReplacedIsGone
<1> QED BY <1>3, <1>4, <1>5, <1>6, <1>7 DEF Handover, Silent

\* five seconds of silence: the queues are empty, as the worker keeps up;
LEMMA HandoverSilence == Types /\ Handover /\ Silence /\ ~Lags => Handover'
<1> SUFFICES ASSUME Types, Handover, Silence, ~Lags PROVE Handover'
  OBVIOUS
<1>1. /\ recvq' = Append(recvq, Lost) /\ sendq' = sendq /\ p' = p
      /\ down = <<>> /\ (down' = down \/ \E r \in Replies : down' = Append(down, r))
      /\ sendq = <<>> /\ recvq = <<>> /\ t.stash = Empty
      /\ t'.stash = Empty /\ ~t'.had /\ t'.state = "syn_sent"
  BY SilenceDoes DEF NewSession
<1>2. recvq' = <<Lost>> /\ recvq'[1] = Lost /\ Len(recvq') = 1 /\ 1 \in DOMAIN recvq'
  BY <1>1
<1>3. Lost.kind = "none" /\ Empty.kind = "empty"
  BY Sentinels
<1>4. Len(down') \in {0, 1}
  BY <1>1
<1>5. NoAnswer(recvq') /\ NoHello(sendq')
  BY <1>1, <1>2, <1>3 DEF NoAnswer, NoHello
<1>6. OneHello(recvq', down', sendq', t'.stash) /\ AnswerLast(recvq', t'.stash)
  BY <1>1, <1>2, <1>3, <1>4, <1>5 DEF OneHello, AnswerLast
<1>7. LostFirst(recvq', t'.stash, t'.had, t'.state)
  BY <1>1, <1>2 DEF LostFirst
<1>8. ReplacedIsGone'
  BY <1>1, <1>2 DEF ReplacedIsGone
<1> QED BY <1>1, <1>6, <1>7, <1>8 DEF Handover

\* and at the start the first hello is on its way.
LEMMA HandoverInit == Init => Handover
<1> SUFFICES ASSUME Init PROVE Handover
  OBVIOUS
<1>1. /\ recvq = <<>> /\ down = <<>> /\ sendq = <<Syn>> /\ t.stash = Empty /\ t.state = "syn_sent"
      /\ p.state = {}
  BY DEF Init
<1>2. Empty.kind = "empty"
  BY Sentinels
<1>3. Len(sendq) = 1 /\ Len(recvq) = 0 /\ Len(down) = 0
  BY <1>1
<1> QED BY <1>1, <1>2, <1>3 DEF Handover, OneHello, AnswerLast, LostFirst, NoAnswer, NoHello, ReplacedIsGone

\* Every step of Next keeps the handover in order.
LEMMA HandoverStep == ~Lags /\ Types /\ Handover /\ [Next]_sVars => Handover'
<1> SUFFICES ASSUME ~Lags, Types, Handover, [Next]_sVars PROVE Handover'
  OBVIOUS
<1>1. CASE Silence
  BY <1>1, HandoverSilence
<1>2. CASE ReceiveDatagram
  BY <1>2, HandoverReceive
<1>3. CASE SendQueued
  BY <1>3, HandoverSend
<1>4. CASE Resend
  BY <1>4, HandoverMore, ResendDoes
<1>5. CASE WorkerTakes
  BY <1>5, HandoverWorker
<1>6. CASE GivesUp
  <2>1. p'.state = p.state
    BY <1>6 DEF GivesUp, Types, IsP
  <2> QED BY <1>6, <2>1, HandoverMore DEF GivesUp
<1>7. CASE Send
  BY <1>7, HandoverMore DEF Send
<1>8. CASE Switcher
  BY <1>8, HandoverMore, SwitcherDoes
<1>9. CASE UNCHANGED sVars
  BY <1>9, HandoverMore DEF sVars
<1> QED BY <1>1, <1>2, <1>3, <1>4, <1>5, <1>6, <1>7, <1>8, <1>9 DEF Next, UdpThread

\* While the worker keeps up with the silence window, of a session that was replaced
\* nothing is left once the next is established, whatever order the silence, the
\* incomplete dumps and the resends take.
THEOREM Replaced == ~Lags => (Spec => []ReplacedIsGone)
<1> SUFFICES ASSUME ~Lags PROVE Spec => []ReplacedIsGone
  OBVIOUS
<1>1. Init => HandoverInv
  BY TypesInit, HandoverInit DEF HandoverInv
<1>2. HandoverInv /\ [Next]_sVars => HandoverInv'
  BY TypesStep, HandoverStep DEF HandoverInv
<1>3. HandoverInv => ReplacedIsGone
  BY DEF HandoverInv, Handover
<1> QED BY <1>1, <1>2, <1>3, PTL DEF Spec

-----------------------------------------------------------------------------
(* No command is carried out twice, proved. *)

\* The rest of a sequence,
LEMMA OfTail ==
    ASSUME NEW S \in Seq(Int), S # <<>>
    PROVE  /\ Tail(S) \in Seq(Int) /\ Head(S) \in Int /\ <<Head(S)>> \in Seq(Int)
           /\ \A n \in Int : Under(S, n) => Under(Tail(S), n) /\ Under(<<Head(S)>>, n)
           /\ Alone(S) => Alone(Tail(S)) /\ Apart(<<Head(S)>>, Tail(S))
           /\ \A X \in Seq(Int) : Apart(X, S) => Apart(X, Tail(S)) /\ Apart(X, <<Head(S)>>)
           /\ \A X \in Seq(Int) : Apart(S, X) => Apart(Tail(S), X) /\ Apart(<<Head(S)>>, X)
<1> DEFINE Z == Tail(S)
           H == <<Head(S)>>
<1>1. /\ Z \in Seq(Int) /\ Head(S) \in Int /\ H \in Seq(Int) /\ Len(H) = 1 /\ H[1] = S[1]
      /\ Len(Z) \in Nat /\ Len(S) = Len(Z) + 1
      /\ \A i \in 1..Len(Z) : Z[i] = S[i + 1]
  OBVIOUS
<1>2. \A i \in 1..Len(Z) : i + 1 \in 1..Len(S) /\ i + 1 # 1
  BY <1>1
<1>3. 1 \in 1..Len(S) /\ \A i \in 1..Len(H) : i = 1
  BY <1>1
<1> HIDE DEF Z, H
<1>4. \A n \in Int : Under(S, n) => Under(Z, n) /\ Under(H, n)
  BY <1>1, <1>2, <1>3 DEF Under
<1>5. Alone(S) => Alone(Z)
  <2> SUFFICES ASSUME Alone(S), NEW i \in 1..Len(Z), NEW j \in 1..Len(Z), Z[i] > 0, Z[i] = Z[j]
               PROVE  i = j
    BY DEF Alone
  <2>1. S[i + 1] > 0 /\ S[i + 1] = S[j + 1] /\ i + 1 \in 1..Len(S) /\ j + 1 \in 1..Len(S)
    BY <1>1, <1>2
  <2>2. i + 1 = j + 1
    BY <2>1 DEF Alone
  <2> QED BY <2>2
<1>6. Alone(S) => Apart(H, Z)
  <2> SUFFICES ASSUME Alone(S), NEW i \in 1..Len(H), NEW j \in 1..Len(Z), H[i] > 0, H[i] = Z[j]
               PROVE  FALSE
    BY DEF Apart
  <2>1. S[1] > 0 /\ S[1] = S[j + 1] /\ j + 1 \in 1..Len(S) /\ j + 1 # 1 /\ 1 \in 1..Len(S)
    BY <1>1, <1>2, <1>3
  <2> QED BY <2>1 DEF Alone
<1>7. \A X \in Seq(Int) : Apart(X, S) => Apart(X, Z) /\ Apart(X, H)
  <2>1. \A X \in Seq(Int) : Apart(X, S) => Apart(X, Z)
    <3> SUFFICES ASSUME NEW X \in Seq(Int), Apart(X, S), NEW i \in 1..Len(X), NEW j \in 1..Len(Z),
                        X[i] > 0
                 PROVE  X[i] # Z[j]
      BY DEF Apart
    <3>1. Z[j] = S[j + 1] /\ j + 1 \in 1..Len(S)
      BY <1>1, <1>2
    <3> QED BY <3>1 DEF Apart
  <2>2. \A X \in Seq(Int) : Apart(X, S) => Apart(X, H)
    BY <1>1, <1>3, SMTT(30) DEF Apart
  <2> QED BY <2>1, <2>2
<1>8. \A X \in Seq(Int) : Apart(S, X) => Apart(Z, X) /\ Apart(H, X)
  <2>1. \A X \in Seq(Int) : Apart(S, X) => Apart(Z, X)
    <3> SUFFICES ASSUME NEW X \in Seq(Int), Apart(S, X), NEW i \in 1..Len(Z), NEW j \in 1..Len(X),
                        Z[i] > 0
                 PROVE  Z[i] # X[j]
      BY DEF Apart
    <3>1. Z[i] = S[i + 1] /\ i + 1 \in 1..Len(S)
      BY <1>1, <1>2
    <3> QED BY <3>1 DEF Apart
  <2>2. \A X \in Seq(Int) : Apart(S, X) => Apart(H, X)
    BY <1>1, <1>3, SMTT(30) DEF Apart
  <2> QED BY <2>1, <2>2
<1> QED BY <1>1, <1>4, <1>5, <1>6, <1>7, <1>8 DEF Z, H

\* two together,
LEMMA OfJoined ==
    ASSUME NEW S \in Seq(Int), NEW R \in Seq(Int)
    PROVE  /\ S \o R \in Seq(Int)
           /\ \A n \in Int : Under(S, n) /\ Under(R, n) => Under(S \o R, n)
           /\ Alone(S) /\ Alone(R) /\ Apart(S, R) => Alone(S \o R)
           /\ \A X \in Seq(Int) : Apart(S, X) /\ Apart(R, X) => Apart(S \o R, X)
           /\ \A X \in Seq(Int) : Apart(X, S) /\ Apart(X, R) => Apart(X, S \o R)
<1> DEFINE Z == S \o R
<1>1. Z \in Seq(Int) /\ Len(Z) = Len(S) + Len(R) /\ Len(S) \in Nat /\ Len(R) \in Nat
  OBVIOUS
<1>2. \A i \in 1..Len(Z) : \/ i \in 1..Len(S) /\ Z[i] = S[i]
                           \/ i - Len(S) \in 1..Len(R) /\ Z[i] = R[i - Len(S)]
  OBVIOUS
<1>3. \A i \in 1..Len(Z) : Z[i] \in Int
  OBVIOUS
<1> HIDE DEF Z
<1>4. \A n \in Int : Under(S, n) /\ Under(R, n) => Under(Z, n)
  BY <1>2 DEF Under
<1>5. Alone(S) /\ Alone(R) /\ Apart(S, R) => Alone(Z)
  <2> SUFFICES ASSUME Alone(S), Alone(R), Apart(S, R),
                      NEW i \in 1..Len(Z), NEW j \in 1..Len(Z), Z[i] > 0, Z[i] = Z[j]
               PROVE  i = j
    BY DEF Alone
  <2>1. CASE i \in 1..Len(S) /\ Z[i] = S[i]
    <3>1. CASE j \in 1..Len(S) /\ Z[j] = S[j]
      BY <2>1, <3>1 DEF Alone
    <3>2. CASE j - Len(S) \in 1..Len(R) /\ Z[j] = R[j - Len(S)]
      BY <2>1, <3>2 DEF Apart
    <3> QED BY <1>2, <3>1, <3>2
  <2>2. CASE i - Len(S) \in 1..Len(R) /\ Z[i] = R[i - Len(S)]
    <3>1. CASE j \in 1..Len(S) /\ Z[j] = S[j]
      BY <2>2, <3>1 DEF Apart
    <3>2. CASE j - Len(S) \in 1..Len(R) /\ Z[j] = R[j - Len(S)]
      <4>1. i - Len(S) = j - Len(S)
        BY <2>2, <3>2 DEF Alone
      <4> QED BY <1>1, <4>1
    <3> QED BY <1>2, <3>1, <3>2
  <2> QED BY <1>2, <2>1, <2>2
<1>6. \A X \in Seq(Int) : Apart(S, X) /\ Apart(R, X) => Apart(Z, X)
  BY <1>2 DEF Apart
<1>7. \A X \in Seq(Int) : Apart(X, S) /\ Apart(X, R) => Apart(X, Z)
  BY <1>2 DEF Apart
<1> QED BY <1>1, <1>4, <1>5, <1>6, <1>7 DEF Z

\* a hello, an ACK or a time request, a command,
LEMMA OfNone ==
    ASSUME NEW R \in Seq(Int), \A i \in 1..Len(R) : R[i] <= 0
    PROVE  /\ Alone(R) /\ \A n \in Nat \ {0} : Under(R, n)
           /\ \A X \in Seq(Int) : Apart(X, R) /\ Apart(R, X)
<1>1. \A i \in 1..Len(R) : R[i] \in Int /\ ~(R[i] > 0)
  OBVIOUS
<1>2. Alone(R) /\ \A n \in Nat \ {0} : Under(R, n)
  BY <1>1 DEF Alone, Under
<1>3. \A X \in Seq(Int) : Apart(R, X)
  BY <1>1 DEF Apart
<1>4. \A X \in Seq(Int) : Apart(X, R)
  <2> SUFFICES ASSUME NEW X \in Seq(Int), NEW i \in 1..Len(X), NEW j \in 1..Len(R), X[i] > 0
               PROVE  X[i] # R[j]
    BY DEF Apart
  <2> QED BY <1>1
<1> QED BY <1>2, <1>3, <1>4

\* one command,
LEMMA OfOne == ASSUME NEW n \in Int PROVE Alone(<<n>>) /\ <<n>> \in Seq(Int)
<1>1. Len(<<n>>) = 1
  OBVIOUS
<1>2. \A i \in 1..1 : i = 1
  OBVIOUS
<1> QED BY <1>1, <1>2 DEF Alone

\* one that was not given out yet,
LEMMA OfNew ==
    ASSUME NEW X \in Seq(Int), NEW n \in Int, Under(X, n)
    PROVE  Under(X, n + 1) /\ Under(<<n>>, n + 1) /\ Apart(X, <<n>>) /\ Apart(<<n>>, X)
<1>1. Len(<<n>>) = 1 /\ <<n>>[1] = n
  OBVIOUS
<1>2. \A i \in 1..1 : i = 1
  OBVIOUS
<1>3. \A i \in 1..Len(X) : X[i] \in Int /\ X[i] < n
  BY DEF Under
<1>4. \A i \in 1..Len(<<n>>) : <<n>>[i] = n
  BY <1>1, <1>2
<1> QED BY <1>3, <1>4 DEF Under, Apart

\* nothing,
LEMMA OfNothing ==
    /\ Alone(<<>>) /\ \A n : Under(<<>>, n)
    /\ \A X : Apart(X, <<>>) /\ Apart(<<>>, X)
<1>1. Len(<<>>) = 0 /\ 1..0 = {}
  OBVIOUS
<1> QED BY <1>1 DEF Alone, Under, Apart

\* and being apart goes both ways.
LEMMA ApartBoth ==
    ASSUME NEW S \in Seq(Int), NEW R \in Seq(Int), Apart(S, R) PROVE Apart(R, S)
BY DEF Apart

\* the commands of the buffer.
LEMMA OfCmds ==
    ASSUME NEW B \in Seq(Numbered)
    PROVE  /\ Cmds(B) \in Seq(Int) /\ Len(Cmds(B)) = Len(B) /\ Len(B) \in Nat
           /\ \A i \in 1..Len(B) : Cmds(B)[i] = B[i].cmd /\ B[i].cmd \in Nat
           /\ \A c \in Numbered : Cmds(Append(B, c)) = Cmds(B) \o <<c.cmd>>
<1>1. Len(B) \in Nat /\ \A i \in 1..Len(B) : B[i] \in Numbered
  <2> HIDE DEF Numbered
  <2> QED OBVIOUS
<1>2. \A i \in 1..Len(B) : B[i].cmd \in Nat
  BY <1>1 DEF Numbered
<1>3. PICK k \in Nat : k = Len(B)
  BY <1>1
<1>4. Cmds(B) \in Seq(Int) /\ Len(Cmds(B)) = Len(B)
  <2>1. Cmds(B) \in [1..k -> Int]
    BY <1>2, <1>3 DEF Cmds
  <2> QED BY <1>3, <2>1
<1>5. \A i \in 1..Len(B) : Cmds(B)[i] = B[i].cmd
  BY DEF Cmds
<1>6. ASSUME NEW c \in Numbered PROVE Cmds(Append(B, c)) = Cmds(B) \o <<c.cmd>>
  <2> DEFINE A == Append(B, c)
             Z == Cmds(B) \o <<c.cmd>>
  <2>1. c.cmd \in Int
    BY DEF Numbered
  <2>2. /\ Len(A) = k + 1 /\ A[k + 1] = c /\ \A i \in 1..k : A[i] = B[i]
    <3> HIDE DEF Numbered
    <3> QED BY <1>3
  <2>3. /\ Z \in Seq(Int) /\ Len(Z) = k + 1 /\ Z[k + 1] = c.cmd
        /\ \A i \in 1..k : Z[i] = Cmds(B)[i]
    BY <1>3, <1>4, <2>1
  <2> HIDE DEF A, Z
  <2>4. Cmds(A) = [i \in 1..k + 1 |-> A[i].cmd]
    BY <2>2 DEF Cmds
  <2>5. \A i \in 1..k + 1 : Z[i] = A[i].cmd
    <3>1. \A i \in 1..k + 1 : i \in 1..k \/ i = k + 1
      BY <1>3
    <3> QED BY <1>3, <1>5, <2>2, <2>3, <3>1
  <2>6. Z = [i \in 1..k + 1 |-> Z[i]]
    BY <2>3
  <2>7. Z = Cmds(A)
    BY <2>4, <2>5, <2>6
  <2> QED BY <2>7 DEF A, Z
<1> QED BY <1>1, <1>2, <1>4, <1>5, <1>6

\* The commands given out are each in one place: after the worker passes them on,
LEMMA OnceQueued ==
    ASSUME NEW K \in Seq(Int), NEW Q \in Seq(Int), NEW B \in Seq(Numbered), NEW T \in Seq(Int),
           NEW s, NEW w, NEW n \in Nat \ {0}, NEW R \in Seq(Int), \A i \in 1..Len(R) : R[i] <= 0,
           Once(K, Q, B, T, s, w, n)
    PROVE  Once(K, Q \o R, B, T, s, w, n)
<1>1. Alone(R) /\ Under(R, n) /\ \A X \in Seq(Int) : Apart(X, R) /\ Apart(R, X)
  BY OfNone
<1>2. Cmds(B) \in Seq(Int)
  BY OfCmds
<1>3. Under(Q \o R, n) /\ Alone(Q \o R)
  BY <1>1, OfJoined DEF Once
<1>4. Apart(K, Q \o R) /\ Apart(Q \o R, Cmds(B)) /\ Apart(Q \o R, T)
  BY <1>1, <1>2, OfJoined DEF Once
<1> QED BY <1>3, <1>4 DEF Once

\* the callers' commands with it,
LEMMA OncePassed ==
    ASSUME NEW K \in Seq(Int), NEW Q \in Seq(Int), NEW B \in Seq(Numbered), NEW T \in Seq(Int),
           NEW s, NEW w, NEW n \in Nat \ {0}, Once(K, Q, B, T, s, w, n)
    PROVE  Once(<<>>, Q \o K, B, T, s, w, n)
<1>1. Cmds(B) \in Seq(Int) /\ Apart(Q, K)
  BY OfCmds, ApartBoth DEF Once
<1>2. Under(Q \o K, n) /\ Alone(Q \o K)
  BY <1>1, OfJoined DEF Once
<1>3. Apart(Q \o K, Cmds(B)) /\ Apart(Q \o K, T)
  BY <1>1, OfJoined DEF Once
<1> QED BY <1>2, <1>3, OfNothing DEF Once

\* after a new session has emptied the buffer,
LEMMA OnceCleared ==
    ASSUME NEW K, NEW Q, NEW B, NEW T, NEW s, NEW w, NEW n, NEW s2, NEW w2, Once(K, Q, B, T, s, w, n)
    PROVE  Once(K, Q, <<>>, T, s2, w2, n)
<1>1. Len(<<>>) = 0 /\ 1..0 = {}
  OBVIOUS
<1>2. Settled(<<>>, T, s2, w2)
  BY <1>1 DEF Settled
<1>3. Cmds(<<>>) = <<>>
  BY <1>1 DEF Cmds
<1> QED BY <1>2, <1>3, OfNothing DEF Once

\* after the first packet is sent,
LEMMA OnceDropped ==
    ASSUME NEW K \in Seq(Int), NEW Q \in Seq(Int), NEW B \in Seq(Numbered), NEW T \in Seq(Int),
           NEW s, NEW w, NEW n \in Nat \ {0}, Q # <<>>, Once(K, Q, B, T, s, w, n)
    PROVE  Once(K, Tail(Q), B, T, s, w, n)
<1>1. Cmds(B) \in Seq(Int)
  BY OfCmds
<1>2. /\ Under(Tail(Q), n) /\ Alone(Tail(Q)) /\ Apart(K, Tail(Q))
      /\ Apart(Tail(Q), Cmds(B)) /\ Apart(Tail(Q), T)
  <2>1. Under(Q, n) /\ Alone(Q) /\ Apart(K, Q) /\ Apart(Q, Cmds(B)) /\ Apart(Q, T)
    BY DEF Once
  <2>2. n \in Int
    OBVIOUS
  <2>3. Under(Tail(Q), n) /\ Alone(Tail(Q))
    BY <2>1, <2>2, OfTail
  <2>4. Apart(K, Tail(Q))
    BY <2>1, OfTail
  <2>5. Apart(Tail(Q), Cmds(B)) /\ Apart(Tail(Q), T)
    BY <1>1, <2>1, OfTail
  <2> QED BY <2>3, <2>4, <2>5
<1> QED BY <1>2 DEF Once

\* and has its place in the buffer,
LEMMA OncePut ==
    ASSUME NEW K \in Seq(Int), NEW Q \in Seq(Int), NEW B \in Seq(Numbered), NEW T \in Seq(Int),
           NEW s, NEW w, NEW n \in Nat \ {0}, Q # <<>>,
           NEW c \in Numbered, c.cmd = Head(Q), c.sid = s, Once(K, Q, B, T, s, w, n)
    PROVE  Once(K, Tail(Q), Append(B, c), T, s, w, n)
<1> DEFINE C == Cmds(B)
           H == <<c.cmd>>
           Z == Append(B, c)
<1>1. C \in Seq(Int) /\ Cmds(Z) = C \o H /\ c.cmd \in Int /\ H = <<Head(Q)>>
  <2>1. C \in Seq(Int) /\ Cmds(Z) = C \o H
    <3> HIDE DEF Numbered
    <3> QED BY OfCmds
  <2>2. c.cmd \in Int
    BY DEF Numbered
  <2> QED BY <2>1, <2>2
<1>0. /\ Under(Q, n) /\ Alone(Q) /\ Apart(K, Q) /\ Apart(Q, C) /\ Apart(Q, T)
      /\ Under(C, n) /\ Alone(C) /\ Apart(K, C)
  BY DEF Once
<1> HIDE DEF C
<1>2. /\ H \in Seq(Int) /\ Under(H, n) /\ Apart(H, Tail(Q)) /\ Apart(K, H) /\ Apart(H, C)
      /\ Apart(H, T) /\ Tail(Q) \in Seq(Int)
  <2>1. H \in Seq(Int) /\ Apart(H, Tail(Q)) /\ Tail(Q) \in Seq(Int)
    BY <1>0, <1>1, OfTail
  <2>2. Under(H, n)
    <3>1. n \in Int
      OBVIOUS
    <3>2. Under(<<Head(Q)>>, n)
      BY <1>0, <3>1, OfTail
    <3> QED BY <1>1, <3>2
  <2>3. Apart(K, H)
    BY <1>0, <1>1, OfTail
  <2>4. Apart(<<Head(Q)>>, C) /\ Apart(<<Head(Q)>>, T)
    <3> HIDE DEF H
    <3>1. Q \in Seq(Int) /\ Q # <<>> /\ C \in Seq(Int) /\ T \in Seq(Int)
      BY <1>1
    <3>2. \A X \in Seq(Int) : Apart(Q, X) => Apart(<<Head(Q)>>, X)
      BY <3>1, OfTail
    <3> QED BY <1>0, <3>1, <3>2
  <2> QED BY <1>1, <2>1, <2>2, <2>3, <2>4
<1>3. Alone(H) /\ Apart(C, H) /\ Apart(Tail(Q), H)
  BY <1>1, <1>2, OfOne, ApartBoth
<1>4. Once(K, Tail(Q), B, T, s, w, n)
  BY OnceDropped
<1>5. \A i \in 1..Len(Z) : (i \in 1..Len(B) /\ Z[i] = B[i]) \/ (i = Len(B) + 1 /\ Z[i] = c)
  <2> HIDE DEF Numbered
  <2> QED OBVIOUS
<1>6. Settled(Z, T, s, w)
  <2>1. \A j \in 1..Len(T) : c.cmd > 0 => c.cmd # T[j]
    <3>1. 1 \in 1..Len(H) /\ H[1] = c.cmd
      OBVIOUS
    <3> HIDE DEF H
    <3> QED BY <1>2, <3>1 DEF Apart
  <2>2. Settled(B, T, s, w)
    BY DEF Once
  <2>3. s = Hello => c.sid \notin Ids
    BY Sentinels
  <2> HIDE DEF Z
  <2> QED BY <1>5, <2>1, <2>2, <2>3 DEF Settled
<1>a. Apart(Tail(Q), C)
  BY <1>4 DEF Once, C
<1> HIDE DEF H, Z
<1>7. Under(Cmds(Z), n) /\ Alone(Cmds(Z))
  <2>1. Under(C \o H, n)
    <3>1. n \in Int
      OBVIOUS
    <3>2. \A k \in Int : Under(C, k) /\ Under(H, k) => Under(C \o H, k)
      BY <1>1, <1>2, OfJoined
    <3> QED BY <1>0, <1>2, <3>1, <3>2
  <2>2. Alone(C \o H)
    BY <1>0, <1>1, <1>2, <1>3, OfJoined
  <2> QED BY <1>1, <2>1, <2>2
<1>8. Apart(K, Cmds(Z)) /\ Apart(Tail(Q), Cmds(Z))
  <2>1. Apart(K, C \o H)
    BY <1>0, <1>1, <1>2, OfJoined
  <2>2. Apart(Tail(Q), C \o H)
    BY <1>a, <1>1, <1>2, <1>3, OfJoined
  <2> QED BY <1>1, <2>1, <2>2
<1>9. Once(K, Tail(Q), Z, T, s, w, n)
  BY <1>4, <1>6, <1>7, <1>8 DEF Once
<1> QED BY <1>9 DEF Z

\* after a caller gives one out,
LEMMA OnceGiven ==
    ASSUME NEW K \in Seq(Int), NEW Q \in Seq(Int), NEW B \in Seq(Numbered), NEW T \in Seq(Int),
           NEW s, NEW w, NEW n \in Nat \ {0}, Once(K, Q, B, T, s, w, n)
    PROVE  Once(Append(K, n), Q, B, T, s, w, n + 1)
<1>1. Cmds(B) \in Seq(Int)
  BY OfCmds
<1>2. Append(K, n) = K \o <<n>> /\ <<n>> \in Seq(Int) /\ Alone(<<n>>) /\ n + 1 \in Int
  <2>1. n \in Int /\ n + 1 \in Int /\ Append(K, n) = K \o <<n>>
    OBVIOUS
  <2> QED BY <2>1, OfOne
<1>3. /\ Under(K, n + 1) /\ Under(Q, n + 1) /\ Under(Cmds(B), n + 1) /\ Under(T, n + 1)
      /\ Under(<<n>>, n + 1) /\ Apart(K, <<n>>) /\ Apart(<<n>>, Q) /\ Apart(<<n>>, Cmds(B))
      /\ Apart(<<n>>, T)
  BY <1>1, OfNew DEF Once
<1>4. Under(K \o <<n>>, n + 1) /\ Alone(K \o <<n>>)
  BY <1>2, <1>3, OfJoined DEF Once
<1>5. Apart(K \o <<n>>, Q) /\ Apart(K \o <<n>>, Cmds(B)) /\ Apart(K \o <<n>>, T)
  BY <1>1, <1>2, <1>3, OfJoined DEF Once
<1> QED BY <1>2, <1>3, <1>4, <1>5 DEF Once

\* after the switcher takes a run of the buffer.
LEMMA OnceRun ==
    ASSUME NEW K \in Seq(Int), NEW Q \in Seq(Int), NEW B \in Seq(Numbered), NEW T \in Seq(Int),
           NEW s, NEW w \in Nat \ {0}, NEW n \in Nat \ {0}, NEW l \in Nat, w <= l, l <= Len(B),
           \A i \in w..l : B[i].sid \in Ids, NEW R \in Seq(Int),
           Len(R) = l - w + 1, \A i \in 1..Len(R) : R[i] = B[w + i - 1].cmd,
           Once(K, Q, B, T, s, w, n)
    PROVE  Once(K, Q, B, T \o R, s, l + 1, n)
<1> DEFINE C == Cmds(B)
           Z == T \o R
<1>1. /\ C \in Seq(Int) /\ Len(C) = Len(B) /\ Len(B) \in Nat
      /\ \A i \in 1..Len(B) : C[i] = B[i].cmd /\ B[i].cmd \in Nat
  BY OfCmds
<1>2. \A i \in 1..Len(R) : w + i - 1 \in w..l /\ w + i - 1 \in 1..Len(B) /\ R[i] = C[w + i - 1]
  <2>1. \A i \in 1..Len(R) : w + i - 1 \in w..l /\ w + i - 1 \in 1..Len(B)
    BY <1>1
  <2> QED BY <1>1, <2>1
<1> HIDE DEF C
<1>3. Under(R, n)
  BY <1>1, <1>2 DEF Once, Under, C
<1>4. Alone(R)
  <2> SUFFICES ASSUME NEW i \in 1..Len(R), NEW j \in 1..Len(R), R[i] > 0, R[i] = R[j] PROVE i = j
    BY DEF Alone
  <2>1. Alone(C)
    BY DEF Once, C
  <2>2. C[w + i - 1] > 0 /\ C[w + i - 1] = C[w + j - 1]
    BY <1>2
  <2>3. w + i - 1 \in 1..Len(C) /\ w + j - 1 \in 1..Len(C)
    BY <1>1, <1>2
  <2>4. w + i - 1 = w + j - 1
    BY <2>1, <2>2, <2>3 DEF Alone
  <2> QED BY <2>4
<1>5. \A X \in Seq(Int) : Apart(X, C) => Apart(X, R)
  BY <1>1, <1>2 DEF Apart
<1>6. Apart(R, T)
  <2> SUFFICES ASSUME NEW i \in 1..Len(R), NEW j \in 1..Len(T), R[i] > 0, R[i] = T[j] PROVE FALSE
    BY DEF Apart
  <2>1. w + i - 1 < w
    BY <1>1, <1>2 DEF Once, Settled
  <2> QED BY <2>1
<1>7. Under(Z, n) /\ Alone(Z) /\ Apart(K, Z) /\ Apart(Q, Z)
  <2>1. Apart(K, R) /\ Apart(Q, R) /\ Apart(T, R)
    BY <1>5, <1>6, ApartBoth DEF Once, C
  <2> QED BY <1>3, <1>4, <2>1, OfJoined DEF Once
<1>8. Settled(B, Z, s, l + 1)
  <2>1. \A j \in 1..Len(Z) : \/ \E k \in 1..Len(T) : Z[j] = T[k]
                             \/ \E k \in 1..Len(R) : Z[j] = R[k]
    <3>1. \A j \in 1..Len(Z) : \/ j \in 1..Len(T) /\ Z[j] = T[j]
                               \/ j - Len(T) \in 1..Len(R) /\ Z[j] = R[j - Len(T)]
      OBVIOUS
    <3> QED BY <3>1
  <2> HIDE DEF Z
  <2>2. Settled(B, T, s, w)
    BY DEF Once
  <2> SUFFICES ASSUME NEW i \in 1..Len(B), NEW j \in 1..Len(Z), B[i].cmd > 0, B[i].cmd = Z[j]
               PROVE  B[i].sid \in Ids /\ i < l + 1
    BY <2>2 DEF Settled
  <2>3. CASE \E k \in 1..Len(T) : Z[j] = T[k]
    <3>1. B[i].sid \in Ids /\ i < w
      BY <2>2, <2>3 DEF Settled
    <3> QED BY <1>1, <3>1
  <2>4. CASE \E k \in 1..Len(R) : Z[j] = R[k]
    <3>1. PICK k \in 1..Len(R) : Z[j] = R[k]
      BY <2>4
    <3>2. C[i] > 0 /\ C[i] = C[w + k - 1] /\ i \in 1..Len(C) /\ w + k - 1 \in 1..Len(C)
      BY <1>1, <1>2, <3>1
    <3>3. Alone(C)
      BY DEF Once, C
    <3>4. i = w + k - 1
      BY <3>2, <3>3 DEF Alone
    <3>5. w + k - 1 \in w..l
      BY <1>2
    <3>6. i < l + 1
      <4>1. \A x \in w..l : x < l + 1
        OBVIOUS
      <4> QED BY <3>4, <3>5, <4>1, Zenon
    <3> QED BY <3>4, <3>5, <3>6
  <2> QED BY <2>1, <2>3, <2>4
<1> HIDE DEF Z
<1>9. Once(K, Q, B, Z, s, l + 1, n)
  BY <1>7, <1>8 DEF Once
<1> QED BY <1>9 DEF Z

\* The next command
Due == MaxCmds - left.cmds + 1

\* The places commands can be in are sequences of numbers.
LEMMA Places ==
    ASSUME Types
    PROVE  /\ cmdq \in Seq(Int) /\ sendq \in Seq(Int) /\ t.buf \in Seq(Numbered)
           /\ sw.taken \in Seq(Int) /\ sw.want \in Nat \ {0} /\ Due \in Nat \ {0}
<1>1. cmdq \in Seq(Int) /\ sw.taken \in Seq(Int)
  BY DEF Types, IsSw
<1>2. sendq \in Seq(Int)
  <2>1. Queued \subseteq Int
    BY Sentinels DEF Queued
  <2>2. sendq \in Seq(Queued)
    BY DEF Types
  <2> HIDE DEF Queued
  <2>3. \A i \in 1..Len(sendq) : sendq[i] \in Int
    <3>1. \A i \in 1..Len(sendq) : sendq[i] \in Queued
      BY <2>2
    <3> QED BY <2>1, <3>1, Zenon
  <2>4. Len(sendq) \in Nat /\ sendq = [i \in 1..Len(sendq) |-> sendq[i]]
    BY <2>2
  <2> QED BY <2>3, <2>4
<1>3. Due \in Nat \ {0}
  <2>1. left.cmds \in 0..MaxCmds /\ MaxCmds \in Nat
    BY SessionBounds DEF Types, IsLeft
  <2> QED BY <2>1 DEF Due
<1> QED BY <1>1, <1>2, <1>3 DEF Types, IsT, IsSw

\* What the worker passes on, the session kept or not
LEMMA OnceWorker == Types /\ OnceInv /\ WorkerTakes => OnceInv'
<1> SUFFICES ASSUME Types, OnceInv, WorkerTakes PROVE OnceInv'
  OBVIOUS
<1>1. PICK m \in Given : WorkerDoes(m)
  BY WorkerStep
<1>2. PICK more \in {<<>>, <<Syn>>, <<Ack>>, <<Time>>} : Passes(more)
  BY <1>1, WorkerPasses
<1>3. /\ cmdq \in Seq(Int) /\ sendq \in Seq(Int) /\ t.buf \in Seq(Numbered)
      /\ sw.taken \in Seq(Int) /\ Due \in Nat \ {0}
  BY Places
<1>4. more \in Seq(Int) /\ \A i \in 1..Len(more) : more[i] <= 0
  <2>1. Syn \in Int /\ Ack \in Int /\ Time \in Int /\ Syn <= 0 /\ Ack <= 0 /\ Time <= 0
    BY DEF Syn, Ack, Time
  <2>2. ASSUME NEW x \in Int, x <= 0, more = <<x>>
        PROVE  more \in Seq(Int) /\ \A i \in 1..Len(more) : more[i] <= 0
    BY <2>2
  <2> HIDE DEF Syn, Ack, Time
  <2>3. CASE more = <<>>
    BY <2>3
  <2> QED BY <2>1, <2>2, <2>3
<1>5. Once(cmdq, sendq \o more, t.buf, sw.taken, t.sid, sw.want, Due)
  BY <1>3, <1>4, OnceQueued DEF OnceInv, Due
<1>6. sendq \o more \in Seq(Int)
  BY <1>3, <1>4
<1>7. Once(cmdq', sendq', t.buf, sw.taken, t.sid, sw.want, Due)
  <2>1. Once(<<>>, (sendq \o more) \o cmdq, t.buf, sw.taken, t.sid, sw.want, Due)
    BY <1>3, <1>5, <1>6, OncePassed
  <2> QED BY <1>2, <1>5, <2>1 DEF Passes
<1>8. sw'.taken = sw.taken /\ sw'.want = sw.want /\ Due' = Due
  BY <1>1 DEF WorkerDoes, Due
<1>9. \/ SameSession /\ (t'.state = "syn_sent" => t.state = "syn_sent")
      \/ NewSession
  BY <1>1 DEF WorkerDoes, Loses, Passing, Readies, Waits, Welcomes, StartsOver, Merges
<1>10. CASE SameSession /\ (t'.state = "syn_sent" => t.state = "syn_sent")
  BY <1>7, <1>8, <1>10 DEF SameSession, OnceInv, Unnumbered, Due
<1>11. CASE NewSession
  <2>1. Once(cmdq', sendq', <<>>, sw.taken, Hello, sw.want, Due)
    BY <1>7, OnceCleared
  <2>2. Unnumbered'
    BY <1>11, Sentinels DEF NewSession, Unnumbered
  <2> QED BY <1>8, <1>11, <2>1, <2>2 DEF NewSession, OnceInv, Due
<1> QED BY <1>9, <1>10, <1>11

\* what the UDP thread sends,
LEMMA OnceSend == Types /\ OnceInv /\ SendQueued => OnceInv'
<1> SUFFICES ASSUME Types, OnceInv, SendQueued PROVE OnceInv'
  OBVIOUS
<1>1. /\ cmdq \in Seq(Int) /\ sendq \in Seq(Int) /\ t.buf \in Seq(Numbered)
      /\ sw.taken \in Seq(Int) /\ sw.want \in Nat \ {0} /\ Due \in Nat \ {0}
  BY Places
<1>2. /\ sendq # <<>> /\ sendq' = Tail(sendq) /\ cmdq' = cmdq /\ left'.cmds = left.cmds
      /\ t'.state = t.state /\ (Hails \/ Finishes \/ Commands)
  BY SendDoes
<1>3. Once(cmdq, sendq, t.buf, sw.taken, t.sid, sw.want, Due) /\ Unnumbered /\ Due' = Due
  BY <1>2 DEF OnceInv, Due
<1>4. Once(cmdq', sendq', t.buf, sw.taken, t.sid, sw.want, Due)
  BY <1>1, <1>2, <1>3, OnceDropped
<1>5. CASE Hails
  BY <1>2, <1>3, <1>4, <1>5 DEF Hails, OnceInv, Unnumbered, Due
<1>6. CASE Finishes
  <2>1. NoId # Hello /\ NoId \notin Ids
    BY Sentinels
  <2>2. Settled(t.buf, sw.taken, NoId, sw'.want)
    <3>1. Settled(t.buf, sw.taken, t.sid, sw.want)
      BY <1>4 DEF Once
    <3>2. CASE t.sid = Hello
      BY <2>1, <3>1, <3>2 DEF Settled
    <3>3. CASE t.sid # Hello
      BY <1>6, <2>1, <3>1, <3>3 DEF Settled, Finishes
    <3> QED BY <3>2, <3>3
  <2>3. Once(cmdq', sendq', t.buf, sw.taken, NoId, sw'.want, Due)
    BY <1>4, <2>2 DEF Once
  <2>4. Unnumbered'
    BY <1>2, <1>3, <1>6, <2>1 DEF Finishes, Unnumbered
  <2> QED BY <1>3, <1>6, <2>3, <2>4 DEF Finishes, OnceInv, Due
<1>7. CASE Commands
  <2>1. PICK c \in Numbered :
            /\ c.cmd = Head(sendq) /\ c.sid = t.sid /\ t'.sid = t.sid
            /\ t'.buf = Append(t.buf, c)
            /\ \/ sw'.taken = sw.taken /\ sw'.want = sw.want
               \/ /\ c.sid \in Ids /\ Len(t.buf) + 1 = sw.want /\ sw'.want = sw.want + 1
                  /\ sw'.taken = Append(sw.taken, c.cmd)
    BY <1>7 DEF Commands
  <2>2. Once(cmdq', sendq', t'.buf, sw.taken, t'.sid, sw.want, Due)
    BY <1>1, <1>2, <1>3, <2>1, OncePut
  <2>3. /\ t'.buf \in Seq(Numbered) /\ Len(t'.buf) = Len(t.buf) + 1 /\ t'.buf[Len(t.buf) + 1] = c
        /\ Len(t.buf) \in Nat /\ \A i \in 1..Len(t.buf) : t'.buf[i] = t.buf[i]
    <3> HIDE DEF Numbered
    <3> QED BY <1>1, <2>1
  <2>4. Unnumbered'
    <3>1. \A i \in 1..Len(t'.buf) : i \in 1..Len(t.buf) \/ i = Len(t.buf) + 1
      BY <2>3
    <3> QED BY <1>2, <1>3, <2>1, <2>3, <3>1 DEF Unnumbered
  <2>5. CASE sw'.taken = sw.taken /\ sw'.want = sw.want
    BY <1>3, <2>2, <2>4, <2>5 DEF OnceInv, Due
  <2>6. CASE /\ c.sid \in Ids /\ Len(t.buf) + 1 = sw.want /\ sw'.want = sw.want + 1
             /\ sw'.taken = Append(sw.taken, c.cmd)
    <3>1. c.cmd \in Int
      BY DEF Numbered
    <3>2. /\ <<c.cmd>> \in Seq(Int) /\ Len(<<c.cmd>>) = 1 /\ <<c.cmd>>[1] = c.cmd
          /\ sw'.taken = sw.taken \o <<c.cmd>>
      <4>1. PICK k \in Int : k = c.cmd
        BY <3>1
      <4>2. <<k>> \in Seq(Int) /\ Len(<<k>>) = 1 /\ <<k>>[1] = k
        OBVIOUS
      <4>3. Append(sw.taken, k) = sw.taken \o <<k>>
        <5>1. \A T \in Seq(Int) : Append(T, k) = T \o <<k>>
          OBVIOUS
        <5> QED BY <1>1, <5>1, Zenon
      <4> QED BY <2>6, <4>1, <4>2, <4>3
    <3>3. \A i \in sw.want..sw.want : t'.buf[i].sid \in Ids
      BY <1>1, <2>3, <2>6
    <3>4. \A i \in 1..Len(<<c.cmd>>) : <<c.cmd>>[i] = t'.buf[sw.want + i - 1].cmd
      <4>1. \A i \in 1..1 : sw.want + i - 1 = Len(t.buf) + 1 /\ i = 1
        BY <1>1, <2>6
      <4> QED BY <2>3, <3>2, <4>1
    <3>5. /\ cmdq' \in Seq(Int) /\ sendq' \in Seq(Int) /\ sw.want \in Nat /\ sw.want <= Len(t'.buf)
          /\ sw.want <= sw.want /\ Len(<<c.cmd>>) = sw.want - sw.want + 1
      <4>1. sendq' \in Seq(Int)
        BY <1>1, <1>2
      <4>2. sw.want <= Len(t'.buf) /\ sw.want <= sw.want
        BY <1>1, <2>3, <2>6
      <4>3. Len(<<c.cmd>>) = sw.want - sw.want + 1
        BY <1>1, <3>2
      <4> QED BY <1>1, <1>2, <4>1, <4>2, <4>3
    <3>6. Once(cmdq', sendq', t'.buf, sw.taken \o <<c.cmd>>, t'.sid, sw.want + 1, Due)
      <4> HIDE DEF Numbered
      <4> QED BY <1>1, <2>2, <2>3, <3>2, <3>3, <3>4, <3>5, OnceRun
    <3> QED BY <1>3, <2>4, <2>6, <3>2, <3>6 DEF OnceInv, Due
  <2> QED BY <2>1, <2>5, <2>6
<1> QED BY <1>2, <1>5, <1>6, <1>7

\* and what it resends.
LEMMA OnceResend == Types /\ OnceInv /\ Resend => OnceInv'
<1> SUFFICES ASSUME Types, OnceInv, Resend PROVE OnceInv'
  OBVIOUS
<1>1. /\ cmdq \in Seq(Int) /\ sendq \in Seq(Int) /\ t.buf \in Seq(Numbered)
      /\ sw.taken \in Seq(Int) /\ sw.want \in Nat \ {0} /\ Due \in Nat \ {0}
  BY Places
<1>2. PICK last \in Nat :
          /\ t' = t /\ sendq' = sendq /\ cmdq' = cmdq /\ left' = left
          /\ sw.want <= last /\ last <= Len(t.buf) /\ sw'.want = last + 1
          /\ \A n \in sw.want..last : t.buf[n].sid \in Ids
          /\ sw'.taken = sw.taken \o [i \in 1..last - sw.want + 1 |-> t.buf[sw.want + i - 1].cmd]
          /\ [i \in 1..last - sw.want + 1 |-> t.buf[sw.want + i - 1].cmd] \in Seq(Nat)
  BY ResendDoes
<1>3. PICK run : /\ run = [i \in 1..last - sw.want + 1 |-> t.buf[sw.want + i - 1].cmd]
                 /\ sw'.taken = sw.taken \o run /\ run \in Seq(Nat)
  BY <1>2
<1>4. run \in Seq(Int)
  BY <1>3
<1>5. Len(run) = last - sw.want + 1 /\ \A i \in 1..Len(run) : run[i] = t.buf[sw.want + i - 1].cmd
  <2>1. PICK k : k = last - sw.want + 1 /\ k \in Nat
    BY <1>1, <1>2
  <2>2. run = [i \in 1..k |-> t.buf[sw.want + i - 1].cmd]
    BY <1>3, <2>1
  <2>3. Len(run) = k
    BY <1>4, <2>1, <2>2
  <2> QED BY <2>1, <2>2, <2>3
<1>6. Once(cmdq, sendq, t.buf, sw.taken, t.sid, sw.want, Due)
  BY DEF OnceInv, Due
<1>7. Once(cmdq, sendq, t.buf, sw.taken \o run, t.sid, last + 1, Due)
  <2> HIDE DEF Numbered
  <2> QED BY <1>1, <1>2, <1>4, <1>5, <1>6, OnceRun
<1> QED BY <1>2, <1>3, <1>7 DEF OnceInv, Unnumbered, Due

\* Every step of Next leaves every command in one place, a datagram that names the
\* session included.
LEMMA OnceStep == ~Lags /\ Types /\ Handover /\ OnceInv /\ [Next]_sVars => OnceInv'
<1> SUFFICES ASSUME ~Lags, Types, Handover, OnceInv, [Next]_sVars PROVE OnceInv'
  OBVIOUS
<1>0. /\ cmdq \in Seq(Int) /\ sendq \in Seq(Int) /\ t.buf \in Seq(Numbered)
      /\ sw.taken \in Seq(Int) /\ sw.want \in Nat \ {0} /\ Due \in Nat \ {0}
      /\ Once(cmdq, sendq, t.buf, sw.taken, t.sid, sw.want, Due) /\ Unnumbered
  BY Places DEF OnceInv, Due
<1>1. CASE Silence
  <2>1. /\ NewSession /\ sendq' = sendq /\ cmdq' = cmdq /\ sw'.taken = sw.taken
        /\ sw'.want = sw.want /\ Due' = Due
    BY <1>1, SilenceDoes DEF Due
  <2>2. Once(cmdq, sendq, <<>>, sw.taken, Hello, sw.want, Due)
    BY <1>0, OnceCleared
  <2>3. Unnumbered'
    BY <2>1, Sentinels DEF NewSession, Unnumbered
  <2> QED BY <2>1, <2>2, <2>3 DEF NewSession, OnceInv, Due
<1>2. CASE ReceiveDatagram
  <2>1. PICK m \in Arrivals :
            /\ down # <<>> /\ m = Head(down) /\ sendq' = sendq /\ cmdq' = cmdq /\ sw' = sw
            /\ left' = left
            /\ \/ t' = t
               \/ /\ m.kind = "pkt" => t.state = "established"
                  /\ t'.state = t.state /\ t'.buf = t.buf
                  /\ t'.sid = t.sid \/ (t.sid = NoId /\ t'.sid = m.sid)
    BY <1>2, ReceiveDoes
  <2>2. CASE t' = t
    BY <1>0, <2>1, <2>2 DEF OnceInv, Unnumbered, Due
  <2>3. CASE /\ m.kind = "pkt" => t.state = "established"
             /\ t'.state = t.state /\ t'.buf = t.buf
             /\ t'.sid = t.sid \/ (t.sid = NoId /\ t'.sid = m.sid)
    <3>1. CASE t'.sid = t.sid
      BY <1>0, <2>1, <2>3, <3>1 DEF OnceInv, Unnumbered, Due
    <3>2. CASE t'.sid # t.sid
      <4>1. t.sid = NoId /\ t'.sid = m.sid
        BY <2>3, <3>2
      <4>2. (m.kind = "pkt" /\ m.sid \in Ids) \/ (m.kind = "reply" /\ m.sid = Hello)
        BY DEF Arrivals, Packets, Replies
      <4>3. t.state = "established" => m.kind # "reply"
        <5>1. down \in Seq(Arrivals) /\ down # <<>> /\ m = Head(down)
          BY <2>1 DEF Types
        <5>2. 1 \in 1..Len(down) /\ m = down[1]
          <6> HIDE DEF Arrivals
          <6> QED BY <5>1, OneLess
        <5> QED BY <5>2 DEF Handover, Silent, NoAnswer
      <4>4. m.sid = Hello => \A i \in 1..Len(t.buf) : t.buf[i].sid \notin Ids
        BY <1>0, <2>3, <4>2, <4>3, Sentinels DEF Unnumbered, Types, IsT
      <4>5. Settled(t.buf, sw.taken, m.sid, sw.want)
        BY <1>0, <4>4 DEF Once, Settled
      <4>6. Once(cmdq, sendq, t.buf, sw.taken, m.sid, sw.want, Due)
        BY <1>0, <4>5 DEF Once
      <4>7. Unnumbered'
        BY <1>0, <2>3, <4>1, <4>2, <4>3, Sentinels DEF Unnumbered
      <4> QED BY <2>1, <2>3, <4>1, <4>6, <4>7 DEF OnceInv, Due
    <3> QED BY <3>1, <3>2
  <2> QED BY <2>1, <2>2, <2>3
<1>3. CASE SendQueued
  BY <1>3, OnceSend
<1>4. CASE Resend
  BY <1>4, OnceResend
<1>5. CASE WorkerTakes
  BY <1>5, OnceWorker
<1>6. CASE GivesUp
  BY <1>0, <1>6 DEF GivesUp, OnceInv, Unnumbered, Due
<1>7. CASE Send
  <2>1. cmdq' = Append(cmdq, Due) /\ t' = t /\ sendq' = sendq /\ sw' = sw
    BY <1>7 DEF Send, Due
  <2>2. Due' = Due + 1
    <3>1. left'.cmds = left.cmds - 1 /\ left.cmds \in Int /\ MaxCmds \in Int
      BY <1>7, SessionBounds DEF Send, Types, IsLeft
    <3> QED BY <3>1 DEF Due
  <2>3. Once(Append(cmdq, Due), sendq, t.buf, sw.taken, t.sid, sw.want, Due + 1)
    BY <1>0, OnceGiven
  <2> QED BY <1>0, <2>1, <2>2, <2>3 DEF OnceInv, Unnumbered, Due
<1>8. CASE Switcher
  <2>1. /\ t' = t /\ sendq' = sendq /\ cmdq' = cmdq /\ sw'.taken = sw.taken
        /\ sw'.want = sw.want /\ left'.cmds = left.cmds
    BY <1>8, SwitcherDoes
  <2> QED BY <1>0, <2>1 DEF OnceInv, Unnumbered, Due
<1>9. CASE UNCHANGED sVars
  BY <1>0, <1>9 DEF sVars, OnceInv, Unnumbered, Due
<1> QED BY <1>1, <1>2, <1>3, <1>4, <1>5, <1>6, <1>7, <1>8, <1>9 DEF Next, UdpThread

\* At the start no command was given out.
LEMMA OnceInit == Init => OnceInv
<1> SUFFICES ASSUME Init PROVE OnceInv
  OBVIOUS
<1>1. /\ cmdq = <<>> /\ sendq = <<Syn>> /\ t.buf = <<>> /\ sw.taken = <<>> /\ t.sid = Hello
      /\ left.cmds = MaxCmds
  BY DEF Init
<1>2. Due \in Nat \ {0}
  BY <1>1, SessionBounds DEF Due
<1>3. <<Syn>> \in Seq(Int) /\ \A i \in 1..Len(<<Syn>>) : <<Syn>>[i] <= 0
  BY DEF Syn
<1>4. Alone(<<Syn>>) /\ Under(<<Syn>>, Due)
  BY <1>2, <1>3, OfNone
<1>5. Len(<<>>) = 0 /\ 1..0 = {} /\ Cmds(<<>>) = <<>>
  <2>1. Len(<<>>) = 0 /\ 1..0 = {}
    OBVIOUS
  <2> QED BY <2>1 DEF Cmds
<1>6. Unnumbered
  BY <1>1, <1>5, Sentinels DEF Unnumbered
<1>7. Settled(<<>>, <<>>, Hello, sw.want)
  BY <1>5 DEF Settled
<1>8. Once(cmdq, sendq, t.buf, sw.taken, t.sid, sw.want, Due)
  BY <1>1, <1>4, <1>5, <1>7, OfNothing DEF Once
<1> QED BY <1>6, <1>8 DEF OnceInv, Due

\* While the worker keeps up with the silence window, no command is carried out twice:
\* neither the resend timer nor a re-handshake sends one again that the switcher took.
THEOREM NoneTwice == ~Lags => (Spec => []TakenOnce)
<1> SUFFICES ASSUME ~Lags PROVE Spec => []TakenOnce
  OBVIOUS
<1> DEFINE I == HandoverInv /\ OnceInv
<1>1. Init => I
  BY TypesInit, HandoverInit, OnceInit DEF HandoverInv
<1>2. I /\ [Next]_sVars => I'
  BY TypesStep, HandoverStep, OnceStep DEF HandoverInv
<1>3. I => TakenOnce
  <2> SUFFICES ASSUME I PROVE TakenOnce
    OBVIOUS
  <2>1. sw.taken \in Seq(Nat) /\ Alone(sw.taken)
    BY DEF HandoverInv, Types, IsSw, OnceInv, Once
  <2>2. DOMAIN sw.taken = 1..Len(sw.taken) /\ \A i \in 1..Len(sw.taken) : sw.taken[i] \in Nat
    BY <2>1
  <2>3. ASSUME NEW i \in 1..Len(sw.taken), NEW j \in 1..Len(sw.taken), sw.taken[i] # Time, i < j
        PROVE  sw.taken[i] # sw.taken[j]
    <3>1. sw.taken[i] > 0
      BY <2>2, <2>3 DEF Time
    <3> QED BY <2>1, <2>3, <3>1 DEF Alone
  <2> QED BY <2>2, <2>3 DEF TakenOnce
<1> HIDE DEF I
<1> QED BY <1>1, <1>2, <1>3, PTL DEF Spec
=============================================================================
