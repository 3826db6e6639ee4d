----------------------------- MODULE AtemSession -----------------------------
(***************************************************************************)
(* One client's sessions with one switcher: the handshake, the silence     *)
(* clock, the state dump, the commands sent and what the callers are told. *)
(*                                                                         *)
(* Two threads of the program take steps.  The UDP thread reads the        *)
(* socket, sends what thread_queue holds, and re-handshakes after five     *)
(* seconds of silence; the worker takes items from thread_recv_queue       *)
(* (UdpProtocol.receive_packet, AtemProtocol.loop) and then sends the      *)
(* commands callers queued.  Callers append to the command queue at any    *)
(* time the connection is up, the gap of a re-handshake included.          *)
(*                                                                         *)
(* Within a session the receive path delivers in order and once            *)
(* (OrderedDelivery, which AtemReceive implements), so the datagrams of a  *)
(* session are a FIFO here; what it cannot promise is WHICH session they   *)
(* belong to, and that is what this module is about.  A datagram the       *)
(* client sends reaches the switcher at once or never.                     *)
(***************************************************************************)
EXTENDS Integers, Sequences, FiniteSets

CONSTANTS MaxSessions,    \* session ids the switcher hands out
          MaxQuiet,       \* times the switcher falls silent (cable, reboot)
          MaxLost,        \* datagrams of the client's that are lost
          MaxRefused,     \* hellos answered "full", there is no room
          MaxNoMode,      \* dumps whose first packet, the video mode's, is lost
          MaxStragglers,  \* packets resent in sessions that were replaced
          MaxCmds,        \* commands callers send
          Retries,        \* INCOMPLETE_DUMP_RETRIES
          MaxWaiting,     \* datagrams in flight, and items the worker has yet to take
          Lags            \* may the worker be more than a silence window behind?

ASSUME SessionBounds ==
    /\ {MaxSessions, MaxWaiting} \subseteq Nat \ {0}
    /\ {MaxQuiet, MaxLost, MaxRefused, MaxNoMode, MaxStragglers, MaxCmds, Retries} \subseteq Nat
    /\ Lags \in BOOLEAN

Ids   == 1 .. MaxSessions
Hello == 0                \* 0x1337, the id of a session not yet made
NoId  == -1               \* None, between the handshake's ACK and the next packet

\* What thread_queue holds: a hello, a handshake's ACK, the time request of
\* every new connection, and the commands, which are 1, 2, ...
Syn  == -2
Ack  == -1
Time == 0

Item(k, s, b, a) == [kind |-> k, sid |-> s, body |-> b, ack |-> a]
Reply(code)  == Item("reply", Hello, code, 0)
Lost         == Item("none", NoId, "", 0)      \* None: the session is gone
Wake         == Item("wake", NoId, "", 0)      \* Wakeup
Empty        == Item("empty", NoId, "", 0)     \* nothing is stashed

VARIABLES
    t,       \* UdpProtocol: state, ids, numbering, resend buffer, flags
    recvq,   \* thread_recv_queue, UDP thread to worker
    sendq,   \* thread_queue, worker to UDP thread
    p,       \* AtemProtocol and ATEMConnection: what was dumped and announced
    cmdq,    \* the commands callers queued
    down,    \* datagrams on their way to the client
    sw,      \* the switcher
    left     \* what may still go wrong

sVars == <<t, recvq, sendq, p, cmdq, down, sw, left>>

-----------------------------------------------------------------------------
(* The switcher. *)

\* A datagram of ours does not arrive.
Misses == \/ sw.quiet /\ UNCHANGED left
          \/ left.lost > 0 /\ left' = [left EXCEPT !.lost = @ - 1]

\* A hello, to a switcher w: answered with room, without, or not at all.
HearsSyn(w) ==
    \/ Misses /\ sw' = w /\ UNCHANGED down
    \/ /\ ~w.quiet /\ left.refused > 0
       /\ left' = [left EXCEPT !.refused = @ - 1]
       /\ down' = Append(down, Reply("full"))
       /\ sw' = w
    \/ /\ ~w.quiet /\ w.newest < MaxSessions
       /\ sw' = [w EXCEPT !.newest = @ + 1]
       /\ down' = Append(down, Reply("welcome"))
       /\ UNCHANGED left

\* The third packet of a handshake: the dump starts, under the new id.
HearsAck(id) ==
    \/ Misses /\ UNCHANGED <<sw, down>>
    \/ /\ ~sw.quiet
       /\ sw' = IF id = Hello /\ sw.newest \in Ids \ sw.open
                THEN [sw EXCEPT !.open = @ \cup {sw.newest}, !.next = "mode",
                                !.want = 1]
                ELSE sw
       /\ UNCHANGED <<down, left>>

\* A command: taken if it is of the open session and next in number.
Takes(w, n, c) ==
    IF c.sid \in w.open /\ c.sid = w.newest /\ n = w.want
    THEN [w EXCEPT !.want = @ + 1, !.taken = Append(@, c.cmd)] ELSE w

HearsCmd(n, c) ==
    \/ Misses /\ UNCHANGED <<sw, down>>
    \/ ~sw.quiet /\ sw' = Takes(sw, n, c) /\ UNCHANGED <<down, left>>

\* The newest session's next packet: the dump's video mode and end, then pings.
SwitcherSend ==
    /\ ~sw.quiet /\ sw.newest \in sw.open /\ Len(down) < MaxWaiting
    /\ sw' = [sw EXCEPT !.next = IF @ = "mode" THEN "incm" ELSE "ping"]
    /\ \/ /\ down' = Append(down, Item("pkt", sw.newest, sw.next, sw.want - 1))
          /\ UNCHANGED left
       \/ /\ sw.next = "mode" /\ left.nomode > 0      \* bmdwire#13
          /\ left' = [left EXCEPT !.nomode = @ - 1]
          /\ UNCHANGED down
    /\ UNCHANGED <<t, recvq, sendq, p, cmdq>>

\* It resends a packet of a session whose packets nobody acknowledges any more.
SwitcherStraggles(s) ==
    /\ ~sw.quiet /\ s \in sw.open /\ t.sid # s
    /\ left.stragglers > 0 /\ Len(down) < MaxWaiting
    /\ down' = Append(down, Item("pkt", s, "data", 0))
    /\ left' = [left EXCEPT !.stragglers = @ - 1]
    /\ UNCHANGED <<t, recvq, sendq, p, cmdq, sw>>

\* Until it gives that session up.
SwitcherReaps(s) ==
    /\ s \in sw.open /\ t.sid # s /\ t.sid # NoId
    /\ sw' = [sw EXCEPT !.open = @ \ {s}]
    /\ UNCHANGED <<t, recvq, sendq, p, cmdq, down, left>>

GoesQuiet ==
    /\ ~sw.quiet /\ left.quiet > 0
    /\ sw' = [sw EXCEPT !.quiet = TRUE]
    /\ left' = [left EXCEPT !.quiet = @ - 1]
    /\ UNCHANGED <<t, recvq, sendq, p, cmdq, down>>

\* Back, after a cable (the sessions are still there) or a reboot (they are not).
ComesBack ==
    /\ sw.quiet
    /\ \E kept \in {sw.open, {}} : sw' = [sw EXCEPT !.quiet = FALSE, !.open = kept]
    /\ UNCHANGED <<t, recvq, sendq, p, cmdq, down, left>>

-----------------------------------------------------------------------------
(* The transport: connect(), and the UDP thread's steps. *)

\* Mutant: the buffer of the old session is kept.
BufferKept(u) ==
    [u EXCEPT !.state = "syn_sent", !.num = 0, !.acked = NoId,
              !.prev = IF u.sid \in Ids THEN u.sid ELSE NoId, !.sid = Hello,
              !.had = FALSE, !.refused = FALSE, !.stash = Empty]

\* connect(): everything of the session it replaces is reset, but not
\* mark_next_connected.
Reconnected(u) ==
    [u EXCEPT !.state = "syn_sent", !.num = 0, !.acked = NoId, !.buf = <<>>,
              !.prev = IF u.sid \in Ids THEN u.sid ELSE NoId, !.sid = Hello,
              !.had = FALSE, !.refused = FALSE, !.stash = Empty]

\* Does the switcher send anything this client would accept?
Heard == /\ ~sw.quiet /\ sw.newest \in sw.open
         /\ t.state = "established" /\ sw.newest # t.prev

\* Five seconds without an accepted datagram: the UDP thread re-handshakes.  A
\* session the client has not acknowledged for that long is reaped meanwhile.
Silence ==
    /\ ~p.gone /\ down = <<>> /\ ~Heard
    /\ sendq = <<>> \/ Lags
    /\ Lags \/ (recvq = <<>> /\ t.stash = Empty)
    /\ Len(recvq) < MaxWaiting
    /\ t' = Reconnected(t)
    /\ recvq' = Append(recvq, Lost)
    /\ HearsSyn([sw EXCEPT !.open = @ \cap {t.sid}])
    /\ UNCHANGED <<sendq, p, cmdq>>

\* Mutant: the session replaced is not told from the new one (bmdwire#12).
OldSessionTaken(m) == t.state = "syn_sent" /\ m.kind # "reply"

\* A datagram is read: dropped if it is of the session replaced, or anything
\* but the hello's answer while that is awaited; else it names the session if
\* none is named yet, and goes to the worker.
Dropped(m) == \/ t.prev # NoId /\ m.sid = t.prev
              \/ t.state = "syn_sent" /\ m.kind # "reply"

ReceiveDatagram ==
    /\ ~p.gone /\ down # <<>> /\ Len(recvq) < MaxWaiting
    /\ down' = Tail(down)
    /\ LET m == Head(down) IN
       IF Dropped(m) THEN UNCHANGED <<t, recvq>>
       ELSE /\ t' = [t EXCEPT !.sid = IF @ = NoId THEN m.sid ELSE @,
                              !.acked = IF m.kind = "pkt" THEN m.ack ELSE @]
            /\ recvq' = Append(recvq, m)
    /\ UNCHANGED <<sendq, p, cmdq, sw, left>>

\* thread_queue's next packet goes out under the session id of this moment; a
\* command gets its number and its place in the buffer, whatever the state.
SendSyn == Head(sendq) = Syn /\ HearsSyn(sw) /\ UNCHANGED t

SendHandshakeAck ==
    /\ Head(sendq) = Ack
    /\ IF t.sid = NoId THEN UNCHANGED <<t, sw, down, left>>   \* it cannot be packed
       ELSE HearsAck(t.sid) /\ t' = [t EXCEPT !.sid = NoId]

SendCommand ==
    /\ Head(sendq) \notin {Syn, Ack}
    /\ IF t.sid = NoId THEN UNCHANGED <<t, sw, down, left>>   \* it cannot be packed
       ELSE LET c == [cmd |-> Head(sendq), sid |-> t.sid] IN
            /\ t' = [t EXCEPT !.num = @ + 1, !.buf = Append(@, c)]
            /\ HearsCmd(t.num + 1, c)

SendQueued ==
    /\ ~p.gone /\ sendq # <<>> /\ sendq' = Tail(sendq) /\ Len(down) < MaxWaiting
    /\ SendSyn \/ SendHandshakeAck \/ SendCommand
    /\ UNCHANGED <<recvq, p, cmdq>>

\* Mutant: a resend takes the next number, as a new packet does.
ResendNumbered ==
    /\ t.state = "established" /\ t.acked # NoId /\ t.acked < t.num /\ t.sid \in Ids
    /\ LET c == [cmd |-> t.buf[t.acked + 1].cmd, sid |-> t.sid] IN
       /\ t.num < MaxCmds + 4
       /\ t' = [t EXCEPT !.num = @ + 1, !.buf = Append(@, c)]
       /\ HearsCmd(t.num + 1, c)
    /\ UNCHANGED <<recvq, sendq, p, cmdq>>

\* What the switcher has not acknowledged goes again, as it went the first time,
\* in a volley that may be cut short; it takes what is next in number, as far as
\* that is of the open session.
Resend ==
    /\ ~p.gone /\ t.state = "established" /\ t.acked # NoId
    /\ t.acked < sw.want /\ ~sw.quiet
    /\ \E last \in sw.want .. t.num :
          /\ \A n \in sw.want .. last :
                t.buf[n].sid \in sw.open /\ t.buf[n].sid = sw.newest
          /\ sw' = [sw EXCEPT !.want = last + 1,
                       !.taken = @ \o [i \in 1 .. last - sw.want + 1 |->
                                          t.buf[sw.want + i - 1].cmd]]
    /\ UNCHANGED <<t, recvq, sendq, p, cmdq, down, left>>

-----------------------------------------------------------------------------
(* The worker: one item through receive_packet, loop and the drain; u is the *)
(* transport with the item put aside taken, when the item is that one.       *)

\* What AtemProtocol forgets with the session it lost.
Forgotten(q) == [q EXCEPT !.connected = FALSE, !.initialized = FALSE,
                          !.state = {}, !.ready = FALSE]

HasMode(q) == \E f \in q.state : f[2] = "mode"

\* wait_ready returns, and the connection is up from then on.
Up(q) == [q EXCEPT !.up = @ \/ ((q.told \/ q.initialized) /\ HasMode(q))]

\* loop() has returned: the commands waiting go to the UDP thread.
Drained(q, more) ==
    /\ p' = Up(q)
    /\ IF p.up THEN sendq' = sendq \o more \o cmdq /\ cmdq' = <<>>
       ELSE sendq' = sendq \o more /\ UNCHANGED cmdq

\* None: nothing came for the length of the window.  While a hello is out and
\* packets came before it, the worker says hello a second time.
OnLost(u) ==
    LET again == u.had /\ u.state = "syn_sent" /\ ~u.refused IN
    /\ t' = IF again THEN Reconnected(u) ELSE u
    /\ Drained(IF p.connected THEN Forgotten(p) ELSE p,
               IF again THEN <<Syn>> ELSE <<>>)
    /\ UNCHANGED <<sw, left>>

OnWake(u) == t' = u /\ Drained(p, <<>>) /\ UNCHANGED <<sw, left>>

\* The first item after the dump's end: it is put aside, the connection is
\* announced, and the time is asked for.
OnReady(m, u) ==
    /\ t' = [u EXCEPT !.mark = FALSE, !.stash = m]
    /\ Drained([p EXCEPT !.connected = TRUE, !.initialized = TRUE, !.told = TRUE,
                         !.ready = TRUE], <<Time>>)
    /\ UNCHANGED <<sw, left>>

\* An item while the hello is out: its answer, or a packet that came before.
OnHandshake(m, u) ==
    /\ UNCHANGED <<sw, left>>
    /\ IF m.kind # "reply" THEN /\ t' = [u EXCEPT !.had = TRUE]
                                /\ UNCHANGED <<p, sendq, cmdq>>
       ELSE IF m.body = "full"
       THEN t' = [u EXCEPT !.had = TRUE, !.refused = TRUE] /\ Drained(p, <<>>)
       ELSE /\ t' = [u EXCEPT !.had = TRUE, !.state = "established"]
            /\ sendq' = Append(sendq, Ack)
            /\ UNCHANGED <<p, cmdq>>

\* Mutant: the session is closed for the callers, and stays open to the switcher.
ClosedInNameOnly(u) ==
    /\ t' = u /\ Drained([Forgotten(p) EXCEPT !.incomplete = @ + 1], <<>>)
    /\ UNCHANGED <<sw, left>>

\* The end of a dump without a video mode: goodbye, which may be lost, and a new
\* session.
OnIncomplete(u) ==
    /\ t' = Reconnected(u)
    /\ Drained([Forgotten(p) EXCEPT !.incomplete = @ + 1], <<Syn>>)
    /\ \/ Misses /\ sw' = sw
       \/ ~sw.quiet /\ sw' = [sw EXCEPT !.open = @ \ {u.sid}] /\ UNCHANGED left

\* A packet with fields (an answer to a hello that is over with has none that
\* mean anything): they are merged, and the dump's end is marked.
OnFields(m, u) ==
    IF m.body = "incm" /\ ~HasMode(p) /\ p.incomplete < Retries THEN OnIncomplete(u)
    ELSE LET end == m.body = "incm" IN
         /\ t' = [u EXCEPT !.mark = @ \/ end]
         /\ Drained([p EXCEPT !.connected = TRUE,
                              !.incomplete = IF end THEN 0 ELSE @,
                              !.state = IF m.kind = "pkt" THEN @ \cup {<<m.sid, m.body>>}
                                        ELSE @], <<>>)
         /\ UNCHANGED <<sw, left>>

\* receive_packet's cases, in its order.
OnItem(m, u) ==
    \/ m = Lost /\ OnLost(u)
    \/ m = Wake /\ OnWake(u)
    \/ m \notin {Lost, Wake} /\ u.mark /\ OnReady(m, u)
    \/ m \notin {Lost, Wake} /\ ~u.mark /\ u.state = "syn_sent" /\ OnHandshake(m, u)
    \/ /\ m \notin {Lost, Wake} /\ ~u.mark /\ u.state = "established"
       /\ IF m.body = "ping" THEN t' = u /\ UNCHANGED <<p, sendq, cmdq, sw, left>>
          ELSE OnFields(m, u)

WorkerTakes ==
    /\ ~p.gone /\ ~(t.refused /\ ~p.up)
    /\ \/ /\ t.stash # Empty
          /\ OnItem(t.stash, [t EXCEPT !.stash = Empty]) /\ UNCHANGED recvq
       \/ /\ t.stash = Empty /\ recvq # <<>>
          /\ OnItem(Head(recvq), t) /\ recvq' = Tail(recvq)
    /\ UNCHANGED down

\* wait_ready gives up: no room, or nothing from the switcher for too long.
GivesUp ==
    /\ ~p.gone /\ ~p.up
    /\ t.refused \/ (down = <<>> /\ recvq = <<>> /\ ~Heard /\ sw.quiet)
    /\ p' = [p EXCEPT !.gone = TRUE]
    /\ UNCHANGED <<t, recvq, sendq, cmdq, down, sw, left>>

\* A caller's command: allowed whenever the worker is there.
Send ==
    /\ p.up /\ ~p.gone /\ left.cmds > 0
    /\ cmdq' = Append(cmdq, MaxCmds - left.cmds + 1)
    /\ recvq' = Append(recvq, Wake)
    /\ left' = [left EXCEPT !.cmds = @ - 1]
    /\ UNCHANGED <<t, sendq, p, down, sw>>

-----------------------------------------------------------------------------

Init ==
    /\ t = [state |-> "syn_sent", sid |-> Hello, prev |-> NoId, num |-> 0,
            acked |-> NoId, buf |-> <<>>, had |-> FALSE, refused |-> FALSE,
            mark |-> FALSE, stash |-> Empty]
    /\ recvq = <<>> /\ sendq = <<Syn>> /\ cmdq = <<>> /\ down = <<>>
    /\ p = [connected |-> FALSE, initialized |-> FALSE, told |-> FALSE, state |-> {},
            incomplete |-> 0, ready |-> FALSE, up |-> FALSE, gone |-> FALSE]
    /\ sw = [quiet |-> FALSE, newest |-> 0, open |-> {}, next |-> "mode", want |-> 1,
             taken |-> <<>>]
    /\ left = [quiet |-> MaxQuiet, lost |-> MaxLost, refused |-> MaxRefused,
               nomode |-> MaxNoMode, stragglers |-> MaxStragglers, cmds |-> MaxCmds]

UdpThread == Silence \/ ReceiveDatagram \/ SendQueued
Switcher  == \/ SwitcherSend \/ GoesQuiet \/ ComesBack
             \/ \E s \in Ids : SwitcherStraggles(s) \/ SwitcherReaps(s)

Next == UdpThread \/ Resend \/ WorkerTakes \/ GivesUp \/ Send \/ Switcher

Spec == Init /\ [][Next]_sVars

\* The threads run, the clock goes on, and a switcher that is there sends.
Fairness ==
    /\ WF_sVars(Silence) /\ WF_sVars(ReceiveDatagram) /\ WF_sVars(SendQueued)
    /\ WF_sVars(Resend) /\ WF_sVars(WorkerTakes) /\ WF_sVars(GivesUp)
    /\ WF_sVars(SwitcherSend) /\ WF_sVars(ComesBack)
    /\ \A s \in Ids : WF_sVars(SwitcherReaps(s))

FairSpec == Spec /\ Fairness

-----------------------------------------------------------------------------
(* Properties. *)

\* Types, and that the resend buffer holds exactly what was numbered in this
\* session: connect() restarts the numbers and empties it in one go.
TypeOK ==
    /\ t.state \in {"syn_sent", "established"} /\ t.sid \in Ids \cup {Hello, NoId}
    /\ t.prev \in Ids \cup {NoId} /\ Len(t.buf) = t.num
    /\ p.state \subseteq (Ids \X {"mode", "incm", "data"})

\* Of a session that was replaced nothing is left in mixerstate once the next
\* one is established, and no packet of it lands after that (bmdwire#12); and
\* while a hello is out the state is empty, or the worker has yet to hear that
\* the session is lost: however the silence, the incomplete dumps, the worker's
\* queue and the switcher's resends interleave.
ReplacedIsGone ==
    IF t.state = "established" THEN \A f \in p.state : f[1] # t.prev
    ELSE p.state = {} \/ Lost \in {recvq[i] : i \in DOMAIN recvq}

\* No command is carried out twice: neither the resend timer nor a re-handshake
\* sends one again that the switcher has taken.
TakenOnce ==
    \A i, j \in DOMAIN sw.taken :
        sw.taken[i] # Time /\ i < j => sw.taken[i] # sw.taken[j]

\* Whatever was lost, refused, resent or left out of a dump, the connection is
\* announced ready again, unless its first connect was given up: no order of
\* re-handshakes by the two threads leaves it where nobody says hello any more.
ReadyAgain == []<>(p.ready \/ p.gone)

\* The filter's comment in transport.py (bmdwire#12) means the state to be of one
\* session.  It remembers one session only: when two dumps in a row are incomplete
\* and the first one's goodbye is lost, packets of the session before last land
\* beside those of the newest.
OneSessionsState == \A f, g \in p.state : f[1] = g[1]

\* connect() of transport.py says of the resend buffer: "Buffered packets carry
\* the OLD session id - never serve them for a retransmit request in the new
\* session."
ResendsOwnSession ==
    t.state = "established" /\ t.sid \in Ids => \A n \in 1 .. t.num : t.buf[n].sid = t.sid

\* is_ready of connection.py promises to be "False for [the] whole length" of a
\* re-handshake, until "the new state dump is complete".
ReadyIsDumped ==
    p.ready /\ p.up => \E s \in Ids : <<s, "incm">> \in p.state
=============================================================================
