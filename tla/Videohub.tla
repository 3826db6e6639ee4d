------------------------------ MODULE Videohub ------------------------------
(***************************************************************************)
(* videohubwire's client (videohubwire/client.py): one synchronous caller, *)
(* one TCP connection.  The hub dumps its tables on connect, pushes every  *)
(* change of them, and answers a command with a bare ACK or NAK.  Changes  *)
(* are announced in the order they were made and commands are answered in  *)
(* the order they came, but nothing orders an answer against the pushes:   *)
(* our own push, and older and newer ones of others, may come before it or *)
(* after it.  A reply names no command: the client takes the next one for  *)
(* its own.                                                                *)
(*                                                                         *)
(* Routes and labels are entries of tables that are set in the same way    *)
(* (route, _set_label): an entry is a key of Keys.  Every change of an     *)
(* entry, ours or another panel's, has a number of its own in place of its *)
(* value.                                                                  *)
(***************************************************************************)
EXTENDS Integers, Sequences, FiniteSets

CONSTANTS
    Keys,          \* entries of the hub's tables
    MaxChanges,    \* bound: changes asked for by anyone
    MaxSessions,   \* bound: connects
    MaxTimeouts    \* bound: commands given up on

ASSUME VideohubAssumption ==
    IsFiniteSet(Keys) /\ MaxChanges \in Nat /\ MaxSessions \in Nat /\ MaxTimeouts \in Nat

VARIABLES
    \* the hub (external)
    log,         \* key -> the changes made to it, oldest first; 0 is what it began with
    link,        \* the TCP connection, seen from the hub: up or down
    commands,    \* commands on their way to the hub
    toHubClient, \* pushed blocks on their way to the client, what is in _buf included
    answers,     \* ACKs and NAKs on the same way: what comes first is either head
    \* Videohub
    pc,         \* off (_sock is None), preamble, idle, await, ping, drain
    view,       \* routing and labels: key -> the change it shows, or Unset
    device,     \* whether self.device has entries
    pending,    \* the command that waits for its answer
    \* bookkeeping
    changes, sessions, timeouts,
    gaveUp,     \* whether a command was given up on since the last connect
    overtaken   \* keys whose entry was newer than the change an ACK put there, till the next push

hub       == <<log, link, commands>>
onTheWire == <<toHubClient, answers>>
entries   == <<view, device, overtaken>>
hubClient == <<pc, entries, pending, gaveUp>>
counts    == <<changes, sessions, timeouts>>
hubVars   == <<hub, onTheWire, hubClient, counts>>

Unset  == -1
Now(k) == log[k][Len(log[k])]
Shown(k) == {log[k][i] : i \in 1..Len(log[k])}

\* The hub had c before it had d.
Older(k, c, d) == \E i, j \in 1..Len(log[k]) : i < j /\ log[k][i] = c /\ log[k][j] = d


DeviceBlock     == [type |-> "device"]
EndPrelude      == [type |-> "end"]
EntryBlock(k, c) == [type |-> "entry", key |-> k, change |-> c]
\* What is on the wire is the type alone; the change says whose answer it is.
Ack(c) == [type |-> "ack", change |-> c]
Nak(c) == [type |-> "nak", change |-> c]

Changing(k, c) == [key |-> k, change |-> c]
PingBlock == [key |-> "ping", change |-> 0]

\* The orders in which the tables can be dumped.
Orders == {s \in [1..Cardinality(Keys) -> Keys] : \A k \in Keys : \E i \in DOMAIN s : s[i] = k}

---------------------------------------------------------------------------
(* External: the hub and the other panels *)

\* A command is carried out: announced after the changes before it, and acknowledged.
HubAccepts ==
    /\ commands # <<>> /\ Head(commands) # PingBlock /\ link = "up"
    /\ LET c == Head(commands)
       IN  /\ log' = [log EXCEPT ![c.key] = Append(@, c.change)]
           /\ toHubClient' = Append(toHubClient, EntryBlock(c.key, c.change))
           /\ answers' = Append(answers, Ack(c.change))
    /\ commands' = Tail(commands)
    /\ UNCHANGED <<link, hubClient, counts>>

\* A locked destination.
HubRefuses ==
    /\ commands # <<>> /\ Head(commands) # PingBlock /\ link = "up"
    /\ answers' = Append(answers, Nak(Head(commands).change))
    /\ commands' = Tail(commands)
    /\ UNCHANGED <<log, link, toHubClient, hubClient, counts>>

HubAnswersPing ==
    /\ commands # <<>> /\ Head(commands) = PingBlock /\ link = "up"
    /\ answers' = Append(answers, Ack(0))
    /\ commands' = Tail(commands)
    /\ UNCHANGED <<log, link, toHubClient, hubClient, counts>>

OtherPanelSets(k) ==
    /\ changes < MaxChanges
    /\ changes' = changes + 1
    /\ log' = [log EXCEPT ![k] = Append(@, changes + 1)]
    /\ toHubClient' = IF link = "up" THEN Append(toHubClient, EntryBlock(k, changes + 1)) ELSE toHubClient
    /\ UNCHANGED <<link, commands, answers, hubClient, sessions, timeouts>>

HubCloses ==
    /\ link = "up"
    /\ link' = "down" /\ commands' = <<>>
    /\ UNCHANGED <<log, onTheWire, hubClient, counts>>

---------------------------------------------------------------------------
(* connect(), close() *)

\* The hub takes the connection and dumps its tables; newer firmware marks the end.
Connect ==
    /\ pc \in {"off", "idle"} /\ sessions < MaxSessions
    /\ sessions' = sessions + 1
    /\ \E order \in Orders, end \in {<<>>, <<EndPrelude>>} :
          toHubClient' = <<DeviceBlock>> \o [i \in DOMAIN order |-> EntryBlock(order[i], Now(order[i]))] \o end
    /\ answers' = <<>>
    /\ link' = "up" /\ commands' = <<>>
    /\ pc' = "preamble" /\ gaveUp' = FALSE
    /\ UNCHANGED <<log, entries, pending, changes, timeouts>>

HangUp ==
    /\ pc' = "off" /\ link' = "down"
    /\ commands' = <<>> /\ toHubClient' = <<>> /\ answers' = <<>>

\* Both attempts failed; the old socket is closed all the same.
ConnectFails ==
    /\ pc = "idle" /\ sessions < MaxSessions
    /\ sessions' = sessions + 1
    /\ HangUp
    /\ UNCHANGED <<gaveUp, log, entries, pending, changes, timeouts>>

Close ==
    /\ pc = "idle"
    /\ HangUp
    /\ UNCHANGED <<gaveUp, log, entries, pending, counts>>

\* _apply_block: an entry is shown.
Apply(block) ==
    /\ view' = IF block.type = "entry" THEN [view EXCEPT ![block.key] = block.change] ELSE view
    /\ overtaken' = IF block.type = "entry" THEN overtaken \ {block.key} ELSE overtaken
    /\ device' = (device \/ block.type = "device")

\* The next block is a push, and is applied.
TakesPush ==
    /\ toHubClient # <<>>
    /\ Apply(Head(toHubClient))
    /\ toHubClient' = Tail(toHubClient)
    /\ UNCHANGED <<gaveUp, hub, answers, pending, counts>>

\* The next block is an answer of one of the types; the tables stay.
TakesAnswer(types) ==
    /\ answers # <<>> /\ Head(answers).type \in types
    /\ answers' = Tail(answers)
    /\ UNCHANGED <<gaveUp, hub, toHubClient, pending, counts>>

HasEssentials == device /\ \E k \in Keys : view[k] # Unset

\* _read_preamble, one block.
ReadPreamble ==
    /\ pc = "preamble" /\ TakesPush
    /\ pc' = IF Head(toHubClient) = EndPrelude THEN "idle" ELSE "preamble"

\* The wire was quiet for PREAMBLE_QUIET_S.
PreambleQuiet ==
    /\ pc = "preamble" /\ HasEssentials
    /\ pc' = "idle"
    /\ UNCHANGED <<gaveUp, hub, onTheWire, entries, pending, counts>>

\* No preamble in time, or the hub hung up: the socket is closed, connect() raises.
PreambleFails ==
    /\ pc = "preamble"
    /\ ~HasEssentials \/ (link = "down" /\ toHubClient = <<>>)
    /\ HangUp
    /\ UNCHANGED <<gaveUp, log, entries, pending, counts>>

---------------------------------------------------------------------------
(* route(), set_input_label(), set_output_label() *)

\* Mutant: the entry is shown before the hub answered.
SendOptimistically(k) ==
    /\ pc = "idle" /\ changes < MaxChanges
    /\ changes' = changes + 1
    /\ pending' = Changing(k, changes + 1)
    /\ commands' = IF link = "up" THEN Append(commands, pending') ELSE commands
    /\ view' = [view EXCEPT ![k] = changes + 1]
    /\ pc' = "await"
    /\ UNCHANGED <<gaveUp, log, link, onTheWire, device, overtaken, sessions, timeouts>>

\* In range: the command goes out.
Send(k) ==
    /\ pc = "idle" /\ changes < MaxChanges
    /\ changes' = changes + 1
    /\ pending' = Changing(k, changes + 1)
    /\ commands' = IF link = "up" THEN Append(commands, pending') ELSE commands
    /\ pc' = "await"
    /\ UNCHANGED <<gaveUp, log, link, onTheWire, entries, sessions, timeouts>>

\* Mutant: a block that is not the answer is dropped.
PushDropped ==
    /\ pc = "await" /\ toHubClient # <<>>
    /\ toHubClient' = Tail(toHubClient)
    /\ UNCHANGED <<gaveUp, hub, answers, pc, entries, pending, counts>>

\* A push before the answer is applied.
PushWhileWaiting == pc = "await" /\ TakesPush /\ UNCHANGED pc

\* ACK: the entry is shown without waiting for the push, whatever was pushed meanwhile.
Acknowledged ==
    /\ pc = "await" /\ TakesAnswer({"ack"})
    /\ view' = [view EXCEPT ![pending.key] = pending.change]
    /\ overtaken' = IF Older(pending.key, pending.change, view[pending.key])
                    THEN overtaken \cup {pending.key} ELSE overtaken
    /\ pc' = "idle"
    /\ UNCHANGED device

\* NAK: the call raises.
Refused == pc = "await" /\ TakesAnswer({"nak"}) /\ pc' = "idle" /\ UNCHANGED entries

\* read_timeout: the call raises, and the connection stays open.
TimedOut ==
    /\ pc \in {"await", "ping"} /\ timeouts < MaxTimeouts
    /\ timeouts' = timeouts + 1 /\ gaveUp' = TRUE
    /\ pc' = "idle"
    /\ UNCHANGED <<hub, onTheWire, entries, pending, changes, sessions>>

\* The hub hung up: the call raises.
ClosedByHub ==
    /\ pc \in {"await", "ping", "drain"} /\ link = "down" /\ toHubClient = <<>> /\ answers = <<>>
    /\ pc' = "idle"
    /\ UNCHANGED <<gaveUp, hub, onTheWire, entries, pending, counts>>

---------------------------------------------------------------------------
(* ping(): whatever comes before the next ACK is applied, a NAK included *)

Ping ==
    /\ pc = "idle" /\ pc' = "ping"
    /\ commands' = IF link = "up" THEN Append(commands, PingBlock) ELSE commands
    /\ UNCHANGED <<log, link, onTheWire, entries, pending, gaveUp, counts>>

PushWhilePinging ==
    pc = "ping" /\ (TakesPush \/ (TakesAnswer({"nak"}) /\ UNCHANGED entries)) /\ UNCHANGED pc

PingAnswered == pc = "ping" /\ TakesAnswer({"ack"}) /\ pc' = "idle" /\ UNCHANGED entries

---------------------------------------------------------------------------
(* state(): what is there is applied until the wire is quiet *)

StateCall ==
    /\ pc = "idle" /\ pc' = "drain"
    /\ UNCHANGED <<gaveUp, hub, onTheWire, entries, pending, counts>>

\* Mutant: the newest push is applied first.
DrainNewestFirst ==
    /\ pc = "drain" /\ toHubClient # <<>>
    /\ Apply(toHubClient[Len(toHubClient)])
    /\ toHubClient' = SubSeq(toHubClient, 1, Len(toHubClient) - 1)
    /\ UNCHANGED <<gaveUp, hub, answers, pc, pending, counts>>

\* _drain, one block; an answer nobody waits for is ignored.
DrainBlock ==
    pc = "drain" /\ (TakesPush \/ (TakesAnswer({"ack", "nak"}) /\ UNCHANGED entries)) /\ UNCHANGED pc

DrainQuiet ==
    /\ pc = "drain" /\ pc' = "idle"
    /\ UNCHANGED <<gaveUp, hub, onTheWire, entries, pending, counts>>

---------------------------------------------------------------------------
HubInit ==
    /\ log = [k \in Keys |-> <<0>>] /\ link = "down" /\ commands = <<>> /\ toHubClient = <<>> /\ answers = <<>>
    /\ pc = "off" /\ view = [k \in Keys |-> Unset] /\ device = FALSE /\ gaveUp = FALSE /\ overtaken = {}
    /\ pending \in [key : Keys, change : {0}]
    /\ changes = 0 /\ sessions = 0 /\ timeouts = 0

HubNext ==
    \/ HubAccepts \/ HubRefuses \/ HubAnswersPing \/ HubCloses
    \/ \E k \in Keys : OtherPanelSets(k) \/ Send(k)
    \/ Connect \/ ConnectFails \/ Close
    \/ ReadPreamble \/ PreambleQuiet \/ PreambleFails
    \/ PushWhileWaiting \/ Acknowledged \/ Refused \/ TimedOut \/ ClosedByHub
    \/ Ping \/ PushWhilePinging \/ PingAnswered
    \/ StateCall \/ DrainBlock \/ DrainQuiet

HubSpec == HubInit /\ [][HubNext]_hubVars

---------------------------------------------------------------------------
(* Properties *)

\* As long as no command was given up on, what state() shows is what the hub had at some
\* time: the optimistic entry of route() and the label setters is never one it did not take.
ShowsWhatTheHubHad ==
    timeouts = 0 => \A k \in Keys : view[k] # Unset => view[k] \in Shown(k)

\* ... and it goes back to an older entry in two cases only: an ACK puts our own change over a
\* newer one of another panel that was pushed before it, or an ACK that came early is followed
\* by older pushes, and then the push of what was shown still comes.  Pushes are never applied
\* out of their order.
NeverShowsOlder ==
    [][timeouts = 0 =>
          \A k \in Keys : Older(k, view'[k], view[k]) =>
              Acknowledged \/ \E i \in DOMAIN toHubClient' : toHubClient'[i] = EntryBlock(k, view[k])]_hubVars

\* Once nothing is on its way, state() shows the hub, but for an entry an ACK put back to our
\* own, older change; the next push of that entry puts it right.  A command that was given up
\* on may leave a wrong entry too, and the next connect puts it right.
CatchesUp ==
    ~gaveUp /\ pc = "idle" /\ link = "up" /\ toHubClient = <<>> /\ answers = <<>> /\ commands = <<>>
        => \A k \in Keys : view[k] = Now(k) \/ k \in overtaken

\* route() says that a state() right after it is correct.  It is not where another panel's
\* change was pushed between our own push and the ACK: no entry would be overtaken.
NothingOvertaken == overtaken = {}

\* "Raises VideohubError on NAK (typically a locked destination) or response timeout": a call
\* that returns was carried out by the hub.
ReturnsOnlyIfTaken == [][Acknowledged => pending.change \in Shown(pending.key)]_hubVars
=============================================================================
