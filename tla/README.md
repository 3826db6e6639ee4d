# bmdwire in TLA+

TLA+ models of the concurrent and stateful parts of bmdwire, the TLC runs that
check them on small instances, and the theorems TLAPS proves about them for every
instance. Every definition is translated from the code at the lines that
`PROJECT.json` ("map") names; the switcher, the hub and the network are modelled from
how the code uses them and marked external.

Contents: [the system](#the-system) · [the modules](#the-modules) ·
[the runs](#the-runs) · [the proofs](#the-proofs) · [findings](#findings) ·
[what is not modelled](#what-is-not-modelled) · [the plan](#the-plan)

    tlc -workers 2 -config Pool.cfg MCPool.tla     # a run: module and cfg are in PROJECT.json
    tlapm PoolProofs.tla                           # a proof

## The system

bmdwire is four independent Python packages, one for each device.

| Component | State | Operations | Works with | What makes it correct |
|---|---|---|---|---|
| **UDP transport, receive path** (`atemwire/transport.py`) | seen window of sequence numbers, cumulative ACK, delivery cursor, parked packets, ACKs owed | one datagram at a time on the UDP thread; ACK flush per burst | switcher's packets in, `thread_recv_queue` out | packets handed on once, in order, without a hole; an ACK covers only what was handed on; loss is repaired |
| **UDP transport, session and send path** (`transport.py`, `_socketqueue.py`) | handshake state, silence clock, resend buffer, our own sequence numbers, paced queue | handshake, re-handshake, send, retransmit on request or by timer, goodbye | UDP thread and worker share both queues | a session is announced ready only after its own dump; a lost command is resent or the session ends |
| **ATEM connection** (`connection.py`, `ready.py`) | worker thread, `_handshake_done`, session-ready event, `_lifecycle_lock`, command queue | connect, disconnect, send, exclusive access, blocking transfers | pool above, protocol below, `on_died` callback | one worker; a failed connect leaves nothing behind; a dead worker is reported once |
| **ATEM connection pool** (`pool.py`) | registry of reference-counted entries, grace timers, `_instance_lock` | get, release, acquire, grace teardown, eviction, death of a worker | callers' threads, timer threads, worker threads | a session lives while somebody holds it, and is closed soon after nobody does; the locks never form a circle |
| **ATEM protocol, packets and state dump** (`protocol.py`) | `mixerstate`, callbacks, incomplete-dump count | decode a packet, dispatch fields, raise events | transport below, connection above | a bad field costs only itself; a dump without a video mode is asked for again |
| **ATEM protocol, transfer lane** (`protocol.py`, `_transfer.py`) | queues per store, locks, lock requests, other clients' holds, yields, transfer in flight, retry and drain clocks | download, upload, clear, abort, dequeue; the lock and file-transfer fields from the switcher; timed wake-ups | callers' threads, worker thread, switcher, the other clients of the media store | one transfer at a time, each completed only by its own answer; the lock is given back; everything queued moves |
| **ATEM messages** (`messages/`) | none | a layout language (fields, masks); commands, status fields, setters and readers on top of it | protocol, callers | a control shows what was asked of it, and nothing else moves |
| **ATEM facade, full state** (`atem.py`, `state.py`, `helpers.py`) | none of their own | convenience calls; a snapshot of `mixerstate` | protocol | the snapshot covers every field |
| **ATEM macros** (`macrotransfer/`) | none | encode and decode bytecode, upload, download | transfer lane | decode inverts encode; an upload's caller hears of its own end |
| **ATEM profiles** (`profile/`) | the profile being built or applied | save what the readers show; apply section by section, command by command | connection, macros, stills | what is selected lands, the rest is left alone, the buses are cut last; a save after an apply is the same profile |
| **ATEM imaging, probe** (`imaging.py`, `probe.py`) | none | RLE codec, one-shot probe | transfer lane | decode inverts encode |
| **Videohub client** (`videohubwire/client.py`) | socket, line buffer, snapshot of the hub's tables | connect, close, route, label, ping, state | the hub, other panels | the snapshot shows the hub; a call returns only if the hub did it |
| **HyperDeck client** (`hyperdeckwire/client.py`) | socket, buffer, bounded notification queue | connect, request, notifications | the deck | each answer goes to its own request |
| **HyperDeck upload, setup** (`upload.py`, `setup.py`) | FTP session; one HTTP request per step | upload a clip, cancel it; change settings, re-address the unit | the deck | what is said of the partial file is true; a setting that was read back is held |
| **Ultimatte client** (`ultimattewire/`) | none between calls | archive, restore, set_network | the unit | a restore gives the unit what was archived, and its live settings last |

What is hard about it: three kinds of threads (callers, workers, timers) meet in the
pool; two in the transport and in the lane; packets are lost, duplicated, delayed and
renumbered at a wrap; the media store is shared with clients that announce themselves
late or not at all; answers carry no request's name (Videohub, HyperDeck, FTCD);
sessions die and are replaced under their users. `PROJECT.json` ("hazards") names the
lines, and the properties that would notice.

## The modules

    OrderedDelivery  <--refines--  AtemReceive   <-- MCAtemReceive, AtemReceiveProofs
    Connection       <--extends--  Pool          <-- MCPool, PoolProofs
    OrderedDelivery  <--refines--  AtemSend      <-- MCAtemTransport, AtemSendProofs
    AtemSession                                  <-- MCAtemTransport, AtemSessionProofs
    TransferLane                                 <-- TransferLaneProofs
    Layouts <-- KeyerControls <-- TransitionControls <-- MixerControls <-- RoutingControls <-- Controls
    AtemReceive, Videohub, Hyperdeck, HyperdeckUpload, NetworkSetup, Ultimatte,
    Controls, Profile                            <-- MCParts
    Videohub                                     <-- VideohubProofs
    Hyperdeck, HyperdeckUpload, NetworkSetup     <-- HyperdeckProofs
    Ultimatte, Profile                           <-- RestoreProofs

`MCAtemTransport` and `MCParts` put modules that share no state into one run: a variable
`part` says from the first state on which of them moves, the others stay as they began.
A property of a part that does not move holds of its initial state, so nothing is
weakened, and every part is explored on its whole instance.

### AtemReceive and OrderedDelivery

What one established session does with the switcher's packets. `Receive` is one
datagram through `_receive_packet_low`: the number enters the seen window (`Remember`),
the ACK number walks over what is remembered (`WalkAck`), and the packet is handed on
with all that was parked behind it (`DeliverRun`), parked (`Park`), dropped, or — too
far ahead — makes the gate start over (`Resync`). The first packet to arrive sets the baseline; one sent before it
that comes later is dropped as a duplicate (`BeforeBaseline`), so the consumer's stream begins there.
A resend of something remembered changes nothing and is acknowledged again (`ReAck`).
`FlushAck` ends a burst. Packets carry their identity (`no`) beside their number; the
client's decisions read the number only. The network loses, duplicates, reorders and
delays, up to `MaxAge` newer packets; the switcher resends what is not acknowledged and
keeps at most `SendWindow` packets unacknowledged.

`OrderedDelivery` is what a consumer may rely on: packets are sent, handed on in runs
without a hole, and forgotten by the sender once handed on. `ImplementsOrderedDelivery`
is the refinement; `sent`, `delivered` and `acked` map to themselves. `AtemSend` refines it too,
with the roles swapped: `delivered` is what the switcher took, and `acked` stays 0, since
what the switcher's ACKs say is not a promise of the client's.

### Connection and Pool

`Connection` is the lifecycle of each `ATEMConnection`: the worker's states (assigned
but not started counts, since `is_alive()` is false then), the lifecycle lock held by a
caller inside `connect()`, and the `on_died` callbacks on their way. `Pool` adds the
registry for one address. The registry entry and the connection have the same lifetime,
so a connection's number also stands for its entry dict. `_instance_lock` is held over
several steps only where the code holds it over a `disconnect()`: in an eviction and in
a grace teardown, of this address or (`OtherAddress...`) of another. Every other use of it
is one step. A join of a worker that is itself waiting for `_instance_lock` returns only
by its timeout: `JoinReturns`. A caller goes through `acquire_connection`: get, check,
connect, await, use, release; it may come back for more, and a fired timer's callback
may find another entry than the one that armed it.

### TransferLane

The transfer part of `AtemProtocol`. The lane is a record, each handler an operator from
the lane before to the lane after; what it sends is gathered in `out`, the wake-ups it
asks for in `wants`, and `Did` lets both out when the handler ends. `Trigger` is
`_transfer_trigger` whole (drain and retry gates, choice of the task, the lock request
with its courtesy and repeat rules, clear or transfer), and is called inside the
handlers where the code calls it. The FTDC handler is two steps, `TakesSlice` and
`Completes`: it reads the queue and then stores its tail, and the callers' threads run
in between. Callers: blocking downloads (one at a time), `clear_still`, and
`upload_macro_bytecode`; each may give up, at any time, in its own way. Clocks
are abstract: a running clock may become due at any time, and a wake-up may be early.
`wake` is the transport's one due time, which keeps the earliest.

External: the switcher grants the store's lock, queues a partial lock request and
ignores a full one while another client holds it, announces lock changes once a frame
(`FrameTick`) and often not at all when it hands over, refuses a transfer without the
lock (5), when the engine is busy (1), when another client waits (6), or for good (2).
The other client takes turns with the store and completes transfers of its own.

### AtemSession

The sessions of one client with one switcher, where `AtemReceive` is what happens inside
one. `t` is `UdpProtocol` (session ids, numbers, resend buffer, flags), `p` the worker's
`AtemProtocol` and `ATEMConnection`, between them `recvq` (UDP thread to worker) and
`sendq` (worker to UDP thread). The UDP thread reads a datagram (`ReceiveDatagram`, with
the filter for stragglers of the session before), sends what is queued (`SendQueued`),
resends (`Resend`) and re-handshakes after a silence (`Silence`). The worker takes one item
(`WorkerTakes`: `OnLost`, `OnHandshake`, `OnFields`, `OnIncomplete`, ...) and drains the
callers' commands; `Reconnected` is `UdpProtocol.connect()`, which both threads call.
`GivesUp` is the first connect that ends without a session. External: the switcher hands out session ids, may
refuse, dumps its state (the first packet may be lost, and so may the goodbye that
`OnIncomplete` sends before it asks for the dump again), takes commands,
resends in sessions it does not know are dead (`SwitcherStraggles`) and reaps them
(`SwitcherReaps`); it may fall silent and come back. Datagrams of one session are a FIFO, which is
what `AtemReceive` implements. `Lags` lets the worker be more than a silence window
behind; the runs have it off, as five seconds of backlog need a worker that is stuck.

### AtemSend

What one session keeps of the packets it sends and what it sends again, on the
switcher's request or by the timer: the twin of `AtemReceive` with the roles swapped. `Kept` is
the resend buffer, a window deep; `Volley` what one request may set off, `ResendFrom` stops
where the socket refuses. The switcher takes packets in order, asks for what it misses and
acknowledges what it has.

### Videohub

One synchronous caller and the hub. The hub announces changes in the order they were made and answers commands in
the order they came, but nothing orders an answer against the pushes: `toHubClient` and `answers` are two
queues of one wire, and the client may meet the head of either next. So another panel's push may come between
our own push and our ACK, and pushes older than our change after the ACK. Changes have numbers of their own in place of values, `log` is what the
hub had of an entry in order, and a stale entry is told from a new one. `Acknowledged` writes the entry as `route()` and
`_set_label` do, whatever was pushed before; `overtaken` remembers the entries where that put an older change over a newer one, until
the next push of them. `TimedOut` leaves the connection open, as the code does: the late answer stays on the wire.

### Hyperdeck, HyperdeckUpload, NetworkSetup

`Hyperdeck` is the client's one caller over one TCP connection. A response comes in two
pieces, so a read or the drain before a command (`Dropped`, with the one timeout that waits
for a half response) can end between them. The deck answers late, garbled or twice, sends
notifications at any time and hangs up. `got` records the last answer with the command it was given to, and
whether it had come before the command went out.

`HyperdeckUpload` is `upload_clip`: login, directory, `STOR`, chunks, and after a
cancellation the stopped transfer's reply, `DELE` and the listing that decides `partial_removed`. The deck
may end the transfer late, refuse, or lose the control connection at any step.

`NetworkSetup` is `set_network` of the HyperDeck and of the Ultimatte, the
settings with a read-back (`set_name`, `set_language`, `set_network_access`), and `reboot`.
The unit may hold other values than were written (`Write`), and runs what it had before until `UnitReapplies`, two steps
with no address in between; during them it answers, saying that it has no address, or does not (`Answers`). The read-back ends with
`PollGood` at its first good answer, under DHCP too, and with `GivesUp` only when the interface is done. Netmask, gateway and DNS
servers go the same way and are one field. `EndIsTold` says what a call that returned or warned promises, in three
parts: `DeckIsTold`, `UltimatteIsTold`, `AlarmIsTrue`.

### Ultimatte

The archive resource by resource (`ReadFileList`, `ReadResource`) and the restore push by
push (`Push`), each on a connection of its own that may end early. An acknowledgement is `AckLen` zero
bytes; `AckOk` accepts any prefix of them but the empty one, as the code does.

### Layouts and the controls

`Layouts` is the layout language of `messages/_dsl.py`: fields with place, width and sign,
big-endian bytes, a `Send` whose mask names what was given, a `Recv` that decodes every
field; and the scale primitives of `state.py`, as integers in ten-thousandths. On it stand
four modules of tables, `KeyerControls`, `TransitionControls`, `MixerControls` and `RoutingControls`: for
38 groups of controls the commands, the status field, what the setters scale and
clamp, what the readers show, what a profile saves and which fields `apply()` sends in one
packet. Each table is read from the code where that table is written.

`Controls` runs a group: a caller asks for a value, the command goes out as bytes, the
switcher (external) merges what the mask names and reports, the client decodes and shows;
then `Profile.from_atem` saves what is shown and `apply()` gives it to a second switcher that has other
values. The values tried are both ends of what a setter lets through, one past the end, a
negative one, and some with every decimal in use. `ShownAsAsked` and `TwinSavesTheSame` hold only when all tables
multiply to one. Cut short: an i32 goes no further than `Far` (100000), an IP address included; DVE
sizes stay in 0..2000, the range the reader's own setter clamps to;
a fader that is silent and one at its lowest value are the same; the sampled chroma colour
goes through reals and is cut, so it may be one step low (`Cut`) and is left out of `TwinSavesTheSame`.

### Profile

`Profile.apply` and the connection under it. apply() takes the sections in the code's order and behind their gates
(`StartSection`, `LeaveSection`), each a sequence of commands. A setter only queues its command (`SendNext`, which raises without a
worker and in no other case); the worker sends it later (`Arrives`), or it is lost without a word (`Loses`): to a session being replaced,
in the queue of a dead worker, or in a packet that cannot be sent. The macros alone are uploaded while apply() waits (`UploadMacro`). What a setter raises is
noted (`Raises`, the `_safe` of the code); a number that `int()` does not take ends apply() (`Aborts`). `conn` goes from
"known" through "silent" (nothing arrives and nobody knows), "gap" (the state emptied) and "dump" back, or ends "dead". `lost` is bookkeeping: the
code has no such set, which is why an apply without errors need not have set everything (`NothingLostInSilence`
fails). M/Es are counted anew at every section (`MeBlocks`), keyframes are set through the live geometry and snapshot
(`FlyKeyframe`), a cursor samples anew. Values are "before", "saved" or what a keyframe left.

## The runs

| Run | Checks | Bounds |
|---|---|---|
| `receive_safety` | `TypeOK`, `NoHole`, `AckedWasDelivered`, `ParkedAhead`, `ImplementsOrderedDelivery` | 8 numbers, 9 packets from number 7 on: the stream wraps and reuses numbers it had; window 2, park window 2, delay 3 |
| `receive_live` | `EverythingDelivered` (from the baseline on), `EverythingAcknowledged` | 6 numbers, 3 packets, wrap included |
| `pool_safety` | `TypeOK`, `RefCounted`, `TeardownUnheld`, `IdleHasTimer`, `LeavesByItsOwnDeath` | 3 interchangeable callers, 2 connections, 2 callbacks waiting, other addresses |
| `pool_live` | `IdleIsClosed`, `EveryCallReturns` | 2 callers, 2 connections |
| `pool_orphan` | `NoOrphan` **violated** | 2 callers |
| `videohub_late_answer` | `ReturnsOnlyIfTaken` **violated** | 1 timeout |
| `lane_safety` | `TypeOK`, `HeadIsTransfer`, `DoneWasServed`, `NoLockLeft` | still download, macro upload and clear; one turn of another client, one refusal, one caller gives up |
| `lane_live` | `QueueMoves` | 2 downloads, one turn, one refusal, a session that dies |
| `lane_wedged` | `QueueMoves` **violated** | download and clear, one turn, one caller gives up |
| `lane_clear` | `ReturnsOnceSent` **violated** | download and clear, two callers give up |
| `atem_transport` | `TypeOK`, `ReplacedIsGone`, `TakenOnce`, `SessionReadyAgain`, `StillHeld`, `InOrder`, `EverythingTaken` | 5 sessions, and one each of: silence, lost datagram, refusal, dump without its first packet, straggler, command, retry; for the send path 8 numbers, window 4, bursts of 2, 9 packets |
| `parts` | `OnlyForward`; `ShowsWhatTheHubHad`, `NeverShowsOlder`, `CatchesUp`; `AnswerIsOwn`, `NotesKept`; `EndIsTrue`; `EndIsTold`; `RestoredIsArchived`, `LiveComesLast`; `ShownAsAsked`, `TwinSavesTheSame`; `LandsAsSaved`, `CutsLast` | receive path with a switcher past its park window and with unreliable frames, delay 3, two numbers remembered; Videohub: 2 entries, 2 changes, 2 sessions, 1 timeout; HyperDeck: 3 commands, 2 connections, 3 notifications for a backlog of 2, 1 stray; upload: 2 chunks, 2 volumes; setup: 2 addresses, 2 masks, a lease; Ultimatte: 2 presets; controls: 38 groups, one value asked of any control; profile: 3 M/Es on a switcher of 2, five choices of options, each with 1 or 2 troubles (a connection that fails, a command that does), at most 2 commands on their way. 2,160,131 states, about two and a half minutes |

Why these bounds. The receive path compares two numbers at a time and its windows are
small multiples of the park window: a stream that goes once around the space, with
losses on either side of the wrap, meets every comparison with numbers of both
generations. In the pool two callers are enough to take, give back and take again; the third
holds an entry while the other two replace it; a second connection is what an eviction
makes. The lane's hazards are crossings of one lock request with one announcement,
one refusal or one abort; two tasks make the queue behind the head, and the kinds of task
(still and macro, transfer and clear) differ in whether they need the lock. The Videohub
misreads at most the answer of the command before, and so would the HyperDeck client: three
commands over two connections have one before, one after and one on a new connection. A
session can be confused with the one before and the one after it; five ids let a silence, a
refusal and an incomplete dump follow one another. A control is one number that goes
through the tables, and the neighbours of its bytes are watched; one command per behaviour is
enough to see a field in the wrong place. A command of a profile is lost alone or with the next one behind it, so two on their way are enough, and the options are
chosen so that each section meets a failure before, in and behind it.

Every bound is a constant (`Total`, `MaxConns`, `MaxFired`, `MaxTurns`, `MaxRefusals`,
`MaxTimeouts`, `MaxSessions`, `MaxChanges`, `MaxOutbox`, `MaxQuiet`, `MaxLost`, `MaxRefused`, `MaxCalls`, `MaxAsks`, ...) and stands in the guard of the
action it bounds. Since behaviours end at the bounds, and a process may be idle for
good, deadlock is not checked; that nothing gets stuck is what the liveness properties
say. Each passing property has a mutant in `PROJECT.json`: a plausible slip in one
modelled function, under which TLC finds the property violated.

**Fairness.** In `AtemReceive`: the UDP thread flushes ACKs (its loop does nothing else
first), the switcher goes on resending, and of infinitely many copies of a packet or an
ACK one arrives (strong fairness; a network that loses all is out of scope, the session
then ends by silence). In `Pool`: threads that can run do; a thread that waits
for a lock which is free again and again gets it (strong, since Python's locks
promise no order but do not starve); a handshake ends because every wait in `wait_ready` has a
deadline; a caller leaves its `with` block. A worker that is up need not die, and a caller need not call.
In `TransferLane`: the worker handles packets and due wake-ups, clocks run out, the
switcher answers and the other client's turn ends. Callers need
not do anything: `CallerWakes`, the wake-up that comes with every command, has no fairness, so `QueueMoves` is what
the lane does on its own. It excludes a lane that waits for a try-again, see below.
In `AtemSession`: the UDP thread's loop and the worker's go on (weak fairness of each thing they do),
the switcher's dump goes on, its silence ends and it reaps sessions nobody answers in. Nothing says
that the silence clock waits for the worker. In `AtemSend`: the resend timer and the
switcher go on, and of infinitely many copies of a packet, an ACK or a request one arrives.

## The proofs

Proved by TLAPS for every value of the constants that the modules' `ASSUME`s admit. These say what a bound is
(a natural number, mostly positive), that sets of callers and of keys are finite (a pool is called by finitely many
threads, a hub has finitely many ports), that special values are none of the ordinary ones (a lock's free mark is
no caller, the address nobody has is no address of the unit's), and the two relations the code's own constants have: the park window
is less than half the sequence space, and the send buffer is at most half of it.

Where a theorem needs more, it says so as a hypothesis:

| Hypothesis | Says | In the code | Evaluated by TLC for |
|---|---|---|---|
| `AtemReceive!NumbersFit` | nothing on the wire is older than half the sequence space; the switcher's window, the delay and the remembered numbers do not reach around it; an unreliable frame's number is no packet's | 0x8000 numbers, 1024 remembered (`transport.py:448`); what it excludes is named under [findings](#findings) | `receive_safety`, `parts` |
| `AtemReceive!WindowsFit` | and the switcher does not run past the park window | 512 (`transport.py:323`); a switcher that does is caught by `Resync`, which leaves a hole on purpose | `receive_safety` |
| `AtemSend!NumbersFit` | callers and network stay within one round of the numbers | 0x8000 | `atem_transport` |
| `AtemSend!BufferFits` | callers are at most a buffer ahead of the switcher | 4096 (`RETRANSMIT_WINDOW`) | `atem_transport` |
| `~Lags` | the worker is not a whole silence window behind | five seconds; without it `ReplacedIsGone` fails | `atem_transport` |

| Theorem | Property | Argument |
|---|---|---|
| `AtemReceiveProofs!TypeCorrect` | `TypeOK` | inductive alone; `RememberEffect`, `DeliverRunType`, `ReadType` |
| `AtemReceiveProofs!Forward` | `OnlyForward`, if `NumbersFit`: what is handed on is strictly increasing | `IInv` |
| `AtemReceiveProofs!ParkedIsAhead` | `ParkedAhead`, if `NumbersFit` | `IInv` |
| `AtemReceiveProofs!WithoutHole` | `NoHole`, if `WindowsFit` | `IInv` |
| `AtemReceiveProofs!AckedIsDelivered` | `AckedWasDelivered`, if `WindowsFit` | `IInv` |
| `AtemReceiveProofs!Implements` | `ImplementsOrderedDelivery`, if `WindowsFit` | `IInv`, step by step |
| `AtemSendProofs!TakenInOrder` | `InOrder`, if `NumbersFit` | `SendInv` |
| `AtemSendProofs!StillHeldInTheBuffer` | `StillHeld`, if `NumbersFit` and `BufferFits` | `SendInv` |
| `AtemSendProofs!SendImplements` | `SendsInOrder`: refines `OrderedDelivery`, if `NumbersFit` | `SendInv`, step by step |
| `AtemSessionProofs!TypesHold` | `TypeOK` | `Types` |
| `AtemSessionProofs!Replaced` | `ReplacedIsGone`, if `~Lags` | `Types`, `Handover` |
| `AtemSessionProofs!NoneTwice` | `TakenOnce`, if `~Lags` | `Types`, `Handover`, `OnceInv` |
| `PoolProofs!TypesHold`, `CountsAreTrue`, `TeardownIsUnheld`, `IdleEntriesHaveTimers` | `TypeOK`, `RefCounted`, `TeardownUnheld`, `IdleHasTimer` | `PoolInv` |
| `PoolProofs!EntriesLeaveByTheirOwnDeath` | `LeavesByItsOwnDeath` (an action property) | every step but `OnConnectionDied` and the teardown keeps the entry or puts a new one, `made + 1`, in its place |
| `TransferLaneProofs!TypesHold`, `UnderWayIsFirst`, `DoneMeansServed` | `TypeOK`, `HeadIsTransfer`, `DoneWasServed` | `LaneInv` |
| `TransferLaneProofs!LockComesBack` | `NoLockLeft` | `LaneInv /\ LockKept` |
| `TransferLaneProofs!PopsWhatEnded` | `PopsItsOwn` (an action property): an FTDC taken for ours finds its transfer at the head, carried out | `LaneInv` |
| `VideohubProofs!ShowsTheHub`, `QuietMeansCurrent`, `NeverBack` | `ShowsWhatTheHubHad`, `CatchesUp`, `NeverShowsOlder` (an action property), wherever the ACK comes among the pushes | `HubInv` |
| `HyperdeckProofs!AnswersAreOwn` | `AnswerIsOwn` | `DeckInv` |
| `HyperdeckProofs!NotificationsAreKept` | `NotesKept` | `DeckInv /\ NotesInv` |
| `HyperdeckProofs!UploadsEndTruly` | `EndIsTrue` | `UploadInv` |
| `HyperdeckProofs!SettingsEndTruly` | `EndIsTold` | `SetupInv` |
| `RestoreProofs!RestoresWhatItArchived`, `LiveSettingsComeLast` | `RestoredIsArchived`, `LiveComesLast` | `IInv` |
| `RestoreProofs!AppliesTheProfile` | `LandsAsSaved`, but for what was noted as failed or lost on the way | `ApplyInv` |
| `RestoreProofs!BusesAreCutLast` | `CutsLast` (an action property) | `ApplyInv`, and a bus at the head of the queue has no command of an earlier section behind it (`BusesComeLast`) |

Each proof has one lemma per action, or per handler, that says what the step leaves of the invariant.

**Receive path.** `IInv == TypeOK /\ WireInv /\ BeforeInv /\ GateInv /\ (rxEstablished => TakenInv) /\ AckInv`.
The client compares numbers, the properties speak of packets, so the invariant ties the two: the cursor is the number of
the packet owed (`GateInv`), a parked packet lies under its own number and ahead of the cursor, what is on the wire is young (`WireInv`).
A packet that is owed or later cannot be taken for one of an earlier round: that is the arithmetic of the sequence
space (`PlusNumOf`, `DistNumOf`, `NumOfInjective`: packets less than a space apart are told apart by their numbers). The ACK number is
that of a packet `a` before the cursor, and so is every ACK in flight (`AckInv`); since `WalkAck` goes over *remembered*
numbers, `WindowInv` says how far back each entry of the seen window can be of a packet, counted by the newer entries
behind it: before it is forgotten no packet has come around to its number. `TakenInv` says that what is
remembered was handed on, dropped, or is parked. Before the first reliable packet `BeforeInv` holds in place of all that. The refinement maps
`Receive` to `Deliver` or a stutter (`DeliverRun` hands on the packet owed and what is parked behind it without a gap), `SwitcherSend` to `Send`,
`SwitcherHearsAck` to `Forget` or a stutter, the rest to a stutter.

**Send path.** `SendInv == SendTypeOK /\ BufferInv /\ WireInv /\ InOrder`. `BufferInv`: the buffer is the last window of
packets, each under its own number (`KeptKeeps`: one enters, the one a window back leaves). `WireInv`: what is on the wire bears its own
number, and is no older than the network delivers or a volley reaches back. With that, a number the switcher waits for is that of the packet
it is owed next.

**Sessions.** `Types` is inductive alone, and says that the resend buffer holds exactly what was numbered in this session.
`Handover` says what can be between the two threads: while a session is made, one hello or one answer to it, on one of the ways (`OneHello`),
and the answer comes behind the packets of the session before (`AnswerLast`); once it is made no hello, no answer (`Silent`) and no packet of the
session before (`NewOnly`); that a session is lost is the first thing the worker hears of it (`LostFirst`). `OnceInv` follows every command given out:
it is with the callers, with the UDP thread, in the resend buffer or with the switcher, once in each, and in
two of them only as buffer and switcher, where it is before the number the switcher wants next (`Settled`).

**Pool.** `PoolInv == TypeOK /\ HeldInv /\ LifecycleInv /\ LockInv /\ CountInv`. `RefCounted` is not
inductive: the count is right only while nobody gives back an entry that
is no longer there, hence `HeldInv` (a caller holds an entry exactly from the get to its
release), and an eviction replaces the entry while the lock is held across a step, hence
`LockInv` (what the holder of `_instance_lock` is doing, and that the entry stays
meanwhile). `LifecycleInv` says who may be inside `connect()`: only a holder of that very
connection, so a teardown of an unheld entry never waits for the lifecycle lock with the registry locked.
`CountInv` is `RefCounted` and `IdleHasTimer`, with the entry's state between them. The counting steps rest on
`TakeCounts`, `GiveCounts` and `OthersCount`, which say how the number of holders changes with one caller's entry.

**Lane.** A handler is an operator from lane to lane, so its lemma is about two lanes and no step: `Moves(l, h, may)` says where a handler has got
to from `l` (nothing new under way, or one transfer asked for, under a new number or, if `may`, under `l`'s own).
`Wire` is about the numbers: of the lane's number at most one thing is on its way, its request, its transfer in the engine or its end; nothing
is while the transfer waits to be asked for again; and its FTDC is on the way only when it was carried out.
So an FTDC that names the lane's number ends the transfer under way. `LaneInv` joins the two with `SliceOK`, what the FTDC handler holds while
callers' threads run between its two halves.

The lock has an invariant of its own on top of it, `LockKept == HoldOK /\ SliceHolds /\ Kept`. `NoLockLeft` looks only at a
lane that is quiet; `Kept` says where the lock of the last grant is until then: in an LKOB that has not come yet, with the lane
(`Minds`: it has the lock and a transfer or a drain whose end gives it back), or in an unlock on its way. A refusal for want of the lock makes the
lane forget the lock, so `Kept` also says that behind every such refusal an LKOB is still to come (`Answered`). Of a handler,
`Settles(p, h)` says that a lock held in `p` is minded or given back in `h`, `Heeds(p, h)` that a lock minded in `p` still is; between the two halves of
the FTDC handler only the first is enough, since a caller's abort may take the transfer from under it. `HoldOK` is what is needed of the
lane beside: nothing waits to be tried again that is not under way, and nothing is under way while a download drains.

**Videohub.** `HubInv == HubTypeOK /\ Faithful /\ Fresh`. An answer names no command, so `Faithful` says whose it is: one at most is on its way, as a
command or as an answer, and it is the pending call's (`OneAnswer`). For each entry: what is on the wire the hub had (`Told`), and the last of it is what it has now; with
nothing of it on the way the client shows that, or the entry is overtaken (`Latest`). As long as nothing was ever given up on, the changes of an entry have numbers
of their own (`Numbered`), come in the hub's order (`Ordered`), and where a push older than what is shown, or than what the next ACK will show (`Due`), is still to come, so is
the push of that (`Early`): that is why an early ACK goes back only for a while. A call that is given up on breaks this until the next connect, whose
preamble starts afresh; that new numbers are new (`Fresh`) holds as long as there was no timeout at all.

**HyperDeck.** `DeckInv`: in the buffer and on the stream together, no answer is there twice, nor one the deck still owes (`Once`); what had arrived
before the command went out was dropped and does not come again (`Gone`); of a deck that answers each command once, one result is owed
or on its way while a call waits, and none otherwise (`OneResult`). `NotesInv` numbers what is still to be read: `c[i]` notifications were sent before
the end of its i-th piece, so `c[0]` is how many the client has taken, and the backlog is the window `Waiting(c[0], seen)`. `NotesOf` is a fold of the
community modules over the dropped pieces; `NotesOfSteps` unfolds it step by step from the definition of `MapThenFoldSet` (its recursive function exists,
by the well-founded order of the naturals), and `NotesTaken` goes along the pieces the same way. `UploadInv` adds `Quiet`: while a file may be deleted or looked for, and once the end is
told, no transfer is left on the deck to write it again, or the connection is dead and nothing it says is believed. `SetupInv` says where a call is with what it wrote: one that
touches no interface leaves it alone and running (`LeftAlone`), one that changes it touches no setting (`NothingSet`), asks at the address it came for and reads back
where a deck given an address goes (`Configures`), and what is put holds what was given (`Lists`). What the unit made of what was written is in none of them: `EndIsTold` follows
from what the last poll saw, and from an interface that no longer moves once it runs what it is configured with.

**Ultimatte.** `IInv == Types /\ ArchiveInv /\ RestoreInv /\ LiveComesLast`. The
properties speak of the ends of a run; the invariant says what is true on the way: what is
neither in the zip nor warned of is still to be read (`ArchiveInv`), and what of the zip is
not on the unit is still to be pushed (`RestoreInv`). That the live settings come last is a
fact about the order of the pushes: `FirstOfIsFirst` gets from the well-founded order of the
naturals that every set of resources has a first, and that the settings are first only when alone.

**Profile.** `ApplyInv == RunTypes /\ FutureInv /\ SinglesInv /\ KeysInv`, for any number of M/Es in the
profile (`SavedMEs`, two keyers each) and on the switcher, any length of the queue, and any options (`OptionsByName`: the type of `ApplyOptions`, no more). `LandsAsSaved` speaks of the
end, when all is out. On the way apply() is ahead of the switcher, by more than a section even, so the invariant is about `Out == outbox \o run.cmds`: what is on its
way, and behind it what the section at work has left; sending moves the border and leaves `Out` as it is (`HeadMoves`). `RunTypes` says that the sections follow one another in it, `FutureInv` that what the
sections to come are to set is untouched. A control that takes one command is, once its section began, on its way only if it is due, and if it is due it is on its way,
in place or excused (`SingleOut`). A keyer's controls are written more than once, the live geometry through both keyframes, and so `KeysInv` has the
state of a keyer by its place in the block: the block stands in `Out` (`Stands`), of which it moves to the front, and `KeyAt` says what its first `p` commands have
made of the keyer, for all eighteen places (twelve without keyframes). A command that is noted as failed or lost leaves `Out` from the middle or from the front
(`Taken`), and its control, or its whole keyer, is excused from then on (`Faults`): no other control notices. That the commands of a section are exactly what the options ask for rests on
`SectionCommands` and `KeyCommands`; the M/E sections are concatenations by `FlattenSeq`, whose recursive function `FlattenIsJoins` unfolds
from its definition. An M/E that a section passes over leaves the set of what is due at that moment, and only of that section (`DueElsewhere`).
For `CutsLast`: by the order of `Out`, when a bus is at its head nothing but buses is behind it (`BusesComeLast`).

**Only model-checked**, and why:

- every liveness property, and the fairness it stands on: out of the prover's reach;
- `ShownAsAsked`, `TwinSavesTheSame`: about tables of numbers and folds over bytes; TLC goes through every
  control, there is no larger instance to prove;
- `ReplacedIsGone` and `TakenOnce` with `Lags`: the first fails, the second was not settled (no violation in 25 million
  states of an instance that TLC did not finish).

## Findings

- **A holder can reconnect an evicted connection** (`pool_orphan`, `pool.py:438`). Its release
  is skipped, because the registry has no such entry, and the session is never closed.
- **A late ACK answers the next command** (`videohub_late_answer`,
  `videohubwire/client.py:208`). After a timeout the connection stays open. The HyperDeck
  client closes its connection in the same situation.
- **The lane waits for a client that is not there** (`lane_wedged`, `protocol.py:1335`). A
  caller gives up while its lock request is on its way, and another client's hold has been
  announced. The late LKOB finds nothing queued: the trigger sends the release and leaves
  `locks[store]` true. The LKST of that release is taken for an echo and leaves
  `_foreign_held` as it is. The next transfer starts without the lock, is refused with 5,
  and then waits for the other client's release, which has been announced already.
- **`clear_still` returns though nothing was sent** (`lane_clear`, `connection.py:373`). A
  download that times out on another thread empties the queue, the waiting clear included;
  `dequeue_clear` finds nothing, and the caller takes it as dispatched.

Behaviour the models contain and no run states:

- The FTDC handler reads the queue and stores its tail (`protocol.py:704`): a task
  another thread appends in between is lost. If it was a clear, `ReturnsOnceSent` fails
  this way too.
- The seen window remembers the numbers of unreliable frames (`transport.py:914`): after a wrap the ACK can
  walk over one as over a packet. `NumbersFit` excludes it.
- A worker that is assigned and not started reads as dead (`pool.py:167`), and a get then
  evicts the connection just being made.
- A timer callback that waited for the lock looks at the count and not at which timer
  called it (`pool.py:292`): a grace period can be cut short.
- A Videohub client that connects again keeps its tables, so that quiet ends the preamble at once
  (`videohubwire/client.py:311`).
- `UdpProtocol.connect()` leaves `mark_next_connected` and the queued packets of the session before:
  a re-handshake between the dump's end and the packet after it is announced ready with an empty
  state (`transport.py:1143`; `AtemSession.ReadyIsDumped` states what `is_ready` promises and fails), and a packet
  still in `thread_queue` is numbered into the new session's buffer with the id of the old one
  (`AtemSession.ResendsOwnSession`).
- The filter for stragglers remembers one session, the one just replaced (`transport.py:838`). When two dumps
  in a row are incomplete and the first goodbye is lost, what the switcher resends in the session before last
  lands beside the state of the newest one. `AtemSession.OneSessionsState` says that this cannot be, which is what the
  filter's comment says (`transport.py:1173`), and TLC finds it to fail with 4 sessions, 2 incomplete dumps, 2 retries
  (`INCOMPLETE_DUMP_RETRIES` is 3) and one straggler. `ReplacedIsGone` is what does hold: of the session just before
  nothing is left.
- `AtemSend`: more than a window of unacknowledged packets is never resent in full, since what fell out of the buffer
  is gone; `Ahead` keeps the runs below it. The session then ends by silence.
- A Videohub entry that another panel changed between our push and the ACK of our command is put back to our own, older value (`videohubwire/client.py:212`);
  `route()` says that a `state()` right after it is correct. The next push of the entry, or the next connect, puts it right
  (`Videohub.NothingOvertaken` fails).
- `set_network` of a HyperDeck that goes to DHCP returns at the first good read-back, where the old address may still run
  (`setup.py:162`, `setup.py:403`; `NetworkSetup.ReturnsLive` fails). One that goes from DHCP to a static address it already holds, without being given one,
  is read back where it no longer answers (`setup.py:399`; `NetworkSetup.MovedIsFollowed` fails).
- A reliable packet that is overtaken by, or lost before, the first one of its session is never handed on: the first to arrive sets the baseline
  (`transport.py:949`). `EverythingDelivered` speaks of the packets from there on.
- `archive_unit_to_bytes` stops listing when the unit is quiet for a while: presets that were not listed are missing
  from the zip without a warning (`archive.py:51`; `Ultimatte.FullOrWarned` fails).
- `Profile.apply`: what is queued in the gap of a re-handshake, or when the switcher has fallen silent, is lost with a line in the log at most, and
  the `ApplyResult` has no error (`connection.py:579`, `connection.py:954`; `Profile.NothingLostInSilence` fails).
- `Profile.apply`: a section that starts while a re-handshake has emptied the mixer state counts one M/E and passes over the
  others without an error (`apply.py:196`; `Profile.NoneIsPassedOver` fails); an attribute `int()` does not take,
  such as `1e999`, raises outside `_safe` and ends the whole apply, which says failures in one section do
  not abort others (`_xml.py:53`; `Profile.NoSectionAborts` fails).
- A wake-up that comes before a try-again's time clears it, and nobody asks for
  another (`protocol.py:1284`): the retry waits for the next packet or caller. `QueueMoves` excludes it.
- An abort during a drain releases the lock under the draining download.
- A fatal refusal is told to every waiter of the connection (`connection.py:458`).
- An FTCD names no transfer that is looked at: the budget of an aborted upload is spent by the next.

## What is not modelled

In the modelled parts: the read-only calls of the pool; the relay transport's `*XFC` event,
`release_locks_now` at a teardown, and uploads that need more than one chunk budget in the
lane; the text of Videohub blocks, that a socket error closes nothing there, and the preamble's
retry as two attempts; the goodbye packet of a disconnect; a worker that is a silence window behind
(`Lags`, off in the runs: the state space outgrows five minutes). Two administrators who
change one unit's network at the same time (`set_network_access` merges what it read), an address that is
taken already, and read-only pages, certificates, users and clocks of `setup.py`. Strings: names, labels, the XML
document. Of the controls: triggers without a value (cut, auto, flash, sample), the fly keyframe's
own record (it is an order of commands in `Profile`), multiviewer VU and safe area, level streams, headphones and
solo, which a profile does not keep and no setter writes.

Not modelled at all: camera control, recording, streaming, meters, tally, macro and media
records (independent fixed layouts of the same form, one field at a time), the media pool's files and the
macro bytecode (codecs over data that a property-based test reaches), imaging and the probe, the facade and
`build_full_state`, which keep no state. `PROJECT.json` ("components") has each with its reason.

## The plan

In this order; done but for the last two.

1. `AtemReceive` with `OrderedDelivery`; type correctness proved.
2. `Connection`, `Pool`; counts, teardown, timers and the registry's one way out proved.
3. `Videohub`.
4. `TransferLane`.
5. Proofs: the receive path and the send path with their refinements, the pool, the lane, the sessions,
   the Videohub, the HyperDeck, the Ultimatte and `apply()` are done.
6. `AtemSession` and `AtemSend`, with `MCAtemTransport`.
7. `Hyperdeck`, `HyperdeckUpload`, `NetworkSetup`, `Ultimatte`; the ends of an upload and a restore proved.
8. `Layouts`, the control tables and `Controls`; `Profile`.
9. `AtemSession` with `Lags`, on an instance cut to the hand-over of one session, and with two commands.
10. Camera control and recording as further control tables; the codecs as operators against a reference
    definition over bounded inputs.
