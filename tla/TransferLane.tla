---------------------------- MODULE TransferLane ----------------------------
(***************************************************************************)
(* The transfer lane of atemwire's AtemProtocol (protocol.py): queued      *)
(* downloads, uploads and clears, one at a time, the lock of the still     *)
(* store asked for, taken, given back after each one and left free a while *)
(* for other clients.  The lane is a record; a handler is an operator from *)
(* the lane before to the lane after, with what it sends in `out' and the  *)
(* wake-ups it asks for in `wants'.                                        *)
(*                                                                         *)
(* Packets arrive once and in order (module AtemReceive).  Time is         *)
(* abstract: a running clock is due some time.  A transfer's data is one   *)
(* chunk.                                                                  *)
(***************************************************************************)
EXTENDS Integers, Sequences, SequencesExt, FiniteSets

CONSTANTS
    Downloads, Uploads, Clears,  \* tasks: one slot each
    Macros,         \* those of the macro store (0xffff), which has no lock
    None,           \* no task
    Attempts,       \* TRY_AGAIN_ATTEMPTS
    MaxTurns,       \* bound: requests of the lock by another client
    MaxRefusals,    \* bound: FTDEs the switcher answers of its own choice
    MaxTimeouts,    \* bound: callers that give up
    MaxSessions     \* bound: sessions

Tasks == Downloads \cup Uploads \cup Clears

ASSUME LaneAssumption ==
    /\ None \notin Tasks /\ Macros \subseteq Downloads \cup Uploads
    /\ Downloads \cap Uploads = {} /\ (Downloads \cup Uploads) \cap Clears = {}
    /\ Attempts \in Nat /\ MaxTurns \in Nat /\ MaxRefusals \in Nat
    /\ MaxTimeouts \in Nat /\ MaxSessions \in Nat

VARIABLES
    lane,        \* AtemProtocol's transfer state, see LaneType
    wake,        \* the transport's _wake_due: none, for the try-again, or for anything else
    slice,       \* queue[1:] in the hands of the FTDC handler, or NoSlice
    toSwitcher, toClient,
    \* the switcher (external)
    holder,      \* the still store's lock: free, us, other
    waiting,     \* who asked while it was held
    news,        \* LKSTs for the next frame tick
    job,         \* our transfer in its engine, or Idle
    served,      \* tasks it has carried out
    turns, refusals, timeouts, sessions

switcher == <<holder, waiting, news, job, served>>
counts   == <<turns, refusals, timeouts, sessions>>
vars     == <<lane, wake, slice, toSwitcher, toClient, switcher, counts>>

Stores    == {"still", "macro"}
Store(t)  == IF t \in Macros THEN "macro" ELSE "still"
Other(s)  == IF s = "still" THEN "macro" ELSE "still"
Clocks    == {"yield", "asked", "try", "drain"}
NoSlice   == [task |-> None, rest |-> <<>>]

LaneType ==
    [queue     : [Stores -> Seq(Tasks)],  \* transfer_queue
     locks     : BOOLEAN,                 \* locks[still]
     asked     : BOOLEAN,                 \* _lock_requested
     foreign   : BOOLEAN,                 \* _foreign_held
     yield     : {"no", "quiet", "announced"},  \* _yielding
     transfer  : Tasks \cup {None},
     tid       : Nat,                     \* transfer_id; that of the transfer
     requested : BOOLEAN,                 \* transfer_requested
     tries     : [Tasks -> 0..Attempts],  \* the tasks' try_again
     retry     : BOOLEAN,                 \* _try_again_due is set
     started   : BOOLEAN,                 \* _transfer_last_data is set
     dataSent  : BOOLEAN,                 \* metadata and chunks have gone out
     draining  : Nat,                     \* _draining's tid, or 0
     cleared   : SUBSET Clears,           \* their CSTL has been sent
     due       : SUBSET Clocks,           \* the clocks that have run out
     out       : {<<>>}, wants : {{}},    \* only inside a handler
     outcome   : [Tasks -> {"new", "queued", "done", "failed", "gone"}]]  \* for the caller

\* To the switcher
\* A clear asks for the full lock.
Ask(t)         == [type |-> IF t \in Clears THEN "LOCK" ELSE "PLCK"]
Unlock         == [type |-> "unlock"]
Request(t, id) == [type |-> "request", task |-> t, tid |-> id]
Data(id)       == [type |-> "data", tid |-> id]
Clear(t)       == [type |-> "CSTL", task |-> t]
\* From it; a foreign transfer has the number 0.
LKOB           == [type |-> "LKOB"]
LKST(taken)    == [type |-> "LKST", taken |-> taken]
FTCD           == [type |-> "FTCD"]
FTDa(id)       == [type |-> "FTDa", tid |-> id]
FTDC(id)       == [type |-> "FTDC", tid |-> id]
FTDE(id, s)    == [type |-> "FTDE", tid |-> id, status |-> s]

Sends(l, msg)  == [l EXCEPT !.out = Append(@, msg)]
Wants(l, w)    == [l EXCEPT !.wants = @ \cup {w}]
InQueue(t)     == t \in Range(lane.queue[Store(t)])
Ends(l, t, o)  == [l EXCEPT !.outcome[t] = IF @ = "queued" THEN o ELSE @]
AllGone(l)     == [l EXCEPT !.outcome = [t \in Tasks |-> IF @[t] = "queued" THEN "gone" ELSE @[t]]]

---------------------------------------------------------------------------
(* _transfer_trigger *)

NextTask(l, store) ==
    LET s == IF l.queue[store] # <<>> THEN store ELSE Other(store)
    IN  IF l.queue[s] = <<>> THEN None ELSE Head(l.queue[s])

LeaveFree(l) == [l EXCEPT !.yield = "quiet", !.due = @ \ {"yield"}]

\* Mutant: the lock stays with us.
CleanNothing(l) == l

\* Nothing queued: give the lock back.  The lane goes on taking it for its own.
CleanLocks(l) == IF l.locks THEN Sends(l, Unlock) ELSE l

\* The store's lock is not ours: ask for it, unless it is another client's turn.
AskForLock(l, t) ==
    CASE l.foreign -> l
      [] l.yield # "no" /\ "yield" \notin l.due -> Wants(l, "other")
      [] OTHER ->
           LET free == [l EXCEPT !.yield = "no", !.due = @ \ {"yield"}]
           IN  IF l.asked /\ "asked" \notin l.due THEN free
               ELSE Sends([free EXCEPT !.asked = TRUE, !.due = @ \ {"asked"}], Ask(t))

StartTransfer(l, t, retry) ==
    LET id == IF retry THEN l.tid ELSE l.tid + 1
    IN  Sends([l EXCEPT !.tid = id, !.transfer = t, !.requested = TRUE,
                        !.started = FALSE, !.dataSent = FALSE],
              Request(t, id))

\* The trigger, but for a clear that can go out.
AdvanceUnlessClear(l, store, retry) ==
    LET t == NextTask(l, store)
    IN  CASE t = None -> CleanLocks(l)
          [] t # None /\ Store(t) = "still" /\ ~l.locks -> AskForLock(l, t)
          [] t # None /\ (Store(t) = "macro" \/ l.locks) /\ l.requested -> l
          [] OTHER -> StartTransfer(l, t, retry)

\* Give the lock back and leave the store free a while.
GiveLockBack(l) ==
    IF l.locks THEN LeaveFree(Sends([l EXCEPT !.locks = FALSE], Unlock)) ELSE l

\* A clear goes out under the lock, which is given back at once.
DispatchClear(l, t) ==
    LET sent == Sends([l EXCEPT !.queue["still"] = Tail(@)], Clear(t))
    IN  GiveLockBack([Ends(sent, t, "done") EXCEPT !.transfer = None, !.cleared = @ \cup {t}])

Advance(l, store, retry) ==
    LET t == NextTask(l, store)
    IN  IF t \in Clears /\ l.locks /\ ~l.requested
        THEN AdvanceUnlessClear(DispatchClear(l, t), "still", FALSE)
        ELSE AdvanceUnlessClear(l, store, retry)

\* Nothing starts while a download drains, or a retry's pause lasts.
Trigger(l, store, retry) ==
    CASE l.draining # 0 -> l
      [] l.draining = 0 /\ l.retry /\ "try" \notin l.due -> Wants(l, "try")
      [] OTHER -> Advance([l EXCEPT !.retry = FALSE, !.due = @ \ {"try"}], store, retry \/ l.retry)

ReleaseThenContinue(l, store) ==
    LET ended == [l EXCEPT !.transfer = None]
    IN  Trigger(IF store = "still" THEN GiveLockBack(ended) ELSE ended, store, FALSE)

---------------------------------------------------------------------------
(* save_field_data *)

OnLkob(l) == Trigger([l EXCEPT !.locks = TRUE, !.asked = FALSE, !.due = @ \ {"asked"}], "still", FALSE)

\* Taken: by another client, unless the lock is ours.  Stored in either case.
OnTaken(l) ==
    IF l.locks THEN l
    ELSE [(IF l.yield = "no" THEN l ELSE LeaveFree(l)) EXCEPT !.foreign = TRUE]

\* Free, while we do not hold it: what waits may ask after the courtesy pause.
OnFree(l) ==
    LET seen == [l EXCEPT !.foreign = FALSE, !.asked = FALSE, !.yield = "announced",
                          !.due = @ \ (IF l.yield = "announced" THEN {"asked"} ELSE {"asked", "yield"})]
    IN  CASE l.locks -> l
          [] ~l.locks /\ l.queue["still"] = <<>> -> seen
          [] ~l.locks /\ l.queue["still"] # <<>> /\ l.requested -> Wants(seen, "other")
          [] OTHER -> Trigger(Wants(seen, "other"), "still", FALSE)

\* A budget: the metadata and the data.  It names no transfer.
OnFtcd(l) ==
    IF l.transfer \in Uploads /\ ~l.dataSent
    THEN Sends([l EXCEPT !.dataSent = TRUE], Data(l.tid))
    ELSE l

\* The transfer that is drained; another client's, which has the number 0, never is.
Drained(l, id) == l.draining # 0 /\ l.draining = id

OnFtda(l, id) ==
    CASE Drained(l, id) -> [l EXCEPT !.due = @ \ {"drain"}]
      [] ~Drained(l, id) /\ l.transfer # None /\ l.tid = id -> [l EXCEPT !.started = TRUE]
      [] OTHER -> l

EndDrain(l) ==
    LET ended == [l EXCEPT !.draining = 0, !.due = @ \ {"drain"}]
    IN  IF l.draining = 0 THEN l ELSE ReleaseThenContinue(ended, "still")

\* 'file-transfer-error' names a transfer; no waiter looks at it (_on_error).
ToldOfError(l) ==
    [l EXCEPT !.outcome = [t \in Tasks |-> IF @[t] = "queued" /\ t \notin Clears THEN "failed" ELSE @[t]]]

\* _fail_transfer
Fail(l) ==
    LET t == l.transfer
        s == Store(t)
        popped == IF l.queue[s] # <<>> /\ Head(l.queue[s]) = t THEN [l EXCEPT !.queue[s] = Tail(@)] ELSE l
    IN  ToldOfError(ReleaseThenContinue([popped EXCEPT !.retry = FALSE, !.due = @ \ {"try"}], s))

\* Mutant: one attempt too many.
MayRetryOnceMore(l, t) == l.tries[t] <= Attempts

MayRetry(l, t) == l.tries[t] < Attempts

\* 1: try again after a pause; 5: the lock is not ours; 6: another client asked for it.
Refused(l, status) ==
    LET t == l.transfer
    IN  CASE status = 1 /\ MayRetry(l, t) ->
               Wants([l EXCEPT !.tries[t] = @ + 1, !.retry = TRUE, !.due = @ \ {"try"}], "try")
          [] status = 5 -> Trigger([l EXCEPT !.locks = @ /\ Store(t) = "macro"], Store(t), TRUE)
          [] status = 6 ->
               LET ended == [l EXCEPT !.asked = FALSE, !.due = @ \ {"asked"}, !.transfer = None]
               IN  IF Store(t) = "still" /\ l.locks THEN GiveLockBack(ended)
                   ELSE Trigger(ended, Store(t), FALSE)
          [] OTHER -> Fail(l)

OnFtde(l, id, status) ==
    CASE Drained(l, id) -> EndDrain(l)
      [] ~Drained(l, id) /\ l.transfer # None /\ l.tid = id ->
            Refused([l EXCEPT !.requested = FALSE], status)
      [] OTHER -> l

\* The FTDC of another client's transfer: the store is busy.
SomeoneAtWork(l) == IF l.yield = "quiet" THEN LeaveFree(l) ELSE l

\* Mutant: any FTDC is taken for ours.
IsOursWhoever(l, msg) == msg.type = "FTDC" /\ ~Drained(l, msg.tid) /\ l.transfer # None

\* Ours is handled in two steps, TakesSlice and Completes.
IsOurs(l, msg) == msg.type = "FTDC" /\ ~Drained(l, msg.tid) /\ l.transfer # None /\ l.tid = msg.tid

OnFtdc(l, id) == IF Drained(l, id) THEN EndDrain(l) ELSE SomeoneAtWork(l)

OnMessage(l, msg) ==
    CASE msg.type = "LKOB" -> OnLkob(l)
      [] msg.type = "LKST" -> IF msg.taken THEN OnTaken(l) ELSE OnFree(l)
      [] msg.type = "FTCD" -> OnFtcd(l)
      [] msg.type = "FTDa" -> OnFtda(l, msg.tid)
      [] msg.type = "FTDE" -> OnFtde(l, msg.tid, msg.status)
      [] msg.type = "FTDC" -> OnFtdc(l, msg.tid)

---------------------------------------------------------------------------
(* Timed work, and what callers ask for *)

ServiceDrain(l) ==
    CASE l.draining = 0 -> l
      [] l.draining # 0 /\ "drain" \in l.due -> EndDrain(l)
      [] OTHER -> Wants(l, "other")

ServiceRetry(l) ==
    IF l.retry /\ "try" \in l.due /\ l.transfer # None
    THEN Trigger([l EXCEPT !.retry = FALSE, !.due = @ \ {"try"}], Store(l.transfer), TRUE)
    ELSE l

\* Mutant: a wake-up before its time is not followed by another.
ServiceYieldOnce(l) ==
    CASE l.yield = "no" \/ "yield" \notin l.due -> l
      [] l.queue["still"] = <<>> -> [l EXCEPT !.yield = "no", !.due = @ \ {"yield"}]
      [] OTHER -> IF l.requested \/ l.locks \/ l.foreign THEN l ELSE Trigger(l, "still", FALSE)

ServiceYield(l) ==
    CASE l.yield = "no" -> l
      [] l.yield # "no" /\ l.queue["still"] = <<>> ->
            IF "yield" \in l.due THEN [l EXCEPT !.yield = "no", !.due = @ \ {"yield"}] ELSE l
      [] l.yield # "no" /\ l.queue["still"] # <<>> /\ (l.requested \/ l.locks \/ l.foreign) -> l
      [] OTHER -> IF "yield" \in l.due THEN Trigger(l, "still", FALSE) ELSE Wants(l, "other")

\* _service_yields
OnWakeup(l) == ServiceYield(ServiceRetry(ServiceDrain(l)))

Queue(l, t) ==
    Trigger([l EXCEPT !.queue[Store(t)] = Append(@, t), !.outcome[t] = "queued"], Store(t), FALSE)

\* A still that is being sent (and heard from lately) is drained.
CanDrain(l) ==
    /\ l.transfer \in Downloads \ Macros /\ l.requested /\ l.locks /\ l.started
    /\ l.draining = 0

\* Mutant: the request that is under way is not forgotten.
EmptiedButRequested(l) ==
    [l EXCEPT !.queue = [s \in Stores |-> <<>>],
              !.retry = FALSE, !.asked = FALSE, !.due = @ \ {"try", "asked"}]

Emptied(l) ==
    [l EXCEPT !.queue = [s \in Stores |-> <<>>], !.transfer = None, !.requested = FALSE,
              !.retry = FALSE, !.asked = FALSE, !.due = @ \ {"try", "asked"}]

\* abort_transfers
Abort(l, heard) ==
    IF CanDrain(l) /\ heard
    THEN Wants([Emptied(l) EXCEPT !.draining = l.tid, !.due = @ \ {"drain"}], "other")
    ELSE GiveLockBack(Emptied(l))

\* dequeue_clear; a task is in the queue once at the most.
Dequeue(l, t) == [l EXCEPT !.queue["still"] = RemoveFirst(@, t)]

\* _reset_transfer_lane; 'disconnected' has told every caller.
Reset(l) ==
    [AllGone(Emptied(l)) EXCEPT !.locks = FALSE, !.foreign = FALSE, !.yield = "no", !.draining = 0, !.due = {}]

---------------------------------------------------------------------------
(* Steps of the client *)

\* wake_at keeps the earliest time asked for; one that was set before may be earlier.
Wakes(w, l) ==
    LET kept == IF w = "try" /\ ~l.retry THEN "other" ELSE w
    IN  IF l.wants = {} \/ kept # "none" THEN {kept} \cup l.wants ELSE l.wants

\* What a handler left: its packets go out, its wake-ups are set.
Did(l, w) ==
    /\ lane' = [l EXCEPT !.out = <<>>, !.wants = {}]
    /\ toSwitcher' = toSwitcher \o l.out
    /\ wake' \in Wakes(w, l)

\* loop() on a packet.
Receive ==
    /\ slice = NoSlice /\ toClient # <<>> /\ ~IsOurs(lane, Head(toClient))
    /\ Did(OnMessage(lane, Head(toClient)), wake)
    /\ toClient' = Tail(toClient)
    /\ UNCHANGED <<slice, switcher, counts>>

\* The FTDC of our transfer: queue[1:] is taken ...
TakesSlice ==
    /\ slice = NoSlice /\ toClient # <<>> /\ IsOurs(lane, Head(toClient))
    /\ slice' = [task |-> lane.transfer, rest |-> Tail(lane.queue[Store(lane.transfer)])]
    /\ UNCHANGED <<lane, wake, toSwitcher, toClient, switcher, counts>>

\* ... and stored, with whatever a caller's thread did in between; then the lock goes back.
Completes ==
    /\ slice # NoSlice
    /\ LET s == Store(slice.task)
           popped == [lane EXCEPT !.queue[s] = slice.rest, !.requested = FALSE]
       IN  Did(ReleaseThenContinue(Ends(popped, slice.task, "done"), s), wake)
    /\ slice' = NoSlice /\ toClient' = Tail(toClient)
    /\ UNCHANGED <<switcher, counts>>

\* The transport's Wakeup.
WakeFires ==
    /\ slice = NoSlice
    /\ wake = "other" \/ (wake = "try" /\ "try" \in lane.due)
    /\ Did(OnWakeup(lane), "none")
    /\ UNCHANGED <<slice, toClient, switcher, counts>>

\* A caller's: there is one with every command sent.
CallerWakes ==
    /\ slice = NoSlice
    /\ Did(OnWakeup(lane), wake)
    /\ UNCHANGED <<slice, toClient, switcher, counts>>

Running(c) ==
    CASE c = "yield" -> lane.yield # "no"
      [] c = "asked" -> lane.asked
      [] c = "try"   -> lane.retry
      [] c = "drain" -> lane.draining # 0

Elapse(c) ==
    /\ Running(c) /\ c \notin lane.due
    /\ lane' = [lane EXCEPT !.due = @ \cup {c}]
    /\ UNCHANGED <<wake, slice, toSwitcher, toClient, switcher, counts>>

\* download (one at a time: _transfer_serial_lock), upload, queue_clear, on a caller's thread.
CallerQueues(t) ==
    /\ lane.outcome[t] = "new"
    /\ t \in Downloads => \A u \in Downloads : lane.outcome[u] # "queued"
    /\ Did(Queue(lane, t), wake)
    /\ UNCHANGED <<slice, toClient, switcher, counts>>

\* A download's caller gives up and aborts; heard: the last chunk is less than DRAIN_STALL old.
DownloadTimesOut(t) ==
    /\ t \in Downloads /\ lane.outcome[t] = "queued" /\ timeouts < MaxTimeouts
    /\ timeouts' = timeouts + 1
    /\ \E heard \in BOOLEAN : Did([Abort(lane, heard) EXCEPT !.outcome[t] = "gone"], wake)
    /\ UNCHANGED <<slice, toClient, switcher, turns, refusals, sessions>>

\* A clear's caller takes it back.  Not in the queue, it is taken to have been dispatched.
ClearTimesOut(t) ==
    /\ t \in Clears /\ lane.outcome[t] = "queued" /\ timeouts < MaxTimeouts
    /\ timeouts' = timeouts + 1
    /\ Did([Dequeue(lane, t) EXCEPT !.outcome[t] = IF InQueue(t) THEN "gone" ELSE "done"], wake)
    /\ UNCHANGED <<slice, toClient, switcher, turns, refusals, sessions>>

\* An upload's caller just stops waiting.
UploadTimesOut(t) ==
    /\ t \in Uploads /\ lane.outcome[t] = "queued" /\ timeouts < MaxTimeouts
    /\ timeouts' = timeouts + 1
    /\ lane' = [lane EXCEPT !.outcome[t] = "gone"]
    /\ UNCHANGED <<wake, slice, toSwitcher, toClient, switcher, turns, refusals, sessions>>

---------------------------------------------------------------------------
(* External: the switcher, and another client of its still store *)

\* The lock given back goes to a waiter, which is often not announced.
HandsOver(to) ==
    /\ holder' = to /\ waiting' = waiting \ {to}
    /\ news' \in IF to = "free" THEN {Append(news, LKST(FALSE))}
                 ELSE {news, news \o <<LKST(FALSE), LKST(TRUE)>>}

\* The full lock is not waited for: asked for while another client holds it, it is ignored.
HearsAsk(full) ==
    /\ \/ holder = "free" /\ holder' = "us" /\ news' = Append(news, LKST(TRUE))
          /\ toClient' = Append(toClient, LKOB) /\ UNCHANGED waiting
       \/ holder = "us" /\ UNCHANGED <<holder, waiting, news, toClient>>
       \/ /\ holder = "other"
          /\ waiting' = IF full THEN waiting ELSE waiting \cup {"us"}
          /\ UNCHANGED <<holder, news, toClient>>
    /\ UNCHANGED <<job, served, refusals>>

HearsUnlock ==
    /\ IF holder = "us" THEN HandsOver(IF "other" \in waiting THEN "other" ELSE "free")
                        ELSE UNCHANGED <<holder, waiting, news>>
    /\ UNCHANGED <<toClient, job, served, refusals>>

\* Without the lock a clear is ignored.
HearsClear(t) ==
    /\ served' = IF holder = "us" THEN served \cup {t} ELSE served
    /\ UNCHANGED <<toClient, holder, waiting, news, job, refusals>>

Idle == [tid |-> 0, task |-> None, data |-> FALSE]

\* Refused: without the lock (5), with a transfer under way (1), and otherwise now and then:
\* busy with another client's (1), asked for the store by one (6), or for good (2).
Refuses(t, id) ==
    \/ /\ Store(t) = "still" /\ holder # "us"
       /\ toClient' = Append(toClient, FTDE(id, 5))
       /\ UNCHANGED refusals
    \/ /\ Store(t) = "still" => holder = "us"
       /\ job # Idle
       /\ toClient' = Append(toClient, FTDE(id, 1))
       /\ UNCHANGED refusals
    \/ /\ Store(t) = "still" => holder = "us"
       /\ job = Idle /\ refusals < MaxRefusals
       /\ \E status \in {1, 2} \cup (IF Store(t) = "still" /\ "other" \in waiting THEN {6} ELSE {}) :
             toClient' = Append(toClient, FTDE(id, status))
       /\ refusals' = refusals + 1

HearsRequest(t, id) ==
    /\ \/ Refuses(t, id) /\ UNCHANGED job
       \/ /\ Store(t) = "still" => holder = "us"
          /\ job = Idle
          /\ job' = [tid |-> id, task |-> t, data |-> t \in Downloads]
          /\ toClient' = IF t \in Uploads THEN Append(toClient, FTCD) ELSE Append(toClient, FTDa(id))
          /\ UNCHANGED refusals
    /\ UNCHANGED <<holder, waiting, news, served>>

HearsData(id) ==
    /\ job' = IF job.tid = id THEN [job EXCEPT !.data = TRUE] ELSE job
    /\ UNCHANGED <<toClient, holder, waiting, news, served, refusals>>

Hears(msg) ==
    CASE msg.type = "PLCK"    -> HearsAsk(FALSE)
      [] msg.type = "LOCK"    -> HearsAsk(TRUE)
      [] msg.type = "unlock"  -> HearsUnlock
      [] msg.type = "CSTL"    -> HearsClear(msg.task)
      [] msg.type = "request" -> HearsRequest(msg.task, msg.tid)
      [] msg.type = "data"    -> HearsData(msg.tid)

SwitcherHears ==
    /\ toSwitcher # <<>>
    /\ Hears(Head(toSwitcher))
    /\ toSwitcher' = Tail(toSwitcher)
    /\ UNCHANGED <<lane, wake, slice, turns, timeouts, sessions>>

\* The transfer is complete, and every session is told.
JobEnds ==
    /\ job # Idle /\ job.data
    /\ job' = Idle /\ served' = served \cup {job.task}
    /\ toClient' = Append(toClient, FTDC(job.tid))
    /\ UNCHANGED <<lane, wake, slice, toSwitcher, holder, waiting, news, counts>>

\* An upload whose data does not come is dropped in the end.
JobDropped ==
    /\ job # Idle /\ ~job.data
    /\ ~(lane.transfer = job.task /\ lane.tid = job.tid)
    /\ job' = Idle
    /\ UNCHANGED <<lane, wake, slice, toSwitcher, toClient, holder, waiting, news, served, counts>>

FrameTick ==
    /\ news # <<>>
    /\ toClient' = toClient \o news /\ news' = <<>>
    /\ UNCHANGED <<lane, wake, slice, toSwitcher, holder, waiting, job, served, counts>>

OtherAsks ==
    /\ turns < MaxTurns /\ holder # "other" /\ "other" \notin waiting
    /\ turns' = turns + 1
    /\ IF holder = "free"
       THEN holder' = "other" /\ news' = Append(news, LKST(TRUE)) /\ UNCHANGED waiting
       ELSE waiting' = waiting \cup {"other"} /\ UNCHANGED <<holder, news>>
    /\ UNCHANGED <<lane, wake, slice, toSwitcher, toClient, job, served, refusals, timeouts, sessions>>

\* Its transfer is complete, or it had none.
OtherReleases ==
    /\ holder = "other"
    /\ HandsOver(IF "us" \in waiting THEN "us" ELSE "free")
    /\ \E done \in {<<>>, <<FTDC(0)>>} :
          toClient' = toClient \o done \o (IF "us" \in waiting THEN <<LKOB>> ELSE <<>>)
    /\ UNCHANGED <<lane, wake, slice, toSwitcher, job, served, counts>>

\* The session dies: loop() resets the lane, the switcher forgets its lock and its transfer.
SessionLost ==
    /\ sessions < MaxSessions /\ slice = NoSlice
    /\ sessions' = sessions + 1
    /\ lane' = Reset(lane) /\ toSwitcher' = <<>> /\ toClient' = <<>>
    /\ job' = Idle
    /\ holder' = IF holder # "us" THEN holder ELSE IF "other" \in waiting THEN "other" ELSE "free"
    /\ waiting' = IF holder = "us" THEN {} ELSE waiting \ {"us"}
    /\ news' = <<>>
    /\ UNCHANGED <<wake, slice, served, turns, refusals, timeouts>>

---------------------------------------------------------------------------
Init ==
    /\ lane = [queue |-> [s \in Stores |-> <<>>], locks |-> FALSE, asked |-> FALSE, foreign |-> FALSE,
               yield |-> "no", transfer |-> None, tid |-> 0, requested |-> FALSE,
               tries |-> [t \in Tasks |-> 0], retry |-> FALSE, started |-> FALSE, dataSent |-> FALSE,
               draining |-> 0, cleared |-> {}, due |-> {}, out |-> <<>>, wants |-> {},
               outcome |-> [t \in Tasks |-> "new"]]
    /\ wake = "none" /\ slice = NoSlice /\ toSwitcher = <<>> /\ toClient = <<>>
    /\ holder = "free" /\ waiting = {} /\ news = <<>> /\ job = Idle /\ served = {}
    /\ turns = 0 /\ refusals = 0 /\ timeouts = 0 /\ sessions = 1

Next ==
    \/ Receive \/ TakesSlice \/ Completes \/ WakeFires \/ CallerWakes
    \/ \E c \in Clocks : Elapse(c)
    \/ \E t \in Tasks : CallerQueues(t)
    \/ \E t \in Tasks : DownloadTimesOut(t) \/ ClearTimesOut(t) \/ UploadTimesOut(t)
    \/ SwitcherHears \/ JobEnds \/ JobDropped \/ FrameTick
    \/ OtherAsks \/ OtherReleases
    \/ SessionLost

Spec == Init /\ [][Next]_vars

\* The worker and the clocks run; the switcher answers, and the other client's turn ends.
Fairness ==
    /\ WF_vars(Receive \/ TakesSlice \/ Completes)
    /\ WF_vars(WakeFires)
    /\ WF_vars(\E c \in Clocks : Elapse(c))
    /\ WF_vars(SwitcherHears \/ JobEnds \/ JobDropped \/ FrameTick \/ OtherReleases)

FairSpec == Spec /\ Fairness

---------------------------------------------------------------------------
(* Properties *)

\* Type invariant of the lane, the wires and the switcher.
TypeOK ==
    /\ lane \in LaneType /\ lane.draining <= lane.tid
    /\ \A s \in Stores : Range(lane.queue[s]) \subseteq {t \in Tasks : Store(t) = s}
    /\ lane.due \subseteq {c \in Clocks : Running(c)}
    /\ wake \in {"none", "try", "other"} /\ holder \in {"free", "us", "other"}
    /\ waiting \subseteq {"us", "other"} \ {holder}

\* Everything that is on its way has arrived, and the lane has nothing left to do.
Quiet ==
    /\ toSwitcher = <<>> /\ toClient = <<>> /\ slice = NoSlice
    /\ \A t \in Tasks : ~InQueue(t)
    /\ lane.transfer = None /\ lane.draining = 0

\* What the FTDC handler pops is the transfer that ended: a transfer under way is at the head
\* of its queue, whatever was refused, dequeued, aborted or drained meanwhile.
HeadIsTransfer ==
    lane.requested /\ slice = NoSlice =>
        /\ lane.queue[Store(lane.transfer)] # <<>>
        /\ Head(lane.queue[Store(lane.transfer)]) = lane.transfer

\* A download or upload that is reported done was carried out by the switcher: no late FTDC of
\* an aborted transfer, or of another client's, completes it.
DoneWasServed == \A t \in Tasks \ Clears : lane.outcome[t] = "done" => t \in served

\* The lane never goes quiet with the still store's lock: whatever was aborted, refused, dequeued
\* or crossed another client's request, the lock of the last grant has been given back.
NoLockLeft == Quiet => holder # "us"

\* A queued task does not stay queued, without the help of any caller; but for a lane that waits
\* for a try-again, whose wake-up an earlier one can swallow.
QueueMoves == \A t \in Tasks : InQueue(t) ~> (~InQueue(t) \/ lane.retry)

\* clear_still "returns once the CSTL has been dispatched under the lock", whatever other
\* callers of the lane do meanwhile.
ReturnsOnceSent == \A t \in Clears : lane.outcome[t] = "done" => t \in lane.cleared
=============================================================================
