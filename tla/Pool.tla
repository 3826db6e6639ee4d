-------------------------------- MODULE Pool --------------------------------
(***************************************************************************)
(* ATEMInstanceManager (pool.py): one pooled, reference-counted            *)
(* ATEMConnection for an address, and the threads that use it through      *)
(* acquire_connection.  The registry is modelled for one address: the      *)
(* entries of two addresses share nothing but _instance_lock, which the    *)
(* others take for a while now and then.                                   *)
(*                                                                         *)
(* Every entry has a connection of its own, so a connection's number also  *)
(* stands for the entry dict a caller holds.                               *)
(***************************************************************************)
EXTENDS Connection, FiniteSets

CONSTANTS
    OtherAddresses,  \* whether the process has sessions to other switchers
    MaxFired         \* bound: timer callbacks waiting for _instance_lock at once

ASSUME PoolAssumption ==
    /\ MaxFired \in Nat \ {0} /\ IsFiniteSet(Callers) /\ OtherAddresses \in BOOLEAN
    /\ {"timer", "other"} \cap (Callers \cup {Free}) = {}

VARIABLES
    entry,      \* the connection of _instances[ip], or 0
    made,       \* connections made so far
    refCount, state,
    timer,      \* disconnect_timer: none, armed, or fired (its callback has begun)
    fired,      \* _delayed_disconnect callbacks waiting for _instance_lock
    lock,       \* who keeps _instance_lock across a disconnect(): a caller that
                \* evicts, "timer", "other" (somebody busy with another address) or
                \* Free; every other use of it is one step
    phase,      \* caller -> where it is in acquire_connection
    held        \* caller -> the entry it got, by its connection, or 0

registry == <<entry, made, refCount, state, timer>>
vars == <<connectionVars, registry, fired, lock, phase, held>>

Phases == {"idle", "evicting", "check", "connect", "connecting", "await", "use", "release"}

Goto(h, p) == phase' = [phase EXCEPT ![h] = p]

HoldersOf(c) == {h \in Callers : held[h] = c}

---------------------------------------------------------------------------
(* get_instance *)

\* Every successful get ends here: one reference more, to this entry.
TakeRef(h, c) ==
    /\ held' = [held EXCEPT ![h] = c]
    /\ Goto(h, "check")

\* No entry: a fresh connection.
GetFresh(h) ==
    /\ phase[h] = "idle" /\ lock = Free
    /\ entry = 0 /\ made < MaxConns
    /\ made' = made + 1 /\ entry' = made + 1 /\ refCount' = 1
    /\ state' = "active" /\ timer' = "none"
    /\ TakeRef(h, made + 1)
    /\ UNCHANGED <<connectionVars, fired, lock>>

\* _worker is set and not alive
LooksDead(c) == worker[c] # "none" /\ ~Alive(c)

\* An entry: cancel its pending disconnect.
GetWarm(h) ==
    /\ phase[h] = "idle" /\ lock = Free /\ entry # 0
    /\ ~(LooksDead(entry) /\ state = "active")
    /\ refCount' = refCount + 1
    /\ state' = IF timer = "none" THEN state ELSE "active"
    /\ timer' = "none"
    /\ TakeRef(h, entry)
    /\ UNCHANGED <<connectionVars, entry, made, fired, lock>>

\* _evict_dead_locked: disconnect() waits for _lifecycle_lock with _instance_lock held.
EvictBegin(h) ==
    /\ phase[h] = "idle" /\ lock = Free /\ entry # 0 /\ made < MaxConns
    /\ LooksDead(entry) /\ state = "active"
    /\ lock' = h
    /\ timer' = "none"
    /\ Goto(h, "evicting")
    /\ UNCHANGED <<connectionVars, entry, made, refCount, state, fired, held>>

EvictEnd(h) ==
    /\ phase[h] = "evicting"
    /\ Disconnect(entry, TRUE)
    /\ made' = made + 1 /\ entry' = made + 1 /\ refCount' = 1
    /\ state' = "active" /\ timer' = "none"
    /\ TakeRef(h, made + 1)
    /\ lock' = Free
    /\ UNCHANGED fired

---------------------------------------------------------------------------
(* release_instance(ip, instance=...) *)

\* Mutant: the release does not look whose entry it is.
ReleaseByAddress(h) ==
    /\ phase[h] = "release" /\ lock = Free
    /\ IF entry # 0 /\ refCount > 0
       THEN /\ refCount' = refCount - 1
            /\ state' = IF refCount = 1 THEN "draining" ELSE state
            /\ timer' = IF refCount = 1 THEN "armed" ELSE timer
       ELSE UNCHANGED <<refCount, state, timer>>
    /\ held' = [held EXCEPT ![h] = 0]
    /\ Goto(h, "idle")
    /\ UNCHANGED <<connectionVars, entry, made, fired, lock>>

\* Mutant: a reference is given back whatever the count is.
ReleaseUnguarded(h) ==
    /\ phase[h] = "release" /\ lock = Free
    /\ IF entry # 0
       THEN /\ refCount' = refCount - 1
            /\ state' = IF refCount = 1 THEN "draining" ELSE state
            /\ timer' = IF refCount = 1 THEN "armed" ELSE timer
       ELSE UNCHANGED <<refCount, state, timer>>
    /\ held' = [held EXCEPT ![h] = 0]
    /\ Goto(h, "idle")
    /\ UNCHANGED <<connectionVars, entry, made, fired, lock>>

\* Mutant: the last reference arms no timer.
ReleaseWithoutTimer(h) ==
    /\ phase[h] = "release" /\ lock = Free
    /\ IF entry # 0 /\ entry = held[h] /\ refCount > 0
       THEN /\ refCount' = refCount - 1
            /\ state' = IF refCount = 1 THEN "draining" ELSE state
       ELSE UNCHANGED <<refCount, state>>
    /\ held' = [held EXCEPT ![h] = 0]
    /\ Goto(h, "idle")
    /\ UNCHANGED <<connectionVars, entry, made, timer, fired, lock>>

Release(h) ==
    /\ phase[h] = "release" /\ lock = Free
    /\ IF entry # 0 /\ entry = held[h] /\ refCount > 0
       THEN /\ refCount' = refCount - 1
            /\ state' = IF refCount = 1 THEN "draining" ELSE state
            /\ timer' = IF refCount = 1 THEN "armed" ELSE timer
       ELSE UNCHANGED <<refCount, state, timer>>
    /\ held' = [held EXCEPT ![h] = 0]
    /\ Goto(h, "idle")
    /\ UNCHANGED <<connectionVars, entry, made, fired, lock>>

---------------------------------------------------------------------------
(* The grace timer *)

TimerFires ==
    /\ timer = "armed" /\ fired < MaxFired
    /\ timer' = "fired" /\ fired' = fired + 1
    /\ UNCHANGED <<connectionVars, entry, made, refCount, state, lock, phase, held>>

\* _delayed_disconnect finds nothing to do: no entry, or a new reference.
TimerBails ==
    /\ fired > 0 /\ lock = Free
    /\ entry = 0 \/ refCount > 0
    /\ fired' = fired - 1
    /\ UNCHANGED <<connectionVars, registry, lock, phase, held>>

\* Mutant: the callback does not look at the reference count.
TeardownBlindly ==
    /\ fired > 0 /\ lock = Free /\ entry # 0
    /\ fired' = fired - 1
    /\ state' = "tearing_down" /\ lock' = "timer"
    /\ UNCHANGED <<connectionVars, entry, made, refCount, timer, phase, held>>

TeardownBegin ==
    /\ fired > 0 /\ lock = Free
    /\ entry # 0 /\ refCount = 0
    /\ fired' = fired - 1
    /\ state' = "tearing_down" /\ lock' = "timer"
    /\ UNCHANGED <<connectionVars, entry, made, refCount, timer, phase, held>>

\* The entry leaves the registry.
Forget == entry' = 0 /\ refCount' = 0 /\ state' = "active" /\ timer' = "none" /\ UNCHANGED made

TeardownEnd ==
    /\ lock = "timer"
    /\ Disconnect(entry, TRUE)
    /\ Forget
    /\ lock' = Free
    /\ UNCHANGED <<fired, phase, held>>

---------------------------------------------------------------------------
(* _on_connection_died, on the worker's thread *)

\* Mutant: whatever entry the address has is evicted.
OnDiedEvictsAny(c) ==
    /\ c \in diedPending /\ lock = Free
    /\ diedPending' = diedPending \ {c}
    /\ Forget
    /\ UNCHANGED <<worker, sessionReady, lifecycle, fired, lock, phase, held>>

OnConnectionDied(c) ==
    /\ c \in diedPending /\ lock = Free
    /\ diedPending' = diedPending \ {c}
    /\ IF entry = c THEN Forget ELSE UNCHANGED registry
    /\ UNCHANGED <<worker, sessionReady, lifecycle, fired, lock, phase, held>>

---------------------------------------------------------------------------
(* The registry's lock, in use for another address: a teardown or an eviction there *)

OtherAddressTakesLock ==
    /\ OtherAddresses
    /\ lock = Free /\ lock' = "other"
    /\ UNCHANGED <<connectionVars, registry, fired, phase, held>>

OtherAddressFreesLock ==
    /\ lock = "other" /\ lock' = Free
    /\ UNCHANGED <<connectionVars, registry, fired, phase, held>>

---------------------------------------------------------------------------
(* acquire_connection after get_instance *)

Busy == lock # Free

CheckConnected(h) ==
    /\ phase[h] = "check"
    /\ Goto(h, IF IsConnected(held[h]) THEN "await" ELSE "connect")
    /\ UNCHANGED <<connectionVars, registry, fired, lock, held>>

\* conn.connect(ip)
Connect(h) ==
    /\ phase[h] = "connect"
    /\ \/ ConnectJoin(held[h]) /\ Goto(h, "await")
       \/ ConnectStart(h, held[h], Busy) /\ Goto(h, "connecting")
    /\ UNCHANGED <<registry, fired, lock, held>>

ConnectReturns(h) ==
    /\ phase[h] = "connecting"
    /\ \/ ConnectSucceeds(h, held[h]) /\ Goto(h, "await")
       \/ ConnectFails(h, held[h], Busy) /\ Goto(h, "release")
    /\ UNCHANGED <<registry, fired, lock, held>>

\* wait_until_ready: the connection is yielded.
Yielded(h) ==
    /\ phase[h] = "await" /\ IsReady(held[h])
    /\ Goto(h, "use")
    /\ UNCHANGED <<connectionVars, registry, fired, lock, held>>

\* ... or the session was lost, or ready_timeout passed.
NotReady(h) ==
    /\ phase[h] = "await" /\ ~IsReady(held[h])
    /\ Goto(h, "release")
    /\ UNCHANGED <<connectionVars, registry, fired, lock, held>>

\* The caller leaves the with block.
Leave(h) ==
    /\ phase[h] = "use"
    /\ Goto(h, "release")
    /\ UNCHANGED <<connectionVars, registry, fired, lock, held>>

Caller(h) ==
    \/ GetFresh(h) \/ GetWarm(h) \/ EvictBegin(h) \/ EvictEnd(h)
    \/ CheckConnected(h) \/ Connect(h) \/ ConnectReturns(h)
    \/ Yielded(h) \/ NotReady(h) \/ Leave(h) \/ Release(h)

Init ==
    /\ ConnectionInit
    /\ entry = 0 /\ made = 0 /\ refCount = 0 /\ state = "active" /\ timer = "none"
    /\ fired = 0 /\ lock = Free
    /\ phase = [h \in Callers |-> "idle"]
    /\ held = [h \in Callers |-> 0]

Worker(c) == WorkerStep(c) /\ UNCHANGED <<registry, fired, lock, phase, held>>

Next ==
    \/ \E h \in Callers : Caller(h)
    \/ TimerFires \/ TimerBails \/ TeardownBegin \/ TeardownEnd
    \/ OtherAddressTakesLock \/ OtherAddressFreesLock
    \/ \E c \in Conns : Worker(c) \/ OnConnectionDied(c)

Spec == Init /\ [][Next]_vars

\* A caller past get_instance: it goes on whenever it can.
CallerRuns(h) ==
    \/ EvictEnd(h) \/ CheckConnected(h) \/ Connect(h) \/ ConnectReturns(h)
    \/ Yielded(h) \/ NotReady(h) \/ Leave(h) \/ Release(h)

\* Threads run, and a lock that is free again and again is got in the end; connects end
\* (every wait in wait_ready has a deadline); a caller leaves its with block.
Fairness ==
    /\ WF_vars(TimerFires) /\ SF_vars(TimerBails \/ TeardownBegin) /\ WF_vars(TeardownEnd)
    /\ WF_vars(OtherAddressFreesLock)
    /\ \A h \in Callers : SF_vars(CallerRuns(h))
    /\ \A c \in Conns :
          /\ WF_vars(Worker(c) /\ worker[c] \in {"new", "hello"})
          /\ SF_vars(OnConnectionDied(c))

FairSpec == Spec /\ Fairness

---------------------------------------------------------------------------
(* Properties *)

\* Type invariant: the registry, the timers, the locks and the callers stay in their
\* domains; in particular the reference count never goes below zero.
TypeOK ==
    /\ ConnectionTypeOK
    /\ entry \in 0..made /\ made \in 0..MaxConns
    /\ refCount \in 0..Cardinality(Callers)
    /\ state \in {"active", "draining", "tearing_down"}
    /\ timer \in {"none", "armed", "fired"}
    /\ fired \in 0..MaxFired
    /\ lock \in Callers \cup {"timer", "other", Free}
    /\ phase \in [Callers -> Phases]
    /\ held \in [Callers -> 0..made]

\* The reference count is the number of callers that hold this very entry: no release
\* takes a reference from the holders of an entry that replaced its own.
RefCounted == entry # 0 => refCount = Cardinality(HoldersOf(entry))

\* The grace timer tears an entry down only while nobody holds it, and then no caller is
\* inside connect() on its connection: the teardown does not wait with _instance_lock held.
TeardownUnheld ==
    lock = "timer" => HoldersOf(entry) = {} /\ lifecycle[entry] = Free

\* A connection nobody holds and that is in the registry has its timer running, or its
\* callback on the way: nothing else would ever close the session.
IdleHasTimer == entry # 0 /\ refCount = 0 /\ lock # "timer" => timer # "none"

\* The death of a worker takes its own entry out of the registry, never the one that
\* replaced it: but for its grace, and an eviction, an entry leaves only by its own death.
LeavesByItsOwnDeath ==
    [][entry # 0 /\ entry' = 0 /\ lock # "timer" => entry \in diedPending]_vars

\* A pooled session nobody wants is closed: the registry forgets an idle entry, unless
\* someone takes it up again.
IdleIsClosed == (entry # 0 /\ refCount = 0) ~> (entry = 0 \/ refCount > 0)

\* Every acquire_connection comes to its end, whatever dies meanwhile: the two locks, the
\* join and the on_died callback never wait for each other in a circle.
EveryCallReturns == \A h \in Callers : (phase[h] # "idle") ~> (phase[h] = "idle")

\* "When the last reference goes away the connection is torn down": an open session is in
\* the registry or in somebody's hands.
NoOrphan == \A c \in Conns : SessionOpen(c) => entry = c \/ HoldersOf(c) # {}
=============================================================================
