----------------------------- MODULE PoolProofs -----------------------------
(***************************************************************************)
(* Proofs about Pool, for any finite set of callers and any number of      *)
(* connections: the reference count is the number of holders, a teardown   *)
(* finds nobody holding or connecting, an idle entry has its timer, and    *)
(* an entry leaves by its own death only.                                  *)
(***************************************************************************)
EXTENDS Pool, FiniteSetTheorems, TLAPS

---------------------------------------------------------------------------
(* The inductive invariant *)

\* What a caller holds follows from where it is.
HeldInv == \A h \in Callers : held[h] = 0 <=> phase[h] \in {"idle", "evicting"}

\* _lifecycle_lock is kept by the caller inside connect() only.
LifecycleInv ==
    \A c \in Conns : lifecycle[c] # Free =>
        phase[lifecycle[c]] = "connecting" /\ held[lifecycle[c]] = c

\* _instance_lock is kept by the one that disconnects the entry.
LockInv ==
    /\ \A h \in Callers : phase[h] = "evicting" <=> lock = h
    /\ lock \in Callers => entry # 0 /\ made < MaxConns
    /\ lock = "timer" => entry # 0 /\ refCount = 0

\* An entry without references is not active, and has its timer.
CountInv ==
    /\ RefCounted
    /\ entry = 0 => refCount = 0
    /\ entry # 0 /\ refCount = 0 => state # "active"
    /\ IdleHasTimer

PoolInv == TypeOK /\ HeldInv /\ LifecycleInv /\ LockInv /\ CountInv

---------------------------------------------------------------------------
(* Counting the holders of an entry *)

\* The callers that hold an entry are counted by a number.
LEMMA HoldersFinite ==
    ASSUME NEW c
    PROVE  /\ IsFiniteSet(HoldersOf(c)) /\ Cardinality(HoldersOf(c)) \in Nat
           /\ Cardinality(HoldersOf(c)) <= Cardinality(Callers)
           /\ Cardinality(Callers) \in Nat
<1>1. HoldersOf(c) \subseteq Callers
  BY DEF HoldersOf
<1> QED BY <1>1, PoolAssumption, FS_Subset, FS_CardinalityType

\* A caller that held nothing takes the entry: one holder more.
LEMMA TakeCounts ==
    ASSUME held \in [Callers -> Nat], NEW h \in Callers, NEW c \in Nat \ {0}, held[h] = 0,
           held' = [held EXCEPT ![h] = c]
    PROVE  Cardinality(HoldersOf(c)') = Cardinality(HoldersOf(c)) + 1
<1>1. HoldersOf(c)' = HoldersOf(c) \cup {h} /\ h \notin HoldersOf(c)
  BY DEF HoldersOf
<1>2. HoldersOf(c) \cup {h} \in SUBSET Callers
  BY DEF HoldersOf
<1> QED BY <1>1, HoldersFinite, FS_AddElement, SMTT(30)

\* A holder gives the entry back: one holder less.
LEMMA GiveCounts ==
    ASSUME held \in [Callers -> Nat], NEW h \in Callers, NEW c \in Nat \ {0}, held[h] = c,
           held' = [held EXCEPT ![h] = 0]
    PROVE  Cardinality(HoldersOf(c)') = Cardinality(HoldersOf(c)) - 1
<1>1. HoldersOf(c)' = HoldersOf(c) \ {h} /\ h \in HoldersOf(c)
  BY DEF HoldersOf
<1> QED BY <1>1, HoldersFinite, FS_RemoveElement

\* Nobody else holds the entry: no holders of it are gained or lost.
LEMMA OthersCount ==
    ASSUME held \in [Callers -> Nat], NEW h \in Callers, NEW c \in Nat \ {0},
           NEW d \in Nat, held' = [held EXCEPT ![h] = d], held[h] # c, d # c
    PROVE  HoldersOf(c)' = HoldersOf(c)
BY DEF HoldersOf

\* No holders: the set is empty.
LEMMA NoneCounted ==
    ASSUME NEW c, Cardinality(HoldersOf(c)) = 0
    PROVE  HoldersOf(c) = {}
BY HoldersFinite, FS_EmptySet

---------------------------------------------------------------------------
(* The steps *)

\* The registry's counters are numbers.
LEMMA HeldType == ASSUME TypeOK PROVE held \in [Callers -> Nat] /\ entry \in Nat /\ made \in Nat
BY ConnectionAssumption DEF TypeOK

\* No step of a worker's thread touches the registry, the callers or the locks.
LEMMA WorkerKeeps ==
    ASSUME PoolInv, NEW c \in Conns, Worker(c)
    PROVE  PoolInv'
<1>1. ConnectionTypeOK' /\ lifecycle' = lifecycle
  BY DEF PoolInv, TypeOK, ConnectionTypeOK, WorkerStates, Worker, WorkerStep, WorkerStart,
         HandshakeDone, HandshakeFails, WorkerDies, Rehandshake, Recovered
<1>2. /\ UNCHANGED <<entry, made, refCount, state, timer, fired, lock, phase, held>>
      /\ UNCHANGED RefCounted
  BY DEF Worker, registry, RefCounted, HoldersOf
<1>3. TypeOK'
  BY <1>1, <1>2 DEF PoolInv, TypeOK
<1> QED BY <1>1, <1>2, <1>3 DEF PoolInv, HeldInv, LifecycleInv, LockInv, CountInv, IdleHasTimer

\* A caller on its way to the place p takes the _lifecycle_lock of what it holds, gives it
\* back, or has nothing to do with it.
LifecycleMoves(h, p) ==
    \A c \in Conns : \/ lifecycle'[c] = lifecycle[c] /\ lifecycle[c] # h
                     \/ lifecycle'[c] = Free
                     \/ lifecycle'[c] = h /\ c = held[h] /\ p = "connecting"

\* A caller moves on from one place in acquire_connection to another, keeping what it holds.
LEMMA MoveKeeps ==
    ASSUME PoolInv, NEW h \in Callers, NEW p \in Phases \ {"idle", "evicting"},
           phase[h] \notin {"idle", "evicting"}, Goto(h, p),
           UNCHANGED <<registry, fired, lock, held>>,
           ConnectionTypeOK', LifecycleMoves(h, p)
    PROVE  PoolInv'
<1>1. phase' \in [Callers -> Phases] /\ phase'[h] = p /\ \A g \in Callers \ {h} : phase'[g] = phase[g]
  BY DEF Goto, PoolInv, TypeOK
<1>2. UNCHANGED <<entry, made, refCount, state, timer, fired, lock, held>> /\ UNCHANGED RefCounted
  BY DEF registry, RefCounted, HoldersOf
<1>3. TypeOK'
  BY <1>1, <1>2 DEF PoolInv, TypeOK
<1>4. HeldInv'
  BY <1>1, <1>2 DEF PoolInv, HeldInv
<1>5. LifecycleInv'
  <2> SUFFICES ASSUME NEW c \in Conns, lifecycle'[c] # Free
               PROVE  phase'[lifecycle'[c]] = "connecting" /\ held'[lifecycle'[c]] = c
    BY DEF LifecycleInv
  <2>0. \/ lifecycle'[c] = lifecycle[c] /\ lifecycle[c] # h
        \/ lifecycle'[c] = h /\ c = held[h] /\ p = "connecting"
    BY DEF LifecycleMoves
  <2>1. CASE lifecycle'[c] = lifecycle[c] /\ lifecycle[c] # h
    <3>1. lifecycle[c] \in Callers
      BY <2>1 DEF PoolInv, TypeOK, ConnectionTypeOK
    <3> QED BY <2>1, <3>1, <1>1, <1>2 DEF PoolInv, LifecycleInv
  <2>2. CASE lifecycle'[c] = h /\ c = held[h] /\ p = "connecting"
    BY <2>2, <1>1, <1>2
  <2> QED BY <2>0, <2>1, <2>2
<1>6. LockInv'
  BY <1>1, <1>2 DEF PoolInv, LockInv
<1> QED BY <1>2, <1>3, <1>4, <1>5, <1>6 DEF PoolInv, CountInv, IdleHasTimer

\* A fresh connection with one holder: nobody held it before.
LEMMA FreshKeeps ==
    ASSUME PoolInv, NEW h \in Callers, phase[h] \in {"idle", "evicting"}, made < MaxConns,
           made' = made + 1, entry' = made + 1, refCount' = 1,
           state' = "active", timer' = "none", TakeRef(h, made + 1),
           lock \in {Free, h}, lock' = Free, UNCHANGED <<fired, lifecycle>>, ConnectionTypeOK'
    PROVE  PoolInv'
<1>1. /\ phase' \in [Callers -> Phases] /\ phase'[h] = "check"
      /\ \A g \in Callers \ {h} : phase'[g] = phase[g]
  BY DEF TakeRef, Goto, PoolInv, TypeOK, Phases
<1>2. made \in Nat /\ made + 1 \in 1..MaxConns
  BY ConnectionAssumption DEF PoolInv, TypeOK
<1>3. held \in [Callers -> 0..made] /\ held[h] = 0
  BY DEF PoolInv, TypeOK, HeldInv
<1>4. /\ held' \in [Callers -> 0..made+1] /\ held'[h] = made + 1
      /\ \A g \in Callers \ {h} : held'[g] = held[g]
  BY <1>2, <1>3 DEF TakeRef
<1>5. HoldersOf(made + 1) = {}
  BY <1>2, <1>3 DEF HoldersOf
<1>6. HoldersOf(entry)' = {h}
  BY <1>2, <1>3, <1>4 DEF HoldersOf
<1>7. Cardinality(HoldersOf(entry)') = 1
  BY <1>6, FS_Singleton
<1>8. 1 <= Cardinality(Callers)
  <2>1. {h} \subseteq Callers
    OBVIOUS
  <2>2. Cardinality({h}) = 1 /\ Cardinality({h}) <= Cardinality(Callers)
    BY <2>1, FS_Singleton, FS_Subset, PoolAssumption
  <2> QED BY <2>2
<1>9. TypeOK'
  BY <1>1, <1>2, <1>4, <1>8, HoldersFinite DEF PoolInv, TypeOK
<1>10. HeldInv'
  BY <1>1, <1>2, <1>4 DEF PoolInv, HeldInv
<1>11. LifecycleInv'
  <2> SUFFICES ASSUME NEW c \in Conns, lifecycle[c] # Free
               PROVE  phase'[lifecycle[c]] = "connecting" /\ held'[lifecycle[c]] = c
    BY DEF LifecycleInv
  <2>1. lifecycle[c] \in Callers /\ lifecycle[c] # h
    BY DEF PoolInv, TypeOK, ConnectionTypeOK, LifecycleInv
  <2> QED BY <2>1, <1>1, <1>4 DEF PoolInv, LifecycleInv
<1>12. LockInv'
  <2>1. \A g \in Callers : phase'[g] = "evicting" <=> lock' = g
    <3> SUFFICES ASSUME NEW g \in Callers PROVE phase'[g] # "evicting"
      BY ConnectionAssumption
    <3>1. CASE g = h
      BY <3>1, <1>1
    <3>2. CASE g # h
      <4>1. lock # g
        BY <3>2, ConnectionAssumption
      <4> QED BY <4>1, <3>2, <1>1 DEF PoolInv, LockInv
    <3> QED BY <3>1, <3>2
  <2> QED BY <2>1, ConnectionAssumption, PoolAssumption DEF LockInv
<1>13. CountInv'
  BY <1>2, <1>7 DEF CountInv, RefCounted, IdleHasTimer
<1> QED BY <1>9, <1>10, <1>11, <1>12, <1>13 DEF PoolInv

\* A caller that finds its connection keeps the invariant,
LEMMA WarmKeeps ==
    ASSUME PoolInv, NEW h \in Callers, GetWarm(h)
    PROVE  PoolInv'
<1>1. /\ phase' \in [Callers -> Phases] /\ phase'[h] = "check" /\ phase[h] = "idle"
      /\ \A g \in Callers \ {h} : phase'[g] = phase[g]
  BY DEF GetWarm, TakeRef, Goto, PoolInv, TypeOK, Phases
<1>2. /\ UNCHANGED <<connectionVars, entry, made, fired, lock>> /\ lock = Free /\ entry # 0
      /\ timer' = "none" /\ state' \in {"active", state} /\ refCount' = refCount + 1
  BY DEF GetWarm
<1>3. held \in [Callers -> 0..made] /\ held[h] = 0 /\ entry \in 1..made /\ made \in 0..MaxConns
  BY <1>1, <1>2, ConnectionAssumption DEF PoolInv, TypeOK, HeldInv
<1>4. held' = [held EXCEPT ![h] = entry] /\ held' \in [Callers -> 0..made]
  BY <1>3, ConnectionAssumption DEF GetWarm, TakeRef
<1>5. Cardinality(HoldersOf(entry)') = Cardinality(HoldersOf(entry)) + 1
  <2>1. PICK c \in Nat \ {0} : c = entry
    BY <1>3, ConnectionAssumption
  <2>2. held \in [Callers -> Nat] /\ held[h] = 0 /\ held' = [held EXCEPT ![h] = c]
    BY <2>1, <1>3, <1>4, HeldType DEF PoolInv
  <2>3. Cardinality(HoldersOf(c)') = Cardinality(HoldersOf(c)) + 1
    BY <2>2, TakeCounts
  <2>4. HoldersOf(c)' = HoldersOf(entry)'
    BY <2>1, <1>2 DEF HoldersOf
  <2> QED BY <2>1, <2>3, <2>4
<1>6. refCount' = Cardinality(HoldersOf(entry)') /\ refCount' \in Nat /\ refCount' # 0
  BY <1>2, <1>5, HoldersFinite DEF PoolInv, CountInv, RefCounted
<1>7. Cardinality(HoldersOf(entry)') <= Cardinality(Callers)
  <2>1. HoldersOf(entry)' \subseteq Callers
    BY DEF HoldersOf
  <2> QED BY <2>1, PoolAssumption, FS_Subset
<1>8. TypeOK'
  BY <1>1, <1>2, <1>3, <1>4, <1>6, <1>7, HoldersFinite DEF PoolInv, TypeOK, connectionVars, ConnectionTypeOK
<1>9. HeldInv'
  BY <1>1, <1>2, <1>3, <1>4 DEF PoolInv, HeldInv
<1>10. LifecycleInv'
  <2> SUFFICES ASSUME NEW c \in Conns, lifecycle[c] # Free
               PROVE  phase'[lifecycle[c]] = "connecting" /\ held'[lifecycle[c]] = c
    BY <1>2 DEF LifecycleInv, connectionVars
  <2>1. lifecycle[c] \in Callers /\ lifecycle[c] # h
    BY <1>1 DEF PoolInv, TypeOK, ConnectionTypeOK, LifecycleInv
  <2> QED BY <2>1, <1>1, <1>3, <1>4 DEF PoolInv, LifecycleInv
<1>11. LockInv'
  BY <1>1, <1>2, ConnectionAssumption, PoolAssumption DEF PoolInv, LockInv
<1>12. CountInv'
  BY <1>2, <1>6 DEF CountInv, RefCounted, IdleHasTimer
<1> QED BY <1>8, <1>9, <1>10, <1>11, <1>12 DEF PoolInv

\* The registry, the timer and the count stay; only the lock and the callers' places change.
LEMMA EvictBeginKeeps ==
    ASSUME PoolInv, NEW h \in Callers, EvictBegin(h)
    PROVE  PoolInv'
<1>1. /\ phase' \in [Callers -> Phases] /\ phase'[h] = "evicting" /\ phase[h] = "idle"
      /\ \A g \in Callers \ {h} : phase'[g] = phase[g]
  BY DEF EvictBegin, Goto, PoolInv, TypeOK, Phases
<1>2. /\ UNCHANGED <<connectionVars, entry, made, refCount, state, fired, held>>
      /\ lock = Free /\ lock' = h /\ timer' = "none" /\ entry # 0 /\ state = "active"
      /\ made < MaxConns
  BY DEF EvictBegin
<1>3. TypeOK'
  BY <1>1, <1>2 DEF PoolInv, TypeOK, connectionVars, ConnectionTypeOK
<1>4. HeldInv'
  BY <1>1, <1>2 DEF PoolInv, HeldInv
<1>5. LifecycleInv'
  <2> SUFFICES ASSUME NEW c \in Conns, lifecycle[c] # Free
               PROVE  phase'[lifecycle[c]] = "connecting" /\ held[lifecycle[c]] = c
    BY <1>2 DEF LifecycleInv, connectionVars
  <2>1. lifecycle[c] \in Callers /\ lifecycle[c] # h
    BY <1>1 DEF PoolInv, TypeOK, ConnectionTypeOK, LifecycleInv
  <2> QED BY <2>1, <1>1 DEF PoolInv, LifecycleInv
<1>6. LockInv'
  <2>1. \A g \in Callers : phase'[g] = "evicting" <=> lock' = g
    BY <1>1, <1>2, ConnectionAssumption DEF PoolInv, LockInv
  <2>2. lock' # "timer"
    BY <1>2, PoolAssumption
  <2> QED BY <2>1, <2>2, <1>2 DEF LockInv
<1>7. CountInv'
  <2>1. UNCHANGED RefCounted
    BY <1>2 DEF RefCounted, HoldersOf
  <2>2. refCount # 0
    BY <1>2 DEF PoolInv, CountInv
  <2> QED BY <2>1, <2>2, <1>2 DEF PoolInv, CountInv, IdleHasTimer
<1> QED BY <1>3, <1>4, <1>5, <1>6, <1>7 DEF PoolInv

\* and one that gives it back.
LEMMA ReleaseKeeps ==
    ASSUME PoolInv, NEW h \in Callers, Release(h)
    PROVE  PoolInv'
<1>1. /\ phase' \in [Callers -> Phases] /\ phase'[h] = "idle" /\ phase[h] = "release"
      /\ \A g \in Callers \ {h} : phase'[g] = phase[g]
  BY DEF Release, Goto, PoolInv, TypeOK, Phases
<1>2. /\ UNCHANGED <<connectionVars, entry, made, fired, lock>> /\ lock = Free
      /\ held' = [held EXCEPT ![h] = 0]
  BY DEF Release
<1>3. held \in [Callers -> 0..made] /\ held[h] # 0 /\ held \in [Callers -> Nat] /\ entry \in Nat
  BY <1>1, HeldType DEF PoolInv, TypeOK, HeldInv
<1>4. held' \in [Callers -> 0..made]
  BY <1>2, <1>3, HeldType DEF PoolInv
<1>5. refCount \in Nat /\ refCount <= Cardinality(Callers) /\ Cardinality(Callers) \in Nat
  BY HoldersFinite DEF PoolInv, TypeOK
<1>6. refCount' \in 0..Cardinality(Callers) /\ CountInv' /\ state' \in {state, "draining"}
      /\ timer' \in {timer, "armed"}
  <2>1. CASE entry # 0 /\ entry = held[h]
    <3>1. PICK c \in Nat \ {0} : c = entry
      BY <2>1, <1>3
    <3>2. Cardinality(HoldersOf(c)') = Cardinality(HoldersOf(c)) - 1
      BY <3>1, <2>1, <1>2, <1>3, GiveCounts
    <3>3. HoldersOf(c)' = HoldersOf(entry)'
      BY <3>1, <1>2 DEF HoldersOf
    <3>4. refCount = Cardinality(HoldersOf(entry)) /\ h \in HoldersOf(entry)
      BY <2>1 DEF PoolInv, CountInv, RefCounted, HoldersOf
    <3>5. refCount > 0
      BY <3>4, <1>5, NoneCounted
    <3>6. /\ refCount' = refCount - 1
          /\ state' = IF refCount = 1 THEN "draining" ELSE state
          /\ timer' = IF refCount = 1 THEN "armed" ELSE timer
      BY <2>1, <3>5 DEF Release
    <3>7. refCount' = Cardinality(HoldersOf(entry)')
      BY <3>1, <3>2, <3>3, <3>4, <3>6
    <3> QED BY <3>5, <3>6, <3>7, <2>1, <1>2, <1>5 DEF CountInv, RefCounted, IdleHasTimer
  <2>2. CASE ~(entry # 0 /\ entry = held[h])
    <3>1. UNCHANGED <<refCount, state, timer>>
      BY <2>2 DEF Release
    <3>2. entry # 0 => HoldersOf(entry)' = HoldersOf(entry)
      <4>1. SUFFICES ASSUME entry # 0 PROVE HoldersOf(entry)' = HoldersOf(entry)
        OBVIOUS
      <4>2. PICK c \in Nat \ {0} : c = entry
        BY <4>1, <1>3
      <4>3. HoldersOf(c)' = HoldersOf(c)
        BY <4>2, <2>2, <1>2, <1>3, OthersCount
      <4> QED BY <4>2, <4>3, <1>2 DEF HoldersOf
    <3> QED BY <3>1, <3>2, <1>2, <1>5 DEF PoolInv, CountInv, RefCounted, IdleHasTimer
  <2> QED BY <2>1, <2>2
<1>7. TypeOK'
  BY <1>1, <1>2, <1>4, <1>6 DEF PoolInv, TypeOK, connectionVars, ConnectionTypeOK
<1>8. HeldInv'
  BY <1>1, <1>2, <1>3 DEF PoolInv, HeldInv
<1>9. LifecycleInv'
  <2> SUFFICES ASSUME NEW c \in Conns, lifecycle[c] # Free
               PROVE  phase'[lifecycle[c]] = "connecting" /\ held'[lifecycle[c]] = c
    BY <1>2 DEF LifecycleInv, connectionVars
  <2>1. lifecycle[c] \in Callers /\ lifecycle[c] # h
    BY <1>1 DEF PoolInv, TypeOK, ConnectionTypeOK, LifecycleInv
  <2> QED BY <2>1, <1>1, <1>2, <1>3 DEF PoolInv, LifecycleInv
<1>10. LockInv'
  BY <1>1, <1>2, ConnectionAssumption, PoolAssumption DEF PoolInv, LockInv
<1> QED BY <1>6, <1>7, <1>8, <1>9, <1>10 DEF PoolInv

\* The entry leaves the registry while no caller keeps _instance_lock.
LEMMA ForgetKeeps ==
    ASSUME PoolInv, Forget, lock \notin Callers, lock' = Free,
           UNCHANGED <<lifecycle, fired, phase, held>>, ConnectionTypeOK'
    PROVE  PoolInv'
<1>1. TypeOK'
  BY HoldersFinite DEF Forget, PoolInv, TypeOK
<1>2. CountInv'
  BY DEF Forget, CountInv, RefCounted, IdleHasTimer
<1>3. LockInv'
  BY ConnectionAssumption, PoolAssumption DEF PoolInv, LockInv
<1> QED BY <1>1, <1>2, <1>3 DEF PoolInv, HeldInv, LifecycleInv

\* Each step of the timer, of on_died and of the other addresses.
LEMMA BackgroundKeeps ==
    ASSUME PoolInv,
           \/ TimerFires \/ TimerBails \/ TeardownBegin \/ TeardownEnd
           \/ OtherAddressTakesLock \/ OtherAddressFreesLock
           \/ \E c \in Conns : OnConnectionDied(c)
    PROVE  PoolInv'
<1>1. CASE TimerFires
  <2>1. TypeOK'
    BY <1>1, PoolAssumption DEF TimerFires, PoolInv, TypeOK, connectionVars, ConnectionTypeOK
  <2>2. CountInv'
    BY <1>1 DEF TimerFires, PoolInv, CountInv, RefCounted, HoldersOf, IdleHasTimer
  <2> QED BY <1>1, <2>1, <2>2
       DEF TimerFires, PoolInv, HeldInv, LifecycleInv, LockInv, connectionVars
<1>2. CASE TimerBails
  <2>1. TypeOK'
    BY <1>2, PoolAssumption DEF TimerBails, PoolInv, TypeOK, connectionVars, registry, ConnectionTypeOK
  <2>2. CountInv'
    BY <1>2 DEF TimerBails, registry, PoolInv, CountInv, RefCounted, HoldersOf, IdleHasTimer
  <2> QED BY <1>2, <2>1, <2>2
       DEF TimerBails, registry, PoolInv, HeldInv, LifecycleInv, LockInv, connectionVars
<1>3. CASE TeardownBegin
  <2>1. TypeOK'
    BY <1>3, PoolAssumption DEF TeardownBegin, PoolInv, TypeOK, connectionVars, ConnectionTypeOK
  <2>2. CountInv'
    BY <1>3 DEF TeardownBegin, PoolInv, CountInv, RefCounted, HoldersOf, IdleHasTimer
  <2>3. LockInv'
    BY <1>3, PoolAssumption, ConnectionAssumption DEF TeardownBegin, PoolInv, LockInv
  <2> QED BY <1>3, <2>1, <2>2, <2>3
       DEF TeardownBegin, PoolInv, HeldInv, LifecycleInv, connectionVars
<1>4. CASE TeardownEnd
  <2>1. ConnectionTypeOK'
    <3>1. entry \in Conns
      BY <1>4, ConnectionAssumption DEF TeardownEnd, PoolInv, LockInv, TypeOK, Conns
    <3> QED BY <1>4, <3>1 DEF TeardownEnd, Disconnect, Disconnected, PoolInv, TypeOK, ConnectionTypeOK, WorkerStates
  <2> QED BY <1>4, <2>1, ForgetKeeps, PoolAssumption DEF TeardownEnd, Disconnect
<1>5. CASE OtherAddressTakesLock
  <2>1. TypeOK'
    BY <1>5 DEF OtherAddressTakesLock, PoolInv, TypeOK, connectionVars, registry, ConnectionTypeOK
  <2>2. CountInv'
    BY <1>5, PoolAssumption DEF OtherAddressTakesLock, registry, PoolInv, CountInv, RefCounted, HoldersOf, IdleHasTimer
  <2>3. LockInv'
    BY <1>5, PoolAssumption, ConnectionAssumption DEF OtherAddressTakesLock, registry, PoolInv, LockInv
  <2> QED BY <1>5, <2>1, <2>2, <2>3
       DEF OtherAddressTakesLock, registry, PoolInv, HeldInv, LifecycleInv, connectionVars
<1>6. CASE OtherAddressFreesLock
  <2>1. TypeOK'
    BY <1>6 DEF OtherAddressFreesLock, PoolInv, TypeOK, connectionVars, registry, ConnectionTypeOK
  <2>2. CountInv'
    BY <1>6, PoolAssumption DEF OtherAddressFreesLock, registry, PoolInv, CountInv, RefCounted, HoldersOf, IdleHasTimer
  <2>3. LockInv'
    BY <1>6, PoolAssumption, ConnectionAssumption DEF OtherAddressFreesLock, registry, PoolInv, LockInv
  <2> QED BY <1>6, <2>1, <2>2, <2>3
       DEF OtherAddressFreesLock, registry, PoolInv, HeldInv, LifecycleInv, connectionVars
<1>7. ASSUME NEW c \in Conns, OnConnectionDied(c) PROVE PoolInv'
  <2>1. ConnectionTypeOK' /\ UNCHANGED <<lifecycle, fired, lock, phase, held>> /\ lock = Free
    BY <1>7 DEF OnConnectionDied, PoolInv, TypeOK, ConnectionTypeOK
  <2>2. CASE Forget
    BY <2>1, <2>2, ForgetKeeps, ConnectionAssumption
  <2>3. CASE UNCHANGED registry
    <3>1. TypeOK'
      BY <2>1, <2>3 DEF registry, PoolInv, TypeOK
    <3>2. CountInv'
      BY <2>1, <2>3 DEF registry, PoolInv, CountInv, RefCounted, HoldersOf, IdleHasTimer
    <3> QED BY <2>1, <2>3, <3>1, <3>2 DEF registry, PoolInv, HeldInv, LifecycleInv, LockInv
  <2> QED BY <1>7, <2>2, <2>3 DEF OnConnectionDied
<1> QED BY <1>1, <1>2, <1>3, <1>4, <1>5, <1>6, <1>7

\* Each step of a caller.
LEMMA CallerKeeps ==
    ASSUME PoolInv, NEW h \in Callers, Caller(h)
    PROVE  PoolInv'
<1> DEFINE quiet(p) == /\ Goto(h, p) /\ UNCHANGED <<connectionVars, registry, fired, lock, held>>
<1>1. ASSUME NEW p \in Phases \ {"idle", "evicting"}, quiet(p),
             phase[h] \notin {"idle", "evicting", "connecting"}
      PROVE  PoolInv'
  <2>1. ConnectionTypeOK' /\ UNCHANGED <<registry, fired, lock, held>> /\ lifecycle' = lifecycle
    BY <1>1 DEF PoolInv, TypeOK, connectionVars, ConnectionTypeOK
  <2>2. \A c \in Conns : lifecycle[c] # h
    BY <1>1, ConnectionAssumption DEF PoolInv, LifecycleInv
  <2>3. LifecycleMoves(h, p)
    BY <2>1, <2>2 DEF LifecycleMoves
  <2>4. Goto(h, p) /\ phase[h] \notin {"idle", "evicting"}
    BY <1>1
  <2> QED BY <2>1, <2>3, <2>4, <1>1, MoveKeeps
<1>2. CASE GetFresh(h)
  <2>1. ConnectionTypeOK' /\ lifecycle' = lifecycle
    BY <1>2 DEF GetFresh, connectionVars, PoolInv, TypeOK, ConnectionTypeOK
  <2> QED BY <1>2, <2>1, FreshKeeps DEF GetFresh
<1>3. CASE GetWarm(h)
  BY <1>3, WarmKeeps
<1>4. CASE EvictBegin(h)
  BY <1>4, EvictBeginKeeps
<1>5. CASE EvictEnd(h)
  <2>1. lock = h /\ entry # 0 /\ made < MaxConns
    BY <1>5 DEF EvictEnd, PoolInv, LockInv
  <2>2. entry \in Conns
    BY <2>1, ConnectionAssumption DEF PoolInv, TypeOK, Conns
  <2>3. ConnectionTypeOK' /\ lifecycle' = lifecycle
    BY <1>5, <2>2 DEF EvictEnd, Disconnect, Disconnected, PoolInv, TypeOK, ConnectionTypeOK, WorkerStates
  <2> QED BY <1>5, <2>1, <2>3, FreshKeeps DEF EvictEnd
<1>6. CASE Release(h)
  BY <1>6, ReleaseKeeps
<1>7. CASE CheckConnected(h)
  <2>1. PICK p \in {"await", "connect"} : quiet(p)
    BY <1>7 DEF CheckConnected
  <2> QED BY <1>1, <1>7, <2>1 DEF CheckConnected, Phases
<1>8. CASE Yielded(h)
  BY <1>1, <1>8 DEF Yielded, Phases
<1>9. CASE NotReady(h)
  BY <1>1, <1>9 DEF NotReady, Phases
<1>10. CASE Leave(h)
  BY <1>1, <1>10 DEF Leave, Phases
<1>11. phase[h] \in {"connect", "connecting"} => held[h] \in Conns
  BY ConnectionAssumption DEF PoolInv, TypeOK, HeldInv, Conns
<1>12. CASE Connect(h)
  <2>0. phase[h] = "connect" /\ held[h] \in Conns /\ UNCHANGED <<registry, fired, lock, held>>
    BY <1>11, <1>12 DEF Connect
  <2>1. CASE ConnectJoin(held[h]) /\ Goto(h, "await")
    BY <1>1, <2>0, <2>1 DEF ConnectJoin, Phases
  <2>2. CASE ConnectStart(h, held[h], Busy) /\ Goto(h, "connecting")
    <3>1. ConnectionTypeOK'
      BY <2>0, <2>2 DEF ConnectStart, PoolInv, TypeOK, ConnectionTypeOK, WorkerStates
    <3>2. \A c \in Conns : lifecycle[c] # h
      BY <2>0, ConnectionAssumption DEF PoolInv, LifecycleInv
    <3>3. LifecycleMoves(h, "connecting")
      BY <2>0, <2>2, <3>2 DEF ConnectStart, PoolInv, TypeOK, ConnectionTypeOK, LifecycleMoves
    <3>4. "connecting" \in Phases \ {"idle", "evicting"}
      BY DEF Phases
    <3>5. Goto(h, "connecting") /\ phase[h] \notin {"idle", "evicting"}
      BY <2>0, <2>2
    <3> QED BY <2>0, <3>1, <3>3, <3>4, <3>5, MoveKeeps
  <2> QED BY <1>12, <2>1, <2>2 DEF Connect
<1>13. CASE ConnectReturns(h)
  <2>0. phase[h] = "connecting" /\ held[h] \in Conns /\ UNCHANGED <<registry, fired, lock, held>>
    BY <1>11, <1>13 DEF ConnectReturns
  <2>1. PICK p \in {"await", "release"} : Goto(h, p)
    BY <1>13 DEF ConnectReturns
  <2>2. ConnectionTypeOK' /\ lifecycle' = [lifecycle EXCEPT ![held[h]] = Free]
    BY <1>13, <2>0 DEF ConnectReturns, ConnectSucceeds, ConnectFails, Disconnected,
                       PoolInv, TypeOK, ConnectionTypeOK, WorkerStates
  <2>3. \A c \in Conns : lifecycle[c] = h => c = held[h]
    BY ConnectionAssumption DEF PoolInv, LifecycleInv
  <2>4. LifecycleMoves(h, p)
    BY <2>0, <2>2, <2>3 DEF PoolInv, TypeOK, ConnectionTypeOK, LifecycleMoves
  <2>5. p \in Phases \ {"idle", "evicting"} /\ phase[h] \notin {"idle", "evicting"}
    BY <2>0, <2>1 DEF Phases
  <2> QED BY <2>0, <2>1, <2>2, <2>4, <2>5, MoveKeeps
<1> QED BY <1>2, <1>3, <1>4, <1>5, <1>6, <1>7, <1>8, <1>9, <1>10, <1>12, <1>13 DEF Caller

\* The invariant holds at the start,
LEMMA InitHolds == Init => PoolInv
<1> SUFFICES ASSUME Init PROVE PoolInv
  OBVIOUS
<1>1. TypeOK
  BY ConnectionAssumption, PoolAssumption, HoldersFinite
     DEF Init, ConnectionInit, TypeOK, ConnectionTypeOK, WorkerStates, Phases
<1>2. HeldInv
  BY DEF Init, HeldInv
<1>3. LifecycleInv
  BY DEF Init, ConnectionInit, LifecycleInv
<1>4. LockInv
  BY ConnectionAssumption, PoolAssumption DEF Init, LockInv
<1>5. CountInv
  BY DEF Init, CountInv, RefCounted, IdleHasTimer
<1> QED BY <1>1, <1>2, <1>3, <1>4, <1>5 DEF PoolInv

\* and every step of Next keeps it.
LEMMA StepKeeps == PoolInv /\ [Next]_vars => PoolInv'
<1> SUFFICES ASSUME PoolInv, [Next]_vars PROVE PoolInv'
  OBVIOUS
<1>1. CASE UNCHANGED vars
  <2>1. TypeOK'
    BY <1>1 DEF vars, connectionVars, registry, PoolInv, TypeOK, ConnectionTypeOK
  <2>2. CountInv'
    BY <1>1 DEF vars, registry, PoolInv, CountInv, RefCounted, HoldersOf, IdleHasTimer
  <2> QED BY <1>1, <2>1, <2>2
       DEF vars, connectionVars, registry, PoolInv, HeldInv, LifecycleInv, LockInv
<1>2. ASSUME NEW h \in Callers, Caller(h) PROVE PoolInv'
  BY <1>2, CallerKeeps
<1>3. ASSUME NEW c \in Conns, Worker(c) PROVE PoolInv'
  BY <1>3, WorkerKeeps
<1> QED BY <1>1, <1>2, <1>3, BackgroundKeeps DEF Next

\* The registry, its counts, its locks and the callers' places stay what their types say,
\* for any number of callers and of connections: a handle is never a connection that was
\* not made, and the reference count never passes the callers nor goes below none.
THEOREM TypesHold == Spec => []TypeOK
<1>1. PoolInv => TypeOK
  BY DEF PoolInv
<1> QED BY <1>1, InitHolds, StepKeeps, PTL DEF Spec

\* What the reference count stands for (release_instance's identity guard), for any number
\* of callers and of connections: it is the number of callers that hold this very entry.
THEOREM CountsAreTrue == Spec => [](TypeOK /\ RefCounted)
<1>1. PoolInv => TypeOK /\ RefCounted
  BY DEF PoolInv, CountInv
<1> QED BY <1>1, InitHolds, StepKeeps, PTL DEF Spec

\* _delayed_disconnect tears an entry down only while nobody holds it, and never has to
\* wait for a connect() with _instance_lock in its hands.
THEOREM TeardownIsUnheld == Spec => []TeardownUnheld
<1>1. PoolInv => TeardownUnheld
  <2> SUFFICES ASSUME PoolInv, lock = "timer"
               PROVE  HoldersOf(entry) = {} /\ lifecycle[entry] = Free
    BY DEF TeardownUnheld
  <2>1. entry # 0 /\ refCount = 0 /\ entry \in Conns
    BY ConnectionAssumption DEF PoolInv, LockInv, TypeOK, Conns
  <2>2. HoldersOf(entry) = {}
    BY <2>1, NoneCounted DEF PoolInv, CountInv, RefCounted
  <2>3. ASSUME lifecycle[entry] # Free PROVE FALSE
    <3>1. lifecycle[entry] \in Callers /\ held[lifecycle[entry]] = entry
      BY <2>1, <2>3 DEF PoolInv, LifecycleInv, TypeOK, ConnectionTypeOK
    <3> QED BY <3>1, <2>2 DEF HoldersOf
  <2> QED BY <2>2, <2>3
<1> QED BY <1>1, InitHolds, StepKeeps, PTL DEF Spec

\* An idle entry always has the timer that will close its session.
THEOREM IdleEntriesHaveTimers == Spec => []IdleHasTimer
<1>1. PoolInv => IdleHasTimer
  BY DEF PoolInv, CountInv
<1> QED BY <1>1, InitHolds, StepKeeps, PTL DEF Spec

\* _on_connection_died compares the entry with the connection that died (and an eviction
\* puts a new entry where the dead one was), so an entry leaves by its own death only.
THEOREM EntriesLeaveByTheirOwnDeath == Spec => LeavesByItsOwnDeath
<1>1. PoolInv /\ [Next]_vars => [entry # 0 /\ entry' = 0 /\ lock # "timer" => entry \in diedPending]_vars
  <2> SUFFICES ASSUME PoolInv, Next, entry # 0, entry' = 0, lock # "timer"
               PROVE  entry \in diedPending
    OBVIOUS
  <2>1. ASSUME NEW h \in Callers, Caller(h) PROVE FALSE
    <3>1. UNCHANGED entry \/ entry' = made + 1
      BY <2>1 DEF Caller, GetFresh, GetWarm, EvictBegin, EvictEnd, CheckConnected, Connect,
             ConnectReturns, Yielded, NotReady, Leave, Release, registry
    <3> QED BY <3>1, HeldType DEF PoolInv
  <2>2. ASSUME NEW c \in Conns, OnConnectionDied(c) PROVE entry \in diedPending
    BY <2>2 DEF OnConnectionDied, registry
  <2>3. ~TeardownEnd
    BY DEF TeardownEnd
  <2>4. CASE \/ TimerFires \/ TimerBails \/ TeardownBegin
             \/ OtherAddressTakesLock \/ OtherAddressFreesLock \/ \E c \in Conns : Worker(c)
    BY <2>4 DEF TimerFires, TimerBails, TeardownBegin, OtherAddressTakesLock,
         OtherAddressFreesLock, Worker, registry
  <2> QED BY <2>1, <2>2, <2>3, <2>4 DEF Next
<1> QED BY <1>1, InitHolds, StepKeeps, PTL DEF Spec, LeavesByItsOwnDeath
=============================================================================
