----------------------------- MODULE Connection -----------------------------
(***************************************************************************)
(* The lifecycle of atemwire's ATEMConnection objects (connection.py): a   *)
(* connection owns at most one worker thread, connect() starts it and      *)
(* waits for the handshake under _lifecycle_lock, disconnect() stops and   *)
(* joins it under the same lock, and a worker that ends on its own calls   *)
(* on_died.  Which thread calls what, and _instance_lock, are the pool's   *)
(* (module Pool).                                                          *)
(***************************************************************************)
EXTENDS Integers

CONSTANTS
    Callers,    \* threads that use the pool
    MaxConns,   \* bound: ATEMConnection objects ever made
    Free        \* nobody has the lock

ASSUME ConnectionAssumption == MaxConns \in Nat \ {0} /\ Free \notin Callers

Conns == 1..MaxConns

VARIABLES
    worker,        \* conn -> its _worker and how far that has come
    sessionReady,  \* conn -> _session_ready_event
    lifecycle,     \* conn -> the caller inside connect() with _lifecycle_lock, or Free
    diedPending    \* conns whose on_died callback is running: past the
                   \* _died_signalled test, not yet past _instance_lock

connectionVars == <<worker, sessionReady, lifecycle, diedPending>>

\* none   no _worker
\* new    assigned, not yet started: is_alive() is False
\* hello  in wait_ready
\* up     _handshake_done
\* gone   ended on its own: _handshake_done is False
WorkerStates == {"none", "new", "hello", "up", "gone"}

\* A worker inside on_died is still alive.
Alive(c) == worker[c] \in {"hello", "up"} \/ (worker[c] = "gone" /\ c \in diedPending)

IsConnected(c) == worker[c] = "up"
IsReady(c)     == IsConnected(c) /\ sessionReady[c]

\* A session the switcher keeps a slot for.
SessionOpen(c) == worker[c] \in {"hello", "up"}

---------------------------------------------------------------------------
(* connect() and disconnect() *)

\* What _disconnect_locked leaves.  An on_died callback that is running already
\* is not called back; the join waits for it unless _instance_lock is busy.
Disconnected(c) == worker' = [worker EXCEPT ![c] = "none"]
JoinReturns(c, lockBusy) == c \in diedPending => lockBusy

\* connect() on a connection that has its session: nothing to start.
ConnectJoin(c) ==
    /\ lifecycle[c] = Free
    /\ IsConnected(c)
    /\ UNCHANGED connectionVars

\* connect(), cold: a worker in the way is disconnected, a new one is assigned.
ConnectStart(h, c, lockBusy) ==
    /\ lifecycle[c] = Free
    /\ ~IsConnected(c)
    /\ Alive(c) => JoinReturns(c, lockBusy)
    /\ lifecycle' = [lifecycle EXCEPT ![c] = h]
    /\ worker' = [worker EXCEPT ![c] = "new"]
    /\ sessionReady' = [sessionReady EXCEPT ![c] = FALSE]
    /\ UNCHANGED diedPending

\* _worker.start()
WorkerStart(c) ==
    /\ worker[c] = "new"
    /\ worker' = [worker EXCEPT ![c] = "hello"]
    /\ UNCHANGED <<sessionReady, lifecycle, diedPending>>

\* _ready_event was set and the handshake is done: connect() returns True.
ConnectSucceeds(h, c) ==
    /\ lifecycle[c] = h /\ IsConnected(c)
    /\ lifecycle' = [lifecycle EXCEPT ![c] = Free]
    /\ UNCHANGED <<worker, sessionReady, diedPending>>

\* Mutant: the lock is not given back on the failure path.
ConnectFailsKeepingLock(h, c, lockBusy) ==
    /\ lifecycle[c] = h /\ worker[c] = "gone"
    /\ Alive(c) => JoinReturns(c, lockBusy)
    /\ Disconnected(c)
    /\ UNCHANGED <<lifecycle, sessionReady, diedPending>>

\* The worker ended before the handshake, or right after it: connect() cleans up
\* and returns False.
ConnectFails(h, c, lockBusy) ==
    /\ lifecycle[c] = h /\ worker[c] = "gone"
    /\ Alive(c) => JoinReturns(c, lockBusy)
    /\ Disconnected(c)
    /\ lifecycle' = [lifecycle EXCEPT ![c] = Free]
    /\ UNCHANGED <<sessionReady, diedPending>>

\* disconnect(): waits for _lifecycle_lock, stops and joins the worker.
Disconnect(c, lockBusy) ==
    /\ lifecycle[c] = Free
    /\ Alive(c) => JoinReturns(c, lockBusy)
    /\ Disconnected(c)
    /\ UNCHANGED <<sessionReady, lifecycle, diedPending>>

---------------------------------------------------------------------------
(* The worker thread *)

\* wait_ready returned: the state dump is complete ('connected' was raised).
HandshakeDone(c) ==
    /\ worker[c] = "hello"
    /\ worker' = [worker EXCEPT ![c] = "up"]
    /\ sessionReady' = [sessionReady EXCEPT ![c] = TRUE]
    /\ UNCHANGED <<lifecycle, diedPending>>

\* wait_ready raised (refused, stalled, timed out): the worker closes the session,
\* sets _ready_event and returns; nobody is called.
HandshakeFails(c) ==
    /\ worker[c] = "hello"
    /\ worker' = [worker EXCEPT ![c] = "gone"]
    /\ UNCHANGED <<sessionReady, lifecycle, diedPending>>

\* An uncaught exception, the UDP thread's death included: the session is closed,
\* the flag dropped, on_died called.
WorkerDies(c) ==
    /\ worker[c] \in {"hello", "up"}
    /\ worker' = [worker EXCEPT ![c] = "gone"]
    /\ diedPending' = diedPending \cup {c}
    /\ UNCHANGED <<sessionReady, lifecycle>>

\* The transport gives the session up ('disconnected') and re-establishes it.
Rehandshake(c) ==
    /\ worker[c] = "up" /\ sessionReady[c]
    /\ sessionReady' = [sessionReady EXCEPT ![c] = FALSE]
    /\ UNCHANGED <<worker, lifecycle, diedPending>>

Recovered(c) ==
    /\ worker[c] = "up" /\ ~sessionReady[c]
    /\ sessionReady' = [sessionReady EXCEPT ![c] = TRUE]
    /\ UNCHANGED <<worker, lifecycle, diedPending>>

WorkerStep(c) ==
    \/ WorkerStart(c)
    \/ HandshakeDone(c) \/ HandshakeFails(c)
    \/ WorkerDies(c)
    \/ Rehandshake(c) \/ Recovered(c)

ConnectionInit ==
    /\ worker = [c \in Conns |-> "none"]
    /\ sessionReady = [c \in Conns |-> FALSE]
    /\ lifecycle = [c \in Conns |-> Free]
    /\ diedPending = {}

ConnectionTypeOK ==
    /\ worker \in [Conns -> WorkerStates]
    /\ sessionReady \in [Conns -> BOOLEAN]
    /\ lifecycle \in [Conns -> Callers \cup {Free}]
    /\ diedPending \subseteq Conns
=============================================================================
