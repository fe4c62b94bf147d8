--------------------------- MODULE ConnectionPool ---------------------------
(***************************************************************************)
(* The two connection pools of the database clients, leased from by the    *)
(* threads of one process: LockPool (one connection behind a lock) and     *)
(* QueueConnectionPool (a queue of idle connections, a lock around the     *)
(* decision to open another one).  reconnect and close of the client call  *)
(* close_all, which takes neither lock.                                    *)
(***************************************************************************)
EXTENDS Naturals, FiniteSets

CONSTANTS
    Threads,
    MaxSize,      \* maxsize of the queue pool
    MaxCloses     \* calls of close_all

PoolAssumption ==
    /\ IsFiniteSet(Threads) /\ Threads # {} /\ 0 \notin Threads
    /\ MaxSize \in Nat \ {0} /\ MaxCloses \in Nat

VARIABLES
    kind,     \* "lock" or "queue"
    idle,     \* connections in the queue; the one of a LockPool
    size,     \* _current_size
    lock,     \* the thread that holds _lock, or Nobody
    place,    \* [Threads -> where it is in lease]
    conn,     \* [Threads -> the connection it leased, or 0]
    seen,     \* [Threads -> value of _current_size it read]
    alive,    \* connections that are open
    closing,  \* close_all is under way
    closes    \* calls of close_all so far

cpVars == <<kind, idle, size, lock, place, conn, seen, alive, closing, closes>>

Nobody == 0
Idents == 1 .. 2 * Cardinality(Threads) + MaxSize

Fresh == CHOOSE c \in Idents :
            c \notin alive \cup idle \cup {conn[t] : t \in Threads}

Init ==
    /\ kind \in {"lock", "queue"}
    /\ idle = {} /\ size = 0 /\ lock = Nobody
    /\ place = [t \in Threads |-> "out"]
    /\ conn = [t \in Threads |-> 0]
    /\ seen = [t \in Threads |-> 0]
    /\ alive = {} /\ closing = FALSE /\ closes = 0

Goto(t, p) == place' = [place EXCEPT ![t] = p]
Lease(t, c) == conn' = [conn EXCEPT ![t] = c] /\ Goto(t, "using")

-----------------------------------------------------------------------------
(* QueueConnectionPool.lease *)

GetIdle(t) ==
    /\ kind = "queue" /\ place[t] = "out"
    /\ \E c \in idle : idle' = idle \ {c} /\ Lease(t, c)
    /\ UNCHANGED <<kind, size, lock, seen, alive, closing, closes>>

SawEmpty(t) ==
    /\ kind = "queue" /\ place[t] = "out" /\ idle = {}
    /\ Goto(t, "empty")
    /\ UNCHANGED <<kind, idle, size, lock, conn, seen, alive, closing, closes>>

MayCreate == size < MaxSize

\* Under the lock: open another connection, or wait with the lock held.
Decide(t) ==
    /\ place[t] = "empty" /\ lock = Nobody
    /\ lock' = t
    /\ Goto(t, IF MayCreate THEN "connect" ELSE "wait")
    /\ UNCHANGED <<kind, idle, size, conn, seen, alive, closing, closes>>

\* Defect: the connection is counted before it exists.
CountFirst(t) ==
    /\ place[t] = "connect"
    /\ \/ /\ alive' = alive \cup {Fresh}
          /\ conn' = [conn EXCEPT ![t] = Fresh]
          /\ seen' = [seen EXCEPT ![t] = size]
          /\ Goto(t, "count") /\ UNCHANGED <<lock, size>>
       \/ /\ size' = size + 1
          /\ lock' = Nobody /\ Goto(t, "out") /\ UNCHANGED <<conn, seen, alive>>
    /\ UNCHANGED <<kind, idle, closing, closes>>

\* The connector returns a connection, or raises and frees the lock.
Connect(t) ==
    /\ place[t] = "connect"
    /\ \/ /\ alive' = alive \cup {Fresh}
          /\ conn' = [conn EXCEPT ![t] = Fresh]
          /\ seen' = [seen EXCEPT ![t] = size]
          /\ Goto(t, "count") /\ UNCHANGED lock
       \/ lock' = Nobody /\ Goto(t, "out") /\ UNCHANGED <<conn, seen, alive>>
    /\ UNCHANGED <<kind, idle, size, closing, closes>>

\* The second half of _current_size += 1; close_all may have stored between.
CountConnection(t) ==
    /\ place[t] = "count"
    /\ size' = seen[t] + 1
    /\ lock' = Nobody
    /\ Goto(t, "using")
    /\ UNCHANGED <<kind, idle, conn, seen, alive, closing, closes>>

TakeReturned(t) ==
    /\ place[t] = "wait"
    /\ \E c \in idle : idle' = idle \ {c} /\ Lease(t, c)
    /\ lock' = Nobody
    /\ UNCHANGED <<kind, size, seen, alive, closing, closes>>

\* The finally of lease: back into the queue, closed if that is full.
Return(t) ==
    /\ kind = "queue" /\ place[t] = "using"
    /\ IF Cardinality(idle) < MaxSize
       THEN idle' = idle \cup {conn[t]} /\ UNCHANGED alive
       ELSE alive' = alive \ {conn[t]} /\ UNCHANGED idle
    /\ conn' = [conn EXCEPT ![t] = 0]
    /\ Goto(t, "out")
    /\ UNCHANGED <<kind, size, lock, seen, closing, closes>>

-----------------------------------------------------------------------------
(* LockPool.lease: the lock is held for the whole lease. *)

LeaseLocked(t) ==
    /\ kind = "lock" /\ place[t] = "out" /\ lock = Nobody
    /\ \E c \in IF idle = {} THEN {Fresh} ELSE idle :
         /\ idle' = {c}
         /\ alive' = alive \cup (IF idle = {} THEN {c} ELSE {})
         /\ Lease(t, c)
    /\ lock' = t
    /\ UNCHANGED <<kind, size, seen, closing, closes>>

ReleaseLocked(t) ==
    /\ kind = "lock" /\ place[t] = "using"
    /\ lock' = Nobody
    /\ conn' = [conn EXCEPT ![t] = 0]
    /\ Goto(t, "out")
    /\ UNCHANGED <<kind, idle, size, seen, alive, closing, closes>>

-----------------------------------------------------------------------------
(* close_all *)

StartClosing ==
    /\ ~closing /\ closes < MaxCloses
    /\ closing' = TRUE /\ closes' = closes + 1
    /\ UNCHANGED <<kind, idle, size, lock, place, conn, seen, alive>>

\* Defect: a connection is closed without being taken out of the queue.
CloseInPlace ==
    /\ closing
    /\ \E c \in idle : alive' = alive \ {c} /\ UNCHANGED idle
    /\ UNCHANGED <<kind, size, lock, place, conn, seen, closing, closes>>

CloseIdle ==
    /\ closing
    /\ \E c \in idle : alive' = alive \ {c} /\ idle' = idle \ {c}
    /\ UNCHANGED <<kind, size, lock, place, conn, seen, closing, closes>>

FinishClosing ==
    /\ closing /\ idle = {}
    /\ closing' = FALSE
    /\ size' = 0
    /\ UNCHANGED <<kind, idle, lock, place, conn, seen, alive, closes>>

QueueLease(t) ==
    \/ GetIdle(t) \/ SawEmpty(t) \/ Decide(t) \/ Connect(t) \/ CountConnection(t)
    \/ TakeReturned(t) \/ Return(t)

Next ==
    \/ \E t \in Threads : QueueLease(t) \/ LeaseLocked(t) \/ ReleaseLocked(t)
    \/ StartClosing \/ CloseIdle \/ FinishClosing

-----------------------------------------------------------------------------
\* A leased connection of the queue pool is open, leased by one thread only
\* and not offered to others, also while the pool is being reset.  (The lock
\* pool keeps the exclusion, but its close_all shuts a leased connection.)
LeaseExclusive ==
    \A t \in Threads : place[t] = "using" =>
        /\ \A u \in Threads \ {t} : conn[u] # conn[t]
        /\ kind = "queue" => conn[t] \in alive \ idle

\* The thread that waits for a connection with the lock in its hands has one
\* to wait for: as long as nobody resets the pool it never blocks everyone.
NobodyStranded ==
    closes = 0 => \A t \in Threads : place[t] = "wait" =>
        idle # {} \/ \E u \in Threads : place[u] = "using"

\* Both.
PoolSound == LeaseExclusive /\ NobodyStranded
=============================================================================
