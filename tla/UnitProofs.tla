----------------------------- MODULE UnitProofs -----------------------------
(***************************************************************************)
(* What holds of parts that work on their own for every value of their     *)
(* constants: the connection pools, the disk gate, the cache of stage      *)
(* timeouts, the registries, the network doctor, the reports of a run.     *)
(* The steps of a part keep its invariant; the other parts do not move     *)
(* while it is in focus.                                                   *)
(***************************************************************************)
EXTENDS CoreUnits, FiniteSetTheorems, SequenceTheorems, TLAPS

-----------------------------------------------------------------------------
(* Connection pools *)

\* Where a thread may be, and what the pool's fields range over.
PoolType ==
    /\ kind \in {"lock", "queue"}
    /\ idle \subseteq CP!Idents /\ alive \subseteq CP!Idents
    /\ size \in Nat /\ closes \in Nat /\ closing \in BOOLEAN
    /\ lock \in Threads \cup {0}
    /\ place \in [Threads -> {"out", "empty", "connect", "count", "wait", "using"}]
    /\ conn \in [Threads -> CP!Idents \cup {0}]
    /\ seen \in [Threads -> Nat]

\* A thread holds a connection from its creation or its take to its return,
\* and _lock while it decides, connects, counts or waits.
Holding ==
    \A t \in Threads :
        /\ conn[t] # 0 <=> place[t] \in {"count", "using"}
        /\ place[t] \in {"connect", "count", "wait"} => lock = t
        /\ kind = "lock" => /\ place[t] \in {"out", "using"}
                            /\ place[t] = "using" => lock = t

\* No connection is with two threads; one of the queue pool is open, and in
\* the queue or with a thread but not both.
Apart ==
    /\ \A t, u \in Threads : t # u /\ conn[t] # 0 => conn[t] # conn[u]
    /\ kind = "queue" => /\ idle \subseteq alive
                         /\ \A t \in Threads : conn[t] # 0 => conn[t] \in alive \ idle

\* Every open connection is in the queue or with a thread, and the queue is
\* never longer than its size: the names suffice for one more connection.
Bounded ==
    /\ Cardinality(idle) <= MaxSize
    /\ \A c \in alive : c \in idle \/ \E t \in Threads : conn[t] = c
    /\ kind = "lock" => alive \subseteq idle /\ size = 0 /\ \A a, b \in idle : a = b

\* Before anyone resets the pool a counted connection is in the queue or in
\* use, and a thread that waits has seen the count at its limit.
Counted ==
    closes = 0 =>
        /\ ~closing
        /\ size > 0 => idle # {} \/ \E u \in Threads : place[u] = "using"
        /\ \A t \in Threads : place[t] = "wait" => size >= MaxSize

PoolInv == PoolType /\ Holding /\ Apart /\ Bounded /\ Counted

\* The instance has copies of the operators on finite sets.
LEMMA PoolSets ==
    /\ \A S : CP!IsFiniteSet(S) <=> IsFiniteSet(S)
    /\ \A S : CP!Cardinality(S) = Cardinality(S)
BY Zenon DEF CP!Cardinality, Cardinality, CP!IsFiniteSet, IsFiniteSet

\* There are finitely many names, and more than one for each thread.
LEMMA PoolFinite ==
    ASSUME CP!PoolAssumption
    PROVE  /\ Cardinality(Threads) \in Nat \ {0}
           /\ IsFiniteSet(CP!Idents)
           /\ Cardinality(CP!Idents) = 2 * Cardinality(Threads) + MaxSize
           /\ 0 \notin CP!Idents
<1>1. Cardinality(Threads) \in Nat /\ Cardinality(Threads) # 0
  BY PoolSets, FS_CardinalityType, FS_EmptySet DEF CP!PoolAssumption
<1>2. 2 * Cardinality(Threads) + MaxSize \in Nat /\ 2 * Cardinality(Threads) + MaxSize > 0
  BY <1>1 DEF CP!PoolAssumption
<1> QED
  BY <1>1, <1>2, PoolSets, FS_Interval DEF CP!Idents

\* The connector finds a name no connection in reach has.
LEMMA FreshIsFresh ==
    ASSUME CP!PoolAssumption, PoolInv
    PROVE  /\ CP!Fresh \in CP!Idents
           /\ CP!Fresh \notin alive \cup idle
           /\ \A t \in Threads : conn[t] # CP!Fresh
<1> DEFINE Held == {conn[t] : t \in Threads}
<1>1. IsFiniteSet(idle) /\ Cardinality(idle) \in Nat /\ Cardinality(idle) <= MaxSize
  BY PoolFinite, FS_Subset, FS_CardinalityType DEF PoolInv, PoolType, Bounded
<1>2. IsFiniteSet(Held) /\ Cardinality(Held) \in Nat /\ Cardinality(Held) <= Cardinality(Threads)
  <2>1. conn \in Surjection(Threads, Held)
    BY DEF PoolInv, PoolType, Surjection
  <2> QED
    BY <2>1, PoolSets, FS_Surjection, FS_CardinalityType DEF CP!PoolAssumption
<1>3. IsFiniteSet(idle \cup Held) /\ Cardinality(idle \cup Held) <= MaxSize + Cardinality(Threads)
  <2>1. IsFiniteSet(idle \cap Held) /\ Cardinality(idle \cap Held) \in Nat
    BY <1>1, FS_Subset, FS_CardinalityType
  <2> QED
    <3> HIDE DEF Held
    <3>1. /\ IsFiniteSet(idle \cup Held)
          /\ Cardinality(idle \cup Held) =
                Cardinality(idle) + Cardinality(Held) - Cardinality(idle \cap Held)
      BY <1>1, <1>2, FS_Union
    <3> QED
      BY <3>1, <1>1, <1>2, <2>1, PoolFinite DEF CP!PoolAssumption
<1>4. ~ (CP!Idents \subseteq idle \cup Held)
  <2> SUFFICES ASSUME CP!Idents \subseteq idle \cup Held PROVE FALSE
    OBVIOUS
  <2>1. Cardinality(CP!Idents) <= Cardinality(idle \cup Held)
    BY <1>3, FS_Subset
  <2>2. Cardinality(idle \cup Held) \in Nat
    BY <1>3, FS_CardinalityType
  <2> QED
    BY <1>3, <2>1, <2>2, PoolFinite DEF CP!PoolAssumption
<1>5. alive \subseteq idle \cup Held
  BY DEF PoolInv, Bounded
<1>6. \E c \in CP!Idents : c \notin alive \cup idle \cup {conn[t] : t \in Threads}
  BY <1>4, <1>5
<1>7. CP!Fresh \in CP!Idents /\ CP!Fresh \notin alive \cup idle \cup {conn[t] : t \in Threads}
  BY <1>6 DEF CP!Fresh
<1> QED
  BY <1>7

\* How the queue's length changes.
LEMMA QueueLength ==
    ASSUME CP!PoolAssumption, PoolInv
    PROVE  /\ IsFiniteSet(idle) /\ Cardinality(idle) \in Nat
           /\ \A c : Cardinality(idle \ {c}) <= MaxSize
           /\ \A c : Cardinality(idle) < MaxSize => Cardinality(idle \cup {c}) <= MaxSize
           /\ \A c : Cardinality({c}) <= MaxSize
           /\ Cardinality(idle) >= MaxSize => idle # {}
<1>1. IsFiniteSet(idle) /\ Cardinality(idle) \in Nat /\ Cardinality(idle) <= MaxSize
  BY PoolFinite, FS_Subset, FS_CardinalityType DEF PoolInv, PoolType, Bounded
<1>2. MaxSize \in Nat \ {0}
  BY DEF CP!PoolAssumption
<1>3. \A c : Cardinality(idle \ {c}) <= MaxSize
  <2> TAKE c
  <2>1. Cardinality(idle \ {c}) = IF c \in idle THEN Cardinality(idle) - 1 ELSE Cardinality(idle)
    BY <1>1, FS_RemoveElement
  <2> QED
    BY <2>1, <1>1, <1>2
<1>4. \A c : Cardinality(idle) < MaxSize => Cardinality(idle \cup {c}) <= MaxSize
  <2> TAKE c
  <2>1. Cardinality(idle \cup {c}) = IF c \in idle THEN Cardinality(idle) ELSE Cardinality(idle) + 1
    BY <1>1, FS_AddElement
  <2> QED
    BY <2>1, <1>1, <1>2
<1>5. \A c : Cardinality({c}) <= MaxSize
  <2> TAKE c
  <2>1. Cardinality({c}) = 1
    BY FS_Singleton
  <2> QED
    BY <2>1, <1>2
<1>6. Cardinality(idle) >= MaxSize => idle # {}
  BY <1>1, <1>2, FS_EmptySet
<1> QED
  BY <1>1, <1>3, <1>4, <1>5, <1>6

LEMMA InitPool ==
    ASSUME CP!PoolAssumption, CP!Init
    PROVE  PoolInv
<1>1. Cardinality({}) = 0 /\ MaxSize \in Nat
  BY FS_EmptySet DEF CP!PoolAssumption
<1>2. PoolType /\ Holding
  BY DEF CP!Init, CP!Nobody, PoolType, Holding
<1>3. Apart /\ Counted
  BY DEF CP!Init, Apart, Counted
<1>4. Bounded
  BY <1>1 DEF CP!Init, Bounded
<1> QED
  BY <1>2, <1>3, <1>4 DEF PoolInv

\* A thread takes a connection out of the queue, at once or after waiting.
LEMMA TakeKeepsPool ==
    ASSUME CP!PoolAssumption, PoolInv, NEW t \in Threads, CP!GetIdle(t) \/ CP!TakeReturned(t)
    PROVE  PoolInv'
<1>1. PICK c \in idle : /\ idle' = idle \ {c}
                        /\ conn' = [conn EXCEPT ![t] = c]
                        /\ place' = [place EXCEPT ![t] = "using"]
  BY DEF CP!GetIdle, CP!TakeReturned, CP!Lease, CP!Goto
<1>2. /\ kind = "queue"
      /\ \/ place[t] = "out" /\ lock' = lock
         \/ place[t] = "wait" /\ lock = t /\ lock' = 0
      /\ UNCHANGED <<kind, size, seen, alive, closing, closes>>
  BY DEF CP!GetIdle, CP!TakeReturned, CP!Nobody, PoolInv, PoolType, Holding
<1>3. Cardinality(idle') <= MaxSize
  BY <1>1, QueueLength
<1>4. c # 0 /\ 0 \notin alive /\ conn[t] = 0
  BY <1>2, PoolFinite DEF PoolInv, PoolType, Holding
<1>5. CP!Idents' = CP!Idents
  BY DEF CP!Idents
<1>6. PoolType'
  BY <1>1, <1>2, <1>5 DEF PoolInv, PoolType
<1>7. Holding'
  BY <1>1, <1>2, <1>4 DEF PoolInv, PoolType, Holding
<1>8. Apart'
  BY <1>1, <1>2, <1>4 DEF PoolInv, PoolType, Apart
<1>9. Bounded'
  <2>1. \A x \in alive : x \in idle' \/ \E u \in Threads : conn'[u] = x
    BY <1>1, <1>2, <1>4 DEF PoolInv, PoolType, Bounded
  <2> QED
    BY <1>2, <1>3, <2>1 DEF Bounded
<1>10. Counted'
  BY <1>1, <1>2 DEF PoolInv, PoolType, Counted
<1> QED
  BY <1>6, <1>7, <1>8, <1>9, <1>10 DEF PoolInv

LEMMA SawEmptyKeepsPool ==
    ASSUME CP!PoolAssumption, PoolInv, NEW t \in Threads, CP!SawEmpty(t)
    PROVE  PoolInv'
<1>1. /\ kind = "queue" /\ place[t] = "out" /\ place' = [place EXCEPT ![t] = "empty"]
      /\ UNCHANGED <<kind, idle, size, lock, conn, seen, alive, closing, closes>>
  BY DEF CP!SawEmpty, CP!Goto
<1>2. CP!Idents' = CP!Idents
  BY DEF CP!Idents
<1>3. PoolType'
  BY <1>1, <1>2 DEF PoolInv, PoolType
<1>4. Holding'
  BY <1>1 DEF PoolInv, PoolType, Holding
<1>5. Apart' /\ Bounded'
  BY <1>1 DEF PoolInv, Apart, Bounded
<1>6. Counted'
  BY <1>1 DEF PoolInv, PoolType, Counted
<1> QED
  BY <1>3, <1>4, <1>5, <1>6 DEF PoolInv

LEMMA DecideKeepsPool ==
    ASSUME CP!PoolAssumption, PoolInv, NEW t \in Threads, CP!Decide(t)
    PROVE  PoolInv'
<1>1. /\ place[t] = "empty" /\ lock = 0 /\ lock' = t
      /\ place' = [place EXCEPT ![t] = IF size < MaxSize THEN "connect" ELSE "wait"]
      /\ UNCHANGED <<kind, idle, size, conn, seen, alive, closing, closes>>
  BY DEF CP!Decide, CP!Goto, CP!MayCreate, CP!Nobody
<1>2. CP!Idents' = CP!Idents
  BY DEF CP!Idents
<1>3. PoolType'
  BY <1>1, <1>2 DEF PoolInv, PoolType
<1>4. Holding'
  BY <1>1 DEF PoolInv, PoolType, Holding, CP!PoolAssumption
<1>5. Apart' /\ Bounded'
  BY <1>1 DEF PoolInv, Apart, Bounded
<1>6. Counted'
  BY <1>1 DEF PoolInv, PoolType, Counted, CP!PoolAssumption
<1> QED
  BY <1>3, <1>4, <1>5, <1>6 DEF PoolInv

LEMMA ConnectKeepsPool ==
    ASSUME CP!PoolAssumption, PoolInv, NEW t \in Threads, CP!Connect(t)
    PROVE  PoolInv'
<1> DEFINE f == CP!Fresh
<1>1. CP!Idents' = CP!Idents
  BY DEF CP!Idents
<1>2. /\ place[t] = "connect" /\ kind = "queue" /\ lock = t /\ conn[t] = 0 /\ 0 \notin alive
      /\ UNCHANGED <<kind, idle, size, closing, closes>>
  BY PoolFinite DEF CP!Connect, PoolInv, PoolType, Holding
<1>3. CASE /\ alive' = alive \cup {CP!Fresh}
           /\ conn' = [conn EXCEPT ![t] = CP!Fresh]
           /\ seen' = [seen EXCEPT ![t] = size]
           /\ place' = [place EXCEPT ![t] = "count"] /\ lock' = lock
  <2>1. f \in CP!Idents /\ f \notin alive \cup idle /\ (\A u \in Threads : conn[u] # f) /\ f # 0
    BY FreshIsFresh, PoolFinite
  <2>2. /\ alive' = alive \cup {f}
        /\ conn' = [conn EXCEPT ![t] = f]
    BY <1>3
  <2> HIDE DEF f
  <2>3. PoolType'
    BY <1>1, <1>2, <1>3, <2>1, <2>2 DEF PoolInv, PoolType
  <2>4. Holding'
    BY <1>2, <1>3, <2>1, <2>2 DEF PoolInv, PoolType, Holding
  <2>5. Apart'
    BY <1>2, <2>1, <2>2 DEF PoolInv, PoolType, Apart
  <2>6. Bounded'
    <3>1. \A x \in alive' : x \in idle' \/ \E u \in Threads : conn'[u] = x
      BY <1>2, <2>2 DEF PoolInv, PoolType, Bounded
    <3> QED
      BY <1>2, <3>1 DEF PoolInv, Bounded
  <2>7. Counted'
    BY <1>2, <1>3 DEF PoolInv, PoolType, Counted
  <2> QED
    BY <2>3, <2>4, <2>5, <2>6, <2>7 DEF PoolInv
<1>4. CASE lock' = 0 /\ place' = [place EXCEPT ![t] = "out"] /\ UNCHANGED <<conn, seen, alive>>
  <2>1. PoolType'
    BY <1>1, <1>2, <1>4 DEF PoolInv, PoolType
  <2>2. Holding'
    BY <1>2, <1>4 DEF PoolInv, PoolType, Holding
  <2>3. Apart' /\ Bounded'
    BY <1>2, <1>4 DEF PoolInv, Apart, Bounded
  <2>4. Counted'
    BY <1>2, <1>4 DEF PoolInv, PoolType, Counted
  <2> QED
    BY <2>1, <2>2, <2>3, <2>4 DEF PoolInv
<1> QED
  BY <1>3, <1>4 DEF CP!Connect, CP!Goto, CP!Nobody

LEMMA CountConnectionKeepsPool ==
    ASSUME CP!PoolAssumption, PoolInv, NEW t \in Threads, CP!CountConnection(t)
    PROVE  PoolInv'
<1>1. /\ place[t] = "count" /\ kind = "queue" /\ lock = t
      /\ size' = seen[t] + 1 /\ lock' = 0 /\ place' = [place EXCEPT ![t] = "using"]
      /\ UNCHANGED <<kind, idle, conn, seen, alive, closing, closes>>
  BY DEF CP!CountConnection, CP!Goto, CP!Nobody, PoolInv, PoolType, Holding
<1>2. CP!Idents' = CP!Idents
  BY DEF CP!Idents
<1>3. PoolType'
  BY <1>1, <1>2 DEF PoolInv, PoolType
<1>4. Holding'
  BY <1>1 DEF PoolInv, PoolType, Holding
<1>5. Apart' /\ Bounded'
  BY <1>1 DEF PoolInv, Apart, Bounded
<1>6. Counted'
  <2>1. \A u \in Threads : place'[u] # "wait"
    BY <1>1 DEF PoolInv, PoolType, Holding
  <2>2. place'[t] = "using"
    BY <1>1 DEF PoolInv, PoolType
  <2> QED
    BY <1>1, <2>1, <2>2 DEF PoolInv, Counted
<1> QED
  BY <1>3, <1>4, <1>5, <1>6 DEF PoolInv

LEMMA ReturnKeepsPool ==
    ASSUME CP!PoolAssumption, PoolInv, NEW t \in Threads, CP!Return(t)
    PROVE  PoolInv'
<1> DEFINE c == conn[t]
<1>1. CP!Idents' = CP!Idents
  BY DEF CP!Idents
<1>2. /\ place[t] = "using" /\ kind = "queue"
      /\ conn' = [conn EXCEPT ![t] = 0] /\ place' = [place EXCEPT ![t] = "out"]
      /\ UNCHANGED <<kind, size, lock, seen, closing, closes>>
  BY DEF CP!Return, CP!Goto
<1>3. \/ Cardinality(idle) < MaxSize /\ idle' = idle \cup {c} /\ alive' = alive
      \/ ~(Cardinality(idle) < MaxSize) /\ alive' = alive \ {c} /\ idle' = idle
  BY PoolSets DEF CP!Return
<1>4. c # 0 /\ c \in CP!Idents /\ c \in alive \ idle /\ \A u \in Threads \ {t} : conn[u] # c
  BY <1>2 DEF PoolInv, PoolType, Holding, Apart
<1>5. idle' # {} /\ Cardinality(idle') <= MaxSize
  <2>1. CASE Cardinality(idle) < MaxSize /\ idle' = idle \cup {c}
    BY <2>1, QueueLength
  <2>2. CASE ~(Cardinality(idle) < MaxSize) /\ idle' = idle
    <3>1. Cardinality(idle) >= MaxSize
      BY <2>2, QueueLength DEF CP!PoolAssumption
    <3> QED
      BY <2>2, <3>1, QueueLength DEF PoolInv, Bounded
  <2> QED
    BY <1>3, <2>1, <2>2
<1>6. \A x \in alive' : x \in idle' \/ \E u \in Threads : conn'[u] = x
  BY <1>2, <1>3 DEF PoolInv, PoolType, Bounded
<1> HIDE DEF c
<1>7. PoolType'
  BY <1>1, <1>2, <1>3, <1>4 DEF PoolInv, PoolType
<1>8. Holding'
  BY <1>2 DEF PoolInv, PoolType, Holding
<1>9. Apart'
  BY <1>2, <1>3, <1>4 DEF PoolInv, PoolType, Apart
<1>10. Bounded'
  BY <1>2, <1>5, <1>6 DEF Bounded
<1>11. Counted'
  BY <1>2, <1>5 DEF PoolInv, PoolType, Counted
<1> QED
  BY <1>7, <1>8, <1>9, <1>10, <1>11 DEF PoolInv

LEMMA LeaseLockedKeepsPool ==
    ASSUME CP!PoolAssumption, PoolInv, NEW t \in Threads, CP!LeaseLocked(t)
    PROVE  PoolInv'
<1>1. CP!Idents' = CP!Idents
  BY DEF CP!Idents
<1>2. PICK c \in IF idle = {} THEN {CP!Fresh} ELSE idle :
        /\ idle' = {c}
        /\ alive' = alive \cup (IF idle = {} THEN {c} ELSE {})
        /\ conn' = [conn EXCEPT ![t] = c]
        /\ place' = [place EXCEPT ![t] = "using"]
  BY DEF CP!LeaseLocked, CP!Lease, CP!Goto
<1>3. /\ kind = "lock" /\ place[t] = "out" /\ lock = 0 /\ lock' = t
      /\ UNCHANGED <<kind, size, seen, closing, closes>>
  BY DEF CP!LeaseLocked, CP!Nobody
<1>4. c \in CP!Idents /\ c # 0
  BY FreshIsFresh, PoolFinite DEF PoolInv, PoolType
<1>5. \A u \in Threads : conn[u] = 0 /\ place[u] = "out"
  BY <1>3 DEF PoolInv, PoolType, Holding, CP!PoolAssumption
<1>6. alive' \subseteq {c} /\ alive' \subseteq CP!Idents
  BY <1>2, <1>3, <1>4 DEF PoolInv, PoolType, Bounded
<1>7. PoolType'
  BY <1>1, <1>2, <1>3, <1>4, <1>6 DEF PoolInv, PoolType
<1>8. Holding'
  BY <1>2, <1>3, <1>4, <1>5 DEF PoolInv, PoolType, Holding
<1>9. Apart'
  BY <1>2, <1>3, <1>4, <1>5 DEF PoolInv, PoolType, Apart
<1>10. Bounded'
  <2>1. Cardinality(idle') <= MaxSize
    BY <1>2, QueueLength
  <2> QED
    BY <1>2, <1>3, <1>6, <2>1 DEF PoolInv, Bounded
<1>11. Counted'
  BY <1>2, <1>3, <1>5 DEF PoolInv, PoolType, Counted
<1> QED
  BY <1>7, <1>8, <1>9, <1>10, <1>11 DEF PoolInv

LEMMA ReleaseLockedKeepsPool ==
    ASSUME CP!PoolAssumption, PoolInv, NEW t \in Threads, CP!ReleaseLocked(t)
    PROVE  PoolInv'
<1>1. CP!Idents' = CP!Idents
  BY DEF CP!Idents
<1>2. /\ kind = "lock" /\ place[t] = "using" /\ lock = t /\ lock' = 0
      /\ conn' = [conn EXCEPT ![t] = 0] /\ place' = [place EXCEPT ![t] = "out"]
      /\ UNCHANGED <<kind, idle, size, seen, alive, closing, closes>>
  BY DEF CP!ReleaseLocked, CP!Goto, CP!Nobody, PoolInv, PoolType, Holding
<1>3. PoolType'
  BY <1>1, <1>2 DEF PoolInv, PoolType
<1>4. Holding'
  BY <1>2 DEF PoolInv, PoolType, Holding
<1>5. Apart'
  BY <1>2 DEF PoolInv, PoolType, Apart
<1>6. Bounded'
  BY <1>2 DEF PoolInv, Bounded
<1>7. Counted'
  BY <1>2 DEF PoolInv, PoolType, Bounded, Counted
<1> QED
  BY <1>3, <1>4, <1>5, <1>6, <1>7 DEF PoolInv

LEMMA ClosingKeepsPool ==
    ASSUME CP!PoolAssumption, PoolInv, CP!StartClosing \/ CP!CloseIdle \/ CP!FinishClosing
    PROVE  PoolInv'
<1>1. CP!Idents' = CP!Idents
  BY DEF CP!Idents
<1>2. CASE CP!StartClosing
  BY <1>1, <1>2
  DEF CP!StartClosing, PoolInv, PoolType, Holding, Apart, Bounded, Counted, CP!PoolAssumption
<1>3. CASE CP!CloseIdle
  <2>1. PICK c \in idle : alive' = alive \ {c} /\ idle' = idle \ {c}
    BY <1>3 DEF CP!CloseIdle
  <2>2. closing /\ UNCHANGED <<kind, size, lock, place, conn, seen, closing, closes>>
    BY <1>3 DEF CP!CloseIdle
  <2>3. PoolType' /\ Holding'
    BY <1>1, <2>1, <2>2 DEF PoolInv, PoolType, Holding
  <2>4. Apart'
    BY <2>1, <2>2 DEF PoolInv, Apart
  <2>5. Bounded'
    <3>1. Cardinality(idle') <= MaxSize
      BY <2>1, QueueLength
    <3> QED
      BY <2>1, <2>2, <3>1 DEF PoolInv, Bounded
  <2>6. Counted'
    BY <2>2 DEF PoolInv, Counted
  <2> QED
    BY <2>3, <2>4, <2>5, <2>6 DEF PoolInv
<1>4. CASE CP!FinishClosing
  <2>1. /\ closing /\ closing' = FALSE /\ size' = 0
        /\ UNCHANGED <<kind, idle, lock, place, conn, seen, alive, closes>>
    BY <1>4 DEF CP!FinishClosing
  <2>2. PoolType' /\ Holding' /\ Apart' /\ Bounded'
    BY <1>1, <2>1 DEF PoolInv, PoolType, Holding, Apart, Bounded
  <2>3. Counted'
    BY <2>1 DEF PoolInv, Counted
  <2> QED
    BY <2>2, <2>3 DEF PoolInv
<1> QED
  BY <1>2, <1>3, <1>4

\* What PoolInv says of the leases.
LEMMA PoolGoal ==
    ASSUME CP!PoolAssumption, PoolInv
    PROVE  CP!PoolSound
<1>1. CP!LeaseExclusive
  BY DEF CP!LeaseExclusive, PoolInv, Holding, Apart
<1>2. CP!NobodyStranded
  BY DEF CP!NobodyStranded, CP!PoolAssumption, PoolInv, PoolType, Counted
<1> QED
  BY <1>1, <1>2 DEF CP!PoolSound

\* For any number of threads, any size of the queue and any number of resets,
\* lease of both pools hands a connection to one thread at a time, the queue
\* pool's only while it is open, and while nobody resets the pool the thread
\* that waits inside the lock has a connection to wait for.
THEOREM LeasesAreExclusive == UnitsSpec => []PoolSound
<1> DEFINE Inv == focus = "pool" => PoolInv
<1>1. UnitsInit => Inv
  BY UnitAssumption, InitPool DEF UnitsInit
<1>2. Inv /\ [UnitsNext]_coreVars => Inv'
  <2> SUFFICES ASSUME Inv, [UnitsNext]_coreVars, focus' = "pool" PROVE PoolInv'
    OBVIOUS
  <2>1. focus = "pool" /\ PoolInv /\ (CP!Next \/ UNCHANGED poolVars)
    BY DEF UnitsNext, coreVars
  <2>2. CASE UNCHANGED poolVars
    <3>1. CP!Idents' = CP!Idents
      BY DEF CP!Idents
    <3> QED
      BY <2>1, <2>2, <3>1 DEF poolVars, PoolInv, PoolType, Holding, Apart, Bounded, Counted
  <2>3. CASE CP!Next
    BY <2>1, <2>3, UnitAssumption, TakeKeepsPool, SawEmptyKeepsPool, DecideKeepsPool,
       ConnectKeepsPool, CountConnectionKeepsPool, ReturnKeepsPool, LeaseLockedKeepsPool,
       ReleaseLockedKeepsPool, ClosingKeepsPool
    DEF CP!Next, CP!QueueLease
  <2> QED
    BY <2>1, <2>2, <2>3
<1>3. Inv => PoolSound
  BY UnitAssumption, PoolGoal DEF PoolSound
<1> QED
  BY <1>1, <1>2, <1>3, PTL DEF UnitsSpec

-----------------------------------------------------------------------------
(* Disk gate *)

\* What the disk reads as: 0 when it cannot be measured.
Reading == IF broken THEN 0 ELSE disk

GateType ==
    /\ disk \in Nat /\ mem \in Nat /\ broken \in BOOLEAN
    /\ report.disk \in 0 .. 3
    /\ ttl \in 0 .. HG!TTL /\ cool \in 0 .. Cooldown
    /\ lowAge \in 0 .. HG!MaxAge /\ pressAge \in 0 .. HG!MaxAge

\* The cooldown runs since the last check that found pressure; a report that
\* shows none was made at a time the disk was low, its age is what is gone of
\* its time to live; and the disk is low now if it reads so now.
Ages ==
    /\ cool + pressAge >= Cooldown
    /\ ttl > 0 /\ ~HG!Pressure(report.disk) => lowAge <= HG!TTL - ttl
    /\ ~HG!Pressure(HG!DiskStatus(Reading)) => lowAge = 0

GateInv == GateType /\ Ages /\ HG!GateTruthful

LEMMA StatusRange ==
    ASSUME NEW pct \in Nat
    PROVE  HG!DiskStatus(pct) \in 0 .. 3
BY DEF HG!DiskStatus, HG!Evaluate, HG!Level

LEMMA InitGate ==
    ASSUME HG!GateAssumption, HG!Init
    PROVE  GateInv
<1>1. Reading = disk /\ disk \in Nat /\ report.disk = HG!DiskStatus(disk)
  BY DEF HG!Init, HG!GateAssumption, Reading
<1>2. HG!DiskStatus(disk) \in 0 .. 3
  BY <1>1, StatusRange
<1>3. GateType
  <2>1. Cooldown \in Nat /\ mem \in Nat /\ broken \in BOOLEAN
    BY DEF HG!Init, HG!GateAssumption
  <2>2. ttl \in 0 .. HG!TTL /\ cool \in 0 .. Cooldown
    BY <2>1 DEF HG!Init, HG!TTL
  <2>3. lowAge \in 0 .. HG!MaxAge /\ pressAge \in 0 .. HG!MaxAge
    BY <2>1 DEF HG!Init, HG!MaxAge
  <2> QED
    BY <1>1, <1>2, <2>1, <2>2, <2>3 DEF GateType
<1>4. HG!Pressure(report.disk) \in BOOLEAN
  BY DEF HG!Pressure
<1>5. Ages
  BY <1>1, <1>4 DEF HG!Init, HG!GateAssumption, HG!TTL, HG!MaxAge, Ages
<1> QED
  BY <1>3, <1>5 DEF HG!Init, HG!GateTruthful, GateInv

\* A check keeps the ages, and a report without pressure that it makes is of
\* a disk that is low now.
LEMMA CheckKeepsAges ==
    ASSUME HG!GateAssumption, GateInv, HG!Check, UNCHANGED <<disk, mem, broken, lowAge>>
    PROVE  GateType' /\ Ages' /\ (~HG!Pressure(report'.disk) => lowAge' = 0)
<1> DEFINE d == HG!DiskStatus(Reading)
<1>1. Reading \in Nat /\ Reading' = Reading
  BY DEF Reading, GateInv, GateType
<1>2. d \in 0 .. 3
  BY <1>1, StatusRange
<1>3. /\ report'.disk = d /\ ttl' = HG!TTL
      /\ cool' = IF HG!Pressure(d) THEN Cooldown ELSE cool
      /\ pressAge' = IF HG!Pressure(d) THEN 0 ELSE pressAge
  BY DEF HG!Check, Reading
<1>4. HG!DiskStatus(Reading)' = d
  BY <1>1 DEF HG!DiskStatus, HG!Evaluate, HG!Level
<1>5. ~HG!Pressure(d) => lowAge = 0
  BY DEF GateInv, Ages
<1> HIDE DEF d
<1>6. GateType'
  BY <1>2, <1>3 DEF GateInv, GateType, HG!TTL, HG!MaxAge, HG!GateAssumption
<1>7. Ages'
  BY <1>3, <1>4, <1>5 DEF GateInv, GateType, Ages, HG!TTL, HG!MaxAge, HG!GateAssumption, HG!Pressure, HG!Level
<1> QED
  BY <1>3, <1>5, <1>6, <1>7 DEF HG!Pressure, HG!Level

LEMMA AskKeepsGate ==
    ASSUME HG!GateAssumption, GateInv, HG!IsDiskBlocked
    PROVE  GateInv'
<1>1. UNCHANGED <<disk, mem, broken, lowAge>>
  BY DEF HG!IsDiskBlocked
<1>2. CASE UNCHANGED <<report, ttl, cool, pressAge>>
  <2>1. HG!DiskStatus(Reading)' = HG!DiskStatus(Reading)
    BY <1>1 DEF Reading, HG!DiskStatus, HG!Evaluate, HG!Level
  <2>2. HG!Pressure(report.disk)' = HG!Pressure(report.disk)
    BY <1>2 DEF HG!Pressure, HG!Level
  <2>3. GateType' /\ Ages'
    BY <1>1, <1>2, <2>1, <2>2 DEF GateInv, GateType, Ages, HG!TTL, HG!MaxAge, HG!Pressure, HG!Level
  <2>4. HG!GateTruthful'
    <3> SUFFICES ASSUME answer' = "free" PROVE lowAge < HG!TTL /\ pressAge >= Cooldown
      BY <1>1, <1>2 DEF HG!GateTruthful, HG!TTL
    <3>1. cool = 0
      BY DEF HG!IsDiskBlocked, GateInv, GateType, HG!GateAssumption
    <3>2. ttl > 0 \/ ~HG!RefreshDue
      BY <1>2, <3>1 DEF HG!IsDiskBlocked, HG!Check, HG!TTL
    <3>3. ttl > 0
      BY <3>2 DEF HG!RefreshDue, GateInv, GateType, HG!TTL
    <3>4. ~HG!Pressure(report.disk)
      BY <1>2, <3>1 DEF HG!IsDiskBlocked, HG!Pressure, HG!Level
    <3> QED
      BY <3>1, <3>3, <3>4 DEF GateInv, GateType, Ages, HG!TTL, HG!MaxAge, HG!GateAssumption
  <2> QED
    BY <2>3, <2>4 DEF GateInv
<1>3. CASE cool = 0 /\ HG!Check
  <2>1. GateType' /\ Ages' /\ (~HG!Pressure(report'.disk) => lowAge' = 0)
    BY <1>1, <1>3, CheckKeepsAges
  <2>2. HG!GateTruthful'
    <3> SUFFICES ASSUME answer' = "free" PROVE lowAge' < HG!TTL /\ pressAge' >= Cooldown
      BY DEF HG!GateTruthful, HG!TTL
    <3>1. ~HG!Pressure(report'.disk)
      BY <1>3 DEF HG!IsDiskBlocked
    <3>2. cool' = 0
      BY <1>3, <3>1 DEF HG!Check, HG!Pressure
    <3>3. lowAge' = 0
      BY <2>1, <3>1
    <3>4. cool' + pressAge' >= Cooldown
      BY <2>1 DEF Ages
    <3>5. Cooldown \in Nat
      BY DEF HG!GateAssumption
    <3>6. pressAge' \in Nat
      BY <2>1, <3>5 DEF GateType, HG!MaxAge
    <3>7. pressAge' >= Cooldown
      <4>1. \A a, b \in Nat : a = 0 /\ a + b >= Cooldown => b >= Cooldown
        BY <3>5
      <4>2. cool' \in Nat
        BY <3>2
      <4> QED
        BY <3>2, <3>4, <3>6, <4>1, <4>2
    <3>8. lowAge' < 2
      BY <3>3
    <3>9. HG!TTL = 2
      BY DEF HG!TTL
    <3> QED
      BY <3>7, <3>8, <3>9
  <2> QED
    BY <2>1, <2>2 DEF GateInv
<1>4. cool = 0 \/ cool > 0
  BY DEF GateInv, GateType, HG!GateAssumption
<1> QED
  BY <1>2, <1>3, <1>4 DEF HG!IsDiskBlocked

LEMMA CapacityKeepsGate ==
    ASSUME HG!GateAssumption, GateInv, NEW class \in DOMAIN Costs, HG!HasCapacity(class)
    PROVE  GateInv'
<1>1. HG!Check /\ answer' = "none" /\ UNCHANGED <<disk, mem, broken, lowAge>>
  BY DEF HG!HasCapacity
<1> QED
  BY <1>1, CheckKeepsAges DEF GateInv, HG!GateTruthful

LEMMA TickKeepsGate ==
    ASSUME HG!GateAssumption, GateInv, HG!Tick
    PROVE  GateInv'
<1>1. /\ disk' \in Nat /\ mem' \in Nat /\ broken' \in BOOLEAN
      /\ ttl' = (IF ttl > 0 THEN ttl - 1 ELSE 0)
      /\ cool' = (IF cool > 0 THEN cool - 1 ELSE 0)
      /\ lowAge' = (IF HG!Pressure(HG!DiskStatus(disk')) /\ ~broken'
                    THEN HG!Older(lowAge) ELSE 0)
      /\ pressAge' = HG!Older(pressAge)
      /\ answer' = "none" /\ UNCHANGED report
  BY DEF HG!Tick, HG!GateAssumption
<1>2. GateType'
  BY <1>1 DEF GateInv, GateType, HG!TTL, HG!MaxAge, HG!Older, HG!GateAssumption
<1>3. Ages'
  <2>1. cool' + pressAge' >= Cooldown
    BY <1>1 DEF GateInv, GateType, Ages, HG!TTL, HG!MaxAge, HG!Older, HG!GateAssumption
  <2>2. ttl' > 0 /\ ~HG!Pressure(report.disk)' => lowAge' <= HG!TTL - ttl'
    <3> SUFFICES ASSUME ttl' > 0, ~HG!Pressure(report.disk)' PROVE lowAge' <= HG!TTL - ttl'
      BY DEF HG!TTL
    <3>1. ~HG!Pressure(report.disk)
      BY <1>1 DEF HG!Pressure, HG!Level
    <3>2. lowAge <= HG!TTL - ttl /\ ttl' = ttl - 1
      BY <1>1, <3>1 DEF GateInv, GateType, Ages, HG!TTL, HG!MaxAge
    <3>3. lowAge' <= lowAge + 1
      BY <1>1 DEF GateInv, GateType, HG!TTL, HG!MaxAge, HG!Older, HG!GateAssumption
    <3> QED
      BY <3>2, <3>3, <1>2 DEF GateInv, GateType, HG!TTL, HG!MaxAge, HG!GateAssumption
  <2>3. ~HG!Pressure(HG!DiskStatus(Reading))' => lowAge' = 0
    <3>1. CASE broken'
      BY <1>1, <3>1
    <3>2. CASE ~broken'
      <4>1. HG!Pressure(HG!DiskStatus(Reading))' = HG!Pressure(HG!DiskStatus(disk'))
        BY <3>2 DEF Reading, HG!Pressure, HG!DiskStatus, HG!Evaluate, HG!Level
      <4> QED
        BY <1>1, <4>1
    <3> QED
      BY <3>1, <3>2
  <2> QED
    BY <2>1, <2>2, <2>3 DEF Ages, HG!TTL
<1> QED
  BY <1>1, <1>2, <1>3 DEF GateInv, HG!GateTruthful

\* For every cooldown and every course of the readings, is_disk_blocked lets a
\* task pass only if the disk was below CRITICAL, or could not be measured,
\* within the time to live of a report, and if no check of either gate found
\* pressure during the last cooldown.
THEOREM GateIsTruthful == UnitsSpec => []GateTruthful
<1> DEFINE Inv == focus = "gate" => GateInv
<1>1. UnitsInit => Inv
  BY UnitAssumption, InitGate DEF UnitsInit
<1>2. Inv /\ [UnitsNext]_coreVars => Inv'
  <2> SUFFICES ASSUME Inv, [UnitsNext]_coreVars, focus' = "gate" PROVE GateInv'
    OBVIOUS
  <2>1. focus = "gate" /\ GateInv /\ (HG!Next \/ UNCHANGED gateVars)
    BY DEF UnitsNext, coreVars
  <2>2. CASE UNCHANGED gateVars
    <3>1. HG!DiskStatus(Reading)' = HG!DiskStatus(Reading)
      BY <2>2 DEF gateVars, Reading, HG!DiskStatus, HG!Evaluate, HG!Level
    <3>2. HG!Pressure(HG!DiskStatus(Reading))' = HG!Pressure(HG!DiskStatus(Reading))
      BY <3>1 DEF HG!Pressure, HG!Level
    <3>3. HG!Pressure(report.disk)' = HG!Pressure(report.disk)
      BY <2>2 DEF gateVars, HG!Pressure, HG!Level
    <3> QED
      BY <2>1, <2>2, <3>2, <3>3
      DEF gateVars, GateInv, GateType, Ages, HG!GateTruthful, HG!TTL, HG!MaxAge
  <2>3. CASE HG!Next
    BY <2>1, <2>3, UnitAssumption, AskKeepsGate, TickKeepsGate, CapacityKeepsGate DEF HG!Next
  <2> QED
    BY <2>1, <2>2, <2>3
<1>3. Inv => GateTruthful
  BY DEF GateInv, GateTruthful
<1> QED
  BY <1>1, <1>2, <1>3, PTL DEF UnitsSpec

-----------------------------------------------------------------------------
(* Cache of stage timeouts *)

Progress == {"new", "lookup", "ensure_timeout", "fetch_timeout", "retrieve", "budget",
             "fetch_budget", "sum", "active", "released"}

CacheType ==
    /\ entry \in [stages : SUBSET Stages, from : Nat, stale : BOOLEAN]
    /\ count \in Nat /\ queries \in Nat /\ expiries \in Nat
    /\ pc \in [Tasks -> Progress]
    /\ got \in [Tasks -> [timeout : Nat, budget : [Stages -> Nat]]]

\* Tasks that are counted and have not been concluded.
Busy == {t \in Tasks : pc[t] \notin {"new", "released"}}

\* Before a time to live runs out the entry is all of one query or nothing.
WholeEntry ==
    /\ ~entry.stale
    /\ entry.stages = {} \/ entry.stages = Stages
    /\ entry.stages # {} => entry.from \in 1 .. queries

\* What a task has made sure of is there until it has read it; what it has read
\* came from a query, and a step that is no stage finds nothing.
Resolved(t) ==
    /\ pc[t] \in {"retrieve", "sum"} => entry.stages = Stages
    /\ got[t].timeout # 0 <=>
          pc[t] \in {"budget", "fetch_budget", "sum", "active", "released"} /\ StepOf[t] \in Stages
    /\ pc[t] \in {"active", "released"} =>
          \E q \in 1 .. queries : \A s \in Stages : got[t].budget[s] = q

CacheInv ==
    /\ CacheType
    /\ Cardinality(Busy) <= count
    /\ expiries = 0 => WholeEntry /\ \A t \in Tasks : Resolved(t)

\* The instance has a copy of the operator on finite sets.
LEMMA TasksFinite ==
    ASSUME TC!MonitorAssumption
    PROVE  /\ IsFiniteSet(Tasks)
           /\ \A T \in SUBSET Tasks : IsFiniteSet(T) /\ Cardinality(T) \in Nat
<1>1. IsFiniteSet(Tasks)
  BY Zenon DEF TC!MonitorAssumption, TC!IsFiniteSet, IsFiniteSet
<1> QED
  BY <1>1, FS_Subset, FS_CardinalityType

\* A task that starts is one more, a task that ends one less, and two tasks
\* are at least two.
LEMMA BusyCount ==
    ASSUME TC!MonitorAssumption, CacheInv, NEW t \in Tasks
    PROVE  /\ t \notin Busy => Cardinality(Busy \cup {t}) <= count + 1
           /\ t \in Busy => Cardinality(Busy \ {t}) <= count - 1
           /\ \A u \in Busy : t \in Busy /\ u # t => count - 1 > 0
<1>1. IsFiniteSet(Busy) /\ Cardinality(Busy) \in Nat /\ count \in Nat /\ Cardinality(Busy) <= count
  <2>1. Busy \in SUBSET Tasks
    BY DEF Busy
  <2> QED
    BY <2>1, TasksFinite DEF CacheInv, CacheType
<1>2. t \notin Busy => Cardinality(Busy \cup {t}) = Cardinality(Busy) + 1
  BY <1>1, FS_AddElement
<1>3. t \in Busy => Cardinality(Busy \ {t}) = Cardinality(Busy) - 1
  BY <1>1, FS_RemoveElement
<1>4. ASSUME NEW u \in Busy, t \in Busy, u # t
      PROVE  count - 1 > 0
  <2>1. Cardinality({u}) = 1 /\ IsFiniteSet({u})
    BY FS_Singleton
  <2>2. Cardinality({u} \cup {t}) = 2
    BY <2>1, <1>4, FS_AddElement
  <2>3. {u} \cup {t} \in SUBSET Busy
    BY <1>4
  <2>4. Cardinality({u} \cup {t}) <= Cardinality(Busy)
    BY <2>3, <1>1, FS_Subset
  <2> QED
    BY <2>2, <2>4, <1>1
<1> QED
  BY <1>1, <1>2, <1>3, <1>4

LEMMA InitCache ==
    ASSUME TC!MonitorAssumption, TC!Init
    PROVE  CacheInv
<1>1. CacheType
  BY DEF TC!Init, TC!NoEntry, TC!Nothing, CacheType, Progress
<1>2. Busy = {} /\ Cardinality({}) = 0
  BY FS_EmptySet DEF TC!Init, Busy
<1>3. WholeEntry
  BY DEF TC!Init, TC!NoEntry, WholeEntry
<1>4. \A t \in Tasks : Resolved(t)
  BY DEF TC!Init, TC!Nothing, Resolved
<1> QED
  BY <1>1, <1>2, <1>3, <1>4 DEF CacheInv, TC!Init

LEMMA CountTaskKeepsCache ==
    ASSUME TC!MonitorAssumption, CacheInv, NEW t \in Tasks, TC!CountTask(t)
    PROVE  CacheInv'
<1>1. /\ pc[t] = "new" /\ count' = count + 1 /\ pc' = [pc EXCEPT ![t] = "lookup"]
      /\ UNCHANGED <<entry, got, queries, expiries>>
  BY DEF TC!CountTask, TC!Goto
<1>2. CacheType'
  BY <1>1 DEF CacheInv, CacheType, Progress
<1>3. Cardinality(Busy') <= count'
  <2>1. t \notin Busy /\ Busy' = Busy \cup {t}
    BY <1>1 DEF CacheInv, CacheType, Busy
  <2> QED
    BY <1>1, <2>1, BusyCount
<1>4. ASSUME expiries' = 0
      PROVE  WholeEntry' /\ \A u \in Tasks : Resolved(u)'
  <2>1. WholeEntry' /\ \A u \in Tasks : Resolved(u)
    BY <1>1, <1>4 DEF CacheInv, WholeEntry
  <2>2. ASSUME NEW u \in Tasks
        PROVE  Resolved(u)'
    <3>1. /\ pc'[u] = pc[u] \/ (pc[u] = "new" /\ pc'[u] = "lookup")
          /\ got'[u] = got[u] /\ entry' = entry /\ queries' = queries
      BY <1>1 DEF CacheInv, CacheType
    <3> QED
      BY <2>1, <3>1 DEF Resolved
  <2> QED
    BY <2>1, <2>2
<1> QED
  BY <1>2, <1>3, <1>4 DEF CacheInv

\* A counted task that goes on is still one counted task.
LEMMA StaysBusy ==
    ASSUME CacheInv, NEW t \in Busy, NEW p \in Progress \ {"new", "released"},
           pc' = [pc EXCEPT ![t] = p], count' = count
    PROVE  Cardinality(Busy') <= count'
<1>1. Busy' = Busy
  BY DEF CacheInv, CacheType, Busy
<1> QED
  BY <1>1 DEF CacheInv

LEMMA LookupKeepsCache ==
    ASSUME TC!MonitorAssumption, CacheInv, NEW t \in Tasks, TC!GetCachedTimeout(t)
    PROVE  CacheInv'
<1> DEFINE hit == StepOf[t] \in entry.stages
           fresh == hit /\ ~entry.stale
           left == entry.stages \ {StepOf[t]}
           p == IF fresh THEN "budget" ELSE "ensure_timeout"
<1>1. /\ pc[t] = "lookup" /\ pc' = [pc EXCEPT ![t] = p]
      /\ got' = IF fresh THEN [got EXCEPT ![t].timeout = entry.from] ELSE got
      /\ entry' = IF hit /\ entry.stale
                  THEN IF left = {} THEN TC!NoEntry ELSE [entry EXCEPT !.stages = left]
                  ELSE entry
      /\ UNCHANGED <<count, queries, expiries>>
  BY DEF TC!GetCachedTimeout, TC!Goto
<1>2. p \in Progress \ {"new", "released"} /\ (p = "budget" <=> fresh) /\ (p # "budget" => p = "ensure_timeout")
  BY DEF Progress
<1>3. CacheType'
  <2>1. entry' \in [stages : SUBSET Stages, from : Nat, stale : BOOLEAN]
    BY <1>1 DEF CacheInv, CacheType, TC!NoEntry
  <2>2. got' \in [Tasks -> [timeout : Nat, budget : [Stages -> Nat]]]
    BY <1>1 DEF CacheInv, CacheType
  <2> QED
    BY <1>1, <1>2, <2>1, <2>2 DEF CacheInv, CacheType
<1>4. Cardinality(Busy') <= count'
  <2>1. t \in Busy
    BY <1>1 DEF Busy
  <2> QED
    BY <1>1, <1>2, <2>1, StaysBusy
<1>5. ASSUME expiries' = 0
      PROVE  WholeEntry' /\ \A u \in Tasks : Resolved(u)'
  <2>1. WholeEntry /\ entry' = entry /\ \A u \in Tasks : Resolved(u)
    BY <1>1, <1>5 DEF CacheInv, WholeEntry
  <2>2. WholeEntry'
    BY <1>1, <2>1 DEF WholeEntry
  <2>3. fresh => entry.from # 0
    BY <2>1 DEF WholeEntry, CacheInv, CacheType
  <2>4. ASSUME NEW u \in Tasks
        PROVE  Resolved(u)'
    <3>1. CASE u = t
      <4>1. pc'[u] \in {"budget", "ensure_timeout"} /\ (pc'[u] = "budget" <=> fresh)
        BY <1>1, <3>1 DEF CacheInv, CacheType
      <4>2. got[u].timeout = 0
        BY <1>1, <2>1, <3>1 DEF Resolved
      <4>3. fresh => got'[u].timeout # 0 /\ StepOf[u] \in Stages
        BY <1>1, <2>3, <3>1 DEF CacheInv, CacheType
      <4>4. ~fresh => got'[u].timeout = 0
        BY <1>1, <4>2
      <4> HIDE DEF fresh
      <4> QED
        BY <4>1, <4>3, <4>4 DEF Resolved
    <3>2. CASE u # t
      <4>1. pc'[u] = pc[u] /\ got'[u] = got[u]
        BY <1>1, <3>2 DEF CacheInv, CacheType
      <4>2. Resolved(u) /\ entry' = entry /\ queries' = queries
        BY <1>1, <2>1
      <4> QED
        BY <4>1, <4>2 DEF Resolved
    <3> QED
      BY <3>1, <3>2
  <2> QED
    BY <2>2, <2>4
<1> QED
  BY <1>3, <1>4, <1>5 DEF CacheInv

LEMMA EnsureKeepsCache ==
    ASSUME TC!MonitorAssumption, CacheInv, NEW t \in Tasks, TC!Ensure(t)
    PROVE  CacheInv'
<1>1. /\ pc[t] \in {"ensure_timeout", "budget"}
      /\ UNCHANGED <<entry, count, got, queries, expiries>>
  BY DEF TC!Ensure
<1>2. PICK p \in {"sum", "retrieve", "fetch_budget", "fetch_timeout"} :
        /\ pc' = [pc EXCEPT ![t] = p]
        /\ p \in {"sum", "fetch_budget"} <=> pc[t] = "budget"
        /\ p \in {"sum", "retrieve"} => entry.stages # {}
  <2>1. CASE TC!Cached /\ pc[t] = "budget"
    BY <2>1 DEF TC!Ensure, TC!Goto, TC!Cached
  <2>2. CASE TC!Cached /\ pc[t] # "budget"
    BY <2>2 DEF TC!Ensure, TC!Goto, TC!Cached
  <2>3. CASE ~TC!Cached /\ pc[t] = "budget"
    BY <2>3 DEF TC!Ensure, TC!Goto, TC!Cached
  <2>4. CASE ~TC!Cached /\ pc[t] # "budget"
    BY <2>4 DEF TC!Ensure, TC!Goto, TC!Cached
  <2> QED
    BY <2>1, <2>2, <2>3, <2>4
<1>3. CacheType'
  BY <1>1, <1>2 DEF CacheInv, CacheType, Progress
<1>4. Cardinality(Busy') <= count'
  <2>1. t \in Busy /\ p \in Progress \ {"new", "released"}
    BY <1>1 DEF Busy, Progress
  <2> QED
    BY <1>1, <1>2, <2>1, StaysBusy
<1>5. ASSUME expiries' = 0
      PROVE  WholeEntry' /\ \A u \in Tasks : Resolved(u)'
  <2>1. WholeEntry /\ WholeEntry' /\ \A u \in Tasks : Resolved(u)
    BY <1>1, <1>5 DEF CacheInv, WholeEntry
  <2>2. ASSUME NEW u \in Tasks
        PROVE  Resolved(u)'
    <3>1. CASE u # t
      <4>1. pc'[u] = pc[u] /\ got'[u] = got[u] /\ entry' = entry /\ queries' = queries
        BY <1>1, <1>2, <3>1 DEF CacheInv, CacheType
      <4> QED
        BY <2>1, <4>1 DEF Resolved
    <3>2. CASE u = t
      <4>1. /\ pc'[u] = p /\ got'[u] = got[u] /\ entry' = entry
            /\ pc[u] \in {"ensure_timeout", "budget"}
        BY <1>1, <1>2, <3>2 DEF CacheInv, CacheType
      <4>2. p \in {"sum", "retrieve"} => entry.stages = Stages
        BY <1>2, <2>1 DEF WholeEntry
      <4>3. /\ p \in {"sum", "fetch_budget"} => pc[u] = "budget"
            /\ p \in {"retrieve", "fetch_timeout"} => pc[u] = "ensure_timeout"
        BY <1>1, <1>2, <3>2
      <4>4. got'[u].timeout # 0 <=> pc[u] = "budget" /\ StepOf[u] \in Stages
        BY <2>1, <4>1 DEF Resolved
      <4>5. CASE p \in {"sum", "fetch_budget"}
        BY <4>1, <4>2, <4>3, <4>4, <4>5 DEF Resolved
      <4>6. CASE p \in {"retrieve", "fetch_timeout"}
        BY <4>1, <4>2, <4>3, <4>4, <4>6 DEF Resolved
      <4> QED
        BY <4>5, <4>6
    <3> QED
      BY <3>1, <3>2
  <2> QED
    BY <2>1, <2>2
<1> QED
  BY <1>3, <1>4, <1>5 DEF CacheInv

LEMMA PreFetchKeepsCache ==
    ASSUME TC!MonitorAssumption, CacheInv, NEW t \in Tasks, TC!PreFetch(t)
    PROVE  CacheInv'
<1>1. /\ pc[t] \in {"fetch_timeout", "fetch_budget"} /\ queries' = queries + 1
      /\ entry' = [stages |-> entry.stages \cup Stages, from |-> queries', stale |-> FALSE]
      /\ pc' = [pc EXCEPT ![t] = IF pc[t] = "fetch_budget" THEN "sum" ELSE "retrieve"]
      /\ UNCHANGED <<count, got, expiries>>
  BY DEF TC!PreFetch, TC!Fetched, TC!Goto
<1>2. entry' = [stages |-> Stages, from |-> queries + 1, stale |-> FALSE]
  BY <1>1 DEF CacheInv, CacheType
<1>3. CacheType'
  BY <1>1, <1>2 DEF CacheInv, CacheType, Progress
<1>4. Cardinality(Busy') <= count'
  <2>1. t \in Busy
    BY <1>1 DEF Busy
  <2> QED
    BY <1>1, <2>1, StaysBusy DEF Progress
<1>5. ASSUME expiries' = 0
      PROVE  WholeEntry' /\ \A u \in Tasks : Resolved(u)'
  <2>1. WholeEntry'
    BY <1>1, <1>2 DEF WholeEntry, CacheInv, CacheType
  <2>2. \A u \in Tasks : Resolved(u)
    BY <1>1, <1>5 DEF CacheInv
  <2>3. 1 .. queries \subseteq 1 .. queries'
    BY <1>1 DEF CacheInv, CacheType
  <2>4. ASSUME NEW u \in Tasks
        PROVE  Resolved(u)'
    <3>1. entry'.stages = Stages /\ got'[u] = got[u]
      BY <1>1, <1>2
    <3>2. \/ pc'[u] = pc[u]
          \/ pc'[u] = "retrieve" /\ pc[u] = "fetch_timeout"
          \/ pc'[u] = "sum" /\ pc[u] = "fetch_budget"
      BY <1>1 DEF CacheInv, CacheType
    <3>3. CASE pc'[u] = pc[u]
      BY <2>2, <2>3, <3>1, <3>3 DEF Resolved
    <3>4. CASE pc'[u] = "retrieve" /\ pc[u] = "fetch_timeout"
      BY <2>2, <3>1, <3>4 DEF Resolved
    <3>5. CASE pc'[u] = "sum" /\ pc[u] = "fetch_budget"
      BY <2>2, <3>1, <3>5 DEF Resolved
    <3> QED
      BY <3>2, <3>3, <3>4, <3>5
  <2> QED
    BY <2>1, <2>4
<1> QED
  BY <1>3, <1>4, <1>5 DEF CacheInv

LEMMA RetrieveKeepsCache ==
    ASSUME TC!MonitorAssumption, CacheInv, NEW t \in Tasks, TC!Retrieve(t)
    PROVE  CacheInv'
<1>1. /\ pc[t] = "retrieve" /\ pc' = [pc EXCEPT ![t] = "budget"]
      /\ got' = IF StepOf[t] \in entry.stages
                THEN [got EXCEPT ![t].timeout = entry.from] ELSE got
      /\ UNCHANGED <<entry, count, queries, expiries>>
  BY DEF TC!Retrieve, TC!Goto
<1>2. CacheType'
  <2>1. got' \in [Tasks -> [timeout : Nat, budget : [Stages -> Nat]]]
    BY <1>1 DEF CacheInv, CacheType
  <2> QED
    BY <1>1, <2>1 DEF CacheInv, CacheType, Progress
<1>3. Cardinality(Busy') <= count'
  <2>1. t \in Busy
    BY <1>1 DEF Busy
  <2> QED
    BY <1>1, <2>1, StaysBusy DEF Progress
<1>4. ASSUME expiries' = 0
      PROVE  WholeEntry' /\ \A u \in Tasks : Resolved(u)'
  <2>1. WholeEntry /\ \A u \in Tasks : Resolved(u)
    BY <1>1, <1>4 DEF CacheInv
  <2>2. WholeEntry'
    BY <1>1, <2>1 DEF WholeEntry
  <2>3. entry.stages = Stages /\ got[t].timeout = 0
    BY <1>1, <2>1 DEF Resolved
  <2>4. /\ \A u \in Tasks \ {t} : got'[u] = got[u]
        /\ got'[t].timeout # 0 <=> StepOf[t] \in Stages
    <3>1. CASE StepOf[t] \in Stages
      <4>1. entry.from # 0 /\ got' = [got EXCEPT ![t].timeout = entry.from]
        BY <1>1, <2>1, <2>3, <3>1 DEF WholeEntry, CacheInv, CacheType, TC!MonitorAssumption
      <4> QED
        BY <3>1, <4>1 DEF CacheInv, CacheType
    <3>2. CASE StepOf[t] \notin Stages
      BY <1>1, <2>3, <3>2
    <3> QED
      BY <3>1, <3>2
  <2>5. ASSUME NEW u \in Tasks
        PROVE  Resolved(u)'
    <3>1. CASE u = t
      <4>1. pc'[u] = "budget" /\ (got'[u].timeout # 0 <=> StepOf[u] \in Stages)
        BY <1>1, <2>4, <3>1 DEF CacheInv, CacheType
      <4> QED
        BY <4>1 DEF Resolved
    <3>2. CASE u # t
      <4>1. pc'[u] = pc[u] /\ got'[u] = got[u]
        BY <1>1, <2>4, <3>2 DEF CacheInv, CacheType
      <4>2. Resolved(u) /\ entry' = entry /\ queries' = queries
        BY <1>1, <2>1
      <4> QED
        BY <4>1, <4>2 DEF Resolved
    <3> QED
      BY <3>1, <3>2
  <2> QED
    BY <2>2, <2>5
<1> QED
  BY <1>2, <1>3, <1>4 DEF CacheInv

LEMMA SumKeepsCache ==
    ASSUME TC!MonitorAssumption, CacheInv, NEW t \in Tasks, TC!SumBudget(t)
    PROVE  CacheInv'
<1> DEFINE sum == [s \in Stages |-> IF s \in entry.stages THEN entry.from ELSE 0]
<1>1. /\ pc[t] = "sum" /\ pc' = [pc EXCEPT ![t] = "active"]
      /\ got' = [got EXCEPT ![t].budget = sum]
      /\ UNCHANGED <<entry, count, queries, expiries>>
  BY DEF TC!SumBudget, TC!Goto
<1>2. sum \in [Stages -> Nat]
  BY DEF CacheInv, CacheType
<1>3. \A s \in Stages : sum[s] = IF s \in entry.stages THEN entry.from ELSE 0
  OBVIOUS
<1> HIDE DEF sum
<1>4. CacheType'
  <2>1. got' \in [Tasks -> [timeout : Nat, budget : [Stages -> Nat]]]
    BY <1>1, <1>2 DEF CacheInv, CacheType
  <2> QED
    BY <1>1, <2>1 DEF CacheInv, CacheType, Progress
<1>5. Cardinality(Busy') <= count'
  <2>1. t \in Busy
    BY <1>1 DEF Busy
  <2> QED
    BY <1>1, <2>1, StaysBusy DEF Progress
<1>6. ASSUME expiries' = 0
      PROVE  WholeEntry' /\ \A u \in Tasks : Resolved(u)'
  <2>1. WholeEntry /\ \A u \in Tasks : Resolved(u)
    BY <1>1, <1>6 DEF CacheInv
  <2>2. WholeEntry'
    BY <1>1, <2>1 DEF WholeEntry
  <2>3. entry.stages = Stages /\ Stages # {} /\ (got[t].timeout # 0 <=> StepOf[t] \in Stages)
    BY <1>1, <2>1 DEF Resolved, TC!MonitorAssumption
  <2>4. entry.from \in 1 .. queries /\ \A s \in Stages : sum[s] = entry.from
    BY <1>3, <2>1, <2>3 DEF WholeEntry
  <2>5. ASSUME NEW u \in Tasks
        PROVE  Resolved(u)'
    <3>1. CASE u = t
      <4>1. /\ pc'[u] = "active" /\ got'[u].budget = sum
            /\ got'[u].timeout # 0 <=> StepOf[u] \in Stages
        BY <1>1, <2>3, <3>1 DEF CacheInv, CacheType
      <4>2. entry.from \in 1 .. queries' /\ \A s \in Stages : got'[u].budget[s] = entry.from
        BY <1>1, <2>4, <4>1
      <4> QED
        BY <4>1, <4>2 DEF Resolved
    <3>2. CASE u # t
      <4>1. pc'[u] = pc[u] /\ got'[u] = got[u]
        BY <1>1, <3>2 DEF CacheInv, CacheType
      <4>2. Resolved(u) /\ entry' = entry /\ queries' = queries
        BY <1>1, <2>1
      <4> QED
        BY <4>1, <4>2 DEF Resolved
    <3> QED
      BY <3>1, <3>2
  <2> QED
    BY <2>2, <2>5
<1> QED
  BY <1>4, <1>5, <1>6 DEF CacheInv

LEMMA ReleaseKeepsCache ==
    ASSUME TC!MonitorAssumption, CacheInv, NEW t \in Tasks, NEW key, TC!Release(t, key)
    PROVE  CacheInv'
<1>1. /\ pc[t] = "active" /\ pc' = [pc EXCEPT ![t] = "released"]
      /\ UNCHANGED <<got, queries, expiries>>
  BY DEF TC!Release, TC!Goto
<1>2. \/ count - 1 <= 0 /\ count' = 0 /\ entry' = TC!NoEntry
      \/ ~(count - 1 <= 0) /\ count' = count - 1 /\ entry' = entry
      \/ count' = count /\ entry' = entry
  BY DEF TC!Release
<1>3. t \in Busy /\ Busy' = Busy \ {t}
  BY <1>1 DEF CacheInv, CacheType, Busy
<1>4. Cardinality(Busy \ {t}) <= count - 1 /\ Cardinality(Busy \ {t}) \in Nat
  <2>1. Busy \ {t} \in SUBSET Tasks
    BY DEF Busy
  <2> QED
    BY <1>3, <2>1, BusyCount, TasksFinite
<1>5. CacheType'
  <2>1. entry' \in [stages : SUBSET Stages, from : Nat, stale : BOOLEAN]
    <3>1. TC!NoEntry \in [stages : SUBSET Stages, from : Nat, stale : BOOLEAN]
      BY DEF TC!NoEntry
    <3>2. entry' = entry \/ entry' = TC!NoEntry
      BY <1>2
    <3> QED
      BY <3>1, <3>2 DEF CacheInv, CacheType
  <2>2. count' \in Nat
    BY <1>2 DEF CacheInv, CacheType
  <2>3. pc' \in [Tasks -> Progress]
    BY <1>1 DEF CacheInv, CacheType, Progress
  <2> QED
    BY <1>1, <2>1, <2>2, <2>3 DEF CacheInv, CacheType
<1>6. Cardinality(Busy') <= count'
  BY <1>2, <1>3, <1>4 DEF CacheInv, CacheType
<1>7. ASSUME expiries' = 0
      PROVE  WholeEntry' /\ \A u \in Tasks : Resolved(u)'
  <2>1. WholeEntry /\ \A u \in Tasks : Resolved(u)
    BY <1>1, <1>7 DEF CacheInv
  <2>2. WholeEntry'
    BY <1>1, <1>2, <2>1 DEF WholeEntry, TC!NoEntry
  <2>3. ASSUME NEW u \in Tasks
        PROVE  Resolved(u)'
    <3>1. CASE u = t
      <4>1. pc[u] = "active" /\ pc'[u] = "released" /\ got' = got /\ queries' = queries
        BY <1>1, <3>1 DEF CacheInv, CacheType
      <4> QED
        BY <2>1, <4>1 DEF Resolved
    <3>2. CASE u # t
      <4>1. pc'[u] = pc[u] /\ got' = got /\ queries' = queries
        BY <1>1, <3>2 DEF CacheInv, CacheType
      <4>2. pc[u] \in {"retrieve", "sum"} => entry' = entry
        <5> SUFFICES ASSUME pc[u] \in {"retrieve", "sum"} PROVE entry' = entry
          OBVIOUS
        <5>1. u \in Busy
          BY DEF Busy
        <5>2. count - 1 > 0 /\ count \in Nat
          BY <1>3, <3>2, <5>1, BusyCount DEF CacheInv, CacheType
        <5> QED
          BY <1>2, <5>2
      <4> QED
        BY <2>1, <4>1, <4>2 DEF Resolved
    <3> QED
      BY <3>1, <3>2
  <2> QED
    BY <2>2, <2>3
<1> QED
  BY <1>5, <1>6, <1>7 DEF CacheInv

LEMMA ExpireKeepsCache ==
    ASSUME TC!MonitorAssumption, CacheInv, TC!Expire
    PROVE  CacheInv'
<1>1. /\ expiries' = expiries + 1 /\ entry' = [entry EXCEPT !.stale = TRUE]
      /\ UNCHANGED <<count, pc, got, queries>>
  BY DEF TC!Expire
<1>2. CacheType' /\ expiries' # 0
  <2>1. entry' \in [stages : SUBSET Stages, from : Nat, stale : BOOLEAN]
    BY <1>1 DEF CacheInv, CacheType
  <2>2. expiries' \in Nat /\ expiries' # 0
    BY <1>1 DEF CacheInv, CacheType
  <2> QED
    BY <1>1, <2>1, <2>2 DEF CacheInv, CacheType
<1>3. Busy' = Busy
  BY <1>1 DEF Busy
<1> QED
  BY <1>1, <1>2, <1>3 DEF CacheInv

\* For any number of tasks of a dataset that are created and concluded by the
\* threads of the daemon, resolve_budget gives a task the answer of a single
\* query, and resolve_timeout that of a query exactly when the step is called
\* like a stage, as long as no entry outlives its time to live.
THEOREM BudgetsAreOfOneQuery == UnitsSpec => []BudgetOfOneQuery
<1> DEFINE Inv == focus = "timeouts" => CacheInv
<1>1. UnitsInit => Inv
  BY UnitAssumption, InitCache DEF UnitsInit
<1>2. Inv /\ [UnitsNext]_coreVars => Inv'
  <2> SUFFICES ASSUME Inv, [UnitsNext]_coreVars, focus' = "timeouts" PROVE CacheInv'
    OBVIOUS
  <2>1. focus = "timeouts" /\ CacheInv /\ (TC!Next \/ UNCHANGED timeoutVars)
    BY DEF UnitsNext, coreVars
  <2>2. CASE UNCHANGED timeoutVars
    <3>1. Busy' = Busy
      BY <2>2 DEF timeoutVars, Busy
    <3>2. WholeEntry' = WholeEntry /\ \A t \in Tasks : Resolved(t)' = Resolved(t)
      BY <2>2 DEF timeoutVars, WholeEntry, Resolved
    <3> QED
      BY <2>1, <2>2, <3>1, <3>2 DEF timeoutVars, CacheInv, CacheType
  <2>3. CASE TC!Next
    BY <2>1, <2>3, UnitAssumption, CountTaskKeepsCache, LookupKeepsCache, EnsureKeepsCache,
       PreFetchKeepsCache, RetrieveKeepsCache, SumKeepsCache, ReleaseKeepsCache, ExpireKeepsCache
    DEF TC!Next, TC!Create
  <2> QED
    BY <2>1, <2>2, <2>3
<1>3. Inv => BudgetOfOneQuery
  BY DEF CacheInv, Resolved, TC!BudgetOfOneQuery, BudgetOfOneQuery
<1> QED
  BY <1>1, <1>2, <1>3, PTL DEF UnitsSpec

-----------------------------------------------------------------------------
(* Registries *)

Lookups == [at : {"idle", "look", "load"}, via : {"class", "factory", "walked"},
            key : Keys \cup {""}, next : Nat, answer : RG!Modules \cup {"none", "missing"}]

RegistryType ==
    /\ DOMAIN items \subseteq STRING
    /\ modules \in [RG!Modules -> [at : {"new", "importing", "done"}, by : Importers \cup {0},
                                   left : Seq(STRING)]]
    /\ thread \in [Importers -> Lookups]

\* The first class of the module, if it has one, can be found.
FirstFound(m) == Provides[m] = <<>> \/ RG!Found(Provides[m][1])
AllFound == \A m \in RG!Modules : FirstFound(m)

\* A class is registered by a module that offers its key.
Registered == \A k \in DOMAIN items : items[k] \in RG!Modules /\ k \in RG!Offers(items[k])

\* A module is imported by the thread whose turn it is, which has all of its
\* keys before it or has registered the first.
Importing(m) ==
    /\ modules[m].at = "importing" =>
         /\ RG!Turn(modules[m].by, m) /\ modules[m].by \in Importers
         /\ \A i \in 1 .. Len(modules[m].left) : modules[m].left[i] \in RG!Offers(m)
         /\ modules[m].left = Provides[m] \/ FirstFound(m)
    /\ modules[m].at = "done" => FirstFound(m)

\* A walk leaves nothing out that could be registered; whoever sees the mark
\* and nobody who walks finds everything.
Walk(t) ==
    /\ thread[t].at = "load" =>
         /\ thread[t].next > 0 /\ thread[t].key \in Keys
         /\ \A i \in 1 .. Len(ImportOrder) : i < thread[t].next => FirstFound(ImportOrder[i])
    /\ thread[t].at = "look" => thread[t].key \in Keys /\ (thread[t].via = "walked" => AllFound)

\* What a lookup has answered.
Answered(t) ==
    thread[t].at = "idle" /\ thread[t].key # "" =>
       /\ thread[t].answer # "missing" => thread[t].key \in RG!Offers(thread[t].answer)
       /\ thread[t].answer = "missing" /\ thread[t].key \in RG!Certain => t \in raced

RegistryInv ==
    /\ RegistryType /\ Registered
    /\ \A m \in RG!Modules : Importing(m)
    /\ \A t \in Importers : Walk(t) /\ Answered(t)
    /\ loaded => AllFound \/ \E u \in Importers : thread[u].at = "load"

LEMMA InitRegistry ==
    ASSUME RG!RegistryAssumption, RG!Init
    PROVE  RegistryInv
<1>1. DOMAIN items = {}
  BY DEF RG!Init
<1>2. RegistryType
  <2>1. <<>> \in Seq(STRING)
    OBVIOUS
  <2>2. RG!New \in [at : {"new", "importing", "done"}, by : Importers \cup {0}, left : Seq(STRING)]
    BY <2>1 DEF RG!New
  <2>3. RG!Idle \in Lookups
    BY DEF RG!Idle, Lookups
  <2> QED
    BY <1>1, <2>2, <2>3 DEF RG!Init, RegistryType
<1>3. Registered
  BY <1>1 DEF Registered
<1>4. \A m \in RG!Modules : Importing(m)
  BY DEF RG!Init, RG!New, Importing
<1>5. \A t \in Importers : Walk(t) /\ Answered(t)
  BY DEF RG!Init, RG!Idle, Walk, Answered
<1> QED
  BY <1>2, <1>3, <1>4, <1>5 DEF RG!Init, RegistryInv

LEMMA OrderLength ==
    ASSUME RG!RegistryAssumption
    PROVE  Len(ImportOrder) \in Nat
<1>1. ImportOrder \in Seq(DOMAIN Provides)
  BY Zenon DEF RG!RegistryAssumption
<1> QED
  BY <1>1

\* What is found stays found while nothing is unregistered.
LEMMA FoundStays ==
    ASSUME DOMAIN items \subseteq DOMAIN items'
    PROVE  (\A m : FirstFound(m) => FirstFound(m)') /\ (AllFound => AllFound')
<1>1. \A m : FirstFound(m) => FirstFound(m)'
  BY DEF FirstFound, RG!Found
<1>2. RG!Modules' = RG!Modules
  BY DEF RG!Modules
<1> QED
  BY <1>1, <1>2 DEF AllFound

\* A step of one thread that imports nothing.
LEMMA ThreadStep ==
    ASSUME RegistryInv, NEW t \in Importers, NEW new \in Lookups,
           thread' = [thread EXCEPT ![t] = new], UNCHANGED <<items, modules>>,
           \A m \in RG!Modules : modules[m].at = "importing" => modules[m].by # t,
           Walk(t)', Answered(t)', \A u \in Importers : u # t => (u \in raced <=> u \in raced'),
           loaded' => AllFound \/ \E u \in Importers : thread'[u].at = "load"
    PROVE  RegistryInv'
<1>1. /\ RG!Modules' = RG!Modules /\ RG!Certain' = RG!Certain
      /\ \A m : RG!Offers(m)' = RG!Offers(m)
  BY DEF RG!Modules, RG!Certain, RG!Offers
<1>2. AllFound' = AllFound /\ \A m : FirstFound(m)' = FirstFound(m)
  BY DEF AllFound, FirstFound, RG!Found, RG!Modules
<1>3. \A u \in Importers : u # t => thread'[u] = thread[u]
  BY DEF RegistryInv, RegistryType
<1>4. RegistryType' /\ Registered'
  BY <1>1 DEF RegistryInv, RegistryType, Registered
<1>5. ASSUME NEW m \in RG!Modules
      PROVE  Importing(m)'
  <2>1. Importing(m)
    BY DEF RegistryInv
  <2> QED
    BY <1>1, <1>2, <1>3, <2>1 DEF Importing, RG!Turn
<1>6. ASSUME NEW u \in Importers
      PROVE  Walk(u)' /\ Answered(u)'
  <2>1. CASE u = t
    BY <2>1
  <2>2. CASE u # t
    <3>1. Walk(u) /\ Answered(u) /\ thread'[u] = thread[u]
      BY <2>2, <1>3 DEF RegistryInv
    <3> QED
      BY <1>1, <1>2, <2>2, <3>1 DEF Walk, Answered
  <2> QED
    BY <2>1, <2>2
<1> QED
  BY <1>1, <1>2, <1>4, <1>5, <1>6 DEF RegistryInv

LEMMA LookupKeepsRegistry ==
    ASSUME RG!RegistryAssumption, RegistryInv, NEW t \in Importers,
           NEW via \in {"class", "factory"}, NEW k \in Keys, RG!Lookup(t, via, k)
    PROVE  RegistryInv'
<1> DEFINE new == [RG!Idle EXCEPT !.at = "look", !.via = via, !.key = k]
<1>1. /\ thread[t].at = "idle" /\ thread' = [thread EXCEPT ![t] = new]
      /\ UNCHANGED <<items, loaded, modules, raced>>
  BY DEF RG!Lookup
<1>2. new \in Lookups /\ new.at = "look" /\ new.via # "walked" /\ new.key = k
  BY DEF RG!Idle, Lookups
<1>3. \A m \in RG!Modules : modules[m].at = "importing" => modules[m].by # t
  BY <1>1 DEF RegistryInv, Importing, RG!Turn
<1>4. thread'[t] = new
  BY <1>1 DEF RegistryInv, RegistryType
<1>5. Walk(t)' /\ Answered(t)'
  <2> HIDE DEF new
  <2> QED
    BY <1>2, <1>4 DEF Walk, Answered
<1>6. loaded' => AllFound \/ \E u \in Importers : thread'[u].at = "load"
  BY <1>1 DEF RegistryInv, RegistryType
<1> HIDE DEF new
<1> QED
  BY <1>1, <1>2, <1>3, <1>5, <1>6, ThreadStep

LEMMA LookKeepsRegistry ==
    ASSUME RG!RegistryAssumption, RegistryInv, NEW t \in Importers, RG!Look(t)
    PROVE  RegistryInv'
<1> DEFINE k == thread[t].key
           new == [thread[t] EXCEPT !.at = "idle", !.answer = items[k]]
<1>1. /\ thread[t].at = "look" /\ k \in DOMAIN items /\ thread' = [thread EXCEPT ![t] = new]
      /\ UNCHANGED <<items, loaded, modules, raced>>
  BY DEF RG!Look, RG!Finish, RG!Found, RegistryInv, RegistryType
<1>2. thread[t] \in Lookups /\ items[k] \in RG!Modules /\ k \in RG!Offers(items[k])
  BY <1>1 DEF RegistryInv, RegistryType, Registered
<1>3. new \in Lookups /\ new.at = "idle" /\ new.key = k /\ new.answer = items[k]
  BY <1>2 DEF Lookups
<1>4. \A m \in RG!Modules : modules[m].at = "importing" => modules[m].by # t
  BY <1>1 DEF RegistryInv, Importing, RG!Turn
<1>5. thread'[t] = new /\ items[k] # "missing"
  BY <1>1, <1>2 DEF RegistryInv, RegistryType, RG!RegistryAssumption, RG!Modules
<1>6. Walk(t)' /\ Answered(t)'
  <2>1. RG!Offers(items[k])' = RG!Offers(items[k])
    BY <1>1 DEF RG!Offers
  <2> HIDE DEF new, k
  <2> QED
    BY <1>1, <1>2, <1>3, <1>5, <2>1 DEF Walk, Answered, RG!Offers
<1>7. loaded' => AllFound \/ \E u \in Importers : thread'[u].at = "load"
  BY <1>1 DEF RegistryInv, RegistryType
<1> HIDE DEF new
<1> QED
  BY <1>1, <1>3, <1>4, <1>6, <1>7, ThreadStep

LEMMA LoadKeepsRegistry ==
    ASSUME RG!RegistryAssumption, RegistryInv, NEW t \in Importers,
           RG!EnsureLoaded(t) \/ RG!WalkPackage(t)
    PROVE  RegistryInv'
<1>1. PICK via \in {"class", "factory", "walked"} :
        thread' = [thread EXCEPT ![t] = [thread[t] EXCEPT !.at = "load", !.next = 1, !.via = via]]
  <2>1. CASE RG!EnsureLoaded(t)
    <3>1. thread' = [thread EXCEPT ![t] = [thread[t] EXCEPT !.at = "load", !.next = 1, !.via = thread[t].via]]
      BY <2>1 DEF RG!EnsureLoaded, RegistryInv, RegistryType, Lookups
    <3> QED
      BY <3>1 DEF RegistryInv, RegistryType, Lookups
  <2>2. CASE RG!WalkPackage(t)
    <3>1. thread' = [thread EXCEPT ![t] = [thread[t] EXCEPT !.at = "load", !.next = 1, !.via = "walked"]]
      BY <2>2 DEF RG!WalkPackage, RegistryInv, RegistryType, Lookups
    <3> QED
      BY <3>1
  <2> QED
    BY <2>1, <2>2
<1> DEFINE new == [thread[t] EXCEPT !.at = "load", !.next = 1, !.via = via]
<1>2. thread[t].at = "look" /\ UNCHANGED <<items, modules, raced>>
  BY DEF RG!EnsureLoaded, RG!WalkPackage
<1>3. thread[t] \in Lookups
  BY DEF RegistryInv, RegistryType
<1>4. new \in Lookups /\ new.at = "load" /\ new.next = 1 /\ new.key = thread[t].key
  BY <1>3 DEF Lookups
<1>5. \A m \in RG!Modules : modules[m].at = "importing" => modules[m].by # t
  BY <1>2 DEF RegistryInv, Importing, RG!Turn
<1>6. thread'[t] = new
  BY <1>1 DEF RegistryInv, RegistryType
<1> HIDE DEF new
<1>7. Walk(t)' /\ Answered(t)'
  <2>1. thread[t].key \in Keys /\ Len(ImportOrder) \in Nat
    BY <1>2, OrderLength DEF RegistryInv, Walk
  <2>2. \A i \in 1 .. Len(ImportOrder) : ~(i < 1)
    BY <2>1
  <2>3. thread'[t].at = "load" /\ thread'[t].next = 1 /\ thread'[t].key \in Keys
    BY <1>4, <1>6, <2>1
  <2>4. thread'[t].next > 0
    BY <2>3
  <2>5. \A i \in 1 .. Len(ImportOrder) : ~(i < thread'[t].next)
    BY <2>2, <2>3
  <2>6. thread'[t].at # "look" /\ thread'[t].at # "idle"
    BY <2>3
  <2>7. Walk(t)'
    BY <2>3, <2>4, <2>5, <2>6 DEF Walk
  <2>8. Answered(t)'
    BY <2>6 DEF Answered
  <2> QED
    BY <2>7, <2>8
<1>8. \E u \in Importers : thread'[u].at = "load"
  BY <1>4, <1>6
<1>9. thread' = [thread EXCEPT ![t] = new]
  BY <1>1 DEF new
<1>10. \A u \in Importers : u # t => (u \in raced <=> u \in raced')
  BY <1>2
<1>11. UNCHANGED <<items, modules>>
  BY <1>2
<1>12. loaded' => AllFound \/ \E u \in Importers : thread'[u].at = "load"
  BY <1>8
<1> QED
  BY <1>4, <1>5, <1>7, <1>9, <1>10, <1>11, <1>12, ThreadStep

\* A key that is sure to be registered is found once everything is.
LEMMA CertainFound ==
    ASSUME RG!RegistryAssumption, AllFound, NEW k \in RG!Certain
    PROVE  RG!Found(k)
<1>1. PICK m \in RG!Modules : Len(Provides[m]) > 0 /\ Provides[m][1] = k
  BY DEF RG!Certain
<1>2. Provides[m] # <<>>
  BY <1>1
<1> QED
  BY <1>1, <1>2 DEF AllFound, FirstFound

LEMMA MissingKeepsRegistry ==
    ASSUME RG!RegistryAssumption, RegistryInv, NEW t \in Importers, RG!Missing(t)
    PROVE  RegistryInv'
<1> DEFINE k == thread[t].key
           new == [thread[t] EXCEPT !.at = "idle", !.answer = "missing"]
           others == \E u \in Importers : thread[u].at = "load"
<1>1. /\ thread[t].at = "look" /\ ~RG!Found(k) /\ loaded /\ thread[t].via # "factory"
      /\ thread' = [thread EXCEPT ![t] = new]
      /\ raced' = IF thread[t].via = "class" /\ others THEN raced \cup {t} ELSE raced \ {t}
      /\ UNCHANGED <<items, loaded, modules>>
  BY DEF RG!Missing, RG!Finish, RegistryInv, RegistryType
<1>2. thread[t] \in Lookups
  BY DEF RegistryInv, RegistryType
<1>3. new \in Lookups /\ new.at = "idle" /\ new.key = k /\ new.answer = "missing"
  BY <1>2 DEF Lookups
<1>4. \A m \in RG!Modules : modules[m].at = "importing" => modules[m].by # t
  BY <1>1 DEF RegistryInv, Importing, RG!Turn
<1>5. thread'[t] = new
  BY <1>1 DEF RegistryInv, RegistryType
<1>6. k \in RG!Certain => t \in raced'
  <2> SUFFICES ASSUME k \in RG!Certain PROVE t \in raced'
    OBVIOUS
  <2>1. ~AllFound
    BY <1>1, CertainFound
  <2>2. others /\ thread[t].via # "walked"
    BY <1>1, <2>1 DEF RegistryInv, Walk
  <2>3. thread[t].via = "class"
    BY <1>1, <1>2, <2>2 DEF Lookups
  <2> QED
    BY <1>1, <2>2, <2>3
<1>7. Walk(t)' /\ Answered(t)'
  <2>1. RG!Certain' = RG!Certain
    BY DEF RG!Certain, RG!Modules
  <2> HIDE DEF new, k
  <2> QED
    BY <1>3, <1>5, <1>6, <2>1 DEF Walk, Answered
<1>8. \A u \in Importers : u # t => (u \in raced <=> u \in raced')
  BY <1>1
<1>9. loaded' => AllFound \/ \E u \in Importers : thread'[u].at = "load"
  BY <1>1 DEF RegistryInv, RegistryType
<1> HIDE DEF new
<1> QED
  BY <1>1, <1>3, <1>4, <1>7, <1>8, <1>9, ThreadStep

LEMMA EndLoadKeepsRegistry ==
    ASSUME RG!RegistryAssumption, RegistryInv, NEW t \in Importers, RG!EndLoad(t)
    PROVE  RegistryInv'
<1> DEFINE via == IF thread[t].via = "factory" THEN "factory" ELSE "walked"
           new == [thread[t] EXCEPT !.at = "look", !.via = via]
<1>1. /\ thread[t].at = "load" /\ thread[t].next > Len(ImportOrder)
      /\ thread' = [thread EXCEPT ![t] = new]
      /\ UNCHANGED <<items, loaded, modules, raced>>
  BY DEF RG!EndLoad, RegistryInv, RegistryType
<1>2. thread[t] \in Lookups
  BY DEF RegistryInv, RegistryType
<1>3. new \in Lookups /\ new.at = "look" /\ new.key = thread[t].key
  BY <1>2 DEF Lookups
<1>n. thread[t].next \in Nat /\ Len(ImportOrder) \in Nat
  <2>1. thread[t].next \in Nat
    BY <1>2 DEF Lookups
  <2>2. Len(ImportOrder) \in Nat
    BY OrderLength
  <2> QED
    BY <2>1, <2>2
<1>o. ~(thread[t].next <= Len(ImportOrder))
  BY <1>1, <1>n
<1>4. \A m \in RG!Modules : modules[m].at = "importing" => modules[m].by # t
  BY <1>o DEF RegistryInv, Importing, RG!Turn
<1>5. thread'[t] = new
  BY <1>1 DEF RegistryInv, RegistryType
<1>6. AllFound
  <2> SUFFICES ASSUME NEW m \in RG!Modules PROVE FirstFound(m)
    BY DEF AllFound
  <2>1. PICK i \in 1 .. Len(ImportOrder) : ImportOrder[i] = m
    BY DEF RG!RegistryAssumption, RG!Modules
  <2>2. i < thread[t].next
    BY <1>1, <1>n, <2>1
  <2> QED
    BY <1>1, <2>1, <2>2 DEF RegistryInv, Walk
<1>7. AllFound'
  <2>1. DOMAIN items \subseteq DOMAIN items'
    BY <1>1
  <2> QED
    BY <1>6, <2>1, FoundStays
<1>8. thread[t].key \in Keys
  BY <1>1 DEF RegistryInv, Walk
<1>9. Walk(t)' /\ Answered(t)'
  <2> HIDE DEF new
  <2> QED
    BY <1>3, <1>5, <1>7, <1>8 DEF Walk, Answered
<1>10. \A u \in Importers : u # t => (u \in raced <=> u \in raced')
  BY <1>1
<1>11. UNCHANGED <<items, modules>>
  BY <1>1
<1>12. thread' = [thread EXCEPT ![t] = new]
  BY <1>1
<1> HIDE DEF new
<1> QED
  BY <1>3, <1>4, <1>6, <1>9, <1>10, <1>11, <1>12, ThreadStep

LEMMA AlreadyDoneKeepsRegistry ==
    ASSUME RG!RegistryAssumption, RegistryInv, NEW t \in Importers, NEW m \in RG!Modules,
           RG!AlreadyDone(t, m)
    PROVE  RegistryInv'
<1> DEFINE new == [thread[t] EXCEPT !.next = @ + 1]
<1>1. /\ thread[t].at = "load" /\ ImportOrder[thread[t].next] = m /\ modules[m].at = "done"
      /\ thread' = [thread EXCEPT ![t] = new]
      /\ UNCHANGED <<items, loaded, modules, raced>>
  BY DEF RG!AlreadyDone, RG!Turn, RegistryInv, RegistryType
<1>2. thread[t] \in Lookups
  BY DEF RegistryInv, RegistryType
<1>n. thread[t].next \in Nat
  BY <1>2 DEF Lookups
<1>o. thread[t].next + 1 \in Nat
  BY <1>n
<1>3. /\ new \in Lookups /\ new.at = "load" /\ new.next = thread[t].next + 1
      /\ new.key = thread[t].key /\ thread[t].next \in Nat
  <2>1. new \in Lookups
    BY <1>2, <1>o DEF Lookups
  <2>2. /\ new.at = thread[t].at /\ new.next = thread[t].next + 1 /\ new.key = thread[t].key
    BY <1>2 DEF Lookups
  <2> QED
    BY <1>1, <1>n, <2>1, <2>2
<1>4. \A n \in RG!Modules : modules[n].at = "importing" => modules[n].by # t
  <2> SUFFICES ASSUME NEW n \in RG!Modules, modules[n].at = "importing", modules[n].by = t
               PROVE  FALSE
    OBVIOUS
  <2>1. RG!Turn(t, n)
    BY DEF RegistryInv, Importing
  <2>2. n = m
    BY <1>1, <2>1 DEF RG!Turn
  <2> QED
    BY <1>1, <2>2
<1>5. thread'[t] = new
  BY <1>1 DEF RegistryInv, RegistryType
<1>6. FirstFound(m) /\ Walk(t)
  <2>1. Importing(m) /\ Walk(t)
    BY DEF RegistryInv
  <2> QED
    BY <1>1, <2>1 DEF Importing
<1>7. \A i \in 1 .. Len(ImportOrder) : i < new.next => FirstFound(ImportOrder[i])
  <2> HIDE DEF new
  <2> SUFFICES ASSUME NEW i \in 1 .. Len(ImportOrder), i < new.next
               PROVE  FirstFound(ImportOrder[i])
    OBVIOUS
  <2>1. Len(ImportOrder) \in Nat
    BY OrderLength
  <2>2. i < thread[t].next \/ i = thread[t].next
    BY <1>3, <2>1
  <2> QED
    BY <1>1, <1>6, <2>2 DEF Walk
<1>8. \A n : FirstFound(n)' = FirstFound(n)
  BY <1>1 DEF FirstFound, RG!Found
<1>9. Walk(t)' /\ Answered(t)'
  <2> HIDE DEF new
  <2>1. new.key \in Keys
    BY <1>1, <1>3, <1>6 DEF Walk
  <2>2. new.next > 0
    BY <1>3
  <2> QED
    BY <1>3, <1>5, <1>7, <1>8, <2>1, <2>2 DEF Walk, Answered
<1>10. \E u \in Importers : thread'[u].at = "load"
  <2> HIDE DEF new
  <2> QED
    BY <1>3, <1>5
<1>11. \A u \in Importers : u # t => (u \in raced <=> u \in raced')
  BY <1>1
<1>12. UNCHANGED <<items, modules>> /\ thread' = [thread EXCEPT ![t] = new]
  BY <1>1
<1> HIDE DEF new
<1> QED
  BY <1>3, <1>4, <1>9, <1>10, <1>11, <1>12, ThreadStep

\* A step that imports leaves what the threads have answered and walked.
LEMMA ModuleStep ==
    ASSUME RegistryInv, DOMAIN items \subseteq DOMAIN items', UNCHANGED <<thread, loaded, raced>>,
           NEW m \in RG!Modules,
           NEW new \in [at : {"new", "importing", "done"}, by : Importers \cup {0}, left : Seq(STRING)],
           modules' = [modules EXCEPT ![m] = new], Importing(m)',
           DOMAIN items' \subseteq STRING, Registered'
    PROVE  RegistryInv'
<1>1. /\ RG!Modules' = RG!Modules /\ RG!Certain' = RG!Certain
      /\ \A n : RG!Offers(n)' = RG!Offers(n)
  BY DEF RG!Modules, RG!Certain, RG!Offers
<1>2. (\A n : FirstFound(n) => FirstFound(n)') /\ (AllFound => AllFound')
  BY FoundStays
<1>3. RegistryType'
  BY <1>1 DEF RegistryInv, RegistryType
<1>4. ASSUME NEW n \in RG!Modules
      PROVE  Importing(n)'
  <2>1. CASE n = m
    BY <2>1
  <2>2. CASE n # m
    <3>1. Importing(n) /\ modules'[n] = modules[n]
      BY <2>2 DEF RegistryInv, RegistryType
    <3>2. RG!Turn(modules[n].by, n)' <=> RG!Turn(modules[n].by, n)
      BY <3>1 DEF RG!Turn
    <3> QED
      BY <1>1, <1>2, <3>1, <3>2 DEF Importing
  <2> QED
    BY <2>1, <2>2
<1>5. ASSUME NEW u \in Importers
      PROVE  Walk(u)' /\ Answered(u)'
  <2>1. Walk(u) /\ Answered(u) /\ thread'[u] = thread[u]
    BY DEF RegistryInv
  <2> QED
    BY <1>1, <1>2, <2>1 DEF Walk, Answered
<1>6. loaded' => AllFound' \/ \E u \in Importers : thread'[u].at = "load"
  BY <1>2 DEF RegistryInv
<1> QED
  BY <1>1, <1>3, <1>4, <1>5, <1>6 DEF RegistryInv

LEMMA ImportKeepsRegistry ==
    ASSUME RG!RegistryAssumption, RegistryInv, NEW t \in Importers, NEW m \in RG!Modules,
           RG!Import(t, m)
    PROVE  RegistryInv'
<1> DEFINE new == [at |-> "importing", by |-> t, left |-> Provides[m]]
<1>1. RG!Turn(t, m) /\ modules' = [modules EXCEPT ![m] = new]
      /\ UNCHANGED <<items, loaded, thread, raced>>
  BY DEF RG!Import
<1>2. Provides[m] \in Seq(STRING)
  BY Zenon DEF RG!RegistryAssumption, RG!Modules
<1>3. new \in [at : {"new", "importing", "done"}, by : Importers \cup {0}, left : Seq(STRING)]
  BY <1>2
<1>4. modules'[m] = new
  BY <1>1 DEF RegistryInv, RegistryType
<1>5. \A i \in 1 .. Len(Provides[m]) : Provides[m][i] \in RG!Offers(m)
  BY <1>2 DEF RG!Offers
<1>6. Importing(m)'
  <2>1. /\ modules'[m].at = "importing" /\ modules'[m].by = t /\ modules'[m].left = Provides[m]
    BY <1>4
  <2>2. RG!Turn(t, m)' /\ RG!Offers(m)' = RG!Offers(m)
    BY <1>1 DEF RG!Turn, RG!Offers
  <2> HIDE DEF new
  <2> QED
    BY <1>5, <2>1, <2>2 DEF Importing, RG!Turn
<1>7. DOMAIN items \subseteq DOMAIN items' /\ DOMAIN items' \subseteq STRING /\ Registered'
  <2>1. DOMAIN items \subseteq STRING /\ Registered
    BY DEF RegistryInv, RegistryType
  <2> QED
    BY <1>1, <2>1 DEF Registered, RG!Modules, RG!Offers
<1>8. UNCHANGED <<thread, loaded, raced>>
  BY <1>1
<1> HIDE DEF new
<1> QED
  BY <1>1, <1>3, <1>6, <1>7, <1>8, ModuleStep

\* A module whose first class is found and that ends its import, one way or
\* the other, lets its thread go on.
LEMMA EndImportKeepsRegistry ==
    ASSUME RG!RegistryAssumption, RegistryInv, NEW m \in RG!Modules, RG!RegisterItem(m), FirstFound(m),
           NEW t \in Importers, t = modules[m].by, RG!Turn(t, m), UNCHANGED <<items, loaded, raced>>,
           NEW new \in {RG!New, RG!Done}, modules' = [modules EXCEPT ![m] = new],
           thread' = [thread EXCEPT ![t] = [thread[t] EXCEPT !.next = thread[t].next + 1]]
    PROVE  RegistryInv'
<1> DEFINE now == [thread[t] EXCEPT !.next = thread[t].next + 1]
<1>1. /\ RG!Modules' = RG!Modules /\ RG!Certain' = RG!Certain
      /\ \A n : RG!Offers(n)' = RG!Offers(n)
  BY DEF RG!Modules, RG!Certain, RG!Offers
<1>2. AllFound' = AllFound /\ \A n : FirstFound(n)' = FirstFound(n)
  BY DEF AllFound, FirstFound, RG!Found, RG!Modules
<1>3. thread[t] \in Lookups /\ thread'[t] = now /\ \A u \in Importers : u # t => thread'[u] = thread[u]
  BY DEF RegistryInv, RegistryType
<1>n. thread[t].next \in Nat
  BY <1>3 DEF Lookups
<1>o. thread[t].next + 1 \in Nat
  BY <1>n
<1>4. /\ now \in Lookups /\ now.at = "load" /\ now.key = thread[t].key
      /\ now.next = thread[t].next + 1 /\ thread[t].next \in Nat
  <2>1. now \in Lookups
    BY <1>3, <1>o DEF Lookups
  <2>2. /\ now.at = thread[t].at /\ now.next = thread[t].next + 1 /\ now.key = thread[t].key
    BY <1>3 DEF Lookups
  <2> QED
    BY <1>n, <2>1, <2>2 DEF RG!Turn
<1>5. modules'[m] = new /\ \A n \in RG!Modules : n # m => modules'[n] = modules[n]
  BY DEF RegistryInv, RegistryType
<1>6. RegistryType' /\ Registered'
  <2>1. <<>> \in Seq(STRING)
    OBVIOUS
  <2>2. new \in [at : {"new", "importing", "done"}, by : Importers \cup {0}, left : Seq(STRING)]
    <3>1. RG!New \in [at : {"new", "importing", "done"}, by : Importers \cup {0}, left : Seq(STRING)]
      BY <2>1 DEF RG!New
    <3>2. RG!Done \in [at : {"new", "importing", "done"}, by : Importers \cup {0}, left : Seq(STRING)]
      BY <2>1 DEF RG!Done
    <3> QED
      BY <3>1, <3>2
  <2> HIDE DEF now
  <2>3. thread' \in [Importers -> Lookups]
    BY <1>4 DEF RegistryInv, RegistryType, now
  <2>4. modules' \in [RG!Modules -> [at : {"new", "importing", "done"}, by : Importers \cup {0},
                                     left : Seq(STRING)]]
    BY <2>2 DEF RegistryInv, RegistryType
  <2>5. DOMAIN items' \subseteq STRING
    BY DEF RegistryInv, RegistryType
  <2>6. Registered'
    BY <1>1 DEF RegistryInv, Registered
  <2> QED
    BY <1>1, <2>3, <2>4, <2>5, <2>6 DEF RegistryType
<1> HIDE DEF now
<1>7. ASSUME NEW n \in RG!Modules
      PROVE  Importing(n)'
  <2>1. CASE n = m
    <3>1. modules'[m].at # "importing"
      BY <1>5 DEF RG!New, RG!Done
    <3> QED
      BY <1>2, <2>1, <3>1 DEF Importing
  <2>2. CASE n # m
    <3>1. Importing(n) /\ modules'[n] = modules[n]
      BY <1>5, <2>2 DEF RegistryInv
    <3>2. modules[n].at = "importing" => modules[n].by # t
      BY <2>2, <3>1 DEF Importing, RG!Turn
    <3>3. ASSUME modules[n].at = "importing"
          PROVE  RG!Turn(modules[n].by, n)'
      <4>1. modules[n].by \in Importers /\ RG!Turn(modules[n].by, n) /\ modules[n].by # t
        BY <3>1, <3>2, <3>3 DEF Importing
      <4>2. thread'[modules[n].by] = thread[modules[n].by]
        BY <1>3, <4>1
      <4> QED
        BY <3>1, <4>1, <4>2 DEF RG!Turn
    <3> QED
      BY <1>1, <1>2, <3>1, <3>3 DEF Importing
  <2> QED
    BY <2>1, <2>2
<1>8. Walk(t)' /\ Answered(t)'
  <2>1. Walk(t) /\ thread[t].at = "load" /\ ImportOrder[thread[t].next] = m
    BY DEF RegistryInv, RG!Turn
  <2>2. Len(ImportOrder) \in Nat
    BY OrderLength
  <2>3. ASSUME NEW i \in 1 .. Len(ImportOrder), i < now.next
        PROVE  FirstFound(ImportOrder[i])
    <3>1. i < thread[t].next \/ i = thread[t].next
      BY <1>4, <2>2, <2>3
    <3> QED
      BY <2>1, <3>1 DEF Walk
  <2>4. now.key \in Keys
    BY <1>4, <2>1 DEF Walk
  <2>5. now.next > 0
    BY <1>4
  <2> QED
    BY <1>2, <1>3, <1>4, <2>3, <2>4, <2>5 DEF Walk, Answered
<1>9. ASSUME NEW u \in Importers
      PROVE  Walk(u)' /\ Answered(u)'
  <2>1. CASE u = t
    BY <1>8, <2>1
  <2>2. CASE u # t
    <3>1. Walk(u) /\ Answered(u) /\ thread'[u] = thread[u]
      BY <1>3, <2>2 DEF RegistryInv
    <3> QED
      BY <1>1, <1>2, <3>1 DEF Walk, Answered
  <2> QED
    BY <2>1, <2>2
<1>10. \E u \in Importers : thread'[u].at = "load"
  BY <1>3, <1>4
<1> QED
  BY <1>1, <1>6, <1>7, <1>9, <1>10 DEF RegistryInv

LEMMA RegisterItemKeepsRegistry ==
    ASSUME RG!RegistryAssumption, RegistryInv, NEW m \in RG!Modules, RG!RegisterItem(m)
    PROVE  RegistryInv'
<1> DEFINE me == modules[m]
           k == Head(me.left)
           fails == me.left # <<>> /\ RG!Found(k)
           State == [at : {"new", "importing", "done"}, by : Importers \cup {0}, left : Seq(STRING)]
<1>1. me.at = "importing" /\ UNCHANGED <<loaded, raced>>
  BY DEF RG!RegisterItem
<1>2. me \in State /\ me.left \in Seq(STRING)
  BY DEF RegistryInv, RegistryType
<1>3. /\ RG!Turn(me.by, m) /\ me.by \in Importers
      /\ \A i \in 1 .. Len(me.left) : me.left[i] \in RG!Offers(m)
      /\ me.left = Provides[m] \/ FirstFound(m)
  <2>1. Importing(m)
    BY DEF RegistryInv
  <2> QED
    BY <1>1, <2>1 DEF Importing
<1>4. ASSUME me.left # <<>>
      PROVE  k = me.left[1] /\ k \in STRING /\ k \in RG!Offers(m) /\ Tail(me.left) \in Seq(STRING)
  <2>1. k = me.left[1] /\ Len(me.left) \in Nat /\ Len(me.left) > 0 /\ Tail(me.left) \in Seq(STRING)
    <3> HIDE DEF me
    <3>1. me.left \in Seq(STRING) /\ me.left # <<>>
      BY <1>2, <1>4
    <3>2. Len(me.left) \in Nat /\ Len(me.left) > 0
      BY <3>1, EmptySeq, LenProperties
    <3>3. Head(me.left) = me.left[1]
      BY <3>1, <3>2
    <3>4. Tail(me.left) \in Seq(STRING)
      BY <3>1, HeadTailProperties
    <3> QED
      BY <3>2, <3>3, <3>4
  <2>2. 1 \in 1 .. Len(me.left)
    BY <2>1
  <2>3. k \in STRING
    BY <1>2, <2>1, <2>2, ElementOfSeq
  <2> QED
    BY <1>3, <2>1, <2>2, <2>3
<1>5. CASE fails \/ me.left = <<>>
  <2>1. FirstFound(m)
    BY <1>3, <1>4, <1>5 DEF FirstFound
  <2>2. PICK new \in {RG!New, RG!Done} : modules' = [modules EXCEPT ![m] = new]
    BY <1>5 DEF RG!RegisterItem
  <2>3. thread' = [thread EXCEPT ![me.by] = [thread[me.by] EXCEPT !.next = thread[me.by].next + 1]]
    BY <1>3, <1>5 DEF RG!RegisterItem, RG!AfterFailure, RegistryInv, RegistryType
  <2>4. UNCHANGED <<items, loaded, raced>>
    BY <1>1, <1>5 DEF RG!RegisterItem
  <2> QED
    BY <1>3, <2>1, <2>2, <2>3, <2>4, EndImportKeepsRegistry
<1>6. CASE ~(fails \/ me.left = <<>>)
  <2> DEFINE new == [me EXCEPT !.left = Tail(me.left)]
  <2>1. /\ items' = [j \in DOMAIN items \cup {k} |-> IF j \in DOMAIN items THEN items[j] ELSE m]
        /\ modules' = [modules EXCEPT ![m] = new]
        /\ UNCHANGED thread
    BY <1>6 DEF RG!RegisterItem, RegistryInv, RegistryType
  <2>2. k = me.left[1] /\ k \in STRING /\ k \in RG!Offers(m) /\ Tail(me.left) \in Seq(STRING)
    BY <1>4, <1>6
  <2>3. new \in State /\ new.at = "importing" /\ new.by = me.by /\ new.left = Tail(me.left)
    BY <1>1, <1>2, <2>2
  <2>4. modules'[m] = new
    BY <2>1 DEF RegistryInv, RegistryType
  <2>5. DOMAIN items' = DOMAIN items \cup {k} /\ DOMAIN items \subseteq STRING /\ Registered
    BY <2>1 DEF RegistryInv, RegistryType
  <2>6. Registered'
    <3> SUFFICES ASSUME NEW j \in DOMAIN items'
                 PROVE  items'[j] \in RG!Modules /\ j \in RG!Offers(items'[j])
      BY DEF Registered, RG!Modules, RG!Offers
    <3>1. CASE j \in DOMAIN items
      <4>1. items'[j] = items[j]
        BY <2>1, <3>1
      <4> QED
        BY <2>5, <3>1, <4>1 DEF Registered
    <3>2. CASE j \notin DOMAIN items
      <4>1. items'[j] = m /\ j = k
        BY <2>1, <2>5, <3>2
      <4> QED
        BY <2>2, <4>1
    <3> QED
      BY <3>1, <3>2
  <2>7. FirstFound(m)'
    <3>1. FirstFound(m) => FirstFound(m)'
      BY <2>5, FoundStays
    <3>2. me.left = Provides[m] => FirstFound(m)'
      BY <2>2, <2>5 DEF FirstFound, RG!Found
    <3> QED
      BY <1>3, <3>1, <3>2
  <2>8. \A i \in 1 .. Len(Tail(me.left)) : Tail(me.left)[i] \in RG!Offers(m)
    <3> SUFFICES ASSUME NEW i \in 1 .. Len(Tail(me.left))
                 PROVE  Tail(me.left)[i] \in RG!Offers(m)
      OBVIOUS
    <3>1. me.left # <<>> /\ me.left \in Seq(STRING)
      BY <1>2, <1>6
    <3>2. Len(Tail(me.left)) = Len(me.left) - 1 /\ Tail(me.left)[i] = me.left[i + 1] /\ Len(me.left) \in Nat
      BY <3>1, HeadTailProperties
    <3>3. i + 1 \in 1 .. Len(me.left)
      BY <3>2
    <3> QED
      BY <1>3, <3>2, <3>3
  <2>9. RG!Turn(me.by, m)' /\ RG!Offers(m)' = RG!Offers(m)
    <3>1. RG!Offers(m)' = RG!Offers(m)
      BY DEF RG!Offers
    <3>2. modules'[m].by = me.by /\ thread' = thread
      BY <2>1, <2>3, <2>4
    <3> HIDE DEF new
    <3>3. RG!Turn(me.by, m)'
      BY <1>3, <3>2 DEF RG!Turn
    <3> QED
      BY <3>1, <3>3
  <2>10. Importing(m)'
    <3> HIDE DEF new
    <3>1. /\ modules'[m].at = "importing" /\ modules'[m].by = me.by /\ modules'[m].left = Tail(me.left)
      BY <2>3, <2>4
    <3> QED
      BY <1>3, <2>7, <2>8, <2>9, <3>1 DEF Importing
  <2>11. DOMAIN items \subseteq DOMAIN items' /\ DOMAIN items' \subseteq STRING
    BY <2>2, <2>5
  <2>12. UNCHANGED <<thread, loaded, raced>>
    BY <1>1, <2>1
  <2> HIDE DEF new
  <2> QED
    BY <2>1, <2>3, <2>6, <2>10, <2>11, <2>12, ModuleStep
<1> QED
  BY <1>5, <1>6

\* A lookup answers with a class that registers the key it asked for, and
\* misses a key that some module registers first only while another thread is
\* still importing, and then never through the factory: for any package of
\* modules, whichever of them fail, and any number of threads.
THEOREM LookupsAlwaysFind == UnitsSpec => []LookupsFind
<1> DEFINE Inv == focus = "registry" => RegistryInv
<1> USE UnitAssumption
<1>1. UnitsInit => Inv
  BY InitRegistry DEF UnitsInit, UnitAssumption
<1>2. Inv /\ [UnitsNext]_coreVars => Inv'
  <2> SUFFICES ASSUME Inv, [UnitsNext]_coreVars, focus' = "registry"
               PROVE  RegistryInv'
    OBVIOUS
  <2>1. focus = "registry" /\ RegistryInv
    BY DEF UnitsNext, coreVars
  <2>2. CASE RG!Next
    <3>1. ASSUME NEW t \in Importers, NEW via \in {"class", "factory"}, NEW k \in Keys, RG!Lookup(t, via, k)
          PROVE  RegistryInv'
      BY <2>1, <3>1, LookupKeepsRegistry DEF UnitAssumption
    <3>2. ASSUME NEW t \in Importers, RG!Look(t)
          PROVE  RegistryInv'
      BY <2>1, <3>2, LookKeepsRegistry DEF UnitAssumption
    <3>3. ASSUME NEW t \in Importers, RG!EnsureLoaded(t) \/ RG!WalkPackage(t)
          PROVE  RegistryInv'
      BY <2>1, <3>3, LoadKeepsRegistry DEF UnitAssumption
    <3>4. ASSUME NEW t \in Importers, RG!Missing(t)
          PROVE  RegistryInv'
      BY <2>1, <3>4, MissingKeepsRegistry DEF UnitAssumption
    <3>5. ASSUME NEW t \in Importers, RG!EndLoad(t)
          PROVE  RegistryInv'
      BY <2>1, <3>5, EndLoadKeepsRegistry DEF UnitAssumption
    <3>6. ASSUME NEW t \in Importers, NEW m \in RG!Modules, RG!Import(t, m)
          PROVE  RegistryInv'
      BY <2>1, <3>6, ImportKeepsRegistry DEF UnitAssumption
    <3>7. ASSUME NEW t \in Importers, NEW m \in RG!Modules, RG!AlreadyDone(t, m)
          PROVE  RegistryInv'
      BY <2>1, <3>7, AlreadyDoneKeepsRegistry DEF UnitAssumption
    <3>8. ASSUME NEW m \in RG!Modules, RG!RegisterItem(m)
          PROVE  RegistryInv'
      BY <2>1, <3>8, RegisterItemKeepsRegistry DEF UnitAssumption
    <3> QED
      BY <2>2, <3>1, <3>2, <3>3, <3>4, <3>5, <3>6, <3>7, <3>8 DEF RG!Next
  <2>3. CASE UNCHANGED registryVars
    <3>1. UNCHANGED <<items, loaded, modules, thread, raced>>
      BY <2>3 DEF registryVars
    <3>2. /\ RG!Modules' = RG!Modules /\ RG!Certain' = RG!Certain
          /\ \A n : RG!Offers(n)' = RG!Offers(n)
      BY DEF RG!Modules, RG!Certain, RG!Offers
    <3>3. AllFound' = AllFound /\ \A n : FirstFound(n)' = FirstFound(n)
      BY <3>1 DEF AllFound, FirstFound, RG!Found, RG!Modules
    <3>4. RegistryType' /\ Registered'
      BY <2>1, <3>1, <3>2 DEF RegistryInv, RegistryType, Registered
    <3>5. \A m \in RG!Modules : Importing(m)'
      BY <2>1, <3>1, <3>2, <3>3 DEF RegistryInv, Importing, RG!Turn
    <3>6. \A t \in Importers : Walk(t)' /\ Answered(t)'
      BY <2>1, <3>1, <3>2, <3>3 DEF RegistryInv, Walk, Answered
    <3> QED
      BY <2>1, <3>1, <3>2, <3>3, <3>4, <3>5, <3>6 DEF RegistryInv
  <2> QED
    BY <2>1, <2>2, <2>3 DEF UnitsNext, coreVars
<1>3. Inv => LookupsFind
  BY DEF RegistryInv, Answered, RG!LookupsFind, LookupsFind
<1> QED
  BY <1>1, <1>2, <1>3, PTL DEF UnitsSpec

-----------------------------------------------------------------------------
(* The network doctor *)

CheckDefinition ==
    [section : STRING, dependencies : SUBSET STRING, required : BOOLEAN,
     outcomes : SUBSET ND!Outcomes]

NetworkType ==
    /\ given \in 0 .. Len(Definitions)
    /\ checks \in Seq(CheckDefinition)
    /\ turn \in 1 .. Len(checks) + 1
    /\ DOMAIN results \subseteq STRING /\ skipped \subseteq STRING
    /\ fixed \in BOOLEAN
    /\ verdict \in {"none", "healthy", "unhealthy"}

\* What was given has a place, one for each section, and comes after what it
\* depends on, which is required.
OnePlace == \A i, j \in 1 .. Len(checks) : checks[i].section = checks[j].section => i = j
FromList == \A i \in 1 .. Len(checks) : \E k \in 1 .. given : checks[i] = Definitions[k]
AllPlaced == \A k \in 1 .. given : \E i \in 1 .. Len(checks) : checks[i] = Definitions[k]
AfterNeeds ==
    \A i \in 1 .. Len(checks) : \A d \in checks[i].dependencies :
        \E j \in 1 .. i - 1 : checks[j].section = d /\ checks[j].required
Placed == OnePlace /\ FromList /\ AllPlaced /\ AfterNeeds

\* A check before the turn has a result or was skipped, one after it neither,
\* and the one whose turn it is a result only if it is to run again.
Taken(i) ==
    /\ i < turn => checks[i].section \in DOMAIN results \cup skipped
    /\ checks[i].section \in DOMAIN results =>
         /\ i < turn \/ (i = turn /\ fixed)
         /\ \A d \in checks[i].dependencies : d \in DOMAIN results /\ results[d] = "passed"
    /\ checks[i].section \in skipped => i < turn /\ checks[i].section \notin DOMAIN results

\* The j-th check is required, has had its turn and did not pass.
Fell(j) ==
    /\ j < turn /\ checks[j].required
    /\ checks[j].section \in DOMAIN results /\ results[checks[j].section] # "passed"

\* Whatever is skipped goes back to a required check that ran and did not pass.
Turns ==
    /\ given < Len(Definitions) =>
         turn = 1 /\ DOMAIN results = {} /\ skipped = {} /\ verdict = "none"
    /\ \A i \in 1 .. Len(checks) : Taken(i)
    /\ \A s \in DOMAIN results \cup skipped : \E i \in 1 .. Len(checks) : checks[i].section = s
    /\ skipped # {} => \E j \in 1 .. Len(checks) : Fell(j)

Judged ==
    verdict # "none" =>
      /\ turn = Len(checks) + 1 /\ given = Len(Definitions)
      /\ verdict = "healthy" <=> \A i \in 1 .. Len(checks) : ND!Fit(checks[i])
      /\ verdict = "unhealthy" => \E s \in DOMAIN results : results[s] # "passed"

NetworkInv == NetworkType /\ Placed /\ Turns /\ Judged

LEMMA DefinitionsKnown ==
    ASSUME ND!DoctorAssumption
    PROVE  /\ Definitions \in Seq(CheckDefinition) /\ Len(Definitions) \in Nat \ {0}
           /\ \A k \in 1 .. Len(Definitions) : Definitions[k] \in CheckDefinition
           /\ \A k, l \in 1 .. Len(Definitions) :
                Definitions[k].section = Definitions[l].section => Definitions[k] = Definitions[l]
           /\ \A k \in 1 .. Len(Definitions) : \A d \in Definitions[k].dependencies :
                \E j \in 1 .. k - 1 : Definitions[j].section = d /\ Definitions[j].required
<1>1. Definitions \in Seq(CheckDefinition) /\ Definitions # <<>>
  BY DEF ND!DoctorAssumption, CheckDefinition
<1>2. DOMAIN Definitions = 1 .. Len(Definitions) /\ Len(Definitions) \in Nat /\ Len(Definitions) # 0
  BY <1>1, LenProperties, EmptySeq
<1>3. \A k \in 1 .. Len(Definitions) : Definitions[k] \in CheckDefinition
  BY <1>1, ElementOfSeq
<1>4. \A k, l \in 1 .. Len(Definitions) :
         Definitions[k].section = Definitions[l].section => Definitions[k] = Definitions[l]
  BY <1>2 DEF ND!DoctorAssumption, ND!Listed
<1> QED
  BY <1>1, <1>2, <1>3, <1>4 DEF ND!DoctorAssumption

LEMMA InitNetwork ==
    ASSUME ND!DoctorAssumption, ND!Init PROVE NetworkInv
<1>1. Len(checks) = 0 /\ checks \in Seq(CheckDefinition) /\ Len(Definitions) \in Nat
  BY EmptySeq, DefinitionsKnown DEF ND!Init
<1>2. DOMAIN results = {}
  BY EmptySeq DEF ND!Init
<1>3. /\ given = 0 /\ turn = 1 /\ skipped = {} /\ fixed = FALSE /\ verdict = "none"
  BY DEF ND!Init
<1>4. NetworkType
  <2>1. given \in 0 .. Len(Definitions) /\ turn \in 1 .. Len(checks) + 1
    BY <1>1, <1>3
  <2>2. fixed \in BOOLEAN /\ verdict \in {"none", "healthy", "unhealthy"}
    BY <1>3
  <2> QED
    BY <1>1, <1>2, <1>3, <2>1, <2>2 DEF NetworkType
<1>5. Placed
  BY <1>1, <1>3 DEF Placed, OnePlace, FromList, AllPlaced, AfterNeeds
<1>6. Turns
  BY <1>1, <1>2, <1>3 DEF Turns
<1>7. Judged
  BY <1>3 DEF Judged
<1> QED
  BY <1>4, <1>5, <1>6, <1>7 DEF NetworkInv

\* register keeps the list of a section it has and otherwise adds to its end.
LEMMA RegisterKeepsNetwork ==
    ASSUME ND!DoctorAssumption, NetworkInv, ND!RegisterAll PROVE NetworkInv'
<1> DEFINE c == Definitions[given + 1]
<1> DEFINE n == Len(checks)
<1>1. /\ given \in Nat /\ given + 1 \in 1 .. Len(Definitions) /\ given' = given + 1
      /\ checks' = ND!Register(checks, c)
      /\ UNCHANGED <<turn, results, skipped, fixed, verdict>>
  BY DefinitionsKnown DEF ND!RegisterAll, NetworkInv, NetworkType
<1>2. /\ turn = 1 /\ DOMAIN results = {} /\ skipped = {} /\ verdict = "none"
  BY <1>1, DefinitionsKnown DEF NetworkInv, Turns
<1>3. /\ checks \in Seq(CheckDefinition) /\ n \in Nat /\ DOMAIN checks = 1 .. n
      /\ \A i \in 1 .. n : checks[i] \in CheckDefinition
  BY LenProperties, ElementOfSeq DEF NetworkInv, NetworkType
<1>4. c \in CheckDefinition
  BY <1>1, DefinitionsKnown
<1>5. /\ checks' \in Seq(CheckDefinition) /\ Len(checks') \in Nat
      /\ Placed'
  <2>1. CASE \E i \in 1 .. n : checks[i].section = c.section
    <3>1. \A i \in 1 .. n : checks[i].section = c.section => checks[i] = c
      <4>1. \A i \in 1 .. n : \E k \in 1 .. given : checks[i] = Definitions[k]
        BY DEF NetworkInv, Placed, FromList
      <4>2. \A k \in 1 .. given : k \in 1 .. Len(Definitions)
        BY <1>1, DefinitionsKnown
      <4> QED
        <5> SUFFICES ASSUME NEW i \in 1 .. n, checks[i].section = c.section PROVE checks[i] = c
          OBVIOUS
        <5>1. PICK k \in 1 .. given : checks[i] = Definitions[k]
          BY <4>1
        <5> QED
          BY <1>1, <4>2, <5>1, DefinitionsKnown
    <3>2. checks' = [i \in 1 .. n |-> IF checks[i].section = c.section THEN c ELSE checks[i]]
      BY <1>1, <1>3, <2>1 DEF ND!Register
    <3>3. checks' = [i \in 1 .. n |-> checks[i]]
      BY <3>1, <3>2
    <3>4. checks' = checks
      BY <1>3, <3>3
    <3>5. OnePlace' /\ AfterNeeds'
      BY <3>4 DEF NetworkInv, Placed, OnePlace, AfterNeeds
    <3>6. FromList'
      BY <1>1, <3>4 DEF NetworkInv, Placed, FromList
    <3>7. AllPlaced'
      <4>1. \E i \in 1 .. n : checks[i] = Definitions[given + 1]
        BY <2>1, <3>1
      <4>2. \A k \in 1 .. given + 1 : k \in 1 .. given \/ k = given + 1
        BY <1>1
      <4> QED
        BY <1>1, <3>4, <4>1, <4>2 DEF NetworkInv, Placed, AllPlaced
    <3> QED
      BY <1>3, <3>4, <3>5, <3>6, <3>7 DEF Placed
  <2>2. CASE ~ \E i \in 1 .. n : checks[i].section = c.section
    <3>1. checks' = Append(checks, c)
      BY <1>1, <1>3, <2>2 DEF ND!Register
    <3>2. /\ checks' \in Seq(CheckDefinition) /\ Len(checks') = n + 1 /\ checks'[n + 1] = c
          /\ \A i \in 1 .. n : checks'[i] = checks[i]
      BY <1>3, <1>4, <3>1, AppendProperties
    <3>3. \A i, j \in 1 .. n + 1 : checks'[i].section = checks'[j].section => i = j
      <4>1. \A i, j \in 1 .. n : checks[i].section = checks[j].section => i = j
        BY DEF NetworkInv, Placed, OnePlace
      <4>2. \A i \in 1 .. n + 1 : i \in 1 .. n \/ i = n + 1
        BY <1>3
      <4> HIDE DEF c, n
      <4> QED
        BY <2>2, <3>2, <4>1, <4>2
    <3>4. \A i \in 1 .. n + 1 : \E k \in 1 .. given + 1 : checks'[i] = Definitions[k]
      <4>1. \A i \in 1 .. n : \E k \in 1 .. given : checks[i] = Definitions[k]
        BY DEF NetworkInv, Placed, FromList
      <4>2. \A i \in 1 .. n + 1 : i \in 1 .. n \/ i = n + 1
        BY <1>3
      <4>3. given + 1 \in 1 .. given + 1 /\ \A k \in 1 .. given : k \in 1 .. given + 1
        BY <1>1
      <4> QED
        BY <3>2, <4>1, <4>2, <4>3
    <3>5. \A k \in 1 .. given + 1 : \E i \in 1 .. n + 1 : checks'[i] = Definitions[k]
      <4> SUFFICES ASSUME NEW k \in 1 .. given + 1 PROVE \E i \in 1 .. n + 1 : checks'[i] = Definitions[k]
        OBVIOUS
      <4>1. CASE k \in 1 .. given
        BY <1>3, <3>2, <4>1 DEF NetworkInv, Placed, AllPlaced
      <4>2. CASE k = given + 1
        BY <1>3, <3>2, <4>2
      <4> QED
        BY <1>1, <4>1, <4>2
    <3>6. \A i \in 1 .. n + 1 : \A d \in checks'[i].dependencies :
             \E j \in 1 .. i - 1 : checks'[j].section = d /\ checks'[j].required
      <4> SUFFICES ASSUME NEW i \in 1 .. n + 1, NEW d \in checks'[i].dependencies
                   PROVE  \E j \in 1 .. i - 1 : checks'[j].section = d /\ checks'[j].required
        OBVIOUS
      <4>1. CASE i \in 1 .. n
        <5>1. PICK j \in 1 .. i - 1 : checks[j].section = d /\ checks[j].required
          BY <3>2, <4>1 DEF NetworkInv, Placed, AfterNeeds
        <5>2. checks'[j] = checks[j]
          BY <1>3, <3>2, <4>1
        <5> QED
          BY <5>1, <5>2
      <4>2. CASE i = n + 1
        <5>1. PICK k \in 1 .. given : Definitions[k].section = d /\ Definitions[k].required
          BY <1>1, <3>2, <4>2, DefinitionsKnown
        <5>2. PICK j \in 1 .. n : checks[j] = Definitions[k]
          BY <5>1 DEF NetworkInv, Placed, AllPlaced
        <5> QED
          BY <1>3, <3>2, <4>2, <5>1, <5>2
      <4> QED
        BY <1>3, <4>1, <4>2
    <3> QED
      BY <1>1, <1>3, <3>2, <3>3, <3>4, <3>5, <3>6 DEF Placed, OnePlace, FromList, AllPlaced, AfterNeeds
  <2> QED
    BY <2>1, <2>2
<1>6. NetworkType'
  BY <1>1, <1>2, <1>5, DefinitionsKnown DEF NetworkInv, NetworkType
<1>7. Turns'
  BY <1>1, <1>2, <1>5 DEF Turns, Taken
<1>8. Judged'
  BY <1>1, <1>2 DEF Judged
<1> QED
  BY <1>5, <1>6, <1>7, <1>8 DEF NetworkInv

LEMMA ChecksPlaced ==
    ASSUME NetworkInv
    PROVE  /\ Len(checks) \in Nat /\ DOMAIN checks = 1 .. Len(checks) /\ turn \in Nat
           /\ \A i \in 1 .. Len(checks) : checks[i] \in CheckDefinition
BY LenProperties, ElementOfSeq DEF NetworkInv, NetworkType

\* The dependencies of a check have had their turn before it; one that did
\* not pass leads to a required check that ran and did not pass.
LEMMA SkipKeepsNetwork ==
    ASSUME NetworkInv, ND!Skip PROVE NetworkInv'
<1> DEFINE n == Len(checks)
<1> DEFINE s == checks[turn].section
<1>1. /\ given = Len(Definitions) /\ verdict = "none" /\ turn \in 1 .. n
      /\ \E d \in checks[turn].dependencies : ~ (d \in DOMAIN results /\ results[d] = "passed")
      /\ skipped' = skipped \cup {s} /\ turn' = turn + 1
      /\ UNCHANGED <<given, checks, results, fixed, verdict>>
  BY ChecksPlaced DEF ND!Skip, ND!Running, ND!Registered, ND!Check, ND!ShouldSkip, NetworkInv, NetworkType
<1>2. /\ n \in Nat /\ turn \in Nat /\ s \in STRING
  BY <1>1, ChecksPlaced DEF CheckDefinition
<1>3. s \notin DOMAIN results
  BY <1>1 DEF NetworkInv, Turns, Taken
<1>4. NetworkType'
  <2>1. turn + 1 \in 1 .. n + 1
    BY <1>1, <1>2
  <2> QED
    BY <1>1, <1>2, <2>1 DEF NetworkInv, NetworkType
<1>5. Placed'
  BY <1>1 DEF NetworkInv, Placed, OnePlace, FromList, AllPlaced, AfterNeeds
<1>6. ASSUME NEW i \in 1 .. n PROVE Taken(i)'
  <2>1. Taken(i) /\ (checks[i].section = s => i = turn)
    BY <1>1 DEF NetworkInv, Turns, Placed, OnePlace
  <2>2. CASE i = turn
    BY <1>1, <1>2, <1>3, <2>2 DEF Taken
  <2>3. CASE i # turn
    BY <1>1, <1>2, <2>1, <2>3 DEF Taken
  <2> QED
    BY <2>2, <2>3
<1>7. \E j \in 1 .. n : Fell(j)
  <2>1. PICK d \in checks[turn].dependencies : ~ (d \in DOMAIN results /\ results[d] = "passed")
    BY <1>1
  <2>2. PICK j \in 1 .. turn - 1 : checks[j].section = d /\ checks[j].required
    BY <1>1 DEF NetworkInv, Placed, AfterNeeds
  <2>3. j \in 1 .. n /\ j < turn /\ Taken(j)
    BY <1>1, <1>2 DEF NetworkInv, Turns
  <2>4. CASE d \in DOMAIN results
    BY <2>1, <2>2, <2>3, <2>4 DEF Fell
  <2>5. CASE d \in skipped
    BY <2>5 DEF NetworkInv, Turns
  <2> QED
    BY <2>2, <2>3, <2>4, <2>5 DEF Taken
<1>8. \E j \in 1 .. n : Fell(j)'
  BY <1>1, <1>2, <1>7 DEF Fell
<1>9. \A t \in DOMAIN results' \cup skipped' : \E i \in 1 .. n : checks'[i].section = t
  BY <1>1 DEF NetworkInv, Turns
<1>10. Turns'
  BY <1>1, <1>6, <1>8, <1>9 DEF Turns
<1>11. Judged'
  BY <1>1 DEF Judged
<1> QED
  BY <1>4, <1>5, <1>10, <1>11 DEF NetworkInv

\* A check runs when all it depends on has passed; its result replaces at
\* most the one of its own first run.
LEMMA RunKeepsNetwork ==
    ASSUME NetworkInv, NEW outcome \in ND!Outcomes, NEW repaired \in BOOLEAN, ND!RunCheck(outcome, repaired)
    PROVE  NetworkInv'
<1> DEFINE n == Len(checks)
<1> DEFINE s == checks[turn].section
<1>1. /\ given = Len(Definitions) /\ verdict = "none" /\ turn \in 1 .. n
      /\ \A d \in checks[turn].dependencies : d \in DOMAIN results /\ results[d] = "passed"
      /\ results' = [t \in DOMAIN results \cup {s} |-> IF t = s THEN outcome ELSE results[t]]
      /\ (fixed' = TRUE /\ turn' = turn) \/ (fixed' = FALSE /\ turn' = turn + 1)
      /\ UNCHANGED <<given, checks, skipped, verdict>>
  BY ChecksPlaced DEF ND!RunCheck, ND!Running, ND!Registered, ND!Check, ND!ShouldSkip, NetworkInv, NetworkType
<1>2. /\ n \in Nat /\ turn \in Nat /\ s \in STRING
  BY <1>1, ChecksPlaced DEF CheckDefinition
<1>3. s \notin skipped
  BY <1>1, <1>2 DEF NetworkInv, Turns, Taken
<1>4. /\ DOMAIN results' = DOMAIN results \cup {s}
      /\ \A t \in DOMAIN results : t # s => results'[t] = results[t]
  BY <1>1
<1>5. NetworkType'
  <2>1. turn + 1 \in 1 .. n + 1 /\ turn \in 1 .. n + 1
    BY <1>1, <1>2
  <2> HIDE DEF s
  <2> QED
    BY <1>1, <1>2, <1>4, <2>1 DEF NetworkInv, NetworkType
<1>6. Placed'
  <2>1. UNCHANGED <<given, checks>>
    BY <1>1
  <2> QED
    BY <2>1 DEF NetworkInv, Placed, OnePlace, FromList, AllPlaced, AfterNeeds
<1>7. ASSUME NEW i \in 1 .. n
      PROVE  /\ (checks[i].section = s) <=> (i = turn)
             /\ i <= turn => \A d \in checks[i].dependencies : d # s
  <2>1. \A d \in checks[i].dependencies : \E j \in 1 .. i - 1 : checks[j].section = d
    BY DEF NetworkInv, Placed, AfterNeeds
  <2>2. \A j \in 1 .. n : checks[j].section = s => j = turn
    BY <1>1 DEF NetworkInv, Placed, OnePlace
  <2> QED
    BY <1>1, <1>2, <2>1, <2>2
<1>8. ASSUME NEW i \in 1 .. n PROVE Taken(i)'
  <2>1. Taken(i)
    BY DEF NetworkInv, Turns
  <2>2. CASE i = turn
    <3>1. \A d \in checks[i].dependencies : d \in DOMAIN results' /\ results'[d] = "passed"
      BY <1>1, <1>4, <1>7, <2>2
    <3>2. s \in DOMAIN results' /\ (i < turn' \/ (i = turn' /\ fixed'))
      BY <1>1, <1>2, <1>4, <2>2
    <3> HIDE DEF s
    <3> QED
      BY <1>1, <1>3, <2>2, <3>1, <3>2 DEF Taken, s
  <2>3. CASE i # turn
    <3>1. checks[i].section # s
      BY <1>7, <2>3
    <3>2. ASSUME checks[i].section \in DOMAIN results'
          PROVE  /\ i < turn'
                 /\ \A d \in checks[i].dependencies : d \in DOMAIN results' /\ results'[d] = "passed"
      <4>1. checks[i].section \in DOMAIN results
        BY <1>4, <3>1, <3>2
      <4>2. i < turn /\ i <= turn
        BY <1>2, <2>1, <2>3, <4>1 DEF Taken
      <4> QED
        BY <1>1, <1>2, <1>4, <1>7, <2>1, <4>1, <4>2 DEF Taken
    <3>3. i < turn' => checks[i].section \in DOMAIN results' \cup skipped
      BY <1>1, <1>2, <1>4, <2>1, <2>3 DEF Taken
    <3>4. checks[i].section \in skipped => i < turn' /\ checks[i].section \notin DOMAIN results'
      BY <1>1, <1>2, <1>4, <2>1, <3>1 DEF Taken
    <3> QED
      BY <1>1, <3>2, <3>3, <3>4 DEF Taken
  <2> QED
    BY <2>2, <2>3
<1>9. ASSUME NEW j \in 1 .. n, Fell(j) PROVE Fell(j)'
  BY <1>1, <1>2, <1>4, <1>7, <1>9 DEF Fell
<1>10. \A t \in DOMAIN results' \cup skipped' : \E i \in 1 .. n : checks'[i].section = t
  BY <1>1, <1>4 DEF NetworkInv, Turns
<1>11. skipped' # {} => \E j \in 1 .. n : Fell(j)'
  BY <1>1, <1>9 DEF NetworkInv, Turns
<1>12. Turns'
  BY <1>1, <1>8, <1>10, <1>11 DEF Turns
<1>13. Judged'
  BY <1>1 DEF Judged
<1> QED
  BY <1>5, <1>6, <1>12, <1>13 DEF NetworkInv

\* A required check that did not pass counts, so that nothing was skipped if
\* the host is called healthy.
LEMMA VerdictKeepsNetwork ==
    ASSUME ND!DoctorAssumption, NetworkInv, ND!GetPassed PROVE NetworkInv'
<1> DEFINE n == Len(checks)
<1> DEFINE passing == \A i \in 1 .. n : ND!Counts(checks[i]) => results[checks[i].section] = "passed"
<1>1. /\ given = Len(Definitions) /\ turn > n /\ turn \in 1 .. n + 1
      /\ verdict' = IF checks # <<>> /\ passing THEN "healthy" ELSE "unhealthy"
      /\ UNCHANGED <<given, checks, turn, results, skipped, fixed>>
  BY ChecksPlaced DEF ND!GetPassed, ND!Registered, NetworkInv, NetworkType
<1>2. /\ n \in Nat /\ turn = n + 1
  BY <1>1, ChecksPlaced
<1>3. NetworkType'
  BY <1>1 DEF NetworkInv, NetworkType
<1>4. Placed'
  BY <1>1 DEF NetworkInv, Placed, OnePlace, FromList, AllPlaced, AfterNeeds
<1>5. \A i \in 1 .. n : Taken(i)'
  BY <1>1 DEF NetworkInv, Turns, Taken
<1>6. skipped # {} => \E j \in 1 .. n : Fell(j)'
  BY <1>1 DEF NetworkInv, Turns, Fell
<1>7. Turns'
  BY <1>1, <1>5, <1>6, DefinitionsKnown DEF NetworkInv, Turns
<1>8. ASSUME passing, NEW i \in 1 .. n
      PROVE  ND!Fit(checks[i])
  <2>1. skipped = {}
    <3> SUFFICES ASSUME skipped # {} PROVE FALSE
      OBVIOUS
    <3>1. PICK j \in 1 .. n : Fell(j)
      BY DEF NetworkInv, Turns
    <3>2. ND!Counts(checks[j])
      BY <3>1 DEF Fell, ND!Counts, NetworkInv, Turns, Taken
    <3> QED
      BY <1>8, <3>1, <3>2 DEF Fell
  <2>2. checks[i].section \in DOMAIN results
    BY <1>2, <2>1 DEF NetworkInv, Turns, Taken
  <2>3. CASE checks[i].required
    <3>1. ND!Counts(checks[i])
      BY <2>1, <2>3 DEF ND!Counts
    <3> QED
      BY <1>8, <2>2, <2>3, <3>1 DEF ND!Fit
  <2>4. CASE ~checks[i].required
    <3>1. results[checks[i].section] # "raised" => ND!Counts(checks[i])
      BY <2>1 DEF ND!Counts
    <3> QED
      BY <1>8, <2>2, <2>4, <3>1 DEF ND!Fit
  <2> QED
    BY <2>3, <2>4
<1>9. ASSUME ~passing PROVE \E t \in DOMAIN results : results[t] # "passed"
  <2>1. PICK i \in 1 .. n : ND!Counts(checks[i]) /\ results[checks[i].section] # "passed"
    BY <1>9
  <2>2. checks[i].section \in DOMAIN results
    BY <1>2, <2>1 DEF ND!Counts, NetworkInv, Turns, Taken
  <2> QED
    BY <2>1, <2>2
<1>s. ASSUME NEW i \in 1 .. n, ND!Fit(checks[i]), ND!Counts(checks[i])
      PROVE  results[checks[i].section] = "passed"
  <2>1. checks[i].section \in DOMAIN results
    BY <1>2, <1>s DEF ND!Counts, NetworkInv, Turns, Taken
  <2> QED
    BY <1>s, <2>1 DEF ND!Fit, ND!Counts
<1>t. \A i \in 1 .. n : ND!Fit(checks[i])' <=> ND!Fit(checks[i])
  BY <1>1 DEF ND!Fit
<1>10. checks # <<>>
  <2>1. Len(Definitions) \in Nat \ {0}
    BY DefinitionsKnown
  <2>2. 1 \in 1 .. given
    BY <1>1, <2>1
  <2>3. n # 0
    BY <2>2 DEF NetworkInv, Placed, AllPlaced
  <2> QED
    BY <2>3, EmptySeq
<1>11. Judged'
  <2>1. CASE passing
    BY <1>1, <1>2, <1>8, <1>t, <1>10, <2>1 DEF Judged
  <2>2. CASE ~passing
    <3>1. ~\A i \in 1 .. n : ND!Fit(checks[i])
      BY <1>s, <2>2
    <3> QED
      BY <1>1, <1>2, <1>9, <1>t, <2>2, <3>1 DEF Judged
  <2> QED
    BY <2>1, <2>2
<1> QED
  BY <1>3, <1>4, <1>7, <1>11 DEF NetworkInv

\* A host is called healthy exactly if every required check ran and passed and
\* no optional one came back with a failure, and unhealthy only if one that ran
\* did not pass; every check has a result or was skipped, and ran only on dependencies that passed: for every list of
\* checks that depend on earlier, required ones, and whatever the checks and
\* their repairs come to.
THEOREM VerdictsFollowChecks == UnitsSpec => []VerdictSound
<1> DEFINE Inv == focus = "network" => NetworkInv
<1> USE UnitAssumption
<1>1. UnitsInit => Inv
  BY InitNetwork DEF UnitsInit, UnitAssumption
<1>2. Inv /\ [UnitsNext]_coreVars => Inv'
  <2> SUFFICES ASSUME Inv, [UnitsNext]_coreVars, focus' = "network"
               PROVE  NetworkInv'
    OBVIOUS
  <2>1. focus = "network" /\ NetworkInv
    BY DEF UnitsNext, coreVars
  <2>2. CASE ND!Next
    BY <2>1, <2>2, RegisterKeepsNetwork, SkipKeepsNetwork, RunKeepsNetwork, VerdictKeepsNetwork
       DEF ND!Next, UnitAssumption
  <2>3. CASE UNCHANGED networkVars
    <3>1. UNCHANGED <<given, checks, turn, results, skipped, fixed, verdict>>
      BY <2>3 DEF networkVars
    <3>t. \A i : ND!Fit(checks[i])' <=> ND!Fit(checks[i])
      BY <3>1 DEF ND!Fit
    <3>2. NetworkType' /\ Placed'
      BY <2>1, <3>1 DEF NetworkInv, NetworkType, Placed, OnePlace, FromList, AllPlaced, AfterNeeds
    <3>j. Judged'
      BY <2>1, <3>1, <3>t DEF NetworkInv, Judged
    <3>3. \A i : Taken(i)' = Taken(i) /\ Fell(i)' = Fell(i)
      BY <3>1 DEF Taken, Fell
    <3>4. Turns'
      BY <2>1, <3>1, <3>3 DEF NetworkInv, Turns
    <3> QED
      BY <3>2, <3>j, <3>4 DEF NetworkInv
  <2> QED
    BY <2>1, <2>2, <2>3 DEF UnitsNext, coreVars
<1>3. Inv => VerdictSound
  <2> SUFFICES ASSUME NetworkInv, verdict # "none" PROVE ND!VerdictSound
    BY DEF VerdictSound, ND!VerdictSound
  <2>1. /\ DOMAIN checks = 1 .. Len(checks) /\ Len(checks) \in Nat
        /\ turn = Len(checks) + 1 /\ given = Len(Definitions)
    BY ChecksPlaced DEF NetworkInv, Judged
  <2>2. DOMAIN results \cap skipped = {}
    BY DEF NetworkInv, Turns, Taken
  <2>3. {c.section : c \in ND!Listed} = {Definitions[k].section : k \in 1 .. Len(Definitions)}
    BY DefinitionsKnown, LenProperties DEF ND!Listed, UnitAssumption
  <2>4. DOMAIN results \cup skipped = {Definitions[k].section : k \in 1 .. Len(Definitions)}
    <3>1. ASSUME NEW s \in DOMAIN results \cup skipped
          PROVE  \E k \in 1 .. Len(Definitions) : Definitions[k].section = s
      <4>1. PICK i \in 1 .. Len(checks) : checks[i].section = s
        BY DEF NetworkInv, Turns
      <4> QED
        BY <2>1, <4>1 DEF NetworkInv, Placed, FromList
    <3>2. ASSUME NEW k \in 1 .. Len(Definitions)
          PROVE  Definitions[k].section \in DOMAIN results \cup skipped
      <4>1. PICK i \in 1 .. Len(checks) : checks[i] = Definitions[k]
        BY <2>1 DEF NetworkInv, Placed, AllPlaced
      <4> QED
        BY <2>1, <4>1 DEF NetworkInv, Turns, Taken
    <3> QED
      BY <3>1, <3>2
  <2>5. \A i \in DOMAIN checks : checks[i].section \in DOMAIN results =>
           \A d \in checks[i].dependencies : d \in DOMAIN results /\ results[d] = "passed"
    BY <2>1 DEF NetworkInv, Turns, Taken
  <2> QED
    BY <2>1, <2>2, <2>3, <2>4, <2>5 DEF NetworkInv, Judged, ND!VerdictSound
<1> QED
  BY <1>1, <1>2, <1>3, PTL DEF UnitsSpec

-----------------------------------------------------------------------------
(* The reports of a run *)

Statuses == {"UNKNOWN", "WAITING", "RUNNING", "RETRY", "BLOCKED", "FAILED", "SUCCESS"}
Payloads == [step : STRING, rows : RowCounts]
Manifests == [status : Statuses, step : STRING, payloads : Seq(Payloads), error : BOOLEAN]

ReportType ==
    /\ steps \in Pipelines
    /\ manifest \in Manifests
    /\ phase \in {"queued", "running", "saved", "erred", "ended"}
    /\ signals \in Nat /\ polls \in Nat
    /\ \E k \in 1 .. Len(steps) : manifest.step = steps[k].id

\* The k-th step has a payload among the first n.
DoneWithin(n, k) == \E i \in 1 .. n : manifest.payloads[i].step = steps[k].id

\* A step has payloads only after every step before it, the step of the
\* manifest included; what is saved has its payload.
InOrder ==
    \A i \in 1 .. Len(manifest.payloads) :
        \E k \in 1 .. Len(steps) :
            /\ manifest.payloads[i].step = steps[k].id
            /\ \A l \in 1 .. k - 1 : DoneWithin(i - 1, l)
Reached ==
    \A k \in 1 .. Len(steps) : manifest.step = steps[k].id =>
        /\ \A l \in 1 .. k - 1 : DoneWithin(Len(manifest.payloads), l)
        /\ phase = "saved" => DoneWithin(Len(manifest.payloads), k)

\* A step that has payloads has a first one; a stage that has, a first and a last.
HasFirst ==
    \A i \in 1 .. Len(manifest.payloads) :
        \E f \in RP!CompletedStepIds :
            f <= i /\ manifest.payloads[f].step = manifest.payloads[i].step
HasEnds(stage) ==
    RP!Executed(stage) # {} =>
        /\ \E i \in RP!Executed(stage) : \A j \in RP!Executed(stage) : j <= i
        /\ \E i \in RP!Executed(stage) : \A j \in RP!Executed(stage) : i <= j

\* What a status of the manifest implies.
Standing ==
    /\ manifest.status \in {"BLOCKED", "FAILED"} => manifest.error
    /\ manifest.status = "SUCCESS" => phase = "ended" /\ manifest.step = steps[Len(steps)].id

\* While no poll has replaced it, the record follows the reports, and is
\* terminal only with an error or at the end.
Recorded ==
    polls = 0 =>
        /\ record # "none"
        /\ record = IF reported.status = "none" THEN "PENDING" ELSE reported.status
        /\ record = "SUCCESS" => manifest.status = "SUCCESS"
        /\ record = "FAILED" => manifest.error

Current ==
    \/ reported = RP!ParseUpdate
    \/ reported.status = "FAILED" /\ manifest.status \notin RP!Terminal /\ manifest.error
Told ==
    /\ reported.status # "none" => reported.index \in 1 .. Len(steps)
    /\ (signals = 0 /\ polls = 0 /\ reported.status # "none" /\ phase \in {"queued", "ended"}) => Current

ReportInv ==
    /\ ReportType /\ InOrder /\ Reached /\ HasFirst /\ HasEnds("publish") /\ HasEnds("write")
    /\ Standing /\ Recorded /\ Told

-----------------------------------------------------------------------------
LEMMA StepsKnown ==
    ASSUME RP!ReportAssumption, steps \in Pipelines
    PROVE  /\ Len(steps) \in Nat /\ Len(steps) >= 1 /\ DOMAIN steps = 1 .. Len(steps)
           /\ \A k \in 1 .. Len(steps) : steps[k].id \in STRING
           /\ \A k, l \in 1 .. Len(steps) : steps[k].id = steps[l].id => k = l
<1>1. /\ steps \in Seq([id : STRING, stage : STRING]) /\ steps # <<>>
      /\ \A i, j \in DOMAIN steps : steps[i].id = steps[j].id => i = j
  BY DEF RP!ReportAssumption
<1>2. Len(steps) \in Nat /\ Len(steps) # 0 /\ DOMAIN steps = 1 .. Len(steps)
  BY <1>1, EmptySeq, LenProperties
<1>3. \A k \in 1 .. Len(steps) : steps[k] \in [id : STRING, stage : STRING]
  BY <1>1, ElementOfSeq
<1> QED
  BY <1>1, <1>2, <1>3

LEMMA PositionKnown ==
    ASSUME RP!ReportAssumption, steps \in Pipelines, NEW k \in 1 .. Len(steps)
    PROVE  RP!Position(steps[k].id) = k
BY StepsKnown DEF RP!Position

LEMMA PayloadsKnown ==
    ASSUME ReportType
    PROVE  /\ manifest.payloads \in Seq(Payloads) /\ Len(manifest.payloads) \in Nat
           /\ DOMAIN manifest.payloads = 1 .. Len(manifest.payloads)
<1>1. manifest.payloads \in Seq(Payloads)
  BY DEF ReportType, Manifests
<1> QED
  BY <1>1, LenProperties

LEMMA MaxKnown ==
    ASSUME NEW S, S \subseteq Nat, NEW m \in S, \A j \in S : j <= m
    PROVE  RP!Max(S) = m
<1>1. m \in Nat /\ \A j \in S : j \in Nat
  OBVIOUS
<1>2. \A j \in S : m >= j
  BY <1>1
<1>3. RP!Max(S) \in S /\ \A j \in S : RP!Max(S) >= j
  BY <1>2 DEF RP!Max
<1> DEFINE x == RP!Max(S)
<1> HIDE DEF x
<1>4. x \in Nat /\ x >= m /\ x <= m
  BY <1>1, <1>3 DEF x
<1> QED
  BY <1>1, <1>4 DEF x

LEMMA MinKnown ==
    ASSUME NEW S, S \subseteq Nat, NEW m \in S, \A j \in S : m <= j
    PROVE  RP!Min(S) = m
<1>1. m \in Nat /\ \A j \in S : j \in Nat
  OBVIOUS
<1>2. RP!Min(S) \in S /\ \A j \in S : RP!Min(S) <= j
  BY DEF RP!Min
<1> DEFINE x == RP!Min(S)
<1> HIDE DEF x
<1>3. x \in Nat /\ x >= m /\ x <= m
  BY <1>1, <1>2 DEF x
<1> QED
  BY <1>1, <1>3 DEF x

\* The rows of an update are those of the last publish, or of a write.
LEMMA RowsKnown ==
    ASSUME ReportInv, reported = RP!ParseUpdate PROVE RP!RowsInTarget
<1>1. /\ \A stage : RP!Executed(stage) \subseteq Nat
      /\ reported.rows = RP!ExtractRowCounts
  BY PayloadsKnown DEF ReportInv, RP!Executed, RP!ParseUpdate
<1>2. CASE RP!Executed("publish") # {}
  <2>1. PICK i \in RP!Executed("publish") : \A j \in RP!Executed("publish") : j <= i
    BY <1>2 DEF ReportInv, HasEnds
  <2>2. RP!Max(RP!Executed("publish")) = i
    BY <1>1, <2>1, MaxKnown
  <2> QED
    BY <1>1, <1>2, <2>1, <2>2 DEF RP!RowsInTarget, RP!ExtractRowCounts
<1>3. CASE RP!Executed("publish") = {} /\ RP!Executed("write") # {}
  <2>1. PICK i \in RP!Executed("write") : \A j \in RP!Executed("write") : i <= j
    BY <1>3 DEF ReportInv, HasEnds
  <2>2. RP!Min(RP!Executed("write")) = i
    BY <1>1, <2>1, MinKnown
  <2> QED
    BY <1>1, <1>3, <2>1, <2>2 DEF RP!RowsInTarget, RP!ExtractRowCounts
<1>4. CASE RP!Executed("publish") = {} /\ RP!Executed("write") = {}
  BY <1>1, <1>4 DEF RP!RowsInTarget, RP!ExtractRowCounts
<1> QED
  BY <1>2, <1>3, <1>4

\* An update says where the run stands.
LEMMA UpdateKnown ==
    ASSUME RP!ReportAssumption, ReportInv, NEW k \in 1 .. Len(steps), manifest.step = steps[k].id
    PROVE  /\ RP!Position(manifest.step) = k
           /\ RP!ParseUpdate.status = manifest.status
           /\ RP!ParseUpdate.index = k
           /\ RP!ParseUpdate.end = IF manifest.status \in RP!Terminal THEN Len(manifest.payloads) ELSE 0
           /\ (RP!ParseUpdate.remarks = "error") <=> (manifest.status \in {"BLOCKED", "FAILED"})
<1>1. steps \in Pipelines
  BY DEF ReportInv, ReportType
<1>2. RP!Position(manifest.step) = k
  BY <1>1, PositionKnown
<1>3. RP!ParseUpdate.status = manifest.status
  BY DEF RP!ParseUpdate
<1>4. RP!ParseUpdate.index = k
  <2>1. RP!ParseUpdate.index = RP!CalculateStepProgress(manifest.status)
    BY DEF RP!ParseUpdate
  <2>2. CASE manifest.status = "SUCCESS"
    <3>1. k = Len(steps)
      <4>1. steps[k].id = steps[Len(steps)].id /\ Len(steps) \in 1 .. Len(steps)
        BY <1>1, <2>2, StepsKnown DEF ReportInv, Standing
      <4> QED
        BY <1>1, <4>1, StepsKnown
    <3> QED
      BY <2>1, <2>2, <3>1 DEF RP!CalculateStepProgress
  <2>3. CASE manifest.status # "SUCCESS"
    <3>1. \E i \in DOMAIN steps : RP!Ids[i] = manifest.step
      BY <1>1, StepsKnown DEF RP!Ids
    <3> QED
      BY <1>2, <2>1, <2>3, <3>1 DEF RP!CalculateStepProgress
  <2> QED
    BY <2>2, <2>3
<1>5. RP!ParseUpdate.end = IF manifest.status \in RP!Terminal THEN Len(manifest.payloads) ELSE 0
  BY DEF RP!ParseUpdate, RP!ExtractTimestamps
<1>6. (RP!ParseUpdate.remarks = "error") <=> (manifest.status \in {"BLOCKED", "FAILED"})
  <2>1. RP!ParseUpdate.remarks = RP!BuildRemarks(manifest.status)
    BY DEF RP!ParseUpdate
  <2>2. manifest.status \in {"BLOCKED", "FAILED"} => manifest.error
    BY DEF ReportInv, Standing
  <2> QED
    BY <2>1, <2>2 DEF RP!BuildRemarks
<1> QED
  BY <1>2, <1>3, <1>4, <1>5, <1>6

\* The first payloads of the steps come in the order of the steps, so that the
\* one before the first payload of a step is that of the step before it.
LEMMA UpstreamKnown ==
    ASSUME RP!ReportAssumption, ReportInv, NEW k \in 1 .. Len(steps), manifest.step = steps[k].id
    PROVE  RP!GetUpstreamStepId(manifest.step) = IF k = 1 THEN "none" ELSE steps[k - 1].id
<1> DEFINE P == manifest.payloads
<1> DEFINE F == RP!CompletedStepIds
<1> DEFINE B == {i \in F : \A j \in F : P[j].step = manifest.step => i < j}
<1>1. /\ steps \in Pipelines /\ Len(steps) \in Nat /\ Len(P) \in Nat /\ DOMAIN P = 1 .. Len(P)
      /\ \A l, m \in 1 .. Len(steps) : steps[l].id = steps[m].id => l = m
  BY StepsKnown, PayloadsKnown DEF ReportInv, ReportType
<1>2. RP!GetUpstreamStepId(manifest.step) = IF B = {} THEN "none" ELSE P[RP!Max(B)].step
  BY DEF RP!GetUpstreamStepId, RP!LastOf
<1>3. /\ F \subseteq 1 .. Len(P) /\ B \subseteq F /\ F \subseteq Nat
      /\ \A i \in F : \A j \in 1 .. Len(P) : P[j].step = P[i].step => i <= j
  BY <1>1 DEF RP!CompletedStepIds
<1>4. ASSUME NEW i \in F, NEW m \in 1 .. Len(steps), P[i].step = steps[m].id, NEW l \in 1 .. m - 1
      PROVE  \E f \in F : f < i /\ P[f].step = steps[l].id
  <2>1. PICK n \in 1 .. Len(steps) :
            P[i].step = steps[n].id /\ \A o \in 1 .. n - 1 : DoneWithin(i - 1, o)
    BY <1>3 DEF ReportInv, InOrder
  <2>2. n = m
    BY <1>1, <1>4, <2>1
  <2>3. PICK j \in 1 .. i - 1 : P[j].step = steps[l].id
    BY <1>4, <2>1, <2>2 DEF DoneWithin
  <2>4. j \in 1 .. Len(P)
    BY <1>1, <1>3, <2>3
  <2>5. PICK f \in F : f <= j /\ P[f].step = P[j].step
    BY <2>4 DEF ReportInv, HasFirst
  <2>6. f < i
    BY <1>3, <2>3, <2>5
  <2> QED
    BY <2>3, <2>5, <2>6
<1>5. \A i \in B : \E m \in 1 .. k - 1 : P[i].step = steps[m].id
  <2> SUFFICES ASSUME NEW i \in B PROVE \E m \in 1 .. k - 1 : P[i].step = steps[m].id
    OBVIOUS
  <2>1. PICK m \in 1 .. Len(steps) : P[i].step = steps[m].id
    BY <1>3 DEF ReportInv, InOrder
  <2>2. i \in F /\ i \in Nat /\ \A j \in F : P[j].step = manifest.step => i < j
    BY <1>3
  <2>3. m # k
    BY <2>1, <2>2
  <2>4. ~ (k < m)
    <3> SUFFICES ASSUME k < m PROVE FALSE
      OBVIOUS
    <3>1. k \in 1 .. m - 1
      BY <1>1
    <3>2. PICK f \in F : f < i /\ P[f].step = steps[k].id
      BY <1>4, <2>1, <2>2, <3>1
    <3> QED
      BY <1>3, <2>2, <3>2
  <2> QED
    BY <1>1, <2>1, <2>3, <2>4
<1>6. CASE k = 1
  BY <1>2, <1>5, <1>6
<1>7. CASE k # 1
  <2>1. k - 1 \in 1 .. k - 1 /\ k - 1 \in 1 .. Len(steps)
    BY <1>1, <1>7
  <2>2. PICK i \in 1 .. Len(P) : P[i].step = steps[k - 1].id
    BY <2>1 DEF ReportInv, Reached, DoneWithin
  <2>3. PICK f \in F : P[f].step = steps[k - 1].id
    BY <2>2 DEF ReportInv, HasFirst
  <2>4. f \in B
    <3> SUFFICES ASSUME NEW j \in F, P[j].step = manifest.step PROVE f < j
      OBVIOUS
    <3>1. PICK g \in F : g < j /\ P[g].step = steps[k - 1].id
      BY <1>4, <2>1
    <3>2. f <= g
      BY <1>3, <2>3, <3>1
    <3> QED
      BY <1>3, <3>1, <3>2
  <2>5. ASSUME NEW j \in B PROVE j <= f
    <3>1. PICK m \in 1 .. k - 1 : P[j].step = steps[m].id
      BY <1>5
    <3>2. CASE m = k - 1
      BY <1>3, <2>3, <3>1, <3>2
    <3>3. CASE m \in 1 .. (k - 1) - 1
      <4>1. PICK g \in F : g < f /\ P[g].step = steps[m].id
        BY <1>4, <2>1, <2>3, <3>3
      <4>2. j <= g
        BY <1>3, <3>1, <4>1
      <4> QED
        BY <1>3, <4>1, <4>2
    <3> QED
      BY <1>1, <3>2, <3>3
  <2>6. B \subseteq Nat
    BY <1>3
  <2> HIDE DEF B
  <2>7. RP!Max(B) = f
    BY <2>4, <2>5, <2>6, MaxKnown
  <2> QED
    BY <1>2, <1>7, <2>3, <2>4, <2>7
<1> QED
  BY <1>6, <1>7

-----------------------------------------------------------------------------
LEMMA InitReport ==
    ASSUME RP!ReportAssumption, RP!Init PROVE ReportInv
<1> DEFINE P == manifest.payloads
<1>1. /\ steps \in Pipelines /\ phase = "queued" /\ signals = 0 /\ record = "PENDING"
      /\ reported = RP!NoReport /\ polls = 0
      /\ manifest = [status |-> "UNKNOWN", step |-> steps[1].id, payloads |-> <<>>, error |-> FALSE]
  BY DEF RP!Init
<1>2. P = <<>> /\ P \in Seq(Payloads) /\ Len(P) = 0 /\ DOMAIN P = {}
  BY <1>1, EmptySeq
<1>3. 1 \in 1 .. Len(steps) /\ Len(steps) \in Nat /\ steps[1].id \in STRING
  BY <1>1, StepsKnown
<1>4. manifest \in Manifests
  BY <1>1, <1>2, <1>3 DEF Manifests, Statuses
<1>5. ReportType
  BY <1>1, <1>3, <1>4 DEF ReportType
<1>6. InOrder /\ HasFirst
  BY <1>2 DEF InOrder, HasFirst
<1>7. HasEnds("publish") /\ HasEnds("write")
  BY <1>2 DEF HasEnds, RP!Executed
<1>8. Reached
  <2> SUFFICES ASSUME NEW k \in 1 .. Len(steps), steps[1].id = steps[k].id
               PROVE  \A l \in 1 .. k - 1 : DoneWithin(Len(P), l)
    BY <1>1 DEF Reached
  <2>1. k = 1
    BY <1>1, <1>3, StepsKnown
  <2> QED
    BY <2>1
<1>9. Standing
  BY <1>1 DEF Standing
<1>10. Recorded /\ Told
  BY <1>1 DEF Recorded, Told, RP!NoReport
<1> QED
  BY <1>5, <1>6, <1>7, <1>8, <1>9, <1>10 DEF ReportInv

\* What is said of the payloads only depends on them, on the steps and on where the run is.
LEMMA PayloadsStay ==
    ASSUME ReportInv, UNCHANGED steps, manifest'.payloads = manifest.payloads
    PROVE  /\ InOrder' /\ HasFirst' /\ HasEnds("publish")' /\ HasEnds("write")'
           /\ \A n, k : DoneWithin(n, k)' = DoneWithin(n, k)
<1>1. \A n, k : DoneWithin(n, k)' = DoneWithin(n, k)
  BY DEF DoneWithin
<1>2. InOrder'
  BY <1>1 DEF ReportInv, InOrder
<1>3. RP!CompletedStepIds' = RP!CompletedStepIds
  BY DEF RP!CompletedStepIds
<1>4. HasFirst'
  BY <1>3 DEF ReportInv, HasFirst
<1>5. \A stage : RP!Executed(stage)' = RP!Executed(stage)
  BY DEF RP!Executed, RP!StageOf, RP!Position
<1>6. HasEnds("publish")' /\ HasEnds("write")'
  BY <1>5 DEF ReportInv, HasEnds
<1> QED
  BY <1>1, <1>2, <1>4, <1>6

LEMMA UpdateStays ==
    ASSUME UNCHANGED <<steps, manifest>> PROVE RP!ParseUpdate' = RP!ParseUpdate
<1>1. RP!CompletedStepIds' = RP!CompletedStepIds /\ RP!Ids' = RP!Ids
  BY DEF RP!CompletedStepIds, RP!Ids
<1>2. RP!CalculateStepProgress(manifest.status)' = RP!CalculateStepProgress(manifest.status)
  BY <1>1 DEF RP!CalculateStepProgress, RP!Position
<1>3. \A stage : RP!Executed(stage)' = RP!Executed(stage)
  BY DEF RP!Executed, RP!StageOf, RP!Position
<1>4. RP!ExtractRowCounts' = RP!ExtractRowCounts
  BY <1>3 DEF RP!ExtractRowCounts
<1>5. RP!BuildRemarks(manifest.status)' = RP!BuildRemarks(manifest.status) /\ RP!ExtractTimestamps' = RP!ExtractTimestamps
  BY DEF RP!BuildRemarks, RP!ExtractTimestamps, RP!Terminal
<1> QED
  BY <1>2, <1>4, <1>5 DEF RP!ParseUpdate

\* A report is the update of the manifest as it is; one that is dropped
\* follows the report of a failure that did not end the run.
LEMMA SyncKeepsReport ==
    ASSUME RP!ReportAssumption, ReportInv, RP!SyncManifest PROVE ReportInv'
<1>1. /\ signals \in Nat /\ signals > 0 /\ signals' = signals - 1
      /\ UNCHANGED <<steps, manifest, phase, polls>>
  BY DEF RP!SyncManifest, ReportInv, ReportType
<1>2. ReportType'
  BY <1>1 DEF ReportInv, ReportType
<1>3. /\ InOrder' /\ HasFirst' /\ HasEnds("publish")' /\ HasEnds("write")'
      /\ \A n, k : DoneWithin(n, k)' = DoneWithin(n, k)
  BY <1>1, PayloadsStay
<1>4. Reached' /\ Standing'
  BY <1>1, <1>3 DEF ReportInv, Reached, Standing
<1>5. RP!ParseUpdate' = RP!ParseUpdate
  BY <1>1, UpdateStays
<1>6. PICK k \in 1 .. Len(steps) : manifest.step = steps[k].id
  BY DEF ReportInv, ReportType
<1>7. /\ RP!ParseUpdate.status = manifest.status /\ RP!ParseUpdate.index = k
      /\ manifest.status \in Statuses
  BY <1>6, UpdateKnown DEF ReportInv, ReportType, Manifests
<1>8. CASE record # "none" /\ ~(record \in RP!Terminal /\ manifest.status \notin RP!Terminal)
  <2>1. reported' = RP!ParseUpdate /\ record' = manifest.status
    BY <1>8 DEF RP!SyncManifest
  <2>2. reported'.status = manifest.status /\ reported'.index = k /\ manifest.status # "none"
    BY <1>7, <2>1 DEF Statuses
  <2>3. Recorded'
    BY <1>1, <2>1, <2>2 DEF ReportInv, Standing, Recorded
  <2>4. Told'
    BY <1>1, <1>5, <1>6, <2>1, <2>2 DEF Told, Current
  <2> QED
    BY <1>2, <1>3, <1>4, <2>3, <2>4 DEF ReportInv
<1>9. CASE ~(record # "none" /\ ~(record \in RP!Terminal /\ manifest.status \notin RP!Terminal))
  <2>1. UNCHANGED <<reported, record>>
    BY <1>9 DEF RP!SyncManifest
  <2>2. Recorded'
    BY <1>1, <2>1 DEF ReportInv, Recorded
  <2>3. (polls = 0 /\ reported.status # "none") => Current
    <3> SUFFICES ASSUME polls = 0, reported.status # "none" PROVE Current
      OBVIOUS
    <3>1. record = reported.status /\ record # "none"
      BY DEF ReportInv, Recorded
    <3>2. record \in {"SUCCESS", "FAILED"} /\ manifest.status \notin {"SUCCESS", "FAILED"}
      BY <1>9, <3>1 DEF RP!Terminal
    <3>3. record = "FAILED" /\ manifest.error
      BY <3>2 DEF ReportInv, Recorded
    <3> QED
      BY <3>1, <3>2, <3>3 DEF Current, RP!Terminal
  <2>4. Current => Current'
    BY <1>1, <1>5, <2>1 DEF Current, RP!Terminal
  <2>5. Told'
    BY <1>1, <2>1, <2>3, <2>4 DEF ReportInv, Told
  <2> QED
    BY <1>2, <1>3, <1>4, <2>2, <2>5 DEF ReportInv
<1> QED
  BY <1>8, <1>9

LEMMA PollKeepsReport ==
    ASSUME ReportInv, RP!Poll PROVE ReportInv'
<1>1. /\ polls \in Nat /\ polls' = polls + 1 /\ polls' # 0
      /\ UNCHANGED <<steps, manifest, phase, signals, reported>>
  BY DEF RP!Poll, ReportInv, ReportType
<1>2. ReportType'
  BY <1>1 DEF ReportInv, ReportType
<1>3. /\ InOrder' /\ HasFirst' /\ HasEnds("publish")' /\ HasEnds("write")'
      /\ \A n, k : DoneWithin(n, k)' = DoneWithin(n, k)
  BY <1>1, PayloadsStay
<1>4. Reached' /\ Standing'
  BY <1>1, <1>3 DEF ReportInv, Reached, Standing
<1>5. Recorded' /\ Told'
  BY <1>1 DEF ReportInv, Recorded, Told
<1> QED
  BY <1>2, <1>3, <1>4, <1>5 DEF ReportInv

\* The worker's steps within an execution: the manifest may become one that
\* fails with an error or runs again, and nothing is reported.
LEMMA WorkKeepsReport ==
    ASSUME ReportInv, phase \in {"queued", "running", "saved"}, phase' \in {"running", "erred"},
           UNCHANGED <<steps, signals, record, reported, polls>>,
           \/ manifest' = manifest
           \/ manifest' = [manifest EXCEPT !.status = "FAILED", !.error = TRUE]
           \/ manifest' = [manifest EXCEPT !.status = "RUNNING"]
    PROVE  ReportInv'
<1>1. /\ manifest' \in Manifests /\ manifest'.step = manifest.step /\ manifest'.payloads = manifest.payloads
      /\ manifest.error => manifest'.error
      /\ manifest'.status \in {"FAILED", "BLOCKED"} => manifest'.error
      /\ manifest'.status = "SUCCESS" => manifest.status = "SUCCESS"
  <2>1. manifest \in Manifests /\ (manifest.status \in {"BLOCKED", "FAILED"} => manifest.error)
    BY DEF ReportInv, ReportType, Standing
  <2>2. CASE manifest' = manifest
    BY <2>1, <2>2
  <2>3. CASE manifest' = [manifest EXCEPT !.status = "FAILED", !.error = TRUE]
    BY <2>1, <2>3 DEF Manifests, Statuses
  <2>4. CASE manifest' = [manifest EXCEPT !.status = "RUNNING"]
    BY <2>1, <2>4 DEF Manifests, Statuses
  <2> QED
    BY <2>2, <2>3, <2>4
<1>2. ReportType'
  BY <1>1 DEF ReportInv, ReportType
<1>3. /\ InOrder' /\ HasFirst' /\ HasEnds("publish")' /\ HasEnds("write")'
      /\ \A n, k : DoneWithin(n, k)' = DoneWithin(n, k)
  BY <1>1, PayloadsStay
<1>4. Reached'
  BY <1>1, <1>3 DEF ReportInv, Reached
<1>5. Standing'
  BY <1>1 DEF ReportInv, Standing
<1>6. Recorded'
  BY <1>1 DEF ReportInv, Standing, Recorded
<1>7. Told'
  BY DEF ReportInv, Told
<1> QED
  BY <1>2, <1>3, <1>4, <1>5, <1>6, <1>7 DEF ReportInv

\* The outcome of a step: there is a signal to handle, so that nothing is owed yet.
LEMMA ConcludeKeepsReport ==
    ASSUME RP!ReportAssumption, ReportInv, phase \in {"saved", "erred"},
           phase' = IF manifest'.status \in RP!Terminal THEN "ended" ELSE "queued",
           signals' = signals + 1, UNCHANGED <<steps, record, reported, polls>>,
           manifest' \in Manifests, manifest'.payloads = manifest.payloads,
           manifest.error => manifest'.error,
           manifest'.status \in {"BLOCKED", "FAILED"} => manifest'.error,
           manifest'.status = "SUCCESS" => manifest'.step = steps[Len(steps)].id,
           NEW k \in 1 .. Len(steps), manifest'.step = steps[k].id,
           \A l \in 1 .. k - 1 : DoneWithin(Len(manifest.payloads), l)
    PROVE  ReportInv'
<1>1. ReportType'
  BY DEF ReportInv, ReportType
<1>2. /\ InOrder' /\ HasFirst' /\ HasEnds("publish")' /\ HasEnds("write")'
      /\ \A n, j : DoneWithin(n, j)' = DoneWithin(n, j)
  BY PayloadsStay
<1>3. Reached'
  <2>1. \A j \in 1 .. Len(steps) : manifest'.step = steps[j].id => j = k
    BY StepsKnown DEF ReportInv, ReportType
  <2>2. phase' # "saved"
    OBVIOUS
  <2> QED
    BY <1>2, <2>1, <2>2 DEF Reached
<1>4. Standing'
  BY DEF Standing, RP!Terminal
<1>5. Recorded'
  BY DEF ReportInv, Standing, Recorded
<1>6. Told'
  BY DEF ReportInv, ReportType, Told
<1> QED
  BY <1>1, <1>2, <1>3, <1>4, <1>5, <1>6 DEF ReportInv

LEMMA CompleteKeepsReport ==
    ASSUME RP!ReportAssumption, ReportInv, RP!CompleteStep PROVE ReportInv'
<1> DEFINE n == Len(manifest.payloads)
<1>1. PICK k \in 1 .. Len(steps) : manifest.step = steps[k].id
  BY DEF ReportInv, ReportType
<1>2. /\ RP!Position(manifest.step) = k /\ Len(steps) \in Nat /\ DOMAIN steps = 1 .. Len(steps)
      /\ \A l \in 1 .. Len(steps) : steps[l].id \in STRING
  BY <1>1, PositionKnown, StepsKnown DEF ReportInv, ReportType
<1>3. /\ phase = "saved" /\ manifest \in Manifests
      /\ \A l \in 1 .. k : DoneWithin(n, l)
      /\ manifest.status \in {"BLOCKED", "FAILED"} => manifest.error
  BY <1>1, <1>2 DEF RP!CompleteStep, ReportInv, ReportType, Reached, Standing
<1>4. CASE k = Len(steps)
  <2>1. /\ manifest' = [manifest EXCEPT !.status = "SUCCESS"]
        /\ phase' = IF manifest'.status \in RP!Terminal THEN "ended" ELSE "queued"
        /\ signals' = signals + 1 /\ UNCHANGED <<steps, record, reported, polls>>
    BY <1>2, <1>4 DEF RP!CompleteStep, RP!Conclude
  <2>2. /\ manifest' \in Manifests /\ manifest'.payloads = manifest.payloads
        /\ manifest'.error = manifest.error /\ manifest'.status = "SUCCESS" /\ manifest'.step = manifest.step
    BY <1>3, <2>1 DEF Manifests, Statuses
  <2>3. \A l \in 1 .. k - 1 : DoneWithin(Len(manifest.payloads), l)
    BY <1>3
  <2> QED
    BY <1>1, <1>3, <1>4, <2>1, <2>2, <2>3, ConcludeKeepsReport
<1>5. CASE k # Len(steps)
  <2>1. /\ manifest' = [manifest EXCEPT !.status = "WAITING", !.step = RP!Ids[k + 1]]
        /\ phase' = IF manifest'.status \in RP!Terminal THEN "ended" ELSE "queued"
        /\ signals' = signals + 1 /\ UNCHANGED <<steps, record, reported, polls>>
    BY <1>2, <1>5 DEF RP!CompleteStep, RP!Conclude
  <2> DEFINE many == Len(steps)
  <2>0. many \in Nat /\ k \in 1 .. many /\ k # many
    BY <1>2, <1>5
  <2> HIDE DEF many
  <2>2. k + 1 \in 1 .. many /\ (k + 1) - 1 = k
    BY <2>0
  <2> USE DEF many
  <2>3. RP!Ids[k + 1] = steps[k + 1].id /\ steps[k + 1].id \in STRING
    BY <1>2, <2>2 DEF RP!Ids
  <2>4. /\ manifest' \in Manifests /\ manifest'.payloads = manifest.payloads
        /\ manifest'.error = manifest.error /\ manifest'.status = "WAITING" /\ manifest'.step = steps[k + 1].id
    BY <1>3, <2>1, <2>3 DEF Manifests, Statuses
  <2> QED
    BY <1>3, <2>1, <2>2, <2>4, ConcludeKeepsReport
<1> QED
  BY <1>4, <1>5

LEMMA StopKeepsReport ==
    ASSUME RP!ReportAssumption, ReportInv, NEW s \in {"RETRY", "BLOCKED", "FAILED"}, RP!StopStep(s)
    PROVE  ReportInv'
<1>1. PICK k \in 1 .. Len(steps) : manifest.step = steps[k].id
  BY DEF ReportInv, ReportType
<1>2. /\ phase = "erred" /\ manifest \in Manifests
      /\ \A l \in 1 .. k - 1 : DoneWithin(Len(manifest.payloads), l)
  BY <1>1 DEF RP!StopStep, ReportInv, ReportType, Reached
<1>3. /\ manifest' = [manifest EXCEPT !.status = s, !.error = TRUE]
      /\ phase' = IF manifest'.status \in RP!Terminal THEN "ended" ELSE "queued"
      /\ signals' = signals + 1 /\ UNCHANGED <<steps, record, reported, polls>>
  BY DEF RP!StopStep, RP!Conclude
<1>4. /\ manifest' \in Manifests /\ manifest'.payloads = manifest.payloads
      /\ manifest'.error = TRUE /\ manifest'.status # "SUCCESS" /\ manifest'.step = manifest.step
  BY <1>2, <1>3 DEF Manifests, Statuses
<1> QED
  BY <1>1, <1>2, <1>3, <1>4, ConcludeKeepsReport

\* A payload comes after those of the steps before its own, and is the first
\* of its step or not.
LEMMA SaveKeepsReport ==
    ASSUME RP!ReportAssumption, ReportInv, NEW rowCount \in RowCounts, RP!SavePayload(rowCount)
    PROVE  ReportInv'
<1> DEFINE P == manifest.payloads
<1> DEFINE n == Len(P)
<1> DEFINE p == [step |-> manifest.step, rows |-> rowCount]
<1>1. PICK k \in 1 .. Len(steps) : manifest.step = steps[k].id
  BY DEF ReportInv, ReportType
<1>2. /\ phase = "running" /\ phase' = "saved"
      /\ manifest' = [manifest EXCEPT !.payloads = Append(P, p)]
      /\ UNCHANGED <<steps, signals, record, reported, polls>>
  BY DEF RP!SavePayload
<1>3. /\ manifest \in Manifests /\ P \in Seq(Payloads) /\ n \in Nat /\ DOMAIN P = 1 .. n /\ p \in Payloads
      /\ steps \in Pipelines /\ Len(steps) \in Nat
      /\ \A l, m \in 1 .. Len(steps) : steps[l].id = steps[m].id => l = m
  <2>1. manifest.step \in STRING
    BY DEF ReportInv, ReportType, Manifests
  <2> QED
    BY <2>1, PayloadsKnown, StepsKnown DEF ReportInv, ReportType, Payloads
<1>4. /\ Append(P, p) \in Seq(Payloads) /\ Len(Append(P, p)) = n + 1 /\ Append(P, p)[n + 1] = p
      /\ \A i \in 1 .. n : Append(P, p)[i] = P[i]
      /\ DOMAIN Append(P, p) = 1 .. n + 1
  BY <1>3, AppendProperties, LenProperties
<1>5. /\ manifest' \in Manifests /\ manifest'.payloads = Append(P, p)
      /\ manifest'.step = manifest.step /\ manifest'.status = manifest.status
      /\ manifest'.error = manifest.error
  BY <1>2, <1>3, <1>4 DEF Manifests
<1> DEFINE Q == manifest'.payloads
<1>6. /\ Len(Q) = n + 1 /\ Q[n + 1].step = steps[k].id /\ DOMAIN Q = 1 .. n + 1
      /\ \A i \in 1 .. n : Q[i] = P[i]
      /\ \A i \in 1 .. n + 1 : i \in 1 .. n \/ i = n + 1
  BY <1>1, <1>3, <1>4, <1>5
<1> HIDE DEF Q, P, p, n
<1>7. ReportType'
  BY <1>2, <1>5 DEF ReportInv, ReportType
<1>8. \A m \in 0 .. n : \A l : DoneWithin(m, l) => DoneWithin(m, l)'
  BY <1>2, <1>3, <1>6 DEF DoneWithin, P, Q
<1>9. \A l \in 1 .. k - 1 : DoneWithin(n, l)
  BY <1>1 DEF ReportInv, Reached, n, P
<1>10. InOrder'
  <2> SUFFICES ASSUME NEW i \in 1 .. n + 1
               PROVE  \E m \in 1 .. Len(steps) :
                        Q[i].step = steps[m].id /\ \A l \in 1 .. m - 1 : DoneWithin(i - 1, l)'
    BY <1>2, <1>6 DEF InOrder, Q
  <2>1. CASE i \in 1 .. n
    <3>1. PICK m \in 1 .. Len(steps) :
              P[i].step = steps[m].id /\ \A l \in 1 .. m - 1 : DoneWithin(i - 1, l)
      BY <2>1 DEF ReportInv, InOrder, n, P
    <3>2. i - 1 \in 0 .. n
      BY <1>3, <2>1
    <3> QED
      BY <1>6, <1>8, <2>1, <3>1, <3>2
  <2>2. CASE i = n + 1
    <3>1. i - 1 = n /\ n \in 0 .. n
      BY <1>3, <2>2
    <3> QED
      BY <1>6, <1>8, <1>9, <2>2, <3>1
  <2> QED
    BY <1>6, <2>1, <2>2
<1>11. Reached'
  <2> SUFFICES ASSUME NEW m \in 1 .. Len(steps), manifest.step = steps[m].id
               PROVE  /\ \A l \in 1 .. m - 1 : \E i \in 1 .. n + 1 : Q[i].step = steps[l].id
                      /\ \E i \in 1 .. n + 1 : Q[i].step = steps[m].id
    BY <1>2, <1>5, <1>6 DEF Reached, DoneWithin, Q
  <2>1. m = k
    BY <1>1, <1>3
  <2>2. n \in Nat
    BY <1>3
  <2>3. n + 1 \in 1 .. n + 1 /\ \A i \in 1 .. n : i \in 1 .. n + 1
    BY <2>2
  <2>4. \A l \in 1 .. k - 1 : \E i \in 1 .. n : P[i].step = steps[l].id
    BY <1>9 DEF DoneWithin, P
  <2> QED
    BY <1>6, <2>1, <2>3, <2>4
<1>12. HasFirst'
  <2> DEFINE F == RP!CompletedStepIds
  <2> DEFINE G == RP!CompletedStepIds'
  <2>1. /\ F = {i \in 1 .. n : \A j \in 1 .. i - 1 : P[j].step # P[i].step}
        /\ G = {i \in 1 .. n + 1 : \A j \in 1 .. i - 1 : Q[j].step # Q[i].step}
    BY <1>3, <1>6 DEF RP!CompletedStepIds, P, Q
  <2>2. F \subseteq G
    BY <1>3, <1>6, <2>1
  <2>3. F \subseteq 1 .. n
    BY <2>1
  <2>4. \A i \in 1 .. n : \E f \in F : f <= i /\ P[f].step = P[i].step
    BY DEF ReportInv, HasFirst, P, n
  <2> SUFFICES ASSUME NEW i \in 1 .. n + 1 PROVE \E f \in G : f <= i /\ Q[f].step = Q[i].step
    BY <1>6 DEF HasFirst, Q
  <2>5. CASE i \in 1 .. n
    BY <1>6, <2>2, <2>3, <2>4, <2>5
  <2>6. CASE i = n + 1 /\ \E j \in 1 .. n : P[j].step = Q[i].step
    <3>1. PICK j \in 1 .. n : P[j].step = Q[i].step
      BY <2>6
    <3>2. PICK f \in F : f <= j /\ P[f].step = P[j].step
      BY <2>4
    <3>3. f \in 1 .. n /\ f \in G /\ f <= i
      BY <1>3, <2>2, <2>3, <2>6, <3>2
    <3> QED
      BY <1>6, <3>1, <3>2, <3>3
  <2>7. CASE i = n + 1 /\ ~ \E j \in 1 .. n : P[j].step = Q[i].step
    <3>1. \A j \in 1 .. i - 1 : Q[j].step # Q[i].step
      BY <1>3, <1>6, <2>7
    <3>2. i \in G /\ i <= i
      BY <1>3, <2>1, <2>7, <3>1
    <3> QED
      BY <3>2
  <2> QED
    BY <1>6, <2>5, <2>6, <2>7
<1>13. ASSUME NEW stage, HasEnds(stage) PROVE HasEnds(stage)'
  <2> DEFINE E == RP!Executed(stage)
  <2>1. \A id : RP!StageOf(id)' = RP!StageOf(id)
    BY <1>2 DEF RP!StageOf, RP!Position
  <2>2. /\ E \subseteq 1 .. n
        /\ RP!Executed(stage)' = E \/ RP!Executed(stage)' = E \cup {n + 1}
    <3>1. /\ E = {i \in 1 .. n : RP!StageOf(P[i].step) = stage}
          /\ RP!Executed(stage)' = {i \in 1 .. n + 1 : RP!StageOf(Q[i].step) = stage}
      BY <1>3, <1>6, <2>1 DEF RP!Executed, P, Q
    <3> HIDE DEF E
    <3>2. CASE RP!StageOf(Q[n + 1].step) = stage
      BY <1>3, <1>6, <3>1, <3>2
    <3>3. CASE RP!StageOf(Q[n + 1].step) # stage
      BY <1>3, <1>6, <3>1, <3>3
    <3> QED
      BY <3>1, <3>2, <3>3
  <2>3. E # {} => /\ \E i \in E : \A j \in E : j <= i
                  /\ \E i \in E : \A j \in E : i <= j
    BY <1>13 DEF HasEnds
  <2> DEFINE G == RP!Executed(stage)'
  <2>4. SUFFICES G # {} => /\ \E i \in G : \A j \in G : j <= i
                           /\ \E i \in G : \A j \in G : i <= j
    BY DEF HasEnds
  <2> HIDE DEF E, G
  <2>5. CASE G = E
    BY <2>3, <2>5
  <2>6. CASE G = E \cup {n + 1}
    <3>1. \A j \in G : j <= n + 1
      BY <1>3, <2>2, <2>6
    <3>2. CASE E = {}
      BY <1>3, <2>6, <3>2
    <3>3. CASE E # {}
      <4>1. PICK i \in E : \A j \in E : i <= j
        BY <2>3, <3>3
      <4>2. \A j \in G : i <= j
        BY <1>3, <2>2, <2>6, <4>1
      <4> QED
        BY <2>6, <3>1, <4>1, <4>2
    <3> QED
      BY <3>2, <3>3
  <2> QED
    BY <2>2, <2>5, <2>6 DEF G
<1>14. HasEnds("publish")' /\ HasEnds("write")'
  BY <1>13 DEF ReportInv
<1>15. Standing' /\ Recorded'
  BY <1>2, <1>5 DEF ReportInv, Standing, Recorded
<1>16. Told'
  BY <1>2 DEF ReportInv, Told
<1> QED
  BY <1>7, <1>10, <1>11, <1>12, <1>14, <1>15, <1>16 DEF ReportInv

\* While no poll has taken the record away, what was reported last is how the
\* run stands once its signals are handled, but for a failure that a later
\* decision took back, and a step is given what the step before it made: for
\* every pipeline, and any number of executions, retries and late signals.
THEOREM ReportsAreTruthful == UnitsSpec => []ReportTruthful
<1> DEFINE Inv == focus = "report" => ReportInv
<1> USE UnitAssumption
<1>1. UnitsInit => Inv
  BY InitReport DEF UnitsInit, UnitAssumption
<1>2. Inv /\ [UnitsNext]_coreVars => Inv'
  <2> SUFFICES ASSUME Inv, [UnitsNext]_coreVars, focus' = "report"
               PROVE  ReportInv'
    OBVIOUS
  <2>1. focus = "report" /\ ReportInv /\ RP!ReportAssumption
    BY DEF UnitsNext, coreVars, UnitAssumption
  <2>2. CASE RP!Next
    <3>1. CASE RP!EnterStep
      <4>1. /\ phase = "queued" /\ phase' = "running" /\ UNCHANGED <<steps, signals, record, reported, polls>>
            /\ manifest' = [manifest EXCEPT !.status = IF @ = "RETRY" THEN "RUNNING" ELSE @]
        BY <3>1 DEF RP!EnterStep
      <4>2. CASE manifest.status = "RETRY"
        BY <2>1, <4>1, <4>2, WorkKeepsReport
      <4>3. CASE manifest.status # "RETRY"
        <5>1. manifest' = manifest
          BY <2>1, <4>1, <4>3 DEF ReportInv, ReportType, Manifests
        <5> QED
          BY <2>1, <4>1, <5>1, WorkKeepsReport
      <4> QED
        BY <4>2, <4>3
    <3>2. ASSUME NEW stage \in BOOLEAN, RP!RecordError(stage) PROVE ReportInv'
      BY <2>1, <3>2, WorkKeepsReport DEF RP!RecordError
    <3> QED
      BY <2>1, <2>2, <3>1, <3>2, SyncKeepsReport, PollKeepsReport, CompleteKeepsReport, SaveKeepsReport,
         StopKeepsReport DEF RP!Next
  <2>3. CASE UNCHANGED reportVars
    <3>1. UNCHANGED <<steps, manifest, phase, signals, record, reported, polls>>
      BY <2>3 DEF reportVars
    <3>2. ReportType' /\ Standing' /\ Recorded'
      BY <2>1, <3>1 DEF ReportInv, ReportType, Standing, Recorded
    <3>3. /\ InOrder' /\ HasFirst' /\ HasEnds("publish")' /\ HasEnds("write")'
          /\ \A n, k : DoneWithin(n, k)' = DoneWithin(n, k)
      BY <2>1, <3>1, PayloadsStay
    <3>4. Reached'
      BY <2>1, <3>1, <3>3 DEF ReportInv, Reached
    <3>5. Current' = Current
      BY <3>1, UpdateStays DEF Current, RP!Terminal
    <3>6. Told'
      BY <2>1, <3>1, <3>5 DEF ReportInv, Told
    <3> QED
      BY <3>2, <3>3, <3>4, <3>6 DEF ReportInv
  <2> QED
    BY <2>1, <2>2, <2>3 DEF UnitsNext, coreVars
<1>3. Inv => ReportTruthful
  <2> SUFFICES ASSUME ReportInv PROVE RP!ReportTruthful
    BY DEF ReportTruthful
  <2>1. PICK k \in 1 .. Len(steps) : manifest.step = steps[k].id
    BY DEF ReportInv, ReportType
  <2>2. RP!ReportAssumption /\ RP!Position(manifest.step) = k /\ Len(steps) \in Nat /\ DOMAIN steps = 1 .. Len(steps)
    BY <2>1, PositionKnown, StepsKnown DEF ReportInv, ReportType, UnitAssumption
  <2>3. RP!GetUpstreamStepId(manifest.step) = IF k = 1 THEN "none" ELSE RP!Ids[k - 1]
    <3>1. k # 1 => RP!Ids[k - 1] = steps[k - 1].id
      BY <2>2 DEF RP!Ids
    <3> QED
      BY <2>1, <2>2, <3>1, UpstreamKnown
  <2>4. ASSUME reported = RP!ParseUpdate
        PROVE  /\ reported.status = manifest.status /\ reported.index = k
               /\ (reported.remarks = "error") <=> (manifest.status \in {"BLOCKED", "FAILED"})
               /\ reported.end # 0 => reported.end = Len(manifest.payloads) /\ reported.status \in RP!Terminal
               /\ RP!RowsInTarget
    BY <2>1, <2>2, <2>4, UpdateKnown, RowsKnown
  <2>5. (signals = 0 /\ polls = 0 /\ reported.status # "none" /\ phase \in {"queued", "ended"}) => Current
    BY DEF ReportInv, Told
  <2>6. reported.status # "none" => reported.index \in 1 .. Len(steps)
    BY DEF ReportInv, Told
  <2> QED
    BY <2>2, <2>3, <2>4, <2>5, <2>6 DEF RP!ReportTruthful, Current
<1> QED
  BY <1>1, <1>2, <1>3, PTL DEF UnitsSpec
=============================================================================
