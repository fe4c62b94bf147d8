------------------------ MODULE ServiceBreakerProofs ------------------------
(***************************************************************************)
(* Proofs about ServiceBreaker, for any number of workers, any threshold   *)
(* and any number of failures and deaths: the types, the bound on when the *)
(* breaker opens, and that an open breaker fails fast.                     *)
(***************************************************************************)
EXTENDS ServiceBreaker, FiniteSetTheorems, TLAPS

BreakerType == [state : States, failures : Nat, last : BOOLEAN]

(***************************************************************************)
(* Types.                                                                  *)
(***************************************************************************)
\* What the call of a worker changes keeps its type.
LEMMA CallType ==
    ASSUME TypeOK, NEW w \in Workers, ReadState(w) \/ Call(w)
    PROVE  TypeOK'
<1>0. w \in Actors /\ w # Engine /\ Engine \in Actors /\ Workers \subseteq Actors
  BY BreakerAssumption DEF Actors
<1>1. breaker[w] \in BreakerType /\ read[w] \in Nat /\ Threshold \in Nat /\ MaxFailures \in Nat
  BY BreakerAssumption DEF TypeOK, BreakerType
<1> USE <1>0, <1>1 DEF TypeOK, Go, CallPoints, ResetPoints, States, BreakerType, cacheVars
<1>2. CASE ReadState(w)
  BY <1>2 DEF ReadState
<1>3. CASE ReadFailures(w)
  BY <1>3 DEF ReadFailures
<1>4. CASE ReadLast(w)
  BY <1>4 DEF ReadLast
<1>5. CASE Refuse(w)
  BY <1>5 DEF Refuse
<1>6. CASE Admit(w)
  BY <1>6 DEF Admit
<1>7. CASE succeed(w)
  BY <1>7 DEF succeed
<1>8. CASE Untracked(w)
  BY <1>8 DEF Untracked
<1>9. CASE fail(w)
  <2>0. BreakerFail(breaker[w]) \in BreakerType /\ BreakerFail(breaker[w]).state # "HALF_OPEN"
    BY DEF BreakerFail, Failed
  <2>1. breaker' \in [Workers -> BreakerType] /\ total' \in Nat
    BY <1>9, <2>0 DEF fail
  <2>2. breaker'[w].state # "HALF_OPEN" /\ \A v \in Workers : v # w => breaker'[v] = breaker[v]
    BY <1>9, <2>0 DEF fail
  <2>3. /\ pc' \in [Actors -> {"idle"} \cup CallPoints \cup ResetPoints]
        /\ pc'[Engine] = pc[Engine] /\ \A v \in Workers : v # w => pc'[v] = pc[v]
    BY <1>9 DEF fail
  <2> QED BY <1>9, <2>1, <2>2, <2>3 DEF fail
<1>10. CASE Debounced(w) \/ Undebounced(w) \/ TripCheck(w)
  BY <1>10 DEF Debounced, Undebounced, TripCheck
<1>11. CASE RecordRead(w)
  BY <1>11 DEF RecordRead
<1>12. CASE RecordReported(w) \/ RecordLast(w)
  BY <1>12 DEF RecordReported, RecordLast
<1>17. CASE RecordCount(w)
  BY <1>17 DEF RecordCount
<1>13. CASE Trip(w)
  BY <1>13 DEF Trip
<1>14. CASE NoTrip(w)
  BY <1>14 DEF NoTrip
<1>15. CASE SetState(w)
  BY <1>15 DEF SetState
<1>16. CASE Touch(w)
  BY <1>16 DEF Touch
<1> HIDE DEF TypeOK
<1> QED BY <1>2, <1>3, <1>4, <1>5, <1>6, <1>7, <1>8, <1>9, <1>10, <1>11, <1>12, <1>13,
           <1>14, <1>15, <1>16, <1>17 DEF Call

\* So does a reset, by a worker or by the engine.
LEMMA ResetType ==
    ASSUME TypeOK, NEW a \in Actors, Reset(a)
    PROVE  TypeOK'
<1>0. Engine \in Actors /\ Workers \subseteq Actors
  BY DEF Actors
<1> USE <1>0 DEF TypeOK, Go, CallPoints, ResetPoints, cacheVars
<1>1. CASE ResetFailures(a)
  BY <1>1 DEF ResetFailures
<1>2. CASE ResetLast(a)
  BY <1>2 DEF ResetLast
<1>3. CASE ResetReported(a)
  BY <1>3 DEF ResetReported
<1>4. CASE Close(a)
  BY <1>4 DEF Close
<1>5. CASE Unlink(a)
  BY <1>5 DEF Unlink, cacheVars
<1> HIDE DEF TypeOK
<1> QED BY <1>1, <1>2, <1>3, <1>4, <1>5 DEF Reset

\* And the engine's probe and the world.
LEMMA WorldType ==
    ASSUME TypeOK, Probe \/ World
    PROVE  TypeOK'
<1>0. Engine \in Actors /\ Engine \notin Workers /\ Workers \subseteq Actors
  BY BreakerAssumption DEF Actors
<1> USE <1>0 DEF TypeOK, Go, CallPoints, ResetPoints, States, cacheVars
<1>1. CASE Probe
  BY <1>1 DEF Probe
<1>2. CASE ScanRemovesOutage \/ Flap \/ WindowPasses \/ TimeoutPasses \/ Expire
  BY <1>2 DEF ScanRemovesOutage, Flap, WindowPasses, TimeoutPasses, Expire
<1>3. ASSUME NEW w \in Workers, Die(w) PROVE TypeOK'
  BY <1>3 DEF Die, NewBreaker
<1> HIDE DEF TypeOK
<1> QED BY <1>1, <1>2, <1>3 DEF World

\* The cache starts empty, and every process idle.
LEMMA InitBreakerType ==
    ASSUME Init
    PROVE  TypeOK
<1>1. Engine \in Actors
  BY DEF Actors
<1>2. NewBreaker \in [state : States, failures : Nat, last : BOOLEAN]
      /\ NewBreaker.state = "CLOSED"
  BY DEF NewBreaker, States
<1>3. pc \in [Actors -> {"idle"} \cup CallPoints \cup ResetPoints] /\ pc[Engine] \notin CallPoints
  BY <1>1 DEF Init, CallPoints
<1>4. breaker \in [Workers -> [state : States, failures : Nat, last : BOOLEAN]]
      /\ \A w \in Workers : breaker[w].state # "HALF_OPEN"
  BY <1>2 DEF Init
<1> QED BY <1>3, <1>4 DEF Init, TypeOK

\* Every variable keeps its type; the shared state is never HALF_OPEN.
THEOREM BreakerTypeCorrect == Spec => []TypeOK
<1>1. Init => TypeOK
  BY InitBreakerType
<1>2. TypeOK /\ [Next]_vars => TypeOK'
  <2> SUFFICES ASSUME TypeOK, [Next]_vars PROVE TypeOK'
    OBVIOUS
  <2>1. CASE Next
    BY <2>1, CallType, ResetType, WorldType DEF Next
  <2>2. CASE UNCHANGED vars
    BY <2>2 DEF vars, TypeOK
  <2> QED BY <2>1, <2>2
<1> QED BY <1>1, <1>2, PTL DEF Spec

(***************************************************************************)
(* When the breaker opens.  Every increment of the shared counter belongs  *)
(* to one failed call: a call that has failed and not written the counter  *)
(* yet is Pending, and the counter together with the pending calls is      *)
(* within the failed calls, however the reads and writes interleave.       *)
(***************************************************************************)
PendingPoints == {"record", "read", "count"}
Pending == {w \in Workers : pc[w] \in PendingPoints}

CountBound == failures + Cardinality(Pending) =< total

\* What each process remembers is within the bound too.
ReadBound ==
    \A w \in Workers :
        /\ pc[w] = "count" => read[w] + Cardinality(Pending) =< total
        /\ pc[w] \in {"report", "stamp", "check_trip", "trip"} => read[w] + 1 =< total

OpenBound ==
    /\ OpensOnlyAfterThreshold
    /\ \A w \in Workers :
          /\ breaker[w].failures =< total
          /\ breaker[w].state # "CLOSED" => total >= Threshold
          /\ pc[w] = "trip" => total >= Threshold

OpenInv == TypeOK /\ CountBound /\ ReadBound /\ OpenBound

\* The number of pending calls, before and after a step of one actor.
LEMMA PendingFinite == IsFiniteSet(Pending) /\ Cardinality(Pending) \in Nat
  BY BreakerAssumption, FS_Subset, FS_CardinalityType DEF Pending

LEMMA PendingKept ==
    ASSUME \A w \in Workers : pc'[w] \in PendingPoints <=> pc[w] \in PendingPoints
    PROVE  Pending' = Pending
  BY DEF Pending

LEMMA PendingJoined ==
    ASSUME NEW w \in Workers, pc[w] \notin PendingPoints, pc'[w] \in PendingPoints,
           \A v \in Workers : v # w => pc'[v] = pc[v]
    PROVE  Cardinality(Pending') = Cardinality(Pending) + 1
<1>1. Pending' = Pending \cup {w} /\ w \notin Pending
  BY DEF Pending
<1> QED BY <1>1, PendingFinite, FS_AddElement

LEMMA PendingLeft ==
    ASSUME NEW w \in Workers, pc[w] \in PendingPoints, pc'[w] \notin PendingPoints,
           \A v \in Workers : v # w => pc'[v] = pc[v]
    PROVE  Cardinality(Pending') = Cardinality(Pending) - 1
<1>1. Pending' = Pending \ {w} /\ w \in Pending
  BY DEF Pending
<1> QED BY <1>1, PendingFinite, FS_RemoveElement

(***************************************************************************)
(* Most steps are calm: they count nothing and read no counter.            *)
(***************************************************************************)
RecordedPoints == {"report", "stamp", "check_trip", "trip"}

Calm ==
    /\ total' = total /\ failures' \in {failures, 0}
    /\ \A v \in Workers :
          /\ pc'[v] \in PendingPoints <=> pc[v] \in PendingPoints
          /\ pc'[v] = "count" => pc[v] = "count" /\ read'[v] = read[v]
          /\ pc'[v] \in RecordedPoints => pc[v] \in RecordedPoints /\ read'[v] = read[v]

LEMMA CalmBound ==
    ASSUME OpenInv, Calm
    PROVE  CountBound' /\ ReadBound'
<1>1. Pending' = Pending
  BY PendingKept DEF Calm
<1>2. Cardinality(Pending) \in Nat /\ total \in Nat /\ failures \in Nat
  BY PendingFinite DEF OpenInv, TypeOK
<1> QED BY <1>1, <1>2 DEF Calm, OpenInv, CountBound, ReadBound, RecordedPoints

\* A call that gives up its place in Pending leaves the bound as it was.
LEMMA LeaveBound ==
    ASSUME OpenInv, total' = total, failures' = failures,
           NEW w \in Workers, pc[w] \in PendingPoints, pc'[w] \notin PendingPoints \cup RecordedPoints,
           \A v \in Workers : v # w => pc'[v] = pc[v] /\ read'[v] = read[v]
    PROVE  CountBound' /\ ReadBound'
<1>1. Cardinality(Pending') = Cardinality(Pending) - 1
  BY PendingLeft
<1>2. /\ Cardinality(Pending) \in Nat /\ total \in Nat /\ failures \in Nat
      /\ \A v \in Workers : read[v] \in Nat
  BY PendingFinite DEF OpenInv, TypeOK
<1> QED BY <1>1, <1>2 DEF OpenInv, CountBound, ReadBound, RecordedPoints, PendingPoints

\* The head of a call and the calm steps of record_failure and set_state.
LEMMA CallCalm ==
    ASSUME TypeOK, NEW w \in Workers,
           \/ ReadState(w) \/ ReadFailures(w) \/ ReadLast(w) \/ Refuse(w) \/ Admit(w)
           \/ succeed(w) \/ Untracked(w) \/ Undebounced(w) \/ RecordReported(w)
           \/ RecordLast(w) \/ TripCheck(w) \/ Trip(w) \/ NoTrip(w) \/ SetState(w) \/ Touch(w)
    PROVE  Calm
<1>0. w \in Actors /\ Workers \subseteq Actors /\ pc \in [Actors -> {"idle"} \cup CallPoints \cup ResetPoints]
      /\ read \in [Workers -> Nat]
  BY DEF Actors, TypeOK
<1> USE <1>0 DEF Calm, Go, PendingPoints, RecordedPoints, cacheVars
<1>1. CASE ReadState(w) \/ ReadFailures(w) \/ ReadLast(w)
  BY <1>1 DEF ReadState, ReadFailures, ReadLast
<1>2. CASE Refuse(w) \/ Admit(w)
  BY <1>2 DEF Refuse, Admit
<1>3. CASE succeed(w) \/ Untracked(w) \/ Undebounced(w)
  BY <1>3 DEF succeed, Untracked, Undebounced
<1>4. CASE RecordReported(w) \/ RecordLast(w) \/ TripCheck(w)
  BY <1>4 DEF RecordReported, RecordLast, TripCheck
<1>5. CASE Trip(w) \/ NoTrip(w)
  BY <1>5 DEF Trip, NoTrip
<1>6. CASE SetState(w) \/ Touch(w)
  BY <1>6 DEF SetState, Touch
<1> QED BY <1>1, <1>2, <1>3, <1>4, <1>5, <1>6

LEMMA ResetCalm ==
    ASSUME TypeOK, NEW a \in Actors, Reset(a) \/ (a = Engine /\ Probe)
    PROVE  Calm /\ breaker' = breaker /\ (state' = state \/ state' = "CLOSED")
           /\ \A v \in Workers : pc'[v] = "trip" => pc[v] = "trip"
<1>0. Workers \subseteq Actors /\ pc \in [Actors -> {"idle"} \cup CallPoints \cup ResetPoints]
  BY DEF Actors, TypeOK
<1> USE <1>0 DEF Calm, Go, PendingPoints, RecordedPoints, cacheVars
<1>1. CASE ResetFailures(a)
  BY <1>1 DEF ResetFailures
<1>2. CASE ResetLast(a) \/ ResetReported(a)
  BY <1>2 DEF ResetLast, ResetReported
<1>3. CASE Close(a) \/ Unlink(a)
  BY <1>3 DEF Close, Unlink
<1>4. CASE a = Engine /\ Probe
  BY <1>4 DEF Probe
<1> HIDE DEF Calm
<1> QED BY <1>1, <1>2, <1>3, <1>4 DEF Reset

\* The steps of a call keep the bound: an increment is paid for by a failed
\* call that leaves Pending, and an opened breaker by a count it has seen.
LEMMA CallBound ==
    ASSUME OpenInv, NEW w \in Workers, ReadState(w) \/ Call(w)
    PROVE  CountBound' /\ ReadBound'
<1>0. w \in Actors /\ Workers \subseteq Actors /\ pc \in [Actors -> {"idle"} \cup CallPoints \cup ResetPoints]
      /\ read \in [Workers -> Nat]
  BY DEF Actors, TypeOK, OpenInv
<1>1. /\ Cardinality(Pending) \in Nat /\ total \in Nat /\ failures \in Nat
      /\ \A v \in Workers : read[v] \in Nat
  BY PendingFinite DEF OpenInv, TypeOK
<1>2. CASE fail(w)
  <2>1. /\ pc[w] = "call" /\ pc'[w] = "record" /\ \A v \in Workers : v # w => pc'[v] = pc[v]
        /\ total' = total + 1 /\ failures' = failures /\ read' = read
    BY <1>0, <1>2 DEF fail, Go, cacheVars
  <2>2. Cardinality(Pending') = Cardinality(Pending) + 1
    BY <2>1, PendingJoined DEF PendingPoints
  <2> QED BY <1>1, <2>1, <2>2 DEF OpenInv, CountBound, ReadBound
<1>3. CASE Debounced(w)
  <2>1. /\ pc[w] = "record" /\ pc'[w] = "set_state" /\ \A v \in Workers : v # w => pc'[v] = pc[v]
        /\ total' = total /\ failures' = failures /\ read' = read
    BY <1>0, <1>3 DEF Debounced, Go, cacheVars
  <2> QED BY <2>1, LeaveBound DEF PendingPoints, RecordedPoints
<1>4. CASE RecordRead(w)
  <2>1. /\ pc[w] = "read" /\ pc'[w] = "count" /\ \A v \in Workers : v # w => pc'[v] = pc[v]
        /\ total' = total /\ failures' = failures /\ read'[w] = failures
        /\ \A v \in Workers : v # w => read'[v] = read[v]
    BY <1>0, <1>4 DEF RecordRead, Go, cacheVars
  <2>2. Pending' = Pending
    BY <2>1, PendingKept DEF PendingPoints
  <2> QED BY <1>1, <2>1, <2>2 DEF OpenInv, CountBound, ReadBound
<1>5. CASE RecordCount(w)
  <2>1. /\ pc[w] = "count" /\ pc'[w] = "report" /\ \A v \in Workers : v # w => pc'[v] = pc[v]
        /\ total' = total /\ failures' = read[w] + 1 /\ read' = read
    BY <1>0, <1>5 DEF RecordCount, Go
  <2>2. Cardinality(Pending') = Cardinality(Pending) - 1
    BY <2>1, PendingLeft DEF PendingPoints
  <2>3. Cardinality(Pending) # 0
    BY <2>1, PendingFinite, FS_EmptySet DEF Pending, PendingPoints
  <2> QED BY <1>1, <2>1, <2>2, <2>3 DEF OpenInv, CountBound, ReadBound
<1>6. CASE Calm
  BY <1>6, CalmBound
<1> QED BY <1>2, <1>3, <1>4, <1>5, <1>6, CallCalm DEF Call, OpenInv

\* A process that believes the breaker open, and one about to open it, has
\* seen the threshold reached.
LEMMA CallOpen ==
    ASSUME OpenInv, NEW w \in Workers, ReadState(w) \/ Call(w)
    PROVE  OpenBound'
<1>0. w \in Actors /\ Workers \subseteq Actors /\ Threshold \in Nat
      /\ pc \in [Actors -> {"idle"} \cup CallPoints \cup ResetPoints]
  BY BreakerAssumption DEF Actors, TypeOK, OpenInv
<1>1. /\ Cardinality(Pending) \in Nat /\ total \in Nat /\ failures \in Nat
      /\ \A v \in Workers : read[v] \in Nat /\ breaker[v].failures \in Nat
      /\ breaker \in [Workers -> BreakerType] /\ state \in {"CLOSED", "OPEN"}
  BY PendingFinite DEF OpenInv, TypeOK, BreakerType
<1>2. OpenBound /\ failures =< total /\ (pc[w] = "check_trip" => read[w] + 1 =< total)
  BY <1>1 DEF OpenInv, CountBound, ReadBound
<1>3. ASSUME total' = total, pc'[w] # "trip", \A v \in Workers : v # w => pc'[v] = pc[v],
             state' = state \/ state' = breaker[w].state \/ pc[w] = "trip",
             \A v \in Workers : v # w => breaker'[v] = breaker[v],
             breaker'[w].failures =< total,
             breaker'[w].state # "CLOSED" => total >= Threshold
      PROVE  OpenBound'
  BY <1>1, <1>2, <1>3 DEF OpenBound, OpensOnlyAfterThreshold
<1>4. CASE fail(w)
  <2>1. /\ pc'[w] = "record" /\ \A v \in Workers : v # w => pc'[v] = pc[v]
        /\ total' = total + 1 /\ state' = state
        /\ breaker'[w] = BreakerFail(breaker[w])
        /\ \A v \in Workers : v # w => breaker'[v] = breaker[v]
    BY <1>0, <1>1, <1>4 DEF fail, Go, cacheVars
  <2>2. /\ BreakerFail(breaker[w]).failures = breaker[w].failures + 1
        /\ BreakerFail(breaker[w]).state # "CLOSED" =>
              breaker[w].state # "CLOSED" \/ breaker[w].failures + 1 >= Threshold
    BY DEF BreakerFail, Failed
  <2> QED BY <1>0, <1>1, <1>2, <2>1, <2>2 DEF OpenBound, OpensOnlyAfterThreshold
<1>5. CASE TripCheck(w)
  <2>1. /\ pc[w] = "check_trip" /\ read[w] + 1 >= Threshold
        /\ \A v \in Workers : v # w => pc'[v] = pc[v]
        /\ total' = total /\ state' = state /\ breaker' = breaker
    BY <1>0, <1>5 DEF TripCheck, Go, cacheVars
  <2> QED BY <1>0, <1>1, <1>2, <2>1 DEF OpenBound, OpensOnlyAfterThreshold
<1> USE <1>0, <1>1, <1>2, <1>3 DEF OpenBound, OpensOnlyAfterThreshold, Go, cacheVars, BreakerType
<1>6. CASE ReadState(w)
  BY <1>6 DEF ReadState
<1>7. CASE ReadFailures(w)
  BY <1>7 DEF ReadFailures
<1>8. CASE ReadLast(w)
  BY <1>8 DEF ReadLast
<1>9. CASE Refuse(w) \/ Untracked(w)
  BY <1>9 DEF Refuse, Untracked
<1>10. CASE Admit(w)
  BY <1>10 DEF Admit
<1>11. CASE succeed(w)
  BY <1>11 DEF succeed
<1>12. CASE Debounced(w) \/ Undebounced(w)
  BY <1>12 DEF Debounced, Undebounced
<1>13. CASE RecordRead(w) \/ RecordCount(w)
  BY <1>13 DEF RecordRead, RecordCount
<1>14. CASE RecordReported(w) \/ RecordLast(w)
  BY <1>14 DEF RecordReported, RecordLast
<1>15. CASE Trip(w)
  BY <1>15 DEF Trip
<1>16. CASE NoTrip(w)
  BY <1>16 DEF NoTrip
<1>17. CASE SetState(w) \/ Touch(w)
  BY <1>17 DEF SetState, Touch
<1> HIDE DEF OpenBound
<1> QED BY <1>4, <1>5, <1>6, <1>7, <1>8, <1>9, <1>10, <1>11, <1>12, <1>13, <1>14, <1>15,
           <1>16, <1>17 DEF Call

\* A reset, a probe, the world and a death only take away.
LEMMA OtherOpen ==
    ASSUME OpenInv, NEW a \in Actors, Reset(a) \/ Probe \/ World
    PROVE  CountBound' /\ ReadBound' /\ OpenBound'
<1>0. Workers \subseteq Actors /\ Engine \in Actors /\ TypeOK /\ OpenBound
      /\ pc \in [Actors -> {"idle"} \cup CallPoints \cup ResetPoints]
      /\ read \in [Workers -> Nat] /\ breaker \in [Workers -> BreakerType] /\ total \in Nat
  BY DEF Actors, TypeOK, OpenInv, BreakerType
<1>1. ASSUME Calm, breaker' = breaker, state' = state \/ state' = "CLOSED",
             \A v \in Workers : pc'[v] = "trip" => pc[v] = "trip"
      PROVE  CountBound' /\ ReadBound' /\ OpenBound'
  <2>1. CountBound' /\ ReadBound'
    BY <1>1, CalmBound
  <2>2. OpenBound'
    BY <1>0, <1>1 DEF Calm, OpenBound, OpensOnlyAfterThreshold
  <2> QED BY <2>1, <2>2
<1>2. CASE Reset(a) \/ Probe
  BY <1>0, <1>1, <1>2, ResetCalm
<1>3. CASE ScanRemovesOutage \/ Flap \/ WindowPasses \/ TimeoutPasses \/ Expire
  <2>1. Calm /\ breaker' = breaker /\ (state' = state \/ state' = "CLOSED") /\ pc' = pc
    BY <1>3 DEF ScanRemovesOutage, Flap, WindowPasses, TimeoutPasses, Expire, Calm, cacheVars
  <2> QED BY <1>1, <2>1
<1>4. ASSUME NEW w \in Workers, Die(w) PROVE CountBound' /\ ReadBound' /\ OpenBound'
  <2>1. /\ pc'[w] = "idle" /\ \A v \in Workers : v # w => pc'[v] = pc[v]
        /\ total' = total /\ failures' = failures /\ state' = state
        /\ breaker'[w] = NewBreaker
        /\ \A v \in Workers : v # w => breaker'[v] = breaker[v] /\ read'[v] = read[v]
    BY <1>0, <1>4 DEF Die, cacheVars
  <2>2. CountBound' /\ ReadBound'
    <3>1. CASE pc[w] \in PendingPoints
      BY <2>1, <3>1, LeaveBound DEF PendingPoints, RecordedPoints
    <3>2. CASE pc[w] \notin PendingPoints
      <4>1. Calm
        BY <2>1, <3>2 DEF Calm, PendingPoints, RecordedPoints
      <4> QED BY <4>1, CalmBound
    <3> QED BY <3>1, <3>2
  <2>3. OpenBound'
    BY <1>0, <2>1 DEF OpenBound, OpensOnlyAfterThreshold, NewBreaker
  <2> QED BY <2>2, <2>3
<1> QED BY <1>2, <1>3, <1>4 DEF World

\* The breaker is never open before Threshold calls have failed, for any
\* number of workers: a lost, repeated or stale update of the shared
\* counters never makes it open early.
THEOREM NeverOpensEarly == Spec => []OpensOnlyAfterThreshold
<1>1. Init => OpenInv
  <2> SUFFICES ASSUME Init PROVE OpenInv
    OBVIOUS
  <2>1. TypeOK
    BY InitBreakerType
  <2>2. Pending = {}
    BY DEF Init, Pending, PendingPoints, Actors
  <2>3. CountBound
    BY <2>2, FS_EmptySet DEF Init, CountBound
  <2>4. ReadBound /\ OpenBound
    BY DEF Init, ReadBound, OpenBound, OpensOnlyAfterThreshold, NewBreaker, Actors
  <2> QED BY <2>1, <2>3, <2>4 DEF OpenInv
<1>2. OpenInv /\ TypeOK' /\ [Next]_vars => OpenInv'
  <2> SUFFICES ASSUME OpenInv, TypeOK', [Next]_vars PROVE CountBound' /\ ReadBound' /\ OpenBound'
    BY DEF OpenInv
  <2>1. CASE UNCHANGED vars
    BY <2>1 DEF vars, OpenInv, CountBound, ReadBound, OpenBound, OpensOnlyAfterThreshold, Pending
  <2>2. Engine \in Actors
    BY DEF Actors
  <2> QED BY <2>1, <2>2, CallBound, CallOpen, OtherOpen DEF Next
<1>3. OpenInv => OpensOnlyAfterThreshold
  BY DEF OpenInv, OpenBound
<1> QED BY <1>1, <1>2, <1>3, BreakerTypeCorrect, PTL DEF Spec

(***************************************************************************)
(* Failing fast.                                                           *)
(***************************************************************************)
\* Once the breaker has tripped and the calls under way have seen it, no
\* call reaches the service until the timeout has been waited out, a probe
\* resets the breaker or its entry expires: for any number of workers, and
\* whatever dies.
THEOREM AlwaysFailsFast == Spec => FailFast
<1>1. TypeOK /\ [Next]_vars => [Tripped /\ ~Tripped' =>
                                    waited \/ pc[Engine] \in ResetPoints \/ (ttl /\ pc' = pc)]_vars
  <2> SUFFICES ASSUME TypeOK, Next, Tripped, pc[Engine] \notin ResetPoints, ~(ttl /\ pc' = pc)
               PROVE  Tripped'
    OBVIOUS
  <2>0. Workers \subseteq Actors /\ Engine \in Actors /\ Engine \notin Workers
        /\ Actors = Workers \cup {Engine}
        /\ pc \in [Actors -> {"idle"} \cup CallPoints \cup ResetPoints]
        /\ breaker \in [Workers -> BreakerType]
    BY BreakerAssumption DEF Actors, TypeOK, BreakerType
  <2> USE <2>0 DEF Tripped, Go, cacheVars, BreakerType
  <2>1. ASSUME NEW w \in Workers, ReadState(w) PROVE Tripped'
    BY <2>1 DEF ReadState
  <2>2. ASSUME NEW w \in Workers, ReadFailures(w) PROVE Tripped'
    BY <2>2 DEF ReadFailures
  <2>3. ASSUME NEW w \in Workers, ReadLast(w) PROVE Tripped'
    BY <2>3 DEF ReadLast
  <2>4. ASSUME NEW w \in Workers, Refuse(w) PROVE Tripped'
    BY <2>4 DEF Refuse
  <2>5. ASSUME NEW w \in Workers, Call(w)
        PROVE  ReadFailures(w) \/ ReadLast(w) \/ Refuse(w)
    BY <2>5 DEF Call, Admit, succeed, Untracked, fail, Debounced, Undebounced, RecordRead,
       RecordCount, RecordReported, RecordLast, TripCheck, Trip, NoTrip, SetState, Touch
  <2>6. ASSUME NEW a \in Actors, Reset(a) PROVE FALSE
    BY <2>6 DEF Reset, ResetFailures, ResetLast, ResetReported, Close, Unlink, ResetPoints
  <2>7. CASE Probe
    BY <2>7 DEF Probe
  <2>8. CASE ScanRemovesOutage \/ Flap \/ WindowPasses \/ TimeoutPasses \/ Expire
    BY <2>8 DEF ScanRemovesOutage, Flap, WindowPasses, TimeoutPasses, Expire
  <2>9. ASSUME NEW w \in Workers, Die(w) PROVE Tripped'
    BY <2>9 DEF Die
  <2> HIDE DEF Tripped
  <2> QED BY <2>1, <2>2, <2>3, <2>4, <2>5, <2>6, <2>7, <2>8, <2>9 DEF Next, World
<1> QED BY <1>1, BreakerTypeCorrect, PTL DEF Spec, FailFast
=============================================================================
