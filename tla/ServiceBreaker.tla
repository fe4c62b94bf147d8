--------------------------- MODULE ServiceBreaker ---------------------------
(***************************************************************************)
(* The circuit breaker of one external service.  Its state is a handful of *)
(* keys in a cache that all Ray workers and the engine share; the monitor  *)
(* decorator loads them into the breaker object of its process, calls the  *)
(* service, and writes them back key by key.  No lock covers the sequence, *)
(* and a worker may be killed anywhere in it.                              *)
(*                                                                         *)
(* Sources: services/health/monitor.py, libs/resilience/circuit_breaker.py *)
(* and, for what a call and a probe do, services/{database,file}.py.       *)
(***************************************************************************)
EXTENDS Naturals, FiniteSets

CONSTANTS
    Workers,      \* processes that call the service
    Engine,       \* the engine thread, which probes it
    Threshold,    \* failure_threshold, 3 in the services and in record_failure
    Lazy,         \* a database: calls and probes return a generator unevaluated
    Probed,       \* a queued run is blocked by the service
    MaxFailures,  \* bound: failing calls
    MaxDeaths     \* bound: workers killed

Actors == Workers \cup {Engine}

ASSUME BreakerAssumption ==
    /\ Engine \notin Workers /\ IsFiniteSet(Workers)
    /\ Threshold \in Nat \ {0}
    /\ Lazy \in BOOLEAN /\ Probed \in BOOLEAN
    /\ MaxFailures \in Nat /\ MaxDeaths \in Nat

VARIABLES
    up,           \* the service answers
    state,        \* key svc:state; a missing key reads as CLOSED
    failures,     \* key svc:failures
    lastFailure,  \* key svc:last_failure is present
    reported,     \* key svc:last_reported is present and less than 5 s old
    ttl,          \* svc:state was written with an expiry
    waited,       \* timeout_secs have gone by since last_failure was written
    outage,       \* the .outage file
    pc,           \* next step of each actor
    breaker,      \* CircuitBreaker object of each worker
    read,         \* the failure count record_failure has read
    total,        \* history: calls that failed
    deaths        \* workers killed

cacheVars == <<state, failures, lastFailure, reported, ttl, waited>>
vars == <<up, state, failures, lastFailure, reported, ttl, waited, outage, pc,
          breaker, read, total, deaths>>

NewBreaker == [state |-> "CLOSED", failures |-> 0, last |-> FALSE]

Init ==
    /\ up = TRUE /\ state = "CLOSED" /\ failures = 0 /\ lastFailure = FALSE
    /\ reported = FALSE /\ ttl = FALSE /\ waited = FALSE /\ outage = FALSE
    /\ pc = [a \in Actors |-> "idle"]
    /\ breaker = [w \in Workers |-> NewBreaker]
    /\ read = [w \in Workers |-> 0]
    /\ total = 0 /\ deaths = 0

\* The actor goes on from one program point to another.
Go(a, from, to) == pc[a] = from /\ pc' = [pc EXCEPT ![a] = to]

(***************************************************************************)
(* The head of the decorator: three reads, then check_before_call.         *)
(***************************************************************************)
ReadState(w) ==
    /\ Go(w, "idle", "failures")
    /\ breaker' = [breaker EXCEPT ![w].state = state]
    /\ UNCHANGED <<up, cacheVars, outage, read, total, deaths>>

ReadFailures(w) ==
    /\ Go(w, "failures", "last")
    /\ breaker' = [breaker EXCEPT ![w].failures = failures]
    /\ UNCHANGED <<up, cacheVars, outage, read, total, deaths>>

\* Defect: the time of the failure stays in the cache.
ReadLastForgotten(w) ==
    /\ Go(w, "last", "check")
    /\ UNCHANGED <<up, cacheVars, outage, breaker, read, total, deaths>>

ReadLast(w) ==
    /\ Go(w, "last", "check")
    /\ breaker' = [breaker EXCEPT ![w].last = lastFailure]
    /\ UNCHANGED <<up, cacheVars, outage, read, total, deaths>>

\* The age of the failure is monotonic() minus the epoch time of the cache:
\* negative, so a breaker that is open with a last_failure refuses, also when
\* the timeout has been waited out.  Without one the age is the uptime of the
\* host, which may be below the timeout.
Refuse(w) ==
    /\ breaker[w].state = "OPEN"
    /\ Go(w, "check", "idle")
    /\ UNCHANGED <<up, cacheVars, outage, breaker, read, total, deaths>>

Admit(w) ==
    /\ breaker[w].state = "OPEN" => ~ breaker[w].last
    /\ Go(w, "check", "call")
    /\ breaker' = [breaker EXCEPT ![w].state = IF @ = "OPEN" THEN "HALF_OPEN" ELSE @]
    /\ UNCHANGED <<up, cacheVars, outage, read, total, deaths>>

(***************************************************************************)
(* The call.  A generator that has not been iterated counts as a success.  *)
(* An exception the breaker does not track changes nothing.                *)
(***************************************************************************)
succeed(w) ==
    /\ up \/ Lazy
    /\ Go(w, "call", "reset_failures")
    /\ breaker' = [breaker EXCEPT ![w].state = "CLOSED", ![w].failures = 0]
    /\ UNCHANGED <<up, cacheVars, outage, read, total, deaths>>

Untracked(w) ==
    /\ Go(w, "call", "idle")
    /\ UNCHANGED <<up, cacheVars, outage, breaker, read, total, deaths>>

\* CircuitBreaker.fail on the breaker b, when the limit is reached (opens) or not
Failed(b, opens) ==
    [state |-> IF opens THEN "OPEN" ELSE b.state,
     failures |-> b.failures + 1,
     last |-> b.last \/ opens]

\* Defect: the limit is compared with the count before the failure plus two.
BreakerFailEarly(b) == Failed(b, b.state = "HALF_OPEN" \/ b.failures + 2 >= Threshold)

BreakerFail(b) == Failed(b, b.state = "HALF_OPEN" \/ b.failures + 1 >= Threshold)

fail(w) ==
    /\ ~up /\ total < MaxFailures
    /\ Go(w, "call", "record")
    /\ breaker' = [breaker EXCEPT ![w] = BreakerFail(breaker[w])]
    /\ total' = total + 1
    /\ UNCHANGED <<up, cacheVars, outage, read, deaths>>

(***************************************************************************)
(* ServiceMonitor.record_failure, then set_state with the breaker's state. *)
(***************************************************************************)
\* A failure reported less than 5 s after another is not counted.
Debounced(w) ==
    /\ reported
    /\ Go(w, "record", "set_state")
    /\ UNCHANGED <<up, cacheVars, outage, breaker, read, total, deaths>>

Undebounced(w) ==
    /\ ~ reported
    /\ Go(w, "record", "read")
    /\ UNCHANGED <<up, cacheVars, outage, breaker, read, total, deaths>>

RecordRead(w) ==
    /\ Go(w, "read", "count")
    /\ read' = [read EXCEPT ![w] = failures]
    /\ UNCHANGED <<up, cacheVars, outage, breaker, total, deaths>>

RecordCount(w) ==
    /\ Go(w, "count", "report")
    /\ failures' = read[w] + 1
    /\ UNCHANGED <<up, state, lastFailure, reported, ttl, waited, outage, breaker, read, total, deaths>>

RecordReported(w) ==
    /\ Go(w, "report", "stamp")
    /\ reported' = TRUE
    /\ UNCHANGED <<up, state, failures, lastFailure, ttl, waited, outage, breaker, read, total, deaths>>

RecordLast(w) ==
    /\ Go(w, "stamp", "check_trip")
    /\ lastFailure' = TRUE /\ waited' = FALSE
    /\ UNCHANGED <<up, state, failures, reported, ttl, outage, breaker, read, total, deaths>>

TripCheck(w) ==
    /\ read[w] + 1 >= Threshold /\ state # "OPEN"
    /\ Go(w, "check_trip", "trip")
    /\ UNCHANGED <<up, cacheVars, outage, breaker, read, total, deaths>>

Trip(w) ==
    /\ Go(w, "trip", "set_state")
    /\ state' = "OPEN" /\ ttl' = TRUE
    /\ read' = [read EXCEPT ![w] = 0]
    /\ UNCHANGED <<up, failures, lastFailure, reported, waited, outage, breaker, total, deaths>>

NoTrip(w) ==
    /\ read[w] + 1 < Threshold \/ state = "OPEN"
    /\ Go(w, "check_trip", "set_state")
    /\ read' = [read EXCEPT ![w] = 0]
    /\ UNCHANGED <<up, cacheVars, outage, breaker, total, deaths>>

SetState(w) ==
    /\ Go(w, "set_state", "touch")
    /\ state' = breaker[w].state /\ ttl' = FALSE
    /\ UNCHANGED <<up, failures, lastFailure, reported, waited, outage, breaker, read, total, deaths>>

Touch(w) ==
    /\ Go(w, "touch", "idle")
    /\ outage' = (breaker[w].state = "OPEN")
    /\ UNCHANGED <<up, cacheVars, breaker, read, total, deaths>>

(***************************************************************************)
(* ServiceMonitor.reset, after a successful call or probe.                 *)
(***************************************************************************)
ResetFailures(a) ==
    /\ Go(a, "reset_failures", "reset_last") /\ failures' = 0
    /\ UNCHANGED <<up, state, lastFailure, reported, ttl, waited, outage, breaker, read, total, deaths>>

ResetLast(a) ==
    /\ Go(a, "reset_last", "reset_reported") /\ lastFailure' = FALSE /\ waited' = FALSE
    /\ UNCHANGED <<up, state, failures, reported, ttl, outage, breaker, read, total, deaths>>

ResetReported(a) ==
    /\ Go(a, "reset_reported", "close") /\ reported' = FALSE
    /\ UNCHANGED <<up, state, failures, lastFailure, ttl, waited, outage, breaker, read, total, deaths>>

\* Defect: the counters are deleted and the state is left.
CloseForgotten(a) ==
    /\ Go(a, "close", "unlink")
    /\ UNCHANGED <<up, cacheVars, outage, breaker, read, total, deaths>>

Close(a) ==
    /\ Go(a, "close", "unlink") /\ state' = "CLOSED" /\ ttl' = FALSE
    /\ UNCHANGED <<up, failures, lastFailure, reported, waited, outage, breaker, read, total, deaths>>

Unlink(a) ==
    /\ Go(a, "unlink", "idle") /\ outage' = FALSE
    /\ UNCHANGED <<up, cacheVars, breaker, read, total, deaths>>

(***************************************************************************)
(* The engine thread and the world.                                        *)
(***************************************************************************)
\* _service_has_recovered: a blocked run in the queue has its service probed
\* while the breaker is not closed.  A failed probe changes nothing.
Probe ==
    /\ Probed /\ state # "CLOSED"
    /\ up \/ Lazy
    /\ Go(Engine, "idle", "reset_failures")
    /\ UNCHANGED <<up, cacheVars, outage, breaker, read, total, deaths>>

\* The signal scanner removes files with an extension it does not know.
ScanRemovesOutage ==
    /\ pc[Engine] = "idle" /\ outage
    /\ outage' = FALSE
    /\ UNCHANGED <<up, cacheVars, pc, breaker, read, total, deaths>>

Flap ==
    /\ up' = ~up
    /\ UNCHANGED <<cacheVars, outage, pc, breaker, read, total, deaths>>

WindowPasses ==
    /\ reported /\ reported' = FALSE
    /\ UNCHANGED <<up, state, failures, lastFailure, ttl, waited, outage, pc, breaker, read, total, deaths>>

\* timeout_secs since the last failure have gone by.
TimeoutPasses ==
    /\ lastFailure /\ ~ waited /\ waited' = TRUE
    /\ UNCHANGED <<up, state, failures, lastFailure, reported, ttl, outage, pc, breaker, read, total, deaths>>

\* The entry that record_failure wrote for an hour is gone.
Expire ==
    /\ ttl /\ state' = "CLOSED" /\ ttl' = FALSE
    /\ UNCHANGED <<up, failures, lastFailure, reported, waited, outage, pc, breaker, read, total, deaths>>

Die(w) ==
    /\ pc[w] # "idle" /\ deaths < MaxDeaths
    /\ pc' = [pc EXCEPT ![w] = "idle"]
    /\ breaker' = [breaker EXCEPT ![w] = NewBreaker]
    /\ read' = [read EXCEPT ![w] = 0]
    /\ deaths' = deaths + 1
    /\ UNCHANGED <<up, cacheVars, outage, total>>

-----------------------------------------------------------------------------
Reset(a) == ResetFailures(a) \/ ResetLast(a) \/ ResetReported(a) \/ Close(a) \/ Unlink(a)

Call(w) ==
    \/ ReadFailures(w) \/ ReadLast(w) \/ Refuse(w) \/ Admit(w)
    \/ succeed(w) \/ Untracked(w) \/ fail(w)
    \/ Debounced(w) \/ Undebounced(w) \/ RecordRead(w) \/ RecordCount(w)
    \/ RecordReported(w) \/ RecordLast(w) \/ TripCheck(w) \/ Trip(w) \/ NoTrip(w)
    \/ SetState(w) \/ Touch(w)

World ==
    \/ ScanRemovesOutage \/ Flap \/ WindowPasses \/ TimeoutPasses \/ Expire
    \/ \E w \in Workers : Die(w)

Next ==
    \/ \E w \in Workers : ReadState(w) \/ Call(w)
    \/ \E a \in Actors : Reset(a)
    \/ Probe \/ World

Spec == Init /\ [][Next]_vars

\* A call that has begun ends, the engine thread goes on, blocked runs are
\* looked at again and again, and expiries expire.
FairSpec ==
    /\ Spec /\ WF_vars(Probe) /\ WF_vars(Expire)
    /\ \A w \in Workers : WF_vars(Call(w))
    /\ \A a \in Actors : WF_vars(Reset(a))

-----------------------------------------------------------------------------
States == {"CLOSED", "OPEN", "HALF_OPEN"}
ResetPoints == {"reset_failures", "reset_last", "reset_reported", "close", "unlink"}
CallPoints ==
    {"failures", "last", "check", "call", "record", "read", "count", "report",
     "stamp", "check_trip", "trip", "set_state", "touch"}

\* The shared state is never HALF_OPEN: that is known to a trial call only.
TypeOK ==
    /\ up \in BOOLEAN /\ state \in {"CLOSED", "OPEN"} /\ failures \in Nat
    /\ lastFailure \in BOOLEAN /\ reported \in BOOLEAN
    /\ ttl \in BOOLEAN /\ waited \in BOOLEAN /\ outage \in BOOLEAN
    /\ pc \in [Actors -> {"idle"} \cup CallPoints \cup ResetPoints]
    /\ pc[Engine] \notin CallPoints
    /\ breaker \in [Workers -> [state : States, failures : Nat, last : BOOLEAN]]
    /\ \A w \in Workers :
          breaker[w].state = "HALF_OPEN" => pc[w] \in {"idle", "call"}
    /\ read \in [Workers -> Nat] /\ total \in Nat /\ deaths \in Nat

\* The breaker is never opened by fewer failed calls than the threshold,
\* whatever updates of the counters are lost, repeated or interleaved.
OpensOnlyAfterThreshold == state = "OPEN" => total >= Threshold

\* Tripped, and every call under way has seen it.
Tripped ==
    /\ state = "OPEN" /\ lastFailure
    /\ \A w \in Workers :
          /\ pc[w] \in {"idle", "failures", "last", "check"}
          /\ pc[w] # "idle" => breaker[w].state = "OPEN"
          /\ pc[w] = "check" => breaker[w].last

\* Fail fast: from then on no call gets through before the timeout has been
\* waited out; only a probe or the expiry of the entry ends it earlier.  (After
\* the timeout a call is to be let through as a trial.  This code lets none
\* through: see Refuse.)
FailFast ==
    [][Tripped /\ ~Tripped' =>
          waited \/ pc[Engine] \in ResetPoints \/ (ttl /\ pc' = pc)]_vars

\* When the service is back for good and somebody waits for it, the breaker
\* closes for good, whatever the workers were doing.
Recovers == <>[]up => <>[](state = "CLOSED")
=============================================================================
