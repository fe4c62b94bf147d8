------------------------------ MODULE HostGate ------------------------------
(***************************************************************************)
(* The two gates between a ready task and a worker: the disk gate of       *)
(* SystemMonitor (a cached report and a cooldown after pressure) and the   *)
(* capacity check of Compute (a fresh report and the cluster's resources). *)
(* Stages ask the disk gate again in pre_flight.                           *)
(*                                                                         *)
(* Time passes in ticks of half the time to live of a report.              *)
(* Timestamps are kept as the ticks that are left (ttl, cool) or that have *)
(* passed (the histories), so that no clock has to be bounded.             *)
(***************************************************************************)
EXTENDS Integers, FiniteSets

CONSTANTS
    DiskReadings,   \* percentages the disk may be filled to
    MemReadings,    \* percentages of memory in use
    Cooldown,       \* _cooldown_secs, in ticks
    Cluster,        \* [resource -> tenths ray.cluster_resources reports]
    Costs           \* [workload class -> [resource -> tenths]]

GateAssumption == DiskReadings \subseteq Nat /\ MemReadings \subseteq Nat /\ Cooldown \in Nat

VARIABLES
    disk, mem,   \* the host
    broken,      \* psutil raises: the disk reads as 0.0
    report,      \* _report: the statuses of the last check
    ttl,         \* ticks until _report_expires_at
    cool,        \* ticks until _disk_blocked_until
    answer,      \* last answer of is_disk_blocked: "none", "free" or "blocked"
    granted,     \* last answer of has_capacity
    lowAge,      \* history: ticks since the disk was last below CRITICAL
    pressAge     \* history: ticks since a check last found pressure

hgVars == <<disk, mem, broken, report, ttl, cool, answer, granted, lowAge, pressAge>>

TTL == 2
MaxAge == Cooldown + 2          \* ages are told apart up to here
Older(age) == IF age < MaxAge THEN age + 1 ELSE age

Level == [healthy |-> 0, degraded |-> 1, critical |-> 2, blocked |-> 3]

\* HealthStatus.evaluate
Evaluate(value, warn, critical, blocked) ==
    CASE value >= blocked -> Level.blocked
      [] value >= critical /\ value < blocked -> Level.critical
      [] value >= warn /\ value < critical -> Level.degraded
      [] OTHER -> Level.healthy

DiskStatus(pct) == Evaluate(pct, 75, 85, 95)
MemStatus(pct) == Evaluate(pct, 80, 90, 95)
Pressure(status) == status >= Level.critical

-----------------------------------------------------------------------------
\* check(): a fresh report, cached for TTL; pressure trips the cooldown.
Check ==
    LET d == DiskStatus(IF broken THEN 0 ELSE disk)
        m == MemStatus(IF broken THEN 0 ELSE mem)
    IN /\ report' = [disk |-> d, mem |-> m]
       /\ ttl' = TTL
       /\ cool' = IF Pressure(d) THEN Cooldown ELSE cool
       /\ pressAge' = IF Pressure(d) THEN 0 ELSE pressAge

\* Defect: a cached report is served however old it is.
RefreshNever == FALSE

\* The report property: a cached report is served while it is fresh.
RefreshDue == ttl = 0

\* Defect: the cooldown is forgotten.
AskIgnoringCooldown ==
    /\ IF RefreshDue THEN Check ELSE UNCHANGED <<report, ttl, cool, pressAge>>
    /\ answer' = IF Pressure(report'.disk) THEN "blocked" ELSE "free"
    /\ UNCHANGED <<disk, mem, broken, granted, lowAge>>

\* is_disk_blocked
IsDiskBlocked ==
    /\ IF cool > 0
       THEN answer' = "blocked" /\ UNCHANGED <<report, ttl, cool, pressAge>>
       ELSE /\ IF RefreshDue THEN Check ELSE UNCHANGED <<report, ttl, cool, pressAge>>
            /\ answer' = IF Pressure(report'.disk) THEN "blocked" ELSE "free"
    /\ UNCHANGED <<disk, mem, broken, granted, lowAge>>

\* has_capacity, asked for every stage, also those the disk gate is not asked
\* for (DISK_FREE_STAGES): force_refresh drops the cached report, then the cost of the
\* stage's workload class is compared with what the cluster has in total.
Fits(class) == \A res \in DOMAIN Costs[class] :
                  res \in DOMAIN Cluster /\ Cluster[res] >= Costs[class][res]

HasCapacity(class) ==
    /\ Check
    /\ granted' = (~Pressure(report'.disk) /\ ~Pressure(report'.mem) /\ Fits(class))
    /\ answer' = "none"
    /\ UNCHANGED <<disk, mem, broken, lowAge>>

-----------------------------------------------------------------------------
\* Five seconds pass on the host.
Tick ==
    /\ disk' \in DiskReadings /\ mem' \in MemReadings /\ broken' \in BOOLEAN
    /\ ttl' = IF ttl > 0 THEN ttl - 1 ELSE 0
    /\ cool' = IF cool > 0 THEN cool - 1 ELSE 0
    /\ lowAge' = IF Pressure(DiskStatus(disk')) /\ ~broken' THEN Older(lowAge) ELSE 0
    /\ pressAge' = Older(pressAge)
    /\ answer' = "none" /\ granted' = FALSE
    /\ UNCHANGED report

\* The constructor makes the first check.
Init ==
    /\ disk \in DiskReadings /\ mem \in MemReadings /\ broken = FALSE
    /\ report = [disk |-> DiskStatus(disk), mem |-> MemStatus(mem)]
    /\ ttl = TTL
    /\ cool = IF Pressure(report.disk) THEN Cooldown ELSE 0
    /\ answer = "none" /\ granted = FALSE
    /\ lowAge = IF Pressure(report.disk) THEN MaxAge ELSE 0
    /\ pressAge = IF Pressure(report.disk) THEN 0 ELSE MaxAge

Next == IsDiskBlocked \/ Tick \/ \E class \in DOMAIN Costs : HasCapacity(class)

-----------------------------------------------------------------------------
\* The disk gate is open only if the disk was below CRITICAL (or could not be
\* measured) within the last report, and no check found pressure during the
\* last cooldown, whichever of the two gates made the checks.
GateTruthful ==
    answer = "free" => lowAge < TTL /\ pressAge >= Cooldown
=============================================================================
