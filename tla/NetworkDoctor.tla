---------------------------- MODULE NetworkDoctor ----------------------------
(***************************************************************************)
(* The network diagnosis: checks with dependencies are run in the order    *)
(* they were registered, a check whose dependency failed or did not run is *)
(* skipped, one that fails may be repaired and is run again.  The host may *)
(* get better or worse between two checks.                                 *)
(***************************************************************************)
EXTENDS Naturals, Sequences, FiniteSets

CONSTANT Definitions    \* what create_all_checks returns: a sequence of
                        \* [section, dependencies, required, outcomes]

Outcomes == {"passed", "fixable", "failed", "raised"}
Listed == {Definitions[i] : i \in DOMAIN Definitions}

\* A check depends on sections that come before it in the list and are
\* required; a section that is listed twice is listed as the same.
DoctorAssumption ==
    /\ Definitions \in Seq([section : STRING, dependencies : SUBSET STRING, required : BOOLEAN,
                            outcomes : SUBSET Outcomes])
    /\ Definitions # <<>>
    /\ \A i \in DOMAIN Definitions : \A d \in Definitions[i].dependencies :
          \E j \in 1 .. i - 1 : Definitions[j].section = d /\ Definitions[j].required
    /\ \A c, d \in Listed : c.section = d.section => c = d

VARIABLES
    autoFix,    \* option of the call
    given,      \* definitions register_all has registered
    checks,     \* _checks: registered definitions, in order
    pos,        \* the check that is next
    results,    \* _results: [section -> outcome]
    skipped,    \* _skipped
    fixed,      \* a repair of the current check was carried out
    verdict     \* "none", "healthy" or "unhealthy"

ndVars == <<autoFix, given, checks, pos, results, skipped, fixed, verdict>>

\* register: a section that is there already keeps its place.
Register(list, check) ==
    IF \E i \in DOMAIN list : list[i].section = check.section
    THEN [i \in DOMAIN list |-> IF list[i].section = check.section THEN check ELSE list[i]]
    ELSE Append(list, check)

\* register_all: one definition of the list after the other.
RegisterAll ==
    /\ given < Len(Definitions) /\ given' = given + 1
    /\ checks' = Register(checks, Definitions[given + 1])
    /\ UNCHANGED <<autoFix, pos, results, skipped, fixed, verdict>>

-----------------------------------------------------------------------------
Registered == given = Len(Definitions)
Running == Registered /\ verdict = "none" /\ pos <= Len(checks)
Check == checks[pos]

\* Defect: only a dependency that has failed is looked at.
SkipAfterFailure(check) == \E d \in check.dependencies : d \in DOMAIN results /\ results[d] # "passed"

ShouldSkip(check) ==
    ~ \A d \in check.dependencies : d \in DOMAIN results /\ results[d] = "passed"

Skip ==
    /\ Running /\ ShouldSkip(Check)
    /\ skipped' = skipped \cup {Check.section} /\ pos' = pos + 1
    /\ UNCHANGED <<autoFix, given, checks, results, fixed, verdict>>

\* The repair is a command of its own, which may itself not come to an end in
\* time: the failure then stands and the check is not run again.
AttemptFix(outcome, repaired) == autoFix /\ outcome = "fixable" /\ ~fixed /\ repaired

RunCheck(outcome, repaired) ==
    /\ Running /\ ~ShouldSkip(Check) /\ outcome \in Check.outcomes
    /\ results' = [s \in DOMAIN results \cup {Check.section} |->
                     IF s = Check.section THEN outcome ELSE results[s]]
    /\ IF AttemptFix(outcome, repaired)
       THEN fixed' = TRUE /\ UNCHANGED pos
       ELSE fixed' = FALSE /\ pos' = pos + 1
    /\ UNCHANGED <<autoFix, given, checks, skipped, verdict>>

\* get_passed looks a result up under the section it carries: a result that
\* a check returned carries the name of its family, under which nothing is
\* registered or skipped and which therefore counts as required; only the
\* result made for a check that raised carries the name of the check.
Counts(check) ==
    /\ check.section \notin skipped
    /\ results[check.section] = "raised" => check.required

GetPassed ==
    /\ Registered /\ verdict = "none" /\ pos > Len(checks)
    /\ verdict' = IF checks # <<>> /\ \A i \in DOMAIN checks :
                       Counts(checks[i]) => results[checks[i].section] = "passed"
                  THEN "healthy" ELSE "unhealthy"
    /\ UNCHANGED <<autoFix, given, checks, pos, results, skipped, fixed>>

Init ==
    /\ autoFix \in BOOLEAN
    /\ given = 0 /\ checks = <<>>
    /\ pos = 1 /\ results = <<>> /\ skipped = {} /\ fixed = FALSE /\ verdict = "none"

Next ==
    \/ RegisterAll \/ Skip \/ GetPassed
    \/ \E outcome \in Outcomes, repaired \in BOOLEAN : RunCheck(outcome, repaired)

-----------------------------------------------------------------------------
\* Although checks that were skipped are left out of the verdict, a host is
\* called healthy exactly if every check that is required has run and passed
\* in the end and none that is optional came back with a failure: get_passed
\* says that it checks "only required checks", but of the optional ones it
\* passes over only what raised.  A host is called unhealthy only if a check
\* that ran did not pass; every check has a result or was skipped, never both,
\* and what ran had all its dependencies passed (DiagnosticPipeline.run).
Fit(check) ==
    LET ran == check.section \in DOMAIN results IN
    IF check.required THEN ran /\ results[check.section] = "passed"
    ELSE ran => results[check.section] \in {"passed", "raised"}

VerdictSound ==
    verdict # "none" =>
      /\ verdict = "healthy" <=> \A i \in DOMAIN checks : Fit(checks[i])
      /\ verdict = "unhealthy" => \E s \in DOMAIN results : results[s] # "passed"
      /\ DOMAIN results \cap skipped = {}
      /\ DOMAIN results \cup skipped = {c.section : c \in Listed}
      /\ \A i \in DOMAIN checks : checks[i].section \in DOMAIN results =>
           \A d \in checks[i].dependencies : d \in DOMAIN results /\ results[d] = "passed"
=============================================================================
