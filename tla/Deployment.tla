------------------------------ MODULE Deployment ------------------------------
(***************************************************************************)
(* deployment.Controller (src/internal/deployment/controller.go): the      *)
(* rollout of one job.  UpdateAllocs, Promote and Fail run under c.mu.     *)
(* Times are kept as ages, up to the one that matters: MinHealthyTime for  *)
(* HealthySince, and whether HealthyDeadline has passed.                   *)
(***************************************************************************)
EXTENDS Naturals, FiniteSets

CONSTANTS
    Alloc,              \* IDs of allocations
    MinHealthyTime,     \* Spec.MinHealthyTime, in steps of the clock
    Canaries,           \* Spec.Canary
    TotalAllocations    \* Spec.TotalAllocations

ASSUME DeploymentAssumption ==
    /\ {MinHealthyTime, Canaries, TotalAllocations} \subseteq Nat
    /\ IsFiniteSet(Alloc)

VARIABLES
    phase,      \* d.Phase
    fleet,      \* d.Allocs
    strategy,   \* Spec.Strategy, which nothing validates
    auto,       \* Spec.AutoPromote
    late,       \* HealthyDeadline has passed
    calm        \* history: the age of each allocation's last unhealthy report

rolloutVars == <<phase, fleet, strategy, auto, late, calm>>

Age == 0..MinHealthyTime

AllocState == [healthy : BOOLEAN, canary : BOOLEAN, age : Age]

NoAlloc == [healthy |-> FALSE, canary |-> FALSE, age |-> MinHealthyTime]

RolloutInit ==
    /\ phase = "pending"
    /\ fleet = [a \in {} |-> NoAlloc]
    /\ strategy \in {"canary", "blue-green", "other"}
    /\ auto \in BOOLEAN
    /\ late = FALSE
    /\ calm = [a \in Alloc |-> MinHealthyTime]

\* Mutant: an allocation that is healthy again keeps its HealthySince.
OverlayKeepsSince(report) ==
    [a \in DOMAIN fleet \cup DOMAIN report |->
        IF a \notin DOMAIN report THEN fleet[a]
        ELSE IF a \notin DOMAIN fleet THEN report[a]
        ELSE [report[a] EXCEPT !.age = fleet[a].age]]

\* The report laid over what is known: an allocation reported for the first time is
\* taken as it comes, HealthySince included, and one that is left out stays.
Overlay(report) ==
    [a \in DOMAIN fleet \cup DOMAIN report |->
        IF a \notin DOMAIN report THEN fleet[a]
        ELSE IF a \notin DOMAIN fleet THEN report[a]
        ELSE [report[a] EXCEPT !.age = IF report[a].healthy /\ ~fleet[a].healthy
                                       THEN 0 ELSE fleet[a].age]]

HealthyIn(A) == {a \in DOMAIN A : A[a].healthy /\ A[a].age >= MinHealthyTime}

GateOpen(A) ==
    strategy = "canary" /\ Canaries > 0 /\ Cardinality({a \in HealthyIn(A) : A[a].canary}) >= Canaries

\* Mutant: a canary that is healthy waits for its promotion, whatever the deadline.
DecideGateFirst(ph, A) ==
    IF ph = "running" /\ GateOpen(A) THEN IF auto THEN "promoted" ELSE ph
    ELSE IF late /\ ph # "promoted" THEN "failed"
    ELSE IF /\ ph = "promoted" \/ strategy = "blue-green"
            /\ TotalAllocations > 0 /\ Cardinality(HealthyIn(A)) >= TotalAllocations
         THEN "succeeded" ELSE ph

\* The phase decide() leaves, in the order of its tests.
Decide(ph, A) ==
    IF late /\ ph # "promoted" THEN "failed"
    ELSE IF ph = "running" /\ GateOpen(A) THEN IF auto THEN "promoted" ELSE ph
    ELSE IF /\ ph = "promoted" \/ strategy = "blue-green"
            /\ TotalAllocations > 0 /\ Cardinality(HealthyIn(A)) >= TotalAllocations
         THEN "succeeded" ELSE ph

\* ErrTerminal is the disabled UpdateAllocs.
UpdateAllocs(report) ==
    /\ phase \notin {"succeeded", "failed"}
    /\ fleet' = Overlay(report)
    /\ phase' = Decide(IF phase = "pending" THEN "running" ELSE phase, Overlay(report))
    /\ calm' = [a \in Alloc |-> IF a \in DOMAIN report /\ ~report[a].healthy
                                THEN 0 ELSE calm[a]]
    /\ UNCHANGED <<strategy, auto, late>>

Promote ==
    /\ phase = "running"
    /\ Cardinality({a \in DOMAIN fleet : fleet[a].canary /\ fleet[a].healthy}) >= Canaries
    /\ phase' = "promoted"
    /\ UNCHANGED <<fleet, strategy, auto, late, calm>>

\* An operator's override, in any phase.
Fail ==
    /\ phase' = "failed"
    /\ UNCHANGED <<fleet, strategy, auto, late, calm>>

Older(age) == IF age < MinHealthyTime THEN age + 1 ELSE age

ClockAdvances ==
    /\ fleet' = [a \in DOMAIN fleet |-> [fleet[a] EXCEPT !.age = Older(@)]]
    /\ calm' = [a \in Alloc |-> Older(calm[a])]
    /\ UNCHANGED <<phase, strategy, auto, late>>

DeadlineElapses ==
    /\ ~late
    /\ late' = TRUE
    /\ UNCHANGED <<phase, fleet, strategy, auto, calm>>

Report == UNION {[S -> AllocState] : S \in SUBSET Alloc}

ReportArrives == \E report \in Report : UpdateAllocs(report)

RolloutNext == ReportArrives \/ Promote \/ Fail \/ ClockAdvances \/ DeadlineElapses

\* Time passes, and the client agents go on reporting.
RolloutFairness == WF_rolloutVars(ReportArrives) /\ WF_rolloutVars(DeadlineElapses)

RolloutSpec == RolloutInit /\ [][RolloutNext]_rolloutVars /\ RolloutFairness

-----------------------------------------------------------------------------

\* An allocation that flaps does not count: by the time a rollout succeeds, enough
\* allocations have gone MinHealthyTime without an unhealthy report, however reports,
\* promotion and the clock were interleaved.
FlappingDoesNotCount ==
    [][phase # "succeeded" /\ phase' = "succeeded" =>
        Cardinality({a \in DOMAIN fleet' : fleet'[a].healthy /\ calm'[a] >= MinHealthyTime})
            >= TotalAllocations]_rolloutVars

\* A rollout with a deadline is not left running: it is promoted, completed or rolled
\* back, also one that waits for a promotion nobody gives.
RolloutIsDecided == phase = "running" ~> phase # "running"
==============================================================================
