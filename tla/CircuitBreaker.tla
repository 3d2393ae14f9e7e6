---------------------------- MODULE CircuitBreaker ----------------------------
(***************************************************************************)
(* resilience.CircuitBreaker (src/internal/platform/resilience/            *)
(* resilience.go).  Execute is two critical sections under cb.mu with the  *)
(* call of the dependency between them, so calls overlap.                  *)
(***************************************************************************)
EXTENDS Naturals

CONSTANTS
    Caller,             \* goroutines that call Execute
    FailureThreshold, SuccessThreshold

ASSUME BreakerAssumption == {FailureThreshold, SuccessThreshold} \subseteq Nat \ {0}

VARIABLES
    cbState,        \* cb.state
    failureCount, successCount,
    cooled,         \* the timeout has passed since cb.lastFailTime
    fn,             \* the call of the dependency each caller is in, by its outcome
    healthy         \* the dependency answers the calls it is sent

breakerVars == <<cbState, failureCount, successCount, cooled, fn, healthy>>

BreakerInit ==
    /\ cbState = "closed"
    /\ failureCount = 0 /\ successCount = 0
    /\ cooled = TRUE
    /\ fn = [c \in Caller |-> "none"]
    /\ healthy = TRUE

\* Counts are told apart up to the threshold they are compared with.
Raised(n, cap) == IF n < cap THEN n + 1 ELSE n

\* Mutant: every call admitted in half-open starts the count of successes again.
AdmitRestartsCount ==
    \/ cbState = "closed" /\ UNCHANGED <<cbState, successCount>>
    \/ cbState = "half-open" /\ successCount' = 0 /\ UNCHANGED cbState
    \/ cbState = "open" /\ cooled /\ cbState' = "half-open" /\ successCount' = 0

\* An open breaker refuses calls until its timeout; a half-open one admits them all.
Admit ==
    \/ cbState # "open" /\ UNCHANGED <<cbState, successCount>>
    \/ cbState = "open" /\ cooled /\ cbState' = "half-open" /\ successCount' = 0

ExecuteBegins(c) ==
    /\ fn[c] = "none"
    /\ Admit
    /\ \E outcome \in IF healthy THEN {"ok"} ELSE {"ok", "error"} :
        fn' = [fn EXCEPT ![c] = outcome]
    /\ UNCHANGED <<failureCount, cooled, healthy>>

ExecuteFails(c) ==
    /\ fn[c] = "error"
    /\ failureCount' = Raised(failureCount, FailureThreshold)
    /\ cbState' = IF failureCount' = FailureThreshold THEN "open" ELSE cbState
    /\ cooled' = FALSE
    /\ fn' = [fn EXCEPT ![c] = "none"]
    /\ UNCHANGED <<successCount, healthy>>

\* Mutant: the breaker closes with the failures that opened it still counted.
ExecuteSucceedsKeepsFailures(c) ==
    /\ fn[c] = "ok"
    /\ successCount' = Raised(successCount, SuccessThreshold)
    /\ cbState' = IF cbState = "half-open" /\ successCount' = SuccessThreshold
                  THEN "closed" ELSE cbState
    /\ failureCount' = IF cbState = "closed" THEN 0 ELSE failureCount
    /\ fn' = [fn EXCEPT ![c] = "none"]
    /\ UNCHANGED <<cooled, healthy>>

\* A success counts in the state it ends in, whatever state its call began in.
ExecuteSucceeds(c) ==
    /\ fn[c] = "ok"
    /\ successCount' = Raised(successCount, SuccessThreshold)
    /\ cbState' = IF cbState = "half-open" /\ successCount' = SuccessThreshold
                  THEN "closed" ELSE cbState
    /\ failureCount' = IF cbState' = "closed" THEN 0 ELSE failureCount
    /\ fn' = [fn EXCEPT ![c] = "none"]
    /\ UNCHANGED <<cooled, healthy>>

TimeoutPasses ==
    /\ ~cooled
    /\ cooled' = TRUE
    /\ UNCHANGED <<cbState, failureCount, successCount, fn, healthy>>

DependencyChanges ==
    /\ healthy' = ~healthy
    /\ UNCHANGED <<cbState, failureCount, successCount, cooled, fn>>

ExecuteReturns(c) == ExecuteFails(c) \/ ExecuteSucceeds(c)

BreakerNext ==
    \/ \E c \in Caller : ExecuteBegins(c) \/ ExecuteReturns(c)
    \/ TimeoutPasses
    \/ DependencyChanges

\* Calls keep coming, and return.
BreakerFairness ==
    /\ \A c \in Caller :
        WF_breakerVars(ExecuteBegins(c)) /\ WF_breakerVars(ExecuteReturns(c))
    /\ WF_breakerVars(TimeoutPasses)

BreakerSpec == BreakerInit /\ [][BreakerNext]_breakerVars /\ BreakerFairness

-----------------------------------------------------------------------------
(* What the breaker promises.                                              *)

BreakerTypeOK ==
    /\ cbState \in {"closed", "open", "half-open"}
    /\ failureCount \in 0..FailureThreshold
    /\ successCount \in 0..SuccessThreshold
    /\ cooled \in BOOLEAN
    /\ fn \in [Caller -> {"none", "ok", "error"}]
    /\ healthy \in BOOLEAN

\* The breaker is closed exactly while fewer failures than the threshold are counted:
\* so one failed probe opens it again, no answer of an overlapping call leaves it
\* closed with a full count, and it never closes without a fresh start.
ClosedBelowThreshold == cbState = "closed" <=> failureCount < FailureThreshold

\* A breaker does not stay open once the dependency has recovered for good, however
\* many answers of earlier calls are still on their way.
BreakerRecovers == <>[]healthy => <>[](cbState = "closed")
==============================================================================
