---------------------------- MODULE LeaderElection ----------------------------
(***************************************************************************)
(* The election loop leaderelection.Run over a LeaseLock                   *)
(* (src/internal/controller/leaderelection/leaderelection.go,              *)
(* resourcelock/leaselock.go, resourcelock/interface.go).                  *)
(*                                                                         *)
(* The Backend behind the lock is external: a Put that compares the        *)
(* revision of the caller's last Get and replaces the record atomically.   *)
(* Each Get and each Put is a call that takes time, may fail, and may be   *)
(* applied although its answer is lost.                                    *)
(*                                                                         *)
(* Time is discrete and kept as ages, so behaviours are infinite and       *)
(* states are not.  The clocks of the contenders agree, and a leader's     *)
(* goroutine runs within the time unit in which its ticker or its deadline *)
(* fires.                                                                  *)
(***************************************************************************)
EXTENDS Naturals, FiniteSets

CONSTANTS
    Node,           \* the contenders, each with its own identity
    NoNode,         \* no record exists
    LeaseDuration, RenewDeadline, RetryPeriod,
    MaxCall,        \* bound: the time acquire waits for the backend
    MaxFaults,      \* bound: failed calls
    MaxStops        \* bound: contenders that are cancelled or die

\* What Config.validate asks for.
ASSUME LeaderElectionAssumption ==
    /\ NoNode \notin Node
    /\ {LeaseDuration, RenewDeadline, RetryPeriod} \subseteq Nat \ {0}
    /\ LeaseDuration > RenewDeadline
    /\ RenewDeadline > RetryPeriod
    /\ MaxCall \in Nat \ {0}
    /\ {MaxFaults, MaxStops} \subseteq Nat

VARIABLES
    holder,     \* HolderIdentity of the stored record, NoNode if there is none
    age,        \* time since its RenewTime
    current,    \* contenders whose last Get returned the current revision
    at,         \* where each contender is
    lost,       \* history: for how long each leader has led without the record
    faults, stops

recordVars == <<holder, age, current>>
vars == <<recordVars, at, lost, faults, stops>>

\* The states of a contender: stamp is the age of the time it read before a call of
\* acquire, or puts into the record it renews; timer the time slept or since the
\* ticker fired; spent the part of RenewDeadline that is gone; ticked a tick that
\* waits in the ticker's channel.
Contender ==
    [pc : {"idle", "get", "create", "reacquire", "steal", "sleep", "lead", "renewGet",
           "renewPut", "stopped"},
     stamp : Nat, timer : Nat, spent : Nat, ticked : BOOLEAN]

Start(pc) == [pc |-> pc, stamp |-> 0, timer |-> 0, spent |-> 0, ticked |-> FALSE]

\* Ages are told apart up to the first that is expired for every contender.
AgeCap == LeaseDuration + MaxCall + 1

\* How long a leader can go on after its record was taken over.
OverlapBound == RetryPeriod + RenewDeadline

LeadPC == {"lead", "renewGet", "renewPut"}
PutPC == {"create", "reacquire", "steal", "renewPut"}

Leading(c) == at[c].pc \in LeadPC

TypeOK ==
    /\ holder \in Node \cup {NoNode}
    /\ age \in 0..AgeCap
    /\ current \subseteq Node
    /\ at \in [Node -> Contender]
    /\ \A c \in Node :
        /\ at[c].stamp <= IF Leading(c) THEN RenewDeadline ELSE MaxCall
        /\ at[c].spent <= RenewDeadline
        /\ at[c].timer <= RetryPeriod
        /\ at[c].ticked => Leading(c)
    /\ lost \in [Node -> 0..OverlapBound + 1]
    /\ faults \in 0..MaxFaults
    /\ stops \in 0..MaxStops

Init ==
    /\ holder = NoNode
    /\ age = 0
    /\ current = {}
    /\ at = [c \in Node |-> Start("idle")]
    /\ lost = [c \in Node |-> 0]
    /\ faults = 0
    /\ stops = 0

-----------------------------------------------------------------------------
(* The lock.                                                               *)

\* Mutant: an Update that does not compare revisions.
PutMatchesAnyRevision(c) ==
    IF at[c].pc = "create" THEN holder = NoNode ELSE holder # NoNode

\* The precondition of the Put of c holds: no record for a Create, an unchanged
\* revision for an Update.
PutMatches(c) ==
    IF at[c].pc = "create" THEN holder = NoNode ELSE c \in current

\* The record c puts: its RenewTime is the time c has read.  Every other revision is
\* outdated.
Write(c) ==
    /\ holder' = c
    /\ age' = at[c].stamp
    /\ current' = {}

\* A Put whose outcome the caller does not learn.
MayWrite(c) ==
    \/ UNCHANGED recordVars
    \/ at[c].pc \in PutPC /\ PutMatches(c) /\ Write(c)

\* Mutant: the duration is stored in units it is less than one of, and a record
\* with no duration does not expire.
ExpiredNever(c) == LeaseDuration = 0

\* IsExpired, at the time c has read.
Expired(c) == age > at[c].stamp + LeaseDuration

-----------------------------------------------------------------------------
(* acquire.                                                                *)

Become(c, s) == at' = [at EXCEPT ![c] = s]
Proceed(c, pc) == at' = [at EXCEPT ![c].pc = pc]

\* now := time.Now(), and the call of Get.
Acquire(c) ==
    /\ at[c].pc = "idle"
    /\ Become(c, Start("get"))
    /\ UNCHANGED <<recordVars, lost, faults, stops>>

\* The answer of Get, and which way acquire takes.
GetAnswers(c) ==
    /\ at[c].pc = "get"
    /\ current' = IF holder = NoNode THEN current \ {c} ELSE current \cup {c}
    /\ \/ holder = NoNode /\ Proceed(c, "create")
       \/ holder = c /\ Proceed(c, "reacquire")
       \/ holder \notin {NoNode, c} /\ Expired(c) /\ Proceed(c, "steal")
       \/ holder \notin {NoNode, c} /\ ~Expired(c) /\ Become(c, Start("sleep"))
    /\ UNCHANGED <<holder, age, lost, faults, stops>>

\* Create, or the Update that steals the lock.
TakePut(c) ==
    /\ at[c].pc \in {"create", "steal"}
    /\ IF PutMatches(c)
       THEN Write(c) /\ Become(c, Start("lead"))
       ELSE UNCHANGED recordVars /\ Become(c, Start("sleep"))
    /\ UNCHANGED <<lost, faults, stops>>

\* The Update of a lock that was ours already.  Its error is ignored.
ReacquirePut(c) ==
    /\ at[c].pc = "reacquire"
    /\ IF PutMatches(c) THEN Write(c) ELSE UNCHANGED recordVars
    /\ Become(c, Start("lead"))
    /\ UNCHANGED <<lost, faults, stops>>

\* A call of acquire fails.
AcquireFails(c) ==
    /\ at[c].pc \in {"get", "create", "steal", "reacquire"}
    /\ faults < MaxFaults
    /\ faults' = faults + 1
    /\ MayWrite(c)
    /\ Become(c, Start(IF at[c].pc = "reacquire" THEN "lead" ELSE "sleep"))
    /\ UNCHANGED <<lost, stops>>

Wakes(c) ==
    /\ at[c].pc = "sleep"
    /\ at[c].timer = RetryPeriod
    /\ Become(c, Start("idle"))
    /\ UNCHANGED <<recordVars, lost, faults, stops>>

-----------------------------------------------------------------------------
(* renew.  A leader that cannot renew stops leading and contends again.    *)

\* Mutant: the ticker goes on after renew returns.
StopLeadingOnly(c) ==
    /\ Proceed(c, "idle")
    /\ lost' = [lost EXCEPT ![c] = 0]

StopLeading(c) ==
    /\ Become(c, Start("idle"))
    /\ lost' = [lost EXCEPT ![c] = 0]

\* The ticker's channel has a tick, and attemptRenew starts.
RenewStarts(c) ==
    /\ at[c].pc = "lead"
    /\ at[c].ticked
    /\ at' = [at EXCEPT ![c].pc = "renewGet", ![c].ticked = FALSE]
    /\ UNCHANGED <<recordVars, lost, faults, stops>>

RenewGet(c) ==
    /\ at[c].pc = "renewGet"
    /\ IF holder = c
       THEN /\ Proceed(c, "renewPut")
            /\ current' = current \cup {c}
            /\ UNCHANGED lost
       ELSE /\ StopLeading(c)
            /\ UNCHANGED current
    /\ UNCHANGED <<holder, age, faults, stops>>

RenewPut(c) ==
    /\ at[c].pc = "renewPut"
    /\ IF PutMatches(c)
       THEN /\ Write(c)
            /\ at' = [at EXCEPT ![c].pc = "lead", ![c].stamp = 0, ![c].spent = 0]
            /\ UNCHANGED lost
       ELSE /\ StopLeading(c)
            /\ UNCHANGED recordVars
    /\ UNCHANGED <<faults, stops>>

\* Mutant: a leader that could not renew goes on, and tries again at the next tick.
RenewFailsAndLeads(c) ==
    /\ at[c].pc \in {"renewGet", "renewPut"}
    /\ \/ at[c].spent = RenewDeadline /\ UNCHANGED faults
       \/ at[c].spent < RenewDeadline /\ faults < MaxFaults /\ faults' = faults + 1
    /\ MayWrite(c)
    /\ at' = [at EXCEPT ![c].pc = "lead", ![c].stamp = 0, ![c].spent = 0]
    /\ UNCHANGED <<lost, stops>>

\* A call of attemptRenew fails, or RenewDeadline is over before it answers.
RenewFails(c) ==
    /\ at[c].pc \in {"renewGet", "renewPut"}
    /\ \/ at[c].spent = RenewDeadline /\ UNCHANGED faults
       \/ at[c].spent < RenewDeadline /\ faults < MaxFaults /\ faults' = faults + 1
    /\ MayWrite(c)
    /\ StopLeading(c)
    /\ UNCHANGED stops

\* The context of c is cancelled, or its process dies.  Nobody gives the lock back.
Stop(c) ==
    /\ at[c].pc # "stopped"
    /\ stops < MaxStops
    /\ stops' = stops + 1
    /\ MayWrite(c)
    /\ Become(c, Start("stopped"))
    /\ lost' = [lost EXCEPT ![c] = 0]
    /\ UNCHANGED faults

-----------------------------------------------------------------------------
(* Time.                                                                   *)

\* A contender one unit later.  The ticker runs while its leader is in a call, and
\* its channel holds one tick.
Later(s) ==
    CASE s.pc \in {"get", "create", "steal", "reacquire"} ->
            [s EXCEPT !.stamp = @ + 1]
      [] s.pc = "sleep" ->
            [s EXCEPT !.timer = IF @ < RetryPeriod THEN @ + 1 ELSE @]
      [] s.pc \in LeadPC ->
            [s EXCEPT !.timer = IF @ + 1 = RetryPeriod THEN 0 ELSE @ + 1,
                      !.ticked = @ \/ s.timer + 1 = RetryPeriod,
                      !.spent = IF s.pc = "lead" THEN 0 ELSE @ + 1,
                      !.stamp = IF s.pc = "renewPut" THEN @ + 1 ELSE 0]
      [] OTHER -> s

Tick ==
    /\ \A c \in Node :
        /\ at[c].pc \in {"get", "create", "steal", "reacquire"} => at[c].stamp < MaxCall
        /\ ~(at[c].pc = "lead" /\ at[c].ticked)
        /\ at[c].pc \in {"renewGet", "renewPut"} => at[c].spent < RenewDeadline
    /\ at' = [c \in Node |-> Later(at[c])]
    /\ age' = IF age < AgeCap /\ holder # NoNode THEN age + 1 ELSE age
    /\ lost' = [c \in Node |->
                  IF Leading(c) /\ holder # c /\ lost[c] <= OverlapBound
                  THEN lost[c] + 1 ELSE lost[c]]
    /\ UNCHANGED <<holder, current, faults, stops>>

-----------------------------------------------------------------------------

Step(c) ==
    \/ Acquire(c) \/ GetAnswers(c) \/ TakePut(c) \/ ReacquirePut(c)
    \/ AcquireFails(c) \/ Wakes(c)
    \/ RenewStarts(c) \/ RenewGet(c) \/ RenewPut(c) \/ RenewFails(c)

Next == Tick \/ \E c \in Node : Step(c) \/ Stop(c)

\* Time passes and every contender that is not stopped runs.
Fairness == WF_vars(Tick) /\ \A c \in Node : WF_vars(Step(c))

Spec == Init /\ [][Next]_vars /\ Fairness

-----------------------------------------------------------------------------
(* What the election promises.                                             *)

\* The lock changes hands only when it has expired: not on a comparison that a
\* renewal has overtaken, whatever calls were slow, failed or lost.
OnlyExpiredIsStolen ==
    [][holder' # holder /\ holder # NoNode => age > LeaseDuration]_vars

\* Two leaders do not last: a leader that no longer has the lock, because it was
\* stolen from it or was never its own, finds out within one tick and one deadline.
OverlapIsBrief ==
    \A c \in Node : Leading(c) /\ holder # c => lost[c] <= OverlapBound

\* The lock of a leader that died is taken over: as long as a contender is left, one
\* leads again and again.
EventuallyLed ==
    (\E c \in Node : at[c].pc # "stopped") ~>
        ((\E c \in Node : Leading(c)) \/ \A c \in Node : at[c].pc = "stopped")

\* acquire "returns true when this contender now holds it".
AcquiredIsHeld ==
    [][\A c \in Node : ~Leading(c) /\ Leading(c)' => holder' = c]_vars

\* At most one contender leads.
AtMostOneLeader == \A c, d \in Node : Leading(c) /\ Leading(d) => c = d
==============================================================================
