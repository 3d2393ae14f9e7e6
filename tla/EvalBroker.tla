------------------------------ MODULE EvalBroker ------------------------------
(***************************************************************************)
(* The evaluation broker (src/internal/evalbroker/broker.go, pq.go): a     *)
(* priority queue whose items stay with the broker until a worker Acks     *)
(* them, with delayed redelivery after a Nack, a delivery limit, and a     *)
(* reaper that takes back what a worker kept too long.                     *)
(*                                                                         *)
(* Every critical section under b.mu is one action.  Nack and the reaper   *)
(* release the mutex between taking an evaluation out of pending and       *)
(* enqueueing it again, so each is several.  An evaluation is its ID, its  *)
(* priority and the time it was created; its payload is left out.  A       *)
(* worker that hangs or dies is one that takes no further step.            *)
(***************************************************************************)
EXTENDS Naturals, FiniteSets

CONSTANTS
    Id,                 \* evaluation IDs
    Worker,             \* goroutines that call Dequeue, Ack and Nack
    Priority,           \* priorities of submitted evaluations
    DeliveryLimit,      \* cfg.DeliveryLimit, 0 for no limit
    VisibilityTimeout,  \* cfg.VisibilityTimeout > 0
    MaxSubmits          \* bound: evaluations submitted in a behaviour

ASSUME EvalBrokerAssumption ==
    /\ "none" \notin Id
    /\ IsFiniteSet(Worker)
    /\ Priority \subseteq Nat
    /\ DeliveryLimit \in Nat
    /\ VisibilityTimeout \in BOOLEAN
    /\ MaxSubmits \in Nat

VARIABLES
    ready,      \* b.ready
    pending,    \* b.pending: the evaluation delivered last under each ID
    overdue,    \* IDs in b.pending whose deadline has passed
    attempts,   \* b.attempts: Nacks per ID
    dlq,        \* the evaluations in b.dlq
    closed,     \* b.closed
    delayed,    \* evaluations in the timers Nack has started
    wpc,        \* what each worker is at
    weval,      \* the evaluation each worker has in hand
    rpc,        \* what the reaper is at
    expired,    \* evaluations the reaper has still to put back
    rcur,       \* the one it is putting back
    rnacked,    \* the one its Nack took out of pending
    submits,    \* evaluations submitted
    owed        \* history: IDs submitted to the open broker and not Acked since

brokerVars == <<ready, pending, overdue, attempts, dlq, closed, delayed>>
workerVars == <<wpc, weval>>
reaperVars == <<rpc, expired, rcur, rnacked>>
vars == <<brokerVars, workerVars, reaperVars, submits, owed>>

Evaluation == [id : Id, prio : Priority, born : 1..MaxSubmits]

NoEval == [id |-> "none", prio |-> 0, born |-> 0]

\* Attempts are told apart up to the first value above the limit.
AttemptsCap == DeliveryLimit + 1

\* "waiting" is in cond.Wait, "woken" has been signalled and has yet to get the
\* mutex; "nacked" is between the two critical sections of Nack.
WorkerPC == {"idle", "waiting", "woken", "busy", "nacked", "stopped"}

TypeOK ==
    /\ ready \subseteq Evaluation
    /\ pending \in [Id -> Evaluation \cup {NoEval}]
    /\ overdue \subseteq {i \in Id : pending[i] # NoEval}
    /\ attempts \in [Id -> 0..AttemptsCap]
    /\ DeliveryLimit > 0 => \A i \in Id : attempts[i] <= DeliveryLimit
    /\ dlq \subseteq Evaluation
    /\ closed \in BOOLEAN
    /\ delayed \subseteq Evaluation
    /\ wpc \in [Worker -> WorkerPC]
    /\ weval \in [Worker -> Evaluation \cup {NoEval}]
    /\ \A w \in Worker : wpc[w] \in {"busy", "nacked"} <=> weval[w] # NoEval
    /\ rpc \in {"tick", "renack", "enqueue", "exited"}
    /\ expired \subseteq Evaluation
    /\ rcur \in Evaluation \cup {NoEval}
    /\ rnacked \in Evaluation \cup {NoEval}
    /\ submits \in 0..MaxSubmits
    /\ owed \subseteq Id

Init ==
    /\ ready = {}
    /\ pending = [i \in Id |-> NoEval]
    /\ overdue = {}
    /\ attempts = [i \in Id |-> 0]
    /\ dlq = {}
    /\ closed = FALSE
    /\ delayed = {}
    /\ wpc = [w \in Worker |-> "idle"]
    /\ weval = [w \in Worker |-> NoEval]
    /\ rpc = "tick"
    /\ expired = {}
    /\ rcur = NoEval
    /\ rnacked = NoEval
    /\ submits = 0
    /\ owed = {}

-----------------------------------------------------------------------------
(* The critical sections.                                                  *)

\* pq.Less: higher priority first, then the older evaluation.
Less(e, f) == e.prio > f.prio \/ (e.prio = f.prio /\ e.born < f.born)

Waiting == {w \in Worker : wpc[w] = "waiting"}

\* cond.Signal, from workers at pc: one of those that wait is woken, if any does.
Signal(pc) ==
    IF Waiting = {} THEN wpc' = pc
    ELSE \E w \in Waiting : wpc' = [pc EXCEPT ![w] = "woken"]

\* Mutant: the newcomer replaces the ready evaluation whatever its priority.
EnqueueReplaces(e, pc) ==
    LET same == {f \in ready : f.id = e.id}
    IN  IF closed THEN ready' = ready /\ wpc' = pc
        ELSE /\ ready' = (ready \ same) \cup {e}
             /\ IF same = {} THEN Signal(pc) ELSE wpc' = pc

\* Mutant: a worker is signalled only when the queue was empty.
EnqueueSignalsIfEmpty(e, pc) ==
    LET same == {f \in ready : f.id = e.id}
    IN  IF closed THEN ready' = ready /\ wpc' = pc
        ELSE /\ ready' = IF \A f \in same : e.prio > f.prio
                         THEN (ready \ same) \cup {e} ELSE ready
             /\ IF ready = {} THEN Signal(pc) ELSE wpc' = pc

\* Enqueue of e by a goroutine that leaves the workers at pc.  An evaluation with
\* the same ID coalesces with the ready one, and wakes nobody.
Enqueue(e, pc) ==
    LET same == {f \in ready : f.id = e.id}
    IN  CASE closed ->
               ready' = ready /\ wpc' = pc
          [] ~closed /\ same = {} ->
               ready' = ready \cup {e} /\ Signal(pc)
          [] ~closed /\ same # {} ->
               /\ ready' = IF \A f \in same : e.prio > f.prio
                           THEN (ready \ same) \cup {e} ELSE ready
               /\ wpc' = pc

\* Mutant: the limit is compared before the attempt is counted.
DeadLettersLate(i) == DeliveryLimit > 0 /\ attempts[i] > DeliveryLimit

\* The delivery of i that Nack gives up goes to the dead letters.
DeadLetters(i) == DeliveryLimit > 0 /\ attempts[i] + 1 > DeliveryLimit

\* The first critical section of Nack, for an ID that is pending.
TakeBack(i) ==
    /\ pending' = [pending EXCEPT ![i] = NoEval]
    /\ overdue' = overdue \ {i}
    /\ dlq' = IF DeadLetters(i) THEN dlq \cup {pending[i]} ELSE dlq
    /\ attempts' = [attempts EXCEPT ![i] =
                      IF DeadLetters(i) THEN 0
                      ELSE IF @ < AttemptsCap THEN @ + 1 ELSE @]

-----------------------------------------------------------------------------
(* The callers.                                                            *)

Submit(i, p) ==
    /\ submits < MaxSubmits
    /\ submits' = submits + 1
    /\ Enqueue([id |-> i, prio |-> p, born |-> submits + 1], wpc)
    /\ owed' = IF closed THEN owed ELSE owed \cup {i}
    /\ UNCHANGED <<pending, overdue, attempts, dlq, closed, delayed, weval, reaperVars>>

\* A Dequeue that finds an evaluation ready takes the best one.
Dequeue(w) ==
    /\ wpc[w] \in {"idle", "woken"}
    /\ ~closed
    /\ \E e \in ready :
        /\ \A f \in ready : ~Less(f, e)
        /\ ready' = ready \ {e}
        /\ pending' = [pending EXCEPT ![e.id] = e]
        /\ overdue' = overdue \ {e.id}
        /\ weval' = [weval EXCEPT ![w] = e]
    /\ wpc' = [wpc EXCEPT ![w] = "busy"]
    /\ UNCHANGED <<attempts, dlq, closed, delayed, reaperVars, submits, owed>>

DequeueWaits(w) ==
    /\ wpc[w] \in {"idle", "woken"}
    /\ ~closed
    /\ ready = {}
    /\ wpc' = [wpc EXCEPT ![w] = "waiting"]
    /\ UNCHANGED <<brokerVars, weval, reaperVars, submits, owed>>

DequeueClosed(w) ==
    /\ wpc[w] \in {"idle", "woken"}
    /\ closed
    /\ wpc' = [wpc EXCEPT ![w] = "stopped"]
    /\ UNCHANGED <<brokerVars, weval, reaperVars, submits, owed>>

\* Ack deletes what is pending under the ID, whichever worker it was delivered to.
Ack(w) ==
    /\ wpc[w] = "busy"
    /\ pending' = [pending EXCEPT ![weval[w].id] = NoEval]
    /\ overdue' = overdue \ {weval[w].id}
    /\ attempts' = [attempts EXCEPT ![weval[w].id] = 0]
    /\ owed' = owed \ {weval[w].id}
    /\ wpc' = [wpc EXCEPT ![w] = "idle"]
    /\ weval' = [weval EXCEPT ![w] = NoEval]
    /\ UNCHANGED <<ready, dlq, closed, delayed, reaperVars, submits>>

\* A Nack of an ID that is not pending, and one that hits the delivery limit, ends
\* here; another goes on with the evaluation it took out of pending.
Nack(w) ==
    LET i == weval[w].id
        again == pending[i] # NoEval /\ ~DeadLetters(i)
    IN  /\ wpc[w] = "busy"
        /\ IF pending[i] # NoEval THEN TakeBack(i)
           ELSE UNCHANGED <<pending, overdue, attempts, dlq>>
        /\ wpc' = [wpc EXCEPT ![w] = IF again THEN "nacked" ELSE "idle"]
        /\ weval' = [weval EXCEPT ![w] = IF again THEN pending[i] ELSE NoEval]
        /\ UNCHANGED <<ready, closed, delayed, reaperVars, submits, owed>>

\* The rest of Nack with no delay.
NackEnqueues(w) ==
    /\ wpc[w] = "nacked"
    /\ Enqueue(weval[w], [wpc EXCEPT ![w] = "idle"])
    /\ weval' = [weval EXCEPT ![w] = NoEval]
    /\ UNCHANGED <<pending, overdue, attempts, dlq, closed, delayed, reaperVars, submits, owed>>

\* The rest of Nack with a delay.
NackDelays(w) ==
    /\ wpc[w] = "nacked"
    /\ delayed' = delayed \cup {weval[w]}
    /\ wpc' = [wpc EXCEPT ![w] = "idle"]
    /\ weval' = [weval EXCEPT ![w] = NoEval]
    /\ UNCHANGED <<ready, pending, overdue, attempts, dlq, closed, reaperVars, submits, owed>>

TimerFires(e) ==
    /\ e \in delayed
    /\ delayed' = delayed \ {e}
    /\ Enqueue(e, wpc)
    /\ UNCHANGED <<pending, overdue, attempts, dlq, closed, weval, reaperVars, submits, owed>>

\* Mutant: Close signals one worker instead of all.
CloseSignals ==
    /\ ~closed
    /\ closed' = TRUE
    /\ Signal(wpc)
    /\ UNCHANGED <<ready, pending, overdue, attempts, dlq, delayed, weval, reaperVars,
                   submits, owed>>

Close ==
    /\ ~closed
    /\ closed' = TRUE
    /\ wpc' = [w \in Worker |-> IF wpc[w] = "waiting" THEN "woken" ELSE wpc[w]]
    /\ UNCHANGED <<ready, pending, overdue, attempts, dlq, delayed, weval, reaperVars, submits,
                   owed>>

-----------------------------------------------------------------------------
(* visibilityReaper.                                                       *)

\* Time passes the deadline of the delivery pending under i, however long the
\* timeout is and whatever was delivered before it.
DeadlinePasses(i) ==
    /\ VisibilityTimeout
    /\ pending[i] # NoEval /\ i \notin overdue
    /\ overdue' = overdue \cup {i}
    /\ UNCHANGED <<ready, pending, attempts, dlq, closed, delayed, workerVars,
                   reaperVars, submits, owed>>

\* A tick takes back every delivery whose deadline has passed.
ReapExpired ==
    /\ rpc = "tick" /\ expired = {} /\ ~closed
    /\ overdue # {}
    /\ expired' = {pending[i] : i \in overdue}
    /\ pending' = [i \in Id |-> IF i \in overdue THEN NoEval ELSE pending[i]]
    /\ overdue' = {}
    /\ UNCHANGED <<ready, attempts, dlq, closed, delayed, workerVars, rpc, rcur,
                   rnacked, submits, owed>>

\* Nack of an expired evaluation, whose ID is pending only if it was delivered
\* again in the meantime.
ReapNack(e) ==
    LET again == pending[e.id] # NoEval /\ ~DeadLetters(e.id)
    IN  /\ rpc = "tick"
        /\ e \in expired
        /\ expired' = expired \ {e}
        /\ rcur' = e
        /\ IF pending[e.id] # NoEval THEN TakeBack(e.id)
           ELSE UNCHANGED <<pending, overdue, attempts, dlq>>
        /\ rpc' = IF again THEN "renack" ELSE "enqueue"
        /\ rnacked' = IF again THEN pending[e.id] ELSE NoEval
        /\ UNCHANGED <<ready, closed, delayed, workerVars, submits, owed>>

\* The rest of that Nack, with the default delay, which may be zero.
ReapRenack ==
    /\ rpc = "renack"
    /\ rpc' = "enqueue"
    /\ rnacked' = NoEval
    /\ \/ Enqueue(rnacked, wpc) /\ UNCHANGED delayed
       \/ delayed' = delayed \cup {rnacked} /\ UNCHANGED <<ready, wpc>>
    /\ UNCHANGED <<pending, overdue, attempts, dlq, closed, weval, expired, rcur, submits, owed>>

\* Mutant: the reaper leaves it to its Nack to put the evaluation back.
ReapNackOnly ==
    /\ rpc = "enqueue"
    /\ rpc' = "tick"
    /\ rcur' = NoEval
    /\ UNCHANGED <<brokerVars, workerVars, expired, rnacked, submits, owed>>

\* The expired evaluation is enqueued whatever Nack did.
ReapEnqueue ==
    /\ rpc = "enqueue"
    /\ rpc' = "tick"
    /\ Enqueue(rcur, wpc)
    /\ rcur' = NoEval
    /\ UNCHANGED <<pending, overdue, attempts, dlq, closed, delayed, weval, expired, rnacked,
                   submits, owed>>

\* Mutant: the reaper returns at the first tick that finds nothing overdue.
ReapExitsWhenIdle ==
    /\ rpc = "tick" /\ expired = {} /\ overdue = {}
    /\ rpc' = "exited"
    /\ UNCHANGED <<brokerVars, workerVars, expired, rcur, rnacked, submits, owed>>

ReapExits ==
    /\ rpc = "tick" /\ expired = {} /\ closed
    /\ rpc' = "exited"
    /\ UNCHANGED <<brokerVars, workerVars, expired, rcur, rnacked, submits, owed>>

-----------------------------------------------------------------------------

DequeueStep(w) == Dequeue(w) \/ DequeueWaits(w) \/ DequeueClosed(w)

NackRest(w) == NackEnqueues(w) \/ NackDelays(w)

ReapStep ==
    ReapExpired \/ ReapRenack \/ ReapEnqueue \/ ReapExits \/ \E e \in expired : ReapNack(e)

\* Nothing is submitted any more, and no worker has anything to do.
Terminated ==
    /\ submits = MaxSubmits
    /\ \A w \in Worker : wpc[w] \in {"waiting", "stopped"}
    /\ UNCHANGED vars

Next ==
    \/ \E i \in Id, p \in Priority : Submit(i, p)
    \/ \E w \in Worker : DequeueStep(w) \/ Ack(w) \/ Nack(w) \/ NackRest(w)
    \/ \E e \in delayed : TimerFires(e)
    \/ Close
    \/ \E i \in Id : DeadlinePasses(i)
    \/ ReapStep
    \/ Terminated

\* A worker calls Dequeue again and again, time passes, timers fire and the reaper
\* ticks; what a worker does with an evaluation it may never finish.
Fairness ==
    /\ \A w \in Worker : WF_vars(DequeueStep(w)) /\ WF_vars(NackRest(w))
    /\ WF_vars(\E e \in delayed : TimerFires(e))
    /\ \A i \in Id : WF_vars(DeadlinePasses(i))
    /\ WF_vars(ReapStep)

SafetySpec == Init /\ [][Next]_vars

Spec == SafetySpec /\ Fairness

\* No worker hangs.
WorkingSpec == Spec /\ \A w \in Worker : WF_vars(Ack(w) \/ Nack(w))

-----------------------------------------------------------------------------
(* What the broker promises.                                               *)

HasId(E, i) == \E e \in E : e.id = i

\* The broker, or a call in progress, still has the ID.
Tracked(i) ==
    \/ HasId(ready \cup delayed \cup dlq \cup expired \cup {rcur, rnacked}, i)
    \/ pending[i] # NoEval
    \/ \E w \in Worker : wpc[w] = "nacked" /\ weval[w].id = i

\* Items only leave the system on Ack: an ID the open broker has taken in stays ready,
\* delivered, delayed, dead-lettered or on its way back through every Nack, expiry and
\* coalescing, until a worker that has it in hand acknowledges it.
Delivery == INSTANCE DeliveryQueue WITH
    Item <- Id, Taker <- Worker, Nothing <- NoEval.id,
    work <- {i \in Id : Tracked(i)},
    hand <- [w \in Worker |-> IF wpc[w] = "busy" THEN weval[w].id ELSE NoEval.id],
    open <- ~closed

LeavesOnlyOnAck == Delivery!Spec

\* Duplicate IDs coalesce and the highest priority wins: no step gives a ready ID a
\* second entry or a lower priority, whether the newcomer is a submission, a timer,
\* the second half of a Nack or the reaper.
CoalescesUpwards ==
    [][\A e \in ready, f \in ready' :
        f.id = e.id => f = e \/ (f.prio > e.prio /\ e \notin ready')]_vars

\* No wakeup is lost: while a worker waits, each ready evaluation has a worker that
\* was woken for it and has yet to run; and nobody waits on a closed broker.
NoLostWakeup ==
    Waiting # {} =>
        /\ ~closed
        /\ Cardinality(ready) <= Cardinality({w \in Worker : wpc[w] = "woken"})

\* A delivery the worker never Acks comes back: no ID stays pending for ever, unless
\* the broker is closed.
AbandonedIsTakenBack ==
    VisibilityTimeout =>
        \A i \in Id : pending[i] # NoEval ~> (pending[i] = NoEval \/ closed)

\* Close releases the workers: those that wait and those that return later.
CloseReleases ==
    \A w \in Worker : (closed /\ wpc[w] # "busy") ~> (wpc[w] = "stopped")

\* Work survives the crash of the worker that has it: until a worker Acks the
\* delivery it holds, the broker has the ID.
HeldIsTracked == \A w \in Worker : wpc[w] = "busy" /\ ~closed => Tracked(weval[w].id)

\* Runaway workers get their evaluation dead-lettered: one that expires again and
\* again, and is never Acked, ends in the dead letters.
RunawayIsDeadLettered ==
    \A i \in Id :
        []<>(rpc = "enqueue" /\ rcur.id = i) /\ <>[](i \in owed) => <>HasId(dlq, i)
==============================================================================
