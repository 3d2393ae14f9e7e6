--------------------------- MODULE EvalBrokerProofs ---------------------------
(***************************************************************************)
(* Invariants of EvalBroker, and that it implements DeliveryQueue, for     *)
(* every set of IDs, workers and priorities and every delivery limit.      *)
(***************************************************************************)
EXTENDS EvalBroker, FiniteSetTheorems, TLAPS

-----------------------------------------------------------------------------
(* Evaluations.                                                            *)

LEMMA EvaluationFields ==
    ASSUME NEW e \in Evaluation
    PROVE  e.id \in Id /\ e.prio \in Nat /\ e # NoEval /\ NoEval.id = "none"
<1>1. e.id \in Id /\ e.prio \in Nat
  BY EvalBrokerAssumption DEF Evaluation
<1>2. e.id # NoEval.id /\ NoEval.id = "none"
  BY <1>1, EvalBrokerAssumption DEF NoEval
<1> QED BY <1>1, <1>2

\* What Submit builds is an evaluation.
LEMMA SubmittedIsEvaluation ==
    ASSUME TypeOK, submits < MaxSubmits, NEW i \in Id, NEW p \in Priority
    PROVE  /\ [id |-> i, prio |-> p, born |-> submits + 1] \in Evaluation
           /\ submits + 1 \in 0..MaxSubmits
BY EvalBrokerAssumption DEF TypeOK, Evaluation

-----------------------------------------------------------------------------
(* The critical sections.                                                  *)

UniqueIds == \A e, f \in ready : e.id = f.id => e = f

\* Signal wakes at most one worker, and one that waits.
LEMMA SignalEffect ==
    ASSUME NEW pc \in [Worker -> WorkerPC], Signal(pc)
    PROVE  /\ wpc' \in [Worker -> WorkerPC]
           /\ \A w \in Worker : wpc'[w] = pc[w] \/ (wpc[w] = "waiting" /\ wpc'[w] = "woken")
BY DEF Signal, Waiting, WorkerPC

\* Enqueue adds the evaluation or lets it coalesce: the IDs that are ready stay
\* ready, each once, and on an open broker the newcomer's is one of them.
LEMMA EnqueueEffect ==
    ASSUME NEW e \in Evaluation, NEW pc \in [Worker -> WorkerPC], Enqueue(e, pc),
           ready \subseteq Evaluation, closed \in BOOLEAN
    PROVE  /\ ready' \subseteq ready \cup {e}
           /\ wpc' \in [Worker -> WorkerPC]
           /\ \A w \in Worker : wpc'[w] = pc[w] \/ (wpc[w] = "waiting" /\ wpc'[w] = "woken")
           /\ closed => ready' = ready
           /\ ~closed => \A i : HasId(ready', i) <=> HasId(ready, i) \/ e.id = i
           /\ UniqueIds => UniqueIds'
<1> DEFINE same == {f \in ready : f.id = e.id}
<1>1. CASE closed
  BY <1>1 DEF Enqueue, UniqueIds
<1>2. CASE ~closed /\ same = {}
  <2>1. ready' = ready \cup {e} /\ Signal(pc)
    BY <1>2 DEF Enqueue
  <2> QED BY <1>2, <2>1, SignalEffect DEF HasId, UniqueIds
<1>3. CASE ~closed /\ same # {}
  <2>1. /\ ready' = IF \A f \in same : e.prio > f.prio
                    THEN (ready \ same) \cup {e} ELSE ready
        /\ wpc' = pc
    BY <1>3 DEF Enqueue
  <2> QED BY <1>3, <2>1 DEF HasId, UniqueIds
<1> QED BY <1>1, <1>2, <1>3

\* The first critical section of Nack keeps the types, the delivery limit included.
LEMMA TakeBackEffect ==
    ASSUME TypeOK, NEW i \in Id, pending[i] # NoEval, TakeBack(i)
    PROVE  /\ pending' = [pending EXCEPT ![i] = NoEval]
           /\ pending' \in [Id -> Evaluation \cup {NoEval}]
           /\ overdue' \subseteq {j \in Id : pending'[j] # NoEval}
           /\ dlq' \subseteq Evaluation
           /\ dlq' = IF DeadLetters(i) THEN dlq \cup {pending[i]} ELSE dlq
           /\ attempts' \in [Id -> 0..AttemptsCap]
           /\ DeliveryLimit > 0 => \A j \in Id : attempts'[j] <= DeliveryLimit
<1>1. /\ pending' = [pending EXCEPT ![i] = NoEval]
      /\ overdue' = overdue \ {i}
      /\ dlq' = IF DeadLetters(i) THEN dlq \cup {pending[i]} ELSE dlq
      /\ attempts' = [attempts EXCEPT ![i] =
                        IF DeadLetters(i) THEN 0
                        ELSE IF attempts[i] < AttemptsCap THEN attempts[i] + 1
                        ELSE attempts[i]]
  BY DEF TakeBack
<1>2. /\ pending' \in [Id -> Evaluation \cup {NoEval}]
      /\ overdue' \subseteq {j \in Id : pending'[j] # NoEval}
  BY <1>1 DEF TypeOK
<1>3. dlq' \subseteq Evaluation
  BY <1>1 DEF TypeOK
<1>4. /\ attempts' \in [Id -> 0..AttemptsCap]
      /\ DeliveryLimit > 0 => \A j \in Id : attempts'[j] <= DeliveryLimit
  BY <1>1, EvalBrokerAssumption DEF TypeOK, DeadLetters, AttemptsCap
<1> QED BY <1>1, <1>2, <1>3, <1>4

-----------------------------------------------------------------------------
(* The inductive invariant.                                                *)

\* What is pending under an ID is an evaluation with that ID.
PendingUnderId == \A i \in Id : pending[i] # NoEval => pending[i].id = i

\* The reaper has an evaluation in hand exactly while it puts one back.
ReaperHolds ==
    /\ rpc = "renack" <=> rnacked # NoEval
    /\ rpc \in {"renack", "enqueue"} <=> rcur # NoEval

BrokerInv == TypeOK /\ PendingUnderId /\ ReaperHolds /\ UniqueIds

LEMMA BrokerInvInit == Init => BrokerInv
<1> SUFFICES ASSUME Init PROVE BrokerInv
  OBVIOUS
<1>1. AttemptsCap \in Nat /\ 0 \in 0..AttemptsCap /\ 0 \in 0..MaxSubmits
  BY EvalBrokerAssumption DEF AttemptsCap
<1>2. TypeOK
  <2>1. /\ attempts \in [Id -> 0..AttemptsCap]
        /\ DeliveryLimit > 0 => \A i \in Id : attempts[i] <= DeliveryLimit
    BY <1>1, EvalBrokerAssumption DEF Init
  <2>2. /\ wpc \in [Worker -> WorkerPC]
        /\ weval \in [Worker -> Evaluation \cup {NoEval}]
        /\ \A w \in Worker : wpc[w] \in {"busy", "nacked"} <=> weval[w] # NoEval
        /\ pending \in [Id -> Evaluation \cup {NoEval}]
    BY DEF Init, WorkerPC
  <2> QED BY <1>1, <2>1, <2>2 DEF Init, TypeOK
<1>3. PendingUnderId /\ ReaperHolds /\ UniqueIds
  BY DEF Init, PendingUnderId, ReaperHolds, UniqueIds
<1> QED BY <1>2, <1>3 DEF BrokerInv

\* Every operation of the broker keeps the types, the delivery limit, and one ready
\* entry per ID.
LEMMA BrokerInvStep == BrokerInv /\ [Next]_vars => BrokerInv'
<1> SUFFICES ASSUME BrokerInv, [Next]_vars PROVE BrokerInv'
  OBVIOUS
<1> USE DEF brokerVars, workerVars, reaperVars
<1>0. TypeOK /\ PendingUnderId /\ ReaperHolds /\ UniqueIds
  BY DEF BrokerInv
<1>a. /\ ready \subseteq Evaluation /\ closed \in BOOLEAN
      /\ wpc \in [Worker -> WorkerPC]
      /\ weval \in [Worker -> Evaluation \cup {NoEval}]
      /\ \A w \in Worker : wpc[w] \in {"busy", "nacked"} <=> weval[w] # NoEval
  BY <1>0 DEF TypeOK
<1>1. ASSUME NEW i \in Id, NEW p \in Priority, Submit(i, p) PROVE BrokerInv'
  <2> DEFINE e == [id |-> i, prio |-> p, born |-> submits + 1]
  <2>1. e \in Evaluation /\ submits' \in 0..MaxSubmits
    BY <1>0, <1>1, SubmittedIsEvaluation DEF Submit
  <2>2. Enqueue(e, wpc)
    BY <1>1 DEF Submit
  <2> HIDE DEF e
  <2>3. /\ ready' \subseteq Evaluation /\ UniqueIds'
        /\ wpc' \in [Worker -> WorkerPC]
        /\ \A w \in Worker : wpc'[w] = wpc[w] \/ (wpc[w] = "waiting" /\ wpc'[w] = "woken")
    BY <1>0, <1>a, <2>1, <2>2, EnqueueEffect
  <2>4. UNCHANGED <<pending, overdue, attempts, dlq, closed, delayed, weval, reaperVars>>
    BY <1>1 DEF Submit
  <2>5. owed' \subseteq Id
    BY <1>0, <1>1 DEF Submit, TypeOK
  <2>6. TypeOK'
    BY <1>0, <2>1, <2>3, <2>4, <2>5 DEF TypeOK
  <2> QED BY <1>0, <2>3, <2>4, <2>6 DEF BrokerInv, PendingUnderId, ReaperHolds
<1>2. ASSUME NEW w \in Worker, Dequeue(w) PROVE BrokerInv'
  <2>1. PICK e \in ready : /\ ready' = ready \ {e}
                           /\ pending' = [pending EXCEPT ![e.id] = e]
                           /\ overdue' = overdue \ {e.id}
                           /\ weval' = [weval EXCEPT ![w] = e]
    BY <1>2 DEF Dequeue
  <2>2. e \in Evaluation /\ e.id \in Id /\ e # NoEval
    BY <1>a, EvaluationFields
  <2>3. /\ wpc' = [wpc EXCEPT ![w] = "busy"]
        /\ UNCHANGED <<attempts, dlq, closed, delayed, reaperVars, submits, owed>>
    BY <1>2 DEF Dequeue
  <2>4. TypeOK'
    BY <1>0, <2>1, <2>2, <2>3 DEF TypeOK, WorkerPC
  <2>5. PendingUnderId' /\ ReaperHolds' /\ UniqueIds'
    BY <1>0, <2>1, <2>2, <2>3 DEF TypeOK, PendingUnderId, ReaperHolds, UniqueIds
  <2> QED BY <2>4, <2>5 DEF BrokerInv
<1>3. ASSUME NEW w \in Worker, DequeueWaits(w) \/ DequeueClosed(w) PROVE BrokerInv'
  <2>1. /\ wpc' \in [Worker -> WorkerPC]
        /\ \A v \in Worker : wpc'[v] \in {"busy", "nacked"} <=> wpc[v] \in {"busy", "nacked"}
    BY <1>a, <1>3 DEF DequeueWaits, DequeueClosed, WorkerPC
  <2>2. UNCHANGED <<brokerVars, weval, reaperVars, submits, owed>>
    BY <1>3 DEF DequeueWaits, DequeueClosed
  <2> QED BY <1>0, <2>1, <2>2 DEF BrokerInv, TypeOK, PendingUnderId, ReaperHolds, UniqueIds
<1>4. ASSUME NEW w \in Worker, Ack(w) PROVE BrokerInv'
  <2>1. weval[w].id \in Id
    BY <1>a, <1>4, EvaluationFields DEF Ack
  <2>2. TypeOK'
    BY <1>0, <1>4, <2>1, EvalBrokerAssumption DEF Ack, TypeOK, WorkerPC, AttemptsCap
  <2>3. PendingUnderId' /\ ReaperHolds' /\ UniqueIds'
    BY <1>0, <1>4, <2>1 DEF Ack, TypeOK, PendingUnderId, ReaperHolds, UniqueIds
  <2> QED BY <2>2, <2>3 DEF BrokerInv
<1>5. ASSUME NEW w \in Worker, Nack(w) PROVE BrokerInv'
  <2> DEFINE i == weval[w].id
             again == pending[i] # NoEval /\ ~DeadLetters(i)
  <2>1. i \in Id /\ wpc[w] = "busy"
    BY <1>a, <1>5, EvaluationFields DEF Nack
  <2>2. /\ wpc' = [wpc EXCEPT ![w] = IF again THEN "nacked" ELSE "idle"]
        /\ weval' = [weval EXCEPT ![w] = IF again THEN pending[i] ELSE NoEval]
        /\ UNCHANGED <<ready, closed, delayed, reaperVars, submits, owed>>
    BY <1>5 DEF Nack
  <2>3. CASE pending[i] # NoEval
    <3>1. TakeBack(i)
      BY <1>5, <2>3 DEF Nack
    <3> HIDE DEF i
    <3>2. /\ pending' = [pending EXCEPT ![i] = NoEval]
          /\ pending' \in [Id -> Evaluation \cup {NoEval}]
          /\ overdue' \subseteq {j \in Id : pending'[j] # NoEval}
          /\ dlq' \subseteq Evaluation
          /\ attempts' \in [Id -> 0..AttemptsCap]
          /\ DeliveryLimit > 0 => \A j \in Id : attempts'[j] <= DeliveryLimit
      BY <1>0, <2>1, <2>3, <3>1, TakeBackEffect
    <3>3. TypeOK'
      BY <1>0, <2>1, <2>2, <2>3, <3>2 DEF TypeOK, WorkerPC
    <3>4. PendingUnderId' /\ ReaperHolds' /\ UniqueIds'
      BY <1>0, <2>1, <2>2, <3>2 DEF TypeOK, PendingUnderId, ReaperHolds, UniqueIds
    <3> QED BY <3>3, <3>4 DEF BrokerInv
  <2>4. CASE pending[i] = NoEval
    <3>1. UNCHANGED <<pending, overdue, attempts, dlq>>
      BY <1>5, <2>4 DEF Nack
    <3> QED BY <1>0, <2>1, <2>2, <2>4, <3>1
            DEF BrokerInv, TypeOK, WorkerPC, PendingUnderId, ReaperHolds, UniqueIds
  <2> QED BY <2>3, <2>4
<1>6. ASSUME NEW w \in Worker, NackEnqueues(w) PROVE BrokerInv'
  <2> DEFINE pc == [wpc EXCEPT ![w] = "idle"]
  <2>1. pc \in [Worker -> WorkerPC] /\ weval[w] \in Evaluation
    BY <1>a, <1>6 DEF NackEnqueues, WorkerPC
  <2>2. Enqueue(weval[w], pc)
    BY <1>6 DEF NackEnqueues
  <2>3. /\ weval' = [weval EXCEPT ![w] = NoEval] /\ wpc[w] = "nacked"
        /\ UNCHANGED <<pending, overdue, attempts, dlq, closed, delayed, reaperVars, submits, owed>>
    BY <1>6 DEF NackEnqueues
  <2>4. pc[w] = "idle" /\ \A v \in Worker : v # w => pc[v] = wpc[v]
    BY <1>a
  <2> HIDE DEF pc
  <2>5. /\ ready' \subseteq Evaluation /\ UniqueIds'
        /\ wpc' \in [Worker -> WorkerPC]
        /\ \A v \in Worker : wpc'[v] = pc[v] \/ (wpc[v] = "waiting" /\ wpc'[v] = "woken")
    BY <1>0, <1>a, <2>1, <2>2, EnqueueEffect
  <2>6. \A v \in Worker : wpc'[v] \in {"busy", "nacked"} <=> weval'[v] # NoEval
    BY <1>a, <2>3, <2>4, <2>5
  <2>7. TypeOK'
    BY <1>0, <2>3, <2>5, <2>6 DEF TypeOK
  <2> QED BY <1>0, <2>3, <2>5, <2>7 DEF BrokerInv, PendingUnderId, ReaperHolds
<1>7. ASSUME NEW w \in Worker, NackDelays(w) PROVE BrokerInv'
  BY <1>0, <1>7 DEF NackDelays, BrokerInv, TypeOK, WorkerPC, PendingUnderId, ReaperHolds,
                    UniqueIds
<1>8. ASSUME NEW e \in delayed, TimerFires(e) PROVE BrokerInv'
  <2>1. e \in Evaluation
    BY <1>0 DEF TypeOK
  <2>2. /\ Enqueue(e, wpc)
        /\ delayed' = delayed \ {e}
        /\ UNCHANGED <<pending, overdue, attempts, dlq, closed, weval, reaperVars, submits, owed>>
    BY <1>8 DEF TimerFires
  <2>3. /\ ready' \subseteq Evaluation /\ UniqueIds'
        /\ wpc' \in [Worker -> WorkerPC]
        /\ \A w \in Worker : wpc'[w] = wpc[w] \/ (wpc[w] = "waiting" /\ wpc'[w] = "woken")
    BY <1>0, <1>a, <2>1, <2>2, EnqueueEffect
  <2>4. TypeOK'
    BY <1>0, <2>2, <2>3 DEF TypeOK
  <2> QED BY <1>0, <2>2, <2>3, <2>4 DEF BrokerInv, PendingUnderId, ReaperHolds
<1>9. ASSUME Close PROVE BrokerInv'
  BY <1>0, <1>9 DEF Close, BrokerInv, TypeOK, WorkerPC, PendingUnderId, ReaperHolds, UniqueIds
<1>10. ASSUME NEW i \in Id, DeadlinePasses(i) PROVE BrokerInv'
  BY <1>0, <1>10 DEF DeadlinePasses, BrokerInv, TypeOK, PendingUnderId, ReaperHolds, UniqueIds
<1>11. ASSUME ReapExpired PROVE BrokerInv'
  <2>1. expired' \subseteq Evaluation
    BY <1>0, <1>11 DEF ReapExpired, TypeOK
  <2>2. /\ pending' \in [Id -> Evaluation \cup {NoEval}] /\ overdue' = {}
        /\ UNCHANGED <<ready, attempts, dlq, closed, delayed, workerVars, rpc, rcur,
                       rnacked, submits, owed>>
    BY <1>0, <1>11 DEF ReapExpired, TypeOK
  <2>3. PendingUnderId' /\ ReaperHolds' /\ UniqueIds'
    BY <1>0, <1>11 DEF ReapExpired, TypeOK, PendingUnderId, ReaperHolds, UniqueIds
  <2>4. TypeOK'
    BY <1>0, <2>1, <2>2 DEF TypeOK
  <2> QED BY <2>3, <2>4 DEF BrokerInv
<1>12. ASSUME NEW e \in expired, ReapNack(e) PROVE BrokerInv'
  <2> DEFINE i == e.id
             again == pending[i] # NoEval /\ ~DeadLetters(i)
  <2>1. e \in Evaluation /\ e # NoEval /\ i \in Id
    BY <1>0, EvaluationFields DEF TypeOK
  <2>2. /\ expired' = expired \ {e} /\ rcur' = e
        /\ rpc' = IF again THEN "renack" ELSE "enqueue"
        /\ rnacked' = IF again THEN pending[i] ELSE NoEval
        /\ UNCHANGED <<ready, closed, delayed, workerVars, submits, owed>>
    BY <1>12 DEF ReapNack
  <2>3. CASE pending[i] # NoEval
    <3>1. TakeBack(i)
      BY <1>12, <2>3 DEF ReapNack
    <3> HIDE DEF i
    <3>2. /\ pending' = [pending EXCEPT ![i] = NoEval]
          /\ pending' \in [Id -> Evaluation \cup {NoEval}]
          /\ overdue' \subseteq {j \in Id : pending'[j] # NoEval}
          /\ dlq' \subseteq Evaluation
          /\ attempts' \in [Id -> 0..AttemptsCap]
          /\ DeliveryLimit > 0 => \A j \in Id : attempts'[j] <= DeliveryLimit
      BY <1>0, <2>1, <2>3, <3>1, TakeBackEffect
    <3>3. TypeOK'
      BY <1>0, <2>1, <2>2, <2>3, <3>2 DEF TypeOK
    <3>4. PendingUnderId' /\ ReaperHolds' /\ UniqueIds'
      BY <1>0, <2>1, <2>2, <2>3, <3>2 DEF TypeOK, PendingUnderId, ReaperHolds, UniqueIds
    <3> QED BY <3>3, <3>4 DEF BrokerInv
  <2>4. CASE pending[i] = NoEval
    <3>1. UNCHANGED <<pending, overdue, attempts, dlq>>
      BY <1>12, <2>4 DEF ReapNack
    <3> QED BY <1>0, <2>1, <2>2, <2>4, <3>1
            DEF BrokerInv, TypeOK, PendingUnderId, ReaperHolds, UniqueIds
  <2> QED BY <2>3, <2>4
<1>13. ASSUME ReapRenack PROVE BrokerInv'
  <2>1. rnacked \in Evaluation /\ rcur \in Evaluation
    BY <1>0, <1>13 DEF ReapRenack, TypeOK, ReaperHolds
  <2>2. /\ rpc' = "enqueue" /\ rnacked' = NoEval
        /\ UNCHANGED <<pending, overdue, attempts, dlq, closed, weval, expired, rcur, submits, owed>>
    BY <1>13 DEF ReapRenack
  <2>3. ReaperHolds'
    BY <2>1, <2>2, EvaluationFields DEF ReaperHolds
  <2>4. CASE Enqueue(rnacked, wpc) /\ UNCHANGED delayed
    <3>1. /\ ready' \subseteq Evaluation /\ UniqueIds'
          /\ wpc' \in [Worker -> WorkerPC]
          /\ \A w \in Worker : wpc'[w] = wpc[w] \/ (wpc[w] = "waiting" /\ wpc'[w] = "woken")
      BY <1>0, <1>a, <2>1, <2>4, EnqueueEffect
    <3>2. TypeOK'
      BY <1>0, <2>2, <2>4, <3>1 DEF TypeOK
    <3> QED BY <1>0, <2>2, <2>3, <3>1, <3>2 DEF BrokerInv, PendingUnderId
  <2>5. CASE delayed' = delayed \cup {rnacked} /\ UNCHANGED <<ready, wpc>>
    BY <1>0, <2>1, <2>2, <2>3, <2>5 DEF BrokerInv, TypeOK, PendingUnderId, UniqueIds
  <2> QED BY <1>13, <2>4, <2>5 DEF ReapRenack
<1>14. ASSUME ReapEnqueue PROVE BrokerInv'
  <2>1. rcur \in Evaluation
    BY <1>0, <1>14 DEF ReapEnqueue, TypeOK, ReaperHolds
  <2>2. /\ rpc = "enqueue" /\ rpc' = "tick" /\ Enqueue(rcur, wpc) /\ rcur' = NoEval
        /\ UNCHANGED <<pending, overdue, attempts, dlq, closed, delayed, weval, expired, rnacked,
                       submits, owed>>
    BY <1>14 DEF ReapEnqueue
  <2>3. /\ ready' \subseteq Evaluation /\ UniqueIds'
        /\ wpc' \in [Worker -> WorkerPC]
        /\ \A w \in Worker : wpc'[w] = wpc[w] \/ (wpc[w] = "waiting" /\ wpc'[w] = "woken")
    BY <1>0, <1>a, <2>1, <2>2, EnqueueEffect
  <2>4. TypeOK'
    BY <1>0, <2>2, <2>3 DEF TypeOK
  <2>5. ReaperHolds'
    BY <1>0, <2>2 DEF ReaperHolds
  <2> QED BY <1>0, <2>2, <2>3, <2>4, <2>5 DEF BrokerInv, PendingUnderId
<1>15. ASSUME ReapExits PROVE BrokerInv'
  BY <1>0, <1>15 DEF ReapExits, BrokerInv, TypeOK, PendingUnderId, ReaperHolds, UniqueIds
<1>16. ASSUME UNCHANGED vars PROVE BrokerInv'
  BY <1>0, <1>16 DEF vars, BrokerInv, TypeOK, PendingUnderId, ReaperHolds, UniqueIds
<1> QED
  BY <1>1, <1>2, <1>3, <1>4, <1>5, <1>6, <1>7, <1>8, <1>9, <1>10, <1>11, <1>12, <1>13,
     <1>14, <1>15, <1>16
  DEF Next, DequeueStep, NackRest, ReapStep, Terminated

\* The invariant holds in every reachable state.
LEMMA BrokerInvHolds == Spec => []BrokerInv
<1>1. Init => BrokerInv
  BY BrokerInvInit
<1>2. BrokerInv /\ [Next]_vars => BrokerInv'
  BY BrokerInvStep
<1> QED BY <1>1, <1>2, PTL DEF Spec, SafetySpec

\* The broker's collections hold evaluations, no ID is Nacked more often than the
\* delivery limit allows, and a worker has an evaluation in hand exactly while it is
\* busy with it or gives it up.
THEOREM TypeCorrect == Spec => []TypeOK
<1>1. BrokerInv => TypeOK
  BY DEF BrokerInv
<1> QED BY <1>1, BrokerInvHolds, PTL

-----------------------------------------------------------------------------
(* Coalescing.                                                             *)

\* No ready ID has a second entry or a lower priority after the step.
ReadyOnlyRises ==
    \A e \in ready, f \in ready' :
        f.id = e.id => f = e \/ (f.prio > e.prio /\ e \notin ready')

LEMMA EnqueueRises ==
    ASSUME NEW e \in Evaluation, NEW pc \in [Worker -> WorkerPC], Enqueue(e, pc),
           ready \subseteq Evaluation, UniqueIds
    PROVE  ReadyOnlyRises
<1> DEFINE same == {f \in ready : f.id = e.id}
<1>1. CASE closed \/ same = {}
  <2>1. ready' = ready \/ (same = {} /\ ready' = ready \cup {e})
    BY <1>1 DEF Enqueue
  <2> QED BY <2>1 DEF ReadyOnlyRises, UniqueIds
<1>2. CASE ~closed /\ same # {}
  <2>1. CASE \A f \in same : e.prio > f.prio
    <3>1. ready' = (ready \ same) \cup {e}
      BY <1>2, <2>1 DEF Enqueue
    <3>2. e \notin same
      BY <2>1, EvaluationFields
    <3> QED BY <2>1, <3>1, <3>2 DEF ReadyOnlyRises, UniqueIds
  <2>2. CASE ~\A f \in same : e.prio > f.prio
    <3>1. ready' = ready
      BY <1>2, <2>2 DEF Enqueue
    <3> QED BY <3>1 DEF ReadyOnlyRises, UniqueIds
  <2> QED BY <2>1, <2>2
<1> QED BY <1>1, <1>2

\* Duplicate IDs coalesce and the highest priority wins, whoever enqueues: submitters,
\* timers, the second half of a Nack and the reaper.
THEOREM ReadyRises == Spec => CoalescesUpwards
<1>1. ASSUME BrokerInv, Next PROVE ReadyOnlyRises
  <2> USE DEF brokerVars, workerVars, reaperVars
  <2>0. /\ ready \subseteq Evaluation /\ delayed \subseteq Evaluation /\ UniqueIds
        /\ wpc \in [Worker -> WorkerPC]
        /\ \A w \in Worker : wpc[w] = "nacked" => weval[w] \in Evaluation
        /\ rpc = "renack" => rnacked \in Evaluation
        /\ rpc = "enqueue" => rcur \in Evaluation
    BY <1>1 DEF BrokerInv, TypeOK, ReaperHolds
  <2>1. ASSUME ready' \subseteq ready PROVE ReadyOnlyRises
    BY <2>0, <2>1 DEF ReadyOnlyRises, UniqueIds
  <2>2. ASSUME NEW i \in Id, NEW p \in Priority, Submit(i, p) PROVE ReadyOnlyRises
    <3>1. [id |-> i, prio |-> p, born |-> submits + 1] \in Evaluation
      BY <1>1, <2>2, SubmittedIsEvaluation DEF BrokerInv, Submit
    <3>2. Enqueue([id |-> i, prio |-> p, born |-> submits + 1], wpc)
      BY <2>2 DEF Submit
    <3> QED BY <2>0, <3>1, <3>2, EnqueueRises
  <2>3. ASSUME NEW w \in Worker, NackEnqueues(w) PROVE ReadyOnlyRises
    <3>1. [wpc EXCEPT ![w] = "idle"] \in [Worker -> WorkerPC] /\ weval[w] \in Evaluation
      BY <2>0, <2>3 DEF NackEnqueues, WorkerPC
    <3> QED BY <2>0, <2>3, <3>1, EnqueueRises DEF NackEnqueues
  <2>4. ASSUME NEW e \in delayed, TimerFires(e) PROVE ReadyOnlyRises
    BY <2>0, <2>4, EnqueueRises DEF TimerFires
  <2>5. ASSUME ReapRenack PROVE ReadyOnlyRises
    BY <2>0, <2>1, <2>5, EnqueueRises DEF ReapRenack
  <2>6. ASSUME ReapEnqueue PROVE ReadyOnlyRises
    BY <2>0, <2>6, EnqueueRises DEF ReapEnqueue
  <2>7. ASSUME NEW w \in Worker, DequeueStep(w) \/ Ack(w) \/ Nack(w) \/ NackDelays(w)
        PROVE  ready' \subseteq ready
    BY <2>7 DEF DequeueStep, Dequeue, DequeueWaits, DequeueClosed, Ack, Nack, NackDelays
  <2>8. ASSUME \/ Close \/ ReapExpired \/ ReapExits \/ Terminated
               \/ \E i \in Id : DeadlinePasses(i)
               \/ \E e \in expired : ReapNack(e)
        PROVE  ready' \subseteq ready
    BY <2>8 DEF Close, ReapExpired, ReapExits, Terminated, DeadlinePasses, ReapNack, vars
  <2> QED BY <1>1, <2>1, <2>2, <2>3, <2>4, <2>5, <2>6, <2>7, <2>8 DEF Next, NackRest, ReapStep
<1>2. BrokerInv /\ [Next]_vars => [ReadyOnlyRises]_vars
  BY <1>1
<1>3. Spec => [][ReadyOnlyRises]_vars
  BY <1>2, BrokerInvHolds, PTL DEF Spec, SafetySpec
<1> QED BY <1>3 DEF CoalescesUpwards, ReadyOnlyRises

-----------------------------------------------------------------------------
(* Wakeups.                                                                *)

Woken == {w \in Worker : wpc[w] = "woken"}

WakeupInv == IsFiniteSet(ready) /\ NoLostWakeup

LEMMA WokenIsFinite == IsFiniteSet(Woken)
<1>1. Woken \subseteq Worker
  BY DEF Woken
<1> QED BY <1>1, FS_Subset, EvalBrokerAssumption

\* An Enqueue whose caller is not itself waiting or woken adds at most one ready
\* evaluation, and then wakes a worker if one waits.
LEMMA EnqueueWakes ==
    ASSUME NEW e \in Evaluation, NEW pc \in [Worker -> WorkerPC], Enqueue(e, pc),
           wpc \in [Worker -> WorkerPC], ready \subseteq Evaluation, UniqueIds, WakeupInv,
           UNCHANGED closed,
           \A w \in Worker : /\ pc[w] = "waiting" <=> wpc[w] = "waiting"
                             /\ pc[w] = "woken" <=> wpc[w] = "woken"
    PROVE  WakeupInv'
<1> DEFINE same == {f \in ready : f.id = e.id}
<1>1. /\ IsFiniteSet(ready) /\ IsFiniteSet(Woken)
      /\ Cardinality(ready) \in Nat /\ Cardinality(Woken) \in Nat
      /\ Waiting # {} => ~closed /\ Cardinality(ready) <= Cardinality(Woken)
  BY WokenIsFinite, FS_CardinalityType DEF WakeupInv, NoLostWakeup, Woken
<1>2. CASE ~closed /\ same = {} /\ Waiting # {}
  <2>1. ready' = ready \cup {e} /\ Signal(pc)
    BY <1>2 DEF Enqueue
  <2>2. PICK w \in Waiting : wpc' = [pc EXCEPT ![w] = "woken"]
    BY <1>2, <2>1 DEF Signal
  <2>3. Woken' = Woken \cup {w} /\ w \notin Woken
    BY <2>2 DEF Woken, Waiting, WorkerPC
  <2>4. Cardinality(Woken') = Cardinality(Woken) + 1
    BY <1>1, <2>3, FS_AddElement
  <2>5. IsFiniteSet(ready') /\ Cardinality(ready') = Cardinality(ready) + 1
    BY <1>1, <1>2, <2>1, FS_AddElement
  <2> QED BY <1>1, <1>2, <2>4, <2>5 DEF WakeupInv, NoLostWakeup, Woken
<1>3. CASE ~closed /\ same = {} /\ Waiting = {}
  <2>1. ready' = ready \cup {e} /\ wpc' = pc
    BY <1>3 DEF Enqueue, Signal
  <2>2. Waiting' = {}
    BY <1>3, <2>1 DEF Waiting
  <2>3. IsFiniteSet(ready')
    BY <1>1, <2>1, FS_AddElement
  <2> QED BY <2>2, <2>3 DEF WakeupInv, NoLostWakeup
<1>4. CASE closed \/ same # {}
  <2>1. wpc' = pc
    BY <1>4 DEF Enqueue
  <2>2. Waiting' = Waiting /\ Woken' = Woken
    BY <2>1 DEF Waiting, Woken
  <2>3. IsFiniteSet(ready') /\ Cardinality(ready') <= Cardinality(ready)
    <3>1. CASE ready' = ready
      BY <1>1, <3>1
    <3>2. CASE same # {} /\ ready' = (ready \ same) \cup {e}
      <4>1. PICK f \in ready : same = {f}
        BY <3>2 DEF UniqueIds
      <4> DEFINE rest == ready \ {f}
      <4>2. IsFiniteSet(rest) /\ Cardinality(rest) = Cardinality(ready) - 1
        BY <1>1, FS_RemoveElement
      <4>3. ready' = rest \cup {e}
        BY <3>2, <4>1
      <4> HIDE DEF rest
      <4>4. /\ IsFiniteSet(rest \cup {e})
            /\ Cardinality(rest \cup {e}) = IF e \in rest THEN Cardinality(rest)
                                            ELSE Cardinality(rest) + 1
        BY <4>2, FS_AddElement
      <4> QED BY <1>1, <4>2, <4>3, <4>4
    <3> QED BY <1>4, <3>1, <3>2 DEF Enqueue
  <2>4. Cardinality(ready') \in Nat
    BY <2>3, FS_CardinalityType
  <2> QED BY <1>1, <2>2, <2>3, <2>4 DEF WakeupInv, NoLostWakeup, Woken
<1> QED BY <1>2, <1>3, <1>4

\* A step that leaves ready, closed and the sleepers alone keeps the invariant.
LEMMA SleepersAlone ==
    ASSUME WakeupInv, UNCHANGED <<ready, closed>>,
           \A w \in Worker : /\ wpc'[w] = "waiting" <=> wpc[w] = "waiting"
                             /\ wpc'[w] = "woken" <=> wpc[w] = "woken"
    PROVE  WakeupInv'
<1>1. Waiting' = Waiting /\ Woken' = Woken
  BY DEF Waiting, Woken
<1> QED BY <1>1 DEF WakeupInv, NoLostWakeup, Woken

LEMMA WakeupInvStep == BrokerInv /\ WakeupInv /\ [Next]_vars => WakeupInv'
<1> SUFFICES ASSUME BrokerInv, WakeupInv, [Next]_vars PROVE WakeupInv'
  OBVIOUS
<1> USE DEF brokerVars, workerVars, reaperVars
<1>0. /\ ready \subseteq Evaluation /\ delayed \subseteq Evaluation /\ UniqueIds
      /\ wpc \in [Worker -> WorkerPC]
      /\ \A w \in Worker : wpc[w] = "nacked" => weval[w] \in Evaluation
      /\ rpc = "renack" => rnacked \in Evaluation
      /\ rpc = "enqueue" => rcur \in Evaluation
  BY DEF BrokerInv, TypeOK, ReaperHolds
<1>a. /\ IsFiniteSet(ready) /\ IsFiniteSet(Woken)
      /\ Cardinality(ready) \in Nat /\ Cardinality(Woken) \in Nat
      /\ Waiting # {} => ~closed /\ Cardinality(ready) <= Cardinality(Woken)
  BY WokenIsFinite, FS_CardinalityType DEF WakeupInv, NoLostWakeup, Woken
<1>1. ASSUME NEW i \in Id, NEW p \in Priority, Submit(i, p) PROVE WakeupInv'
  <2>1. [id |-> i, prio |-> p, born |-> submits + 1] \in Evaluation
    BY <1>1, SubmittedIsEvaluation DEF BrokerInv, Submit
  <2> QED BY <1>0, <1>1, <2>1, EnqueueWakes DEF Submit
<1>2. ASSUME NEW w \in Worker, Dequeue(w) PROVE WakeupInv'
  <2>1. PICK e \in ready : ready' = ready \ {e}
    BY <1>2 DEF Dequeue
  <2>2. IsFiniteSet(ready') /\ Cardinality(ready') = Cardinality(ready) - 1
    BY <1>a, <2>1, FS_RemoveElement
  <2>3. wpc' = [wpc EXCEPT ![w] = "busy"] /\ wpc[w] \in {"idle", "woken"} /\ UNCHANGED closed
    BY <1>2 DEF Dequeue
  <2>4. Waiting' = Waiting /\ Woken' = Woken \ {w}
    BY <1>0, <2>3 DEF Waiting, Woken
  <2>5. Cardinality(Woken') \in Nat /\ Cardinality(Woken') >= Cardinality(Woken) - 1
    <3>1. Cardinality(Woken \ {w}) = IF w \in Woken THEN Cardinality(Woken) - 1
                                     ELSE Cardinality(Woken)
      BY <1>a, FS_RemoveElement
    <3>2. Cardinality(Woken \ {w}) \in Nat
      BY <1>a, FS_RemoveElement, FS_CardinalityType
    <3> QED BY <1>a, <2>4, <3>1, <3>2
  <2> QED BY <1>a, <2>2, <2>3, <2>4, <2>5 DEF WakeupInv, NoLostWakeup, Woken
<1>3. ASSUME NEW w \in Worker, DequeueWaits(w) PROVE WakeupInv'
  <2>1. ready' = {} /\ ~closed' /\ IsFiniteSet(ready') /\ Cardinality(ready') = 0
    BY <1>3, FS_EmptySet DEF DequeueWaits
  <2>2. wpc' = [wpc EXCEPT ![w] = "waiting"]
    BY <1>3 DEF DequeueWaits
  <2>3. Woken' \subseteq Woken
    BY <1>0, <2>2 DEF Woken
  <2>4. Cardinality(Woken') \in Nat
    BY <1>a, <2>3, FS_Subset, FS_CardinalityType
  <2> QED BY <2>1, <2>4 DEF WakeupInv, NoLostWakeup, Woken
<1>4. ASSUME NEW w \in Worker, DequeueClosed(w) PROVE WakeupInv'
  <2>1. closed /\ wpc' = [wpc EXCEPT ![w] = "stopped"] /\ UNCHANGED ready
    BY <1>4 DEF DequeueClosed
  <2>2. Waiting' = {}
    BY <1>0, <1>a, <2>1 DEF Waiting
  <2> QED BY <1>a, <2>1, <2>2 DEF WakeupInv, NoLostWakeup
<1>5. ASSUME NEW w \in Worker, Ack(w) \/ Nack(w) \/ NackDelays(w) PROVE WakeupInv'
  BY <1>0, <1>5, SleepersAlone DEF Ack, Nack, NackDelays
<1>6. ASSUME NEW w \in Worker, NackEnqueues(w) PROVE WakeupInv'
  <2> DEFINE pc == [wpc EXCEPT ![w] = "idle"]
  <2>1. wpc[w] = "nacked" /\ Enqueue(weval[w], pc) /\ UNCHANGED closed
    BY <1>6 DEF NackEnqueues
  <2>2. /\ pc \in [Worker -> WorkerPC]
        /\ \A v \in Worker : /\ pc[v] = "waiting" <=> wpc[v] = "waiting"
                             /\ pc[v] = "woken" <=> wpc[v] = "woken"
    BY <1>0, <2>1 DEF WorkerPC
  <2> HIDE DEF pc
  <2> QED BY <1>0, <2>1, <2>2, EnqueueWakes
<1>7. ASSUME NEW e \in delayed, TimerFires(e) PROVE WakeupInv'
  BY <1>0, <1>7, EnqueueWakes DEF TimerFires
<1>8. ASSUME Close PROVE WakeupInv'
  <2>1. Waiting' = {} /\ UNCHANGED ready
    BY <1>0, <1>8 DEF Close, Waiting
  <2> QED BY <1>a, <2>1 DEF WakeupInv, NoLostWakeup
<1>9. ASSUME \/ ReapExpired \/ ReapExits \/ \E i \in Id : DeadlinePasses(i)
             \/ \E e \in expired : ReapNack(e)
      PROVE  WakeupInv'
  BY <1>9, SleepersAlone DEF ReapExpired, ReapExits, DeadlinePasses, ReapNack
<1>10. ASSUME ReapRenack PROVE WakeupInv'
  <2>1. CASE Enqueue(rnacked, wpc)
    BY <1>0, <1>10, <2>1, EnqueueWakes DEF ReapRenack
  <2>2. CASE UNCHANGED <<ready, wpc>>
    BY <1>10, <2>2, SleepersAlone DEF ReapRenack
  <2> QED BY <1>10, <2>1, <2>2 DEF ReapRenack
<1>11. ASSUME ReapEnqueue PROVE WakeupInv'
  BY <1>0, <1>11, EnqueueWakes DEF ReapEnqueue
<1>12. ASSUME UNCHANGED vars PROVE WakeupInv'
  BY <1>12, SleepersAlone DEF vars
<1> QED
  BY <1>1, <1>2, <1>3, <1>4, <1>5, <1>6, <1>7, <1>8, <1>9, <1>10, <1>11, <1>12
  DEF Next, DequeueStep, NackRest, ReapStep, Terminated

\* No worker sleeps through work: in every reachable state, while one waits each ready
\* evaluation has a worker that was woken for it, and nobody waits on a closed broker.
THEOREM WakeupsAreKept == Spec => []NoLostWakeup
<1>1. Init => WakeupInv
  BY FS_EmptySet DEF Init, WakeupInv, NoLostWakeup, Waiting
<1>2. BrokerInv /\ WakeupInv /\ [Next]_vars => WakeupInv'
  BY WakeupInvStep
<1>3. WakeupInv => NoLostWakeup
  BY DEF WakeupInv
<1> QED BY <1>1, <1>2, <1>3, BrokerInvHolds, PTL DEF Spec, SafetySpec

-----------------------------------------------------------------------------
(* The broker implements DeliveryQueue.                                    *)

\* The work and the hands of DeliveryQueue.
Work == {i \in Id : Tracked(i)}

Hand == [w \in Worker |-> IF wpc[w] = "busy" THEN weval[w].id ELSE NoEval.id]

\* The places that have an ID, one by one.
InTransit(i) ==
    \/ HasId(delayed, i) \/ HasId(dlq, i) \/ HasId(expired, i)
    \/ rcur.id = i \/ rnacked.id = i

GivenUp(i) == \E w \in Worker : wpc[w] = "nacked" /\ weval[w].id = i

LEMMA TrackedPlaces ==
    \A i : Tracked(i) <=> HasId(ready, i) \/ InTransit(i) \/ pending[i] # NoEval \/ GivenUp(i)
BY DEF Tracked, InTransit, GivenUp, HasId

LEMMA TrackedPlacesAfter ==
    \A i : Tracked(i)' <=>
        HasId(ready', i) \/ InTransit(i)' \/ pending'[i] # NoEval \/ GivenUp(i)'
BY DEF Tracked, InTransit, GivenUp, HasId

\* What adding or removing one evaluation does to the IDs of a set.
LEMMA HasIdRules ==
    \A S, e, i : /\ HasId(S \cup {e}, i) <=> HasId(S, i) \/ e.id = i
                 /\ HasId(S, i) => HasId(S \ {e}, i) \/ e.id = i
                 /\ HasId(S \ {e}, i) => HasId(S, i)
BY DEF HasId

\* A step that leaves the hands alone and loses work only when the broker is closed
\* is a Drop or a stutter.
LEMMA KeptOrDropped ==
    ASSUME UNCHANGED closed, closed \in BOOLEAN, Hand' = Hand,
           \A i \in Id : Tracked(i)' => Tracked(i),
           ~closed => \A i \in Id : Tracked(i) => Tracked(i)'
    PROVE  [Delivery!Next]_(Delivery!queueState)
<1>1. CASE closed
  <2>1. Work' \in SUBSET Work
    BY DEF Work
  <2> QED BY <1>1, <2>1 DEF Delivery!Next, Delivery!Drop, Hand, Work
<1>2. CASE ~closed
  <2>1. Work' = Work
    BY <1>2 DEF Work
  <2> QED BY <2>1 DEF Delivery!queueState, Hand, Work
<1> QED BY <1>1, <1>2

\* An Enqueue by whoever has the evaluation in transit: its ID stays tracked, or is
\* dropped by the closed broker.
LEMMA EnqueueOfTracked ==
    ASSUME TypeOK, NEW e \in Evaluation, NEW pc \in [Worker -> WorkerPC], Enqueue(e, pc),
           Tracked(e.id), UNCHANGED closed, UNCHANGED <<pending, dlq>>,
           \A i \in Id : InTransit(i)' => InTransit(i),
           \A i \in Id : InTransit(i) => InTransit(i)' \/ i = e.id,
           \A i \in Id : GivenUp(i)' => GivenUp(i),
           \A i \in Id : GivenUp(i) => GivenUp(i)' \/ i = e.id,
           Hand' = Hand
    PROVE  [Delivery!Next]_(Delivery!queueState)
<1>1. /\ closed => ready' = ready
      /\ ~closed => \A i : HasId(ready', i) <=> HasId(ready, i) \/ e.id = i
      /\ closed \in BOOLEAN
  BY EnqueueEffect DEF TypeOK
<1>2. \A i \in Id : Tracked(i)' => Tracked(i)
  BY <1>1, TrackedPlaces, TrackedPlacesAfter
<1>3. ~closed => \A i \in Id : Tracked(i) => Tracked(i)'
  BY <1>1, TrackedPlaces, TrackedPlacesAfter
<1> QED BY <1>1, <1>2, <1>3, KeptOrDropped

\* Waking a worker changes neither what is in hand nor what is given up.
LEMMA WakingKeepsHands ==
    ASSUME UNCHANGED weval,
           \A w \in Worker : wpc'[w] = wpc[w] \/ (wpc[w] = "waiting" /\ wpc'[w] = "woken")
    PROVE  /\ Hand' = Hand
           /\ \A i : GivenUp(i)' <=> GivenUp(i)
BY DEF Hand, GivenUp

\* Steps that keep every ID tracked: the transit of an evaluation from one place of the
\* broker to another.
LEMMA MovesAreStutters ==
    ASSUME UNCHANGED closed, Hand' = Hand, \A i \in Id : Tracked(i)' <=> Tracked(i)
    PROVE  UNCHANGED Delivery!queueState
BY DEF Delivery!queueState, Hand

LEMMA DeliveryInit == Init => Delivery!Init
<1> SUFFICES ASSUME Init PROVE Delivery!Init
  OBVIOUS
<1>1. \A i \in Id : NoEval.id # i
  BY EvalBrokerAssumption DEF NoEval
<1>2. \A i \in Id : ~Tracked(i)
  BY <1>1 DEF Init, Tracked, HasId
<1> QED BY <1>2 DEF Init, Delivery!Init

\* Every step of the broker is a step of the queue or changes nothing it sees.
LEMMA DeliveryStep == BrokerInv /\ [Next]_vars => [Delivery!Next]_(Delivery!queueState)
<1> SUFFICES ASSUME BrokerInv, [Next]_vars PROVE [Delivery!Next]_(Delivery!queueState)
  OBVIOUS
<1> USE DEF brokerVars, workerVars, reaperVars
<1>0. TypeOK /\ PendingUnderId /\ ReaperHolds /\ UniqueIds
  BY DEF BrokerInv
<1>a. /\ ready \subseteq Evaluation /\ delayed \subseteq Evaluation /\ expired \subseteq Evaluation
      /\ closed \in BOOLEAN
      /\ wpc \in [Worker -> WorkerPC]
      /\ pending \in [Id -> Evaluation \cup {NoEval}]
      /\ weval \in [Worker -> Evaluation \cup {NoEval}]
      /\ \A w \in Worker : wpc[w] \in {"busy", "nacked"} => weval[w] \in Evaluation
      /\ rpc = "renack" => rnacked \in Evaluation
      /\ rpc = "enqueue" => rcur \in Evaluation
  BY <1>0 DEF TypeOK, ReaperHolds
<1>b. \A e \in Evaluation : e.id \in Id /\ e # NoEval /\ e.id # NoEval.id
  BY EvaluationFields, EvalBrokerAssumption
<1>1. ASSUME NEW i \in Id, NEW p \in Priority, Submit(i, p)
      PROVE  [Delivery!Next]_(Delivery!queueState)
  <2> DEFINE e == [id |-> i, prio |-> p, born |-> submits + 1]
  <2>1. e \in Evaluation /\ Enqueue(e, wpc) /\ e.id = i
    BY <1>0, <1>1, SubmittedIsEvaluation DEF Submit
  <2> HIDE DEF e
  <2>2. UNCHANGED <<pending, dlq, closed, delayed, weval, reaperVars>>
    BY <1>1 DEF Submit
  <2>3. /\ \A w \in Worker : wpc'[w] = wpc[w] \/ (wpc[w] = "waiting" /\ wpc'[w] = "woken")
        /\ closed => ready' = ready
        /\ ~closed => \A j : HasId(ready', j) <=> HasId(ready, j) \/ i = j
    BY <1>a, <2>1, EnqueueEffect
  <2>4. Hand' = Hand /\ \A j : GivenUp(j)' <=> GivenUp(j)
    BY <2>2, <2>3, WakingKeepsHands
  <2>5. \A j : InTransit(j)' <=> InTransit(j)
    BY <2>2 DEF InTransit
  <2>6. CASE closed
    <3>1. \A j \in Id : Tracked(j)' <=> Tracked(j)
      BY <2>2, <2>3, <2>4, <2>5, <2>6, TrackedPlaces, TrackedPlacesAfter
    <3> QED BY <2>2, <2>4, <3>1, MovesAreStutters
  <2>7. CASE ~closed
    <3>1. \A j \in Id : Tracked(j)' <=> Tracked(j) \/ i = j
      BY <2>2, <2>3, <2>4, <2>5, <2>7, TrackedPlaces, TrackedPlacesAfter
    <3>2. Work' = Work \cup {i}
      BY <3>1 DEF Work
    <3>3. Delivery!Accept(i)
      BY <2>2, <2>4, <2>7, <3>2 DEF Delivery!Accept, Work, Hand
    <3> QED BY <3>3 DEF Delivery!Next
  <2> QED BY <1>a, <2>6, <2>7
<1>2. ASSUME NEW w \in Worker, Dequeue(w) PROVE [Delivery!Next]_(Delivery!queueState)
  <2>1. PICK e \in ready : /\ ready' = ready \ {e}
                           /\ pending' = [pending EXCEPT ![e.id] = e]
                           /\ weval' = [weval EXCEPT ![w] = e]
    BY <1>2 DEF Dequeue
  <2>2. e \in Evaluation /\ e.id \in Id /\ e # NoEval
    BY <1>a, <1>b
  <2>3. /\ wpc' = [wpc EXCEPT ![w] = "busy"] /\ wpc[w] \in {"idle", "woken"} /\ ~closed
        /\ UNCHANGED <<dlq, closed, delayed, reaperVars>>
    BY <1>2 DEF Dequeue
  <2>4. \A j : /\ InTransit(j)' <=> InTransit(j)
               /\ GivenUp(j)' <=> GivenUp(j)
    BY <1>a, <2>1, <2>3 DEF InTransit, GivenUp
  <2>5. \A j \in Id : Tracked(j)' <=> Tracked(j)
    <3>1. HasId(ready, e.id)
      BY DEF HasId
    <3>2. \A j : /\ HasId(ready', j) => HasId(ready, j)
                 /\ HasId(ready, j) => HasId(ready', j) \/ e.id = j
      BY <2>1, HasIdRules
    <3>3. \A j \in Id : pending'[j] # NoEval <=> pending[j] # NoEval \/ e.id = j
      BY <1>a, <2>1, <2>2
    <3> QED BY <2>4, <3>1, <3>2, <3>3, TrackedPlaces, TrackedPlacesAfter
  <2>6. Hand' = [Hand EXCEPT ![w] = e.id] /\ Hand[w] = NoEval.id
    BY <1>a, <2>1, <2>3 DEF Hand
  <2>7. Work' = Work /\ e.id \in Work
    BY <2>2, <2>5, TrackedPlaces DEF Work, HasId
  <2>8. Delivery!HandOut(w, e.id)
    BY <2>3, <2>6, <2>7 DEF Delivery!HandOut, Work, Hand
  <2> QED BY <2>2, <2>8 DEF Delivery!Next
<1>3. ASSUME NEW w \in Worker, DequeueWaits(w) \/ DequeueClosed(w)
      PROVE  [Delivery!Next]_(Delivery!queueState)
  <2>1. Hand' = Hand /\ \A j : GivenUp(j)' <=> GivenUp(j)
    BY <1>a, <1>3 DEF DequeueWaits, DequeueClosed, Hand, GivenUp
  <2>2. \A j \in Id : Tracked(j)' <=> Tracked(j)
    BY <1>3, <2>1, TrackedPlaces, TrackedPlacesAfter
       DEF DequeueWaits, DequeueClosed, InTransit
  <2>3. UNCHANGED closed
    BY <1>3 DEF DequeueWaits, DequeueClosed
  <2> QED BY <2>1, <2>2, <2>3, MovesAreStutters
<1>4. ASSUME NEW w \in Worker, Ack(w) PROVE [Delivery!Next]_(Delivery!queueState)
  <2>0. PICK i \in Id : i = weval[w].id
    BY <1>a, <1>b, <1>4 DEF Ack
  <2>1. wpc[w] = "busy" /\ i # NoEval.id
    BY <1>a, <1>b, <1>4, <2>0 DEF Ack
  <2>2. /\ pending' = [pending EXCEPT ![i] = NoEval]
        /\ wpc' = [wpc EXCEPT ![w] = "idle"]
        /\ weval' = [weval EXCEPT ![w] = NoEval]
        /\ UNCHANGED <<ready, dlq, closed, delayed, reaperVars>>
    BY <1>4, <2>0 DEF Ack
  <2>3. Hand[w] = i /\ Hand' = [Hand EXCEPT ![w] = NoEval.id]
    BY <1>a, <2>0, <2>1, <2>2 DEF Hand
  <2>4. \A j : /\ InTransit(j)' <=> InTransit(j)
               /\ GivenUp(j)' <=> GivenUp(j)
    BY <1>a, <2>1, <2>2 DEF InTransit, GivenUp
  <2>5. \A j \in Id \ {i} : Tracked(j)' <=> Tracked(j)
    BY <1>a, <2>2, <2>4, TrackedPlaces, TrackedPlacesAfter
  <2>6. Tracked(i)' => Tracked(i)
    BY <1>a, <2>1, <2>2, <2>4, TrackedPlaces, TrackedPlacesAfter
  <2>7. CASE Tracked(i)'
    <3>1. Work' = Work
      BY <2>1, <2>5, <2>6, <2>7 DEF Work
    <3>2. Delivery!GiveBack(w)
      BY <2>1, <2>2, <2>3, <3>1 DEF Delivery!GiveBack, Hand, Work
    <3> QED BY <3>2 DEF Delivery!Next
  <2>8. CASE ~Tracked(i)'
    <3>1. Work' = Work \ {i}
      BY <2>5, <2>8 DEF Work
    <3>2. Delivery!Settle(w)
      BY <2>1, <2>2, <2>3, <3>1 DEF Delivery!Settle, Hand, Work
    <3> QED BY <3>2 DEF Delivery!Next
  <2> QED BY <2>7, <2>8
<1>5. ASSUME NEW w \in Worker, Nack(w) PROVE [Delivery!Next]_(Delivery!queueState)
  <2> DEFINE i == weval[w].id
             again == pending[i] # NoEval /\ ~DeadLetters(i)
  <2>1. wpc[w] = "busy" /\ i \in Id /\ i # NoEval.id
    BY <1>a, <1>b, <1>5 DEF Nack
  <2>2. /\ wpc' = [wpc EXCEPT ![w] = IF again THEN "nacked" ELSE "idle"]
        /\ weval' = [weval EXCEPT ![w] = IF again THEN pending[i] ELSE NoEval]
        /\ UNCHANGED <<ready, closed, delayed, reaperVars>>
    BY <1>5 DEF Nack
  <2>3. Hand[w] = i /\ Hand' = [Hand EXCEPT ![w] = NoEval.id]
    BY <1>a, <2>1, <2>2 DEF Hand
  <2>4. \A j \in Id : Tracked(j)' <=> Tracked(j)
    <3> HIDE DEF i
    <3>1. CASE pending[i] # NoEval
      <4>1. TakeBack(i)
        BY <1>5, <3>1 DEF Nack, i
      <4>2. /\ pending' = [pending EXCEPT ![i] = NoEval]
            /\ dlq' = IF DeadLetters(i) THEN dlq \cup {pending[i]} ELSE dlq
        BY <1>0, <2>1, <3>1, <4>1, TakeBackEffect
      <4>3. pending[i].id = i
        BY <1>0, <2>1, <3>1 DEF PendingUnderId
      <4>4. \A j \in Id \ {i} : pending'[j] = pending[j]
        BY <1>a, <4>2
      <4>5. CASE DeadLetters(i)
        <5>1. \A j : InTransit(j)' <=> InTransit(j) \/ j = i
          BY <2>2, <4>2, <4>3, <4>5, HasIdRules DEF InTransit
        <5>2. \A j : GivenUp(j)' <=> GivenUp(j)
          BY <1>a, <2>1, <2>2, <4>5 DEF GivenUp
        <5> QED BY <2>2, <3>1, <4>4, <5>1, <5>2, TrackedPlaces, TrackedPlacesAfter
      <4>6. CASE ~DeadLetters(i)
        <5>1. \A j : InTransit(j)' <=> InTransit(j)
          BY <2>2, <4>2, <4>6 DEF InTransit
        <5>2. \A j : GivenUp(j)' <=> GivenUp(j) \/ j = i
          BY <1>a, <2>1, <2>2, <3>1, <4>3, <4>6 DEF GivenUp
        <5> QED BY <2>2, <3>1, <4>4, <5>1, <5>2, TrackedPlaces, TrackedPlacesAfter
      <4> QED BY <4>5, <4>6
    <3>2. CASE pending[i] = NoEval
      <4>1. UNCHANGED <<pending, dlq>>
        BY <1>5, <3>2 DEF Nack, i
      <4>2. \A j : /\ InTransit(j)' <=> InTransit(j)
                   /\ GivenUp(j)' <=> GivenUp(j)
        BY <1>a, <2>1, <2>2, <3>2, <4>1 DEF InTransit, GivenUp
      <4> QED BY <2>2, <4>1, <4>2, TrackedPlaces, TrackedPlacesAfter
    <3> QED BY <3>1, <3>2
  <2>5. Work' = Work
    BY <2>4 DEF Work
  <2>6. Delivery!GiveBack(w)
    BY <2>1, <2>2, <2>3, <2>5 DEF Delivery!GiveBack, Hand, Work
  <2> QED BY <2>6 DEF Delivery!Next
<1>6. ASSUME NEW w \in Worker, NackEnqueues(w) PROVE [Delivery!Next]_(Delivery!queueState)
  <2> DEFINE pc == [wpc EXCEPT ![w] = "idle"]
             e == weval[w]
  <2>1. wpc[w] = "nacked" /\ pc \in [Worker -> WorkerPC] /\ e \in Evaluation /\ Enqueue(e, pc)
    BY <1>a, <1>6 DEF NackEnqueues, WorkerPC
  <2>2. /\ weval' = [weval EXCEPT ![w] = NoEval]
        /\ UNCHANGED <<pending, dlq, closed, delayed, reaperVars>>
    BY <1>6 DEF NackEnqueues
  <2>3. pc[w] = "idle" /\ \A v \in Worker : v # w => pc[v] = wpc[v]
    BY <1>a
  <2> HIDE DEF pc
  <2>4. \A v \in Worker : wpc'[v] = pc[v] \/ (wpc[v] = "waiting" /\ wpc'[v] = "woken")
    BY <1>a, <2>1, EnqueueEffect
  <2>5. Hand' = Hand
    BY <1>a, <2>1, <2>2, <2>3, <2>4 DEF Hand
  <2>6. \A i \in Id : /\ GivenUp(i)' => GivenUp(i)
                      /\ GivenUp(i) => GivenUp(i)' \/ i = e.id
    BY <1>a, <2>1, <2>2, <2>3, <2>4 DEF GivenUp
  <2>7. \A i \in Id : InTransit(i)' <=> InTransit(i)
    BY <2>2 DEF InTransit
  <2>8. Tracked(e.id)
    BY <2>1, TrackedPlaces DEF GivenUp
  <2> HIDE DEF e
  <2> QED BY <1>0, <2>1, <2>2, <2>5, <2>6, <2>7, <2>8, EnqueueOfTracked
<1>7. ASSUME NEW w \in Worker, NackDelays(w) PROVE [Delivery!Next]_(Delivery!queueState)
  <2>1. /\ wpc[w] = "nacked" /\ delayed' = delayed \cup {weval[w]}
        /\ wpc' = [wpc EXCEPT ![w] = "idle"] /\ weval' = [weval EXCEPT ![w] = NoEval]
        /\ UNCHANGED <<ready, pending, dlq, closed, reaperVars>>
    BY <1>7 DEF NackDelays
  <2>2. Hand' = Hand
    BY <1>a, <2>1 DEF Hand
  <2>3. \A j : InTransit(j)' <=> InTransit(j) \/ j = weval[w].id
    BY <2>1, HasIdRules DEF InTransit
  <2>4. \A j : GivenUp(j)' \/ j = weval[w].id <=> GivenUp(j)
    BY <1>a, <2>1 DEF GivenUp
  <2>5. \A j \in Id : Tracked(j)' <=> Tracked(j)
    BY <2>1, <2>3, <2>4, TrackedPlaces, TrackedPlacesAfter
  <2> QED BY <2>1, <2>2, <2>5, MovesAreStutters
<1>8. ASSUME NEW e \in delayed, TimerFires(e) PROVE [Delivery!Next]_(Delivery!queueState)
  <2>1. /\ e \in Evaluation /\ Enqueue(e, wpc) /\ delayed' = delayed \ {e}
        /\ UNCHANGED <<pending, dlq, closed, weval, reaperVars>>
    BY <1>a, <1>8 DEF TimerFires
  <2>2. \A w \in Worker : wpc'[w] = wpc[w] \/ (wpc[w] = "waiting" /\ wpc'[w] = "woken")
    BY <1>a, <2>1, EnqueueEffect
  <2>3. Hand' = Hand /\ \A i : GivenUp(i)' <=> GivenUp(i)
    BY <2>1, <2>2, WakingKeepsHands
  <2>4. \A i \in Id : /\ InTransit(i)' => InTransit(i)
                      /\ InTransit(i) => InTransit(i)' \/ i = e.id
    BY <2>1, HasIdRules DEF InTransit
  <2>5. Tracked(e.id)
    BY TrackedPlaces DEF InTransit, HasId
  <2> QED BY <1>0, <1>a, <2>1, <2>3, <2>4, <2>5, EnqueueOfTracked
<1>9. ASSUME Close PROVE [Delivery!Next]_(Delivery!queueState)
  <2>1. Hand' = Hand /\ \A i : GivenUp(i)' <=> GivenUp(i)
    BY <1>a, <1>9 DEF Close, Hand, GivenUp
  <2>2. \A i \in Id : Tracked(i)' <=> Tracked(i)
    BY <1>9, <2>1, TrackedPlaces, TrackedPlacesAfter DEF Close, InTransit
  <2>3. Work' = Work
    BY <2>2 DEF Work
  <2>4. Delivery!Shut
    BY <1>9, <2>1, <2>3 DEF Close, Delivery!Shut, Hand, Work
  <2> QED BY <2>4 DEF Delivery!Next
<1>10. ASSUME NEW i \in Id, DeadlinePasses(i) PROVE [Delivery!Next]_(Delivery!queueState)
  <2>1. \A j : Tracked(j)' <=> Tracked(j)
    BY <1>10 DEF DeadlinePasses, Tracked, HasId
  <2>2. Hand' = Hand /\ UNCHANGED closed
    BY <1>10 DEF DeadlinePasses, Hand
  <2> QED BY <2>1, <2>2, MovesAreStutters
<1>11. ASSUME ReapExpired PROVE [Delivery!Next]_(Delivery!queueState)
  <2>1. /\ expired = {} /\ expired' = {pending[i] : i \in overdue}
        /\ pending' = [i \in Id |-> IF i \in overdue THEN NoEval ELSE pending[i]]
        /\ UNCHANGED <<ready, dlq, closed, delayed, workerVars, rcur, rnacked>>
    BY <1>11 DEF ReapExpired
  <2>2. overdue \subseteq {i \in Id : pending[i] # NoEval}
    BY <1>0 DEF TypeOK
  <2>3. \A j \in Id : HasId(expired', j) <=> j \in overdue
    BY <1>0, <2>1, <2>2 DEF HasId, PendingUnderId
  <2>4. Hand' = Hand /\ \A j : GivenUp(j)' <=> GivenUp(j)
    BY <2>1 DEF Hand, GivenUp
  <2>5. \A j \in Id : InTransit(j)' <=> InTransit(j) \/ j \in overdue
    BY <2>1, <2>3 DEF InTransit, HasId
  <2>6. \A j \in Id : Tracked(j)' <=> Tracked(j)
    BY <2>1, <2>2, <2>4, <2>5, TrackedPlaces, TrackedPlacesAfter
  <2> QED BY <2>1, <2>4, <2>6, MovesAreStutters
<1>12. ASSUME NEW e \in expired, ReapNack(e) PROVE [Delivery!Next]_(Delivery!queueState)
  <2> DEFINE i == e.id
             again == pending[i] # NoEval /\ ~DeadLetters(i)
  <2>1. e \in Evaluation /\ i \in Id /\ i # NoEval.id
    BY <1>a, <1>b
  <2>2. /\ rpc = "tick" /\ expired' = expired \ {e} /\ rcur' = e
        /\ rnacked' = IF again THEN pending[i] ELSE NoEval
        /\ UNCHANGED <<ready, closed, delayed, workerVars>>
    BY <1>12 DEF ReapNack
  <2>3. rcur = NoEval /\ rnacked = NoEval
    BY <1>0, <2>2 DEF ReaperHolds
  <2>4. Hand' = Hand /\ \A j : GivenUp(j)' <=> GivenUp(j)
    BY <2>2 DEF Hand, GivenUp
  <2>5. HasId(expired, i)
    BY DEF HasId
  <2>6. \A j \in Id : NoEval.id # j
    BY EvalBrokerAssumption DEF NoEval
  <2> HIDE DEF i
  <2>7. \A j : /\ HasId(expired', j) => HasId(expired, j)
               /\ HasId(expired, j) => HasId(expired', j) \/ j = i
    BY <2>2, HasIdRules DEF i
  <2>8. \A j \in Id : Tracked(j)' <=> Tracked(j)
    <3>0. rcur'.id = i
      BY <2>2 DEF i
    <3>1. CASE pending[i] # NoEval
      <4>1. TakeBack(i)
        BY <1>12, <3>1 DEF ReapNack, i
      <4>2. /\ pending' = [pending EXCEPT ![i] = NoEval]
            /\ dlq' = IF DeadLetters(i) THEN dlq \cup {pending[i]} ELSE dlq
        BY <1>0, <2>1, <3>1, <4>1, TakeBackEffect
      <4>3. pending[i].id = i
        BY <1>0, <2>1, <3>1 DEF PendingUnderId
      <4>4. \A j \in Id \ {i} : pending'[j] = pending[j]
        BY <1>a, <4>2
      <4>5. \A j : HasId(dlq', j) => HasId(dlq, j) \/ j = i
        BY <4>2, <4>3, HasIdRules
      <4>6. \A j : HasId(dlq, j) => HasId(dlq', j)
        BY <4>2, HasIdRules
      <4>7. rnacked'.id \in {i, NoEval.id}
        BY <2>2, <4>3
      <4>8. \A j \in Id : InTransit(j)' <=> InTransit(j)
        BY <2>2, <2>3, <2>5, <2>6, <2>7, <3>0, <4>5, <4>6, <4>7 DEF InTransit
      <4>9. InTransit(i)
        BY <2>5 DEF InTransit
      <4> QED BY <2>2, <2>4, <4>4, <4>8, <4>9, TrackedPlaces, TrackedPlacesAfter
    <3>2. CASE pending[i] = NoEval
      <4>1. UNCHANGED <<pending, dlq>>
        BY <1>12, <3>2 DEF ReapNack, i
      <4>2. rnacked' = NoEval
        BY <2>2, <3>2
      <4>3. \A j \in Id : InTransit(j)' <=> InTransit(j)
        BY <2>2, <2>3, <2>5, <2>6, <2>7, <3>0, <4>1, <4>2 DEF InTransit
      <4> QED BY <2>2, <2>4, <4>1, <4>3, TrackedPlaces, TrackedPlacesAfter
    <3> QED BY <3>1, <3>2
  <2> QED BY <2>2, <2>4, <2>8, MovesAreStutters
<1>13. ASSUME ReapRenack PROVE [Delivery!Next]_(Delivery!queueState)
  <2>1. /\ rpc = "renack" /\ rnacked' = NoEval
        /\ UNCHANGED <<pending, dlq, closed, weval, expired, rcur>>
    BY <1>13 DEF ReapRenack
  <2>2. rnacked \in Evaluation /\ \A j \in Id : NoEval.id # j
    BY <1>a, <2>1, EvalBrokerAssumption DEF NoEval
  <2>3. Tracked(rnacked.id)
    BY TrackedPlaces DEF InTransit
  <2>4. CASE Enqueue(rnacked, wpc) /\ UNCHANGED delayed
    <3>1. \A w \in Worker : wpc'[w] = wpc[w] \/ (wpc[w] = "waiting" /\ wpc'[w] = "woken")
      BY <1>a, <2>2, <2>4, EnqueueEffect
    <3>2. Hand' = Hand /\ \A i : GivenUp(i)' <=> GivenUp(i)
      BY <2>1, <3>1, WakingKeepsHands
    <3>3. \A i \in Id : /\ InTransit(i)' => InTransit(i)
                        /\ InTransit(i) => InTransit(i)' \/ i = rnacked.id
      BY <2>1, <2>2, <2>4 DEF InTransit
    <3> QED BY <1>0, <1>a, <2>1, <2>2, <2>3, <2>4, <3>2, <3>3, EnqueueOfTracked
  <2>5. CASE delayed' = delayed \cup {rnacked} /\ UNCHANGED <<ready, wpc>>
    <3>1. Hand' = Hand /\ \A i : GivenUp(i)' <=> GivenUp(i)
      BY <2>1, <2>5 DEF Hand, GivenUp
    <3>2. \A i \in Id : InTransit(i)' <=> InTransit(i)
      BY <2>1, <2>2, <2>5, HasIdRules DEF InTransit
    <3>3. \A i \in Id : Tracked(i)' <=> Tracked(i)
      BY <2>1, <2>5, <3>1, <3>2, TrackedPlaces, TrackedPlacesAfter
    <3> QED BY <2>1, <3>1, <3>3, MovesAreStutters
  <2> QED BY <1>13, <2>4, <2>5 DEF ReapRenack
<1>14. ASSUME ReapEnqueue PROVE [Delivery!Next]_(Delivery!queueState)
  <2>1. /\ rpc = "enqueue" /\ rcur' = NoEval /\ Enqueue(rcur, wpc)
        /\ UNCHANGED <<pending, dlq, closed, delayed, weval, expired, rnacked>>
    BY <1>14 DEF ReapEnqueue
  <2>2. rcur \in Evaluation /\ \A j \in Id : NoEval.id # j
    BY <1>a, <2>1, EvalBrokerAssumption DEF NoEval
  <2>3. Tracked(rcur.id)
    BY TrackedPlaces DEF InTransit
  <2>4. \A w \in Worker : wpc'[w] = wpc[w] \/ (wpc[w] = "waiting" /\ wpc'[w] = "woken")
    BY <1>a, <2>1, <2>2, EnqueueEffect
  <2>5. Hand' = Hand /\ \A i : GivenUp(i)' <=> GivenUp(i)
    BY <2>1, <2>4, WakingKeepsHands
  <2>6. \A i \in Id : /\ InTransit(i)' => InTransit(i)
                      /\ InTransit(i) => InTransit(i)' \/ i = rcur.id
    BY <2>1, <2>2 DEF InTransit
  <2> QED BY <1>0, <1>a, <2>1, <2>2, <2>3, <2>5, <2>6, EnqueueOfTracked
<1>15. ASSUME ReapExits \/ UNCHANGED vars PROVE [Delivery!Next]_(Delivery!queueState)
  <2>1. \A j : Tracked(j)' <=> Tracked(j)
    BY <1>15 DEF ReapExits, vars, Tracked, HasId
  <2>2. Hand' = Hand /\ UNCHANGED closed
    BY <1>15 DEF ReapExits, vars, Hand
  <2> QED BY <2>1, <2>2, MovesAreStutters
<1> QED
  BY <1>1, <1>2, <1>3, <1>4, <1>5, <1>6, <1>7, <1>8, <1>9, <1>10, <1>11, <1>12, <1>13,
     <1>14, <1>15
  DEF Next, DequeueStep, NackRest, ReapStep, Terminated

\* Items only leave the system on Ack: the broker is an at-least-once queue, whatever
\* its workers, timers and reaper do and wherever they are interrupted.
THEOREM ImplementsDelivery == Spec => LeavesOnlyOnAck
<1>1. Init => Delivery!Init
  BY DeliveryInit
<1>2. BrokerInv /\ [Next]_vars => [Delivery!Next]_(Delivery!queueState)
  BY DeliveryStep
<1>3. Spec => Delivery!Spec
  BY <1>1, <1>2, BrokerInvHolds, PTL DEF Spec, SafetySpec, Delivery!Spec
<1> QED BY <1>3 DEF LeavesOnlyOnAck
==============================================================================
