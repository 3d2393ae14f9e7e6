----------------------------- MODULE QueueWorker -----------------------------
(***************************************************************************)
(* workqueue.Worker.Run and the controllers that run it: the pipeline      *)
(* controllers of cdc, etl and jobs (src/internal/workqueue/queue.go,      *)
(* cdc/controller.go, etl/controller.go, jobs/controller.go).  Start       *)
(* launches workers over one SimpleQueue; Stop cancels their context and   *)
(* waits until all have returned.                                          *)
(***************************************************************************)
EXTENDS SimpleQueue, FiniteSets

CONSTANTS
    QueueWorkers,
    MaxRetries,     \* Worker.maxRetries
    MaxAsleep,      \* bound: goroutines asleep in AddAfter for one key
    MaxQueue        \* bound: length of the queue, which a give-up lets grow: Forget
                    \* clears the mark of a key that is queued, and it is queued again

\* The controllers start two or four workers each.
ASSUME QueueWorkerAssumption ==
    /\ IsFiniteSet(QueueWorkers) /\ QueueWorkers # {}
    /\ {MaxRetries, MaxAsleep, MaxQueue} \subseteq Nat

VARIABLES
    runpc,      \* where the Run of each worker is
    item,       \* the item it has taken: its key and RetryCount
    asleepFor,  \* goroutines of AddAfter that have yet to call Add, per key
    control     \* what the controller is at

runVars == <<queueVars, runpc, item, asleepFor, control>>

NoItem == [key |-> "none", retries |-> 0]

RunInit ==
    /\ QueueInit
    /\ runpc = [w \in QueueWorkers |-> "check"]
    /\ item = [w \in QueueWorkers |-> NoItem]
    /\ asleepFor = [k \in Key |-> 0]
    /\ control = "running"

\* The context of the workers is done.
ContextDone == control # "running"

Enqueued(k) ==
    /\ Len(queue) < MaxQueue
    /\ ~shutdown /\ k \notin dirty      \* an Add that changes nothing is no step
    /\ Add(k)
    /\ UNCHANGED <<runpc, item, asleepFor, control>>

AddAfterWakes(k) ==
    /\ asleepFor[k] > 0
    /\ Len(queue) < MaxQueue \/ shutdown \/ k \in dirty
    /\ asleepFor' = [asleepFor EXCEPT ![k] = @ - 1]
    /\ Add(k)
    /\ UNCHANGED <<runpc, item, control>>

\* Stop, once; its wait for the workers ends when the last has returned.
Stop ==
    /\ control = "running"
    /\ control' = "stopping"
    /\ UNCHANGED <<queueVars, runpc, item, asleepFor>>

StopReturns ==
    /\ control = "stopping"
    /\ \A w \in QueueWorkers : runpc[w] = "returned"
    /\ control' = "stopped"
    /\ UNCHANGED <<queueVars, runpc, item, asleepFor>>

Goto(w, pc) == runpc' = [runpc EXCEPT ![w] = pc]

\* Mutant: a worker that sees the context done returns without shutting down.
ChecksOnly(w) ==
    /\ runpc[w] = "check"
    /\ IF ContextDone THEN Goto(w, "returned") ELSE Goto(w, "get")
    /\ UNCHANGED <<queueVars, item, asleepFor, control>>

\* The context is looked at between items; a worker that finds it done shuts down the
\* queue, and so wakes the others.
Checks(w) ==
    /\ runpc[w] = "check"
    /\ IF ContextDone THEN Shutdown /\ Goto(w, "returned")
       ELSE UNCHANGED queueVars /\ Goto(w, "get")
    /\ UNCHANGED <<item, asleepFor, control>>

Gets(w) ==
    /\ runpc[w] = "get"
    /\ \E k \in Key :
        /\ Get(k)
        /\ item' = [item EXCEPT ![w] = [key |-> k, retries |-> failures[k]]]
    /\ Goto(w, "process")
    /\ UNCHANGED <<asleepFor, control>>

GetFails(w) ==
    /\ runpc[w] = "get"
    /\ shutdown
    /\ Goto(w, "returned")
    /\ UNCHANGED <<queueVars, item, asleepFor, control>>

Ends(w) == Goto(w, "check") /\ item' = [item EXCEPT ![w] = NoItem]

\* The etl and jobs controllers ask for another run of a key before they return.
Requeues(w) ==
    /\ runpc[w] = "process"
    /\ asleepFor[item[w].key] < MaxAsleep
    /\ asleepFor' = [asleepFor EXCEPT ![item[w].key] = @ + 1]
    /\ Goto(w, "requeued")
    /\ UNCHANGED <<queueVars, item, control>>

Processing(w) == runpc[w] \in {"process", "requeued"}

Succeeds(w) ==
    /\ Processing(w)
    /\ Done(item[w].key)
    /\ Ends(w)
    /\ UNCHANGED <<asleepFor, control>>

\* Mutant: the retries are counted from the value AddRateLimited returns.
GivesUpLate(w) == item[w].retries > MaxRetries

\* An item that has had its retries.
GivesUp(w) == item[w].retries >= MaxRetries

Fails(w) ==
    /\ Processing(w)
    /\ IF GivesUp(w) THEN Forget(item[w].key) /\ UNCHANGED asleepFor
       ELSE /\ When(item[w].key)
            /\ asleepFor[item[w].key] < MaxAsleep
            /\ asleepFor' = [asleepFor EXCEPT ![item[w].key] = @ + 1]
    /\ Ends(w)
    /\ UNCHANGED control

RunStep(w) == Checks(w) \/ Gets(w) \/ GetFails(w) \/ Requeues(w) \/ Succeeds(w) \/ Fails(w)

RunNext ==
    \/ \E k \in Key : Enqueued(k) \/ AddAfterWakes(k)
    \/ \E w \in QueueWorkers : RunStep(w)
    \/ Stop \/ StopReturns

\* Workers and delays run; nothing else is ever enqueued, and nobody has to call Stop.
RunFairness ==
    /\ \A w \in QueueWorkers : WF_runVars(RunStep(w))
    /\ \A k \in Key : WF_runVars(AddAfterWakes(k))
    /\ WF_runVars(StopReturns)

RunSpec == RunInit /\ [][RunNext]_runVars /\ RunFairness

-----------------------------------------------------------------------------
(* What a controller promises.                                             *)

\* A key that fails again and again is tried MaxRetries times, and once more for every
\* other worker that had it in hand when the count was full.
RetriesAreBounded ==
    \A k \in Key : failures[k] <= MaxRetries + Cardinality(QueueWorkers) - 1

\* All the workers wait in Get for a key.
AllAsleep == ~shutdown /\ queue = <<>> /\ \A w \in QueueWorkers : runpc[w] = "get"

\* Stop returns, except when all the workers sleep in Get: a worker that is awake, or
\* that a late key wakes, sees the context and shuts the queue down for the rest.
StopReturnsUnlessAsleep == (control = "stopping") ~> (control = "stopped" \/ AllAsleep)
==============================================================================
