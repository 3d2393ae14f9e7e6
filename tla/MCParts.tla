------------------------------- MODULE MCParts -------------------------------
(***************************************************************************)
(* The components that share no state, in one instance: a behaviour picks  *)
(* one of them and runs it, so each is explored by itself.                 *)
(***************************************************************************)
EXTENDS CircuitBreaker, PlanApplier, Drainer, GarbageCollector, BlockingQuery,
        QueueWorker, DistributedLock, DistributedElection, DistributedCounter, RaftFSM,
        Deployment, Heartbeat, Informer, DelayingQueue

CONSTANT Parts      \* the components to run

VARIABLE part       \* the one that runs

vars == <<part, breakerVars, applierVars, drainerVars, gcVars, pollVars, runVars, lockVars,
          trypc, leads, counterVars, fsmVars, rolloutVars, trackerVars, informerVars,
          delayVars>>

Init ==
    /\ part \in Parts
    /\ BreakerInit /\ ApplierInit /\ DrainerInit /\ GCInit /\ PollInit /\ RunInit
    /\ LockInit /\ ElectInit /\ CounterInit /\ FSMInit
    /\ RolloutInit /\ TrackerInit /\ InformerInit /\ DelayInit
    /\ part # "rollout" => strategy = "canary" /\ auto
    \* the stores' kinds matter to the parts that use them
    /\ part \notin {"lock", "election"} => InMemory
    /\ part # "counter" => ~inEtcd

Breaker ==
    /\ part = "breaker" /\ BreakerNext
    /\ UNCHANGED <<part, applierVars, drainerVars, gcVars, pollVars, runVars, lockVars,
                   trypc, leads, counterVars, fsmVars, rolloutVars, trackerVars,
                   informerVars, delayVars>>

Applier ==
    /\ part = "applier" /\ ApplierNext
    /\ UNCHANGED <<part, breakerVars, drainerVars, gcVars, pollVars, runVars, lockVars,
                   trypc, leads, counterVars, fsmVars, rolloutVars, trackerVars,
                   informerVars, delayVars>>

Drains ==
    /\ part = "drainer" /\ DrainerNext
    /\ UNCHANGED <<part, breakerVars, applierVars, gcVars, pollVars, runVars, lockVars,
                   trypc, leads, counterVars, fsmVars, rolloutVars, trackerVars,
                   informerVars, delayVars>>

Collector ==
    /\ part = "collector" /\ GCNext
    /\ UNCHANGED <<part, breakerVars, applierVars, drainerVars, pollVars, runVars, lockVars,
                   trypc, leads, counterVars, fsmVars, rolloutVars, trackerVars,
                   informerVars, delayVars>>

Polls ==
    /\ part = "poll" /\ PollNext
    /\ UNCHANGED <<part, breakerVars, applierVars, drainerVars, gcVars, runVars, lockVars,
                   trypc, leads, counterVars, fsmVars, rolloutVars, trackerVars,
                   informerVars, delayVars>>

Runs ==
    /\ part = "worker" /\ RunNext
    /\ UNCHANGED <<part, breakerVars, applierVars, drainerVars, gcVars, pollVars, lockVars,
                   trypc, leads, counterVars, fsmVars, rolloutVars, trackerVars,
                   informerVars, delayVars>>

Locks ==
    /\ part = "lock" /\ LockNext
    /\ UNCHANGED <<part, breakerVars, applierVars, drainerVars, gcVars, pollVars, runVars,
                   trypc, leads, counterVars, fsmVars, rolloutVars, trackerVars,
                   informerVars, delayVars>>

Elects ==
    /\ part = "election" /\ ElectNext
    /\ UNCHANGED <<part, breakerVars, applierVars, drainerVars, gcVars, pollVars, runVars,
                   lockpc, trampled, counterVars, fsmVars, rolloutVars, trackerVars,
                   informerVars, delayVars>>

Counter ==
    /\ part = "counter" /\ CounterNext
    /\ UNCHANGED <<part, breakerVars, applierVars, drainerVars, gcVars, pollVars, runVars,
                   lockVars, trypc, leads, fsmVars, rolloutVars, trackerVars,
                   informerVars, delayVars>>

StateMachine ==
    /\ part = "raft" /\ FSMNext
    /\ UNCHANGED <<part, breakerVars, applierVars, drainerVars, gcVars, pollVars, runVars,
                   lockVars, trypc, leads, counterVars, rolloutVars, trackerVars,
                   informerVars, delayVars>>

Rollout ==
    /\ part = "rollout" /\ RolloutNext
    /\ UNCHANGED <<part, breakerVars, applierVars, drainerVars, gcVars, pollVars, runVars,
                   lockVars, trypc, leads, counterVars, fsmVars, trackerVars,
                   informerVars, delayVars>>

Tracker ==
    /\ part = "tracker" /\ TrackerNext
    /\ UNCHANGED <<part, breakerVars, applierVars, drainerVars, gcVars, pollVars, runVars,
                   lockVars, trypc, leads, counterVars, fsmVars, rolloutVars,
                   informerVars, delayVars>>

Informs ==
    /\ part = "informer" /\ InformerNext
    /\ UNCHANGED <<part, breakerVars, applierVars, drainerVars, gcVars, pollVars, runVars,
                   lockVars, trypc, leads, counterVars, fsmVars, rolloutVars, trackerVars,
                   delayVars>>

Delays ==
    /\ part = "delays" /\ DelayNext
    /\ UNCHANGED <<part, breakerVars, applierVars, drainerVars, gcVars, pollVars, runVars,
                   lockVars, trypc, leads, counterVars, fsmVars, rolloutVars, trackerVars,
                   informerVars>>

Next ==
    \/ Breaker \/ Applier \/ Drains \/ Collector \/ Polls
    \/ Runs \/ Locks \/ Elects \/ Counter \/ StateMachine
    \/ Rollout \/ Tracker \/ Informs \/ Delays

SafetySpec == Init /\ [][Next]_vars

\* The fairness of each component while it is the one that runs.
Spec ==
    /\ SafetySpec
    /\ \A c \in Caller :
        /\ WF_breakerVars(part = "breaker" /\ ExecuteBegins(c))
        /\ WF_breakerVars(part = "breaker" /\ ExecuteReturns(c))
    /\ WF_breakerVars(part = "breaker" /\ TimeoutPasses)
    /\ \A d \in 1..MaxDrains :
        /\ WF_drainerVars(part = "drainer" /\ d \in Begun /\ DrainStep(d))
        /\ SF_drainerVars(part = "drainer" /\ d \in Begun /\ Emit(d))
    /\ WF_gcVars(part = "collector" /\ CollectorStep)
    /\ WF_pollVars(part = "poll" /\ Stamp)
    /\ \A p \in Poller :
        /\ WF_pollVars(part = "poll" /\ PollStep(p))
        /\ WF_pollVars(part = "poll" /\ TimerWakes(p))
        /\ WF_pollVars(part = "poll" /\ CancelWakes(p))
    /\ \A w \in QueueWorkers : WF_runVars(part = "worker" /\ RunStep(w))
    /\ \A k \in Key : WF_runVars(part = "worker" /\ AddAfterWakes(k))
    /\ WF_runVars(part = "worker" /\ StopReturns)
    /\ WF_rolloutVars(part = "rollout" /\ ReportArrives)
    /\ WF_rolloutVars(part = "rollout" /\ DeadlineElapses)
    /\ WF_trackerVars(part = "tracker" /\ ReaperStep)
    /\ \A c \in Client :
        /\ WF_lockVars(part = "lock" /\ AcquireStep(c))
        /\ SF_electVars(part = "election" /\ TryStep(c))
    /\ \A l \in 1..MaxLeases :
        /\ WF_lockVars(part = "lock" /\ LeaseExpires(l))
        /\ WF_electVars(part = "election" /\ ElectLeaseExpires(l))

-----------------------------------------------------------------------------

\* The key of a lock whose holder has died is free in the end, with the exceptions of
\* LockIsFreed; the lock and the election use the key of the store in turn.
LockKeyIsFreed == part = "lock" => LockIsFreed
==============================================================================
