------------------------------- MODULE Drainer -------------------------------
(***************************************************************************)
(* drainer.Drainer (src/internal/drainer/drainer.go): Begin and Cancel     *)
(* under d.mu, one goroutine per drain, and the channel of eviction        *)
(* requests they share.  A drain is known by the order of its Begin; of    *)
(* its allocations the model keeps how many are left.                      *)
(***************************************************************************)
EXTENDS Naturals

CONSTANTS
    DrainedNode,
    BatchSize,      \* Spec.BatchSize
    AllocCount,     \* bound: how many allocations a drain can have
    ChannelSize,    \* capacity of d.evictions, 64 in the code
    MaxDrains       \* bound: drains begun in a behaviour

ASSUME DrainerAssumption ==
    /\ {BatchSize, ChannelSize, MaxDrains} \subseteq Nat \ {0}
    /\ AllocCount \subseteq Nat

VARIABLES
    drains,     \* the drains begun so far
    active,     \* d.active, 0 for no entry
    evictions   \* requests in d.evictions

drainerVars == <<drains, active, evictions>>

Begun == DOMAIN drains

DrainerInit ==
    /\ drains = <<>>
    /\ active = [n \in DrainedNode |-> 0]
    /\ evictions = 0

Size(d) == drains[d].left

\* ErrAlreadyDraining is the disabled Begin.
Begin(n, allocs, force) ==
    LET d == [node |-> n, pc |-> "batch", left |-> allocs, batch |-> 0, forced |-> force,
              cancelled |-> FALSE]
        next == CHOOSE i \in 1..MaxDrains : i \notin Begun /\ \A j \in 1..i - 1 : j \in Begun
    IN  /\ Begun # 1..MaxDrains
        /\ active[n] = 0
        /\ drains' = [i \in Begun \cup {next} |-> IF i = next THEN d ELSE drains[i]]
        /\ active' = [active EXCEPT ![n] = next]
        /\ UNCHANGED evictions

\* Mutant: the entry goes and the context is left alone.
CancelForgets(n) ==
    /\ active[n] # 0
    /\ active' = [active EXCEPT ![n] = 0]
    /\ UNCHANGED <<drains, evictions>>

Cancel(n) ==
    /\ active[n] # 0
    /\ drains' = [drains EXCEPT ![active[n]].cancelled = TRUE]
    /\ active' = [active EXCEPT ![n] = 0]
    /\ UNCHANGED evictions

At(d, pc) == drains[d].pc = pc

\* The loop takes the next batch, and from the deadline on forces the evictions.  With
\* nothing left the goroutine returns.
TakeBatch(d) ==
    LET b == IF Size(d) < BatchSize THEN Size(d) ELSE BatchSize
    IN  /\ At(d, "batch")
        /\ \E deadline \in BOOLEAN :
            drains' = [drains EXCEPT ![d].pc = IF b = 0 THEN "return" ELSE "emit",
                                     ![d].batch = b, ![d].left = @ - b,
                                     ![d].forced = @ \/ (deadline /\ b > 0)]
        /\ UNCHANGED <<active, evictions>>

Emit(d) ==
    /\ At(d, "emit")
    /\ evictions < ChannelSize
    /\ evictions' = evictions + 1
    /\ drains' = [drains EXCEPT ![d].batch = @ - 1,
                                ![d].pc = IF drains[d].batch > 1 THEN "emit"
                                          ELSE IF Size(d) = 0 THEN "return"
                                          ELSE IF drains[d].forced THEN "batch" ELSE "delay"]
    /\ UNCHANGED active

DelayEnds(d) ==
    /\ At(d, "delay")
    /\ drains' = [drains EXCEPT ![d].pc = "batch"]
    /\ UNCHANGED <<active, evictions>>

\* Mutant: the send does not watch the context.
SeesCancelBetweenBatches(d) ==
    /\ At(d, "delay")
    /\ drains[d].cancelled
    /\ drains' = [drains EXCEPT ![d].pc = "return"]
    /\ UNCHANGED <<active, evictions>>

\* ctx.Done in the selects of the send and of the delay.
SeesCancel(d) ==
    /\ At(d, "emit") \/ At(d, "delay")
    /\ drains[d].cancelled
    /\ drains' = [drains EXCEPT ![d].pc = "return"]
    /\ UNCHANGED <<active, evictions>>

\* Mutant: the entry is left to Cancel.
ReturnsOnly(d) ==
    /\ At(d, "return")
    /\ drains' = [drains EXCEPT ![d].pc = "done", ![d].left = 0, ![d].batch = 0,
                                ![d].forced = FALSE]
    /\ UNCHANGED <<active, evictions>>

\* The deferred function removes the node's entry, whichever drain it is of.
Return(d) ==
    /\ At(d, "return")
    /\ drains' = [drains EXCEPT ![d].pc = "done", ![d].left = 0, ![d].batch = 0,
                                ![d].forced = FALSE]
    /\ active' = [active EXCEPT ![drains[d].node] = 0]
    /\ UNCHANGED evictions

Consume ==
    /\ evictions > 0
    /\ evictions' = evictions - 1
    /\ UNCHANGED <<drains, active>>

DrainStep(d) == TakeBatch(d) \/ Emit(d) \/ DelayEnds(d) \/ SeesCancel(d) \/ Return(d)

DrainerNext ==
    \/ \E n \in DrainedNode :
        Cancel(n) \/ \E allocs \in AllocCount, force \in BOOLEAN : Begin(n, allocs, force)
    \/ \E d \in Begun : DrainStep(d)
    \/ Consume

\* The goroutines run, and the senders of a channel that is read from time to time are
\* served in the order they came.  Nothing is assumed of the consumer.
DrainerFairness ==
    \A d \in 1..MaxDrains :
        /\ WF_drainerVars(d \in Begun /\ DrainStep(d))
        /\ SF_drainerVars(d \in Begun /\ Emit(d))

DrainerSpec == DrainerInit /\ [][DrainerNext]_drainerVars /\ DrainerFairness

-----------------------------------------------------------------------------
(* What the drainer promises.                                              *)

Running(d) == ~At(d, "done")

\* A drain that runs and was not cancelled is the node's entry, so that Begin refuses
\* another and Cancel reaches it; unless the node was drained before, that drain was
\* cancelled, and its goroutine has removed the entry of its successor.
RunningIsRegistered ==
    \A d \in Begun :
        Running(d) /\ ~drains[d].cancelled /\ active[drains[d].node] # d =>
            \E e \in Begun : e < d /\ drains[e].node = drains[d].node /\ drains[e].cancelled

\* Cancel halts a drain even when nobody takes its evictions.
CancelHalts ==
    \A d \in 1..MaxDrains :
        (d \in Begun /\ drains[d].cancelled) ~> (d \in Begun /\ At(d, "done"))

\* The entry of a drain goes when the drain does: a node can be drained again, unless
\* the consumer stops and the channel stays full.
NodeIsReleased ==
    []<>(evictions < ChannelSize) =>
        \A n \in DrainedNode : active[n] # 0 ~> active[n] = 0
==============================================================================
