----------------------------- MODULE SimpleQueue -----------------------------
(***************************************************************************)
(* workqueue.SimpleQueue (src/internal/workqueue/queue.go): the queue of   *)
(* resource keys between the watch loop and the workers of a controller,   *)
(* with the failure counts of the rate limiter it owns                     *)
(* (ItemExponentialFailureRateLimiter, src/internal/workqueue/             *)
(* ratelimiters.go).                                                       *)
(*                                                                         *)
(* Every method runs under sq.mu, so each is one action.  The module has   *)
(* no next-state relation of its own: a controller module EXTENDS it and   *)
(* calls its actions.  A Get that waits on the condition variable is a Get *)
(* that is not enabled.                                                    *)
(***************************************************************************)
EXTENDS Naturals, Sequences

CONSTANT Key        \* the resource keys ("namespace/name")

VARIABLES
    queue,          \* sq.queue, oldest first
    dirty,          \* sq.dirty: the keys Add takes to be queued already
    inProgress,     \* sq.inProgress
    failures,       \* the rate limiter's requeue count of each key
    shutdown        \* sq.shutdown

queueVars == <<queue, dirty, inProgress, failures, shutdown>>

QueueTypeOK ==
    /\ queue \in Seq(Key)
    /\ dirty \subseteq Key
    /\ inProgress \subseteq Key
    /\ failures \in [Key -> Nat]
    /\ shutdown \in BOOLEAN

QueueInit ==
    /\ queue = <<>>
    /\ dirty = {}
    /\ inProgress = {}
    /\ failures = [k \in Key |-> 0]
    /\ shutdown = FALSE

\* Mutant: an Add that also skips a key in progress, with no Done to add it again.
AddSkipsInProgress(k) ==
    /\ IF shutdown \/ k \in dirty \cup inProgress
       THEN UNCHANGED <<queue, dirty>>
       ELSE /\ queue' = Append(queue, k)
            /\ dirty' = dirty \cup {k}
    /\ UNCHANGED <<inProgress, failures, shutdown>>

\* A key that is dirty is taken to be in the queue, and a queue that was shut
\* down refuses every key.
Add(k) ==
    /\ IF shutdown \/ k \in dirty
       THEN UNCHANGED <<queue, dirty>>
       ELSE /\ queue' = Append(queue, k)
            /\ dirty' = dirty \cup {k}
    /\ UNCHANGED <<inProgress, failures, shutdown>>

\* Mutant: a Get that leaves the key dirty.
GetLeavesDirty(k) ==
    /\ ~shutdown
    /\ queue # <<>>
    /\ k = Head(queue)
    /\ queue' = Tail(queue)
    /\ inProgress' = inProgress \cup {k}
    /\ UNCHANGED <<dirty, failures, shutdown>>

\* Get hands out the head of the queue.  It does not look at inProgress.
Get(k) ==
    /\ ~shutdown
    /\ queue # <<>>
    /\ k = Head(queue)
    /\ queue' = Tail(queue)
    /\ dirty' = dirty \ {k}
    /\ inProgress' = inProgress \cup {k}
    /\ UNCHANGED <<failures, shutdown>>

\* RateLimiter.When, as AddRateLimited calls it: the count grows, and the
\* delay is computed from the count before it.
When(k) ==
    /\ failures' = [failures EXCEPT ![k] = @ + 1]
    /\ UNCHANGED <<queue, dirty, inProgress, shutdown>>

\* Mutant: a Done that leaves the rate limiter alone.
DoneKeepsFailures(k) ==
    /\ inProgress' = inProgress \ {k}
    /\ UNCHANGED <<queue, dirty, failures, shutdown>>

\* Done ends an attempt, and forgets the key's failures whatever its outcome.
Done(k) ==
    /\ inProgress' = inProgress \ {k}
    /\ failures' = [failures EXCEPT ![k] = 0]
    /\ UNCHANGED <<queue, dirty, shutdown>>

\* Forget clears the dirty mark also of a key that was queued again while it
\* was being processed.
Forget(k) ==
    /\ inProgress' = inProgress \ {k}
    /\ failures' = [failures EXCEPT ![k] = 0]
    /\ dirty' = dirty \ {k}
    /\ UNCHANGED <<queue, shutdown>>

\* Mutant: a Shutdown that wakes the workers without setting the flag.
ShutdownOnlyWakes ==
    UNCHANGED queueVars

\* Get fails from now on, and workers that wait in it are woken.
Shutdown ==
    /\ shutdown' = TRUE
    /\ UNCHANGED <<queue, dirty, inProgress, failures>>
==============================================================================
