---------------------------- MODULE DelayingQueue ----------------------------
(***************************************************************************)
(* workqueue.DelayingQueue (src/internal/workqueue/delaying.go): one       *)
(* goroutine adds delayed keys to the queue inside when their time has     *)
(* come.  AddAfter and Shutdown change the heap under dq.mu and send on    *)
(* dq.wake after they have released it.  Times are kept as what is left of *)
(* them; the queue inside is left out.                                     *)
(***************************************************************************)
EXTENDS Naturals, FiniteSets

CONSTANTS
    DelayedKey,
    MaxDelay,       \* bound: the delays asked for
    IdleSleep,      \* how long run sleeps beside an empty heap, an hour in the code
    MaxCallers      \* bound: calls between their critical section and their signal

ASSUME DelayingAssumption ==
    /\ {MaxDelay, IdleSleep, MaxCallers} \subseteq Nat
    /\ MaxDelay < IdleSleep

VARIABLES
    heap,       \* dq.heap: what is left of the delay of each key in it
    wake,       \* dq.wake has its one element
    signals,    \* calls that have yet to signal
    delaypc,    \* where run is
    timer,      \* what is left of the time run sleeps for
    closing     \* dq.shutdown

delayVars == <<heap, wake, signals, delaypc, timer, closing>>

Delayed == DOMAIN heap
Least == CHOOSE t \in {heap[k] : k \in Delayed} : \A k \in Delayed : t <= heap[k]
Until(t) == IF t > 0 THEN t - 1 ELSE 0

DelayInit ==
    /\ heap = <<>>
    /\ wake = FALSE
    /\ signals = 0
    /\ delaypc = "loop"
    /\ timer = 0
    /\ closing = FALSE

Scheduled(k, delay) == heap' = [j \in Delayed \cup {k} |-> IF j = k THEN delay ELSE heap[j]]
OwesSignal == signals < MaxCallers /\ signals' = signals + 1

\* Mutant: an entry that is moved forward wakes nobody.
AddAfterMovesSilently(k, delay) ==
    /\ ~closing
    /\ \/ k \notin Delayed /\ Scheduled(k, delay) /\ OwesSignal
       \/ k \in Delayed /\ delay < heap[k] /\ Scheduled(k, delay) /\ UNCHANGED signals
    /\ UNCHANGED <<wake, delaypc, timer, closing>>

\* A key that is in the heap keeps the earlier of the two times.
AddAfter(k, delay) ==
    /\ ~closing
    /\ k \in Delayed => delay < heap[k]
    /\ Scheduled(k, delay)
    /\ OwesSignal
    /\ UNCHANGED <<wake, delaypc, timer, closing>>

\* signal, which leaves an element that is there.
Signals ==
    /\ signals > 0
    /\ signals' = signals - 1
    /\ wake' = TRUE
    /\ UNCHANGED <<heap, delaypc, timer, closing>>

\* Shutdown, which then waits for run; a second call signals again.
DelayingShutdown ==
    /\ OwesSignal
    /\ closing' = TRUE
    /\ UNCHANGED <<heap, wake, delaypc, timer>>

\* A round of the loop, under dq.mu, that returns, takes the key that is due, or sets
\* the timer, which starts at once.
RunEnds ==
    /\ delaypc = "loop"
    /\ closing /\ Delayed = {}
    /\ delaypc' = "off"
    /\ UNCHANGED <<heap, wake, signals, timer, closing>>

ReleasesDue ==
    /\ delaypc = "loop"
    /\ \E k \in Delayed :
        /\ heap[k] = 0
        /\ heap' = [j \in Delayed \ {k} |-> heap[j]]
    /\ UNCHANGED <<wake, signals, delaypc, timer, closing>>

Sleeps ==
    /\ delaypc = "loop"
    /\ \/ Delayed # {} /\ Least > 0 /\ timer' = Least
       \/ Delayed = {} /\ ~closing /\ timer' = IdleSleep
    /\ delaypc' = "asleep"
    /\ UNCHANGED <<heap, wake, signals, closing>>

\* With both ready the select takes either.
Wakes ==
    /\ delaypc = "asleep"
    /\ \/ timer = 0 /\ UNCHANGED wake
       \/ wake /\ wake' = FALSE
    /\ timer' = 0
    /\ delaypc' = "loop"
    /\ UNCHANGED <<heap, signals, closing>>

Elapses ==
    /\ heap' = [k \in Delayed |-> Until(heap[k])]
    /\ timer' = Until(timer)
    /\ UNCHANGED <<wake, signals, delaypc, closing>>

DelayNext ==
    \/ \E k \in DelayedKey, delay \in 1..MaxDelay : AddAfter(k, delay)
    \/ Signals \/ DelayingShutdown
    \/ RunEnds \/ ReleasesDue \/ Sleeps \/ Wakes
    \/ Elapses

DelaySpec == DelayInit /\ [][DelayNext]_delayVars

-----------------------------------------------------------------------------

\* Nothing is overslept: while run sleeps with no wakeup on its way, its timer ends
\* before any key is due, however many calls share the one element of dq.wake; and run
\* does not sleep beside an empty heap that is shut down.
NothingIsOverslept ==
    delaypc = "asleep" /\ ~wake /\ signals = 0 =>
        /\ \A k \in Delayed : timer <= heap[k]
        /\ ~(closing /\ Delayed = {})
==============================================================================
