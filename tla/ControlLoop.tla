----------------------------- MODULE ControlLoop -----------------------------
(***************************************************************************)
(* One reconcile loop of AxiomNizam: the API handlers that write resources *)
(* of a Kind, the store they write to, and the GenericController that      *)
(* watches the store, queues keys and drives a reconciler from its workers *)
(* (src/internal/platform/controller/generic_controller.go).               *)
(*                                                                         *)
(* actual[k] is the version of the object the reconciler of k has worked   *)
(* through last; what it makes of that version is its own affair.  The     *)
(* managers it works on are in memory: actual dies with the process, and   *)
(* only the store outlives a restart.                                      *)
(***************************************************************************)
EXTENDS Naturals, Sequences, SequencesExt

CONSTANTS
    Key,            \* the keys of one Kind
    NoKey,          \* no key in hand
    Client,         \* API requests that can be in flight at once
    Worker,         \* the worker goroutines of the controller
    ChanCap,        \* capacity of the watch channel
    WritesBack,     \* the reconciler stores the object with its new status
    Results,        \* what a reconcile that did its work may return
    MaxOps,         \* bound: API requests of a behaviour, and spec versions
    MaxRequeues,    \* bound: requeues of a behaviour
    MaxFaults,      \* bound: panics, failed reconciles, failed store calls
    MaxRestarts,    \* bound: crashes of the process
    Cancels         \* whether the controller's context may be cancelled

ASSUME ControlLoopAssumption ==
    /\ NoKey \notin Key
    /\ ChanCap \in Nat
    /\ WritesBack \in BOOLEAN
    /\ Cancels \in BOOLEAN
    /\ Results \subseteq {"forget", "after", "rate"}
    /\ "forget" \in Results
    /\ {MaxOps, MaxRequeues, MaxFaults, MaxRestarts} \subseteq Nat

VARIABLES
    \* the store
    desired, watching, events,
    \* the queue
    queue, dirty, inProgress, failures, shutdown,
    \* the handlers: program counter, key, version written or read
    cpc, ckey, cver,
    \* the workers: program counter, key, version read, result
    wpc, wkey, wread, wres,
    \* the rest of the controller's goroutines
    watchPc,        \* watchLoop: "start", "recv" or "exited"
    syncPc,         \* initialSync: "list", "adding" or "done"
    todo,           \* keys initialSync listed and has yet to add
    timers,         \* goroutines of AddAfter asleep, by key
    ctxDone,        \* the context given to Start is cancelled
    running,        \* gc.running
    \* the world outside
    actual,         \* the version the reconciler worked through last, 0 if none
    ops, requeues, faults, restarts,
    \* history: keys the code itself gave up on, or put at risk
    excused

Store == INSTANCE ResourceStore
Q == INSTANCE SimpleQueue

storeVars == <<desired, watching, events>>
queueVars == <<queue, dirty, inProgress, failures, shutdown>>
clientVars == <<cpc, ckey, cver>>
workerVars == <<wpc, wkey, wread, wres>>
loopVars == <<watchPc, syncPc, todo, timers, ctxDone, running>>
budgetVars == <<ops, requeues, faults, restarts>>
vars == <<storeVars, queueVars, clientVars, workerVars, loopVars, actual,
          budgetVars, excused>>

ClientPC == {"idle", "update", "delete", "emit"}
WorkerPC == {"idle", "got", "act", "write", "emit", "finish", "done", "exited"}

\* A worker between taking a key and the end of the reconciler's effects on it.
Busy(w) == wpc[w] \in {"got", "act", "write"}

\* No other worker has the key of w in hand.
Alone(w) == \A v \in Worker \ {w} : ~(Busy(v) /\ wkey[v] = wkey[w])

ClientTypeOK ==
    /\ cpc \in [Client -> ClientPC]
    /\ ckey \in [Client -> Key \cup {NoKey}]
    /\ cver \in [Client -> Nat]
    /\ \A c \in Client : cpc[c] # "idle" => ckey[c] \in Key

WorkerTypeOK ==
    /\ wpc \in [Worker -> WorkerPC]
    /\ wkey \in [Worker -> Key \cup {NoKey}]
    /\ wread \in [Worker -> Nat]
    /\ wres \in [Worker -> {"forget", "after", "rate"}]
    /\ \A w \in Worker : wpc[w] \notin {"idle", "exited"} => wkey[w] \in Key

LoopTypeOK ==
    /\ watchPc \in {"start", "recv", "exited"}
    /\ syncPc \in {"list", "adding", "done"}
    /\ todo \subseteq Key
    /\ timers \in [Key -> Nat]
    /\ ctxDone \in BOOLEAN
    /\ running \in BOOLEAN
    /\ actual \in [Key -> Nat]
    /\ ops \in Nat /\ requeues \in Nat /\ faults \in Nat /\ restarts \in Nat
    /\ excused \subseteq Key

TypeOK ==
    /\ Store!StoreTypeOK
    /\ Q!QueueTypeOK
    /\ ClientTypeOK
    /\ WorkerTypeOK
    /\ LoopTypeOK

-----------------------------------------------------------------------------
(* The process starts over whatever the store holds. *)

Init ==
    /\ desired \in [Key -> {0, 1}]
    /\ watching = FALSE
    /\ events = <<>>
    /\ Q!QueueInit
    /\ cpc = [c \in Client |-> "idle"]
    /\ ckey = [c \in Client |-> NoKey]
    /\ cver = [c \in Client |-> 0]
    /\ wpc = [w \in Worker |-> "idle"]
    /\ wkey = [w \in Worker |-> NoKey]
    /\ wread = [w \in Worker |-> 0]
    /\ wres = [w \in Worker |-> "forget"]
    /\ watchPc = "start"
    /\ syncPc = "list"
    /\ todo = {}
    /\ timers = [k \in Key |-> 0]
    /\ ctxDone = FALSE
    /\ running = TRUE
    /\ actual = [k \in Key |-> 0]
    /\ ops = 1 /\ requeues = 0 /\ faults = 0 /\ restarts = 0
    /\ excused = {}

-----------------------------------------------------------------------------
(* The history: which keys the code has left to chance, until a worker     *)
(* reads the key again with no other worker at it.                         *)

\* The runtime differs from the store, or a worker is about to make it differ.
Unsettled(k) ==
    /\ Store!Present(k)
    /\ \/ actual[k] # desired[k]
       \/ \E w \in Worker : wpc[w] = "act" /\ wkey[w] = k /\ wread[w] # desired[k]

\* An event about k is about to be lost while it still matters: initialSync has
\* listed the store already.
LosesEvent(k) == ~Store!Delivers /\ syncPc # "list" /\ Unsettled(k)

Excuse(K) == excused' = excused \cup K

-----------------------------------------------------------------------------
(* API handlers.  An upsert is a Create and, when that fails, an Update of *)
(* the same object; its version is the number of the request.  A Delete is *)
(* a read, for the event, and a delete.                                    *)

Create(c, k) ==
    /\ cpc[c] = "idle"
    /\ ops < MaxOps
    /\ ops' = ops + 1
    /\ IF Store!Present(k)
       THEN /\ cpc' = [cpc EXCEPT ![c] = "update"]
            /\ UNCHANGED storeVars
       ELSE /\ cpc' = [cpc EXCEPT ![c] = "emit"]
            /\ Store!Put(k, ops + 1)
    /\ ckey' = [ckey EXCEPT ![c] = k]
    /\ cver' = [cver EXCEPT ![c] = ops + 1]
    /\ UNCHANGED <<queueVars, workerVars, loopVars, actual, requeues, faults,
                   restarts, excused>>

Update(c) ==
    /\ cpc[c] = "update"
    /\ Store!Put(ckey[c], cver[c])
    /\ cpc' = [cpc EXCEPT ![c] = "emit"]
    /\ UNCHANGED <<queueVars, ckey, cver, workerVars, loopVars, actual,
                   budgetVars, excused>>

DeleteRead(c, k) ==
    /\ cpc[c] = "idle"
    /\ ops < MaxOps
    /\ ops' = ops + 1
    /\ cpc' = [cpc EXCEPT ![c] = "delete"]
    /\ ckey' = [ckey EXCEPT ![c] = k]
    /\ cver' = [cver EXCEPT ![c] = desired[k]]
    /\ UNCHANGED <<storeVars, queueVars, workerVars, loopVars, actual, requeues,
                   faults, restarts, excused>>

\* The event is emitted only if the read before found the object.
DeleteCommit(c) ==
    /\ cpc[c] = "delete"
    /\ Store!Erase(ckey[c])
    /\ cpc' = [cpc EXCEPT ![c] = IF cver[c] # 0 THEN "emit" ELSE "idle"]
    /\ ckey' = [ckey EXCEPT ![c] = IF cver[c] # 0 THEN @ ELSE NoKey]
    /\ UNCHANGED <<queueVars, cver, workerVars, loopVars, actual, budgetVars,
                   excused>>

ClientEmit(c) ==
    /\ cpc[c] = "emit"
    /\ Store!Emit(ckey[c])
    /\ Excuse(IF LosesEvent(ckey[c]) THEN {ckey[c]} ELSE {})
    /\ cpc' = [cpc EXCEPT ![c] = "idle"]
    /\ ckey' = [ckey EXCEPT ![c] = NoKey]
    /\ cver' = [cver EXCEPT ![c] = 0]
    /\ UNCHANGED <<queueVars, workerVars, loopVars, actual, budgetVars>>

ClientStep(c) == Update(c) \/ DeleteCommit(c) \/ ClientEmit(c)

-----------------------------------------------------------------------------
(* Watch loop, initial list and delayed adds: the goroutines that feed the *)
(* queue.                                                                  *)

Watch ==
    /\ watchPc = "start"
    /\ Store!Subscribe
    /\ watchPc' = "recv"
    /\ UNCHANGED <<queueVars, clientVars, workerVars, syncPc, todo, timers,
                   ctxDone, running, actual, budgetVars, excused>>

WatchRecv(k) ==
    /\ watchPc = "recv"
    /\ Store!Receive(k)
    /\ Q!Add(k)
    /\ UNCHANGED <<clientVars, workerVars, loopVars, actual, budgetVars, excused>>

SyncList ==
    /\ syncPc = "list"
    /\ todo' = {k \in Key : Store!Present(k)}
    /\ syncPc' = "adding"
    /\ UNCHANGED <<storeVars, queueVars, clientVars, workerVars, watchPc, timers,
                   ctxDone, running, actual, budgetVars, excused>>

\* A failed List is logged and not tried again.
SyncListFails ==
    /\ syncPc = "list"
    /\ faults < MaxFaults
    /\ faults' = faults + 1
    /\ syncPc' = "done"
    /\ Excuse(Key)
    /\ UNCHANGED <<storeVars, queueVars, clientVars, workerVars, watchPc, todo,
                   timers, ctxDone, running, actual, ops, requeues, restarts>>

SyncAdd(k) ==
    /\ syncPc = "adding"
    /\ k \in todo
    /\ todo' = todo \ {k}
    /\ Q!Add(k)
    /\ UNCHANGED <<storeVars, clientVars, workerVars, watchPc, syncPc, timers,
                   ctxDone, running, actual, budgetVars, excused>>

SyncDone ==
    /\ syncPc = "adding"
    /\ todo = {}
    /\ syncPc' = "done"
    /\ UNCHANGED <<storeVars, queueVars, clientVars, workerVars, watchPc, todo,
                   timers, ctxDone, running, actual, budgetVars, excused>>

\* Mutant: the delayed Add is lost.
TimerFiresInVain(k) ==
    /\ timers[k] > 0
    /\ timers' = [timers EXCEPT ![k] = @ - 1]
    /\ UNCHANGED <<storeVars, queueVars, clientVars, workerVars, watchPc, syncPc,
                   todo, ctxDone, running, actual, budgetVars, excused>>

TimerFires(k) ==
    /\ timers[k] > 0
    /\ timers' = [timers EXCEPT ![k] = @ - 1]
    /\ Q!Add(k)
    /\ UNCHANGED <<storeVars, clientVars, workerVars, watchPc, syncPc, todo,
                   ctxDone, running, actual, budgetVars, excused>>

-----------------------------------------------------------------------------
(* Workers: queue.Get, processItem and queue.Done.                         *)

Goto(w, pc) == wpc' = [wpc EXCEPT ![w] = pc]
Return(w, r) == wres' = [wres EXCEPT ![w] = r]

GetItem(w, k) ==
    /\ wpc[w] = "idle"
    /\ Q!Get(k)
    /\ Goto(w, "got")
    /\ wkey' = [wkey EXCEPT ![w] = k]
    \* Get does not hold back a key another worker has in hand.
    /\ Excuse(IF \E v \in Worker \ {w} : Busy(v) /\ wkey[v] = k THEN {k} ELSE {})
    /\ UNCHANGED <<storeVars, clientVars, wread, wres, loopVars, actual,
                   budgetVars>>

Fetch(w) ==
    /\ wpc[w] = "got"
    /\ Store!Present(wkey[w])
    /\ wread' = [wread EXCEPT ![w] = desired[wkey[w]]]
    /\ Goto(w, "act")
    /\ excused' = IF Alone(w) THEN excused \ {wkey[w]} ELSE excused
    /\ UNCHANGED <<storeVars, queueVars, clientVars, wkey, wres, loopVars, actual,
                   budgetVars>>

\* A key with no object is forgotten; nobody tells the runtime.
FetchNotFound(w) ==
    /\ wpc[w] = "got"
    /\ ~Store!Present(wkey[w])
    /\ Goto(w, "finish")
    /\ Return(w, "forget")
    /\ UNCHANGED <<storeVars, queueVars, clientVars, wkey, wread, loopVars, actual,
                   budgetVars, excused>>

\* Any other error of the store is taken for a missing object.
FetchFails(w) ==
    /\ wpc[w] = "got"
    /\ faults < MaxFaults
    /\ faults' = faults + 1
    /\ Goto(w, "finish")
    /\ Return(w, "forget")
    /\ Excuse({wkey[w]})
    /\ UNCHANGED <<storeVars, queueVars, clientVars, wkey, wread, loopVars, actual,
                   ops, requeues, restarts>>

\* The reconciler works through the version it was given.
Act(w) ==
    /\ wpc[w] = "act"
    /\ actual' = [actual EXCEPT ![wkey[w]] = wread[w]]
    /\ \E r \in Results :
        /\ r # "forget" => requeues < MaxRequeues
        /\ requeues' = requeues + (IF r = "forget" THEN 0 ELSE 1)
        /\ Return(w, r)
    /\ Goto(w, IF WritesBack THEN "write" ELSE "finish")
    /\ UNCHANGED <<storeVars, queueVars, clientVars, wkey, wread, loopVars, ops,
                   faults, restarts, excused>>

\* The reconciler fails and asks for a retry (reconciler.FromTyped).
ActFailsRetry(w) ==
    /\ wpc[w] = "act"
    /\ "rate" \in Results
    /\ requeues < MaxRequeues
    /\ requeues' = requeues + 1
    /\ Return(w, "rate")
    /\ Goto(w, "finish")
    /\ UNCHANGED <<storeVars, queueVars, clientVars, wkey, wread, loopVars, actual,
                   ops, faults, restarts, excused>>

\* The reconciler fails without asking for a retry, and processItem does not
\* look at the Error of its result; or it panics, and recover skips the rest.
ActFails(w) ==
    /\ wpc[w] = "act"
    /\ faults < MaxFaults
    /\ faults' = faults + 1
    /\ Return(w, "forget")
    /\ \E pc \in {"finish", "done"} : Goto(w, pc)
    /\ Excuse({wkey[w]})
    /\ UNCHANGED <<storeVars, queueVars, clientVars, wkey, wread, loopVars, actual,
                   ops, requeues, restarts>>

\* The reconciler stores the object it was given, with a new status.
WriteBack(w) ==
    /\ wpc[w] = "write"
    /\ Store!Put(wkey[w], wread[w])
    /\ Goto(w, "emit")
    /\ UNCHANGED <<queueVars, clientVars, wkey, wread, wres, loopVars, actual,
                   budgetVars, excused>>

\* The error of the write is ignored.
WriteBackFails(w) ==
    /\ wpc[w] = "write"
    /\ faults < MaxFaults
    /\ faults' = faults + 1
    /\ Goto(w, "finish")
    /\ UNCHANGED <<storeVars, queueVars, clientVars, wkey, wread, wres, loopVars,
                   actual, ops, requeues, restarts, excused>>

WorkerEmit(w) ==
    /\ wpc[w] = "emit"
    /\ Store!Emit(wkey[w])
    /\ Excuse(IF LosesEvent(wkey[w]) THEN {wkey[w]} ELSE {})
    /\ Goto(w, "finish")
    /\ UNCHANGED <<queueVars, clientVars, wkey, wread, wres, loopVars, actual,
                   budgetVars>>

\* AddAfter and AddRateLimited leave a sleeping goroutine that will Add the key.
Requeue(w) ==
    /\ wpc[w] = "finish"
    /\ wres[w] # "forget"
    /\ timers' = [timers EXCEPT ![wkey[w]] = @ + 1]
    /\ IF wres[w] = "rate" THEN Q!When(wkey[w]) ELSE UNCHANGED queueVars
    /\ Goto(w, "done")
    /\ UNCHANGED <<storeVars, clientVars, wkey, wread, wres, watchPc, syncPc, todo,
                   ctxDone, running, actual, budgetVars, excused>>

ForgetItem(w) ==
    /\ wpc[w] = "finish"
    /\ wres[w] = "forget"
    /\ Q!Forget(wkey[w])
    /\ Goto(w, "done")
    /\ UNCHANGED <<storeVars, clientVars, wkey, wread, wres, loopVars, actual,
                   budgetVars, excused>>

DoneItem(w) ==
    /\ wpc[w] = "done"
    /\ Q!Done(wkey[w])
    /\ Goto(w, "idle")
    /\ wkey' = [wkey EXCEPT ![w] = NoKey]
    /\ wread' = [wread EXCEPT ![w] = 0]
    /\ Return(w, "forget")
    /\ UNCHANGED <<storeVars, clientVars, loopVars, actual, budgetVars, excused>>

\* Get of a queue that was shut down returns an error, and the worker ends.
WorkerExit(w) ==
    /\ wpc[w] = "idle"
    /\ shutdown
    /\ Goto(w, "exited")
    /\ UNCHANGED <<storeVars, queueVars, clientVars, wkey, wread, wres, loopVars,
                   actual, budgetVars, excused>>

WorkerStep(w) ==
    \/ \E k \in Key : GetItem(w, k)
    \/ Fetch(w) \/ FetchNotFound(w) \/ FetchFails(w)
    \/ Act(w) \/ ActFailsRetry(w) \/ ActFails(w)
    \/ WriteBack(w) \/ WriteBackFails(w) \/ WorkerEmit(w)
    \/ Requeue(w) \/ ForgetItem(w) \/ DoneItem(w) \/ WorkerExit(w)

-----------------------------------------------------------------------------
(* Shutdown and crash.                                                     *)

Cancel ==
    /\ Cancels
    /\ ~ctxDone
    /\ ctxDone' = TRUE
    /\ UNCHANGED <<storeVars, queueVars, clientVars, workerVars, watchPc, syncPc,
                   todo, timers, running, actual, budgetVars, excused>>

WatchRemoved ==
    /\ ctxDone
    /\ Store!Unsubscribe
    /\ UNCHANGED <<queueVars, clientVars, workerVars, loopVars, actual, budgetVars,
                   excused>>

WatchExit ==
    /\ ctxDone
    /\ watchPc = "recv"
    /\ watchPc' = "exited"
    /\ UNCHANGED <<storeVars, queueVars, clientVars, workerVars, syncPc, todo,
                   timers, ctxDone, running, actual, budgetVars, excused>>

\* Start, after <-ctx.Done().
QueueShutdown ==
    /\ ctxDone
    /\ ~shutdown
    /\ Q!Shutdown
    /\ UNCHANGED <<storeVars, clientVars, workerVars, loopVars, actual, budgetVars,
                   excused>>

\* Start, after wg.Wait().
StartReturns ==
    /\ shutdown
    /\ running
    /\ \A w \in Worker : wpc[w] = "exited"
    /\ running' = FALSE
    /\ UNCHANGED <<storeVars, queueVars, clientVars, workerVars, watchPc, syncPc,
                   todo, timers, ctxDone, actual, budgetVars, excused>>

\* The process dies at any point, with the requests it was serving, and starts
\* over from the store.
Restart ==
    /\ restarts < MaxRestarts
    /\ restarts' = restarts + 1
    /\ watching' = FALSE /\ events' = <<>>
    /\ queue' = <<>> /\ dirty' = {} /\ inProgress' = {} /\ shutdown' = FALSE
    /\ failures' = [k \in Key |-> 0]
    /\ cpc' = [c \in Client |-> "idle"]
    /\ ckey' = [c \in Client |-> NoKey]
    /\ cver' = [c \in Client |-> 0]
    /\ wpc' = [w \in Worker |-> "idle"]
    /\ wkey' = [w \in Worker |-> NoKey]
    /\ wread' = [w \in Worker |-> 0]
    /\ wres' = [w \in Worker |-> "forget"]
    /\ watchPc' = "start" /\ syncPc' = "list" /\ todo' = {}
    /\ timers' = [k \in Key |-> 0]
    /\ ctxDone' = FALSE /\ running' = TRUE
    /\ actual' = [k \in Key |-> 0]
    /\ excused' = {}
    /\ UNCHANGED <<desired, ops, requeues, faults>>

\* Nothing is left to do once the controller has stopped, or while it waits for
\* a request that will not come.
Terminated ==
    /\ ops = MaxOps
    /\ \A c \in Client : cpc[c] = "idle"
    /\ \/ ~running
       \/ \A w \in Worker : wpc[w] = "idle" /\ queue = <<>>
    /\ UNCHANGED vars

-----------------------------------------------------------------------------

ClientActions ==
    \E c \in Client : ClientStep(c) \/ \E k \in Key : Create(c, k) \/ DeleteRead(c, k)

FeederActions ==
    \/ Watch \/ SyncList \/ SyncListFails \/ SyncDone
    \/ \E k \in Key : WatchRecv(k) \/ SyncAdd(k) \/ TimerFires(k)

LifecycleActions ==
    Cancel \/ WatchRemoved \/ WatchExit \/ QueueShutdown \/ StartReturns \/ Restart

Next ==
    \/ ClientActions
    \/ FeederActions
    \/ \E w \in Worker : WorkerStep(w)
    \/ LifecycleActions
    \/ Terminated

\* Every goroutine that can run is scheduled; requests, cancellations, faults
\* and crashes need not happen.
Fairness ==
    /\ \A c \in Client : WF_vars(ClientStep(c))
    /\ WF_vars(Watch)
    /\ WF_vars(SyncList)
    /\ WF_vars(SyncDone)
    /\ \A k \in Key : WF_vars(SyncAdd(k)) /\ WF_vars(TimerFires(k))
    /\ WF_vars(\E k \in Key : WatchRecv(k))
    /\ \A w \in Worker : WF_vars(WorkerStep(w))
    /\ WF_vars(QueueShutdown)
    /\ WF_vars(StartReturns)

SafetySpec == Init /\ [][Next]_vars

Spec == SafetySpec /\ Fairness

-----------------------------------------------------------------------------
(* What the loop is for.                                                   *)

\* Where the news that k has to be reconciled can be.
InPipeline(k) ==
    \/ syncPc = "list" \/ k \in todo
    \/ \E c \in Client : cpc[c] = "emit" /\ ckey[c] = k
    \/ k \in ToSet(events)
    \/ k \in ToSet(queue)
    \/ timers[k] > 0
    \/ \E w \in Worker :
        /\ wkey[w] = k
        /\ \/ wpc[w] = "got"
           \/ wpc[w] = "act" /\ wread[w] = desired[k]
           \/ wpc[w] = "finish" /\ wres[w] # "forget"

\* No change is forgotten on its way from the store to the reconciler.  While
\* the controller runs, a stored object the runtime does not match yet is on its
\* way to a worker: as an event to be sent, a buffered event, a listed, queued or
\* delayed key, or in the hands of a worker that has read or will read this very
\* version.  The exceptions are the keys the code gives up on: a dropped event, a
\* failed List, a fetch or reconcile that failed with no requeue, and a key two
\* workers had in hand at once.
NoChangeForgotten ==
    ~ctxDone => \A k \in Key : Unsettled(k) => k \in excused \/ InPipeline(k)

\* A dirty key is queued, so the "already queued" return of Add loses nothing,
\* whatever interleaving of Get, Add, Forget and Done came before.
DirtyIsQueued == dirty \subseteq ToSet(queue)

\* The failure count that the exponential backoff is computed from does not
\* outlive the attempt that raised it: it is non-zero only while a worker is
\* between AddRateLimited and the Done that ends the same attempt.
BackoffEndsWithAttempt ==
    \A k \in Key : failures[k] # 0 =>
        \E w \in Worker : wpc[w] = "done" /\ wkey[w] = k

\* Every change reaches the runtime: a version the reconciler has not worked through
\* is eventually worked through, or gone from the store, or its key is one of the
\* exceptions of NoChangeForgotten, or the controller was cancelled.
EventuallyReconciled ==
    \A k \in Key :
        Unsettled(k) ~> (~Unsettled(k) \/ k \in excused \/ ctxDone)

\* Start returns after its context is cancelled: the shutdown of the queue wakes
\* every worker that waits in Get, and the others finish the item they have.
StopsWhenCancelled == ctxDone ~> (~running \/ ~ctxDone)

\* ResourceStore promises ErrConflict when the object moved between Get and
\* Update: a reconciler's write would then only ever replace the version that the
\* reconciler was given.
WriteReplacesWhatWasRead ==
    [][\A w \in Worker :
        wpc[w] = "write" /\ wpc'[w] = "emit" => desired[wkey[w]] = wread[w]]_vars

\* Once the runtime matches the store the loop has nothing to do: when requests
\* stop coming, the workers eventually wait for good.
EventuallyIdle == <>[](\A w \in Worker : wpc[w] = "idle")
==============================================================================
