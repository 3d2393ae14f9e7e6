-------------------------- MODULE ControlLoopProofs --------------------------
(***************************************************************************)
(* Invariants of ControlLoop for every set of keys, clients and workers    *)
(* and every value of the bounds.                                          *)
(***************************************************************************)
EXTENDS ControlLoop, TLAPS

-----------------------------------------------------------------------------
(* Sequences of keys as sets of keys.                                      *)

\* Appending adds one element to the elements of a sequence: what Add and emit
\* do to the queue and to the channel.
LEMMA ToSetAppend ==
    ASSUME NEW S, NEW s \in Seq(S), NEW e \in S
    PROVE  /\ Append(s, e) \in Seq(S)
           /\ Len(Append(s, e)) = Len(s) + 1
           /\ ToSet(Append(s, e)) = ToSet(s) \cup {e}
<1>1. Append(s, e) \in Seq(S) /\ Len(Append(s, e)) = Len(s) + 1
  OBVIOUS
<1>2. ASSUME NEW x \in ToSet(Append(s, e)) PROVE x \in ToSet(s) \cup {e}
  <2>1. PICK i \in 1..(Len(s) + 1) : x = Append(s, e)[i]
    BY <1>1, <1>2 DEF ToSet
  <2>2. CASE i = Len(s) + 1
    BY <2>1, <2>2
  <2>3. CASE i \in 1..Len(s)
    BY <2>1, <2>3 DEF ToSet
  <2> QED BY <2>1, <2>2, <2>3
<1>3. ToSet(s) \subseteq ToSet(Append(s, e))
  BY <1>1 DEF ToSet
<1>4. e \in ToSet(Append(s, e))
  BY <1>1 DEF ToSet
<1> QED BY <1>1, <1>2, <1>3, <1>4

\* Taking the head loses at most that element: what Get and the watch loop do.
LEMMA ToSetTail ==
    ASSUME NEW S, NEW s \in Seq(S), s # <<>>
    PROVE  /\ Head(s) \in S
           /\ Head(s) \in ToSet(s)
           /\ Tail(s) \in Seq(S)
           /\ Len(Tail(s)) = Len(s) - 1
           /\ ToSet(s) \subseteq ToSet(Tail(s)) \cup {Head(s)}
<1>1. /\ Head(s) \in S
      /\ Tail(s) \in Seq(S)
      /\ Len(Tail(s)) = Len(s) - 1
      /\ Len(s) \in Nat \ {0}
  OBVIOUS
<1>2. Head(s) \in ToSet(s)
  BY <1>1 DEF ToSet
<1>3. ASSUME NEW x \in ToSet(s) PROVE x \in ToSet(Tail(s)) \cup {Head(s)}
  <2>1. PICK i \in 1..Len(s) : x = s[i]
    BY <1>3 DEF ToSet
  <2>2. CASE i = 1
    BY <2>1, <2>2
  <2>3. CASE i # 1
    <3>1. i - 1 \in 1..Len(Tail(s)) /\ Tail(s)[i - 1] = s[i]
      BY <1>1, <2>1, <2>3
    <3>2. DOMAIN Tail(s) = 1..Len(Tail(s))
      BY <1>1
    <3>3. Tail(s)[i - 1] \in ToSet(Tail(s))
      BY <3>1, <3>2 DEF ToSet
    <3> QED BY <2>1, <3>1, <3>3
  <2> QED BY <2>2, <2>3
<1> QED BY <1>1, <1>2, <1>3

-----------------------------------------------------------------------------
(* The queue.                                                              *)

\* Add of a key leaves every queued key queued and, unless the queue was shut
\* down, the key itself.
LEMMA AddQueues ==
    ASSUME Q!QueueTypeOK, DirtyIsQueued, NEW k \in Key, Q!Add(k)
    PROVE  /\ Q!QueueTypeOK'
           /\ DirtyIsQueued'
           /\ ToSet(queue) \subseteq ToSet(queue')
           /\ ~shutdown => k \in ToSet(queue')
<1> USE DEF Q!QueueTypeOK, Q!Add, DirtyIsQueued
<1>1. CASE shutdown \/ k \in dirty
  BY <1>1
<1>2. CASE ~(shutdown \/ k \in dirty)
  <2>1. queue' = Append(queue, k) /\ dirty' = dirty \cup {k}
    BY <1>2
  <2>2. queue' \in Seq(Key) /\ ToSet(queue') = ToSet(queue) \cup {k}
    BY <2>1, ToSetAppend
  <2> QED BY <2>1, <2>2
<1> QED BY <1>1, <1>2

\* Get takes out one occurrence of the key it returns, and no other key.
LEMMA GetTakes ==
    ASSUME Q!QueueTypeOK, DirtyIsQueued, NEW k \in Key, Q!Get(k)
    PROVE  /\ Q!QueueTypeOK'
           /\ DirtyIsQueued'
           /\ ToSet(queue) \subseteq ToSet(queue') \cup {k}
<1> USE DEF Q!QueueTypeOK, Q!Get, DirtyIsQueued
<1>1. queue' \in Seq(Key) /\ ToSet(queue) \subseteq ToSet(queue') \cup {k}
  BY ToSetTail
<1> QED BY <1>1

\* The other methods leave the queue alone and never mark a key dirty.
LEMMA OthersKeepQueue ==
    ASSUME Q!QueueTypeOK, DirtyIsQueued, NEW k \in Key,
           Q!When(k) \/ Q!Done(k) \/ Q!Forget(k) \/ Q!Shutdown
    PROVE  /\ Q!QueueTypeOK'
           /\ DirtyIsQueued'
           /\ queue' = queue
<1> USE DEF Q!QueueTypeOK, DirtyIsQueued
<1>1. CASE Q!When(k)  BY <1>1 DEF Q!When
<1>2. CASE Q!Done(k)  BY <1>2 DEF Q!Done
<1>3. CASE Q!Forget(k)  BY <1>3 DEF Q!Forget
<1>4. CASE Q!Shutdown  BY <1>4 DEF Q!Shutdown
<1> QED BY <1>1, <1>2, <1>3, <1>4

-----------------------------------------------------------------------------
(* Types, and dirty keys.  The steps that change the queue or the channel  *)
(* are told apart first: the others keep both.                             *)

\* The queue after a step: still well typed, with its dirty keys queued.
LEMMA StepQueue ==
    ASSUME TypeOK, DirtyIsQueued, [Next]_vars
    PROVE  Q!QueueTypeOK' /\ DirtyIsQueued'
<1> USE DEF TypeOK
<1>1. ASSUME NEW k \in Key, Q!Add(k) PROVE Q!QueueTypeOK' /\ DirtyIsQueued'
  BY <1>1, AddQueues
<1>2. ASSUME NEW k \in Key, Q!Get(k) PROVE Q!QueueTypeOK' /\ DirtyIsQueued'
  BY <1>2, GetTakes
<1>3. ASSUME NEW k \in Key, Q!When(k) \/ Q!Done(k) \/ Q!Forget(k) \/ Q!Shutdown
      PROVE  Q!QueueTypeOK' /\ DirtyIsQueued'
  BY <1>3, OthersKeepQueue
<1>4. ASSUME UNCHANGED queueVars PROVE Q!QueueTypeOK' /\ DirtyIsQueued'
  BY <1>4 DEF Q!QueueTypeOK, DirtyIsQueued, queueVars
<1>5. CASE ClientActions
  <2>1. UNCHANGED queueVars
    BY <1>5 DEF ClientActions, ClientStep, Create, Update, DeleteRead, DeleteCommit,
                ClientEmit
  <2> QED BY <2>1, <1>4
<1>6. CASE FeederActions
  BY <1>6, <1>1, <1>4 DEF FeederActions, Watch, SyncList, SyncListFails, SyncDone,
                          WatchRecv, SyncAdd, TimerFires
<1>7. ASSUME NEW w \in Worker, WorkerStep(w)
      PROVE  Q!QueueTypeOK' /\ DirtyIsQueued'
  <2>1. CASE \E k \in Key : GetItem(w, k)
    BY <2>1, <1>2 DEF GetItem
  <2>2. CASE Requeue(w) \/ ForgetItem(w) \/ DoneItem(w)
    <3>1. wkey[w] \in Key
      BY <2>2 DEF WorkerTypeOK, Requeue, ForgetItem, DoneItem
    <3> QED BY <2>2, <3>1, <1>3, <1>4 DEF Requeue, ForgetItem, DoneItem
  <2>3. CASE \/ Fetch(w) \/ FetchNotFound(w) \/ FetchFails(w)
             \/ Act(w) \/ ActFailsRetry(w) \/ ActFails(w)
             \/ WriteBack(w) \/ WriteBackFails(w) \/ WorkerEmit(w) \/ WorkerExit(w)
    <3>1. UNCHANGED queueVars
      BY <2>3 DEF Fetch, FetchNotFound, FetchFails, Act, ActFailsRetry, ActFails,
                  WriteBack, WriteBackFails, WorkerEmit, WorkerExit
    <3> QED BY <3>1, <1>4
  <2> QED BY <1>7, <2>1, <2>2, <2>3 DEF WorkerStep
<1>8. CASE Restart
  <2>1. /\ queue' = <<>> /\ dirty' = {} /\ inProgress' = {} /\ shutdown' = FALSE
        /\ failures' = [k \in Key |-> 0]
    BY <1>8 DEF Restart
  <2>2. <<>> \in Seq(Key)
    OBVIOUS
  <2>3. queue' \in Seq(Key) /\ failures' \in [Key -> Nat] /\ shutdown' \in BOOLEAN
    BY <2>1, <2>2
  <2>4. dirty' \subseteq Key /\ inProgress' \subseteq Key
    BY <2>1
  <2>5. DirtyIsQueued'
    BY <2>1 DEF DirtyIsQueued
  <2> QED BY <2>3, <2>4, <2>5 DEF Q!QueueTypeOK
<1>9. CASE Cancel \/ WatchRemoved \/ WatchExit \/ StartReturns
  BY <1>9, <1>4 DEF Cancel, WatchRemoved, WatchExit, StartReturns
<1>10. CASE QueueShutdown
  BY <1>10 DEF QueueShutdown, Q!Shutdown, Q!QueueTypeOK, DirtyIsQueued
<1>11. CASE Terminated \/ UNCHANGED vars
  BY <1>11, <1>4 DEF Terminated, vars
<1> QED BY <1>5, <1>6, <1>7, <1>8, <1>9, <1>10, <1>11 DEF Next, LifecycleActions

\* The store and its channel after a step.
LEMMA StepStore ==
    ASSUME TypeOK, [Next]_vars
    PROVE  Store!StoreTypeOK'
<1> USE ControlLoopAssumption DEF TypeOK
<1>1. ASSUME NEW k \in Key, NEW v \in Nat, Store!Put(k, v) PROVE Store!StoreTypeOK'
  BY <1>1 DEF Store!Put, Store!StoreTypeOK
<1>2. ASSUME NEW k \in Key, Store!Erase(k) PROVE Store!StoreTypeOK'
  BY <1>2 DEF Store!Erase, Store!StoreTypeOK
<1>3. ASSUME NEW k \in Key, Store!Emit(k) PROVE Store!StoreTypeOK'
  <2>1. CASE Store!Delivers
    <3>1. /\ Append(events, k) \in Seq(Key)
          /\ Len(Append(events, k)) = Len(events) + 1
      BY ToSetAppend DEF Store!StoreTypeOK
    <3>2. Len(events) + 1 <= ChanCap
      BY <2>1 DEF Store!Delivers, Store!StoreTypeOK
    <3> QED BY <1>3, <2>1, <3>1, <3>2 DEF Store!Emit, Store!StoreTypeOK
  <2>2. CASE ~Store!Delivers
    BY <1>3, <2>2 DEF Store!Emit, Store!StoreTypeOK
  <2> QED BY <2>1, <2>2
<1>4. ASSUME NEW k \in Key, Store!Receive(k) PROVE Store!StoreTypeOK'
  <2>1. Tail(events) \in Seq(Key) /\ Len(Tail(events)) = Len(events) - 1
    BY <1>4, ToSetTail DEF Store!Receive, Store!StoreTypeOK
  <2> QED BY <1>4, <2>1 DEF Store!Receive, Store!StoreTypeOK
<1>5. ASSUME UNCHANGED storeVars PROVE Store!StoreTypeOK'
  BY <1>5 DEF Store!StoreTypeOK, storeVars
<1>6. CASE ClientActions
  <2>1. ASSUME NEW c \in Client, NEW k \in Key, Create(c, k) \/ DeleteRead(c, k)
        PROVE  Store!StoreTypeOK'
    <3>1. ops + 1 \in Nat
      BY DEF LoopTypeOK
    <3> QED BY <2>1, <3>1, <1>1, <1>5 DEF Create, DeleteRead
  <2>2. ASSUME NEW c \in Client, ClientStep(c) PROVE Store!StoreTypeOK'
    <3>1. ckey[c] \in Key /\ cver[c] \in Nat
      BY <2>2 DEF ClientTypeOK, ClientStep, Update, DeleteCommit, ClientEmit
    <3> QED BY <2>2, <3>1, <1>1, <1>2, <1>3
            DEF ClientStep, Update, DeleteCommit, ClientEmit
  <2> QED BY <1>6, <2>1, <2>2 DEF ClientActions
<1>7. CASE FeederActions
  <2>1. CASE Watch
    BY <2>1 DEF Watch, Store!Subscribe, Store!StoreTypeOK
  <2> QED BY <1>7, <2>1, <1>4, <1>5
          DEF FeederActions, SyncList, SyncListFails, SyncDone, WatchRecv, SyncAdd,
              TimerFires
<1>8. ASSUME NEW w \in Worker, WorkerStep(w) PROVE Store!StoreTypeOK'
  <2>1. CASE WriteBack(w) \/ WorkerEmit(w)
    <3>1. wkey[w] \in Key /\ wread[w] \in Nat
      BY <2>1 DEF WorkerTypeOK, WriteBack, WorkerEmit
    <3> QED BY <2>1, <3>1, <1>1, <1>3 DEF WriteBack, WorkerEmit
  <2>2. CASE ~(WriteBack(w) \/ WorkerEmit(w))
    <3>1. UNCHANGED storeVars
      BY <1>8, <2>2
      DEF WorkerStep, GetItem, Fetch, FetchNotFound, FetchFails, Act, ActFailsRetry,
          ActFails, WriteBackFails, Requeue, ForgetItem, DoneItem, WorkerExit
    <3> QED BY <3>1, <1>5
  <2> QED BY <2>1, <2>2
<1>9. CASE Restart
  <2>1. watching' = FALSE /\ events' = <<>> /\ desired' = desired
    BY <1>9 DEF Restart
  <2>2. <<>> \in Seq(Key) /\ Len(<<>>) = 0
    OBVIOUS
  <2>3. events' \in Seq(Key) /\ Len(events') <= ChanCap
    BY <2>1, <2>2 DEF ControlLoopAssumption
  <2> QED BY <2>1, <2>3 DEF Store!StoreTypeOK
<1>10. CASE WatchRemoved
  BY <1>10 DEF WatchRemoved, Store!Unsubscribe, Store!StoreTypeOK
<1>11. CASE Cancel \/ WatchExit \/ StartReturns \/ QueueShutdown
  BY <1>11, <1>5 DEF Cancel, WatchExit, StartReturns, QueueShutdown
<1>12. CASE Terminated \/ UNCHANGED vars
  BY <1>12, <1>5 DEF Terminated, vars
<1> QED BY <1>6, <1>7, <1>8, <1>9, <1>10, <1>11, <1>12 DEF Next, LifecycleActions

\* The handlers after a step: each has a key in hand unless it is idle.
LEMMA StepClient ==
    ASSUME TypeOK, [Next]_vars
    PROVE  ClientTypeOK'
<1> USE DEF TypeOK, ClientPC
<1>1. ASSUME UNCHANGED clientVars PROVE ClientTypeOK'
  BY <1>1 DEF ClientTypeOK, clientVars
<1>2. CASE ClientActions
  <2>1. ASSUME NEW c \in Client, NEW k \in Key, Create(c, k) PROVE ClientTypeOK'
    <3>1. ops + 1 \in Nat
      BY DEF LoopTypeOK
    <3>2. PICK pc \in {"update", "emit"} : cpc' = [cpc EXCEPT ![c] = pc]
      BY <2>1 DEF Create
    <3> QED BY <2>1, <3>1, <3>2 DEF Create, ClientTypeOK
  <2>2. ASSUME NEW c \in Client, NEW k \in Key, DeleteRead(c, k) PROVE ClientTypeOK'
    <3>1. desired[k] \in Nat
      BY DEF Store!StoreTypeOK
    <3> QED BY <2>2, <3>1 DEF DeleteRead, ClientTypeOK
  <2>3. ASSUME NEW c \in Client, Update(c) PROVE ClientTypeOK'
    BY <2>3 DEF Update, ClientTypeOK
  <2>4. ASSUME NEW c \in Client, DeleteCommit(c) PROVE ClientTypeOK'
    <3>1. CASE cver[c] # 0
      BY <2>4, <3>1 DEF DeleteCommit, ClientTypeOK
    <3>2. CASE cver[c] = 0
      BY <2>4, <3>2 DEF DeleteCommit, ClientTypeOK
    <3> QED BY <3>1, <3>2
  <2>5. ASSUME NEW c \in Client, ClientEmit(c) PROVE ClientTypeOK'
    BY <2>5 DEF ClientEmit, ClientTypeOK
  <2> QED BY <1>2, <2>1, <2>2, <2>3, <2>4, <2>5 DEF ClientActions, ClientStep
<1>3. CASE FeederActions
  <2>1. UNCHANGED clientVars
    BY <1>3 DEF FeederActions, Watch, SyncList, SyncListFails, SyncDone, WatchRecv,
                SyncAdd, TimerFires
  <2> QED BY <2>1, <1>1
<1>4. ASSUME NEW w \in Worker, WorkerStep(w) PROVE ClientTypeOK'
  <2>1. UNCHANGED clientVars
    BY <1>4
    DEF WorkerStep, GetItem, Fetch, FetchNotFound, FetchFails, Act, ActFailsRetry,
        ActFails, WriteBack, WriteBackFails, WorkerEmit, Requeue, ForgetItem,
        DoneItem, WorkerExit
  <2> QED BY <2>1, <1>1
<1>5. CASE Restart
  BY <1>5 DEF Restart, ClientTypeOK
<1>6. CASE \/ Cancel \/ WatchRemoved \/ WatchExit \/ QueueShutdown \/ StartReturns
           \/ Terminated \/ UNCHANGED vars
  BY <1>6, <1>1 DEF Cancel, WatchRemoved, WatchExit, QueueShutdown, StartReturns,
                    Terminated, vars
<1> QED BY <1>2, <1>3, <1>4, <1>5, <1>6 DEF Next, LifecycleActions

\* The workers after a step: each has a key in hand unless it waits or has ended.
LEMMA StepWorker ==
    ASSUME TypeOK, [Next]_vars
    PROVE  WorkerTypeOK'
<1> USE ControlLoopAssumption DEF TypeOK, WorkerPC, Goto, Return
<1>1. ASSUME UNCHANGED workerVars PROVE WorkerTypeOK'
  BY <1>1 DEF WorkerTypeOK, workerVars
<1>2. CASE ClientActions
  <2>1. UNCHANGED workerVars
    BY <1>2 DEF ClientActions, ClientStep, Create, Update, DeleteRead, DeleteCommit,
                ClientEmit
  <2> QED BY <2>1, <1>1
<1>3. CASE FeederActions
  <2>1. UNCHANGED workerVars
    BY <1>3 DEF FeederActions, Watch, SyncList, SyncListFails, SyncDone, WatchRecv,
                SyncAdd, TimerFires
  <2> QED BY <2>1, <1>1
<1>4. ASSUME NEW w \in Worker, WorkerStep(w) PROVE WorkerTypeOK'
  <2>1. ASSUME NEW k \in Key, GetItem(w, k) PROVE WorkerTypeOK'
    BY <2>1 DEF GetItem, WorkerTypeOK
  <2>2. CASE Fetch(w)
    <3>1. desired[wkey[w]] \in Nat
      BY <2>2 DEF Fetch, WorkerTypeOK, Store!StoreTypeOK
    <3> QED BY <2>2, <3>1 DEF Fetch, WorkerTypeOK
  <2>3. CASE FetchNotFound(w) \/ FetchFails(w)
    BY <2>3 DEF FetchNotFound, FetchFails, WorkerTypeOK
  <2>4. CASE Act(w)
    <3>1. PICK r \in {"forget", "after", "rate"}, pc \in {"write", "finish"} :
             wres' = [wres EXCEPT ![w] = r] /\ wpc' = [wpc EXCEPT ![w] = pc]
      BY <2>4 DEF Act
    <3> QED BY <2>4, <3>1 DEF Act, WorkerTypeOK
  <2>5. CASE ActFailsRetry(w) \/ ActFails(w)
    BY <2>5 DEF ActFailsRetry, ActFails, WorkerTypeOK
  <2>6. CASE WriteBack(w) \/ WriteBackFails(w) \/ WorkerEmit(w)
    BY <2>6 DEF WriteBack, WriteBackFails, WorkerEmit, WorkerTypeOK
  <2>7. CASE Requeue(w) \/ ForgetItem(w)
    BY <2>7 DEF Requeue, ForgetItem, WorkerTypeOK
  <2>8. CASE DoneItem(w)
    BY <2>8 DEF DoneItem, WorkerTypeOK
  <2>9. CASE WorkerExit(w)
    BY <2>9 DEF WorkerExit, WorkerTypeOK
  <2> QED BY <1>4, <2>1, <2>2, <2>3, <2>4, <2>5, <2>6, <2>7, <2>8, <2>9
          DEF WorkerStep
<1>5. CASE Restart
  BY <1>5 DEF Restart, WorkerTypeOK
<1>6. CASE \/ Cancel \/ WatchRemoved \/ WatchExit \/ QueueShutdown \/ StartReturns
           \/ Terminated \/ UNCHANGED vars
  BY <1>6, <1>1 DEF Cancel, WatchRemoved, WatchExit, QueueShutdown, StartReturns,
                    Terminated, vars
<1> QED BY <1>2, <1>3, <1>4, <1>5, <1>6 DEF Next, LifecycleActions

\* The other goroutines, the counters and the runtime after a step.
LEMMA StepLoop ==
    ASSUME TypeOK, [Next]_vars
    PROVE  LoopTypeOK'
<1> USE DEF TypeOK
<1>1. ASSUME UNCHANGED <<loopVars, actual, budgetVars, excused>> PROVE LoopTypeOK'
  BY <1>1 DEF LoopTypeOK, loopVars, budgetVars
<1>2. CASE ClientActions
  <2>1. ASSUME NEW c \in Client, NEW k \in Key, Create(c, k) \/ DeleteRead(c, k)
        PROVE  LoopTypeOK'
    <3>1. UNCHANGED <<loopVars, actual, requeues, faults, restarts, excused>>
      BY <2>1 DEF Create, DeleteRead
    <3>2. ops' \in Nat
      BY <2>1 DEF Create, DeleteRead, LoopTypeOK
    <3> QED BY <3>1, <3>2 DEF LoopTypeOK, loopVars
  <2>2. ASSUME NEW c \in Client, Update(c) \/ DeleteCommit(c) PROVE LoopTypeOK'
    BY <2>2, <1>1 DEF Update, DeleteCommit
  <2>3. ASSUME NEW c \in Client, ClientEmit(c) PROVE LoopTypeOK'
    <3>1. ckey[c] \in Key
      BY <2>3 DEF ClientEmit, ClientTypeOK
    <3>2. excused' \subseteq Key
      BY <2>3, <3>1 DEF ClientEmit, Excuse, LoopTypeOK
    <3>3. UNCHANGED <<loopVars, actual, budgetVars>>
      BY <2>3 DEF ClientEmit
    <3> QED BY <3>2, <3>3 DEF LoopTypeOK, loopVars, budgetVars
  <2> QED BY <1>2, <2>1, <2>2, <2>3 DEF ClientActions, ClientStep
<1>3. CASE FeederActions
  <2>1. CASE Watch
    BY <2>1 DEF Watch, LoopTypeOK, budgetVars
  <2>2. CASE SyncList
    BY <2>2 DEF SyncList, LoopTypeOK, budgetVars
  <2>3. CASE SyncListFails
    BY <2>3 DEF SyncListFails, Excuse, LoopTypeOK
  <2>4. CASE SyncDone
    BY <2>4 DEF SyncDone, LoopTypeOK, budgetVars
  <2>5. ASSUME NEW k \in Key, WatchRecv(k) PROVE LoopTypeOK'
    BY <2>5, <1>1 DEF WatchRecv
  <2>6. ASSUME NEW k \in Key, SyncAdd(k) PROVE LoopTypeOK'
    BY <2>6 DEF SyncAdd, LoopTypeOK, budgetVars
  <2>7. ASSUME NEW k \in Key, TimerFires(k) PROVE LoopTypeOK'
    BY <2>7 DEF TimerFires, LoopTypeOK, budgetVars
  <2> QED BY <1>3, <2>1, <2>2, <2>3, <2>4, <2>5, <2>6, <2>7 DEF FeederActions
<1>4. ASSUME NEW w \in Worker, WorkerStep(w) PROVE LoopTypeOK'
  <2>1. ASSUME NEW k \in Key, GetItem(w, k) PROVE LoopTypeOK'
    <3>1. excused' \subseteq Key
      BY <2>1 DEF GetItem, Excuse, LoopTypeOK
    <3> QED BY <2>1, <3>1 DEF GetItem, LoopTypeOK, loopVars, budgetVars
  <2>2. CASE Fetch(w)
    <3>1. excused' \subseteq Key
      BY <2>2 DEF Fetch, LoopTypeOK
    <3> QED BY <2>2, <3>1 DEF Fetch, LoopTypeOK, loopVars, budgetVars
  <2>3. CASE FetchNotFound(w) \/ WriteBack(w) \/ ForgetItem(w) \/ DoneItem(w)
             \/ WorkerExit(w)
    BY <2>3, <1>1 DEF FetchNotFound, WriteBack, ForgetItem, DoneItem, WorkerExit
  <2>4. CASE FetchFails(w)
    <3>1. wkey[w] \in Key
      BY <2>4 DEF FetchFails, WorkerTypeOK
    <3> QED BY <2>4, <3>1 DEF FetchFails, Excuse, LoopTypeOK, loopVars
  <2>5. CASE Act(w)
    <3>1. wread[w] \in Nat
      BY DEF WorkerTypeOK
    <3>2. actual' \in [Key -> Nat]
      BY <2>5, <3>1 DEF Act, LoopTypeOK
    <3>3. requeues' \in Nat
      <4>1. PICK r \in Results : requeues' = requeues + (IF r = "forget" THEN 0 ELSE 1)
        BY <2>5 DEF Act
      <4> QED BY <4>1 DEF LoopTypeOK
    <3> QED BY <2>5, <3>2, <3>3 DEF Act, LoopTypeOK, loopVars
  <2>6. CASE ActFailsRetry(w)
    BY <2>6 DEF ActFailsRetry, LoopTypeOK, loopVars
  <2>7. CASE ActFails(w)
    <3>1. wkey[w] \in Key
      BY <2>7 DEF ActFails, WorkerTypeOK
    <3> QED BY <2>7, <3>1 DEF ActFails, Excuse, LoopTypeOK, loopVars
  <2>8. CASE WriteBackFails(w)
    BY <2>8 DEF WriteBackFails, LoopTypeOK, loopVars
  <2>9. CASE WorkerEmit(w)
    <3>1. wkey[w] \in Key
      BY <2>9 DEF WorkerEmit, WorkerTypeOK
    <3>2. excused' \subseteq Key
      BY <2>9, <3>1 DEF WorkerEmit, Excuse, LoopTypeOK
    <3> QED BY <2>9, <3>2 DEF WorkerEmit, LoopTypeOK, loopVars, budgetVars
  <2>10. CASE Requeue(w)
    <3>1. wkey[w] \in Key
      BY <2>10 DEF Requeue, WorkerTypeOK
    <3> QED BY <2>10, <3>1 DEF Requeue, LoopTypeOK, budgetVars
  <2> QED BY <1>4, <2>1, <2>2, <2>3, <2>4, <2>5, <2>6, <2>7, <2>8, <2>9, <2>10
          DEF WorkerStep
<1>5. CASE Restart
  <2>1. /\ watchPc' = "start" /\ syncPc' = "list" /\ todo' = {}
        /\ timers' = [k \in Key |-> 0] /\ actual' = [k \in Key |-> 0]
        /\ ctxDone' = FALSE /\ running' = TRUE /\ excused' = {}
    BY <1>5 DEF Restart
  <2>2. ops' \in Nat /\ requeues' \in Nat /\ faults' \in Nat /\ restarts' \in Nat
    BY <1>5 DEF Restart, LoopTypeOK
  <2>3. timers' \in [Key -> Nat] /\ actual' \in [Key -> Nat]
    BY <2>1
  <2>4. ctxDone' \in BOOLEAN /\ running' \in BOOLEAN
    BY <2>1
  <2> QED BY <2>1, <2>2, <2>3, <2>4 DEF LoopTypeOK
<1>6. CASE \/ Cancel \/ WatchRemoved \/ WatchExit \/ QueueShutdown \/ StartReturns
  <2>1. UNCHANGED <<syncPc, todo, timers, actual, budgetVars, excused>>
    BY <1>6 DEF Cancel, WatchRemoved, WatchExit, QueueShutdown, StartReturns, loopVars
  <2>2. watchPc' \in {watchPc, "exited"}
    BY <1>6 DEF Cancel, WatchRemoved, WatchExit, QueueShutdown, StartReturns, loopVars
  <2>3. ctxDone' \in {ctxDone, TRUE} /\ running' \in {running, FALSE}
    <3>1. CASE Cancel  BY <3>1 DEF Cancel
    <3>2. CASE WatchRemoved  BY <3>2 DEF WatchRemoved, loopVars
    <3>3. CASE WatchExit  BY <3>3 DEF WatchExit
    <3>4. CASE QueueShutdown  BY <3>4 DEF QueueShutdown, loopVars
    <3>5. CASE StartReturns  BY <3>5 DEF StartReturns
    <3> QED BY <1>6, <3>1, <3>2, <3>3, <3>4, <3>5
  <2>4. watchPc' \in {"start", "recv", "exited"}
    BY <2>2 DEF LoopTypeOK
  <2>5. ctxDone' \in BOOLEAN /\ running' \in BOOLEAN
    BY <2>3 DEF LoopTypeOK
  <2> QED BY <2>1, <2>4, <2>5 DEF LoopTypeOK, budgetVars
<1>7. CASE Terminated \/ UNCHANGED vars
  BY <1>7, <1>1 DEF Terminated, vars
<1> QED BY <1>2, <1>3, <1>4, <1>5, <1>6, <1>7 DEF Next, LifecycleActions

-----------------------------------------------------------------------------

LoopInv == TypeOK /\ DirtyIsQueued

\* A controller process starts with an empty queue and no work in hand.
LEMMA InitLoopInv == Init => LoopInv
<1> SUFFICES ASSUME Init PROVE LoopInv
  OBVIOUS
<1> USE ControlLoopAssumption DEF Init
<1>1. <<>> \in Seq(Key) /\ Len(<<>>) = 0
  OBVIOUS
<1>2. Store!StoreTypeOK
  <2>1. desired \in [Key -> Nat]
    OBVIOUS
  <2>2. events = <<>> /\ watching = FALSE
    OBVIOUS
  <2>3. events \in Seq(Key) /\ Len(events) <= ChanCap
    BY <1>1, <2>2 DEF ControlLoopAssumption
  <2>4. watching \in BOOLEAN
    BY <2>2
  <2> QED BY <2>1, <2>3, <2>4 DEF Store!StoreTypeOK
<1>3. Q!QueueTypeOK
  <2>1. queue \in Seq(Key) /\ dirty \subseteq Key /\ inProgress \subseteq Key
    BY <1>1 DEF Q!QueueInit
  <2>2. failures \in [Key -> Nat] /\ shutdown \in BOOLEAN
    BY DEF Q!QueueInit
  <2> QED BY <2>1, <2>2 DEF Q!QueueTypeOK
<1>4. ClientTypeOK
  BY DEF ClientTypeOK, ClientPC
<1>5. WorkerTypeOK
  BY DEF WorkerTypeOK, WorkerPC
<1>6. LoopTypeOK
  BY DEF LoopTypeOK
<1>7. DirtyIsQueued
  BY DEF DirtyIsQueued, Q!QueueInit
<1> QED BY <1>2, <1>3, <1>4, <1>5, <1>6, <1>7 DEF LoopInv, TypeOK

\* TypeOK and DirtyIsQueued are inductive together.
LEMMA StepLoopInv ==
    ASSUME LoopInv, [Next]_vars
    PROVE  LoopInv'
BY StepStore, StepQueue, StepClient, StepWorker, StepLoop DEF LoopInv, TypeOK

\* In every reachable state every variable has its type: the buffered events
\* never exceed the capacity of the channel, and a worker or handler that is busy
\* has a key in hand.
THEOREM TypeCorrect == SafetySpec => []TypeOK
<1>1. LoopInv => TypeOK
  BY DEF LoopInv
<1> QED BY InitLoopInv, StepLoopInv, <1>1, PTL DEF SafetySpec

\* A key that Add takes for queued is queued, in every interleaving of any number
\* of workers, requeues, shutdowns and restarts.
THEOREM DirtyKeysAreQueued == SafetySpec => []DirtyIsQueued
<1>1. LoopInv => DirtyIsQueued
  BY DEF LoopInv
<1> QED BY InitLoopInv, StepLoopInv, <1>1, PTL DEF SafetySpec

-----------------------------------------------------------------------------
(* Backoff.                                                                *)

\* Only Requeue raises a failure count, and it leaves its worker right before the
\* Done that clears it.
LEMMA StepBackoff ==
    ASSUME TypeOK, BackoffEndsWithAttempt, [Next]_vars
    PROVE  BackoffEndsWithAttempt'
<1> USE DEF TypeOK, BackoffEndsWithAttempt
<1>1. ASSUME UNCHANGED <<failures, wpc, wkey>> PROVE BackoffEndsWithAttempt'
  BY <1>1
<1>2. CASE ClientActions
  <2>1. UNCHANGED <<queueVars, workerVars>>
    BY <1>2 DEF ClientActions, ClientStep, Create, Update, DeleteRead, DeleteCommit,
                ClientEmit
  <2> QED BY <2>1, <1>1 DEF queueVars, workerVars
<1>3. CASE FeederActions
  <2>1. failures' = failures /\ UNCHANGED workerVars
    BY <1>3 DEF FeederActions, Watch, SyncList, SyncListFails, SyncDone, WatchRecv,
                SyncAdd, TimerFires, Q!Add, queueVars
  <2> QED BY <2>1, <1>1 DEF workerVars
<1>4. ASSUME NEW w \in Worker, WorkerStep(w) PROVE BackoffEndsWithAttempt'
  <2>1. CASE Requeue(w)
    <3>1. /\ wpc' = [wpc EXCEPT ![w] = "done"] /\ wkey' = wkey
          /\ \A k \in Key : k # wkey[w] => failures'[k] = failures[k]
      BY <2>1 DEF Requeue, Goto, Q!When, Q!QueueTypeOK, queueVars
    <3> QED BY <3>1 DEF WorkerTypeOK
  <2>2. CASE ForgetItem(w)
    <3>1. /\ wpc' = [wpc EXCEPT ![w] = "done"] /\ wkey' = wkey
          /\ \A k \in Key : failures'[k] # 0 => failures[k] # 0
      BY <2>2 DEF ForgetItem, Goto, Q!Forget, Q!QueueTypeOK
    <3> QED BY <3>1 DEF WorkerTypeOK
  <2>3. CASE DoneItem(w)
    <3>1. /\ \A v \in Worker \ {w} : wpc'[v] = wpc[v] /\ wkey'[v] = wkey[v]
          /\ \A k \in Key : failures'[k] # 0 => failures[k] # 0 /\ k # wkey[w]
      BY <2>3 DEF DoneItem, Goto, Q!Done, Q!QueueTypeOK, WorkerTypeOK
    <3> QED BY <3>1
  <2>4. CASE ~(Requeue(w) \/ ForgetItem(w) \/ DoneItem(w))
    <3>1. failures' = failures
      BY <1>4, <2>4
      DEF WorkerStep, GetItem, Fetch, FetchNotFound, FetchFails, Act, ActFailsRetry,
          ActFails, WriteBack, WriteBackFails, WorkerEmit, WorkerExit, Q!Get, queueVars
    <3>2. wpc[w] # "done"
      BY <1>4, <2>4
      DEF WorkerStep, GetItem, Fetch, FetchNotFound, FetchFails, Act, ActFailsRetry,
          ActFails, WriteBack, WriteBackFails, WorkerEmit, WorkerExit
    <3>3. \A v \in Worker \ {w} : wpc'[v] = wpc[v]
      <4>1. \E pc : wpc' = [wpc EXCEPT ![w] = pc]
        BY <1>4, <2>4
        DEF WorkerStep, GetItem, Fetch, FetchNotFound, FetchFails, Act, ActFailsRetry,
            ActFails, WriteBack, WriteBackFails, WorkerEmit, WorkerExit, Goto
      <4> QED BY <4>1 DEF WorkerTypeOK
    <3>4. \A v \in Worker \ {w} : wkey'[v] = wkey[v]
      <4>1. wkey' = wkey \/ \E k : wkey' = [wkey EXCEPT ![w] = k]
        BY <1>4, <2>4
        DEF WorkerStep, GetItem, Fetch, FetchNotFound, FetchFails, Act, ActFailsRetry,
            ActFails, WriteBack, WriteBackFails, WorkerEmit, WorkerExit
      <4> QED BY <4>1 DEF WorkerTypeOK
    <3> QED BY <3>1, <3>2, <3>3, <3>4
  <2> QED BY <2>1, <2>2, <2>3, <2>4
<1>5. CASE Restart
  <2>1. \A k \in Key : failures'[k] = 0
    BY <1>5 DEF Restart
  <2> QED BY <2>1
<1>6. CASE Cancel \/ WatchRemoved \/ WatchExit \/ QueueShutdown \/ StartReturns
  <2>1. failures' = failures /\ UNCHANGED workerVars
    BY <1>6 DEF Cancel, WatchRemoved, WatchExit, QueueShutdown, StartReturns,
                Q!Shutdown, queueVars
  <2> QED BY <2>1, <1>1 DEF workerVars
<1>7. CASE Terminated \/ UNCHANGED vars
  BY <1>7, <1>1 DEF Terminated, vars, queueVars, workerVars
<1> QED BY <1>2, <1>3, <1>4, <1>5, <1>6, <1>7 DEF Next, LifecycleActions

\* No failure count is carried from one attempt at a key to the next: the delay of
\* a rate-limited requeue never grows beyond that of a first failure, unless two
\* workers fail on the same key at once.
THEOREM BackoffNeverAccumulates == SafetySpec => []BackoffEndsWithAttempt
<1>1. Init => BackoffEndsWithAttempt
  BY DEF Init, Q!QueueInit, BackoffEndsWithAttempt
<1>2. TypeOK /\ BackoffEndsWithAttempt /\ [Next]_vars => BackoffEndsWithAttempt'
  BY StepBackoff
<1> QED BY <1>1, <1>2, TypeCorrect, PTL DEF SafetySpec

-----------------------------------------------------------------------------
(* NoChangeForgotten is not inductive alone: when a reconcile ends, the      *)
(* runtime matches the store only if no other worker is at the same key,     *)
(* and a write-back restores the match only if the runtime still has the     *)
(* version written.  NewsInv adds both facts, and that only a cancelled      *)
(* controller shuts its queue down (a queue that is shut down drops the      *)
(* keys it is given).                                                        *)

\* Start shuts the queue down only after its context is done.
ShutdownIsCancelled == shutdown => ctxDone

\* A key in the hands of two workers is excused.
SharedIsExcused ==
    \A v, w \in Worker :
        v # w /\ Busy(v) /\ Busy(w) /\ wkey[v] = wkey[w] => wkey[w] \in excused

\* What a worker is about to store is what it drove the runtime to.
WriterMatches ==
    \A w \in Worker :
        wpc[w] = "write" => wkey[w] \in excused \/ actual[wkey[w]] = wread[w]

NewsInv ==
    /\ ShutdownIsCancelled
    /\ SharedIsExcused
    /\ WriterMatches
    /\ NoChangeForgotten

-----------------------------------------------------------------------------
(* Where a step leaves the other workers, and where the news of a key is.  *)

\* A step of a worker moves no other worker.
LEMMA OneWorkerMoves ==
    ASSUME TypeOK, NEW w \in Worker, WorkerStep(w), NEW v \in Worker, v # w
    PROVE  wpc'[v] = wpc[v] /\ wkey'[v] = wkey[v] /\ wread'[v] = wread[v]
           /\ wres'[v] = wres[v]
<1> USE DEF TypeOK, WorkerTypeOK
<1>1. wpc'[v] = wpc[v]
  <2>1. \E pc : wpc' = [wpc EXCEPT ![w] = pc]
    BY DEF WorkerStep, GetItem, Fetch, FetchNotFound, FetchFails, Act, ActFailsRetry,
           ActFails, WriteBack, WriteBackFails, WorkerEmit, Requeue, ForgetItem,
           DoneItem, WorkerExit, Goto
  <2> QED BY <2>1
<1>2. wkey'[v] = wkey[v]
  <2>1. wkey' = wkey \/ \E k : wkey' = [wkey EXCEPT ![w] = k]
    BY DEF WorkerStep, GetItem, Fetch, FetchNotFound, FetchFails, Act, ActFailsRetry,
           ActFails, WriteBack, WriteBackFails, WorkerEmit, Requeue, ForgetItem,
           DoneItem, WorkerExit
  <2> QED BY <2>1
<1>3. wread'[v] = wread[v]
  <2>1. wread' = wread \/ \E n : wread' = [wread EXCEPT ![w] = n]
    BY DEF WorkerStep, GetItem, Fetch, FetchNotFound, FetchFails, Act, ActFailsRetry,
           ActFails, WriteBack, WriteBackFails, WorkerEmit, Requeue, ForgetItem,
           DoneItem, WorkerExit
  <2> QED BY <2>1
<1>4. wres'[v] = wres[v]
  <2>1. wres' = wres \/ \E r : wres' = [wres EXCEPT ![w] = r]
    BY DEF WorkerStep, GetItem, Fetch, FetchNotFound, FetchFails, Act, ActFailsRetry,
           ActFails, WriteBack, WriteBackFails, WorkerEmit, Requeue, ForgetItem,
           DoneItem, WorkerExit, Return
  <2> QED BY <2>1
<1> QED BY <1>1, <1>2, <1>3, <1>4

\* A handler has still to send the event of k.
Announced(k) == \E c \in Client : cpc[c] = "emit" /\ ckey[c] = k

\* The goroutines that feed the queue, or the queue, have k.
Fed(k) ==
    syncPc = "list" \/ k \in todo \/ k \in ToSet(events) \/ k \in ToSet(queue)
    \/ timers[k] > 0

\* Worker w will reconcile the stored version of k, or put k back.
Carries(w, k) ==
    /\ wkey[w] = k
    /\ \/ wpc[w] = "got"
       \/ wpc[w] = "act" /\ wread[w] = desired[k]
       \/ wpc[w] = "finish" /\ wres[w] # "forget"

\* Worker w will drive the runtime of k to a version that is no longer stored.
Misleads(w, k) == wpc[w] = "act" /\ wkey[w] = k /\ wread[w] # desired[k]

Placed(k) ==
    /\ InPipeline(k) <=> Announced(k) \/ Fed(k) \/ \E w \in Worker : Carries(w, k)
    /\ Unsettled(k) <=>
        /\ desired[k] # 0
        /\ actual[k] # desired[k] \/ \E w \in Worker : Misleads(w, k)

\* InPipeline and Unsettled, by who has the key, before and after a step.
LEMMA Places ==
    ASSUME NEW k \in Key
    PROVE  Placed(k) /\ Placed(k)'
<1>1. Placed(k)
  BY DEF Placed, InPipeline, Announced, Fed, Carries, Unsettled, Misleads,
         Store!Present
<1>2. Placed(k)'
  BY DEF Placed, InPipeline, Announced, Fed, Carries, Unsettled, Misleads,
         Store!Present
<1> QED BY <1>1, <1>2

-----------------------------------------------------------------------------
(* The three facts NoChangeForgotten rests on.                             *)

\* Only QueueShutdown shuts the queue down, and a context stays cancelled until
\* the process restarts with a new queue.
LEMMA StepShutdown ==
    ASSUME ShutdownIsCancelled, [Next]_vars
    PROVE  ShutdownIsCancelled'
<1> USE DEF ShutdownIsCancelled
<1>1. CASE ClientActions
  <2>1. UNCHANGED <<queueVars, loopVars>>
    BY <1>1 DEF ClientActions, ClientStep, Create, Update, DeleteRead, DeleteCommit,
                ClientEmit
  <2> QED BY <2>1 DEF queueVars, loopVars
<1>2. CASE FeederActions
  BY <1>2 DEF FeederActions, Watch, SyncList, SyncListFails, SyncDone, WatchRecv,
              SyncAdd, TimerFires, Q!Add, queueVars, loopVars
<1>3. ASSUME NEW w \in Worker, WorkerStep(w) PROVE ShutdownIsCancelled'
  BY <1>3
  DEF WorkerStep, GetItem, Fetch, FetchNotFound, FetchFails, Act, ActFailsRetry,
      ActFails, WriteBack, WriteBackFails, WorkerEmit, Requeue, ForgetItem, DoneItem,
      WorkerExit, Q!Get, Q!When, Q!Done, Q!Forget, queueVars, loopVars
<1>4. CASE LifecycleActions
  BY <1>4 DEF LifecycleActions, Cancel, WatchRemoved, WatchExit, QueueShutdown,
              StartReturns, Restart, Q!Shutdown, queueVars, loopVars
<1>5. CASE Terminated \/ UNCHANGED vars
  BY <1>5 DEF Terminated, vars, queueVars, loopVars
<1> QED BY <1>1, <1>2, <1>3, <1>4, <1>5 DEF Next

\* A second worker that takes a key excuses it, and the key stays excused as long
\* as the two are at it: only a worker that is alone redeems it.
LEMMA StepShared ==
    ASSUME TypeOK, SharedIsExcused, [Next]_vars
    PROVE  SharedIsExcused'
<1> USE DEF SharedIsExcused, Busy
<1>1. ASSUME UNCHANGED <<wpc, wkey>>, excused \subseteq excused' PROVE SharedIsExcused'
  BY <1>1
<1>2. CASE ClientActions
  <2>1. UNCHANGED workerVars
    BY <1>2 DEF ClientActions, ClientStep, Create, Update, DeleteRead, DeleteCommit,
                ClientEmit
  <2>2. excused \subseteq excused'
    BY <1>2 DEF ClientActions, ClientStep, Create, Update, DeleteRead, DeleteCommit,
                ClientEmit, Excuse
  <2> QED BY <2>1, <2>2, <1>1 DEF workerVars
<1>3. CASE FeederActions
  <2>1. UNCHANGED workerVars /\ excused \subseteq excused'
    BY <1>3 DEF FeederActions, Watch, SyncList, SyncListFails, SyncDone, WatchRecv,
                SyncAdd, TimerFires, Excuse
  <2> QED BY <2>1, <1>1 DEF workerVars
<1>4. ASSUME NEW w \in Worker, WorkerStep(w) PROVE SharedIsExcused'
  <2>1. CASE \E k \in Key : GetItem(w, k)
    <3>1. PICK k \in Key : GetItem(w, k)
      BY <2>1
    <3>2. /\ wkey'[w] = k
          /\ excused \subseteq excused'
          /\ \A v \in Worker \ {w} : Busy(v) /\ wkey[v] = k => k \in excused'
      BY <3>1 DEF GetItem, Excuse, TypeOK, WorkerTypeOK
    <3> QED BY <1>4, <3>2, OneWorkerMoves
  <2>2. CASE Fetch(w)
    <3>1. /\ wkey' = wkey /\ Busy(w)
          /\ IF Alone(w) THEN excused' = excused \ {wkey[w]} ELSE excused' = excused
      BY <2>2 DEF Fetch
    <3>2. \A v \in Worker : Busy(v)' => Busy(v)
      BY <1>4, <3>1, OneWorkerMoves
    <3> QED BY <3>1, <3>2 DEF Alone
  <2>3. CASE ~(Fetch(w) \/ \E k \in Key : GetItem(w, k))
    <3>1. excused \subseteq excused'
      BY <1>4, <2>3
      DEF WorkerStep, FetchNotFound, FetchFails, Act, ActFailsRetry, ActFails,
          WriteBack, WriteBackFails, WorkerEmit, Requeue, ForgetItem, DoneItem,
          WorkerExit, Excuse
    <3>2. Busy(w)' => Busy(w) /\ wkey'[w] = wkey[w]
      BY <1>4, <2>3
      DEF WorkerStep, FetchNotFound, FetchFails, Act, ActFailsRetry, ActFails,
          WriteBack, WriteBackFails, WorkerEmit, Requeue, ForgetItem, DoneItem,
          WorkerExit, Goto, TypeOK, WorkerTypeOK
    <3> QED BY <1>4, <3>1, <3>2, OneWorkerMoves
  <2> QED BY <2>1, <2>2, <2>3
<1>5. CASE Restart
  <2>1. \A v \in Worker : ~Busy(v)'
    BY <1>5 DEF Restart
  <2> QED BY <2>1
<1>6. CASE Cancel \/ WatchRemoved \/ WatchExit \/ QueueShutdown \/ StartReturns
  BY <1>6, <1>1 DEF Cancel, WatchRemoved, WatchExit, QueueShutdown, StartReturns,
                    workerVars
<1>7. CASE Terminated \/ UNCHANGED vars
  BY <1>7, <1>1 DEF Terminated, vars, workerVars
<1> QED BY <1>2, <1>3, <1>4, <1>5, <1>6, <1>7 DEF Next, LifecycleActions

\* Between driving the runtime and storing the object, a worker that is alone at
\* its key finds the runtime where it left it.
LEMMA StepWriter ==
    ASSUME TypeOK, SharedIsExcused, WriterMatches, [Next]_vars
    PROVE  WriterMatches'
<1> USE DEF WriterMatches
<1>1. ASSUME UNCHANGED <<wpc, wkey, wread, actual>>, excused \subseteq excused'
      PROVE  WriterMatches'
  BY <1>1
<1>2. CASE ClientActions
  <2>1. UNCHANGED <<workerVars, actual>> /\ excused \subseteq excused'
    BY <1>2 DEF ClientActions, ClientStep, Create, Update, DeleteRead, DeleteCommit,
                ClientEmit, Excuse
  <2> QED BY <2>1, <1>1 DEF workerVars
<1>3. CASE FeederActions
  <2>1. UNCHANGED <<workerVars, actual>> /\ excused \subseteq excused'
    BY <1>3 DEF FeederActions, Watch, SyncList, SyncListFails, SyncDone, WatchRecv,
                SyncAdd, TimerFires, Excuse
  <2> QED BY <2>1, <1>1 DEF workerVars
<1>4. ASSUME NEW w \in Worker, WorkerStep(w) PROVE WriterMatches'
  <2>1. CASE Fetch(w)
    <3>1. /\ wpc'[w] = "act" /\ actual' = actual
          /\ IF Alone(w) THEN excused' = excused \ {wkey[w]} ELSE excused' = excused
      BY <2>1 DEF Fetch, Goto, TypeOK, WorkerTypeOK
    <3> QED BY <1>4, <3>1, OneWorkerMoves DEF Alone, Busy
  <2>2. CASE Act(w)
    <3>1. /\ wpc[w] = "act" /\ wkey[w] \in Key /\ excused' = excused
          /\ wkey'[w] = wkey[w] /\ wread'[w] = wread[w]
          /\ actual' = [actual EXCEPT ![wkey[w]] = wread[w]]
      BY <2>2 DEF Act, TypeOK, WorkerTypeOK
    <3>2. actual \in [Key -> Nat]
      BY DEF TypeOK, LoopTypeOK
    <3>3. actual'[wkey[w]] = wread[w]
      BY <3>1, <3>2
    <3>4. ASSUME NEW v \in Worker, v # w, wpc'[v] = "write"
          PROVE  wkey'[v] \in excused' \/ actual'[wkey'[v]] = wread'[v]
      <4>1. /\ wpc[v] = "write" /\ wkey'[v] = wkey[v] /\ wread'[v] = wread[v]
            /\ wkey[v] \in Key
        BY <1>4, <3>4, OneWorkerMoves DEF TypeOK, WorkerTypeOK
      <4>2. CASE wkey[v] = wkey[w]
        BY <3>1, <3>4, <4>1, <4>2 DEF SharedIsExcused, Busy
      <4>3. CASE wkey[v] # wkey[w]
        BY <3>1, <3>2, <4>1, <4>3
      <4> QED BY <4>2, <4>3
    <3> QED BY <3>1, <3>3, <3>4
  <2>3. CASE ~(Fetch(w) \/ Act(w))
    <3>1. excused \subseteq excused' /\ actual' = actual
      BY <1>4, <2>3
      DEF WorkerStep, GetItem, FetchNotFound, FetchFails, ActFailsRetry, ActFails,
          WriteBack, WriteBackFails, WorkerEmit, Requeue, ForgetItem, DoneItem,
          WorkerExit, Excuse
    <3>2. wpc'[w] # "write"
      BY <1>4, <2>3
      DEF WorkerStep, GetItem, FetchNotFound, FetchFails, ActFailsRetry, ActFails,
          WriteBack, WriteBackFails, WorkerEmit, Requeue, ForgetItem, DoneItem,
          WorkerExit, Goto, TypeOK, WorkerTypeOK
    <3> QED BY <1>4, <3>1, <3>2, OneWorkerMoves
  <2> QED BY <2>1, <2>2, <2>3
<1>5. CASE Restart
  BY <1>5 DEF Restart
<1>6. CASE Cancel \/ WatchRemoved \/ WatchExit \/ QueueShutdown \/ StartReturns
  BY <1>6, <1>1 DEF Cancel, WatchRemoved, WatchExit, QueueShutdown, StartReturns,
                    workerVars
<1>7. CASE Terminated \/ UNCHANGED vars
  BY <1>7, <1>1 DEF Terminated, vars, workerVars
<1> QED BY <1>2, <1>3, <1>4, <1>5, <1>6, <1>7 DEF Next, LifecycleActions

-----------------------------------------------------------------------------
(* The news of a key, step by step.                                        *)

\* A write announces the key it changed, and an event that finds no room is lost
\* only when nothing depends on it.
LEMMA NewsClient ==
    ASSUME TypeOK, NoChangeForgotten, ClientActions,
           NEW k \in Key, ~ctxDone', Unsettled(k)'
    PROVE  k \in excused' \/ InPipeline(k)'
<1> USE DEF TypeOK
<1>1. /\ UNCHANGED <<workerVars, queueVars, loopVars, actual>>
      /\ ~ctxDone
  BY DEF ClientActions, ClientStep, Create, Update, DeleteRead, DeleteCommit,
         ClientEmit, loopVars
<1>2. ASSUME desired'[k] = desired[k], Announced(k) => Announced(k)', events' = events,
             excused' = excused
      PROVE  k \in excused' \/ InPipeline(k)'
  <2>1. Unsettled(k)
    BY <1>1, <1>2, Places DEF Placed, Misleads, workerVars
  <2>2. k \in excused \/ InPipeline(k)
    BY <1>1, <2>1 DEF NoChangeForgotten
  <2>3. Fed(k) => Fed(k)'
    BY <1>1, <1>2 DEF Fed, queueVars, loopVars
  <2>4. \A w \in Worker : Carries(w, k) => Carries(w, k)'
    BY <1>1, <1>2 DEF Carries, workerVars
  <2> QED BY <1>2, <2>2, <2>3, <2>4, Places DEF Placed
<1>3. ASSUME NEW c \in Client, NEW j \in Key, Create(c, j)
      PROVE  k \in excused' \/ InPipeline(k)'
  <2>1. CASE ~Store!Present(j) /\ j = k
    <3>1. cpc'[c] = "emit" /\ ckey'[c] = k
      BY <1>3, <2>1 DEF Create, ClientTypeOK
    <3> QED BY <3>1 DEF InPipeline
  <2>2. CASE Store!Present(j) \/ j # k
    <3>1. desired'[k] = desired[k] /\ events' = events /\ excused' = excused
      BY <1>3, <2>2 DEF Create, Store!Put, storeVars, Store!StoreTypeOK
    <3>2. /\ cpc[c] = "idle"
          /\ \A d \in Client \ {c} : cpc'[d] = cpc[d] /\ ckey'[d] = ckey[d]
      BY <1>3 DEF Create, ClientTypeOK
    <3> QED BY <1>2, <3>1, <3>2 DEF Announced
  <2> QED BY <2>1, <2>2
<1>4. ASSUME NEW c \in Client, NEW j \in Key, DeleteRead(c, j)
      PROVE  k \in excused' \/ InPipeline(k)'
  <2>1. desired'[k] = desired[k] /\ events' = events /\ excused' = excused
    BY <1>4 DEF DeleteRead, storeVars
  <2>2. /\ cpc[c] = "idle"
        /\ \A d \in Client \ {c} : cpc'[d] = cpc[d] /\ ckey'[d] = ckey[d]
    BY <1>4 DEF DeleteRead, ClientTypeOK
  <2> QED BY <1>2, <2>1, <2>2 DEF Announced
<1>5. ASSUME NEW c \in Client, Update(c)
      PROVE  k \in excused' \/ InPipeline(k)'
  <2>1. cpc'[c] = "emit" /\ ckey'[c] = ckey[c] /\ ckey[c] \in Key
    BY <1>5 DEF Update, ClientTypeOK
  <2>2. CASE ckey[c] = k
    BY <2>1, <2>2 DEF InPipeline
  <2>3. CASE ckey[c] # k
    <3>1. desired'[k] = desired[k] /\ events' = events /\ excused' = excused
      BY <1>5, <2>1, <2>3 DEF Update, Store!Put, Store!StoreTypeOK
    <3>2. Announced(k) => Announced(k)'
      BY <1>5, <2>1 DEF Update, ClientTypeOK, Announced
    <3> QED BY <1>2, <3>1, <3>2
  <2> QED BY <2>2, <2>3
<1>6. ASSUME NEW c \in Client, DeleteCommit(c)
      PROVE  k \in excused' \/ InPipeline(k)'
  <2>1. ckey[c] \in Key /\ cpc[c] = "delete"
    BY <1>6 DEF DeleteCommit, ClientTypeOK
  <2>2. CASE ckey[c] = k
    <3>1. desired'[k] = 0
      BY <1>6, <2>1, <2>2 DEF DeleteCommit, Store!Erase, Store!StoreTypeOK
    <3> QED BY <3>1, Places DEF Placed
  <2>3. CASE ckey[c] # k
    <3>1. desired'[k] = desired[k] /\ events' = events /\ excused' = excused
      BY <1>6, <2>1, <2>3 DEF DeleteCommit, Store!Erase, Store!StoreTypeOK
    <3>2. \A d \in Client \ {c} : cpc'[d] = cpc[d] /\ ckey'[d] = ckey[d]
      BY <1>6 DEF DeleteCommit, ClientTypeOK
    <3> QED BY <1>2, <2>1, <3>1, <3>2 DEF Announced
  <2> QED BY <2>2, <2>3
<1>7. ASSUME NEW c \in Client, ClientEmit(c)
      PROVE  k \in excused' \/ InPipeline(k)'
  <2>1. /\ desired' = desired /\ ckey[c] \in Key
        /\ \A d \in Client \ {c} : cpc'[d] = cpc[d] /\ ckey'[d] = ckey[d]
        /\ excused' = excused \cup (IF LosesEvent(ckey[c]) THEN {ckey[c]} ELSE {})
        /\ events' = IF Store!Delivers THEN Append(events, ckey[c]) ELSE events
    BY <1>7 DEF ClientEmit, Store!Emit, Excuse, ClientTypeOK
  <2>2. Unsettled(k)
    BY <1>1, <2>1, Places DEF Placed, Misleads, workerVars
  <2>3. k \in excused \/ InPipeline(k)
    BY <1>1, <2>2 DEF NoChangeForgotten
  <2>4. events \in Seq(Key)
    BY DEF Store!StoreTypeOK
  <2>5. ToSet(events) \subseteq ToSet(events')
    BY <2>1, <2>4, ToSetAppend
  <2>6. Fed(k) => Fed(k)'
    BY <1>1, <2>5 DEF Fed, queueVars, loopVars
  <2>7. \A w \in Worker : Carries(w, k) => Carries(w, k)'
    BY <1>1, <2>1 DEF Carries, workerVars
  <2>8. CASE ckey[c] # k
    <3>1. Announced(k) => Announced(k)'
      BY <2>1, <2>8 DEF Announced
    <3> QED BY <2>1, <2>3, <2>6, <2>7, <3>1, Places DEF Placed
  <2>9. CASE ckey[c] = k /\ Store!Delivers
    <3>1. k \in ToSet(events')
      BY <2>1, <2>4, <2>9, ToSetAppend
    <3> QED BY <3>1 DEF InPipeline
  <2>10. CASE ckey[c] = k /\ ~Store!Delivers
    <3>1. CASE syncPc = "list"
      BY <1>1, <3>1 DEF InPipeline, loopVars
    <3>2. CASE syncPc # "list"
      BY <2>1, <2>2, <2>10, <3>2 DEF LosesEvent
    <3> QED BY <3>1, <3>2
  <2> QED BY <2>8, <2>9, <2>10
<1> QED BY <1>3, <1>4, <1>5, <1>6, <1>7 DEF ClientActions, ClientStep

\* The goroutines that feed the queue hand a key on without dropping it.
LEMMA NewsFeeder ==
    ASSUME TypeOK, DirtyIsQueued, ShutdownIsCancelled, NoChangeForgotten,
           FeederActions, NEW k \in Key, ~ctxDone', Unsettled(k)'
    PROVE  k \in excused' \/ InPipeline(k)'
<1> USE DEF TypeOK
<1>1. /\ UNCHANGED <<clientVars, workerVars, desired, actual, ctxDone>>
      /\ excused \subseteq excused'
  BY DEF FeederActions, Watch, SyncList, SyncListFails, SyncDone, WatchRecv, SyncAdd,
         TimerFires, Excuse, Store!Subscribe, Store!Receive, storeVars, loopVars
<1>2. Unsettled(k)
  BY <1>1, Places DEF Placed, Misleads, workerVars
<1>3. k \in excused \/ InPipeline(k)
  BY <1>1, <1>2 DEF NoChangeForgotten
<1>4. Announced(k) => Announced(k)'
  BY <1>1 DEF Announced, clientVars
<1>5. \A w \in Worker : Carries(w, k) => Carries(w, k)'
  BY <1>1 DEF Carries, workerVars
<1>6. ~shutdown
  BY <1>1 DEF ShutdownIsCancelled
<1>7. ASSUME NEW j \in Key, Q!Add(j)
      PROVE  ToSet(queue) \cup {j} \subseteq ToSet(queue')
  BY <1>6, <1>7, AddQueues
<1>8. Fed(k) => k \in excused' \/ Fed(k)'
  <2>1. CASE Watch
    BY <2>1 DEF Watch, Store!Subscribe, Fed, queueVars
  <2>2. CASE SyncList
    <3>1. desired[k] # 0
      BY <1>2, Places DEF Placed
    <3>2. k \in todo'
      BY <2>2, <3>1 DEF SyncList, Store!Present
    <3> QED BY <3>2 DEF Fed
  <2>3. CASE SyncListFails
    BY <2>3 DEF SyncListFails, Excuse
  <2>4. CASE SyncDone
    BY <2>4 DEF SyncDone, Fed, storeVars, queueVars
  <2>5. ASSUME NEW j \in Key, WatchRecv(j) PROVE Fed(k) => Fed(k)'
    <3>1. events \in Seq(Key) /\ events # <<>> /\ j = Head(events)
          /\ events' = Tail(events) /\ UNCHANGED loopVars
      BY <2>5 DEF WatchRecv, Store!Receive, Store!StoreTypeOK
    <3>2. ToSet(events) \subseteq ToSet(events') \cup {j}
      BY <3>1, ToSetTail
    <3>3. ToSet(queue) \cup {j} \subseteq ToSet(queue')
      BY <2>5, <1>7 DEF WatchRecv
    <3> QED BY <3>1, <3>2, <3>3 DEF Fed, loopVars
  <2>6. ASSUME NEW j \in Key, SyncAdd(j) PROVE Fed(k) => Fed(k)'
    <3>1. ToSet(queue) \cup {j} \subseteq ToSet(queue')
      BY <2>6, <1>7 DEF SyncAdd
    <3> QED BY <2>6, <3>1 DEF SyncAdd, Fed, storeVars
  <2>7. ASSUME NEW j \in Key, TimerFires(j) PROVE Fed(k) => Fed(k)'
    <3>1. ToSet(queue) \cup {j} \subseteq ToSet(queue')
      BY <2>7, <1>7 DEF TimerFires
    <3>2. j # k => timers'[k] = timers[k]
      BY <2>7 DEF TimerFires, LoopTypeOK
    <3> QED BY <2>7, <3>1, <3>2 DEF TimerFires, Fed, storeVars
  <2> QED BY <2>1, <2>2, <2>3, <2>4, <2>5, <2>6, <2>7 DEF FeederActions
<1> QED BY <1>1, <1>3, <1>4, <1>5, <1>8, Places DEF Placed

\* A worker drops a key only when the runtime has the stored version, the key is
\* gone, or the key is one of the exceptions.
LEMMA NewsWorker ==
    ASSUME TypeOK, DirtyIsQueued, SharedIsExcused, WriterMatches, NoChangeForgotten,
           NEW w \in Worker, WorkerStep(w), NEW k \in Key, ~ctxDone', Unsettled(k)'
    PROVE  k \in excused' \/ InPipeline(k)'
<1> USE DEF TypeOK
<1>1. UNCHANGED <<clientVars, ctxDone, syncPc, todo>>
  BY DEF WorkerStep, GetItem, Fetch, FetchNotFound, FetchFails, Act, ActFailsRetry,
         ActFails, WriteBack, WriteBackFails, WorkerEmit, Requeue, ForgetItem, DoneItem,
         WorkerExit, loopVars
<1>2. Announced(k) => Announced(k)'
  BY <1>1 DEF Announced, clientVars
<1>3. \A v \in Worker \ {w} :
        /\ wpc'[v] = wpc[v] /\ wkey'[v] = wkey[v]
        /\ wread'[v] = wread[v] /\ wres'[v] = wres[v]
  BY OneWorkerMoves
<1>4. ASSUME desired'[k] = desired[k]
      PROVE  /\ \A v \in Worker \ {w} : Carries(v, k) => Carries(v, k)'
             /\ \A v \in Worker \ {w} : Misleads(v, k)' => Misleads(v, k)
  BY <1>3, <1>4 DEF Carries, Misleads
\* The rest of the proof for a step that leaves the store, the runtime, the channel
\* and the timers of k alone and moves the worker as the two implications say.
<1>5. ASSUME desired'[k] = desired[k], actual'[k] = actual[k],
             excused \subseteq excused', Fed(k) => Fed(k)',
             Carries(w, k) => InPipeline(k)' \/ k \in excused',
             Misleads(w, k)' => Misleads(w, k)
      PROVE  k \in excused' \/ InPipeline(k)'
  <2>1. Unsettled(k)
    BY <1>4, <1>5, Places DEF Placed
  <2>2. k \in excused \/ InPipeline(k)
    BY <1>1, <2>1 DEF NoChangeForgotten
  <2> QED BY <1>2, <1>4, <1>5, <2>2, Places DEF Placed
<1>6. ASSUME UNCHANGED <<events, queue, timers>> PROVE Fed(k) => Fed(k)'
  BY <1>1, <1>6 DEF Fed
<1>7. ASSUME NEW j \in Key, GetItem(w, j) PROVE k \in excused' \/ InPipeline(k)'
  <2>1. /\ wpc[w] = "idle" /\ wpc'[w] = "got" /\ wkey'[w] = j
        /\ UNCHANGED <<desired, events, timers, actual>> /\ excused \subseteq excused'
    BY <1>7 DEF GetItem, Goto, Excuse, WorkerTypeOK, storeVars, loopVars
  <2>2. ToSet(queue) \subseteq ToSet(queue') \cup {j}
    BY <1>7, GetTakes DEF GetItem
  <2>3. CASE j = k
    BY <2>1, <2>3 DEF InPipeline
  <2>4. CASE j # k
    <3>1. Fed(k) => Fed(k)'
      BY <1>1, <2>1, <2>2, <2>4 DEF Fed
    <3>2. ~Carries(w, k) /\ ~Misleads(w, k)'
      BY <2>1 DEF Carries, Misleads
    <3> QED BY <1>5, <2>1, <3>1, <3>2
  <2> QED BY <2>3, <2>4
<1>8. CASE Fetch(w)
  <2>1. /\ UNCHANGED <<storeVars, queueVars, loopVars, actual>>
        /\ wpc'[w] = "act" /\ wkey'[w] = wkey[w] /\ wread'[w] = desired[wkey[w]]
        /\ excused \ {wkey[w]} \subseteq excused'
    BY <1>8 DEF Fetch, Goto, WorkerTypeOK
  <2>2. CASE wkey[w] = k
    BY <2>1, <2>2 DEF InPipeline, storeVars
  <2>3. CASE wkey[w] # k
    <3>1. ~Carries(w, k) /\ ~Misleads(w, k)'
      BY <2>1, <2>3 DEF Carries, Misleads
    <3>2. Fed(k) => Fed(k)'
      BY <1>6, <2>1 DEF storeVars, queueVars, loopVars
    <3>3. desired' = desired
      BY <2>1 DEF storeVars
    <3>4. Unsettled(k)
      BY <1>4, <2>1, <3>1, <3>3, Places DEF Placed
    <3>5. k \in excused \/ InPipeline(k)
      BY <1>1, <3>4 DEF NoChangeForgotten
    <3> QED BY <1>2, <1>4, <2>1, <2>3, <3>1, <3>2, <3>3, <3>5, Places DEF Placed
  <2> QED BY <2>2, <2>3
<1>9. CASE FetchNotFound(w)
  <2>1. /\ UNCHANGED <<storeVars, queueVars, loopVars, actual, excused>>
        /\ wpc'[w] = "finish" /\ desired[wkey[w]] = 0
    BY <1>9 DEF FetchNotFound, Goto, WorkerTypeOK, Store!Present
  <2>2. Fed(k) => Fed(k)'
    BY <1>6, <2>1 DEF storeVars, queueVars, loopVars
  <2>3. wkey[w] # k
    BY <2>1, Places DEF Placed, storeVars
  <2> QED BY <1>5, <2>1, <2>2, <2>3 DEF Carries, Misleads, storeVars
<1>10. CASE FetchFails(w) \/ ActFails(w)
  <2>1. /\ UNCHANGED <<storeVars, queueVars, loopVars, actual>>
        /\ wpc'[w] \in {"finish", "done"} /\ excused' = excused \cup {wkey[w]}
    BY <1>10 DEF FetchFails, ActFails, Goto, Excuse, WorkerTypeOK
  <2>2. Fed(k) => Fed(k)'
    BY <1>6, <2>1 DEF storeVars, queueVars, loopVars
  <2> QED BY <1>5, <2>1, <2>2 DEF Carries, Misleads, storeVars
<1>11. CASE Act(w)
  <2>1. /\ UNCHANGED <<storeVars, queueVars, loopVars, excused>>
        /\ wpc[w] = "act" /\ wpc'[w] \in {"write", "finish"} /\ wkey[w] \in Key
        /\ actual' = [actual EXCEPT ![wkey[w]] = wread[w]]
    BY <1>11 DEF Act, Goto, WorkerTypeOK
  <2>2. Fed(k) => Fed(k)'
    BY <1>6, <2>1 DEF storeVars, queueVars, loopVars
  <2>3. desired' = desired /\ ~Misleads(w, k)'
    BY <2>1 DEF storeVars, Misleads
  <2>4. CASE wkey[w] # k
    <3>1. actual'[k] = actual[k] /\ ~Carries(w, k)
      BY <2>1, <2>4 DEF Carries, LoopTypeOK
    <3> QED BY <1>5, <2>1, <2>2, <2>3, <3>1
  <2>5. CASE wkey[w] = k /\ wread[w] # desired[k]
    <3>1. Unsettled(k)
      BY <2>1, <2>3, <2>5, Places DEF Placed, Misleads
    <3>2. k \in excused \/ InPipeline(k)
      BY <1>1, <3>1 DEF NoChangeForgotten
    <3>3. ~Carries(w, k)
      BY <2>1, <2>5 DEF Carries
    <3> QED BY <1>2, <1>4, <2>1, <2>2, <2>3, <3>2, <3>3, Places DEF Placed
  <2>6. CASE wkey[w] = k /\ wread[w] = desired[k]
    <3>1. actual'[k] = desired'[k]
      BY <2>1, <2>3, <2>6 DEF LoopTypeOK
    <3>2. PICK v \in Worker \ {w} : Misleads(v, k)
      BY <1>4, <2>3, <3>1, Places DEF Placed
    <3> QED BY <2>1, <2>6, <3>2 DEF SharedIsExcused, Busy, Misleads
  <2> QED BY <2>4, <2>5, <2>6
<1>12. CASE ActFailsRetry(w)
  <2>1. /\ UNCHANGED <<storeVars, queueVars, loopVars, actual, excused>>
        /\ wpc'[w] = "finish" /\ wres'[w] = "rate" /\ wkey'[w] = wkey[w]
    BY <1>12 DEF ActFailsRetry, Goto, Return, WorkerTypeOK
  <2>2. Fed(k) => Fed(k)'
    BY <1>6, <2>1 DEF storeVars, queueVars, loopVars
  <2>3. Carries(w, k) => InPipeline(k)'
    BY <2>1 DEF Carries, InPipeline
  <2> QED BY <1>5, <2>1, <2>2, <2>3 DEF Misleads, storeVars
<1>13. CASE WriteBack(w)
  <2>1. /\ wpc[w] = "write" /\ wpc'[w] = "emit" /\ wkey[w] \in Key
        /\ desired' = [desired EXCEPT ![wkey[w]] = wread[w]]
        /\ UNCHANGED <<events, queueVars, loopVars, actual, excused>>
    BY <1>13 DEF WriteBack, Goto, WorkerTypeOK, Store!Put
  <2>2. Fed(k) => Fed(k)'
    BY <1>6, <2>1 DEF queueVars, loopVars
  <2>3. CASE wkey[w] # k
    <3>1. desired'[k] = desired[k]
      BY <2>1, <2>3 DEF Store!StoreTypeOK
    <3> QED BY <1>5, <2>1, <2>2, <3>1 DEF Carries, Misleads
  <2>4. CASE wkey[w] = k
    <3>1. desired'[k] = wread[w]
      BY <2>1, <2>4 DEF Store!StoreTypeOK
    <3>2. CASE actual[k] # wread[w]
      BY <2>1, <2>4, <3>2 DEF WriterMatches
    <3>3. CASE actual[k] = wread[w]
      <4>1. PICK v \in Worker : Misleads(v, k)'
        BY <2>1, <3>1, <3>3, Places DEF Placed
      <4>2. v # w
        BY <2>1, <4>1 DEF Misleads
      <4>3. wpc[v] = "act" /\ wkey[v] = k
        BY <1>3, <4>1, <4>2 DEF Misleads
      <4> QED BY <2>1, <2>4, <4>2, <4>3 DEF SharedIsExcused, Busy
    <3> QED BY <3>2, <3>3
  <2> QED BY <2>3, <2>4
<1>14. CASE WriteBackFails(w)
  <2>1. /\ UNCHANGED <<storeVars, queueVars, loopVars, actual, excused>>
        /\ wpc[w] = "write" /\ wpc'[w] = "finish"
    BY <1>14 DEF WriteBackFails, Goto, WorkerTypeOK
  <2>2. Fed(k) => Fed(k)'
    BY <1>6, <2>1 DEF storeVars, queueVars, loopVars
  <2> QED BY <1>5, <2>1, <2>2 DEF Carries, Misleads, storeVars
<1>15. CASE WorkerEmit(w)
  <2>1. /\ UNCHANGED <<desired, queueVars, loopVars, actual>>
        /\ wpc[w] = "emit" /\ wpc'[w] = "finish" /\ wkey[w] \in Key
        /\ excused' = excused \cup (IF LosesEvent(wkey[w]) THEN {wkey[w]} ELSE {})
        /\ events' = IF Store!Delivers THEN Append(events, wkey[w]) ELSE events
    BY <1>15 DEF WorkerEmit, Store!Emit, Goto, Excuse, WorkerTypeOK
  <2>2. ToSet(events) \subseteq ToSet(events')
    BY <2>1, ToSetAppend DEF Store!StoreTypeOK
  <2>3. Fed(k) => Fed(k)'
    BY <2>1, <2>2 DEF Fed, queueVars, loopVars
  <2> QED BY <1>5, <2>1, <2>3 DEF Carries, Misleads
<1>16. CASE Requeue(w)
  <2>1. /\ UNCHANGED <<storeVars, queue, actual, excused>>
        /\ wpc[w] = "finish" /\ wpc'[w] = "done" /\ wkey[w] \in Key
        /\ timers' = [timers EXCEPT ![wkey[w]] = @ + 1]
    BY <1>16 DEF Requeue, Goto, WorkerTypeOK, Q!When, queueVars
  <2>2. timers'[k] >= timers[k] /\ timers[k] \in Nat /\ (wkey[w] = k => timers'[k] > 0)
    BY <2>1 DEF LoopTypeOK
  <2>3. Fed(k) => Fed(k)'
    BY <1>1, <2>1, <2>2 DEF Fed, storeVars
  <2>4. Carries(w, k) => InPipeline(k)'
    BY <2>2 DEF Carries, InPipeline
  <2> QED BY <1>5, <2>1, <2>3, <2>4 DEF Misleads, storeVars
<1>17. CASE ForgetItem(w) \/ DoneItem(w) \/ WorkerExit(w)
  <2>1. /\ UNCHANGED <<storeVars, queue, loopVars, actual, excused>>
        /\ wpc'[w] \in {"done", "idle", "exited"}
        /\ wpc[w] = "finish" => wres[w] = "forget"
        /\ wpc[w] \in {"finish", "done", "idle"}
    BY <1>17 DEF ForgetItem, DoneItem, WorkerExit, Goto, WorkerTypeOK, Q!Forget, Q!Done,
                 queueVars
  <2>2. Fed(k) => Fed(k)'
    BY <1>6, <2>1 DEF storeVars, loopVars
  <2> QED BY <1>5, <2>1, <2>2 DEF Carries, Misleads, storeVars
<1> QED BY <1>7, <1>8, <1>9, <1>10, <1>11, <1>12, <1>13, <1>14, <1>15, <1>16, <1>17
        DEF WorkerStep

-----------------------------------------------------------------------------

\* The four parts of NewsInv are inductive together with LoopInv.
LEMMA StepNews ==
    ASSUME LoopInv, NewsInv, [Next]_vars
    PROVE  NewsInv'
<1> USE DEF LoopInv, NewsInv
<1>1. ShutdownIsCancelled' /\ SharedIsExcused' /\ WriterMatches'
  BY StepShutdown, StepShared, StepWriter
<1>2. ASSUME NEW k \in Key, ~ctxDone', Unsettled(k)'
      PROVE  k \in excused' \/ InPipeline(k)'
  <2>1. CASE ClientActions
    BY <1>2, <2>1, NewsClient
  <2>2. CASE FeederActions
    BY <1>2, <2>2, NewsFeeder
  <2>3. CASE \E w \in Worker : WorkerStep(w)
    BY <1>2, <2>3, NewsWorker
  <2>4. CASE Restart
    BY <2>4 DEF Restart, InPipeline
  <2>5. CASE Cancel \/ WatchRemoved \/ WatchExit
    <3>1. ctxDone'
      BY <2>5 DEF Cancel, WatchRemoved, WatchExit, loopVars
    <3> QED BY <1>2, <3>1
  <2>6. CASE QueueShutdown \/ StartReturns
    <3>1. ctxDone'
      BY <2>6 DEF QueueShutdown, StartReturns, ShutdownIsCancelled, loopVars
    <3> QED BY <1>2, <3>1
  <2>7. CASE Terminated \/ UNCHANGED vars
    <3>1. UNCHANGED vars
      BY <2>7 DEF Terminated
    <3>2. UNCHANGED <<ctxDone, excused>> /\ Unsettled(k)' = Unsettled(k)
          /\ InPipeline(k)' = InPipeline(k)
      BY <3>1 DEF vars, storeVars, queueVars, clientVars, workerVars, loopVars,
                  Unsettled, InPipeline, Store!Present
    <3> QED BY <1>2, <3>2 DEF NoChangeForgotten
  <2> QED BY <2>1, <2>2, <2>3, <2>4, <2>5, <2>6, <2>7 DEF Next, LifecycleActions
<1> QED BY <1>1, <1>2 DEF NoChangeForgotten

\* While the controller runs, every stored object its runtime does not match is on
\* its way to a worker that will reconcile this version, or is one of the keys the
\* code gives up on: for any number of keys, requests in flight and workers, any
\* capacity of the watch channel, and across crashes.
THEOREM NoChangeIsForgotten == SafetySpec => []NoChangeForgotten
<1>1. Init => NewsInv
  BY DEF Init, NewsInv, ShutdownIsCancelled, SharedIsExcused, WriterMatches,
         NoChangeForgotten, InPipeline, Busy, Q!QueueInit
<1>2. NewsInv => NoChangeForgotten
  BY DEF NewsInv
<1> QED BY <1>1, <1>2, InitLoopInv, StepLoopInv, StepNews, PTL DEF SafetySpec
===============================================================================
