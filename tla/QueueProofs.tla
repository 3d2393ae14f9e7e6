----------------------------- MODULE QueueProofs ------------------------------
(*****************************************************************************)
(* What the workers of a queue, the delaying queue and the informer promise  *)
(* to the controllers, for every set of keys, workers and handlers and all   *)
(* bounds.                                                                   *)
(*****************************************************************************)
EXTENDS QueueWorker, DelayingQueue, Informer, BlockingQuery, Integers, Sequences, FiniteSetTheorems,
        Induction, TLAPS

-----------------------------------------------------------------------------
(* QueueWorker.  The bound on the failures counted is not inductive alone:   *)
(* a worker that fails must have had a reserve of the count when it took     *)
(* its item.  CountIsBounded counts the workers that still may.              *)

RunTypes ==
    /\ failures \in [Key -> Nat]
    /\ runpc \in [QueueWorkers -> {"check", "get", "process", "requeued", "returned"}]
    /\ item \in [QueueWorkers -> [key : Key, retries : Nat] \cup {NoItem}]
    /\ \A w \in QueueWorkers : Processing(w) => item[w].key \in Key /\ item[w].retries \in Nat

\* The workers that will count one more failure of k if they fail.
MayCount(k) ==
    {w \in QueueWorkers : Processing(w) /\ item[w].key = k /\ item[w].retries < MaxRetries}

\* What is counted, and what the workers at the key may still count.
CountIsBounded ==
    \A k \in Key :
        failures[k] + Cardinality(MayCount(k)) <= MaxRetries + Cardinality(QueueWorkers) - 1

RunInv == RunTypes /\ CountIsBounded

LEMMA WorkersCounted ==
    /\ IsFiniteSet(QueueWorkers)
    /\ Cardinality(QueueWorkers) \in Nat /\ Cardinality(QueueWorkers) >= 1
    /\ MaxRetries \in Nat
<1>1. Cardinality(QueueWorkers) \in Nat /\ Cardinality(QueueWorkers) # 0
  BY QueueWorkerAssumption, FS_CardinalityType, FS_EmptySet
<1> QED BY <1>1, QueueWorkerAssumption

\* Whoever may count is a worker, and with no retries nobody is.
LEMMA MayCountType ==
    ASSUME RunTypes, NEW k \in Key
    PROVE  /\ IsFiniteSet(MayCount(k))
           /\ Cardinality(MayCount(k)) \in Nat
           /\ Cardinality(MayCount(k)) <= Cardinality(QueueWorkers)
           /\ MaxRetries = 0 => Cardinality(MayCount(k)) = 0
<1>1. MayCount(k) \subseteq QueueWorkers
  BY DEF MayCount
<1>2. IsFiniteSet(MayCount(k)) /\ Cardinality(MayCount(k)) <= Cardinality(QueueWorkers)
  BY <1>1, WorkersCounted, FS_Subset
<1>3. ASSUME MaxRetries = 0 PROVE MayCount(k) = {}
  BY <1>3 DEF MayCount, RunTypes
<1> QED BY <1>2, <1>3, FS_CardinalityType, FS_EmptySet

\* A key that has no failures counted is within its bound.
LEMMA ForgottenIsBounded ==
    ASSUME RunTypes, NEW k \in Key, failures[k] = 0
    PROVE  failures[k] + Cardinality(MayCount(k)) <= MaxRetries + Cardinality(QueueWorkers) - 1
BY MayCountType, WorkersCounted

LEMMA RunInvInit == RunInit => RunInv
<1> SUFFICES ASSUME RunInit PROVE RunInv
  OBVIOUS
<1>1. RunTypes
  BY DEF RunInit, QueueInit, RunTypes, Processing
<1>2. CountIsBounded
  BY <1>1, ForgottenIsBounded DEF RunInit, QueueInit, CountIsBounded
<1> QED BY <1>1, <1>2 DEF RunInv

\* A step that counts nothing new, and gives nobody the right to.
LEMMA CountKept ==
    ASSUME RunInv, RunTypes', NEW k \in Key, failures'[k] = failures[k],
           MayCount(k)' \subseteq MayCount(k)
    PROVE  (failures[k] + Cardinality(MayCount(k))
              <= MaxRetries + Cardinality(QueueWorkers) - 1)'
<1>1. /\ IsFiniteSet(MayCount(k)) /\ Cardinality(MayCount(k)) \in Nat
      /\ failures[k] \in Nat
  BY MayCountType DEF RunInv, RunTypes
<1>2. Cardinality(MayCount(k)') <= Cardinality(MayCount(k)) /\ Cardinality(MayCount(k)') \in Nat
  BY <1>1, FS_Subset, FS_CardinalityType
<1> QED BY <1>1, <1>2, WorkersCounted DEF RunInv, CountIsBounded

LEMMA ForgottenIsBoundedNext ==
    ASSUME RunTypes', NEW k \in Key, failures'[k] = 0
    PROVE  (failures[k] + Cardinality(MayCount(k))
              <= MaxRetries + Cardinality(QueueWorkers) - 1)'
<1>1. MayCount(k)' \subseteq QueueWorkers
  BY DEF MayCount
<1>2. IsFiniteSet(MayCount(k)') /\ Cardinality(MayCount(k)') <= Cardinality(QueueWorkers)
  BY <1>1, WorkersCounted, FS_Subset
<1>3. ASSUME MaxRetries = 0 PROVE MayCount(k)' = {}
  BY <1>3 DEF MayCount, RunTypes
<1>4. Cardinality(MayCount(k)') \in Nat /\ (MaxRetries = 0 => Cardinality(MayCount(k)') = 0)
  BY <1>2, <1>3, FS_CardinalityType, FS_EmptySet
<1> QED BY <1>2, <1>4, WorkersCounted

LEMMA GetsKeeps == ASSUME RunInv, NEW w \in QueueWorkers, Gets(w) PROVE RunInv'
<1>1. PICK k \in Key :
        /\ item' = [item EXCEPT ![w] = [key |-> k, retries |-> failures[k]]]
        /\ failures' = failures
  BY DEF Gets, Get
<1>2. runpc' = [runpc EXCEPT ![w] = "process"]
  BY DEF Gets, Goto
<1>3. RunTypes /\ failures[k] \in Nat
  BY DEF RunInv, RunTypes
<1>4. RunTypes'
  BY <1>1, <1>2, <1>3 DEF RunTypes, Processing
<1>5. ASSUME NEW j \in Key
      PROVE  (failures[j] + Cardinality(MayCount(j))
                <= MaxRetries + Cardinality(QueueWorkers) - 1)'
  <2>1. CASE j = k /\ failures[k] < MaxRetries
    <3>1. MayCount(j)' \subseteq QueueWorkers
      BY DEF MayCount
    <3>2. Cardinality(MayCount(j)') <= Cardinality(QueueWorkers)
          /\ Cardinality(MayCount(j)') \in Nat
      BY <3>1, WorkersCounted, FS_Subset, FS_CardinalityType
    <3> QED BY <1>1, <1>3, <2>1, <3>2, WorkersCounted
  <2>2. CASE j # k \/ failures[k] >= MaxRetries
    <3>1. MayCount(j)' \subseteq MayCount(j)
      BY <1>1, <1>2, <1>3, <2>2, WorkersCounted DEF MayCount, Processing, RunTypes
    <3> QED BY <1>1, <1>4, <3>1, CountKept
  <2> QED BY <1>3, <2>1, <2>2, WorkersCounted
<1> QED BY <1>4, <1>5 DEF RunInv, CountIsBounded

LEMMA FinishKeeps ==
    ASSUME RunInv, NEW w \in QueueWorkers, Succeeds(w) \/ Fails(w)
    PROVE  RunInv'
<1> DEFINE k == item[w].key
<1>1. /\ runpc' = [runpc EXCEPT ![w] = "check"] /\ item' = [item EXCEPT ![w] = NoItem]
      /\ Processing(w)
  BY DEF Succeeds, Fails, Ends, Goto
<1>2. RunTypes /\ k \in Key /\ item[w].retries \in Nat /\ failures[k] \in Nat
  BY <1>1 DEF RunInv, RunTypes
<1>3. \/ failures' = [failures EXCEPT ![k] = 0]
      \/ failures' = [failures EXCEPT ![k] = @ + 1] /\ ~GivesUp(w)
  BY DEF Succeeds, Fails, Done, Forget, When
<1>4. RunTypes'
  BY <1>1, <1>2, <1>3 DEF RunTypes, Processing
<1>5. ASSUME NEW j \in Key PROVE MayCount(j)' = MayCount(j) \ {w}
  BY <1>1, <1>2 DEF MayCount, Processing, RunTypes
<1>6. ASSUME NEW j \in Key
      PROVE  (failures[j] + Cardinality(MayCount(j))
                <= MaxRetries + Cardinality(QueueWorkers) - 1)'
  <2>1. CASE j # k
    BY <1>2, <1>3, <1>4, <1>5, <2>1, CountKept DEF RunTypes
  <2>2. CASE j = k /\ failures' = [failures EXCEPT ![k] = 0]
    BY <1>2, <1>4, <2>2, ForgottenIsBoundedNext DEF RunTypes
  <2>3. CASE j = k /\ failures' = [failures EXCEPT ![k] = @ + 1] /\ ~GivesUp(w)
    <3>1. w \in MayCount(j)
      BY <1>1, <1>2, <2>3, WorkersCounted DEF MayCount, GivesUp
    <3>2. IsFiniteSet(MayCount(j)) /\ Cardinality(MayCount(j)) \in Nat
      BY <1>2, MayCountType
    <3>3. Cardinality(MayCount(j)') = Cardinality(MayCount(j)) - 1
      BY <1>5, <3>1, <3>2, FS_RemoveElement
    <3>4. failures[j] + Cardinality(MayCount(j)) <= MaxRetries + Cardinality(QueueWorkers) - 1
      BY DEF RunInv, CountIsBounded
    <3>5. failures'[j] = failures[j] + 1 /\ failures[j] \in Nat
      BY <1>2, <2>3 DEF RunTypes
    <3> QED BY <3>2, <3>3, <3>4, <3>5, WorkersCounted
  <2> QED BY <1>3, <2>1, <2>2, <2>3
<1> QED BY <1>4, <1>6 DEF RunInv, CountIsBounded

LEMMA RunInvStep == RunInv /\ [RunNext]_runVars => RunInv'
<1> SUFFICES ASSUME RunInv, [RunNext]_runVars PROVE RunInv'
  OBVIOUS
<1>0. RunTypes
  BY DEF RunInv
<1>1. CASE UNCHANGED <<failures, runpc, item>>
  BY <1>0, <1>1 DEF RunInv, RunTypes, Processing, CountIsBounded, MayCount
<1>2. ASSUME NEW w \in QueueWorkers, Checks(w) \/ GetFails(w) \/ Requeues(w) PROVE RunInv'
  <2>1. failures' = failures /\ item' = item
    BY <1>2 DEF Checks, GetFails, Requeues, Shutdown, queueVars
  <2>2. \/ runpc[w] \in {"check", "get"} /\ Goto(w, runpc'[w]) /\ runpc'[w] \in {"get", "returned"}
        \/ runpc[w] = "process" /\ Goto(w, "requeued")
    BY <1>0, <1>2 DEF Checks, GetFails, Requeues, Goto, RunTypes
  <2>3. \A v \in QueueWorkers : Processing(v)' = Processing(v)
    BY <1>0, <2>2 DEF Goto, Processing, RunTypes
  <2>4. runpc' \in [QueueWorkers -> {"check", "get", "process", "requeued", "returned"}]
    BY <1>0, <2>2 DEF Goto, RunTypes
  <2>5. RunTypes'
    BY <1>0, <2>1, <2>3, <2>4 DEF RunTypes
  <2>6. \A k \in Key : MayCount(k)' = MayCount(k)
    BY <2>1, <2>3 DEF MayCount
  <2> QED BY <2>1, <2>5, <2>6 DEF RunInv, CountIsBounded
<1>3. ASSUME NEW k \in Key, Enqueued(k) \/ AddAfterWakes(k) PROVE RunInv'
  BY <1>1, <1>3 DEF Enqueued, AddAfterWakes, Add
<1>4. CASE Stop \/ StopReturns \/ UNCHANGED runVars
  BY <1>1, <1>4 DEF Stop, StopReturns, runVars, queueVars
<1> QED BY <1>2, <1>3, <1>4, GetsKeeps, FinishKeeps DEF RunNext, RunStep

\* For any number of workers and keys and every retry limit: the failures counted for a
\* key exceed the limit by at most the other workers that had it in hand.
THEOREM RetriesStayBounded == RunSpec => []RetriesAreBounded
<1>1. ASSUME RunInv, NEW k \in Key
      PROVE  failures[k] <= MaxRetries + Cardinality(QueueWorkers) - 1
  <2>1. /\ failures[k] \in Nat /\ Cardinality(MayCount(k)) \in Nat
        /\ failures[k] + Cardinality(MayCount(k)) <= MaxRetries + Cardinality(QueueWorkers) - 1
    BY <1>1, MayCountType DEF RunInv, RunTypes, CountIsBounded
  <2> QED BY <2>1, WorkersCounted
<1>2. RunInv => RetriesAreBounded
  BY <1>1 DEF RetriesAreBounded
<1> QED BY <1>2, RunInvInit, RunInvStep, PTL DEF RunSpec

-----------------------------------------------------------------------------
(* DelayingQueue.                                                            *)

DelayTypes ==
    /\ Delayed \subseteq DelayedKey
    /\ \A k \in Delayed : heap[k] \in 0..MaxDelay
    /\ signals \in 0..MaxCallers
    /\ timer \in 0..IdleSleep
    /\ delaypc \in {"loop", "asleep", "off"}

DelayInv == DelayTypes /\ NothingIsOverslept

\* The time run sleeps for beside a heap that is not empty.
LEMMA LeastIsEarliest ==
    ASSUME DelayTypes, Delayed # {}
    PROVE  /\ \E k \in Delayed : Least = heap[k]
           /\ \A k \in Delayed : Least <= heap[k]
<1> DEFINE T == {heap[k] : k \in Delayed}
<1>1. T \subseteq Nat /\ T # {}
  BY DelayingAssumption DEF DelayTypes
<1>2. \E t \in T : \A u \in T : t <= u
  <2> HIDE DEF T
  <2> QED BY <1>1, LeastNatural
<1>3. \E t \in T : \A k \in Delayed : t <= heap[k]
  BY <1>2
<1>4. Least \in T /\ \A k \in Delayed : Least <= heap[k]
  BY <1>3 DEF Least
<1> QED BY <1>4

\* As time passes, what is left shrinks and keeps its order.
LEMMA UntilShrinks ==
    /\ \A n, t \in Nat : t \in 0..n => Until(t) \in 0..n
    /\ \A s, t \in Nat : s <= t => Until(s) <= Until(t)
BY DEF Until

LEMMA DelayInvInit == DelayInit => DelayInv
<1> SUFFICES ASSUME DelayInit PROVE DelayInv
  OBVIOUS
<1>1. Delayed = {}
  <2>1. <<>> \in Seq({}) /\ Len(<<>>) = 0
    OBVIOUS
  <2>2. \A s \in Seq({}) : DOMAIN s = 1..Len(s)
    OBVIOUS
  <2>3. DOMAIN <<>> = 1..0
    BY <2>1, <2>2
  <2> QED BY <2>3 DEF Delayed, DelayInit
<1>2. DelayTypes
  BY <1>1, DelayingAssumption DEF DelayInit, DelayTypes
<1> QED BY <1>2 DEF DelayInit, DelayInv, NothingIsOverslept

LEMMA DelayTypesStep == DelayTypes /\ [DelayNext]_delayVars => DelayTypes'
<1> SUFFICES ASSUME DelayTypes, [DelayNext]_delayVars PROVE DelayTypes'
  OBVIOUS
<1>1. {MaxDelay, IdleSleep, MaxCallers} \subseteq Nat /\ MaxDelay < IdleSleep
  BY DelayingAssumption
<1>2. ASSUME NEW k \in DelayedKey, NEW delay \in 1..MaxDelay, AddAfter(k, delay)
      PROVE  DelayTypes'
  <2>1. Delayed' = Delayed \cup {k} /\ heap'[k] = delay
    BY <1>2 DEF AddAfter, Scheduled, Delayed
  <2>2. ASSUME NEW j \in Delayed', j # k PROVE heap'[j] = heap[j] /\ j \in Delayed
    BY <1>2, <2>2 DEF AddAfter, Scheduled, Delayed
  <2>3. \A j \in Delayed' : heap'[j] \in 0..MaxDelay
    BY <1>1, <2>1, <2>2 DEF DelayTypes
  <2>4. /\ signals' \in 0..MaxCallers
        /\ delaypc' = delaypc /\ timer' = timer
    BY <1>1, <1>2 DEF DelayTypes, AddAfter, OwesSignal
  <2> QED BY <2>1, <2>3, <2>4 DEF DelayTypes
<1>3. CASE Signals \/ DelayingShutdown \/ RunEnds \/ Wakes \/ UNCHANGED delayVars
  <2>1. heap' = heap
    BY <1>3 DEF Signals, DelayingShutdown, RunEnds, Wakes, delayVars
  <2>2. signals' \in 0..MaxCallers
    BY <1>1, <1>3 DEF DelayTypes, Signals, DelayingShutdown, OwesSignal, RunEnds, Wakes,
                      delayVars
  <2>3. timer' \in 0..IdleSleep /\ delaypc' \in {"loop", "asleep", "off"}
    BY <1>1, <1>3 DEF DelayTypes, Signals, DelayingShutdown, RunEnds, Wakes, delayVars
  <2> QED BY <2>1, <2>2, <2>3 DEF DelayTypes, Delayed
<1>4. CASE ReleasesDue
  BY <1>1, <1>4 DEF DelayTypes, Delayed, ReleasesDue
<1>5. CASE Sleeps
  BY <1>1, <1>5, LeastIsEarliest DEF DelayTypes, Delayed, Sleeps
<1>6. CASE Elapses
  BY <1>1, <1>6 DEF DelayTypes, Delayed, Elapses, Until
<1> QED BY <1>2, <1>3, <1>4, <1>5, <1>6 DEF DelayNext

LEMMA DelayInvStep == DelayInv /\ [DelayNext]_delayVars => DelayInv'
<1> SUFFICES ASSUME DelayInv, [DelayNext]_delayVars PROVE NothingIsOverslept'
  BY DelayTypesStep DEF DelayInv
<1>1. DelayTypes /\ NothingIsOverslept
  BY DEF DelayInv
<1>2. ASSUME NEW k \in DelayedKey, NEW delay \in 1..MaxDelay, AddAfter(k, delay)
      PROVE  NothingIsOverslept'
  BY <1>1, <1>2 DEF DelayTypes, AddAfter, OwesSignal, NothingIsOverslept
<1>3. CASE Signals \/ DelayingShutdown
  BY <1>1, <1>3 DEF DelayTypes, Signals, DelayingShutdown, OwesSignal, NothingIsOverslept
<1>4. CASE RunEnds \/ ReleasesDue \/ Wakes
  BY <1>4 DEF RunEnds, ReleasesDue, Wakes, NothingIsOverslept
<1>5. CASE Sleeps
  BY <1>1, <1>5, LeastIsEarliest DEF Sleeps, Delayed, NothingIsOverslept
<1>6. CASE Elapses
  <2>1. Delayed' = Delayed /\ \A k \in Delayed : heap'[k] = Until(heap[k])
    BY <1>6 DEF Elapses, Delayed
  <2>2. timer \in Nat /\ \A k \in Delayed : heap[k] \in Nat
    BY <1>1 DEF DelayTypes
  <2> QED BY <1>1, <1>6, <2>1, <2>2, UntilShrinks DEF Elapses, NothingIsOverslept
<1>7. CASE UNCHANGED delayVars
  BY <1>1, <1>7 DEF delayVars, Delayed, NothingIsOverslept
<1> QED BY <1>2, <1>3, <1>4, <1>5, <1>6, <1>7 DEF DelayNext

\* For any number of callers and any delays: whatever run sleeps through, a signal is on
\* its way or the timer ends before the first key is due.
THEOREM NobodyOversleeps == DelaySpec => []NothingIsOverslept
<1>1. DelayInv => NothingIsOverslept
  BY DEF DelayInv
<1> QED BY <1>1, DelayInvInit, DelayInvStep, PTL DEF DelaySpec

-----------------------------------------------------------------------------
(* Informer.  HandlersKnowTheCache speaks of the time between events; the    *)
(* invariant says what each handler is owed during them.                     *)

Objects == [ObjKey -> Nat]

InformerTypes ==
    /\ indexed \in Objects
    /\ handlers \subseteq Handler
    /\ infpc \in {"new", "initial", "watch", "received", "dispatch", "off"}
    /\ toCall \subseteq ObjKey \X handlers
    /\ replay \in [Handler -> Objects]
    /\ view \in [Handler -> Objects]
    /\ events \in Nat

\* Nobody is called before AddEventHandler, and nobody is replayed to before the sync.
UntilSynced ==
    /\ \A h \in Handler \ handlers, k \in ObjKey : view[h][k] = NoObject
    /\ \A h \in Handler \ handlers, k \in ObjKey : replay[h][k] = NoObject
    /\ synced => infpc \notin {"new", "initial"}
    /\ ~synced => /\ infpc \in {"new", "initial", "off"}
                  /\ \A h \in Handler, k \in ObjKey : replay[h][k] = NoObject
    /\ infpc = "new" => \A h \in Handler, k \in ObjKey : view[h][k] = NoObject

\* What Run is about to tell is what it put into the cache.
TellsTheCache ==
    /\ infpc = "initial" =>
        \A k \in ObjKey, h \in Handler : <<k, h>> \in toCall => indexed[k] = Initial
    /\ infpc \in {"received", "dispatch"} =>
        event.key \in ObjKey /\ indexed[event.key] = event.obj

\* The handler will be told of the key before Run goes on.
IsOwed(h, k) ==
    \/ infpc = "initial" /\ <<k, h>> \in toCall
    \/ infpc = "received" /\ k = event.key
    \/ infpc = "dispatch" /\ k = event.key /\ <<k, h>> \in toCall

Knows(h, k) ==
    \/ <<k, h>> \in behind
    \/ replay[h][k] = NoObject /\ view[h][k] = indexed[k]
    \/ replay[h][k] # NoObject /\ replay[h][k] = indexed[k]

KnowsOrIsOwed ==
    synced \/ infpc = "initial" =>
        \A h \in handlers, k \in ObjKey : IsOwed(h, k) \/ Knows(h, k)

InformerInv == InformerTypes /\ UntilSynced /\ TellsTheCache /\ KnowsOrIsOwed

\* One key of one handler changes.
Table(F) == F \in [Handler -> Objects]
SetsAt(F, G, h, k, x) ==
    /\ Table(G) /\ G[h][k] = x
    /\ \A i \in Handler, j \in ObjKey : <<i, j>> # <<h, k>> => G[i][j] = F[i][j]

LEMMA SetsOne ==
    ASSUME NEW F, Table(F), NEW h \in Handler, NEW k \in ObjKey, NEW x \in Nat
    PROVE  SetsAt(F, [F EXCEPT ![h][k] = x], h, k, x)
<1> DEFINE G == [F EXCEPT ![h][k] = x]
<1>1. F[h] \in Objects
  BY DEF Table
<1>2. [F[h] EXCEPT ![k] = x] \in Objects
  BY <1>1 DEF Objects
<1>3. G = [F EXCEPT ![h] = [F[h] EXCEPT ![k] = x]]
  OBVIOUS
<1>4. Table(G)
  BY <1>2, <1>3 DEF Table
<1>5. G[h] = [F[h] EXCEPT ![k] = x] /\ \A i \in Handler : i # h => G[i] = F[i]
  BY <1>3 DEF Table
<1>6. G[h][k] = x /\ \A j \in ObjKey : j # k => G[h][j] = F[h][j]
  BY <1>1, <1>5 DEF Objects
<1> QED BY <1>4, <1>5, <1>6 DEF SetsAt

LEMMA NothingIsAnObject ==
    NothingKnown \in Objects /\ \A k \in ObjKey : NothingKnown[k] = NoObject
BY DEF NothingKnown, NoObject, Objects

LEMMA InformerInvInit == InformerInit => InformerInv
<1> SUFFICES ASSUME InformerInit PROVE InformerInv
  OBVIOUS
<1>1. InformerTypes
  BY NothingIsAnObject DEF InformerInit, InformerTypes
<1>2. UntilSynced
  BY NothingIsAnObject DEF InformerInit, UntilSynced
<1> QED BY <1>1, <1>2 DEF InformerInit, InformerInv, TellsTheCache, KnowsOrIsOwed

LEMMA JoinKeeps == ASSUME InformerInv, NEW h \in Handler, AddEventHandler(h) PROVE InformerInv'
<1>0. InformerTypes /\ UntilSynced /\ TellsTheCache /\ KnowsOrIsOwed
  BY DEF InformerInv
<1> DEFINE new == IF synced THEN indexed ELSE NothingKnown
<1>1. /\ handlers' = handlers \cup {h} /\ h \notin handlers
      /\ replay' = [replay EXCEPT ![h] = new]
      /\ indexed' = indexed /\ synced' = synced /\ infpc' = infpc /\ event' = event
      /\ toCall' = toCall /\ view' = view /\ events' = events
  BY DEF AddEventHandler
<1>2. new \in Objects
  BY <1>0, NothingIsAnObject DEF InformerTypes
<1>3. /\ replay' \in [Handler -> Objects] /\ replay'[h] = new
      /\ \A i \in Handler : i # h => replay'[i] = replay[i]
  BY <1>0, <1>1, <1>2 DEF InformerTypes
<1>4. InformerTypes'
  BY <1>0, <1>1, <1>3 DEF InformerTypes
<1>5. UntilSynced'
  BY <1>0, <1>1, <1>3, NothingIsAnObject DEF UntilSynced, InformerTypes
<1>6. TellsTheCache'
  BY <1>0, <1>1 DEF TellsTheCache
<1>7. ASSUME NEW i \in handlers, NEW k \in ObjKey, synced \/ infpc = "initial"
      PROVE  IsOwed(i, k)' \/ Knows(i, k)'
  <2>1. i \in Handler /\ i # h
    BY <1>0, <1>1 DEF InformerTypes
  <2>2. behind \subseteq behind'
    BY DEF AddEventHandler
  <2>3. IsOwed(i, k) \/ Knows(i, k)
    BY <1>0, <1>7 DEF KnowsOrIsOwed
  <2> QED BY <1>1, <1>3, <2>1, <2>2, <2>3 DEF IsOwed, Knows
<1>8. ASSUME NEW k \in ObjKey, synced \/ infpc = "initial" PROVE Knows(h, k)'
  <2>1. view[h][k] = NoObject /\ indexed[k] \in Nat
    BY <1>0, <1>1 DEF UntilSynced, InformerTypes, Objects
  <2>2. CASE synced
    BY <1>1, <1>3, <2>1, <2>2 DEF Knows, NoObject
  <2>3. CASE ~synced /\ infpc = "initial"
    <3>1. indexed[k] # NoObject => <<k, h>> \in behind'
      BY <2>3 DEF AddEventHandler
    <3>2. replay'[h][k] = NoObject
      BY <1>3, <2>3, NothingIsAnObject
    <3> QED BY <1>1, <2>1, <3>1, <3>2 DEF Knows
  <2> QED BY <1>8, <2>2, <2>3
<1>9. KnowsOrIsOwed'
  BY <1>1, <1>7, <1>8 DEF KnowsOrIsOwed
<1> QED BY <1>4, <1>5, <1>6, <1>9 DEF InformerInv

LEMMA ReplayKeeps ==
    ASSUME InformerInv, NEW h \in Handler, NEW k \in ObjKey, Replays(h, k) PROVE InformerInv'
<1>0. InformerTypes /\ UntilSynced /\ TellsTheCache /\ KnowsOrIsOwed
  BY DEF InformerInv
<1>1. /\ replay[h][k] # NoObject
      /\ view' = [view EXCEPT ![h][k] = replay[h][k]]
      /\ replay' = [replay EXCEPT ![h][k] = NoObject]
      /\ UNCHANGED <<indexed, handlers, synced, infpc, event, toCall, events, behind>>
  BY DEF Replays
<1>2. synced /\ h \in handlers
  BY <1>0, <1>1 DEF UntilSynced
<1>3. replay[h][k] \in Nat /\ NoObject \in Nat
  BY <1>0 DEF InformerTypes, Objects, NoObject
<1> Table(view) /\ Table(replay)
  BY <1>0 DEF InformerTypes, Table
<1>4. SetsAt(view, view', h, k, replay[h][k])
  BY <1>1, <1>3, SetsOne
<1>5. SetsAt(replay, replay', h, k, NoObject)
  BY <1>1, <1>3, SetsOne
<1>6. InformerTypes'
  BY <1>0, <1>1, <1>4, <1>5 DEF InformerTypes, SetsAt, Table
<1>7. UntilSynced' /\ TellsTheCache'
  BY <1>0, <1>1, <1>2, <1>4, <1>5 DEF UntilSynced, TellsTheCache, SetsAt, Table
<1>8. ASSUME NEW i \in handlers, NEW j \in ObjKey PROVE IsOwed(i, j)' \/ Knows(i, j)'
  <2>1. i \in Handler /\ (IsOwed(i, j) \/ Knows(i, j))
    BY <1>0, <1>2 DEF InformerTypes, KnowsOrIsOwed
  <2>2. CASE <<i, j>> # <<h, k>>
    BY <1>1, <1>4, <1>5, <2>1, <2>2 DEF IsOwed, Knows, SetsAt, Table
  <2>3. CASE i = h /\ j = k
    BY <1>1, <1>4, <1>5, <2>1, <2>3 DEF IsOwed, Knows, SetsAt, Table
  <2> QED BY <2>2, <2>3
<1>9. KnowsOrIsOwed'
  BY <1>1, <1>8 DEF KnowsOrIsOwed
<1> QED BY <1>6, <1>7, <1>9 DEF InformerInv

LEMMA ListsKeeps == ASSUME InformerInv, Lists PROVE InformerInv'
<1>0. InformerTypes /\ UntilSynced /\ TellsTheCache /\ KnowsOrIsOwed
  BY DEF InformerInv
<1>1. PICK K \in SUBSET ObjKey :
        /\ indexed' = [k \in ObjKey |-> IF k \in K THEN Initial ELSE NoObject]
        /\ toCall' = K \X handlers
  BY DEF Lists
<1>2. /\ infpc = "new" /\ infpc' = "initial"
      /\ UNCHANGED <<handlers, synced, event, replay, view, events, behind>>
  BY DEF Lists
<1>3. indexed' \in Objects
  BY <1>1 DEF Objects, Initial, NoObject
<1>4. InformerTypes'
  BY <1>0, <1>1, <1>2, <1>3 DEF InformerTypes
<1>5. UntilSynced' /\ TellsTheCache'
  BY <1>0, <1>1, <1>2 DEF UntilSynced, TellsTheCache
<1>6. ASSUME NEW h \in handlers, NEW k \in ObjKey PROVE IsOwed(h, k)' \/ Knows(h, k)'
  <2>1. h \in Handler /\ view[h][k] = NoObject /\ replay[h][k] = NoObject
    BY <1>0, <1>2 DEF InformerTypes, UntilSynced
  <2> QED BY <1>1, <1>2, <2>1 DEF IsOwed, Knows
<1>7. KnowsOrIsOwed'
  BY <1>2, <1>6 DEF KnowsOrIsOwed
<1> QED BY <1>4, <1>5, <1>7 DEF InformerInv

LEMMA TellsInitialKeeps ==
    ASSUME InformerInv, NEW h \in Handler, NEW k \in ObjKey, TellsInitial(k, h)
    PROVE  InformerInv'
<1>0. InformerTypes /\ UntilSynced /\ TellsTheCache /\ KnowsOrIsOwed
  BY DEF InformerInv
<1>1. /\ infpc = "initial" /\ <<k, h>> \in toCall
      /\ view' = [view EXCEPT ![h][k] = Initial]
      /\ toCall' = toCall \ {<<k, h>>}
      /\ UNCHANGED <<indexed, handlers, synced, infpc, event, replay, events, behind>>
  BY DEF TellsInitial
<1>2. indexed[k] = Initial /\ h \in handlers /\ ~synced /\ Initial \in Nat
  BY <1>0, <1>1 DEF InformerTypes, UntilSynced, TellsTheCache, Initial
<1> Table(view)
  BY <1>0 DEF InformerTypes, Table
<1>3. SetsAt(view, view', h, k, Initial)
  BY <1>1, <1>2, SetsOne
<1>4. InformerTypes'
  BY <1>0, <1>1, <1>3 DEF InformerTypes, SetsAt, Table
<1>5. UntilSynced' /\ TellsTheCache'
  BY <1>0, <1>1, <1>2, <1>3 DEF UntilSynced, TellsTheCache, SetsAt, Table
<1>6. ASSUME NEW i \in handlers, NEW j \in ObjKey PROVE IsOwed(i, j)' \/ Knows(i, j)'
  <2>1. i \in Handler /\ (IsOwed(i, j) \/ Knows(i, j)) /\ replay[i][j] = NoObject
    BY <1>0, <1>1, <1>2 DEF InformerTypes, KnowsOrIsOwed, UntilSynced
  <2>2. CASE <<i, j>> # <<h, k>>
    BY <1>1, <1>3, <2>1, <2>2 DEF IsOwed, Knows, SetsAt, Table
  <2>3. CASE i = h /\ j = k
    BY <1>1, <1>2, <1>3, <2>1, <2>3 DEF Knows, SetsAt, Table
  <2> QED BY <2>2, <2>3
<1>7. KnowsOrIsOwed'
  BY <1>1, <1>6 DEF KnowsOrIsOwed
<1> QED BY <1>4, <1>5, <1>7 DEF InformerInv

LEMMA ReceivesKeeps ==
    ASSUME InformerInv, NEW k \in ObjKey, NEW type, Receives(type, k) PROVE InformerInv'
<1>0. InformerTypes /\ UntilSynced /\ TellsTheCache /\ KnowsOrIsOwed
  BY DEF InformerInv
<1> DEFINE new == IF type = "Delete" THEN NoObject ELSE Initial + events'
<1>1. /\ infpc = "watch" /\ infpc' = "received"
      /\ events' = events + 1
      /\ event' = [type |-> type, key |-> k, obj |-> new, old |-> indexed[k]]
      /\ indexed' = [indexed EXCEPT ![k] = new]
      /\ UNCHANGED <<handlers, synced, toCall, replay, view, behind>>
  BY DEF Receives
<1>2. events' \in Nat /\ new \in Nat
  BY <1>0, <1>1 DEF InformerTypes, NoObject, Initial
<1>3. /\ indexed' \in Objects /\ indexed'[k] = new
      /\ \A j \in ObjKey : j # k => indexed'[j] = indexed[j]
  BY <1>0, <1>1, <1>2 DEF InformerTypes, Objects
<1>4. event'.key = k /\ event'.obj = new
  BY <1>1
<1>5. InformerTypes'
  BY <1>0, <1>1, <1>2, <1>3 DEF InformerTypes
<1>6. UntilSynced' /\ TellsTheCache'
  BY <1>0, <1>1, <1>3, <1>4 DEF UntilSynced, TellsTheCache
<1>7. ASSUME NEW h \in handlers, NEW j \in ObjKey PROVE IsOwed(h, j)' \/ Knows(h, j)'
  <2>1. synced /\ (IsOwed(h, j) \/ Knows(h, j))
    BY <1>0, <1>1 DEF KnowsOrIsOwed, UntilSynced
  <2> QED BY <1>1, <1>3, <1>4, <2>1 DEF IsOwed, Knows
<1>8. KnowsOrIsOwed'
  BY <1>1, <1>7 DEF KnowsOrIsOwed
<1> QED BY <1>5, <1>6, <1>8 DEF InformerInv

LEMMA TellsKeeps == ASSUME InformerInv, NEW h \in Handler, Tells(h) PROVE InformerInv'
<1>0. InformerTypes /\ UntilSynced /\ TellsTheCache /\ KnowsOrIsOwed
  BY DEF InformerInv
<1>1. /\ infpc = "dispatch" /\ <<event.key, h>> \in toCall
      /\ view' = [view EXCEPT ![h][event.key] = event.obj]
      /\ behind' = IF replay[h][event.key] \notin {NoObject, event.obj}
                   THEN behind \cup {<<event.key, h>>} ELSE behind \ {<<event.key, h>>}
      /\ toCall' = toCall \ {<<event.key, h>>}
      /\ UNCHANGED <<indexed, handlers, synced, infpc, event, replay, events>>
  BY DEF Tells
<1>2. PICK k \in ObjKey : k = event.key /\ indexed[k] = event.obj
  BY <1>0, <1>1 DEF TellsTheCache
<1>3. synced /\ h \in handlers /\ event.obj \in Nat
  BY <1>0, <1>1, <1>2 DEF InformerTypes, Objects, UntilSynced
<1> Table(view)
  BY <1>0 DEF InformerTypes, Table
<1>4. SetsAt(view, view', h, k, event.obj)
  BY <1>1, <1>2, <1>3, SetsOne
<1>5. InformerTypes'
  BY <1>0, <1>1, <1>4 DEF InformerTypes, SetsAt, Table
<1>6. UntilSynced' /\ TellsTheCache'
  BY <1>0, <1>1, <1>3, <1>4 DEF UntilSynced, TellsTheCache, SetsAt, Table
<1>7. ASSUME NEW i \in handlers, NEW j \in ObjKey PROVE IsOwed(i, j)' \/ Knows(i, j)'
  <2>1. i \in Handler /\ (IsOwed(i, j) \/ Knows(i, j))
    BY <1>0, <1>3 DEF InformerTypes, KnowsOrIsOwed
  <2>2. CASE <<i, j>> # <<h, k>>
    <3>1. /\ <<j, i>> \in behind' <=> <<j, i>> \in behind
          /\ <<j, i>> \in toCall' <=> <<j, i>> \in toCall
      BY <1>1, <1>2, <2>2
    <3> QED BY <1>1, <1>4, <2>1, <2>2, <3>1 DEF IsOwed, Knows, SetsAt, Table
  <2>3. CASE i = h /\ j = k
    BY <1>1, <1>2, <1>4, <2>3 DEF Knows, SetsAt, Table
  <2> QED BY <2>2, <2>3
<1>8. KnowsOrIsOwed'
  BY <1>1, <1>7 DEF KnowsOrIsOwed
<1> QED BY <1>5, <1>6, <1>8 DEF InformerInv

LEMMA RunKeeps ==
    ASSUME InformerInv, Syncs \/ CopiesHandlers \/ Dispatched \/ RunReturns PROVE InformerInv'
<1>0. InformerTypes /\ UntilSynced /\ TellsTheCache /\ KnowsOrIsOwed
  BY DEF InformerInv
<1>1. UNCHANGED <<indexed, handlers, replay, view, events, behind>>
  BY DEF Syncs, CopiesHandlers, Dispatched, RunReturns
<1>2. InformerTypes'
  BY <1>0, <1>1 DEF InformerTypes, Syncs, CopiesHandlers, Dispatched, RunReturns, TellsTheCache
<1>3. UntilSynced'
  BY <1>0, <1>1 DEF UntilSynced, Syncs, CopiesHandlers, Dispatched, RunReturns
<1>4. TellsTheCache'
  BY <1>0, <1>1 DEF TellsTheCache, Syncs, CopiesHandlers, Dispatched, RunReturns
<1>5. ASSUME NEW h \in handlers, NEW k \in ObjKey, (synced \/ infpc = "initial")'
      PROVE  IsOwed(h, k)' \/ Knows(h, k)'
  <2>1. synced \/ infpc = "initial"
    BY <1>0, <1>5 DEF UntilSynced, Syncs, CopiesHandlers, Dispatched, RunReturns
  <2>2. IsOwed(h, k) \/ Knows(h, k)
    BY <1>0, <2>1 DEF KnowsOrIsOwed
  <2>3. Knows(h, k)' <=> Knows(h, k)
    BY <1>1 DEF Knows
  <2>4. CASE IsOwed(h, k)
    BY <2>4 DEF IsOwed, Syncs, CopiesHandlers, Dispatched, RunReturns
  <2> QED BY <2>2, <2>3, <2>4
<1>6. KnowsOrIsOwed'
  BY <1>1, <1>5 DEF KnowsOrIsOwed
<1> QED BY <1>2, <1>3, <1>4, <1>6 DEF InformerInv

LEMMA InformerInvStep == InformerInv /\ [InformerNext]_informerVars => InformerInv'
<1>1. ASSUME InformerInv, UNCHANGED informerVars PROVE InformerInv'
  BY <1>1 DEF informerVars, InformerInv, InformerTypes, UntilSynced, TellsTheCache,
              KnowsOrIsOwed, IsOwed, Knows
<1> QED BY <1>1, JoinKeeps, ReplayKeeps, ListsKeeps, TellsInitialKeeps, ReceivesKeeps,
           TellsKeeps, RunKeeps DEF InformerNext

\* For any number of keys, handlers and events, and handlers that join at any step: between
\* events a handler that has been replayed to knows the cache, the named keys excepted.
THEOREM HandlersAreTold == InformerSpec => []HandlersKnowTheCache
<1>1. InformerInv => HandlersKnowTheCache
  BY DEF InformerInv, KnowsOrIsOwed, IsOwed, Knows, HandlersKnowTheCache
<1> QED BY <1>1, InformerInvInit, InformerInvStep, PTL DEF InformerSpec

-----------------------------------------------------------------------------
(* BlockingQuery.                                                            *)

PollState ==
    [pc : {"query", "locked", "asleep", "awake", "returned"}, minIndex : Nat, idx : Nat,
     timed : BOOLEAN, due : BOOLEAN, fired : BOOLEAN, cancelled : BOOLEAN]

\* What holds of a poller r under the index i and the stamped index s.  A client never
\* asks for more than there is.
PollerIsCurrent(r, i, s) ==
    /\ r \in PollState
    /\ r.minIndex <= s
    /\ r.pc = "asleep" => r.idx = i /\ s = i /\ ~r.fired
    /\ r.idx # 0 => r.minIndex <= r.idx /\ r.idx <= s

PollInv ==
    /\ index \in Nat /\ stamped \in 1..index
    /\ poll \in [Poller -> PollState]
    /\ \A p \in Poller : PollerIsCurrent(poll[p], index, stamped)

LEMMA PollInvInit == PollInit => PollInv
<1> SUFFICES ASSUME PollInit PROVE PollInv
  OBVIOUS
<1> DEFINE r == [NewPoll(0, FALSE) EXCEPT !.pc = "returned"]
<1>1. r \in PollState /\ r.pc = "returned" /\ r.minIndex = 0 /\ r.idx = 0
  BY DEF NewPoll, PollState
<1>2. index = 1 /\ stamped = 1 /\ poll = [p \in Poller |-> r]
  BY DEF PollInit
<1> HIDE DEF r
<1>3. \A p \in Poller : PollerIsCurrent(poll[p], index, stamped)
  BY <1>1, <1>2 DEF PollerIsCurrent
<1> QED BY <1>1, <1>2, <1>3 DEF PollInv

\* A step of one poller, which leaves it current.
LEMMA OnePollerKeeps ==
    ASSUME PollInv, UNCHANGED <<index, stamped>>, NEW p \in Poller,
           NEW r, PollerIsCurrent(r, index, stamped), poll' = [poll EXCEPT ![p] = r]
    PROVE  PollInv'
<1>1. r \in PollState
  BY DEF PollerIsCurrent
<1>2. poll' \in [Poller -> PollState]
  BY <1>1 DEF PollInv
<1>3. ASSUME NEW q \in Poller PROVE PollerIsCurrent(poll'[q], index, stamped)
  <2>1. poll'[q] = IF q = p THEN r ELSE poll[q]
    BY DEF PollInv
  <2>2. PollerIsCurrent(poll[q], index, stamped)
    BY DEF PollInv
  <2> QED BY <2>1, <2>2
<1> QED BY <1>2, <1>3 DEF PollInv, PollerIsCurrent

\* Broadcast leaves no poller asleep, so the index may move and a timer may have fired.
LEMMA BroadcastKeeps ==
    ASSUME PollInv, UNCHANGED stamped, index' \in Nat, index <= index',
           NEW ps \in [Poller -> PollState], poll' = Woken(ps),
           \A p \in Poller : ps[p].minIndex = poll[p].minIndex /\ ps[p].idx = poll[p].idx
    PROVE  PollInv'
<1>1. ASSUME NEW p \in Poller
      PROVE  /\ poll'[p] \in PollState
             /\ poll'[p].pc # "asleep"
             /\ poll'[p].minIndex = poll[p].minIndex /\ poll'[p].idx = poll[p].idx
  BY DEF Woken, PollState
<1>2. poll' \in [Poller -> PollState]
  BY <1>1 DEF Woken
<1>3. ASSUME NEW p \in Poller PROVE PollerIsCurrent(poll'[p], index', stamped)
  <2>1. PollerIsCurrent(poll[p], index, stamped)
    BY DEF PollInv
  <2> QED BY <1>1, <2>1 DEF PollerIsCurrent
<1>4. stamped' \in 1..index'
  BY DEF PollInv
<1> QED BY <1>2, <1>3, <1>4 DEF PollInv, PollerIsCurrent

LEMMA PollInvStep == PollInv /\ [PollNext]_pollVars => PollInv'
<1> SUFFICES ASSUME PollInv, [PollNext]_pollVars PROVE PollInv'
  OBVIOUS
<1>0. /\ index \in Nat /\ stamped \in 1..index
      /\ poll \in [Poller -> PollState]
      /\ \A p \in Poller : PollerIsCurrent(poll[p], index, stamped)
  BY DEF PollInv
<1>1. CASE NotifyAll
  BY <1>0, <1>1, BroadcastKeeps DEF NotifyAll
<1>2. CASE Stamp
  <2>1. stamped' \in 1..index' /\ index' = index /\ poll' = poll /\ stamped < stamped'
    BY <1>0, <1>2 DEF Stamp
  <2>2. ASSUME NEW p \in Poller PROVE PollerIsCurrent(poll[p], index, stamped')
    BY <1>0, <2>1 DEF PollerIsCurrent, PollState
  <2> QED BY <1>0, <2>1, <2>2 DEF PollInv, PollerIsCurrent
<1>3. ASSUME NEW p \in Poller, Ask(p) PROVE PollInv'
  <2>1. PICK timed \in BOOLEAN :
          poll' = [poll EXCEPT ![p] =
                     NewPoll(IF poll[p].idx = 0 THEN stamped ELSE poll[p].idx, timed)]
    BY <1>0, <1>3 DEF Ask
  <2> DEFINE min == IF poll[p].idx = 0 THEN stamped ELSE poll[p].idx
  <2>2. min \in Nat /\ min <= stamped
    BY <1>0 DEF PollerIsCurrent, PollState
  <2>3. PollerIsCurrent(NewPoll(min, timed), index, stamped)
    BY <2>2 DEF NewPoll, PollerIsCurrent, PollState
  <2> QED BY <1>3, <2>1, <2>3, OnePollerKeeps DEF Ask
<1>4. ASSUME NEW p \in Poller, RunQuery(p) PROVE PollInv'
  <2>1. PICK pc \in {"returned", "locked"} :
          poll' = [poll EXCEPT ![p] = [poll[p] EXCEPT !.idx = stamped, !.pc = pc]]
    BY <1>0, <1>4 DEF RunQuery
  <2> DEFINE r == [poll[p] EXCEPT !.idx = stamped, !.pc = pc]
  <2>2. poll[p] \in PollState /\ poll[p].minIndex <= stamped /\ stamped \in Nat
    BY <1>0 DEF PollerIsCurrent
  <2>3. /\ r \in PollState /\ r.idx = stamped /\ r.pc # "asleep"
        /\ r.minIndex = poll[p].minIndex
    BY <2>2 DEF PollState
  <2>4. poll' = [poll EXCEPT ![p] = r] /\ UNCHANGED <<index, stamped>>
    BY <1>4, <2>1 DEF RunQuery
  <2> HIDE DEF r
  <2>5. PollerIsCurrent(r, index, stamped)
    BY <2>2, <2>3 DEF PollerIsCurrent
  <2> QED BY <2>4, <2>5, OnePollerKeeps
<1>5. ASSUME NEW p \in Poller, WaitLoop(p) PROVE PollInv'
  <2>1. CASE poll' = [poll EXCEPT ![p] = [poll[p] EXCEPT !.pc = "query", !.fired = FALSE]]
    <3>1. PollerIsCurrent([poll[p] EXCEPT !.pc = "query", !.fired = FALSE], index, stamped)
      BY <1>0 DEF PollerIsCurrent, PollState
    <3> QED BY <1>5, <2>1, <3>1, OnePollerKeeps DEF WaitLoop
  <2>2. CASE poll' = [poll EXCEPT ![p] = [poll[p] EXCEPT !.pc = "returned"]]
    <3>1. PollerIsCurrent([poll[p] EXCEPT !.pc = "returned"], index, stamped)
      BY <1>0 DEF PollerIsCurrent, PollState
    <3> QED BY <1>5, <2>2, <3>1, OnePollerKeeps DEF WaitLoop
  <2>3. CASE /\ index <= poll[p].idx /\ ~poll[p].fired
             /\ poll' = [poll EXCEPT ![p] = [poll[p] EXCEPT !.pc = "asleep"]]
    <3>1. poll[p].idx = index /\ stamped = index
      BY <1>0, <2>3 DEF PollerIsCurrent, PollState
    <3>2. PollerIsCurrent([poll[p] EXCEPT !.pc = "asleep"], index, stamped)
      BY <1>0, <2>3, <3>1 DEF PollerIsCurrent, PollState
    <3> QED BY <1>5, <2>3, <3>2, OnePollerKeeps DEF WaitLoop
  <2> QED BY <1>0, <1>5, <2>1, <2>2, <2>3 DEF WaitLoop
<1>6. ASSUME NEW p \in Poller, QueryFails(p) PROVE PollInv'
  <2>1. PollerIsCurrent([poll[p] EXCEPT !.pc = "returned"], index, stamped)
    BY <1>0 DEF PollerIsCurrent, PollState
  <2>2. poll' = [poll EXCEPT ![p] = [poll[p] EXCEPT !.pc = "returned"]]
    BY <1>0, <1>6 DEF QueryFails
  <2> QED BY <1>6, <2>1, <2>2, OnePollerKeeps DEF QueryFails
<1>7. ASSUME NEW p \in Poller, TimerWakes(p) PROVE PollInv'
  <2> DEFINE ps == [poll EXCEPT ![p].fired = TRUE]
  <2>1. ps \in [Poller -> PollState]
    BY <1>0 DEF PollState
  <2>2. \A q \in Poller : ps[q].minIndex = poll[q].minIndex /\ ps[q].idx = poll[q].idx
    BY <1>0 DEF PollState
  <2>3. poll' = Woken(ps) /\ UNCHANGED <<index, stamped>>
    BY <1>7 DEF TimerWakes
  <2> HIDE DEF ps
  <2> QED BY <1>0, <2>1, <2>2, <2>3, BroadcastKeeps
<1>8. ASSUME NEW p \in Poller, CancelWakes(p) PROVE PollInv'
  BY <1>0, <1>8, BroadcastKeeps DEF CancelWakes
<1>9. ASSUME NEW p \in Poller, Cancelled(p) PROVE PollInv'
  <2>1. PollerIsCurrent([poll[p] EXCEPT !.cancelled = TRUE], index, stamped)
    BY <1>0 DEF PollerIsCurrent, PollState
  <2>2. poll' = [poll EXCEPT ![p] = [poll[p] EXCEPT !.cancelled = TRUE]]
    BY <1>0, <1>9 DEF Cancelled
  <2> QED BY <1>9, <2>1, <2>2, OnePollerKeeps DEF Cancelled
<1>10. ASSUME NEW p \in Poller, DeadlinePassed(p) PROVE PollInv'
  <2>1. PollerIsCurrent([poll[p] EXCEPT !.due = TRUE], index, stamped)
    BY <1>0 DEF PollerIsCurrent, PollState
  <2>2. poll' = [poll EXCEPT ![p] = [poll[p] EXCEPT !.due = TRUE]]
    BY <1>0, <1>10 DEF DeadlinePassed
  <2> QED BY <1>10, <2>1, <2>2, OnePollerKeeps DEF DeadlinePassed
<1>11. CASE UNCHANGED pollVars
  BY <1>11 DEF pollVars, PollInv, PollerIsCurrent
<1> QED
  BY <1>1, <1>2, <1>3, <1>4, <1>5, <1>6, <1>7, <1>8, <1>9, <1>10, <1>11 DEF PollNext, PollStep

\* For any number of pollers and changes: a poller in cond.Wait has been given the newest
\* data and its timer has not fired, wherever NotifyAll, the timer and the cancellation
\* fall between its query and its wait; and a client's index never goes back.
THEOREM NobodySleepsThroughNews == PollSpec => []SleepersAreCurrent
<1>1. PollInv => SleepersAreCurrent
  BY DEF PollInv, PollerIsCurrent, SleepersAreCurrent, Is
<1> QED BY <1>1, PollInvInit, PollInvStep, PTL DEF PollSpec
===============================================================================
