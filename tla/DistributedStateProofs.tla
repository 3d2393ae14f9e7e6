------------------------ MODULE DistributedStateProofs ------------------------
(***************************************************************************)
(* Invariants of the lock and the counter of distributedstate, for every   *)
(* set of clients and processes and any number of calls, leases and faults.*)
(***************************************************************************)
EXTENDS DistributedLock, DistributedCounter, TLAPS

-----------------------------------------------------------------------------
(* The lock.                                                               *)

\* A lease number that is handed out is known to nobody.
LEMMA FreshIsUnknown ==
    ASSUME FreeLeases # {}
    PROVE  /\ FreshLease \in 1..MaxLeases
           /\ FreshLease \notin live
           /\ \A c \in Client : kept[c] # FreshLease
<1>1. FreshLease \in FreeLeases
  BY DEF FreshLease
<1> QED BY <1>1 DEF FreeLeases

LockTypes ==
    /\ StoreTypeOK
    /\ lockpc \in [Client -> {"idle", "absent", "swapped", "undo", "held"}]
    /\ trampled \in BOOLEAN

\* Whoever holds the lock is the value, and the entry goes with that lease alone.
HolderIsStored ==
    ~trampled => \A c \in Client : HoldsLock(c) => value = c /\ attached = {kept[c]}

\* In memory an entry without a lease is that of a client between its swap and its
\* Put, and there is one lease at most.
MemoryIsSound ==
    InMemory =>
        /\ ~trampled
        /\ \A c \in Client : lockpc[c] \in {"idle", "swapped", "held"}
        /\ \A c \in Client : lockpc[c] = "swapped" => value = c /\ attached = {}
        /\ value = NoValue => attached = {}
        /\ \A l, m \in attached : l = m

LockInv == LockTypes /\ HolderIsStored /\ MemoryIsSound

LEMMA LockInvInit == LockInit => LockInv
<1> SUFFICES ASSUME LockInit PROVE LockInv
  OBVIOUS
<1>0. MaxLeases \in Nat
  BY StateStoreAssumption
<1>1. LockTypes
  <2>1. kept \in [Client -> 0..MaxLeases]
    BY <1>0 DEF LockInit, StoreInit
  <2>2. attached \subseteq live /\ live \subseteq 1..MaxLeases /\ attached = live
    BY DEF LockInit, StoreInit
  <2> QED BY <2>1, <2>2 DEF LockInit, StoreInit, LockTypes, StoreTypeOK
<1>2. HolderIsStored
  BY DEF LockInit, StoreInit, HolderIsStored, HoldsLock
<1>3. MemoryIsSound
  BY DEF LockInit, StoreInit, MemoryIsSound
<1> QED BY <1>1, <1>2, <1>3 DEF LockInv

\* A client that is not holding the lock writes or deletes the entry without trampling:
\* then nobody held it.
LEMMA NobodyHeld ==
    ASSUME LockInv, NEW c \in Client, lockpc[c] # "held", Tramples(c), ~trampled'
    PROVE  ~trampled /\ \A d \in Client : ~HoldsLock(d)
BY StateStoreAssumption DEF LockInv, LockTypes, HolderIsStored, HoldsLock, Tramples

\* A Put without a lease, by a client that goes on to a place where it holds nothing.
LEMMA PutKeeps ==
    ASSUME LockInv, NEW c \in Client, lockpc[c] # "held",
           PutValue(c), Tramples(c), UNCHANGED <<backend, kept>>,
           NEW pc \in {"idle", "swapped"}, LockGoto(c, pc)
    PROVE  LockTypes' /\ HolderIsStored'
<1>1. LockTypes'
  BY DEF LockInv, LockTypes, StoreTypeOK, PutValue, Tramples, LockGoto, InMemory
<1>2. ASSUME ~trampled', NEW d \in Client
      PROVE  ~HoldsLock(d)'
  BY <1>2, NobodyHeld DEF LockInv, LockTypes, PutValue, LockGoto, HoldsLock
<1> QED BY <1>1, <1>2 DEF HolderIsStored

\* A Put with a lease, whether its client learns of it or not.
LEMMA LeasedPutKeeps ==
    ASSUME LockInv, NEW c \in Client, lockpc[c] = "swapped",
           PutWithLease(c), Tramples(c), UNCHANGED backend,
           \/ LockGoto(c, "held") /\ kept' = [kept EXCEPT ![c] = FreshLease]
           \/ LockGoto(c, "undo") /\ kept' = kept
    PROVE  LockTypes' /\ HolderIsStored'
<1>1. /\ FreshLease \in 1..MaxLeases /\ FreshLease \notin live
      /\ \A d \in Client : kept[d] # FreshLease
  BY FreshIsUnknown DEF PutWithLease
<1>2. LockTypes'
  BY <1>1, StateStoreAssumption
     DEF LockInv, LockTypes, StoreTypeOK, PutWithLease, Tramples, LockGoto, InMemory
<1>3. ASSUME ~trampled', NEW d \in Client, HoldsLock(d)'
      PROVE  (value = d /\ attached = {kept[d]})'
  <2>1. ~trampled /\ ~HoldsLock(d)
    BY <1>3, NobodyHeld
  <2>2. d = c /\ lockpc'[c] = "held" /\ kept'[c] = FreshLease
    BY <1>1, <1>3, <2>1 DEF LockInv, LockTypes, StoreTypeOK, PutWithLease, LockGoto, HoldsLock
  <2>3. InMemory => attached = {}
    BY DEF LockInv, MemoryIsSound
  <2> QED BY <2>2, <2>3 DEF PutWithLease
<1> QED BY <1>2, <1>3 DEF HolderIsStored

\* The end of a lease, of which its holder is told or not.
LEMMA LeaseEndKeeps ==
    ASSUME LockInv, NEW l, LeaseEnds(l), UNCHANGED <<backend, trampled>>,
           \/ UNCHANGED <<lockpc, kept>>
           \/ \E c \in Client :
                /\ lockpc[c] = "held" /\ l = kept[c]
                /\ LockGoto(c, "idle") /\ kept' = [kept EXCEPT ![c] = 0]
    PROVE  LockInv'
<1>0. MaxLeases \in Nat
  BY StateStoreAssumption
<1>1. LockTypes'
  <2>1. (value \in Client \cup {NoValue})'
    BY DEF LockInv, LockTypes, StoreTypeOK, LeaseEnds
  <2>2. (attached \subseteq live /\ live \subseteq 1..MaxLeases)'
    BY DEF LockInv, LockTypes, StoreTypeOK, LeaseEnds
  <2>3. (InMemory => attached = live)'
    BY DEF LockInv, LockTypes, StoreTypeOK, LeaseEnds, InMemory
  <2>4. (kept \in [Client -> 0..MaxLeases])'
    BY <1>0 DEF LockInv, LockTypes, StoreTypeOK
  <2>5. /\ (lockpc \in [Client -> {"idle", "absent", "swapped", "undo", "held"}])'
        /\ (trampled \in BOOLEAN)'
    BY DEF LockInv, LockTypes, LockGoto
  <2> QED BY <2>1, <2>2, <2>3, <2>4, <2>5 DEF LockTypes, StoreTypeOK
<1>2. ASSUME ~trampled', NEW d \in Client, HoldsLock(d)'
      PROVE  (value = d /\ attached = {kept[d]})'
  <2>1. HoldsLock(d) /\ kept'[d] = kept[d] /\ kept[d] # l
    BY <1>2 DEF LockInv, LockTypes, StoreTypeOK, LeaseEnds, LockGoto, HoldsLock
  <2>2. value = d /\ attached = {kept[d]}
    BY <1>2, <2>1 DEF LockInv, HolderIsStored
  <2> QED BY <2>1, <2>2 DEF LeaseEnds
<1>3. MemoryIsSound'
  <2>1. CASE l \in attached
    BY <2>1 DEF LockInv, LockTypes, MemoryIsSound, LeaseEnds, LockGoto, InMemory
  <2>2. CASE l \notin attached
    BY <2>2 DEF LockInv, LockTypes, MemoryIsSound, LeaseEnds, LockGoto, InMemory
  <2> QED BY <2>1, <2>2
<1> QED BY <1>1, <1>2, <1>3 DEF LockInv, HolderIsStored

LEMMA LockInvStep == LockInv /\ [LockNext]_lockVars => LockInv'
<1> SUFFICES ASSUME LockInv, [LockNext]_lockVars PROVE LockInv'
  OBVIOUS
<1> USE StateStoreAssumption
<1>1. ASSUME NEW c \in Client, SwapInMemory(c) PROVE LockInv'
  <2>1. LockTypes' /\ HolderIsStored'
    BY <1>1, PutKeeps DEF SwapInMemory
  <2>2. MemoryIsSound'
    BY <1>1 DEF SwapInMemory, LockInv, LockTypes, MemoryIsSound, PutValue, Tramples,
                LockGoto, InMemory
  <2> QED BY <2>1, <2>2 DEF LockInv
<1>2. ASSUME NEW c \in Client, SwapReads(c) PROVE LockInv'
  BY <1>2 DEF SwapReads, storeVars, LockGoto, LockInv, LockTypes, StoreTypeOK,
              HolderIsStored, HoldsLock, MemoryIsSound, InMemory
<1>3. ASSUME NEW c \in Client, SwapPuts(c) PROVE LockInv'
  <2>1. LockTypes' /\ HolderIsStored'
    BY <1>3, PutKeeps DEF SwapPuts
  <2>2. MemoryIsSound'
    BY <1>3 DEF SwapPuts, LockInv, MemoryIsSound, InMemory
  <2> QED BY <2>1, <2>2 DEF LockInv
<1>4. ASSUME NEW c \in Client, Acquires(c) PROVE LockInv'
  <2>1. LockTypes' /\ HolderIsStored'
    BY <1>4, LeasedPutKeeps DEF Acquires
  <2>2. MemoryIsSound'
    BY <1>4 DEF Acquires, LockInv, LockTypes, StoreTypeOK, MemoryIsSound, PutWithLease,
                Tramples, LockGoto, InMemory
  <2> QED BY <2>1, <2>2 DEF LockInv
<1>5. ASSUME NEW c \in Client, Undoes(c) PROVE LockInv'
  <2>1. LockTypes'
    BY <1>5 DEF Undoes, LockInv, LockTypes, StoreTypeOK, DeleteValue, Tramples, LockGoto,
                InMemory
  <2>2. ASSUME ~trampled', NEW d \in Client PROVE ~HoldsLock(d)'
    BY <1>5, <2>2, NobodyHeld DEF Undoes, LockInv, LockTypes, DeleteValue, LockGoto, HoldsLock
  <2>3. MemoryIsSound'
    BY <1>5 DEF Undoes, LockInv, MemoryIsSound, InMemory
  <2> QED BY <2>1, <2>2, <2>3 DEF LockInv, HolderIsStored
<1>6. ASSUME NEW c \in Client, AcquireCallFails(c) PROVE LockInv'
  <2>1. MemoryIsSound'
    BY <1>6 DEF AcquireCallFails, StoreFault, MemoryIsSound, InMemory
  <2>2. CASE lockpc[c] = "absent" /\ PutValue(c) /\ Tramples(c) /\ LockGoto(c, "idle")
    BY <1>6, <2>1, <2>2, PutKeeps DEF AcquireCallFails, LockInv
  <2>3. CASE lockpc[c] = "swapped" /\ PutWithLease(c) /\ Tramples(c) /\ LockGoto(c, "undo")
    BY <1>6, <2>1, <2>3, LeasedPutKeeps DEF AcquireCallFails, LockInv
  <2>4. CASE /\ UNCHANGED <<backend, kept, value, attached, live, trampled>>
             /\ lockpc[c] # "held"
             /\ LockGoto(c, "idle") \/ LockGoto(c, "undo")
    BY <2>1, <2>4 DEF LockGoto, LockInv, LockTypes, StoreTypeOK, HolderIsStored, HoldsLock,
                      InMemory
  <2> QED BY <1>6, <2>2, <2>3, <2>4 DEF AcquireCallFails
<1>7. ASSUME NEW c \in Client, Releases(c) PROVE LockInv'
  BY <1>7, LeaseEndKeeps DEF Releases
<1>8. ASSUME NEW c \in Client, LockForgotten(c) PROVE LockInv'
  BY <1>8 DEF LockForgotten, StoreFault, LockGoto, LockInv, LockTypes, StoreTypeOK,
              HolderIsStored, HoldsLock, MemoryIsSound, InMemory
<1>9. ASSUME NEW l \in live, LeaseExpires(l) PROVE LockInv'
  BY <1>9, LeaseEndKeeps DEF LeaseExpires
<1>10. CASE UNCHANGED lockVars
  BY <1>10 DEF lockVars, storeVars, LockInv, LockTypes, StoreTypeOK, HolderIsStored,
               HoldsLock, MemoryIsSound, InMemory
<1> QED
  BY <1>1, <1>2, <1>3, <1>4, <1>5, <1>6, <1>7, <1>8, <1>9, <1>10 DEF LockNext, AcquireStep

\* Two clients never hold the lock at once, however Acquire, Release, failures and
\* expiring leases are interleaved; in etcd unless an entry was trampled (lock.go,
\* in_memory.go, etcd.go).
THEOREM LockExcludes == LockSpec => []LockIsExclusive
<1>1. LockInv => LockIsExclusive
  BY DEF LockInv, HolderIsStored, MemoryIsSound, LockIsExclusive
<1> QED BY LockInvInit, LockInvStep, <1>1, PTL DEF LockSpec

\* A step after which whoever holds the lock held it before frees it, or stutters.
LEMMA LockFrees ==
    ASSUME LockInv, LockInv', SafeHolders' \subseteq SafeHolders
    PROVE  [Exclusive!Free]_SafeHolders
<1>1. \A c, d \in SafeHolders : c = d
  BY DEF SafeHolders, LockInv, HolderIsStored
<1> QED BY <1>1 DEF SafeHolders, Exclusive!Free

\* The Put with a lease, by which a client acquires the lock, finds nobody holding it.
LEMMA LockTakes ==
    ASSUME LockInv, NEW c \in Client, Acquires(c), ~trampled'
    PROVE  Exclusive!Take(c)
<1>1. ~trampled /\ \A d \in Client : ~HoldsLock(d)
  BY NobodyHeld DEF Acquires
<1>2. /\ FreshLease \notin live
      /\ \A d \in Client : kept[d] # FreshLease
  BY FreshIsUnknown DEF Acquires, PutWithLease
<1>3. HoldsLock(c)'
  BY DEF Acquires, PutWithLease, LockGoto, HoldsLock, LockInv, LockTypes, StoreTypeOK
<1>4. ASSUME NEW d \in Client, d # c PROVE ~HoldsLock(d)'
  BY <1>1, <1>2, <1>4
     DEF Acquires, PutWithLease, LockGoto, HoldsLock, LockInv, LockTypes, StoreTypeOK
<1> QED BY <1>1, <1>3, <1>4 DEF Exclusive!Take, SafeHolders

\* Nothing but Acquires gives a client the lock.
LEMMA OnlyAcquiresTakes ==
    ASSUME LockInv, [LockNext]_lockVars, NEW c \in Client,
           HoldsLock(c)', ~trampled'
    PROVE  (HoldsLock(c) /\ ~trampled) \/ Acquires(c)
<1> USE DEF HoldsLock, LockInv, LockTypes, StoreTypeOK
<1>1. trampled => trampled'
  BY DEF LockNext, AcquireStep, SwapInMemory, SwapReads, SwapPuts, Acquires, AcquireCallFails,
         Undoes, Releases, LockForgotten, LeaseExpires, Tramples, lockVars
<1>2. ASSUME NEW d \in Client, SwapInMemory(d) \/ SwapReads(d) \/ SwapPuts(d) \/ Undoes(d)
      PROVE  HoldsLock(c)
  BY <1>2 DEF SwapInMemory, SwapReads, SwapPuts, Undoes, PutValue, DeleteValue, LockGoto,
              storeVars
<1>3. ASSUME NEW d \in Client, Acquires(d), d # c PROVE HoldsLock(c)
  <2>1. \A e \in Client : kept[e] # FreshLease
    BY <1>3, FreshIsUnknown DEF Acquires, PutWithLease
  <2> QED BY <1>3, <2>1 DEF Acquires, PutWithLease, LockGoto
<1>4. ASSUME NEW d \in Client, AcquireCallFails(d) PROVE HoldsLock(c)
  <2>1. lockpc[c] = "held" /\ kept'[c] = kept[c]
    BY <1>4 DEF AcquireCallFails, LockGoto
  <2>2. CASE UNCHANGED live
    BY <2>1, <2>2
  <2>3. CASE PutWithLease(d)
    BY <2>1, <2>3, FreshIsUnknown DEF PutWithLease
  <2> QED BY <1>4, <2>2, <2>3 DEF AcquireCallFails, PutValue
<1>5. ASSUME NEW d \in Client, Releases(d) \/ LockForgotten(d) PROVE HoldsLock(c)
  BY <1>5 DEF Releases, LockForgotten, LeaseEnds, LockGoto
<1>6. ASSUME NEW l \in live, LeaseExpires(l) PROVE HoldsLock(c)
  BY <1>6 DEF LeaseExpires, LeaseEnds
<1>7. CASE UNCHANGED lockVars
  BY <1>7 DEF lockVars, storeVars
<1> HIDE DEF HoldsLock
<1> QED BY <1>1, <1>2, <1>3, <1>4, <1>5, <1>6, <1>7 DEF LockNext, AcquireStep

\* Each step takes the lock when nobody has it, frees it, or is none of the clients'
\* concern.
LEMMA LockStepImplements ==
    LockInv /\ LockInv' /\ [LockNext]_lockVars => [Exclusive!Next]_SafeHolders
<1> SUFFICES ASSUME LockInv, LockInv', [LockNext]_lockVars
             PROVE  [Exclusive!Next]_SafeHolders
  OBVIOUS
<1>1. CASE \E c \in Client : Acquires(c) /\ ~trampled'
  BY <1>1, LockTakes DEF Exclusive!Next
<1>2. CASE ~ \E c \in Client : Acquires(c) /\ ~trampled'
  <2>1. ASSUME NEW c \in SafeHolders' PROVE c \in SafeHolders
    BY <1>2, <2>1, OnlyAcquiresTakes DEF SafeHolders
  <2>2. SafeHolders' \subseteq SafeHolders
    BY <2>1
  <2> QED BY <2>2, LockFrees DEF Exclusive!Next
<1> QED BY <1>1, <1>2

\* The lock of lock.go implements an exclusive lock: Acquire succeeds only when nobody
\* holds it, and between two holders it is free, whatever fails, dies or expires; in etcd
\* up to the first entry that is trampled.
THEOREM LockImplements == LockSpec => LockImplementsExclusive
<1>1. LockInit => Exclusive!Init
  BY DEF LockInit, HoldsLock, Exclusive!Init, SafeHolders
<1>2. LockInv /\ LockInv' /\ [LockNext]_lockVars => [Exclusive!Next]_SafeHolders
  BY LockStepImplements
<1> QED
  BY LockInvInit, LockInvStep, <1>1, <1>2, PTL
     DEF LockSpec, LockImplementsExclusive, Exclusive!Spec

-----------------------------------------------------------------------------
(* The counter.                                                            *)

CountingState ==
    [pc : {"idle", "get", "swap", "commit"}, delta : Int, current : Int, absent : BOOLEAN,
     version : Nat]

CounterTypes ==
    /\ inEtcd \in BOOLEAN
    /\ count \in Int /\ version \in Nat
    /\ counting \in [Process -> CountingState]
    /\ acked \in Int /\ created \in Nat

\* What a call has read: an absent key counts as 0, and a transaction compares the
\* version it read together with the number.
ReadIsTrue(c) ==
    /\ c.pc = "swap" /\ c.absent => c.current = 0
    /\ c.pc = "commit" =>
        /\ inEtcd
        /\ c.version = 0 => c.current = 0
        /\ c.version <= version
        /\ c.version > 0 /\ c.version = version => c.current = count

CounterInv ==
    /\ CounterTypes
    /\ version = 0 <=> created = 0
    /\ version = 0 => count = 0 /\ acked = 0
    /\ \A p \in Process : ReadIsTrue(counting[p])
    /\ CounterIsExact

LEMMA CounterInvInit == CounterInit => CounterInv
BY DEF CounterInit, CounterInv, CounterTypes, CountingState, ReadIsTrue, NotCounting, Call,
       CounterIsExact

\* A call that writes has read the number it replaces, unless the key was created twice.
LEMMA CountedKeeps ==
    ASSUME CounterInv, NEW p \in Process, Counted(p), UNCHANGED inEtcd,
           counting[p].pc \in {"swap", "commit"},
           created' = IF version = 0 THEN created + 1 ELSE created,
           counting[p].current = count
    PROVE  CounterInv'
<1>1. CounterTypes'
  BY DEF CounterInv, CounterTypes, CountingState, Counted, NotCounting, Call
<1>2. ASSUME NEW q \in Process PROVE ReadIsTrue(counting[q])'
  BY DEF CounterInv, CounterTypes, CountingState, Counted, NotCounting, Call, ReadIsTrue
<1> QED BY <1>1, <1>2 DEF CounterInv, CounterTypes, CountingState, Counted, CounterIsExact

LEMMA RetriesKeep ==
    ASSUME CounterInv, NEW p \in Process, Retries(p), UNCHANGED inEtcd
    PROVE  CounterInv'
<1>1. PICK c \in CountingState :
        counting' = [counting EXCEPT ![p] = c] /\ c.pc \in {"get", "idle"}
  <2>1. counting[p] \in CountingState
    BY DEF CounterInv, CounterTypes
  <2>2. Call("get", counting[p].delta) \in CountingState
    BY <2>1 DEF Call, CountingState
  <2>3. NotCounting \in CountingState
    BY DEF NotCounting, Call, CountingState
  <2>4. \/ counting' = [counting EXCEPT ![p] = Call("get", counting[p].delta)]
        \/ counting' = [counting EXCEPT ![p] = NotCounting]
    BY DEF Retries
  <2> QED BY <2>2, <2>3, <2>4 DEF Call, NotCounting
<1>2. CounterTypes'
  BY <1>1 DEF CounterInv, CounterTypes, Retries
<1>3. ASSUME NEW q \in Process PROVE ReadIsTrue(counting[q])'
  BY <1>1 DEF CounterInv, CounterTypes, Retries, ReadIsTrue
<1> QED BY <1>2, <1>3 DEF CounterInv, Retries, CounterIsExact

\* A call that goes on, or begins, with nothing written.
LEMMA CallMoves ==
    ASSUME CounterInv, NEW p \in Process, NEW c \in CountingState, ReadIsTrue(c),
           counting' = [counting EXCEPT ![p] = c],
           UNCHANGED <<inEtcd, count, version, acked, created>>
    PROVE  CounterInv'
<1>1. CounterTypes'
  BY DEF CounterInv, CounterTypes
<1>2. ASSUME NEW q \in Process PROVE ReadIsTrue(counting[q])'
  <2>1. ReadIsTrue(counting'[q])
    <3>1. CASE q = p
      BY <3>1 DEF CounterInv, CounterTypes
    <3>2. CASE q # p
      BY <3>2 DEF CounterInv, CounterTypes
    <3> QED BY <3>1, <3>2
  <2> QED BY <2>1 DEF ReadIsTrue
<1> QED BY <1>1, <1>2 DEF CounterInv, CounterIsExact

LEMMA CounterInvStep == CounterInv /\ [CounterNext]_counterVars => CounterInv'
<1> SUFFICES ASSUME CounterInv, [CounterNext]_counterVars PROVE CounterInv'
  OBVIOUS
<1>1. ASSUME NEW p \in Process, NEW delta \in {1, -1}, Increment(p, delta)
      PROVE  CounterInv'
  <2> DEFINE c == Call("get", delta)
  <2>1. c \in CountingState /\ c.pc = "get"
    BY DEF Call, CountingState
  <2>2. /\ counting' = [counting EXCEPT ![p] = c]
        /\ UNCHANGED <<inEtcd, count, version, acked, created>>
    BY <1>1 DEF Increment
  <2> HIDE DEF c
  <2>3. ReadIsTrue(c)
    BY <2>1 DEF ReadIsTrue
  <2> QED BY <2>1, <2>2, <2>3, CallMoves
<1>2. ASSUME NEW p \in Process, ReadsCount(p) PROVE CounterInv'
  <2>1. counting[p] \in CountingState /\ count \in Int
    BY DEF CounterInv, CounterTypes
  <2> DEFINE c == [counting[p] EXCEPT !.pc = "swap", !.current = count, !.absent = version = 0]
  <2>2. c \in CountingState
    BY <2>1 DEF CountingState
  <2>3. c.pc = "swap" /\ c.absent = (version = 0) /\ c.current = count
    BY <2>1 DEF CountingState
  <2>4. /\ counting' = [counting EXCEPT ![p] = c]
        /\ UNCHANGED <<inEtcd, count, version, acked, created>>
    BY <1>2 DEF ReadsCount
  <2> HIDE DEF c
  <2>5. ReadIsTrue(c)
    BY <2>3 DEF ReadIsTrue, CounterInv
  <2> QED BY <2>2, <2>4, <2>5, CallMoves
<1>3. ASSUME NEW p \in Process, SwapsInMemory(p) PROVE CounterInv'
  <2>1. CASE IsCurrent(counting[p])
    BY <1>3, <2>1, CountedKeeps
       DEF SwapsInMemory, Counts, IsCurrent, CounterInv, CounterTypes, CountingState, ReadIsTrue
  <2>2. CASE ~IsCurrent(counting[p])
    BY <1>3, <2>2, RetriesKeep DEF SwapsInMemory
  <2> QED BY <2>1, <2>2
<1>4. ASSUME NEW p \in Process, SwapGets(p) PROVE CounterInv'
  <2>1. CASE IsCurrent(counting[p])
    BY <1>4, <2>1 DEF SwapGets, Counts, IsCurrent, CounterInv, CounterTypes, CountingState,
                      ReadIsTrue, CounterIsExact
  <2>2. CASE ~IsCurrent(counting[p])
    BY <1>4, <2>2, RetriesKeep DEF SwapGets
  <2> QED BY <2>1, <2>2
<1>5. ASSUME NEW p \in Process, SwapCreates(p) PROVE CounterInv'
  <2>1. counting[p].current = 0
    BY <1>5 DEF SwapCreates, Counts, CounterInv, ReadIsTrue
  <2>2. CASE version = 0
    BY <1>5, <2>1, <2>2, CountedKeeps DEF SwapCreates, Counts, CounterInv
  <2>3. CASE version # 0
    <3>1. CounterTypes' /\ created' > 1 /\ version' > version /\ inEtcd'
      BY <1>5, <2>3 DEF SwapCreates, Counts, Counted, NotCounting, Call, CounterInv, CounterTypes,
                        CountingState, ReadIsTrue
    <3>2. ASSUME NEW q \in Process PROVE ReadIsTrue(counting[q])'
      BY <1>5, <2>3 DEF SwapCreates, Counts, Counted, NotCounting, Call, CounterInv, CounterTypes,
                        CountingState, ReadIsTrue
    <3> QED BY <3>1, <3>2 DEF CounterInv, CounterTypes, CounterIsExact
  <2> QED BY <2>2, <2>3
<1>6. ASSUME NEW p \in Process, SwapCommits(p) PROVE CounterInv'
  <2>1. CASE version = counting[p].version
    BY <1>6, <2>1, CountedKeeps
       DEF SwapCommits, Counts, CounterInv, CounterTypes, CountingState, ReadIsTrue
  <2>2. CASE version # counting[p].version
    BY <1>6, <2>2, RetriesKeep DEF SwapCommits
  <2> QED BY <2>1, <2>2
<1>7. CASE UNCHANGED counterVars
  BY <1>7 DEF counterVars, CounterInv, CounterTypes, ReadIsTrue, CounterIsExact
<1> QED BY <1>1, <1>2, <1>3, <1>4, <1>5, <1>6, <1>7 DEF CounterNext

\* No acknowledged increment or decrement is lost, however many processes retry over
\* each other; in etcd unless the key was created twice (structures.go, etcd.go).
THEOREM CounterCounts == CounterSpec => []CounterIsExact
<1>1. CounterInv => CounterIsExact
  BY DEF CounterInv
<1> QED BY CounterInvInit, CounterInvStep, <1>1, PTL DEF CounterSpec
===============================================================================
