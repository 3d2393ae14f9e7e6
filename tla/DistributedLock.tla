--------------------------- MODULE DistributedLock ---------------------------
(***************************************************************************)
(* distributedstate.DistributedLock (src/internal/distributedstate/        *)
(* lock.go): Acquire is a CompareAndSwap and then a Put with a lease.      *)
(***************************************************************************)
EXTENDS StateStore

VARIABLES
    lockpc,     \* where each client's lock is
    trampled    \* history: a write or delete of one client has removed another's value

lockVars == <<storeVars, lockpc, trampled>>

LockInit ==
    /\ StoreInit
    /\ lockpc = [c \in Client |-> "idle"]
    /\ trampled = FALSE

LockGoto(c, pc) == lockpc' = [lockpc EXCEPT ![c] = pc]
Tramples(c) == trampled' = (trampled \/ value \notin {NoValue, c})

\* Mutant: the swap does not look at what it replaces.
SwapInMemoryBlind(c) ==
    /\ InMemory /\ lockpc[c] = "idle"
    /\ PutValue(c) /\ Tramples(c)
    /\ LockGoto(c, "swapped")
    /\ UNCHANGED <<backend, kept, storeFaults>>

\* CompareAndSwap of "" in memory is one critical section; one that fails changes
\* nothing.
SwapInMemory(c) ==
    /\ InMemory /\ lockpc[c] = "idle"
    /\ value = NoValue
    /\ PutValue(c) /\ Tramples(c)
    /\ LockGoto(c, "swapped")
    /\ UNCHANGED <<backend, kept, storeFaults>>

\* In etcd it is a Get, and for an absent key a Put without a comparison.
SwapReads(c) ==
    /\ ~InMemory /\ lockpc[c] = "idle"
    /\ value = NoValue
    /\ LockGoto(c, "absent")
    /\ UNCHANGED <<storeVars, trampled>>

SwapPuts(c) ==
    /\ lockpc[c] = "absent"
    /\ PutValue(c) /\ Tramples(c)
    /\ LockGoto(c, "swapped")
    /\ UNCHANGED <<backend, kept, storeFaults>>

\* Mutant: the lock is acquired without a lease.
AcquiresUnleased(c) ==
    /\ lockpc[c] = "swapped"
    /\ UNCHANGED <<storeVars, trampled>>
    /\ LockGoto(c, "held")

\* The Put with a lease, with which the lock is acquired.
Acquires(c) ==
    /\ lockpc[c] = "swapped"
    /\ PutWithLease(c) /\ Tramples(c)
    /\ kept' = [kept EXCEPT ![c] = FreshLease]
    /\ LockGoto(c, "held")
    /\ UNCHANGED <<backend, storeFaults>>

\* A call of Acquire fails, its Put applied or not.  After the Put with a lease the
\* key is deleted.
AcquireCallFails(c) ==
    /\ StoreFault
    /\ \/ /\ lockpc[c] = "absent"
          /\ \/ PutValue(c) /\ Tramples(c)
             \/ UNCHANGED <<value, attached, live, trampled>>
          /\ LockGoto(c, "idle")
       \/ /\ lockpc[c] = "swapped"
          /\ \/ PutWithLease(c) /\ Tramples(c)
             \/ UNCHANGED <<value, attached, live, trampled>>
          /\ LockGoto(c, "undo")
       \/ /\ lockpc[c] = "undo"
          /\ LockGoto(c, "idle")
          /\ UNCHANGED <<value, attached, live, trampled>>
    /\ UNCHANGED <<backend, kept>>

Undoes(c) ==
    /\ lockpc[c] = "undo"
    /\ DeleteValue /\ Tramples(c)
    /\ LockGoto(c, "idle")
    /\ UNCHANGED <<backend, kept, storeFaults>>

\* Release of a lock that is held, or that its holder believes it holds.
Releases(c) ==
    /\ lockpc[c] = "held"
    /\ LeaseEnds(kept[c])
    /\ kept' = [kept EXCEPT ![c] = 0]
    /\ LockGoto(c, "idle")
    /\ UNCHANGED <<backend, storeFaults, trampled>>

\* The client dies, or its Release fails: its lease stays until it expires.
LockForgotten(c) ==
    /\ StoreFault
    /\ kept' = [kept EXCEPT ![c] = 0]
    /\ LockGoto(c, "idle")
    /\ UNCHANGED <<backend, value, attached, live, trampled>>

LeaseExpires(l) ==
    /\ l \in live
    /\ LeaseEnds(l)
    /\ UNCHANGED <<backend, kept, storeFaults, lockpc, trampled>>

AcquireStep(c) == SwapPuts(c) \/ Acquires(c) \/ Undoes(c)

LockNext ==
    \/ \E c \in Client :
        \/ SwapInMemory(c) \/ SwapReads(c) \/ AcquireStep(c)
        \/ AcquireCallFails(c) \/ Releases(c) \/ LockForgotten(c)
    \/ \E l \in live : LeaseExpires(l)

\* A call that was begun goes on, and leases expire; nobody has to release a lock.
LockFairness ==
    /\ \A c \in Client : WF_lockVars(AcquireStep(c))
    /\ \A l \in 1..MaxLeases : WF_lockVars(LeaseExpires(l))

LockSpec == LockInit /\ [][LockNext]_lockVars /\ LockFairness

-----------------------------------------------------------------------------
(* What the lock promises.                                                 *)

\* The client has the lock, and its lease has not expired.
HoldsLock(c) == lockpc[c] = "held" /\ kept[c] \in live

\* At most one client holds the lock, and the key says which.  In memory always; in
\* etcd unless the Put of a CompareAndSwap that found the key absent, or the Delete
\* after a failed Put, has hit another client's entry.
LockIsExclusive ==
    /\ InMemory => ~trampled
    /\ ~trampled =>
        \A c, d \in Client : HoldsLock(c) => value = c /\ (HoldsLock(d) => c = d)

\* The clients that hold a lock no entry of which was trampled.
SafeHolders == {c \in Client : HoldsLock(c) /\ ~trampled}

\* The promise of an exclusive lock, for as long as no entry was trampled.
Exclusive == INSTANCE ExclusiveLock WITH
    Contender <- Client,
    holders   <- SafeHolders

\* A client acquires the lock only when nobody holds it, and it never passes from one
\* client to another without having been free.
LockImplementsExclusive == Exclusive!Spec

\* The entry has no lease, and no client is about to give it one.
NeverExpires ==
    value # NoValue /\ attached = {} /\ \A c \in Client : lockpc[c] \in {"idle", "held"}

\* A lock whose holder has died is free again in the end; unless a crash or a failed
\* call came between the two writes of its Acquire.
LockIsFreed == (value # NoValue) ~> (value = NoValue \/ (NeverExpires /\ storeFaults > 0))
==============================================================================
