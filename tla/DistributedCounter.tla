-------------------------- MODULE DistributedCounter --------------------------
(***************************************************************************)
(* distributedstate.DistributedCounter (src/internal/distributedstate/     *)
(* structures.go) over the CompareAndSwap of the in-memory store and of    *)
(* etcd (in_memory.go, etcd.go).  Each process has a counter of its own on *)
(* the key they share.                                                     *)
(***************************************************************************)
EXTENDS Integers

CONSTANTS
    Process,
    MaxCounted      \* bound: calls of Increment and Decrement

ASSUME DistributedCounterAssumption == MaxCounted \in Nat

VARIABLES
    inEtcd,         \* the store is EtcdStateStore
    count,          \* the stored number
    version,        \* the key's version in etcd, 0 while it is absent
    counting,       \* the call each process is in
    calls,          \* calls begun
    acked,          \* history: the sum of the calls that have returned a number
    created         \* history: how often the key was created

counterVars == <<inEtcd, count, version, counting, calls, acked, created>>

Call(pc, delta) ==
    [pc |-> pc, delta |-> delta, current |-> 0, absent |-> FALSE, version |-> 0]
NotCounting == Call("idle", 0)

CounterInit ==
    /\ inEtcd \in BOOLEAN
    /\ count = 0 /\ version = 0
    /\ counting = [p \in Process |-> NotCounting]
    /\ calls = 0 /\ acked = 0 /\ created = 0

Counts(p, pc) == counting[p].pc = pc

Increment(p, delta) ==
    /\ Counts(p, "idle")
    /\ calls < MaxCounted
    /\ calls' = calls + 1
    /\ counting' = [counting EXCEPT ![p] = Call("get", delta)]
    /\ UNCHANGED <<inEtcd, count, version, acked, created>>

\* dc.value.Get
ReadsCount(p) ==
    /\ Counts(p, "get")
    /\ counting' = [counting EXCEPT ![p].pc = "swap", ![p].current = count,
                                    ![p].absent = version = 0]
    /\ UNCHANGED <<inEtcd, count, version, calls, acked, created>>

\* The key has what the process has read, as CompareAndSwap sees it.
IsCurrent(c) == IF c.absent THEN version = 0 ELSE version > 0 /\ count = c.current

Counted(p) ==
    /\ count' = counting[p].current + counting[p].delta
    /\ version' = version + 1
    /\ acked' = acked + counting[p].delta
    /\ counting' = [counting EXCEPT ![p] = NotCounting]

\* A swap that is refused is tried again, up to ten times, after another Get.
Retries(p) ==
    /\ \/ counting' = [counting EXCEPT ![p] = Call("get", @.delta)]
       \/ counting' = [counting EXCEPT ![p] = NotCounting]
    /\ UNCHANGED <<count, version, acked, created>>

\* In memory CompareAndSwap holds the mutex.
SwapsInMemory(p) ==
    /\ Counts(p, "swap") /\ ~inEtcd
    /\ IF IsCurrent(counting[p])
       THEN Counted(p) /\ created' = IF version = 0 THEN created + 1 ELSE created
       ELSE Retries(p)
    /\ UNCHANGED <<inEtcd, calls>>

\* In etcd it is a Get, and then a Put of a key that was absent, or a transaction on
\* the version of one that was there.
SwapGets(p) ==
    /\ Counts(p, "swap") /\ inEtcd
    /\ IF IsCurrent(counting[p])
       THEN /\ counting' = [counting EXCEPT ![p].pc = "commit", ![p].version = version]
            /\ UNCHANGED <<count, version, acked, created>>
       ELSE Retries(p)
    /\ UNCHANGED <<inEtcd, calls>>

SwapCreates(p) ==
    /\ Counts(p, "commit") /\ counting[p].version = 0
    /\ Counted(p)
    /\ created' = created + 1
    /\ UNCHANGED <<inEtcd, calls>>

\* Mutant: the transaction puts whatever the version is.
SwapCommitsAnyVersion(p) ==
    /\ Counts(p, "commit") /\ counting[p].version > 0
    /\ Counted(p)
    /\ UNCHANGED <<inEtcd, calls, created>>

SwapCommits(p) ==
    /\ Counts(p, "commit") /\ counting[p].version > 0
    /\ IF version = counting[p].version
       THEN Counted(p) /\ UNCHANGED created
       ELSE Retries(p)
    /\ UNCHANGED <<inEtcd, calls>>

CounterNext ==
    \E p \in Process :
        \/ \E delta \in {1, -1} : Increment(p, delta)
        \/ ReadsCount(p) \/ SwapsInMemory(p) \/ SwapGets(p) \/ SwapCreates(p) \/ SwapCommits(p)

CounterSpec == CounterInit /\ [][CounterNext]_counterVars

-----------------------------------------------------------------------------
(* What the counter promises.                                              *)

\* The counter is the sum of the calls that returned a number, also when it goes up and
\* down again between a Get and its swap.  In memory always; in etcd unless two
\* processes have both found the key absent and both created it.
CounterIsExact ==
    /\ ~inEtcd => created <= 1
    /\ created <= 1 => count = acked
==============================================================================
