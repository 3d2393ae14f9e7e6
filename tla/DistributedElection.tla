------------------------- MODULE DistributedElection -------------------------
(***************************************************************************)
(* distributedstate.DistributedLeaderElection                              *)
(* (src/internal/distributedstate/lock.go): every ttl/2 a node runs        *)
(* tryElection over one key of the state store.  The lease a leader keeps  *)
(* is never read; what a node remembers here is that of its proposal.      *)
(***************************************************************************)
EXTENDS StateStore

VARIABLES
    trypc,      \* where each node is in tryElection
    leads       \* dle.isLeader

electVars == <<storeVars, trypc, leads>>

ElectInit ==
    /\ StoreInit
    /\ trypc = [n \in Client |-> "idle"]
    /\ leads = [n \in Client |-> FALSE]

TryGoto(n, pc) == trypc' = [trypc EXCEPT ![n] = pc]
TryEnds(n, leader) ==
    /\ TryGoto(n, "idle")
    /\ leads' = [leads EXCEPT ![n] = leader]

\* Mutant: a leader that finds another node's value leaves its own state alone.
TryReadsOnly(n) ==
    /\ trypc[n] = "idle"
    /\ \/ value = n /\ TryGoto(n, "renew") /\ UNCHANGED leads
       \/ value = NoValue /\ TryGoto(n, "propose") /\ UNCHANGED leads
       \/ value \notin {n, NoValue} /\ leads[n] /\ UNCHANGED <<trypc, leads>>
    /\ UNCHANGED storeVars

\* The Get of a tick.  A node that finds another's value does not lead.
TryReads(n) ==
    /\ trypc[n] = "idle"
    /\ \/ value = n /\ TryGoto(n, "renew") /\ UNCHANGED leads
       \/ value = NoValue /\ TryGoto(n, "propose") /\ UNCHANGED leads
       \/ value \notin {n, NoValue} /\ leads[n] /\ TryEnds(n, FALSE)
    /\ UNCHANGED storeVars

Renews(n) ==
    /\ trypc[n] = "renew"
    /\ PutWithLease(n)
    /\ TryEnds(n, TRUE)
    /\ UNCHANGED <<backend, kept, storeFaults>>

\* A node that found no leader puts its name with a lease first.
Proposes(n) ==
    /\ trypc[n] = "propose"
    /\ PutWithLease(n)
    /\ kept' = [kept EXCEPT ![n] = FreshLease]
    /\ TryGoto(n, "swap")
    /\ UNCHANGED <<backend, storeFaults, leads>>

Elected(n) ==
    /\ TryEnds(n, TRUE)
    /\ kept' = [kept EXCEPT ![n] = 0]

\* Then CompareAndSwap of "": the node's own name is there already, unless it was
\* removed in the meantime.  In etcd the swap is a Get and a Put.
Swaps(n) ==
    /\ trypc[n] = "swap"
    /\ \/ value # NoValue /\ TryGoto(n, "withdraw")
            /\ UNCHANGED <<value, attached, live, kept, leads>>
       \/ value = NoValue /\ InMemory /\ PutValue(n) /\ Elected(n)
       \/ value = NoValue /\ ~InMemory /\ TryGoto(n, "swapPut")
            /\ UNCHANGED <<value, attached, live, kept, leads>>
    /\ UNCHANGED <<backend, storeFaults>>

SwapPut(n) ==
    /\ trypc[n] = "swapPut"
    /\ PutValue(n) /\ Elected(n)
    /\ UNCHANGED <<backend, storeFaults>>

\* A proposal that was not swapped in gives its lease back, and the name with it.
Withdraws(n) ==
    /\ trypc[n] = "withdraw"
    /\ LeaseEnds(kept[n])
    /\ kept' = [kept EXCEPT ![n] = 0]
    /\ TryEnds(n, FALSE)
    /\ UNCHANGED <<backend, storeFaults>>

\* An error ends Start; only that of a renewal is noted in isLeader.  The error of the
\* swap is taken for a refusal.
TryFails(n) ==
    /\ StoreFault
    /\ trypc[n] \in {"idle", "renew", "propose", "swap", "swapPut"}
    /\ IF trypc[n] \in {"swap", "swapPut"} THEN TryGoto(n, "withdraw") /\ UNCHANGED leads
       ELSE /\ TryGoto(n, "exited")
            /\ leads' = [leads EXCEPT ![n] = @ /\ trypc[n] # "renew"]
    /\ UNCHANGED <<backend, value, attached, live, kept>>

ElectLeaseExpires(l) ==
    /\ l \in live
    /\ LeaseEnds(l)
    /\ UNCHANGED <<backend, kept, storeFaults, trypc, leads>>

TryStep(n) ==
    TryReads(n) \/ Renews(n) \/ Proposes(n) \/ Swaps(n) \/ SwapPut(n) \/ Withdraws(n)

ElectNext ==
    \/ \E n \in Client : TryStep(n) \/ TryFails(n)
    \/ \E l \in live : ElectLeaseExpires(l)

\* Tickers tick, and leases expire.  A Put with a lease is only kept waiting by the
\* bound on leases.
ElectFairness ==
    /\ \A n \in Client : SF_electVars(TryStep(n))
    /\ \A l \in 1..MaxLeases : WF_electVars(ElectLeaseExpires(l))

ElectSpec == ElectInit /\ [][ElectNext]_electVars /\ ElectFairness

-----------------------------------------------------------------------------
(* What the election promises.                                             *)

\* A node whose key names another does not lead for long: at its next tick it steps
\* down, unless it has the key again, or an error has ended its Start.
LostLeadershipIsSeen ==
    \A n \in Client :
        (leads[n] /\ value # n) ~> (~leads[n] \/ value = n \/ trypc[n] = "exited")
==============================================================================
