------------------------------ MODULE StateStore ------------------------------
(***************************************************************************)
(* One key of distributedstate.StateStore, in its two implementations      *)
(* (src/internal/distributedstate/in_memory.go, etcd.go).  The locks and   *)
(* elections of the package EXTEND this module and call its operators.     *)
(*                                                                         *)
(* In memory every lease that was ever put on the key deletes it when it   *)
(* ends, whoever has put it again since.  In etcd only the lease of the    *)
(* last Put does, and a Put without a lease takes it off.                  *)
(***************************************************************************)
EXTENDS Naturals

CONSTANTS
    Client,
    NoValue,        \* the key is absent: Get answers ""
    MaxLeases,      \* bound: leases in use at a time
    MaxStoreFaults  \* bound: failed calls and crashes of clients, with etcd only

ASSUME StateStoreAssumption == NoValue \notin Client /\ {MaxLeases, MaxStoreFaults} \subseteq Nat

VARIABLES
    backend,    \* the implementation, "memory" or "etcd"
    value,      \* the client the key names
    attached,   \* leases whose end deletes the key
    live,       \* leases that have not ended
    kept,       \* the lease each client remembers, 0 for none
    storeFaults

storeVars == <<backend, value, attached, live, kept, storeFaults>>

InMemory == backend = "memory"

StoreTypeOK ==
    /\ value \in Client \cup {NoValue}
    /\ attached \subseteq live /\ live \subseteq 1..MaxLeases
    /\ InMemory => attached = live
    /\ kept \in [Client -> 0..MaxLeases]

StoreInit ==
    /\ backend \in {"memory", "etcd"}
    /\ value = NoValue
    /\ attached = {} /\ live = {}
    /\ kept = [c \in Client |-> 0]
    /\ storeFaults = 0

\* Put, and the swap of a CompareAndSwap.
PutValue(c) ==
    /\ value' = c
    /\ attached' = IF InMemory THEN attached ELSE {}
    /\ UNCHANGED live

\* A lease's number, which is used again when nobody knows the lease any more.
FreeLeases == (1..MaxLeases) \ (live \cup {kept[c] : c \in Client})
FreshLease == CHOOSE l \in FreeLeases : TRUE

PutWithLease(c) ==
    /\ FreeLeases # {}
    /\ value' = c
    /\ attached' = (IF InMemory THEN attached ELSE {}) \cup {FreshLease}
    /\ live' = live \cup {FreshLease}

\* Mutant: in memory the key goes and its leases stay.
LeaseEndsAlone(l) ==
    /\ value' = value
    /\ attached' = attached \ {l}
    /\ live' = live \ {l}

\* Release or expiry of a lease.
LeaseEnds(l) ==
    /\ value' = IF l \in attached THEN NoValue ELSE value
    /\ attached' = IF InMemory \/ l \notin attached THEN attached \ {l} ELSE {}
    /\ live' = live \ {l}

DeleteValue ==
    /\ value' = NoValue
    /\ attached' = IF InMemory THEN attached ELSE {}
    /\ UNCHANGED live

StoreFault ==
    /\ ~InMemory
    /\ storeFaults < MaxStoreFaults
    /\ storeFaults' = storeFaults + 1
==============================================================================
