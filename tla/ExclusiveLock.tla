---------------------------- MODULE ExclusiveLock ----------------------------
(***************************************************************************)
(* What a lock promises its clients: it is taken only when nobody has it,  *)
(* by one client, and it is free before another takes it.  DistributedLock *)
(* implements it.                                                          *)
(***************************************************************************)
CONSTANT Contender

VARIABLE holders    \* the clients that have the lock

Init == holders = {}

Take(c) == holders = {} /\ holders' = {c}

\* Released, or lost with its lease.
Free == holders # {} /\ holders' = {}

Next == Free \/ \E c \in Contender : Take(c)

Spec == Init /\ [][Next]_holders
==============================================================================
