----------------------------- MODULE PlanApplier -----------------------------
(***************************************************************************)
(* planner.Applier (src/internal/planner/applier.go): the single committer *)
(* that schedulers with stale snapshots submit plans to.  Its methods run  *)
(* under a.mu, so each is one action.  Resources are one quantity of the   *)
(* three.                                                                  *)
(***************************************************************************)
EXTENDS Naturals, Sequences, Functions

CONSTANTS
    PlanNode, AllocID,
    Capacity,       \* totals a node is registered with
    Demand,         \* resources an allocation asks for
    MaxEvictions,   \* bound: the evictions of a plan
    MaxPlacements   \* bound: its allocations

ASSUME ApplierAssumption ==
    /\ Capacity \cup Demand \subseteq Nat
    /\ {MaxEvictions, MaxPlacements} \subseteq Nat

VARIABLES
    total,      \* Total of each registered node
    used,       \* Used
    allocs,     \* Allocations: a function on the IDs placed on the node
    reused,     \* history: IDs placed while an allocation with the ID was there
    shrunk      \* history: nodes whose Total was set below their Used

applierVars == <<total, used, allocs, reused, shrunk>>

Registered == DOMAIN total

ApplierInit ==
    /\ total = <<>> /\ used = <<>> /\ allocs = <<>>
    /\ reused = {} /\ shrunk = {}

With(f, k, v) == [x \in DOMAIN f \cup {k} |-> IF x = k THEN v ELSE f[x]]

UpsertNode(n, size) ==
    /\ total' = With(total, n, size)
    /\ IF n \in Registered
       THEN /\ shrunk' = IF size < used[n] THEN shrunk \cup {n} ELSE shrunk \ {n}
            /\ UNCHANGED <<used, allocs>>
       ELSE /\ used' = With(used, n, 0)
            /\ allocs' = With(allocs, n, <<>>)
            /\ UNCHANGED shrunk
    /\ UNCHANGED reused

\* The state of the nodes that Submit works on.
Placement == [used |-> used, allocs |-> allocs, reused |-> reused]

Holding(s, id) == {n \in Registered : id \in DOMAIN s.allocs[n]}

Clamped(a, b) == IF a > b THEN a - b ELSE 0

\* Mutant: an eviction that credits nothing.
EvictedForFree(s, n, id) ==
    [s EXCEPT !.allocs[n] = [i \in DOMAIN @ \ {id} |-> @[i]]]

Evicted(s, n, id) ==
    [s EXCEPT !.used[n] = Clamped(@, s.allocs[n][id]),
              !.allocs[n] = [i \in DOMAIN @ \ {id} |-> @[i]]]

\* Evictions tolerate unknown IDs, and take an ID from the first node that has it in
\* the order of a Go map.
Evictions(s, id) ==
    IF Holding(s, id) = {} THEN {s} ELSE {Evicted(s, n, id) : n \in Holding(s, id)}

\* Mutant: a node of exactly the size asked for is not looked at for what is left.
FitsTotal(s, a) == total[a.node] >= a.demand

\* n.Available().Fits(alloc.Resources)
Fits(s, a) == Clamped(total[a.node], s.used[a.node]) >= a.demand

Placed(s, a) ==
    IF ~Fits(s, a) THEN s
    ELSE [used |-> [s.used EXCEPT ![a.node] = @ + a.demand],
          allocs |-> [s.allocs EXCEPT ![a.node] = With(@, a.id, a.demand)],
          reused |-> IF Holding(s, a.id) = {} THEN s.reused ELSE s.reused \cup {a.id}]

Request == [id : AllocID, node : PlanNode, demand : Demand]

\* What a sequence of evictions may leave, and what the placements make of it, in order.
AfterEvictions(evict) ==
    LET after[i \in 0..Len(evict)] ==
            IF i = 0 THEN {Placement} ELSE UNION {Evictions(s, evict[i]) : s \in after[i - 1]}
    IN  after[Len(evict)]

AfterPlacements(start, add) ==
    LET after[i \in 0..Len(add)] == IF i = 0 THEN start ELSE Placed(after[i - 1], add[i])
    IN  after[Len(add)]

\* A plan that names an unknown node is refused as a whole; the others evict first,
\* and place in order what fits.
Submit(evict, add) ==
    /\ \A i \in DOMAIN add : add[i].node \in Registered
    /\ \E s \in AfterEvictions(evict) :
        LET done == AfterPlacements(s, add)
        IN  /\ used' = done.used
            /\ allocs' = done.allocs
            /\ reused' = done.reused
    /\ UNCHANGED <<total, shrunk>>

ListsOf(S, max) == UNION {[1..n -> S] : n \in 0..max}

ApplierNext ==
    \/ \E n \in PlanNode, size \in Capacity : UpsertNode(n, size)
    \/ \E evict \in ListsOf(AllocID, MaxEvictions), add \in ListsOf(Request, MaxPlacements) :
        Submit(evict, add)

ApplierSpec == ApplierInit /\ [][ApplierNext]_applierVars

-----------------------------------------------------------------------------
(* What the applier promises.                                              *)

Charged(n) == SumFunction(allocs[n])

\* "Used is the sum of committed-allocation resources": on every node it covers what
\* is placed there, and equals it unless an ID was placed twice.
UsedCoversAllocations ==
    \A n \in Registered :
        /\ used[n] >= Charged(n)
        /\ reused = {} => used[n] = Charged(n)

\* However stale the snapshots of the schedulers are, no node is given more than it
\* has, unless its capacity was lowered under what it ran.
NotOvercommitted == \A n \in Registered \ shrunk : Charged(n) <= total[n]
==============================================================================
